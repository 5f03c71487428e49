------------------------- MODULE MC_StabilityScore -------------------------
(***************************************************************************)
(* Instances of StabilityScore for TLC.  The well-formed domain has the   *)
(* boundaries of the normalisation: 0, exactly 1.0 (100), a fraction,     *)
(* a percentage, exactly 100.0 (10000) and a value above it, a numeric    *)
(* string, and values float() rejects.                                    *)
(***************************************************************************)
EXTENDS StabilityScore

V(t, n) == [t |-> t, n |-> n]

MCTopKinds == {"dict"}
MCConvKinds == {"falsy", "dict"}
MCVals ==
    {Null, V("str", 0), V("obj", 0), V("num", 0), V("num", 82),
     V("num", 100), V("num", 9100), V("num", 10000), V("num", 15000),
     V("numstr", 82)}

(* Documents that are not objects, or whose "convergence" is a truthy    *)
(* non-object.                                                             *)
MCBadTopKinds == {"dict", "list", "number"}
MCBadConvKinds == {"falsy", "dict", "scalar"}
MCSmallVals == {Null, V("num", 82)}

(* A negative number in a candidate field. *)
MCNegVals == {Null, V("num", 82), V("num", -50)}
=============================================================================
