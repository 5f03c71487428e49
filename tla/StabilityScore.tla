--------------------------- MODULE StabilityScore ---------------------------
(***************************************************************************)
(* The convergence oracle client of apr_auto.py: read_stability_score runs *)
(* `apr stats --export json` and hands the parsed document to             *)
(* _extract_stability_score, which returns a percentage or None.          *)
(*                                                                         *)
(* A JSON value is abstracted to its kind and, for the kinds float()      *)
(* accepts, its number in hundredths (82 stands for 0.82, 9100 for 91.0). *)
(* Scores are returned in hundredths of a percent, so that both branches  *)
(* of the normalisation stay integers.  The document is chosen once, the  *)
(* read is one step: the function is pure, and the property compares it  *)
(* with the contract of spec section 4.5 on every document of the domain. *)
(***************************************************************************)
EXTENDS Integers, Sequences, FiniteSets

CONSTANTS
    TopKinds,    \* what json.loads returned: "dict", "list" or "number"
    ConvKinds,   \* data["convergence"]: "falsy" (missing, null, 0, {}...),
                 \* "dict", or "scalar" (a truthy non-dict such as 0.9)
    Vals,        \* the values a candidate field may hold
    Unread,      \* no score read yet
    NoScore,     \* None
    Raised       \* an exception escapes _extract_stability_score

(* A field value: "null" (absent or null), "bool", "num" (a JSON number),  *)
(* "numstr" (a string float() parses), "str" (one it rejects), "obj".      *)
ValKinds == {"null", "bool", "num", "numstr", "str", "obj"}
Null == [t |-> "null", n |-> 0]

ASSUME KindsAssumption ==
    /\ TopKinds \subseteq {"dict", "list", "number"}
    /\ ConvKinds \subseteq {"falsy", "dict", "scalar"}
    /\ Vals \subseteq [t : ValKinds, n : Int]
    /\ Null \in Vals

InnerKeys == {"score", "confidence", "stability_score"}
OuterKeys == {"convergence_score", "stability_score"}

(* Inner fields only matter when data["convergence"] is a dict. *)
Docs ==
    [top : TopKinds, conv : ConvKinds \ {"dict"},
     inner : {[k \in InnerKeys |-> Null]}, outer : [OuterKeys -> Vals]]
    \cup
    (IF "dict" \in ConvKinds
     THEN [top : TopKinds, conv : {"dict"},
           inner : [InnerKeys -> Vals], outer : [OuterKeys -> Vals]]
     ELSE {})

(* The outcome of the `apr stats` subprocess. *)
StatsOutcomes == {"timeout", "exit_nonzero", "bad_json", "ok"}

VARIABLES
    data,    \* the document apr stats exports
    stats,   \* how the subprocess ended
    score    \* what read_stability_score returned

vars == <<data, stats, score>>

-----------------------------------------------------------------------------
(* The candidates in the order of the list in _extract_stability_score;  *)
(* conv = data.get("convergence") or {} reads nothing when falsy.         *)
Candidates(d) ==
    << d.inner["score"], d.inner["confidence"], d.inner["stability_score"],
       d.outer["convergence_score"], d.outer["stability_score"] >>

(* float(raw) succeeds: numbers, booleans and numeric strings. *)
Parses(v) == v.t \in {"bool", "num", "numstr"}

(* Mutant: a fraction is recognised with < 1.0 instead of <= 1.0. *)
ExtractStabilityScoreStrict(d) ==
    LET c == Candidates(d)
        scan[i \in 1..6] ==
            IF i = 6 THEN NoScore
            ELSE IF ~Parses(c[i]) THEN scan[i + 1]
            ELSE IF c[i].n < 100 THEN c[i].n * 100
            ELSE IF c[i].n <= 10000 THEN c[i].n
            ELSE scan[i + 1]
    IN  IF d.top # "dict" \/ d.conv = "scalar" THEN Raised ELSE scan[1]

(***************************************************************************)
(* _extract_stability_score: data.get / conv.get raise AttributeError on  *)
(* a non-dict; then the first candidate float() accepts with val <= 1.0   *)
(* is scaled by 100, one with val <= 100.0 is returned as it is, and a    *)
(* larger one is skipped (continue).                                      *)
(***************************************************************************)
ExtractStabilityScore(d) ==
    LET c == Candidates(d)
        scan[i \in 1..6] ==
            IF i = 6 THEN NoScore
            ELSE IF ~Parses(c[i]) THEN scan[i + 1]
            ELSE IF c[i].n <= 100 THEN c[i].n * 100
            ELSE IF c[i].n <= 10000 THEN c[i].n
            ELSE scan[i + 1]
    IN  IF d.top # "dict" \/ d.conv = "scalar" THEN Raised ELSE scan[1]

Init ==
    /\ data \in Docs
    /\ stats \in StatsOutcomes
    /\ score = Unread

(* read_stability_score: every failure of the subprocess or of json.loads *)
(* is None; otherwise the extraction decides.                              *)
ReadStabilityScore ==
    /\ score = Unread
    /\ score' = IF stats = "ok" THEN ExtractStabilityScore(data) ELSE NoScore
    /\ UNCHANGED <<data, stats>>

Next == ReadStabilityScore

Spec == Init /\ [][Next]_vars

-----------------------------------------------------------------------------
(***************************************************************************)
(* The contract of spec section 4.5, written independently of the loop:  *)
(* a value is interpretable when it is numeric and in 0..100 as a         *)
(* fraction or a percentage; the score is the normalised first            *)
(* interpretable candidate, None when there is none or the document is   *)
(* not an object.                                                          *)
(***************************************************************************)
Interpretable(v) == v.t \in {"num", "numstr"} /\ 0 <= v.n /\ v.n <= 10000

Normalised(v) == IF v.n <= 100 THEN v.n * 100 ELSE v.n

ContractScore(d) ==
    LET c == Candidates(d)
        found == {i \in 1..5 : Interpretable(c[i])}
    IN  IF d.top # "dict" \/ d.conv = "scalar" \/ found = {} THEN NoScore
        ELSE Normalised(c[CHOOSE i \in found : \A j \in found : i <= j])

(***************************************************************************)
(* Once read, the score is the one the contract gives for the document   *)
(* apr stats exported (None when the subprocess failed): the field order, *)
(* the skipping of unparsable and out-of-range values and the fraction /  *)
(* percentage boundary at exactly 1.0 of _extract_stability_score.        *)
(***************************************************************************)
ScoreMatchesContract ==
    score # Unread =>
        score = IF stats = "ok" THEN ContractScore(data) ELSE NoScore

(***************************************************************************)
(* Spec section 4.5: read_score never raises.  About the data.get and     *)
(* conv.get calls of _extract_stability_score on a non-object document.   *)
(***************************************************************************)
ScoreNeverRaises == score # Raised

(***************************************************************************)
(* Spec section 4.5: the score is a 0-100 percentage or None.  About the  *)
(* val <= 1.0 branch, which also takes negative values.                   *)
(***************************************************************************)
ScoreIsPercentage == score \in Int => 0 <= score /\ score <= 10000

=============================================================================
