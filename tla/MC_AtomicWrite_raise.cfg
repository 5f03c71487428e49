\* The mkdir before the try of atomic_write_json: does an OSError escape?
CONSTANT MaxWrites = 2
SPECIFICATION Spec
INVARIANT WriteNeverRaises
