\* atomic_write_json with an OSError, a kill or a power loss at every step,
\* over three calls: the writer implements the abstract snapshot file.
CONSTANT MaxWrites = 3
SPECIFICATION Spec
INVARIANT ReaderSeesCompleteFile
PROPERTY ImplementsAtomicSnapshot
