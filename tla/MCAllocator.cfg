CONSTANTS
    BufferHead = 2
    BufferTail = 7
    Alignments = {1, 2}
    Modulus = 8
    MaxTemps = 2
SPECIFICATION AllocatorSpec
INVARIANTS
    AllocatorTypeOK
    SectionsApart
