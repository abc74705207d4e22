CONSTANTS
    p1 = p1
    p2 = p2
    p3 = p3
    Pieces = {p1, p2, p3}
    NoIndex = NoIndex
SPECIFICATION Spec
INVARIANT ResumeSound
INVARIANT Durable
PROPERTY BitfieldFileGrows
