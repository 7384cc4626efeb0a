SPECIFICATION CallSpec
CONSTANTS
    foreach = foreach
    readAsync = readAsync
    watch = watch
    Functions = {foreach, readAsync, watch}
    Signature <- Signatures
    NoFunction = NoFunction
    Closures = {c1, c2}
    NoClosure = NoClosure
    Objects = {o1}
    NoObject = NoObject
    MaxDepth = 3
SYMMETRY Symmetry
INVARIANTS
    KeepsWhatCTook
CHECK_DEADLOCK FALSE
