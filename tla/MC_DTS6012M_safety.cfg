\* Resynchronisation and decoding under line noise and a sensor power cycle.
CONSTANTS
    Kinds <- AllKinds
    Chunks = {14}
    RxCap = 24
    MaxFaults = 1
    MaxResets = 1
    Faults <- LineAndReset
SPECIFICATION Spec
INVARIANTS
    TypeOK
    DecodesPrimaryDistance
PROPERTIES
    ResyncKeepsFrameStarts
    ReadsWhileStreaming
