\* A sensor that power-cycles after the first reading is never restarted.
CONSTANTS
    Kinds <- AllKinds
    Chunks = {14}
    RxCap = 24
    MaxFaults = 0
    MaxResets = 1
    Faults <- LineAndReset
SPECIFICATION Spec
PROPERTIES
    KeepsReading
