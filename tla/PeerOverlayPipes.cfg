SPECIFICATION Spec
CONSTANTS
    MaxPackets = 0
    MaxRestarts = 0
    BatchMax = 2
    PipeCap = 1
    PostCap = 1
PROPERTY
    EachOwnsPipe
CHECK_DEADLOCK FALSE
