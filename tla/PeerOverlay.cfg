SPECIFICATION Spec
CONSTANTS
    MaxPackets = 2
    MaxRestarts = 1
    BatchMax = 2
    PipeCap = 1
    PostCap = 1
INVARIANTS
    AttachedToPeer
    InflightIsTask
    PacketsKept
    SessionOwnsPort
PROPERTIES
    HandshakeEnds
CHECK_DEADLOCK FALSE
