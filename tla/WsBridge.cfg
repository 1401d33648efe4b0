SPECIFICATION Spec
CONSTANTS Script <- Talk  Starts <- Mounts
INVARIANTS InOrder LastWords
PROPERTY BridgesEnd
CHECK_DEADLOCK FALSE
