SPECIFICATION EvidenceSpec
CONSTANTS
    Payload = 1
    MaxStdout = 2
    MaxStderr = 1
    StdoutBytes = 1
    StderrBytes = 1
    CombinedCap = 1
    Productive = 1
    Deadline = 2
    MaxBlobs = 8
 
PROPERTY CallEnds
CHECK_DEADLOCK FALSE
