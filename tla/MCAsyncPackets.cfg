SPECIFICATION FairSpec
CONSTANTS
    Sessions = {s1, s2, s3}
    MaxTicks = 3
    NoSession = NoSession
INVARIANTS
    NoErasedSession
    NoPacketsDuringPause
    NoPacketsAfterShutdown
PROPERTIES
    PauseIsGranted
    StopEndsBoth
