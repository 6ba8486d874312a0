CONSTANTS
    Sessions = {s1, s2}
    MaxSessions = 1
    Idle = Idle
    KVMayFail = TRUE
SPECIFICATION MCFairSpec
INVARIANTS
    UntrackedIsCancelled
    NoKeyLeft
    TrackedIsVisible
PROPERTIES
    SlotsComeBack
