CONSTANTS
    Sender = {g1, g2}
    Runner = runner
    SendCap = 2
    RecvCap = 1
    MaxEvents = 3
    MaxMessages = 2
SPECIFICATION MCFairSpec
INVARIANTS
    TerminalIsLast
PROPERTIES
    PeerSeesEventStream
    SessionsWindDown
