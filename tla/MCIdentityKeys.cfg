SPECIFICATION KeysSpec
CONSTANTS
    w1 = w1
    w2 = w2
    th1 = th1
    th2 = th2
    d1 = d1
    alice = alice
    bob = bob
    Worker = {w1}
    Thread = {th1, th2}
    Device = {d1}
    AccessLife = 2
    RefreshLife = 6
    JwtLife = 2
    CodeLife = 1
    LoginLife = 1
    CallLife = 1
    CleanupEvery = 2
    SharedKey = TRUE
    MaxTime = 3
    MaxHeld = 1
    Process = {w1, w2}
    User = {alice, bob}
    MaxKey = 2
    MaxTokens = 1
INVARIANTS TokensVerify
PROPERTIES LockComesFree
