CONSTANTS
  Source = {g1, runner}
  Runner = runner
  Published = {"event", "request_input", "session.completed"}
  MaxSpaceEvents = 3
  MaxUserMessages = 1
  NatsMayFail = TRUE
SPECIFICATION MCFairSpec
INVARIANTS SubscribedInTime
PROPERTIES ClientSeesEventStream FinalEndsSession
