SPECIFICATION ChatSpec
CONSTANTS
  c1 = c1
  c2 = c2
  s1 = s1
  s2 = s2
  Call = {c1}
  MaxKey = 1
  Sources = {s1, s2}
  Model = m
  Requests <- MCRequests
  Replies = {"ok", "misshapen", "payment", "denied", "busy", "timeout"}
  MaxRetries = 1
  MaxBeats = 1
INVARIANTS
  PaymentsBounded
  StreamWellFormed
PROPERTIES
  ModelLeftAlone
  ChatEnds
