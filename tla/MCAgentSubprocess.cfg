CONSTANTS
  Bridge = bridge
  Sender = {bridge}
  Runner = runner
  Written = {"request_input", "session.completed", "junk", "long"}
  SendCap = 1
  RecvCap = 1
  MaxEvents = 3
  MaxMessages = 1
  PipeCap = 1
  StdinCap = 1
SPECIFICATION MCFairSpec
PROPERTIES SendsWithinHandler BridgeWindsDown
