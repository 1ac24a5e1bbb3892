CONSTANT MaxMsgs = 1
CONSTANT PeerCodes = {1000, 4000}
SPECIFICATION Spec
PROPERTY HandlerReturns
CHECK_DEADLOCK FALSE
