\* Two data frames from each peer: one in flight in a relay while the next
\* is queued when the other side closes, and a close racing a write.  Two
\* close codes, so a close answered with the wrong peer's code shows.
CONSTANT MaxMsgs = 2
CONSTANT PeerCodes = {1000, 4000}
SPECIFICATION Spec
PROPERTY ClosePropagates CloseCarriesOrigin
\* serverWs returns on its error paths, and the relay ends when both
\* connections are closed: a behaviour may stop.
CHECK_DEADLOCK FALSE
