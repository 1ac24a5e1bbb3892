------------------------------- MODULE WsProxy -------------------------------
(***************************************************************************)
(* Proxy.serverWs (src/internal/proxy/proxy_ws.go): the request phase,   *)
(* the dial to the backend, the upgrade of the client connection, and the *)
(* hijack handler with its two replicateWebsocketConn goroutines:         *)
(* "up" copies client -> backend and reports on errBackend, "down" copies *)
(* backend -> client and reports on errClient.  The handler's loop takes  *)
(* the errors off the two channels.                                        *)
(*                                                                         *)
(* Each connection is a FIFO of frames per direction: a data frame (0),  *)
(* or a close frame, which is its close code.  The gorilla connection's   *)
(* rules are kept: ReadMessage on a close frame replies with a close      *)
(* frame of the same code (unless one was sent) and returns a CloseError  *)
(* with that code; once a close frame was sent a write fails              *)
(* (ErrCloseSent); a read from a peer that closed TCP fails once its      *)
(* frames are drained; a write to it fails.  The peers (the browser and   *)
(* the backend) send data and close frames, answer a close with its code, *)
(* hang up after the handshake, or drop the connection at any time.       *)
(***************************************************************************)
EXTENDS Integers, Sequences

CONSTANTS
    MaxMsgs,    \* bound on data frames each peer sends
    PeerCodes   \* the close codes a peer may send (1000..4999)

Peers  == {"client", "backend"}
Relays == {"up", "down"}
Src(r) == IF r = "up" THEN "client" ELSE "backend"
Dst(r) == IF r = "up" THEN "backend" ELSE "client"
Other(p) == IF p = "client" THEN "backend" ELSE "client"

VARIABLES
    stage,      \* serverWs: "reqcall", "dial", "upgrade", "relay", "returned"
    status,     \* status of the HTTP answer when there was no upgrade
    out,        \* peer -> frames it sent towards the gateway, not yet read
    in,         \* peer -> frames the gateway wrote to it, not yet read
    sent,       \* peer -> data frames sent
    recv,       \* peer -> data frames read
    code,       \* peer -> the code of the close frame it sent (0: none)
    closeSent,  \* peer -> the peer sent a close frame
    gotClose,   \* peer -> the peer read a close frame
    hungUp,     \* peer -> the peer closed its TCP connection
    gwClosed,   \* peer -> the gateway wrote a close frame on that connection
    rs,         \* relay -> "idle", "read", "write", "done"
    errs,       \* relay -> errors buffered in its channel (capacity 1)
    handler     \* the hijack handler: "none", "loop", or "closed"

vars == <<stage, status, out, in, sent, recv, code, closeSent, gotClose, hungUp, gwClosed, rs, errs, handler>>
peerVars == <<sent, recv, code, closeSent, gotClose, hungUp>>

\* websocket.CloseAbnormalClosure, which the relay sends for an error that is no CloseError.
CloseAbnormalClosure == 1006

DataFrame == 0

Frame == {DataFrame} \cup PeerCodes \cup {CloseAbnormalClosure}
IsClose(f) == f # DataFrame

-----------------------------------------------------------------------------
Init ==
    /\ stage = "reqcall"
    /\ status = 0
    /\ out = [p \in Peers |-> <<>>]
    /\ in = [p \in Peers |-> <<>>]
    /\ sent = [p \in Peers |-> 0]
    /\ recv = [p \in Peers |-> 0]
    /\ code = [p \in Peers |-> 0]
    /\ closeSent = [p \in Peers |-> FALSE]
    /\ gotClose = [p \in Peers |-> FALSE]
    /\ hungUp = [p \in Peers |-> FALSE]
    /\ gwClosed = [p \in Peers |-> FALSE]
    /\ rs = [r \in Relays |-> "idle"]
    /\ errs = [r \in Relays |-> 0]
    /\ handler = "none"

(* PrepareConf and HTTPReqCall: an error goes to respToClient (a 0/200    *)
(* status becomes 500; limit-req sets 503), a non-200 status is answered  *)
(* as it is, otherwise go on to dial.                                      *)
ReqCall ==
    /\ stage = "reqcall"
    /\ \/ stage' = "dial" /\ UNCHANGED status
       \/ stage' = "returned" /\ status' = 403
       \/ stage' = "returned" /\ \E st \in {200, 503} : status' = IF st = 200 THEN 500 ELSE st
    /\ UNCHANGED <<out, in, peerVars, gwClosed, rs, errs, handler>>

(* dialer.Dial: success; a refused handshake with the backend's response, *)
(* which wsCopyResponse copies into the local resp that is then released, *)
(* so ctx.Response keeps its default 200; no response: ctx.Error 503.     *)
Dial ==
    /\ stage = "dial"
    /\ \/ stage' = "upgrade" /\ UNCHANGED status
       \/ stage' = "returned" /\ status' = 200
       \/ stage' = "returned" /\ status' = 503
    /\ UNCHANGED <<out, in, peerVars, gwClosed, rs, errs, handler>>

(* upgrader.Upgrade: on success the handler starts the two relays (it   *)
(* runs once serverWs has returned); on failure serverWs returns with the *)
(* upgrader's 400 and connBackend is never closed.                        *)
Upgrade ==
    /\ stage = "upgrade"
    /\ \/ /\ stage' = "relay" /\ handler' = "loop"
          /\ rs' = [r \in Relays |-> "read"]
          /\ UNCHANGED status
       \/ /\ stage' = "returned" /\ status' = 400
          /\ UNCHANGED <<handler, rs>>
    /\ UNCHANGED <<out, in, peerVars, gwClosed, errs>>

(* conn.WriteMessage(CloseMessage, FormatCloseMessage(c, ...)) on the    *)
(* connection to peer p, on the pair <<in, gwClosed>>: ErrCloseSent once  *)
(* a close frame was sent, an error once p hung up; otherwise the frame   *)
(* is sent.                                                                *)
CloseOn(st, p, c) ==
    IF st[2][p] \/ hungUp[p] THEN st
    ELSE <<[st[1] EXCEPT ![p] = Append(@, c)], [st[2] EXCEPT ![p] = TRUE]>>

\* Fault model: the relay ends on a read error without telling dst.
ForwardCloseDropped(st, r, c) == st

\* Fault model: the close forwarded as a normal closure, whatever src sent.
ForwardCloseNormal(st, r, c) == CloseOn(st, Dst(r), 1000)

(* replicateWebsocketConn after a read error: msg is FormatCloseMessage   *)
(* of the CloseError's code, or of CloseAbnormalClosure for any other     *)
(* error, and dst.WriteMessage(CloseMessage, msg).                         *)
ForwardClose(st, r, c) == CloseOn(st, Dst(r), c)

(* src.ReadMessage of a data frame: go on to write it.                    *)
ReadData(r) ==
    /\ rs[r] = "read"
    /\ out[Src(r)] # <<>> /\ ~IsClose(Head(out[Src(r)]))
    /\ out' = [out EXCEPT ![Src(r)] = Tail(@)]
    /\ rs' = [rs EXCEPT ![r] = "write"]
    /\ UNCHANGED <<stage, status, in, peerVars, gwClosed, errs, handler>>

(* src.ReadMessage fails: a close frame (gorilla answers it on src and    *)
(* returns a CloseError) or a hang-up once the frames are drained.  The   *)
(* relay sends the error on its channel, writes a close frame to dst (an  *)
(* error there is only logged) and breaks.                                 *)
ReadError(r) ==
    /\ rs[r] = "read"
    /\ \/ out[Src(r)] # <<>> /\ IsClose(Head(out[Src(r)]))
       \/ out[Src(r)] = <<>> /\ hungUp[Src(r)]
    /\ out' = [out EXCEPT ![Src(r)] = IF @ = <<>> THEN @ ELSE Tail(@)]
    /\ LET closed   == out[Src(r)] # <<>>
           c        == IF closed THEN Head(out[Src(r)]) ELSE CloseAbnormalClosure
           answered == IF closed THEN CloseOn(<<in, gwClosed>>, Src(r), c)
                       ELSE <<in, gwClosed>>
           st       == ForwardClose(answered, r, c)
       IN  in' = st[1] /\ gwClosed' = st[2]
    /\ errs' = [errs EXCEPT ![r] = 1]
    /\ rs' = [rs EXCEPT ![r] = "done"]
    /\ UNCHANGED <<stage, status, peerVars, handler>>

(* dst.WriteMessage of the frame read: it fails once dst hung up or the  *)
(* gateway sent dst a close frame; then the error goes on the channel    *)
(* and the relay breaks.                                                   *)
Write(r) ==
    /\ rs[r] = "write"
    /\ LET d == Dst(r) IN
         IF gwClosed[d] \/ hungUp[d]
         THEN /\ errs' = [errs EXCEPT ![r] = 1]
              /\ rs' = [rs EXCEPT ![r] = "done"]
              /\ UNCHANGED in
         ELSE /\ in' = [in EXCEPT ![d] = Append(@, DataFrame)]
              /\ rs' = [rs EXCEPT ![r] = "read"]
              /\ UNCHANGED errs
    /\ UNCHANGED <<stage, status, out, peerVars, gwClosed, handler>>

(* The handler's for-select: take an error from either channel, log it,  *)
(* and select again.  The loop has no exit.                                *)
HandlerSelect ==
    /\ handler = "loop"
    /\ \E r \in Relays :
          /\ errs[r] = 1
          /\ errs' = [errs EXCEPT ![r] = 0]
    /\ UNCHANGED <<stage, status, out, in, peerVars, gwClosed, rs, handler>>

-----------------------------------------------------------------------------
(* The peers.                                                              *)
PeerSend(p) ==
    /\ stage = "relay" /\ ~closeSent[p] /\ ~hungUp[p] /\ sent[p] < MaxMsgs
    /\ out' = [out EXCEPT ![p] = Append(@, DataFrame)]
    /\ sent' = [sent EXCEPT ![p] = @ + 1]
    /\ UNCHANGED <<stage, status, in, recv, code, closeSent, gotClose, hungUp, gwClosed, rs, errs, handler>>

PeerClose(p) ==
    /\ stage = "relay" /\ ~closeSent[p] /\ ~hungUp[p]
    /\ \E c \in PeerCodes :
          /\ out' = [out EXCEPT ![p] = Append(@, c)]
          /\ code' = [code EXCEPT ![p] = c]
    /\ closeSent' = [closeSent EXCEPT ![p] = TRUE]
    /\ UNCHANGED <<stage, status, in, sent, recv, gotClose, hungUp, gwClosed, rs, errs, handler>>

\* A peer reads a frame; a close frame is answered with one of its code.
PeerRead(p) ==
    /\ in[p] # <<>> /\ ~hungUp[p]
    /\ in' = [in EXCEPT ![p] = Tail(@)]
    /\ LET f == Head(in[p]) IN
       IF IsClose(f)
       THEN /\ gotClose' = [gotClose EXCEPT ![p] = TRUE]
            /\ UNCHANGED recv
            /\ IF closeSent[p] THEN UNCHANGED <<out, code, closeSent>>
               ELSE /\ out' = [out EXCEPT ![p] = Append(@, f)]
                    /\ code' = [code EXCEPT ![p] = f]
                    /\ closeSent' = [closeSent EXCEPT ![p] = TRUE]
       ELSE /\ recv' = [recv EXCEPT ![p] = @ + 1]
            /\ UNCHANGED <<out, code, gotClose, closeSent>>
    /\ UNCHANGED <<stage, status, sent, hungUp, gwClosed, rs, errs, handler>>

\* After the close handshake the peer closes its TCP connection.
PeerHangUp(p) ==
    /\ closeSent[p] /\ gotClose[p] /\ ~hungUp[p]
    /\ hungUp' = [hungUp EXCEPT ![p] = TRUE]
    /\ UNCHANGED <<stage, status, out, in, sent, recv, code, closeSent, gotClose, gwClosed, rs, errs, handler>>

\* The connection drops (network failure, the peer crashes).
PeerDrop(p) ==
    /\ stage = "relay" /\ ~hungUp[p]
    /\ hungUp' = [hungUp EXCEPT ![p] = TRUE]
    /\ UNCHANGED <<stage, status, out, in, sent, recv, code, closeSent, gotClose, gwClosed, rs, errs, handler>>

Next ==
    \/ ReqCall \/ Dial \/ Upgrade \/ HandlerSelect
    \/ \E r \in Relays : ReadData(r) \/ ReadError(r) \/ Write(r)
    \/ \E p \in Peers : PeerSend(p) \/ PeerClose(p) \/ PeerRead(p) \/ PeerHangUp(p) \/ PeerDrop(p)

(* The gateway's goroutines are scheduled, and a peer keeps reading and   *)
(* hangs up after the handshake; sending, closing and dropping are the    *)
(* peers' choice.                                                          *)
Fairness ==
    /\ WF_vars(ReqCall) /\ WF_vars(Dial) /\ WF_vars(Upgrade) /\ WF_vars(HandlerSelect)
    /\ \A r \in Relays : WF_vars(ReadData(r)) /\ WF_vars(ReadError(r)) /\ WF_vars(Write(r))
    /\ \A p \in Peers : WF_vars(PeerRead(p)) /\ WF_vars(PeerHangUp(p))

Spec == Init /\ [][Next]_vars /\ Fairness

-----------------------------------------------------------------------------
TypeOK ==
    /\ stage \in {"reqcall", "dial", "upgrade", "relay", "returned"}
    /\ status \in {0, 200, 400, 403, 500, 503}
    /\ out \in [Peers -> Seq(Frame)] /\ in \in [Peers -> Seq(Frame)]
    /\ sent \in [Peers -> 0..MaxMsgs] /\ recv \in [Peers -> 0..MaxMsgs]
    /\ code \in [Peers -> {0} \cup PeerCodes \cup {CloseAbnormalClosure}]
    /\ rs \in [Relays -> {"idle", "read", "write", "done"}]
    /\ errs \in [Relays -> 0..1]
    /\ handler \in {"none", "loop", "closed"}
    /\ \A p \in Peers : Len(SelectSeq(in[p], IsClose)) <= 1

(* Spec 4.5: the relay propagates a close "with the originating close     *)
(* code" to the other side.  When a peer that has not closed reads the    *)
(* close frame the gateway sent it, it has read, before it, every data    *)
(* frame the other peer sent, and the frame carries the code the other    *)
(* peer closed with, or CloseAbnormalClosure when the other peer dropped  *)
(* its connection without a close.  This is replicateWebsocketConn's      *)
(* read-write loop and its close forwarding, racing the opposite relay's  *)
(* reply to a close and both peers' closes and drops.                      *)
CloseCarriesOrigin ==
    [][\A q \in Peers :
         (in[q] # <<>> /\ IsClose(Head(in[q])) /\ ~gotClose[q] /\ gotClose'[q] /\ ~closeSent[q])
            => /\ recv[q] = sent[Other(q)]
               /\ Head(in[q]) = IF closeSent[Other(q)] THEN code[Other(q)]
                                ELSE CloseAbnormalClosure]_vars

(* Closing either side of a proxied websocket closes the other: once a    *)
(* peer sent a close frame or dropped its connection, the other peer      *)
(* eventually reads a close frame, unless it hung up itself.              *)
ClosePropagates ==
    \A p \in Peers :
        (stage = "relay" /\ (closeSent[p] \/ hungUp[p]))
            ~> (gotClose[Other(p)] \/ hungUp[Other(p)])

(* Once both relay goroutines have ended, the handler returns, and its    *)
(* deferred connPub.Close releases the client connection.                  *)
HandlerReturns ==
    (\A r \in Relays : rs[r] = "done") ~> handler = "closed"
=============================================================================
