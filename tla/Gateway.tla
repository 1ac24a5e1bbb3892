------------------------------ MODULE Gateway ------------------------------
(***************************************************************************)
(* The HTTP data path: ProxyHandler (src/internal/serve/listen.go) picks   *)
(* a route from the route GenericStore's cache, Proxy.serverHttp          *)
(* (src/internal/proxy/proxy_http.go) prepares the route's plugin         *)
(* configuration in the ConfCache (src/internal/apisix/plugins/conf.go),  *)
(* runs the request phase, forwards to the backend, runs the response     *)
(* phase and answers.  The route store's watch relay calls WatchRoute,    *)
(* which drops the route's ConfCache entry after each Put or Delete.      *)
(*                                                                         *)
(* The route store is ConfigStore itself (INSTANCE); this module adds the *)
(* relay's callback, the ConfCache and the in-flight requests.  A ConfCache*)
(* entry is abstracted to the stored route record its plugins were parsed *)
(* from; plugin and backend behaviour are abstracted to their outcomes.   *)
(***************************************************************************)
EXTENDS Naturals, Sequences, FiniteSets

CONSTANTS Keys, Writers, NoVal, MaxRev, InitRacesWrites, AllowMalformed, ForeignIDs,
          Schema, Bodies,  \* the route store's validator input, as in ConfigStore
          Requests   \* concurrent inbound HTTP requests (one goroutine each)

VARIABLES etcd, rev, watchQ, watching, phase, cache, wpc,
          relayPend, \* key whose WatchEventPut/Delete callback is due, or NoVal
          conf,      \* ConfCache: route key -> route record parsed into it, or NoVal
          req        \* per request: its progress through serverHttp

Store == INSTANCE ConfigStore

storeVars == <<etcd, rev, watchQ, watching, phase, cache, wpc>>
gwVars == <<etcd, rev, watchQ, watching, phase, cache, wpc, relayPend, conf, req>>

\* Status codes the data path can produce.
Status == {0, 200, 403, 404, 500, 503}

ReqState == [pc : {"idle", "prepare", "reqcall", "forward", "respcall", "done"},
             key : Keys \cup {NoVal},
             route : Store!Rec \cup {NoVal},  \* route matched by ProxyHandler
             used : Store!Rec \cup {NoVal},   \* RuleConf the request phase ran
             resp : Status,                   \* status of serverHttp's resp
             ctxStatus : Status,              \* status a response filter set on ctx.Response
             err : BOOLEAN,                   \* respToClient was called with an error
             status : Status]                 \* status sent to the client

TypeOK ==
    /\ Store!TypeOK
    /\ relayPend \in Keys \cup {NoVal}
    /\ conf \in [Keys -> Store!Rec \cup {NoVal}]
    /\ req \in [Requests -> ReqState]

-----------------------------------------------------------------------------
(* Route store steps.  The relay applies one event; for a Put that parsed *)
(* or a Delete it then calls WatchRoute, a separate step under the        *)
(* ConfCache lock, before it takes the next event.                        *)
RelayEvent ==
    /\ relayPend = NoVal
    /\ Store!Relay
    /\ LET e == Head(watchQ) IN
         relayPend' = IF e.type = "put" /\ Store!Malformed(e.rec) THEN NoVal ELSE e.key
    /\ UNCHANGED <<conf, req>>

\* Fault model: a callback that leaves the relay waiting for it.
WatchCallbackStuck ==
    /\ relayPend # NoVal
    /\ conf' = [conf EXCEPT ![relayPend] = NoVal]
    /\ UNCHANGED <<storeVars, relayPend, req>>

\* WatchRoute.WatchEventPut / WatchEventDelete: ConfCache.Delete(key).
WatchCallback ==
    /\ relayPend # NoVal
    /\ conf' = [conf EXCEPT ![relayPend] = NoVal]
    /\ relayPend' = NoVal
    /\ UNCHANGED <<storeVars, req>>

(* The ttlcache drops an entry once its TTL (60 minutes, extended on      *)
(* every Get since SkipTTLExtensionOnHit(false)) passes without a hit.    *)
(* Time is not modelled: the entry may expire at any step, such as while  *)
(* a request waits on the backend between its two GetRuleConf calls.     *)
Expire ==
    /\ \E k \in Keys :
          /\ conf[k] # NoVal
          /\ conf' = [conf EXCEPT ![k] = NoVal]
    /\ UNCHANGED <<storeVars, relayPend, req>>

\* GenericStore.Init on the starting goroutine, before the listener opens.
InitList == Store!InitList /\ UNCHANGED <<relayPend, conf, req>>
InitWatch == Store!InitWatch /\ UNCHANGED <<relayPend, conf, req>>

\* Admin-side writes to the route store (Create/Update/BatchDelete).
StoreStep ==
    /\ \/ \E w \in Writers :
             \/ Store!CreatePersist(w)
             \/ Store!UpdatePersist(w)
             \/ \E k \in Keys :
                   Store!CreateCheck(w, k) \/ Store!UpdateLoad(w, k) \/ Store!BatchDelete(w, k)
       \/ \E k \in Keys : Store!ExternalPut(k)
    /\ UNCHANGED <<relayPend, conf, req>>
-----------------------------------------------------------------------------
(* respToClient: with an error, a 0/200 status becomes 500.               *)
RespStatus(st, isErr) == IF isErr /\ st \in {0, 200} THEN 500 ELSE st

\* serverHttp returns through respToClient: the request is answered.
Done(rq, st, isErr) ==
    [rq EXCEPT !.pc = "done", !.status = RespStatus(st, isErr),
               !.err = isErr, !.resp = st]

Finish(r, st, isErr) == req' = [req EXCEPT ![r] = Done(@, st, isErr)]

(* ProxyHandler: List the route cache with MatchRoute as predicate and    *)
(* take the first row, or answer 404 when no cached route matches.        *)
Match(r) ==
    /\ phase = "running"
    /\ req[r].pc = "idle"
    /\ \/ \E k \in Keys :
            /\ cache[k] # NoVal
            /\ req' = [req EXCEPT ![r].pc = "prepare", ![r].key = k, ![r].route = cache[k]]
       \/ /\ req' = [req EXCEPT ![r].pc = "done", ![r].status = 404]
    /\ UNCHANGED <<storeVars, relayPend, conf>>

(* PrepareConf -> ConfCache.Set under the lock: a cached entry is kept    *)
(* (its TTL extended), otherwise the matched route's Plugins are parsed.  *)
PrepareConf(r) ==
    /\ req[r].pc = "prepare"
    /\ LET k == req[r].key IN
         conf' = IF conf[k] = NoVal THEN [conf EXCEPT ![k] = req[r].route] ELSE conf
    /\ req' = [req EXCEPT ![r].pc = "reqcall"]
    /\ UNCHANGED <<storeVars, relayPend>>

HTTPReqCall(r) ==
    /\ req[r].pc = "reqcall"
    /\ LET k == req[r].key IN
         IF conf[k] = NoVal
           THEN Finish(r, 200, TRUE)
           ELSE \/ req' = [req EXCEPT ![r].pc = "forward", ![r].used = conf[k], ![r].resp = 200]
                \/ req' = [req EXCEPT ![r] = Done([@ EXCEPT !.used = conf[k]], 403, FALSE)]
                \/ \E st \in {200, 503} :
                      req' = [req EXCEPT ![r] = Done([@ EXCEPT !.used = conf[k]], st, TRUE)]
    /\ UNCHANGED <<storeVars, relayPend, conf>>

(* doWithTimeout: ProxyHandler builds the Proxy without WithTimeout, so   *)
(* HostClient.Do is used; a transport error sets 500.  The HostClient has *)
(* no ReadTimeout, so a backend that never answers leaves the request in  *)
(* "forward" for good: this step has no fairness.                         *)
Forward(r) ==
    /\ req[r].pc = "forward"
    /\ \/ \E st \in {200, 404} : req' = [req EXCEPT ![r].pc = "respcall", ![r].resp = st]
       \/ Finish(r, 500, TRUE)
    /\ UNCHANGED <<storeVars, relayPend, conf>>

(* HTTPRespCall(key, &ctx.Response): GetRuleConf again, then the response *)
(* filters on ctx.Response; then respToClient copies resp (the backend's  *)
(* answer) over ctx.Response.                                              *)
HTTPRespCall(r) ==
    /\ req[r].pc = "respcall"
    /\ LET k == req[r].key
           st == req[r].resp IN
         IF conf[k] = NoVal
           THEN Finish(r, st, TRUE)
           ELSE \/ Finish(r, st, FALSE)
                \/ req' = [req EXCEPT ![r] = Done([@ EXCEPT !.ctxStatus = 403], st, FALSE)]
                \/ Finish(r, st, TRUE)
    /\ UNCHANGED <<storeVars, relayPend, conf>>
-----------------------------------------------------------------------------
NoRequest == [pc |-> "idle", key |-> NoVal, route |-> NoVal, used |-> NoVal,
              resp |-> 0, ctxStatus |-> 0, err |-> FALSE, status |-> 0]

Init ==
    /\ Store!Init
    /\ relayPend = NoVal
    /\ conf = [k \in Keys |-> NoVal]
    /\ req = [r \in Requests |-> NoRequest]

RequestStep(r) ==
    Match(r) \/ PrepareConf(r) \/ HTTPReqCall(r) \/ Forward(r) \/ HTTPRespCall(r)

Next ==
    \/ InitList
    \/ InitWatch
    \/ StoreStep
    \/ RelayEvent
    \/ WatchCallback
    \/ Expire
    \/ \E r \in Requests : RequestStep(r)

(* Init and the relay goroutine as in ConfigStore; the callback runs on   *)
(* the relay goroutine; a request goroutine runs every step of its own,   *)
(* but the backend call may never return (pc.Do with no timeout), so      *)
(* Forward is not fair.                                                    *)
Fairness ==
    /\ WF_gwVars(InitList) /\ WF_gwVars(InitWatch)
    /\ WF_gwVars(RelayEvent) /\ WF_gwVars(WatchCallback)
    /\ \A r \in Requests : WF_gwVars(PrepareConf(r) \/ HTTPReqCall(r) \/ HTTPRespCall(r))

Spec == Init /\ [][Next]_gwVars /\ Fairness

-----------------------------------------------------------------------------
ConfFreshWhenQuiescent ==
    (/\ phase = "running" /\ watchQ = <<>> /\ relayPend = NoVal
     /\ \A r \in Requests : req[r].pc \in {"idle", "done"})
        => \A k \in Keys : conf[k] \in {NoVal, cache[k]}

(* Spec 4.5 steps 7-8: the response filters run on the response that is  *)
(* relayed -- a status a response filter sets is the status the client   *)
(* receives.                                                              *)
ResponseFilterStatusReachesClient ==
    \A r \in Requests :
        (req[r].pc = "done" /\ req[r].ctxStatus # 0) => req[r].status = req[r].ctxStatus

=============================================================================
