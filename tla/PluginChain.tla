----------------------------- MODULE PluginChain -----------------------------
(***************************************************************************)
(* The plugin pipeline (src/internal/apisix/plugins) with the concrete     *)
(* plugins of PluginFilters: the registry filled by the plugins' init     *)
(* functions in link order, ConfCache.Set building a route's RuleConf,    *)
(* and one request-phase call of serverHttp: the copied request gets the  *)
(* peer's X-Forwarded-For line, HTTPReqCall runs GetRuleConf and          *)
(* getPluginRuntimes with its sort by priority, then one filter per step; *)
(* after the backend call, HTTPRespCall runs GetRuleConf again and the    *)
(* response filters on ctx.Response, one per step.                        *)
(*                                                                         *)
(* ConfCache.Set ranges over the route's plugin map, a Go map, in an      *)
(* unspecified order; the model takes any order.  A panic in a filter is  *)
(* not recovered by fasthttp nor by the code: the process dies.           *)
(***************************************************************************)
EXTENDS Integers, Sequences, SequencesExt, PluginFilters, ProxyBuild

CONSTANTS
    Builds,     \* the link orders a build may have: sequences of [name, prio, fatal]
    Routes,     \* the routes: [plugins (name -> configuration), upstream]
    Requests,   \* the requests a client may send
    Peers,      \* the client socket addresses (IPv4, fasthttp listens on tcp4)
    Backend,    \* the responses the backend may answer with
    MaxCalls    \* bound on requests

VARIABLES
    linked,     \* the plugins of this build, in the order their init() runs
    registry,   \* pluginRegistry.opts: name -> Priority()
    inited,     \* how many init() functions have run
    boot,       \* "init", "starting", "serving", "exited" (a Fatal), "crashed" (panic)
    route,      \* the route's plugin map
    entries,    \* the ConfCache entry: a RuleConf (names), or NoConf
    runtimes,   \* getPluginRuntimes' sorted list for the current call
    pos,        \* the loop index into runtimes
    stage,      \* "idle", "prepared", "running", "done"
    result,     \* the call's outcome
    ran,        \* the plugins whose filters passed in this call
    calls,      \* requests so far
    req,        \* the proxied copy of the request
    resp,       \* the response the request filters write and Do fills
    ctxResp,    \* ctx.Response, which the response filters write
    rran,       \* the plugins whose response filters passed in this call
    ups,        \* the cached route's Upstream, which ProxyHandler's Format rewrites
    consumers,  \* polaris consumerMap: server_addr -> "ok" or "nil"
    proxy,      \* the Proxy NewProxy built for the current call, or NoProxy
    stores      \* how many of HubKeys InitStores has put in storeHub

vars == <<linked, registry, inited, boot, route, entries, runtimes, pos,
          stage, result, ran, calls, req, resp, ctxResp, rran, ups, consumers, proxy, stores>>

NoConf == <<"absent">>

NoProxy == [res |-> "none"]

\* fasthttp.AcquireResponse, and a fresh ctx.Response: status 200, no headers, no body.
NewResp == [status |-> 200, hdrs |-> {}, body |-> <<>>]

\* hopHeaders: deleted from the request before Do and from the response after.
HopHeaders == {"Connection", "Proxy-Connection", "Keep-Alive", "Proxy-Authenticate",
               "Proxy-Authorization", "Te", "Trailer", "Transfer-Encoding", "Upgrade"}

(* InitStores (store/storehub.go): one GenericStore per entity type, in  *)
(* this order; InitStore gives the types of hubsNeedCheck a validator.    *)
HubKeys == <<"consumer", "route", "service", "ssl", "upstream", "script", "global_rule",
             "server_info", "plugin_config", "proto", "stream_route">>

HubsNeedCheck == {"consumer", "route", "ssl", "service", "upstream", "global_rule", "stream_route"}

\* The request slot between calls (released by ReleaseRequest).
IdleReq == CHOOSE r \in Requests : TRUE

-----------------------------------------------------------------------------
\* findPlugin: the name is in the registry.
findPlugin(n) == n \in DOMAIN registry

(* ConfCache.Set keeps a plugin that findPlugin knows and whose ParseConf *)
(* returns no error (and a non-nil conf).                                  *)
Usable(n) == findPlugin(n) /\ ParseConf(n, route[n])

\* Fault model: sorted by descending priority.
PluginsLessDescending(x, y) == registry[x] > registry[y]

\* Plugins.Less: strictly lower priority first.
PluginsLess(x, y) == registry[x] < registry[y]

\* Fault model: a swap written as two assignments, the second reading the first.
RECURSIVE SiftLeftSequentialSwap(_, _)
SiftLeftSequentialSwap(s, j) ==
    IF j > 1 /\ PluginsLess(s[j], s[j - 1])
    THEN LET s1 == [s EXCEPT ![j] = s[j - 1]] IN
         SiftLeftSequentialSwap([s1 EXCEPT ![j - 1] = s1[j]], j - 1)
    ELSE s

(* sort.Sort on a short slice: insertion sort, moving element j left      *)
(* while Less(data[j], data[j-1]).                                         *)
RECURSIVE SiftLeft(_, _)
SiftLeft(s, j) ==
    IF j > 1 /\ PluginsLess(s[j], s[j - 1])
    THEN SiftLeft([s EXCEPT ![j] = s[j - 1], ![j - 1] = s[j]], j - 1)
    ELSE s

RECURSIVE InsertionSort(_, _)
InsertionSort(s, i) == IF i > Len(s) THEN s ELSE InsertionSort(SiftLeft(s, i), i + 1)

\* getPluginRuntimes: skip what findPlugin does not know, then sort.
getPluginRuntimes(conf) == InsertionSort(SelectSeq(conf, findPlugin), 2)

\* xForwardFor: the peer's address as one more X-Forwarded-For line.
XForwardFor(r, peer) == [r EXCEPT !.xff = Append(@, peer)]

-----------------------------------------------------------------------------
Init ==
    /\ linked \in Builds
    /\ registry = [n \in {} |-> 0]
    /\ inited = 0
    /\ boot = "init"
    /\ \E r \in Routes : route = r.plugins /\ ups = r.upstream
    /\ entries = NoConf
    /\ runtimes = <<>>
    /\ pos = 1
    /\ stage = "idle"
    /\ result = "none"
    /\ ran = <<>>
    /\ calls = 0
    /\ req = IdleReq
    /\ resp = NewResp
    /\ ctxResp = NewResp
    /\ rran = <<>>
    /\ consumers = [a \in {} |-> "ok"]
    /\ proxy = NoProxy
    /\ stores = 0

\* RegisterPlugin refuses an empty or taken name.
Refused(p) == p.name = "" \/ p.name \in DOMAIN registry

\* Fault model: a taken name silently replaced.
RegisterPluginOverwrites ==
    /\ boot = "init" /\ inited < Len(linked)
    /\ LET p == linked[inited + 1] IN
         \/ /\ p.name = "" /\ p.fatal
            /\ boot' = "exited" /\ UNCHANGED registry
         \/ /\ p.name = "" /\ ~p.fatal
            /\ UNCHANGED <<boot, registry>>
         \/ /\ p.name # ""
            /\ registry' = [n \in DOMAIN registry \cup {p.name} |->
                              IF n = p.name THEN p.prio ELSE registry[n]]
            /\ UNCHANGED boot
    /\ inited' = inited + 1
    /\ UNCHANGED <<linked, route, entries, runtimes, pos, stage, result, ran, calls, req, resp,
                   ctxResp, rran, ups, consumers, proxy, stores>>

(* The next init() calls RegisterPlugin.  On an error most plugins call   *)
(* logger.Fatal and the process exits; cors, ip-restriction, oauth2,      *)
(* proxy-rewrite, real-ip, say and cgw-interface-part only log it and run *)
(* on without the plugin.                                                  *)
RegisterPlugin ==
    /\ boot = "init" /\ inited < Len(linked)
    /\ LET p == linked[inited + 1] IN
         \/ /\ Refused(p) /\ p.fatal
            /\ boot' = "exited" /\ UNCHANGED registry
         \/ /\ Refused(p) /\ ~p.fatal
            /\ UNCHANGED <<boot, registry>>
         \/ /\ ~Refused(p)
            /\ registry' = registry @@ (p.name :> p.prio)
            /\ UNCHANGED boot
    /\ inited' = inited + 1
    /\ UNCHANGED <<linked, route, entries, runtimes, pos, stage, result, ran, calls, req, resp,
                   ctxResp, rran, ups, consumers, proxy, stores>>

(* run, after every package init(): NewProxyServe reads the etcd config  *)
(* and connects (an error reaches log.Fatal), initSchema reads            *)
(* conf/schema.json (panics when it cannot), then InitStores.             *)
NewProxyServe ==
    /\ boot = "init" /\ inited = Len(linked)
    /\ boot' \in {"exited", "crashed", "starting"}
    /\ UNCHANGED <<linked, registry, inited, route, entries, runtimes, pos, stage, result, ran,
                   calls, req, resp, ctxResp, rran, ups, consumers, proxy, stores>>

(* InitStore for the next hub key: a validator the schema has no          *)
(* definition for, or a store whose Init fails (List fails, or a value    *)
(* does not parse), returns the error; InitStores returns it at once and  *)
(* run calls log.Fatal.  Otherwise the store joins storeHub.              *)
InitStore ==
    /\ boot = "starting" /\ stores < Len(HubKeys)
    /\ \/ HubKeys[stores + 1] \in HubsNeedCheck /\ boot' = "exited" /\ UNCHANGED stores
       \/ boot' = "exited" /\ UNCHANGED stores
       \/ stores' = stores + 1 /\ UNCHANGED boot
    /\ UNCHANGED <<linked, registry, inited, route, entries, runtimes, pos, stage, result, ran,
                   calls, req, resp, ctxResp, rran, ups, consumers, proxy>>

\* run: fasthttp.ListenAndServe; an error (the address cannot be bound) reaches log.Fatal.
Serve ==
    /\ boot = "starting" /\ stores = Len(HubKeys)
    /\ boot' \in {"serving", "exited"}
    /\ UNCHANGED <<linked, registry, inited, route, entries, runtimes, pos, stage, result, ran,
                   calls, req, resp, ctxResp, rran, ups, consumers, proxy, stores>>

(* ProxyHandler after the match: Format writes NodesFormat's result into  *)
(* the cached route, and NewProxy on a copy of the route runs init.  An   *)
(* init error is answered 500 ("New proxy err"); a panic in either ends   *)
(* the process, and GetNodes' logger.Fatal exits it.                       *)
Build ==
    /\ boot = "serving" /\ stage = "idle" /\ calls < MaxCalls
    /\ calls' = calls + 1
    /\ ran' = <<>> /\ rran' = <<>>
    /\ \E f \in FormatRoute(ups) :
          \/ /\ f = Panicked
             /\ boot' = "crashed"
             /\ UNCHANGED <<ups, consumers, stage, result, proxy>>
          \/ /\ f # Panicked
             /\ ups' = f
             /\ \E o \in NewProxy(f, consumers) :
                   /\ consumers' = o.cons
                   /\ \/ o.res = "panic" /\ boot' = "crashed" /\ UNCHANGED <<stage, result, proxy>>
                      \/ o.res = "fatal" /\ boot' = "exited" /\ UNCHANGED <<stage, result, proxy>>
                      \/ /\ o.res = "err"
                         /\ stage' = "done" /\ result' = "proxyerr"
                         /\ UNCHANGED <<boot, proxy>>
                      \/ /\ o.res = "ok"
                         /\ proxy' = o /\ stage' = "built"
                         /\ UNCHANGED <<boot, result>>
    /\ UNCHANGED <<linked, registry, inited, route, entries, runtimes, pos, req, resp, ctxResp, stores>>

(* serverHttp up to HTTPReqCall: copy the request, add the peer's address *)
(* as one more X-Forwarded-For line (xForwardFor), PrepareConf, and       *)
(* GetClient, whose client's address becomes the host.  PrepareConf is    *)
(* ConfCache.Set: keep a cached entry, otherwise build it from the map in *)
(* any order.                                                              *)
PrepareConf ==
    /\ boot = "serving" /\ stage = "built"
    /\ \E r \in Requests, peer \in Peers, c \in GetClient(proxy) :
          req' = [XForwardFor(r, peer) EXCEPT !.host = c]
    /\ resp' = NewResp /\ ctxResp' = NewResp
    /\ \/ /\ entries # NoConf
          /\ UNCHANGED entries
       \/ /\ entries = NoConf
          /\ \E order \in SetToSeqs(DOMAIN route) : entries' = SelectSeq(order, Usable)
    /\ stage' = "prepared"
    /\ UNCHANGED <<linked, registry, inited, boot, route, runtimes, pos, result, ran, calls, rran,
                   ups, consumers, proxy, stores>>

(* HTTPReqCall: GetRuleConf (a missing entry is the error), then          *)
(* getPluginRuntimes.                                                      *)
HTTPReqCall ==
    /\ boot = "serving" /\ stage = "prepared"
    /\ ran' = <<>> /\ rran' = <<>>
    /\ \/ /\ entries = NoConf
          /\ stage' = "done" /\ result' = "notfound"
          /\ UNCHANGED <<runtimes, pos>>
       \/ /\ entries # NoConf
          /\ runtimes' = getPluginRuntimes(entries)
          /\ pos' = 1
          /\ stage' = "running"
          /\ UNCHANGED result
    /\ UNCHANGED <<linked, registry, inited, boot, route, entries, calls, req, resp, ctxResp, ups, consumers, proxy, stores>>

(* One iteration of requestPhase.filter with the plugin's RequestFilter:  *)
(* an error returns it, a non-200 status breaks the loop (and the call    *)
(* returns nil), else go on.  A run-time panic in the filter is not       *)
(* recovered anywhere on the goroutine, so Go ends the process.           *)
Filter ==
    /\ boot = "serving" /\ stage = "running" /\ pos <= Len(runtimes)
    /\ LET n   == runtimes[pos]
           out == RequestFilter(n, route[n], req, resp)
       IN  /\ req' = out.req /\ resp' = out.resp
           /\ \/ /\ out.panic
                 /\ boot' = "crashed"
                 /\ UNCHANGED <<pos, ran, stage, result>>
              \/ /\ ~out.panic /\ out.err
                 /\ stage' = "done" /\ result' = "error"
                 /\ UNCHANGED <<boot, pos, ran>>
              \/ /\ ~out.panic /\ ~out.err /\ out.resp.status # 200
                 /\ stage' = "done" /\ result' = "status"
                 /\ UNCHANGED <<boot, pos, ran>>
              \/ /\ ~out.panic /\ ~out.err /\ out.resp.status = 200
                 /\ pos' = pos + 1 /\ ran' = Append(ran, n)
                 /\ UNCHANGED <<boot, stage, result>>
    /\ UNCHANGED <<linked, registry, inited, route, entries, runtimes, calls, ctxResp, rran, ups, consumers, proxy, stores>>

Exhausted ==
    /\ boot = "serving" /\ stage = "running" /\ pos > Len(runtimes)
    /\ stage' = "forward"
    /\ UNCHANGED <<linked, registry, inited, boot, route, entries, runtimes, pos, result, ran, calls,
                   req, resp, ctxResp, rran, ups, consumers, proxy, stores>>

(* doWithTimeout, after the hop-by-hop headers are deleted from the       *)
(* request: the backend's answer fills resp; a transport error sets 500,  *)
(* or 408 for a timeout, and serverHttp answers it.                        *)
Forward ==
    /\ boot = "serving" /\ stage = "forward"
    /\ req' = [req EXCEPT !.hdrs = @ \ HopHeaders]
    /\ \/ \E b \in Backend : resp' = b /\ stage' = "respcall" /\ UNCHANGED result
       \/ \E st \in {500, 408} :
             /\ resp' = [resp EXCEPT !.status = st]
             /\ stage' = "done" /\ result' = "backenderr"
    /\ UNCHANGED <<linked, registry, inited, boot, route, entries, runtimes, pos, ran, calls,
                   ctxResp, rran, ups, consumers, proxy, stores>>

(* HTTPRespCall(key, &ctx.Response): GetRuleConf again, which fails if   *)
(* the entry was deleted since HTTPReqCall (the error is answered with    *)
(* the backend's response), then getPluginRuntimes again.                  *)
HTTPRespCall ==
    /\ boot = "serving" /\ stage = "respcall"
    /\ \/ /\ entries = NoConf
          /\ stage' = "done" /\ result' = "resperror"
          /\ UNCHANGED <<runtimes, pos>>
       \/ /\ entries # NoConf
          /\ runtimes' = getPluginRuntimes(entries)
          /\ pos' = 1
          /\ stage' = "resprunning"
          /\ UNCHANGED result
    /\ UNCHANGED <<linked, registry, inited, boot, route, entries, ran, calls, req, resp,
                   ctxResp, rran, ups, consumers, proxy, stores>>

(* responsePhase.filter returns nil: serverHttp deletes the hop-by-hop    *)
(* headers from resp and respToClient copies resp over ctx.Response.      *)
RespDone ==
    /\ stage' = "done" /\ result' = "ok"
    /\ resp' = [resp EXCEPT !.hdrs = @ \ HopHeaders]

(* One iteration of responsePhase.filter with the plugin's ResponseFilter *)
(* on ctx.Response: an error returns it, a non-200 status breaks the loop,*)
(* else go on.                                                             *)
RespFilter ==
    /\ boot = "serving" /\ stage = "resprunning" /\ pos <= Len(runtimes)
    /\ LET n   == runtimes[pos]
           out == ResponseFilter(n, route[n], ctxResp)
       IN  /\ ctxResp' = out.resp
           /\ \/ /\ out.err
                 /\ stage' = "done" /\ result' = "resperror"
                 /\ UNCHANGED <<pos, rran, resp>>
              \/ /\ ~out.err /\ out.resp.status # 200
                 /\ RespDone
                 /\ UNCHANGED <<pos, rran>>
              \/ /\ ~out.err /\ out.resp.status = 200
                 /\ pos' = pos + 1 /\ rran' = Append(rran, n)
                 /\ UNCHANGED <<stage, result, resp>>
    /\ UNCHANGED <<linked, registry, inited, boot, route, entries, runtimes, ran, calls, req, ups, consumers, proxy, stores>>

\* The response loop ends with every filter passed.
RespExhausted ==
    /\ boot = "serving" /\ stage = "resprunning" /\ pos > Len(runtimes)
    /\ RespDone
    /\ UNCHANGED <<linked, registry, inited, boot, route, entries, runtimes, pos, ran, calls, req,
                   ctxResp, rran, ups, consumers, proxy, stores>>

(* serverHttp answers the client and its deferred ReleaseRequest and      *)
(* ReleaseResponse return the request and response to their pools.        *)
Finish ==
    /\ boot = "serving" /\ stage = "done"
    /\ stage' = "idle"
    /\ req' = IdleReq /\ resp' = NewResp /\ ctxResp' = NewResp /\ proxy' = NoProxy
    /\ UNCHANGED <<linked, registry, inited, boot, route, entries, runtimes, pos, result, ran, calls,
                   rran, ups, consumers, stores>>

(* ConfCache.Delete from WatchRoute on any change of the route (or the   *)
(* TTL expiring), at any time while serving.                               *)
Delete ==
    /\ boot = "serving" /\ entries # NoConf
    /\ entries' = NoConf
    /\ UNCHANGED <<linked, registry, inited, boot, route, runtimes, pos, stage, result, ran, calls,
                   req, resp, ctxResp, rran, ups, consumers, proxy, stores>>

Next ==
    \/ RegisterPlugin \/ NewProxyServe \/ InitStore \/ Serve \/ Build \/ PrepareConf \/ HTTPReqCall \/ Filter
    \/ Exhausted \/ Forward \/ HTTPRespCall \/ RespFilter \/ RespExhausted
    \/ Finish \/ Delete

(* A request's goroutine runs on until it returns: the steps of one call  *)
(* are weakly fair, except the backend call.  ProxyHandler passes no      *)
(* WithTimeout and the HostClient has no ReadTimeout, so pc.Do may wait   *)
(* on a hung backend for ever.  Arrivals (Build) and invalidations are    *)
(* not fair either.                                                        *)
Fairness ==
    /\ WF_vars(PrepareConf) /\ WF_vars(HTTPReqCall) /\ WF_vars(Filter) /\ WF_vars(Exhausted)
    /\ WF_vars(HTTPRespCall) /\ WF_vars(RespFilter) /\ WF_vars(RespExhausted) /\ WF_vars(Finish)

Spec == Init /\ [][Next]_vars /\ Fairness

-----------------------------------------------------------------------------
TypeOK ==
    /\ linked \in Builds
    /\ DOMAIN registry \subseteq {linked[i].name : i \in 1..Len(linked)}
    /\ inited \in 0..Len(linked)
    /\ boot \in {"init", "starting", "serving", "exited", "crashed"}
    /\ stores \in 0..Len(HubKeys)
    /\ stage \in {"idle", "built", "prepared", "running", "forward", "respcall", "resprunning", "done"}
    /\ result \in {"none", "ok", "status", "error", "notfound", "backenderr", "resperror",
                   "proxyerr"}
    /\ calls \in 0..MaxCalls
    /\ \A a \in DOMAIN consumers : consumers[a] \in {"ok", "nil"}
    /\ pos \in 1..(Len(runtimes) + 1)
    /\ IsInjective(ran) /\ Len(ran) <= Len(runtimes)
    /\ IsInjective(rran) /\ Len(rran) <= Len(runtimes)

\* The first plugin of the link order that carries the name n.
FirstWith(n) == linked[Min({i \in 1..Len(linked) : linked[i].name = n})]

(* Registration: traffic is served only with every named plugin of the   *)
(* build registered, each name with the priority of the first init() that *)
(* registered it; a later plugin with a taken name (whose init only logs  *)
(* the error) changes nothing.                                             *)
ServesCompleteRegistry ==
    boot = "serving" =>
        /\ DOMAIN registry = {linked[i].name : i \in 1..Len(linked)} \ {""}
        /\ \A n \in DOMAIN registry : registry[n] = FirstWith(n).prio

(* The pipeline implements its abstract promise: each call runs the       *)
(* route's registered plugins whose configuration parses, in ascending    *)
(* priority, stopping at the first error or non-200 status.               *)
Abs == INSTANCE PluginChainSpec WITH
    Impls        <- UNION {{b[i] : i \in 1..Len(b)} : b \in Builds},
    RoutePlugins <- UNION {DOMAIN r.plugins : r \in Routes},
    usable       <- {n \in DOMAIN route : ParseConf(n, route[n])},
    stage        <- IF stage = "done" THEN "done" ELSE "idle",
    ran          <- IF stage = "done" THEN ran ELSE <<>>,
    rran         <- IF stage = "done" THEN rran ELSE <<>>

PipelineRefines == Abs!Spec

IpAllowed(c, ip) ==
    \/ c.disable
    \/ /\ ~\E i \in 1..Len(c.blacklist) : InRange(ip, c.blacklist[i])
       /\ c.whitelist = <<>> \/ \E i \in 1..Len(c.whitelist) : InRange(ip, c.whitelist[i])

IpRestrictionDecides ==
    [][LET ip == ClientIP(req.xff, req.realip) IN
       (/\ stage = "running" /\ pos <= Len(runtimes)
        /\ runtimes[pos] = "ip-restriction" /\ IsIPv4(ip)
        /\ boot' = "serving" /\ <<pos, stage>>' # <<pos, stage>>)
         => (pos' = pos + 1 <=> IpAllowed(route["ip-restriction"], ip))]_vars

=============================================================================
