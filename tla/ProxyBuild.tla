----------------------------- MODULE ProxyBuild -----------------------------
(***************************************************************************)
(* Building the proxy of a route (src/internal/proxy/proxy_http.go        *)
(* NewProxy, init, GetClient), the node formatting it relies on           *)
(* (src/internal/apisix/core/entity/format.go, UpstreamDef.GetNodes), the *)
(* Format callback ProxyHandler passes to List (src/internal/serve/       *)
(* listen.go), and the polaris discovery client with its process-wide     *)
(* consumer cache (src/internal/apisix/discover/polaris/polaris.go).       *)
(*                                                                         *)
(* An upstream is [kind, tls, disco, args, nodes, type], or NoUpstream   *)
(* for a route whose Upstream pointer is nil.  tls is "none", "good" or    *)
(* "bad" (a key pair tls.X509KeyPair rejects); disco is the discovery     *)
(* type ("" for none); args stands for the discovery_args map:            *)
(* "undecodable" (it holds a key of a non-string field, which             *)
(* mapstructure.Decode refuses), "invalid" (the schema rejects it) or the *)
(* server_addr of a valid one.                                             *)
(*                                                                         *)
(* nodes is the decoded JSON value of "nodes": NilNodes when absent, a     *)
(* scalar, a JSON object ([kind |-> "map"], a function from keys to       *)
(* values), a JSON array ([kind |-> "list"]) or, once formatted, a list   *)
(* of Node records ([kind |-> "nodes"]).  A key is the sequence of its     *)
(* ":"-separated parts; a port part or a value is a number, or NotNum for  *)
(* text that is none.  An array element is [obj, f]: obj is FALSE for an  *)
(* element that is no JSON object, f its fields.  Every NodesFormat and   *)
(* init result is a set: Go ranges over a map in any order.               *)
(***************************************************************************)
EXTENDS Integers, Sequences, SequencesExt, TLC

\* The round-robin and index balancers, as pure operators.
LB == INSTANCE RoundRobin WITH Upstreams <- {}, MaxCalls <- 0, RebuildPerRequest <- TRUE,
                               upstream <- 0, bal <- 0, counts <- 0, calls <- 0, last <- 0

\* Every value below is a record tagged by its kind.
NoUpstream == [kind |-> "nil"]
NilNodes   == [kind |-> "nil"]
Panicked   == [kind |-> "panic"]
NotNum     == -1

Node(h, p, w, pr) == [host |-> h, port |-> p, weight |-> w, priority |-> pr]

(* mapKV2Node: split the key at ":"; more than two parts is an error; the  *)
(* port is 0 when absent, else strconv.Atoi of the second part.           *)
mapKV2Node(key, val) ==
    CASE Len(key) > 2                      -> [err |-> TRUE]
      [] Len(key) = 2 /\ key[2] = NotNum   -> [err |-> TRUE]
      [] OTHER -> [err |-> FALSE,
                   node |-> Node(key[1], IF Len(key) = 2 THEN key[2] ELSE 0, val, 0)]

(* The map cases of NodesFormat over one range order o: the first entry   *)
(* whose value is no float64 panics in the type assertion (the JSON case, *)
(* map[string]interface{}), the first key mapKV2Node rejects returns the  *)
(* map itself, else the nodes in range order.                             *)
RECURSIVE MapNodes(_, _, _, _)
MapNodes(obj, o, i, acc) ==
    IF i > Len(o) THEN [kind |-> "nodes", s |-> acc]
    ELSE LET val == obj.m[o[i]]
             r   == mapKV2Node(o[i], val)
         IN  CASE obj.kind = "map" /\ val = NotNum -> Panicked
               [] r.err -> obj
               [] OTHER -> MapNodes(obj, o, i + 1, Append(acc, r.node))

(* The []interface{} case: each element must be a JSON object whose host  *)
(* is a string and whose port and weight are numbers (a missing field is  *)
(* nil, and nil.(float64) panics too); a priority, when present, must be  *)
(* a number.                                                               *)
ListNodeOK(v) ==
    /\ v.obj
    /\ "host" \in DOMAIN v.f
    /\ \A fld \in {"port", "weight"} : fld \in DOMAIN v.f /\ v.f[fld] # NotNum
    /\ "priority" \in DOMAIN v.f => v.f["priority"] # NotNum

ListNode(v) ==
    Node(v.f["host"], v.f["port"], v.f["weight"],
         IF "priority" \in DOMAIN v.f THEN v.f["priority"] ELSE 0)

(* NodesFormat: the results for every range order.  A list of Node        *)
(* records is returned as it is, and so is any other value (nil, a        *)
(* scalar).                                                                *)
NodesFormat(obj) ==
    CASE obj.kind \in {"map", "fmap"} ->
            {MapNodes(obj, o, 1, <<>>) : o \in SetToSeqs(DOMAIN obj.m)}
      [] obj.kind = "list" ->
            IF \A i \in 1..Len(obj.s) : ListNodeOK(obj.s[i])
            THEN {[kind |-> "nodes", s |-> [i \in 1..Len(obj.s) |-> ListNode(obj.s[i])]]}
            ELSE {Panicked}
      [] OTHER -> {obj}

(* UpstreamDef.GetNodes: NodesFormat, and logger.Fatal (the process       *)
(* exits) when the result is no list of nodes.                             *)
GetNodes(up) ==
    {IF f.kind \in {"panic", "nodes"} THEN f ELSE [kind |-> "fatal"] : f \in NodesFormat(up.nodes)}

(* ProxyHandler's Format on the cached route: a route with an upstream    *)
(* and nodes gets its Nodes replaced by NodesFormat's result.             *)
FormatRoute(up) ==
    IF up = NoUpstream \/ up.nodes = NilNodes THEN {up}
    ELSE {IF f = Panicked THEN Panicked ELSE [up EXCEPT !.nodes = f] : f \in NodesFormat(up.nodes)}

-----------------------------------------------------------------------------
(* getConsumer, under consumerMapLock: a consumer cached for the        *)
(* server_addr is returned with no error, whatever it is.  Otherwise      *)
(* NewConsumerAPIByAddress either fails, returning a nil consumer, or     *)
(* succeeds; either result is stored in the cache before the error is     *)
(* returned.  cons maps a server_addr to "ok" or "nil".                    *)
getConsumer(addr, cons) ==
    IF addr \in DOMAIN cons THEN {[consumer |-> cons[addr], err |-> FALSE, cons |-> cons]}
    ELSE {[consumer |-> c, err |-> c = "nil", cons |-> cons @@ (addr :> c)] : c \in {"ok", "nil"}}

(* Polaris.GetClient for the discovery_args of up: Decode and Validate    *)
(* fail on undecodable or invalid args; then getConsumer.  A nil consumer *)
(* returned without an error panics in GetOneInstance.  GetOneInstance    *)
(* and UpdateServiceCallResult talk to the polaris server and may fail.   *)
PolarisGetClient(up, cons) ==
    IF up.args \in {"undecodable", "invalid"} THEN {[res |-> "err", cons |-> cons]}
    ELSE UNION {
      CASE g.err                  -> {[res |-> "err", cons |-> g.cons]}
        [] g.consumer = "nil"     -> {[res |-> "panic", cons |-> g.cons]}
        [] OTHER -> {[res |-> r, cons |-> g.cons] : r \in {"client", "err"}}
      : g \in getConsumer(up.args, cons)}

(* init's discovery step: FindDiscover of an unregistered type is nil and *)
(* skipped; only polaris registers.                                        *)
Discovery(up, cons) ==
    IF up.disco = "polaris" THEN PolarisGetClient(up, cons)
    ELSE {[res |-> "skip", cons |-> cons]}

\* fmt.Sprintf("%s:%d", node.Host, node.Port)
Addr(n) == n.host \o ":" \o ToString(n.port)

(* Proxy.init, after NewProxy: the key pair, the discovery client, then  *)
(* the nodes.  With nodes, clients is rebuilt from them alone (the        *)
(* discovery client is dropped) and the balancer built from the weights;  *)
(* without, "nodes is empty".  A nil Upstream is dereferenced at once.    *)
init(up, cons) ==
    IF up = NoUpstream THEN {[res |-> "panic", cons |-> cons]}
    ELSE IF up.tls = "bad" THEN {[res |-> "err", cons |-> cons]}
    ELSE UNION {
      IF d.res \in {"err", "panic"} THEN {d}
      ELSE {CASE g.kind \in {"panic", "fatal"} -> [res |-> g.kind, cons |-> d.cons]
              [] g.s = <<>> -> [res |-> "err", cons |-> d.cons]
              [] OTHER -> [res |-> "ok", cons |-> d.cons,
                           clients |-> [i \in DOMAIN g.s |-> Addr(g.s[i])],
                           lb |-> LB!NewBalancer([type |-> up.type,
                                                  weights |-> [i \in DOMAIN g.s |-> g.s[i].weight]])]
            : g \in GetNodes(up)}
      : d \in Discovery(up, cons)}

(* NewProxy, as ProxyHandler calls it (no options, an HTTP route): init. *)
NewProxy(up, cons) == init(up, cons)

(* Proxy.GetClient: with clients and a balancer, the client at the index *)
(* Distribute returns.                                                     *)
GetClient(p) == {p.clients[r.idx + 1] : r \in LB!Distribute(p.lb)}
=============================================================================
