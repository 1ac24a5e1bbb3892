--------------------------- MODULE SchemaValidate ---------------------------
(***************************************************************************)
(* The validator GenericStore.ingestValidate runs before a Create or an   *)
(* Update is persisted (src/internal/apisix/core/store/validate.go,       *)
(* APISIXJsonSchemaValidator): the entity's JSON schema, the custom       *)
(* checks of checkConf (upstream and remote_addrs), then each plugin's     *)
(* configuration against the plugin's schema, in the plugin map's range   *)
(* order.  It is a pure function of the schema document and the object,   *)
(* except that it writes into the object: an empty hash_on of a chash     *)
(* upstream becomes "vars", and a boolean "disable" of a plugin           *)
(* configuration is taken out for the schema check and put back.          *)
(*                                                                         *)
(* JSON-schema checking itself is data, not control: a schema's verdict   *)
(* on a value is a field of the value (body, ok), and a schema document   *)
(* is the set of definitions it holds.  A hash key is "var" (a name the   *)
(* vars schema lists, which the header schema's pattern also accepts),    *)
(* "hdr" (a header or cookie name only the header schema accepts) or "".  *)
(* A plugin configuration is [obj, ok, disable]: obj is FALSE for a JSON  *)
(* value that is no object, ok is the plugin schema's verdict on its      *)
(* fields other than a boolean disable, and disable is "bool" when it     *)
(* holds a boolean disable.  The upstream's nodes are the JSON values of  *)
(* ProxyBuild, formatted by its NodesFormat.                               *)
(***************************************************************************)
EXTENDS Integers, Sequences, SequencesExt

(* A schema document is [main, hash, plugins]: the entity types main      *)
(* defines, the hash-key schemas ("vars", "header") it defines, and per   *)
(* plugin [schema, consumer, disable]. A request body is [type, body, up, *)
(* addrs, plugins].                                                        *)

LOCAL PB == INSTANCE ProxyBuild

NoUp == [kind |-> "nil"]

\* The outcome of a validation: "ok", "err" or "panic", and the object as it was left.
Out(res, o) == [res |-> res, obj |-> o]

\* NewAPISIXJsonSchemaValidator: the schema must define main.<type>.
NewAPISIXJsonSchemaValidator(s, t) == t \in s.main

(* getPlugins: routes and services are checked against the plugins'      *)
(* "schema", consumers against "consumer_schema"; other types carry none. *)
getPlugins(o) ==
    CASE o.type \in {"route", "service"} -> [plugins |-> o.plugins, st |-> "schema"]
      [] o.type = "consumer"             -> [plugins |-> o.plugins, st |-> "consumer_schema"]
      [] OTHER                           -> [plugins |-> <<>>, st |-> ""]

(* cHashKeySchemaCheck, on an upstream whose hash_on is set: consumer     *)
(* needs no key; vars, header and cookie check the key against the vars   *)
(* or the header schema, which the document must define.                  *)
KeyAccepted(which, key) == IF which = "vars" THEN key = "var" ELSE key \in {"var", "hdr"}

cHashKeySchemaCheck(s, u) ==
    LET which == IF u.hashOn = "vars" THEN "vars" ELSE "header" IN
    CASE u.hashOn = "consumer"                         -> TRUE
      [] u.hashOn \notin {"vars", "header", "cookie"}  -> FALSE
      [] OTHER -> which \in s.hash /\ KeyAccepted(which, u.key)

(* checkUpstream: pass_host "node" needs NodesFormat to give a list of    *)
(* exactly one node (it may panic, and a JSON object of nodes is ranged   *)
(* in any order); "rewrite" needs an upstream_host; a chash upstream gets *)
(* hash_on "vars" when it has none (written into the object), needs a key *)
(* unless it hashes on the consumer, and the key must pass its schema.    *)
NodeResults(u) ==
    IF u.passHost = "node" /\ u.nodes # PB!NilNodes THEN PB!NodesFormat(u.nodes)
    ELSE {[kind |-> "skip"]}

\* Mutant: the hash_on default is used for the key check but never written into the upstream.
checkUpstreamNoDefault(s, u) ==
    IF u = NoUp THEN {Out("ok", u)}
    ELSE LET h  == IF u.hashOn = "" THEN "vars" ELSE u.hashOn
             hu == [u EXCEPT !.hashOn = h]
         IN  {CASE f = PB!Panicked                                        -> Out("panic", u)
                [] f.kind # "skip" /\ (f.kind # "nodes" \/ Len(f.s) # 1) -> Out("err", u)
                [] u.passHost = "rewrite" /\ ~u.upHost                     -> Out("err", u)
                [] u.type # "chash"                                        -> Out("ok", u)
                [] h # "consumer" /\ u.key = ""                            -> Out("err", u)
                [] OTHER -> Out(IF cHashKeySchemaCheck(s, hu) THEN "ok" ELSE "err", u)
              : f \in NodeResults(u)}

checkUpstream(s, u) ==
    IF u = NoUp THEN {Out("ok", u)}
    ELSE LET h  == IF u.hashOn = "" THEN "vars" ELSE u.hashOn
             hu == [u EXCEPT !.hashOn = h]
         IN  {CASE f = PB!Panicked                                        -> Out("panic", u)
                [] f.kind # "skip" /\ (f.kind # "nodes" \/ Len(f.s) # 1) -> Out("err", u)
                [] u.passHost = "rewrite" /\ ~u.upHost                     -> Out("err", u)
                [] u.type # "chash"                                        -> Out("ok", u)
                [] h # "consumer" /\ u.key = ""                            -> Out("err", hu)
                [] OTHER -> Out(IF cHashKeySchemaCheck(s, hu) THEN "ok" ELSE "err", hu)
              : f \in NodeResults(u)}

\* checkRemoteAddr: no entry of remote_addrs may be empty.
checkRemoteAddr(addrs) == \A i \in 1..Len(addrs) : addrs[i] # ""

(* checkConf: the upstream of a route, a service or an upstream object   *)
(* (the first two may have none), and a route's remote_addrs.             *)
checkConf(s, o) ==
    IF o.type \notin {"route", "service", "upstream"} THEN {Out("ok", o)}
    ELSE {LET o2 == [o EXCEPT !.up = c.obj] IN
            IF c.res = "ok" /\ o.type = "route" /\ ~checkRemoteAddr(o.addrs)
            THEN Out("err", o2) ELSE Out(c.res, o2)
          : c \in checkUpstream(s, o.up)}

(* The plugin loop, over the map's range order: the plugin's schema (a    *)
(* consumer falls back to "schema"), none is an error; the configuration  *)
(* must be a JSON object (the type assertion panics otherwise); a boolean *)
(* disable is deleted, the schema checked, the disable put back, and a    *)
(* failed check returns the error.                                        *)
HasSchema(ps, st) == IF st = "schema" THEN ps.schema ELSE ps.consumer \/ ps.schema

\* The plugin schema's verdict on a configuration: a disable left in it must be one it declares.
PluginSchemaAccepts(ps, c) == c.ok /\ (c.disable = "bool" => ps.disable)

RECURSIVE PluginLoop(_, _, _, _, _)
PluginLoop(s, o, st, order, i) ==
    IF i > Len(order) THEN Out("ok", o)
    ELSE LET n        == order[i]
             ps       == s.plugins[n]
             c        == o.plugins[n]
             exchange == c.disable = "bool"
             checked  == IF exchange THEN [c EXCEPT !.disable = "none"] ELSE c
             o2       == [o EXCEPT !.plugins[n] = checked]
             o3       == IF exchange THEN [o2 EXCEPT !.plugins[n].disable = "bool"] ELSE o2
         IN  CASE ~HasSchema(ps, st)                -> Out("err", o)
               [] ~c.obj                            -> Out("panic", o)
               [] ~PluginSchemaAccepts(ps, checked) -> Out("err", o3)
               [] OTHER                             -> PluginLoop(s, o3, st, order, i + 1)

(* APISIXJsonSchemaValidator.Validate: every outcome, over the orders in  *)
(* which Go may range over the nodes and the plugin maps.                 *)
Validate(s, o) ==
    IF ~o.body THEN {Out("err", o)}
    ELSE UNION {IF c.res # "ok" THEN {c}
                ELSE LET gp == getPlugins(c.obj) IN
                     {PluginLoop(s, c.obj, gp.st, order, 1) : order \in SetToSeqs(DOMAIN gp.plugins)}
                : c \in checkConf(s, o)}

(* GenericStore.ingestValidate: the validator InitStore gave the store    *)
(* (the types of hubsNeedCheck), then StockCheck, which no store of this  *)
(* repository sets.                                                        *)
Validated == {"consumer", "route", "ssl", "service", "upstream", "global_rule", "stream_route"}

(* A store whose validator cannot be built does not exist: InitStore     *)
(* returns the error and the process exits, so no outcome.                *)
ingestValidate(s, o) ==
    CASE o.type \notin Validated                       -> {Out("ok", o)}
      [] NewAPISIXJsonSchemaValidator(s, o.type)       -> Validate(s, o)
      [] OTHER                                         -> {}

-----------------------------------------------------------------------------
(* What the validator promises (spec section 4.1: validator failures are *)
(* returned and never persisted), stated per object rather than per step. *)
RefUpstreamOK(s, u) ==
    u # NoUp =>
      LET h == IF u.hashOn = "" THEN "vars" ELSE u.hashOn IN
      /\ u.passHost = "node" /\ u.nodes # PB!NilNodes =>
            \A f \in PB!NodesFormat(u.nodes) : f # PB!Panicked /\ f.kind = "nodes" /\ Len(f.s) = 1
      /\ u.passHost = "rewrite" => u.upHost
      /\ u.type = "chash" =>
            \/ h = "consumer"
            \/ /\ h \in {"vars", "header", "cookie"}
               /\ LET which == IF h = "vars" THEN "vars" ELSE "header" IN
                    which \in s.hash /\ KeyAccepted(which, u.key)

RefAccepts(s, o) ==
    /\ o.type \in Validated => o.body
    /\ o.type \in {"route", "service", "upstream"} => RefUpstreamOK(s, o.up)
    /\ o.type = "route" => \A i \in 1..Len(o.addrs) : o.addrs[i] # ""
    /\ o.type \in {"route", "service", "consumer"} =>
          \A n \in DOMAIN o.plugins :
             /\ HasSchema(s.plugins[n], getPlugins(o).st)
             /\ o.plugins[n].obj /\ o.plugins[n].ok

\* The object a successful validation leaves: the chash hash_on default filled in.
Defaulted(o) ==
    IF o.type \in {"route", "service", "upstream"} /\ o.up # NoUp /\ o.up.type = "chash" /\ o.up.hashOn = ""
    THEN [o EXCEPT !.up.hashOn = "vars"] ELSE o

(* A store accepts a Create or Update exactly when the reference does,    *)
(* whatever order Go ranges over the nodes and the plugins in, and what   *)
(* it then persists is the caller's object with only the hash_on default  *)
(* written into it: every boolean disable is back in its configuration.   *)
AgreesWithReference(Schemas, Objects) ==
    \A s \in Schemas, o \in Objects :
       \A r \in ingestValidate(s, o) :
          /\ r.res = "ok" <=> RefAccepts(s, o)
          /\ r.res = "ok" => r.obj = Defaulted(o)
=============================================================================
