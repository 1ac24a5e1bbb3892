--------------------------- MODULE PluginChainSpec ---------------------------
(***************************************************************************)
(* What the plugin pipeline promises (spec 4.3), with one call as a single *)
(* step.  The plugins a call runs are the route's plugins that are         *)
(* registered and whose configuration parses, in ascending priority; the   *)
(* call stops at the first filter that fails (an error) or sets a         *)
(* non-200 status (a short-circuit).  Otherwise the request goes to the   *)
(* backend, which may fail; then the response phase runs the same plugins *)
(* in the same order with the same rule (spec 4.3: "symmetric").  Plugins *)
(* of equal priority may run in either order.  A call may also find the   *)
(* route's configuration gone (not found), in either phase, or fail to    *)
(* build its proxy before any plugin runs (spec 4.5 step 1).               *)
(***************************************************************************)
EXTENDS Integers, Sequences, SequencesExt

CONSTANTS
    Impls,          \* set of [name, prio]: the plugins the program registers
    RoutePlugins    \* the names a route's plugin map may hold

VARIABLES
    registry,   \* name -> priority of the registered plugins
    usable,     \* the route's plugins whose configuration parses
    stage,      \* "idle" or "done"
    result,     \* outcome of the last call
    ran,        \* the plugins whose request filters passed in the last call
    rran        \* the plugins whose response filters passed in the last call

Active == usable \cap DOMAIN registry

\* The orders in ascending priority of the active plugins.
PriorityOrders ==
    {s \in SetToSeqs(Active) :
        \A i \in 1..(Len(s) - 1) : registry[s[i]] <= registry[s[i + 1]]}

Init ==
    /\ registry = [n \in {} |-> 0]
    /\ usable \in SUBSET RoutePlugins
    /\ stage = "idle"
    /\ result = "none"
    /\ ran = <<>>
    /\ rran = <<>>

\* Registration, before any call.
Register ==
    /\ result = "none" /\ stage = "idle"
    /\ \E p \in Impls :
          /\ p.name \notin DOMAIN registry
          /\ registry' = registry @@ (p.name :> p.prio)
    /\ UNCHANGED <<usable, stage, result, ran, rran>>

(* A call passes the first k request filters of a priority order and     *)
(* stops at the next one's error or status.  When it passes all of them,  *)
(* the backend fails, or the response phase passes the first j filters of *)
(* the same order and ends "ok" (all passed, or a status) or on an error. *)
Call ==
    /\ stage = "idle"
    /\ stage' = "done"
    /\ \/ \E s \in PriorityOrders :
             \/ \E k \in 0..(Len(s) - 1) :
                   /\ ran' = SubSeq(s, 1, k) /\ rran' = <<>>
                   /\ result' \in {"error", "status"}
             \/ /\ ran' = s
                /\ \/ rran' = <<>> /\ result' \in {"backenderr", "resperror"}
                   \/ \E j \in 0..Len(s) :
                         /\ rran' = SubSeq(s, 1, j)
                         /\ \/ result' = "ok"
                            \/ j < Len(s) /\ result' = "resperror"
       \/ /\ result' \in {"notfound", "proxyerr"}
          /\ ran' = <<>> /\ rran' = <<>>
    /\ UNCHANGED <<registry, usable>>

Reset ==
    /\ stage = "done"
    /\ stage' = "idle"
    /\ ran' = <<>> /\ rran' = <<>>
    /\ UNCHANGED <<registry, usable, result>>

Next == Register \/ Call \/ Reset

Spec == Init /\ [][Next]_<<registry, usable, stage, result, ran, rran>>
=============================================================================
