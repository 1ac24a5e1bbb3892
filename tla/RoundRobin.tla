----------------------------- MODULE RoundRobin -----------------------------
(***************************************************************************)
(* The load-balancer family (src/internal/apisix/lb): NewBalancer picks a *)
(* strategy by the upstream's type, and Proxy.GetClient asks it for the   *)
(* index of the backend client to use.  The weighted round robin keeps   *)
(* the state i, cw, maxWeight and maxGCD behind a mutex, so one           *)
(* Distribute call is one atomic step.  The hash and random strategies    *)
(* reduce a hash of a request field, or a random number, modulo the node  *)
(* count: in the model the index is any of 0..n-1.                        *)
(*                                                                         *)
(* Proxy.init builds the balancer; ProxyHandler builds a new Proxy, and   *)
(* so a new balancer, for every request (RebuildPerRequest).  Without it  *)
(* the model is a balancer instance serving many calls.                   *)
(***************************************************************************)
EXTENDS Integers, Sequences, SequencesExt

CONSTANTS
    Upstreams,          \* set of [type, weights]: weights is a sequence of Nat
    MaxCalls,           \* bound on Distribute calls
    RebuildPerRequest   \* a fresh balancer for every call, as ProxyHandler does

ASSUME MaxCalls \in Nat /\ RebuildPerRequest \in BOOLEAN

VARIABLES
    upstream,   \* the route's upstream: type and node weights
    bal,        \* the balancer instance built by Proxy.init
    counts,     \* node index (0-based) -> times chosen
    calls,      \* Distribute calls so far
    last        \* index returned by the last call, -1 before the first

vars == <<upstream, bal, counts, calls, last>>

-----------------------------------------------------------------------------
(* gcd and nGCD, as written: swap so that a >= b, stop at b = 0.          *)
RECURSIVE gcd(_, _)
gcd(a, b) ==
    IF a < b THEN gcd(b, a)
    ELSE IF b = 0 THEN a
    ELSE gcd(b, a % b)

RECURSIVE nGCD(_, _)
nGCD(data, n) == IF n = 1 THEN data[1] ELSE gcd(data[n], nGCD(data, n - 1))

\* Fault model: a balancer that ignores the GCD of the weights.
newRoundRobinNoGCD(ws) ==
    [kind |-> "rr", weights |-> ws, maxWeight |-> Max({0} \cup Range(ws)),
     maxGCD |-> 1, lenOfWeights |-> Len(ws), i |-> -1, cw |-> 0]

(* newRoundRobin: weights copied, maxWeight the largest (from 0), maxGCD *)
(* the GCD of all weights, i = -1, cw = 0.                                *)
newRoundRobin(ws) ==
    [kind |-> "rr", weights |-> ws, maxWeight |-> Max({0} \cup Range(ws)),
     maxGCD |-> nGCD(ws, Len(ws)), lenOfWeights |-> Len(ws), i |-> -1, cw |-> 0]

\* HashCBalance, HashIPBalance, RandBalance keep only the weight list.
newIndexBalance(ws) == [kind |-> "index", weights |-> ws, lenOfWeights |-> Len(ws)]

\* NewBalancer: the upstream's type picks the strategy; default round robin.
NewBalancer(up) ==
    IF up.type \in {"chash", "iphash", "Rand"} THEN newIndexBalance(up.weights)
    ELSE newRoundRobin(up.weights)

(* roundrobin.Distribute: advance i circularly; on wrapping to 0 lower cw *)
(* by maxGCD, resetting it to maxWeight at <= 0 (and returning 0 when    *)
(* that is 0); stop at the first node whose weight is >= cw.  Returns     *)
(* the new state and the index.                                           *)
RECURSIVE Spin(_)
Spin(b) ==
    LET i   == (b.i + 1) % b.lenOfWeights
        cw1 == IF i = 0 THEN b.cw - b.maxGCD ELSE b.cw
        rst == i = 0 /\ cw1 <= 0
        cw  == IF rst THEN b.maxWeight ELSE cw1
        b2  == [b EXCEPT !.i = i, !.cw = cw]
    IN  IF rst /\ cw = 0 THEN [bal |-> b2, idx |-> 0]
        ELSE IF b.weights[i + 1] >= cw THEN [bal |-> b2, idx |-> i]
        ELSE Spin(b2)

\* The outcomes of one Distribute call on balancer b.
Distribute(b) ==
    IF b.kind = "rr" THEN {Spin(b)}
    ELSE {[bal |-> b, idx |-> j] : j \in 0..(b.lenOfWeights - 1)}

-----------------------------------------------------------------------------
Init ==
    /\ upstream \in Upstreams
    /\ bal = NewBalancer(upstream)
    /\ counts = [j \in 0..(Len(upstream.weights) - 1) |-> 0]
    /\ calls = 0
    /\ last = -1

(* Proxy.GetClient: p.lb.Distribute(req) picks the client.  Under          *)
(* ProxyHandler the balancer is the one NewProxy just built.              *)
GetClient ==
    /\ calls < MaxCalls
    /\ LET b == IF RebuildPerRequest THEN NewBalancer(upstream) ELSE bal IN
         \E r \in Distribute(b) :
            /\ bal' = r.bal
            /\ counts' = [counts EXCEPT ![r.idx] = @ + 1]
            /\ last' = r.idx
    /\ calls' = calls + 1
    /\ UNCHANGED upstream

Next == GetClient

Spec == Init /\ [][Next]_vars

-----------------------------------------------------------------------------
(* Reference: interleaved weighted round robin.  With g the GCD and m the *)
(* largest weight, round k (k = 1 .. m/g) serves, in index order, every   *)
(* node whose weight is at least m - (k-1)*g; the schedule repeats.       *)
Schedule(ws) ==
    LET g == nGCD(ws, Len(ws))
        m == Max({0} \cup Range(ws))
        idx == [j \in 1..Len(ws) |-> j - 1]
    IN  FlattenSeq([k \in 1..(m \div g) |->
                      SelectSeq(idx, LAMBDA j : ws[j + 1] >= m - (k - 1) * g)])

HasPositive == \E j \in DOMAIN upstream.weights : upstream.weights[j] > 0

TypeOK ==
    /\ upstream \in Upstreams
    /\ counts \in [0..(Len(upstream.weights) - 1) -> 0..MaxCalls]
    /\ calls \in 0..MaxCalls
    /\ last \in -1..(Len(upstream.weights) - 1)

(* Round robin on one balancer instance: the n-th Distribute returns the  *)
(* n-th entry of the reference schedule (repeated).                        *)
FollowsSchedule ==
    (upstream.type \notin {"chash", "iphash", "Rand"} /\ HasPositive /\ last # -1)
        => LET s == Schedule(upstream.weights)
           IN  last = s[((calls - 1) % Len(s)) + 1]

=============================================================================
