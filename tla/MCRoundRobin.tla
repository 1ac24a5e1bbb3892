---------------------------- MODULE MCRoundRobin ----------------------------
EXTENDS RoundRobin

\* Weight lists of 1 to 3 nodes with weights 0..4: <<2, 4>> has a GCD of 2
\* and two distinct weights; the longest schedule, <<4, 3, 4>>, has 11.
MCWeightLists == UNION {[1..n -> 0..4] : n \in 1..3}

\* Round robin named, and an unknown type that NewBalancer defaults.
MCRoundRobinUpstreams == [type : {"roundrobin", "ewma"}, weights : MCWeightLists]

\* The strategies that ignore weights, over one and two positive-weight nodes.
MCIndexUpstreams == [type : {"chash", "iphash", "Rand"}, weights : {<<1>>, <<3, 1>>}]

MCUpstreams == MCRoundRobinUpstreams \cup MCIndexUpstreams
=============================================================================
