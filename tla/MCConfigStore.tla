--------------------------- MODULE MCConfigStore ---------------------------
(* Model-checking instance of ConfigStore: two keys, two admin writers,  *)
(* and the inputs of the validator its Create and Update run.            *)
EXTENDS ConfigStore, TLC

CONSTANTS k1, k2, w1, w2

MCKeys == {k1, k2}
MCWriters == {w1, w2}

\* Keys and writers are interchangeable model values.
MCSymmetry == Permutations(MCKeys) \cup Permutations(MCWriters)

(* Two plugins.  A plugin schema entry: whether "schema" and              *)
(* "consumer_schema" are defined, and whether it declares "disable".     *)
PS(sc, co, di) == [schema |-> sc, consumer |-> co, disable |-> di]

\* Every definition; and one without hash-header schema, p1's "schema" or p2's "disable".
SchemaFull == [main |-> {"route", "service", "consumer", "upstream", "ssl"},
               hash |-> {"vars", "header"},
               plugins |-> ("p1" :> PS(TRUE, FALSE, FALSE)) @@ ("p2" :> PS(TRUE, TRUE, TRUE))]
SchemaPartial == [main |-> {"route", "service", "consumer", "upstream"},
                  hash |-> {"vars"},
                  plugins |-> ("p1" :> PS(FALSE, TRUE, TRUE)) @@ ("p2" :> PS(TRUE, FALSE, FALSE))]
MCSchemas == {SchemaFull, SchemaPartial}

\* Plugin configurations: accepted, with a boolean disable, rejected, no JSON object.
PC(ob, ok, di) == [obj |-> ob, ok |-> ok, disable |-> di]
MCConfs == {PC(TRUE, TRUE, "none"), PC(TRUE, TRUE, "bool"), PC(TRUE, FALSE, "bool"), PC(FALSE, TRUE, "none")}
MCPluginMaps == UNION {[d -> MCConfs] : d \in SUBSET {"p1", "p2"}}

(* Nodes: one node, two, and a JSON object with a key of three parts     *)
(* beside a value that is no number (an error or a panic by range order). *)
JMap(m) == [kind |-> "map", m |-> m]
OneNode == JMap(<<"n1", 80>> :> 1)
TwoNodes == JMap((<<"n1", 80>> :> 1) @@ (<<"n2", 81>> :> 2))
OddNodes == JMap((<<"a", "b", "c">> :> 1) @@ (<<"n1", 80>> :> -1))

MCUps == [passHost : {"", "node", "rewrite"}, nodes : {[kind |-> "nil"], OneNode, TwoNodes, OddNodes},
          upHost : BOOLEAN, type : {"roundrobin", "chash"},
          hashOn : {"", "vars", "header", "cookie", "consumer", "bogus"}, key : {"", "var", "hdr"}]
ChashUp == [passHost |-> "", nodes |-> OneNode, upHost |-> FALSE, type |-> "chash",
            hashOn |-> "", key |-> "var"]

Ob(t, b, u, a, p) == [type |-> t, body |-> b, up |-> u, addrs |-> a, plugins |-> p]

(* Every upstream on an otherwise valid route; every type, schema verdict *)
(* remote_addrs and plugin map with no upstream or a defaulted one.       *)
MCObjects ==
    {Ob("route", TRUE, u, <<>>, "p1" :> PC(TRUE, TRUE, "none")) : u \in MCUps}
    \cup {Ob(t, b, u, a, p) : t \in {"route", "service", "consumer", "upstream", "ssl", "plugin_config"},
                              b \in BOOLEAN, u \in {NoUp, ChashUp},
                              a \in {<<>>, <<"a">>, <<"a", "">>}, p \in MCPluginMaps}
(* The admin writes of the run: a chash route with no hash_on and a       *)
(* plugin holding a boolean disable, accepted and defaulted, and one with *)
(* an empty remote_addrs entry, rejected.                                 *)
WriteBody == Ob("route", TRUE, ChashUp, <<"a">>, ("p1" :> PC(TRUE, TRUE, "none")) @@ ("p2" :> PC(TRUE, TRUE, "bool")))
MCBodies == {WriteBody, [WriteBody EXCEPT !.addrs = <<"a", "">>]}

\* The validator agrees with its reference on every schema document and body above.
ValidateMatchesReference == AgreesWithReference(MCSchemas, MCObjects)

(* The validator agrees with its reference on every schema document and   *)
(* body above, whatever order Go ranges over nodes and plugins in, and    *)
(* every write the store goes on to persist is such an accepted body.     *)
WritesValidated == ValidateMatchesReference /\ ValidatedBeforePersist
=============================================================================
