----------------------------- MODULE MCGateway -----------------------------
(* Model-checking instance of Gateway: one route key, one admin writer,  *)
(* two concurrent requests.                                              *)
EXTENDS Gateway, TLC

CONSTANTS k1, w1, r1, r2

MCKeys == {k1}
MCWriters == {w1}
MCRequests == {r1, r2}

(* The routes the admin writes: a valid route with no upstream or plugins *)
(* (validation is checked in MCConfigStore).                               *)
MCSchema == [main |-> {"route"}, hash |-> {}, plugins |-> <<>>]
MCBodies == {[type |-> "route", body |-> TRUE, up |-> [kind |-> "nil"], addrs |-> <<>>, plugins |-> <<>>]}

\* Requests are interchangeable model values (safety runs only).
MCSymmetry == Permutations(MCRequests)
=============================================================================
