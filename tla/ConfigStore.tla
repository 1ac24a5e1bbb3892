---------------------------- MODULE ConfigStore ----------------------------
(***************************************************************************)
(* GenericStore (src/internal/apisix/core/store/store.go): one entity     *)
(* type's in-memory cache kept in step with etcd by a List at Init and a  *)
(* watch relay goroutine afterwards, and the admin-side Create / Update / *)
(* BatchDelete that check the cache and then write etcd.                  *)
(*                                                                         *)
(* The etcd client (storage.GenEtcdStorage) is not part of the sources;   *)
(* its List / Watch / Create / Update / BatchDelete are modelled from the *)
(* spec (section 6): a write is a Put, a watch delivers Put/Delete events *)
(* in revision order from the moment it is opened.                        *)
(*                                                                         *)
(* Data is abstracted: a stored value is a record carrying the etcd       *)
(* revision that wrote it (the object's identity), its create time (the   *)
(* revision of the Create that stamped it), whether its JSON parses, and  *)
(* its id field (NoVal when the JSON has none).                             *)
(***************************************************************************)
EXTENDS Naturals, Sequences, FiniteSets, SchemaValidate

CONSTANTS
    Keys,             \* logical keys (trailing path segment = entity ID)
    Writers,          \* concurrent admin callers of Create/Update/BatchDelete
    NoVal,            \* model value: key absent
    MaxRev,           \* bound on etcd revisions (number of writes)
    InitRacesWrites,  \* may admin writes land between Init's List and Watch?
    AllowMalformed,   \* may another tool write a value that is not JSON?
    ForeignIDs,       \* may another tool write an object whose id is another key?
    Schema,           \* the schema document the store's validator was built from
    Bodies            \* the request bodies admin callers send to Create / Update

ASSUME NoVal \notin Nat /\ MaxRev \in Nat \ {0}
ASSUME InitRacesWrites \in BOOLEAN /\ AllowMalformed \in BOOLEAN /\ ForeignIDs \in BOOLEAN

VARIABLES
    etcd,      \* etcd contents: key -> Rec or NoVal
    rev,       \* etcd's current revision
    watchQ,    \* events queued on the watch channel, not yet relayed
    watching,  \* has Stg.Watch been opened?
    phase,     \* Init progress: "list", "open", "running", "failed"
    cache,     \* GenericStore.cache (sync.Map): key -> Rec or NoVal
    wpc        \* per admin writer: Idle or the write it is about to persist

vars == <<etcd, rev, watchQ, watching, phase, cache, wpc>>

Rec == [rev : 1..MaxRev, ct : 1..MaxRev, ok : BOOLEAN, id : Keys \cup {NoVal}]
Event == [type : {"put", "delete"}, key : Keys, rec : Rec \cup {NoVal}]
(* ingestValidate(obj): the objects a passing validation leaves, which is *)
(* what is marshalled and written; a failed or panicking one returns.     *)
ValidOnce(o) == {r.obj : r \in {x \in ingestValidate(Schema, o) : x.res = "ok"}}

\* Update(obj, true) on a missing key validates, then Create validates the same object again.
ValidTwice(o) == UNION {ValidOnce(v) : v \in ValidOnce(o)}

Idle == [step |-> "idle"]
Objs == UNION {ValidOnce(o) \cup ValidTwice(o) : o \in Bodies}
Pending == [step : {"create"}, key : Keys, obj : Objs]
             \cup [step : {"update"}, key : Keys, id : Keys, ct : 1..MaxRev, obj : Objs]

(* BaseInfo.Creating: the object keeps the id it was keyed by (a flake id *)
(* when it had none), and create and update time are the write's time.   *)
Creating(k) == [rev |-> rev + 1, ct |-> rev + 1, ok |-> TRUE, id |-> k]

(* BaseInfo.Updating: id and create time are copied from the stored       *)
(* object, the update time is the write's time.                            *)
Updating(id, ct) == [rev |-> rev + 1, ct |-> ct, ok |-> TRUE, id |-> id]

TypeOK ==
    /\ etcd \in [Keys -> Rec \cup {NoVal}]
    /\ rev \in 0..MaxRev
    /\ watchQ \in Seq(Event)
    /\ watching \in BOOLEAN
    /\ phase \in {"list", "open", "running", "failed"}
    /\ cache \in [Keys -> Rec \cup {NoVal}]
    /\ wpc \in [Writers -> {Idle} \cup Pending]

-----------------------------------------------------------------------------
(* etcd (spec-modelled): a write bumps the revision and, once a watch is  *)
(* open, queues an event for it.                                          *)
Notify(e) == IF watching THEN Append(watchQ, e) ELSE watchQ

EtcdPut(k, r) ==
    /\ etcd' = [etcd EXCEPT ![k] = r]
    /\ rev' = r.rev
    /\ watchQ' = Notify([type |-> "put", key |-> k, rec |-> r])

\* Deleting a present key; deleting an absent key writes nothing.
EtcdDelete(k) ==
    /\ etcd' = [etcd EXCEPT ![k] = NoVal]
    /\ rev' = rev + 1
    /\ watchQ' = Notify([type |-> "delete", key |-> k, rec |-> NoVal])

(* Admin writes may run before Init lists, and after the watch is open;  *)
(* between the two only when InitRacesWrites.                             *)
WritesAllowed ==
    phase = "list" \/ phase = "running" \/ (phase = "open" /\ InitRacesWrites)

-----------------------------------------------------------------------------
(* GenericStore.Init: List the base path and fill the cache; one value    *)
(* that fails StringToObjPtr makes Init return the error.                  *)
Malformed(r) == r # NoVal /\ ~r.ok

(* StringToObjPtr's KeyCompat: an object with no id takes the key it was  *)
(* stored under.                                                           *)
Decoded(k, r) == IF r = NoVal THEN NoVal ELSE [r EXCEPT !.id = IF @ = NoVal THEN k ELSE @]

\* The route store's KeyFunc: the object's ID, as a string.
KeyFunc(r) == r.id

(* Init's loop: each listed object is stored under KeyFunc of the object, *)
(* not under the key it was listed at.  Two objects with one id overwrite *)
(* each other in List order, which the storage does not fix here.         *)
ListedCache ==
    {[c \in Keys |-> IF pick[c] = NoVal THEN NoVal ELSE Decoded(pick[c], etcd[pick[c]])] :
        pick \in {f \in [Keys -> Keys \cup {NoVal}] :
                   \A c \in Keys :
                      LET from == {k \in Keys : etcd[k] # NoVal /\ KeyFunc(Decoded(k, etcd[k])) = c}
                      IN  IF from = {} THEN f[c] = NoVal ELSE f[c] \in from}}

InitList ==
    /\ phase = "list"
    /\ IF \E k \in Keys : Malformed(etcd[k])
         THEN /\ phase' = "failed"
              /\ UNCHANGED cache
         ELSE /\ cache' \in ListedCache
              /\ phase' = "open"
    /\ UNCHANGED <<etcd, rev, watchQ, watching, wpc>>

(* ... then open the watch (no start revision) and start the relay.       *)
InitWatch ==
    /\ phase = "open"
    /\ watching' = TRUE
    /\ phase' = "running"
    /\ UNCHANGED <<etcd, rev, watchQ, cache, wpc>>

(* Fault models for the relay: a Delete that leaves the cache entry, an  *)
(* event taken from the wrong end of the channel, a loop that stops one  *)
(* event short of draining it.                                            *)
RelayIgnoresDelete ==
    /\ phase = "running"
    /\ watchQ # <<>>
    /\ LET e == Head(watchQ) IN
         cache' = IF e.type = "put" /\ ~Malformed(e.rec)
                    THEN [cache EXCEPT ![e.key] = Decoded(e.key, e.rec)] ELSE cache
    /\ watchQ' = Tail(watchQ)
    /\ UNCHANGED <<etcd, rev, watching, phase, wpc>>

RelayNewestFirst ==
    /\ phase = "running"
    /\ watchQ # <<>>
    /\ LET e == watchQ[Len(watchQ)] IN
         cache' = CASE e.type = "delete"     -> [cache EXCEPT ![e.key] = NoVal]
                    [] Malformed(e.rec)      -> cache
                    [] OTHER                 -> [cache EXCEPT ![e.key] = Decoded(e.key, e.rec)]
    /\ watchQ' = SubSeq(watchQ, 1, Len(watchQ) - 1)
    /\ UNCHANGED <<etcd, rev, watching, phase, wpc>>

RelayLeavesLast ==
    /\ phase = "running"
    /\ Len(watchQ) > 1
    /\ LET e == Head(watchQ) IN
         cache' = CASE e.type = "delete"     -> [cache EXCEPT ![e.key] = NoVal]
                    [] Malformed(e.rec)      -> cache
                    [] OTHER                 -> [cache EXCEPT ![e.key] = Decoded(e.key, e.rec)]
    /\ watchQ' = Tail(watchQ)
    /\ UNCHANGED <<etcd, rev, watching, phase, wpc>>

(* The relay goroutine applies one watch event: a Put whose value does   *)
(* not parse is skipped ("continue"), other Puts store, Deletes remove.   *)
Relay ==
    /\ phase = "running"
    /\ watchQ # <<>>
    /\ LET e == Head(watchQ) IN
         cache' = CASE e.type = "delete"     -> [cache EXCEPT ![e.key] = NoVal]
                    [] Malformed(e.rec)      -> cache
                    [] OTHER                 -> [cache EXCEPT ![e.key] = Decoded(e.key, e.rec)]
    /\ watchQ' = Tail(watchQ)
    /\ UNCHANGED <<etcd, rev, watching, phase, wpc>>

-----------------------------------------------------------------------------
(* CreateCheck: Creating() stamps the object, ingestValidate runs (a     *)
(* failure returns the error and changes nothing), then the key is rejected *)
(* if the CACHE holds it; otherwise the write is about to be persisted.   *)
(* Update(obj, createIfNotExist) reaches the same check when the cache    *)
(* lacks the key and createIfNotExist holds.                              *)
CreateCheck(w, k) ==
    /\ wpc[w].step = "idle"
    /\ WritesAllowed
    /\ cache[k] = NoVal
    /\ \E o \in Bodies : \E v \in ValidOnce(o) \cup ValidTwice(o) :
          wpc' = [wpc EXCEPT ![w] = [step |-> "create", key |-> k, obj |-> v]]
    /\ UNCHANGED <<etcd, rev, watchQ, watching, phase, cache>>

\* Stg.Create: the object is written with fresh create/update times.
CreatePersist(w) ==
    /\ wpc[w].step = "create"
    /\ WritesAllowed
    /\ rev < MaxRev
    /\ EtcdPut(wpc[w].key, Creating(wpc[w].key))
    /\ wpc' = [wpc EXCEPT ![w] = Idle]
    /\ UNCHANGED <<watching, phase, cache>>

(* Update: the object is validated (a failure returns), the stored one   *)
(* is loaded from the cache, and Updating() copies its ID and create      *)
(* time into the new object.                                              *)
UpdateLoad(w, k) ==
    /\ wpc[w].step = "idle"
    /\ WritesAllowed
    /\ cache[k] # NoVal
    /\ \E o \in Bodies : \E v \in ValidOnce(o) :
          wpc' = [wpc EXCEPT ![w] = [step |-> "update", key |-> k, id |-> cache[k].id,
                                      ct |-> cache[k].ct, obj |-> v]]
    /\ UNCHANGED <<etcd, rev, watchQ, watching, phase, cache>>

(* Stg.Update at GetObjStorageKey(obj): the key of the ID Updating copied *)
(* from the cached object, which the relay may have cached under another  *)
(* key; written with the carried create time and a new update time.      *)
UpdatePersist(w) ==
    /\ wpc[w].step = "update"
    /\ WritesAllowed
    /\ rev < MaxRev
    /\ EtcdPut(wpc[w].id, Updating(wpc[w].id, wpc[w].ct))
    /\ wpc' = [wpc EXCEPT ![w] = Idle]
    /\ UNCHANGED <<watching, phase, cache>>

\* BatchDelete maps the logical key to its storage key and deletes it.
BatchDelete(w, k) ==
    /\ wpc[w].step = "idle"
    /\ WritesAllowed
    /\ etcd[k] # NoVal
    /\ rev < MaxRev
    /\ EtcdDelete(k)
    /\ UNCHANGED <<watching, phase, cache, wpc>>

(* Another etcd client writes a value that is not valid JSON for the     *)
(* entity type (the spec's "malformed persisted JSON"), or, when         *)
(* ForeignIDs, an object whose id is another key or missing.             *)
ExternalRecs(k) ==
    LET nr == rev + 1 IN
    (IF AllowMalformed THEN {[rev |-> nr, ct |-> nr, ok |-> FALSE, id |-> k]} ELSE {})
    \cup (IF ForeignIDs
          THEN {[rev |-> nr, ct |-> nr, ok |-> TRUE, id |-> i] : i \in (Keys \cup {NoVal}) \ {k}}
          ELSE {})

ExternalPut(k) ==
    /\ WritesAllowed
    /\ rev < MaxRev
    /\ \E r \in ExternalRecs(k) :
          EtcdPut(k, r)
    /\ UNCHANGED <<watching, phase, cache, wpc>>

-----------------------------------------------------------------------------
Init ==
    /\ etcd = [k \in Keys |-> NoVal]
    /\ rev = 0
    /\ watchQ = <<>>
    /\ watching = FALSE
    /\ phase = "list"
    /\ cache = [k \in Keys |-> NoVal]
    /\ wpc = [w \in Writers |-> Idle]

Next ==
    \/ InitList
    \/ InitWatch
    \/ Relay
    \/ \E w \in Writers :
          \/ CreatePersist(w)
          \/ UpdatePersist(w)
          \/ \E k \in Keys : CreateCheck(w, k) \/ UpdateLoad(w, k) \/ BatchDelete(w, k)
    \/ \E k \in Keys : ExternalPut(k)

(* Init runs to completion on the starting goroutine and the relay       *)
(* goroutine is always runnable while the channel holds an event.        *)
Spec == Init /\ [][Next]_vars /\ WF_vars(InitList) /\ WF_vars(InitWatch) /\ WF_vars(Relay)

-----------------------------------------------------------------------------
(* Once Init is done and the relay has drained the watch channel, every   *)
(* key whose etcd value parses is cached with exactly that value, its id  *)
(* filled in from the key when missing (absent keys absent): the          *)
(* List/Watch hand-over in Init, Init's keying by KeyFunc and the relay's *)
(* keying by storage key together lose no write and add no entry.        *)
QuiescentConsistency ==
    (phase = "running" /\ watchQ = <<>>) =>
        \A k \in Keys : ~Malformed(etcd[k]) => cache[k] = Decoded(k, etcd[k])

(* The relay never moves a cached key back to an older value: a step that *)
(* replaces one cached record by another installs a later revision.      *)
CacheNeverRegresses ==
    [][\A k \in Keys :
          (cache[k] # NoVal /\ cache'[k] # NoVal) => cache'[k].rev >= cache[k].rev]_vars

(* A Create or Update about to write etcd writes a body the reference    *)
(* validator accepts, exactly as the caller sent it but for the chash     *)
(* hash_on default: also when Update(obj, true) falls through to Create   *)
(* and the object, already written into by one validation, is validated   *)
(* a second time.                                                          *)
ValidatedBeforePersist ==
    \A w \in Writers :
        wpc[w].step # "idle" =>
            \E o \in Bodies : RefAccepts(Schema, o) /\ wpc[w].obj = Defaulted(o)

(* Every well-formed value written to etcd eventually reaches the cache,  *)
(* unless it is overwritten first or Init failed (the process exits).     *)
WriteEventuallyCached ==
    \A k \in Keys, r \in Rec :
        (etcd[k] = r /\ r.ok) ~> (cache[k] = Decoded(k, r) \/ etcd[k] # r \/ phase = "failed")

=============================================================================
