---------------------------- MODULE RouteSelect ----------------------------
(***************************************************************************)
(* GenericStore.List (src/internal/apisix/core/store/store.go) and its   *)
(* use by ProxyHandler (src/internal/serve/listen.go) to select the      *)
(* route of a request.                                                    *)
(*                                                                         *)
(* List ranges over the sync.Map in an unspecified order, keeps the rows  *)
(* the predicate accepts, sorts them with sort.Slice and the caller's     *)
(* Less (defLessFunc when nil), and slices out a page.  With at most 6    *)
(* rows, sort.Slice is an insertion sort (pdqsort and the older quicksort *)
(* both fall back to it for short slices; the older one's gap-6 pass does *)
(* nothing below 7 rows), so the model runs that insertion sort exactly.  *)
(*                                                                         *)
(* A route is a record of the fields the comparisons read; its ID is a    *)
(* number whose order stands for the order of the (fixed-length) ID       *)
(* strings.  Its match criteria m are a record of Confs: a URI or host   *)
(* pattern stands for the set of request paths or domains reg_uri's       *)
(* KeyMatch4 or DomainMatch accepts for it (reg_uri is not in the         *)
(* sources); a single field (URI, Host, RemoteAddr) is a sequence of at   *)
(* most one element, empty when the field is.  A request's host is the    *)
(* part before ":" that MatchRoute compares; its peer is an IPv4 address  *)
(* (fasthttp.ListenAndServe listens on tcp4).                             *)
(***************************************************************************)
EXTENDS Integers, Sequences, SequencesExt, IpUtils

CONSTANTS
    Ids,         \* route IDs (numbers)
    Priorities,  \* Route.Priority values
    Times,       \* CreateTime / UpdateTime values
    PageSizes,   \* ListInput.PageSize values an admin caller may pass
    PageNumbers, \* ListInput.PageNumber values (0 disables paging)
    Confs,       \* the match criteria a route may carry
    Requests     \* [uri, host, peer, method] of an inbound request

VARIABLES
    cache,   \* the route store's cache: ID -> route, or absent
    input,   \* the ListInput of the last call: [less, size, number]
    out,     \* its ListOutput: [rows, total], rows a sequence of IDs
    req      \* the request ProxyHandler served last

vars == <<cache, input, out, req>>

NoRoute == [absent |-> TRUE]
Route == [id : Ids, priority : Priorities, ct : Times, ut : Times, m : Confs]
NoOut == [rows |-> <<>>, total |-> -1]
NoReq == [uri |-> "", host |-> "", peer |-> NoAddr, method |-> ""]

\* A panic in the handler goroutine: fasthttp does not recover it.
Crashed == [rows |-> <<>>, total |-> -2]

-----------------------------------------------------------------------------
(* defLessFunc: ascending CreateTime, then UpdateTime, then ID string.   *)
defLessFunc(x, y) ==
    IF x.ct # y.ct THEN x.ct < y.ct
    ELSE IF x.ut # y.ut THEN x.ut < y.ut
    ELSE x.id < y.id

(* ProxyHandler's Less: i sorts before j unless i has a lower priority,  *)
(* or an older CreateTime, or an older UpdateTime than j.                  *)
ProxyLess(x, y) ==
    ~(x.priority < y.priority) /\ ~(x.ct < y.ct) /\ ~(x.ut < y.ut)

Less(which, x, y) == IF which = "proxy" THEN ProxyLess(x, y) ELSE defLessFunc(x, y)

(* sort.Slice on a short slice: for i in 1..n-1, move element i left     *)
(* while Less(data[j], data[j-1]).                                         *)
RECURSIVE SiftLeft(_, _, _)
SiftLeft(which, s, j) ==
    IF j > 1 /\ Less(which, cache[s[j]], cache[s[j - 1]])
    THEN SiftLeft(which, [s EXCEPT ![j] = s[j - 1], ![j - 1] = s[j]], j - 1)
    ELSE s

RECURSIVE InsertionSort(_, _, _)
InsertionSort(which, s, i) ==
    IF i > Len(s) THEN s ELSE InsertionSort(which, SiftLeft(which, s, i), i + 1)

SortSlice(which, s) == InsertionSort(which, s, 2)

\* Fault model: pages counted from 0 instead of 1.
PageFromZero(rows, size, number) ==
    IF size > 0 /\ number > 0
    THEN LET skip == number * size IN
         IF skip > Len(rows) THEN <<>>
         ELSE IF skip + size >= Len(rows) THEN SubSeq(rows, skip + 1, Len(rows))
         ELSE SubSeq(rows, skip + 1, skip + size)
    ELSE rows

(* Paging: skip (PageNumber-1)*PageSize rows; past the end is empty; a    *)
(* window running past the end is the tail.                               *)
Page(rows, size, number) ==
    IF size > 0 /\ number > 0
    THEN LET skip == (number - 1) * size IN
         IF skip > Len(rows) THEN <<>>
         ELSE IF skip + size >= Len(rows) THEN SubSeq(rows, skip + 1, Len(rows))
         ELSE SubSeq(rows, skip + 1, skip + size)
    ELSE rows

Cached == {k \in Ids : cache[k] # NoRoute}

(* One dimension of MatchRoute: a non-empty list admits v when one of its *)
(* patterns does, and a single field, when set, must admit it as well.     *)
Admits(list, single, v) ==
    /\ list = <<>> \/ \E i \in 1..Len(list) : v \in list[i]
    /\ \A i \in 1..Len(single) : v \in single[i]

(* Methods: strings.EqualFold with the request's method, or with "ALL"   *)
(* (the model's method names are upper case).                              *)
MethodAllowed(ms, mth) == ms = <<>> \/ \E i \in 1..Len(ms) : ms[i] \in {mth, "ALL"}

\* Fault model: the single RemoteAddr consulted only when the list is empty.
MatchRouteSingleOrList(r, rt) ==
    LET m      == rt.m
        list   == IF m.remoteAddrs = <<>> THEN "match" ELSE FirstHit(r.peer, m.remoteAddrs)
        single == IF m.remoteAddr = <<>> \/ m.remoteAddrs # <<>> THEN "match"
                  ELSE Match(r.peer, Head(m.remoteAddr))
    IN  CASE m.status # 1                           -> "nomatch"
          [] ~Admits(m.uris, m.uri, r.uri)           -> "nomatch"
          [] ~Admits(m.hosts, m.host, r.host)        -> "nomatch"
          [] list # "match"                          -> list
          [] single # "match"                        -> single
          [] MethodAllowed(m.methods, r.method)      -> "match"
          [] OTHER                                   -> "nomatch"

(* MatchRoute: status, then URI, host, remote address and method, each    *)
(* returning false at the first failed test.  The remote-address loop     *)
(* stops at the first range that matches; iputils.Match may panic on a    *)
(* range before that, or on the single RemoteAddr.                        *)
MatchRoute(r, rt) ==
    LET m      == rt.m
        list   == IF m.remoteAddrs = <<>> THEN "match" ELSE FirstHit(r.peer, m.remoteAddrs)
        single == IF m.remoteAddr = <<>> THEN "match" ELSE Match(r.peer, Head(m.remoteAddr))
    IN  CASE m.status # 1                           -> "nomatch"
          [] ~Admits(m.uris, m.uri, r.uri)           -> "nomatch"
          [] ~Admits(m.hosts, m.host, r.host)        -> "nomatch"
          [] list # "match"                          -> list
          [] single # "match"                        -> single
          [] MethodAllowed(m.methods, r.method)      -> "match"
          [] OTHER                                   -> "nomatch"

(* MatchRoute reads only the request and the route's criteria, so its     *)
(* verdicts form a table over Requests and Confs (a constant-level       *)
(* definition, which TLC evaluates once).                                 *)
Verdict == [r \in Requests, c \in Confs |-> MatchRoute(r, [m |-> c])]

-----------------------------------------------------------------------------
Init ==
    /\ cache \in [Ids -> Route \cup {NoRoute}]
    /\ \A k \in Ids : cache[k] # NoRoute => cache[k].id = k /\ cache[k].ct <= cache[k].ut
    /\ input = [less |-> "none", size |-> 0, number |-> 0]
    /\ out = NoOut
    /\ req = NoReq

(* List: Range in any order, filter by the predicate (MatchRoute on the   *)
(* request r, as ProxyHandler passes, or none), sort, then page.  Range   *)
(* calls the predicate on every entry, so a panic in it for any cached    *)
(* route, whatever the order, ends the process.                            *)
List(which, pred, r, size, number) ==
    LET verdict == [k \in Cached |-> IF pred THEN Verdict[r, cache[k].m] ELSE "match"]
    IN  /\ out # Crashed
        /\ input' = [less |-> which, size |-> size, number |-> number]
        /\ \E order \in SetToSeqs(Cached) :
              LET rows == SelectSeq(order, LAMBDA k : verdict[k] = "match")
              IN  out' = IF "panic" \in Range(verdict)
                         THEN Crashed
                         ELSE [rows |-> Page(SortSlice(which, rows), size, number), total |-> Len(rows)]
        /\ UNCHANGED cache

\* An admin listing: default order, no predicate, any page.
AdminList ==
    /\ \E size \in PageSizes, number \in PageNumbers : List("default", FALSE, NoReq, size, number)
    /\ UNCHANGED req

\* ProxyHandler: MatchRoute predicate, its own Less, PageSize 10, PageNumber 0.
ProxyHandler ==
    \E r \in Requests :
       /\ List("proxy", TRUE, r, 10, 0)
       /\ req' = r

Next == AdminList \/ ProxyHandler

Spec == Init /\ [][Next]_vars

-----------------------------------------------------------------------------
TypeOK ==
    /\ cache \in [Ids -> Route \cup {NoRoute}]
    /\ input \in [less : {"none", "default", "proxy"}, size : Nat, number : Nat]
    /\ out \in [rows : Seq(Ids), total : -2..Cardinality(Ids)]
    /\ req \in Requests \cup {NoReq}
    /\ IsInjective(out.rows)

(* Reference order: the cached routes sorted lexicographically by the     *)
(* tuple <<CreateTime, UpdateTime, ID>>.                                  *)
KeyOf(k) == <<cache[k].ct, cache[k].ut, k>>
LexBefore(a, b) ==
    \E i \in 1..3 : a[i] < b[i] /\ \A j \in 1..(i - 1) : a[j] = b[j]
DefaultOrder == SetToSortSeq(Cached, LAMBDA a, b : LexBefore(KeyOf(a), KeyOf(b)))

(* Reference page: the rows at positions (n-1)*s+1 .. n*s, or all rows    *)
(* when paging is off.                                                     *)
RefPage(rows, size, number) ==
    IF size > 0 /\ number > 0
    THEN LET first == (number - 1) * size
             cnt   == IF first >= Len(rows) THEN 0
                      ELSE IF first + size > Len(rows) THEN Len(rows) - first ELSE size
         IN  [p \in 1..cnt |-> rows[first + p]]
    ELSE rows

(* Spec 4.1: the default ordering is a deterministic total order, and     *)
(* paging returns the window of that order: whatever order the sync.Map   *)
(* ranges in, an admin List returns exactly the reference page.           *)
ListIsOrderedPage ==
    input.less = "default" => out.rows = RefPage(DefaultOrder, input.size, input.number)

(* Spec 3: among the routes that match, the one with the highest priority *)
(* wins: ProxyHandler's Rows[0] has the largest priority of all matches.  *)
HighestPriorityWins ==
    (input.less = "proxy" /\ out.rows # <<>>)
        => \A k \in Cached :
              MatchRoute(req, cache[k]) = "match" => cache[k].priority <= cache[out.rows[1]].priority

(* Spec 4.2, read as a reference matcher: status active; each dimension  *)
(* unconstrained, or a list entry admitting the request (OR) and the      *)
(* single field admitting it too (AND); addresses by CIDR containment;    *)
(* the sentinel ALL admitting every method.                                *)
InRanges(a, list) == list = <<>> \/ \E i \in 1..Len(list) : InRange(a, list[i])
RefMatch(r, rt) ==
    /\ rt.m.status = 1
    /\ Admits(rt.m.uris, rt.m.uri, r.uri)
    /\ Admits(rt.m.hosts, rt.m.host, r.host)
    /\ InRanges(r.peer, rt.m.remoteAddrs)
    /\ \A i \in 1..Len(rt.m.remoteAddr) : InRange(r.peer, rt.m.remoteAddr[i])
    /\ rt.m.methods = <<>> \/ \E i \in 1..Len(rt.m.methods) : rt.m.methods[i] \in {r.method, "ALL"}

\* The ranges of a route's criteria that are no dotted IPv4 address or CIDR.
ForeignRange(rt) ==
    \E rg \in Range(rt.m.remoteAddrs) \cup Range(rt.m.remoteAddr) : ~IsIPv4(rg.addr)

(* Spec 4.2 and 7: the routes ProxyHandler considers are exactly those  *)
(* the reference matcher accepts for the request; and when the binary-    *)
(* string test in MatchRoute panics and ends the process, some cached     *)
(* route carries a range that is no IPv4 address, never because of an    *)
(* IPv4 CIDR whatever its mask.                                            *)
ProxyMatchesSpec ==
    input.less = "proxy" =>
        IF out = Crashed
        THEN \E k \in Cached : ForeignRange(cache[k])
        ELSE /\ Range(out.rows) = {k \in Cached : RefMatch(req, cache[k])}
             /\ out.total = Len(out.rows)
=============================================================================
