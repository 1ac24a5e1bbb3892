\* Three cached routes; pages of 1-2 rows, numbered 0, 2 or 4 (page 4 of
\* size 1 is past the end, page 2 of size 2 is a short tail).  Priority
\* orders only ProxyHandler's rows, which no invariant here reads.  Route criteria:
\* unpublished, a URI/host/method route with an IPv4 and an IPv6 CIDR, and
\* one whose single RemoteAddr narrows its 0.0.0.0/0 list.  A panic in
\* MatchRoute ends the process, the one state with no successor.
CONSTANTS
    Ids = {1, 2, 3}
    Priorities = {0}
    Times = {1, 2}
    PageSizes = {1, 2}
    PageNumbers = {0, 2, 4}
    Confs <- MCConfs
    Requests <- MCRequests
SPECIFICATION Spec
INVARIANT ListIsOrderedPage
INVARIANT ProxyMatchesSpec
CHECK_DEADLOCK FALSE
