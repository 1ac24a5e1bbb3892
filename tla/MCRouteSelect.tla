---------------------------- MODULE MCRouteSelect ----------------------------
EXTENDS RouteSelect

Rg(a, msk) == [addr |-> a, mask |-> msk]

\* No constraint but the status.
CAny == [status |-> 1, uris |-> <<>>, uri |-> <<>>, hosts |-> <<>>, host |-> <<>>,
         remoteAddrs |-> <<>>, remoteAddr |-> <<>>, methods |-> <<>>]
\* An unpublished route.
COff == [CAny EXCEPT !.status = 0, !.methods = <<"ALL">>]
\* Path /a on host h, GET, from 10.0.0.0/16 or an IPv6 /64.
CNet == [CAny EXCEPT !.uris = <<{"/a"}>>, !.host = <<{"h"}>>,
                     !.remoteAddrs = <<Rg(<<10, 0, 0, 0>>, 16), Rg(V6Addr, 64)>>,
                     !.methods = <<"GET">>]
\* One URI for /a and /b, hosts h or g, 0.0.0.0/0 and also 10.1.0.0/16, ALL.
COne == [CAny EXCEPT !.uri = <<{"/a", "/b"}>>, !.hosts = <<{"h"}, {"g"}>>,
                     !.remoteAddrs = <<Rg(<<0, 0, 0, 0>>, 0)>>,
                     !.remoteAddr = <<Rg(<<10, 1, 0, 0>>, 16)>>,
                     !.methods = <<"ALL">>]

MCConfs == {COff, CNet, COne}
MCAnyConf == {CAny}

Rq(u, h, p, mth) == [uri |-> u, host |-> h, peer |-> p, method |-> mth]
MCRequests ==
    { Rq("/a", "h", <<10, 0, 0, 1>>, "GET"),
      Rq("/b", "h", <<10, 0, 0, 1>>, "POST"),
      Rq("/a", "h", <<10, 1, 0, 1>>, "GET"),
      Rq("/a", "g", <<10, 1, 0, 1>>, "GET") }
=============================================================================
