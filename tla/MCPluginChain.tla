---------------------------- MODULE MCPluginChain ----------------------------
EXTENDS PluginChain

(* The repository's plugins, in the order their init() runs (Go runs a  *)
(* package's init functions in file-name order).  cgw-interface-part is  *)
(* of another package, which shares no name with this one, so the order  *)
(* of the two packages does not matter.  "ext" stands for a plugin of    *)
(* another module built on the Plugin interface.                          *)
RepoPlugins ==
    << BasicAuth, Cors, GelfUdpLogger, Gzip, Headers, HttpLogger, IpRestriction, JwtAuth,
       LimitReq, MultiResponseRewrite, OAuth2, Prometheus, ProxyCache, ProxyRewrite, RealIP,
       RedirectRegex, Redirect, RequestId, ResponseRewrite, ResponseRewrite2, Say,
       ServerlessPostFunction, ServerlessPreFunction, Syslog,
       CgwInterfacePart, Plugin("ext", 2000, FALSE) >>

(* The repository's build, and builds that also link a plugin reusing a  *)
(* taken name: one whose init only logs the error, one whose init is     *)
(* fatal.                                                                  *)
MCBuilds ==
    { RepoPlugins,
      RepoPlugins \o << Plugin("ip-restriction", 9000, FALSE) >>,
      RepoPlugins \o << Plugin("limit-req", 1, TRUE) >> }

\* The other module's plugin, by what its ResponseFilter does.
Ext(r) == [resp |-> r]

Other == [x |-> 0]

Rr2Conf(st, hdrs, body, filters) ==
    [disable |-> FALSE, status |-> st, headers |-> hdrs, body |-> body, filters |-> filters]

IpConf(w, b) == [disable |-> FALSE, whitelist |-> w, blacklist |-> b]

CorsConf(origins, regex) ==
    [disable |-> FALSE, credential |-> FALSE, origins |-> origins, methods |-> <<>>,
     headers |-> <<>>, expose |-> <<>>, regex |-> regex]

(* RA rewrites / to /v2 and clears X-Forwarded-For ahead of an           *)
(* ip-restriction whitelist of 10.0.0.0/16; RB holds two equal-priority  *)
(* plugins that both fail and two configurations ParseConf rejects; RC   *)
(* holds another, an unregistered name, and a plugin whose response      *)
(* filter fails; RD                                                       *)
(* blacklists 10.0.0.1, allows the origin o1 by regex, and has a response *)
(* filter set 403; RE authenticates with oauth2 (bearer only), maps the  *)
(* body's interface i1 to /i1, and holds gzip; in RF say writes "hi",    *)
(* which response-rewrite2 rewrites when it runs after; in RG say is     *)
(* disabled and response-rewrite2 writes its configured body.  RF also   *)
(* holds a basic-auth configuration json.Unmarshal rejects, RG a syslog   *)
(* configuration it accepts.                                               *)
RA == ("proxy-rewrite" :> [disable |-> FALSE, method |-> "", uri |-> "", host |-> "",
                           regex |-> << [from |-> {"/"}, to |-> "/v2"] >>,
                           headers |-> ("X-Forwarded-For" :> NoAddr)])
   @@ ("ip-restriction" :> IpConf(<< [addr |-> <<10, 0, 0, 0>>, mask |-> 16] >>, <<>>))
   @@ ("request-id" :> [disable |-> FALSE, headerName |-> ""])
RB == ("limit-req" :> [burst |-> 0]) @@ ("jwt-auth" :> [tokenFormat |-> "Bearer"])
   @@ ("ext" :> Ext("pass"))
   @@ ("say" :> [disable |-> FALSE, body |-> "", bodyLen |-> 0])
   @@ ("response-rewrite2" :>
          Rr2Conf(0, {}, "", << [regex |-> BadRegex, scope |-> "once", replace |-> ""] >>))
RC == ("cors" :> CorsConf(<<"*">>, <<>>)) @@ ("real-ip" :> [source |-> "", trusted |-> <<>>])
   @@ ("echo" :> Other) @@ ("ext" :> Ext("fail")) @@ ("multi-response-rewrite" :> Other)
RD == ("ip-restriction" :> IpConf(<<>>, << [addr |-> <<10, 0, 0, 1>>, mask |-> NoMask] >>))
   @@ ("cors" :> CorsConf(<<>>, << {"o1"} >>)) @@ ("ext" :> Ext("status"))

RE == ("oauth2" :> [disable |-> FALSE, idLen |-> 6, secretLen |-> 1, discoveryLen |-> 1,
                    bearerOnly |-> TRUE, endpoint |-> "ok"])
   @@ ("cgw-interface-part" :>
          [disable |-> FALSE, interfaces |-> << [name |-> "i1", dest |-> "/i1", method |-> "POST"] >>])
   @@ ("gzip" :> [disable |-> FALSE])

RF == ("say" :> [disable |-> FALSE, body |-> "hi", bodyLen |-> 2])
   @@ ("basic-auth" :> [decodes |-> FALSE])
   @@ ("response-rewrite2" :>
          Rr2Conf(200, {"X-A"}, "", << [regex |-> {"hi"}, scope |-> "global", replace |-> "HI"] >>))

RG == ("say" :> [disable |-> TRUE, body |-> "hi", bodyLen |-> 2])
   @@ ("syslog" :> [decodes |-> TRUE])
   @@ ("response-rewrite2" :> Rr2Conf(0, {}, "x", <<>>))

(* Upstreams.  A JSON object of nodes maps "host:port" keys, split at ":" *)
(* into parts, to weights; a JSON array holds node objects.               *)
Up(tls, disco, args, nodes, type) ==
    [kind |-> "up", tls |-> tls, disco |-> disco, args |-> args, nodes |-> nodes, type |-> type]
JMap(m)  == [kind |-> "map", m |-> m]
JList(s) == [kind |-> "list", s |-> s]
Obj(f)   == [obj |-> TRUE, f |-> f]
Plain(nodes, type) == Up("none", "", "", nodes, type)

TwoNodes == JMap((<<"n1", 80>> :> 1) @@ (<<"n2", 81>> :> 2))
OneNode  == JMap(<<"n1", 80>> :> 1)

(* The plugin routes use upstreams that build: two weighted nodes by round *)
(* robin, a node array with a client key pair by hash, a node without a   *)
(* port behind an unregistered discovery type, and polaris with nodes.    *)
(* The routes without plugins carry the upstreams that do not: polaris   *)
(* without nodes, an IPv6 key beside a value that is no number, a key     *)
(* pair that does not parse, an empty node array, an array node without a *)
(* port, nodes that are a string, and no upstream at all.                 *)
NoPlugins == [n \in {} |-> Other]
Route(plugins, up) == [plugins |-> plugins, upstream |-> up]

MCRoutes ==
    { Route(RA, Plain(TwoNodes, "roundrobin")),
      Route(RB, Up("good", "", "", JList(<< Obj(("host" :> "n1") @@ ("port" :> 80)
                                               @@ ("weight" :> 1) @@ ("priority" :> 1)) >>), "chash")),
      Route(RC, Up("none", "k8s", "", JMap(<<"n1">> :> 1), "")),
      Route(RD, Plain(JMap((<<"n1", 80>> :> 1) @@ (<<"n2", 80>> :> 0)), "chash")),
      Route(RE, Plain(OneNode, "roundrobin")),
      Route(RF, Up("none", "polaris", "a1", OneNode, "roundrobin")),
      Route(RG, Plain(OneNode, "")),
      Route(NoPlugins, Up("none", "polaris", "a1", NilNodes, "")),
      Route(NoPlugins, Plain(JMap((<<"[", NotNum, NotNum, 80>> :> 1) @@ (<<"n1", 80>> :> NotNum)), "")),
      Route(NoPlugins, Up("bad", "", "", OneNode, "")),
      Route(NoPlugins, Plain(JList(<<>>), "")),
      Route(NoPlugins, Plain(JList(<< Obj(("host" :> "n1") @@ ("weight" :> 1)) >>), "")),
      Route(NoPlugins, Plain([kind |-> "scalar"], "")),
      Route(NoPlugins, NoUpstream) }

(* The backend answers 200 with a hop-by-hop header and a body.          *)
MCBackend == { [status |-> 200, hdrs |-> {"Connection", "X-Backend"}, body |-> <<"b">>] }

Req(m, xff, origin, ext, auth, idp, body) ==
    [acrh |-> <<>>, method |-> m, uri |-> "/", host |-> "h", xff |-> xff, realip |-> NoAddr,
     origin |-> origin, auth |-> auth, body |-> body, hdrs |-> {}, idp |-> idp, ext |-> ext]

(* No forwarded address, a forwarded value that is no address, a CORS     *)
(* preflight, one asking for a header no allow_headers lists, a forwarded *)
(* address inside 10.0.0.0/16, and requests the other module's plugin     *)
(* rejects or fails.  For RE: a token accepted with a Data object, no    *)
(* Authorization, Data that is no object, a Basic token, a Data object    *)
(* merged into a null body, and an object naming no interface.            *)
MCRequests ==
    { Req("GET", <<>>, "", "pass", "Bearer", "okmap", "i1"),
      Req("GET", << <<NaN>> >>, "", "pass", "", "ok", "i1"),
      Req("OPTIONS", <<>>, "o1", "pass", "Bearer", "okscalar", "i1"),
      [Req("OPTIONS", <<>>, "o1", "pass", "", "ok", "") EXCEPT !.acrh = <<"X-A">>],
      Req("GET", << <<10, 0, 200, 7>> >>, "", "reject", "Basic", "ok", ""),
      Req("GET", <<>>, "", "fail", "Bearer", "okmap", "null"),
      Req("GET", <<>>, "", "pass", "Bearer", "ok", "") }

\* A peer blacklisted by RD, and one outside the 10.0.0.0/16 whitelist.
MCPeers == { <<10, 0, 0, 1>>, <<10, 1, 0, 1>> }
=============================================================================
