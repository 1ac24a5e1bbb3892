--------------------------- MODULE PluginFilters ---------------------------
(***************************************************************************)
(* The concrete plugins of src/internal/apisix/plugins/plugins: for each, *)
(* what ParseConf accepts and what RequestFilter does to the request and  *)
(* the response.  Each filter returns [req, resp, err, panic].            *)
(*                                                                         *)
(* A request is [method, uri, host, xff, realip, origin, auth, body,     *)
(* hdrs, idp, ext]: xff is the X-Forwarded-For lines (IpUtils addresses), *)
(* realip the X-Real-IP value, origin the Origin header, auth the scheme  *)
(* word of the Authorization header ("" when absent), body the JSON body  *)
(* ("bad" when it is no JSON, "null", or the InterfaceName of an object,  *)
(* "" when it has none), hdrs the other header names set, idp what the    *)
(* oauth2 introspection endpoint answers for its token, and ext what a    *)
(* plugin outside the repository (any Plugin implementation) does with    *)
(* it.  A response is [status, hdrs, body].                                     *)
(*                                                                         *)
(* Plugin configurations are records of the fields the code reads.  The   *)
(* JSON-schema check of ParseConf runs on the Go struct marshalled back to *)
(* JSON (gojsonschema.NewGoLoader), so an omitempty field that is empty is *)
(* absent, and a []string field is an array.                               *)
(***************************************************************************)
EXTENDS Integers, Sequences, SequencesExt, IpUtils

Behaviours == {"pass", "reject", "fail"}

Pass(req, resp) == [req |-> req, resp |-> resp, err |-> FALSE, panic |-> FALSE]
Fail(req, resp, st) ==
    [req |-> req, resp |-> [resp EXCEPT !.status = st], err |-> TRUE, panic |-> FALSE]
Panic(req, resp) == [req |-> req, resp |-> resp, err |-> FALSE, panic |-> TRUE]

-----------------------------------------------------------------------------
(* ip-restriction.  The schema: exactly one of whitelist and blacklist     *)
(* present (oneOf of two "required"), each item an IPv4 address, an IPv4  *)
(* CIDR with mask 0..32, an IPv6 address, or an IPv6 CIDR with a mask of  *)
(* one to three digits.                                                    *)
ValidRangeItem(r) ==
    \/ IsIPv4(r.addr) /\ (r.mask = NoMask \/ r.mask \in 0..32)
    \/ r.addr = V6Addr /\ (r.mask = NoMask \/ r.mask \in 0..999)

IpRestrictionParseConf(c) ==
    /\ (c.whitelist # <<>>) # (c.blacklist # <<>>)
    /\ \A i \in 1..Len(c.whitelist) : ValidRangeItem(c.whitelist[i])
    /\ \A i \in 1..Len(c.blacklist) : ValidRangeItem(c.blacklist[i])

(* RequestFilter: a blacklisted client gets 403 and the message error; so *)
(* does one a non-empty whitelist does not list.                           *)
IpRestrictionFilter(c, req, resp) ==
    LET ip == ClientIP(req.xff, req.realip)
        b  == FirstHit(ip, c.blacklist)
        w  == FirstHit(ip, c.whitelist)
    IN  CASE c.disable -> Pass(req, resp)
          [] b = "panic" -> Panic(req, resp)
          [] b = "match" -> Fail(req, resp, 403)
          [] c.whitelist # <<>> /\ w = "panic" -> Panic(req, resp)
          [] c.whitelist # <<>> /\ w = "nomatch" -> Fail(req, resp, 403)
          [] OTHER -> Pass(req, resp)

-----------------------------------------------------------------------------
(* proxy-rewrite.  The schema constrains method to an enum; its top-level *)
(* minProperties holds always, since "disable" is never omitted.           *)
RewriteMethods == {"COPY", "DELETE", "GET", "HEAD", "LOCK", "MKCOL", "MOVE", "OPTIONS",
                   "PATCH", "POST", "PROPFIND", "PUT", "TRACE", "UNLOCK"}

ProxyRewriteParseConf(c) == c.method = "" \/ c.method \in RewriteMethods

\* r.Header.Set(name, val) for the headers the model tells apart.
SetHeader(req, name, val) ==
    CASE name = "X-Forwarded-For" -> [req EXCEPT !.xff = <<val>>]
      [] name = "X-Real-IP"       -> [req EXCEPT !.realip = val]
      [] OTHER                    -> [req EXCEPT !.hdrs = @ \cup {name}]

\* r.Header.Del(name).
DelHeader(req, name) ==
    CASE name = "X-Forwarded-For" -> [req EXCEPT !.xff = <<>>]
      [] name = "X-Real-IP"       -> [req EXCEPT !.realip = NoAddr]
      [] OTHER                    -> [req EXCEPT !.hdrs = @ \ {name}]

(* One entry of the headers map: an empty value is meant to delete the   *)
(* header, but the code passes the value, the empty string, to Del.       *)
RewriteHeader(req, key, val) ==
    IF val = NoAddr THEN DelHeader(req, "") ELSE SetHeader(req, key, val)

(* regex_uri, used when uri is not set: a pair [pattern, template] is     *)
(* the set of request URIs the compiled pattern matches (empty when it    *)
(* does not compile: the error is only logged) and the path Replace and   *)
(* path.Clean make of them.  A match sets the path and records the old   *)
(* URI in X-Rewrite-Origin-URI.                                            *)
RegexRewrite(c, req) ==
    IF c.regex # <<>> /\ req.uri \in Head(c.regex).from
    THEN [req EXCEPT !.uri = Head(c.regex).to, !.hdrs = @ \cup {"X-Rewrite-Origin-URI"}]
    ELSE req

(* RequestFilter: method, uri (or regex_uri) and host replaced when       *)
(* configured, then each header entry applied.  The entries touch         *)
(* distinct headers, so the map's order does not matter.  The scheme is   *)
(* not part of the request record.                                         *)
ProxyRewriteFilter(c, req, resp) ==
    LET r0 == [req EXCEPT !.method = IF c.method # "" THEN c.method ELSE @,
                          !.uri    = IF c.uri # "" THEN c.uri ELSE @]
        r1 == [IF c.uri = "" THEN RegexRewrite(c, r0) ELSE r0
                  EXCEPT !.host = IF c.host # "" THEN c.host ELSE @]
        keys == SetToSeq(DOMAIN c.headers)
        RECURSIVE Apply(_, _)
        Apply(r, i) == IF i > Len(keys) THEN r
                       ELSE Apply(RewriteHeader(r, keys[i], c.headers[keys[i]]), i + 1)
    IN  IF c.disable THEN Pass(req, resp) ELSE Pass(Apply(r1, 1), resp)

-----------------------------------------------------------------------------
(* limit-req.  ParseConf only decodes the JSON and builds the limiter.    *)
(* Reserve() on a limiter with a positive rate is OK exactly when the     *)
(* burst admits one token (the wait is slept off); a burst of 0 rejects   *)
(* every request with 503 and an error.                                    *)
LimitReqParseConf(c) == TRUE

LimitReqFilter(c, req, resp) ==
    IF c.burst >= 1 THEN Pass(req, resp) ELSE Fail(req, resp, 503)

-----------------------------------------------------------------------------
(* jwt-auth.  ParseConf requires token_format "Bearer" or "Custom".  The  *)
(* filter never reads Disable.  getToken: for Bearer, the Authorization   *)
(* header after its first 7 bytes, or "" when shorter; for Custom, the    *)
(* configured header, which the model's requests never carry.  A token    *)
(* that is present goes to jwt.Parse with a key function returning the    *)
(* secret as a string: every signing method of jwt-go wants another key   *)
(* type ([]byte, *rsa.PublicKey, ...), so Parse fails.                     *)
JwtAuthParseConf(c) == c.tokenFormat \in {"Bearer", "Custom"}

(* RequestFilter: no token is badAuthorizationHeader with 403; a token is *)
(* the error of jwt.Parse with 403.  The two differ only in the error.     *)
JwtAuthFilter(c, req, resp) == Fail(req, resp, 403)

-----------------------------------------------------------------------------
(* cors.  The schema types allow_origins, allow_methods, allow_headers    *)
(* and expose_headers as strings, but the struct holds []string, which    *)
(* marshals to an array: a configuration that sets any of them fails.     *)
(* allow_origins_by_regex is an array in both; a regex is modelled by the *)
(* set of origins reg_uri.DomainMatch accepts for it.                      *)
CorsParseConf(c) ==
    c.origins = <<>> /\ c.methods = <<>> /\ c.headers = <<>> /\ c.expose = <<>>

\* A list entry admits v: "*" without credentials, "**" with, or v itself.
AllowedBy(c, list, v) ==
    \E i \in 1..Len(list) :
        \/ ~c.credential /\ list[i] = "*"
        \/ c.credential /\ list[i] = "**"
        \/ list[i] = v

IsAllowedOrigin(c, o) == (\E i \in 1..Len(c.regex) : o \in c.regex[i]) \/ AllowedBy(c, c.origins, o)

IsAllowedMethod(c, m) == m = "OPTIONS" \/ AllowedBy(c, c.methods, m)

(* isHeadersAllowed: every header of Access-Control-Request-Headers (its *)
(* ","-separated pieces) is in allow_headers, or a wildcard entry admits  *)
(* all; no requested header is always allowed.                             *)
IsHeadersAllowed(c, hs) == \A j \in 1..Len(hs) : AllowedBy(c, c.headers, hs[j])

(* handlePreflight and handleActual set the Allow-Origin header (with the *)
(* others) when the origin is present and allowed; the preflight also    *)
(* needs the requested method (the model's requests ask for GET) and the  *)
(* requested headers, and echoes those in Allow-Headers.                   *)
CorsHandle(c, req, resp) ==
    LET preflight == req.method = "OPTIONS"
        echoed    == IF preflight /\ req.acrh # <<>> THEN {"Access-Control-Allow-Headers"} ELSE {}
    IN  IF /\ req.origin # "" /\ IsAllowedOrigin(c, req.origin)
           /\ preflight => IsAllowedMethod(c, "GET") /\ IsHeadersAllowed(c, req.acrh)
        THEN [resp EXCEPT !.hdrs = @ \cup {"Access-Control-Allow-Origin"} \cup echoed]
        ELSE resp

\* RequestFilter: a preflight (OPTIONS) is answered with status 200.
CorsFilter(c, req, resp) ==
    CASE c.disable              -> Pass(req, resp)
      [] req.method = "OPTIONS" -> Pass(req, [CorsHandle(c, req, resp) EXCEPT !.status = 200])
      [] OTHER                  -> Pass(req, CorsHandle(c, req, resp))

-----------------------------------------------------------------------------
(* cgw-interface-part.  Its schema requires interfaces, an array of at    *)
(* least one item; the item schema names no keywords and "required"      *)
(* constrains objects only, so any non-empty list parses.                  *)
CgwParseConf(c) == c.interfaces # <<>>

(* RequestFilter: a body that is no JSON is 400 and an error; otherwise   *)
(* the first interface whose name is the body's InterfaceName ("" for    *)
(* null or a missing field) sets the URI and, when given, the method      *)
(* (Data, any JSON value, only replaces the body); none is 404 and an     *)
(* error.                                                                  *)
CgwFilter(c, req, resp) ==
    LET name == IF req.body = "null" THEN "" ELSE req.body
        hits == {i \in 1..Len(c.interfaces) : c.interfaces[i].name = name}
    IN  CASE c.disable        -> Pass(req, resp)
          [] req.body = "bad" -> Fail(req, resp, 400)
          [] hits # {}        ->
                LET f == c.interfaces[Min(hits)]
                IN  Pass([req EXCEPT !.uri = f.dest,
                                     !.method = IF f.method # "" THEN f.method ELSE @], resp)
          [] OTHER            -> Fail(req, resp, 404)

-----------------------------------------------------------------------------
(* oauth2.  The schema requires client_id (6 to 1024 bytes),             *)
(* client_secret and discovery (1 to 1024 bytes); omitempty drops an     *)
(* empty one, which then fails "required".  Lengths stand for the values. *)
OAuth2ParseConf(c) ==
    c.idLen \in 6..1024 /\ c.secretLen \in 1..1024 /\ c.discoveryLen \in 1..1024

(* verifyToken: an empty or unparsable introspection endpoint, a transport *)
(* error, a body with an "error" key or without Code 200 all reject.  A    *)
(* Data object is merged into the request body unmarshalled as a map: a    *)
(* body that is no JSON keeps it (and still accepts), a JSON null leaves   *)
(* the map nil and the first assignment panics.  Other Data is appended   *)
(* to the body, which is then no JSON.                                     *)
VerifyToken(c, req) ==
    CASE c.endpoint # "ok" \/ req.idp \in {"down", "error", "nocode"}
                                        -> [ok |-> FALSE, panic |-> FALSE, req |-> req]
      [] req.idp = "okmap" /\ req.body = "null"
                                        -> [ok |-> TRUE, panic |-> TRUE, req |-> req]
      [] req.idp = "okscalar"           -> [ok |-> TRUE, panic |-> FALSE,
                                            req |-> [req EXCEPT !.body = "bad"]]
      [] OTHER                          -> [ok |-> TRUE, panic |-> FALSE, req |-> req]

(* RequestFilter: no Authorization header, or (bearer_only) one without  *)
(* "Bearer", or a token verifyToken rejects, is 401 and an error.          *)
OAuth2Filter(c, req, resp) ==
    LET v == VerifyToken(c, req) IN
    CASE c.disable                               -> Pass(req, resp)
      [] req.auth = ""                           -> Fail(req, resp, 401)
      [] c.bearerOnly /\ req.auth # "Bearer"     -> Fail(req, resp, 401)
      [] v.panic                                 -> Panic(req, resp)
      [] ~v.ok                                   -> Fail(req, resp, 401)
      [] OTHER                                   -> Pass(v.req, resp)

-----------------------------------------------------------------------------
(* real-ip: the schema requires a non-empty source and valid trusted      *)
(* addresses; the filter does nothing.                                     *)
RealIpParseConf(c) ==
    c.source # "" /\ \A i \in 1..Len(c.trusted) : ValidRangeItem(c.trusted[i])

RealIpFilter(c, req, resp) == Pass(req, resp)

(* request-id: sets the configured header (X-Request-Id by default) to a  *)
(* new UUID unless disabled.                                               *)
RequestIdParseConf(c) == TRUE

RequestIdFilter(c, req, resp) ==
    IF c.disable THEN Pass(req, resp)
    ELSE Pass(SetHeader(req, IF c.headerName = "" THEN "X-Request-Id" ELSE c.headerName, <<NaN>>), resp)

(* A plugin from outside the repository, through the Plugin interface: it *)
(* may pass, set a non-200 status and return nil, or return an error.     *)
ExtFilter(c, req, resp) ==
    CASE req.ext = "pass"   -> Pass(req, resp)
      [] req.ext = "reject" -> Pass(req, [resp EXCEPT !.status = 403])
      [] OTHER              -> Fail(req, resp, resp.status)

-----------------------------------------------------------------------------
(* Response filters return [resp, err].  A response body is the sequence *)
(* of the chunks written to it; BodyWriter().Write appends one.           *)
RPass(w) == [resp |-> w, err |-> FALSE]
RFail(w) == [resp |-> w, err |-> TRUE]

\* The text s as body chunks: nothing for "".
Chunks(s) == IF s = "" THEN <<>> ELSE <<s>>

\* DefaultPlugin, embedded by every plugin: both filters return nil.
DefaultRequestFilter(req, resp) == Pass(req, resp)
DefaultResponseFilter(w) == RPass(w)

(* multi-response-rewrite: ParseConf is json.Unmarshal alone; its         *)
(* RequestFilter only asserts the configuration's type.                    *)
MultiResponseRewriteFilter(c, req, resp) == Pass(req, resp)

(* say.  The schema requires 1..1024 characters of body, and body is not *)
(* omitempty, so an absent body ("") fails.                                *)
SayParseConf(c) == c.bodyLen \in 1..1024

\* Unless disabled: add the X-Resp-A6-Runner header and write the body.
SayResponseFilter(c, w) ==
    IF c.disable THEN RPass(w)
    ELSE RPass([w EXCEPT !.hdrs = @ \cup {"X-Resp-A6-Runner"}, !.body = @ \o Chunks(c.body)])

(* response-rewrite2.  A filter's regex is the set of chunks it finds;   *)
(* BadRegex stands for a pattern such as "(" that regexp.Compile rejects *)
(* in ParseConf.  The Disable field is decoded but never read.            *)
BadRegex == {"("}

Rr2ParseConf(c) == \A i \in 1..Len(c.filters) : c.filters[i].regex # BadRegex

(* One iteration of the filters loop on [body, matched]: Find returns the *)
(* leftmost match; scope "once" replaces its first occurrence, "global"   *)
(* every occurrence, any other scope nothing (but it still matched).      *)
Rr2Apply(st, f) ==
    LET at == {i \in 1..Len(st.body) : st.body[i] \in f.regex}
        found == st.body[Min(at)]
    IN  IF at = {} THEN st
        ELSE [matched |-> TRUE,
              body |-> CASE f.scope = "once"   -> ReplaceFirstSubSeq(Chunks(f.replace), <<found>>, st.body)
                         [] f.scope = "global" -> ReplaceAllSubSeqs(Chunks(f.replace), <<found>>, st.body)
                         [] OTHER              -> st.body]

(* ResponseFilter: a status > 0 sets 200; the runner header and the       *)
(* configured headers are set.  With filters, the body found so far is    *)
(* rewritten and, if any filter matched, written (appended) again; the    *)
(* configured body is then ignored.  Without, a non-empty body is written.*)
Rr2ResponseFilter(c, w) ==
    LET w1 == [w EXCEPT !.status = IF c.status > 0 THEN 200 ELSE @,
                        !.hdrs = @ \cup {"X-Resp-A6-Runner"} \cup c.headers]
        sc == FoldLeft(Rr2Apply, [body |-> w.body, matched |-> FALSE], c.filters)
    IN  CASE c.filters # <<>> /\ sc.matched -> RPass([w1 EXCEPT !.body = @ \o sc.body])
          [] c.filters # <<>>               -> RPass(w1)
          [] OTHER                          -> RPass([w1 EXCEPT !.body = @ \o Chunks(c.body)])

(* gzip: ParseConf is json.Unmarshal alone, and the compression in        *)
(* ResponseFilter is commented out: it returns nil.                        *)
GzipResponseFilter(c, w) == RPass(w)

(* The foreign plugin's ResponseFilter, decided by its configuration: it *)
(* may pass, set a non-200 status, or return an error.                    *)
ExtResponseFilter(c, w) ==
    CASE c.resp = "pass"   -> RPass(w)
      [] c.resp = "status" -> RPass([w EXCEPT !.status = 403])
      [] OTHER             -> RFail(w)

-----------------------------------------------------------------------------
(* What each plugin's init passes to RegisterPlugin: its name and         *)
(* priority, and whether a registration error is fatal (logger.Fatal) or  *)
(* only logged, after which the init returns without the plugin.  The     *)
(* inits that first build a schema validator build it from a constant     *)
(* schema it compiles, so that early return is never taken.                *)
Plugin(n, p, f) == [name |-> n, prio |-> p, fatal |-> f]

Cors                 == Plugin("cors", 4000, FALSE)
Gzip                 == Plugin("gzip", 10000, TRUE)
IpRestriction        == Plugin("ip-restriction", 3000, FALSE)
JwtAuth              == Plugin("jwt-auth", 10000, TRUE)
LimitReq             == Plugin("limit-req", 10000, TRUE)
MultiResponseRewrite == Plugin("multi-response-rewrite", 10000, TRUE)
OAuth2               == Plugin("oauth2", 2515, FALSE)
ProxyRewrite         == Plugin("proxy-rewrite", 1008, FALSE)
RealIP               == Plugin("real-ip", 23000, FALSE)
RequestId            == Plugin("request-id", 12015, TRUE)
ResponseRewrite2     == Plugin("response-rewrite2", 10000, TRUE)
Say                  == Plugin("say", 10000, FALSE)
CgwInterfacePart     == Plugin("cgw-interface-part", 2801, FALSE)

(* The plugins whose filters are stubs.  Each init registers the plugin   *)
(* at priority 10000 and calls logger.Fatal on an error; ParseConf is     *)
(* json.Unmarshal into the plugin's configuration struct, which fails on  *)
(* a JSON value whose types do not fit the struct's fields (decodes is    *)
(* that verdict); RequestFilter asserts the configuration's type, which   *)
(* ParseConf made, and returns nil; ResponseFilter is DefaultPlugin's.    *)
Stub(n) == Plugin(n, 10000, TRUE)

BasicAuth              == Stub("basic-auth")
GelfUdpLogger          == Stub("gelf-udp-logger")
Headers                == Stub("headers")
HttpLogger             == Stub("http-logger")
Prometheus             == Stub("prometheus")
ProxyCache             == Stub("proxy-cache")
RedirectRegex          == Stub("redirect-regex")
Redirect               == Stub("redirect")
ResponseRewrite        == Stub("response-rewrite")
ServerlessPostFunction == Stub("serverless-post-function")
ServerlessPreFunction  == Stub("serverless-pre-function")
Syslog                 == Stub("syslog")

StubNames ==
    {p.name : p \in {BasicAuth, GelfUdpLogger, Headers, HttpLogger, Prometheus, ProxyCache,
                     RedirectRegex, Redirect, ResponseRewrite, ServerlessPostFunction,
                     ServerlessPreFunction, Syslog}}

StubParseConf(c) == c.decodes

-----------------------------------------------------------------------------
\* The plugin named n: its ParseConf, RequestFilter and ResponseFilter.
ParseConf(n, c) ==
    CASE n = "ip-restriction" -> IpRestrictionParseConf(c)
      [] n = "proxy-rewrite"  -> ProxyRewriteParseConf(c)
      [] n = "limit-req"      -> LimitReqParseConf(c)
      [] n = "jwt-auth"       -> JwtAuthParseConf(c)
      [] n = "cors"           -> CorsParseConf(c)
      [] n = "real-ip"        -> RealIpParseConf(c)
      [] n = "request-id"     -> RequestIdParseConf(c)
      [] n = "cgw-interface-part" -> CgwParseConf(c)
      [] n = "oauth2"         -> OAuth2ParseConf(c)
      [] n = "say"            -> SayParseConf(c)
      [] n = "response-rewrite2" -> Rr2ParseConf(c)
      [] n \in StubNames      -> StubParseConf(c)
      [] OTHER                -> TRUE

RequestFilter(n, c, req, resp) ==
    CASE n = "ip-restriction" -> IpRestrictionFilter(c, req, resp)
      [] n = "proxy-rewrite"  -> ProxyRewriteFilter(c, req, resp)
      [] n = "limit-req"      -> LimitReqFilter(c, req, resp)
      [] n = "jwt-auth"       -> JwtAuthFilter(c, req, resp)
      [] n = "cors"           -> CorsFilter(c, req, resp)
      [] n = "real-ip"        -> RealIpFilter(c, req, resp)
      [] n = "request-id"     -> RequestIdFilter(c, req, resp)
      [] n = "cgw-interface-part" -> CgwFilter(c, req, resp)
      [] n = "oauth2"         -> OAuth2Filter(c, req, resp)
      [] n = "multi-response-rewrite" -> MultiResponseRewriteFilter(c, req, resp)
      [] n \in {"say", "response-rewrite2", "gzip"} -> DefaultRequestFilter(req, resp)
      [] n \in StubNames      -> Pass(req, resp)
      [] OTHER                -> ExtFilter(c, req, resp)

\* The plugins of the repository, whose ResponseFilter is DefaultPlugin's
\* unless they define one.
RepoNames ==
    {"ip-restriction", "proxy-rewrite", "limit-req", "jwt-auth", "cors", "real-ip",
     "request-id", "cgw-interface-part", "oauth2", "say", "response-rewrite2",
     "gzip", "multi-response-rewrite"} \cup StubNames

ResponseFilter(n, c, w) ==
    CASE n = "say"               -> SayResponseFilter(c, w)
      [] n = "response-rewrite2" -> Rr2ResponseFilter(c, w)
      [] n = "gzip"              -> GzipResponseFilter(c, w)
      [] n \in RepoNames         -> DefaultResponseFilter(w)
      [] OTHER                   -> ExtResponseFilter(c, w)
=============================================================================
