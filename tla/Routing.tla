------------------------------ MODULE Routing -------------------------------
(***************************************************************************)
(* The way of one request from the page that carries an address to the     *)
(* site it is meant for: the address written by the server or by the shim, *)
(* the routes of auth/manager.go (gatewayOnly), ServeHTTP, serveProxy,     *)
(* serveStray and the redirects of proxy.go, and restore.go on the         *)
(* parameters the request carries. Every step that asks for the addressing *)
(* scheme asks codecCache again, and the console may save other settings   *)
(* between any two of them.                                                *)
(*                                                                         *)
(* The calls one helper makes (unwrapTarget, strayBase, restoreTargets)    *)
(* share one answer of the cache. Which targets are allowed is Guard's.    *)
(***************************************************************************)
EXTENDS CodecCache, Addressing

CONSTANTS
    Request,     \* requests followed; the other callers only ask the cache
    Sources,     \* where a request comes from, see Source
    Changing,    \* bound: the sources whose request may meet an edit
    Gate,        \* the gateway's name outside the sub-domain mode
    SSOs,        \* what the console may say of restoration, see RestoreAll
    OwnPages     \* first segments of the identity routes: /login, /admin, ...

\* The console's setting for restoration, by default everywhere; under "hosts",
\* hosts is the set of names its patterns match.
RestoreAll == [mode |-> "all", hosts |-> {}]

\* The paths of the gateway's own that serve the portal.
PortalPaths == {Root, << <<"index.html">> >>}

\* How a request's address came about, on a page the browser has open:
\*   link      the server wrote it into the page        (rewrite.go)
\*   shim      a script asked for an absolute address   (shim.js)
\*   relative  a script asked for a path of its site    (shim.js)
\*   again     the shim met an address the server wrote (shim.js)
\*   own       the shim asked for a route of the gateway  (its renewal, its cookies)
\*   origin    a script put a path behind location.origin, unseen by the shim
\*   folded    a script put location.pathname behind a base path of its own
\*   typed     the portal's form                        (serveGoto)
\*   portal    an address of the gateway's own pages
Kinds == {"link", "shim", "relative", "again", "own", "origin", "folded", "typed", "portal"}

ASSUME RoutingAssumption ==
    /\ Request \subseteq Caller
    /\ Changing \subseteq Sources
    /\ RestoreAll \in SSOs /\ \A c \in SSOs : c.mode \in {"all", "hosts", "off"}
    /\ \A s \in Sources :
        /\ DOMAIN s = {"kind", "page", "want", "param", "referer", "trail"}
        /\ s.kind \in Kinds
        /\ {s.page, s.want, s.param.url} \cup s.trail \subseteq Address
        /\ \A u \in {s.page, s.want, s.param.url} \cup s.trail :
              u.host # << >> /\ ~HasPort(u.host) /\ u.port \notin BadPorts
        /\ ~PlainMatch(s.page.path)
        /\ s.kind \in {"relative", "origin"} => [s.want EXCEPT !.path = << >>] = [s.page EXCEPT !.path = << >>]
        /\ s.param.kind = "origin" => [s.param.url EXCEPT !.path = << >>] = [s.page EXCEPT !.path = << >>]
        /\ s.kind = "portal" => PathOf(s.want) \in PortalPaths \/ s.want.path[1] \in OwnPages
    /\ \A segment \in OwnPages : segment # PlainPrefix /\ ~WRDMatch(<<segment>>)

VARIABLES
    source,      \* [Request -> Sources]
    written,     \* [Request -> the settings its address was written under]
    pc,          \* [Request -> the step it runs next]
    addr,        \* [Request -> the gateway address it is sent to]
    target,      \* [Request -> the target it was decoded to]
    fixed,       \* [Request -> the target a redirect is to name]
    strayed,     \* [Request -> it was attributed to a page by serveStray]
    sso,         \* [Request -> the setting its parameters were restored by]
    param        \* [Request -> the address it carries in a parameter]

reqVars == <<source, written, pc, addr, target, fixed, strayed, sso, param>>
vars == <<cacheVars, reqVars>>

Ends == {"site", "portal", "gateway", "bad", "notfound"}

-----------------------------------------------------------------------------
(* Settings *)

PortalHost(s) == IF s.host # << >> THEN s.host ELSE <<"app", ".">> \o s.base
\* codecCache.build and NewHostCodec.
CodecOf(s) ==
    CASE s.mode = "wrd" -> WRDCodec
      [] s.mode = "subdomain" -> HostCodec(s.base, PortalHost(s), s.port)
      [] OTHER -> PlainCodec

ASSUME BuildAssumption ==
    /\ Gate \in Name /\ {"app", "_wv", "cookie", "d"} \subseteq Token
    /\ \A s \in Settings : {s.base, s.host} \subseteq Name /\ s.port \in Ports \cup {""}
    /\ \A s \in Settings : s.mode = "subdomain" =>
          s.base # << >> /\ Last(s.base) # "." /\ (s.host # << >> => Last(s.host) # ".")
    /\ \A s \in DOMAIN Build : Build[s] = CodecOf(s)
    /\ Fallback = PlainCodec

\* siteInfo.GatewayHost, "" being every host.
onGatewayHost(s, host) == s.mode = "subdomain" => host = PortalHost(s)

\* The portal's own address, and that of a page opened from it.
Scheme == IF Secure THEN "https" ELSE "http"
PortalAt(s) ==
    IF s.mode = "subdomain" THEN URL(Scheme, PortalHost(s), s.port, Root)
    ELSE URL(Scheme, Gate, "", Root)
PageAt(s, page) == Resolve(Ref(CodecOf(s), page), PortalAt(s))
\* A page whose target is in the path of its address: under the sub-domain mode
\* too, when no label can hold the target.
InPath(s, page) == s.mode # "subdomain" \/ PlainMatch(PageAt(s, page).path)

-----------------------------------------------------------------------------
(* The page that carries the address *)

PathOnly(u) == PathRef(PathOf(u))

\* Where the browser goes, in the terms of the settings the page was served under.
Followed(s, src) ==
    LET c == CodecOf(s)
        at == PageAt(s, src.page)
    IN  CASE src.kind = "link" -> Resolve(Ref(c, src.want), at)
          [] src.kind = "typed" -> Resolve(Ref(c, src.want), PortalAt(s))
          [] src.kind = "shim" -> Resolve(rewrite(c, src.want, src.page, at), at)
          [] src.kind = "relative" ->
                LET ref == [refBase(src.page, at) EXCEPT
                              !.path = (IF @ = << >> THEN << >> ELSE Front(@)) \o src.want.path]
                IN  Resolve(rewrite(c, ref, src.page, at), at)
          [] src.kind = "again" -> Resolve(rewrite(c, Ref(c, src.want), src.page, at), at)
          [] src.kind = "own" -> Resolve(rewrite(c, PathRef(<< <<"_wv">>, <<"cookie">> >>), src.page, at), at)
          [] src.kind = "origin" -> [at EXCEPT !.path = PathOf(src.want)]
          [] src.kind = "folded" ->
                LET carried == PageAt(s, src.want).path
                IN  Resolve(Ref(c, [src.want EXCEPT !.path = << <<"d">> >> \o carried]), at)
          [] OTHER -> [PortalAt(s) EXCEPT !.path = src.want.path]
Written(s, src) == LET u == Followed(s, src) IN [u EXCEPT !.path = PathOf(u)]

\* The target the address is meant for.
Meant(src) ==
    CASE src.kind = "folded" -> [src.want EXCEPT !.path = << <<"d">> >> \o PathOf(src.want)]
      [] src.kind = "relative" -> [src.want EXCEPT !.path = Front(src.page.path) \o @]
      [] OTHER -> src.want

\* An address of the page's own, carried in a parameter: from location.origin,
\* or from a script the server rewrote.
Carried(s, src) ==
    LET at == PageAt(s, src.page)
    IN  IF src.param.kind = "origin" THEN [at EXCEPT !.path = src.param.url.path]
        ELSE JS(CodecOf(s), src.param.url, at)

-----------------------------------------------------------------------------
TypeOK ==
    /\ CacheTypeOK
    /\ source \in [Request -> Sources]
    /\ written \in [Request -> Settings]
    /\ pc \in [Request -> {"arrive", "match", "decode", "unwrap", "encode",
                           "stray", "strayed", "rewrite", "restore"} \cup Ends]
    /\ sso \in [Request -> SSOs]
    /\ strayed \in [Request -> BOOLEAN]
    /\ \A v \in {addr, target, fixed, param} : v \in [Request -> Address]

Init ==
    /\ CacheInit
    /\ source \in [Request -> Sources]
    /\ written = [r \in Request |-> settings]
    /\ pc = [r \in Request |-> "arrive"]
    /\ addr = [r \in Request |-> Written(settings, source[r])]
    /\ target = [r \in Request |-> Meant(source[r])]
    /\ fixed = target
    /\ strayed = [r \in Request |-> FALSE]
    /\ sso = [r \in Request |-> RestoreAll]
    /\ param = [r \in Request |-> Carried(settings, source[r])]

Goto(r, where) == pc' = [pc EXCEPT ![r] = where]
Keep == UNCHANGED <<source, written, param, strayed, sso>>
\* get has answered r; asking again starts the next call.
Answered(r) == step[r] = "idle" /\ got[r] # NoCodec
Refer(r) == PageAt(written[r], source[r].page)

-----------------------------------------------------------------------------
(* ServeHTTP *)

\* The start of serveProxy: 400 when there is nothing to decode. A websocket
\* address names the site it is a handshake with.
Proxy(r, ts) ==
    \/ ts = {} /\ Goto(r, "bad") /\ UNCHANGED <<cacheVars, target>>
    \/ \E t \in ts : /\ target' = [target EXCEPT ![r] = [t EXCEPT !.scheme = httpScheme(@)]]
                     /\ Goto(r, "unwrap") /\ Read(r)

Ours(s, u) ==
    \/ u.path[1] \in OwnPages /\ onGatewayHost(s, u.host)
    \/ Len(u.path) > 1 /\ u.path[1] = <<"_wv">>

\* The browser sends the request; mux and gatewayOnly, the assets and the plain
\* codec, which need no addressing scheme, come before the one in force.
Arrive(r) ==
    /\ pc[r] = "arrive"
    /\ \/ Ours(settings, addr[r]) /\ Goto(r, "gateway") /\ UNCHANGED <<cacheVars, target>>
       \/ ~Ours(settings, addr[r]) /\ PlainMatch(addr[r].path) /\ Proxy(r, PlainDecode(addr[r].path))
       \/ ~Ours(settings, addr[r]) /\ ~PlainMatch(addr[r].path) /\ Goto(r, "match") /\ Read(r) /\ UNCHANGED target
    /\ UNCHANGED <<addr, fixed>> /\ Keep

\* h.codec().Match, then h.codec() again for serveProxy; what neither the codec
\* nor the portal claims has strayed.
Matched(r) ==
    /\ pc[r] = "match" /\ Answered(r)
    /\ LET claimed == Match(got[r], addr[r].host, addr[r].path)
       IN  \/ claimed /\ Goto(r, "decode") /\ Read(r)
           \/ ~claimed /\ addr[r].path \in PortalPaths /\ Goto(r, "portal") /\ UNCHANGED cacheVars
           \/ ~claimed /\ addr[r].path \notin PortalPaths /\ Goto(r, "stray") /\ Read(r)
    /\ UNCHANGED <<addr, target, fixed>> /\ Keep

Decoded(r) ==
    /\ pc[r] = "decode" /\ Answered(r)
    /\ Proxy(r, Decode(got[r], addr[r].host, addr[r].path))
    /\ UNCHANGED <<addr, fixed>> /\ Keep

\* A folded address is redirected to what it names, the rest goes to the site.
Unwrapped(r) ==
    /\ pc[r] = "unwrap" /\ Answered(r)
    /\ fixed' = [fixed EXCEPT ![r] = unwrapTarget(got[r], target[r])]
    /\ \/ fixed'[r] = target[r] /\ Goto(r, "rewrite") /\ UNCHANGED cacheVars
       \/ fixed'[r] # target[r] /\ Goto(r, "encode") /\ Read(r)
    /\ UNCHANGED <<addr, target>> /\ Keep

\* The redirect, under the codec told the browser's scheme, is followed.
Redirected(r) ==
    /\ pc[r] \in {"encode", "strayed"} /\ Answered(r)
    /\ LET refs == Encode(codecSecure(got[r]), fixed[r])
       IN  \/ /\ \E ref \in refs : addr' = [addr EXCEPT ![r] = Resolve(ref, @)]
              /\ Goto(r, "arrive") /\ UNCHANGED cacheVars
           \/ refs = {} /\ pc[r] = "encode" /\ Goto(r, "rewrite") /\ UNCHANGED <<cacheVars, addr>>
           \/ refs = {} /\ pc[r] = "strayed" /\ Goto(r, "notfound") /\ UNCHANGED <<cacheVars, addr>>
    /\ UNCHANGED <<target, fixed>> /\ Keep

\* serveStray: the path is asked of the page the request came from, by its
\* Referer or else by the trail the gateway keeps of this browser's pages.
Strayed(r) ==
    /\ pc[r] = "stray" /\ Answered(r)
    /\ LET named == IF source[r].referer THEN decode(got[r], Refer(r).host, Refer(r).path) ELSE {}
           base == IF named # {} THEN named ELSE source[r].trail
       IN  \/ base = {} /\ Goto(r, "notfound") /\ UNCHANGED <<cacheVars, fixed, strayed>>
           \/ \E b \in base : /\ fixed' = [fixed EXCEPT ![r] = [b EXCEPT !.path = addr[r].path]]
                              /\ strayed' = [strayed EXCEPT ![r] = TRUE]
                              /\ Goto(r, "strayed") /\ Read(r)
    /\ UNCHANGED <<addr, target, source, written, sso, param>>

\* Whether parameters aimed at a target are restored.
restores(c, t) ==
    \/ c.mode = "all"
    \/ c.mode = "hosts" /\ Rootless(t.host) \in c.hosts

\* rewriteRequest asks the console's setting, which may be any by now; where it
\* leaves parameters alone, the request goes to the site as it came.
Rewritten(r) ==
    /\ pc[r] = "rewrite"
    /\ \E c \in SSOs :
        /\ sso' = [sso EXCEPT ![r] = c]
        /\ \/ restores(c, target[r]) /\ Goto(r, "restore") /\ Read(r)
           \/ ~restores(c, target[r]) /\ Goto(r, "site") /\ UNCHANGED cacheVars
    /\ UNCHANGED <<addr, target, fixed, source, written, strayed, param>>

\* The gateway addresses in parameters are put back, measured from the page the
\* request came from, and the request goes to the site.
Restored(r) ==
    /\ pc[r] = "restore" /\ Answered(r)
    /\ LET named == IF source[r].referer THEN decode(got[r], Refer(r).host, Refer(r).path) ELSE {}
       IN  \E page \in IF named # {} THEN named
                       ELSE IF source[r].trail # {} THEN source[r].trail ELSE {target[r]} :
              param' = [param EXCEPT ![r] = realAddress(got[r], @, page, addr[r].host)]
    /\ Goto(r, "site")
    /\ UNCHANGED <<cacheVars, addr, target, fixed, source, written, strayed, sso>>

-----------------------------------------------------------------------------
Serve(r) ==
    \/ Arrive(r) \/ Matched(r) \/ Decoded(r) \/ Unwrapped(r) \/ Redirected(r) \/ Strayed(r)
    \/ Rewritten(r) \/ Restored(r)

\* A call of get a request waits for, and the calls others make meanwhile.
Asking ==
    \E p \in Caller :
        /\ \/ Compare(p) \/ Store(p)
           \/ p \notin Request /\ (\A r \in Request : source[r] \in Changing) /\ Read(p)
        /\ UNCHANGED reqVars

Saving ==
    /\ \A r \in Request : source[r] \in Changing
    /\ \E new \in Settings : Edit(new)
    /\ UNCHANGED reqVars

Next == (\E r \in Request : Serve(r)) \/ Asking \/ Saving

Spec == Init /\ [][Next]_vars

-----------------------------------------------------------------------------
(* Properties *)

\* Two names of one site, a default port being none.
Norm(u) == [scheme |-> httpScheme(u.scheme), host |-> u.host, port |-> EncodedPort(u), path |-> PathOf(u)]
SameSite(u, v) == [Norm(u) EXCEPT !.path = << >>] = [Norm(v) EXCEPT !.path = << >>]

\* decodeLabel's own reservation: a last component that reads as a marker.
Wart(u) ==
    \/ IsSuffix(<<".", "s">>, u.host) /\ EncodedPort(u) = "" /\ ~isTLSScheme(u.scheme)
    \/ EncodedPort(u) = "" /\ \E n \in Ports : IsSuffix(<<".", "p", n>>, u.host)
\* A name written down to the root of the DNS, or one that ends in a hyphen: what
\* its last character becomes joins the hyphen of a marker.
Rooted(u) == Last(u.host) \in {".", "-"} /\ (EncodedPort(u) # "" \/ isTLSScheme(u.scheme))
\* A name the DNS has not: a component that is empty or begins with a hyphen,
\* which joins the one the dot before it becomes.
Improper(u) == \E i \in 1..(Len(u.host) - 1) : u.host[i] = "." /\ u.host[i + 1] \in {".", "-"}
Sayable(u) == ~Wart(u) /\ ~Rooted(u) /\ ~Improper(u)
\* Paths the gateway answers itself on every host it serves.
Taken(path) == path[1] \in {PlainPrefix, <<"_wv">>} /\ Len(path) > 1
\* What location.origin cannot say on a page whose target is in the path.
Misses(s, src) ==
    /\ src.kind = "origin"
    /\ InPath(s, src.page)
    /\ \/ PathOf(src.want) \in PortalPaths \/ Taken(src.want.path) \/ src.want.path[1] \in OwnPages \/ WRDMatch(src.want.path)
       \/ ~src.referer /\ src.trail # {src.page}
\* Inside the wildcard domain there are no targets.
Inside(s, u) == s.mode = "subdomain" /\ isGatewayHost(CodecOf(s), u.host)
\* The shim gives a target whose label is the portal's the portal's address, and
\* takes one that bears the gateway's own name for a path of the page.
OnPortal(s, src) ==
    /\ src.kind \in {"shim", "relative"}
    /\ PortalAt(s).host \in {src.want.host, shimEncode(CodecOf(s), src.want).host}
\* A target whose own path names it once more as the gateway would is unwrapped.
Nested(s, u) == \E port \in {u.port, EncodedPort(u)} : Folded(CodecOf(s), [u EXCEPT !.port = port]) # {}
\* Under wrd the shim measures relative references from the encoded path.
Remeasured(s, src) == s.mode = "wrd" /\ src.kind \in {"relative", "again"}

Excepted(s, src) ==
    \/ s.mode = "subdomain" /\ (~Sayable(Meant(src)) \/ Taken(PathOf(Meant(src))))
    \/ Misses(s, src) \/ Inside(s, src.want) \/ OnPortal(s, src) \/ Remeasured(s, src) \/ Nested(s, Meant(src))

\* A name of the gateway's own that other settings take for a target's.
Shadowed(name) ==
    \E s \in Settings : s.mode = "subdomain" /\ HostDecode(CodecOf(s), name, Root) # {}
\* What a save on the way can mislead, since no address says which codec it is
\* for: a target whose path names it again, or begins as an address of wrd does,
\* and an address on a shadowed name. A folded address is redirected under what
\* is in force by then, from the host it arrived on and, under the sub-domain
\* mode, to a label that may not be able to say its target.
Misled(s, src) ==
    LET m == Meant(src)
        a == Written(s, src)
    IN  \/ \E t \in Settings : Nested(t, m)
        \/ s.mode = "subdomain" /\ WRDMatch(PathOf(m))
        \/ a.host = PortalAt(s).host /\ ~PlainMatch(a.path) /\ Shadowed(a.host)
        \/ /\ src.kind = "folded"
           /\ \/ s.mode = "subdomain" /\ PlainMatch(PageAt(s, src.want).path)
              \/ \E t \in Settings : t.mode = "subdomain" /\ ~Sayable(m)
              \/ Shadowed(Gate)

\* An address the server or the shim wrote reaches the target it was written
\* for, in every mode, whoever wrote it and however it names it: by a link, a
\* script's address, a path behind location.origin that has to be attributed to
\* its page, or an address with the gateway folded into it.
ReachesItsTarget ==
    \A r \in Request :
        pc[r] \in Ends /\ edits = 0 /\ source[r].kind \notin {"portal", "own"} /\ ~Excepted(written[r], source[r])
        => pc[r] = "site" /\ Norm(target[r]) = Norm(Meant(source[r]))

\* Whatever the console changes between the steps of a request, and between the
\* page and the request, no request that names its target is taken to another.
NeverElsewhere ==
    \A r \in Request :
        /\ pc[r] = "site" /\ ~strayed[r] /\ source[r].kind \notin {"portal", "own"}
        /\ ~Excepted(written[r], source[r]) /\ ~Misled(written[r], source[r])
        => SameSite(target[r], Meant(source[r]))

\* The portal's name belongs to the gateway although it lies in the domain the
\* targets are addressed under, and its routes answer on every host there: its
\* pages, and what the shim asks of it on a page with a name of its own there,
\* are never asked of a site.
PortalAnswers ==
    \A r \in Request :
        /\ pc[r] \in Ends /\ edits = 0
        /\ source[r].kind = "portal" \/ (source[r].kind = "own" /\ ~InPath(written[r], source[r].page))
        => pc[r] \in {"portal", "gateway"}

\* What the disguise of a parameter cannot keep: the default port and the scheme
\* of a websocket, which neither a name nor a label says, a name no label says,
\* and a path that is one of the gateway's forms by itself.
Blurred(s, u) ==
    \/ s.mode # "plain" /\ (u.port # EncodedPort(u) \/ u.scheme # httpScheme(u.scheme))
    \/ s.mode = "subdomain" /\ (~Sayable(u) \/ Inside(s, u))
    \/ PlainMatch(u.path) \/ (s.mode = "wrd" /\ WRDMatch(u.path))

\* An address of its own that a page hands to another site in a parameter
\* arrives as the site would have written it, to the last character: a bare
\* origin stays bare, whichever mode it was disguised by. Where the console has
\* restoration off for that site, it arrives as the page carried it, whatever
\* was saved meanwhile.
RestoredExactly ==
    \A r \in Request :
        pc[r] = "site" =>
            IF restores(sso[r], target[r])
            THEN edits = 0 /\ (source[r].referer \/ source[r].trail = {source[r].page})
                     /\ ~Blurred(written[r], source[r].param.url)
                 => param[r] = source[r].param.url
            ELSE param[r] = Carried(written[r], source[r])

\* The shim recognises the gateway's own addresses: those of the gateway's
\* routes, which it asks for itself, and those the server has already written
\* into the page.
RecognisesItsOwn ==
    \A r \in Request :
        pc[r] \in Ends /\ edits = 0 =>
            /\ source[r].kind = "own" => pc[r] = "gateway"
            /\ source[r].kind = "again" => pc[r] = "site" /\ Norm(target[r]) = Norm(source[r].want)
=============================================================================
