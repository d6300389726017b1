------------------------------ MODULE Cookies -------------------------------
(***************************************************************************)
(* The cookies of proxied sites: the header a request takes to the site    *)
(* and the Set-Cookie it brings back (rewriteRequest and rewriteCookies in *)
(* webvpn/proxy.go, cookie.go), the jars of jar.go, and the cookies a page *)
(* writes for itself and the shim reports (shim.js, serveCookie).          *)
(*                                                                         *)
(* One browser is followed under the sub-domain mode, where the shim's     *)
(* reports reach the gateway. It signs in again at any moment, with a new  *)
(* key; its requests overlap; an answer may be lost on its way back, a     *)
(* report on its way in, and reports arrive in any order. Every site uses  *)
(* one cookie name, so that the scopes can contend for it. A cookie's      *)
(* value is the record of how it was set.                                  *)
(***************************************************************************)
EXTENDS Naturals, FiniteSets, Functions

CONSTANTS
    Site,        \* sites the browser uses
    Domain,      \* those of the organisation's domain
    Request,     \* requests of the browser
    MaxKey,      \* bound: sessions of the browser, 1..MaxKey
    Other,       \* the key of another browser's session
    MaxSet,      \* bound: cookies kept
    MaxClock,    \* bound: the last reading of the clock
    JarTTL,      \* jarIdleTTL
    MaxJars,     \* maxJars
    None         \* no cookie

Key == 1..MaxKey \cup {Other}
Scopes == {"host", "domain", "stranger", "session", "none"}
\* A cookie: who set it, how far it reaches, under which session, by a request
\* that was to carry no credentials or not; gone marks one that deletes.
Cookie == [id : 1..MaxSet, by : Site, scope : {"host", "domain"}, key : Key, omit : BOOLEAN, gone : BOOLEAN]

ASSUME CookiesAssumption ==
    /\ Domain \subseteq Site
    /\ {MaxKey, MaxSet, MaxClock, JarTTL, MaxJars} \subseteq Nat /\ MaxKey > 0
    /\ Other \notin Nat
    /\ None \notin Site \cup Cookie

VARIABLES
    clock,       \* the gateway's clock
    key,         \* the browser's session key
    copies,      \* [Site -> the copy the browser keeps of the site's cookie]
    jars,        \* sessionJars.jars: [some of Key -> [touched, cookie]]
    reports,     \* reports of page-written cookies on their way
    sets,        \* counts the cookies kept anywhere, up to MaxSet
    pc,          \* [Request -> the step it is at]
    req,         \* [Request -> [site, omit, key, copy]], copy until it is asked
    sent,        \* [Request -> the cookies the site was sent, until it answers]
    reply,       \* [Request -> the copy the answer sets, or None]
    told,        \* history: the last shared cookie an answer told the browser of
    knew,        \* history: [Request -> told when it was sent, until it is asked]
    lost,        \* history: keys whose cookies were dropped or overtaken
    used         \* history: [Key -> when a request last had cookies for it]

jarVars == <<jars, lost, used>>
requestVars == <<pc, req, sent, reply, knew>>
browserVars == <<key, copies, told>>
vars == <<clock, browserVars, jarVars, reports, sets, requestVars>>

Steps == {"idle", "sent", "asked", "answered"}
NoRequest == [site |-> None, omit |-> FALSE, key |-> 1, copy |-> None]

TypeOK ==
    /\ clock \in 0..MaxClock
    /\ key \in 1..MaxKey
    /\ copies \in [Site -> Cookie \cup {None}]
    /\ DOMAIN jars \subseteq Key
    /\ \A k \in DOMAIN jars : jars[k] \in [touched : 0..MaxClock, cookie : Cookie \cup {None}]
    /\ reports \subseteq Cookie
    /\ sets \in 0..MaxSet
    /\ pc \in [Request -> Steps]
    /\ \A r \in Request : sent[r] \subseteq Cookie
    /\ reply \in [Request -> Cookie \cup {None}]
    /\ lost \subseteq Key
    /\ used \in [Key -> 0..MaxClock]

Init ==
    /\ clock = 0
    /\ key = 1
    /\ copies = [s \in Site |-> None]
    /\ jars = << >>
    /\ reports = {}
    /\ sets = 0
    /\ pc = [r \in Request |-> "idle"]
    /\ req = [r \in Request |-> NoRequest]
    /\ sent = [r \in Request |-> {}]
    /\ reply = [r \in Request |-> None]
    /\ told = None
    /\ knew = [r \in Request |-> None]
    /\ lost = {}
    /\ used = [k \in Key |-> 0]

-----------------------------------------------------------------------------
(* jar.go *)

Idle(table, ttl) == {k \in DOMAIN table : clock - table[k].touched > ttl}
Put(table, k, entry) == [o \in DOMAIN table \cup {k} |-> IF o = k THEN entry ELSE table[o]]

\* Variants named "...Bug" are plausible slips of the definition that follows
\* them; nothing uses them but the mutation checks.
JarsGotBug(k) ==
    IF k \in DOMAIN jars THEN [jars EXCEPT ![k].touched = clock]
    ELSE IF Cardinality(DOMAIN jars) >= MaxJars THEN jars
    ELSE Put(jars, k, [touched |-> clock, cookie |-> None])
\* get: the jars after it, made room in when the key has none, which at the
\* limit it still has not.
JarsGot(k) ==
    LET kept == Restrict(jars, DOMAIN jars \ Idle(jars, JarTTL))
    IN  IF k \in DOMAIN jars THEN [jars EXCEPT ![k].touched = clock]
        ELSE IF Cardinality(DOMAIN kept) >= MaxJars THEN kept
        ELSE Put(kept, k, [touched |-> clock, cookie |-> None])

\* storeShared on the jar get returned. A cookie that deletes stays as the
\* record of that, and is never sent.
SharedBug(k, c) ==
    LET got == JarsGot(k)
    IN  IF k \in DOMAIN got /\ got[k].cookie = None THEN [got EXCEPT ![k].cookie = c] ELSE got
Shared(k, c) ==
    LET got == JarsGot(k) IN IF k \in DOMAIN got THEN [got EXCEPT ![k].cookie = c] ELSE got
Store(k, c) ==
    /\ jars' = Shared(k, c)
    /\ used' = [used EXCEPT ![k] = clock]
    /\ lost' = lost \cup (DOMAIN jars \ DOMAIN jars') \cup ({k} \ DOMAIN jars')
                 \cup {o \in {k} \cap DOMAIN jars : jars[o].cookie # None /\ jars[o].cookie.id > c.id}

\* domainScope: a domain its site does not belong to is refused altogether.
ToJarBug(scope, s) == scope \in {"domain", "stranger"} /\ s \in Domain
ToJar(scope, s) == scope = "domain" /\ s \in Domain
ToBrowser(scope, s) == scope = "host" \/ ToJar(scope, s)

-----------------------------------------------------------------------------
(* The browser *)

\* It sends the copy it keeps for the site's host; what it holds for the wider
\* domain from outside the tunnel, and the session, go with every request.
Send(r) ==
    /\ pc[r] = "idle"
    /\ \E s \in Site, omit \in BOOLEAN :
        req' = [req EXCEPT ![r] = [site |-> s, omit |-> omit, key |-> key, copy |-> copies[s]]]
    /\ pc' = [pc EXCEPT ![r] = "sent"]
    /\ knew' = [knew EXCEPT ![r] = told]
    /\ UNCHANGED <<clock, key, copies, told, jarVars, reports, sets, sent, reply>>

\* It takes the answer, or never hears of it; the request is over.
Over(r) ==
    /\ pc[r] = "answered"
    /\ pc' = [pc EXCEPT ![r] = "idle"]
    /\ req' = [req EXCEPT ![r] = NoRequest]
    /\ reply' = [reply EXCEPT ![r] = None]
    /\ UNCHANGED <<clock, key, jarVars, reports, sets, sent, knew>>

Deliver(r) ==
    /\ Over(r)
    /\ IF reply[r] = None THEN UNCHANGED <<copies, told>>
       ELSE /\ copies' = [copies EXCEPT ![req[r].site] = IF reply[r].gone THEN None ELSE reply[r]]
            /\ told' = IF reply[r].scope = "domain" /\ reply[r].key = key THEN reply[r] ELSE told

Miss(r) == Over(r) /\ reply[r] # None /\ UNCHANGED <<copies, told>>

NewCookie(s, scope, k, omit, gone) ==
    [id |-> sets + 1, by |-> s, scope |-> scope, key |-> k, omit |-> omit, gone |-> gone]

\* shim.js rewriteCookie: the page's own copy at once, and a report of a cookie
\* that names a domain, whichever domain that is.
PageWrites(s, scope, gone) ==
    /\ sets < MaxSet /\ scope \in {"host", "domain"}
    /\ LET c == NewCookie(s, scope, key, FALSE, gone)
       IN  /\ copies' = [copies EXCEPT ![s] = IF gone THEN None ELSE c]
           /\ reports' = IF scope = "domain" THEN reports \cup {c} ELSE reports
    /\ sets' = sets + 1
    /\ UNCHANGED <<clock, key, told, jarVars, requestVars>>

\* A sign-in: the browser's copies outlast the session, its jar does not follow.
SignIn ==
    /\ key < MaxKey
    /\ key' = key + 1
    /\ told' = None
    /\ UNCHANGED <<clock, copies, jarVars, reports, sets, requestVars>>

-----------------------------------------------------------------------------
(* The gateway *)

\* The jar's cookies for a target: those set for a domain it is in.
JarredBug(k, s) == IF k \in DOMAIN jars /\ jars[k].cookie # None THEN {jars[k].cookie} ELSE {}
Jarred(k, s) ==
    IF k \in DOMAIN jars /\ jars[k].cookie # None /\ ~jars[k].cookie.gone /\ s \in Domain THEN {jars[k].cookie} ELSE {}

\* rewriteRequest: what the gateway wrote, then what the jar adds under names
\* not taken; nothing when the page asked for none. lookup touches the jar.
CookieHeader(r) ==
    LET own == {req[r].copy} \ {None}
    IN  IF req[r].omit THEN {} ELSE IF own # {} THEN own ELSE Jarred(req[r].key, req[r].site)

Ask(r) ==
    /\ pc[r] = "sent"
    /\ IF req[r].omit THEN UNCHANGED <<jars, used>>
       ELSE /\ jars' = IF req[r].key \in DOMAIN jars THEN [jars EXCEPT ![req[r].key].touched = clock] ELSE jars
            /\ used' = [used EXCEPT ![req[r].key] = clock]
    /\ sent' = [sent EXCEPT ![r] = CookieHeader(r)]
    /\ pc' = [pc EXCEPT ![r] = "asked"]
    /\ req' = [req EXCEPT ![r].copy = None]
    /\ knew' = [knew EXCEPT ![r] = None]
    /\ UNCHANGED <<clock, browserVars, lost, reports, sets, reply>>

\* The site answers and rewriteCookies files what it set: in the browser, in
\* the jar, or nowhere. The browser hears of it after the jar has it.
Answer(r, scope, gone) ==
    /\ pc[r] = "asked" /\ (gone => scope \in {"host", "domain"})
    /\ LET q == req[r]
           c == NewCookie(q.site, scope, q.key, q.omit, gone)
           kept == ToBrowser(scope, q.site) /\ ~q.omit
       IN  /\ kept => sets < MaxSet
           /\ reply' = [reply EXCEPT ![r] = IF kept THEN c ELSE None]
           /\ IF ToJar(scope, q.site) /\ ~q.omit THEN Store(q.key, c) ELSE UNCHANGED jarVars
           /\ sets' = IF kept THEN sets + 1 ELSE sets
    /\ sent' = [sent EXCEPT ![r] = {}]
    /\ pc' = [pc EXCEPT ![r] = "answered"]
    /\ UNCHANGED <<clock, browserVars, reports, req, knew>>

\* serveCookie, or a report that never arrives.
Report(c) ==
    /\ reports' = reports \ {c}
    /\ \/ ToJar(c.scope, c.by) /\ Store(c.key, c)
       \/ UNCHANGED jarVars
    /\ UNCHANGED <<clock, browserVars, sets, requestVars>>

\* Another browser's answer sets a shared cookie.
OtherStores ==
    /\ sets < MaxSet
    /\ \E s \in Domain : Store(Other, NewCookie(s, "domain", Other, FALSE, FALSE))
    /\ sets' = sets + 1
    /\ UNCHANGED <<clock, browserVars, reports, requestVars>>

Tick ==
    /\ clock < MaxClock
    /\ clock' = clock + 1
    /\ UNCHANGED <<browserVars, jarVars, reports, sets, requestVars>>

Next ==
    \/ \E r \in Request : Send(r) \/ Deliver(r) \/ Miss(r) \/ Ask(r)
    \/ \E r \in Request, scope \in Scopes, gone \in BOOLEAN : Answer(r, scope, gone)
    \/ \E s \in Site, scope \in Scopes, gone \in BOOLEAN : PageWrites(s, scope, gone)
    \/ \E c \in reports : Report(c)
    \/ SignIn \/ OtherStores \/ Tick

Spec == Init /\ [][Next]_vars

-----------------------------------------------------------------------------
(* Correctness *)

\* What a site is sent it set itself, or a site of the domain they share set
\* it under the session the request belongs to; and a request made without
\* credentials carries none and leaves none behind, in the browser or in a jar
\* (cookie.go domainScope, proxy.go rewriteRequest and rewriteCookies).
CookiesStayHome ==
    /\ \A r \in Request, c \in UNION Range(sent) :
        c \in sent[r] =>
            /\ ~req[r].omit
            /\ c.by = req[r].site \/ (c.scope = "domain" /\ {c.by, req[r].site} \subseteq Domain /\ c.key = req[r].key)
    /\ \A c \in Range(copies) \cup {jars[k].cookie : k \in DOMAIN jars} : c # None => ~c.omit

\* Single sign-on: once an answer has told the browser of a cookie for the
\* domain, each later request of the session to a site of the domain carries it
\* or a newer one, unless a newer one deleted it, or the jar was lost, or the
\* browser holds an older copy of its own for that site: such a copy is taken
\* for the newer one (jar.go, jarPairs' "taken").
SignOnCarries ==
    [][\A r \in Request :
        LET k == req[r].key
            had == knew[r]
            own == req[r].copy
        IN  (/\ pc[r] = "sent" /\ pc'[r] = "asked"
             /\ ~req[r].omit /\ req[r].site \in Domain
             /\ had # None /\ k \notin lost) =>
               \/ had.gone
               \/ \E c \in sent'[r] : c.id >= had.id
               \/ own # None /\ own.id < had.id
               \/ jars[k].cookie.gone /\ jars[k].cookie.id > had.id]_vars

\* A session loses shared cookies only after it went unused for longer than
\* jarIdleTTL, or when as many other sessions as jars are kept for were in use,
\* or to a report that arrives after a newer cookie (jar.go get, sweepLocked).
LossIsDue ==
    [][\A k \in lost' \ lost :
        \/ clock - used[k] > JarTTL
        \/ Cardinality({o \in Key \ {k} : o \in DOMAIN jars /\ clock - used[o] <= JarTTL}) >= MaxJars
        \/ \E c \in reports \ reports' : c.key = k /\ k \in DOMAIN jars /\ c.id < jars[k].cookie.id]_vars
=============================================================================
