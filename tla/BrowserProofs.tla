--------------------------- MODULE BrowserProofs ----------------------------
(***************************************************************************)
(* What is proved of the gateway's side of a browser: the cookie jars      *)
(* (Cookies) and the memory of the pages it is on (Pages), for any sites,  *)
(* requests, sessions and limits; and the open pages that keep a sign-in   *)
(* alive (OpenPages), for any tabs, requests and lifetimes.                *)
(***************************************************************************)
EXTENDS Cookies, Pages, OpenPages, TLAPS

-----------------------------------------------------------------------------
(* Cookies *)

\* The parts of the state TypeOK leaves out.
RequestsTyped ==
    /\ req \in [Request -> [site : Site \cup {None}, omit : BOOLEAN, key : 1..MaxKey,
                            copy : Cookie \cup {None}]]
    /\ sent \in [Request -> SUBSET Cookie]
    /\ knew \in [Request -> Cookie \cup {None}]
    /\ told \in Cookie \cup {None}

\* What a page or an answer leaves in the browser is the site's own.
CopiesOK == \A s \in Site : copies[s] # None => copies[s].by = s /\ ~copies[s].omit

\* A jar holds its session's cookie for the domain, and was last used when its
\* key was. Cookies are numbered in the order in which they are set.
JarsOK ==
    \A k \in DOMAIN jars :
        /\ jars[k].touched = used[k]
        /\ jars[k].cookie # None =>
              /\ jars[k].cookie.key = k
              /\ jars[k].cookie.scope = "domain" /\ jars[k].cookie.by \in Domain
              /\ ~jars[k].cookie.omit
              /\ jars[k].cookie.id <= sets

\* A cookie on its way in is not confused with another.
ReportsOK ==
    \A c \in reports :
        /\ ~c.omit /\ c.scope = "domain" /\ c.id <= sets
        /\ \A d \in reports : d.id = c.id => d = c
        /\ \A k \in DOMAIN jars : jars[k].cookie # None /\ jars[k].cookie.id = c.id
                                      => jars[k].cookie = c

\* What a request carries, and what its answer brings.
CarriesHome(r, c) ==
    /\ ~req[r].omit
    /\ c.by = req[r].site \/ (c.scope = "domain" /\ {c.by, req[r].site} \subseteq Domain /\ c.key = req[r].key)
RequestsOK ==
    \A r \in Request :
        /\ pc[r] # "idle" => req[r].site \in Site
        /\ req[r].copy # None => req[r].copy.by = req[r].site
        /\ pc[r] # "asked" => sent[r] = {}
        /\ \A c \in sent[r] : CarriesHome(r, c)
        /\ pc[r] # "sent" => knew[r] = None
        /\ pc[r] # "answered" => reply[r] = None
        /\ reply[r] # None => /\ reply[r].by = req[r].site /\ reply[r].key = req[r].key
                              /\ ~reply[r].omit

CookieInv == TypeOK /\ RequestsTyped /\ CopiesOK /\ JarsOK /\ ReportsOK /\ RequestsOK

\* The jar of a session that has lost nothing holds c, or one set after it.
Kept(k, c) ==
    c # None /\ k \notin lost =>
        /\ k \in DOMAIN jars /\ jars[k].cookie # None
        /\ jars[k].cookie = c \/ jars[k].cookie.id > c.id

\* What the browser has been told of, or is about to be, the jar keeps.
SignOnInv ==
    /\ Kept(key, told)
    /\ \A r \in Request : Kept(req[r].key, knew[r])
    /\ \A r \in Request : reply[r] # None /\ reply[r].scope = "domain" => Kept(req[r].key, reply[r])

-----------------------------------------------------------------------------
\* What NewCookie, JarsGot and Store do.

LEMMA NewCookieTyped ==
    ASSUME TypeOK, sets < MaxSet, NEW s \in Site, NEW scope \in {"host", "domain"},
           NEW k \in Key, NEW omit \in BOOLEAN, NEW gone \in BOOLEAN
    PROVE  NewCookie(s, scope, k, omit, gone) \in Cookie
  <1>1. sets + 1 \in 1..MaxSet
    BY CookiesAssumption DEF TypeOK
  <1>2. QED BY <1>1 DEF NewCookie, Cookie

\* get forgets only what has been idle for too long, and makes no jar only when
\* as many others as there may be are in use.
LEMMA JarsGotMeans ==
    ASSUME TypeOK, NEW k \in Key
    PROVE  /\ DOMAIN JarsGot(k) \subseteq DOMAIN jars \cup {k}
           /\ \A o \in DOMAIN JarsGot(k) \ {k} : JarsGot(k)[o] = jars[o]
           /\ k \in DOMAIN jars => k \in DOMAIN JarsGot(k)
           /\ k \in DOMAIN JarsGot(k) =>
                 JarsGot(k)[k] = [touched |-> clock,
                                  cookie |-> IF k \in DOMAIN jars THEN jars[k].cookie ELSE None]
           /\ \A o \in DOMAIN jars \ DOMAIN JarsGot(k) : clock - jars[o].touched > JarTTL
           /\ k \notin DOMAIN JarsGot(k) =>
                 Cardinality({o \in DOMAIN jars : ~(clock - jars[o].touched > JarTTL)}) >= MaxJars
  <1>1. CASE k \in DOMAIN jars
    <2>1. JarsGot(k) = [jars EXCEPT ![k].touched = clock]
      BY <1>1 DEF JarsGot
    <2>2. jars[k] \in [touched : 0..MaxClock, cookie : Cookie \cup {None}]
      BY <1>1 DEF TypeOK
    <2>3. QED BY <1>1, <2>1, <2>2
  <1>2. CASE k \notin DOMAIN jars
    <2> DEFINE inUse == {o \in DOMAIN jars : ~(clock - jars[o].touched > JarTTL)}
               kept == Restrict(jars, DOMAIN jars \ Idle(jars, JarTTL))
    <2>1. DOMAIN kept = inUse /\ \A o \in inUse : kept[o] = jars[o]
      BY DEF Restrict, Idle
    <2>2. JarsGot(k) = IF Cardinality(inUse) >= MaxJars THEN kept
                       ELSE Put(kept, k, [touched |-> clock, cookie |-> None])
      BY <1>2, <2>1 DEF JarsGot
    <2> HIDE DEF kept
    <2>3. CASE Cardinality(inUse) >= MaxJars
      BY <1>2, <2>1, <2>2, <2>3
    <2>4. CASE ~(Cardinality(inUse) >= MaxJars)
      <3>1. /\ DOMAIN JarsGot(k) = inUse \cup {k}
            /\ \A o \in inUse : JarsGot(k)[o] = jars[o]
            /\ JarsGot(k)[k] = [touched |-> clock, cookie |-> None]
        BY <1>2, <2>1, <2>2, <2>4 DEF Put
      <3>2. QED BY <1>2, <3>1
    <2>5. QED BY <2>3, <2>4
  <1>3. QED BY <1>1, <1>2

LEMMA SharedMeans ==
    ASSUME TypeOK, NEW k \in Key, NEW c
    PROVE  /\ DOMAIN Shared(k, c) = DOMAIN JarsGot(k)
           /\ \A o \in DOMAIN Shared(k, c) \ {k} : Shared(k, c)[o] = jars[o]
           /\ k \in DOMAIN Shared(k, c) => Shared(k, c)[k] = [touched |-> clock, cookie |-> c]
  <1> DEFINE got == JarsGot(k)
  <1>1. /\ \A o \in DOMAIN got \ {k} : got[o] = jars[o]
        /\ k \in DOMAIN got => \E d : got[k] = [touched |-> clock, cookie |-> d]
    BY JarsGotMeans
  <1>2. Shared(k, c) = IF k \in DOMAIN got THEN [got EXCEPT ![k].cookie = c] ELSE got
    BY DEF Shared
  <1> HIDE DEF got
  <1>3. CASE k \in DOMAIN got
    <2>1. PICK d : got[k] = [touched |-> clock, cookie |-> d]
      BY <1>1, <1>3
    <2>2. Shared(k, c) = [got EXCEPT ![k].cookie = c]
      BY <1>2, <1>3
    <2>3. /\ DOMAIN Shared(k, c) = DOMAIN got
          /\ \A o \in DOMAIN got \ {k} : Shared(k, c)[o] = got[o]
          /\ Shared(k, c)[k] = [got[k] EXCEPT !.cookie = c]
      BY <1>3, <2>2
    <2>4. [got[k] EXCEPT !.cookie = c] = [touched |-> clock, cookie |-> c]
      BY <2>1
    <2>5. QED BY <1>1, <1>3, <2>3, <2>4 DEF got
  <1>4. CASE k \notin DOMAIN got
    BY <1>1, <1>2, <1>4 DEF got
  <1>5. QED BY <1>3, <1>4

\* Storing a cookie: the jar of its key holds it unless the key is lost, every
\* other jar stays as it was or is lost.
LEMMA StoreMeans ==
    ASSUME TypeOK, NEW k \in Key, NEW c \in Cookie, Store(k, c)
    PROVE  /\ DOMAIN jars' \subseteq DOMAIN jars \cup {k}
           /\ \A o \in DOMAIN jars' \ {k} : jars'[o] = jars[o] /\ used'[o] = used[o]
           /\ k \in DOMAIN jars' => jars'[k] = [touched |-> clock, cookie |-> c]
           /\ used' \in [Key -> 0..MaxClock] /\ used'[k] = clock
           /\ lost \subseteq lost' /\ lost' \subseteq Key
           /\ \A o \in DOMAIN jars \ DOMAIN jars' : o \in lost'
           /\ k \notin lost' =>
                 /\ k \in DOMAIN jars'
                 /\ k \in DOMAIN jars /\ jars[k].cookie # None => jars[k].cookie.id <= c.id
  <1>1. /\ jars' = Shared(k, c)
        /\ used' = [used EXCEPT ![k] = clock]
    BY DEF Store
  <1>2. /\ lost \subseteq lost'
        /\ DOMAIN jars \ DOMAIN jars' \subseteq lost'
        /\ k \notin DOMAIN jars' => k \in lost'
        /\ k \in DOMAIN jars /\ jars[k].cookie # None /\ jars[k].cookie.id > c.id => k \in lost'
        /\ lost' \subseteq lost \cup DOMAIN jars \cup {k}
    BY DEF Store
  <1>3. k \in DOMAIN jars /\ jars[k].cookie # None => jars[k].cookie.id \in Nat
    BY DEF TypeOK, Cookie
  <1>4. c.id \in Nat
    BY DEF Cookie
  <1>5. /\ DOMAIN jars' \subseteq DOMAIN jars \cup {k}
        /\ \A o \in DOMAIN jars' \ {k} : jars'[o] = jars[o]
        /\ k \in DOMAIN jars' => jars'[k] = [touched |-> clock, cookie |-> c]
    <2>1. /\ DOMAIN jars' = DOMAIN JarsGot(k)
          /\ \A o \in DOMAIN jars' \ {k} : jars'[o] = jars[o]
          /\ k \in DOMAIN jars' => jars'[k] = [touched |-> clock, cookie |-> c]
      BY <1>1, SharedMeans
    <2>2. DOMAIN JarsGot(k) \subseteq DOMAIN jars \cup {k}
      BY JarsGotMeans
    <2>3. QED BY <2>1, <2>2
  <1>6. /\ used' \in [Key -> 0..MaxClock] /\ used'[k] = clock
        /\ \A o \in Key \ {k} : used'[o] = used[o]
    BY <1>1 DEF TypeOK
  <1>7. lost' \subseteq Key /\ DOMAIN jars \subseteq Key
    BY <1>2 DEF TypeOK
  <1>8. k \notin lost' => k \in DOMAIN jars'
                          /\ (k \in DOMAIN jars /\ jars[k].cookie # None => jars[k].cookie.id <= c.id)
    BY <1>2, <1>3, <1>4
  <1>9. QED BY <1>2, <1>5, <1>6, <1>7, <1>8

\* A jar that takes a cookie for its key stays in order.
LEMMA StoreJarsOK ==
    ASSUME CookieInv, NEW k \in Key, NEW c \in Cookie, Store(k, c),
           c.key = k, c.scope = "domain", c.by \in Domain, ~c.omit,
           c.id <= sets', sets' \in Nat, sets <= sets'
    PROVE  /\ JarsOK'
           /\ DOMAIN jars' \subseteq Key
           /\ \A o \in DOMAIN jars' : jars'[o] \in [touched : 0..MaxClock, cookie : Cookie \cup {None}]
           /\ lost' \subseteq Key
           /\ used' \in [Key -> 0..MaxClock]
  <1>1. TypeOK /\ JarsOK
    BY DEF CookieInv
  <1>2. clock \in 0..MaxClock /\ sets \in Nat
        /\ \A o \in DOMAIN jars : o \in Key /\ jars[o] \in [touched : 0..MaxClock, cookie : Cookie \cup {None}]
    BY <1>1 DEF TypeOK
  <1>3. /\ DOMAIN jars' \subseteq DOMAIN jars \cup {k}
        /\ \A o \in DOMAIN jars' \ {k} : jars'[o] = jars[o] /\ used'[o] = used[o]
        /\ k \in DOMAIN jars' => jars'[k] = [touched |-> clock, cookie |-> c]
        /\ used' \in [Key -> 0..MaxClock] /\ used'[k] = clock
        /\ lost' \subseteq Key
    BY <1>1, StoreMeans
  <1>4. ASSUME NEW o \in DOMAIN jars'
        PROVE  /\ jars'[o] \in [touched : 0..MaxClock, cookie : Cookie \cup {None}]
               /\ jars'[o].touched = used'[o]
               /\ jars'[o].cookie # None =>
                     /\ jars'[o].cookie.key = o
                     /\ jars'[o].cookie.scope = "domain" /\ jars'[o].cookie.by \in Domain
                     /\ ~jars'[o].cookie.omit
                     /\ jars'[o].cookie.id <= sets'
    <2>1. CASE o = k
      <3>1. jars'[o] = [touched |-> clock, cookie |-> c] /\ used'[o] = clock
        BY <1>3, <2>1
      <3>2. QED BY <1>2, <2>1, <3>1
    <2>2. CASE o # k
      <3>1. o \in DOMAIN jars /\ jars'[o] = jars[o] /\ used'[o] = used[o]
        BY <1>3, <2>2
      <3>2. jars[o].cookie # None => jars[o].cookie.id \in Nat
        BY <1>2, <3>1 DEF Cookie
      <3>3. QED BY <1>1, <1>2, <3>1, <3>2 DEF JarsOK
    <2>3. QED BY <2>1, <2>2
  <1>5. QED BY <1>2, <1>3, <1>4 DEF JarsOK

-----------------------------------------------------------------------------
(* CookieInv holds at first and through every action. *)

LEMMA InitCookieInv == Init => CookieInv
  <1> SUFFICES ASSUME Init PROVE CookieInv
    OBVIOUS
  <1>1. MaxKey \in Nat /\ MaxKey > 0 /\ MaxSet \in Nat /\ MaxClock \in Nat
    BY CookiesAssumption
  <1>2. TypeOK
    BY <1>1 DEF Init, TypeOK, Steps
  <1>3. RequestsTyped
    BY <1>1 DEF Init, RequestsTyped, NoRequest
  <1>4. CopiesOK /\ JarsOK /\ ReportsOK /\ RequestsOK
    BY DEF Init, CopiesOK, JarsOK, ReportsOK, RequestsOK, NoRequest
  <1>5. QED BY <1>2, <1>3, <1>4 DEF CookieInv

\* What a step that leaves the jars alone keeps of them.
LEMMA JarsFrame ==
    ASSUME TypeOK, JarsOK, UNCHANGED jarVars, sets' \in Nat, sets <= sets'
    PROVE  JarsOK'
  <1>1. \A k \in DOMAIN jars : jars[k].cookie # None => jars[k].cookie.id \in Nat
    BY DEF TypeOK, Cookie
  <1>2. sets \in Nat
    BY DEF TypeOK
  <1>3. QED BY <1>1, <1>2 DEF JarsOK, jarVars

LEMMA SendCookieInv ==
    ASSUME CookieInv, NEW r \in Request, Send(r)
    PROVE  CookieInv'
  <1>1. PICK s \in Site, omit \in BOOLEAN :
            req' = [req EXCEPT ![r] = [site |-> s, omit |-> omit, key |-> key, copy |-> copies[s]]]
    BY DEF Send
  <1>2. /\ pc[r] = "idle" /\ pc' = [pc EXCEPT ![r] = "sent"] /\ knew' = [knew EXCEPT ![r] = told]
        /\ UNCHANGED <<clock, key, copies, told, jars, lost, used, reports, sets, sent, reply>>
    BY DEF Send, jarVars
  <1>3. TypeOK'
    BY <1>2 DEF CookieInv, TypeOK, Steps, Key
  <1>4. RequestsTyped'
    BY <1>1, <1>2 DEF CookieInv, TypeOK, RequestsTyped
  <1>5. CopiesOK' /\ JarsOK' /\ ReportsOK'
    BY <1>2 DEF CookieInv, CopiesOK, JarsOK, ReportsOK
  <1>6. RequestsOK'
    <2>1. req \in [Request -> [site : Site \cup {None}, omit : BOOLEAN, key : 1..MaxKey,
                               copy : Cookie \cup {None}]]
          /\ pc \in [Request -> Steps] /\ knew \in [Request -> Cookie \cup {None}]
      BY DEF CookieInv, TypeOK, RequestsTyped
    <2>2. copies[s] # None => copies[s].by = s
      BY DEF CookieInv, CopiesOK
    <2>3. sent[r] = {} /\ reply[r] = None
      BY <1>2 DEF CookieInv, RequestsOK
    <2>4. req'[r].site = s /\ req'[r].copy = copies[s] /\ pc'[r] = "sent"
      BY <1>1, <1>2, <2>1
    <2>5. \A o \in Request \ {r} : req'[o] = req[o] /\ pc'[o] = pc[o] /\ knew'[o] = knew[o]
      BY <1>1, <1>2, <2>1
    <2>6. QED BY <1>2, <2>2, <2>3, <2>4, <2>5 DEF CookieInv, RequestsOK, CarriesHome
  <1>7. QED BY <1>3, <1>4, <1>5, <1>6 DEF CookieInv

LEMMA OverCookieInv ==
    ASSUME CookieInv, NEW r \in Request, Deliver(r) \/ Miss(r)
    PROVE  CookieInv'
  <1>1. /\ pc[r] = "answered" /\ pc' = [pc EXCEPT ![r] = "idle"]
        /\ req' = [req EXCEPT ![r] = NoRequest] /\ reply' = [reply EXCEPT ![r] = None]
        /\ UNCHANGED <<clock, key, jars, lost, used, reports, sets, sent, knew>>
    BY DEF Deliver, Miss, Over, jarVars
  <1>2. \/ UNCHANGED <<copies, told>>
        \/ /\ reply[r] # None
           /\ copies' = [copies EXCEPT ![req[r].site] = IF reply[r].gone THEN None ELSE reply[r]]
           /\ told' = IF reply[r].scope = "domain" /\ reply[r].key = key THEN reply[r] ELSE told
    BY DEF Deliver, Miss
  <1>3. /\ copies \in [Site -> Cookie \cup {None}] /\ reply \in [Request -> Cookie \cup {None}]
        /\ pc \in [Request -> Steps] /\ told \in Cookie \cup {None}
        /\ req \in [Request -> [site : Site \cup {None}, omit : BOOLEAN, key : 1..MaxKey,
                                copy : Cookie \cup {None}]]
    BY DEF CookieInv, TypeOK, RequestsTyped
  <1>4. NoRequest \in [site : Site \cup {None}, omit : BOOLEAN, key : 1..MaxKey, copy : Cookie \cup {None}]
    BY CookiesAssumption DEF NoRequest
  <1>5. copies' \in [Site -> Cookie \cup {None}] /\ told' \in Cookie \cup {None}
    BY <1>2, <1>3
  <1>6. TypeOK'
    BY <1>1, <1>3, <1>5 DEF CookieInv, TypeOK, Steps
  <1>7. RequestsTyped'
    BY <1>1, <1>3, <1>4, <1>5 DEF CookieInv, RequestsTyped
  <1>8. CopiesOK'
    <2>1. reply[r] # None => reply[r].by = req[r].site /\ ~reply[r].omit
      BY DEF CookieInv, RequestsOK
    <2>2. QED BY <1>2, <1>3, <2>1 DEF CookieInv, CopiesOK
  <1>9. JarsOK' /\ ReportsOK'
    BY <1>1 DEF CookieInv, JarsOK, ReportsOK
  <1>10. RequestsOK'
    <2>1. sent[r] = {} /\ knew[r] = None
      BY <1>1 DEF CookieInv, RequestsOK
    <2>2. pc'[r] = "idle" /\ req'[r].copy = None /\ reply'[r] = None
      BY <1>1, <1>3 DEF NoRequest
    <2>3. \A o \in Request \ {r} : req'[o] = req[o] /\ pc'[o] = pc[o] /\ reply'[o] = reply[o]
      BY <1>1, <1>3
    <2>4. QED BY <1>1, <2>1, <2>2, <2>3 DEF CookieInv, RequestsOK, CarriesHome
  <1>11. QED BY <1>6, <1>7, <1>8, <1>9, <1>10 DEF CookieInv

LEMMA PageWritesCookieInv ==
    ASSUME CookieInv, NEW s \in Site, NEW scope \in Scopes, NEW gone \in BOOLEAN, PageWrites(s, scope, gone)
    PROVE  CookieInv'
  <1> DEFINE c == NewCookie(s, scope, key, FALSE, gone)
  <1>1. /\ sets < MaxSet /\ scope \in {"host", "domain"} /\ sets' = sets + 1
        /\ copies' = [copies EXCEPT ![s] = IF gone THEN None ELSE c]
        /\ reports' = IF scope = "domain" THEN reports \cup {c} ELSE reports
        /\ UNCHANGED <<clock, key, told, jarVars, requestVars>>
    BY DEF PageWrites
  <1>2. sets \in Nat /\ MaxSet \in Nat /\ key \in Key
    BY CookiesAssumption DEF CookieInv, TypeOK, Key
  <1>3. c \in Cookie
    BY <1>1, <1>2, NewCookieTyped DEF CookieInv
  <1>4. c.id = sets + 1 /\ c.by = s /\ c.scope = scope /\ ~c.omit
    BY DEF NewCookie
  <1> HIDE DEF c
  <1>5. copies' \in [Site -> Cookie \cup {None}] /\ reports' \subseteq Cookie
    BY <1>1, <1>3 DEF CookieInv, TypeOK
  <1>6. TypeOK'
    BY <1>1, <1>2, <1>5 DEF CookieInv, TypeOK, jarVars, requestVars
  <1>7. RequestsTyped' /\ RequestsOK'
    BY <1>1 DEF CookieInv, RequestsTyped, RequestsOK, CarriesHome, requestVars
  <1>8. CopiesOK'
    BY <1>1, <1>4 DEF CookieInv, TypeOK, CopiesOK
  <1>9. JarsOK'
    BY <1>1, <1>2, JarsFrame DEF CookieInv
  <1>10. ReportsOK'
    <2>1. \A d \in reports : d.id \in Nat /\ d.id <= sets
      BY DEF CookieInv, TypeOK, Cookie, ReportsOK
    <2>2. \A k \in DOMAIN jars : jars[k].cookie # None => jars[k].cookie.id \in Nat /\ jars[k].cookie.id <= sets
      BY DEF CookieInv, TypeOK, Cookie, JarsOK
    <2>3. jars' = jars
      BY <1>1 DEF jarVars
    <2>4. QED BY <1>1, <1>2, <1>4, <2>1, <2>2, <2>3 DEF CookieInv, ReportsOK
  <1>11. QED BY <1>6, <1>7, <1>8, <1>9, <1>10 DEF CookieInv

LEMMA SignInCookieInv ==
    ASSUME CookieInv, SignIn \/ Tick
    PROVE  CookieInv'
  <1>1. /\ \/ key < MaxKey /\ key' = key + 1 /\ told' = None /\ UNCHANGED clock
           \/ clock < MaxClock /\ clock' = clock + 1 /\ UNCHANGED <<key, told>>
        /\ UNCHANGED <<copies, jarVars, reports, sets, requestVars>>
    BY DEF SignIn, Tick, browserVars
  <1>2. key' \in 1..MaxKey /\ clock' \in 0..MaxClock /\ told' \in Cookie \cup {None}
    BY <1>1, CookiesAssumption DEF CookieInv, TypeOK, RequestsTyped
  <1>3. TypeOK' /\ RequestsTyped'
    BY <1>1, <1>2 DEF CookieInv, TypeOK, RequestsTyped, jarVars, requestVars
  <1>4. CopiesOK' /\ JarsOK' /\ ReportsOK' /\ RequestsOK'
    BY <1>1 DEF CookieInv, CopiesOK, JarsOK, ReportsOK, RequestsOK, CarriesHome, jarVars, requestVars
  <1>5. QED BY <1>3, <1>4 DEF CookieInv

\* What a request takes to the site is the site's own, or the session's.
LEMMA HeaderCarriesHome ==
    ASSUME CookieInv, NEW r \in Request, pc[r] = "sent"
    PROVE  CookieHeader(r) \subseteq Cookie /\ \A c \in CookieHeader(r) : CarriesHome(r, c)
  <1>1. req[r].copy \in Cookie \cup {None} /\ (req[r].copy # None => req[r].copy.by = req[r].site)
    BY DEF CookieInv, RequestsTyped, RequestsOK
  <1>2. \A k \in DOMAIN jars : jars[k].cookie \in Cookie \cup {None}
    BY DEF CookieInv, TypeOK
  <1>3. ASSUME NEW c \in Jarred(req[r].key, req[r].site)
        PROVE  /\ c \in Cookie /\ c.scope = "domain" /\ {c.by, req[r].site} \subseteq Domain
               /\ c.key = req[r].key
    BY <1>2 DEF Jarred, CookieInv, JarsOK
  <1>4. QED BY <1>1, <1>3 DEF CookieHeader, CarriesHome

LEMMA AskCookieInv ==
    ASSUME CookieInv, NEW r \in Request, Ask(r)
    PROVE  CookieInv'
  <1> DEFINE q == req[r]
  <1>1. /\ pc[r] = "sent" /\ pc' = [pc EXCEPT ![r] = "asked"]
        /\ sent' = [sent EXCEPT ![r] = CookieHeader(r)]
        /\ req' = [req EXCEPT ![r].copy = None] /\ knew' = [knew EXCEPT ![r] = None]
        /\ UNCHANGED <<clock, key, copies, told, lost, reports, sets, reply>>
    BY DEF Ask, browserVars
  <1>2. \/ UNCHANGED <<jars, used>>
        \/ /\ jars' = IF q.key \in DOMAIN jars THEN [jars EXCEPT ![q.key].touched = clock] ELSE jars
           /\ used' = [used EXCEPT ![q.key] = clock]
    BY DEF Ask
  <1>3. /\ req \in [Request -> [site : Site \cup {None}, omit : BOOLEAN, key : 1..MaxKey,
                                copy : Cookie \cup {None}]]
        /\ pc \in [Request -> Steps] /\ sent \in [Request -> SUBSET Cookie]
        /\ knew \in [Request -> Cookie \cup {None}] /\ reply \in [Request -> Cookie \cup {None}]
        /\ clock \in 0..MaxClock /\ used \in [Key -> 0..MaxClock]
    BY DEF CookieInv, TypeOK, RequestsTyped
  <1>4. q.key \in Key
    BY <1>3 DEF Key
  <1>5. /\ DOMAIN jars' = DOMAIN jars
        /\ \A k \in DOMAIN jars : jars'[k].cookie = jars[k].cookie /\ jars'[k].touched = used'[k]
                                  /\ jars'[k] \in [touched : 0..MaxClock, cookie : Cookie \cup {None}]
        /\ used' \in [Key -> 0..MaxClock]
    <2>1. DOMAIN jars \subseteq Key
          /\ \A k \in DOMAIN jars : jars[k] \in [touched : 0..MaxClock, cookie : Cookie \cup {None}]
                                    /\ jars[k].touched = used[k]
      BY DEF CookieInv, TypeOK, JarsOK
    <2>2. CASE UNCHANGED <<jars, used>>
      BY <1>3, <2>1, <2>2
    <2>3. CASE /\ jars' = IF q.key \in DOMAIN jars THEN [jars EXCEPT ![q.key].touched = clock] ELSE jars
               /\ used' = [used EXCEPT ![q.key] = clock]
      <3>1. used' \in [Key -> 0..MaxClock] /\ used'[q.key] = clock
            /\ \A k \in DOMAIN jars \ {q.key} : used'[k] = used[k]
        BY <1>3, <1>4, <2>1, <2>3
      <3>2. DOMAIN jars' = DOMAIN jars /\ \A k \in DOMAIN jars \ {q.key} : jars'[k] = jars[k]
        BY <2>3
      <3>3. q.key \in DOMAIN jars => jars'[q.key] = [jars[q.key] EXCEPT !.touched = clock]
        BY <2>3
      <3>4. q.key \in DOMAIN jars => /\ jars'[q.key] \in [touched : 0..MaxClock, cookie : Cookie \cup {None}]
                                     /\ jars'[q.key].touched = clock
                                     /\ jars'[q.key].cookie = jars[q.key].cookie
        BY <1>3, <2>1, <3>3
      <3> HIDE DEF q
      <3>5. QED BY <2>1, <3>1, <3>2, <3>4
    <2>4. QED BY <1>2, <2>2, <2>3
  <1>6. CookieHeader(r) \subseteq Cookie /\ \A c \in CookieHeader(r) : CarriesHome(r, c)
    BY <1>1, HeaderCarriesHome
  <1>7. TypeOK'
    <2>1. DOMAIN jars' \subseteq Key
      BY <1>5 DEF CookieInv, TypeOK
    <2>2. sent' \in [Request -> SUBSET Cookie] /\ pc' \in [Request -> Steps]
      BY <1>1, <1>3, <1>6 DEF Steps
    <2>3. QED BY <1>1, <1>5, <2>1, <2>2 DEF CookieInv, TypeOK
  <1>8. RequestsTyped'
    BY <1>1, <1>3, <1>6 DEF CookieInv, RequestsTyped
  <1>9. CopiesOK' /\ JarsOK' /\ ReportsOK'
    BY <1>1, <1>5 DEF CookieInv, CopiesOK, JarsOK, ReportsOK
  <1>10. RequestsOK'
    <2>1. req'[r] = [q EXCEPT !.copy = None] /\ pc'[r] = "asked" /\ knew'[r] = None /\ sent'[r] = CookieHeader(r)
      BY <1>1, <1>3
    <2>2. req'[r].site = q.site /\ req'[r].omit = q.omit /\ req'[r].key = q.key /\ req'[r].copy = None
      BY <1>3, <2>1
    <2>3. q.site \in Site /\ reply[r] = None
      BY <1>1 DEF CookieInv, RequestsOK
    <2>4. \A o \in Request \ {r} : req'[o] = req[o] /\ pc'[o] = pc[o] /\ knew'[o] = knew[o] /\ sent'[o] = sent[o]
      BY <1>1, <1>3
    <2>5. QED BY <1>1, <1>6, <2>1, <2>2, <2>3, <2>4 DEF CookieInv, RequestsOK, CarriesHome
  <1>11. QED BY <1>7, <1>8, <1>9, <1>10 DEF CookieInv

\* Storing a cookie set now leaves those on their way distinct from the jars'.
LEMMA StoreReportsOK ==
    ASSUME CookieInv, NEW k \in Key, NEW c \in Cookie, Store(k, c),
           c.id = sets + 1, sets' = sets + 1, UNCHANGED reports
    PROVE  ReportsOK'
  <1>1. sets \in Nat /\ \A d \in reports : d.id \in Nat /\ d.id <= sets
    BY DEF CookieInv, TypeOK, Cookie, ReportsOK
  <1>2. /\ \A o \in DOMAIN jars' \ {k} : o \in DOMAIN jars /\ jars'[o] = jars[o]
        /\ k \in DOMAIN jars' => jars'[k] = [touched |-> clock, cookie |-> c]
    BY StoreMeans DEF CookieInv
  <1>3. \A o \in DOMAIN jars' : \/ jars'[o].cookie = c
                                \/ o \in DOMAIN jars /\ jars'[o].cookie = jars[o].cookie
    BY <1>2
  <1>4. QED BY <1>1, <1>3 DEF CookieInv, ReportsOK

LEMMA OtherStoresCookieInv ==
    ASSUME CookieInv, OtherStores
    PROVE  CookieInv'
  <1>1. PICK s \in Domain : Store(Other, NewCookie(s, "domain", Other, FALSE, FALSE))
    BY DEF OtherStores
  <1> DEFINE c == NewCookie(s, "domain", Other, FALSE, FALSE)
  <1>2. sets < MaxSet /\ sets' = sets + 1 /\ UNCHANGED <<clock, browserVars, reports, requestVars>>
    BY DEF OtherStores
  <1>3. sets \in Nat /\ MaxSet \in Nat /\ Other \in Key /\ s \in Site
    BY CookiesAssumption DEF CookieInv, TypeOK, Key
  <1>4. c \in Cookie
    BY <1>2, <1>3, NewCookieTyped DEF CookieInv
  <1>5. c.id = sets + 1 /\ c.by = s /\ c.scope = "domain" /\ c.key = Other /\ ~c.omit
    BY DEF NewCookie
  <1> HIDE DEF c
  <1>6. Store(Other, c)
    BY <1>1 DEF c
  <1>7. /\ JarsOK' /\ DOMAIN jars' \subseteq Key
        /\ \A o \in DOMAIN jars' : jars'[o] \in [touched : 0..MaxClock, cookie : Cookie \cup {None}]
        /\ lost' \subseteq Key /\ used' \in [Key -> 0..MaxClock]
    BY <1>2, <1>3, <1>4, <1>5, <1>6, StoreJarsOK
  <1>8. TypeOK'
    BY <1>2, <1>3, <1>7 DEF CookieInv, TypeOK, browserVars, requestVars
  <1>9. RequestsTyped' /\ CopiesOK' /\ RequestsOK'
    BY <1>2 DEF CookieInv, RequestsTyped, CopiesOK, RequestsOK, CarriesHome, browserVars, requestVars
  <1>10. ReportsOK'
    BY <1>2, <1>3, <1>4, <1>5, <1>6, StoreReportsOK
  <1>11. QED BY <1>7, <1>8, <1>9, <1>10 DEF CookieInv

LEMMA ReportCookieInv ==
    ASSUME CookieInv, NEW c \in reports, Report(c)
    PROVE  CookieInv'
  <1>1. /\ reports' = reports \ {c}
        /\ UNCHANGED <<clock, browserVars, sets, requestVars>>
        /\ (ToJar(c.scope, c.by) /\ Store(c.key, c)) \/ UNCHANGED jarVars
    BY DEF Report
  <1>2. c \in Cookie /\ c.key \in Key /\ sets \in Nat
    BY DEF CookieInv, TypeOK, Cookie
  <1>3. ~c.omit /\ c.scope = "domain" /\ c.id <= sets /\ \A d \in reports : d.id = c.id => d = c
    BY DEF CookieInv, ReportsOK
  <1>4. /\ JarsOK' /\ DOMAIN jars' \subseteq Key
        /\ \A o \in DOMAIN jars' : jars'[o] \in [touched : 0..MaxClock, cookie : Cookie \cup {None}]
        /\ lost' \subseteq Key /\ used' \in [Key -> 0..MaxClock]
        /\ \A o \in DOMAIN jars' : jars'[o].cookie = c \/ (o \in DOMAIN jars /\ jars'[o].cookie = jars[o].cookie)
    <2>1. CASE UNCHANGED jarVars
      BY <1>1, <1>2, <2>1 DEF CookieInv, TypeOK, JarsOK, jarVars
    <2>2. CASE ToJar(c.scope, c.by) /\ Store(c.key, c)
      <3>1. c.by \in Domain
        BY <2>2 DEF ToJar
      <3>2. /\ JarsOK' /\ DOMAIN jars' \subseteq Key
            /\ \A o \in DOMAIN jars' : jars'[o] \in [touched : 0..MaxClock, cookie : Cookie \cup {None}]
            /\ lost' \subseteq Key /\ used' \in [Key -> 0..MaxClock]
        BY <1>1, <1>2, <1>3, <2>2, <3>1, StoreJarsOK
      <3>3. /\ \A o \in DOMAIN jars' \ {c.key} : o \in DOMAIN jars /\ jars'[o] = jars[o]
            /\ c.key \in DOMAIN jars' => jars'[c.key] = [touched |-> clock, cookie |-> c]
        BY <1>2, <2>2, StoreMeans DEF CookieInv
      <3>4. QED BY <3>2, <3>3
    <2>3. QED BY <1>1, <2>1, <2>2
  <1>5. TypeOK'
    BY <1>1, <1>4 DEF CookieInv, TypeOK, browserVars, requestVars
  <1>6. RequestsTyped' /\ CopiesOK' /\ RequestsOK'
    BY <1>1 DEF CookieInv, RequestsTyped, CopiesOK, RequestsOK, CarriesHome, browserVars, requestVars
  <1>7. ReportsOK'
    BY <1>1, <1>3, <1>4 DEF CookieInv, ReportsOK
  <1>8. QED BY <1>4, <1>5, <1>6, <1>7 DEF CookieInv

LEMMA AnswerCookieInv ==
    ASSUME CookieInv, NEW r \in Request, NEW scope \in Scopes, NEW gone \in BOOLEAN, Answer(r, scope, gone)
    PROVE  CookieInv'
  <1> DEFINE q == req[r]
             c == NewCookie(q.site, scope, q.key, q.omit, gone)
             kept == ToBrowser(scope, q.site) /\ ~q.omit
  <1>1. /\ pc[r] = "asked" /\ pc' = [pc EXCEPT ![r] = "answered"]
        /\ sent' = [sent EXCEPT ![r] = {}]
        /\ kept => sets < MaxSet
        /\ reply' = [reply EXCEPT ![r] = IF kept THEN c ELSE None]
        /\ sets' = IF kept THEN sets + 1 ELSE sets
        /\ UNCHANGED <<clock, browserVars, reports, req, knew>>
    BY DEF Answer
  <1>2. IF ToJar(scope, q.site) /\ ~q.omit THEN Store(q.key, c) ELSE UNCHANGED jarVars
    BY DEF Answer
  <1>3. /\ req \in [Request -> [site : Site \cup {None}, omit : BOOLEAN, key : 1..MaxKey,
                                copy : Cookie \cup {None}]]
        /\ pc \in [Request -> Steps] /\ sent \in [Request -> SUBSET Cookie]
        /\ reply \in [Request -> Cookie \cup {None}]
        /\ sets \in 0..MaxSet /\ MaxSet \in Nat
    BY CookiesAssumption DEF CookieInv, TypeOK, RequestsTyped
  <1>4. q.key \in Key /\ q.site \in Site /\ q.omit \in BOOLEAN
    BY <1>1, <1>3 DEF CookieInv, RequestsOK, Key
  <1>5. kept => c \in Cookie
    <2>1. kept => scope \in {"host", "domain"}
      BY DEF ToBrowser, ToJar
    <2>2. QED BY <1>1, <1>4, <2>1, NewCookieTyped DEF CookieInv
  <1>6. c.id = sets + 1 /\ c.by = q.site /\ c.scope = scope /\ c.key = q.key /\ c.omit = q.omit
    BY DEF NewCookie
  <1> HIDE DEF c
  <1>7. sets' \in 0..MaxSet /\ sets' \in Nat /\ sets <= sets'
    BY <1>1, <1>3
  <1>8. /\ JarsOK' /\ ReportsOK' /\ DOMAIN jars' \subseteq Key
        /\ \A o \in DOMAIN jars' : jars'[o] \in [touched : 0..MaxClock, cookie : Cookie \cup {None}]
        /\ lost' \subseteq Key /\ used' \in [Key -> 0..MaxClock]
    <2>1. CASE ToJar(scope, q.site) /\ ~q.omit
      <3>1. kept /\ scope = "domain" /\ q.site \in Domain
        BY <2>1 DEF ToBrowser, ToJar
      <3>2. Store(q.key, c) /\ c \in Cookie /\ sets' = sets + 1 /\ c.id <= sets' /\ ~c.omit
            /\ c.key = q.key /\ c.scope = "domain" /\ c.by \in Domain
        BY <1>1, <1>2, <1>3, <1>5, <1>6, <2>1, <3>1
      <3>3. UNCHANGED reports
        BY <1>1
      <3> HIDE DEF q
      <3>4. ReportsOK'
        BY <1>4, <1>6, <3>2, <3>3, StoreReportsOK
      <3>5. QED BY <1>4, <1>7, <3>2, <3>4, StoreJarsOK
    <2>2. CASE ~(ToJar(scope, q.site) /\ ~q.omit)
      <3>1. UNCHANGED jarVars
        BY <1>2, <2>2
      <3>2. JarsOK'
        BY <1>7, <3>1, JarsFrame DEF CookieInv
      <3>3. ReportsOK'
        <4>1. \A d \in reports : d.id \in Nat /\ d.id <= sets
          BY DEF CookieInv, TypeOK, Cookie, ReportsOK
        <4>2. QED BY <1>1, <1>3, <1>7, <3>1, <4>1 DEF CookieInv, ReportsOK, jarVars
      <3>4. QED BY <3>1, <3>2, <3>3 DEF CookieInv, TypeOK, jarVars
    <2>3. QED BY <2>1, <2>2
  <1>9. reply' \in [Request -> Cookie \cup {None}]
    <2>1. (IF kept THEN c ELSE None) \in Cookie \cup {None}
      BY <1>5
    <2> HIDE DEF kept
    <2>2. QED BY <1>1, <1>3, <2>1
  <1>10. TypeOK'
    <2>1. pc' \in [Request -> Steps] /\ sent' \in [Request -> SUBSET Cookie]
      BY <1>1, <1>3 DEF Steps
    <2> HIDE DEF kept
    <2>2. QED BY <1>1, <1>7, <1>8, <1>9, <2>1 DEF CookieInv, TypeOK, browserVars
  <1>11. RequestsTyped' /\ CopiesOK'
    BY <1>1, <1>3 DEF CookieInv, RequestsTyped, CopiesOK, browserVars
  <1>12. RequestsOK'
    <2>1. pc'[r] = "answered" /\ sent'[r] = {} /\ reply'[r] = IF kept THEN c ELSE None
      BY <1>1, <1>3
    <2>2. req[r].copy # None => req[r].copy.by = req[r].site
      BY DEF CookieInv, RequestsOK
    <2>3. knew[r] = None
      BY <1>1 DEF CookieInv, RequestsOK
    <2>4. \A o \in Request \ {r} : pc'[o] = pc[o] /\ sent'[o] = sent[o] /\ reply'[o] = reply[o]
      BY <1>1, <1>3
    <2>5. reply'[r] # None => reply'[r].by = req[r].site /\ reply'[r].key = req[r].key /\ ~reply'[r].omit
      BY <1>6, <2>1
    <2> HIDE DEF q, kept
    <2>6. req' = req /\ knew' = knew /\ req[r].site \in Site
      BY <1>1, <1>4 DEF q
    <2>7. QED BY <2>1, <2>2, <2>3, <2>4, <2>5, <2>6 DEF CookieInv, RequestsOK, CarriesHome
  <1>13. QED BY <1>8, <1>10, <1>11, <1>12 DEF CookieInv

LEMMA NextCookieInv == CookieInv /\ [Next]_vars => CookieInv'
  <1> SUFFICES ASSUME CookieInv, [Next]_vars PROVE CookieInv'
    OBVIOUS
  <1>1. CASE Next
    BY <1>1, SendCookieInv, OverCookieInv, AskCookieInv, AnswerCookieInv, PageWritesCookieInv,
       ReportCookieInv, SignInCookieInv, OtherStoresCookieInv DEF Next
  <1>2. CASE UNCHANGED vars
    BY <1>2 DEF vars, browserVars, jarVars, requestVars, CookieInv, TypeOK, RequestsTyped, CopiesOK,
                JarsOK, ReportsOK, RequestsOK, CarriesHome
  <1>3. QED BY <1>1, <1>2

LEMMA CookieInvariant == Spec => []CookieInv
  BY InitCookieInv, NextCookieInv, PTL DEF Spec

\* Every variable of the cookies keeps its type.
THEOREM CookiesTyped == Spec => []TypeOK
  <1>1. CookieInv => TypeOK
    BY DEF CookieInv
  <1>2. QED BY <1>1, CookieInvariant, PTL

\* Whatever the limits, no site is sent a cookie that neither it nor, under the
\* same session, a site of its domain set; and a request made without
\* credentials carries none and leaves none (rewriteRequest, rewriteCookies).
THEOREM NoCookieStrays == Spec => []CookiesStayHome
  <1>1. CookieInv => CookiesStayHome
    <2> SUFFICES ASSUME CookieInv PROVE CookiesStayHome
      OBVIOUS
    <2>1. \A r \in Request, c \in UNION Range(sent) : c \in sent[r] => CarriesHome(r, c)
      BY DEF CookieInv, RequestsOK
    <2>2. ASSUME NEW c \in Range(copies), c # None PROVE ~c.omit
      <3>1. PICK s \in Site : c = copies[s]
        BY DEF CookieInv, TypeOK, Range
      <3>2. QED BY <2>2, <3>1 DEF CookieInv, CopiesOK
    <2>3. ASSUME NEW k \in DOMAIN jars, jars[k].cookie # None PROVE ~jars[k].cookie.omit
      BY <2>3 DEF CookieInv, JarsOK
    <2>4. QED BY <2>1, <2>2, <2>3 DEF CookiesStayHome, CarriesHome
  <1>2. QED BY <1>1, CookieInvariant, PTL

-----------------------------------------------------------------------------
(* What a session loses, and what it keeps. *)

\* A store loses a jar left idle, one there was no room for, or a newer cookie.
LEMMA StoreLoses ==
    ASSUME CookieInv, NEW k0 \in Key, NEW c \in Cookie, Store(k0, c), NEW k \in lost' \ lost
    PROVE  \/ clock - used[k] > JarTTL
           \/ Cardinality({o \in Key \ {k} : o \in DOMAIN jars /\ clock - used[o] <= JarTTL}) >= MaxJars
           \/ k = k0 /\ k \in DOMAIN jars /\ jars[k].cookie # None /\ c.id < jars[k].cookie.id
  <1>1. /\ DOMAIN jars \subseteq Key /\ used \in [Key -> 0..MaxClock] /\ clock \in 0..MaxClock
        /\ \A o \in DOMAIN jars : jars[o].touched = used[o]
        /\ JarTTL \in Nat /\ MaxClock \in Nat
    BY CookiesAssumption DEF CookieInv, TypeOK, JarsOK
  <1>2. DOMAIN jars' = DOMAIN JarsGot(k0)
    BY SharedMeans DEF Store, CookieInv
  <1>3. /\ \A o \in DOMAIN jars \ DOMAIN jars' : clock - jars[o].touched > JarTTL
        /\ k0 \in DOMAIN jars => k0 \in DOMAIN jars'
        /\ k0 \notin DOMAIN jars' =>
              Cardinality({o \in DOMAIN jars : ~(clock - jars[o].touched > JarTTL)}) >= MaxJars
    BY <1>2, JarsGotMeans DEF CookieInv
  <1>4. \/ k \in DOMAIN jars \ DOMAIN jars'
        \/ k = k0 /\ k \notin DOMAIN jars'
        \/ k = k0 /\ k \in DOMAIN jars /\ jars[k].cookie # None /\ jars[k].cookie.id > c.id
    BY DEF Store
  <1>5. CASE k \in DOMAIN jars \ DOMAIN jars'
    BY <1>1, <1>3, <1>5
  <1>6. CASE k = k0 /\ k \notin DOMAIN jars'
    <2>1. {o \in DOMAIN jars : ~(clock - jars[o].touched > JarTTL)}
            = {o \in Key \ {k} : o \in DOMAIN jars /\ clock - used[o] <= JarTTL}
      BY <1>1, <1>3, <1>6
    <2>2. QED BY <1>3, <1>6, <2>1
  <1>7. CASE k = k0 /\ k \in DOMAIN jars /\ jars[k].cookie # None /\ jars[k].cookie.id > c.id
    <2>1. jars[k].cookie.id \in Nat /\ c.id \in Nat
      BY <1>7 DEF CookieInv, TypeOK, Cookie
    <2>2. QED BY <1>7, <2>1
  <1>8. QED BY <1>4, <1>5, <1>6, <1>7

\* A cookie set now is newer than any a jar holds.
LEMMA NewIsNewest ==
    ASSUME CookieInv, NEW k \in DOMAIN jars, jars[k].cookie # None
    PROVE  jars[k].cookie.id \in Nat /\ sets \in Nat /\ jars[k].cookie.id < sets + 1
  BY DEF CookieInv, TypeOK, JarsOK, Cookie

\* A step that stores nothing loses nothing; one that does stores a cookie that
\* is new or was on its way.
LEMMA StepStores ==
    ASSUME CookieInv, [Next]_vars
    PROVE  \/ lost' = lost /\ DOMAIN jars' = DOMAIN jars
              /\ \A k \in DOMAIN jars : jars'[k].cookie = jars[k].cookie
           \/ \E k \in Key, c \in Cookie :
                 /\ Store(k, c)
                 /\ \/ c.id = sets + 1
                    \/ c \in reports \ reports' /\ c.key = k
  <1>1. CASE UNCHANGED jarVars
    BY <1>1 DEF jarVars
  <1>2. CASE \E r \in Request : Ask(r)
    <2>1. PICK r \in Request : Ask(r)
      BY <1>2
    <2>2. lost' = lost /\ \/ jars' = jars
                          \/ jars' = IF req[r].key \in DOMAIN jars
                                     THEN [jars EXCEPT ![req[r].key].touched = clock] ELSE jars
      BY <2>1 DEF Ask
    <2>3. \A k \in DOMAIN jars : jars[k] \in [touched : 0..MaxClock, cookie : Cookie \cup {None}]
      BY DEF CookieInv, TypeOK
    <2>4. QED BY <2>2, <2>3
  <1>3. CASE \E r \in Request, scope \in Scopes, gone \in BOOLEAN : Answer(r, scope, gone)
    <2>1. PICK r \in Request, scope \in Scopes, gone \in BOOLEAN : Answer(r, scope, gone)
      BY <1>3
    <2> DEFINE q == req[r]
               c == NewCookie(q.site, scope, q.key, q.omit, gone)
    <2>2. IF ToJar(scope, q.site) /\ ~q.omit THEN Store(q.key, c) ELSE UNCHANGED jarVars
      BY <2>1 DEF Answer
    <2>3. ToJar(scope, q.site) /\ ~q.omit => sets < MaxSet
      BY <2>1 DEF Answer, ToBrowser
    <2>4. q.key \in Key /\ q.site \in Site /\ q.omit \in BOOLEAN
      BY <2>1 DEF Answer, CookieInv, RequestsTyped, RequestsOK, Key
    <2>5. ToJar(scope, q.site) /\ ~q.omit => c \in Cookie
      <3>1. ToJar(scope, q.site) => scope \in {"host", "domain"}
        BY DEF ToJar
      <3>2. QED BY <2>3, <2>4, <3>1, NewCookieTyped DEF CookieInv
    <2>6. c.id = sets + 1
      BY DEF NewCookie
    <2> HIDE DEF c, q
    <2>7. QED BY <1>1, <2>2, <2>4, <2>5, <2>6
  <1>4. CASE OtherStores
    <2>1. PICK s \in Domain : Store(Other, NewCookie(s, "domain", Other, FALSE, FALSE))
      BY <1>4 DEF OtherStores
    <2>2. sets < MaxSet /\ Other \in Key /\ s \in Site
      BY <1>4, CookiesAssumption DEF OtherStores, Key
    <2>3. NewCookie(s, "domain", Other, FALSE, FALSE) \in Cookie
      BY <2>2, NewCookieTyped DEF CookieInv
    <2>4. NewCookie(s, "domain", Other, FALSE, FALSE).id = sets + 1
      BY DEF NewCookie
    <2>5. QED BY <2>1, <2>2, <2>3, <2>4
  <1>5. CASE \E c \in reports : Report(c)
    <2>1. PICK c \in reports : Report(c)
      BY <1>5
    <2>2. c \in Cookie /\ c.key \in Key /\ c \in reports \ reports'
      BY <2>1 DEF Report, CookieInv, TypeOK, Cookie
    <2>3. Store(c.key, c) \/ UNCHANGED jarVars
      BY <2>1 DEF Report
    <2>4. QED BY <1>1, <2>2, <2>3
  <1>6. QED BY <1>1, <1>2, <1>3, <1>4, <1>5
        DEF Next, vars, Send, Deliver, Miss, Over, PageWrites, SignIn, Tick

\* A session's cookies are lost only to idleness, to the limit on jars or to a
\* late report (jar.go get, sweepLocked; serveCookie), whatever the limits are.
THEOREM LossHasACause == Spec => LossIsDue
  <1>1. CookieInv /\ [Next]_vars =>
          \A k \in lost' \ lost :
             \/ clock - used[k] > JarTTL
             \/ Cardinality({o \in Key \ {k} : o \in DOMAIN jars /\ clock - used[o] <= JarTTL}) >= MaxJars
             \/ \E c \in reports \ reports' : c.key = k /\ k \in DOMAIN jars /\ c.id < jars[k].cookie.id
    <2> SUFFICES ASSUME CookieInv, [Next]_vars, NEW k \in lost' \ lost
                 PROVE  \/ clock - used[k] > JarTTL
                        \/ Cardinality({o \in Key \ {k} : o \in DOMAIN jars /\ clock - used[o] <= JarTTL}) >= MaxJars
                        \/ \E c \in reports \ reports' : c.key = k /\ k \in DOMAIN jars /\ c.id < jars[k].cookie.id
      OBVIOUS
    <2>1. PICK k0 \in Key, c \in Cookie : /\ Store(k0, c)
                                          /\ c.id = sets + 1 \/ (c \in reports \ reports' /\ c.key = k0)
      BY StepStores
    <2>2. \/ clock - used[k] > JarTTL
          \/ Cardinality({o \in Key \ {k} : o \in DOMAIN jars /\ clock - used[o] <= JarTTL}) >= MaxJars
          \/ k = k0 /\ k \in DOMAIN jars /\ jars[k].cookie # None /\ c.id < jars[k].cookie.id
      BY <2>1, StoreLoses
    <2>3. c.id = sets + 1 => ~(k \in DOMAIN jars /\ jars[k].cookie # None /\ c.id < jars[k].cookie.id)
      BY NewIsNewest
    <2>4. QED BY <2>1, <2>2, <2>3
  <1>2. CookieInv /\ [Next]_vars =>
          [\A k \in lost' \ lost :
             \/ clock - used[k] > JarTTL
             \/ Cardinality({o \in Key \ {k} : o \in DOMAIN jars /\ clock - used[o] <= JarTTL}) >= MaxJars
             \/ \E c \in reports \ reports' : c.key = k /\ k \in DOMAIN jars /\ c.id < jars[k].cookie.id]_vars
    BY <1>1
  <1>3. QED BY <1>2, CookieInvariant, PTL DEF Spec, LossIsDue

\* A jar that keeps c, or a newer cookie, goes on doing so until it is lost.
LEMMA KeptThroughStep ==
    ASSUME CookieInv, [Next]_vars, NEW k, NEW c \in Cookie \cup {None}, Kept(k, c)
    PROVE  Kept(k, c)'
  <1> SUFFICES ASSUME c # None, k \notin lost'
               PROVE  /\ k \in DOMAIN jars' /\ jars'[k].cookie # None
                      /\ jars'[k].cookie = c \/ jars'[k].cookie.id > c.id
    BY DEF Kept
  <1>1. CASE /\ lost' = lost /\ DOMAIN jars' = DOMAIN jars
             /\ \A o \in DOMAIN jars : jars'[o].cookie = jars[o].cookie
    BY <1>1 DEF Kept
  <1>2. ASSUME NEW k0 \in Key, NEW d \in Cookie, Store(k0, d),
               d.id = sets + 1 \/ (d \in reports \ reports' /\ d.key = k0)
        PROVE  /\ k \in DOMAIN jars' /\ jars'[k].cookie # None
               /\ jars'[k].cookie = c \/ jars'[k].cookie.id > c.id
    <2>1. /\ \A o \in DOMAIN jars' \ {k0} : jars'[o] = jars[o]
          /\ k0 \in DOMAIN jars' => jars'[k0] = [touched |-> clock, cookie |-> d]
          /\ lost \subseteq lost' /\ \A o \in DOMAIN jars \ DOMAIN jars' : o \in lost'
          /\ k0 \notin lost' => /\ k0 \in DOMAIN jars'
                                /\ k0 \in DOMAIN jars /\ jars[k0].cookie # None => jars[k0].cookie.id <= d.id
      BY <1>2, StoreMeans DEF CookieInv
    <2>2. k \in DOMAIN jars /\ jars[k].cookie # None /\ (jars[k].cookie = c \/ jars[k].cookie.id > c.id)
      BY <2>1 DEF Kept
    <2>3. k \in DOMAIN jars'
      BY <2>1, <2>2
    <2>4. CASE k # k0
      BY <2>1, <2>2, <2>3, <2>4
    <2>5. CASE k = k0
      <3>1. jars'[k].cookie = d /\ jars[k].cookie.id <= d.id /\ d # None
        BY <2>1, <2>2, <2>3, <2>5, CookiesAssumption
      <3>2. jars[k].cookie.id = d.id => jars[k].cookie = d
        BY <1>2, <2>2, NewIsNewest DEF CookieInv, ReportsOK
      <3>3. jars[k].cookie.id \in Nat /\ c.id \in Nat /\ d.id \in Nat
        BY <2>2 DEF CookieInv, TypeOK, Cookie
      <3>4. QED BY <2>2, <2>3, <3>1, <3>2, <3>3
    <2>6. QED BY <2>4, <2>5
  <1>3. CASE \E k0 \in Key, d \in Cookie :
                /\ Store(k0, d)
                /\ d.id = sets + 1 \/ (d \in reports \ reports' /\ d.key = k0)
    BY <1>2, <1>3
  <1>4. QED BY <1>1, <1>3, StepStores

\* What is told of a cookie an answer set for the domain the jar keeps, when it
\* is set and from then on.
LEMMA AnswerKeeps ==
    ASSUME CookieInv, NEW r \in Request, NEW scope \in Scopes, NEW gone \in BOOLEAN,
           Answer(r, scope, gone), reply'[r] # None, reply'[r].scope = "domain"
    PROVE  Kept(req[r].key, reply[r])'
  <1> DEFINE q == req[r]
             c == NewCookie(q.site, scope, q.key, q.omit, gone)
             kept == ToBrowser(scope, q.site) /\ ~q.omit
  <1>1. /\ pc[r] = "asked" /\ req' = req
        /\ reply' = [reply EXCEPT ![r] = IF kept THEN c ELSE None]
        /\ kept => sets < MaxSet
        /\ IF ToJar(scope, q.site) /\ ~q.omit THEN Store(q.key, c) ELSE UNCHANGED jarVars
    BY DEF Answer
  <1>2. reply'[r] = IF kept THEN c ELSE None
    BY <1>1 DEF CookieInv, TypeOK
  <1>3. kept /\ c.scope = scope /\ reply'[r] = c
    BY <1>2 DEF NewCookie
  <1>4. ToJar(scope, q.site) /\ ~q.omit
    BY <1>2, <1>3 DEF ToBrowser
  <1>5. q.key \in Key /\ q.site \in Site /\ q.omit \in BOOLEAN
    BY <1>1 DEF CookieInv, RequestsTyped, RequestsOK, Key
  <1>6. scope \in {"host", "domain"}
    BY <1>4 DEF ToJar
  <1>7. c \in Cookie
    BY <1>1, <1>3, <1>5, <1>6, NewCookieTyped DEF CookieInv
  <1> HIDE DEF c, kept
  <1>8. q.key \notin lost' => q.key \in DOMAIN jars' /\ jars'[q.key] = [touched |-> clock, cookie |-> c]
    BY <1>1, <1>4, <1>5, <1>7, StoreMeans DEF CookieInv
  <1>9. c # None
    BY <1>7, CookiesAssumption
  <1>10. QED BY <1>1, <1>3, <1>8, <1>9 DEF Kept

LEMMA NextSignOnInv == CookieInv /\ SignOnInv /\ [Next]_vars => SignOnInv'
  <1> SUFFICES ASSUME CookieInv, SignOnInv, [Next]_vars PROVE SignOnInv'
    OBVIOUS
  <1>1. /\ told \in Cookie \cup {None}
        /\ \A r \in Request : knew[r] \in Cookie \cup {None} /\ reply[r] \in Cookie \cup {None}
        /\ req \in [Request -> [site : Site \cup {None}, omit : BOOLEAN, key : 1..MaxKey,
                                copy : Cookie \cup {None}]]
        /\ knew \in [Request -> Cookie \cup {None}] /\ reply \in [Request -> Cookie \cup {None}]
    BY DEF CookieInv, TypeOK, RequestsTyped
  <1> DEFINE StillKept(k, c) == c # None /\ k \notin lost' =>
                                   /\ k \in DOMAIN jars' /\ jars'[k].cookie # None
                                   /\ jars'[k].cookie = c \/ jars'[k].cookie.id > c.id
  <1>2. /\ StillKept(key, told)
        /\ \A r \in Request : StillKept(req[r].key, knew[r])
        /\ \A r \in Request : reply[r] # None /\ reply[r].scope = "domain" => StillKept(req[r].key, reply[r])
    <2>1. StillKept(key, told)
      BY <1>1, KeptThroughStep DEF SignOnInv, Kept
    <2>2. ASSUME NEW r \in Request PROVE StillKept(req[r].key, knew[r])
      BY <1>1, KeptThroughStep DEF SignOnInv, Kept
    <2>3. ASSUME NEW r \in Request, reply[r] # None, reply[r].scope = "domain"
          PROVE  StillKept(req[r].key, reply[r])
      BY <1>1, <2>3, KeptThroughStep DEF SignOnInv, Kept
    <2>4. QED BY <2>1, <2>2, <2>3
  <1>3. \A k : StillKept(k, None)
    OBVIOUS
  <1> HIDE DEF StillKept
  <1>4. SUFFICES /\ StillKept(key', told')
                 /\ \A r \in Request : StillKept(req'[r].key, knew'[r])
                 /\ \A r \in Request : reply'[r] # None /\ reply'[r].scope = "domain"
                                          => StillKept(req'[r].key, reply'[r])
    BY DEF SignOnInv, Kept, StillKept
  <1>5. CASE \E r \in Request : Send(r)
    <2>1. PICK r \in Request : Send(r)
      BY <1>5
    <2>2. /\ pc[r] = "idle" /\ knew' = [knew EXCEPT ![r] = told] /\ UNCHANGED <<key, told, reply>>
          /\ \E s \in Site, omit \in BOOLEAN :
               req' = [req EXCEPT ![r] = [site |-> s, omit |-> omit, key |-> key, copy |-> copies[s]]]
      BY <2>1 DEF Send
    <2>3. req'[r].key = key /\ knew'[r] = told
          /\ \A o \in Request \ {r} : req'[o] = req[o] /\ knew'[o] = knew[o]
      BY <1>1, <2>2
    <2>4. reply[r] = None
      BY <2>2 DEF CookieInv, RequestsOK
    <2>5. QED BY <1>2, <2>2, <2>3, <2>4
  <1>6. CASE \E r \in Request : Deliver(r) \/ Miss(r)
    <2>1. PICK r \in Request : Deliver(r) \/ Miss(r)
      BY <1>6
    <2>2. /\ pc[r] = "answered" /\ UNCHANGED <<key, knew>>
          /\ req' = [req EXCEPT ![r] = NoRequest] /\ reply' = [reply EXCEPT ![r] = None]
      BY <2>1 DEF Deliver, Miss, Over
    <2>3. told' = told \/ (/\ reply[r] # None /\ reply[r].scope = "domain" /\ reply[r].key = key
                           /\ told' = reply[r])
      BY <2>1 DEF Deliver, Miss
    <2>4. StillKept(key, told')
      BY <1>2, <2>3 DEF CookieInv, RequestsOK
    <2>5. knew[r] = None /\ reply'[r] = None
          /\ \A o \in Request \ {r} : req'[o] = req[o] /\ reply'[o] = reply[o]
      BY <1>1, <2>2 DEF CookieInv, RequestsOK
    <2>6. QED BY <1>2, <1>3, <2>2, <2>4, <2>5
  <1>7. CASE \E r \in Request : Ask(r)
    <2>1. PICK r \in Request : Ask(r)
      BY <1>7
    <2>2. /\ req' = [req EXCEPT ![r].copy = None] /\ knew' = [knew EXCEPT ![r] = None]
          /\ UNCHANGED <<key, told, reply>>
      BY <2>1 DEF Ask, browserVars
    <2>3. \A o \in Request : req'[o].key = req[o].key /\ (knew'[o] = knew[o] \/ knew'[o] = None)
      BY <1>1, <2>2
    <2>4. QED BY <1>2, <1>3, <2>2, <2>3
  <1>8. CASE \E r \in Request, scope \in Scopes, gone \in BOOLEAN : Answer(r, scope, gone)
    <2>1. PICK r \in Request, scope \in Scopes, gone \in BOOLEAN : Answer(r, scope, gone)
      BY <1>8
    <2>2. UNCHANGED <<key, told, req, knew>> /\ \A o \in Request \ {r} : reply'[o] = reply[o]
      BY <1>1, <2>1 DEF Answer, browserVars
    <2>3. reply'[r] # None /\ reply'[r].scope = "domain" => StillKept(req'[r].key, reply'[r])
      BY <2>1, AnswerKeeps DEF Kept, StillKept
    <2>4. QED BY <1>2, <2>2, <2>3
  <1>9. CASE SignIn
    BY <1>2, <1>3, <1>9 DEF SignIn, requestVars
  <1>10. CASE \/ \E s \in Site, scope \in Scopes, gone \in BOOLEAN : PageWrites(s, scope, gone)
              \/ \E c \in reports : Report(c)
              \/ OtherStores \/ Tick \/ UNCHANGED vars
    BY <1>2, <1>10 DEF PageWrites, Report, OtherStores, Tick, vars, browserVars, requestVars
  <1>11. QED BY <1>5, <1>6, <1>7, <1>8, <1>9, <1>10 DEF Next

\* A request of a session whose jar keeps a cookie carries it or a newer one,
\* unless it was deleted or the browser has an older copy of its own.
LEMMA AskCarries ==
    ASSUME CookieInv, SignOnInv, NEW r \in Request, Ask(r), ~req[r].omit, req[r].site \in Domain,
           knew[r] # None, req[r].key \notin lost
    PROVE  \/ knew[r].gone
           \/ \E c \in sent'[r] : c.id >= knew[r].id
           \/ req[r].copy # None /\ req[r].copy.id < knew[r].id
           \/ jars[req[r].key].cookie.gone /\ jars[req[r].key].cookie.id > knew[r].id
  <1> DEFINE k == req[r].key
             own == req[r].copy
             had == knew[r]
  <1>1. k \in DOMAIN jars /\ jars[k].cookie # None /\ (jars[k].cookie = had \/ jars[k].cookie.id > had.id)
    BY DEF SignOnInv, Kept
  <1>2. /\ jars[k].cookie.id \in Nat /\ had.id \in Nat /\ (own # None => own.id \in Nat)
        /\ jars[k].cookie.gone \in BOOLEAN
    BY <1>1 DEF CookieInv, TypeOK, RequestsTyped, Cookie
  <1>3. sent'[r] = CookieHeader(r)
    BY DEF Ask, CookieInv, RequestsTyped
  <1>4. CookieHeader(r) = IF {own} \ {None} # {} THEN {own} \ {None} ELSE Jarred(k, req[r].site)
    BY DEF CookieHeader
  <1>5. CASE own # None
    <2>1. sent'[r] = {own}
      BY <1>3, <1>4, <1>5
    <2>2. QED BY <1>2, <1>5, <2>1
  <1>6. CASE own = None
    <2>1. sent'[r] = Jarred(k, req[r].site)
      BY <1>3, <1>4, <1>6
    <2>2. CASE ~jars[k].cookie.gone
      <3>1. jars[k].cookie \in sent'[r]
        BY <1>1, <2>1, <2>2 DEF Jarred
      <3>2. QED BY <1>1, <1>2, <3>1
    <2>3. CASE jars[k].cookie.gone
      BY <1>1, <1>2, <2>3
    <2>4. QED BY <2>2, <2>3
  <1>7. QED BY <1>5, <1>6

\* Single sign-on, for any sites, sessions and limits: a request to a site of the
\* domain carries the shared cookie the browser was told of or a newer one, with
\* the exceptions SignOnCarries names (jar.go lookup, jarPairs).
THEOREM SignOnHolds == Spec => SignOnCarries
  <1>1. Init => SignOnInv
    BY DEF Init, SignOnInv, Kept
  <1>2. Spec => []SignOnInv
    BY <1>1, NextSignOnInv, CookieInvariant, PTL DEF Spec
  <1>3. ASSUME CookieInv, SignOnInv, [Next]_vars, NEW r \in Request, pc[r] = "sent", pc'[r] = "asked"
        PROVE  Ask(r)
    <2>1. pc \in [Request -> Steps]
      BY <1>3 DEF CookieInv, TypeOK
    <2>2. QED BY <1>3, <2>1 DEF Next, vars, Send, Deliver, Miss, Over, Answer, PageWrites, Report, Ask,
                                SignIn, OtherStores, Tick, requestVars
  <1>4. CookieInv /\ SignOnInv /\ [Next]_vars =>
          \A r \in Request :
             (/\ pc[r] = "sent" /\ pc'[r] = "asked" /\ ~req[r].omit /\ req[r].site \in Domain
              /\ knew[r] # None /\ req[r].key \notin lost) =>
                \/ knew[r].gone
                \/ \E c \in sent'[r] : c.id >= knew[r].id
                \/ req[r].copy # None /\ req[r].copy.id < knew[r].id
                \/ jars[req[r].key].cookie.gone /\ jars[req[r].key].cookie.id > knew[r].id
    BY <1>3, AskCarries
  <1> DEFINE Carries ==
        \A r \in Request :
           LET k == req[r].key
               had == knew[r]
               own == req[r].copy
           IN  (/\ pc[r] = "sent" /\ pc'[r] = "asked"
                /\ ~req[r].omit /\ req[r].site \in Domain
                /\ had # None /\ k \notin lost) =>
                  \/ had.gone
                  \/ \E c \in sent'[r] : c.id >= had.id
                  \/ own # None /\ own.id < had.id
                  \/ jars[k].cookie.gone /\ jars[k].cookie.id > had.id
  <1>5. CookieInv /\ SignOnInv /\ [Next]_vars => [Carries]_vars
    BY <1>4
  <1>6. QED BY <1>2, <1>5, CookieInvariant, PTL DEF Spec, SignOnCarries

-----------------------------------------------------------------------------
(* Pages *)

Document == PageSite \cup {NoPage}
Entry == [touched : 0..LastReading, cur : Document, prev : Document]
PagesTyped ==
    /\ now \in 0..LastReading /\ token \in Nat /\ shown \in Document /\ steady \in BOOLEAN
    /\ DOMAIN trail \subseteq 1..token \cup {Stranger}
    /\ \A k \in DOMAIN trail : trail[k] \in Entry
    /\ visit \in [Visit -> [step : {"idle", "sent", "filed"}, kind : {"document", "part", "stray"},
                            site : Document, token : 1..token, from : Document, page : Document]]
    /\ \A v \in Visit : visit[v].step # "idle" => visit[v].site \in PageSite

\* The trail of a key, if it has one, is at p or has begun anew.
At(k, p) == k \in DOMAIN trail => trail[k].cur \in {NoPage, p}

\* While documents come one at a time: the sessions begun since a document left
\* have filed none; once filed it is the last of its session; and until it is,
\* the trails of the session and of what left the page shown are at that page.
SteadyTrail ==
    steady =>
        /\ \A d, e \in UnderWay("document") : d = e
        /\ \A d \in UnderWay("document") : \A k \in 1..token : k > visit[d].token => At(k, NoPage)
        /\ \A d \in UnderWay("document") : visit[d].step = "filed" => At(visit[d].token, visit[d].site)
        /\ (\A d \in UnderWay("document") : visit[d].step = "sent") =>
              /\ At(token, shown)
              /\ \A v \in Visit : visit[v].step # "idle" /\ visit[v].from = shown => At(visit[v].token, shown)

PageInv == PagesTyped /\ SteadyTrail

\* record: other trails stay or are swept, the key's own is at the document it
\* files, and the page it answers is the one the trail was at.
LEMMA RecordedMeans ==
    ASSUME PagesTyped, NEW k, NEW s \in PageSite, NEW document \in BOOLEAN
    PROVE  /\ DOMAIN Recorded(k, s, document).trail \subseteq DOMAIN trail \cup {k}
           /\ \A o \in DOMAIN Recorded(k, s, document).trail \ {k} : Recorded(k, s, document).trail[o] = trail[o]
           /\ k \in DOMAIN Recorded(k, s, document).trail =>
                 /\ Recorded(k, s, document).trail[k] \in Entry
                 /\ document => Recorded(k, s, document).trail[k].cur = s
                 /\ ~document => Recorded(k, s, document).trail[k].cur
                                   = IF k \in DOMAIN trail THEN trail[k].cur ELSE NoPage
           /\ Recorded(k, s, document).page \in Document
           /\ \/ Recorded(k, s, document).page = NoPage
              \/ k \in DOMAIN trail /\ Recorded(k, s, document).page = trail[k].cur
  <1> DEFINE known == k \in DOMAIN trail
             e == IF known THEN trail[k] ELSE [touched |-> now, cur |-> NoPage, prev |-> NoPage]
             filed == IF document THEN [touched |-> now, cur |-> s, prev |-> e.cur] ELSE [e EXCEPT !.touched = now]
             others == IF known THEN trail ELSE Swept
             full == ~known /\ Cardinality(DOMAIN Swept) >= MaxPages
  <1>1. /\ Recorded(k, s, document).trail =
              IF full THEN Swept ELSE [o \in DOMAIN others \cup {k} |-> IF o = k THEN filed ELSE others[o]]
        /\ Recorded(k, s, document).page = IF full THEN NoPage ELSE Attributed(filed, document)
    BY DEF Recorded
  <1>2. DOMAIN Swept \subseteq DOMAIN trail /\ \A o \in DOMAIN Swept : Swept[o] = trail[o]
    BY DEF Swept, Restrict
  <1>3. /\ e \in Entry
        /\ e.cur = IF known THEN trail[k].cur ELSE NoPage
    BY DEF PagesTyped, Entry, Document
  <1> HIDE DEF e
  <1>4. /\ filed \in Entry
        /\ filed.cur = IF document THEN s ELSE e.cur
        /\ Attributed(filed, document) = e.cur
    <2>1. now \in 0..LastReading /\ s \in Document
      BY DEF PagesTyped, Document
    <2>2. CASE document
      BY <1>3, <2>1, <2>2 DEF Entry, Attributed
    <2>3. CASE ~document
      BY <1>3, <2>1, <2>3 DEF Entry, Attributed
    <2>4. QED BY <2>2, <2>3
  <1>5. e.cur \in Document /\ NoPage \in Document
    BY <1>3 DEF Entry, Document
  <1> HIDE DEF filed
  <1>6. CASE full
    BY <1>1, <1>2, <1>5, <1>6
  <1>7. CASE ~full
    <2>1. /\ DOMAIN others \subseteq DOMAIN trail
          /\ \A o \in DOMAIN others : others[o] = trail[o]
      BY <1>2
    <2> HIDE DEF others
    <2>2. Recorded(k, s, document).trail = [o \in DOMAIN others \cup {k} |-> IF o = k THEN filed ELSE others[o]]
          /\ Recorded(k, s, document).page = e.cur
      BY <1>1, <1>4, <1>7
    <2>3. QED BY <1>3, <1>4, <1>5, <2>1, <2>2
  <1>8. QED BY <1>6, <1>7

LEMMA InitPageInv == PagesInit => PageInv
  <1> SUFFICES ASSUME PagesInit PROVE PageInv
    OBVIOUS
  <1>1. PagesTyped
    BY PagesAssumption DEF PagesInit, PagesTyped, Document, NoVisit
  <1>2. UnderWay("document") = {} /\ DOMAIN trail = {} /\ \A v \in Visit : visit[v].step = "idle"
    BY DEF PagesInit, UnderWay, NoVisit
  <1>3. QED BY <1>1, <1>2 DEF PageInv, SteadyTrail, At

LEMMA OpenPagePageInv ==
    ASSUME PageInv, NEW v \in Visit, NEW what \in {"document", "part", "stray"}, OpenPage(v, what)
    PROVE  PageInv'
  <1>1. PICK s \in PageSite :
            visit' = [visit EXCEPT ![v] = [step |-> "sent", kind |-> what, site |-> s, token |-> token,
                                           from |-> shown, page |-> NoPage]]
    BY DEF OpenPage
  <1>2. /\ visit[v].step = "idle"
        /\ steady' = (steady /\ (what = "document" => UnderWay("document") = {}))
        /\ UNCHANGED <<now, trail, token, shown>>
    BY DEF OpenPage
  <1>3. /\ visit \in [Visit -> [step : {"idle", "sent", "filed"}, kind : {"document", "part", "stray"},
                                site : Document, token : 1..token, from : Document, page : Document]]
        /\ DOMAIN trail \subseteq 1..token \cup {Stranger} /\ token \in Nat /\ shown \in Document
        /\ steady \in BOOLEAN
    BY DEF PageInv, PagesTyped
  <1>4. token \in 1..token
    BY <1>3
  <1>5. /\ visit'[v] = [step |-> "sent", kind |-> what, site |-> s, token |-> token, from |-> shown, page |-> NoPage]
        /\ \A o \in Visit \ {v} : visit'[o] = visit[o]
    BY <1>1, <1>3
  <1>6. PagesTyped'
    BY <1>1, <1>2, <1>3, <1>4, <1>5 DEF PageInv, PagesTyped, Document
  <1>7. ASSUME steady' PROVE SteadyTrail'
    <2>1. steady
      BY <1>2, <1>7
    <2>2. v \notin UnderWay("document")
      BY <1>2 DEF UnderWay
    <2>3. UnderWay("document")' = UnderWay("document") \cup (IF what = "document" THEN {v} ELSE {})
      BY <1>2, <1>5 DEF UnderWay
    <2>4. what = "document" => UnderWay("document") = {}
      BY <1>2, <1>7
    <2>5. \A d \in UnderWay("document") : visit'[d] = visit[d]
      BY <1>5, <2>2 DEF UnderWay
    <2>6. \A k \in 1..token : ~(k > token)
      BY <1>3
    <2>7. \A k, p : At(k, p)' = At(k, p)
      BY <1>2 DEF At
    <2>8. ASSUME \A d \in UnderWay("document")' : visit'[d].step = "sent"
          PROVE  At(token, shown) /\ \A o \in Visit : visit'[o].step # "idle" /\ visit'[o].from = shown
                                                          => At(visit'[o].token, shown)
      <3>1. \A d \in UnderWay("document") : visit[d].step = "sent"
        BY <2>3, <2>5, <2>8
      <3>2. QED BY <1>5, <2>1, <3>1 DEF PageInv, SteadyTrail
    <2>9. QED BY <1>2, <1>5, <2>1, <2>3, <2>4, <2>5, <2>6, <2>7, <2>8 DEF PageInv, SteadyTrail
  <1>8. QED BY <1>6, <1>7 DEF PageInv, SteadyTrail

\* What filing a request does to the trails, and what it attributes it to.
LEMMA FileMeans ==
    ASSUME PagesTyped, NEW v \in Visit, File(v)
    PROVE  LET k == visit[v].token
           IN  /\ DOMAIN trail' \subseteq DOMAIN trail \cup {k}
               /\ \A o \in DOMAIN trail' \ {k} : trail'[o] = trail[o]
               /\ k \in DOMAIN trail' =>
                     /\ trail'[k] \in Entry
                     /\ trail'[k].cur = IF visit[v].kind = "document" THEN visit[v].site
                                        ELSE IF k \in DOMAIN trail THEN trail[k].cur ELSE NoPage
               /\ visit'[v].page \in Document
               /\ visit'[v].page = NoPage \/ (k \in DOMAIN trail /\ visit'[v].page = trail[k].cur)
  <1> DEFINE q == visit[v]
             k == q.token
             filed == IF q.kind = "stray" THEN Current(k) ELSE Recorded(k, q.site, q.kind = "document")
  <1>1. /\ trail' = filed.trail /\ q.step = "sent"
        /\ visit' = [visit EXCEPT ![v].step = "filed", ![v].page = filed.page]
    BY DEF File
  <1>2. /\ visit \in [Visit -> [step : {"idle", "sent", "filed"}, kind : {"document", "part", "stray"},
                                site : Document, token : 1..token, from : Document, page : Document]]
        /\ now \in 0..LastReading /\ \A o \in DOMAIN trail : trail[o] \in Entry
        /\ q.site \in PageSite
    BY <1>1 DEF PagesTyped
  <1>3. visit'[v].page = filed.page
    <2> HIDE DEF filed
    <2>1. QED BY <1>1, <1>2
  <1>4. CASE q.kind = "stray"
    <2>1. trail' = Current(k).trail /\ visit'[v].page = Current(k).page
      BY <1>1, <1>3, <1>4
    <2>2. CASE k \in DOMAIN trail
      <3>1. trail' = [trail EXCEPT ![k].touched = now] /\ visit'[v].page = trail[k].cur
        BY <2>1, <2>2 DEF Current
      <3>2. DOMAIN trail' = DOMAIN trail /\ (\A o \in DOMAIN trail \ {k} : trail'[o] = trail[o])
            /\ trail'[k] = [trail[k] EXCEPT !.touched = now]
        BY <2>2, <3>1
      <3>3. trail[k] \in Entry
        BY <1>2, <2>2
      <3>4. trail'[k] \in Entry /\ trail'[k].cur = trail[k].cur /\ trail[k].cur \in Document
        BY <1>2, <3>2, <3>3 DEF Entry
      <3>5. QED BY <1>4, <2>2, <3>1, <3>2, <3>4
    <2>3. CASE k \notin DOMAIN trail
      BY <2>1, <2>3 DEF Current, Document
    <2>4. QED BY <2>2, <2>3
  <1>5. CASE q.kind # "stray"
    <2>1. trail' = Recorded(k, q.site, q.kind = "document").trail
          /\ visit'[v].page = Recorded(k, q.site, q.kind = "document").page
      BY <1>1, <1>3, <1>5
    <2>2. q.site \in PageSite
      BY <1>2
    <2> HIDE DEF q, k, filed
    <2>3. CASE q.kind = "document"
      <3> DEFINE after == Recorded(k, q.site, TRUE)
      <3>1. trail' = after.trail /\ visit'[v].page = after.page
        BY <2>1, <2>3
      <3>2. /\ DOMAIN after.trail \subseteq DOMAIN trail \cup {k}
            /\ \A o \in DOMAIN after.trail \ {k} : after.trail[o] = trail[o]
            /\ k \in DOMAIN after.trail =>
                  after.trail[k] \in Entry /\ after.trail[k].cur = q.site
            /\ after.page \in Document
            /\ after.page = NoPage \/ (k \in DOMAIN trail /\ after.page = trail[k].cur)
        BY <2>2, RecordedMeans
      <3> HIDE DEF after
      <3>3. QED BY <2>3, <3>1, <3>2 DEF q, k
    <2>4. CASE q.kind # "document"
      <3> DEFINE after == Recorded(k, q.site, FALSE)
      <3>1. trail' = after.trail /\ visit'[v].page = after.page
        BY <2>1, <2>4
      <3>2. /\ DOMAIN after.trail \subseteq DOMAIN trail \cup {k}
            /\ \A o \in DOMAIN after.trail \ {k} : after.trail[o] = trail[o]
            /\ k \in DOMAIN after.trail =>
                  after.trail[k] \in Entry /\ after.trail[k].cur = IF k \in DOMAIN trail THEN trail[k].cur ELSE NoPage
            /\ after.page \in Document
            /\ after.page = NoPage \/ (k \in DOMAIN trail /\ after.page = trail[k].cur)
        BY <2>2, RecordedMeans
      <3> HIDE DEF after
      <3>3. QED BY <2>4, <3>1, <3>2 DEF q, k
    <2>5. QED BY <2>3, <2>4
  <1>6. QED BY <1>4, <1>5

LEMMA FilePageInv ==
    ASSUME PageInv, NEW v \in Visit, File(v)
    PROVE  PageInv'
  <1> DEFINE k == visit[v].token
  <1>1. /\ DOMAIN trail' \subseteq DOMAIN trail \cup {k}
        /\ \A o \in DOMAIN trail' \ {k} : trail'[o] = trail[o]
        /\ k \in DOMAIN trail' =>
              /\ trail'[k] \in Entry
              /\ trail'[k].cur = IF visit[v].kind = "document" THEN visit[v].site
                                 ELSE IF k \in DOMAIN trail THEN trail[k].cur ELSE NoPage
        /\ visit'[v].page \in Document
    BY FileMeans DEF PageInv
  <1>2. /\ visit[v].step = "sent" /\ UNCHANGED <<now, token, shown, steady>>
        /\ \E page : visit' = [visit EXCEPT ![v].step = "filed", ![v].page = page]
    BY DEF File
  <1>3. /\ visit \in [Visit -> [step : {"idle", "sent", "filed"}, kind : {"document", "part", "stray"},
                                site : Document, token : 1..token, from : Document, page : Document]]
        /\ DOMAIN trail \subseteq 1..token \cup {Stranger} /\ token \in Nat
        /\ \A o \in DOMAIN trail : trail[o] \in Entry
        /\ visit[v].site \in PageSite
    BY <1>2 DEF PageInv, PagesTyped
  <1>4. /\ visit'[v] = [visit[v] EXCEPT !.step = "filed", !.page = visit'[v].page]
        /\ \A o \in Visit \ {v} : visit'[o] = visit[o]
        /\ DOMAIN visit' = Visit
        /\ visit' = [o \in Visit |-> visit'[o]]
    <2>1. PICK page : visit' = [visit EXCEPT ![v].step = "filed", ![v].page = page]
      BY <1>2
    <2>2. visit'[v] = [visit[v] EXCEPT !.step = "filed", !.page = page]
      BY <1>3, <2>1
    <2>3. visit'[v].page = page
      BY <1>3, <2>2
    <2>4. QED BY <1>3, <2>1, <2>2, <2>3
  <1>5. /\ visit'[v] \in [step : {"idle", "sent", "filed"}, kind : {"document", "part", "stray"},
                          site : Document, token : 1..token, from : Document, page : Document]
        /\ visit'[v].step = "filed" /\ visit'[v].kind = visit[v].kind /\ visit'[v].site = visit[v].site
        /\ visit'[v].token = k /\ visit'[v].from = visit[v].from
    <2>1. PICK page : visit'[v] = [visit[v] EXCEPT !.step = "filed", !.page = page]
      BY <1>4
    <2>2. visit[v] \in [step : {"idle", "sent", "filed"}, kind : {"document", "part", "stray"},
                        site : Document, token : 1..token, from : Document, page : Document]
      BY <1>3
    <2>3. visit'[v].page = page
      BY <2>1, <2>2
    <2>4. page \in Document
      BY <1>1, <2>3
    <2>5. QED BY <2>1, <2>2, <2>4
  <1>6. visit' \in [Visit -> [step : {"idle", "sent", "filed"}, kind : {"document", "part", "stray"},
                              site : Document, token : 1..token, from : Document, page : Document]]
    BY <1>3, <1>4, <1>5
  <1> HIDE DEF k
  <1>7. k \in 1..token
    BY <1>3 DEF k
  <1>8. PagesTyped'
    BY <1>1, <1>2, <1>3, <1>4, <1>5, <1>6, <1>7 DEF PageInv, PagesTyped
  <1>9. ASSUME steady PROVE SteadyTrail'
    <2>1. UnderWay("document")' = UnderWay("document")
      BY <1>2, <1>4, <1>5 DEF UnderWay
    <2>2. \A o \in Visit : /\ visit'[o].token = visit[o].token /\ visit'[o].site = visit[o].site
                           /\ visit'[o].from = visit[o].from
      BY <1>4, <1>5 DEF k
    <2>3. CASE visit[v].kind = "document"
      <3>1. UnderWay("document") = {v}
        BY <1>2, <1>9, <2>3 DEF PageInv, SteadyTrail, UnderWay
      <3>2. k \in DOMAIN trail' => trail'[k].cur = visit[v].site
        BY <1>1, <2>3
      <3>3. \A o \in 1..token : o > k => (o \in DOMAIN trail' => trail'[o].cur = NoPage)
        <4>1. \A o \in 1..token : o > k => o # k /\ At(o, NoPage)
          BY <1>7, <1>9, <3>1 DEF PageInv, SteadyTrail, k
        <4>2. QED BY <1>1, <4>1 DEF At
      <3>4. \A d \in UnderWay("document")' : visit'[d].step = "filed" /\ visit'[d].token = k
                                               /\ visit'[d].site = visit[v].site
        BY <1>5, <2>1, <3>1
      <3>5. /\ \A d, e \in UnderWay("document")' : d = e
            /\ v \in UnderWay("document")'
        BY <2>1, <3>1
      <3>6. QED BY <1>2, <3>2, <3>3, <3>4, <3>5 DEF SteadyTrail, At
    <2>4. CASE visit[v].kind # "document"
      <3>1. \A o, p : At(o, p) => (o \in DOMAIN trail' => trail'[o].cur \in {NoPage, p})
        BY <1>1, <2>4 DEF At
      <3>2. v \notin UnderWay("document") /\ \A d \in UnderWay("document") : visit'[d] = visit[d]
        BY <1>4, <2>4 DEF UnderWay
      <3>3. SteadyTrail
        BY DEF PageInv
      <3>4. /\ \A d, e \in UnderWay("document") : d = e
            /\ \A d \in UnderWay("document") : \A o \in 1..token : o > visit[d].token =>
                  (o \in DOMAIN trail' => trail'[o].cur \in {NoPage, NoPage})
            /\ \A d \in UnderWay("document") : visit[d].step = "filed" =>
                  (visit[d].token \in DOMAIN trail' => trail'[visit[d].token].cur \in {NoPage, visit[d].site})
        BY <1>9, <3>1, <3>3 DEF SteadyTrail
      <3>5. (\A d \in UnderWay("document") : visit[d].step = "sent") =>
              /\ token \in DOMAIN trail' => trail'[token].cur \in {NoPage, shown}
              /\ \A o \in Visit : visit[o].step # "idle" /\ visit[o].from = shown =>
                    (visit[o].token \in DOMAIN trail' => trail'[visit[o].token].cur \in {NoPage, shown})
        BY <1>9, <3>1, <3>3 DEF SteadyTrail
      <3>6. \A o \in Visit : visit'[o].step # "idle" => visit[o].step # "idle"
        BY <1>2, <1>4
      <3>7. QED BY <1>2, <2>1, <2>2, <3>2, <3>4, <3>5, <3>6 DEF SteadyTrail, At
    <2>5. QED BY <2>3, <2>4
  <1>10. QED BY <1>2, <1>8, <1>9 DEF PageInv, SteadyTrail

LEMMA ShowPageInv ==
    ASSUME PageInv, NEW v \in Visit, Show(v)
    PROVE  PageInv'
  <1>1. visit[v].step = "filed" /\ UNCHANGED <<now, trail, token, steady>>
    BY DEF Show
  <1>2. /\ visit \in [Visit -> [step : {"idle", "sent", "filed"}, kind : {"document", "part", "stray"},
                                site : Document, token : 1..token, from : Document, page : Document]]
        /\ DOMAIN trail \subseteq 1..token \cup {Stranger} /\ token \in Nat
        /\ visit[v].site \in PageSite
        /\ \A o \in Visit : visit[o].step # "idle" => visit[o].site \in PageSite
    BY <1>1 DEF PageInv, PagesTyped
  <1>3. NoVisit \in [step : {"idle", "sent", "filed"}, kind : {"document", "part", "stray"},
                     site : Document, token : 1..token, from : Document, page : Document]
        /\ NoVisit.step = "idle"
    BY <1>2 DEF NoVisit, Document
  <1>4. CASE visit[v].kind = "document"
    <2>1. /\ shown' = visit[v].site
          /\ visit' = [o \in Visit |-> IF o = v THEN NoVisit ELSE [visit[o] EXCEPT !.from = NoPage]]
      BY <1>4 DEF Show
    <2>2. ASSUME NEW o \in Visit \ {v}
          PROVE  /\ visit'[o] \in [step : {"idle", "sent", "filed"}, kind : {"document", "part", "stray"},
                                   site : Document, token : 1..token, from : Document, page : Document]
                 /\ visit'[o].step = visit[o].step /\ visit'[o].kind = visit[o].kind
                 /\ visit'[o].site = visit[o].site /\ visit'[o].from = NoPage
      <3>1. visit'[o] = [visit[o] EXCEPT !.from = NoPage]
        BY <2>1
      <3>2. visit[o] \in [step : {"idle", "sent", "filed"}, kind : {"document", "part", "stray"},
                          site : Document, token : 1..token, from : Document, page : Document]
        BY <1>2
      <3>3. QED BY <3>1, <3>2 DEF Document
    <2>3. visit'[v] = NoVisit /\ DOMAIN visit' = Visit /\ visit' = [o \in Visit |-> visit'[o]]
      BY <2>1
    <2>4. PagesTyped'
      BY <1>1, <1>2, <1>3, <2>1, <2>2, <2>3 DEF PageInv, PagesTyped, Document
    <2>5. ASSUME steady PROVE SteadyTrail'
      <3>1. UnderWay("document") = {v}
        BY <1>1, <1>4, <2>5 DEF PageInv, SteadyTrail, UnderWay
      <3>2. UnderWay("document")' = {}
        BY <1>3, <2>2, <2>3, <3>1 DEF UnderWay
      <3>3. At(visit[v].token, visit[v].site) /\ \A k \in 1..token : k > visit[v].token => At(k, NoPage)
        BY <1>1, <2>5, <3>1 DEF PageInv, SteadyTrail
      <3>4. At(token, visit[v].site)
        BY <1>2, <3>3 DEF At
      <3>5. \A o \in Visit : ~(visit'[o].step # "idle" /\ visit'[o].from = shown')
        BY <1>2, <1>3, <2>1, <2>2, <2>3, PagesAssumption
      <3>6. QED BY <1>1, <2>1, <3>2, <3>4, <3>5 DEF SteadyTrail, At
    <2>6. QED BY <1>1, <2>4, <2>5 DEF PageInv, SteadyTrail
  <1>5. CASE visit[v].kind # "document"
    <2>1. visit' = [visit EXCEPT ![v] = NoVisit] /\ UNCHANGED shown
      BY <1>5 DEF Show
    <2>2. visit'[v] = NoVisit /\ \A o \in Visit \ {v} : visit'[o] = visit[o]
      BY <1>2, <2>1
    <2>3. PagesTyped'
      BY <1>1, <1>2, <1>3, <2>1, <2>2 DEF PageInv, PagesTyped
    <2>4. v \notin UnderWay("document") /\ UnderWay("document")' = UnderWay("document")
      BY <1>3, <1>5, <2>2 DEF UnderWay
    <2>5. \A d \in UnderWay("document") : visit'[d] = visit[d]
      BY <2>2, <2>4 DEF UnderWay
    <2>6. \A k, p : At(k, p)' = At(k, p)
      BY <1>1 DEF At
    <2>7. SteadyTrail'
      BY <1>1, <1>3, <2>1, <2>2, <2>4, <2>5, <2>6 DEF PageInv, SteadyTrail
    <2>8. QED BY <2>3, <2>7 DEF PageInv
  <1>6. QED BY <1>4, <1>5

LEMMA LosePageInv ==
    ASSUME PageInv, NEW v \in Visit, Lose(v)
    PROVE  PageInv'
  <1>1. visit' = [visit EXCEPT ![v] = NoVisit] /\ ~steady' /\ UNCHANGED <<now, trail, token, shown>>
    BY DEF Lose
  <1>2. token \in Nat /\ 1 \in 1..token
    <2>1. visit[v].token \in 1..token /\ token \in Nat
      BY DEF PageInv, PagesTyped
    <2>2. QED BY <2>1
  <1>3. NoVisit \in [step : {"idle", "sent", "filed"}, kind : {"document", "part", "stray"},
                     site : Document, token : 1..token, from : Document, page : Document]
        /\ NoVisit.step = "idle"
    BY <1>2 DEF NoVisit, Document
  <1>4. steady' \in BOOLEAN
    BY DEF Lose
  <1>5. PagesTyped'
    BY <1>1, <1>3, <1>4 DEF PageInv, PagesTyped
  <1>6. QED BY <1>1, <1>5 DEF PageInv, SteadyTrail

LEMMA SignInAgainPageInv ==
    ASSUME PageInv, SignInAgain
    PROVE  PageInv'
  <1>1. token' = token + 1 /\ UNCHANGED <<now, trail, shown, visit, steady>>
    BY DEF SignInAgain
  <1>2. token \in Nat /\ DOMAIN trail \subseteq 1..token \cup {Stranger}
        /\ \A v \in Visit : visit[v].token \in 1..token
    BY DEF PageInv, PagesTyped
  <1>3. 1..token \subseteq 1..token' /\ token' \in Nat /\ \A k \in 1..token' : k \in 1..token \/ k = token'
    BY <1>1, <1>2
  <1>4. token' \notin DOMAIN trail
    BY <1>1, <1>2, PagesAssumption
  <1>5. PagesTyped'
    <2>1. DOMAIN trail' \subseteq 1..token' \cup {Stranger}
      BY <1>1, <1>2, <1>3
    <2>2. visit' \in [Visit -> [step : {"idle", "sent", "filed"}, kind : {"document", "part", "stray"},
                               site : Document, token : 1..token', from : Document, page : Document]]
      BY <1>1, <1>3 DEF PageInv, PagesTyped
    <2>3. QED BY <1>1, <1>3, <2>1, <2>2 DEF PageInv, PagesTyped
  <1>6. UnderWay("document")' = UnderWay("document")
    BY <1>1 DEF UnderWay
  <1>7. \A k, p : (k \in DOMAIN trail' => trail'[k].cur \in {NoPage, p}) = At(k, p)
    BY <1>1 DEF At
  <1>8. \A p : At(token', p)
    BY <1>4 DEF At
  <1>9. SteadyTrail'
    <2> SUFFICES ASSUME steady PROVE SteadyTrail'
      BY <1>1 DEF SteadyTrail
    <2>1. \A d \in UnderWay("document") : \A k \in 1..token' : k > visit[d].token => At(k, NoPage)
      BY <1>3, <1>8 DEF PageInv, SteadyTrail
    <2>2. QED BY <1>1, <1>6, <1>7, <1>8, <2>1 DEF PageInv, SteadyTrail, At
  <1>10. QED BY <1>5, <1>9 DEF PageInv

LEMMA StrangerOpensPageInv ==
    ASSUME PageInv, StrangerOpens
    PROVE  PageInv'
  <1>1. PICK s \in PageSite : trail' = Recorded(Stranger, s, TRUE).trail
    BY DEF StrangerOpens
  <1>2. UNCHANGED <<now, token, shown, visit, steady>>
    BY DEF StrangerOpens
  <1> DEFINE after == Recorded(Stranger, s, TRUE)
  <1>3. /\ DOMAIN after.trail \subseteq DOMAIN trail \cup {Stranger}
        /\ \A o \in DOMAIN after.trail \ {Stranger} : after.trail[o] = trail[o]
        /\ Stranger \in DOMAIN after.trail => after.trail[Stranger] \in Entry
    BY RecordedMeans DEF PageInv
  <1>4. trail' = after.trail
    BY <1>1
  <1> HIDE DEF after
  <1>5. token \in Nat /\ DOMAIN trail \subseteq 1..token \cup {Stranger}
        /\ \A v \in Visit : visit[v].token \in 1..token
        /\ \A o \in DOMAIN trail : trail[o] \in Entry
    BY DEF PageInv, PagesTyped
  <1>6. PagesTyped'
    BY <1>2, <1>3, <1>4, <1>5 DEF PageInv, PagesTyped
  <1>7. \A k \in 1..token : \A p : At(k, p) => (k \in DOMAIN trail' => trail'[k].cur \in {NoPage, p})
    <2>1. \A k \in 1..token : k # Stranger
      BY <1>5, PagesAssumption
    <2>2. QED BY <1>3, <1>4, <2>1 DEF At
  <1>8. UnderWay("document")' = UnderWay("document") /\ UnderWay("document") \subseteq Visit
    BY <1>2 DEF UnderWay
  <1>9. SteadyTrail'
    <2> SUFFICES ASSUME steady PROVE SteadyTrail'
      BY <1>2 DEF SteadyTrail
    <2>1. /\ \A d, e \in UnderWay("document") : d = e
          /\ \A d \in UnderWay("document") : \A k \in 1..token : k > visit[d].token =>
                (k \in DOMAIN trail' => trail'[k].cur \in {NoPage, NoPage})
          /\ \A d \in UnderWay("document") : visit[d].step = "filed" =>
                (visit[d].token \in DOMAIN trail' => trail'[visit[d].token].cur \in {NoPage, visit[d].site})
      BY <1>5, <1>7, <1>8 DEF PageInv, SteadyTrail
    <2>2. (\A d \in UnderWay("document") : visit[d].step = "sent") =>
            /\ token \in 1..token => (token \in DOMAIN trail' => trail'[token].cur \in {NoPage, shown})
            /\ \A o \in Visit : visit[o].step # "idle" /\ visit[o].from = shown =>
                  (visit[o].token \in DOMAIN trail' => trail'[visit[o].token].cur \in {NoPage, shown})
      BY <1>5, <1>7 DEF PageInv, SteadyTrail
    <2>3. token \in DOMAIN trail' => token \in 1..token
      BY <1>3, <1>4, <1>5, PagesAssumption
    <2>4. QED BY <1>2, <1>8, <2>1, <2>2, <2>3 DEF SteadyTrail, At
  <1>10. QED BY <1>6, <1>9 DEF PageInv

LEMMA NextPageInv == PageInv /\ [PagesNext]_pagesVars => PageInv'
  <1> SUFFICES ASSUME PageInv, [PagesNext]_pagesVars PROVE PageInv'
    OBVIOUS
  <1>1. CASE Pass
    <2>1. now' \in 0..LastReading
      BY <1>1, PagesAssumption DEF Pass, PageInv, PagesTyped
    <2>2. QED BY <1>1, <2>1 DEF Pass, PageInv, PagesTyped, SteadyTrail, UnderWay, At
  <1>2. CASE UNCHANGED pagesVars
    BY <1>2 DEF pagesVars, PageInv, PagesTyped, SteadyTrail, UnderWay, At
  <1>3. QED BY <1>1, <1>2, OpenPagePageInv, FilePageInv, ShowPageInv, LosePageInv, SignInAgainPageInv,
               StrangerOpensPageInv DEF PagesNext

\* Whatever the limits on trails and on idleness, a browser that opens one
\* document at a time has no request attributed to another (pages.go record,
\* current).
THEOREM TrailIsFollowed == PagesSpec => TrailFollows
  <1>1. ASSUME PageInv, [PagesNext]_pagesVars, NEW v \in Visit,
               visit[v].step = "sent", visit'[v].step = "filed", steady, visit[v].from = shown,
               \A o \in UnderWay("document") \ {v} : visit[o].step = "sent"
        PROVE  visit'[v].page \in {NoPage, shown}
    <2>1. visit \in [Visit -> [step : {"idle", "sent", "filed"}, kind : {"document", "part", "stray"},
                               site : Document, token : 1..token, from : Document, page : Document]]
      BY <1>1 DEF PageInv, PagesTyped
    <2>2. File(v)
      <3>1. ASSUME NEW o \in Visit, o # v, File(o) PROVE FALSE
        BY <1>1, <2>1, <3>1 DEF File
      <3>2. ASSUME NEW o \in Visit, Show(o) PROVE FALSE
        <4>1. CASE visit[o].kind = "document"
          <5>1. visit'[v] = IF v = o THEN NoVisit ELSE [visit[v] EXCEPT !.from = NoPage]
            BY <3>2, <4>1 DEF Show
          <5>2. visit'[v].step \in {"idle", "sent"}
            BY <1>1, <2>1, <5>1 DEF NoVisit
          <5>3. QED BY <1>1, <5>2
        <4>2. CASE visit[o].kind # "document"
          BY <1>1, <2>1, <3>2, <4>2 DEF Show, NoVisit
        <4>3. QED BY <4>1, <4>2
      <3>3. ASSUME NEW o \in Visit, Lose(o) PROVE FALSE
        BY <1>1, <2>1, <3>3 DEF Lose, NoVisit
      <3>4. ASSUME NEW o \in Visit, NEW what \in {"document", "part", "stray"}, OpenPage(o, what) PROVE FALSE
        BY <1>1, <2>1, <3>4 DEF OpenPage
      <3>5. visit' # visit
        BY <1>1
      <3>6. QED BY <1>1, <3>1, <3>2, <3>3, <3>4, <3>5
                DEF PagesNext, pagesVars, SignInAgain, StrangerOpens, Pass
    <2>3. \A d \in UnderWay("document") : visit[d].step = "sent"
      BY <1>1
    <2>4. At(visit[v].token, shown)
      BY <1>1, <2>3 DEF PageInv, SteadyTrail
    <2>5. \/ visit'[v].page = NoPage
          \/ visit[v].token \in DOMAIN trail /\ visit'[v].page = trail[visit[v].token].cur
      BY <1>1, <2>2, FileMeans DEF PageInv
    <2>6. QED BY <2>4, <2>5 DEF At
  <1> DEFINE Follows ==
        \A v \in Visit :
           (/\ visit[v].step = "sent" /\ visit'[v].step = "filed"
            /\ steady /\ visit[v].from = shown
            /\ \A o \in UnderWay("document") \ {v} : visit[o].step = "sent") =>
               visit'[v].page \in {NoPage, shown}
  <1>2. PageInv /\ [PagesNext]_pagesVars => [Follows]_pagesVars
    BY <1>1
  <1>3. QED BY <1>2, InitPageInv, NextPageInv, PTL DEF PagesSpec, TrailFollows

-----------------------------------------------------------------------------
(* Open pages *)

\* A request under way is an open tab's, and has taken no longer than one may.
FetchesOK ==
    \A f \in Fetch :
        \/ fetches[f] = Unused
        \/ /\ fetches[f].state # "free" /\ fetches[f].tab \in open
           /\ fetches[f].at <= time /\ time <= fetches[f].at + MaxDelay
           /\ fetches[f].state = "lost" => blips > 0

\* While the lifetime stays as it was, neither end is further off than it, and an
\* answer on its way speaks of it and of an end that is not past.
EndsOK ==
    ~retimed =>
        /\ expires <= time + ttl /\ cookie <= time + ttl
        /\ \A f \in Fetch : fetches[f].state = "ok" =>
              fetches[f].told = ttl /\ fetches[f].age = ttl /\ fetches[f].at + ttl <= expires

RenewalInv == RenewalTypeOK /\ FetchesOK /\ EndsOK /\ NeverGivesUp

\* With requests that may take time and none lost: a settled page's timer leaves
\* two units of the cookie and one of the session; a request leaves one less of
\* each as it is answered; an answer leaves the cookie one.
InTime(t) ==
    \/ timer[t] # Never
    \/ \E f \in Fetch : /\ fetches[f].tab = t
                        /\ \/ /\ fetches[f].state = "sent"
                              /\ fetches[f].at <= cookie - 2 /\ fetches[f].at <= expires - 1
                           \/ fetches[f].state = "ok" /\ fetches[f].at <= cookie - 1
NoneLost ==
    ~retimed /\ blips = 0 =>
        \A t \in settled :
            /\ timer[t] # Never => time <= timer[t] /\ timer[t] <= cookie - 2 /\ timer[t] <= expires - 1
            /\ InTime(t)

\* With requests that take no time and some lost: each loss costs a settled page
\* one unit of the two there are.
Left(u) == u + 2 <= cookie + blips /\ u + 2 <= expires + blips
NoneSlow ==
    ~retimed /\ ~slow =>
        /\ \A f \in Fetch : fetches[f].state # "free" => fetches[f].at = time
        /\ \A t \in settled :
              /\ Left(time)
              /\ timer[t] # Never => time <= timer[t] /\ Left(timer[t])
              /\ \A f \in Fetch : fetches[f].tab = t /\ fetches[f].state = "lost" => Left(time + 1)

FetchType == [tab : Tab \cup {NoTab}, at : Nat, told : Nat, age : Nat,
              state : {"free", "bare", "sent", "ok", "refused", "lost"}]

-----------------------------------------------------------------------------
\* What the helpers do: sending takes an unused slot, and a page waits at least
\* a unit and as long as Lead allows.

LEMMA SendMeans ==
    ASSUME RenewalInv, NEW t \in Tab, SendRenewal(t)
    PROVE  \E f \in Fetch :
              /\ fetches[f] = Unused
              /\ fetches'[f] = [tab |-> t, at |-> time, told |-> 0, age |-> 0,
                                state |-> IF HasCookie THEN "sent" ELSE "bare"]
              /\ \A g \in Fetch \ {f} : fetches'[g] = fetches[g]
              /\ fetches' \in [Fetch -> FetchType]
  <1>1. PICK f \in Fetch : /\ fetches[f].state = "free"
                           /\ fetches' = [fetches EXCEPT ![f] =
                                 [tab |-> t, at |-> time, told |-> 0, age |-> 0,
                                  state |-> IF HasCookie THEN "sent" ELSE "bare"]]
    BY DEF SendRenewal
  <1>2. fetches[f] = Unused
    BY <1>1 DEF RenewalInv, FetchesOK
  <1>3. fetches \in [Fetch -> FetchType] /\ time \in Nat
    BY OpenPagesAssumption DEF RenewalInv, RenewalTypeOK, FetchType
  <1>4. [tab |-> t, at |-> time, told |-> 0, age |-> 0,
         state |-> IF HasCookie THEN "sent" ELSE "bare"] \in FetchType
    BY <1>3 DEF FetchType
  <1>5. QED BY <1>1, <1>2, <1>3, <1>4

LEMMA WaitMeans ==
    ASSUME NEW s \in Nat
    PROVE  /\ Wait(s) \in Nat \ {0}
           /\ s = Lead => Wait(s) = 1
           /\ s >= 3 => Wait(s) = s - 2
  BY DEF Wait, Lead, Floor, Unsaid

LEMMA SlidMeans ==
    ASSUME RenewalTypeOK
    PROVE  /\ Slid(expires) \in Nat /\ Slid(expires) >= expires
           /\ Slid(expires) = expires \/ Slid(expires) = time + ttl
  <1>1. expires \in Nat /\ time \in Nat /\ ttl \in Nat
    BY OpenPagesAssumption DEF RenewalTypeOK
  <1>2. ttl \div 2 <= ttl /\ ttl \div 2 \in Nat
    BY <1>1
  <1>3. QED BY <1>1, <1>2 DEF Slid

LEMMA RenewalTypes ==
    ASSUME RenewalTypeOK
    PROVE  /\ time \in Nat /\ ttl \in Nat /\ ttl > 0 /\ expires \in Nat /\ cookie \in Nat
           /\ blips \in Nat /\ MaxDelay \in Nat
           /\ fetches \in [Fetch -> FetchType] /\ timer \in [Tab -> Nat \cup {Never}]
           /\ open \subseteq Tab /\ NoTab \notin Tab
  BY OpenPagesAssumption DEF RenewalTypeOK, FetchType

-----------------------------------------------------------------------------
\* RenewalInv holds at first and through every action.

LEMMA InitRenewalInv == RenewalInit => RenewalInv
  <1> SUFFICES ASSUME RenewalInit PROVE RenewalInv
    OBVIOUS
  <1>1. RenewalTypeOK
    <2>1. 0 \in 0..MaxTime /\ 0 \in 0..MaxBlip /\ ttl \in Nat
      BY OpenPagesAssumption DEF RenewalInit
    <2>2. fetches \in [Fetch -> [tab : Tab \cup {NoTab}, at : Nat, told : Nat, age : Nat,
                                 state : {"free", "bare", "sent", "ok", "refused", "lost"}]]
      BY DEF RenewalInit, Unused
    <2>3. QED BY <2>1, <2>2 DEF RenewalInit, RenewalTypeOK
  <1>2. FetchesOK /\ NeverGivesUp
    BY DEF RenewalInit, FetchesOK, NeverGivesUp
  <1>3. EndsOK
    BY <1>1, RenewalTypes DEF RenewalInit, EndsOK, Unused
  <1>4. QED BY <1>1, <1>2, <1>3 DEF RenewalInv

LEMMA TimePassesRenewalInv ==
    ASSUME RenewalInv, TimePasses
    PROVE  RenewalInv'
  <1>1. /\ time < MaxTime /\ time' = time + 1 /\ slow' \in BOOLEAN
        /\ UNCHANGED <<ttl, expires, cookie, open, asleep, stopped, timer, fetches, blips, settled, retimed>>
    BY DEF TimePasses, server, tabs
  <1>2. RenewalTypeOK'
    BY <1>1, OpenPagesAssumption DEF RenewalInv, RenewalTypeOK
  <1>3. FetchesOK'
    <2>1. \A f \in Fetch : fetches[f].at \in Nat
      BY RenewalTypes DEF RenewalInv, FetchType
    <2>2. \A f \in Fetch : fetches[f].state # "free" => ~(fetches[f].at + MaxDelay <= time)
      BY DEF TimePasses, Overdue
    <2>3. QED BY <1>1, <2>1, <2>2, RenewalTypes DEF RenewalInv, FetchesOK
  <1>4. EndsOK'
    BY <1>1, RenewalTypes DEF RenewalInv, EndsOK
  <1>5. NeverGivesUp'
    BY <1>1 DEF RenewalInv, NeverGivesUp
  <1>6. QED BY <1>2, <1>3, <1>4, <1>5 DEF RenewalInv

LEMMA SaveLifetimeRenewalInv ==
    ASSUME RenewalInv, NEW d \in TTLs, SaveLifetime(d)
    PROVE  RenewalInv'
  <1>1. /\ ttl' = d /\ retimed' = TRUE
        /\ UNCHANGED <<time, expires, cookie, open, asleep, stopped, timer, fetches, blips, settled, slow>>
    BY DEF SaveLifetime, tabs
  <1>2. QED BY <1>1 DEF RenewalInv, RenewalTypeOK, FetchesOK, EndsOK, NeverGivesUp

\* A page that sends, whatever else it does.
LEMMA SendRenewalInv ==
    ASSUME RenewalInv, NEW t \in Tab, LoadPage(t) \/ TimerFires(t) \/ BecomeVisible(t)
    PROVE  RenewalInv'
  <1>1. /\ SendRenewal(t) /\ UNCHANGED <<time, ttl, cookie, stopped, blips, settled, retimed, slow>>
        /\ \/ /\ t \notin open /\ open' = open \cup {t} /\ expires' = Slid(expires)
              /\ UNCHANGED <<asleep, timer>>
           \/ /\ t \in open /\ timer' = [timer EXCEPT ![t] = Never] /\ UNCHANGED <<open, asleep, expires>>
           \/ /\ t \in open /\ asleep' = asleep \ {t} /\ UNCHANGED <<open, timer, expires>>
    BY DEF LoadPage, TimerFires, BecomeVisible, Due, tabs, history, server
  <1>2. PICK f \in Fetch :
              /\ fetches[f] = Unused
              /\ fetches'[f] = [tab |-> t, at |-> time, told |-> 0, age |-> 0,
                                state |-> IF HasCookie THEN "sent" ELSE "bare"]
              /\ \A g \in Fetch \ {f} : fetches'[g] = fetches[g]
              /\ fetches' \in [Fetch -> FetchType]
    BY <1>1, SendMeans
  <1>3. expires' \in Nat /\ expires <= expires' /\ (expires' = expires \/ expires' = time + ttl)
    BY <1>1, SlidMeans, RenewalTypes DEF RenewalInv
  <1>4. open' \subseteq Tab /\ open \subseteq open' /\ t \in open'
    BY <1>1 DEF RenewalInv, RenewalTypeOK
  <1>5. timer' \in [Tab -> Nat \cup {Never}] /\ \A o \in Tab \ {t} : timer'[o] = timer[o]
    BY <1>1 DEF RenewalInv, RenewalTypeOK
  <1>6. RenewalTypeOK'
    <2>1. \A o \in Tab \ open' : timer'[o] = Never
      BY <1>1, <1>4, <1>5 DEF RenewalInv, RenewalTypeOK
    <2>2. asleep' \subseteq open' /\ settled' \subseteq open' \ (asleep' \cup stopped')
      BY <1>1, <1>4 DEF RenewalInv, RenewalTypeOK
    <2>3. QED BY <1>1, <1>2, <1>3, <1>4, <1>5, <2>1, <2>2 DEF RenewalInv, RenewalTypeOK, FetchType
  <1>7. FetchesOK'
    <2>1. /\ fetches'[f].tab = t /\ fetches'[f].at = time /\ fetches'[f].state \in {"sent", "bare"}
      BY <1>2
    <2>2. time <= time + MaxDelay /\ time <= time
      BY RenewalTypes DEF RenewalInv
    <2>3. QED BY <1>1, <1>2, <1>4, <2>1, <2>2 DEF RenewalInv, FetchesOK
  <1>8. EndsOK'
    <2>1. fetches'[f].state # "ok"
      BY <1>2
    <2>2. \A g \in Fetch : fetches[g].at \in Nat
      BY RenewalTypes DEF RenewalInv, FetchType
    <2>3. QED BY <1>1, <1>2, <1>3, <2>1, <2>2, RenewalTypes DEF RenewalInv, EndsOK
  <1>9. NeverGivesUp'
    <2>1. fetches'[f].tab = t
      BY <1>2
    <2>2. \A o \in Tab, g \in Fetch : fetches[g].tab = o => fetches'[g].tab = o
      <3>1. \A o \in Tab : fetches[f].tab # o
        BY <1>2, OpenPagesAssumption DEF Unused
      <3>2. QED BY <1>2, <3>1
    <2>3. \A o \in open' \ {t} : o \in open
      BY <1>1
    <2>4. QED BY <1>1, <1>4, <1>5, <2>1, <2>2, <2>3 DEF RenewalInv, NeverGivesUp
  <1>10. QED BY <1>6, <1>7, <1>8, <1>9 DEF RenewalInv

LEMMA BrowseRenewalInv ==
    ASSUME RenewalInv, NEW t \in Tab, Browse(t) \/ Suspend(t)
    PROVE  RenewalInv'
  <1>1. /\ UNCHANGED <<time, ttl, cookie, open, stopped, timer, fetches, blips, retimed, slow>>
        /\ \/ expires' = Slid(expires) /\ UNCHANGED <<asleep, settled>>
           \/ t \in open /\ asleep' = asleep \cup {t} /\ settled' = settled \ {t} /\ UNCHANGED expires
    BY DEF Browse, Suspend, tabs, history, server
  <1>2. expires' \in Nat /\ expires <= expires' /\ (expires' = expires \/ expires' = time + ttl)
    BY <1>1, SlidMeans, RenewalTypes DEF RenewalInv
  <1>3. RenewalTypeOK'
    BY <1>1, <1>2 DEF RenewalInv, RenewalTypeOK
  <1>4. \A g \in Fetch : fetches[g].at \in Nat
    BY RenewalTypes DEF RenewalInv, FetchType
  <1>5. EndsOK'
    BY <1>1, <1>2, <1>4, RenewalTypes DEF RenewalInv, EndsOK
  <1>6. FetchesOK' /\ NeverGivesUp'
    BY <1>1 DEF RenewalInv, FetchesOK, NeverGivesUp
  <1>7. QED BY <1>3, <1>5, <1>6 DEF RenewalInv

LEMMA ClosePageRenewalInv ==
    ASSUME RenewalInv, NEW t \in Tab, ClosePage(t)
    PROVE  RenewalInv'
  <1>1. /\ t \in open /\ open' = open \ {t} /\ asleep' = asleep \ {t} /\ stopped' = stopped \ {t}
        /\ settled' = settled \ {t} /\ timer' = [timer EXCEPT ![t] = Never]
        /\ fetches' = [f \in Fetch |-> IF fetches[f].tab = t THEN Unused ELSE fetches[f]]
        /\ UNCHANGED <<time, ttl, expires, cookie, blips, retimed, slow>>
    BY DEF ClosePage, Aborted, server
  <1>2. fetches \in [Fetch -> FetchType] /\ Unused \in FetchType
    BY RenewalTypes DEF RenewalInv, Unused, FetchType
  <1>3. fetches' \in [Fetch -> FetchType]
        /\ \A f \in Fetch : fetches'[f] = Unused \/ (fetches'[f] = fetches[f] /\ fetches[f].tab # t)
    BY <1>1, <1>2
  <1>4. timer' \in [Tab -> Nat \cup {Never}] /\ timer'[t] = Never /\ \A o \in Tab \ {t} : timer'[o] = timer[o]
    BY <1>1 DEF RenewalInv, RenewalTypeOK
  <1>5. RenewalTypeOK'
    BY <1>1, <1>3, <1>4 DEF RenewalInv, RenewalTypeOK, FetchType
  <1>6. FetchesOK'
    BY <1>1, <1>3 DEF RenewalInv, FetchesOK
  <1>7. EndsOK'
    BY <1>1, <1>3 DEF RenewalInv, EndsOK, Unused
  <1>8. NeverGivesUp'
    <2>1. \A o \in open' : o \in open /\ o # t /\ o \in Tab
      BY <1>1 DEF RenewalInv, RenewalTypeOK
    <2>2. \A o \in open', f \in Fetch : fetches[f].tab = o => fetches'[f].tab = o
      BY <1>1, <2>1
    <2>3. QED BY <1>1, <1>4, <2>1, <2>2 DEF RenewalInv, NeverGivesUp
  <1>9. QED BY <1>5, <1>6, <1>7, <1>8 DEF RenewalInv

\* A request that is answered, refused or lost keeps its tab.
LEMMA RequestMeans ==
    ASSUME RenewalInv, NEW f \in Fetch, Renew(f) \/ Refuse(f) \/ Blip(f)
    PROVE  /\ fetches[f].state # "free" /\ fetches' \in [Fetch -> FetchType]
           /\ fetches'[f].tab = fetches[f].tab
           /\ \A g \in Fetch \ {f} : fetches'[g] = fetches[g]
           /\ \/ /\ fetches[f].state = "sent" /\ Live
                 /\ fetches'[f].state = "ok" /\ fetches'[f].at = time
                 /\ fetches'[f].told = ttl /\ fetches'[f].age = ttl
                 /\ expires' = time + ttl /\ UNCHANGED blips
              \/ /\ fetches[f].state = "bare" \/ (fetches[f].state = "sent" /\ ~Live)
                 /\ fetches'[f].state = "refused" /\ fetches'[f].at = time
                 /\ UNCHANGED <<expires, blips>>
              \/ /\ fetches'[f].state = "lost" /\ fetches'[f].at = fetches[f].at
                 /\ blips < MaxBlip /\ blips' = blips + 1 /\ UNCHANGED expires
  <1>1. /\ fetches \in [Fetch -> FetchType] /\ time \in Nat /\ ttl \in Nat
    BY RenewalTypes DEF RenewalInv
  <1>2. CASE Renew(f)
    <2>1. Renewed - time = ttl
      BY <1>1 DEF Renewed
    <2>2. fetches[f].state = "sent"
          /\ fetches' = [fetches EXCEPT ![f].state = "ok", ![f].at = time, ![f].told = ttl, ![f].age = ttl]
      BY <1>2, <2>1 DEF Renew
    <2>3. fetches'[f] = [fetches[f] EXCEPT !.state = "ok", !.at = time, !.told = ttl, !.age = ttl]
          /\ DOMAIN fetches' = Fetch /\ fetches' = [g \in Fetch |-> fetches'[g]]
          /\ \A g \in Fetch \ {f} : fetches'[g] = fetches[g]
      BY <1>1, <2>2
    <2>4. /\ fetches'[f] \in FetchType /\ fetches'[f].tab = fetches[f].tab
          /\ fetches'[f].state = "ok" /\ fetches'[f].at = time
          /\ fetches'[f].told = ttl /\ fetches'[f].age = ttl
      <3>1. fetches[f] \in FetchType
        BY <1>1
      <3>2. QED BY <1>1, <2>3, <3>1 DEF FetchType
    <2>5. fetches' \in [Fetch -> FetchType]
      BY <1>1, <2>3, <2>4
    <2>6. QED BY <1>2, <2>2, <2>3, <2>4, <2>5 DEF Renew, Renewed
  <1>3. CASE Refuse(f)
    <2>1. fetches[f].state \in {"sent", "bare"}
          /\ fetches' = [fetches EXCEPT ![f].state = "refused", ![f].at = time]
      BY <1>3 DEF Refuse
    <2>2. fetches'[f] = [fetches[f] EXCEPT !.state = "refused", !.at = time]
          /\ DOMAIN fetches' = Fetch /\ fetches' = [g \in Fetch |-> fetches'[g]]
          /\ \A g \in Fetch \ {f} : fetches'[g] = fetches[g]
      BY <1>1, <2>1
    <2>3. /\ fetches'[f] \in FetchType /\ fetches'[f].tab = fetches[f].tab
          /\ fetches'[f].state = "refused" /\ fetches'[f].at = time
      <3>1. fetches[f] \in FetchType
        BY <1>1
      <3>2. QED BY <1>1, <2>2, <3>1 DEF FetchType
    <2>4. fetches' \in [Fetch -> FetchType]
      BY <1>1, <2>2, <2>3
    <2>5. QED BY <1>3, <2>1, <2>2, <2>3, <2>4 DEF Refuse, server
  <1>4. CASE Blip(f)
    <2>1. fetches[f].state \in {"sent", "bare", "ok", "refused"}
          /\ fetches' = [fetches EXCEPT ![f].state = "lost"]
      BY <1>4 DEF Blip
    <2>2. fetches'[f] = [fetches[f] EXCEPT !.state = "lost"]
          /\ DOMAIN fetches' = Fetch /\ fetches' = [g \in Fetch |-> fetches'[g]]
          /\ \A g \in Fetch \ {f} : fetches'[g] = fetches[g]
      BY <1>1, <2>1
    <2>3. /\ fetches'[f] \in FetchType /\ fetches'[f].tab = fetches[f].tab
          /\ fetches'[f].state = "lost" /\ fetches'[f].at = fetches[f].at
      <3>1. fetches[f] \in FetchType
        BY <1>1
      <3>2. QED BY <1>1, <2>2, <3>1 DEF FetchType
    <2>4. fetches' \in [Fetch -> FetchType]
      BY <1>1, <2>2, <2>3
    <2>5. QED BY <1>4, <2>1, <2>2, <2>3, <2>4 DEF Blip, server
  <1>5. QED BY <1>2, <1>3, <1>4

LEMMA RequestRenewalInv ==
    ASSUME RenewalInv, NEW f \in Fetch, Renew(f) \/ Refuse(f) \/ Blip(f)
    PROVE  RenewalInv'
  <1>1. UNCHANGED <<time, ttl, cookie, open, asleep, stopped, timer, settled, retimed, slow>>
    BY DEF Renew, Refuse, Blip, tabs, history, server
  <1>2. /\ fetches[f].state # "free" /\ fetches' \in [Fetch -> FetchType]
        /\ fetches'[f].tab = fetches[f].tab
        /\ \A g \in Fetch \ {f} : fetches'[g] = fetches[g]
        /\ \/ /\ fetches'[f].state = "ok" /\ fetches'[f].at = time
              /\ fetches'[f].told = ttl /\ fetches'[f].age = ttl
              /\ expires' = time + ttl /\ UNCHANGED blips
           \/ fetches'[f].state = "refused" /\ fetches'[f].at = time /\ UNCHANGED <<expires, blips>>
           \/ /\ fetches'[f].state = "lost" /\ fetches'[f].at = fetches[f].at
              /\ blips < MaxBlip /\ blips' = blips + 1 /\ UNCHANGED expires
    BY RequestMeans
  <1>3. time \in Nat /\ ttl \in Nat /\ expires \in Nat /\ MaxDelay \in Nat /\ blips \in Nat
        /\ fetches \in [Fetch -> FetchType]
    BY RenewalTypes DEF RenewalInv
  <1>4. expires' \in Nat /\ blips' \in 0..MaxBlip /\ blips <= blips' /\ expires' \in {expires, time + ttl}
    BY <1>2, <1>3, OpenPagesAssumption DEF RenewalInv, RenewalTypeOK
  <1>5. RenewalTypeOK'
    BY <1>1, <1>2, <1>4 DEF RenewalInv, RenewalTypeOK, FetchType
  <1>6. FetchesOK'
    <2>1. /\ fetches[f].tab \in open /\ fetches[f].at <= time /\ time <= fetches[f].at + MaxDelay
      BY <1>2 DEF RenewalInv, FetchesOK, Unused
    <2>2. /\ fetches'[f].state # "free" /\ fetches'[f].tab \in open
          /\ fetches'[f].at <= time /\ time <= fetches'[f].at + MaxDelay
          /\ fetches'[f].state = "lost" => blips' > 0
      BY <1>1, <1>2, <1>3, <2>1
    <2>3. \A g \in Fetch \ {f} : fetches[g].state = "lost" /\ fetches[g] # Unused => blips' > 0
      BY <1>3, <1>4 DEF RenewalInv, FetchesOK
    <2>4. \A g \in Fetch \ {f} :
             \/ fetches'[g] = Unused
             \/ /\ fetches'[g].state # "free" /\ fetches'[g].tab \in open
                /\ fetches'[g].at <= time /\ time <= fetches'[g].at + MaxDelay
                /\ fetches'[g].state = "lost" => blips' > 0
      BY <1>2, <2>3 DEF RenewalInv, FetchesOK
    <2>5. QED BY <1>1, <2>2, <2>4 DEF FetchesOK
  <1>7. EndsOK'
    <2> SUFFICES ASSUME ~retimed PROVE EndsOK'
      BY <1>1 DEF EndsOK
    <2>1. /\ expires <= time + ttl /\ cookie <= time + ttl
          /\ \A g \in Fetch : fetches[g].state = "ok" =>
                fetches[g].told = ttl /\ fetches[g].age = ttl /\ fetches[g].at + ttl <= expires
      BY DEF RenewalInv, EndsOK
    <2>2. expires <= expires' /\ expires' <= time + ttl
      BY <1>3, <1>4, <2>1
    <2>3. fetches'[f].state = "ok" => fetches'[f].told = ttl /\ fetches'[f].age = ttl
                                      /\ fetches'[f].at = time /\ expires' = time + ttl
      BY <1>2
    <2>4. \A g \in Fetch : fetches[g].at \in Nat
      BY <1>3 DEF FetchType
    <2>5. \A g \in Fetch \ {f} : fetches'[g].state = "ok" =>
                fetches'[g].told = ttl /\ fetches'[g].age = ttl /\ fetches'[g].at + ttl <= expires'
      BY <1>2, <1>3, <1>4, <2>1, <2>2, <2>4
    <2>6. fetches'[f].state = "ok" => fetches'[f].at + ttl <= expires'
      BY <1>3, <2>3
    <2>7. QED BY <1>1, <2>1, <2>2, <2>3, <2>5, <2>6 DEF EndsOK
  <1>8. NeverGivesUp'
    <2>1. \A o, g \in Fetch : fetches'[g].tab = fetches[g].tab
      BY <1>2
    <2>2. QED BY <1>1, <2>1 DEF RenewalInv, NeverGivesUp
  <1>9. QED BY <1>5, <1>6, <1>7, <1>8 DEF RenewalInv

\* What a request's end sets: the timer, unless it was refused.
LEMMA TakeMeans ==
    ASSUME RenewalInv, NEW f \in Fetch, TakeAnswer(f) \/ TakeRefusal(f) \/ TakeFailure(f)
    PROVE  LET t == fetches[f].tab
           IN  /\ t \in open /\ t \in Tab
               /\ fetches'[f] = Unused /\ \A g \in Fetch \ {f} : fetches'[g] = fetches[g]
               /\ fetches' \in [Fetch -> FetchType]
               /\ timer' \in [Tab -> Nat \cup {Never}] /\ \A o \in Tab \ {t} : timer'[o] = timer[o]
               /\ TakeAnswer(f) => timer'[t] = time + Wait(fetches[f].told) /\ timer'[t] \in Nat
               /\ TakeFailure(f) => timer'[t] = time + 1 /\ timer'[t] \in Nat
               /\ TakeRefusal(f) => timer' = timer
               /\ UNCHANGED <<time, ttl, expires, open, asleep, blips, retimed, slow>>
  <1> DEFINE t == fetches[f].tab
  <1>1. /\ fetches \in [Fetch -> FetchType] /\ time \in Nat /\ timer \in [Tab -> Nat \cup {Never}]
        /\ Unused \in FetchType
    BY RenewalTypes DEF RenewalInv, Unused, FetchType
  <1>2. fetches[f].state \in {"ok", "refused", "lost"} /\ fetches' = [fetches EXCEPT ![f] = Unused]
        /\ UNCHANGED <<time, ttl, expires, open, asleep, blips, retimed, slow>>
    BY DEF TakeAnswer, TakeRefusal, TakeFailure, server, tabs, history
  <1>3. t \in open /\ t \in Tab
    <2>1. fetches[f] # Unused
      BY <1>2 DEF Unused
    <2>2. QED BY <2>1 DEF RenewalInv, FetchesOK, RenewalTypeOK
  <1>4. /\ fetches'[f] = Unused /\ \A g \in Fetch \ {f} : fetches'[g] = fetches[g]
        /\ fetches' \in [Fetch -> FetchType]
    BY <1>1, <1>2
  <1>5. fetches[f].told \in Nat
    BY <1>1 DEF FetchType
  <1>6. Wait(fetches[f].told) \in Nat /\ Wait(Lead) = 1
    BY <1>5, WaitMeans DEF Lead
  <1>7. \/ TakeAnswer(f) /\ timer' = [timer EXCEPT ![t] = time + Wait(fetches[f].told)]
        \/ TakeFailure(f) /\ timer' = [timer EXCEPT ![t] = time + 1]
        \/ TakeRefusal(f) /\ timer' = timer
    BY <1>6 DEF TakeAnswer, TakeRefusal, TakeFailure, Schedule, Retry
  <1>8. /\ TakeAnswer(f) => fetches[f].state = "ok"
        /\ TakeFailure(f) => fetches[f].state = "lost"
        /\ TakeRefusal(f) => fetches[f].state = "refused"
    BY DEF TakeAnswer, TakeRefusal, TakeFailure
  <1> HIDE DEF t
  <1>9. /\ timer' \in [Tab -> Nat \cup {Never}] /\ \A o \in Tab \ {t} : timer'[o] = timer[o]
        /\ TakeAnswer(f) => timer'[t] = time + Wait(fetches[f].told) /\ timer'[t] \in Nat
        /\ TakeFailure(f) => timer'[t] = time + 1 /\ timer'[t] \in Nat
        /\ TakeRefusal(f) => timer' = timer
    BY <1>1, <1>3, <1>6, <1>7, <1>8
  <1>10. QED BY <1>2, <1>3, <1>4, <1>9 DEF t

LEMMA TakeRenewalInv ==
    ASSUME RenewalInv, NEW f \in Fetch, TakeAnswer(f) \/ TakeRefusal(f) \/ TakeFailure(f)
    PROVE  RenewalInv'
  <1> DEFINE t == fetches[f].tab
  <1>1. /\ t \in open /\ t \in Tab
        /\ fetches'[f] = Unused /\ \A g \in Fetch \ {f} : fetches'[g] = fetches[g]
        /\ fetches' \in [Fetch -> FetchType]
        /\ timer' \in [Tab -> Nat \cup {Never}] /\ \A o \in Tab \ {t} : timer'[o] = timer[o]
        /\ UNCHANGED <<time, ttl, expires, open, asleep, blips, retimed, slow>>
    BY TakeMeans
  <1>2. /\ time \in Nat /\ ttl \in Nat /\ cookie \in Nat /\ fetches \in [Fetch -> FetchType]
        /\ fetches[f].age \in Nat
    BY RenewalTypes DEF RenewalInv, FetchType
  <1>3. \/ /\ TakeAnswer(f) /\ fetches[f].state = "ok" /\ cookie' = time + fetches[f].age
           /\ UNCHANGED stopped
           /\ settled' = IF t \in asleep \cup stopped THEN settled ELSE settled \cup {t}
        \/ TakeRefusal(f) /\ stopped' = stopped \cup {t} /\ settled' = settled \ {t} /\ UNCHANGED cookie
        \/ TakeFailure(f) /\ UNCHANGED <<cookie, stopped, settled>>
    BY DEF TakeAnswer, TakeRefusal, TakeFailure, CookieLife, tabs, history
  <1>4. cookie' \in Nat
    BY <1>2, <1>3
  <1> HIDE DEF t
  <1>5. stopped' \subseteq open /\ settled' \subseteq open \ (asleep \cup stopped')
    BY <1>1, <1>3 DEF RenewalInv, RenewalTypeOK
  <1>6. RenewalTypeOK'
    BY <1>1, <1>4, <1>5 DEF RenewalInv, RenewalTypeOK, FetchType
  <1>7. FetchesOK'
    BY <1>1 DEF RenewalInv, FetchesOK
  <1>8. EndsOK'
    <2> SUFFICES ASSUME ~retimed PROVE EndsOK'
      BY <1>1 DEF EndsOK
    <2>1. cookie' <= time + ttl
      BY <1>2, <1>3 DEF RenewalInv, EndsOK
    <2>2. QED BY <1>1, <2>1 DEF RenewalInv, EndsOK, Unused
  <1>9. NeverGivesUp'
    <2>1. TakeAnswer(f) \/ TakeFailure(f) => timer'[t] \in Nat
      BY TakeMeans DEF t
    <2>2. \A o \in Tab \ {t}, g \in Fetch : fetches[g].tab = o => fetches'[g].tab = o
      BY <1>1 DEF t
    <2>3. ~(Never \in Nat)
      BY DEF Never
    <2>4. open \subseteq Tab
      BY DEF RenewalInv, RenewalTypeOK
    <2>5. \A o \in open \ stopped' : o \notin stopped /\ (o = t => TakeAnswer(f) \/ TakeFailure(f))
      BY <1>3
    <2>6. QED BY <1>1, <2>1, <2>2, <2>3, <2>4, <2>5 DEF RenewalInv, NeverGivesUp
  <1>10. QED BY <1>6, <1>7, <1>8, <1>9 DEF RenewalInv

LEMMA NextRenewalInv == RenewalInv /\ [RenewalNext]_renewalVars => RenewalInv'
  <1> SUFFICES ASSUME RenewalInv, [RenewalNext]_renewalVars PROVE RenewalInv'
    OBVIOUS
  <1>1. CASE UNCHANGED renewalVars
    BY <1>1 DEF renewalVars, server, tabs, RenewalInv, RenewalTypeOK, FetchesOK, EndsOK, NeverGivesUp
  <1>2. CASE RenewalNext
    BY <1>2, TimePassesRenewalInv, SaveLifetimeRenewalInv, SendRenewalInv, BrowseRenewalInv,
       ClosePageRenewalInv, RequestRenewalInv, TakeRenewalInv DEF RenewalNext, Page, Renewal
  <1>3. QED BY <1>1, <1>2

\* Until the console changes the lifetime, both ends only move on.
LEMMA EndsGrow ==
    ASSUME RenewalInv, [RenewalNext]_renewalVars, ~retimed'
    PROVE  /\ ~retimed /\ ttl' = ttl
           /\ expires <= expires' /\ cookie <= cookie' /\ time <= time' /\ blips <= blips'
           /\ slow => slow'
  <1>1. /\ time \in Nat /\ ttl \in Nat /\ expires \in Nat /\ cookie \in Nat /\ blips \in Nat
    BY RenewalTypes DEF RenewalInv
  <1>2. ~retimed /\ ttl' = ttl
    <2>1. CASE TimePasses \/ UNCHANGED renewalVars
      BY <2>1 DEF TimePasses, renewalVars, server
    <2>2. CASE \E d \in TTLs : SaveLifetime(d)
      BY <2>2 DEF SaveLifetime
    <2>3. CASE \E o \in Tab : Page(o)
      BY <2>3 DEF Page, LoadPage, Browse, ClosePage, TimerFires, Suspend, BecomeVisible, server, history
    <2>4. CASE \E f \in Fetch : Renew(f) \/ Refuse(f) \/ Blip(f)
      BY <2>4 DEF Renew, Refuse, Blip, server, history
    <2>5. CASE \E f \in Fetch : TakeAnswer(f) \/ TakeRefusal(f) \/ TakeFailure(f)
      BY <2>5 DEF TakeAnswer, TakeRefusal, TakeFailure, server, history
    <2>6. QED BY <2>1, <2>2, <2>3, <2>4, <2>5 DEF RenewalNext, Renewal
  <1>3. /\ expires <= time + ttl /\ cookie <= time + ttl
        /\ \A f \in Fetch : fetches[f].state = "ok" => fetches[f].age = ttl
    BY <1>2 DEF RenewalInv, EndsOK
  <1>4. Slid(expires) \in Nat /\ expires <= Slid(expires)
    BY SlidMeans DEF RenewalInv
  <1>5. CASE TimePasses
    <2>1. slow => slow'
      BY <1>5, Zenon DEF TimePasses
    <2>2. time' = time + 1 /\ UNCHANGED <<expires, cookie, blips>>
      BY <1>5 DEF TimePasses, server
    <2>3. QED BY <1>1, <1>2, <2>1, <2>2
  <1>6. CASE \E o \in Tab : Page(o)
    <2>1. UNCHANGED <<time, cookie, blips, slow>> /\ (expires' = expires \/ expires' = Slid(expires))
      BY <1>6 DEF Page, LoadPage, Browse, ClosePage, TimerFires, Suspend, BecomeVisible, server, history
    <2>2. QED BY <1>1, <1>2, <1>4, <2>1
  <1>7. CASE \E f \in Fetch : Renew(f) \/ Refuse(f) \/ Blip(f)
    <2>1. PICK f \in Fetch : Renew(f) \/ Refuse(f) \/ Blip(f)
      BY <1>7
    <2>2. UNCHANGED <<time, cookie, slow>>
      BY <2>1 DEF Renew, Refuse, Blip, history
    <2>3. /\ expires' = expires \/ expires' = time + ttl
          /\ blips' = blips \/ blips' = blips + 1
      BY <2>1, RequestMeans
    <2>4. QED BY <1>1, <1>2, <1>3, <2>2, <2>3
  <1>8. CASE \E f \in Fetch : TakeAnswer(f) \/ TakeRefusal(f) \/ TakeFailure(f)
    <2>1. PICK f \in Fetch : TakeAnswer(f) \/ TakeRefusal(f) \/ TakeFailure(f)
      BY <1>8
    <2>2. UNCHANGED <<time, expires, blips, slow>>
          /\ (UNCHANGED cookie \/ (fetches[f].state = "ok" /\ cookie' = time + fetches[f].age))
      BY <2>1 DEF TakeAnswer, TakeRefusal, TakeFailure, CookieLife, server, history
    <2>3. QED BY <1>1, <1>2, <1>3, <2>2
  <1>9. CASE UNCHANGED renewalVars
    BY <1>1, <1>2, <1>9 DEF renewalVars, server
  <1>10. CASE \E d \in TTLs : SaveLifetime(d)
    BY <1>10 DEF SaveLifetime
  <1>11. QED BY <1>5, <1>6, <1>7, <1>8, <1>9, <1>10 DEF RenewalNext, Renewal

LEMMA NextNoneLost ==
    ASSUME \A d \in TTLs : d >= 3, MaxDelay <= 1,
           RenewalInv, NoneLost, [RenewalNext]_renewalVars
    PROVE  NoneLost'
  <1> DEFINE Good(g, t) ==
                \/ fetches'[g].state = "sent" /\ fetches'[g].at <= cookie' - 2 /\ fetches'[g].at <= expires' - 1
                \/ fetches'[g].state = "ok" /\ fetches'[g].at <= cookie' - 1
             InTimeNext(t) == timer'[t] # Never \/ \E g \in Fetch : fetches'[g].tab = t /\ Good(g, t)
             TimerNext(t) == timer'[t] # Never => time' <= timer'[t] /\ timer'[t] <= cookie' - 2
                                                  /\ timer'[t] <= expires' - 1
  <1> SUFFICES ASSUME ~retimed', blips' = 0, NEW t \in settled'
               PROVE  TimerNext(t) /\ InTimeNext(t)
    BY DEF NoneLost, InTime
  <1>1. /\ ~retimed /\ ttl' = ttl
        /\ expires <= expires' /\ cookie <= cookie' /\ time <= time' /\ blips <= blips'
    BY EndsGrow
  <1>2. /\ time \in Nat /\ ttl \in Nat /\ expires \in Nat /\ cookie \in Nat /\ blips \in Nat
        /\ MaxDelay \in Nat /\ ttl >= 3
        /\ fetches \in [Fetch -> FetchType] /\ timer \in [Tab -> Nat \cup {Never}]
        /\ settled \subseteq open \ (asleep \cup stopped) /\ open \subseteq Tab
    BY RenewalTypes DEF RenewalInv, RenewalTypeOK
  <1>3. RenewalInv' /\ expires' \in Nat /\ cookie' \in Nat /\ time' \in Nat
        /\ timer' \in [Tab -> Nat \cup {Never}] /\ t \in Tab
    BY NextRenewalInv DEF RenewalInv, RenewalTypeOK
  <1>4. blips = 0
    BY <1>1, <1>2
  <1>5. t \in settled => /\ timer[t] # Never => time <= timer[t] /\ timer[t] <= cookie - 2 /\ timer[t] <= expires - 1
                         /\ InTime(t)
    BY <1>1, <1>4 DEF NoneLost
  <1>6. \A g \in Fetch : fetches[g].tab \in Tab =>
             /\ fetches[g].state # "free" /\ fetches[g].tab \in open
             /\ fetches[g].at \in Nat /\ fetches[g].at <= time /\ time <= fetches[g].at + 1
             /\ fetches[g].state # "lost"
    <2>1. \A g \in Fetch : fetches[g].at \in Nat
      BY <1>2 DEF FetchType
    <2>2. NoTab \notin Tab
      BY OpenPagesAssumption
    <2>3. QED BY <1>2, <1>4, <2>1, <2>2 DEF RenewalInv, FetchesOK, Unused
  <1>7. ~(Never \in Nat)
    BY DEF Never
  \* A step that leaves the page's timer and its requests.
  <1>8. ASSUME t \in settled, timer'[t] = timer[t], timer[t] # Never => time' <= timer[t],
               \A g \in Fetch : fetches[g].tab = t => fetches'[g] = fetches[g]
        PROVE  TimerNext(t) /\ InTimeNext(t)
    <2>1. TimerNext(t)
      BY <1>1, <1>2, <1>3, <1>5, <1>8
    <2>2. InTimeNext(t)
      <3>1. CASE timer[t] # Never
        BY <1>8, <3>1
      <3>2. CASE timer[t] = Never
        <4>1. PICK g \in Fetch : /\ fetches[g].tab = t
                                 /\ \/ /\ fetches[g].state = "sent"
                                       /\ fetches[g].at <= cookie - 2 /\ fetches[g].at <= expires - 1
                                    \/ fetches[g].state = "ok" /\ fetches[g].at <= cookie - 1
          BY <1>5, <1>8, <3>2 DEF InTime
        <4>2. fetches[g].at \in Nat
          BY <1>3, <1>6, <4>1
        <4>3. Good(g, t) /\ fetches'[g].tab = t
          BY <1>1, <1>2, <1>3, <1>8, <4>1, <4>2
        <4>4. QED BY <4>3
      <3>3. QED BY <3>1, <3>2
    <2>3. QED BY <2>1, <2>2
  <1>9. CASE TimePasses
    <2>1. t \in settled /\ timer' = timer /\ fetches' = fetches /\ time' = time + 1
      BY <1>9 DEF TimePasses
    <2>2. timer[t] # Never => ~(timer[t] <= time)
      BY <1>2, <1>3, <1>9, <2>1 DEF TimePasses, Due
    <2>3. timer[t] # Never => time' <= timer[t]
      BY <1>2, <1>3, <2>1, <2>2
    <2>4. QED BY <1>8, <2>1, <2>3
  <1>10. ASSUME NEW o \in Tab, LoadPage(o) \/ TimerFires(o) \/ BecomeVisible(o)
         PROVE  TimerNext(t) /\ InTimeNext(t)
    <2>1. SendRenewal(o) /\ UNCHANGED <<time, cookie, settled>>
      BY <1>10 DEF LoadPage, TimerFires, BecomeVisible, server, history
    <2>2. PICK f \in Fetch :
                /\ fetches[f] = Unused
                /\ fetches'[f] = [tab |-> o, at |-> time, told |-> 0, age |-> 0,
                                  state |-> IF HasCookie THEN "sent" ELSE "bare"]
                /\ \A g \in Fetch \ {f} : fetches'[g] = fetches[g]
      BY <2>1, SendMeans
    <2>3. \A g \in Fetch : fetches[g].tab = t => fetches'[g] = fetches[g]
      BY <1>3, <1>6, <2>2 DEF Unused
    <2>4. CASE timer'[t] = timer[t]
      BY <1>5, <1>8, <2>1, <2>3, <2>4
    <2>5. CASE timer'[t] # timer[t]
      <3>1. TimerFires(o) /\ o = t
        BY <1>2, <1>3, <1>10, <2>5 DEF LoadPage, TimerFires, BecomeVisible
      <3>2. timer[t] # Never /\ timer[t] <= time /\ timer'[t] = Never /\ UNCHANGED expires
        BY <1>2, <1>3, <3>1 DEF TimerFires, Due, server
      <3>3. time <= cookie - 2 /\ time <= expires - 1
        BY <1>2, <1>3, <1>5, <2>1, <3>2
      <3>4. HasCookie
        BY <1>2, <3>3 DEF HasCookie
      <3>5. fetches'[f].tab = t /\ fetches'[f].state = "sent" /\ fetches'[f].at = time
        BY <2>2, <3>1, <3>4
      <3>6. Good(f, t)
        BY <2>1, <3>2, <3>3, <3>5
      <3>7. QED BY <3>2, <3>5, <3>6
    <2>6. QED BY <2>4, <2>5
  <1>11. ASSUME NEW o \in Tab, Browse(o) \/ Suspend(o) \/ ClosePage(o)
         PROVE  TimerNext(t) /\ InTimeNext(t)
    <2>1. UNCHANGED time
      BY <1>11 DEF Browse, Suspend, ClosePage
    <2>2. CASE Browse(o) \/ Suspend(o)
      <3>1. t \in settled /\ UNCHANGED <<timer, fetches>>
        BY <2>2 DEF Browse, Suspend, tabs, history
      <3>2. QED BY <1>5, <1>8, <2>1, <3>1
    <2>3. CASE ClosePage(o)
      <3>1. t \in settled /\ t # o /\ timer'[t] = timer[t]
            /\ \A g \in Fetch : fetches[g].tab = t => fetches'[g] = fetches[g]
        BY <1>2, <1>3, <2>3 DEF ClosePage, Aborted
      <3>2. QED BY <1>5, <1>8, <2>1, <3>1
    <2>4. QED BY <1>11, <2>2, <2>3
  <1>12. ASSUME NEW f \in Fetch, Renew(f) \/ Refuse(f) \/ Blip(f)
         PROVE  TimerNext(t) /\ InTimeNext(t)
    <2>1. UNCHANGED <<time, cookie, timer, settled>>
      BY <1>12 DEF Renew, Refuse, Blip, tabs, history
    <2>2. /\ fetches[f].state # "free" /\ fetches'[f].tab = fetches[f].tab
          /\ \A g \in Fetch \ {f} : fetches'[g] = fetches[g]
          /\ \/ /\ fetches[f].state = "sent"
                /\ fetches'[f].state = "ok" /\ fetches'[f].at = time
             \/ fetches[f].state = "bare" \/ (fetches[f].state = "sent" /\ ~Live)
             \/ blips' = blips + 1
      BY <1>12, RequestMeans
    <2>3. CASE timer[t] # Never
      <3>1. TimerNext(t)
        BY <1>1, <1>2, <1>3, <1>5, <2>1
      <3>2. QED BY <2>1, <2>3, <3>1
    <2>4. CASE timer[t] = Never
      <3>1. PICK g \in Fetch : /\ fetches[g].tab = t
                               /\ \/ /\ fetches[g].state = "sent"
                                     /\ fetches[g].at <= cookie - 2 /\ fetches[g].at <= expires - 1
                                  \/ fetches[g].state = "ok" /\ fetches[g].at <= cookie - 1
        BY <1>5, <2>1, <2>4 DEF InTime
      <3>2. fetches[g].at \in Nat /\ time <= fetches[g].at + 1
        BY <1>3, <1>6, <3>1
      <3>3. CASE g # f
        <4>1. Good(g, t) /\ fetches'[g].tab = t
          BY <1>1, <1>2, <1>3, <2>1, <2>2, <3>1, <3>2, <3>3
        <4>2. QED BY <2>1, <2>4, <4>1
      <3>4. CASE g = f
        <4>1. fetches[f].state = "sent" => Live
          BY <1>2, <3>1, <3>2, <3>4 DEF Live
        <4>2. fetches'[f].state = "ok" /\ fetches'[f].at = time /\ fetches[f].state = "sent"
          BY <1>4, <2>2, <3>1, <3>4, <4>1
        <4>3. fetches'[f].at <= cookie' - 1
          BY <1>2, <2>1, <3>1, <3>2, <3>4, <4>2
        <4>4. Good(f, t) /\ fetches'[f].tab = t
          BY <2>2, <3>1, <3>4, <4>2, <4>3
        <4>5. QED BY <2>1, <2>4, <4>4
      <3>5. QED BY <3>3, <3>4
    <2>5. QED BY <2>3, <2>4
  <1>13. ASSUME NEW f \in Fetch, TakeAnswer(f) \/ TakeRefusal(f) \/ TakeFailure(f)
         PROVE  TimerNext(t) /\ InTimeNext(t)
    <2> DEFINE o == fetches[f].tab
    <2>1. /\ o \in Tab
          /\ \A g \in Fetch \ {f} : fetches'[g] = fetches[g]
          /\ \A s \in Tab \ {o} : timer'[s] = timer[s]
          /\ UNCHANGED <<time, expires>>
      BY <1>13, TakeMeans
    <2>2. TakeAnswer(f) => timer'[o] = time + Wait(fetches[f].told) /\ timer'[o] \in Nat
      BY <1>13, TakeMeans
    <2>3. CASE t = o
      <3>1. ~TakeFailure(f)
        BY <1>6, <2>1 DEF TakeFailure
      <3>2. ~TakeRefusal(f)
        BY <2>3 DEF TakeRefusal
      <3>3. TakeAnswer(f) /\ fetches[f].state = "ok" /\ cookie' = time + fetches[f].age
        BY <1>13, <3>1, <3>2 DEF TakeAnswer, CookieLife
      <3>4. fetches[f].told = ttl /\ fetches[f].age = ttl /\ fetches[f].at + ttl <= expires
        BY <1>1, <3>3 DEF RenewalInv, EndsOK
      <3>5. Wait(ttl) = ttl - 2
        BY <1>2, WaitMeans
      <3>6. timer'[t] = time + (ttl - 2) /\ cookie' = time + ttl /\ timer'[t] \in Nat
        BY <2>2, <2>3, <3>3, <3>4, <3>5
      <3>7. fetches[f].at \in Nat /\ time <= fetches[f].at + 1
        BY <1>6, <2>1
      <3>8. timer'[t] # Never /\ time' <= timer'[t] /\ timer'[t] <= cookie' - 2 /\ timer'[t] <= expires' - 1
        BY <1>2, <1>7, <2>1, <3>4, <3>6, <3>7
      <3>9. QED BY <3>8
    <2>4. CASE t # o
      <3>1. t \in settled /\ timer'[t] = timer[t] /\ UNCHANGED time
        BY <1>3, <1>13, <2>1, <2>4 DEF TakeAnswer, TakeRefusal, TakeFailure, history
      <3>2. \A g \in Fetch : fetches[g].tab = t => fetches'[g] = fetches[g]
        BY <2>1, <2>4
      <3>3. QED BY <1>5, <1>8, <3>1, <3>2
    <2>5. QED BY <2>3, <2>4
  <1>14. CASE UNCHANGED renewalVars
    <2>1. t \in settled /\ UNCHANGED <<time, timer, fetches>>
      BY <1>14 DEF renewalVars
    <2>2. QED BY <1>5, <1>8, <2>1
  <1>15. CASE \E d \in TTLs : SaveLifetime(d)
    BY <1>15 DEF SaveLifetime
  <1> HIDE DEF TimerNext, InTimeNext
  <1>16. QED BY <1>9, <1>10, <1>11, <1>12, <1>13, <1>14, <1>15 DEF RenewalNext, Page, Renewal

\* Three facts of arithmetic, for numbers of two states.
LEMMA SumIsNat ==
    ASSUME NEW i \in Nat, NEW j \in Nat
    PROVE  i + j \in Nat
  OBVIOUS

LEMMA SumGrows ==
    ASSUME NEW i \in Nat, NEW j \in Nat, NEW k \in Nat, NEW l \in Nat, i <= k, j <= l
    PROVE  i + j <= k + l
  OBVIOUS

LEMMA AtMost ==
    ASSUME NEW i \in Nat, NEW j \in Nat, NEW k \in Nat, i <= j, j <= k
    PROVE  i <= k
  OBVIOUS

LEMMA NextNoneSlow ==
    ASSUME \A d \in TTLs : d >= 3, RenewalInv, NoneSlow, [RenewalNext]_renewalVars
    PROVE  NoneSlow'
  <1> SUFFICES ASSUME ~retimed', ~slow' PROVE NoneSlow'
    BY DEF NoneSlow
  <1> DEFINE LeftNext(u) == u + 2 <= cookie' + blips' /\ u + 2 <= expires' + blips'
  <1>1. /\ ~retimed /\ ~slow /\ ttl' = ttl
        /\ expires <= expires' /\ cookie <= cookie' /\ time <= time' /\ blips <= blips'
    BY EndsGrow
  <1>2. /\ time \in Nat /\ ttl \in Nat /\ expires \in Nat /\ cookie \in Nat /\ blips \in Nat /\ ttl >= 3
        /\ fetches \in [Fetch -> FetchType] /\ timer \in [Tab -> Nat \cup {Never}]
        /\ settled \subseteq open \ (asleep \cup stopped) /\ open \subseteq Tab /\ NoTab \notin Tab
    BY RenewalTypes DEF RenewalInv, RenewalTypeOK
  <1>3. /\ expires' \in Nat /\ cookie' \in Nat /\ time' \in Nat /\ blips' \in Nat
        /\ timer' \in [Tab -> Nat \cup {Never}] /\ settled' \subseteq Tab
        /\ \A f \in Fetch : fetches'[f].at \in Nat
    <2>1. RenewalTypeOK'
      BY NextRenewalInv DEF RenewalInv
    <2>2. QED BY <2>1 DEF RenewalTypeOK
  <1>4. /\ \A f \in Fetch : fetches[f].state # "free" => fetches[f].at = time
        /\ \A t \in settled :
              /\ Left(time)
              /\ timer[t] # Never => time <= timer[t] /\ Left(timer[t])
              /\ \A f \in Fetch : fetches[f].tab = t /\ fetches[f].state = "lost" => Left(time + 1)
    BY <1>1 DEF NoneSlow
  <1>5. \A u \in Nat : Left(u) => LeftNext(u)
    <2>1. cookie + blips <= cookie' + blips' /\ expires + blips <= expires' + blips'
      <3>1. /\ cookie \in Nat /\ blips \in Nat /\ expires \in Nat
            /\ cookie' \in Nat /\ blips' \in Nat /\ expires' \in Nat
        BY <1>2, <1>3
      <3>2. cookie <= cookie' /\ blips <= blips' /\ expires <= expires'
        BY <1>1
      <3>3. QED BY <3>1, <3>2, SumGrows, Zenon
    <2>2. SUFFICES ASSUME NEW u \in Nat, Left(u) PROVE LeftNext(u)
      OBVIOUS
    <2>3. u + 2 <= cookie + blips /\ u + 2 <= expires + blips
      BY <2>2 DEF Left
    <2>4. cookie + blips \in Nat /\ expires + blips \in Nat /\ u + 2 \in Nat
      BY <1>2
    <2>5. cookie' + blips' \in Nat /\ expires' + blips' \in Nat
      BY <1>3, SumIsNat
    <2>6. u + 2 <= cookie' + blips'
      BY <2>1, <2>3, <2>4, <2>5, AtMost, Zenon
    <2>7. u + 2 <= expires' + blips'
      BY <2>1, <2>3, <2>4, <2>5, AtMost, Zenon
    <2>8. QED BY <2>6, <2>7
  <1>6. \A f \in Fetch : fetches[f].state = "free" => fetches[f] = Unused
    BY DEF RenewalInv, FetchesOK
  <1>7. ~(Never \in Nat) /\ time + 1 \in Nat
    BY <1>2 DEF Never
  <1>8. SUFFICES /\ \A f \in Fetch : fetches'[f].state # "free" => fetches'[f].at = time'
                 /\ \A t \in settled' :
                       /\ LeftNext(time')
                       /\ timer'[t] # Never => time' <= timer'[t] /\ LeftNext(timer'[t])
                       /\ \A f \in Fetch : fetches'[f].tab = t /\ fetches'[f].state = "lost" => LeftNext(time' + 1)
    BY DEF NoneSlow, Left
  <1> DEFINE Goal == /\ \A f \in Fetch : fetches'[f].state # "free" => fetches'[f].at = time'
                     /\ \A t \in settled' :
                           /\ LeftNext(time')
                           /\ timer'[t] # Never => time' <= timer'[t] /\ LeftNext(timer'[t])
                           /\ \A f \in Fetch : fetches'[f].tab = t /\ fetches'[f].state = "lost" => LeftNext(time' + 1)
  \* A settled page whose timer a step leaves or clears, in which no time passes.
  <1>9. ASSUME NEW t \in settled, time' = time, timer'[t] = timer[t] \/ timer'[t] = Never
        PROVE  /\ LeftNext(time')
               /\ timer'[t] # Never => time' <= timer'[t] /\ LeftNext(timer'[t])
    BY <1>2, <1>4, <1>5, <1>9
  <1> HIDE DEF LeftNext
  <1>10. CASE TimePasses
    <2>1. time' = time + 1 /\ UNCHANGED <<timer, fetches, settled>>
      BY <1>10 DEF TimePasses
    <2>2. \A f \in Fetch : fetches[f].state = "free"
      BY <1>10, Zenon DEF TimePasses
    <2>3. \A f \in Fetch : fetches[f] = Unused
      BY <1>6, <2>2
    <2>4. ASSUME NEW t \in settled
          PROVE  LeftNext(time') /\ time' <= timer[t] /\ LeftNext(timer[t])
      <3>1. t \in open \ stopped /\ t \in open \ asleep /\ t \in Tab
        BY <1>2
      <3>2. timer[t] # Never
        BY <1>2, <2>3, <3>1 DEF RenewalInv, NeverGivesUp, Unused
      <3>3. timer[t] \in Nat
        BY <1>2, <3>1, <3>2
      <3>4. ~(timer[t] <= time)
        BY <1>10, <3>1, <3>2 DEF TimePasses, Due
      <3>5. time + 1 <= timer[t] /\ Left(timer[t])
        BY <1>2, <1>4, <3>2, <3>3, <3>4
      <3>6. Left(time + 1)
        BY <1>2, <3>3, <3>5 DEF Left
      <3>7. QED BY <1>5, <1>7, <2>1, <3>3, <3>5, <3>6
    <2>5. \A f \in Fetch : fetches'[f].state = "free"
      BY <2>1, <2>2
    <2>6. QED BY <2>1, <2>4, <2>5
  <1>11. ASSUME NEW o \in Tab, LoadPage(o) \/ TimerFires(o) \/ BecomeVisible(o) PROVE Goal
    <2>1. SendRenewal(o) /\ UNCHANGED <<time, settled>>
      BY <1>11 DEF LoadPage, TimerFires, BecomeVisible, history
    <2>2. timer' = timer \/ timer' = [timer EXCEPT ![o] = Never]
      BY <1>11 DEF LoadPage, TimerFires, BecomeVisible
    <2>3. \A t \in Tab : timer'[t] = timer[t] \/ timer'[t] = Never
      BY <1>2, <2>2
    <2>4. PICK f \in Fetch :
                /\ fetches[f] = Unused
                /\ fetches'[f] = [tab |-> o, at |-> time, told |-> 0, age |-> 0,
                                  state |-> IF HasCookie THEN "sent" ELSE "bare"]
                /\ \A g \in Fetch \ {f} : fetches'[g] = fetches[g]
      BY <2>1, SendMeans
    <2>5. fetches'[f].at = time /\ fetches'[f].state # "lost"
      BY <2>4
    <2>6. \A g \in Fetch : fetches'[g].state # "free" => fetches'[g].at = time'
      BY <1>4, <2>1, <2>4, <2>5
    <2>7. \A t \in settled, g \in Fetch : fetches'[g].tab = t /\ fetches'[g].state = "lost" => LeftNext(time' + 1)
      BY <1>4, <1>5, <1>7, <2>1, <2>4, <2>5
    <2>8. QED BY <1>3, <1>9, <2>1, <2>3, <2>6, <2>7
  <1>12. ASSUME NEW o \in Tab, Browse(o) \/ Suspend(o) \/ ClosePage(o) PROVE Goal
    <2>1. time' = time /\ settled' \subseteq settled
      BY <1>12 DEF Browse, Suspend, ClosePage, history
    <2>2. timer' = timer \/ timer' = [timer EXCEPT ![o] = Never]
      BY <1>12 DEF Browse, Suspend, ClosePage, tabs
    <2>3. \A t \in Tab : timer'[t] = timer[t] \/ timer'[t] = Never
      BY <1>2, <2>2
    <2>4. \A g \in Fetch : fetches'[g] = Unused \/ fetches'[g] = fetches[g]
      BY <1>12 DEF Browse, Suspend, ClosePage, Aborted
    <2>5. \A g \in Fetch : fetches'[g].state # "free" => fetches'[g] = fetches[g]
      BY <2>4 DEF Unused
    <2>6. \A g \in Fetch : fetches'[g].state # "free" => fetches'[g].at = time'
      BY <1>4, <2>1, <2>5
    <2>7. \A t \in settled, g \in Fetch : fetches'[g].tab = t /\ fetches'[g].state = "lost" => LeftNext(time' + 1)
      BY <1>4, <1>5, <1>7, <2>1, <2>5
    <2>8. QED BY <1>3, <1>9, <2>1, <2>3, <2>6, <2>7
  <1>13. ASSUME NEW f \in Fetch, Renew(f) \/ Refuse(f) \/ Blip(f) PROVE Goal
    <2>1. UNCHANGED <<time, cookie, timer, settled>>
      BY <1>13 DEF Renew, Refuse, Blip, tabs, history
    <2>2. /\ fetches[f].state # "free" /\ fetches'[f].tab = fetches[f].tab
          /\ \A g \in Fetch \ {f} : fetches'[g] = fetches[g]
          /\ \/ fetches'[f].state # "lost" /\ fetches'[f].at = time
             \/ fetches'[f].state = "lost" /\ fetches'[f].at = fetches[f].at
                /\ blips' = blips + 1 /\ UNCHANGED expires
      BY <1>13, RequestMeans
    <2>3. \A g \in Fetch : fetches'[g].state # "free" => fetches'[g].at = time'
      BY <1>4, <2>1, <2>2
    <2>4. ASSUME NEW t \in settled, fetches'[f].tab = t, fetches'[f].state = "lost" PROVE LeftNext(time' + 1)
      <3>1. Left(time) /\ blips' = blips + 1 /\ UNCHANGED expires
        BY <1>4, <2>2, <2>4
      <3>2. QED BY <1>2, <2>1, <3>1 DEF Left, LeftNext
    <2>5. \A t \in settled, g \in Fetch : fetches'[g].tab = t /\ fetches'[g].state = "lost" => LeftNext(time' + 1)
      BY <1>4, <1>5, <1>7, <2>1, <2>2, <2>4
    <2>6. QED BY <1>9, <2>1, <2>3, <2>5
  <1>14. ASSUME NEW f \in Fetch, TakeAnswer(f) \/ TakeRefusal(f) \/ TakeFailure(f) PROVE Goal
    <2> DEFINE o == fetches[f].tab
    <2>1. /\ o \in Tab
          /\ fetches'[f] = Unused /\ \A g \in Fetch \ {f} : fetches'[g] = fetches[g]
          /\ \A s \in Tab \ {o} : timer'[s] = timer[s]
          /\ UNCHANGED <<time, expires, blips>>
      BY <1>14, TakeMeans
    <2>2. /\ TakeAnswer(f) => timer'[o] = time + Wait(fetches[f].told) /\ timer'[o] \in Nat
          /\ TakeFailure(f) => timer'[o] = time + 1
      BY <1>14, TakeMeans
    <2>3. \A g \in Fetch : fetches'[g].state # "free" => fetches'[g] = fetches[g]
      BY <2>1 DEF Unused
    <2>4. \A g \in Fetch : fetches'[g].state # "free" => fetches'[g].at = time'
      BY <1>4, <2>1, <2>3
    <2>5. \A t \in settled, g \in Fetch : fetches'[g].tab = t /\ fetches'[g].state = "lost" => LeftNext(time' + 1)
      BY <1>4, <1>5, <1>7, <2>1, <2>3
    <2>6. ASSUME NEW t \in settled', t # o
          PROVE  /\ LeftNext(time')
                 /\ timer'[t] # Never => time' <= timer'[t] /\ LeftNext(timer'[t])
                 /\ \A g \in Fetch : fetches'[g].tab = t /\ fetches'[g].state = "lost" => LeftNext(time' + 1)
      <3>1. t \in settled
        BY <1>14, <2>6 DEF TakeAnswer, TakeRefusal, TakeFailure, history
      <3>2. timer'[t] = timer[t]
        BY <1>3, <2>1, <2>6
      <3>3. QED BY <1>9, <2>1, <2>5, <3>1, <3>2
    <2>7. ASSUME o \in settled'
          PROVE  /\ LeftNext(time')
                 /\ timer'[o] # Never => time' <= timer'[o] /\ LeftNext(timer'[o])
                 /\ \A g \in Fetch : fetches'[g].tab = o /\ fetches'[g].state = "lost" => LeftNext(time' + 1)
      <3>1. CASE TakeAnswer(f)
        <4>1. fetches[f].state = "ok" /\ cookie' = time + fetches[f].age
          BY <3>1 DEF TakeAnswer, CookieLife
        <4>2. fetches[f].told = ttl /\ fetches[f].age = ttl /\ fetches[f].at + ttl <= expires /\ fetches[f].at = time
          BY <1>1, <1>4, <4>1 DEF RenewalInv, EndsOK
        <4>3. Wait(ttl) = ttl - 2
          BY <1>2, WaitMeans
        <4>4. timer'[o] = time + (ttl - 2) /\ cookie' = time + ttl /\ time + ttl <= expires'
          BY <2>1, <2>2, <3>1, <4>1, <4>2, <4>3
        <4>5. LeftNext(time') /\ LeftNext(time' + 1) /\ time' <= timer'[o] /\ LeftNext(timer'[o])
          BY <1>2, <1>3, <2>1, <4>4 DEF LeftNext
        <4>6. QED BY <4>5
      <3>2. CASE TakeFailure(f)
        <4>1. o \in settled /\ fetches[f].state = "lost"
          BY <2>7, <3>2 DEF TakeFailure, history
        <4>2. Left(time) /\ Left(time + 1) /\ timer'[o] = time + 1
          BY <1>4, <2>2, <3>2, <4>1
        <4>3. LeftNext(time) /\ LeftNext(time + 1) /\ time <= time + 1
          BY <1>2, <1>5, <1>7, <4>2
        <4>4. QED BY <2>1, <4>2, <4>3
      <3>3. CASE TakeRefusal(f)
        BY <2>7, <3>3 DEF TakeRefusal
      <3>4. QED BY <1>14, <3>1, <3>2, <3>3
    <2>8. QED BY <2>4, <2>6, <2>7
  <1>15. CASE UNCHANGED renewalVars
    <2>1. UNCHANGED <<time, timer, fetches, settled>>
      BY <1>15 DEF renewalVars
    <2>2. \A t \in settled, g \in Fetch : fetches'[g].tab = t /\ fetches'[g].state = "lost" => LeftNext(time' + 1)
      BY <1>4, <1>5, <1>7, <2>1
    <2>3. QED BY <1>4, <1>9, <2>1, <2>2
  <1>16. CASE \E d \in TTLs : SaveLifetime(d)
    BY <1>16 DEF SaveLifetime
  <1>17. CASE RenewalNext
    BY <1>10, <1>11, <1>12, <1>13, <1>14, <1>16, <1>17 DEF RenewalNext, Page, Renewal
  <1>18. QED BY <1>15, <1>17

-----------------------------------------------------------------------------
LEMMA RenewalInvariant == RenewalSpec => []RenewalInv
  BY InitRenewalInv, NextRenewalInv, PTL DEF RenewalSpec

\* The timers, requests and lifetimes keep their types, and a request under way
\* is never a closed page's.
THEOREM RenewalTyped == RenewalSpec => []RenewalTypeOK
  <1>1. RenewalInv => RenewalTypeOK
    BY DEF RenewalInv
  <1>2. QED BY <1>1, RenewalInvariant, PTL

\* Whatever is lost and however answers cross, an open page that was not refused
\* has a timer or a request out (shim.js schedule, renew).
THEOREM PagesKeepAsking == RenewalSpec => []NeverGivesUp
  <1>1. RenewalInv => NeverGivesUp
    BY DEF RenewalInv
  <1>2. QED BY <1>1, RenewalInvariant, PTL

\* For any tabs and requests, and lifetimes from a minute and a half (the console
\* takes five minutes or more), the lead of a minute suffices when a request takes
\* at most half a minute each way and none is lost, or when at most two are lost
\* and none takes time (shim.js schedule, renew; handleRenew).
THEOREM OpenPagesStaySignedIn ==
    ASSUME \A d \in TTLs : d >= 3, MaxDelay <= 1, MaxBlip <= 2
    PROVE  RenewalSpec => []OpenPageStaysSignedIn
  <1>1. RenewalInit => NoneLost /\ NoneSlow
    BY DEF RenewalInit, NoneLost, NoneSlow, Unused
  <1>2. RenewalInv /\ NoneLost /\ NoneSlow /\ [RenewalNext]_renewalVars => NoneLost' /\ NoneSlow'
    BY NextNoneLost, NextNoneSlow
  <1>3. RenewalSpec => [](NoneLost /\ NoneSlow)
    BY <1>1, <1>2, RenewalInvariant, PTL DEF RenewalSpec
  <1>4. RenewalInv /\ NoneLost /\ NoneSlow => OpenPageStaysSignedIn
    <2> SUFFICES ASSUME RenewalInv, NoneLost, NoneSlow, NEW t \in settled, ~retimed, blips = 0 \/ ~slow
                 PROVE  time <= cookie /\ time <= expires
      BY DEF OpenPageStaysSignedIn, SignedIn, HasCookie, Live
    <2>1. /\ time \in Nat /\ ttl \in Nat /\ ttl > 0 /\ expires \in Nat /\ cookie \in Nat
          /\ blips \in Nat /\ blips <= 2 /\ MaxDelay \in Nat
          /\ fetches \in [Fetch -> FetchType] /\ t \in open /\ t \in Tab
          /\ timer \in [Tab -> Nat \cup {Never}]
      BY RenewalTypes, OpenPagesAssumption DEF RenewalInv, RenewalTypeOK
    <2>2. CASE ~slow
      <3>1. Left(time)
        BY <2>2 DEF NoneSlow
      <3>2. QED BY <2>1, <3>1 DEF Left
    <2>3. CASE blips = 0
      <3>1. CASE timer[t] # Never
        <4>1. timer[t] \in Nat /\ time <= timer[t] /\ timer[t] <= cookie - 2 /\ timer[t] <= expires - 1
          BY <2>1, <2>3, <3>1 DEF NoneLost
        <4>2. QED BY <2>1, <4>1
      <3>2. CASE timer[t] = Never
        <4>1. PICK g \in Fetch : /\ fetches[g].tab = t
                                 /\ \/ /\ fetches[g].state = "sent"
                                       /\ fetches[g].at <= cookie - 2 /\ fetches[g].at <= expires - 1
                                    \/ fetches[g].state = "ok" /\ fetches[g].at <= cookie - 1
          BY <2>3, <3>2 DEF NoneLost, InTime
        <4>2. fetches[g].at \in Nat
          BY <2>1 DEF FetchType
        <4>3. time <= fetches[g].at + 1
          BY <2>1, <4>1, <4>2 DEF RenewalInv, FetchesOK, Unused
        <4>4. fetches[g].state = "ok" => fetches[g].at + ttl <= expires
          BY DEF RenewalInv, EndsOK
        <4>5. QED BY <2>1, <4>1, <4>2, <4>3, <4>4
      <3>3. QED BY <3>1, <3>2
    <2>4. QED BY <2>2, <2>3
  <1>5. QED BY <1>3, <1>4, RenewalInvariant, PTL
=============================================================================
