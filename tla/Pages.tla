------------------------------- MODULE Pages --------------------------------
(***************************************************************************)
(* The gateway's memory of where each browser is (pages.go): the last two  *)
(* documents of a session, to which a request that names no page of its    *)
(* own is attributed (record, by serveProxy), and a path that belongs to   *)
(* no site (current, by strayBase), in webvpn/proxy.go.                    *)
(*                                                                         *)
(* One tab of one browser is followed, whose requests overlap, whose       *)
(* answers may be lost or not be pages, and which may sign in again under  *)
(* a new key. A second browser visits sites meanwhile.                     *)
(***************************************************************************)
EXTENDS Naturals, FiniteSets, Functions

CONSTANTS
    PageSite,    \* the documents' sites
    Visit,       \* requests the tab has under way at once
    Tokens,      \* bound: sessions of the browser, 1..Tokens
    Stranger,    \* the key of the other browser's session
    LastReading, \* bound: the last reading of the clock
    PageTTL,     \* pageIdleTTL
    MaxPages,    \* maxPages
    NoPage       \* nil

ASSUME PagesAssumption ==
    /\ {Tokens, LastReading, PageTTL, MaxPages} \subseteq Nat
    /\ Stranger \notin Nat
    /\ NoPage \notin PageSite

VARIABLES
    now,         \* the gateway's clock
    trail,       \* pageMemory.m: [some keys -> [touched, cur, prev]]
    token,       \* the browser's session
    shown,       \* the document the tab shows
    visit,       \* [Visit -> a request under way]
    steady       \* history: documents came one at a time and each was shown

pagesVars == <<now, trail, token, shown, visit, steady>>

\* A request: a document, a part of one, or a stray path; from is the document
\* shown when it was sent, while it is, page what it is attributed to. Parts are fetched
\* from a document, and so are strays.
NoVisit == [step |-> "idle", kind |-> "part", site |-> NoPage, token |-> 1, from |-> NoPage, page |-> NoPage]
UnderWay(kind) == {v \in Visit : visit[v].step # "idle" /\ visit[v].kind = kind}

PagesInit ==
    /\ now = 0
    /\ trail = << >>
    /\ token = 1
    /\ shown = NoPage
    /\ visit = [v \in Visit |-> NoVisit]
    /\ steady = TRUE

-----------------------------------------------------------------------------
(* pages.go *)

Swept == Restrict(trail, {k \in DOMAIN trail : now - trail[k].touched <= PageTTL})

\* Variants named "...Bug" are plausible slips of the definition that follows
\* them; nothing uses them but the mutation checks.
AttributedBug(filed, document) == filed.cur
Attributed(filed, document) == IF document THEN filed.prev ELSE filed.cur

\* record: the trails after it, and the page it answers; at the limit a browser
\* without a trail gets none.
Recorded(k, s, document) ==
    LET known == k \in DOMAIN trail
        e == IF known THEN trail[k] ELSE [touched |-> now, cur |-> NoPage, prev |-> NoPage]
        filed == IF document THEN [touched |-> now, cur |-> s, prev |-> e.cur] ELSE [e EXCEPT !.touched = now]
        others == IF known THEN trail ELSE Swept
    IN  IF ~known /\ Cardinality(DOMAIN Swept) >= MaxPages
        THEN [trail |-> Swept, page |-> NoPage]
        ELSE [trail |-> [o \in DOMAIN others \cup {k} |-> IF o = k THEN filed ELSE others[o]],
              page |-> Attributed(filed, document)]

\* current: the document the browser is on.
Current(k) ==
    IF k \in DOMAIN trail
    THEN [trail |-> [trail EXCEPT ![k].touched = now], page |-> trail[k].cur]
    ELSE [trail |-> trail, page |-> NoPage]

-----------------------------------------------------------------------------
OpenPage(v, kind) ==
    /\ visit[v].step = "idle"
    /\ kind # "document" => shown # NoPage
    /\ \E s \in PageSite :
        visit' = [visit EXCEPT ![v] = [step |-> "sent", kind |-> kind, site |-> s, token |-> token,
                                       from |-> shown, page |-> NoPage]]
    /\ steady' = (steady /\ (kind = "document" => UnderWay("document") = {}))
    /\ UNCHANGED <<now, trail, token, shown>>

\* The gateway files the request; the page it answers waits in reqInfo.page.
File(v) ==
    /\ visit[v].step = "sent"
    /\ LET q == visit[v]
           filed == IF q.kind = "stray" THEN Current(q.token) ELSE Recorded(q.token, q.site, q.kind = "document")
       IN  /\ trail' = filed.trail
           /\ visit' = [visit EXCEPT ![v].step = "filed", ![v].page = filed.page]
    /\ UNCHANGED <<now, token, shown, steady>>

\* The answer: a document takes the place of the one shown, whose requests
\* come from no page from then on; or it is a download, or is lost.
Show(v) ==
    /\ visit[v].step = "filed"
    /\ IF visit[v].kind = "document"
       THEN /\ shown' = visit[v].site
            /\ visit' = [o \in Visit |-> IF o = v THEN NoVisit ELSE [visit[o] EXCEPT !.from = NoPage]]
       ELSE visit' = [visit EXCEPT ![v] = NoVisit] /\ UNCHANGED shown
    /\ UNCHANGED <<now, trail, token, steady>>

Lose(v) ==
    /\ visit[v].step = "filed" /\ visit[v].kind = "document"
    /\ visit' = [visit EXCEPT ![v] = NoVisit]
    /\ steady' = FALSE
    /\ UNCHANGED <<now, trail, token, shown>>

SignInAgain ==
    /\ token < Tokens
    /\ token' = token + 1
    /\ UNCHANGED <<now, trail, shown, visit, steady>>

StrangerOpens ==
    /\ \E s \in PageSite : trail' = Recorded(Stranger, s, TRUE).trail
    /\ UNCHANGED <<now, token, shown, visit, steady>>

Pass ==
    /\ now < LastReading
    /\ now' = now + 1
    /\ UNCHANGED <<trail, token, shown, visit, steady>>

PagesNext ==
    \/ \E v \in Visit : (\E kind \in {"document", "part", "stray"} : OpenPage(v, kind)) \/ File(v) \/ Show(v) \/ Lose(v)
    \/ SignInAgain \/ StrangerOpens \/ Pass

PagesSpec == PagesInit /\ [][PagesNext]_pagesVars

-----------------------------------------------------------------------------
(* Correctness *)

\* While a browser opens one document at a time and shows each, a request is
\* attributed to the document it was sent from, or to none: never to one of an
\* earlier session, of another browser or that it has left. What pages.go cannot
\* know is excepted: a document on its way in, or shown since the request left.
TrailFollows ==
    [][\A v \in Visit :
        (/\ visit[v].step = "sent" /\ visit'[v].step = "filed"
         /\ steady /\ visit[v].from = shown
         /\ \A o \in UnderWay("document") \ {v} : visit[o].step = "sent") =>
            visit'[v].page \in {NoPage, shown}]_pagesVars
=============================================================================
