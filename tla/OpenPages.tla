----------------------------- MODULE OpenPages ------------------------------
(***************************************************************************)
(* How open pages keep a sign-in alive: the renewal timers of shim.js,     *)
(* portal.html and admin.html, the answer of POST /_wv/session/renew in    *)
(* between, and the two lifetimes it extends - the session's, in the       *)
(* gateway, and the cookie's, in the browser that holds all the tabs.      *)
(*                                                                         *)
(* The unit of time is half a minute, the floor of the script's timer. The *)
(* gateway answers in one step here: Sessions takes that step apart.       *)
(* The pages are those whose requests reach the gateway: its own, and      *)
(* proxied sites in the sub-domain mode (see RecognisesItsOwn in Routing). *)
(***************************************************************************)
EXTENDS Integers, FiniteSets

CONSTANTS
    Tab,       \* the browser's tabs
    Fetch,     \* renewal requests under way at once
    NoTab,     \* an unused Fetch
    TTLs,      \* the session lifetimes the console may configure
    MaxDelay,  \* bound: units each way a request may take
    MaxBlip,   \* bound: failed requests the network may produce in all
    MaxTime    \* bound: last clock value

\* schedule(): a minute early, never sooner than half a minute, and five
\* minutes where the answer does not say.
Lead == 2
Floor == 1
Unsaid == 10

ASSUME OpenPagesAssumption ==
    /\ TTLs \subseteq Nat \ {0} /\ TTLs # {}
    /\ NoTab \notin Tab
    /\ MaxDelay \in Nat /\ MaxBlip \in Nat /\ MaxTime \in Nat

VARIABLES
    time,      \* the clock, the same for the browser and the gateway
    ttl,       \* the configured lifetime
    expires,   \* the session's expiry in the gateway's table
    cookie,    \* when the browser discards the session cookie
    open,      \* the tabs that are open
    asleep,    \* the open tabs whose timers the browser does not run
    stopped,   \* the open tabs that were answered 401
    timer,     \* [Tab -> when its timer fires, or Never]
    fetches,   \* [Fetch -> the request in that slot]
    blips,     \* counts failed requests, up to MaxBlip
    settled,   \* history: open tabs that have stayed awake and been answered
    retimed,   \* history: the console has changed the lifetime
    slow       \* history: some request has taken time

server == <<ttl, expires>>
tabs == <<open, asleep, stopped>>
renewalVars == <<time, server, cookie, tabs, timer, fetches, blips, settled, retimed, slow>>
history == <<settled, retimed, slow>>

Never == -1
Unused == [tab |-> NoTab, at |-> 0, state |-> "free", told |-> 0, age |-> 0]

RenewalTypeOK ==
    /\ time \in 0..MaxTime
    /\ ttl \in TTLs
    /\ expires \in Nat /\ cookie \in Nat
    /\ open \subseteq Tab /\ asleep \subseteq open /\ stopped \subseteq open
    /\ timer \in [Tab -> Nat \cup {Never}]
    /\ \A t \in Tab \ open : timer[t] = Never
    /\ fetches \in [Fetch -> [tab : Tab \cup {NoTab}, at : Nat, told : Nat, age : Nat,
                              state : {"free", "bare", "sent", "ok", "refused", "lost"}]]
    /\ blips \in 0..MaxBlip
    /\ settled \subseteq open \ (asleep \cup stopped)
    /\ retimed \in BOOLEAN /\ slow \in BOOLEAN

\* The browser has just signed in: newSession and the cookie of handleVerify.
RenewalInit ==
    /\ time = 0
    /\ ttl \in TTLs
    /\ expires = ttl /\ cookie = ttl
    /\ open = {} /\ asleep = {} /\ stopped = {}
    /\ timer = [t \in Tab |-> Never]
    /\ fetches = [f \in Fetch |-> Unused]
    /\ blips = 0
    /\ settled = {}
    /\ retimed = FALSE /\ slow = FALSE

HasCookie == time <= cookie
Live == time <= expires
SignedIn == HasCookie /\ Live

\* SessionFor slides the expiry on any request of the browser.
Slid(e) == IF e < time + (ttl \div 2) THEN time + ttl ELSE e

-----------------------------------------------------------------------------
\* Time passes unless a timer is due on a page that runs, or a request has
\* taken as long as one may.

Due(t) == t \in open \ asleep /\ timer[t] # Never /\ timer[t] <= time
Overdue(f) == fetches[f].state # "free" /\ fetches[f].at + MaxDelay <= time

TimePasses ==
    /\ time < MaxTime
    /\ ~ \E t \in Tab : Due(t)
    /\ ~ \E f \in Fetch : Overdue(f)
    /\ time' = time + 1
    /\ slow' = (slow \/ \E f \in Fetch : fetches[f].state # "free")
    /\ UNCHANGED <<server, cookie, tabs, timer, fetches, blips, settled, retimed>>

SaveLifetime(d) ==
    /\ d # ttl
    /\ ttl' = d
    /\ retimed' = TRUE
    /\ UNCHANGED <<time, expires, cookie, tabs, timer, fetches, blips, settled, slow>>

-----------------------------------------------------------------------------
\* renew(): a fetch, with the cookie if the browser still has it.

SendRenewal(t) ==
    \E f \in Fetch :
        /\ fetches[f].state = "free"
        /\ fetches' = [fetches EXCEPT ![f] =
              [tab |-> t, at |-> time, told |-> 0, age |-> 0,
               state |-> IF HasCookie THEN "sent" ELSE "bare"]]

\* A page is served to a signed-in browser only, and asks as soon as it loads.
LoadPage(t) ==
    /\ t \notin open /\ SignedIn
    /\ open' = open \cup {t}
    /\ expires' = Slid(expires)
    /\ SendRenewal(t)
    /\ UNCHANGED <<time, ttl, cookie, asleep, stopped, timer, blips, history>>

\* Another request of a page: it slides the expiry and sets no cookie.
Browse(t) ==
    /\ t \in open /\ SignedIn
    /\ expires' = Slid(expires)
    /\ UNCHANGED <<time, ttl, cookie, tabs, timer, fetches, blips, history>>

\* Variants named "...Bug" are plausible slips of the definition that follows
\* them; nothing uses them but the mutation checks.

\* Closing a page aborts its requests, before or after the gateway acted.
AbortedBug(t) == fetches
Aborted(t) == [f \in Fetch |-> IF fetches[f].tab = t THEN Unused ELSE fetches[f]]

ClosePage(t) ==
    /\ t \in open
    /\ open' = open \ {t}
    /\ asleep' = asleep \ {t} /\ stopped' = stopped \ {t} /\ settled' = settled \ {t}
    /\ timer' = [timer EXCEPT ![t] = Never]
    /\ fetches' = Aborted(t)
    /\ UNCHANGED <<time, server, cookie, blips, retimed, slow>>

TimerFires(t) ==
    /\ Due(t)
    /\ timer' = [timer EXCEPT ![t] = Never]
    /\ SendRenewal(t)
    /\ UNCHANGED <<time, server, cookie, tabs, blips, history>>

\* The browser suspends a hidden tab; on the way back the page asks at once,
\* whatever its timer says and whether or not an answer is still out.
Suspend(t) ==
    /\ t \in open \ asleep
    /\ asleep' = asleep \cup {t}
    /\ settled' = settled \ {t}
    /\ UNCHANGED <<time, server, cookie, open, stopped, timer, fetches, blips, retimed, slow>>

BecomeVisible(t) ==
    /\ t \in open
    /\ asleep' = asleep \ {t}
    /\ SendRenewal(t)
    /\ UNCHANGED <<time, server, cookie, open, stopped, timer, blips, history>>

-----------------------------------------------------------------------------
\* handleRenew.

RenewedBug == Slid(expires)
Renewed == time + ttl

Renew(f) ==
    /\ fetches[f].state = "sent" /\ Live
    /\ expires' = Renewed
    /\ fetches' = [fetches EXCEPT ![f].state = "ok", ![f].at = time,
                                  ![f].told = Renewed - time, ![f].age = ttl]
    /\ UNCHANGED <<time, ttl, cookie, tabs, timer, blips, history>>

Refuse(f) ==
    /\ \/ fetches[f].state = "sent" /\ ~Live
       \/ fetches[f].state = "bare"
    /\ fetches' = [fetches EXCEPT ![f].state = "refused", ![f].at = time]
    /\ UNCHANGED <<time, server, cookie, tabs, timer, blips, history>>

\* The request or its answer is lost on the way.
Blip(f) ==
    /\ fetches[f].state \in {"sent", "bare", "ok", "refused"}
    /\ blips < MaxBlip
    /\ blips' = blips + 1
    /\ fetches' = [fetches EXCEPT ![f].state = "lost"]
    /\ UNCHANGED <<time, server, cookie, tabs, timer, history>>

-----------------------------------------------------------------------------
\* The page takes the answer; schedule() replaces the timer it had.

WaitBug(seconds) == IF seconds > Floor THEN seconds ELSE Floor
Wait(seconds) ==
    LET s == IF seconds = 0 THEN Unsaid ELSE seconds
    IN  IF s - Lead > Floor THEN s - Lead ELSE Floor

Schedule(t, seconds) == timer' = [timer EXCEPT ![t] = time + Wait(seconds)]

\* The answer re-sets the cookie, for as long as the lifetime it was given.
CookieLifeBug(f) == cookie
CookieLife(f) == time + fetches[f].age

TakeAnswer(f) ==
    /\ fetches[f].state = "ok"
    /\ cookie' = CookieLife(f)
    /\ Schedule(fetches[f].tab, fetches[f].told)
    /\ settled' = IF fetches[f].tab \in asleep \cup stopped THEN settled
                  ELSE settled \cup {fetches[f].tab}
    /\ fetches' = [fetches EXCEPT ![f] = Unused]
    /\ UNCHANGED <<time, server, tabs, blips, retimed, slow>>

\* 401: the script stops asking, or the portal goes to the sign-in page.
TakeRefusal(f) ==
    /\ fetches[f].state = "refused"
    /\ stopped' = stopped \cup {fetches[f].tab}
    /\ settled' = settled \ {fetches[f].tab}
    /\ fetches' = [fetches EXCEPT ![f] = Unused]
    /\ UNCHANGED <<time, server, cookie, open, asleep, timer, blips, retimed, slow>>

\* "a blip in the network is not an expiry": ask again after schedule(60).
RetryBug(t) == UNCHANGED timer
Retry(t) == Schedule(t, Lead)

TakeFailure(f) ==
    /\ fetches[f].state = "lost"
    /\ Retry(fetches[f].tab)
    /\ fetches' = [fetches EXCEPT ![f] = Unused]
    /\ UNCHANGED <<time, server, cookie, tabs, blips, history>>

-----------------------------------------------------------------------------
Page(t) == LoadPage(t) \/ Browse(t) \/ ClosePage(t) \/ TimerFires(t)
               \/ Suspend(t) \/ BecomeVisible(t)
Renewal(f) == Renew(f) \/ Refuse(f) \/ Blip(f)
                  \/ TakeAnswer(f) \/ TakeRefusal(f) \/ TakeFailure(f)

RenewalNext ==
    \/ TimePasses
    \/ \E d \in TTLs : SaveLifetime(d)
    \/ \E t \in Tab : Page(t)
    \/ \E f \in Fetch : Renewal(f)

RenewalSpec == RenewalInit /\ [][RenewalNext]_renewalVars

-----------------------------------------------------------------------------
\* docs/configuration.md: an open page renews about a minute before the expiry,
\* "so normal use is not interrupted". While a page that has been answered once
\* stays open and awake, neither the session nor the cookie runs out, whatever
\* the other tabs do, and however answers cross. The minute of lead has room for
\* slow requests or for lost ones, not for both; and once the console changes the
\* lifetime, a tab that heard of the longer one may wait past the shorter one,
\* which another tab's renewal has put into the session and the cookie.
OpenPageStaysSignedIn == settled # {} /\ ~retimed /\ (blips = 0 \/ ~slow) => SignedIn

\* A page that has not been told it is signed out always has another renewal to
\* come: a timer, or a request whose end sets one. No blip, sleep or pair of
\* answers that cross leaves it silently running out.
NeverGivesUp ==
    \A t \in open \ stopped :
        timer[t] # Never \/ \E f \in Fetch : fetches[f].tab = t
=============================================================================
