------------------------------ MODULE Sessions ------------------------------
(***************************************************************************)
(* The table of signed-in browsers of internal/auth/manager.go: SessionFor *)
(* and its sliding expiry, POST /_wv/session/renew, /logout, the console's *)
(* POST /admin/api/sessions/revoke, newSession and the janitor's sweep.    *)
(*                                                                         *)
(* As in SignIn, one action is one section under Manager.mu or one reading *)
(* made outside it, and Stall bounds how old a clock reading gets before   *)
(* it is used. A request's session cookies are a set: SessionFor tries     *)
(* them in header order, which the browser decides.                        *)
(***************************************************************************)
EXTENDS Naturals, FiniteSets, Functions

CONSTANTS
    Token,    \* random session tokens; each is issued once at the most
    Visit,    \* requests that only go through SessionFor (Require)
    Renewal,  \* POST /_wv/session/renew requests
    Logout,   \* /logout requests
    Revoke,   \* POST /admin/api/sessions/revoke requests
    Janitor,  \* the goroutine that sweeps once a minute
    TTLs,     \* the session lifetimes the console may configure
    Stall,    \* bound: clock ticks from a reading to the end of its use
    MaxTime   \* bound: last clock value

Request == Visit \cup Renewal \cup Logout \cup Revoke
Process == Request \cup Token \cup {Janitor}

ASSUME ProcessAssumption ==
    /\ Token \cap Request = {} /\ Janitor \notin Token \cup Request
    /\ Visit \cap Renewal = {} /\ Visit \cap Logout = {} /\ Visit \cap Revoke = {}
    /\ Renewal \cap Logout = {} /\ Renewal \cap Revoke = {} /\ Logout \cap Revoke = {}
ASSUME TTLAssumption ==
    /\ TTLs \subseteq Nat \ {0}
    /\ TTLs # {}
    /\ Stall \in Nat
    /\ MaxTime \in Nat

VARIABLES
    clock,     \* the time m.now() reads
    ttl,       \* what sessionTTL() returns
    admins,    \* the tokens whose address store.IsAdmin accepts
    sessions,  \* Manager.sessions: token -> [expires, admin]
    pc,        \* [Process -> the section it runs next]
    now,       \* [Process -> its last clock reading]
    span,      \* [Process -> its last reading of sessionTTL()]
    cookies,   \* [Request -> the tokens its Cookie header carries]
    target,    \* [Revoke -> the token the request's body names by id]
    todo,      \* [Request -> the cookies its loop has yet to try]
    found,     \* [Request -> {} or the token SessionFor returned, as a set]
    asAdmin,   \* processes whose own copy of the session has Admin set
    used,      \* history: [Token -> when SessionFor or a renewal last used it]
    ended,     \* history: tokens that have left the table
    byAdmin    \* history: revoke requests whose sender has been an
               \* administrator at some instant since the request arrived

vars == <<clock, ttl, admins, sessions, pc, now, span, cookies, target, todo,
          found, asAdmin, used, ended, byAdmin>>
inputs  == <<cookies, target>>
history == <<used, ended, byAdmin>>

SessionRec == [expires : Nat, admin : BOOLEAN]

TypeOK ==
    /\ clock \in 0..MaxTime
    /\ ttl \in TTLs
    /\ admins \subseteq Token
    /\ DOMAIN sessions \subseteq Token
    /\ \A t \in DOMAIN sessions : sessions[t] \in SessionRec
    /\ pc \in [Process -> {"idle", "look", "found", "standing", "lifetime",
                           "now", "extend", "drop", "delete", "insert", "sweep", "done"}]
    /\ now \in [Process -> 0..MaxTime]
    /\ span \in [Process -> TTLs]
    /\ cookies \in [Request -> SUBSET Token]
    /\ target \in [Revoke -> Token]
    /\ todo \in [Request -> SUBSET Token]
    /\ found \in [Request -> SUBSET Token]
    /\ asAdmin \subseteq Token \cup Revoke
    /\ used \in [Token -> 0..MaxTime]
    /\ ended \subseteq Token
    /\ byAdmin \subseteq Revoke

Init ==
    /\ clock = 0
    /\ ttl \in TTLs
    /\ admins \in SUBSET Token
    /\ sessions = [t \in {} |-> 0]
    /\ pc = [p \in Process |-> "idle"]
    /\ now = [p \in Process |-> 0]
    /\ span = [p \in Process |-> ttl]
    /\ cookies \in [Request -> SUBSET Token \ {{}}]
    /\ target \in [Revoke -> Token]
    /\ todo = [r \in Request |-> {}]
    /\ found = [r \in Request |-> {}]
    /\ asAdmin = {}
    /\ used = [t \in Token |-> 0]
    /\ ended = {}
    /\ byAdmin = {}

Goto(p, l) == pc' = [pc EXCEPT ![p] = l]
ReadClock(p) == now' = [now EXCEPT ![p] = clock]

\* The processes in the middle of what began with a clock reading.
Holding ==
    {p \in Process : pc[p] \in {"look", "standing", "lifetime", "now", "extend",
                                 "insert", "sweep"}}

\* Variants named "...Bug" are plausible slips of the definition that follows
\* them; nothing uses them but the mutation checks.
ExpiredBug(s, t) == t + 1 >= s.expires
ExpiredNeverBug(s, t) == FALSE
Expired(s, t) == t > s.expires

Remove(S) ==
    /\ sessions' = Restrict(sessions, DOMAIN sessions \ S)
    /\ ended' = ended \cup (S \cap DOMAIN sessions)

-----------------------------------------------------------------------------
\* The surroundings: time, and what the console configures.

Tick ==
    /\ clock < MaxTime
    /\ \A p \in Holding : clock < now[p] + Stall
    /\ clock' = clock + 1
    /\ UNCHANGED <<ttl, admins, sessions, pc, now, span, inputs, todo, found, asAdmin, history>>

SaveLifetime(d) ==
    /\ d # ttl
    /\ ttl' = d
    /\ UNCHANGED <<clock, admins, sessions, pc, now, span, inputs, todo, found, asAdmin,
                   used, ended, byAdmin>>

\* The revoke requests between their arrival and their deletion.
Revoking == {r \in Revoke : pc[r] \in {"look", "found", "delete"}}

SaveAdmins(S) ==
    /\ S # admins
    /\ admins' = S
    /\ byAdmin' = byAdmin \cup {r \in Revoking : cookies[r] \cap S # {}}
    /\ UNCHANGED <<clock, ttl, sessions, pc, now, span, inputs, todo, found, asAdmin,
                   used, ended>>

-----------------------------------------------------------------------------
\* newSession, at the end of a sign-in: the clock, the address's standing and
\* the lifetime are read one after the other, then the table is locked.

StartSession(t) ==
    /\ t \in Token /\ pc[t] = "idle"
    /\ ReadClock(t)
    /\ Goto(t, "standing")
    /\ UNCHANGED <<clock, ttl, admins, sessions, span, inputs, todo, found,
                   asAdmin, history>>

ReadStanding(t) ==
    /\ t \in Token /\ pc[t] = "standing"
    /\ asAdmin' = IF t \in admins THEN asAdmin \cup {t} ELSE asAdmin
    /\ Goto(t, "lifetime")
    /\ UNCHANGED <<clock, ttl, admins, sessions, now, span, inputs, todo, found,
                   history>>

\* sessionTTL(), read by newSession and by handleRenew.
ReadLifetime(p) ==
    /\ p \in Token \cup Renewal /\ pc[p] = "lifetime"
    /\ span' = [span EXCEPT ![p] = ttl]
    /\ Goto(p, IF p \in Token THEN "insert" ELSE "now")
    /\ UNCHANGED <<clock, ttl, admins, sessions, now, inputs, todo, found,
                   asAdmin, history>>

InsertSession(t) ==
    /\ t \in Token /\ pc[t] = "insert"
    /\ sessions' = [x \in DOMAIN sessions \cup {t} |->
                      IF x = t THEN [expires |-> now[t] + span[t], admin |-> t \in asAdmin]
                      ELSE sessions[x]]
    /\ used' = [used EXCEPT ![t] = clock]
    /\ Goto(t, "done")
    /\ UNCHANGED <<clock, ttl, admins, now, span, inputs, todo, found, asAdmin,
                   ended, byAdmin>>

-----------------------------------------------------------------------------
\* SessionFor: one clock reading, then one locked section per cookie.

Arrive(r) ==
    /\ r \in Visit \cup Renewal \cup Revoke
    /\ pc[r] = "idle"
    /\ ReadClock(r)
    /\ todo' = [todo EXCEPT ![r] = cookies[r]]
    /\ Goto(r, "look")
    /\ byAdmin' = IF r \in Revoke /\ cookies[r] \cap admins # {}
                  THEN byAdmin \cup {r} ELSE byAdmin
    /\ UNCHANGED <<clock, ttl, admins, sessions, span, inputs, found, asAdmin, used,
                   ended>>

Tried(r, t) == todo' = [todo EXCEPT ![r] = @ \ {t}]

LookMiss(r, t) ==
    /\ pc[r] = "look" /\ t \in todo[r]
    /\ t \notin DOMAIN sessions
    /\ Tried(r, t)
    /\ UNCHANGED <<clock, ttl, admins, sessions, pc, now, span, inputs, found, asAdmin, history>>

LookExpired(r, t) ==
    /\ pc[r] = "look" /\ t \in todo[r]
    /\ t \in DOMAIN sessions
    /\ Expired(sessions[t], now[r])
    /\ Remove({t})
    /\ Tried(r, t)
    /\ UNCHANGED <<clock, ttl, admins, pc, now, span, inputs, found, asAdmin, used,
                   byAdmin>>

\* "an active browser is not logged out mid-session": the expiry slides once
\* half of the lifetime is gone.
SlidBug(s, n) == s.expires
Slid(s, n) == IF s.expires < n + (ttl \div 2) THEN n + ttl ELSE s.expires

\* IsAdmin is asked again on every use; the caller gets a copy of the record.
StandingBug(t) == sessions[t].admin
Standing(t) == t \in admins

AfterLook(r) == CASE r \in Visit   -> "done"
                  [] r \in Renewal -> "lifetime"
                  [] r \in Revoke  -> "found"

LookLive(r, t) ==
    /\ pc[r] = "look" /\ t \in todo[r]
    /\ t \in DOMAIN sessions
    /\ ~Expired(sessions[t], now[r])
    /\ sessions' = [sessions EXCEPT ![t] = [expires |-> Slid(sessions[t], now[r]),
                                            admin   |-> Standing(t)]]
    /\ asAdmin' = IF r \in Revoke /\ Standing(t) THEN asAdmin \cup {r} ELSE asAdmin
    /\ found' = [found EXCEPT ![r] = {t}]
    /\ used' = [used EXCEPT ![t] = clock]
    /\ todo' = [todo EXCEPT ![r] = {}]
    /\ Goto(r, AfterLook(r))
    /\ UNCHANGED <<clock, ttl, admins, now, span, inputs, ended, byAdmin>>

\* Every cookie failed: the request is refused.
LookFailed(r) ==
    /\ pc[r] = "look" /\ todo[r] = {}
    /\ Goto(r, "done")
    /\ UNCHANGED <<clock, ttl, admins, sessions, now, span, inputs, todo, found, asAdmin, history>>

-----------------------------------------------------------------------------
\* handleRenew, after SessionFor: the lifetime and the clock are read, then the
\* table is locked and the token looked up again, because it may be gone.

ReadNow(r) ==
    /\ r \in Renewal /\ pc[r] = "now"
    /\ ReadClock(r)
    /\ Goto(r, "extend")
    /\ UNCHANGED <<clock, ttl, admins, sessions, span, inputs, todo, found, asAdmin, history>>

ExtendedBug(r) ==
    [t \in DOMAIN sessions \cup found[r] |->
        IF t \in found[r] THEN [expires |-> now[r] + span[r], admin |-> t \in admins]
        ELSE sessions[t]]
Extended(r) ==
    [t \in DOMAIN sessions |->
        IF t \in found[r] THEN [sessions[t] EXCEPT !.expires = now[r] + span[r]]
        ELSE sessions[t]]

Extend(r) ==
    /\ r \in Renewal /\ pc[r] = "extend"
    /\ sessions' = Extended(r)
    /\ used' = [t \in Token |-> IF t \in found[r] THEN clock ELSE used[t]]
    /\ Goto(r, "done")
    /\ UNCHANGED <<clock, ttl, admins, now, span, inputs, todo, found, asAdmin,
                   ended, byAdmin>>

-----------------------------------------------------------------------------
\* handleLogout deletes every session cookie of the request, one lock each.

StartLogout(r) ==
    /\ r \in Logout /\ pc[r] = "idle"
    /\ todo' = [todo EXCEPT ![r] = cookies[r]]
    /\ Goto(r, "drop")
    /\ UNCHANGED <<clock, ttl, admins, sessions, now, span, inputs, found, asAdmin, history>>

LogoutCookie(r, t) ==
    /\ pc[r] = "drop" /\ t \in todo[r]
    /\ Remove({t})
    /\ Tried(r, t)
    /\ Goto(r, IF todo[r] = {t} THEN "done" ELSE "drop")
    /\ UNCHANGED <<clock, ttl, admins, now, span, inputs, found, asAdmin, used, byAdmin>>

-----------------------------------------------------------------------------
\* requireAdminAPI trusts the copy SessionFor returned, and handleRevokeSession
\* acts later on whatever the table holds by then.

Admitted(r) == r \in asAdmin

RequireAdmin(r) ==
    /\ r \in Revoke /\ pc[r] = "found"
    /\ Goto(r, IF Admitted(r) THEN "delete" ELSE "done")
    /\ UNCHANGED <<clock, ttl, admins, sessions, now, span, inputs, todo, found, asAdmin, history>>

RevokeSession(r) ==
    /\ r \in Revoke /\ pc[r] = "delete"
    /\ Remove({target[r]})
    /\ Goto(r, "done")
    /\ UNCHANGED <<clock, ttl, admins, now, span, inputs, todo, found, asAdmin, used,
                   byAdmin>>

-----------------------------------------------------------------------------
StartSweep ==
    /\ pc[Janitor] = "idle"
    /\ ReadClock(Janitor)
    /\ Goto(Janitor, "sweep")
    /\ UNCHANGED <<clock, ttl, admins, sessions, span, inputs, todo, found, asAdmin, history>>

SweepSessions ==
    /\ pc[Janitor] = "sweep"
    /\ Remove({t \in DOMAIN sessions : Expired(sessions[t], now[Janitor])})
    /\ Goto(Janitor, "idle")
    /\ UNCHANGED <<clock, ttl, admins, now, span, inputs, todo, found, asAdmin, used,
                   byAdmin>>

-----------------------------------------------------------------------------
Step(r) ==
    \/ Arrive(r) \/ LookFailed(r) \/ ReadLifetime(r) \/ ReadNow(r) \/ Extend(r)
    \/ StartLogout(r) \/ RequireAdmin(r) \/ RevokeSession(r)
    \/ \E t \in Token : LookMiss(r, t) \/ LookExpired(r, t) \/ LookLive(r, t)
                          \/ LogoutCookie(r, t)

NewSession(t) ==
    StartSession(t) \/ ReadStanding(t) \/ ReadLifetime(t) \/ InsertSession(t)

Sweep == StartSweep \/ SweepSessions

Next ==
    \/ Tick
    \/ \E d \in TTLs : SaveLifetime(d)
    \/ \E S \in SUBSET Token : SaveAdmins(S)
    \/ \E t \in Token : NewSession(t)
    \/ \E r \in Request : Step(r)
    \/ Sweep

Spec == Init /\ [][Next]_vars

\* The ticker of the janitor never stops before the program does, and time
\* goes on. Requests owe nothing: a browser may go away.
FairSpec == Spec /\ WF_vars(Tick) /\ WF_vars(StartSweep) /\ WF_vars(SweepSessions)

-----------------------------------------------------------------------------
Live(t) == t \in DOMAIN sessions

\* A session that was ended - logged out, revoked, expired or swept - never
\* comes back. A renewal that found it before it ended writes its expiry after,
\* and must not put it back into the table (handleRenew looks again).
EndedStaysEnded == \A t \in ended : ~Live(t)

\* Whoever keeps using a session keeps it: since the last use the session has
\* at least half of the shortest lifetime left, whatever renewals that read the
\* lifetime before the console changed it do to its expiry. Stall is the age a
\* clock reading may have.
ActiveStaysSignedIn ==
    \A t \in Token : Live(t) =>
        \A d \in TTLs : (\A e \in TTLs : d <= e) =>
            sessions[t].expires + Stall >= used[t] + (d \div 2)

\* A session ends for a reason only: it has expired by the clock, or a logout
\* or an admitted revocation that names it is under way.
OnlyEndsForReason ==
    [][\A t \in Token : Live(t) /\ ~Live(t)' =>
          \/ clock > sessions[t].expires
          \/ \E r \in Logout : pc[r] = "drop" /\ t \in cookies[r]
          \/ \E r \in Revoke : pc[r] = "delete" /\ target[r] = t]_vars

\* A revocation passes requireAdminAPI only for a sender that has been an
\* administrator at some moment since the request arrived: an address struck
\* from the list cannot go on with the flag its session was signed in with.
AdminsRevoke == \A r \in Revoke : pc[r] = "delete" => r \in byAdmin

\* The lifetime is "how long without use until signed out": no request is served
\* on a session that has been idle for longer than the longest lifetime
\* configured, however old readings, slides and renewals follow one another. (A
\* renewal and the request after it may each be one Stall behind the clock.)
IdleLimit ==
    [][\A t \in Token : used'[t] # used[t] /\ Live(t) =>
          \E d \in TTLs : clock <= used[t] + d + 2 * Stall]_vars

\* The janitor clears what nobody asks for: a session that has expired leaves
\* the table or is extended by a request that read the clock before it expired.
ExpiredIsCleared ==
    \A t \in Token : (Live(t) /\ clock > sessions[t].expires) ~>
                         (~Live(t) \/ clock <= sessions[t].expires)
=============================================================================
