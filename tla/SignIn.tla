------------------------------- MODULE SignIn -------------------------------
(***************************************************************************)
(* Signing in: POST /auth/code and POST /auth/verify of                    *)
(* internal/auth/manager.go, the janitor's sweep of expired codes, and the *)
(* configuration edits that run beside them.                               *)
(*                                                                         *)
(* Every request is a goroutine. Manager.mu is held only over the sections *)
(* the code locks, so one action is one such section, or one reading of    *)
(* the clock or of the store between two sections. A handler keeps the     *)
(* clock reading it took before it locked: "now" is that reading, and      *)
(* Stall bounds how old it may get before the handler's next step.         *)
(*                                                                         *)
(* A request that sameOrigin, decodeBody, rateLimited or NormalizeEmail    *)
(* turns away touches none of this state and is not a step; the hit that   *)
(* rateLimited records is the state of module RateLimiter.                 *)
(***************************************************************************)
EXTENDS Naturals, FiniteSets, Functions

CONSTANTS
    Email,          \* normalised addresses
    Code,           \* what newCode can return
    CodeRequest,    \* POST /auth/code requests; each issues one code at most
    VerifyRequest,  \* POST /auth/verify requests; each makes one session at most
    Janitor,        \* the goroutine that sweeps once a minute
    CodeTTL,        \* Options.CodeTTL
    ResendInterval, \* Options.ResendInterval
    MaxAttempts,    \* Options.MaxAttempts
    Stall,          \* bound: clock ticks between a reading and its use
    MaxTime         \* bound: last clock value

Request == CodeRequest \cup VerifyRequest
Process == Request \cup {Janitor}

ASSUME ProcessAssumption ==
    /\ CodeRequest \cap VerifyRequest = {}
    /\ Janitor \notin Request
ASSUME LimitAssumption ==
    /\ CodeTTL \in Nat
    /\ ResendInterval \in Nat
    /\ MaxAttempts \in Nat \ {0}
    /\ Stall \in Nat
    /\ MaxTime \in Nat

VARIABLES
    clock,      \* the time m.now() reads
    standing,   \* [Email -> what the stored configuration says of the address]
    codes,      \* Manager.codes, the pending code of an address
    sessions,   \* Manager.sessions, by the request that created the session
    setupOpen,  \* Manager.setupOpen
    pc,         \* [Process -> the section the goroutine runs next]
    email,      \* [Request -> the address in the request's body]
    guess,      \* [VerifyRequest -> the code in the request's body]
    now,        \* [Process -> the goroutine's last clock reading]
    admin,      \* [VerifyRequest -> Session.Admin of the session being made]
    redeemed,   \* history: <<c, v>> when v spent the code c issued
    tries,      \* history: comparisons made against the code c issued
    vouched     \* history: requests whose address the configuration has
                \* allowed at some instant since they spent their code

config  == <<standing>>
tables  == <<codes, sessions, setupOpen>>
history == <<redeemed, tries, vouched>>
inputs  == <<email, guess>>
vars    == <<clock, standing, codes, sessions, setupOpen, pc, email, guess,
             now, admin, redeemed, tries, vouched>>

-----------------------------------------------------------------------------
\* The store, reduced to what it says of one address: store.Allowed is
\* "in AllowedUsers or in Admins", store.IsAdmin is "in Admins".
Standing == {"stranger", "user", "admin"}
Allowed(e) == standing[e] # "stranger"
IsAdmin(e) == standing[e] = "admin"

\* codeState; "by" names the request that issued it.
CodeState == [by : CodeRequest, code : Code, expires : Nat, sentAt : Nat,
              attempts : Nat]

Session == [by : VerifyRequest, email : Email, admin : BOOLEAN]

Pending(e) == e \in DOMAIN codes
PutCode(e, c) ==
    codes' = [x \in DOMAIN codes \cup {e} |-> IF x = e THEN c ELSE codes[x]]
DropCodes(S) == codes' = Restrict(codes, DOMAIN codes \ S)

\* Variants named "...Bug" are plausible slips of the definition that follows
\* them; nothing uses them but the mutation checks.
ExpiredBug(c, t) == FALSE
ExpiredEarlyBug(c, t) == t >= c.expires
Expired(c, t) == t > c.expires
ExhaustedBug(c) == c.attempts > MaxAttempts
Exhausted(c) == c.attempts >= MaxAttempts
SentRecently(c, t) == t < c.sentAt + ResendInterval

\* The goroutines that hold a clock reading they have yet to use.
Holding == {p \in Process : pc[p] \in {"check", "allowed", "store", "match", "sweep"}}

TypeOK ==
    /\ clock \in 0..MaxTime
    /\ standing \in [Email -> Standing]
    /\ DOMAIN codes \subseteq Email
    /\ \A e \in DOMAIN codes : codes[e] \in CodeState
    /\ sessions \subseteq Session
    /\ setupOpen \in BOOLEAN
    /\ pc \in [Process -> {"idle", "check", "allowed", "store", "match",
                           "permit", "new", "insert", "close", "sweep",
                           "done", "issued"}]
    /\ email \in [Request -> Email]
    /\ guess \in [VerifyRequest -> Code]
    /\ now \in [Process -> 0..MaxTime]
    /\ admin \in [VerifyRequest -> BOOLEAN]
    /\ redeemed \subseteq CodeRequest \X VerifyRequest
    /\ tries \in [CodeRequest -> Nat]
    /\ vouched \subseteq VerifyRequest

\* New: the setup link is open only if a token was given and nobody is admin.
Init ==
    /\ clock = 0
    /\ standing \in [Email -> Standing]
    /\ codes = [e \in {} |-> 0]
    /\ sessions = {}
    /\ setupOpen \in BOOLEAN
    /\ setupOpen => \A e \in Email : ~IsAdmin(e)
    /\ pc = [p \in Process |-> "idle"]
    /\ email \in [Request -> Email]
    /\ guess \in [VerifyRequest -> Code]
    /\ now = [p \in Process |-> 0]
    /\ admin = [v \in VerifyRequest |-> FALSE]
    /\ redeemed = {}
    /\ tries = [c \in CodeRequest |-> 0]
    /\ vouched = {}

Goto(p, l) == pc' = [pc EXCEPT ![p] = l]
ReadClock(p) == now' = [now EXCEPT ![p] = clock]

-----------------------------------------------------------------------------
\* The surroundings: time passes, and an administrator saves a configuration.

Tick ==
    /\ clock < MaxTime
    /\ \A p \in Holding : clock < now[p] + Stall
    /\ clock' = clock + 1
    /\ UNCHANGED <<config, tables, inputs, history, pc, now, admin>>

\* The verify requests that have spent their code and not yet answered.
PastRedeem == {v \in VerifyRequest : pc[v] \in {"permit", "new", "insert"}}

SaveConfig(e, s) ==
    /\ s # standing[e]
    /\ standing' = [standing EXCEPT ![e] = s]
    /\ vouched' = IF s = "stranger" THEN vouched
                  ELSE vouched \cup {v \in PastRedeem : email[v] = e}
    /\ UNCHANGED <<clock, tables, inputs, pc, now, admin, redeemed, tries>>

-----------------------------------------------------------------------------
\* handleRequestCode. The throttle is looked up in one locked section and the
\* new code stored in another; the allowlist is read between the two.

RequestCode(c) ==
    /\ pc[c] = "idle"
    /\ ReadClock(c)
    /\ Goto(c, "check")
    /\ UNCHANGED <<clock, config, tables, inputs, history, admin>>

Throttled(c) == Pending(email[c]) /\ SentRecently(codes[email[c]], now[c])

CheckThrottle(c) ==
    /\ pc[c] = "check"
    /\ Goto(c, IF Throttled(c) THEN "done" ELSE "allowed")
    /\ UNCHANGED <<clock, config, tables, inputs, history, now, admin>>

CheckAllowed(c) ==
    /\ pc[c] = "allowed"
    /\ Goto(c, IF Allowed(email[c]) THEN "store" ELSE "done")
    /\ UNCHANGED <<clock, config, tables, inputs, history, now, admin>>

NewCodeState(c, code) ==
    [by |-> c, code |-> code, expires |-> now[c] + CodeTTL,
     sentAt |-> now[c], attempts |-> 0]

StoreCodeBug(c) ==
    /\ pc[c] = "store"
    /\ IF Pending(email[c])
       THEN PutCode(email[c], [codes[email[c]] EXCEPT !.attempts = 0])
       ELSE \E code \in Code : PutCode(email[c], NewCodeState(c, code))
    /\ Goto(c, "issued")
    /\ UNCHANGED <<clock, config, sessions, setupOpen, inputs, history, now, admin>>

\* newCode draws any code; the code is then mailed, which touches no state here.
StoreCode(c) ==
    /\ pc[c] = "store"
    /\ \E code \in Code : PutCode(email[c], NewCodeState(c, code))
    /\ Goto(c, "issued")
    /\ UNCHANGED <<clock, config, sessions, setupOpen, inputs, history, now, admin>>

-----------------------------------------------------------------------------
\* handleVerify. Looking the code up, counting the attempt and spending the
\* code are one locked section; the allowlist is read again afterwards.

Verify(v) ==
    /\ pc[v] = "idle"
    /\ ReadClock(v)
    /\ Goto(v, "match")
    /\ UNCHANGED <<clock, config, tables, inputs, history, admin>>

\* No code, an old one or an exhausted one: whatever is there is deleted.
RefuseCode(v) ==
    /\ pc[v] = "match"
    /\ Pending(email[v]) =>
          \/ Expired(codes[email[v]], now[v])
          \/ Exhausted(codes[email[v]])
    /\ DropCodes({email[v]})
    /\ Goto(v, "done")
    /\ UNCHANGED <<clock, config, sessions, setupOpen, inputs, history, now, admin>>

Comparable(v) ==
    /\ pc[v] = "match"
    /\ Pending(email[v])
    /\ ~Expired(codes[email[v]], now[v])
    /\ ~Exhausted(codes[email[v]])

Attempted(c) == [c EXCEPT !.attempts = @ + 1]
CountTry(c) == tries' = [tries EXCEPT ![c] = @ + 1]

WrongCode(v) ==
    LET c == codes[email[v]] IN
    /\ Comparable(v)
    /\ c.code # guess[v]
    /\ PutCode(email[v], Attempted(c))
    /\ CountTry(c.by)
    /\ Goto(v, "done")
    /\ UNCHANGED <<clock, config, sessions, setupOpen, inputs, now, admin,
                   redeemed, vouched>>

SpendCode(v) == DropCodes({email[v]})

RightCode(v) ==
    LET c == codes[email[v]] IN
    /\ Comparable(v)
    /\ c.code = guess[v]
    /\ SpendCode(v)
    /\ CountTry(c.by)
    /\ redeemed' = redeemed \cup {<<c.by, v>>}
    /\ vouched' = IF Allowed(email[v]) THEN vouched \cup {v} ELSE vouched
    /\ Goto(v, "permit")
    /\ UNCHANGED <<clock, config, sessions, setupOpen, inputs, now, admin>>

PermitBug(v) ==
    /\ pc[v] = "permit"
    /\ Goto(v, "new")
    /\ UNCHANGED <<clock, config, tables, inputs, history, now, admin>>

\* "The allowlist may have changed while the code was in flight."
Permit(v) ==
    /\ pc[v] = "permit"
    /\ Goto(v, IF Allowed(email[v]) THEN "new" ELSE "done")
    /\ UNCHANGED <<clock, config, tables, inputs, history, now, admin>>

\* newSession: IsAdmin is read first, the table is locked afterwards.
NewSession(v) ==
    /\ pc[v] = "new"
    /\ admin' = [admin EXCEPT ![v] = IsAdmin(email[v])]
    /\ Goto(v, "insert")
    /\ UNCHANGED <<clock, config, tables, inputs, history, now>>

InsertSession(v) ==
    /\ pc[v] = "insert"
    /\ sessions' = sessions \cup {[by |-> v, email |-> email[v], admin |-> admin[v]]}
    /\ Goto(v, IF admin[v] THEN "close" ELSE "done")
    /\ UNCHANGED <<clock, config, codes, setupOpen, inputs, history, now, admin>>

\* closeSetup
CloseSetup(v) ==
    /\ pc[v] = "close"
    /\ setupOpen' = FALSE
    /\ Goto(v, "done")
    /\ UNCHANGED <<clock, config, codes, sessions, inputs, history, now, admin>>

-----------------------------------------------------------------------------
\* sweep, once a minute: the clock is read before the lock is taken.

StartSweep ==
    /\ pc[Janitor] = "idle"
    /\ ReadClock(Janitor)
    /\ Goto(Janitor, "sweep")
    /\ UNCHANGED <<clock, config, tables, inputs, history, admin>>

SweepCodes ==
    /\ pc[Janitor] = "sweep"
    /\ DropCodes({e \in DOMAIN codes : Expired(codes[e], now[Janitor])})
    /\ Goto(Janitor, "idle")
    /\ UNCHANGED <<clock, config, sessions, setupOpen, inputs, history, now, admin>>

-----------------------------------------------------------------------------
HandleCode(c) ==
    RequestCode(c) \/ CheckThrottle(c) \/ CheckAllowed(c) \/ StoreCode(c)

HandleVerify(v) ==
    \/ Verify(v) \/ RefuseCode(v) \/ WrongCode(v) \/ RightCode(v)
    \/ Permit(v) \/ NewSession(v) \/ InsertSession(v) \/ CloseSetup(v)

Next ==
    \/ Tick
    \/ \E e \in Email, s \in Standing : SaveConfig(e, s)
    \/ \E c \in CodeRequest : HandleCode(c)
    \/ \E v \in VerifyRequest : HandleVerify(v)
    \/ StartSweep
    \/ SweepCodes

Spec == Init /\ [][Next]_vars
-----------------------------------------------------------------------------
\* Properties

\* A code stands MaxAttempts comparisons, the successful one included, however
\* many verify requests race for it (handleVerify counts under the lock).
AttemptsBounded == \A c \in CodeRequest : tries[c] <= MaxAttempts

\* No code signs two requests in: two verify requests that carry the same right
\* code cannot both spend it (delete and unlock are one section).
RedeemedOnce ==
    \A p, q \in redeemed : p[1] = q[1] => p = q

\* Every session in the table was made by a request that spent a code issued to
\* the session's own address, and the configuration allowed that address at
\* some instant after the code was spent: a code in flight does not outlive the
\* removal of its owner from the allowlist.
SessionsEarned ==
    \A s \in sessions :
        /\ s.by \in vouched
        /\ \E c \in CodeRequest : <<c, s.by>> \in redeemed /\ email[c] = s.email

\* A code is spent within CodeTTL of the request that issued it, give or take
\* the age of the verify request's clock reading.
SpentInTime ==
    [][\A p \in redeemed' \ redeemed : clock <= now[p[1]] + CodeTTL + Stall]_vars

\* A pending code disappears only when it has really expired, is exhausted, or is
\* being spent: neither the janitor nor a refused request, both of which work
\* from old clock readings, ever deletes a code the user could still enter.
NoEarlyLoss ==
    [][\A e \in DOMAIN codes \ DOMAIN codes' :
          \/ clock > codes[e].expires
          \/ codes[e].attempts >= MaxAttempts
          \/ \E p \in redeemed' \ redeemed : p[1] = codes[e].by]_vars

\* The refinement mapping: what a code request issued is live while the table
\* holds it.
Issued(c) == pc[c] = "issued"
HeldBy(c) == \E e \in DOMAIN codes : codes[e].by = c
StatusOf(c) ==
    IF \E v \in VerifyRequest : <<c, v>> \in redeemed THEN "redeemed"
    ELSE IF HeldBy(c) THEN "live"
    ELSE IF Issued(c) THEN "void"
    ELSE "unissued"

Promise == INSTANCE OneTimeCode WITH
    Issue     <- CodeRequest,
    addressee <- [c \in CodeRequest |-> email[c]],
    status    <- [c \in CodeRequest |-> StatusOf(c)],
    tries     <- tries

\* The table of pending codes, with its races, keeps the abstract promise.
KeepsPromise == Promise!Spec
=============================================================================
