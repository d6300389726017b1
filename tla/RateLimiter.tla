---------------------------- MODULE RateLimiter ----------------------------
(***************************************************************************)
(* The per-address request budget of internal/auth/manager.go: rateLimited *)
(* and trimHits, called by POST /auth/code, /auth/verify, /setup,          *)
(* /setup/test and the console's test mail, with the janitor's sweep of    *)
(* Manager.ipHits. The clock is read before the lock is taken, so hits are *)
(* recorded out of order and trimmed by readings of different ages; Stall  *)
(* bounds that age.                                                        *)
(***************************************************************************)
EXTENDS Naturals, FiniteSets

CONSTANTS
    Addr,     \* client addresses, as clientIP reports them
    Request,  \* requests that pass through rateLimited
    Window,   \* rateWindow
    Burst,    \* rateBurst
    Stall,    \* bound: clock ticks between a reading and its use
    MaxTime   \* bound: last clock value

ASSUME LimiterAssumption ==
    /\ IsFiniteSet(Request)
    /\ Window \in Nat
    /\ Burst \in Nat \ {0}
    /\ Stall \in Nat
    /\ MaxTime \in Nat

VARIABLES
    clock,     \* the time m.now() reads
    from,      \* [Request -> Addr], the client the request comes from
    pc,        \* [Request -> {"idle", "read", "admitted", "limited"}]
    stamp,     \* [Request -> the clock reading the request took]
    hits,      \* Manager.ipHits: the requests whose hit is still recorded;
               \* a hit is the reading of the request that left it
    sweeping,  \* the janitor holds a clock reading
    sweepAt,   \* that reading
    at         \* history: when the request was really admitted

vars == <<clock, from, pc, stamp, hits, sweeping, sweepAt, at>>

TypeOK ==
    /\ clock \in 0..MaxTime
    /\ from \in [Request -> Addr]
    /\ pc \in [Request -> {"idle", "read", "admitted", "limited"}]
    /\ stamp \in [Request -> 0..MaxTime]
    /\ hits \subseteq Request
    /\ sweeping \in BOOLEAN
    /\ sweepAt \in 0..MaxTime
    /\ at \in [Request -> 0..MaxTime]

Init ==
    /\ clock = 0
    /\ from \in [Request -> Addr]
    /\ pc = [r \in Request |-> "idle"]
    /\ stamp = [r \in Request |-> 0]
    /\ hits = {}
    /\ sweeping = FALSE
    /\ sweepAt = 0
    /\ at = [r \in Request |-> 0]

\* Variants named "...Bug" are plausible slips of the definition that follows
\* them; nothing uses them but the mutation checks.
HitsOfBug(a) == hits
HitsOf(a) == {r \in hits : from[r] = a}

\* trimHits(..., now.Add(-rateWindow)): "h.After(cutoff)" is strict.
Fresh(h, t) == h + Window > t
Trimmed(S, t) == {r \in S : Fresh(stamp[r], t)}

Tick ==
    /\ clock < MaxTime
    /\ \A r \in Request : pc[r] = "read" => clock < stamp[r] + Stall
    /\ sweeping => clock < sweepAt + Stall
    /\ clock' = clock + 1
    /\ UNCHANGED <<from, pc, stamp, hits, sweeping, sweepAt, at>>

\* rateLimited, up to the lock.
ReadClock(r) ==
    /\ pc[r] = "idle"
    /\ stamp' = [stamp EXCEPT ![r] = clock]
    /\ pc' = [pc EXCEPT ![r] = "read"]
    /\ UNCHANGED <<clock, from, hits, sweeping, sweepAt, at>>

OverBudgetBug(S) == Cardinality(S) > Burst
OverBudget(S) == Cardinality(S) >= Burst

\* rateLimited, under the lock: a refused request leaves no hit, and either way
\* the trimmed list is what is stored.
Limit(r) ==
    LET kept == Trimmed(HitsOf(from[r]), stamp[r]) IN
    /\ pc[r] = "read"
    /\ OverBudget(kept)
    /\ hits' = (hits \ HitsOf(from[r])) \cup kept
    /\ pc' = [pc EXCEPT ![r] = "limited"]
    /\ UNCHANGED <<clock, from, stamp, sweeping, sweepAt, at>>

Admit(r) ==
    LET kept == Trimmed(HitsOf(from[r]), stamp[r]) IN
    /\ pc[r] = "read"
    /\ ~OverBudget(kept)
    /\ hits' = (hits \ HitsOf(from[r])) \cup kept \cup {r}
    /\ pc' = [pc EXCEPT ![r] = "admitted"]
    /\ at' = [at EXCEPT ![r] = clock]
    /\ UNCHANGED <<clock, from, stamp, sweeping, sweepAt>>

\* sweep, which trims every address by one reading.
StartSweep ==
    /\ ~sweeping
    /\ sweeping' = TRUE
    /\ sweepAt' = clock
    /\ UNCHANGED <<clock, from, pc, stamp, hits, at>>

SweepHits ==
    /\ sweeping
    /\ sweeping' = FALSE
    /\ hits' = Trimmed(hits, sweepAt)
    /\ UNCHANGED <<clock, from, pc, stamp, sweepAt, at>>

Next ==
    \/ Tick
    \/ \E r \in Request : ReadClock(r) \/ Limit(r) \/ Admit(r)
    \/ StartSweep
    \/ SweepHits

Spec == Init /\ [][Next]_vars

-----------------------------------------------------------------------------
\* Properties

Admitted(a) == {r \in Request : pc[r] = "admitted" /\ from[r] = a}

\* The budget in real time: in any window of rateWindow, less the longest stall
\* between reading the clock and taking the lock, one address has Burst requests
\* admitted at the most, whatever order the hits were recorded and trimmed in.
Recent(a) == {r \in Admitted(a) : at[r] + Window > clock + Stall}
BudgetKept == \A a \in Addr : Cardinality(Recent(a)) <= Burst

\* One client's traffic never uses up another's budget: a refusal means Burst
\* requests of that very address were admitted within the window before it.
NoFalseAlarm ==
    \A r \in Request :
        pc[r] = "limited" =>
            Cardinality({q \in Admitted(from[r]) : stamp[q] + Window > stamp[r]}) >= Burst
=============================================================================
