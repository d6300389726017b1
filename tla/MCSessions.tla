----------------------------- MODULE MCSessions -----------------------------
(* Two small instances of Sessions in one run, told apart by about: requests *)
(* that race for a session of one lifetime, with readings that go stale; and *)
(* the console changing lifetime and administrators, and revoking.           *)
EXTENDS Sessions, TLC

CONSTANTS Longest,   \* the lifetime in the race
          LastEdit   \* the last clock value of the instance with the console

VARIABLE about

\* What each instance leaves out of the other.
Within ==
    /\ UNCHANGED about
    /\ about = "race" => UNCHANGED <<ttl, admins>> /\ \A r \in Revoke : pc'[r] = "idle"
    /\ about = "console" =>
        /\ clock' <= LastEdit
        /\ \A r \in Logout \cup Visit : pc'[r] = "idle"
        /\ clock' # clock => Holding = {}

scope == <<vars, about>>
ScopedInit ==
    /\ Init
    /\ about \in {"race", "console"}
    /\ about = "race" => ttl = Longest /\ admins = {}
ScopedSpec ==
    /\ ScopedInit /\ [][Next /\ Within]_scope
    /\ WF_scope(Tick /\ Within)
    /\ WF_scope(StartSweep /\ Within) /\ WF_scope(SweepSessions /\ Within)
=============================================================================
