---------------------------- MODULE OneTimeCode ----------------------------
(***************************************************************************)
(* What the sign-in promises about verification codes, with no clock, no   *)
(* lock and no requests: an issued code is live until it is redeemed or    *)
(* becomes void, it stands MaxAttempts comparisons at the most, a newer    *)
(* code for the same address voids it, and only a live code is redeemed.   *)
(* SignIn implements this module (SignIn!Promise).                         *)
(***************************************************************************)
EXTENDS Naturals

CONSTANTS
    Issue,       \* every code that may ever be issued
    MaxAttempts  \* comparisons one code stands

VARIABLES
    addressee,   \* [Issue -> address], fixed from the start
    status,      \* [Issue -> {"unissued", "live", "redeemed", "void"}]
    tries        \* [Issue -> Nat], comparisons made against the code

vars == <<addressee, status, tries>>

Live == {i \in Issue : status[i] = "live"}

Init ==
    /\ status = [i \in Issue |-> "unissued"]
    /\ tries = [i \in Issue |-> 0]

\* A new code voids the live one of the same address.
IssueCode(i) ==
    /\ status[i] = "unissued"
    /\ status' = [j \in Issue |->
                    IF j = i THEN "live"
                    ELSE IF j \in Live /\ addressee[j] = addressee[i] THEN "void"
                    ELSE status[j]]
    /\ UNCHANGED <<addressee, tries>>

\* A comparison that fails.
Miss(i) ==
    /\ i \in Live
    /\ tries[i] < MaxAttempts
    /\ tries' = [tries EXCEPT ![i] = @ + 1]
    /\ UNCHANGED <<addressee, status>>

\* A comparison that succeeds: the code is spent.
Redeem(i) ==
    /\ i \in Live
    /\ tries[i] < MaxAttempts
    /\ tries' = [tries EXCEPT ![i] = @ + 1]
    /\ status' = [status EXCEPT ![i] = "redeemed"]
    /\ UNCHANGED addressee

\* Codes lapse: by age, or because their attempts are used up.
Lapse(S) ==
    /\ S \subseteq Live
    /\ status' = [i \in Issue |-> IF i \in S THEN "void" ELSE status[i]]
    /\ UNCHANGED <<addressee, tries>>

Next ==
    \/ \E i \in Issue : IssueCode(i) \/ Miss(i) \/ Redeem(i)
    \/ \E S \in SUBSET Issue : Lapse(S)

Spec == Init /\ [][Next]_vars
=============================================================================
