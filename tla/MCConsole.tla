----------------------------- MODULE MCConsole ------------------------------
(* Small instances of Console. The passing run joins two of them, told apart *)
(* by about: the first run without an administrator, and an edit of a seeded *)
(* configuration. Sessions end in the second one, but never between the two  *)
(* calls of SessionFor that an edit makes: that is the other runs' question. *)
EXTENDS MCConsoleSeeds

VARIABLE about

Within ==
    /\ UNCHANGED about
    /\ mem' \in Seeds /\ state = "down" /\ disk = NoFile =>
            mem' \in IF about = "first" THEN NobodyYet ELSE RootOnly
    /\ ~(live \subseteq live') /\ state' = "up" =>
            about = "edit" /\ \A e \in Edit : pc[e] # "self"
    /\ about = "edit" =>
        /\ \A s \in Setup : pc'[s] # "read"
        /\ Cardinality({v \in SignIn : pc'[v] # "idle"}) < 2

ScopedInit == Init /\ about \in {"first", "edit"}
ScopedSpec == ScopedInit /\ [][Next /\ Within]_<<vars, about>>
=============================================================================
