--------------------------- MODULE MCConsoleSeeds ---------------------------
(* What the command line may seed the instances of Console with.             *)
EXTENDS Console, TLC

CONSTANTS root, other

NobodyYet == {[admins |-> {}, mail |-> FALSE, secret |-> None]}
RootOnly  == {[admins |-> {root}, mail |-> TRUE, secret |-> s] : s \in Secret}
AnySeed   == NobodyYet \cup RootOnly
=============================================================================
