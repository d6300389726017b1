----------------------------- MODULE MCBrowser ------------------------------
(* The two tables the gateway keeps per session, the jars and the trails,    *)
(* each with room for one session fewer than there are. They share nothing,  *)
(* so that a behaviour moves one of them and leaves the other as it began.   *)
EXTENDS Cookies, Pages, TLC

VARIABLE about

Symmetry == Permutations(Request) \cup Permutations(Domain)

BrowserVars == <<vars, pagesVars, about>>
BrowserInit == Init /\ PagesInit /\ about \in {"cookies", "pages"}
CookieStep == about = "cookies" /\ Next /\ UNCHANGED <<pagesVars, about>>
PageStep == about = "pages" /\ PagesNext /\ UNCHANGED <<vars, about>>
BrowserNext == CookieStep \/ PageStep
BrowserSpec == BrowserInit /\ [][BrowserNext]_BrowserVars
=============================================================================
