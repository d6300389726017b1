------------------------------- MODULE Guard --------------------------------
(***************************************************************************)
(* Which targets a proxied request may reach: webvpn/guard.go (CheckTarget *)
(* before DNS, CheckDialAddr on the socket about to be connected), the     *)
(* verdicts of the admin-edited site list in store.go, and the pool of     *)
(* upstream connections http.Transport keeps, as serveProxy in proxy.go    *)
(* goes through them.                                                      *)
(*                                                                         *)
(* The site list is consulted one call at a time, each call taking its own *)
(* snapshot, while the console may replace the list between any two. Names *)
(* resolve to what the resolver says at the moment of the dial.            *)
(***************************************************************************)
EXTENDS Naturals, FiniteSets

CONSTANTS
    Host,        \* names a request may ask for
    Addr,        \* addresses
    Literal,     \* [some of Host -> Addr]: the names that are IP literals
    Listed,      \* hosts the command line's -allow and -deny lists let through
    Refused,     \* addresses CheckAddr never lets through
    Policies,    \* the site lists the console may save
    Request,     \* proxied requests
    Exempt,      \* the requests an administrator sends
    NoAddr,      \* no connection
    MaxEdit      \* bound: how often the console saves another list

Modes == {"off", "allowlist", "denylist"}
Policy == [mode : Modes, hosts : SUBSET Host, nets : SUBSET Addr]

\* Validate refuses an empty site list under the allowlist.
ASSUME GuardAssumption ==
    /\ Policies \subseteq Policy
    /\ Policies # {}
    /\ \A p \in Policies : p.mode = "allowlist" => p.hosts \cup p.nets # {}
    /\ DOMAIN Literal \subseteq Host
    /\ \A h \in DOMAIN Literal : Literal[h] \in Addr
    /\ Listed \subseteq Host /\ Refused \subseteq Addr
    /\ Exempt \subseteq Request
    /\ NoAddr \notin Addr
    /\ MaxEdit \in Nat

VARIABLES
    policy,    \* Store.cfg.Access and its parsed rules
    edits,     \* counts saves, up to MaxEdit
    pool,      \* idle upstream connections: {[host, addr]}
    pc,        \* [Request -> the step it runs next]
    host,      \* [Request -> the host it asks for]
    allowed,   \* SiteCheck.Allowed: the requests accepted by name
    answers,   \* [Request -> what the resolver returned and is yet to be tried]
    conn,      \* [Request -> the address it is connected to, or NoAddr]
    fresh,     \* history: requests that dialled the connection they use
    tried,     \* history: [Request -> the addresses the list has refused]
    seen       \* history: [Request -> the lists in force since it arrived]

vars == <<policy, edits, pool, pc, host, allowed, answers, conn, fresh, tried, seen>>
store == <<policy, edits>>

TypeOK ==
    /\ policy \in Policies
    /\ edits \in 0..MaxEdit
    /\ pool \subseteq [host : Host, addr : Addr]
    /\ pc \in [Request -> {"idle", "name", "match", "rules", "connect", "dial", "match2",
                           "send", "done", "refused", "blocked"}]
    /\ host \in [Request -> Host]
    /\ allowed \subseteq Request
    /\ answers \in [Request -> SUBSET Addr]
    /\ conn \in [Request -> Addr \cup {NoAddr}]
    /\ \A r \in Request : conn[r] = NoAddr <=> pc[r] \notin {"match2", "send"}
    /\ fresh \subseteq Request
    /\ tried \in [Request -> SUBSET Addr]
    /\ seen \in [Request -> SUBSET Policies]

Init ==
    /\ policy \in Policies
    /\ edits = 0
    /\ pool = {}
    /\ pc = [r \in Request |-> "idle"]
    /\ host \in [Request -> Host]
    /\ allowed = {}
    /\ answers = [r \in Request |-> {}]
    /\ conn = [r \in Request |-> NoAddr]
    /\ fresh = {}
    /\ tried = [r \in Request |-> {}]
    /\ seen = [r \in Request |-> {}]

Goto(r, l) == pc' = [pc EXCEPT ![r] = l]
Over == {"idle", "done", "refused", "blocked"}

-----------------------------------------------------------------------------
\* store.go, on the list in force at the call.

MatchHost(h) == h \in policy.hosts \/ (h \in DOMAIN Literal /\ Literal[h] \in policy.nets)

Verdict(matched) ==
    CASE policy.mode = "denylist" /\ matched -> "deny"
      [] policy.mode = "allowlist" /\ matched -> "allow"
      [] OTHER -> "neutral"

HostVerdict(h) == Verdict(MatchHost(h))
AddrVerdict(a) == Verdict(a \in policy.nets)

\* Variants named "...Bug" are plausible slips of the definition that follows
\* them; nothing uses them but the mutation checks.
RequiresMatchBug == FALSE
RequiresMatch == policy.mode = "allowlist"
HasAddrRulesBug == policy.nets = {}
HasAddrRules == policy.nets # {}

-----------------------------------------------------------------------------
\* The console saves another site list.
SaveSites(p) ==
    /\ edits < MaxEdit /\ p # policy
    /\ edits' = edits + 1
    /\ policy' = p
    /\ seen' = [r \in Request |-> IF pc[r] \in Over THEN seen[r] ELSE seen[r] \cup {p}]
    /\ UNCHANGED <<pool, pc, host, allowed, answers, conn, fresh, tried>>

-----------------------------------------------------------------------------
\* CheckTarget: the command line's lists, a literal address, then the site list
\* in up to three separate readings.

PassesOperator(h) == h \in Listed /\ (h \in DOMAIN Literal => Literal[h] \notin Refused)

AfterOperator(r) ==
    CASE ~PassesOperator(host[r]) -> "blocked"
      [] PassesOperator(host[r]) /\ r \in Exempt -> "connect"
      [] OTHER -> "name"

Arrive(r) ==
    /\ pc[r] = "idle"
    /\ Goto(r, AfterOperator(r))
    /\ seen' = [seen EXCEPT ![r] = {policy}]
    /\ UNCHANGED <<store, pool, host, allowed, answers, conn, fresh, tried>>

CheckName(r) ==
    /\ pc[r] = "name"
    /\ allowed' = IF HostVerdict(host[r]) = "allow" THEN allowed \cup {r} ELSE allowed
    /\ Goto(r, CASE HostVerdict(host[r]) = "deny"    -> "refused"
                 [] HostVerdict(host[r]) = "allow"   -> "connect"
                 [] HostVerdict(host[r]) = "neutral" -> "match")
    /\ UNCHANGED <<store, pool, host, answers, conn, fresh, tried, seen>>

CheckRequiresMatch(r) ==
    /\ pc[r] = "match"
    /\ Goto(r, IF RequiresMatch THEN "rules" ELSE "connect")
    /\ UNCHANGED <<store, pool, host, allowed, answers, conn, fresh, tried, seen>>

CheckAddrRules(r) ==
    /\ pc[r] = "rules"
    /\ Goto(r, IF HasAddrRules THEN "connect" ELSE "refused")
    /\ UNCHANGED <<store, pool, host, allowed, answers, conn, fresh, tried, seen>>

-----------------------------------------------------------------------------
\* http.Transport: an idle connection to the host is reused, otherwise one is
\* dialled, which tries the resolver's answers one after the other.

ReuseConn(r) ==
    /\ pc[r] = "connect"
    /\ \E c \in pool :
         /\ c.host = host[r]
         /\ pool' = pool \ {c}
         /\ conn' = [conn EXCEPT ![r] = c.addr]
    /\ Goto(r, "send")
    /\ UNCHANGED <<store, host, allowed, answers, fresh, tried, seen>>

Resolve(r, S) ==
    /\ pc[r] = "connect"
    /\ host[r] \in DOMAIN Literal => S = {Literal[host[r]]}
    /\ answers' = [answers EXCEPT ![r] = S]
    /\ Goto(r, "dial")
    /\ UNCHANGED <<store, pool, host, allowed, conn, fresh, tried, seen>>

\* CheckDialAddr, run on every socket before it connects. It reads the verdict
\* and, where that is neutral, asks once more whether a match is required.

PassesBaselineBug(a) == TRUE
PassesBaseline(a) == a \notin Refused

DialVerdict(r, a) == IF r \in Exempt THEN "allow" ELSE AddrVerdict(a)

NextAnswer(r, a) == answers' = [answers EXCEPT ![r] = @ \ {a}]

DialBlocked(r, a) ==
    /\ pc[r] = "dial" /\ a \in answers[r]
    /\ ~PassesBaseline(a)
    /\ NextAnswer(r, a)
    /\ UNCHANGED <<store, pool, pc, host, allowed, conn, fresh, tried, seen>>

DialDenied(r, a) ==
    /\ pc[r] = "dial" /\ a \in answers[r]
    /\ PassesBaseline(a) /\ DialVerdict(r, a) = "deny"
    /\ NextAnswer(r, a)
    /\ tried' = [tried EXCEPT ![r] = @ \cup {a}]
    /\ UNCHANGED <<store, pool, pc, host, allowed, conn, fresh, seen>>

ConnectedBug(r, a) ==
    /\ conn' = conn
    /\ fresh' = fresh \cup {r}
    /\ Goto(r, "send")
Connected(r, a) ==
    /\ conn' = [conn EXCEPT ![r] = a]
    /\ fresh' = fresh \cup {r}
    /\ Goto(r, "send")

DialAllowed(r, a) ==
    /\ pc[r] = "dial" /\ a \in answers[r]
    /\ PassesBaseline(a) /\ DialVerdict(r, a) = "allow"
    /\ Connected(r, a)
    /\ NextAnswer(r, a)
    /\ UNCHANGED <<store, pool, host, allowed, tried, seen>>

DialNeutral(r, a) ==
    /\ pc[r] = "dial" /\ a \in answers[r]
    /\ PassesBaseline(a) /\ DialVerdict(r, a) = "neutral"
    /\ IF r \in allowed
       THEN Connected(r, a)
       ELSE /\ conn' = [conn EXCEPT ![r] = a]
            /\ Goto(r, "match2")
            /\ UNCHANGED fresh
    /\ NextAnswer(r, a)
    /\ UNCHANGED <<store, pool, host, allowed, tried, seen>>

DialMatch(r) ==
    /\ pc[r] = "match2"
    /\ IF RequiresMatch
       THEN /\ Goto(r, "dial")
            /\ tried' = [tried EXCEPT ![r] = @ \cup {conn[r]}]
            /\ conn' = [conn EXCEPT ![r] = NoAddr]
            /\ UNCHANGED fresh
       ELSE /\ Connected(r, conn[r])
            /\ UNCHANGED tried
    /\ UNCHANGED <<store, pool, host, allowed, answers, seen>>

\* The peer does not answer: the dialer goes on to the next address.
DialTimesOut(r, a) ==
    /\ pc[r] = "dial" /\ a \in answers[r]
    /\ PassesBaseline(a) /\ DialVerdict(r, a) # "deny"
    /\ NextAnswer(r, a)
    /\ UNCHANGED <<store, pool, pc, host, allowed, conn, fresh, tried, seen>>

DialFailed(r) ==
    /\ pc[r] = "dial" /\ answers[r] = {}
    /\ Goto(r, "done")
    /\ UNCHANGED <<store, pool, host, allowed, answers, conn, fresh, tried, seen>>

\* The response has been read: the connection is kept, or closed by the peer.
Finish(r, keep) ==
    /\ pc[r] = "send"
    /\ pool' = IF keep THEN pool \cup {[host |-> host[r], addr |-> conn[r]]} ELSE pool
    /\ conn' = [conn EXCEPT ![r] = NoAddr]
    /\ Goto(r, "done")
    /\ UNCHANGED <<store, host, allowed, answers, fresh, tried, seen>>

\* IdleConnTimeout, or the peer hangs up.
DropIdle(c) ==
    /\ pool' = pool \ {c}
    /\ UNCHANGED <<store, pc, host, allowed, answers, conn, fresh, tried, seen>>

Check(r) == Arrive(r) \/ CheckName(r) \/ CheckRequiresMatch(r) \/ CheckAddrRules(r)

Dial(r) ==
    \/ ReuseConn(r)
    \/ \E S \in SUBSET Addr : Resolve(r, S)
    \/ \E a \in Addr : DialBlocked(r, a) \/ DialDenied(r, a) \/ DialAllowed(r, a)
                         \/ DialNeutral(r, a) \/ DialTimesOut(r, a)
    \/ DialMatch(r)
    \/ DialFailed(r)

Next ==
    \/ \E p \in Policies : SaveSites(p)
    \/ \E r \in Request : Check(r) \/ Dial(r) \/ \E keep \in BOOLEAN : Finish(r, keep)
    \/ \E c \in pool : DropIdle(c)

Spec == Init /\ [][Next]_vars

-----------------------------------------------------------------------------
\* What a site list permits, stated directly: the reference the two phases are
\* held against. configuration.md: the allowlist passes what matches by name or
\* by network, the denylist what matches by neither.
MatchesName(p, h) == h \in p.hosts \/ (h \in DOMAIN Literal /\ Literal[h] \in p.nets)
Matches(p, h, a) == MatchesName(p, h) \/ a \in p.nets
Permits(p, h, a) ==
    CASE p.mode = "allowlist" -> Matches(p, h, a)
      [] p.mode = "denylist"  -> ~Matches(p, h, a)
      [] p.mode = "off"       -> TRUE

\* However the resolver's answers change between the check of the name and the
\* dial, and whoever asks, no connection leads to an address the operator's
\* baseline refuses, nor to a host outside the command line's lists.
BaselineKept ==
    /\ \A c \in pool : c.addr \notin Refused /\ c.host \in Listed
    /\ \A r \in Request : pc[r] = "send" => conn[r] \notin Refused /\ host[r] \in Listed

\* Whatever is saved between the check of the name, the questions whether a match
\* is required and the check of the address, what a request dials has passed each
\* half of a list in force on the way: one that does not deny its name, one that
\* does not deny its address, and one that does not miss a match of either. Where
\* the list did not change, that is to say that the list permits it.
DialsArePermitted ==
    \A r \in Request \ Exempt : pc[r] = "send" /\ r \in fresh =>
        /\ \E p \in seen[r] : p.mode = "denylist" => ~MatchesName(p, host[r])
        /\ \E p \in seen[r] : p.mode = "denylist" => conn[r] \notin p.nets
        /\ \E p \in seen[r] : p.mode = "allowlist" => Matches(p, host[r], conn[r])

\* A request during which the list did not change is turned away nothing the list
\* permits: a name refused has no address that would do, and an address refused
\* is one the list excludes.
RefusalsAreDue ==
    \A r \in Request : \A p \in seen[r] : seen[r] = {p} =>
        /\ pc[r] = "refused" =>
              \A a \in Addr : (host[r] \in DOMAIN Literal => a = Literal[host[r]])
                                  => ~Permits(p, host[r], a)
        /\ \A a \in tried[r] : ~Permits(p, host[r], a)
=============================================================================
