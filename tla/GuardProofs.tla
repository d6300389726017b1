---------------------------- MODULE GuardProofs -----------------------------
(***************************************************************************)
(* That the checks of a target add up, for any hosts, addresses, site      *)
(* lists, requests and administrators: the operator's baseline holds for   *)
(* every connection, and the two phases of the site list (the name before  *)
(* DNS, the address at the dial) together decide exactly as a list that    *)
(* did not change under the request reads. Where it did change, what is    *)
(* dialled has passed each half of some list met on the way: Met says      *)
(* which halves the step a request has reached has established.            *)
(*                                                                         *)
(* Neither phase sees the whole list, so neither verdict can be carried by *)
(* the state alone: Knows says, of a request that has met no list but p,   *)
(* what the step it has reached has established about p. A request under   *)
(* way has met the list in force, so that list is p.                       *)
(***************************************************************************)
EXTENDS Guard, TLAPS

Checking == {"name", "match", "rules"}
Dialling == {"connect", "dial", "match2", "send"}

\* Idle connections passed the checks of the request that made them.
PoolOK == \A c \in pool : c.addr \notin Refused /\ c.host \in Listed

\* What the operator's checks, SiteCheck.Allowed and the history variables hold
\* in each step: the command line's lists are passed before anything else, and a
\* connection being made has passed the baseline.
Progress(r) ==
    /\ pc[r] \notin {"idle", "blocked"} => host[r] \in Listed
    /\ pc[r] \in {"match2", "send"} => conn[r] \notin Refused
    /\ pc[r] = "idle" => seen[r] = {}
    /\ pc[r] \in {"idle", "refused", "blocked"} \cup Checking => tried[r] = {}
    /\ pc[r] \in {"idle"} \cup Checking => r \notin allowed
    /\ r \in fresh => pc[r] \in {"send", "done"}
    /\ r \in Exempt => pc[r] \notin {"refused", "match2"} \cup Checking /\ tried[r] = {}

\* What a request that has met the list p only knows of it.
Knows(r, p) ==
    /\ pc[r] = "match" /\ p.mode # "off" => ~MatchesName(p, host[r])
    /\ pc[r] = "rules" => p.mode = "allowlist" /\ ~MatchesName(p, host[r])
    /\ pc[r] \in Dialling =>
         /\ p.mode = "denylist" => ~MatchesName(p, host[r])
         /\ r \in allowed <=> p.mode = "allowlist" /\ MatchesName(p, host[r])
    /\ pc[r] = "match2" => r \notin allowed /\ (p.mode # "off" => conn[r] \notin p.nets)

\* What a request has passed, of one list or another of those it has met: the
\* denial of its name, the denial of an address, a match that is required.
NameMet(r) == \E p \in seen[r] : p.mode = "denylist" => ~MatchesName(p, host[r])
AddrMet(r, a) == \E p \in seen[r] : p.mode = "denylist" => a \notin p.nets
MatchMet(r, a) == \E p \in seen[r] : p.mode = "allowlist" => Matches(p, host[r], a)

\* ... by the step it has reached.
Met(r) ==
    /\ pc[r] \in {"match", "rules"} \cup Dialling => NameMet(r)
    /\ r \in allowed => \A a \in Addr : MatchMet(r, a)
    /\ pc[r] = "match2" => AddrMet(r, conn[r])
    /\ pc[r] = "send" /\ r \in fresh => AddrMet(r, conn[r]) /\ MatchMet(r, conn[r])

\* What the list p has turned away, it excludes.
Excludes(r, p) ==
    /\ pc[r] = "refused" =>
          \A a \in Addr : (host[r] \in DOMAIN Literal => a = Literal[host[r]])
                              => ~Permits(p, host[r], a)
    /\ \A a \in tried[r] : ~Permits(p, host[r], a)

RequestOK(r) ==
    /\ Progress(r)
    /\ pc[r] \notin Over => policy \in seen[r]
    /\ r \notin Exempt => Met(r)
    /\ \A p \in seen[r] : seen[r] = {p} => Excludes(r, p) /\ (r \notin Exempt => Knows(r, p))

IInv == TypeOK /\ PoolOK /\ \A r \in Request : RequestOK(r)

-----------------------------------------------------------------------------
\* The verdicts, spelled out on the list in force.

LEMMA NameVerdict ==
    ASSUME policy \in Policy, NEW h
    PROVE  /\ HostVerdict(h) \in {"deny", "allow", "neutral"}
           /\ HostVerdict(h) = "deny" <=> policy.mode = "denylist" /\ MatchesName(policy, h)
           /\ HostVerdict(h) = "allow" <=> policy.mode = "allowlist" /\ MatchesName(policy, h)
  BY DEF HostVerdict, Verdict, MatchHost, MatchesName, Policy, Modes

LEMMA AddressVerdict ==
    ASSUME policy \in Policy, NEW a
    PROVE  /\ AddrVerdict(a) = "deny" <=> policy.mode = "denylist" /\ a \in policy.nets
           /\ AddrVerdict(a) = "allow" <=> policy.mode = "allowlist" /\ a \in policy.nets
           /\ AddrVerdict(a) = "neutral" /\ policy.mode # "off" => a \notin policy.nets
  BY DEF AddrVerdict, Verdict, Policy, Modes

\* What a list permits, by the two halves of the decision.
LEMMA PermitsMeans ==
    ASSUME NEW p \in Policy, NEW h, NEW a
    PROVE  Permits(p, h, a) <=>
              /\ p.mode = "allowlist" => MatchesName(p, h) \/ a \in p.nets
              /\ p.mode = "denylist" => ~MatchesName(p, h) /\ a \notin p.nets
  BY DEF Permits, Matches, MatchesName, Policy, Modes

-----------------------------------------------------------------------------
\* A step of one request leaves the lists and every other request alone.
Frame(r) ==
    /\ policy' = policy
    /\ \A q \in Request \ {r} :
         /\ pc'[q] = pc[q] /\ host'[q] = host[q] /\ conn'[q] = conn[q]
         /\ tried'[q] = tried[q] /\ seen'[q] = seen[q]
         /\ q \in allowed' <=> q \in allowed
         /\ q \in fresh' <=> q \in fresh

LEMMA FrameOK ==
    ASSUME NEW r \in Request, IInv, Frame(r), TypeOK', PoolOK', RequestOK(r)'
    PROVE  IInv'
  <1>1. ASSUME NEW q \in Request \ {r} PROVE RequestOK(q)'
    <2>1. RequestOK(q)
      BY DEF IInv
    <2>2. Progress(q)'
      BY <2>1 DEF RequestOK, Progress, Frame, Checking
    <2>3. ASSUME NEW p \in seen'[q], seen'[q] = {p} PROVE Excludes(q, p)' /\ (q \notin Exempt => Knows(q, p)')
      <3>1. Excludes(q, p) /\ (q \notin Exempt => Knows(q, p))
        BY <2>1, <2>3 DEF RequestOK, Frame
      <3>2. QED BY <3>1 DEF Excludes, Knows, Frame, Dialling
    <2>4. pc'[q] \notin Over => policy' \in seen'[q]
      BY <2>1 DEF RequestOK, Frame
    <2>5. q \notin Exempt => Met(q)'
      <3>1. q \notin Exempt => Met(q)
        BY <2>1 DEF RequestOK
      <3>2. QED BY <3>1 DEF Met, NameMet, AddrMet, MatchMet, Frame, Dialling
    <2>6. QED BY <2>2, <2>3, <2>4, <2>5 DEF RequestOK
  <1>2. QED BY <1>1 DEF IInv

\* A request under way that has met one list has met the one in force.
LEMMA SeenInForce ==
    ASSUME NEW r \in Request, IInv, pc[r] \notin Over, NEW p, seen[r] = {p}
    PROVE  p = policy /\ p \in Policy /\ Excludes(r, p) /\ (r \notin Exempt => Knows(r, p))
  BY GuardAssumption DEF IInv, RequestOK, TypeOK

LEMMA PolicyTyped == IInv => policy \in Policy
  BY GuardAssumption DEF IInv, TypeOK

-----------------------------------------------------------------------------
LEMMA InitIInv == Init => IInv
  BY GuardAssumption
  DEF Init, IInv, TypeOK, PoolOK, RequestOK, Progress, Met, Over, Checking, Dialling

\* Another list ends what a request knew of the one it had met: it has met two.
LEMMA SaveSitesIInv ==
    ASSUME IInv, NEW new \in Policies, SaveSites(new)
    PROVE  IInv'
  <1>1. TypeOK'
    BY GuardAssumption DEF IInv, SaveSites, TypeOK
  <1>2. PoolOK'
    BY DEF IInv, SaveSites, PoolOK
  <1>3. ASSUME NEW r \in Request PROVE RequestOK(r)'
    <2>1. RequestOK(r)
      BY DEF IInv
    <2>2. /\ pc[r] \in Over => seen'[r] = seen[r]
          /\ pc[r] \notin Over => seen'[r] = seen[r] \cup {new}
      BY DEF SaveSites, IInv, TypeOK
    <2>3. Progress(r)'
      BY <2>1, <2>2 DEF RequestOK, Progress, SaveSites, Over, Checking
    <2>4. pc'[r] \notin Over => policy' \in seen'[r]
      BY <2>2 DEF SaveSites
    <2>5. ASSUME NEW p \in seen'[r], seen'[r] = {p} PROVE pc[r] \in Over
      BY <2>1, <2>2, <2>5 DEF RequestOK, SaveSites
    <2>6. ASSUME NEW p \in seen'[r], seen'[r] = {p}
          PROVE  Excludes(r, p)' /\ (r \notin Exempt => Knows(r, p)')
      <3>1. Excludes(r, p) /\ (r \notin Exempt => Knows(r, p))
        BY <2>1, <2>2, <2>5, <2>6 DEF RequestOK
      <3>2. QED BY <3>1 DEF Excludes, Knows, SaveSites, Dialling
    <2>7. r \notin Exempt => Met(r)'
      <3>1. r \notin Exempt => Met(r)
        BY <2>1 DEF RequestOK
      <3>2. seen[r] \subseteq seen'[r]
        BY <2>2
      <3>3. QED BY <3>1, <3>2 DEF Met, NameMet, AddrMet, MatchMet, SaveSites, Dialling
    <2>8. QED BY <2>3, <2>4, <2>6, <2>7 DEF RequestOK
  <1>4. QED BY <1>1, <1>2, <1>3 DEF IInv

-----------------------------------------------------------------------------
\* CheckTarget.

LEMMA ArriveIInv ==
    ASSUME IInv, NEW r \in Request, Arrive(r)
    PROVE  IInv'
  <1>1. RequestOK(r)
    BY DEF IInv
  <1>2. /\ AfterOperator(r) \in {"blocked", "connect", "name"}
        /\ AfterOperator(r) # "blocked" => host[r] \in Listed
        /\ AfterOperator(r) = "connect" <=> PassesOperator(host[r]) /\ r \in Exempt
        /\ AfterOperator(r) = "name" => r \notin Exempt
    BY DEF AfterOperator, PassesOperator
  <1>3. pc'[r] = AfterOperator(r) /\ seen'[r] = {policy}
    BY DEF Arrive, Goto, IInv, TypeOK
  <1>4. TypeOK'
    BY <1>2 DEF Arrive, Goto, store, IInv, TypeOK
  <1>5. PoolOK' /\ Frame(r)
    BY DEF Arrive, Goto, store, IInv, PoolOK, TypeOK, Frame
  <1>6. Progress(r)'
    BY <1>1, <1>2, <1>3 DEF RequestOK, Progress, Arrive, Checking
  <1>7. ASSUME NEW p \in seen'[r]
        PROVE  Excludes(r, p)' /\ (r \notin Exempt => Knows(r, p)')
    BY <1>1, <1>2, <1>3 DEF RequestOK, Progress, Excludes, Knows, Arrive, Checking, Dialling
  <1>8. r \notin Exempt => Met(r)'
    BY <1>1, <1>2, <1>3 DEF RequestOK, Progress, Met, Arrive, Checking, Dialling
  <1>9. RequestOK(r)'
    BY <1>3, <1>6, <1>7, <1>8 DEF RequestOK, Arrive, store
  <1>10. QED BY <1>4, <1>5, <1>9, FrameOK

LEMMA CheckNameIInv ==
    ASSUME IInv, NEW r \in Request, CheckName(r)
    PROVE  IInv'
  <1>1. RequestOK(r) /\ r \notin Exempt
    BY DEF IInv, RequestOK, Progress, Checking, CheckName
  <1>2. /\ HostVerdict(host[r]) \in {"deny", "allow", "neutral"}
        /\ HostVerdict(host[r]) = "deny"
              <=> policy.mode = "denylist" /\ MatchesName(policy, host[r])
        /\ HostVerdict(host[r]) = "allow"
              <=> policy.mode = "allowlist" /\ MatchesName(policy, host[r])
    BY PolicyTyped, NameVerdict
  <1>3. /\ HostVerdict(host[r]) = "deny" => pc'[r] = "refused" /\ allowed' = allowed
        /\ HostVerdict(host[r]) = "allow" => pc'[r] = "connect" /\ allowed' = allowed \cup {r}
        /\ HostVerdict(host[r]) = "neutral" => pc'[r] = "match" /\ allowed' = allowed
    BY DEF CheckName, Goto, IInv, TypeOK
  <1>4. TypeOK'
    BY <1>2, <1>3 DEF CheckName, Goto, store, IInv, TypeOK
  <1>5. PoolOK' /\ Frame(r)
    BY DEF CheckName, Goto, store, IInv, PoolOK, TypeOK, Frame
  <1>6. Progress(r)'
    BY <1>1, <1>2, <1>3 DEF RequestOK, Progress, CheckName, Checking
  <1>7. ASSUME NEW p, seen[r] = {p}
        PROVE  Excludes(r, p)' /\ Knows(r, p)'
    <2>1. p = policy /\ p \in Policy /\ Excludes(r, p)
      BY <1>7, SeenInForce DEF CheckName, Over
    <2>2. r \notin allowed
      BY <1>1 DEF CheckName, RequestOK, Progress, Checking
    <2>3. Knows(r, p)'
      BY <1>2, <1>3, <2>1, <2>2 DEF Knows, CheckName, Dialling, Policy, Modes
    <2>4. pc'[r] = "refused" => \A a : ~Permits(p, host[r], a)
      BY <1>2, <1>3, <2>1, PermitsMeans
    <2>5. QED BY <2>1, <2>3, <2>4 DEF Excludes, CheckName
  <1>8. Met(r)'
    <2>1. policy \in seen[r] /\ pc[r] = "name" /\ r \notin allowed /\ r \notin fresh
      BY <1>1 DEF CheckName, RequestOK, Progress, Checking, Over
    <2>2. pc'[r] # "refused" => NameMet(r)'
      BY <1>2, <1>3, <2>1 DEF NameMet, CheckName
    <2>3. r \in allowed' => \A a \in Addr : MatchMet(r, a)'
      BY <1>2, <1>3, <2>1 DEF MatchMet, Matches, CheckName
    <2>4. QED BY <1>2, <1>3, <2>1, <2>2, <2>3 DEF Met, CheckName, Dialling
  <1>9. RequestOK(r)'
    BY <1>1, <1>6, <1>7, <1>8 DEF RequestOK, CheckName, Over, store
  <1>10. QED BY <1>4, <1>5, <1>9, FrameOK

LEMMA CheckRequiresMatchIInv ==
    ASSUME IInv, NEW r \in Request, CheckRequiresMatch(r)
    PROVE  IInv'
  <1>1. RequestOK(r) /\ r \notin Exempt
    BY DEF IInv, RequestOK, Progress, Checking, CheckRequiresMatch
  <1>2. pc'[r] = IF policy.mode = "allowlist" THEN "rules" ELSE "connect"
    BY DEF CheckRequiresMatch, RequiresMatch, Goto, IInv, TypeOK
  <1>3. TypeOK'
    BY <1>2 DEF CheckRequiresMatch, Goto, store, IInv, TypeOK
  <1>4. PoolOK' /\ Frame(r)
    BY DEF CheckRequiresMatch, Goto, store, IInv, PoolOK, TypeOK, Frame
  <1>5. Progress(r)'
    BY <1>1, <1>2 DEF RequestOK, Progress, CheckRequiresMatch, Checking
  <1>6. ASSUME NEW p, seen[r] = {p}
        PROVE  Excludes(r, p)' /\ Knows(r, p)'
    <2>1. p = policy /\ p \in Policy /\ Excludes(r, p) /\ Knows(r, p)
      BY <1>1, <1>6, SeenInForce DEF CheckRequiresMatch, Over
    <2>2. r \notin allowed
      BY <1>1 DEF CheckRequiresMatch, RequestOK, Progress, Checking
    <2>3. Knows(r, p)'
      BY <1>2, <2>1, <2>2 DEF Knows, CheckRequiresMatch, Dialling, Policy, Modes
    <2>4. QED BY <1>2, <2>1, <2>3 DEF Excludes, CheckRequiresMatch
  <1>7. Met(r)'
    BY <1>1, <1>2 DEF RequestOK, Progress, Met, NameMet, MatchMet, CheckRequiresMatch, Checking, Dialling
  <1>8. RequestOK(r)'
    BY <1>1, <1>5, <1>6, <1>7 DEF RequestOK, CheckRequiresMatch, Over, store
  <1>9. QED BY <1>3, <1>4, <1>8, FrameOK

LEMMA CheckAddrRulesIInv ==
    ASSUME IInv, NEW r \in Request, CheckAddrRules(r)
    PROVE  IInv'
  <1>1. RequestOK(r) /\ r \notin Exempt
    BY DEF IInv, RequestOK, Progress, Checking, CheckAddrRules
  <1>2. pc'[r] = IF policy.nets # {} THEN "connect" ELSE "refused"
    BY DEF CheckAddrRules, HasAddrRules, Goto, IInv, TypeOK
  <1>3. TypeOK'
    BY <1>2 DEF CheckAddrRules, Goto, store, IInv, TypeOK
  <1>4. PoolOK' /\ Frame(r)
    BY DEF CheckAddrRules, Goto, store, IInv, PoolOK, TypeOK, Frame
  <1>5. Progress(r)'
    BY <1>1, <1>2 DEF RequestOK, Progress, CheckAddrRules, Checking
  <1>6. ASSUME NEW p, seen[r] = {p}
        PROVE  Excludes(r, p)' /\ Knows(r, p)'
    <2>1. p = policy /\ p \in Policy /\ Excludes(r, p) /\ Knows(r, p)
      BY <1>1, <1>6, SeenInForce DEF CheckAddrRules, Over
    <2>2. r \notin allowed
      BY <1>1 DEF CheckAddrRules, RequestOK, Progress, Checking
    <2>3. Knows(r, p)'
      BY <1>2, <2>1, <2>2 DEF Knows, CheckAddrRules, Dialling
    <2>4. pc'[r] = "refused" => \A a : ~Permits(p, host[r], a)
      BY <1>2, <2>1, PermitsMeans DEF Knows, CheckAddrRules
    <2>5. QED BY <2>1, <2>3, <2>4 DEF Excludes, CheckAddrRules
  <1>7. Met(r)'
    BY <1>1, <1>2 DEF RequestOK, Progress, Met, NameMet, MatchMet, CheckAddrRules, Checking, Dialling
  <1>8. RequestOK(r)'
    BY <1>1, <1>5, <1>6, <1>7 DEF RequestOK, CheckAddrRules, Over, store
  <1>9. QED BY <1>3, <1>4, <1>8, FrameOK

-----------------------------------------------------------------------------
\* Connections, from the pool or dialled.

\* A pooled connection answers the baseline by PoolOK; the site list was asked
\* when it was made, so it is not fresh.
LEMMA ReuseConnIInv ==
    ASSUME IInv, NEW r \in Request, ReuseConn(r)
    PROVE  IInv'
  <1>1. PICK c \in pool : /\ c.host = host[r]
                          /\ pool' = pool \ {c}
                          /\ conn' = [conn EXCEPT ![r] = c.addr]
    BY DEF ReuseConn
  <1>2. c.addr \in Addr /\ c.addr # NoAddr /\ c.addr \notin Refused /\ RequestOK(r)
    BY GuardAssumption DEF IInv, TypeOK, PoolOK
  <1>3. TypeOK'
    BY <1>1, <1>2 DEF ReuseConn, Goto, store, IInv, TypeOK
  <1>4. PoolOK' /\ Frame(r)
    BY <1>1 DEF ReuseConn, Goto, store, IInv, PoolOK, TypeOK, Frame
  <1>5. pc[r] = "connect" /\ pc'[r] = "send" /\ conn'[r] = c.addr
    BY <1>1 DEF ReuseConn, Goto, IInv, TypeOK
  <1>6. Progress(r)'
    BY <1>2, <1>5 DEF RequestOK, Progress, ReuseConn, Checking
  <1>7. r \notin fresh
    BY <1>2, <1>5 DEF RequestOK, Progress
  <1>8. ASSUME NEW p, seen[r] = {p}
        PROVE  Excludes(r, p)' /\ (r \notin Exempt => Knows(r, p)')
    <2>1. p = policy /\ Excludes(r, p) /\ (r \notin Exempt => Knows(r, p))
      BY <1>5, <1>8, SeenInForce DEF Over
    <2>2. QED BY <1>5, <1>7, <2>1 DEF Excludes, Knows, ReuseConn, Dialling
  <1>9. r \notin Exempt => Met(r)'
    BY <1>2, <1>5, <1>7 DEF RequestOK, Met, NameMet, MatchMet, ReuseConn, Dialling
  <1>10. RequestOK(r)'
    BY <1>2, <1>5, <1>6, <1>8, <1>9 DEF RequestOK, ReuseConn, Over, store
  <1>11. QED BY <1>3, <1>4, <1>10, FrameOK

LEMMA ResolveIInv ==
    ASSUME IInv, NEW r \in Request, NEW S \in SUBSET Addr, Resolve(r, S)
    PROVE  IInv'
  <1>1. RequestOK(r) /\ pc[r] = "connect" /\ pc'[r] = "dial"
    BY DEF IInv, TypeOK, Resolve, Goto
  <1>2. TypeOK'
    BY DEF Resolve, Goto, store, IInv, TypeOK
  <1>3. PoolOK' /\ Frame(r)
    BY DEF Resolve, Goto, store, IInv, PoolOK, TypeOK, Frame
  <1>4. Progress(r)'
    BY <1>1 DEF RequestOK, Progress, Resolve, Checking
  <1>5. ASSUME NEW p, seen[r] = {p}
        PROVE  Excludes(r, p)' /\ (r \notin Exempt => Knows(r, p)')
    <2>1. Excludes(r, p) /\ (r \notin Exempt => Knows(r, p))
      BY <1>1, <1>5, SeenInForce DEF Over
    <2>2. QED BY <1>1, <2>1 DEF Excludes, Knows, Resolve, Dialling
  <1>6. r \notin Exempt => Met(r)'
    BY <1>1 DEF RequestOK, Met, NameMet, MatchMet, Resolve, Dialling
  <1>7. RequestOK(r)'
    BY <1>1, <1>4, <1>5, <1>6 DEF RequestOK, Resolve, Over, store
  <1>8. QED BY <1>2, <1>3, <1>7, FrameOK

\* An answer that is dropped without asking the site list, or after it let it
\* through, leaves no trace but in answers.
LEMMA SkipIInv ==
    ASSUME IInv, NEW r \in Request, NEW a \in Addr, DialBlocked(r, a) \/ DialTimesOut(r, a)
    PROVE  IInv'
  <1>1. /\ answers' = [answers EXCEPT ![r] = @ \ {a}]
        /\ UNCHANGED <<policy, edits, pool, pc, host, allowed, conn, fresh, tried, seen>>
    BY DEF DialBlocked, DialTimesOut, NextAnswer, store
  <1>2. TypeOK'
    BY <1>1 DEF IInv, TypeOK
  <1>3. PoolOK' /\ Frame(r)
    BY <1>1 DEF IInv, PoolOK, Frame
  <1>4. RequestOK(r)'
    BY <1>1 DEF IInv, RequestOK, Progress, Excludes, Knows, Met, NameMet, AddrMet, MatchMet
  <1>5. QED BY <1>2, <1>3, <1>4, FrameOK

\* Denied addresses are the ones the denylist names.
LEMMA DialDeniedIInv ==
    ASSUME IInv, NEW r \in Request, NEW a \in Addr, DialDenied(r, a)
    PROVE  IInv'
  <1>1. RequestOK(r) /\ pc[r] = "dial" /\ tried' = [tried EXCEPT ![r] = @ \cup {a}]
    BY DEF IInv, DialDenied
  <1>2. r \notin Exempt /\ policy.mode = "denylist" /\ a \in policy.nets
    BY PolicyTyped, AddressVerdict DEF DialDenied, DialVerdict
  <1>3. TypeOK'
    BY <1>1 DEF DialDenied, NextAnswer, store, IInv, TypeOK
  <1>4. PoolOK' /\ Frame(r)
    BY DEF DialDenied, store, IInv, PoolOK, TypeOK, Frame
  <1>5. Progress(r)'
    BY <1>1, <1>2 DEF RequestOK, Progress, DialDenied, Checking
  <1>6. ASSUME NEW p, seen[r] = {p}
        PROVE  Excludes(r, p)' /\ Knows(r, p)'
    <2>1. p = policy /\ p \in Policy /\ Excludes(r, p) /\ Knows(r, p)
      BY <1>1, <1>2, <1>6, SeenInForce DEF Over
    <2>2. ~Permits(p, host[r], a)
      BY <1>2, <2>1, PermitsMeans
    <2>3. tried'[r] = tried[r] \cup {a}
      BY <1>1 DEF IInv, TypeOK
    <2>4. Excludes(r, p)'
      BY <1>1, <2>1, <2>2, <2>3 DEF Excludes, DialDenied
    <2>5. QED BY <1>1, <2>1, <2>4 DEF Knows, DialDenied, Dialling
  <1>7. Met(r)'
    BY <1>1, <1>2 DEF RequestOK, Met, NameMet, MatchMet, DialDenied, Dialling
  <1>8. RequestOK(r)'
    BY <1>1, <1>5, <1>6, <1>7 DEF RequestOK, DialDenied, Over, store
  <1>9. QED BY <1>3, <1>4, <1>8, FrameOK

\* A dial that ends in a connection: what it must have found out before.
LEMMA ConnectedIInv ==
    ASSUME IInv, NEW r \in Request, NEW a \in Addr, Connected(r, a),
           pc[r] \in {"dial", "match2"}, a \notin Refused, TypeOK',
           UNCHANGED <<policy, pool, host, allowed, tried, seen>>,
           r \notin Exempt => AddrMet(r, a) /\ MatchMet(r, a)
    PROVE  IInv'
  <1>1. RequestOK(r) /\ pc'[r] = "send" /\ conn'[r] = a /\ fresh' = fresh \cup {r}
    BY DEF IInv, TypeOK, Connected, Goto
  <1>2. PoolOK' /\ Frame(r)
    BY DEF Connected, Goto, IInv, PoolOK, TypeOK, Frame
  <1>3. Progress(r)'
    BY <1>1 DEF RequestOK, Progress, Checking
  <1>4. ASSUME NEW p, seen[r] = {p}
        PROVE  Excludes(r, p)' /\ (r \notin Exempt => Knows(r, p)')
    <2>1. p = policy /\ Excludes(r, p) /\ (r \notin Exempt => Knows(r, p))
      BY <1>4, SeenInForce DEF Over
    <2>2. QED BY <1>1, <1>4, <2>1 DEF Excludes, Knows, Dialling
  <1>5. r \notin Exempt => Met(r)'
    <2>1. r \notin Exempt => Met(r)
      BY <1>1 DEF RequestOK
    <2>2. QED BY <1>1, <2>1 DEF Met, NameMet, AddrMet, MatchMet, Dialling
  <1>6. RequestOK(r)'
    BY <1>1, <1>3, <1>4, <1>5 DEF RequestOK, Over
  <1>7. QED BY <1>2, <1>6, FrameOK

LEMMA DialAllowedIInv ==
    ASSUME IInv, NEW r \in Request, NEW a \in Addr, DialAllowed(r, a)
    PROVE  IInv'
  <1>1. a \notin Refused /\ a # NoAddr
    BY GuardAssumption DEF DialAllowed, PassesBaseline
  <1>2. r \notin Exempt => policy.mode = "allowlist" /\ a \in policy.nets
    BY PolicyTyped, AddressVerdict DEF DialAllowed, DialVerdict
  <1>3. r \notin Exempt => AddrMet(r, a) /\ MatchMet(r, a)
    BY <1>2 DEF IInv, RequestOK, DialAllowed, Over, AddrMet, MatchMet, Matches
  <1>4. TypeOK'
    BY <1>1 DEF DialAllowed, Connected, NextAnswer, Goto, store, IInv, TypeOK
  <1>5. QED BY <1>1, <1>3, <1>4, ConnectedIInv DEF DialAllowed, store

\* A neutral address of a name that was allowed is let through; otherwise the
\* dialer asks once more whether the list requires a match.
LEMMA DialNeutralIInv ==
    ASSUME IInv, NEW r \in Request, NEW a \in Addr, DialNeutral(r, a)
    PROVE  IInv'
  <1>1. a \notin Refused /\ a # NoAddr
    BY GuardAssumption DEF DialNeutral, PassesBaseline
  <1>2. r \notin Exempt /\ (policy.mode # "off" => a \notin policy.nets)
    BY PolicyTyped, AddressVerdict DEF DialNeutral, DialVerdict
  <1>3. TypeOK'
    BY <1>1 DEF DialNeutral, Connected, NextAnswer, Goto, store, IInv, TypeOK
  <1>4. CASE r \in allowed
    <2>1. r \notin Exempt => AddrMet(r, a) /\ MatchMet(r, a)
      BY <1>2, <1>4 DEF IInv, RequestOK, DialNeutral, Over, AddrMet, Met
    <2>2. QED BY <1>1, <1>3, <1>4, <2>1, ConnectedIInv DEF DialNeutral, store
  <1>5. CASE r \notin allowed
    <2>1. RequestOK(r) /\ pc[r] = "dial" /\ pc'[r] = "match2" /\ conn'[r] = a
      BY <1>5 DEF IInv, TypeOK, DialNeutral, Goto
    <2>2. PoolOK' /\ Frame(r)
      BY <1>5 DEF DialNeutral, Goto, store, IInv, PoolOK, TypeOK, Frame
    <2>3. Progress(r)'
      BY <1>1, <1>2, <1>5, <2>1 DEF RequestOK, Progress, DialNeutral, Checking
    <2>4. ASSUME NEW p, seen[r] = {p}
          PROVE  Excludes(r, p)' /\ Knows(r, p)'
      <3>1. p = policy /\ p \in Policy /\ Excludes(r, p) /\ Knows(r, p)
        BY <1>2, <2>1, <2>4, SeenInForce DEF Over
      <3>2. QED BY <1>2, <1>5, <2>1, <3>1 DEF Excludes, Knows, DialNeutral, Dialling
    <2>5. Met(r)'
      <3>1. AddrMet(r, a)
        BY <1>2, <2>1 DEF RequestOK, Over, AddrMet
      <3>2. QED BY <1>2, <1>5, <2>1, <3>1 DEF RequestOK, Met, NameMet, AddrMet, MatchMet,
                                              DialNeutral, Dialling
    <2>6. RequestOK(r)'
      BY <2>1, <2>3, <2>4, <2>5 DEF RequestOK, DialNeutral, Over, store
    <2>7. QED BY <1>3, <2>2, <2>6, FrameOK
  <1>6. QED BY <1>4, <1>5

\* The second half of the neutral case: under the allowlist nothing has matched,
\* neither the name (or the request would be in allowed) nor the address.
LEMMA DialMatchIInv ==
    ASSUME IInv, NEW r \in Request, DialMatch(r)
    PROVE  IInv'
  <1>1. RequestOK(r) /\ pc[r] = "match2" /\ conn[r] \in Addr /\ r \notin Exempt
    BY DEF IInv, RequestOK, Progress, TypeOK, DialMatch
  <1>2. conn[r] \notin Refused /\ conn[r] # NoAddr
    BY <1>1, GuardAssumption DEF RequestOK, Progress
  <1>3. TypeOK'
    BY <1>1, <1>2 DEF DialMatch, Connected, Goto, store, IInv, TypeOK
  <1>4. ASSUME seen[r] = {policy}, policy.mode = "allowlist"
        PROVE  ~Permits(policy, host[r], conn[r])
    <2>1. Knows(r, policy)
      BY <1>1, <1>4, SeenInForce DEF Over
    <2>2. conn[r] \notin policy.nets /\ ~MatchesName(policy, host[r])
      BY <1>1, <1>4, <2>1 DEF Knows, Dialling
    <2>3. QED BY <1>4, <2>2, PolicyTyped, PermitsMeans
  <1>5. CASE RequiresMatch
    <2>1. /\ pc'[r] = "dial" /\ tried' = [tried EXCEPT ![r] = @ \cup {conn[r]}]
          /\ conn' = [conn EXCEPT ![r] = NoAddr] /\ fresh' = fresh
          /\ policy.mode = "allowlist"
      BY <1>5 DEF DialMatch, RequiresMatch, Goto, IInv, TypeOK
    <2>2. PoolOK' /\ Frame(r)
      BY <1>5, <2>1 DEF DialMatch, Goto, store, IInv, PoolOK, TypeOK, Frame
    <2>3. Progress(r)'
      BY <1>1, <2>1 DEF RequestOK, Progress, DialMatch, Checking
    <2>4. ASSUME NEW p, seen[r] = {p}
          PROVE  Excludes(r, p)' /\ Knows(r, p)'
      <3>1. p = policy /\ p \in Policy /\ Excludes(r, p) /\ Knows(r, p)
        BY <1>1, <2>4, SeenInForce DEF Over
      <3>2. tried'[r] = tried[r] \cup {conn[r]} /\ ~Permits(p, host[r], conn[r])
        BY <1>4, <2>1, <2>4, <3>1 DEF IInv, TypeOK
      <3>3. Excludes(r, p)'
        BY <2>1, <3>1, <3>2 DEF Excludes, DialMatch
      <3>4. QED BY <1>1, <2>1, <3>1, <3>3 DEF Knows, DialMatch, Dialling
    <2>5. Met(r)'
      BY <1>1, <2>1 DEF RequestOK, Progress, Met, NameMet, MatchMet, DialMatch, Dialling
    <2>6. RequestOK(r)'
      BY <1>1, <2>1, <2>3, <2>4, <2>5 DEF RequestOK, DialMatch, Over, store
    <2>7. QED BY <1>3, <2>2, <2>6, FrameOK
  <1>6. CASE ~RequiresMatch
    <2>1. Connected(r, conn[r]) /\ UNCHANGED <<policy, pool, host, allowed, tried, seen>>
      BY <1>6 DEF DialMatch, store
    <2>2. AddrMet(r, conn[r]) /\ MatchMet(r, conn[r])
      BY <1>1, <1>6 DEF RequestOK, Over, Met, MatchMet, RequiresMatch
    <2>3. QED BY <1>1, <1>2, <1>3, <2>1, <2>2, ConnectedIInv
  <1>7. QED BY <1>5, <1>6

LEMMA DialFailedIInv ==
    ASSUME IInv, NEW r \in Request, DialFailed(r)
    PROVE  IInv'
  <1>1. RequestOK(r) /\ pc[r] = "dial" /\ pc'[r] = "done"
    BY DEF IInv, TypeOK, DialFailed, Goto
  <1>2. TypeOK'
    BY DEF DialFailed, Goto, store, IInv, TypeOK
  <1>3. PoolOK' /\ Frame(r)
    BY DEF DialFailed, Goto, store, IInv, PoolOK, TypeOK, Frame
  <1>4. RequestOK(r)'
    BY <1>1 DEF RequestOK, Progress, Excludes, Knows, Met, MatchMet, DialFailed, Over, Checking, Dialling, store
  <1>5. QED BY <1>2, <1>3, <1>4, FrameOK

\* What a request leaves in the pool has passed its checks.
LEMMA FinishIInv ==
    ASSUME IInv, NEW r \in Request, NEW keep \in BOOLEAN, Finish(r, keep)
    PROVE  IInv'
  <1>1. RequestOK(r) /\ pc[r] = "send" /\ pc'[r] = "done"
    BY DEF IInv, TypeOK, Finish, Goto
  <1>2. conn[r] \in Addr /\ host[r] \in Host
    BY <1>1 DEF IInv, TypeOK
  <1>3. conn[r] \notin Refused /\ host[r] \in Listed
    BY <1>1 DEF RequestOK, Progress
  <1>4. TypeOK'
    BY <1>2 DEF Finish, Goto, store, IInv, TypeOK
  <1>5. PoolOK'
    BY <1>3 DEF Finish, IInv, PoolOK
  <1>6. Frame(r)
    BY DEF Finish, Goto, store, IInv, TypeOK, Frame
  <1>7. RequestOK(r)'
    BY <1>1 DEF RequestOK, Progress, Excludes, Knows, Met, MatchMet, Finish, Over, Checking, Dialling, store
  <1>8. QED BY <1>4, <1>5, <1>6, <1>7, FrameOK

LEMMA DropIdleIInv ==
    ASSUME IInv, NEW c \in pool, DropIdle(c)
    PROVE  IInv'
  BY DEF DropIdle, store, IInv, TypeOK, PoolOK, RequestOK, Progress, Excludes, Knows, Met, NameMet, AddrMet, MatchMet

LEMMA StepIInv == IInv /\ [Next]_vars => IInv'
  <1> SUFFICES ASSUME IInv, [Next]_vars PROVE IInv'
    OBVIOUS
  <1>1. CASE \E p \in Policies : SaveSites(p)
    BY <1>1, SaveSitesIInv
  <1>2. CASE \E r \in Request : Check(r)
    BY <1>2, ArriveIInv, CheckNameIInv, CheckRequiresMatchIInv, CheckAddrRulesIInv DEF Check
  <1>3. CASE \E r \in Request : Dial(r)
    BY <1>3, ReuseConnIInv, ResolveIInv, SkipIInv, DialDeniedIInv, DialAllowedIInv,
       DialNeutralIInv, DialMatchIInv, DialFailedIInv DEF Dial
  <1>4. CASE \E r \in Request, keep \in BOOLEAN : Finish(r, keep)
    BY <1>4, FinishIInv
  <1>5. CASE \E c \in pool : DropIdle(c)
    BY <1>5, DropIdleIInv
  <1>6. CASE UNCHANGED vars
    BY <1>6 DEF vars, IInv, TypeOK, PoolOK, RequestOK, Progress, Excludes, Knows, Met, NameMet, AddrMet, MatchMet
  <1>7. QED BY <1>1, <1>2, <1>3, <1>4, <1>5, <1>6 DEF Next

LEMMA Invariance == Spec => []IInv
  BY InitIInv, StepIInv, PTL DEF Spec

-----------------------------------------------------------------------------
\* The state of the guard is well typed; a request holds a connection exactly
\* while it waits for the last verdict or is sent.
THEOREM GuardTyped == Spec => []TypeOK
  <1>1. IInv => TypeOK
    BY DEF IInv
  <1>2. QED BY <1>1, Invariance, PTL

\* However names resolve between the check and the dial, and whoever asks, no
\* connection leads where the operator's own lists and ranges do not let it.
THEOREM BaselineIsKept == Spec => []BaselineKept
  <1>1. IInv => BaselineKept
    BY DEF IInv, PoolOK, RequestOK, Progress, BaselineKept
  <1>2. QED BY <1>1, Invariance, PTL

\* Whatever is saved on the way, what is dialled has passed each half of a list in
\* force: the verdict on the name, the verdict on the address and the two questions
\* whether a match is required add up, where the list did not change, to the list.
THEOREM OnlyPermittedDials == Spec => []DialsArePermitted
  <1>1. IInv => DialsArePermitted
    BY DEF IInv, RequestOK, Met, NameMet, AddrMet, MatchMet, Dialling, DialsArePermitted
  <1>2. QED BY <1>1, Invariance, PTL

\* Where the list did not change, only what it excludes is turned away: a name when no
\* address could save it, an address when the list excludes it.
THEOREM OnlyDueRefusals == Spec => []RefusalsAreDue
  <1>1. IInv => RefusalsAreDue
    BY DEF IInv, RequestOK, Excludes, RefusalsAreDue
  <1>2. QED BY <1>1, Invariance, PTL
=============================================================================
