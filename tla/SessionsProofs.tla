--------------------------- MODULE SessionsProofs ---------------------------
(***************************************************************************)
(* Proofs about Sessions, for any tokens, requests, lifetimes and stalls:  *)
(* what ended stays ended and ends for a reason, whoever is active stays   *)
(* signed in, whoever is idle does not, and only administrators revoke.    *)
(***************************************************************************)
EXTENDS Sessions, TLAPS

\* No reading is from the future, and one that is yet to be used is fresh.
ClockOK ==
    /\ \A p \in Process : now[p] <= clock
    /\ \A p \in Holding : clock <= now[p] + Stall

\* Which request may be where, and what it still tries.
PlacesOK ==
    \A r \in Request :
        /\ pc[r] = "look" => r \notin Logout
        /\ pc[r] = "drop" => r \in Logout
        /\ pc[r] \in {"lifetime", "now", "extend"} => r \in Renewal
        /\ pc[r] \in {"found", "delete"} => r \in Revoke
        /\ todo[r] \subseteq cookies[r]

\* A token is in the table, or has been, only once its sign-in is over.
TableOK ==
    /\ \A t \in DOMAIN sessions : pc[t] = "done"
    /\ \A t \in ended : pc[t] = "done" /\ t \notin DOMAIN sessions

\* A revoke request that took itself for an administrator's was one.
StandingOK ==
    \A r \in Revoke :
        /\ pc[r] = "look" /\ cookies[r] \cap admins # {} => r \in byAdmin
        /\ r \in asAdmin => r \in byAdmin
        /\ pc[r] = "delete" => r \in asAdmin

\* The expiry lies between half of the shortest lifetime and the longest one
\* after the last use, give or take a stall.
UseOK ==
    /\ \A t \in Token : used[t] <= clock
    /\ \A t \in DOMAIN sessions : \E d \in TTLs : sessions[t].expires <= used[t] + d
    /\ ActiveStaysSignedIn

\* A renewal under way has used its session no longer ago than its reading.
RenewOK ==
    \A r \in Renewal : \A t \in found[r] :
        /\ pc[r] \in {"lifetime", "now"} => now[r] <= used[t]
        /\ pc[r] = "extend" => now[r] <= used[t] + Stall

IInv ==
    /\ TypeOK /\ ClockOK /\ PlacesOK /\ TableOK /\ StandingOK /\ UseOK /\ RenewOK

-----------------------------------------------------------------------------
\* What halving a lifetime does.
LEMMA Halves ==
    \A d \in Nat : /\ d \div 2 \in Nat /\ d \div 2 <= d
                   /\ \A e \in Nat : d <= e => d \div 2 <= e \div 2
  OBVIOUS

\* What makes a record of the table.
LEMMA MakesRecord ==
    ASSUME NEW e \in Nat, NEW a \in BOOLEAN
    PROVE  [expires |-> e, admin |-> a] \in SessionRec
  BY DEF SessionRec

LEMMA InitIInv == Init => IInv
  <1> SUFFICES ASSUME Init PROVE IInv
    OBVIOUS
  <1>1. TypeOK
    BY TTLAssumption DEF Init, TypeOK, Process, Request
  <1>2. ClockOK
    BY TTLAssumption DEF Init, ClockOK, Holding, Process
  <1>3. PlacesOK /\ TableOK /\ StandingOK /\ RenewOK
    BY DEF Init, PlacesOK, TableOK, StandingOK, RenewOK, Process, Request
  <1>4. UseOK
    BY DEF Init, UseOK, ActiveStaysSignedIn, Live
  <1>5. QED BY <1>1, <1>2, <1>3, <1>4 DEF IInv

-----------------------------------------------------------------------------
\* Time: readings age, nothing else changes.
LEMMA TickIInv ==
    ASSUME IInv, Tick
    PROVE  IInv'
  <1>1. TypeOK'
    BY TTLAssumption DEF IInv, Tick, TypeOK, inputs, history
  <1>2. ClockOK'
    BY TTLAssumption DEF IInv, Tick, ClockOK, Holding, TypeOK
  <1>3. PlacesOK' /\ TableOK' /\ StandingOK' /\ RenewOK'
    BY DEF IInv, Tick, PlacesOK, TableOK, StandingOK, RenewOK, inputs, history
  <1>4. UseOK'
    BY DEF IInv, Tick, UseOK, ActiveStaysSignedIn, Live, TypeOK, history
  <1>5. QED BY <1>1, <1>2, <1>3, <1>4 DEF IInv

LEMMA SaveLifetimeIInv ==
    ASSUME IInv, NEW d \in TTLs, SaveLifetime(d)
    PROVE  IInv'
  <1>1. TypeOK'
    BY DEF IInv, SaveLifetime, TypeOK, inputs
  <1>2. ClockOK' /\ PlacesOK' /\ TableOK' /\ StandingOK' /\ UseOK' /\ RenewOK'
    BY DEF IInv, SaveLifetime, ClockOK, Holding, PlacesOK, TableOK, StandingOK,
        UseOK, ActiveStaysSignedIn, Live, RenewOK, inputs
  <1>3. QED BY <1>1, <1>2 DEF IInv

\* A revoke request that is still looking is vouched for by the new list.
LEMMA SaveAdminsIInv ==
    ASSUME IInv, NEW S \in SUBSET Token, SaveAdmins(S)
    PROVE  IInv'
  <1>1. TypeOK'
    BY DEF IInv, SaveAdmins, TypeOK, Revoking, inputs
  <1>2. StandingOK'
    BY DEF IInv, SaveAdmins, StandingOK, Revoking, inputs
  <1>3. ClockOK' /\ PlacesOK' /\ TableOK' /\ UseOK' /\ RenewOK'
    BY DEF IInv, SaveAdmins, ClockOK, Holding, PlacesOK, TableOK, UseOK,
        ActiveStaysSignedIn, Live, RenewOK, inputs
  <1>4. QED BY <1>1, <1>2, <1>3 DEF IInv

LEMMA StartSessionIInv ==
    ASSUME IInv, NEW t \in Token, StartSession(t)
    PROVE  IInv'
  <1>1. TypeOK'
    BY ProcessAssumption
    DEF IInv, StartSession, ReadClock, Goto, TypeOK, Process, Request, inputs,
        history
  <1>2. ClockOK'
    BY ProcessAssumption, TTLAssumption
    DEF IInv, StartSession, ReadClock, Goto, ClockOK, Holding, TypeOK, Process,
        Request
  <1>3. PlacesOK' /\ TableOK'
    BY ProcessAssumption
    DEF IInv, StartSession, Goto, PlacesOK, TableOK, TypeOK, Process, Request,
        inputs, history
  <1>4. StandingOK' /\ RenewOK'
    BY ProcessAssumption
    DEF IInv, StartSession, ReadClock, Goto, StandingOK, RenewOK, TypeOK, Process,
        Request, inputs, history
  <1>5. UseOK'
    BY DEF IInv, StartSession, UseOK, ActiveStaysSignedIn, Live, history
  <1>6. QED BY <1>1, <1>2, <1>3, <1>4, <1>5 DEF IInv

LEMMA ReadStandingIInv ==
    ASSUME IInv, NEW t \in Token, ReadStanding(t)
    PROVE  IInv'
  <1>1. TypeOK'
    BY ProcessAssumption
    DEF IInv, ReadStanding, Goto, TypeOK, Process, Request, inputs, history
  <1>2. ClockOK'
    BY ProcessAssumption
    DEF IInv, ReadStanding, Goto, ClockOK, Holding, TypeOK, Process, Request
  <1>3. PlacesOK' /\ TableOK'
    BY ProcessAssumption
    DEF IInv, ReadStanding, Goto, PlacesOK, TableOK, TypeOK, Process, Request,
        inputs, history
  <1>4. StandingOK' /\ RenewOK'
    BY ProcessAssumption
    DEF IInv, ReadStanding, Goto, StandingOK, RenewOK, TypeOK, Process, Request,
        inputs, history
  <1>5. UseOK'
    BY DEF IInv, ReadStanding, UseOK, ActiveStaysSignedIn, Live, history
  <1>6. QED BY <1>1, <1>2, <1>3, <1>4, <1>5 DEF IInv

LEMMA ReadLifetimeIInv ==
    ASSUME IInv, NEW p \in Process, ReadLifetime(p)
    PROVE  IInv'
  <1>1. TypeOK'
    BY ProcessAssumption
    DEF IInv, ReadLifetime, Goto, TypeOK, Process, Request, inputs, history
  <1>2. ClockOK'
    BY ProcessAssumption
    DEF IInv, ReadLifetime, Goto, ClockOK, Holding, TypeOK, Process, Request
  <1>3. PlacesOK' /\ TableOK'
    BY ProcessAssumption
    DEF IInv, ReadLifetime, Goto, PlacesOK, TableOK, TypeOK, Process, Request,
        inputs, history
  <1>4. StandingOK' /\ RenewOK'
    BY ProcessAssumption
    DEF IInv, ReadLifetime, Goto, StandingOK, RenewOK, TypeOK, Process, Request,
        inputs, history
  <1>5. UseOK'
    BY DEF IInv, ReadLifetime, UseOK, ActiveStaysSignedIn, Live, history
  <1>6. QED BY <1>1, <1>2, <1>3, <1>4, <1>5 DEF IInv

\* newSession: the session starts with its whole lifetime, less one stall.
LEMMA InsertSessionIInv ==
    ASSUME IInv, NEW t \in Token, InsertSession(t)
    PROVE  IInv'
  <1>1. /\ t \in Process /\ t \notin Request /\ t # Janitor
        /\ span[t] \in TTLs /\ span[t] \in Nat
        /\ now[t] \in 0..MaxTime /\ clock \in 0..MaxTime
        /\ now[t] <= clock /\ clock <= now[t] + Stall
    BY ProcessAssumption, TTLAssumption
    DEF IInv, InsertSession, TypeOK, ClockOK, Holding, Process
  <1>2. /\ DOMAIN sessions' = DOMAIN sessions \cup {t}
        /\ sessions'[t].expires = now[t] + span[t]
        /\ \A x \in DOMAIN sessions : x # t => sessions'[x] = sessions[x]
    BY DEF InsertSession
  <1>3. sessions'[t] \in SessionRec
    <2>1. (t \in asAdmin) \in BOOLEAN
      OBVIOUS
    <2>2. sessions'[t] = [expires |-> now[t] + span[t], admin |-> t \in asAdmin]
      BY DEF InsertSession
    <2>3. now[t] + span[t] \in Nat
      BY <1>1, TTLAssumption
    <2>4. QED BY <2>1, <2>2, <2>3, MakesRecord
  <1>4. used' = [used EXCEPT ![t] = clock] /\ clock' = clock /\ now' = now /\ found' = found
    BY DEF InsertSession
  <1>5. TypeOK'
    BY <1>1, <1>2, <1>3, ProcessAssumption, TTLAssumption
    DEF IInv, InsertSession, Goto, TypeOK, Process, inputs
  <1>6. ClockOK' /\ PlacesOK' /\ StandingOK'
    BY <1>1, ProcessAssumption
    DEF IInv, InsertSession, Goto, ClockOK, PlacesOK, StandingOK, Holding, TypeOK,
        Process, Request, inputs
  <1>7. TableOK'
    BY <1>1, <1>2 DEF IInv, InsertSession, Goto, TableOK, TypeOK
  <1>8. UseOK'
    <2>1. \A x \in Token : used'[x] = IF x = t THEN clock ELSE used[x]
      BY <1>4 DEF IInv, TypeOK
    <2>2. \A x \in DOMAIN sessions' : \E d \in TTLs : sessions'[x].expires <= used'[x] + d
      BY <1>1, <1>2, <2>1, TTLAssumption DEF IInv, UseOK, TypeOK, SessionRec
    <2>3. ASSUME NEW d \in TTLs, \A e \in TTLs : d <= e
          PROVE  now[t] + span[t] + Stall >= clock + (d \div 2)
      <3>1. d \in Nat /\ d <= span[t]
        BY <1>1, <2>3, TTLAssumption
      <3>2. d \div 2 \in Nat /\ d \div 2 <= d
        BY <3>1, Halves
      <3>3. QED BY <1>1, <3>1, <3>2, TTLAssumption
    <2>4. ActiveStaysSignedIn'
      BY <1>1, <1>2, <2>1, <2>3
      DEF IInv, InsertSession, UseOK, ActiveStaysSignedIn, Live, TypeOK
    <2>5. QED BY <1>4, <2>1, <2>2, <2>4, <1>1 DEF IInv, UseOK
  <1>9. RenewOK'
    <2>1. \A r \in Renewal : pc'[r] = pc[r] /\ now[r] <= clock
      BY <1>1 DEF IInv, InsertSession, Goto, ClockOK, TypeOK, Process, Request
    <2>2. \A r \in Renewal : now[r] \in Nat /\ found[r] \subseteq Token
      BY DEF IInv, TypeOK, Process, Request
    <2>3. \A x \in Token : used'[x] = IF x = t THEN clock ELSE used[x]
      BY <1>4 DEF IInv, TypeOK
    <2>4. QED BY <1>1, <1>4, <2>1, <2>2, <2>3, TTLAssumption DEF IInv, RenewOK
  <1>10. QED BY <1>5, <1>6, <1>7, <1>8, <1>9 DEF IInv

\* A request starts to try its cookies.
LEMMA ArriveIInv ==
    ASSUME IInv, NEW r \in Request, Arrive(r)
    PROVE  IInv'
  <1>1. TypeOK'
    BY ProcessAssumption
    DEF IInv, Arrive, ReadClock, Goto, TypeOK, Process, Request, inputs
  <1>2. ClockOK'
    BY ProcessAssumption, TTLAssumption
    DEF IInv, Arrive, ReadClock, Goto, ClockOK, Holding, TypeOK, Process, Request
  <1>3. PlacesOK' /\ TableOK'
    BY ProcessAssumption
    DEF IInv, Arrive, Goto, PlacesOK, TableOK, TypeOK, Process, Request, inputs
  <1>4. StandingOK' /\ RenewOK'
    BY ProcessAssumption
    DEF IInv, Arrive, ReadClock, Goto, StandingOK, RenewOK, TypeOK, Process,
        Request, inputs
  <1>5. UseOK'
    BY DEF IInv, Arrive, UseOK, ActiveStaysSignedIn, Live
  <1>6. QED BY <1>1, <1>2, <1>3, <1>4, <1>5 DEF IInv

LEMMA LookMissIInv ==
    ASSUME IInv, NEW r \in Request, NEW t \in Token, LookMiss(r, t)
    PROVE  IInv'
  <1>1. TypeOK' /\ PlacesOK'
    BY DEF IInv, LookMiss, Tried, TypeOK, PlacesOK, Process, Request, inputs,
        history
  <1>2. ClockOK' /\ TableOK' /\ StandingOK' /\ UseOK' /\ RenewOK'
    BY DEF IInv, LookMiss, ClockOK, Holding, TableOK, StandingOK, UseOK,
        ActiveStaysSignedIn, Live, RenewOK, inputs, history
  <1>3. QED BY <1>1, <1>2 DEF IInv

\* SessionFor drops an expired session it comes across.
LEMMA LookExpiredIInv ==
    ASSUME IInv, NEW r \in Request, NEW t \in Token, LookExpired(r, t)
    PROVE  IInv'
  <1>1. TypeOK'
    BY ProcessAssumption
    DEF IInv, LookExpired, Remove, Restrict, Tried, TypeOK, Process, Request, inputs
  <1>2. ClockOK' /\ PlacesOK'
    BY ProcessAssumption
    DEF IInv, LookExpired, Tried, ClockOK, Holding, PlacesOK, TypeOK, Process,
        Request, inputs
  <1>3. TableOK'
    BY ProcessAssumption
    DEF IInv, LookExpired, Remove, Restrict, TableOK, TypeOK, Process, Request
  <1>4. StandingOK' /\ RenewOK'
    BY ProcessAssumption
    DEF IInv, LookExpired, StandingOK, RenewOK, TypeOK, Process, Request, inputs
  <1>5. UseOK'
    BY DEF IInv, LookExpired, Remove, Restrict, UseOK, ActiveStaysSignedIn, Live
  <1>6. QED BY <1>1, <1>2, <1>3, <1>4, <1>5 DEF IInv

\* SessionFor finds a session: it slides the expiry and asks for the standing.
LEMMA LookLiveIInv ==
    ASSUME IInv, NEW r \in Request, NEW t \in Token, LookLive(r, t)
    PROVE  IInv'
  <1>1. /\ r \in Process /\ r \notin Token /\ r # Janitor /\ r \notin Logout
        /\ t \in DOMAIN sessions /\ t \in cookies[r]
        /\ now[r] \in 0..MaxTime /\ clock \in 0..MaxTime /\ ttl \in TTLs
        /\ now[r] <= clock /\ clock <= now[r] + Stall
    BY ProcessAssumption
    DEF IInv, LookLive, TypeOK, ClockOK, PlacesOK, Holding, Process
  <1>2. /\ DOMAIN sessions' = DOMAIN sessions
        /\ sessions'[t] = [expires |-> Slid(sessions[t], now[r]), admin |-> Standing(t)]
        /\ \A x \in DOMAIN sessions : x # t => sessions'[x] = sessions[x]
    BY <1>1 DEF LookLive
  <1>3. /\ sessions[t].expires \in Nat /\ ttl \in Nat /\ Stall \in Nat
        /\ ttl \div 2 \in Nat /\ ttl \div 2 <= ttl
    BY <1>1, TTLAssumption, Halves DEF IInv, TypeOK, SessionRec
  <1>4. Slid(sessions[t], now[r]) \in Nat
    BY <1>1, <1>3 DEF Slid
  <1>5. sessions'[t] \in SessionRec
    <2>1. Standing(t) \in BOOLEAN
      BY DEF Standing
    <2>2. QED BY <1>2, <1>4, <2>1, MakesRecord
  <1>6. \A x \in Token : used'[x] = IF x = t THEN clock ELSE used[x]
    BY DEF IInv, LookLive, TypeOK
  <1>7. pc' = [pc EXCEPT ![r] = AfterLook(r)]
    BY DEF LookLive, Goto
  <1>8. /\ r \in Visit => AfterLook(r) = "done"
        /\ r \in Renewal => AfterLook(r) = "lifetime"
        /\ r \in Revoke => AfterLook(r) = "found"
        /\ r \in Visit \cup Renewal \cup Revoke
    BY <1>1, ProcessAssumption DEF AfterLook, Request
  <1>9. TypeOK'
    BY <1>1, <1>2, <1>5, <1>7, <1>8, ProcessAssumption
    DEF IInv, LookLive, TypeOK, Process, Request, inputs
  <1>10. ClockOK'
    BY <1>1, <1>7, <1>8 DEF IInv, LookLive, ClockOK, Holding, TypeOK, Process
  <1>11. PlacesOK'
    BY <1>1, <1>7, <1>8, ProcessAssumption
    DEF IInv, LookLive, PlacesOK, TypeOK, Process, Request, inputs
  <1>12. TableOK'
    BY <1>1, <1>2, <1>7 DEF IInv, LookLive, TableOK, TypeOK
  <1>13. StandingOK'
    <2>1. r \in Revoke /\ Standing(t) => r \in byAdmin
      BY <1>1 DEF IInv, LookLive, StandingOK, Standing
    <2>2. \A k \in Revoke : pc'[k] = IF k = r THEN "found" ELSE pc[k]
      BY <1>7, <1>8 DEF IInv, TypeOK, Process, Request
    <2>3. \A k \in Revoke : k \in asAdmin' => k \in asAdmin \/ (k = r /\ Standing(t))
      BY DEF LookLive
    <2>4. asAdmin \subseteq asAdmin'
      BY DEF LookLive
    <2>5. cookies' = cookies /\ admins' = admins /\ byAdmin' = byAdmin
      BY DEF LookLive, inputs
    <2>6. QED BY <2>1, <2>2, <2>3, <2>4, <2>5 DEF IInv, StandingOK
  <1>14. UseOK'
    <2>1. \E d \in TTLs : Slid(sessions[t], now[r]) <= clock + d
      <3>1. PICK d \in TTLs : sessions[t].expires <= used[t] + d
        BY <1>1 DEF IInv, UseOK
      <3>2. used[t] \in Nat /\ used[t] <= clock /\ d \in Nat
        BY TTLAssumption DEF IInv, UseOK, TypeOK
      <3>3. QED BY <1>1, <1>3, <3>1, <3>2 DEF Slid
    <2>2. \A x \in DOMAIN sessions' : \E d \in TTLs : sessions'[x].expires <= used'[x] + d
      BY <1>1, <1>2, <1>6, <2>1 DEF IInv, UseOK, TypeOK
    <2>3. ASSUME NEW d \in TTLs, \A e \in TTLs : d <= e
          PROVE  Slid(sessions[t], now[r]) + Stall >= clock + (d \div 2)
      <3>1. d \in Nat /\ d <= ttl
        BY <1>1, <2>3, TTLAssumption
      <3>2. d \div 2 \in Nat /\ d \div 2 <= ttl \div 2
        BY <1>3, <3>1, Halves
      <3>3. QED BY <1>1, <1>3, <3>1, <3>2 DEF Slid
    <2>4. ActiveStaysSignedIn'
      BY <1>1, <1>2, <1>6, <2>3
      DEF IInv, LookLive, UseOK, ActiveStaysSignedIn, Live, TypeOK
    <2>5. QED BY <1>1, <1>6, <2>2, <2>4 DEF IInv, LookLive, UseOK
  <1>15. RenewOK'
    <2>1. \A n \in Renewal : /\ now[n] \in Nat /\ now[n] <= clock
                             /\ found[n] \subseteq Token /\ found'[n] \subseteq Token
                             /\ n # r => pc'[n] = pc[n] /\ found'[n] = found[n]
                             /\ n = r => pc'[n] = "lifetime" /\ found'[n] = {t}
      BY <1>1, <1>7, <1>8 DEF IInv, LookLive, ClockOK, TypeOK, Process, Request
    <2>2. clock \in Nat /\ now' = now /\ \A x \in Token : used[x] \in Nat /\ used[x] <= clock
      BY DEF IInv, LookLive, UseOK, TypeOK
    <2>3. \A x \in Token : used[x] <= used'[x]
      BY <1>6, <2>2
    <2>4. QED BY <1>3, <1>6, <2>1, <2>2, <2>3 DEF IInv, RenewOK
  <1>16. QED BY <1>9, <1>10, <1>11, <1>12, <1>13, <1>14, <1>15 DEF IInv

LEMMA LookFailedIInv ==
    ASSUME IInv, NEW r \in Request, LookFailed(r)
    PROVE  IInv'
  <1>1. TypeOK'
    BY ProcessAssumption
    DEF IInv, LookFailed, Goto, TypeOK, Process, Request, inputs, history
  <1>2. ClockOK'
    BY ProcessAssumption
    DEF IInv, LookFailed, Goto, ClockOK, Holding, TypeOK, Process, Request
  <1>3. PlacesOK' /\ TableOK'
    BY ProcessAssumption
    DEF IInv, LookFailed, Goto, PlacesOK, TableOK, TypeOK, Process, Request, inputs,
        history
  <1>4. StandingOK' /\ RenewOK'
    BY ProcessAssumption
    DEF IInv, LookFailed, Goto, StandingOK, RenewOK, TypeOK, Process, Request,
        inputs, history
  <1>5. UseOK'
    BY DEF IInv, LookFailed, UseOK, ActiveStaysSignedIn, Live, history
  <1>6. QED BY <1>1, <1>2, <1>3, <1>4, <1>5 DEF IInv

\* A renewal's second reading of the clock comes at most a stall after the first.
LEMMA ReadNowIInv ==
    ASSUME IInv, NEW r \in Request, ReadNow(r)
    PROVE  IInv'
  <1>1. /\ r \in Renewal /\ r \in Process /\ r \notin Token /\ r # Janitor
        /\ clock \in 0..MaxTime /\ now[r] \in 0..MaxTime
        /\ clock <= now[r] + Stall
    BY ProcessAssumption DEF IInv, ReadNow, TypeOK, ClockOK, Holding, Process
  <1>2. TypeOK'
    BY <1>1 DEF IInv, ReadNow, ReadClock, Goto, TypeOK, inputs, history
  <1>3. ClockOK'
    BY <1>1, TTLAssumption DEF IInv, ReadNow, ReadClock, Goto, ClockOK, Holding, TypeOK
  <1>4. PlacesOK' /\ StandingOK' /\ TableOK'
    BY <1>1, ProcessAssumption
    DEF IInv, ReadNow, Goto, PlacesOK, StandingOK, TableOK, TypeOK, Process, Request,
        inputs, history
  <1>5. UseOK'
    BY DEF IInv, ReadNow, UseOK, ActiveStaysSignedIn, Live, history
  <1>6. RenewOK'
    <2>1. \A n \in Renewal : n # r => pc'[n] = pc[n] /\ now'[n] = now[n]
      BY <1>1 DEF IInv, ReadNow, ReadClock, Goto, TypeOK
    <2>2. pc[r] = "now" /\ pc'[r] = "extend" /\ now'[r] = clock
      BY <1>1 DEF IInv, ReadNow, ReadClock, Goto, TypeOK
    <2>3. \A x \in found[r] : used[x] \in Nat
      BY <1>1 DEF IInv, TypeOK, Request
    <2>4. QED BY <1>1, <2>1, <2>2, <2>3, TTLAssumption DEF IInv, ReadNow, RenewOK, history
  <1>7. QED BY <1>2, <1>3, <1>4, <1>5, <1>6 DEF IInv

\* A renewal writes the expiry of a session that is still there, and no other.
LEMMA ExtendIInv ==
    ASSUME IInv, NEW r \in Request, Extend(r)
    PROVE  IInv'
  <1>1. /\ r \in Renewal /\ r \in Process /\ r \notin Token /\ r # Janitor
        /\ clock \in 0..MaxTime /\ now[r] \in 0..MaxTime
        /\ span[r] \in TTLs /\ span[r] \in Nat
        /\ now[r] <= clock /\ clock <= now[r] + Stall
    BY ProcessAssumption, TTLAssumption
    DEF IInv, Extend, TypeOK, ClockOK, Holding, Process
  <1>2. /\ DOMAIN sessions' = DOMAIN sessions
        /\ \A x \in DOMAIN sessions : x \notin found[r] => sessions'[x] = sessions[x]
        /\ \A x \in DOMAIN sessions : x \in found[r] =>
              sessions'[x] = [sessions[x] EXCEPT !.expires = now[r] + span[r]]
    BY DEF Extend, Extended
  <1>3. \A x \in DOMAIN sessions : x \in found[r] =>
            sessions'[x].expires = now[r] + span[r] /\ sessions'[x] \in SessionRec
    BY <1>1, <1>2 DEF IInv, TypeOK, SessionRec
  <1>4. \A x \in Token : used'[x] = IF x \in found[r] THEN clock ELSE used[x]
    BY DEF Extend
  <1>5. TypeOK'
    <2>1. used' \in [Token -> 0..MaxTime]
      BY <1>1 DEF IInv, Extend, TypeOK
    <2>2. \A x \in DOMAIN sessions' : sessions'[x] \in SessionRec
      BY <1>2, <1>3 DEF IInv, TypeOK
    <2>3. QED BY <1>1, <1>2, <2>1, <2>2 DEF IInv, Extend, Goto, TypeOK, inputs
  <1>6. ClockOK' /\ PlacesOK' /\ StandingOK'
    BY <1>1, ProcessAssumption
    DEF IInv, Extend, Goto, ClockOK, PlacesOK, StandingOK, Holding, TypeOK, Process,
        Request, inputs
  <1>7. TableOK'
    BY <1>1, <1>2 DEF IInv, Extend, Goto, TableOK, TypeOK
  <1>8. UseOK'
    <2>1. \A x \in DOMAIN sessions' : \E d \in TTLs : sessions'[x].expires <= used'[x] + d
      BY <1>1, <1>2, <1>3, <1>4 DEF IInv, UseOK, TypeOK
    <2>2. ASSUME NEW d \in TTLs, \A e \in TTLs : d <= e
          PROVE  now[r] + span[r] + Stall >= clock + (d \div 2)
      <3>1. d \in Nat /\ d <= span[r]
        BY <1>1, <2>2, TTLAssumption
      <3>2. d \div 2 \in Nat /\ d \div 2 <= d
        BY <3>1, Halves
      <3>3. QED BY <1>1, <3>1, <3>2, TTLAssumption
    <2>3. ActiveStaysSignedIn'
      BY <1>1, <1>2, <1>3, <1>4, <2>2
      DEF IInv, Extend, UseOK, ActiveStaysSignedIn, Live, TypeOK
    <2>4. QED BY <1>1, <1>4, <2>1, <2>3 DEF IInv, Extend, UseOK
  <1>9. RenewOK'
    <2>1. \A n \in Renewal : /\ now[n] \in Nat /\ now[n] <= clock
                             /\ found[n] \subseteq Token
                             /\ n # r => pc'[n] = pc[n]
      BY <1>1 DEF IInv, Extend, Goto, ClockOK, TypeOK, Process, Request
    <2>2. pc'[r] = "done"
      BY <1>1 DEF IInv, Extend, Goto, TypeOK
    <2>3. clock \in Nat /\ \A x \in Token : used[x] \in Nat /\ used[x] <= clock
      BY DEF IInv, UseOK, TypeOK
    <2>4. \A x \in Token : used[x] <= used'[x]
      BY <1>4, <2>3
    <2>5. now' = now /\ found' = found
      BY DEF Extend
    <2>6. QED BY <1>4, <2>1, <2>2, <2>3, <2>4, <2>5, TTLAssumption DEF IInv, RenewOK
  <1>10. QED BY <1>5, <1>6, <1>7, <1>8, <1>9 DEF IInv

LEMMA StartLogoutIInv ==
    ASSUME IInv, NEW r \in Request, StartLogout(r)
    PROVE  IInv'
  <1>1. TypeOK'
    BY ProcessAssumption
    DEF IInv, StartLogout, Goto, TypeOK, Process, Request, inputs, history
  <1>2. ClockOK'
    BY ProcessAssumption
    DEF IInv, StartLogout, Goto, ClockOK, Holding, TypeOK, Process, Request
  <1>3. PlacesOK' /\ TableOK'
    BY ProcessAssumption
    DEF IInv, StartLogout, Goto, PlacesOK, TableOK, TypeOK, Process, Request,
        inputs, history
  <1>4. StandingOK' /\ RenewOK'
    BY ProcessAssumption
    DEF IInv, StartLogout, Goto, StandingOK, RenewOK, TypeOK, Process, Request,
        inputs, history
  <1>5. UseOK'
    BY DEF IInv, StartLogout, UseOK, ActiveStaysSignedIn, Live, history
  <1>6. QED BY <1>1, <1>2, <1>3, <1>4, <1>5 DEF IInv

LEMMA LogoutCookieIInv ==
    ASSUME IInv, NEW r \in Request, NEW t \in Token, LogoutCookie(r, t)
    PROVE  IInv'
  <1>1. TypeOK'
    BY ProcessAssumption
    DEF IInv, LogoutCookie, Remove, Restrict, Tried, Goto, TypeOK, Process, Request,
        inputs
  <1>2. ClockOK' /\ PlacesOK'
    BY ProcessAssumption
    DEF IInv, LogoutCookie, Tried, Goto, ClockOK, Holding, PlacesOK, TypeOK,
        Process, Request, inputs
  <1>3. TableOK'
    BY ProcessAssumption
    DEF IInv, LogoutCookie, Remove, Restrict, Goto, TableOK, TypeOK, Process,
        Request
  <1>4. StandingOK' /\ RenewOK'
    BY ProcessAssumption
    DEF IInv, LogoutCookie, Goto, StandingOK, RenewOK, TypeOK, Process, Request,
        inputs
  <1>5. UseOK'
    BY DEF IInv, LogoutCookie, Remove, Restrict, UseOK, ActiveStaysSignedIn, Live
  <1>6. QED BY <1>1, <1>2, <1>3, <1>4, <1>5 DEF IInv

LEMMA RequireAdminIInv ==
    ASSUME IInv, NEW r \in Request, RequireAdmin(r)
    PROVE  IInv'
  <1>1. TypeOK'
    BY ProcessAssumption
    DEF IInv, RequireAdmin, Goto, TypeOK, Process, Request, inputs, history
  <1>2. ClockOK'
    BY ProcessAssumption
    DEF IInv, RequireAdmin, Goto, ClockOK, Holding, TypeOK, Process, Request
  <1>3. PlacesOK' /\ TableOK'
    BY ProcessAssumption
    DEF IInv, RequireAdmin, Goto, PlacesOK, TableOK, TypeOK, Process, Request,
        inputs, history
  <1>4. StandingOK' /\ RenewOK'
    BY ProcessAssumption
    DEF IInv, RequireAdmin, Admitted, Goto, StandingOK, RenewOK, TypeOK, Process,
        Request, inputs, history
  <1>5. UseOK'
    BY DEF IInv, RequireAdmin, UseOK, ActiveStaysSignedIn, Live, history
  <1>6. QED BY <1>1, <1>2, <1>3, <1>4, <1>5 DEF IInv

LEMMA RevokeSessionIInv ==
    ASSUME IInv, NEW r \in Request, RevokeSession(r)
    PROVE  IInv'
  <1>1. TypeOK'
    BY ProcessAssumption
    DEF IInv, RevokeSession, Remove, Restrict, Goto, TypeOK, Process, Request,
        inputs
  <1>2. ClockOK' /\ PlacesOK'
    BY ProcessAssumption
    DEF IInv, RevokeSession, Goto, ClockOK, Holding, PlacesOK, TypeOK, Process,
        Request, inputs
  <1>3. TableOK'
    BY ProcessAssumption
    DEF IInv, RevokeSession, Remove, Restrict, Goto, TableOK, TypeOK, Process,
        Request
  <1>4. StandingOK' /\ RenewOK'
    BY ProcessAssumption
    DEF IInv, RevokeSession, Goto, StandingOK, RenewOK, TypeOK, Process, Request,
        inputs
  <1>5. UseOK'
    BY DEF IInv, RevokeSession, Remove, Restrict, UseOK, ActiveStaysSignedIn, Live
  <1>6. QED BY <1>1, <1>2, <1>3, <1>4, <1>5 DEF IInv

LEMMA StartSweepIInv ==
    ASSUME IInv, StartSweep
    PROVE  IInv'
  <1>1. TypeOK'
    BY ProcessAssumption
    DEF IInv, StartSweep, ReadClock, Goto, TypeOK, Process, Request, inputs, history
  <1>2. ClockOK'
    BY ProcessAssumption, TTLAssumption
    DEF IInv, StartSweep, ReadClock, Goto, ClockOK, Holding, TypeOK, Process,
        Request
  <1>3. PlacesOK' /\ TableOK'
    BY ProcessAssumption
    DEF IInv, StartSweep, Goto, PlacesOK, TableOK, TypeOK, Process, Request, inputs,
        history
  <1>4. StandingOK' /\ RenewOK'
    BY ProcessAssumption
    DEF IInv, StartSweep, ReadClock, Goto, StandingOK, RenewOK, TypeOK, Process,
        Request, inputs, history
  <1>5. UseOK'
    BY DEF IInv, StartSweep, UseOK, ActiveStaysSignedIn, Live, history
  <1>6. QED BY <1>1, <1>2, <1>3, <1>4, <1>5 DEF IInv

LEMMA SweepSessionsIInv ==
    ASSUME IInv, SweepSessions
    PROVE  IInv'
  <1>1. TypeOK'
    BY ProcessAssumption
    DEF IInv, SweepSessions, Remove, Restrict, Goto, TypeOK, Process, Request,
        inputs
  <1>2. ClockOK' /\ PlacesOK'
    BY ProcessAssumption
    DEF IInv, SweepSessions, Goto, ClockOK, Holding, PlacesOK, TypeOK, Process,
        Request, inputs
  <1>3. TableOK'
    BY ProcessAssumption
    DEF IInv, SweepSessions, Remove, Restrict, Goto, TableOK, TypeOK, Process,
        Request
  <1>4. StandingOK' /\ RenewOK'
    BY ProcessAssumption
    DEF IInv, SweepSessions, Goto, StandingOK, RenewOK, TypeOK, Process, Request,
        inputs
  <1>5. UseOK'
    BY DEF IInv, SweepSessions, Remove, Restrict, UseOK, ActiveStaysSignedIn, Live
  <1>6. QED BY <1>1, <1>2, <1>3, <1>4, <1>5 DEF IInv

LEMMA StepIInv == IInv /\ [Next]_vars => IInv'
  <1> SUFFICES ASSUME IInv, [Next]_vars PROVE IInv'
    OBVIOUS
  <1>1. CASE Tick
    BY <1>1, TickIInv
  <1>2. CASE \E d \in TTLs : SaveLifetime(d)
    BY <1>2, SaveLifetimeIInv
  <1>3. CASE \E S \in SUBSET Token : SaveAdmins(S)
    BY <1>3, SaveAdminsIInv
  <1>4. ASSUME NEW t \in Token, NewSession(t)
        PROVE  IInv'
    <2>1. t \in Process
      BY DEF Process
    <2>2. QED
      BY <1>4, <2>1, StartSessionIInv, ReadStandingIInv, ReadLifetimeIInv, InsertSessionIInv
      DEF NewSession
  <1>5. ASSUME NEW r \in Request, Step(r)
        PROVE  IInv'
    <2>1. r \in Process
      BY DEF Process
    <2>2. CASE \/ Arrive(r) \/ LookFailed(r) \/ ReadLifetime(r) \/ ReadNow(r) \/ Extend(r)
               \/ StartLogout(r) \/ RequireAdmin(r) \/ RevokeSession(r)
      BY <2>1, <2>2, ArriveIInv, LookFailedIInv, ReadLifetimeIInv, ReadNowIInv, ExtendIInv,
         StartLogoutIInv, RequireAdminIInv, RevokeSessionIInv
    <2>3. CASE \E t \in Token : \/ LookMiss(r, t) \/ LookExpired(r, t) \/ LookLive(r, t)
                                \/ LogoutCookie(r, t)
      BY <2>3, LookMissIInv, LookExpiredIInv, LookLiveIInv, LogoutCookieIInv
    <2>4. QED BY <1>5, <2>2, <2>3 DEF Step
  <1>6. CASE Sweep
    BY <1>6, StartSweepIInv, SweepSessionsIInv DEF Sweep
  <1>7. CASE UNCHANGED vars
    <2>1. TypeOK'
      BY <1>7 DEF vars, IInv, TypeOK
    <2>2. ClockOK' /\ PlacesOK' /\ TableOK' /\ StandingOK' /\ UseOK' /\ RenewOK'
      BY <1>7 DEF vars, IInv, ClockOK, Holding, PlacesOK, TableOK, StandingOK, UseOK,
                  ActiveStaysSignedIn, Live, RenewOK
    <2>3. QED BY <2>1, <2>2 DEF IInv
  <1>8. QED BY <1>1, <1>2, <1>3, <1>4, <1>5, <1>6, <1>7 DEF Next

LEMMA Invariance == Spec => []IInv
  BY InitIInv, StepIInv, PTL DEF Spec

-----------------------------------------------------------------------------
\* The session table is well typed.
THEOREM SessionsTyped == Spec => []TypeOK
  <1>1. IInv => TypeOK
    BY DEF IInv
  <1>2. QED BY <1>1, Invariance, PTL

\* A session that was logged out, revoked, expired or swept never comes back,
\* whatever renewal found it before.
THEOREM EndedSessionsStayEnded == Spec => []EndedStaysEnded
  <1>1. IInv => EndedStaysEnded
    BY DEF IInv, TableOK, EndedStaysEnded, Live
  <1>2. QED BY <1>1, Invariance, PTL

\* Since its last use a session has half of the shortest lifetime left, less the
\* age a clock reading may have.
THEOREM ActiveSessionsStay == Spec => []ActiveStaysSignedIn
  <1>1. IInv => ActiveStaysSignedIn
    BY DEF IInv, UseOK
  <1>2. QED BY <1>1, Invariance, PTL

\* Only a sender that was an administrator since its request arrived revokes.
THEOREM OnlyAdminsRevoke == Spec => []AdminsRevoke
  <1>1. IInv => AdminsRevoke
    BY DEF IInv, StandingOK, AdminsRevoke
  <1>2. QED BY <1>1, Invariance, PTL

-----------------------------------------------------------------------------
\* Which steps take a session out of the table.
LEMMA TableChange ==
    [Next]_vars => \/ DOMAIN sessions \subseteq DOMAIN sessions'
                   \/ \E r \in Request, t \in Token : LookExpired(r, t) \/ LogoutCookie(r, t)
                   \/ \E r \in Request : RevokeSession(r)
                   \/ SweepSessions
  BY DEF Next, NewSession, Step, Sweep, vars, Tick, SaveLifetime, SaveAdmins, StartSession,
         ReadStanding, ReadLifetime, InsertSession, Arrive, LookMiss, LookLive, LookFailed,
         ReadNow, Extend, Extended, StartLogout, RequireAdmin, StartSweep

\* A session leaves the table only expired by the clock, or for a logout or a
\* revocation that names it: no reading taken before the lock is old enough to
\* end it early.
THEOREM SessionsEndForReason == Spec => OnlyEndsForReason
  <1>1. IInv /\ [Next]_vars
          => [\A t \in Token : Live(t) /\ ~Live(t)' =>
                 \/ clock > sessions[t].expires
                 \/ \E r \in Logout : pc[r] = "drop" /\ t \in cookies[r]
                 \/ \E r \in Revoke : pc[r] = "delete" /\ target[r] = t]_vars
    <2> SUFFICES ASSUME IInv, [Next]_vars, NEW t \in Token,
                        t \in DOMAIN sessions, t \notin DOMAIN sessions'
                 PROVE  \/ clock > sessions[t].expires
                        \/ \E r \in Logout : pc[r] = "drop" /\ t \in cookies[r]
                        \/ \E r \in Revoke : pc[r] = "delete" /\ target[r] = t
      BY DEF Live
    <2>1. /\ sessions[t].expires \in Nat /\ clock \in Nat
          /\ \A p \in Process : now[p] \in Nat /\ now[p] <= clock
      BY DEF IInv, TypeOK, SessionRec, ClockOK
    <2>2. ASSUME NEW r \in Request, NEW x \in Token, LookExpired(r, x)
          PROVE  clock > sessions[t].expires
      <3>1. x = t
        BY <2>2 DEF LookExpired, Remove, Restrict
      <3>2. QED BY <2>1, <2>2, <3>1 DEF LookExpired, Expired, Process
    <2>3. ASSUME NEW r \in Request, NEW x \in Token, LogoutCookie(r, x)
          PROVE  r \in Logout /\ pc[r] = "drop" /\ t \in cookies[r]
      <3>1. x = t
        BY <2>3 DEF LogoutCookie, Remove, Restrict
      <3>2. QED BY <2>3, <3>1 DEF LogoutCookie, IInv, PlacesOK
    <2>4. ASSUME NEW r \in Request, RevokeSession(r)
          PROVE  r \in Revoke /\ pc[r] = "delete" /\ target[r] = t
      BY <2>4 DEF RevokeSession, Remove, Restrict
    <2>5. ASSUME SweepSessions
          PROVE  clock > sessions[t].expires
      BY <2>1, <2>5 DEF SweepSessions, Remove, Restrict, Expired, Process
    <2>6. QED BY <2>2, <2>3, <2>4, <2>5, TableChange
  <1>2. QED BY <1>1, Invariance, PTL DEF Spec, OnlyEndsForReason

\* Which steps count as a use of a session.
LEMMA UseChange ==
    [Next]_vars => \/ used' = used
                   \/ \E t \in Token : InsertSession(t)
                   \/ \E r \in Request, t \in Token : LookLive(r, t)
                   \/ \E r \in Request : Extend(r)
  BY DEF Next, NewSession, Step, Sweep, vars, Tick, SaveLifetime, SaveAdmins, StartSession,
         ReadStanding, ReadLifetime, Arrive, LookMiss, LookExpired, LookFailed, ReadNow,
         StartLogout, LogoutCookie, RequireAdmin, RevokeSession, StartSweep, SweepSessions,
         history

\* Nobody is served on a session idle for longer than the longest lifetime plus
\* two stalls.
THEOREM IdleSessionsEnd == Spec => IdleLimit
  <1>1. IInv /\ [Next]_vars
          => [\A t \in Token : used'[t] # used[t] /\ Live(t) =>
                 \E d \in TTLs : clock <= used[t] + d + 2 * Stall]_vars
    <2> SUFFICES ASSUME IInv, [Next]_vars, NEW t \in Token,
                        used'[t] # used[t], t \in DOMAIN sessions
                 PROVE  \E d \in TTLs : clock <= used[t] + d + 2 * Stall
      BY DEF Live
    <2>1. used[t] \in Nat /\ clock \in Nat /\ sessions[t].expires \in Nat /\ Stall \in Nat
      BY TTLAssumption DEF IInv, TypeOK, SessionRec
    <2>2. ASSUME NEW x \in Token, InsertSession(x)
          PROVE  FALSE
      BY <2>2 DEF InsertSession, IInv, TableOK, TypeOK
    <2>3. ASSUME NEW r \in Request, NEW x \in Token, LookLive(r, x)
          PROVE  \E d \in TTLs : clock <= used[t] + d + 2 * Stall
      <3>1. x = t
        BY <2>3 DEF LookLive, IInv, TypeOK
      <3>2. now[r] \in Nat /\ now[r] <= sessions[t].expires /\ clock <= now[r] + Stall
        BY <2>1, <2>3, <3>1 DEF LookLive, Expired, IInv, TypeOK, ClockOK, Holding, Process
      <3>3. PICK d \in TTLs : sessions[t].expires <= used[t] + d
        BY DEF IInv, UseOK
      <3>4. d \in Nat
        BY TTLAssumption
      <3>5. QED BY <2>1, <3>2, <3>3, <3>4
    <2>4. ASSUME NEW r \in Request, Extend(r)
          PROVE  \E d \in TTLs : clock <= used[t] + d + 2 * Stall
      <3>1. r \in Renewal /\ t \in found[r] /\ pc[r] = "extend"
        BY <2>4 DEF Extend, IInv, TypeOK
      <3>2. now[r] \in Nat /\ now[r] <= used[t] + Stall /\ clock <= now[r] + Stall
        BY <3>1 DEF IInv, RenewOK, TypeOK, ClockOK, Holding, Process, Request
      <3>3. PICK d \in TTLs : d \in Nat
        BY TTLAssumption
      <3>4. QED BY <2>1, <3>2, <3>3
    <2>5. QED BY <2>2, <2>3, <2>4, UseChange
  <1>2. QED BY <1>1, Invariance, PTL DEF Spec, IdleLimit
=============================================================================
