---------------------------- MODULE SignInProofs ----------------------------
(***************************************************************************)
(* Proofs about SignIn, for every set of addresses, codes and requests and *)
(* every value of the limits.                                              *)
(***************************************************************************)
EXTENDS SignIn, TLAPS

-----------------------------------------------------------------------------
\* The inductive invariant, in named parts.

\* Code requests and verify requests never run each other's sections.
PcOK ==
    /\ \A c \in CodeRequest :
          pc[c] \in {"idle", "check", "allowed", "store", "done", "issued"}
    /\ \A v \in VerifyRequest :
          pc[v] \in {"idle", "match", "permit", "new", "insert", "close", "done"}
    /\ pc[Janitor] \in {"idle", "sweep"}

\* A reading not yet used is at most Stall old.
ClockOK ==
    /\ \A p \in Process : now[p] <= clock
    /\ \A p \in Holding : clock <= now[p] + Stall

SpentCodes == {p[1] : p \in redeemed}

\* The pending code of an address is that of one request of that address, counts
\* exactly the comparisons made so far, and has not been spent.
CodesOK ==
    \A e \in DOMAIN codes :
        LET c == codes[e] IN
        /\ email[c.by] = e
        /\ pc[c.by] = "issued"
        /\ c.attempts = tries[c.by]
        /\ c.expires = now[c.by] + CodeTTL
        /\ \A v \in VerifyRequest : <<c.by, v>> \notin redeemed

TriesOK ==
    \A c \in CodeRequest :
        /\ tries[c] <= MaxAttempts
        /\ pc[c] # "issued" => tries[c] = 0

RedeemedOK ==
    /\ \A c \in CodeRequest, v \in VerifyRequest :
          <<c, v>> \in redeemed =>
              /\ pc[c] = "issued"
              /\ email[c] = email[v]
              /\ pc[v] \in {"permit", "new", "insert", "close", "done"}
    /\ \A c \in CodeRequest, v, w \in VerifyRequest :
          <<c, v>> \in redeemed /\ <<c, w>> \in redeemed => v = w

\* A verify request past the comparison has spent a code of its own address,
\* and past the second look at the allowlist it has been vouched for.
Spent(v) == \E c \in CodeRequest : <<c, v>> \in redeemed /\ email[c] = email[v]
ProgressOK ==
    \A v \in VerifyRequest :
        /\ pc[v] \in {"permit", "new", "insert", "close"} => Spent(v)
        /\ pc[v] \in {"new", "insert", "close"} => v \in vouched

\* A request still entitled to be vouched for is one whose address is allowed now.
VouchedOK ==
    \A v \in PastRedeem : Allowed(email[v]) => v \in vouched

SessionsOK ==
    \A s \in sessions : s.email = email[s.by] /\ s.by \in vouched /\ Spent(s.by)

IInv ==
    /\ TypeOK /\ PcOK /\ ClockOK /\ CodesOK /\ TriesOK /\ RedeemedOK
    /\ ProgressOK /\ VouchedOK /\ SessionsOK

-----------------------------------------------------------------------------
\* What deleting entries does to the table of codes.
LEMMA DropDomain ==
    ASSUME NEW S
    PROVE  /\ DropCodes(S) => DOMAIN codes' = DOMAIN codes \ S
           /\ DropCodes(S) => \A e \in DOMAIN codes' : codes'[e] = codes[e]
    BY DEF DropCodes, Restrict

\* Every initial state satisfies the invariant.
LEMMA InitInv == Init => IInv
    BY ProcessAssumption, LimitAssumption
    DEF Init, IInv, TypeOK, PcOK, ClockOK, CodesOK, TriesOK, RedeemedOK,
        ProgressOK, VouchedOK, SessionsOK, Spent, PastRedeem, Holding, Process,
        Request, CodeState, Session

\* Every step preserves the types.
LEMMA TypeStep == TypeOK /\ PcOK /\ [Next]_vars => TypeOK'
  <1> SUFFICES ASSUME TypeOK, PcOK, [Next]_vars PROVE TypeOK'
    OBVIOUS
  <1> USE ProcessAssumption, LimitAssumption
        DEF TypeOK, config, tables, inputs, history, Process, Request, Goto, ReadClock
  <1>1. CASE Tick
    BY <1>1 DEF Tick
  <1>2. ASSUME NEW e \in Email, NEW s \in Standing, SaveConfig(e, s) PROVE TypeOK'
    BY <1>2 DEF SaveConfig, PastRedeem
  <1>3. ASSUME NEW c \in CodeRequest, RequestCode(c) \/ CheckThrottle(c) \/ CheckAllowed(c)
        PROVE  TypeOK'
    BY <1>3 DEF RequestCode, CheckThrottle, CheckAllowed
  <1>4. ASSUME NEW c \in CodeRequest, StoreCode(c) PROVE TypeOK'
    <2>1. PICK code \in Code : PutCode(email[c], NewCodeState(c, code))
      BY <1>4 DEF StoreCode
    <2>2. NewCodeState(c, code) \in CodeState
      BY DEF NewCodeState, CodeState
    <2>3. DOMAIN codes' \subseteq Email /\ \A e \in DOMAIN codes' : codes'[e] \in CodeState
      BY <2>1, <2>2 DEF PutCode
    <2>4. QED
      BY <1>4, <2>3 DEF StoreCode
  <1>5. ASSUME NEW v \in VerifyRequest, Verify(v) \/ Permit(v) PROVE TypeOK'
    BY <1>5 DEF Verify, Permit
  <1>15. ASSUME NEW v \in VerifyRequest, CloseSetup(v) PROVE TypeOK'
    BY <1>15 DEF CloseSetup
  <1>14. ASSUME NEW v \in VerifyRequest, NewSession(v) PROVE TypeOK'
    <2>1. IsAdmin(email[v]) \in BOOLEAN
      BY DEF IsAdmin
    <2>2. admin' \in [VerifyRequest -> BOOLEAN]
      BY <1>14, <2>1 DEF NewSession
    <2>3. QED
      BY <1>14, <2>2 DEF NewSession
  <1>6. ASSUME NEW v \in VerifyRequest, InsertSession(v) PROVE TypeOK'
    <2>1. [by |-> v, email |-> email[v], admin |-> admin[v]] \in Session
      BY DEF Session
    <2>2. sessions' \subseteq Session
      BY <1>6, <2>1 DEF InsertSession
    <2>3. QED
      BY <1>6, <2>2 DEF InsertSession
  <1>7. ASSUME NEW v \in VerifyRequest, RefuseCode(v) PROVE TypeOK'
    BY <1>7, DropDomain DEF RefuseCode
  <1>8. ASSUME NEW v \in VerifyRequest, WrongCode(v) PROVE TypeOK'
    <2> DEFINE c == codes[email[v]]
    <2>1. c \in CodeState /\ c.by \in CodeRequest /\ Attempted(c) \in CodeState
      BY <1>8 DEF WrongCode, Comparable, Pending, CodeState, Attempted
    <2>2. DOMAIN codes' \subseteq Email /\ \A e \in DOMAIN codes' : codes'[e] \in CodeState
      BY <1>8, <2>1 DEF WrongCode, PutCode
    <2>3. QED
      BY <1>8, <2>1, <2>2 DEF WrongCode, CountTry
  <1>9. ASSUME NEW v \in VerifyRequest, RightCode(v) PROVE TypeOK'
    <2>1. codes[email[v]].by \in CodeRequest
      BY <1>9 DEF RightCode, Comparable, Pending, CodeState
    <2>2. DOMAIN codes' \subseteq Email /\ \A e \in DOMAIN codes' : codes'[e] \in CodeState
      BY <1>9, DropDomain DEF RightCode, SpendCode
    <2>3. QED
      BY <1>9, <2>1, <2>2 DEF RightCode, CountTry
  <1>10. CASE StartSweep
    BY <1>10 DEF StartSweep
  <1>11. CASE SweepCodes
    BY <1>11, DropDomain DEF SweepCodes
  <1>12. CASE UNCHANGED vars
    BY <1>12 DEF vars
  <1>13. QED
    BY <1>1, <1>2, <1>3, <1>4, <1>5, <1>6, <1>7, <1>8, <1>9, <1>10, <1>11, <1>12,
       <1>14, <1>15
    DEF Next, HandleCode, HandleVerify

-----------------------------------------------------------------------------
\* Every step preserves the invariant.
LEMMA InvStep == IInv /\ [Next]_vars => IInv'
  <1> SUFFICES ASSUME IInv, [Next]_vars PROVE IInv'
    OBVIOUS
  <1>0. TypeOK'
    BY TypeStep DEF IInv
  <1> USE <1>0, ProcessAssumption, LimitAssumption
        DEF IInv, config, tables, inputs, history, Process, Request, Goto,
            ReadClock, Holding, PastRedeem
  <1>1. CASE Tick
    <2>1. ClockOK'
      BY <1>1 DEF Tick, ClockOK, TypeOK
    <2>2. PcOK' /\ CodesOK' /\ TriesOK' /\ RedeemedOK'
      BY <1>1 DEF Tick, PcOK, CodesOK, TriesOK, RedeemedOK
    <2>3. ProgressOK' /\ VouchedOK' /\ SessionsOK'
      BY <1>1 DEF Tick, ProgressOK, VouchedOK, SessionsOK, Spent, Allowed
    <2>4. QED
      BY <2>1, <2>2, <2>3
  <1>2. ASSUME NEW e \in Email, NEW s \in Standing, SaveConfig(e, s) PROVE IInv'
    <2>1. VouchedOK'
      BY <1>2 DEF SaveConfig, VouchedOK, Allowed, TypeOK
    <2>2. PcOK' /\ ClockOK' /\ CodesOK' /\ TriesOK' /\ RedeemedOK'
      BY <1>2 DEF SaveConfig, PcOK, ClockOK, CodesOK, TriesOK, RedeemedOK
    <2>3. ProgressOK' /\ SessionsOK'
      BY <1>2 DEF SaveConfig, ProgressOK, SessionsOK, Spent
    <2>4. QED
      BY <2>1, <2>2, <2>3
  <1>3. ASSUME NEW c \in CodeRequest, RequestCode(c) \/ CheckThrottle(c) \/ CheckAllowed(c)
        PROVE  IInv'
    <2> USE <1>3 DEF RequestCode, CheckThrottle, CheckAllowed
    <2>1. PcOK' /\ ClockOK'
      BY DEF PcOK, ClockOK, TypeOK
    <2>2. CodesOK'
      BY DEF CodesOK, TypeOK, CodeState
    <2>3. TriesOK' /\ RedeemedOK'
      BY DEF TriesOK, RedeemedOK, TypeOK, PcOK
    <2>4. ProgressOK' /\ VouchedOK'
      <3>1. \A w \in VerifyRequest : pc'[w] = pc[w] /\ (Spent(w)' <=> Spent(w))
        BY DEF Spent, TypeOK
      <3>2. QED
        BY <3>1 DEF ProgressOK, VouchedOK, Allowed
    <2>5. SessionsOK'
      BY DEF SessionsOK, Spent
    <2>6. QED
      BY <2>1, <2>2, <2>3, <2>4, <2>5
  <1>4. ASSUME NEW c \in CodeRequest, StoreCode(c) PROVE IInv'
    <2> USE <1>4 DEF StoreCode
    <2>1. PICK code \in Code : PutCode(email[c], NewCodeState(c, code))
      OBVIOUS
    <2>2. PcOK' /\ ClockOK'
      BY DEF PcOK, ClockOK, TypeOK
    <2>3. CodesOK'
      BY <2>1 DEF CodesOK, TypeOK, CodeState, PutCode, NewCodeState, TriesOK, RedeemedOK
    <2>4. TriesOK' /\ RedeemedOK'
      BY DEF TriesOK, RedeemedOK, TypeOK, PcOK
    <2>5. ProgressOK' /\ VouchedOK'
      BY DEF ProgressOK, VouchedOK, Spent, Allowed, TypeOK
    <2>6. SessionsOK'
      BY DEF SessionsOK, Spent
    <2>7. QED
      BY <2>2, <2>3, <2>4, <2>5, <2>6
  <1>5. ASSUME NEW v \in VerifyRequest,
               Verify(v) \/ Permit(v) \/ NewSession(v) \/ CloseSetup(v)
        PROVE  IInv'
    <2> USE <1>5 DEF Verify, Permit, NewSession, CloseSetup
    <2>1. PcOK' /\ ClockOK'
      BY DEF PcOK, ClockOK, TypeOK
    <2>2. CodesOK'
      BY DEF CodesOK, TypeOK, CodeState
    <2>3. TriesOK' /\ RedeemedOK'
      BY DEF TriesOK, RedeemedOK, TypeOK, PcOK
    <2>4. VouchedOK'
      BY DEF VouchedOK, Allowed, TypeOK
    <2>5. SessionsOK'
      BY DEF SessionsOK, Spent, TypeOK
    <2>6. ProgressOK'
      <3>1. \A w \in VerifyRequest : Spent(w)' <=> Spent(w)
        BY DEF Spent
      <3>2. QED
        BY <3>1 DEF ProgressOK, VouchedOK, Allowed, TypeOK
    <2>7. QED
      BY <2>1, <2>2, <2>3, <2>4, <2>5, <2>6
  <1>6. ASSUME NEW v \in VerifyRequest, InsertSession(v) PROVE IInv'
    <2> USE <1>6 DEF InsertSession
    <2>1. PcOK' /\ ClockOK'
      BY DEF PcOK, ClockOK, TypeOK
    <2>2. CodesOK'
      BY DEF CodesOK, TypeOK, CodeState
    <2>3. TriesOK' /\ RedeemedOK'
      BY DEF TriesOK, RedeemedOK, TypeOK, PcOK
    <2>4. ProgressOK' /\ VouchedOK'
      BY DEF ProgressOK, VouchedOK, Spent, Allowed, TypeOK
    <2>5. SessionsOK'
      <3>1. Spent(v) /\ v \in vouched
        BY DEF ProgressOK
      <3>2. \A w \in VerifyRequest : Spent(w)' <=> Spent(w)
        BY DEF Spent
      <3>3. \A t \in sessions : t.by \in VerifyRequest
        BY DEF TypeOK, Session
      <3>4. QED
        BY <3>1, <3>2, <3>3 DEF SessionsOK
    <2>6. QED
      BY <2>1, <2>2, <2>3, <2>4, <2>5
  <1>7. ASSUME NEW v \in VerifyRequest, RefuseCode(v) PROVE IInv'
    <2> USE <1>7 DEF RefuseCode
    <2>1. PcOK' /\ ClockOK'
      BY DEF PcOK, ClockOK, TypeOK
    <2>2. CodesOK'
      <3>1. \A e \in DOMAIN codes' : e \in DOMAIN codes /\ codes'[e] = codes[e]
        BY DropDomain
      <3>2. \A e \in DOMAIN codes : codes[e].by \in CodeRequest
        BY DEF TypeOK, CodeState
      <3>3. QED
        BY <3>1, <3>2 DEF CodesOK, TypeOK
    <2>3. TriesOK' /\ RedeemedOK'
      BY DEF TriesOK, RedeemedOK, TypeOK, PcOK
    <2>4. ProgressOK' /\ VouchedOK' /\ SessionsOK'
      BY DEF ProgressOK, VouchedOK, SessionsOK, Spent, Allowed, TypeOK
    <2>5. QED
      BY <2>1, <2>2, <2>3, <2>4
  <1>8. ASSUME NEW v \in VerifyRequest, WrongCode(v) PROVE IInv'
    <2> DEFINE c == codes[email[v]]
    <2> USE <1>8 DEF WrongCode, Comparable, Pending
    <2>0. c \in CodeState /\ c.by \in CodeRequest /\ c.attempts < MaxAttempts
      BY DEF TypeOK, CodeState, Exhausted
    <2>1. PcOK' /\ ClockOK'
      BY DEF PcOK, ClockOK, TypeOK
    <2>2. CodesOK'
      BY <2>0 DEF CodesOK, TypeOK, CodeState, PutCode, CountTry, Attempted
    <2>3. TriesOK'
      BY <2>0 DEF TriesOK, CodesOK, TypeOK, PcOK, CountTry
    <2>4. RedeemedOK'
      BY DEF RedeemedOK, TypeOK, PcOK
    <2>5. ProgressOK' /\ VouchedOK' /\ SessionsOK'
      BY DEF ProgressOK, VouchedOK, SessionsOK, Spent, Allowed, TypeOK
    <2>6. QED
      BY <2>1, <2>2, <2>3, <2>4, <2>5
  <1>9. ASSUME NEW v \in VerifyRequest, RightCode(v) PROVE IInv'
    <2> DEFINE c == codes[email[v]]
    <2> USE <1>9 DEF RightCode, Comparable, Pending, SpendCode
    <2>0. /\ c \in CodeState /\ c.by \in CodeRequest /\ c.attempts < MaxAttempts
          /\ email[c.by] = email[v] /\ pc[c.by] = "issued"
          /\ c.attempts = tries[c.by]
          /\ \A w \in VerifyRequest : <<c.by, w>> \notin redeemed
      BY DEF TypeOK, CodeState, Exhausted, CodesOK
    <2>1. PcOK' /\ ClockOK'
      BY DEF PcOK, ClockOK, TypeOK
    <2>2. CodesOK'
      <3>1. \A e \in DOMAIN codes' :
                e \in DOMAIN codes /\ e # email[v] /\ codes'[e] = codes[e]
        BY DEF DropCodes, Restrict
      <3>2. \A e \in DOMAIN codes : codes[e].by \in CodeRequest
        BY DEF TypeOK, CodeState
      <3>3. \A e \in DOMAIN codes' : codes[e].by # c.by
        BY <2>0, <3>1 DEF CodesOK
      <3>4. QED
        BY <2>0, <3>1, <3>2, <3>3 DEF CodesOK, TypeOK, CountTry
    <2>3. TriesOK'
      BY <2>0 DEF TriesOK, TypeOK, PcOK, CountTry
    <2>4. RedeemedOK'
      BY <2>0 DEF RedeemedOK, TypeOK, PcOK
    <2>5. VouchedOK'
      BY DEF VouchedOK, Allowed, TypeOK
    <2>6. ProgressOK' /\ SessionsOK'
      <3>1. \A w \in VerifyRequest : Spent(w) => Spent(w)'
        BY DEF Spent
      <3>2. Spent(v)'
        BY <2>0 DEF Spent
      <3>3. vouched \subseteq vouched'
        OBVIOUS
      <3>4. \A t \in sessions : t.by \in VerifyRequest
        BY DEF TypeOK, Session
      <3>5. SessionsOK'
        BY <3>1, <3>3, <3>4 DEF SessionsOK
      <3>6. ProgressOK'
        BY <3>1, <3>2, <3>3 DEF ProgressOK, TypeOK
      <3>7. QED
        BY <3>5, <3>6
    <2>7. QED
      BY <2>1, <2>2, <2>3, <2>4, <2>5, <2>6
  <1>10. CASE StartSweep
    <2> USE <1>10 DEF StartSweep
    <2>1. PcOK' /\ ClockOK'
      BY DEF PcOK, ClockOK, TypeOK
    <2>2. CodesOK' /\ TriesOK' /\ RedeemedOK'
      BY DEF CodesOK, TypeOK, CodeState, TriesOK, RedeemedOK
    <2>3. ProgressOK' /\ VouchedOK' /\ SessionsOK'
      BY DEF ProgressOK, VouchedOK, SessionsOK, Spent, Allowed, TypeOK
    <2>4. QED
      BY <2>1, <2>2, <2>3
  <1>11. CASE SweepCodes
    <2> USE <1>11 DEF SweepCodes
    <2>1. PcOK' /\ ClockOK'
      BY DEF PcOK, ClockOK, TypeOK
    <2>2. CodesOK'
      <3>1. \A e \in DOMAIN codes' : e \in DOMAIN codes /\ codes'[e] = codes[e]
        BY DropDomain
      <3>2. \A e \in DOMAIN codes : codes[e].by \in CodeRequest
        BY DEF TypeOK, CodeState
      <3>3. QED
        BY <3>1, <3>2 DEF CodesOK, TypeOK
    <2>3. TriesOK' /\ RedeemedOK'
      BY DEF TriesOK, RedeemedOK, TypeOK
    <2>4. ProgressOK' /\ VouchedOK' /\ SessionsOK'
      BY DEF ProgressOK, VouchedOK, SessionsOK, Spent, Allowed, TypeOK
    <2>5. QED
      BY <2>1, <2>2, <2>3, <2>4
  <1>12. CASE UNCHANGED vars
    BY <1>12 DEF vars, PcOK, ClockOK, CodesOK, TriesOK, RedeemedOK, ProgressOK,
                 VouchedOK, SessionsOK, Spent, Allowed
  <1>13. QED
    BY <1>1, <1>2, <1>3, <1>4, <1>5, <1>6, <1>7, <1>8, <1>9, <1>10, <1>11, <1>12
    DEF Next, HandleCode, HandleVerify

-----------------------------------------------------------------------------
\* The state of the sign-in always has its declared type.
THEOREM SignInTyped == Spec => []TypeOK
  BY InitInv, InvStep, PTL DEF Spec, IInv

\* The invariant holds throughout.
LEMMA Invariance == Spec => []IInv
  BY InitInv, InvStep, PTL DEF Spec

\* handleVerify: a code stands MaxAttempts comparisons at the most.
THEOREM AttemptsAreBounded == Spec => []AttemptsBounded
  <1>1. IInv => AttemptsBounded
    BY DEF IInv, TriesOK, AttemptsBounded
  <1>2. QED
    BY <1>1, Invariance, PTL

\* handleVerify: no code signs two requests in.
THEOREM CodesAreSpentOnce == Spec => []RedeemedOnce
  <1>1. IInv => RedeemedOnce
    BY DEF IInv, RedeemedOK, RedeemedOnce, TypeOK
  <1>2. QED
    BY <1>1, Invariance, PTL

\* handleVerify: a session stands for a spent code of its own address, and for
\* an address the configuration allowed after the code was spent.
THEOREM SessionsAreEarned == Spec => []SessionsEarned
  <1>1. IInv => SessionsEarned
    <2> SUFFICES ASSUME IInv, NEW s \in sessions
                 PROVE  /\ s.by \in vouched
                        /\ \E c \in CodeRequest : <<c, s.by>> \in redeemed /\ email[c] = s.email
      BY DEF SessionsEarned
    <2>1. s.email = email[s.by] /\ s.by \in vouched /\ Spent(s.by)
      BY DEF IInv, SessionsOK
    <2>2. QED
      BY <2>1 DEF Spent
  <1>2. QED
    BY <1>1, Invariance, PTL

-----------------------------------------------------------------------------
\* Only a right guess spends a code.
LEMMA RedeemedChange ==
  [Next]_vars => redeemed' = redeemed \/ \E v \in VerifyRequest : RightCode(v)
  BY DEF Next, HandleCode, HandleVerify, vars, Tick, SaveConfig, RequestCode,
         CheckThrottle, CheckAllowed, StoreCode, Verify, RefuseCode, WrongCode,
         Permit, NewSession, InsertSession, CloseSetup, StartSweep, SweepCodes,
         history

\* handleVerify: a code is spent within CodeTTL of the request that issued it,
\* give or take the age of the verify request's clock reading.
THEOREM CodesAreSpentInTime == Spec => SpentInTime
  <1>1. IInv /\ [Next]_vars
          => [\A p \in redeemed' \ redeemed : clock <= now[p[1]] + CodeTTL + Stall]_vars
    <2> SUFFICES ASSUME IInv, [Next]_vars, NEW p \in redeemed' \ redeemed
                 PROVE  clock <= now[p[1]] + CodeTTL + Stall
      OBVIOUS
    <2>1. PICK v \in VerifyRequest : RightCode(v)
      BY RedeemedChange
    <2> DEFINE c == codes[email[v]]
    <2>2. c \in CodeState /\ c.by \in CodeRequest
      BY <2>1 DEF IInv, TypeOK, RightCode, Comparable, Pending, CodeState
    <2>3. p = <<c.by, v>>
      BY <2>1 DEF RightCode
    <2>4. clock <= now[v] + Stall
      BY <2>1 DEF IInv, ClockOK, RightCode, Comparable, Holding, Process, Request
    <2>5. now[v] <= c.expires /\ c.expires = now[c.by] + CodeTTL
      BY <2>1, <2>2 DEF IInv, CodesOK, RightCode, Comparable, Pending, Expired,
                        TypeOK, CodeState, Process, Request
    <2>6. clock \in Nat /\ now[v] \in Nat /\ now[c.by] \in Nat /\ p[1] = c.by
      BY <2>2, <2>3, LimitAssumption DEF IInv, TypeOK, Process, Request
    <2>7. QED
      BY <2>2, <2>4, <2>5, <2>6, LimitAssumption DEF CodeState
  <1>2. QED
    BY <1>1, Invariance, PTL DEF Spec, SpentInTime

\* No section of any handler, nor the janitor, deletes a code that is still good.
THEOREM CodesAreNotLost == Spec => NoEarlyLoss
  <1> DEFINE Justified(e) ==
        \/ clock > codes[e].expires
        \/ codes[e].attempts >= MaxAttempts
        \/ \E p \in redeemed' \ redeemed : p[1] = codes[e].by
  <1>1. IInv /\ [Next]_vars => [\A e \in DOMAIN codes \ DOMAIN codes' : Justified(e)]_vars
    <2> SUFFICES ASSUME IInv, [Next]_vars, NEW e \in DOMAIN codes \ DOMAIN codes'
                 PROVE  Justified(e)
      OBVIOUS
    <2>0. /\ codes[e] \in CodeState /\ clock \in Nat
          /\ \A p \in Process : now[p] \in Nat /\ now[p] <= clock
      BY LimitAssumption DEF IInv, TypeOK, ClockOK
    <2>1. CASE codes' = codes
      BY <2>1
    <2>2. ASSUME NEW c \in CodeRequest, StoreCode(c) PROVE Justified(e)
      BY <2>2 DEF StoreCode, PutCode
    <2>3. ASSUME NEW v \in VerifyRequest, WrongCode(v) PROVE Justified(e)
      BY <2>3 DEF WrongCode, PutCode
    <2>4. ASSUME NEW v \in VerifyRequest, RefuseCode(v) PROVE Justified(e)
      <3>1. e = email[v]
        BY <2>4 DEF RefuseCode, DropCodes, Restrict
      <3>2. QED
        BY <2>0, <2>4, <3>1
        DEF RefuseCode, Pending, Expired, Exhausted, CodeState, Process, Request
    <2>5. ASSUME NEW v \in VerifyRequest, RightCode(v) PROVE Justified(e)
      <3>1. e = email[v]
        BY <2>5 DEF RightCode, SpendCode, DropCodes, Restrict
      <3>2. codes[e].by \in CodeRequest
        BY <2>0 DEF CodeState
      <3>3. <<codes[e].by, v>> \in redeemed' \ redeemed
        BY <2>5, <3>1, <3>2 DEF RightCode, IInv, CodesOK
      <3>4. QED
        BY <3>3
    <2>6. CASE SweepCodes
      BY <2>0, <2>6 DEF SweepCodes, DropCodes, Restrict, Expired, CodeState, Process
    <2>7. QED
      BY <2>1, <2>2, <2>3, <2>4, <2>5, <2>6
      DEF Next, HandleCode, HandleVerify, vars, Tick, SaveConfig, RequestCode,
          CheckThrottle, CheckAllowed, Verify, Permit, NewSession,
          InsertSession, CloseSetup, StartSweep, tables
  <1>2. QED
    BY <1>1, Invariance, PTL DEF Spec, NoEarlyLoss

-----------------------------------------------------------------------------
\* SignIn implements OneTimeCode.

\* A held code belongs to a request that issued it and was not redeemed.
LEMMA HeldIsIssued ==
    ASSUME IInv, NEW c \in CodeRequest, HeldBy(c)
    PROVE  Issued(c) /\ StatusOf(c) = "live"
    BY DEF IInv, CodesOK, HeldBy, Issued, StatusOf

\* Initial states map to initial states.
LEMMA PromiseInit == Init => Promise!Init
  BY DEF Init, Promise!Init, StatusOf, HeldBy, Issued, Process, Request

\* Dropping codes without spending them is a lapse.
LEMMA DropIsLapse ==
    ASSUME IInv, NEW S, DropCodes(S), redeemed' = redeemed, tries' = tries,
           email' = email, \A c \in CodeRequest : Issued(c)' <=> Issued(c)
    PROVE  Promise!Next
  <1> DEFINE Gone == {c \in CodeRequest : HeldBy(c) /\ ~HeldBy(c)'}
  <1>1. \A c \in CodeRequest : HeldBy(c)' => HeldBy(c)
    BY DEF HeldBy, DropCodes, Restrict
  <1>2. Gone \subseteq Promise!Live
    BY HeldIsIssued DEF Promise!Live
  <1>3. \A c \in CodeRequest :
            StatusOf(c)' = IF c \in Gone THEN "void" ELSE StatusOf(c)
    <2> SUFFICES ASSUME NEW c \in CodeRequest
                 PROVE  StatusOf(c)' = IF c \in Gone THEN "void" ELSE StatusOf(c)
      OBVIOUS
    <2>1. CASE c \in Gone
      BY <2>1, HeldIsIssued DEF StatusOf, IInv, CodesOK, HeldBy
    <2>2. CASE c \notin Gone
      BY <2>2, <1>1 DEF StatusOf
    <2>3. QED
      BY <2>1, <2>2
  <1>4. Promise!Lapse(Gone)
    BY <1>2, <1>3 DEF Promise!Lapse, Promise!Live
  <1>5. QED
    BY <1>4 DEF Promise!Next

\* Every step maps to a step of the abstract specification or to a stutter.
LEMMA PromiseStep == IInv /\ IInv' /\ [Next]_vars => [Promise!Next]_Promise!vars
  <1> SUFFICES ASSUME IInv, IInv', [Next]_vars
               PROVE  Promise!Next \/ UNCHANGED Promise!vars
    OBVIOUS
  <1> USE ProcessAssumption DEF config, tables, inputs, history, Goto, ReadClock
  <1>0. /\ \A c \in CodeRequest, v \in VerifyRequest : c # v
        /\ \A c \in CodeRequest : c # Janitor
        /\ pc \in [Process -> {"idle", "check", "allowed", "store", "match", "permit",
                               "new", "insert", "close", "sweep", "done", "issued"}]
    BY DEF IInv, TypeOK, Process, Request
  <1>1. ASSUME codes' = codes, redeemed' = redeemed, tries' = tries, email' = email,
               \A c \in CodeRequest : Issued(c)' <=> Issued(c)
        PROVE  UNCHANGED Promise!vars
    BY <1>1 DEF Promise!vars, StatusOf, HeldBy
  <1>2. CASE Tick
    BY <1>1, <1>2 DEF Tick, Issued
  <1>3. ASSUME NEW e \in Email, NEW s \in Standing, SaveConfig(e, s)
        PROVE  UNCHANGED Promise!vars
    BY <1>1, <1>3 DEF SaveConfig, Issued
  <1>4. ASSUME NEW c \in CodeRequest, RequestCode(c) \/ CheckThrottle(c) \/ CheckAllowed(c)
        PROVE  UNCHANGED Promise!vars
    BY <1>0, <1>1, <1>4 DEF RequestCode, CheckThrottle, CheckAllowed, Issued, Process, Request
  <1>5. ASSUME NEW v \in VerifyRequest,
               Verify(v) \/ Permit(v) \/ NewSession(v) \/ InsertSession(v) \/ CloseSetup(v)
        PROVE  UNCHANGED Promise!vars
    BY <1>0, <1>1, <1>5
    DEF Verify, Permit, NewSession, InsertSession, CloseSetup, Issued, Process, Request
  <1>6. CASE StartSweep
    BY <1>0, <1>1, <1>6 DEF StartSweep, Issued, Process
  <1>7. CASE SweepCodes
    BY <1>0, <1>7, DropIsLapse DEF SweepCodes, Issued, Process
  <1>8. ASSUME NEW v \in VerifyRequest, RefuseCode(v) PROVE Promise!Next
    BY <1>0, <1>8, DropIsLapse DEF RefuseCode, Issued, Process, Request
  <1>9. ASSUME NEW c \in CodeRequest, StoreCode(c) PROVE Promise!Next
    <2>1. PICK code \in Code : PutCode(email[c], NewCodeState(c, code))
      BY <1>9 DEF StoreCode
    <2>2. pc[c] = "store" /\ pc' = [pc EXCEPT ![c] = "issued"] /\ redeemed' = redeemed
          /\ tries' = tries /\ email' = email /\ email[c] \in Email
      BY <1>9 DEF StoreCode, IInv, TypeOK, Request
    <2>3. StatusOf(c) = "unissued"
      <3>1. ~HeldBy(c)
        BY <2>2, HeldIsIssued DEF Issued
      <3>2. \A v \in VerifyRequest : <<c, v>> \notin redeemed
        BY <2>2 DEF IInv, RedeemedOK
      <3>3. QED
        BY <2>2, <3>1, <3>2 DEF StatusOf, Issued
    <2>4. StatusOf(c)' = "live"
      <3>1. HeldBy(c)'
        BY <2>1, <2>2 DEF PutCode, NewCodeState, HeldBy
      <3>2. QED
        BY <2>2, <3>1 DEF StatusOf, IInv, RedeemedOK
    <2>5. ASSUME NEW d \in CodeRequest, d # c
          PROVE  StatusOf(d)' = IF StatusOf(d) = "live" /\ email[d] = email[c]
                                THEN "void" ELSE StatusOf(d)
      <3>1. Issued(d)' <=> Issued(d)
        BY <1>0, <2>2, <2>5 DEF Issued, Process, Request
      <3>2. HeldBy(d)' <=> HeldBy(d) /\ email[d] # email[c]
        <4>1. /\ HeldBy(d) <=> email[d] \in DOMAIN codes /\ codes[email[d]].by = d
              /\ HeldBy(d)' <=> email'[d] \in DOMAIN codes' /\ codes'[email'[d]].by = d
          BY DEF IInv, CodesOK, HeldBy
        <4>2. QED
          BY <2>1, <2>2, <2>5, <4>1 DEF PutCode, NewCodeState
      <3>3. HeldBy(d) => Issued(d)
        BY HeldIsIssued
      <3>4. QED
        BY <2>2, <3>1, <3>2, <3>3 DEF StatusOf
    <2>6. Promise!IssueCode(c)
      BY <2>2, <2>3, <2>4, <2>5 DEF Promise!IssueCode, Promise!Live
    <2>7. QED
      BY <2>6 DEF Promise!Next
  <1>10. ASSUME NEW v \in VerifyRequest, WrongCode(v) PROVE Promise!Next
    <2> DEFINE c == codes[email[v]]
    <2>1. /\ email[v] \in DOMAIN codes /\ c \in CodeState /\ c.by \in CodeRequest
          /\ c.attempts = tries[c.by] /\ c.attempts < MaxAttempts
      BY <1>10, LimitAssumption
      DEF WrongCode, Comparable, Pending, Exhausted, IInv, TypeOK, CodesOK, CodeState
    <2>2. \A d \in CodeRequest : (HeldBy(d)' <=> HeldBy(d)) /\ (Issued(d)' <=> Issued(d))
      <3>1. DOMAIN codes' = DOMAIN codes /\ \A e \in DOMAIN codes : codes'[e].by = codes[e].by
        BY <1>10, <2>1 DEF WrongCode, PutCode, CodeState, Attempted
      <3>2. QED
        BY <1>0, <1>10, <3>1 DEF WrongCode, HeldBy, Issued, Process, Request
    <2>3. \A d \in CodeRequest : StatusOf(d)' = StatusOf(d)
      BY <1>10, <2>2 DEF WrongCode, StatusOf
    <2>4. c.by \in Promise!Live
      BY <2>1, HeldIsIssued DEF Promise!Live, HeldBy
    <2>5. Promise!Miss(c.by)
      BY <1>10, <2>1, <2>3, <2>4 DEF Promise!Miss, WrongCode, CountTry
    <2>6. QED
      BY <2>1, <2>5 DEF Promise!Next
  <1>11. ASSUME NEW v \in VerifyRequest, RightCode(v) PROVE Promise!Next
    <2> DEFINE c == codes[email[v]]
    <2>1. /\ email[v] \in DOMAIN codes /\ c \in CodeState /\ c.by \in CodeRequest
          /\ c.attempts = tries[c.by] /\ c.attempts < MaxAttempts
          /\ email[c.by] = email[v]
      BY <1>11, LimitAssumption
      DEF RightCode, Comparable, Pending, Exhausted, IInv, TypeOK, CodesOK, CodeState
    <2>10. PICK i \in CodeRequest : i = c.by
      BY <2>1
    <2>2. \A d \in CodeRequest : Issued(d)' <=> Issued(d)
      BY <1>0, <1>11 DEF RightCode, Issued, Process, Request
    <2>3. \A d \in CodeRequest : d # i => (HeldBy(d)' <=> HeldBy(d))
      BY <1>11, <2>1, <2>10 DEF RightCode, SpendCode, DropCodes, Restrict, HeldBy
    <2>4. redeemed' = redeemed \cup {<<i, v>>}
      BY <1>11, <2>10 DEF RightCode
    <2>5. StatusOf(i)' = "redeemed"
      BY <2>4 DEF StatusOf
    <2>6. \A d \in CodeRequest : d # i => StatusOf(d)' = StatusOf(d)
      BY <2>2, <2>3, <2>4 DEF StatusOf
    <2>7. i \in Promise!Live
      BY <2>1, <2>10, HeldIsIssued DEF Promise!Live, HeldBy
    <2>8. Promise!Redeem(i)
      BY <1>11, <2>1, <2>10, <2>5, <2>6, <2>7 DEF Promise!Redeem, RightCode, CountTry
    <2>9. QED
      BY <2>8 DEF Promise!Next
  <1>12. CASE UNCHANGED vars
    BY <1>1, <1>12 DEF vars, Issued
  <1>13. QED
    BY <1>2, <1>3, <1>4, <1>5, <1>6, <1>7, <1>8, <1>9, <1>10, <1>11, <1>12
    DEF Next, HandleCode, HandleVerify

\* The table of pending codes, with its two-section issue, its racing verify
\* requests and its janitor, implements one-time codes.
THEOREM ImplementsOneTimeCode == Spec => KeepsPromise
  BY PromiseInit, PromiseStep, Invariance, PTL DEF Spec, KeepsPromise, Promise!Spec
=============================================================================
