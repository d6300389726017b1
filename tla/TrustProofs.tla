---------------------------- MODULE TrustProofs -----------------------------
(***************************************************************************)
(* Proofs about Trust, for any hosts, certificates, requests and limits:   *)
(* only certificates that verify or were confirmed carry traffic, and only *)
(* certificates the gateway has met can be confirmed.                      *)
(***************************************************************************)
EXTENDS Trust, TLAPS

\* What has been pinned was confirmed, and met in a handshake before.
PinsOK ==
    \A h \in Host : pinned[h] # NoCert =>
        <<h, pinned[h]>> \in confirmed /\ <<h, pinned[h]>> \in presented

\* What is on offer was met in a handshake with that host and does not verify.
OffersOK ==
    \A h \in DOMAIN offered :
        /\ <<h, offered[h].fingerprint>> \in presented
        /\ offered[h].fingerprint \notin Valid[h]

\* What a request holds between its handshake and its end.
LeavesOK ==
    \A r \in Request :
        /\ pc[r] \in {"verify", "failed", "send"} => leaf[r] \in Cert
        /\ pc[r] \in {"verify", "failed"} => <<host[r], leaf[r]>> \in presented
        /\ pc[r] = "failed" => leaf[r] \notin Valid[host[r]]

IInv == TypeOK /\ PinsOK /\ OffersOK /\ LeavesOK /\ OnlyConfirmedCerts

-----------------------------------------------------------------------------
LEMMA InitIInv == Init => IInv
  BY TrustAssumption
  DEF Init, IInv, TypeOK, PinsOK, OffersOK, LeavesOK, OnlyConfirmedCerts, Post

\* Time only makes an offer older.
LEMMA TickIInv ==
    ASSUME IInv, Tick
    PROVE  IInv'
  <1>1. TypeOK'
    BY TrustAssumption DEF IInv, Tick, site, trust, TypeOK, Post
  <1>2. PinsOK' /\ OffersOK' /\ LeavesOK' /\ OnlyConfirmedCerts'
    BY DEF IInv, Tick, site, trust, PinsOK, OffersOK, LeavesOK, OnlyConfirmedCerts
  <1>3. QED BY <1>1, <1>2 DEF IInv

\* What a site presents from now on concerns later handshakes only.
LEMMA SwapIInv ==
    ASSUME IInv, NEW h \in Host, NEW c \in Cert, Swap(h, c)
    PROVE  IInv'
  <1>1. TypeOK'
    BY TrustAssumption DEF IInv, Swap, trust, TypeOK, Post
  <1>2. PinsOK' /\ OffersOK' /\ LeavesOK' /\ OnlyConfirmedCerts'
    BY DEF IInv, Swap, trust, PinsOK, OffersOK, LeavesOK, OnlyConfirmedCerts
  <1>3. QED BY <1>1, <1>2 DEF IInv

\* A pooled connection has been looked at when it was made.
LEMMA ReuseIInv ==
    ASSUME IInv, NEW r \in Request, Reuse(r)
    PROVE  IInv'
  <1>1. PICK c \in pool :
           /\ c.host = host[r]
           /\ pool' = pool \ {c}
           /\ leaf' = [leaf EXCEPT ![r] = c.cert]
    BY DEF Reuse
  <1>2. c.host \in Host /\ c.cert \in Cert
    BY DEF IInv, TypeOK
  <1>3. c.cert \in Valid[c.host] \/ <<c.host, c.cert>> \in confirmed
    BY DEF IInv, OnlyConfirmedCerts
  <1>4. TypeOK'
    BY <1>1, <1>2, TrustAssumption DEF IInv, Reuse, Goto, site, trust, TypeOK, Post
  <1>5. PinsOK' /\ OffersOK'
    BY DEF IInv, Reuse, Goto, site, trust, PinsOK, OffersOK
  <1>6. LeavesOK'
    BY <1>1, <1>2 DEF IInv, Reuse, Goto, LeavesOK, TypeOK, Post
  <1>7. OnlyConfirmedCerts'
    BY <1>1, <1>3 DEF IInv, Reuse, Goto, OnlyConfirmedCerts, TypeOK, Post
  <1>8. QED BY <1>4, <1>5, <1>6, <1>7 DEF IInv

LEMMA HandshakeIInv ==
    ASSUME IInv, NEW r \in Request, Handshake(r)
    PROVE  IInv'
  <1>1. host[r] \in Host /\ cert[host[r]] \in Cert
    BY DEF IInv, TypeOK, Post
  <1>2. TypeOK'
    BY <1>1, TrustAssumption DEF IInv, Handshake, Goto, site, trust, TypeOK, Post
  <1>3. PinsOK' /\ OffersOK'
    BY DEF IInv, Handshake, Goto, site, trust, PinsOK, OffersOK
  <1>4. LeavesOK'
    BY <1>1 DEF IInv, Handshake, Goto, LeavesOK, TypeOK, Post
  <1>5. OnlyConfirmedCerts'
    BY DEF IInv, Handshake, Goto, OnlyConfirmedCerts, TypeOK, Post
  <1>6. QED BY <1>2, <1>3, <1>4, <1>5 DEF IInv

\* The verdict: a request goes on only if its certificate verifies or is pinned.
LEMMA VerifyIInv ==
    ASSUME IInv, NEW r \in Request, Verify(r)
    PROVE  IInv'
  <1>1. host[r] \in Host /\ leaf[r] \in Cert /\ leaf[r] # NoCert
    BY TrustAssumption DEF IInv, LeavesOK, Verify, TypeOK, Post
  <1>2. Passes(host[r], leaf[r]) =>
            leaf[r] \in Valid[host[r]] \/ <<host[r], leaf[r]>> \in confirmed
    BY <1>1 DEF IInv, Passes, Trusted, PinsOK
  <1>3. ~Passes(host[r], leaf[r]) => leaf[r] \notin Valid[host[r]]
    BY DEF Passes
  <1>4. TypeOK'
    BY TrustAssumption DEF IInv, Verify, Goto, site, trust, TypeOK, Post
  <1>5. PinsOK' /\ OffersOK'
    BY DEF IInv, Verify, Goto, site, trust, PinsOK, OffersOK
  <1>6. LeavesOK'
    BY <1>3 DEF IInv, Verify, Goto, LeavesOK, TypeOK, Post
  <1>7. OnlyConfirmedCerts'
    BY <1>2 DEF IInv, Verify, Goto, OnlyConfirmedCerts, TypeOK, Post
  <1>8. QED BY <1>4, <1>5, <1>6, <1>7 DEF IInv

LEMMA FinishIInv ==
    ASSUME IInv, NEW r \in Request, NEW keep \in BOOLEAN, Finish(r, keep)
    PROVE  IInv'
  <1>1. leaf[r] \in Cert /\ host[r] \in Host
    BY DEF IInv, LeavesOK, Finish, TypeOK, Post
  <1>2. leaf[r] \in Valid[host[r]] \/ <<host[r], leaf[r]>> \in confirmed
    BY DEF IInv, Finish, OnlyConfirmedCerts
  <1>3. TypeOK'
    BY <1>1, TrustAssumption DEF IInv, Finish, Goto, site, trust, TypeOK, Post
  <1>4. PinsOK' /\ OffersOK'
    BY DEF IInv, Finish, Goto, site, trust, PinsOK, OffersOK
  <1>5. LeavesOK'
    BY DEF IInv, Finish, Goto, LeavesOK, TypeOK, Post
  <1>6. OnlyConfirmedCerts'
    BY <1>2 DEF IInv, Finish, Goto, OnlyConfirmedCerts, TypeOK, Post
  <1>7. QED BY <1>3, <1>4, <1>5, <1>6 DEF IInv

LEMMA DropIdleIInv ==
    ASSUME IInv, NEW c \in pool, DropIdle(c)
    PROVE  IInv'
  <1>1. TypeOK'
    BY TrustAssumption DEF IInv, DropIdle, site, trust, TypeOK, Post
  <1>2. PinsOK' /\ OffersOK' /\ LeavesOK' /\ OnlyConfirmedCerts'
    BY DEF IInv, DropIdle, site, trust, PinsOK, OffersOK, LeavesOK, OnlyConfirmedCerts
  <1>3. QED BY <1>1, <1>2 DEF IInv

\* An offer names the certificate of a handshake that has failed.
LEMMA ServeUntrustedIInv ==
    ASSUME IInv, NEW r \in Request, ServeUntrusted(r)
    PROVE  IInv'
  <1>1. /\ host[r] \in Host /\ leaf[r] \in Cert
        /\ <<host[r], leaf[r]>> \in presented
        /\ leaf[r] \notin Valid[host[r]]
    BY DEF IInv, LeavesOK, ServeUntrusted, TypeOK, Post
  <1>2. /\ DOMAIN offered' \subseteq DOMAIN offered \cup {host[r]}
        /\ \A h \in DOMAIN offered' :
              offered'[h] = IF h = host[r] THEN [fingerprint |-> leaf[r], seen |-> clock]
                            ELSE offered[h]
    BY DEF ServeUntrusted, Offered
  <1>3. TypeOK'
    BY <1>1, <1>2, TrustAssumption DEF IInv, ServeUntrusted, Goto, site, TypeOK, Post
  <1>4. OffersOK'
    BY <1>1, <1>2 DEF IInv, ServeUntrusted, OffersOK
  <1>5. PinsOK'
    BY DEF IInv, ServeUntrusted, PinsOK
  <1>6. LeavesOK'
    BY DEF IInv, ServeUntrusted, Goto, LeavesOK, TypeOK, Post
  <1>7. OnlyConfirmedCerts'
    BY DEF IInv, ServeUntrusted, Goto, OnlyConfirmedCerts, TypeOK, Post
  <1>8. QED BY <1>3, <1>4, <1>5, <1>6, <1>7 DEF IInv

\* A confirmation pins what is on offer, and nothing else.
LEMMA AcceptIInv ==
    ASSUME IInv, NEW p \in Confirm, NEW c \in Cert, Accept(p, c)
    PROVE  IInv'
  <1>1. /\ host[p] \in Host /\ p \in Post
        /\ <<host[p], c>> \in presented
    BY DEF IInv, Accept, Acceptable, OffersOK, TypeOK, Post
  <1>2. \A r \in Request : r # p /\ r \in Post
    BY TrustAssumption DEF Post
  <1>3. /\ DOMAIN offered' \subseteq DOMAIN offered
        /\ \A h \in DOMAIN offered' : offered'[h] = offered[h]
    BY DEF Accept
  <1>4. TypeOK'
    BY <1>1, <1>3, TrustAssumption DEF IInv, Accept, Goto, site, TypeOK
  <1>5. PinsOK'
    BY <1>1 DEF IInv, Accept, PinsOK, TypeOK
  <1>6. OffersOK'
    BY <1>3 DEF IInv, Accept, OffersOK
  <1>7. LeavesOK'
    BY <1>2 DEF IInv, Accept, Goto, LeavesOK, TypeOK
  <1>8. OnlyConfirmedCerts'
    BY <1>2 DEF IInv, Accept, Goto, OnlyConfirmedCerts, TypeOK
  <1>9. QED BY <1>4, <1>5, <1>6, <1>7, <1>8 DEF IInv

LEMMA RejectIInv ==
    ASSUME IInv, NEW p \in Confirm, NEW c \in Cert, Reject(p, c)
    PROVE  IInv'
  <1>1. \A r \in Request : r # p /\ r \in Post
    BY TrustAssumption DEF Post
  <1>2. TypeOK'
    BY TrustAssumption DEF IInv, Reject, Goto, site, trust, TypeOK, Post
  <1>3. PinsOK' /\ OffersOK'
    BY DEF IInv, Reject, Goto, trust, PinsOK, OffersOK
  <1>4. LeavesOK' /\ OnlyConfirmedCerts'
    BY <1>1 DEF IInv, Reject, Goto, LeavesOK, OnlyConfirmedCerts, TypeOK
  <1>5. QED BY <1>2, <1>3, <1>4 DEF IInv

LEMMA StepIInv == IInv /\ [Next]_vars => IInv'
  <1> SUFFICES ASSUME IInv, [Next]_vars PROVE IInv'
    OBVIOUS
  <1>1. CASE Tick
    BY <1>1, TickIInv
  <1>2. CASE \E h \in Host, c \in Cert : Swap(h, c)
    BY <1>2, SwapIInv
  <1>3. CASE \E r \in Request : Proxy(r)
    BY <1>3, ReuseIInv, HandshakeIInv, VerifyIInv, ServeUntrustedIInv, FinishIInv DEF Proxy
  <1>4. CASE \E c \in pool : DropIdle(c)
    BY <1>4, DropIdleIInv
  <1>5. CASE \E p \in Confirm, c \in Cert : Accept(p, c) \/ Reject(p, c)
    BY <1>5, AcceptIInv, RejectIInv
  <1>6. CASE UNCHANGED vars
    BY <1>6 DEF vars, IInv, TypeOK, PinsOK, OffersOK, LeavesOK, OnlyConfirmedCerts
  <1>7. QED BY <1>1, <1>2, <1>3, <1>4, <1>5, <1>6 DEF Next

LEMMA Invariance == Spec => []IInv
  BY InitIInv, StepIInv, PTL DEF Spec

-----------------------------------------------------------------------------
\* The state of the trust store is well typed, whatever the sites present.
THEOREM TrustTyped == Spec => []TypeOK
  <1>1. IInv => TypeOK
    BY DEF IInv
  <1>2. QED BY <1>1, Invariance, PTL

\* No request is sent over a certificate that neither verifies nor was confirmed
\* for that very host, on a fresh connection or on one from the pool.
THEOREM OnlyConfirmedCertsAreUsed == Spec => []OnlyConfirmedCerts
  <1>1. IInv => OnlyConfirmedCerts
    BY DEF IInv
  <1>2. QED BY <1>1, Invariance, PTL

\* Whatever a form carries, confirm() pins only what a handshake with that host
\* has shown the gateway.
THEOREM OnlyMetCertsArePinned == Spec => []PinsWerePresented
  <1>1. IInv => PinsWerePresented
    BY DEF IInv, PinsOK, PinsWerePresented
  <1>2. QED BY <1>1, Invariance, PTL

\* No user is asked to confirm a certificate that verifies.
THEOREM ValidCertsAreNotOffered == Spec => []OffersAreNeeded
  <1>1. IInv => OffersAreNeeded
    BY DEF IInv, OffersOK, OffersAreNeeded
  <1>2. QED BY <1>1, Invariance, PTL
-----------------------------------------------------------------------------
\* Only a warning and a confirmation touch the offers.
LEMMA OffersChange ==
    [Next]_vars => \/ offered' = offered
                   \/ \E r \in Request : ServeUntrusted(r)
                   \/ \E p \in Confirm, c \in Cert : Accept(p, c)
  BY DEF Next, Proxy, vars, Tick, Swap, Reuse, Handshake, Verify, Finish, DropIdle, Reject,
         trust

\* An offer goes when it is stale or confirmed; warnings about other hosts leave it.
THEOREM OffersStay == Spec => OffersLast
  <1>1. IInv /\ [Next]_vars
          => [\A h \in DOMAIN offered :
                h \notin DOMAIN offered' =>
                    ~Current(offered[h]) \/ pinned'[h] = offered[h].fingerprint]_vars
    <2> SUFFICES ASSUME IInv, [Next]_vars,
                        NEW h \in DOMAIN offered, h \notin DOMAIN offered',
                        Current(offered[h])
                 PROVE  pinned'[h] = offered[h].fingerprint
      OBVIOUS
    <2>1. ASSUME NEW r \in Request, ServeUntrusted(r)
          PROVE  FALSE
      BY <2>1 DEF ServeUntrusted, Offered
    <2>2. ASSUME NEW p \in Confirm, NEW c \in Cert, Accept(p, c)
          PROVE  pinned'[h] = offered[h].fingerprint
      <3>1. h = host[p] /\ h \in Host
        BY <2>2, TrustAssumption DEF Accept, Acceptable, IInv, TypeOK, Post
      <3>2. QED BY <2>2, <3>1 DEF Accept, Acceptable, IInv, TypeOK
    <2>3. QED BY <2>1, <2>2, OffersChange
  <1>2. QED BY <1>1, Invariance, PTL DEF Spec, OffersLast
=============================================================================
