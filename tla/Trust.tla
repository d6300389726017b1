------------------------------- MODULE Trust --------------------------------
(***************************************************************************)
(* Upstream certificates that do not verify: webvpn/tls.go. The dialer     *)
(* fails the request, the error handler records an offer and shows the     *)
(* certificate, a user confirms it, and that exact certificate is pinned   *)
(* for that host, in memory.                                               *)
(*                                                                         *)
(* The handshake, the look into the pins and the offer are steps of their  *)
(* own: the site may swap its certificate and other users may be shown     *)
(* pages and confirm in between. A connection that passed stays in         *)
(* http.Transport's pool.                                                  *)
(***************************************************************************)
EXTENDS Integers, FiniteSets

CONSTANTS
    Host,      \* targets, as host:port
    Cert,      \* certificates
    Valid,     \* [Host -> the certificates that verify for it]
    Request,   \* proxied requests
    Confirm,   \* POST of the confirmation form
    NoCert,    \* no certificate yet
    OfferTTL,  \* the lifetime of an offer
    MaxSwap,   \* bound: how often a site changes its certificate
    MaxTime    \* bound: last clock value

ASSUME TrustAssumption ==
    /\ Valid \in [Host -> SUBSET Cert]
    /\ NoCert \notin Cert
    /\ Request \cap Confirm = {}
    /\ OfferTTL \in Nat /\ MaxSwap \in Nat /\ MaxTime \in Nat

VARIABLES
    clock,      \* the time trustStore.now() reads
    cert,       \* [Host -> the certificate its site presents]
    swaps,      \* counts certificate changes, up to MaxSwap
    pinned,     \* trustStore.pinned: [Host -> Cert, or NoCert]
    offered,    \* trustStore.offered: host -> [fingerprint, seen]
    pool,       \* idle upstream connections: {[host, cert]}
    pc,         \* [Request \cup Confirm -> the step it runs next]
    host,       \* [Request \cup Confirm -> the target]
    leaf,       \* [Request \cup Confirm -> the certificate of its connection,
                \*  or of the form that is posted]
    presented,  \* history: the {<<host, cert>>} the gateway met in a handshake
    confirmed   \* history: the {<<host, cert>>} a user has confirmed

vars == <<clock, cert, swaps, pinned, offered, pool, pc, host, leaf,
          presented, confirmed>>
site  == <<cert, swaps>>
trust == <<pinned, offered>>

Post == Request \cup Confirm

TypeOK ==
    /\ clock \in 0..MaxTime
    /\ cert \in [Host -> Cert]
    /\ swaps \in 0..MaxSwap
    /\ pinned \in [Host -> Cert \cup {NoCert}]
    /\ DOMAIN offered \subseteq Host
    /\ \A h \in DOMAIN offered : offered[h] \in [fingerprint : Cert, seen : 0..clock]
    /\ pool \subseteq [host : Host, cert : Cert]
    /\ pc \in [Post -> {"idle", "verify", "failed", "send", "done"}]
    /\ host \in [Post -> Host]
    /\ leaf \in [Post -> Cert \cup {NoCert}]
    /\ presented \subseteq Host \X Cert
    /\ confirmed \subseteq Host \X Cert

Init ==
    /\ clock = 0
    /\ cert \in [Host -> Cert]
    /\ swaps = 0
    /\ pinned = [h \in Host |-> NoCert]
    /\ offered = [h \in {} |-> 0]
    /\ pool = {}
    /\ pc = [p \in Post |-> "idle"]
    /\ host \in [Post -> Host]
    /\ leaf = [p \in Post |-> NoCert]
    /\ presented = {} /\ confirmed = {}

Goto(p, l) == pc' = [pc EXCEPT ![p] = l]

-----------------------------------------------------------------------------
Tick ==
    /\ clock < MaxTime
    /\ clock' = clock + 1
    /\ UNCHANGED <<site, trust, pool, pc, host, leaf, presented, confirmed>>

\* The site is given another certificate; its open connections stay as they are.
Swap(h, c) ==
    /\ swaps < MaxSwap /\ c # cert[h]
    /\ swaps' = swaps + 1
    /\ cert' = [cert EXCEPT ![h] = c]
    /\ UNCHANGED <<clock, trust, pool, pc, host, leaf, presented, confirmed>>

-----------------------------------------------------------------------------
\* dialTLS: the handshake fixes the certificate, the pin is read afterwards.

Reuse(r) ==
    /\ r \in Request /\ pc[r] = "idle"
    /\ \E c \in pool :
         /\ c.host = host[r]
         /\ pool' = pool \ {c}
         /\ leaf' = [leaf EXCEPT ![r] = c.cert]
    /\ Goto(r, "send")
    /\ UNCHANGED <<clock, site, trust, host, presented, confirmed>>

Handshake(r) ==
    /\ r \in Request /\ pc[r] = "idle"
    /\ leaf' = [leaf EXCEPT ![r] = cert[host[r]]]
    /\ presented' = presented \cup {<<host[r], cert[host[r]]>>}
    /\ Goto(r, "verify")
    /\ UNCHANGED <<clock, site, trust, pool, host, confirmed>>

\* Variants named "...Bug" are plausible slips of the definition that follows
\* them; nothing uses them but the mutation checks.
TrustedBug(h, c) == pinned[h] # NoCert
Trusted(h, c) == pinned[h] = c

PassesBug(h, c) == IF pinned[h] = NoCert THEN c \in Valid[h] ELSE Trusted(h, c)
Passes(h, c) == c \in Valid[h] \/ Trusted(h, c)

Verify(r) ==
    /\ r \in Request /\ pc[r] = "verify"
    /\ Goto(r, IF Passes(host[r], leaf[r]) THEN "send" ELSE "failed")
    /\ UNCHANGED <<clock, site, trust, pool, host, leaf, presented, confirmed>>

Finish(r, keep) ==
    /\ r \in Request /\ pc[r] = "send"
    /\ pool' = IF keep THEN pool \cup {[host |-> host[r], cert |-> leaf[r]]} ELSE pool
    /\ Goto(r, "done")
    /\ UNCHANGED <<clock, site, trust, host, leaf, presented, confirmed>>

DropIdle(c) ==
    /\ pool' = pool \ {c}
    /\ UNCHANGED <<clock, site, trust, pc, host, leaf, presented, confirmed>>

\* serveUntrusted: offer() forgets what is stale and replaces what the host had
\* on offer. The page, or the line of text a sub-resource gets, keeps no state.
Current(o) == clock - o.seen <= OfferTTL

OfferedBug(h, c) ==
    [k \in {h} |-> [fingerprint |-> c, seen |-> clock]]
Offered(h, c) ==
    [k \in {k \in DOMAIN offered : Current(offered[k])} \cup {h} |->
        IF k = h THEN [fingerprint |-> c, seen |-> clock] ELSE offered[k]]

ServeUntrusted(r) ==
    /\ r \in Request /\ pc[r] = "failed"
    /\ offered' = Offered(host[r], leaf[r])
    /\ Goto(r, "done")
    /\ UNCHANGED <<clock, site, pinned, pool, host, leaf, presented, confirmed>>

-----------------------------------------------------------------------------
\* serveTrust: a form with a host and a fingerprint, which need not be those of
\* any page. confirm() looks at the offer, drops it and pins.

AcceptableBug(h, c) == h \in DOMAIN offered
Acceptable(h, c) ==
    /\ h \in DOMAIN offered
    /\ offered[h].fingerprint = c
    /\ Current(offered[h])

Accept(p, c) ==
    /\ p \in Confirm /\ pc[p] = "idle"
    /\ Acceptable(host[p], c)
    /\ offered' = [k \in DOMAIN offered \ {host[p]} |-> offered[k]]
    /\ pinned' = [pinned EXCEPT ![host[p]] = c]
    /\ leaf' = [leaf EXCEPT ![p] = c]
    /\ confirmed' = confirmed \cup {<<host[p], c>>}
    /\ Goto(p, "done")
    /\ UNCHANGED <<clock, site, pool, host, presented>>

Reject(p, c) ==
    /\ p \in Confirm /\ pc[p] = "idle"
    /\ ~Acceptable(host[p], c)
    /\ leaf' = [leaf EXCEPT ![p] = c]
    /\ Goto(p, "done")
    /\ UNCHANGED <<clock, site, trust, pool, host, presented, confirmed>>

-----------------------------------------------------------------------------
Proxy(r) == Reuse(r) \/ Handshake(r) \/ Verify(r) \/ ServeUntrusted(r)
                \/ \E keep \in BOOLEAN : Finish(r, keep)

Next ==
    \/ Tick
    \/ \E h \in Host, c \in Cert : Swap(h, c)
    \/ \E r \in Request : Proxy(r)
    \/ \E c \in pool : DropIdle(c)
    \/ \E p \in Confirm, c \in Cert : Accept(p, c) \/ Reject(p, c)

Spec == Init /\ [][Next]_vars

-----------------------------------------------------------------------------
\* "remembers that exact certificate rather than disabling verification for the
\* host. A swapped certificate stops the traffic again": whatever a request is
\* sent over, or waits in the pool, verifies or was confirmed for that host.
OnlyConfirmedCerts ==
    /\ \A r \in Request : pc[r] = "send" =>
          leaf[r] \in Valid[host[r]] \/ <<host[r], leaf[r]>> \in confirmed
    /\ \A c \in pool : c.cert \in Valid[c.host] \/ <<c.host, c.cert>> \in confirmed

\* "pins a certificate, but only one this gateway actually offered": what is
\* pinned for a host is a certificate the gateway itself met there, whatever
\* host and fingerprint the form carries and whatever was offered since.
PinsWerePresented ==
    \A h \in Host : pinned[h] # NoCert => <<h, pinned[h]>> \in presented

\* A certificate that verifies is never put up for confirmation.
OffersAreNeeded ==
    \A h \in DOMAIN offered : offered[h].fingerprint \notin Valid[h]

\* The page shown last for a host stays good for OfferTTL: warnings about other
\* hosts do not cancel it. It ends with a confirmation or with a newer warning
\* about the same host.
OffersLast ==
    [][\A h \in DOMAIN offered :
          h \notin DOMAIN offered' =>
              ~Current(offered[h]) \/ pinned'[h] = offered[h].fingerprint]_vars
=============================================================================
