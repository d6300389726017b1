--------------------------- MODULE RoutingProofs ----------------------------
(***************************************************************************)
(* Proofs about the way of requests: the cache of the addressing scheme,   *)
(* the types of everything the scheme turns addresses into, the pages of   *)
(* the gateway itself, the targets addresses lead to, what parameters      *)
(* carry, and settings saved on the way.                                   *)
(*                                                                         *)
(* InForce speaks of answers only. It is kept because what is cached is    *)
(* always what its own key builds, so that a hit answers for the settings  *)
(* the caller has read, and because those settings were in force after     *)
(* the call began; CacheInv says both.                                     *)
(*                                                                         *)
(* TypeOK needs no strengthening but the typing of what a caller got,      *)
(* which CacheInv gives: an answer is the codec of some settings, or the   *)
(* fallback. The work is in the operators: each function of the codecs,    *)
(* of the shim and of the restoration is shown to turn addresses into      *)
(* addresses, whatever names, ports and paths they are made of.            *)
(*                                                                         *)
(* What an address is written as is read as that address again:            *)
(* TargetsComeBack, which no state is needed for. Its hard part is         *)
(* LabelsComeBack, decodeLabel after encodeLabel: where each token of the  *)
(* name lies in the label is a function of the prefixes of the name, and   *)
(* decodeLabel's pairing of hyphens is shown to close exactly the pairs    *)
(* encodeLabel wrote, from the left, because no label of a proper name     *)
(* begins with a hyphen.                                                   *)
(*                                                                         *)
(* PortalAnswers speaks of requests that have ended. PortalInv says where  *)
(* they can be before: until the console saves, the one address of the     *)
(* gateway's own that its routes do not take at once is the portal's page, *)
(* and no scheme claims that one for a site. That no page of the gateway's *)
(* own is read as the address of a site rests on the codecs and on the     *)
(* shim writing the same addresses, which is what the lemmas about pages   *)
(* say.                                                                    *)
(*                                                                         *)
(* ReachesItsTarget, too, speaks of requests that have ended. WayInv       *)
(* follows one from its page: the address names the target, by itself or   *)
(* with another folded in, or it is a path astray that the page it came    *)
(* from explains (WrittenWell, kind by kind); each hop turns an address    *)
(* that names the target into the target or into another address that      *)
(* names it.                                                               *)
(*                                                                         *)
(* RestoredExactly needs little of the state. ParamInv says that a         *)
(* parameter stays as the page wrote it up to the step that restores it,   *)
(* and for good where the console has restoration off; that realAddress    *)
(* otherwise gives back what the disguise was made from, to the character, *)
(* is a matter of the operators.                                           *)
(*                                                                         *)
(* NeverElsewhere may not speak of the settings in force: a request        *)
(* written under some is read under others. HeadingInv says where it can   *)
(* be whatever they are: each of the codecs in play (InPlay) reads its     *)
(* address as the target, or as one more address with the target folded    *)
(* in, or not at all.                                                      *)
(***************************************************************************)
EXTENDS Routing, SequenceTheorems, WellFoundedInduction, TLAPS

-----------------------------------------------------------------------------
(* The cache *)

\* What is cached is what its key builds.
CacheSound == cache # NoCodec => cache.key \in DOMAIN Build /\ cache.codec = Build[cache.key]

\* A call under way holds settings that were in force since it began, and has
\* not answered yet.
CallSound ==
    \A p \in Caller : step[p] # "idle" => read[p] \in during[p] /\ got[p] = NoCodec

CacheInv == CacheTypeOK /\ CacheSound /\ CallSound /\ InForce

LEMMA CacheInitInv == CacheInit => CacheInv
<1> SUFFICES ASSUME CacheInit PROVE CacheInv
    OBVIOUS
<1>1. CacheTypeOK
    BY CodecCacheAssumption DEF CacheInit, CacheTypeOK
<1>2. CacheSound /\ CallSound /\ InForce
    BY DEF CacheInit, CacheSound, CallSound, InForce
<1>3. QED
    BY <1>1, <1>2 DEF CacheInv

LEMMA ReadInv == ASSUME NEW p \in Caller, CacheInv, Read(p) PROVE CacheInv'
<1> USE DEF CacheInv
<1>1. CacheTypeOK'
    BY DEF CacheTypeOK, Read
<1>2. CacheSound'
    BY DEF CacheSound, Read
<1>3. CallSound'
    BY DEF CallSound, CacheTypeOK, Read
<1>4. InForce'
    BY DEF InForce, CacheTypeOK, Read
<1>5. QED
    BY <1>1, <1>2, <1>3, <1>4

\* A hit answers what the settings read build, and those are in during.
LEMMA CompareInv == ASSUME NEW p \in Caller, CacheInv, Compare(p) PROVE CacheInv'
<1> USE DEF CacheInv
<1>1. Hit(read[p]) => cache.codec = Answer(read[p]) /\ cache.codec \in Codec
    BY CodecCacheAssumption DEF Hit, Answer, CacheSound
<1>2. CacheTypeOK'
    BY <1>1 DEF CacheTypeOK, Compare
<1>3. CacheSound'
    BY DEF CacheSound, Compare
<1>4. CallSound'
    BY DEF CallSound, CacheTypeOK, Compare
<1>5. InForce'
    <2> SUFFICES ASSUME NEW q \in Caller, got'[q] # NoCodec
                 PROVE \E s \in during'[q] : got'[q] = Answer(s)
        BY DEF InForce
    <2>1. CASE q = p /\ Hit(read[p])
        <3>1. got'[p] = Answer(read[p])
            BY <1>1, <2>1 DEF Compare, CacheTypeOK
        <3>2. read[p] \in during'[p]
            BY DEF Compare, CallSound
        <3>3. QED
            BY <2>1, <3>1, <3>2
    <2>2. CASE ~(q = p /\ Hit(read[p]))
        <3>1. got'[q] = got[q] /\ during' = during
            BY <2>2 DEF Compare, CacheTypeOK
        <3>2. QED
            BY <3>1 DEF InForce
    <2>3. QED
        BY <2>1, <2>2
<1>6. QED
    BY <1>2, <1>3, <1>4, <1>5

LEMMA StoreInv == ASSUME NEW p \in Caller, CacheInv, Store(p) PROVE CacheInv'
<1> USE DEF CacheInv
<1>1. read[p] \in Settings /\ Answer(read[p]) \in Codec
    BY CodecCacheAssumption DEF CacheTypeOK, Answer
<1>2. CacheTypeOK'
    <2>1. cache' \in {NoCodec} \cup [key : DOMAIN Build, codec : Codec]
        BY CodecCacheAssumption DEF CacheTypeOK, Store, Built
    <2>2. QED
        BY <1>1, <2>1 DEF CacheTypeOK, Store
<1>3. CacheSound'
    BY DEF CacheSound, Store, Built
<1>4. CallSound'
    BY DEF CallSound, CacheTypeOK, Store
<1>5. InForce'
    <2> SUFFICES ASSUME NEW q \in Caller, got'[q] # NoCodec
                 PROVE \E s \in during'[q] : got'[q] = Answer(s)
        BY DEF InForce
    <2>1. CASE q = p
        <3>1. got'[p] = Answer(read[p]) /\ read[p] \in during'[p]
            BY DEF Store, CacheTypeOK, CallSound
        <3>2. QED
            BY <2>1, <3>1
    <2>2. CASE q # p
        <3>1. got'[q] = got[q] /\ during' = during
            BY <2>2 DEF Store, CacheTypeOK
        <3>2. QED
            BY <3>1 DEF InForce
    <2>3. QED
        BY <2>1, <2>2
<1>6. QED
    BY <1>2, <1>3, <1>4, <1>5

\* An edit only adds to during.
LEMMA EditInv == ASSUME NEW new \in Settings, CacheInv, Edit(new) PROVE CacheInv'
<1> USE DEF CacheInv
<1>1. \A p \in Caller : during[p] \subseteq during'[p] /\ during'[p] \subseteq Settings
    BY DEF Edit, CacheTypeOK
<1>2. CacheTypeOK'
    <2>1. edits' \in 0..MaxEdit
        BY CodecCacheAssumption DEF CacheTypeOK, Edit
    <2>2. during' \in [Caller -> SUBSET Settings]
        BY <1>1 DEF Edit, CacheTypeOK
    <2>3. QED
        BY <2>1, <2>2 DEF CacheTypeOK, Edit
<1>3. CacheSound' /\ CallSound'
    BY <1>1 DEF CacheSound, CallSound, Edit
<1>4. InForce'
    BY <1>1 DEF InForce, Edit
<1>5. QED
    BY <1>2, <1>3, <1>4

LEMMA CacheNextInv == CacheInv /\ [CacheNext]_cacheVars => CacheInv'
<1> SUFFICES ASSUME CacheInv, [CacheNext]_cacheVars PROVE CacheInv'
    OBVIOUS
<1>1. ASSUME NEW p \in Caller, Read(p) PROVE CacheInv'
    BY <1>1, ReadInv
<1>2. ASSUME NEW p \in Caller, Compare(p) PROVE CacheInv'
    BY <1>2, CompareInv
<1>3. ASSUME NEW p \in Caller, Store(p) PROVE CacheInv'
    BY <1>3, StoreInv
<1>4. ASSUME NEW new \in Settings, Edit(new) PROVE CacheInv'
    BY <1>4, EditInv
<1>5. CASE UNCHANGED cacheVars
    BY <1>5 DEF CacheInv, CacheTypeOK, CacheSound, CallSound, InForce, cacheVars
<1>6. QED
    BY <1>1, <1>2, <1>3, <1>4, <1>5 DEF CacheNext

\* The variables keep their types, and what is cached is what its key builds:
\* an older build stored late is stored under its own key (codecCache.get).
THEOREM CacheInvariant == CacheSpec => []CacheInv
    BY CacheInitInv, CacheNextInv, PTL DEF CacheSpec

\* Every answer of the cache is a scheme in force at some moment of the call,
\* whatever the console saves meanwhile and whoever else asks.
THEOREM AnswersAreInForce == CacheSpec => []InForce
<1>1. CacheInv => InForce
    BY DEF CacheInv
<1>2. QED
    BY <1>1, CacheInvariant, PTL

-----------------------------------------------------------------------------
\* Every step of Routing is one of CodecCache or leaves the cache alone.

\* A step of a request asks the cache or leaves it alone.
LEMMA ServeAsks ==
    ASSUME NEW r \in Request, Serve(r)
    PROVE  Read(r) \/ UNCHANGED cacheVars
<1>1. CASE Arrive(r)
    BY <1>1 DEF Arrive, Proxy
<1>2. CASE Matched(r)
    BY <1>2 DEF Matched
<1>3. CASE Decoded(r)
    BY <1>3 DEF Decoded, Proxy
<1>4. CASE Unwrapped(r)
    BY <1>4 DEF Unwrapped
<1>5. CASE Redirected(r)
    BY <1>5 DEF Redirected
<1>6. CASE Strayed(r)
    BY <1>6 DEF Strayed
<1>7. CASE Rewritten(r)
    BY <1>7 DEF Rewritten
<1>8. CASE Restored(r)
    BY <1>8 DEF Restored
<1>9. QED
    BY <1>1, <1>2, <1>3, <1>4, <1>5, <1>6, <1>7, <1>8 DEF Serve

LEMMA StepAsks == [Next]_vars => [CacheNext]_cacheVars
<1> SUFFICES ASSUME [Next]_vars PROVE [CacheNext]_cacheVars
    OBVIOUS
<1>1. ASSUME NEW r \in Request, Serve(r) PROVE [CacheNext]_cacheVars
    <2>1. r \in Caller
        BY RoutingAssumption
    <2>2. QED
        BY <1>1, <2>1, ServeAsks DEF CacheNext
<1>2. CASE Asking
    BY <1>2 DEF Asking, CacheNext
<1>3. CASE Saving
    BY <1>3 DEF Saving, CacheNext
<1>4. CASE UNCHANGED vars
    BY <1>4 DEF vars
<1>5. QED
    BY <1>1, <1>2, <1>3, <1>4 DEF Next

\* Routing implements CodecCache: ServeHTTP, serveProxy, serveStray and
\* rewriteRequest change nothing of codecCache but by calling get.
THEOREM RoutingImplementsCache == Spec => CacheSpec
<1>1. Init => CacheInit
    BY DEF Init
<1>2. QED
    BY <1>1, StepAsks, PTL DEF Spec, CacheSpec

\* So the scheme each step of a request works with was in force while that
\* step asked for it.
THEOREM RequestsGetTheSchemeInForce == Spec => []InForce
    BY RoutingImplementsCache, AnswersAreInForce, PTL

-----------------------------------------------------------------------------
(* Sequences *)

\* Induction for a set of numbers.
LEMMA SetInduction ==
    ASSUME NEW S, 0 \in S, \A n \in Nat : n \in S => n + 1 \in S
    PROVE  Nat \subseteq S
  <1> DEFINE Less == {p \in Nat \X Nat : p[1] < p[2]}
  <1> DEFINE Rest == Nat \ S
  <1>1. IsWellFoundedOn(Less, Nat)
    BY NatLessThanWellFounded DEF OpToRel
  <1>2. Rest \subseteq Nat
    OBVIOUS
  <1> HIDE DEF Less
  <1>3. ASSUME Rest # {} PROVE FALSE
    <2>1. PICK x \in Rest : \A y \in Rest : ~ (<<y, x>> \in Less)
      <3> HIDE DEF Rest
      <3> QED BY <1>1, <1>2, <1>3, WFMin
    <2>2. x \in Nat /\ x # 0 /\ x - 1 \in Nat /\ x = (x - 1) + 1
      OBVIOUS
    <2>3. x - 1 \in Rest
      BY <2>2
    <2>4. <<x - 1, x>> \in Less
      BY <2>2 DEF Less
    <2>5. QED BY <2>1, <2>3, <2>4
  <1>4. QED BY <1>3

\* FlattenSeq of a sequence that is not empty, prefix by prefix.
Flattens(flat, parts) ==
    flat = [i \in 1..Len(parts) |-> IF i = 1 THEN parts[i] ELSE flat[i - 1] \o parts[i]]

LEMMA FlattenMeans ==
    ASSUME NEW S, NEW parts \in Seq(Seq(S)), parts # << >>
    PROVE  \E flat \in [1..Len(parts) -> Seq(S)] :
              /\ flat[1] = parts[1]
              /\ \A i \in 1..Len(parts) : i # 1 => flat[i] = flat[i - 1] \o parts[i]
              /\ FlattenSeq(parts) = flat[Len(parts)]
  <1> DEFINE Begun == {n \in Nat : n \in 1..Len(parts) =>
                 \E g \in [1..n -> Seq(S)] :
                    \A i \in 1..n : g[i] = IF i = 1 THEN parts[i] ELSE g[i - 1] \o parts[i]}
  <1>1. Len(parts) \in Nat \ {0} /\ \A i \in 1..Len(parts) : parts[i] \in Seq(S)
    BY EmptySeq, ElementOfSeq, LenProperties
  <1>2. 0 \in Begun
    OBVIOUS
  <1>3. ASSUME NEW n \in Nat, n \in Begun PROVE n + 1 \in Begun
    <2> SUFFICES ASSUME n + 1 \in 1..Len(parts)
                 PROVE  \E g \in [1..(n + 1) -> Seq(S)] :
                           \A i \in 1..(n + 1) : g[i] = IF i = 1 THEN parts[i] ELSE g[i - 1] \o parts[i]
      OBVIOUS
    <2>1. CASE n = 0
      <3> DEFINE g == [i \in 1..(n + 1) |-> parts[1]]
      <3>1. g \in [1..(n + 1) -> Seq(S)]
        BY <1>1
      <3>2. \A i \in 1..(n + 1) : i = 1 /\ g[i] = parts[i]
        BY <2>1
      <3>3. QED BY <3>1, <3>2
    <2>2. CASE n # 0
      <3>1. PICK g \in [1..n -> Seq(S)] :
               \A i \in 1..n : g[i] = IF i = 1 THEN parts[i] ELSE g[i - 1] \o parts[i]
        <4>1. n \in 1..Len(parts)
          BY <1>1, <2>2
        <4>2. QED BY <1>3, <4>1, Zenon
      <3> DEFINE h == [i \in 1..(n + 1) |-> IF i \in 1..n THEN g[i] ELSE g[n] \o parts[n + 1]]
      <3>2. g[n] \o parts[n + 1] \in Seq(S)
        BY <1>1, <2>2, ConcatProperties
      <3>3. h \in [1..(n + 1) -> Seq(S)]
        BY <3>2
      <3>4. ASSUME NEW i \in 1..(n + 1) PROVE h[i] = IF i = 1 THEN parts[i] ELSE h[i - 1] \o parts[i]
        <4>1. CASE i = n + 1
          BY <2>2, <4>1
        <4>2. CASE i \in 1..n
          <5>1. h[i] = g[i] /\ (i = 1 \/ h[i - 1] = g[i - 1])
            <6>1. i = 1 \/ i - 1 \in 1..n
              BY <4>2
            <6>2. i - 1 \in 1..n => i - 1 \in 1..(n + 1)
              OBVIOUS
            <6>3. \A j \in 1..(n + 1) : j \in 1..n => h[j] = g[j]
              OBVIOUS
            <6> HIDE DEF h
            <6>4. QED BY <4>2, <6>1, <6>2, <6>3
          <5> HIDE DEF h
          <5>2. QED BY <3>1, <4>2, <5>1
        <4>3. QED BY <4>1, <4>2
      <3>5. QED BY <3>3, <3>4
    <2>3. QED BY <2>1, <2>2
  <1>4. Len(parts) \in Begun
    <2> HIDE DEF Begun
    <2> QED BY <1>1, <1>2, <1>3, SetInduction
  <1>5. PICK g \in [1..Len(parts) -> Seq(S)] :
           \A i \in 1..Len(parts) : g[i] = IF i = 1 THEN parts[i] ELSE g[i - 1] \o parts[i]
    <2>1. Len(parts) \in 1..Len(parts)
      BY <1>1
    <2>2. QED BY <1>4, <2>1, Zenon
  <1>6. Flattens(g, parts)
    BY <1>5 DEF Flattens
  <1> DEFINE f == CHOOSE flat : Flattens(flat, parts)
  <1>7. Flattens(f, parts)
    BY <1>6
  <1>8. FlattenSeq(parts) = f[Len(parts)]
    BY <1>1 DEF FlattenSeq, Flattens
  <1> HIDE DEF f
  <1>9. f = [i \in 1..Len(parts) |-> IF i = 1 THEN parts[i] ELSE f[i - 1] \o parts[i]]
    BY <1>7 DEF Flattens
  <1>14. \A i \in 1..Len(parts) : f[i] = IF i = 1 THEN parts[i] ELSE f[i - 1] \o parts[i]
    BY <1>9, Zenon
  <1>15. f = [i \in 1..Len(parts) |-> f[i]]
    BY <1>9, Zenon
  <1> DEFINE Typed == {n \in Nat : n \in 1..Len(parts) => f[n] \in Seq(S)}
  <1>10. 0 \in Typed
    OBVIOUS
  <1>11. ASSUME NEW n \in Nat, n \in Typed PROVE n + 1 \in Typed
    <2> SUFFICES ASSUME n + 1 \in 1..Len(parts) PROVE f[n + 1] \in Seq(S)
      OBVIOUS
    <2>1. CASE n = 0
      BY <1>1, <1>14, <2>1
    <2>2. CASE n # 0
      <3>3. n \in 1..Len(parts) /\ n + 1 # 1 /\ (n + 1) - 1 = n
        BY <1>1, <2>2
      <3>4. f[n] \in Seq(S)
        BY <1>11, <3>3
      <3>5. f[n + 1] = f[n] \o parts[n + 1]
        BY <1>14, <3>3
      <3>1. f[n] \in Seq(S) /\ parts[n + 1] \in Seq(S) /\ f[n + 1] = f[n] \o parts[n + 1]
        BY <1>1, <3>4, <3>5
      <3>2. QED BY <3>1, ConcatProperties
    <2>3. QED BY <2>1, <2>2
  <1>12. \A n \in 1..Len(parts) : f[n] \in Seq(S)
    <2>1. Nat \subseteq Typed
      <3> HIDE DEF Typed
      <3> QED BY <1>10, <1>11, SetInduction
    <2>2. QED BY <1>1, <2>1
  <1>16. 1 \in 1..Len(parts)
    BY <1>1
  <1>17. f \in [1..Len(parts) -> Seq(S)]
    BY <1>12, <1>15, Zenon
  <1>18. f[1] = parts[1] /\ \A i \in 1..Len(parts) : i # 1 => f[i] = f[i - 1] \o parts[i]
    BY <1>14, <1>16, Zenon
  <1>13. QED BY <1>8, <1>17, <1>18

\* Sequences and their elements.
LEMMA Concats == ASSUME NEW S, NEW s \in Seq(S), NEW t \in Seq(S) PROVE s \o t \in Seq(S)
  BY ConcatProperties

\* Parts of a sequence are sequences.
LEMMA Parts ==
  ASSUME NEW S, NEW s \in Seq(S), NEW i \in Nat \ {0}
  PROVE  /\ From(s, i) \in Seq(S)
         /\ \A j \in Int : j <= Len(s) => SubSeq(s, i, j) \in Seq(S)
         /\ Front(s) \in Seq(S)
         /\ s # << >> => Tail(s) \in Seq(S)
  <1>1. Len(s) \in Nat /\ (Len(s) = 0 => s = << >>) /\ \A n \in 1..Len(s) : s[n] \in S
    BY LenProperties, ElementOfSeq, EmptySeq
  <1>2. ASSUME NEW j \in Int, NEW m \in Nat \ {0}, j <= Len(s) PROVE SubSeq(s, m, j) \in Seq(S)
    <2>1. \A n \in m..j : s[n] \in S
      BY <1>1, <1>2
    <2>2. QED BY <2>1, SubSeqProperties
  <1>3. From(s, i) \in Seq(S) /\ Front(s) \in Seq(S)
    BY <1>1, <1>2 DEF From, Front
  <1>4. s # << >> => Tail(s) \in Seq(S)
    BY HeadTailProperties
  <1>5. QED BY <1>2, <1>3, <1>4

LEMMA FromTyped == ASSUME NEW S, NEW s \in Seq(S), NEW i \in Nat \ {0} PROVE From(s, i) \in Seq(S)
  BY Parts

LEMMA Element ==
  ASSUME NEW S, NEW s \in Seq(S), NEW n \in Nat \ {0}, Len(s) >= n
  PROVE  s[n] \in S
  <1>1. Len(s) \in Nat /\ n \in 1..Len(s)
    BY LenProperties
  <1>2. QED BY <1>1, ElementOfSeq

LEMMA Singles ==
  ASSUME NEW S, NEW x \in S, NEW y \in S, NEW z \in S
  PROVE  <<x>> \in Seq(S) /\ <<x, y>> \in Seq(S) /\ <<x, y, z>> \in Seq(S)
  OBVIOUS

LEMMA Tokens ==
  /\ Ports \subseteq Token /\ SchemeSupported \subseteq Token
  /\ PlainPrefix \in Name /\ Root \in Path /\ Root # << >>
  <1>1. Ports \subseteq Token /\ SchemeSupported \subseteq Token /\ "p" \in Token
    BY AddressingAssumption DEF SchemeSupported
  <1>2. PlainPrefix \in Name
    BY <1>1 DEF PlainPrefix, Name
  <1>3. << >> \in Name
    BY EmptySeq DEF Name
  <1>4. Root \in Path /\ Root # << >>
    BY <1>3 DEF Root, Path
  <1>5. QED BY <1>1, <1>2, <1>4

\* An address with another path.
LEMMA Repathed ==
  ASSUME NEW u \in Address, NEW p
  PROVE  /\ [u EXCEPT !.path = p] = URL(u.scheme, u.host, u.port, p)
         /\ URL(u.scheme, u.host, u.port, p).scheme = u.scheme
         /\ URL(u.scheme, u.host, u.port, p).host = u.host
         /\ URL(u.scheme, u.host, u.port, p).port = u.port
         /\ URL(u.scheme, u.host, u.port, p).path = p
         /\ p \in Path => [u EXCEPT !.path = p] \in Address
  <1>1. [u EXCEPT !.path = p] = URL(u.scheme, u.host, u.port, p)
    <2> DEFINE AnyPort == Ports \cup {""}
    <2>1. u \in [scheme : SchemeSupported, host : Name, port : AnyPort, path : Path]
      BY DEF Address
    <2> HIDE DEF AnyPort
    <2>2. [u EXCEPT !.path = p] = [scheme |-> u.scheme, host |-> u.host, port |-> u.port, path |-> p]
      BY <2>1
    <2>3. QED BY <2>2 DEF URL
  <1>2. \A a, b, c : LET v == URL(a, b, c, p) IN v.scheme = a /\ v.host = b /\ v.port = c /\ v.path = p
    BY DEF URL
  <1>3. p \in Path => URL(u.scheme, u.host, u.port, p) \in Address
    BY DEF URL, Address
  <1>4. QED BY <1>1, <1>2, <1>3

\* appendPathQuery, the host and port of PlainCodec, and its path.
LEMMA PathOfTyped == ASSUME NEW u \in Address PROVE PathOf(u) \in Path /\ PathOf(u) # << >>
  BY Tokens DEF PathOf, Address

LEMMA HostPortTyped == ASSUME NEW u \in Address PROVE HostPort(u) \in Name
  <1>1. CASE u.port = ""
    BY <1>1 DEF HostPort, Address
  <1>2. CASE u.port # ""
    <2>1. u.port \in Token /\ ":" \in Token /\ u.host \in Name
      BY AddressingAssumption, <1>2 DEF Address
    <2>2. <<":", u.port>> \in Name
      BY <2>1, Singles DEF Name
    <2>3. QED BY <1>2, <2>1, <2>2, Concats DEF HostPort, Name
  <1>3. QED BY <1>1, <1>2

LEMMA PlainEncodeTyped ==
  ASSUME NEW u \in Address
  PROVE  \E path \in Path \ {<< >>} : PlainEncode(u) = {PathRef(path)}
  <1> DEFINE head == <<PlainPrefix, <<u.scheme>>, HostPort(u)>>
  <1>1. head \in Path
    <2>1. u.scheme \in Token
      BY Tokens DEF Address
    <2>2. <<u.scheme>> \in Name
      BY <2>1, Singles DEF Name
    <2>3. QED BY <2>2, Tokens, HostPortTyped, Singles DEF Path
  <1>2. head \o PathOf(u) \in Path \ {<< >>}
    <2> HIDE DEF head
    <2>1. PathOf(u) \in Path /\ PathOf(u) # << >>
      BY PathOfTyped
    <2>2. QED BY <1>1, <2>1, ConcatEqualIffEmpty, Concats DEF Path
  <1>3. PlainEncode(u) = {PathRef(head \o PathOf(u))}
    BY DEF PlainEncode
  <1> HIDE DEF head
  <1>4. QED BY <1>2, <1>3

-----------------------------------------------------------------------------
(* The codecs write addresses *)

\* The codecs there are.
AnyCodec ==
    {PlainCodec, WRDCodec} \cup
    [mode : {"subdomain"}, base : Name, portal : Name, port : Ports \cup {""}, tls : BOOLEAN]

\* Which codec is which.
LEMMA Modes ==
  ASSUME NEW c \in AnyCodec
  PROVE  /\ (c.mode = "plain" /\ c = PlainCodec) \/ (c.mode = "wrd" /\ c = WRDCodec) \/ c.mode = "subdomain"
         /\ c.mode = "subdomain" =>
              /\ c \in [mode : {"subdomain"}, base : Name, portal : Name, port : Ports \cup {""}, tls : BOOLEAN]
              /\ c.base \in Name /\ c.portal \in Name /\ c.port \in Ports \cup {""} /\ c.tls \in BOOLEAN
  <1> DEFINE HostCodecs == [mode : {"subdomain"}, base : Name, portal : Name, port : Ports \cup {""}, tls : BOOLEAN]
  <1>1. CASE c = PlainCodec
    <2>1. c.mode = "plain" /\ c.mode # "subdomain"
      BY <1>1 DEF PlainCodec
    <2>2. QED BY <1>1, <2>1
  <1>2. CASE c = WRDCodec
    <2>1. c.mode = "wrd" /\ c.mode # "subdomain"
      BY <1>2 DEF WRDCodec
    <2>2. QED BY <1>2, <2>1
  <1>3. CASE c \in HostCodecs
    BY <1>3
  <1>4. QED BY <1>1, <1>2, <1>3 DEF AnyCodec

LEMMA CodecsOfSettings ==
  ASSUME NEW s \in Settings
  PROVE  CodecOf(s) \in AnyCodec /\ PortalHost(s) \in Name
  <1>1. s.base \in Name /\ s.host \in Name /\ s.port \in Ports \cup {""} /\ ServeTLS \in BOOLEAN
    BY BuildAssumption, AddressingAssumption
  <1>2. <<"app", ".">> \in Name
    BY BuildAssumption, AddressingAssumption, Singles DEF Name
  <1>3. PortalHost(s) \in Name
    BY <1>1, <1>2, Concats DEF PortalHost, Name
  <1>4. CodecOf(s) \in AnyCodec
    BY <1>1, <1>3 DEF CodecOf, AnyCodec, HostCodec
  <1>5. QED BY <1>3, <1>4

\* codecSecure, EncodedPort and the encoders of the path mode and the WRD mode
\* write addresses and ports.
LEMMA SecureTyped == ASSUME NEW c \in AnyCodec PROVE codecSecure(c) \in AnyCodec
  BY Modes, AddressingAssumption DEF codecSecure, AnyCodec

LEMMA EncodedPortTyped == ASSUME NEW u \in Address PROVE EncodedPort(u) \in Ports \cup {""}
  BY DEF EncodedPort, Address

LEMMA WRDEncodeTyped ==
  ASSUME NEW u \in Address
  PROVE  \E path \in Path \ {<< >>} : WRDEncode(u) = {PathRef(path)}
  <1> DEFINE head == <<WRDScheme(u), <<Hidden>> \o u.host>>
  <1>1. head \in Path
    <2>1. u.scheme \in Token /\ u.host \in Name /\ Hidden \in Token /\ "-" \in Token
      BY Tokens, AddressingAssumption DEF Address, Hidden
    <2>2. WRDScheme(u) \in Name
      <3>1. CASE EncodedPort(u) = ""
        BY <2>1, <3>1, Singles DEF WRDScheme, Name
      <3>2. CASE EncodedPort(u) # ""
        <4>1. u.port \in Token
          BY <3>2, Tokens DEF EncodedPort, Address
        <4>2. QED BY <2>1, <3>2, <4>1, Singles DEF WRDScheme, Name
      <3>3. QED BY <3>1, <3>2
    <2>3. <<Hidden>> \o u.host \in Name
      BY <2>1, Singles, Concats DEF Name
    <2>4. QED BY <2>2, <2>3, Singles DEF Path
  <1>2. head \o PathOf(u) \in Path \ {<< >>}
    <2> HIDE DEF head
    <2>1. PathOf(u) \in Path /\ PathOf(u) # << >>
      BY PathOfTyped
    <2>2. QED BY <1>1, <2>1, ConcatEqualIffEmpty, Concats DEF Path
  <1>3. WRDEncode(u) = {PathRef(head \o PathOf(u))}
    BY DEF WRDEncode
  <1> HIDE DEF head
  <1>4. QED BY <1>2, <1>3

\* A list given by its elements is a sequence, and so is what FlattenSeq and
\* encodeLabel make of one.
LEMMA ListsAreSequences ==
  ASSUME NEW S, NEW n \in Nat, NEW f \in [1..n -> S]
  PROVE  f \in Seq(S) /\ Len(f) = n
  OBVIOUS

LEMMA FlattenTyped ==
  ASSUME NEW S, NEW parts \in Seq(Seq(S))
  PROVE  FlattenSeq(parts) \in Seq(S)
  <1>1. CASE parts = << >>
    <2>1. Len(parts) = 0 /\ << >> \in Seq(S)
      BY <1>1, EmptySeq
    <2>2. QED BY <1>1, <2>1 DEF FlattenSeq
  <1>2. CASE parts # << >>
    <2>1. Len(parts) \in 1..Len(parts)
      BY <1>2, EmptySeq
    <2>2. PICK flat \in [1..Len(parts) -> Seq(S)] : FlattenSeq(parts) = flat[Len(parts)]
      BY <1>2, FlattenMeans
    <2>3. QED BY <2>1, <2>2
  <1>3. QED BY <1>1, <1>2

LEMMA EncodeLabelTyped ==
  ASSUME NEW name \in Name, NEW port \in Ports \cup {""}, NEW tls
  PROVE  encodeLabel(name, port, tls) \in Name
  <1> DEFINE parts == [i \in DOMAIN name |->
                         CASE name[i] = "-" -> <<"-", "-">>
                           [] name[i] = "." -> <<"-">>
                           [] OTHER -> <<name[i]>>]
  <1>1. {"-", "p", "s"} \subseteq Token
    BY AddressingAssumption
  <1>2. parts \in Seq(Name)
    <2>1. DOMAIN name = 1..Len(name) /\ Len(name) \in Nat /\ \A i \in DOMAIN name : name[i] \in Token
      BY LenProperties, ElementOfSeq DEF Name
    <2>2. \A i \in 1..Len(name) : (CASE name[i] = "-" -> <<"-", "-">>
                           [] name[i] = "." -> <<"-">>
                           [] OTHER -> <<name[i]>>) \in Name
      BY <1>1, <2>1, Singles DEF Name
    <2>3. parts \in [1..Len(name) -> Name]
      BY <2>1, <2>2
    <2> HIDE DEF parts
    <2>4. QED BY <2>1, <2>3, ListsAreSequences
  <1>3. FlattenSeq(parts) \in Name
    BY <1>2, FlattenTyped DEF Name
  <1>4. /\ (IF port = "" THEN << >> ELSE <<"-", "p", port>>) \in Name
        /\ (IF tls THEN <<"-", "s">> ELSE << >>) \in Name
    <2>1. port # "" => port \in Token
      BY Tokens
    <2>2. QED BY <1>1, <2>1, Singles, EmptySeq DEF Name
  <1> HIDE DEF parts
  <1>5. FlattenSeq(parts) \o (IF port = "" THEN << >> ELSE <<"-", "p", port>>) \in Name
    BY <1>3, <1>4, Concats DEF Name
  <1>6. FlattenSeq(parts) \o (IF port = "" THEN << >> ELSE <<"-", "p", port>>) \o (IF tls THEN <<"-", "s">> ELSE << >>) \in Name
    BY <1>4, <1>5, Concats DEF Name
  <1>7. QED BY <1>6 DEF encodeLabel, parts

\* A reference: an address, or a path of the page's own.
Reference == Address \cup {PathRef(path) : path \in Path \ {<< >>}}

\* What the codecs write is a reference.
LEMMA GatewaySchemeTyped ==
  ASSUME NEW c \in AnyCodec, NEW scheme PROVE gatewayScheme(c, scheme) \in SchemeSupported
  BY DEF gatewayScheme, SchemeSupported

\* HostCodec.Encode, where it takes the address: a label under the base, or the
\* path form on the portal.
LEMMA HostEncodeTyped ==
  ASSUME NEW c \in AnyCodec, c.mode = "subdomain", NEW u \in Address
  PROVE  \/ HostEncode(c, u) = {} /\ isGatewayHost(c, u.host)
         \/ HostEncode(c, u) = PlainEncode(u)
         \/ \E ref \in Address : HostEncode(c, u) = {ref} /\ ref.path # << >>
  <1> DEFINE label == encodeLabel(u.host, EncodedPort(u), isTLSScheme(u.scheme))
  <1> DEFINE ref == URL(gatewayScheme(c, u.scheme), label \o <<".">> \o c.base, c.port, PathOf(u))
  <1>1. label \in Name
    <2>1. u.host \in Name /\ EncodedPort(u) \in Ports \cup {""}
      BY EncodedPortTyped DEF Address
    <2>2. QED BY <2>1, EncodeLabelTyped
  <1>2. c.base \in Name /\ c.port \in Ports \cup {""} /\ "." \in Token
    BY Modes, AddressingAssumption
  <1> HIDE DEF label
  <1>3. label \o <<".">> \o c.base \in Name
    BY <1>1, <1>2, Singles, Concats DEF Name
  <1>4. ref \in Address /\ ref.path # << >>
    BY <1>2, <1>3, GatewaySchemeTyped, PathOfTyped DEF Address, URL
  <1>5. (HostEncode(c, u) = {} /\ isGatewayHost(c, u.host)) \/ HostEncode(c, u) = PlainEncode(u) \/ HostEncode(c, u) = {ref}
    BY DEF HostEncode, label
  <1> HIDE DEF ref
  <1>6. QED BY <1>4, <1>5

\* Encode, Ref and the browser resolving what they wrote.
LEMMA EncodeTyped ==
  ASSUME NEW c \in AnyCodec, NEW u \in Address
  PROVE  \A ref \in Encode(c, u) : ref \in Reference /\ ref.path # << >>
  <1>1. \A path : PathRef(path).path = path
    BY DEF PathRef, URL
  <1>2. \A ref \in PlainEncode(u) \cup WRDEncode(u) : ref \in Reference /\ ref.path # << >>
    BY <1>1, PlainEncodeTyped, WRDEncodeTyped DEF Reference
  <1>3. CASE c.mode = "plain"
    BY <1>2, <1>3 DEF Encode
  <1>4. CASE c.mode = "wrd"
    BY <1>2, <1>4 DEF Encode
  <1>5. CASE c.mode = "subdomain"
    BY <1>2, <1>5, HostEncodeTyped DEF Encode, Reference
  <1>6. QED BY <1>3, <1>4, <1>5, Modes

LEMMA ResolveTyped ==
  ASSUME NEW ref \in Reference, NEW at \in Address
  PROVE  Resolve(ref, at) \in Address
  <1>1. CASE ref.host # << >>
    <2>1. \A path : PathRef(path).host = << >>
      BY DEF PathRef, URL
    <2>2. QED BY <1>1, <2>1 DEF Resolve, Reference
  <1>2. CASE ref.host = << >>
    <2>1. ref.path \in Path
      <3>1. \A path : PathRef(path).path = path
      BY DEF PathRef, URL
    <3>2. QED BY <3>1 DEF Reference, Address
    <2>2. QED BY <1>2, <2>1 DEF Resolve, Address
  <1>3. QED BY <1>1, <1>2

LEMMA RefTyped ==
  ASSUME NEW c \in AnyCodec, NEW u \in Address
  PROVE  Ref(c, u) \in Reference
  BY SecureTyped, EncodeTyped DEF Ref, Reference

\* The portal and a page under any settings.
LEMMA PortalAtTyped == ASSUME NEW s \in Settings PROVE PortalAt(s) \in Address
  <1>1. Gate \in Name /\ s.port \in Ports \cup {""} /\ Root \in Path
    BY BuildAssumption, Tokens
  <1>2. Scheme \in SchemeSupported
    BY DEF Scheme, SchemeSupported
  <1>3. QED BY <1>1, <1>2, CodecsOfSettings DEF PortalAt, URL, Address

LEMMA PageAtTyped ==
  ASSUME NEW s \in Settings, NEW page \in Address
  PROVE  PageAt(s, page) \in Address
  <1>1. CodecOf(s) \in AnyCodec
    BY CodecsOfSettings
  <1>2. Ref(CodecOf(s), page) \in Reference
    BY <1>1, RefTyped
  <1>3. QED BY <1>2, PortalAtTyped, ResolveTyped DEF PageAt

-----------------------------------------------------------------------------
(* The codecs read addresses *)

\* What the decoders put together from a path or a label is an address of a site.
LEMMA AssembleTyped ==
  ASSUME NEW scheme \in SchemeSupported, NEW host \in Name, NEW port \in Ports \cup {""}, NEW tail \in Path
  PROVE  \A t \in assemble(scheme, host, port, tail) : t \in Address /\ t.path # << >> /\ t.host # << >>
  <1> DEFINE t == URL(scheme, host, port, IF tail = << >> THEN Root ELSE tail)
  <1>1. t \in Address /\ t.path # << >> /\ t.host = host
    BY Tokens DEF URL, Address
  <1>2. assemble(scheme, host, port, tail) = IF host = << >> THEN {} ELSE {t}
    BY DEF assemble
  <1> HIDE DEF t
  <1>3. QED BY <1>1, <1>2

LEMMA HostOnlyTyped ==
  ASSUME NEW seg \in Name
  PROVE  hostOnly(seg) \in Name /\ portOf(seg) \in Ports \cup {""}
  <1>1. Len(seg) \in Nat
    BY LenProperties DEF Name
  <1>2. SubSeq(seg, 1, Len(seg) - 2) \in Name
    BY <1>1, Parts DEF Name
  <1>3. HasPort(seg) => Last(seg) \in Ports
    BY DEF HasPort
  <1>4. QED BY <1>2, <1>3 DEF hostOnly, portOf

LEMMA PlainDecodeTyped ==
  ASSUME NEW path \in Path
  PROVE  \A t \in PlainDecode(path) : t \in Address /\ t.path # << >> /\ t.host # << >>
  <1> SUFFICES ASSUME NEW s \in SchemeSupported, path[2] = <<s>>, Len(path) > 2
               PROVE  \A t \in assemble(path[2][1], hostOnly(path[3]), portOf(path[3]), From(path, 4)) :
                         t \in Address /\ t.path # << >> /\ t.host # << >>
    BY DEF PlainDecode
  <1>1. path[2][1] \in SchemeSupported
    OBVIOUS
  <1>2. path[3] \in Name /\ From(path, 4) \in Path
    <2>1. path[3] \in Name
      BY Element DEF Path
    <2>2. From(path, 4) \in Path
      BY FromTyped DEF Path
    <2>3. QED BY <2>1, <2>2
  <1>3. QED BY <1>1, <1>2, HostOnlyTyped, AssembleTyped

LEMMA WRDDecodeTyped ==
  ASSUME NEW path \in Path
  PROVE  \A t \in WRDDecode(path) : t \in Address /\ t.path # << >> /\ t.host # << >>
  <1> DEFINE n == IF Len(path[1]) = 3 THEN path[1][3] ELSE ""
  <1> SUFFICES ASSUME WRDMatch(path), Len(path) > 1, Len(path[2]) > 1
               PROVE  \A t \in assemble(path[1][1], Tail(path[2]), n, From(path, 3)) :
                         t \in Address /\ t.path # << >> /\ t.host # << >>
    BY DEF WRDDecode
  <1>1. path[1][1] \in SchemeSupported /\ n \in Ports \cup {""}
    <2>1. PICK s \in SchemeSupported : path[1] = <<s>> \/ \E k \in Ports : path[1] = <<s, "-", k>>
      BY DEF WRDMatch
    <2>2. CASE path[1] = <<s>>
      <3>1. Len(path[1]) = 1 /\ path[1][1] = s
        BY <2>2
      <3>2. QED BY <3>1
    <2>3. CASE \E k \in Ports : path[1] = <<s, "-", k>>
      <3>1. PICK k \in Ports : path[1] = <<s, "-", k>>
        BY <2>3
      <3>2. Len(path[1]) = 3 /\ path[1][1] = s /\ path[1][3] = k
        BY <3>1
      <3>3. QED BY <3>2
    <2>4. QED BY <2>1, <2>2, <2>3
  <1>2. path[2] \in Name /\ From(path, 3) \in Path /\ path[2] # << >>
    <2>1. path[2] \in Name
      BY Element DEF Path
    <2>2. From(path, 3) \in Path
      BY FromTyped DEF Path
    <2>3. Len(<< >>) = 0
      OBVIOUS
    <2>4. QED BY <2>1, <2>2, <2>3
  <1>3. Tail(path[2]) \in Name
    BY <1>2, Parts DEF Name
  <1> HIDE DEF n
  <1>4. QED BY <1>1, <1>2, <1>3, AssembleTyped

\* decodeLabel reads names and ports from names.
LEMMA SpelledTyped == ASSUME NEW label \in Name PROVE Spelled(label) \in Name
  <1> DEFINE at(i) == CASE label[i] # "-" -> <<label[i]>>
                        [] i \in Paired(label) -> <<"-">>
                        [] i + 1 \in Paired(label) -> << >>
                        [] OTHER -> <<".">>
  <1> DEFINE parts == [i \in DOMAIN label |-> at(i)]
  <1>1. DOMAIN label = 1..Len(label) /\ Len(label) \in Nat /\ \A i \in DOMAIN label : label[i] \in Token
    BY LenProperties, ElementOfSeq DEF Name
  <1>2. {".", "-"} \subseteq Token /\ << >> \in Name
    BY AddressingAssumption, EmptySeq DEF Name
  <1>3. \A i \in 1..Len(label) : at(i) \in Name
    BY <1>1, <1>2, Singles DEF Name
  <1> HIDE DEF at
  <1>4. parts \in [1..Len(label) -> Name]
    BY <1>1, <1>3
  <1> HIDE DEF parts
  <1>5. parts \in Seq(Name)
    BY <1>1, <1>4, ListsAreSequences
  <1>6. FlattenSeq(parts) \in Name
    BY <1>5, FlattenTyped DEF Name
  <1>7. QED BY <1>6 DEF Spelled, parts, at

LEMMA DecodeLabelTyped ==
  ASSUME NEW label \in Name
  PROVE  decodeLabel(label).hostname \in Name /\ decodeLabel(label).port \in Ports \cup {""}
  <1> DEFINE bare == IF EndsIn(label, <<"-", "s">>) THEN Unmarked(label, <<"-", "s">>) ELSE label
  <1> DEFINE ported == bare # << >> /\ Last(bare) \in Ports /\ EndsIn(bare, <<"-", "p", Last(bare)>>)
  <1>2. ASSUME NEW x \in Name, NEW k \in Nat PROVE SubSeq(x, 1, Len(x) - k) \in Name
    <2>1. Len(x) \in Nat
      BY LenProperties DEF Name
    <2>2. QED BY <2>1, Parts DEF Name
  <1>3. bare \in Name
    <2>1. Len(<<"-", "s">>) = 2
      OBVIOUS
    <2>2. QED BY <1>2, <2>1 DEF Unmarked
  <1> DEFINE name == IF ported THEN Unmarked(bare, <<"-", "p", Last(bare)>>) ELSE bare
  <1>4. name \in Name
    <2> HIDE DEF bare
    <2>1. Len(<<"-", "p", Last(bare)>>) = 3
      OBVIOUS
    <2>2. QED BY <1>2, <1>3, <2>1 DEF Unmarked
  <1>5. decodeLabel(label).hostname = Spelled(name) /\ decodeLabel(label).port = IF ported THEN Last(bare) ELSE ""
    BY DEF decodeLabel
  <1>6. (IF ported THEN Last(bare) ELSE "") \in Ports \cup {""}
    OBVIOUS
  <1> HIDE DEF name, ported, bare
  <1>7. Spelled(name) \in Name
    BY <1>4, SpelledTyped
  <1>8. QED BY <1>5, <1>6, <1>7

LEMMA HostDecodeTyped ==
  ASSUME NEW c \in AnyCodec, NEW host \in Name, NEW path \in Path
  PROVE  \A t \in HostDecode(c, host, path) : t \in Address /\ t.path # << >> /\ t.host # << >>
  <1> DEFINE label == SubSeq(host, 1, Len(host) - Len(c.base) - 1)
  <1> DEFINE d == decodeLabel(label)
  <1> SUFFICES ASSUME Under(host, c.base)
               PROVE  \A t \in assemble(IF d.tls THEN "https" ELSE "http", d.hostname, d.port, path) :
                         t \in Address /\ t.path # << >> /\ t.host # << >>
    BY DEF HostDecode
  <1>1. label \in Name
    <2>1. Len(host) \in Nat /\ Len(host) > Len(c.base) + 1
      BY LenProperties DEF Name, Under
    <2>2. QED BY <2>1, Parts DEF Name
  <1>2. (IF d.tls THEN "https" ELSE "http") \in SchemeSupported
    BY DEF SchemeSupported
  <1> HIDE DEF label
  <1>3. QED BY <1>1, <1>2, DecodeLabelTyped, AssembleTyped

-----------------------------------------------------------------------------
(* The path forms *)

\* The first three segments of a path and the rest of it.
LEMMA ThreeFirst ==
  ASSUME NEW S, NEW x \in S, NEW y \in S, NEW z \in S, NEW t \in Seq(S)
  PROVE  LET p == <<x, y, z>> \o t
         IN  /\ p \in Seq(S) /\ Len(p) = Len(t) + 3
             /\ p[1] = x /\ p[2] = y /\ p[3] = z /\ From(p, 4) = t
  <1> DEFINE p == <<x, y, z>> \o t
  <1>1. <<x, y, z>> \in Seq(S) /\ Len(<<x, y, z>>) = 3 /\ Len(t) \in Nat
    BY Singles, LenProperties
  <1>2. p \in Seq(S) /\ Len(p) = Len(t) + 3 /\ p[1] = x /\ p[2] = y /\ p[3] = z
    BY <1>1, ConcatProperties
  <1>3. From(p, 4) = t
    <2>1. From(p, 4) \in Seq(S) /\ Len(From(p, 4)) = Len(t) /\ \A i \in 1..Len(t) : From(p, 4)[i] = p[i + 3]
      <3>1. \A i \in 4..Len(p) : p[i] \in S
        BY <1>1, <1>2, ElementOfSeq
      <3>2. Len(p) \in Int /\ Len(p) - 4 + 1 = Len(t)
        BY <1>1, <1>2
      <3> HIDE DEF p
      <3>3. SubSeq(p, 4, Len(p)) \in Seq(S) /\ Len(SubSeq(p, 4, Len(p))) = Len(t)
        BY <1>1, <1>2, <3>1, <3>2, SubSeqProperties
      <3>4. \A i \in 1..Len(t) : SubSeq(p, 4, Len(p))[i] = p[4 + i - 1]
        BY <3>1, <3>2, SubSeqProperties
      <3>5. \A i \in 1..Len(t) : 4 + i - 1 = i + 3
        BY <1>1
      <3>6. QED BY <3>3, <3>4, <3>5 DEF From
    <2>2. \A i \in 1..Len(t) : p[i + 3] = t[i]
      <3>1. ASSUME NEW i \in 1..Len(t) PROVE p[i + 3] = t[i]
        <4>1. i + 3 \in 1..(Len(<<x, y, z>>) + Len(t)) /\ ~(i + 3 <= Len(<<x, y, z>>)) /\ i + 3 - Len(<<x, y, z>>) = i
          BY <1>1
        <4>2. QED BY <1>1, <4>1, ConcatProperties
      <3>2. QED BY <3>1
    <2> HIDE DEF p
    <2>3. QED BY <2>1, <2>2, SeqEqual
  <1>4. QED BY <1>2, <1>3

PlainPath(u) == <<PlainPrefix, <<u.scheme>>, HostPort(u)>> \o PathOf(u)

LEMMA PlainPathParts ==
  ASSUME NEW u \in Address
  PROVE  /\ PlainEncode(u) = {PathRef(PlainPath(u))}
         /\ PlainPath(u) \in Path /\ Len(PlainPath(u)) > 3 /\ PlainMatch(PlainPath(u))
         /\ PlainPath(u)[2] = <<u.scheme>> /\ PlainPath(u)[3] = HostPort(u)
         /\ From(PlainPath(u), 4) = PathOf(u)
  <1>1. PlainPrefix \in Name /\ <<u.scheme>> \in Name /\ HostPort(u) \in Name
    <2>1. u.scheme \in Token
      BY Tokens DEF Address
    <2>2. QED BY <2>1, Singles, Tokens, HostPortTyped DEF Name
  <1>2. PathOf(u) \in Seq(Name) /\ Len(PathOf(u)) \in Nat \ {0}
    BY PathOfTyped, EmptySeq DEF Path
  <1>3. /\ PlainPath(u) \in Seq(Name) /\ Len(PlainPath(u)) = Len(PathOf(u)) + 3
        /\ PlainPath(u)[1] = PlainPrefix /\ PlainPath(u)[2] = <<u.scheme>>
        /\ PlainPath(u)[3] = HostPort(u) /\ From(PlainPath(u), 4) = PathOf(u)
    BY <1>1, <1>2, ThreeFirst DEF PlainPath
  <1>4. QED BY <1>2, <1>3 DEF Path, PlainMatch, PlainEncode, PlainPath

\* The host and the port PlainCodec wrote into a segment are read back.
LEMMA HostPortComesBack ==
  ASSUME NEW u \in Address, u.host # << >>, ~HasPort(u.host)
  PROVE  hostOnly(HostPort(u)) = u.host /\ portOf(HostPort(u)) = u.port
  <1>1. CASE u.port = ""
    BY <1>1 DEF HostPort, hostOnly, portOf
  <1>2. CASE u.port # ""
    <2> DEFINE seg == u.host \o <<":", u.port>>
    <2>1. u.host \in Seq(Token) /\ Len(u.host) \in Nat \ {0} /\ u.port \in Ports /\ <<":", u.port>> \in Seq(Token)
      BY <1>2, AddressingAssumption, EmptySeq, Singles DEF Address, Name
    <2>2. Len(seg) = Len(u.host) + 2 /\ seg[Len(u.host) + 1] = ":" /\ seg[Len(u.host) + 2] = u.port
      BY <2>1, ConcatProperties
    <2>3. SubSeq(seg, 1, Len(u.host)) = u.host
      <3>1. SubSeq(seg, 1, Len(u.host)) = SubSeq(u.host, 1, Len(u.host))
        <4>1. 1 \in 1..Len(u.host) /\ Len(u.host) \in 1..Len(u.host)
          BY <2>1
        <4>2. QED BY <2>1, <4>1, SubSeqOfConcat1
      <3>2. QED BY <2>1, <3>1, SubSeqFull
    <2>4. Len(seg) > 2 /\ Len(seg) - 1 = Len(u.host) + 1 /\ Len(seg) - 2 = Len(u.host)
      BY <2>1, <2>2
    <2> HIDE DEF seg
    <2>5. HasPort(seg) /\ hostOnly(seg) = u.host /\ portOf(seg) = u.port
      BY <2>1, <2>2, <2>3, <2>4 DEF HasPort, hostOnly, portOf, Last
    <2>6. QED BY <1>2, <2>5 DEF HostPort, seg
  <1>3. QED BY <1>1, <1>2

\* The path mode loses nothing: PlainCodec.Decode reads back what
\* PlainCodec.Encode wrote, for every address whose name is not itself written
\* with a port.
THEOREM PlainComesBack ==
  ASSUME NEW u \in Address, u.host # << >>, ~HasPort(u.host)
  PROVE  PlainDecode(PlainPath(u)) = {[u EXCEPT !.path = PathOf(u)]}
  <1>1. u.scheme \in SchemeSupported /\ PathOf(u) # << >>
    BY PathOfTyped DEF Address
  <1>2. PlainPath(u)[2] = <<u.scheme>> /\ PlainPath(u)[2] \in {<<s>> : s \in SchemeSupported} /\ PlainPath(u)[2][1] = u.scheme
    <2>1. PlainPath(u)[2] = <<u.scheme>>
      BY PlainPathParts
    <2>2. <<u.scheme>>[1] = u.scheme
      OBVIOUS
    <2>3. QED BY <1>1, <2>1, <2>2
  <1>3. PlainDecode(PlainPath(u)) = assemble(u.scheme, u.host, u.port, PathOf(u))
    BY <1>2, PlainPathParts, HostPortComesBack DEF PlainDecode
  <1>4. assemble(u.scheme, u.host, u.port, PathOf(u)) = {URL(u.scheme, u.host, u.port, PathOf(u))}
    BY <1>1 DEF assemble
  <1>5. URL(u.scheme, u.host, u.port, PathOf(u)) = [u EXCEPT !.path = PathOf(u)]
    BY Repathed
  <1>6. QED BY <1>3, <1>4, <1>5

\* The least of a set of numbers is one of them.
LEMMA LeastIsIn ==
  ASSUME NEW S, S \subseteq Nat, S # {}
  PROVE  Min(S) \in S /\ \A y \in S : Min(S) <= y
  <1> DEFINE Above == {n \in Nat : \A m \in 0..n : m \notin S}
  <1>1. ASSUME \A x \in S : \E y \in S : ~(x <= y) PROVE FALSE
    <2>1. 0 \in Above
      BY <1>1
    <2>2. ASSUME NEW n \in Nat, n \in Above PROVE n + 1 \in Above
      <3> SUFFICES ASSUME n + 1 \in S PROVE FALSE
        BY <2>2
      <3>1. PICK y \in S : ~(n + 1 <= y)
        BY <1>1
      <3>2. y \in 0..n
        BY <3>1
      <3>3. QED BY <2>2, <3>2
    <2>3. Nat \subseteq Above
      <3> HIDE DEF Above
      <3> QED BY <2>1, <2>2, SetInduction
    <2>4. PICK x : x \in S
      OBVIOUS
    <2>5. x \in Above /\ x \in 0..x
      BY <2>3, <2>4
    <2>6. QED BY <2>4, <2>5
  <1>2. PICK x \in S : \A y \in S : x <= y
    BY <1>1
  <1>3. QED BY <1>2, Zenon DEF Min

\* Decode reads addresses from addresses.
LEMMA DecodeTyped ==
  ASSUME NEW c \in AnyCodec, NEW host \in Name, NEW path \in Path
  PROVE  \A t \in Decode(c, host, path) \cup decode(c, host, path) \cup PlainDecode(path) :
            t \in Address /\ t.path # << >> /\ t.host # << >>
  <1>1. \A t \in PlainDecode(path) : t \in Address /\ t.path # << >> /\ t.host # << >>
    BY PlainDecodeTyped
  <1>2. \A t \in Decode(c, host, path) : t \in Address /\ t.path # << >> /\ t.host # << >>
    <2>1. CASE c.mode = "plain"
      BY <1>1, <2>1 DEF Decode
    <2>2. CASE c.mode = "wrd"
      BY <2>2, WRDDecodeTyped DEF Decode
    <2>3. CASE c.mode = "subdomain"
      BY <2>3, HostDecodeTyped DEF Decode
    <2>4. QED BY <2>1, <2>2, <2>3, Modes
  <1>3. QED BY <1>1, <1>2 DEF decode

\* v is u but for what follows the first segment of its path.
Folds(v, u) ==
    /\ v \in Address /\ v.scheme = u.scheme /\ v.host = u.host /\ v.port = u.port
    /\ v = u \/ (v.path # << >> /\ v.path[1] = u.path[1] /\ Len(u.path) > 1)

\* unwrapTarget leaves scheme, host, port and the first segment of a target alone.
LEMMA SpliceFolds ==
  ASSUME NEW c \in AnyCodec, NEW u \in Address
  PROVE  Folds(Splice(c, u), u)
  <1>1. u.path \in Path /\ u.host \in Name
    BY DEF Address
  <1>2. CASE Folded(c, u) = {}
    BY <1>2 DEF Splice, Folds
  <1>3. CASE Folded(c, u) # {}
    <2> DEFINE i == Min(Folded(c, u))
    <2> DEFINE inner == CHOOSE v \in decode(c, u.host, From(u.path, i)) : TRUE
    <2>1. i \in 2..Len(u.path) /\ decode(c, u.host, From(u.path, i)) # {}
      <3>1. Folded(c, u) \subseteq 2..Len(u.path)
        BY DEF Folded
      <3>2. 2..Len(u.path) \subseteq Nat
        BY <1>1, LenProperties DEF Path
      <3>3. i \in Folded(c, u)
        BY <1>3, <3>1, <3>2, LeastIsIn
      <3> HIDE DEF i
      <3>4. QED BY <3>1, <3>3 DEF Folded
    <2>2. i \in Nat \ {0} /\ i - 1 <= Len(u.path) /\ i - 1 \in Int
      BY <1>1, <2>1, LenProperties DEF Path
    <2>3. Splice(c, u) = [u EXCEPT !.path = SubSeq(u.path, 1, i - 1) \o inner.path]
      BY <1>3 DEF Splice
    <2> HIDE DEF i
    <2>4. From(u.path, i) \in Path
      BY <1>1, <2>2, FromTyped DEF Path
    <2>5. inner \in Address
      BY <1>1, <2>1, <2>4, DecodeTyped
    <2> HIDE DEF inner
    <2> DEFINE path == SubSeq(u.path, 1, i - 1) \o inner.path
    <2>6. path \in Path
      <3>1. SubSeq(u.path, 1, i - 1) \in Path
        BY <1>1, <2>2, Parts DEF Path
      <3>2. inner.path \in Path
        BY <2>5 DEF Address
      <3>3. QED BY <3>1, <3>2, Concats DEF Path
    <2>7. path # << >> /\ path[1] = u.path[1]
      <3>1. u.path \in Seq(Name) /\ Len(u.path) \in Nat /\ \A j \in 1..(i - 1) : u.path[j] \in Name
        BY <1>1, <2>1, LenProperties, ElementOfSeq DEF Path
      <3>2. SubSeq(u.path, 1, i - 1) \in Seq(Name) /\ Len(SubSeq(u.path, 1, i - 1)) = i - 1
        BY <2>1, <2>2, <3>1, SubSeqProperties
      <3>3. 1 \in 1..(i - 1) /\ SubSeq(u.path, 1, i - 1)[1] = u.path[1]
        <4>1. 1 \in 1..(i - 1) /\ i - 1 - 1 + 1 = i - 1
          BY <2>1, <2>2
        <4>2. SubSeq(u.path, 1, i - 1)[1] = u.path[1 + 1 - 1] /\ 1 + 1 - 1 = 1
          BY <2>2, <3>1, <4>1, SubSeqProperties
        <4>3. u.path[1 + 1 - 1] = u.path[1]
          OBVIOUS
        <4>4. QED BY <4>1, <4>2, <4>3, Zenon
      <3>4. inner.path \in Seq(Name) /\ Len(inner.path) \in Nat
        BY <2>5, LenProperties DEF Address, Path
      <3>5. Len(path) > 0
        BY <2>2, <3>2, <3>3, <3>4, ConcatProperties
      <3>6. path[1] = u.path[1]
        <4>1. 1 \in 1..(Len(SubSeq(u.path, 1, i - 1)) + Len(inner.path)) /\ 1 <= Len(SubSeq(u.path, 1, i - 1))
          BY <2>2, <3>2, <3>3, <3>4
        <4>2. QED BY <3>2, <3>3, <3>4, <4>1, ConcatProperties
      <3>7. Len(<< >>) = 0
        OBVIOUS
      <3> HIDE DEF path
      <3>8. QED BY <3>5, <3>6, <3>7
    <2>8. Len(u.path) > 1
      BY <2>1, <2>2
    <2>9. Splice(c, u) = [u EXCEPT !.path = path]
      BY <2>3
    <2> HIDE DEF path
    <2>10. [u EXCEPT !.path = path] \in Address /\ Splice(c, u) = URL(u.scheme, u.host, u.port, path)
      BY <2>6, <2>9, Repathed
    <2>11. QED BY <2>7, <2>8, <2>9, <2>10, Repathed DEF Folds
  <1>4. QED BY <1>2, <1>3

LEMMA FoldsAgain ==
  ASSUME NEW u, NEW v, NEW w, Folds(v, u), Folds(w, v)
  PROVE  Folds(w, u)
  BY DEF Folds

LEMMA UnwrapFolds ==
  ASSUME NEW c \in AnyCodec, NEW u \in Address
  PROVE  Folds(unwrapTarget(c, u), u)
  <1>1. \A v \in Address : Folds(Splice(c, v), v) /\ Splice(c, v) \in Address
    BY SpliceFolds DEF Folds
  <1> DEFINE u1 == Splice(c, u)
  <1> DEFINE u2 == Splice(c, u1)
  <1> DEFINE u3 == Splice(c, u2)
  <1>2. u1 \in Address /\ Folds(u1, u)
    BY <1>1
  <1> HIDE DEF u1
  <1>3. u2 \in Address /\ Folds(u2, u)
    BY <1>1, <1>2, FoldsAgain
  <1> HIDE DEF u2
  <1>4. u3 \in Address /\ Folds(u3, u)
    BY <1>1, <1>3, FoldsAgain
  <1> HIDE DEF u3
  <1>5. Folds(Splice(c, u3), u)
    BY <1>1, <1>4, FoldsAgain
  <1>6. QED BY <1>5 DEF unwrapTarget, u1, u2, u3

\* restoreTargets puts an address where one was.
LEMMA RealAddressTyped ==
  ASSUME NEW c \in AnyCodec, NEW u \in Address, NEW page \in Address, NEW browserHost
  PROVE  realAddress(c, u, page, browserHost) \in Address
  <1> DEFINE exact == IF PlainDecode(u.path) # {} THEN PlainDecode(u.path) ELSE Decode(c, u.host, u.path)
  <1>1. u.path \in Path /\ u.host \in Name
    BY DEF Address
  <1>2. [page EXCEPT !.path = u.path] \in Address
    BY <1>1, Repathed
  <1>3. exact # {} => sameShapeAs(u, CHOOSE v \in exact : TRUE) \in Address
    <2> SUFFICES ASSUME exact # {} PROVE sameShapeAs(u, CHOOSE v \in exact : TRUE) \in Address
      OBVIOUS
    <2> DEFINE v == CHOOSE w \in exact : TRUE
    <2>1. v \in Address
      BY <1>1, DecodeTyped
    <2>2. << >> \in Path
      BY EmptySeq DEF Path
    <2> HIDE DEF v
    <2>3. [v EXCEPT !.path = << >>] \in Address
      BY <2>1, <2>2, Repathed
    <2>4. sameShapeAs(u, v) \in Address
      BY <2>1, <2>3 DEF sameShapeAs
    <2>5. QED BY <2>4 DEF v
  <1>4. QED BY <1>2, <1>3 DEF realAddress

-----------------------------------------------------------------------------
(* Pages and what they carry *)

\* What the mode of the settings says of their codec.
LEMMA SettingsMode ==
  ASSUME NEW s \in Settings
  PROVE  LET c == codecSecure(CodecOf(s))
         IN  /\ c \in AnyCodec /\ CodecOf(s) \in AnyCodec
             /\ c.mode = CodecOf(s).mode
             /\ CodecOf(s).mode = "subdomain" <=> s.mode = "subdomain"
             /\ CodecOf(s).mode = "wrd" <=> s.mode = "wrd"
             /\ s.mode = "subdomain" =>
                   /\ CodecOf(s).base = s.base /\ CodecOf(s).portal = PortalHost(s) /\ CodecOf(s).port = s.port
                   /\ c.base = s.base /\ c.portal = PortalHost(s) /\ c.port = s.port
  <1> DEFINE c == codecSecure(CodecOf(s))
  <1>1. c \in AnyCodec /\ CodecOf(s) \in AnyCodec
    BY CodecsOfSettings, SecureTyped
  <1>2. CASE s.mode = "subdomain"
    <2>1. CodecOf(s) = [mode |-> "subdomain", base |-> s.base, portal |-> PortalHost(s), port |-> s.port, tls |-> ServeTLS]
      BY <1>2 DEF CodecOf, HostCodec
    <2>2. CodecOf(s).mode = "subdomain" /\ CodecOf(s).base = s.base /\ CodecOf(s).portal = PortalHost(s) /\ CodecOf(s).port = s.port
      BY <2>1
    <2>3. c = [mode |-> "subdomain", base |-> s.base, portal |-> PortalHost(s), port |-> s.port, tls |-> Secure]
      BY <2>1, <2>2 DEF codecSecure
    <2>4. c.mode = "subdomain" /\ c.base = s.base /\ c.portal = PortalHost(s) /\ c.port = s.port
      BY <2>3
    <2>5. QED BY <1>1, <1>2, <2>2, <2>4
  <1>3. CASE s.mode = "wrd"
    <2>1. CodecOf(s).mode = "wrd"
      BY <1>3 DEF CodecOf, WRDCodec
    <2>2. QED BY <1>1, <1>3, <2>1 DEF codecSecure
  <1>4. CASE s.mode \notin {"wrd", "subdomain"}
    <2>1. CodecOf(s).mode = "plain"
      BY <1>4 DEF CodecOf, PlainCodec
    <2>2. QED BY <1>1, <1>4, <2>1 DEF codecSecure
  <1>5. QED BY <1>2, <1>3, <1>4

\* The parts of addresses and of references.
LEMMA URLParts ==
  \A a, b, c, d : LET v == URL(a, b, c, d) IN v.scheme = a /\ v.host = b /\ v.port = c /\ v.path = d
  BY DEF URL

LEMMA PathRefParts == \A path : PathRef(path).host = << >> /\ PathRef(path).path = path
  BY DEF PathRef, URL

\* A path of the WRD mode has not the shape of the path mode.
LEMMA WRDPathIsNotPlain ==
  ASSUME NEW u \in Address, NEW ref \in WRDEncode(u)
  PROVE  ref.host = << >> /\ ~PlainMatch(ref.path)
  <1> DEFINE path == <<WRDScheme(u), <<Hidden>> \o u.host>> \o PathOf(u)
  <1>1. ref = PathRef(path)
    BY DEF WRDEncode
  <1>2. u.scheme \in Token /\ u.scheme # "p"
    BY Tokens DEF Address, SchemeSupported
  <1>3. WRDScheme(u) # PlainPrefix
    <2>1. <<u.scheme>> # <<"p">>
      BY <1>2
    <2>2. <<u.scheme, "-", u.port>> # <<"p">>
      <3>1. Len(<<u.scheme, "-", u.port>>) = 3 /\ Len(<<"p">>) = 1
        OBVIOUS
      <3>2. QED BY <3>1
    <2>3. QED BY <2>1, <2>2 DEF WRDScheme, PlainPrefix
  <1>4. path[1] = WRDScheme(u)
    <2> DEFINE S == {WRDScheme(u), <<Hidden>> \o u.host} \cup Name
    <2> DEFINE head == <<WRDScheme(u), <<Hidden>> \o u.host>>
    <2>1. head \in Seq(S) /\ Len(head) = 2 /\ head[1] = WRDScheme(u)
      OBVIOUS
    <2>2. PathOf(u) \in Seq(Name)
      BY PathOfTyped DEF Path
    <2> HIDE DEF head
    <2>3. PathOf(u) \in Seq(S) /\ Len(PathOf(u)) \in Nat
      <3>1. Name \subseteq S
        OBVIOUS
      <3> HIDE DEF S
      <3>2. QED BY <2>2, <3>1, SeqMonotonic, LenProperties
    <2> HIDE DEF S
    <2>4. 1 \in 1..(Len(head) + Len(PathOf(u))) /\ 1 <= Len(head)
      BY <2>1, <2>3
    <2>5. (head \o PathOf(u))[1] = head[1]
      BY <2>1, <2>3, <2>4, ConcatProperties
    <2>6. QED BY <2>1, <2>5 DEF head
  <1> HIDE DEF path
  <1>5. ~PlainMatch(path)
    BY <1>3, <1>4 DEF PlainMatch
  <1>6. QED BY <1>1, <1>5, PathRefParts

\* The address of a page in the path of the portal, and of one with a name of
\* its own.
LEMMA PageForms ==
  ASSUME NEW s \in Settings, NEW page \in Address, page.host # << >>
  PROVE  LET at == PageAt(s, page)
             label == encodeLabel(page.host, EncodedPort(page), isTLSScheme(page.scheme))
         IN  \/ at = [PortalAt(s) EXCEPT !.path = PlainPath(page)]
             \/ /\ s.mode = "wrd"
                /\ \E ref \in WRDEncode(page) : at = [PortalAt(s) EXCEPT !.path = ref.path] /\ ~PlainMatch(ref.path)
             \/ s.mode = "subdomain" /\ isGatewayHost(CodecOf(s), page.host) /\ at = page
             \/ /\ s.mode = "subdomain" /\ ~isGatewayHost(CodecOf(s), page.host)
                /\ ~IPv6(page.host) /\ Len(label) <= MaxLabel
                /\ at = URL(gatewayScheme(codecSecure(CodecOf(s)), page.scheme), label \o <<".">> \o s.base, s.port, PathOf(page))
  <1> DEFINE c == codecSecure(CodecOf(s))
  <1> DEFINE label == encodeLabel(page.host, EncodedPort(page), isTLSScheme(page.scheme))
  <1>1. c \in AnyCodec /\ c.mode = CodecOf(s).mode
    BY SettingsMode
  <1>2. \A u : Encode(c, page) = {u} => PageAt(s, page) = Resolve(u, PortalAt(s))
    BY DEF PageAt, Ref
  <1>3. PlainEncode(page) = {PathRef(PlainPath(page))}
    BY PlainPathParts
  <1>4. ASSUME Encode(c, page) = PlainEncode(page)
        PROVE  PageAt(s, page) = [PortalAt(s) EXCEPT !.path = PlainPath(page)]
    <2>1. PageAt(s, page) = Resolve(PathRef(PlainPath(page)), PortalAt(s))
      BY <1>2, <1>3, <1>4
    <2>2. QED BY <2>1, PathRefParts DEF Resolve
  <1>5. CASE s.mode = "wrd"
    <2>1. Encode(c, page) = WRDEncode(page)
      BY <1>1, <1>5, SettingsMode DEF Encode
    <2>2. PICK path \in Path \ {<< >>} : WRDEncode(page) = {PathRef(path)}
      BY WRDEncodeTyped
    <2>3. PageAt(s, page) = Resolve(PathRef(path), PortalAt(s)) /\ PathRef(path) \in WRDEncode(page)
      BY <1>2, <2>1, <2>2
    <2>4. PageAt(s, page) = [PortalAt(s) EXCEPT !.path = PathRef(path).path]
      BY <2>3, PathRefParts DEF Resolve
    <2>5. ~PlainMatch(PathRef(path).path)
      BY <2>3, WRDPathIsNotPlain
    <2>6. QED BY <1>5, <2>3, <2>4, <2>5
  <1>6. CASE s.mode \notin {"wrd", "subdomain"}
    <2>1. Encode(c, page) = PlainEncode(page)
      <3>1. c.mode = "plain"
        BY <1>1, <1>6, SettingsMode, Modes
      <3>2. QED BY <3>1 DEF Encode
    <2>2. QED BY <1>4, <2>1
  <1>7. CASE s.mode = "subdomain"
    <2>1. Encode(c, page) = HostEncode(c, page) /\ c.base = s.base /\ c.port = s.port
      BY <1>1, <1>7, SettingsMode DEF Encode
    <2>2. isGatewayHost(c, page.host) <=> isGatewayHost(CodecOf(s), page.host)
      BY <1>7, SettingsMode DEF isGatewayHost
    <2>3. CASE isGatewayHost(c, page.host)
      <3>1. Encode(c, page) = {}
        BY <2>1, <2>3 DEF HostEncode
      <3>2. PageAt(s, page) = Resolve(page, PortalAt(s))
        BY <3>1 DEF PageAt, Ref
      <3>3. PageAt(s, page) = page
        BY <3>2 DEF Resolve
      <3>4. QED BY <1>7, <2>2, <2>3, <3>3
    <2>4. CASE ~isGatewayHost(c, page.host) /\ (IPv6(page.host) \/ Len(label) > MaxLabel \/ label \o <<".">> \o c.base = c.portal)
      <3>1. Encode(c, page) = PlainEncode(page)
        BY <2>1, <2>4 DEF HostEncode
      <3>2. QED BY <1>4, <3>1
    <2>5. CASE ~isGatewayHost(c, page.host) /\ ~IPv6(page.host) /\ ~(Len(label) > MaxLabel) /\ label \o <<".">> \o c.base # c.portal
      <3> DEFINE u == URL(gatewayScheme(c, page.scheme), label \o <<".">> \o c.base, c.port, PathOf(page))
      <3>1. Encode(c, page) = {u}
        BY <2>1, <2>5 DEF HostEncode
      <3>2. label \in Name /\ Len(label) \in Nat
        <4>1. page.host \in Name /\ EncodedPort(page) \in Ports \cup {""}
          BY EncodedPortTyped DEF Address
        <4>2. label \in Name
          BY <4>1, EncodeLabelTyped
        <4> HIDE DEF label
        <4>3. QED BY <4>2, LenProperties DEF Name
      <3>3. u.host # << >>
        <4>1. u.host = label \o <<".">> \o c.base
          BY DEF URL
        <4> HIDE DEF label, u
        <4>2. <<".">> \in Name /\ c.base \in Name /\ <<".">> # << >>
          BY <1>1, <1>7, SettingsMode, Modes, AddressingAssumption, Singles DEF Name
        <4>3. label \o <<".">> \in Seq(Token) /\ label \o <<".">> # << >>
          BY <3>2, <4>2, ConcatEqualIffEmpty, Concats DEF Name
        <4>4. QED BY <4>1, <4>2, <4>3, ConcatEqualIffEmpty DEF Name
      <3>4. PageAt(s, page) = Resolve(u, PortalAt(s))
        BY <1>2, <3>1
      <3> HIDE DEF u
      <3>5. PageAt(s, page) = u
        BY <3>3, <3>4 DEF Resolve
      <3>6. Len(label) <= MaxLabel
        <4>1. ~(Len(label) > MaxLabel) /\ Len(label) \in Nat /\ MaxLabel \in Nat
          BY <2>5, <3>2, AddressingAssumption
        <4> HIDE DEF label
        <4>2. QED BY <4>1
      <3>7. u = URL(gatewayScheme(c, page.scheme), label \o <<".">> \o s.base, s.port, PathOf(page))
        BY <2>1 DEF u
      <3>8. QED BY <1>7, <2>2, <2>5, <3>5, <3>6, <3>7
    <2>6. QED BY <2>3, <2>4, <2>5
  <1>8. QED BY <1>5, <1>6, <1>7

\* What the sources of requests are made of.
LEMMA SourceTyped ==
  ASSUME NEW src \in Sources
  PROVE  /\ src.page \in Address /\ src.want \in Address /\ src.param.url \in Address
         /\ src.trail \subseteq Address /\ src.kind \in Kinds
         /\ src.page.host # << >> /\ ~HasPort(src.page.host) /\ ~PlainMatch(src.page.path)
  BY RoutingAssumption

\* A page in the path of its address lies under the prefix its codec wrote.
LEMMA PagePath ==
  ASSUME NEW s \in Settings, NEW src \in Sources, PlainMatch(PageAt(s, src.page).path)
  PROVE  PageAt(s, src.page).path = PlainPath(src.page)
  <1> DEFINE at == PageAt(s, src.page)
  <1>1. ~PlainMatch(PathOf(src.page))
    <2>1. CASE src.page.path = << >>
      <3>1. ~PlainMatch(Root)
        BY DEF PlainMatch, Root
      <3>2. QED BY <2>1, <3>1 DEF PathOf
    <2>2. CASE src.page.path # << >>
      BY <2>2, SourceTyped DEF PathOf
    <2>3. QED BY <2>1, <2>2
  <1>2. \A p : [PortalAt(s) EXCEPT !.path = p].path = p
    BY PortalAtTyped, Repathed
  <1>3. \A a, b, d : URL(a, b, d, PathOf(src.page)).path = PathOf(src.page)
    BY DEF URL
  <1>4. src.page \in Address /\ src.page.host # << >> /\ ~PlainMatch(src.page.path)
    BY SourceTyped
  <1>5. \/ at = [PortalAt(s) EXCEPT !.path = PlainPath(src.page)]
        \/ \E ref : at = [PortalAt(s) EXCEPT !.path = ref.path] /\ ~PlainMatch(ref.path)
        \/ at = src.page
        \/ \E a, b, d : at = URL(a, b, d, PathOf(src.page))
    <2> DEFINE label == encodeLabel(src.page.host, EncodedPort(src.page), isTLSScheme(src.page.scheme))
    <2>1. \/ at = [PortalAt(s) EXCEPT !.path = PlainPath(src.page)]
          \/ /\ s.mode = "wrd"
             /\ \E ref \in WRDEncode(src.page) : at = [PortalAt(s) EXCEPT !.path = ref.path] /\ ~PlainMatch(ref.path)
          \/ s.mode = "subdomain" /\ isGatewayHost(CodecOf(s), src.page.host) /\ at = src.page
          \/ /\ s.mode = "subdomain" /\ ~isGatewayHost(CodecOf(s), src.page.host)
             /\ ~IPv6(src.page.host) /\ Len(label) <= MaxLabel
             /\ at = URL(gatewayScheme(codecSecure(CodecOf(s)), src.page.scheme), label \o <<".">> \o s.base,
                         s.port, PathOf(src.page))
      BY <1>4, PageForms
    <2> HIDE DEF at, label
    <2>2. QED BY <2>1, Zenon
  <1> HIDE DEF at
  <1>6. \/ at.path = PlainPath(src.page)
        \/ ~PlainMatch(at.path)
    <2>1. CASE at = [PortalAt(s) EXCEPT !.path = PlainPath(src.page)]
      BY <1>2, <2>1, Zenon
    <2>2. CASE \E ref : at = [PortalAt(s) EXCEPT !.path = ref.path] /\ ~PlainMatch(ref.path)
      BY <1>2, <2>2, Zenon
    <2>3. CASE at = src.page
      BY <1>4, <2>3
    <2>4. CASE \E a, b, d : at = URL(a, b, d, PathOf(src.page))
      BY <1>1, <1>3, <2>4, Zenon
    <2>5. QED BY <1>5, <2>1, <2>2, <2>3, <2>4
  <1>7. QED BY <1>6 DEF at

\* refBase, pathForm, encode and rewrite of the shim.
LEMMA RefBaseTyped ==
  ASSUME NEW s \in Settings, NEW src \in Sources
  PROVE  refBase(src.page, PageAt(s, src.page)) \in Address
  <1> DEFINE at == PageAt(s, src.page)
  <1>1. src.page \in Address /\ at \in Address /\ at.path \in Path
    BY SourceTyped, PageAtTyped DEF Address
  <1>2. CASE PlainMatch(at.path)
    <2>1. at.path = PlainPath(src.page) /\ Len(at.path) > 2
      BY <1>1, <1>2, PagePath, PlainPathParts
    <2>2. PlainDecode(at.path) = {[src.page EXCEPT !.path = PathOf(src.page)]}
      BY <1>1, <2>1, SourceTyped, PlainComesBack
    <2>3. [src.page EXCEPT !.path = PathOf(src.page)] \in Address
      BY <1>1, Repathed, PathOfTyped
    <2> HIDE DEF at
    <2>4. refBase(src.page, at) = CHOOSE v \in PlainDecode(at.path) : TRUE
      BY <1>2, <2>1 DEF refBase
    <2>5. refBase(src.page, at) \in Address
      BY <2>2, <2>3, <2>4
    <2>6. QED BY <2>5 DEF at
  <1>3. CASE ~PlainMatch(at.path)
    BY <1>1, <1>3, Repathed DEF refBase
  <1>4. QED BY <1>2, <1>3

LEMMA PathFormTyped ==
  ASSUME NEW u \in Address
  PROVE  pathForm(u) \in Reference /\ pathForm(u).host = << >>
  <1> DEFINE v == [u EXCEPT !.scheme = httpScheme(u.scheme)]
  <1>1. v \in Address
    BY DEF httpScheme, SchemeSupported, Address
  <1>2. pathForm(u) = CHOOSE r \in PlainEncode(v) : TRUE
    BY DEF pathForm
  <1> HIDE DEF v
  <1>3. PICK path \in Path \ {<< >>} : PlainEncode(v) = {PathRef(path)}
    BY <1>1, PlainEncodeTyped
  <1>4. pathForm(u) = PathRef(path)
    BY <1>2, <1>3
  <1>5. QED BY <1>3, <1>4, PathRefParts DEF Reference

LEMMA ShimEncodeTyped ==
  ASSUME NEW s \in Settings, NEW u \in Address
  PROVE  shimEncode(CodecOf(s), u) \in Reference
  <1> DEFINE c == CodecOf(s)
  <1> DEFINE label == encodeLabel(u.host, EncodedPort(u), isTLSScheme(u.scheme))
  <1> DEFINE ref == URL(gatewayScheme(codecSecure(c), u.scheme), label \o <<".">> \o c.base, c.port, PathOf(u))
  <1>1. shimEncode(c, u) = pathForm(u) \/ (c.mode = "subdomain" /\ shimEncode(c, u) = ref)
    BY DEF shimEncode
  <1>2. ASSUME c.mode = "subdomain" PROVE ref \in Address
    <2>1. c.base \in Name /\ c.port \in Ports \cup {""} /\ "." \in Token
      BY <1>2, SettingsMode, Modes, AddressingAssumption
    <2>2. label \in Name
      <3>1. u.host \in Name /\ EncodedPort(u) \in Ports \cup {""}
        BY EncodedPortTyped DEF Address
      <3>2. QED BY <3>1, EncodeLabelTyped
    <2>3. gatewayScheme(codecSecure(c), u.scheme) \in SchemeSupported
      BY SettingsMode, GatewaySchemeTyped
    <2> HIDE DEF label, c
    <2>4. label \o <<".">> \o c.base \in Name
      BY <2>1, <2>2, Singles, Concats DEF Name
    <2>5. QED BY <2>1, <2>3, <2>4, PathOfTyped DEF Address, URL
  <1> HIDE DEF ref, c
  <1>3. shimEncode(c, u) \in Reference
    BY <1>1, <1>2, PathFormTyped DEF Reference
  <1>4. QED BY <1>3 DEF c

LEMMA RewriteTyped ==
  ASSUME NEW s \in Settings, NEW src \in Sources, NEW ref \in Reference
  PROVE  rewrite(CodecOf(s), ref, src.page, PageAt(s, src.page)) \in Reference
  <1> DEFINE u == Resolve(ref, refBase(src.page, PageAt(s, src.page)))
  <1>1. u \in Address
    BY RefBaseTyped, ResolveTyped
  <1>2. u.path \in Path /\ src.page \in Address
    BY <1>1, SourceTyped DEF Address
  <1> HIDE DEF u
  <1>3. [src.page EXCEPT !.path = u.path] \in Address
    BY <1>2, Repathed
  <1>4. shimEncode(CodecOf(s), u) \in Reference /\ shimEncode(CodecOf(s), [src.page EXCEPT !.path = u.path]) \in Reference
    BY <1>1, <1>3, ShimEncodeTyped
  <1>5. QED BY <1>4 DEF rewrite, u

-----------------------------------------------------------------------------
(* Labels *)

\* FlattenSeq, from the empty prefix on.
LEMMA FlattenPrefixes ==
  ASSUME NEW S, NEW parts \in Seq(Seq(S))
  PROVE  \E flat \in [0..Len(parts) -> Seq(S)] :
              /\ flat[0] = << >>
              /\ \A i \in 1..Len(parts) : flat[i] = flat[i - 1] \o parts[i]
              /\ FlattenSeq(parts) = flat[Len(parts)]
  <1>1. Len(parts) \in Nat /\ << >> \in Seq(S)
    BY LenProperties, EmptySeq
  <1>2. CASE parts = << >>
    <2> DEFINE flat == [i \in 0..Len(parts) |-> << >>]
    <2>1. Len(parts) = 0
      BY <1>2
    <2>2. flat \in [0..Len(parts) -> Seq(S)] /\ flat[0] = << >> /\ flat[Len(parts)] = << >>
      BY <1>1, <2>1
    <2>3. FlattenSeq(parts) = << >>
      BY <1>2, <2>1 DEF FlattenSeq
    <2>4. 1..Len(parts) = {}
      BY <2>1
    <2> HIDE DEF flat
    <2>5. QED BY <2>2, <2>3, <2>4
  <1>3. CASE parts # << >>
    <2>1. PICK g \in [1..Len(parts) -> Seq(S)] :
              /\ g[1] = parts[1]
              /\ \A i \in 1..Len(parts) : i # 1 => g[i] = g[i - 1] \o parts[i]
              /\ FlattenSeq(parts) = g[Len(parts)]
      BY <1>3, FlattenMeans
    <2>2. Len(parts) \in Nat \ {0} /\ \A i \in 1..Len(parts) : parts[i] \in Seq(S)
      BY <1>3, EmptySeq, ElementOfSeq
    <2> DEFINE flat == [i \in 0..Len(parts) |-> IF i = 0 THEN << >> ELSE g[i]]
    <2>3. flat \in [0..Len(parts) -> Seq(S)]
      BY <1>1
    <2>4. flat[0] = << >> /\ \A i \in 1..Len(parts) : flat[i] = g[i]
      BY <2>2
    <2>5. FlattenSeq(parts) = flat[Len(parts)]
      BY <2>1, <2>2, <2>4
    <2> HIDE DEF flat
    <2>6. ASSUME NEW i \in 1..Len(parts) PROVE flat[i] = flat[i - 1] \o parts[i]
      <3>1. CASE i = 1
        <4>1. flat[i] = parts[1] /\ flat[i - 1] = << >>
          BY <2>1, <2>2, <2>4, <3>1
        <4>2. parts[1] \in Seq(S)
          BY <2>2
        <4>3. << >> \o parts[1] = parts[1]
          BY <4>2, ConcatEmptySeq
        <4>4. QED BY <3>1, <4>1, <4>3
      <3>2. CASE i # 1
        <4>1. i - 1 \in 1..Len(parts)
          BY <2>2, <3>2
        <4>2. QED BY <2>1, <2>4, <3>2, <4>1
      <3>3. QED BY <3>1, <3>2
    <2>7. QED BY <2>3, <2>4, <2>5, <2>6
  <1>4. QED BY <1>2, <1>3

\* Where each part lies in the flattened sequence.
LEMMA FlattenPlaces ==
  ASSUME NEW S, NEW parts \in Seq(Seq(S))
  PROVE  \E at \in [0..Len(parts) -> Nat] :
            /\ at[0] = 0 /\ at[Len(parts)] = Len(FlattenSeq(parts))
            /\ \A i \in 1..Len(parts) :
                  /\ at[i] = at[i - 1] + Len(parts[i]) /\ at[i] <= Len(FlattenSeq(parts))
                  /\ \A k \in 1..Len(parts[i]) : FlattenSeq(parts)[at[i - 1] + k] = parts[i][k]
  <1> DEFINE n == Len(parts)
  <1> DEFINE F == FlattenSeq(parts)
  <1>1. n \in Nat /\ \A i \in 1..n : parts[i] \in Seq(S)
    BY LenProperties, ElementOfSeq
  <1>2. PICK flat \in [0..n -> Seq(S)] :
              flat[0] = << >> /\ (\A i \in 1..n : flat[i] = flat[i - 1] \o parts[i]) /\ F = flat[n]
    BY FlattenPrefixes
  <1> HIDE DEF F
  <1> DEFINE Grown == {m \in Nat : m \in 0..n =>
         \A i \in 0..m : /\ Len(flat[i]) <= Len(flat[m])
                         /\ \A k \in 1..Len(flat[i]) : flat[m][k] = flat[i][k]}
  <1>3. \A i \in 0..n : flat[i] \in Seq(S) /\ Len(flat[i]) \in Nat
    BY <1>2, LenProperties
  <1>4. ASSUME NEW i \in 1..n
        PROVE  /\ Len(flat[i]) = Len(flat[i - 1]) + Len(parts[i]) /\ Len(parts[i]) \in Nat
               /\ \A k \in 1..Len(flat[i - 1]) : flat[i][k] = flat[i - 1][k]
               /\ \A k \in 1..Len(parts[i]) : flat[i][Len(flat[i - 1]) + k] = parts[i][k]
    <2>1. i - 1 \in 0..n
      BY <1>1
    <2>2. flat[i - 1] \in Seq(S) /\ Len(flat[i - 1]) \in Nat /\ parts[i] \in Seq(S) /\ Len(parts[i]) \in Nat
      BY <1>1, <1>3, <2>1, LenProperties
    <2>3. flat[i] = flat[i - 1] \o parts[i]
      BY <1>2
    <2> DEFINE a == flat[i - 1]
    <2> DEFINE b == parts[i]
    <2>4. a \in Seq(S) /\ b \in Seq(S) /\ Len(a) \in Nat /\ Len(b) \in Nat /\ flat[i] = a \o b
      BY <2>2, <2>3
    <2> HIDE DEF a, b
    <2>5. /\ Len(a \o b) = Len(a) + Len(b)
          /\ \A k \in 1 .. Len(a) + Len(b) : (a \o b)[k] = IF k <= Len(a) THEN a[k] ELSE b[k - Len(a)]
      BY <2>4, ConcatProperties
    <2>6. \A k \in 1..Len(a) : k \in 1 .. Len(a) + Len(b) /\ k <= Len(a)
      BY <2>4
    <2>7. \A k \in 1..Len(b) : Len(a) + k \in 1 .. Len(a) + Len(b) /\ ~(Len(a) + k <= Len(a)) /\ Len(a) + k - Len(a) = k
      BY <2>4
    <2>8. \A k \in 1..Len(a) : (a \o b)[k] = a[k]
      BY <2>5, <2>6
    <2>9. \A k \in 1..Len(b) : (a \o b)[Len(a) + k] = b[k]
      BY <2>5, <2>7
    <2>10. QED BY <2>4, <2>5, <2>8, <2>9 DEF a, b
  <1>5. 0 \in Grown
    BY <1>3
  <1>6. ASSUME NEW m \in Nat, m \in Grown PROVE m + 1 \in Grown
    <2> SUFFICES ASSUME m + 1 \in 0..n, NEW i \in 0..(m + 1)
                 PROVE  /\ Len(flat[i]) <= Len(flat[m + 1])
                        /\ \A k \in 1..Len(flat[i]) : flat[m + 1][k] = flat[i][k]
      OBVIOUS
    <2>1. m + 1 \in 1..n /\ m \in 0..n /\ (m + 1) - 1 = m
      BY <1>1
    <2> PICK j \in 1..n : j = m + 1 /\ j - 1 = m
      BY <2>1
    <2> DEFINE a == flat[m]
    <2> DEFINE b == flat[j]
    <2>2. a \in Seq(S) /\ Len(a) \in Nat /\ Len(b) \in Nat /\ Len(a) <= Len(b) /\ \A k \in 1..Len(a) : b[k] = a[k]
      <3>1. Len(b) = Len(a) + Len(parts[j]) /\ Len(parts[j]) \in Nat /\ \A k \in 1..Len(a) : b[k] = a[k]
        <4>1. /\ Len(flat[j]) = Len(flat[j - 1]) + Len(parts[j]) /\ Len(parts[j]) \in Nat
              /\ \A k \in 1..Len(flat[j - 1]) : flat[j][k] = flat[j - 1][k]
          BY <1>4
        <4>2. flat[j - 1] = flat[m]
          OBVIOUS
        <4> HIDE DEF Grown
        <4>3. QED BY <4>1, <4>2
      <3>2. a \in Seq(S) /\ Len(a) \in Nat
        BY <1>3, <2>1
      <3> HIDE DEF a, b, Grown
      <3>3. QED BY <3>1, <3>2
    <2>3. CASE i = j
      BY <2>2, <2>3
    <2>4. CASE i \in 0..m
      <3> DEFINE c == flat[i]
      <3>1. Len(c) <= Len(a) /\ (\A k \in 1..Len(c) : a[k] = c[k]) /\ Len(c) \in Nat
        BY <1>3, <1>6, <2>1, <2>4
      <3>2. Len(c) <= Len(b) /\ \A k \in 1..Len(c) : b[k] = c[k]
        <4> HIDE DEF a, b, c, Grown
        <4>1. \A k \in 1..Len(c) : k \in 1..Len(a)
          BY <2>2, <3>1
        <4>2. Len(c) <= Len(b)
          BY <2>2, <3>1
        <4>3. ASSUME NEW k \in 1..Len(c) PROVE b[k] = c[k]
          <5>1. a[k] = c[k]
            BY <3>1
          <5>2. k \in 1..Len(a)
            BY <4>1
          <5>3. b[k] = a[k]
            BY <2>2, <5>2
          <5>4. QED BY <5>1, <5>3, Zenon
        <4>4. QED BY <4>2, <4>3
      <3>3. QED BY <3>2
    <2>5. QED BY <2>3, <2>4
  <1>7. \A i \in 0..n : Len(flat[i]) <= Len(F) /\ \A k \in 1..Len(flat[i]) : F[k] = flat[i][k]
    <2>1. Nat \subseteq Grown
      <3> HIDE DEF Grown
      <3> QED BY <1>5, <1>6, SetInduction
    <2>2. n \in 0..n /\ n \in Grown
      BY <1>1, <2>1
    <2>3. QED BY <1>2, <2>2
  <1> HIDE DEF Grown
  <1> DEFINE at == [i \in 0..n |-> Len(flat[i])]
  <1>8. at \in [0..n -> Nat] /\ \A i \in 0..n : at[i] = Len(flat[i])
    BY <1>3
  <1>9. at[0] = 0 /\ at[n] = Len(F)
    <2>1. Len(<< >>) = 0 /\ 0 \in 0..n /\ n \in 0..n
      BY <1>1
    <2>2. QED BY <1>2, <1>8, <2>1
  <1> HIDE DEF at
  <1>10. ASSUME NEW i \in 1..n
         PROVE  /\ at[i] = at[i - 1] + Len(parts[i]) /\ at[i] <= Len(F)
                /\ \A k \in 1..Len(parts[i]) : F[at[i - 1] + k] = parts[i][k]
    <2>1. i \in 0..n /\ i - 1 \in 0..n
      BY <1>1
    <2>2. at[i] = Len(flat[i]) /\ at[i - 1] = Len(flat[i - 1]) /\ at[i - 1] \in Nat /\ Len(parts[i]) \in Nat
      BY <1>4, <1>8, <2>1
    <2>3. at[i] = at[i - 1] + Len(parts[i]) /\ at[i] <= Len(F)
      BY <1>4, <1>7, <2>1, <2>2
    <2>4. ASSUME NEW k \in 1..Len(parts[i]) PROVE F[at[i - 1] + k] = parts[i][k]
      <3>1. at[i - 1] + k \in 1..Len(flat[i])
        <4> DEFINE x == at[i - 1]
        <4> DEFINE y == at[i]
        <4> DEFINE l == Len(parts[i])
        <4>1. x \in Nat /\ l \in Nat /\ y = x + l /\ y = Len(flat[i]) /\ k \in 1..l
          BY <2>2, <2>3
        <4> HIDE DEF x, y, l
        <4>2. x + k \in 1..y
          BY <4>1
        <4>3. QED BY <4>1, <4>2 DEF x
      <3>2. F[at[i - 1] + k] = flat[i][at[i - 1] + k]
        BY <1>7, <2>1, <3>1
      <3>3. flat[i][at[i - 1] + k] = parts[i][k]
        BY <1>4, <2>2
      <3>4. QED BY <3>2, <3>3
    <2>5. QED BY <2>3, <2>4
  <1>11. QED BY <1>8, <1>9, <1>10 DEF F

\* The recursive function of decodeLabel's loop.
Pairs(p, label) ==
    p = [i \in 0..Len(label) |-> i > 1 /\ label[i] = "-" /\ label[i - 1] = "-" /\ ~p[i - 1]]

\* There is such a function, and it says what its definition says.
LEMMA PairedMeans ==
  ASSUME NEW label \in Name
  PROVE  \A i \in 1..Len(label) :
            i \in Paired(label) <=> i > 1 /\ label[i] = "-" /\ label[i - 1] = "-" /\ i - 1 \notin Paired(label)
  <1> DEFINE both(i) == i > 1 /\ label[i] = "-" /\ label[i - 1] = "-"
  <1> DEFINE Begun == {n \in Nat :
                 \E g \in [0..n -> BOOLEAN] : \A i \in 0..n : g[i] = (both(i) /\ ~g[i - 1])}
  <1>1. Len(label) \in Nat /\ DOMAIN label = 1..Len(label)
    BY LenProperties DEF Name
  <1>2. 0 \in Begun
    <2> DEFINE g == [i \in 0..0 |-> FALSE]
    <2>0. \A i \in 0..0 : ~both(i) /\ g[i] = FALSE
      OBVIOUS
    <2>3. g \in [0..0 -> BOOLEAN]
      OBVIOUS
    <2>1. g \in [0..0 -> BOOLEAN] /\ \A i \in 0..0 : g[i] = (both(i) /\ ~g[i - 1])
      <3> HIDE DEF g, both
      <3> QED BY <2>0, <2>3
    <2> HIDE DEF g, both
    <2>2. QED BY <2>1
  <1>3. ASSUME NEW n \in Nat, n \in Begun PROVE n + 1 \in Begun
    <2>1. PICK g \in [0..n -> BOOLEAN] : \A i \in 0..n : g[i] = (both(i) /\ ~g[i - 1])
      BY <1>3
    <2> HIDE DEF both
    <2> DEFINE h == [i \in 0..(n + 1) |-> IF i \in 0..n THEN g[i] ELSE (both(n + 1) /\ ~g[n])]
    <2>2. h \in [0..(n + 1) -> BOOLEAN]
      OBVIOUS
    <2>3. (\A i \in 0..n : h[i] = g[i]) /\ h[n + 1] = (both(n + 1) /\ ~g[n])
      OBVIOUS
    <2> HIDE DEF h
    <2>4. ASSUME NEW i \in 0..(n + 1) PROVE h[i] = (both(i) /\ ~h[i - 1])
      <3>1. CASE i = n + 1
        <4>1. i - 1 = n /\ h[i - 1] = g[n]
          BY <2>3, <3>1
        <4>2. QED BY <2>3, <3>1, <4>1
      <3>2. CASE i \in 0..n
        <4>1. h[i] = (both(i) /\ ~g[i - 1])
          BY <2>1, <2>3, <3>2
        <4>2. CASE i = 0
          <5>1. ~both(i)
            BY <4>2 DEF both
          <5>2. QED BY <4>1, <5>1
        <4>3. CASE i # 0
          <5>1. i - 1 \in 0..n
            BY <3>2, <4>3
          <5>2. h[i - 1] = g[i - 1]
            BY <2>3, <5>1
          <5>3. QED BY <4>1, <5>2
        <4>4. QED BY <4>2, <4>3
      <3>3. QED BY <3>1, <3>2
    <2>5. QED BY <2>2, <2>4
  <1>4. Len(label) \in Begun
    <2> HIDE DEF Begun
    <2> QED BY <1>1, <1>2, <1>3, SetInduction
  <1>5. PICK g \in [0..Len(label) -> BOOLEAN] : \A i \in 0..Len(label) : g[i] = (both(i) /\ ~g[i - 1])
    BY <1>4
  <1>6. g = [i \in 0..Len(label) |-> both(i) /\ ~g[i - 1]]
    <2> HIDE DEF both
    <2> QED BY <1>5
  <1>7. Pairs(g, label)
    BY <1>6 DEF Pairs
  <1> DEFINE p == CHOOSE q : Pairs(q, label)
  <1>8. Pairs(p, label)
    BY <1>7
  <1>9. Paired(label) = {i \in DOMAIN label : p[i]}
    BY DEF Paired, Pairs
  <1> HIDE DEF p
  <1>10. \A i \in 0..Len(label) : p[i] = (i > 1 /\ label[i] = "-" /\ label[i - 1] = "-" /\ ~p[i - 1])
    BY <1>8, Zenon DEF Pairs
  <1>11. ASSUME NEW i \in 1..Len(label)
         PROVE  i \in Paired(label) <=> i > 1 /\ label[i] = "-" /\ label[i - 1] = "-" /\ i - 1 \notin Paired(label)
    <2>1. i \in 0..Len(label) /\ i \in DOMAIN label
      BY <1>1
    <2>2. i \in Paired(label) <=> p[i]
      BY <1>9, <2>1
    <2>3. p[i] = (i > 1 /\ label[i] = "-" /\ label[i - 1] = "-" /\ ~p[i - 1])
      BY <1>10, <2>1
    <2>4. i > 1 => (i - 1 \in Paired(label) <=> p[i - 1])
      <3>1. i > 1 => i - 1 \in DOMAIN label
        BY <1>1
      <3>2. QED BY <1>9, <3>1
    <2>5. QED BY <2>2, <2>3, <2>4
  <1>12. QED BY <1>11

\* How encodeLabel spells a token, and decodeLabel the token at a place.
Written1(x) == CASE x = "-" -> <<"-", "-">> [] x = "." -> <<"-">> [] OTHER -> <<x>>
Read1(label, i) ==
    CASE label[i] # "-" -> <<label[i]>>
      [] i \in Paired(label) -> <<"-">>
      [] i + 1 \in Paired(label) -> << >>
      [] OTHER -> <<".">>

\* A name as the DNS has them: behind a dot of it there is no other dot, and no
\* hyphen.
Proper(name) == \A i \in 1..Len(name) : name[i] = "." /\ i < Len(name) => name[i + 1] \notin {".", "-"}

\* What encodeLabel makes of the name alone, before the port and the scheme.
Body(name) == FlattenSeq([i \in DOMAIN name |-> Written1(name[i])])

\* That part of the label is a sequence of tokens, spelled token by token.
LEMMA BodyParts ==
  ASSUME NEW name \in Name
  PROVE  /\ Body(name) \in Name
         /\ [i \in DOMAIN name |-> Written1(name[i])] \in Seq(Name)
         /\ Len([i \in DOMAIN name |-> Written1(name[i])]) = Len(name)
         /\ \A i \in 1..Len(name) : [j \in DOMAIN name |-> Written1(name[j])][i] = Written1(name[i])
  <1> DEFINE parts == [i \in DOMAIN name |-> Written1(name[i])]
  <1>1. {"-"} \subseteq Token
    BY AddressingAssumption
  <1>2. DOMAIN name = 1..Len(name) /\ Len(name) \in Nat /\ \A i \in DOMAIN name : name[i] \in Token
    BY LenProperties, ElementOfSeq DEF Name
  <1>3. \A i \in 1..Len(name) : Written1(name[i]) \in Name
    BY <1>1, <1>2, Singles DEF Name, Written1
  <1>4. parts \in [1..Len(name) -> Name] /\ \A i \in 1..Len(name) : parts[i] = Written1(name[i])
    BY <1>2, <1>3
  <1> HIDE DEF parts
  <1>5. parts \in Seq(Name) /\ Len(parts) = Len(name)
    BY <1>2, <1>4, ListsAreSequences
  <1>6. FlattenSeq(parts) \in Name
    BY <1>5, FlattenTyped DEF Name
  <1>7. QED BY <1>4, <1>5, <1>6 DEF Body, parts

\* What decodeLabel reads is spelled place by place.
LEMMA SpelledParts ==
  ASSUME NEW label \in Name
  PROVE  /\ Spelled(label) = FlattenSeq([i \in DOMAIN label |-> Read1(label, i)])
         /\ [i \in DOMAIN label |-> Read1(label, i)] \in Seq(Name)
         /\ Len([i \in DOMAIN label |-> Read1(label, i)]) = Len(label)
         /\ \A i \in 1..Len(label) : [j \in DOMAIN label |-> Read1(label, j)][i] = Read1(label, i)
  <1> DEFINE parts == [i \in DOMAIN label |-> Read1(label, i)]
  <1>1. DOMAIN label = 1..Len(label) /\ Len(label) \in Nat /\ \A i \in DOMAIN label : label[i] \in Token
    BY LenProperties, ElementOfSeq DEF Name
  <1>2. {".", "-"} \subseteq Token /\ << >> \in Name
    BY AddressingAssumption, EmptySeq DEF Name
  <1>3. \A i \in 1..Len(label) : Read1(label, i) \in Name
    BY <1>1, <1>2, Singles DEF Name, Read1
  <1>4. parts \in [1..Len(label) -> Name] /\ \A i \in 1..Len(label) : parts[i] = Read1(label, i)
    BY <1>1, <1>3
  <1>5. Spelled(label) = FlattenSeq(parts)
    BY DEF Spelled, Read1
  <1> HIDE DEF parts
  <1>6. parts \in Seq(Name) /\ Len(parts) = Len(label)
    BY <1>1, <1>4, ListsAreSequences
  <1>7. QED BY <1>4, <1>5, <1>6 DEF parts

\* The first tokens of a name, one by one.
LEMMA Grows ==
  ASSUME NEW name \in Name, NEW i \in Nat, i + 1 <= Len(name)
  PROVE  SubSeq(name, 1, i + 1) = SubSeq(name, 1, i) \o <<name[i + 1]>>
  <1>1. Len(name) \in Nat /\ i \in 0..Len(name) /\ i + 1 \in 1..Len(name)
    BY LenProperties DEF Name
  <1> DEFINE a == SubSeq(name, 1, i)
  <1> DEFINE b == SubSeq(name, 1, i + 1)
  <1> DEFINE c == <<name[i + 1]>>
  <1>2. a \in Name /\ Len(a) = i /\ \A k \in 1..i : a[k] = name[k]
    BY <1>1, SubSeqProperties DEF Name
  <1>3. b \in Name /\ Len(b) = i + 1 /\ \A k \in 1..(i + 1) : b[k] = name[k]
    BY <1>1, SubSeqProperties DEF Name
  <1>4. c \in Name /\ Len(c) = 1 /\ c[1] = name[i + 1]
    BY <1>1, ElementOfSeq DEF Name
  <1> HIDE DEF a, b, c
  <1>5. a \o c \in Name /\ Len(a \o c) = i + 1 /\ \A k \in 1..(i + 1) : (a \o c)[k] = IF k <= i THEN a[k] ELSE c[k - i]
    <2>1. a \in Seq(Token) /\ c \in Seq(Token)
      BY <1>2, <1>4 DEF Name
    <2>2. /\ a \o c \in Seq(Token) /\ Len(a \o c) = Len(a) + Len(c)
          /\ \A k \in 1 .. Len(a) + Len(c) : (a \o c)[k] = IF k <= Len(a) THEN a[k] ELSE c[k - Len(a)]
      BY <2>1, ConcatProperties
    <2>3. Len(a) + Len(c) = i + 1 /\ Len(a) = i
      BY <1>2, <1>4
    <2>4. QED BY <2>2, <2>3, Zenon DEF Name
  <1>6. \A k \in 1..(i + 1) : (a \o c)[k] = name[k]
    <2> SUFFICES ASSUME NEW k \in 1..(i + 1) PROVE (a \o c)[k] = name[k]
      OBVIOUS
    <2>1. CASE k <= i
      BY <1>2, <1>5, <2>1
    <2>2. CASE k = i + 1
      BY <1>4, <1>5, <2>2
    <2>3. k <= i \/ k = i + 1
      OBVIOUS
    <2>4. QED BY <2>1, <2>2, <2>3
  <1>7. b = a \o c
    BY <1>3, <1>5, <1>6, SeqEqual DEF Name
  <1>8. QED BY <1>7 DEF a, b, c

\* Where encodeLabel puts each token of a name.
LEMMA BodyPlaces ==
  ASSUME NEW name \in Name
  PROVE  \E at \in [0..Len(name) -> Nat] :
            /\ at[0] = 0 /\ at[Len(name)] = Len(Body(name))
            /\ \A i \in 1..Len(name) :
                  /\ at[i] \in 1..Len(Body(name)) /\ at[i - 1] + 1 \in 1..Len(Body(name))
                  /\ name[i] = "-" => /\ at[i] = at[i - 1] + 2
                                      /\ Body(name)[at[i - 1] + 1] = "-" /\ Body(name)[at[i - 1] + 2] = "-"
                  /\ name[i] = "." => at[i] = at[i - 1] + 1 /\ Body(name)[at[i - 1] + 1] = "-"
                  /\ name[i] \notin {"-", "."} => at[i] = at[i - 1] + 1 /\ Body(name)[at[i - 1] + 1] = name[i]
  <1> DEFINE parts == [i \in DOMAIN name |-> Written1(name[i])]
  <1> DEFINE g == Body(name)
  <1>1. parts \in Seq(Seq(Token)) /\ Len(parts) = Len(name) /\ g = FlattenSeq(parts)
        /\ \A i \in 1..Len(name) : parts[i] = Written1(name[i])
    <2>1. parts \in Seq(Name) /\ Len(parts) = Len(name) /\ \A i \in 1..Len(name) : parts[i] = Written1(name[i])
      BY BodyParts
    <2>2. g = FlattenSeq(parts)
      BY DEF Body
    <2>3. QED BY <2>1, <2>2 DEF Name
  <1> HIDE DEF parts, g
  <1>2. PICK at \in [0..Len(parts) -> Nat] :
            /\ at[0] = 0 /\ at[Len(parts)] = Len(FlattenSeq(parts))
            /\ \A i \in 1..Len(parts) :
                  /\ at[i] = at[i - 1] + Len(parts[i]) /\ at[i] <= Len(FlattenSeq(parts))
                  /\ \A k \in 1..Len(parts[i]) : FlattenSeq(parts)[at[i - 1] + k] = parts[i][k]
    BY <1>1, FlattenPlaces
  <1>3. Len(name) \in Nat /\ g \in Name /\ Len(g) \in Nat
    BY BodyParts, LenProperties DEF g, Name
  <1>4. at \in [0..Len(name) -> Nat] /\ at[0] = 0 /\ at[Len(name)] = Len(g)
    BY <1>1, <1>2, Zenon
  <1>5. ASSUME NEW i \in 1..Len(name)
        PROVE  /\ at[i] \in 1..Len(g) /\ at[i - 1] + 1 \in 1..Len(g)
               /\ name[i] = "-" => /\ at[i] = at[i - 1] + 2
                                   /\ g[at[i - 1] + 1] = "-" /\ g[at[i - 1] + 2] = "-"
               /\ name[i] = "." => at[i] = at[i - 1] + 1 /\ g[at[i - 1] + 1] = "-"
               /\ name[i] \notin {"-", "."} => at[i] = at[i - 1] + 1 /\ g[at[i - 1] + 1] = name[i]
    <2> DEFINE w == Written1(name[i])
    <2> DEFINE a == at[i - 1]
    <2>1. at[i] = a + Len(w) /\ at[i] <= Len(g) /\ \A k \in 1..Len(w) : g[a + k] = w[k]
      <3>1. i \in 1..Len(parts) /\ parts[i] = w /\ FlattenSeq(parts) = g
        BY <1>1
      <3>2. /\ at[i] = at[i - 1] + Len(parts[i]) /\ at[i] <= Len(FlattenSeq(parts))
            /\ \A k \in 1..Len(parts[i]) : FlattenSeq(parts)[at[i - 1] + k] = parts[i][k]
        BY <1>2, <3>1
      <3> HIDE DEF w
      <3>3. QED BY <3>1, <3>2
    <2>2. a \in Nat /\ at[i] \in Nat
      <3>1. i - 1 \in 0..Len(name) /\ i \in 0..Len(name)
        BY <1>3
      <3>2. QED BY <1>4, <3>1
    <2>3. CASE name[i] = "-"
      <3>1. w = <<"-", "-">>
        BY <2>3 DEF Written1
      <3>2. Len(w) = 2 /\ w[1] = "-" /\ w[2] = "-"
        BY <3>1
      <3> HIDE DEF w, a
      <3>3. at[i] = a + 2 /\ g[a + 1] = "-" /\ g[a + 2] = "-"
        BY <2>1, <3>2
      <3>4. at[i] \in 1..Len(g) /\ a + 1 \in 1..Len(g)
        BY <1>3, <2>1, <2>2, <3>3
      <3>5. QED BY <2>3, <3>3, <3>4 DEF a
    <2>4. CASE name[i] = "."
      <3>1. w = <<"-">>
        BY <2>4 DEF Written1
      <3>2. Len(w) = 1 /\ w[1] = "-"
        BY <3>1
      <3> HIDE DEF w, a
      <3>3. at[i] = a + 1 /\ g[a + 1] = "-"
        BY <2>1, <3>2
      <3>4. at[i] \in 1..Len(g) /\ a + 1 \in 1..Len(g)
        BY <1>3, <2>1, <2>2, <3>3
      <3>5. QED BY <2>4, <3>3, <3>4 DEF a
    <2>5. CASE name[i] \notin {"-", "."}
      <3>1. w = <<name[i]>>
        BY <2>5 DEF Written1
      <3>2. Len(w) = 1 /\ w[1] = name[i]
        BY <3>1
      <3> HIDE DEF w, a
      <3>3. at[i] = a + 1 /\ g[a + 1] = name[i]
        BY <2>1, <3>2
      <3>4. at[i] \in 1..Len(g) /\ a + 1 \in 1..Len(g)
        BY <1>3, <2>1, <2>2, <3>3
      <3>5. QED BY <2>5, <3>3, <3>4 DEF a
    <2>6. QED BY <2>3, <2>4, <2>5
  <1>6. QED BY <1>4, <1>5 DEF g

\* decodeLabel reads back the name encodeLabel spelled.
LEMMA BodyComesBack ==
  ASSUME NEW name \in Name, Proper(name)
  PROVE  Spelled(Body(name)) = name
  <1> DEFINE g == Body(name)
  <1> DEFINE n == Len(name)
  <1> DEFINE q == [i \in DOMAIN g |-> Read1(g, i)]
  <1>1. g \in Name /\ Len(g) \in Nat /\ n \in Nat /\ DOMAIN g = 1..Len(g)
    BY BodyParts, LenProperties DEF Name
  <1>2. PICK at \in [0..n -> Nat] :
            /\ at[0] = 0 /\ at[n] = Len(g)
            /\ \A i \in 1..n :
                  /\ at[i] \in 1..Len(g) /\ at[i - 1] + 1 \in 1..Len(g)
                  /\ name[i] = "-" => /\ at[i] = at[i - 1] + 2
                                      /\ g[at[i - 1] + 1] = "-" /\ g[at[i - 1] + 2] = "-"
                  /\ name[i] = "." => at[i] = at[i - 1] + 1 /\ g[at[i - 1] + 1] = "-"
                  /\ name[i] \notin {"-", "."} => at[i] = at[i - 1] + 1 /\ g[at[i - 1] + 1] = name[i]
    BY BodyPlaces
  <1> HIDE DEF g
  <1>3. q \in Seq(Seq(Token)) /\ Len(q) = Len(g) /\ Spelled(g) = FlattenSeq(q) /\ \A i \in 1..Len(g) : q[i] = Read1(g, i)
    <2>1. q \in Seq(Name) /\ Len(q) = Len(g) /\ Spelled(g) = FlattenSeq(q) /\ \A i \in 1..Len(g) : q[i] = Read1(g, i)
      BY <1>1, SpelledParts
    <2>2. QED BY <2>1 DEF Name
  <1> HIDE DEF q
  <1>4. PICK f \in [0..Len(g) -> Seq(Token)] :
            f[0] = << >> /\ (\A i \in 1..Len(g) : f[i] = f[i - 1] \o Read1(g, i)) /\ Spelled(g) = f[Len(g)]
    <2>1. PICK f \in [0..Len(q) -> Seq(Token)] :
            f[0] = << >> /\ (\A i \in 1..Len(q) : f[i] = f[i - 1] \o q[i]) /\ FlattenSeq(q) = f[Len(q)]
      BY <1>3, FlattenPrefixes
    <2>2. f \in [0..Len(g) -> Seq(Token)] /\ f[0] = << >> /\ Spelled(g) = f[Len(g)]
      BY <1>3, <2>1, Zenon
    <2>3. \A i \in 1..Len(g) : f[i] = f[i - 1] \o Read1(g, i)
      BY <1>3, <2>1
    <2>4. QED BY <2>2, <2>3
  <1> DEFINE P == Paired(g)
  <1>5. \A k \in 1..Len(g) : k \in P <=> k > 1 /\ g[k] = "-" /\ g[k - 1] = "-" /\ k - 1 \notin P
    BY <1>1, PairedMeans
  <1>6. P \subseteq 1..Len(g)
    BY <1>1 DEF Paired
  <1>7. \A k \in 1..Len(g) :
           /\ g[k] # "-" => Read1(g, k) = <<g[k]>>
           /\ g[k] = "-" /\ k \in P => Read1(g, k) = <<"-">>
           /\ g[k] = "-" /\ k \notin P /\ k + 1 \in P => Read1(g, k) = << >>
           /\ g[k] = "-" /\ k \notin P /\ k + 1 \notin P => Read1(g, k) = <<".">>
    <2> SUFFICES ASSUME NEW k \in 1..Len(g)
                 PROVE  /\ g[k] # "-" => Read1(g, k) = <<g[k]>>
                        /\ g[k] = "-" /\ k \in P => Read1(g, k) = <<"-">>
                        /\ g[k] = "-" /\ k \notin P /\ k + 1 \in P => Read1(g, k) = << >>
                        /\ g[k] = "-" /\ k \notin P /\ k + 1 \notin P => Read1(g, k) = <<".">>
      OBVIOUS
    <2>6. k \in P => g[k] = "-"
      BY <1>5
    <2>7. k + 1 \in P => g[k] = "-" /\ k \notin P
      <3>1. SUFFICES ASSUME k + 1 \in P PROVE g[k] = "-" /\ k \notin P
        OBVIOUS
      <3>2. k + 1 \in 1..Len(g) /\ (k + 1) - 1 = k
        BY <1>6, <3>1
      <3>3. g[(k + 1) - 1] = "-" /\ (k + 1) - 1 \notin P
        BY <1>5, <3>1, <3>2
      <3>4. QED BY <3>2, <3>3
    <2>1. CASE g[k] # "-"
      <3>1. Read1(g, k) = <<g[k]>>
        BY <2>1, <2>6, <2>7 DEF Read1
      <3>2. QED BY <2>1, <3>1
    <2>2. CASE g[k] = "-" /\ k \in P
      <3>1. Read1(g, k) = <<"-">>
        BY <2>2, <2>7 DEF Read1
      <3>2. QED BY <2>2, <3>1
    <2>3. CASE g[k] = "-" /\ k \notin P /\ k + 1 \in P
      <3>1. Read1(g, k) = << >>
        BY <2>3 DEF Read1
      <3>2. QED BY <2>3, <3>1
    <2>4. CASE g[k] = "-" /\ k \notin P /\ k + 1 \notin P
      <3>1. Read1(g, k) = <<".">>
        BY <2>4 DEF Read1
      <3>2. QED BY <2>4, <3>1
    <2>5. QED BY <2>1, <2>2, <2>3, <2>4
  <1> HIDE DEF P, n
  <1> DEFINE Back == {i \in Nat : i \in 0..n =>
                         f[at[i]] = SubSeq(name, 1, i) /\ (i > 0 => (at[i] \in P <=> name[i] = "-"))}
  <1>8. 0 \in Back
    <2>1. SubSeq(name, 1, 0) = << >>
      BY SubSeqEmpty
    <2>2. f[at[0]] = SubSeq(name, 1, 0)
      BY <1>2, <1>4, <2>1, Zenon
    <2>3. QED BY <2>2
  <1>9. ASSUME NEW i \in Nat, i \in Back PROVE i + 1 \in Back
    <2> SUFFICES ASSUME i + 1 \in 0..n
                 PROVE  f[at[i + 1]] = SubSeq(name, 1, i + 1) /\ (at[i + 1] \in P <=> name[i + 1] = "-")
      OBVIOUS
    <2> PICK j \in 1..n : j = i + 1 /\ j - 1 = i
      BY <1>1
    <2> DEFINE a == at[i]
    <2> DEFINE b == at[j]
    <2> DEFINE x == name[j]
    <2>1. a \in Nat /\ b \in 1..Len(g) /\ a + 1 \in 1..Len(g) /\ i \in 0..n
          /\ f[a] = SubSeq(name, 1, i) /\ (i > 0 => (a \in P <=> name[i] = "-"))
          /\ f[a] \in Seq(Token)
      <3>1. i \in 0..n /\ j \in 0..n
        BY <1>1
      <3>2. a \in Nat
        BY <3>1
      <3>3. b \in 1..Len(g) /\ at[j - 1] + 1 \in 1..Len(g)
        BY <1>2
      <3>4. a + 1 \in 1..Len(g)
        BY <3>3
      <3>5. a \in 0..Len(g)
        BY <1>1, <3>2, <3>4
      <3>6. f[a] \in Seq(Token)
        BY <3>5
      <3>7. f[a] = SubSeq(name, 1, i) /\ (i > 0 => (a \in P <=> name[i] = "-"))
        BY <1>9, <3>1
      <3>8. QED BY <3>1, <3>2, <3>3, <3>4, <3>6, <3>7
    <2>2. /\ x = "-" => b = a + 2 /\ g[a + 1] = "-" /\ g[a + 2] = "-"
          /\ x = "." => b = a + 1 /\ g[a + 1] = "-"
          /\ x \notin {"-", "."} => b = a + 1 /\ g[a + 1] = x
      <3>1. /\ x = "-" => b = at[j - 1] + 2 /\ g[at[j - 1] + 1] = "-" /\ g[at[j - 1] + 2] = "-"
            /\ x = "." => b = at[j - 1] + 1 /\ g[at[j - 1] + 1] = "-"
            /\ x \notin {"-", "."} => b = at[j - 1] + 1 /\ g[at[j - 1] + 1] = x
        BY <1>2
      <3>2. at[j - 1] = a
        OBVIOUS
      <3> HIDE DEF x, b
      <3>3. QED BY <3>1, <3>2
    <2>3. a + 1 \notin P
      <3>1. SUFFICES ASSUME a + 1 \in P PROVE FALSE
        OBVIOUS
      <3>2. a + 1 > 1 /\ g[a + 1] = "-" /\ g[a] = "-" /\ a \notin P
        <4>1. (a + 1) - 1 = a
          BY <2>1
        <4>2. a + 1 > 1 /\ g[a + 1] = "-" /\ g[(a + 1) - 1] = "-" /\ (a + 1) - 1 \notin P
          BY <1>5, <2>1, <3>1
        <4> HIDE DEF a
        <4>3. QED BY <4>1, <4>2
      <3>3. i > 0
        <4>1. i = 0 => a = 0
          BY <1>2
        <4>2. QED BY <2>1, <3>2, <4>1
      <3>4. i \in 1..n /\ name[i] # "-"
        BY <2>1, <3>2, <3>3
      <3>5. name[i] = "."
        <4>1. name[i] \notin {"-", "."} => a = at[i - 1] + 1 /\ g[at[i - 1] + 1] = name[i]
          BY <1>2, <3>4
        <4>2. name[i] \notin {"-", "."} => g[a] = name[i]
          BY <4>1
        <4>3. QED BY <3>2, <3>4, <4>2
      <3>6. x \notin {".", "-"}
        BY <1>1, <3>4, <3>5 DEF Proper, n
      <3> HIDE DEF x, a, b
      <3>7. QED BY <2>2, <3>2, <3>6
    <2>4. f[a + 1] = f[a] \o Read1(g, a + 1)
      <3>1. (a + 1) - 1 = a
        BY <2>1
      <3>2. f[a + 1] = f[(a + 1) - 1] \o Read1(g, a + 1)
        BY <1>4, <2>1
      <3> HIDE DEF a
      <3>3. QED BY <3>1, <3>2
    <2>5. SubSeq(name, 1, j) = f[a] \o <<x>>
      <3>1. SubSeq(name, 1, i + 1) = SubSeq(name, 1, i) \o <<name[i + 1]>>
        BY Grows DEF n
      <3>2. QED BY <2>1, <3>1
    <2>6. CASE x \notin {"-", "."}
      <3>1. Read1(g, a + 1) = <<x>> /\ b = a + 1
        <4>1. b = a + 1 /\ g[a + 1] = x /\ x # "-"
          BY <2>2, <2>6
        <4>2. a + 1 \in 1..Len(g)
          BY <2>1
        <4>3. Read1(g, a + 1) = <<g[a + 1]>>
          BY <1>7, <4>1, <4>2
        <4> HIDE DEF a, b, x
        <4>4. QED BY <4>1, <4>3
      <3>2. f[b] = SubSeq(name, 1, j)
        BY <2>4, <2>5, <3>1
      <3>3. b \notin P
        BY <2>3, <3>1
      <3>4. QED BY <2>6, <3>2, <3>3
    <2>7. CASE x = "-"
      <3>1. b = a + 2 /\ g[a + 1] = "-" /\ g[a + 2] = "-" /\ a + 2 \in 1..Len(g) /\ (a + 2) - 1 = a + 1 /\ a + 2 > 1
        BY <2>1, <2>2, <2>7
      <3>2. a + 2 \in P
        <4> HIDE DEF a, b, x
        <4>1. a + 2 \in P <=> a + 2 > 1 /\ g[a + 2] = "-" /\ g[(a + 2) - 1] = "-" /\ (a + 2) - 1 \notin P
          BY <1>5, <3>1
        <4>2. QED BY <2>3, <3>1, <4>1
      <3>3. Read1(g, a + 1) = << >> /\ Read1(g, a + 2) = <<"-">>
        <4> HIDE DEF b, x
        <4>1. (a + 1) + 1 = a + 2
          BY <2>1
        <4>2. (a + 1) + 1 \in P
          BY <3>2, <4>1
        <4>3. Read1(g, a + 1) = << >>
          BY <1>7, <2>1, <2>3, <3>1, <4>2
        <4>4. Read1(g, a + 2) = <<"-">>
          BY <1>7, <3>1, <3>2
        <4>5. QED BY <4>3, <4>4
      <3>4. f[a + 1] = f[a]
        <4>1. f[a] \o << >> = f[a]
          BY <2>1, ConcatEmptySeq
        <4>2. QED BY <2>4, <3>3, <4>1
      <3>5. f[a + 2] = f[a] \o <<"-">>
        <4>1. f[a + 2] = f[(a + 2) - 1] \o Read1(g, a + 2)
          BY <1>4, <3>1
        <4>2. f[(a + 2) - 1] = f[a + 1]
          BY <3>1
        <4>3. QED BY <3>3, <3>4, <4>1, <4>2
      <3>6. f[b] = SubSeq(name, 1, j) /\ b \in P
        <4> HIDE DEF a, b
        <4>1. QED BY <2>5, <2>7, <3>1, <3>2, <3>5
      <3>7. QED BY <2>7, <3>6
    <2>8. CASE x = "."
      <3>1. b = a + 1 /\ g[a + 1] = "-"
        BY <2>2, <2>8
      <3>2. (a + 1) + 1 \notin P
        <4> SUFFICES ASSUME (a + 1) + 1 \in P PROVE FALSE
          OBVIOUS
        <4>1. (a + 1) + 1 \in 1..Len(g) /\ g[(a + 1) + 1] = "-"
          BY <1>5, <1>6
        <4>2. j # n
          <5>1. j = n => b = Len(g)
            BY <1>2
          <5>2. QED BY <1>1, <2>1, <3>1, <4>1, <5>1
        <4>3. j + 1 \in 1..n /\ (j + 1) - 1 = j
          BY <1>1, <4>2
        <4>4. g[b + 1] # "-"
          <5> DEFINE y == name[j + 1]
          <5>1. y \notin {".", "-"}
            BY <1>1, <2>8, <4>2, <4>3 DEF Proper, n
          <5>2. g[at[(j + 1) - 1] + 1] = y
            BY <1>2, <4>3, <5>1
          <5> HIDE DEF y
          <5>3. g[b + 1] = y
            BY <4>3, <5>2
          <5>4. QED BY <5>1, <5>3
        <4>5. QED BY <3>1, <4>1, <4>4
      <3>3. Read1(g, a + 1) = <<".">>
        <4> HIDE DEF a, b, x
        <4>1. QED BY <1>7, <2>1, <2>3, <3>1, <3>2
      <3>4. f[b] = SubSeq(name, 1, j) /\ b \notin P
        <4> HIDE DEF a, b
        <4>1. QED BY <2>3, <2>4, <2>5, <2>8, <3>1, <3>3
      <3>5. QED BY <2>8, <3>4
    <2>9. QED BY <2>6, <2>7, <2>8
  <1>10. n \in Back
    <2> HIDE DEF Back
    <2> QED BY <1>1, <1>8, <1>9, SetInduction
  <1>11. f[Len(g)] = SubSeq(name, 1, n)
    <2>1. f[at[n]] = SubSeq(name, 1, n)
      BY <1>1, <1>10
    <2>2. QED BY <1>2, <2>1
  <1>12. SubSeq(name, 1, n) = name
    <2>1. SubSeq(name, 1, n) \in Seq(Token) /\ Len(SubSeq(name, 1, n)) = n /\ \A k \in 1..n : SubSeq(name, 1, n)[k] = name[k]
      BY <1>1, SubSeqProperties, ElementOfSeq DEF Name, n
    <2>2. QED BY <2>1, SeqEqual DEF Name, n
  <1>13. QED BY <1>4, <1>11, <1>12 DEF g

\* What IsSuffix says, place by place.
LEMMA SuffixMeans ==
  ASSUME NEW S, NEW s \in Seq(S), NEW t \in Seq(S)
  PROVE  IsSuffix(s, t) <=> /\ Len(s) <= Len(t)
                            /\ \A k \in 1..Len(s) : t[Len(t) - Len(s) + k] = s[k]
  <1> DEFINE m == Len(s)
  <1> DEFINE n == Len(t)
  <1> DEFINE rs == Reverse(s)
  <1> DEFINE rt == Reverse(t)
  <1>1. m \in Nat /\ n \in Nat /\ (\A i \in 1..m : s[i] \in S) /\ \A i \in 1..n : t[i] \in S
    BY LenProperties, ElementOfSeq
  <1>2. rs \in Seq(S) /\ Len(rs) = m /\ \A i \in 1..m : rs[i] = s[m - i + 1]
    <2>1. \A i \in 1..m : m - i + 1 \in 1..m
      BY <1>1
    <2>2. rs \in [1..m -> S] /\ \A i \in 1..m : rs[i] = s[m - i + 1]
      BY <1>1, <2>1 DEF Reverse
    <2> HIDE DEF rs
    <2>3. QED BY <1>1, <2>2, ListsAreSequences
  <1>3. rt \in Seq(S) /\ Len(rt) = n /\ \A i \in 1..n : rt[i] = t[n - i + 1]
    <2>1. \A i \in 1..n : n - i + 1 \in 1..n
      BY <1>1
    <2>2. rt \in [1..n -> S] /\ \A i \in 1..n : rt[i] = t[n - i + 1]
      BY <1>1, <2>1 DEF Reverse
    <2> HIDE DEF rt
    <2>3. QED BY <1>1, <2>2, ListsAreSequences
  <1>4. IsSuffix(s, t) <=> Len(rs) <= Len(rt) /\ SubSeq(rs, 1, Len(rs)) = SubSeq(rt, 1, Len(rs))
    BY DEF IsSuffix, IsPrefix
  <1> HIDE DEF rs, rt, m, n
  <1>5. ASSUME m <= n
        PROVE  SubSeq(rs, 1, m) = SubSeq(rt, 1, m) <=> \A k \in 1..m : t[n - m + k] = s[k]
    <2> DEFINE a == SubSeq(rs, 1, m)
    <2> DEFINE b == SubSeq(rt, 1, m)
    <2>1. a \in Seq(S) /\ Len(a) = m /\ \A i \in 1..m : a[i] = rs[i]
      <3>1. \A i \in 1..m : rs[i] \in S
        BY <1>2, ElementOfSeq
      <3>2. QED BY <1>1, <3>1, SubSeqProperties
    <2>2. b \in Seq(S) /\ Len(b) = m /\ \A i \in 1..m : b[i] = rt[i]
      <3>1. \A i \in 1..m : rt[i] \in S
        BY <1>1, <1>3, <1>5, ElementOfSeq
      <3>2. QED BY <1>1, <3>1, SubSeqProperties
    <2> HIDE DEF a, b
    <2>3. a = b <=> \A i \in 1..m : rs[i] = rt[i]
      <3>1. ASSUME a = b, NEW i \in 1..m PROVE rs[i] = rt[i]
        BY <2>1, <2>2, <3>1
      <3>2. ASSUME \A i \in 1..m : rs[i] = rt[i] PROVE a = b
        <4>1. \A i \in 1..m : a[i] = b[i]
          BY <2>1, <2>2, <3>2
        <4>2. QED BY <2>1, <2>2, <4>1, SeqEqual
      <3>3. QED BY <3>1, <3>2
    <2>4. ASSUME \A i \in 1..m : rs[i] = rt[i], NEW k \in 1..m PROVE t[n - m + k] = s[k]
      <3>1. m - k + 1 \in 1..m /\ m - k + 1 \in 1..n /\ m - (m - k + 1) + 1 = k /\ n - (m - k + 1) + 1 = n - m + k
        BY <1>1, <1>5
      <3>2. rs[m - k + 1] = rt[m - k + 1]
        BY <2>4, <3>1
      <3>3. rs[m - k + 1] = s[m - (m - k + 1) + 1] /\ rt[m - k + 1] = t[n - (m - k + 1) + 1]
        BY <1>2, <1>3, <3>1
      <3>4. QED BY <3>1, <3>2, <3>3
    <2>5. ASSUME \A k \in 1..m : t[n - m + k] = s[k], NEW i \in 1..m PROVE rs[i] = rt[i]
      <3>1. m - i + 1 \in 1..m /\ i \in 1..n /\ n - m + (m - i + 1) = n - i + 1
        BY <1>1, <1>5
      <3>2. t[n - m + (m - i + 1)] = s[m - i + 1]
        BY <2>5, <3>1
      <3>3. rs[i] = s[m - i + 1] /\ rt[i] = t[n - i + 1]
        BY <1>2, <1>3, <3>1
      <3>4. QED BY <3>1, <3>2, <3>3
    <2>6. QED BY <2>3, <2>4, <2>5 DEF a, b
  <1>6. QED BY <1>2, <1>3, <1>4, <1>5 DEF m, n

\* A marker put behind a name is found there, unless a hyphen stands before it.
LEMMA MarkerFound ==
  ASSUME NEW b \in Name, NEW m \in Name
  PROVE  /\ EndsIn(b \o m, m) <=> b = << >> \/ b[Len(b)] # "-"
         /\ Unmarked(b \o m, m) = b
  <1> DEFINE l == b \o m
  <1>1. Len(b) \in Nat /\ Len(m) \in Nat /\ l \in Name /\ Len(l) = Len(b) + Len(m)
        /\ \A k \in 1..(Len(b) + Len(m)) : l[k] = IF k <= Len(b) THEN b[k] ELSE m[k - Len(b)]
    <2>1. b \in Seq(Token) /\ m \in Seq(Token)
      BY DEF Name
    <2>2. QED BY <2>1, ConcatProperties, LenProperties DEF Name
  <1> HIDE DEF l
  <1>2. Len(l) - Len(m) = Len(b)
    BY <1>1
  <1>3. \A k \in 1..Len(m) : l[Len(l) - Len(m) + k] = m[k]
    <2> SUFFICES ASSUME NEW k \in 1..Len(m) PROVE l[Len(l) - Len(m) + k] = m[k]
      OBVIOUS
    <2> DEFINE j == Len(b) + k
    <2>1. Len(l) - Len(m) + k = j /\ j \in 1..(Len(b) + Len(m)) /\ ~(j <= Len(b)) /\ j - Len(b) = k
      BY <1>1
    <2> HIDE DEF j
    <2>2. l[j] = m[j - Len(b)]
      BY <1>1, <2>1
    <2>3. QED BY <2>1, <2>2
  <1>4. IsSuffix(m, l)
    <2>1. Len(m) <= Len(l)
      BY <1>1
    <2>2. QED BY <1>1, <1>3, <2>1, SuffixMeans DEF Name
  <1>5. \A k \in 1..Len(b) : l[k] = b[k]
    <2> SUFFICES ASSUME NEW k \in 1..Len(b) PROVE l[k] = b[k]
      OBVIOUS
    <2>1. k \in 1..(Len(b) + Len(m)) /\ k <= Len(b)
      BY <1>1
    <2>2. QED BY <1>1, <2>1
  <1>6. EndsIn(l, m) <=> b = << >> \/ b[Len(b)] # "-"
    <2>1. EndsIn(l, m) <=> Len(b) = 0 \/ l[Len(b)] # "-"
      BY <1>2, <1>4 DEF EndsIn
    <2>2. Len(b) = 0 <=> b = << >>
      BY EmptySeq DEF Name
    <2>3. Len(b) # 0 => l[Len(b)] = b[Len(b)]
      BY <1>1, <1>5
    <2>4. QED BY <2>1, <2>2, <2>3
  <1>7. SubSeq(l, 1, Len(b)) = b
    <2>1. \A k \in 1..Len(b) : l[k] \in Token
      BY <1>5, ElementOfSeq DEF Name
    <2>2. SubSeq(l, 1, Len(b)) \in Seq(Token) /\ Len(SubSeq(l, 1, Len(b))) = Len(b)
          /\ \A k \in 1..Len(b) : SubSeq(l, 1, Len(b))[k] = b[k]
      BY <1>1, <1>5, <2>1, SubSeqProperties
    <2>3. QED BY <2>2, SeqEqual DEF Name
  <1>8. Unmarked(l, m) = b
    BY <1>2, <1>7 DEF Unmarked
  <1>9. QED BY <1>6, <1>8 DEF l

\* How a name's end shows at the end of what encodeLabel makes of it: a marker
\* there comes from one behind a dot of the name.
LEMMA BodyEnd ==
  ASSUME NEW h \in Name, h # << >>
  PROVE  /\ Body(h) # << >>
         /\ h[Len(h)] \in {"-", "."} => Body(h)[Len(Body(h))] = "-"
         /\ h[Len(h)] \notin {"-", "."} => Body(h)[Len(Body(h))] = h[Len(h)]
         /\ EndsIn(Body(h), <<"-", "s">>) => IsSuffix(<<".", "s">>, h)
         /\ \A m \in Ports : EndsIn(Body(h), <<"-", "p", m>>) => IsSuffix(<<".", "p", m>>, h)
  <1> DEFINE g == Body(h)
  <1> DEFINE n == Len(h)
  <1>1. g \in Name /\ Len(g) \in Nat /\ n \in Nat \ {0}
    BY BodyParts, LenProperties, EmptySeq DEF Name
  <1>2. PICK at \in [0..n -> Nat] :
            /\ at[0] = 0 /\ at[n] = Len(g)
            /\ \A i \in 1..n :
                  /\ at[i] \in 1..Len(g) /\ at[i - 1] + 1 \in 1..Len(g)
                  /\ h[i] = "-" => /\ at[i] = at[i - 1] + 2
                                   /\ g[at[i - 1] + 1] = "-" /\ g[at[i - 1] + 2] = "-"
                  /\ h[i] = "." => at[i] = at[i - 1] + 1 /\ g[at[i - 1] + 1] = "-"
                  /\ h[i] \notin {"-", "."} => at[i] = at[i - 1] + 1 /\ g[at[i - 1] + 1] = h[i]
    BY BodyPlaces
  <1> HIDE DEF g, n
  \* The place of a token by itself, and what a hyphen by itself stands for.
  <1>3. ASSUME NEW i \in 1..n
        PROVE  /\ at[i] \in 1..Len(g) /\ at[i - 1] \in 0..(at[i] - 1)
               /\ h[i] \notin {"-", "."} => at[i] - 1 = at[i - 1] /\ g[at[i]] = h[i]
               /\ h[i] \in {"-", "."} => g[at[i]] = "-"
               /\ g[at[i]] = "-" /\ (at[i] - 1 = 0 \/ g[at[i] - 1] # "-") => h[i] = "."
    <2> DEFINE a == at[i - 1]
    <2> DEFINE b == at[i]
    <2> DEFINE x == h[i]
    <2>1. a \in Nat /\ b \in 1..Len(g)
      <3>1. i - 1 \in 0..n
        BY <1>1
      <3>2. QED BY <1>2, <3>1
    <2>2. /\ x = "-" => b = a + 2 /\ g[a + 1] = "-" /\ g[a + 2] = "-"
          /\ x = "." => b = a + 1 /\ g[a + 1] = "-"
          /\ x \notin {"-", "."} => b = a + 1 /\ g[a + 1] = x
      BY <1>2
    <2> HIDE DEF a, b, x
    <2>3. CASE x = "-"
      <3>1. b = a + 2 /\ b - 1 = a + 1 /\ g[b] = "-" /\ g[b - 1] = "-" /\ b - 1 # 0 /\ a \in 0..(b - 1)
        BY <1>1, <2>1, <2>2, <2>3
      <3>2. QED BY <2>1, <2>3, <3>1 DEF a, b, x
    <2>4. CASE x = "."
      <3>1. b = a + 1 /\ b - 1 = a /\ g[b] = "-" /\ a \in 0..(b - 1)
        BY <1>1, <2>1, <2>2, <2>4
      <3>2. QED BY <2>1, <2>4, <3>1 DEF a, b, x
    <2>5. CASE x \notin {"-", "."}
      <3>1. b = a + 1 /\ b - 1 = a /\ g[b] = x /\ a \in 0..(b - 1)
        BY <1>1, <2>1, <2>2, <2>5
      <3>2. QED BY <2>1, <2>5, <3>1 DEF a, b, x
    <2>6. QED BY <2>3, <2>4, <2>5
  <1>4. n \in 1..n /\ at[n] = Len(g)
    BY <1>1, <1>2
  <1>5. Len(g) # 0 /\ (h[n] \in {"-", "."} => g[Len(g)] = "-") /\ (h[n] \notin {"-", "."} => g[Len(g)] = h[n])
    <2>1. at[n] \in 1..Len(g) /\ (h[n] \in {"-", "."} => g[at[n]] = "-") /\ (h[n] \notin {"-", "."} => g[at[n]] = h[n])
      BY <1>3, <1>4
    <2>2. QED BY <1>1, <1>4, <2>1
  \* A token of the marker, but its hyphen, is a token of the name.
  <1>6. ASSUME NEW i \in 1..n, NEW x, x \notin {"-", "."}, g[at[i]] = x
        PROVE  h[i] = x /\ at[i - 1] = at[i] - 1 /\ (at[i] # 1 => i - 1 \in 1..n)
    <2>1. h[i] \notin {"-", "."}
      BY <1>3, <1>6
    <2>2. h[i] = x /\ at[i - 1] = at[i] - 1 /\ at[i] \in 1..Len(g)
      BY <1>3, <1>6, <2>1
    <2>3. i = 1 => at[i] = 1
      <3>1. i = 1 => i - 1 = 0
        OBVIOUS
      <3>2. i = 1 => at[i - 1] = 0
        BY <1>2, <3>1
      <3>3. QED BY <1>1, <2>2, <3>2
    <2>4. QED BY <1>1, <2>2, <2>3
  <1>7. ASSUME EndsIn(g, <<"-", "s">>) PROVE IsSuffix(<<".", "s">>, h)
    <2>1. <<"-", "s">> \in Seq(Token) /\ Len(<<"-", "s">>) = 2 /\ <<"-", "s">>[1] = "-" /\ <<"-", "s">>[2] = "s"
      <3>1. {"-", "s"} \subseteq Token
        BY AddressingAssumption
      <3>2. QED BY <3>1
    <2>2. 2 <= Len(g) /\ g[Len(g) - 2 + 1] = "-" /\ g[Len(g) - 2 + 2] = "s" /\ (Len(g) - 2 = 0 \/ g[Len(g) - 2] # "-")
      <3>1. IsSuffix(<<"-", "s">>, g) /\ (Len(g) - 2 = 0 \/ g[Len(g) - 2] # "-")
        BY <1>7, <2>1 DEF EndsIn
      <3>2. 2 <= Len(g) /\ \A k \in 1..2 : g[Len(g) - 2 + k] = <<"-", "s">>[k]
        BY <1>1, <2>1, <3>1, SuffixMeans DEF Name
      <3>3. QED BY <2>1, <3>1, <3>2
    <2> DEFINE l == Len(g)
    <2> HIDE DEF l
    <2>3. l \in Nat /\ 2 <= l /\ g[l - 1] = "-" /\ g[l] = "s" /\ ((l - 1) - 1 = 0 \/ g[(l - 1) - 1] # "-") /\ at[n] = l
      <3>1. Len(g) - 2 + 1 = Len(g) - 1 /\ Len(g) - 2 + 2 = Len(g) /\ Len(g) - 2 = (Len(g) - 1) - 1
        BY <1>1
      <3>2. QED BY <1>1, <1>4, <2>2, <3>1 DEF l
    <2>4. h[n] = "s" /\ at[n - 1] = l - 1 /\ n - 1 \in 1..n
      BY <1>4, <1>6, <2>3
    <2>5. h[n - 1] = "."
      BY <1>3, <2>3, <2>4
    <2>6. n >= 2 /\ \A k \in 1..2 : h[n - 2 + k] = <<".", "s">>[k]
      <3>1. n >= 2 /\ n - 2 + 1 = n - 1 /\ n - 2 + 2 = n
        BY <1>1, <2>4
      <3>2. <<".", "s">>[1] = "." /\ <<".", "s">>[2] = "s"
        OBVIOUS
      <3>3. h[n - 2 + 1] = "." /\ h[n - 2 + 2] = "s"
        BY <2>4, <2>5, <3>1
      <3>4. \A k \in 1..2 : k = 1 \/ k = 2
        OBVIOUS
      <3>5. QED BY <3>1, <3>2, <3>3, <3>4
    <2>7. <<".", "s">> \in Seq(Token) /\ Len(<<".", "s">>) = 2
      <3>1. {".", "s"} \subseteq Token
        BY AddressingAssumption
      <3>2. QED BY <3>1
    <2>8. QED BY <2>6, <2>7, SuffixMeans DEF Name, n
  <1>8. ASSUME NEW m \in Ports, EndsIn(g, <<"-", "p", m>>) PROVE IsSuffix(<<".", "p", m>>, h)
    <2> DEFINE w == <<"-", "p", m>>
    <2> DEFINE v == <<".", "p", m>>
    <2>0. m \in Token /\ {"-", ".", "p"} \subseteq Token /\ m \notin {"-", "."}
      BY AddressingAssumption
    <2>1. w \in Seq(Token) /\ Len(w) = 3 /\ w[1] = "-" /\ w[2] = "p" /\ w[3] = m
      BY <2>0
    <2>7. v \in Seq(Token) /\ Len(v) = 3 /\ v[1] = "." /\ v[2] = "p" /\ v[3] = m
      BY <2>0
    <2>9. EndsIn(g, w)
      BY <1>8
    <2> HIDE DEF w
    <2>2. 3 <= Len(g) /\ g[Len(g) - 3 + 1] = "-" /\ g[Len(g) - 3 + 2] = "p" /\ g[Len(g) - 3 + 3] = m
          /\ (Len(g) - 3 = 0 \/ g[Len(g) - 3] # "-")
      <3>1. IsSuffix(w, g) /\ (Len(g) - 3 = 0 \/ g[Len(g) - 3] # "-")
        BY <2>1, <2>9 DEF EndsIn
      <3>2. 3 <= Len(g) /\ \A k \in 1..3 : g[Len(g) - 3 + k] = w[k]
        <4>1. g \in Seq(Token)
          BY <1>1 DEF Name
        <4>2. Len(w) <= Len(g) /\ \A k \in 1..Len(w) : g[Len(g) - Len(w) + k] = w[k]
          BY <2>1, <3>1, <4>1, SuffixMeans
        <4>3. QED BY <2>1, <4>2
      <3>3. QED BY <2>1, <3>1, <3>2
    <2> DEFINE l == Len(g)
    <2> HIDE DEF l
    <2>3. l \in Nat /\ 3 <= l /\ g[l - 2] = "-" /\ g[l - 1] = "p" /\ g[l] = m
          /\ ((l - 2) - 1 = 0 \/ g[(l - 2) - 1] # "-") /\ at[n] = l
      <3>1. Len(g) - 3 + 1 = Len(g) - 2 /\ Len(g) - 3 + 2 = Len(g) - 1 /\ Len(g) - 3 + 3 = Len(g) /\ Len(g) - 3 = (Len(g) - 2) - 1
        BY <1>1
      <3>2. QED BY <1>1, <1>4, <2>2, <3>1 DEF l
    <2>4. h[n] = m /\ at[n - 1] = l - 1 /\ n - 1 \in 1..n
      BY <1>4, <1>6, <2>0, <2>3
    <2>5. h[n - 1] = "p" /\ at[n - 2] = l - 2 /\ n - 2 \in 1..n
      <3>1. (n - 1) - 1 = n - 2 /\ (l - 1) - 1 = l - 2 /\ l - 1 # 1
        BY <1>1, <2>3
      <3>2. g[at[n - 1]] = "p" /\ at[n - 1] # 1
        BY <2>3, <2>4, <3>1
      <3>3. h[n - 1] = "p" /\ at[(n - 1) - 1] = at[n - 1] - 1 /\ (n - 1) - 1 \in 1..n
        BY <1>6, <2>4, <3>2
      <3>4. QED BY <2>4, <3>1, <3>3
    <2>6. h[n - 2] = "."
      BY <1>3, <2>3, <2>5
    <2>8. n >= 3 /\ \A k \in 1..3 : h[n - 3 + k] = v[k]
      <3> HIDE DEF v
      <3>1. n >= 3 /\ n - 3 + 1 = n - 2 /\ n - 3 + 2 = n - 1 /\ n - 3 + 3 = n
        BY <1>1, <2>5
      <3>3. h[n - 3 + 1] = v[1] /\ h[n - 3 + 2] = v[2] /\ h[n - 3 + 3] = v[3]
        BY <2>4, <2>5, <2>6, <2>7, <3>1
      <3>4. \A k \in 1..3 : k = 1 \/ k = 2 \/ k = 3
        OBVIOUS
      <3>5. QED BY <3>1, <3>3, <3>4
    <2> HIDE DEF v
    <2>10. IsSuffix(v, h)
      BY <2>7, <2>8, SuffixMeans DEF Name, n
    <2>11. QED BY <2>10 DEF v
  <1>9. g # << >>
    BY <1>1, <1>5, EmptySeq DEF Name
  <1>10. QED BY <1>5, <1>7, <1>8, <1>9 DEF g, n

\* The markers' ends, and what behind them is no other marker.
LEMMA Markers ==
  /\ <<"-", "s">> \in Name /\ Len(<<"-", "s">>) = 2 /\ <<"-", "s">>[2] = "s"
  /\ \A p \in Ports : /\ <<"-", "p", p>> \in Name /\ Len(<<"-", "p", p>>) = 3 /\ <<"-", "p", p>>[3] = p
                      /\ p \notin {"-", "s"}
  <1>1. {"-", "p", "s"} \subseteq Token /\ \A p \in Ports : p \in Token /\ p \notin {"-", "s"}
    BY AddressingAssumption
  <1>2. QED BY <1>1 DEF Name

\* A port written behind a name is found there, and no mark of TLS with it.
LEMMA PortMarked ==
  ASSUME NEW b \in Name, NEW port \in Ports, b[Len(b)] # "-"
  PROVE  LET l == b \o <<"-", "p", port>>
         IN  /\ l \in Name /\ l # << >> /\ Last(l) = port /\ l[Len(l)] # "-"
             /\ EndsIn(l, <<"-", "p", port>>) /\ Unmarked(l, <<"-", "p", port>>) = b
             /\ ~EndsIn(l, <<"-", "s">>)
  <1> DEFINE mp == <<"-", "p", port>>
  <1> DEFINE ms == <<"-", "s">>
  <1> DEFINE l == b \o mp
  <1>1. mp \in Name /\ Len(mp) = 3 /\ mp[3] = port /\ port \notin {"-", "s"}
        /\ ms \in Name /\ Len(ms) = 2 /\ ms[2] = "s"
    BY Markers
  <1> HIDE DEF mp, ms
  <1>2. EndsIn(l, mp) /\ Unmarked(l, mp) = b
    BY <1>1, MarkerFound
  <1>3. Len(b) \in Nat /\ l \in Name /\ Len(l) = Len(b) + 3 /\ \A k \in 1..(Len(b) + 3) : l[k] = IF k <= Len(b) THEN b[k] ELSE mp[k - Len(b)]
    <2>1. b \in Seq(Token) /\ mp \in Seq(Token)
      BY <1>1 DEF Name
    <2>2. Len(b) \in Nat
      BY <2>1, LenProperties
    <2>3. /\ b \o mp \in Seq(Token) /\ Len(b \o mp) = Len(b) + Len(mp)
          /\ \A k \in 1..(Len(b) + Len(mp)) : (b \o mp)[k] = IF k <= Len(b) THEN b[k] ELSE mp[k - Len(b)]
      BY <2>1, ConcatProperties
    <2>4. /\ l \in Seq(Token) /\ Len(l) = Len(b) + 3
          /\ \A k \in 1..(Len(b) + 3) : l[k] = IF k <= Len(b) THEN b[k] ELSE mp[k - Len(b)]
      <3> HIDE DEF l
      <3>1. l = b \o mp
        BY DEF l
      <3>2. QED BY <1>1, <2>3, <3>1, Zenon
    <2>5. l \in Name
      BY <2>4 DEF Name
    <2> HIDE DEF l
    <2>6. QED BY <2>2, <2>4, <2>5
  <1> HIDE DEF l
  <1>4. l[Len(l)] = port
    <2> DEFINE n == Len(b)
    <2>1. n \in Nat
      BY <1>3
    <2> HIDE DEF n
    <2>2. n + 3 \in 1..(n + 3) /\ ~(n + 3 <= n) /\ (n + 3) - n = 3
      BY <2>1
    <2>3. l[n + 3] = mp[(n + 3) - n]
      BY <1>3, <2>2 DEF n
    <2>4. l[n + 3] = mp[3]
      BY <2>2, <2>3
    <2>5. QED BY <1>1, <1>3, <2>4 DEF n
  <1>5. l # << >> /\ Last(l) = port
    <2>1. Len(l) # 0
      BY <1>3
    <2>2. Len(<< >>) = 0
      OBVIOUS
    <2>3. l # << >>
      BY <2>1, <2>2
    <2>4. QED BY <1>4, <2>3 DEF Last
  <1>6. ASSUME EndsIn(l, ms) PROVE FALSE
    <2>1. IsSuffix(ms, l)
      BY <1>6 DEF EndsIn
    <2>2. l \in Seq(Token) /\ ms \in Seq(Token)
      BY <1>1, <1>3 DEF Name
    <2>3. \A k \in 1..Len(ms) : l[Len(l) - Len(ms) + k] = ms[k]
      BY <2>1, <2>2, SuffixMeans
    <2>4. l[Len(l) - 2 + 2] = "s"
      BY <1>1, <2>3
    <2>5. Len(l) - 2 + 2 = Len(l)
      BY <1>3
    <2>6. QED BY <1>1, <1>4, <2>4, <2>5
  <1>7. QED BY <1>1, <1>2, <1>3, <1>4, <1>5, <1>6 DEF l, mp, ms

\* decodeLabel is the inverse of encodeLabel (codec.go:339-384), as the comment
\* of the second says, on the host, the port and the scheme of every name the
\* DNS has but two sorts: one whose last component reads as a marker, which that
\* comment reserves, and one that ends in a dot or a hyphen and is followed by
\* a marker, which it does not (Rooted).
THEOREM LabelsComeBack ==
  ASSUME NEW h \in Name, h # << >>, Proper(h), NEW port \in Ports \cup {""}, NEW tls \in BOOLEAN,
         port # "" \/ tls => h[Len(h)] \notin {".", "-"},
         port = "" /\ ~tls => ~IsSuffix(<<".", "s">>, h),
         port = "" => \A n \in Ports : ~IsSuffix(<<".", "p", n>>, h)
  PROVE  decodeLabel(encodeLabel(h, port, tls)) = [tls |-> tls, port |-> port, hostname |-> h]
  <1> DEFINE b == Body(h)
  <1> DEFINE ms == <<"-", "s">>
  <1> DEFINE mp == <<"-", "p", port>>
  <1> DEFINE label == encodeLabel(h, port, tls)
  <1> DEFINE bare == IF EndsIn(label, ms) THEN Unmarked(label, ms) ELSE label
  <1> DEFINE ported == bare # << >> /\ Last(bare) \in Ports /\ EndsIn(bare, <<"-", "p", Last(bare)>>)
  <1> DEFINE name == IF ported THEN Unmarked(bare, <<"-", "p", Last(bare)>>) ELSE bare
  <1>1. decodeLabel(label) = [tls |-> EndsIn(label, ms), port |-> IF ported THEN Last(bare) ELSE "", hostname |-> Spelled(name)]
    BY DEF decodeLabel
  <1>2. label = b \o (IF port = "" THEN << >> ELSE mp) \o (IF tls THEN ms ELSE << >>)
    BY DEF encodeLabel, Body, Written1
  <1>3. b \in Name /\ b # << >> /\ Spelled(b) = h /\ ms \in Name /\ (port # "" => mp \in Name) /\ << >> \in Name
    <2>2. ms \in Name /\ (port # "" => mp \in Name)
      BY Markers
    <2> HIDE DEF ms, mp
    <2>3. QED BY <2>2, BodyParts, BodyEnd, BodyComesBack, EmptySeq DEF Name
  \* The end of the name's own part of the label.
  <1>4. /\ port # "" \/ tls => b[Len(b)] # "-"
        /\ port = "" /\ ~tls => ~EndsIn(b, ms)
        /\ port = "" => ~(Last(b) \in Ports /\ EndsIn(b, <<"-", "p", Last(b)>>))
    <2>1. port # "" \/ tls => b[Len(b)] # "-"
      <3>1. h[Len(h)] \notin {"-", "."} => b[Len(b)] = h[Len(h)]
        BY BodyEnd
      <3>2. QED BY <3>1
    <2>2. EndsIn(b, ms) => IsSuffix(<<".", "s">>, h)
      BY BodyEnd
    <2>3. \A m \in Ports : EndsIn(b, <<"-", "p", m>>) => IsSuffix(<<".", "p", m>>, h)
      BY BodyEnd
    <2> HIDE DEF b
    <2>4. QED BY <2>1, <2>2, <2>3
  <1>5. ASSUME port # ""
        PROVE  /\ Last(b \o mp) = port /\ b \o mp # << >> /\ b \o mp \in Name /\ (b \o mp)[Len(b \o mp)] # "-"
               /\ EndsIn(b \o mp, mp) /\ Unmarked(b \o mp, mp) = b /\ ~EndsIn(b \o mp, ms)
    <2>1. port \in Ports /\ b[Len(b)] # "-"
      BY <1>4, <1>5
    <2> HIDE DEF b
    <2>2. QED BY <1>3, <2>1, PortMarked
  <1>6. ASSUME NEW x \in Name, x[Len(x)] # "-" PROVE EndsIn(x \o ms, ms) /\ Unmarked(x \o ms, ms) = x
    <2> HIDE DEF ms
    <2>1. QED BY <1>3, <1>6, MarkerFound
  <1>7. \A x \in Name : x \o << >> = x
    BY ConcatEmptySeq DEF Name
  <1>8. bare = (IF port = "" THEN b ELSE b \o mp) /\ (EndsIn(label, ms) <=> tls)
    <2> HIDE DEF b, ms, label, ported, name
    <2>1. CASE port = ""
      <3>1. CASE tls
        <4>1. label = b \o ms
          BY <1>2, <1>3, <1>7, <2>1, <3>1
        <4>2. EndsIn(label, ms) /\ Unmarked(label, ms) = b
          BY <1>3, <1>4, <1>6, <3>1, <4>1
        <4>3. QED BY <2>1, <3>1, <4>2
      <3>2. CASE ~tls
        <4>1. label = b
          BY <1>2, <1>3, <1>7, <2>1, <3>2
        <4>2. ~EndsIn(label, ms)
          BY <1>4, <2>1, <3>2, <4>1
        <4>3. QED BY <2>1, <3>2, <4>1, <4>2
      <3>3. QED BY <3>1, <3>2
    <2>2. CASE port # ""
      <3>1. CASE tls
        <4>1. label = (b \o mp) \o ms
          BY <1>2, <2>2, <3>1
        <4>2. EndsIn(label, ms) /\ Unmarked(label, ms) = b \o mp
          BY <1>5, <1>6, <2>2, <4>1
        <4>3. QED BY <2>2, <3>1, <4>2
      <3>2. CASE ~tls
        <4>1. label = b \o mp
          BY <1>2, <1>5, <1>7, <2>2, <3>2
        <4>2. ~EndsIn(label, ms)
          BY <1>5, <2>2, <4>1
        <4>3. QED BY <2>2, <3>2, <4>1, <4>2
      <3>3. QED BY <3>1, <3>2
    <2>3. QED BY <2>1, <2>2
  <1> HIDE DEF b, ms, label, bare
  <1>9. name = b /\ (IF ported THEN Last(bare) ELSE "") = port
    <2>1. CASE port = ""
      <3>1. bare = b /\ ~ported
        BY <1>4, <1>8, <2>1
      <3>2. QED BY <2>1, <3>1
    <2>2. CASE port # ""
      <3>1. bare = b \o mp
        BY <1>8, <2>2
      <3>2. ported /\ Last(bare) = port
        BY <1>5, <2>2, <3>1
      <3>3. name = b
        BY <1>5, <2>2, <3>1, <3>2
      <3>4. QED BY <3>2, <3>3
    <2>3. QED BY <2>1, <2>2
  <1> HIDE DEF name, ported
  <1>10. EndsIn(label, ms) = tls
    <2>1. EndsIn(label, ms) = TRUE \/ EndsIn(label, ms) = FALSE
      BY Zenon DEF EndsIn
    <2>2. QED BY <1>8, <2>1
  <1>11. QED BY <1>1, <1>3, <1>9, <1>10 DEF label

-----------------------------------------------------------------------------
(* What Encode writes, Decode reads *)

\* No label has a dot.
LEMMA DotFree ==
  ASSUME NEW name \in Name, NEW port \in Ports \cup {""}, NEW tls
  PROVE  ~Contains(encodeLabel(name, port, tls), ".")
  <1> DEFINE D == Token \ {"."}
  <1> DEFINE parts == [i \in DOMAIN name |-> Written1(name[i])]
  <1>1. {"-", "p", "s"} \subseteq D /\ Ports \subseteq D
    BY AddressingAssumption
  <1>2. parts \in Seq(Seq(D))
    <2>1. Len(name) \in Nat /\ DOMAIN name = 1..Len(name) /\ \A i \in 1..Len(name) : name[i] \in Token
      BY LenProperties, ElementOfSeq DEF Name
    <2> HIDE DEF D
    <2>2. \A x \in Token : x # "." => x \in D
      BY DEF D
    <2>3. ASSUME NEW i \in 1..Len(name) PROVE Written1(name[i]) \in Seq(D)
      <3>1. CASE name[i] = "-"
        BY <1>1, <3>1, Singles DEF Written1
      <3>2. CASE name[i] = "."
        BY <1>1, <3>2, Singles DEF Written1
      <3>3. CASE name[i] \notin {"-", "."}
        BY <2>1, <2>2, <3>3, Singles DEF Written1
      <3>4. QED BY <3>1, <3>2, <3>3
    <2>4. parts \in [1..Len(name) -> Seq(D)]
      BY <2>1, <2>3
    <2> HIDE DEF parts
    <2>5. QED BY <2>1, <2>4, ListsAreSequences
  <1> DEFINE m == IF port = "" THEN << >> ELSE <<"-", "p", port>>
  <1> DEFINE e == IF tls THEN <<"-", "s">> ELSE << >>
  <1> HIDE DEF D
  <1>3. m \in Seq(D) /\ e \in Seq(D)
    <2>1. port # "" => port \in D
      BY <1>1
    <2>2. QED BY <1>1, <2>1, Singles, EmptySeq
  <1>4. encodeLabel(name, port, tls) = FlattenSeq(parts) \o m \o e
    BY DEF encodeLabel, Written1
  <1> HIDE DEF parts, m, e
  <1>5. encodeLabel(name, port, tls) \in Seq(D)
    <2>1. FlattenSeq(parts) \in Seq(D)
      BY <1>2, FlattenTyped
    <2>2. FlattenSeq(parts) \o m \in Seq(D)
      BY <1>3, <2>1, Concats
    <2>3. QED BY <1>3, <1>4, <2>2, Concats
  <1>6. \A i \in 1..Len(encodeLabel(name, port, tls)) : encodeLabel(name, port, tls)[i] \in D
    BY <1>5, ElementOfSeq
  <1>7. QED BY <1>6 DEF Contains, D

\* The label is cut off the host it is put before.
LEMMA LabelCutOff ==
  ASSUME NEW label \in Name, label # << >>, NEW base \in Name
  PROVE  LET host == label \o <<".">> \o base
         IN  /\ host \in Name /\ Under(host, base)
             /\ SubSeq(host, 1, Len(host) - Len(base) - 1) = label
  <1> DEFINE tail == <<".">> \o base
  <1> DEFINE host == label \o tail
  <1>1. <<".">> \in Seq(Token) /\ Len(<<".">>) = 1
    BY AddressingAssumption, Singles
  <1>2. label \in Seq(Token) /\ base \in Seq(Token) /\ Len(label) \in Nat \ {0} /\ Len(base) \in Nat
    BY LenProperties, EmptySeq DEF Name
  <1>3. tail \in Seq(Token) /\ Len(tail) = Len(base) + 1
    BY <1>1, <1>2, ConcatProperties
  <1>4. label \o <<".">> \o base = host
    BY <1>1, <1>2, ConcatAssociative
  <1> HIDE DEF tail
  <1>5. host \in Seq(Token) /\ Len(host) = Len(label) + (Len(base) + 1)
        /\ \A k \in 1..(Len(label) + Len(tail)) : host[k] = IF k <= Len(label) THEN label[k] ELSE tail[k - Len(label)]
    BY <1>2, <1>3, ConcatProperties
  <1> HIDE DEF host
  <1>6. IsSuffix(tail, host)
    <2>1. ASSUME NEW k \in 1..Len(tail) PROVE host[Len(host) - Len(tail) + k] = tail[k]
      <3> DEFINE j == Len(label) + k
      <3>1. Len(host) - Len(tail) + k = j /\ j \in 1..(Len(label) + Len(tail)) /\ ~(j <= Len(label)) /\ j - Len(label) = k
        BY <1>2, <1>3, <1>5
      <3> HIDE DEF j
      <3>2. host[j] = tail[j - Len(label)]
        BY <1>5, <3>1
      <3>3. QED BY <3>1, <3>2
    <2>2. Len(tail) <= Len(host)
      BY <1>2, <1>3, <1>5
    <2>3. QED BY <1>3, <1>5, <2>1, <2>2, SuffixMeans
  <1>7. Len(host) > Len(base) + 1 /\ Len(host) - Len(base) - 1 = Len(label)
    BY <1>2, <1>5
  <1>8. SubSeq(host, 1, Len(label)) = label
    <2>1. 1 \in 1..Len(label) /\ Len(label) \in 1..Len(label)
      BY <1>2
    <2>2. SubSeq(host, 1, Len(label)) = SubSeq(label, 1, Len(label))
      BY <1>2, <1>3, <2>1, SubSeqOfConcat1 DEF host
    <2>3. QED BY <1>2, <2>2, SubSeqFull
  <1>9. Under(host, base)
    BY <1>6, <1>7 DEF Under, tail
  <1>10. QED BY <1>4, <1>5, <1>7, <1>8, <1>9 DEF Name

\* One target, named with its port or without a port its scheme has anyway.
Agrees(v, u) == Norm(v) = Norm(u) /\ v.port \in {u.port, EncodedPort(u)}

\* The port and the scheme an address is read back with are those it was written
\* with, as Norm compares them.
LEMMA SameTarget ==
  ASSUME NEW u \in Address, NEW scheme \in SchemeSupported, NEW port \in {EncodedPort(u), u.port},
         isTLSScheme(scheme) <=> isTLSScheme(u.scheme)
  PROVE  LET v == URL(scheme, u.host, port, PathOf(u))
         IN  v \in Address /\ Agrees(v, u)
  <1> DEFINE v == URL(scheme, u.host, port, PathOf(u))
  <1>1. v.scheme = scheme /\ v.host = u.host /\ v.port = port /\ v.path = PathOf(u)
    BY DEF URL
  <1>2. u.scheme \in SchemeSupported /\ u.host \in Name /\ u.port \in Ports \cup {""} /\ PathOf(u) \in Path /\ PathOf(u) # << >>
    BY PathOfTyped DEF Address
  <1>3. port \in Ports \cup {""}
    BY <1>2 DEF EncodedPort
  <1>4. v \in Address
    BY <1>2, <1>3 DEF URL, Address
  <1> HIDE DEF v
  <1>5. EncodedPort(v) = EncodedPort(u)
    BY <1>1, <1>2 DEF EncodedPort, defaultPort
  <1>6. httpScheme(v.scheme) = httpScheme(u.scheme)
    BY <1>1, <1>2 DEF httpScheme, isTLSScheme, SchemeSupported
  <1>7. PathOf(v) = PathOf(u)
    BY <1>1, <1>2 DEF PathOf
  <1>8. Agrees(v, u)
    BY <1>1, <1>5, <1>6, <1>7 DEF Norm, Agrees
  <1>9. QED BY <1>4, <1>8 DEF v

\* The path form, which the two other codecs fall back on or are asked beside.
LEMMA PlainTarget ==
  ASSUME NEW u \in Address, u.host # << >>, ~HasPort(u.host), NEW ref \in PlainEncode(u)
  PROVE  /\ ref.host = << >> /\ PlainMatch(ref.path)
         /\ \E v \in Address : PlainDecode(ref.path) = {v} /\ Agrees(v, u)
  <1>1. ref = PathRef(PlainPath(u)) /\ PlainMatch(PlainPath(u))
    BY PlainPathParts
  <1>2. ref.host = << >> /\ ref.path = PlainPath(u)
    BY <1>1, PathRefParts
  <1> DEFINE v == [u EXCEPT !.path = PathOf(u)]
  <1>3. v = URL(u.scheme, u.host, u.port, PathOf(u))
    BY Repathed
  <1>4. v \in Address /\ Agrees(v, u)
    <2> DEFINE w == URL(u.scheme, u.host, u.port, PathOf(u))
    <2>1. u.scheme \in SchemeSupported
      BY DEF Address
    <2>2. w \in Address /\ Agrees(w, u)
      BY <2>1, SameTarget
    <2> HIDE DEF w, v
    <2>3. v = w
      BY <1>3 DEF w
    <2>4. QED BY <2>2, <2>3
  <1>5. PlainDecode(ref.path) = {v}
    BY <1>2, PlainComesBack
  <1> HIDE DEF v
  <1>6. QED BY <1>1, <1>2, <1>4, <1>5

\* The WRD form, its port beside the scheme and its name hidden.
LEMMA WRDTarget ==
  ASSUME NEW u \in Address, u.host # << >>, u.port \notin BadPorts, NEW ref \in WRDEncode(u)
  PROVE  /\ ref.host = << >> /\ ~PlainMatch(ref.path) /\ ref.path # << >>
         /\ WRDDecode(ref.path) = {URL(u.scheme, u.host, EncodedPort(u), PathOf(u))}
         /\ \E v \in Address : WRDDecode(ref.path) = {v} /\ Agrees(v, u)
  <1> DEFINE scheme == WRDScheme(u)
  <1> DEFINE name == <<Hidden>> \o u.host
  <1> DEFINE path == <<scheme, name>> \o PathOf(u)
  <1>1. ref = PathRef(path)
    BY DEF WRDEncode
  <1>2. ref.host = << >> /\ ref.path = path /\ ~PlainMatch(ref.path)
    <2> HIDE DEF path
    <2>1. QED BY <1>1, PathRefParts, WRDPathIsNotPlain
  <1>3. u.scheme \in SchemeSupported /\ u.host \in Seq(Token) /\ Hidden \in Token /\ PathOf(u) # << >>
    BY AddressingAssumption, PathOfTyped DEF Address, Name, Hidden
  <1>4. Len(name) > 1 /\ name[1] = Hidden /\ Tail(name) = u.host
    <2>1. Len(u.host) \in Nat \ {0}
      BY <1>3, EmptySeq, LenProperties
    <2>2. <<Hidden>> \in Seq(Token) /\ Len(<<Hidden>>) = 1
      BY <1>3, Singles
    <2>3. name \in Seq(Token) /\ Len(name) = Len(u.host) + 1 /\ \A k \in 1..(1 + Len(u.host)) : name[k] = IF k <= 1 THEN <<Hidden>>[k] ELSE u.host[k - 1]
      BY <1>3, <2>2, ConcatProperties
    <2> HIDE DEF name
    <2>4. name # << >> /\ name[1] = Hidden
      BY <2>1, <2>3
    <2>5. Tail(name) \in Seq(Token) /\ Len(Tail(name)) = Len(name) - 1 /\ \A k \in 1..Len(Tail(name)) : Tail(name)[k] = name[k + 1]
      BY <2>3, <2>4, HeadTailProperties
    <2>6. \A k \in 1..Len(u.host) : Tail(name)[k] = u.host[k]
      <3> SUFFICES ASSUME NEW k \in 1..Len(u.host) PROVE Tail(name)[k] = u.host[k]
        OBVIOUS
      <3> DEFINE j == k + 1
      <3>1. j \in 1..(1 + Len(u.host)) /\ ~(j <= 1) /\ j - 1 = k /\ k \in 1..Len(Tail(name))
        BY <2>1, <2>3, <2>5
      <3> HIDE DEF j
      <3>2. name[j] = u.host[j - 1]
        BY <2>3, <3>1
      <3>3. QED BY <2>5, <3>1, <3>2 DEF j
    <2>7. Tail(name) = u.host
      BY <1>3, <2>3, <2>5, <2>6, SeqEqual
    <2>8. QED BY <2>1, <2>3, <2>4, <2>7
  <1>5. path[1] = scheme /\ path[2] = name /\ Len(path) > 1 /\ From(path, 3) = PathOf(u) /\ path # << >>
    <2> DEFINE head == <<scheme, name>>
    <2>1. scheme \in Name /\ name \in Name
      <3>1. u.scheme \in Token /\ "-" \in Token /\ (EncodedPort(u) # "" => u.port \in Token)
        BY Tokens, AddressingAssumption DEF EncodedPort, Address
      <3>2. scheme \in Name
        BY <3>1, Singles DEF WRDScheme, Name
      <3>3. QED BY <1>3, <3>2, Singles, Concats DEF Name
    <2>2. head \in Seq(Name) /\ Len(head) = 2 /\ head[1] = scheme /\ head[2] = name
      <3> HIDE DEF scheme, name
      <3>1. QED BY <2>1, Singles
    <2>3. PathOf(u) \in Seq(Name) /\ Len(PathOf(u)) \in Nat \ {0}
      BY PathOfTyped, EmptySeq, LenProperties DEF Path
    <2> HIDE DEF head, scheme, name
    <2>4. path = head \o PathOf(u)
      BY DEF path, head
    <2> HIDE DEF path
    <2>5. path \in Seq(Name) /\ Len(path) = 2 + Len(PathOf(u)) /\ path[1] = head[1] /\ path[2] = head[2]
      <3>1. /\ path \in Seq(Name) /\ Len(path) = Len(head) + Len(PathOf(u))
            /\ \A k \in 1..(Len(head) + Len(PathOf(u))) : path[k] = IF k <= Len(head) THEN head[k] ELSE PathOf(u)[k - Len(head)]
        BY <2>2, <2>3, <2>4, ConcatProperties, Zenon
      <3>2. 1 \in 1..(Len(head) + Len(PathOf(u))) /\ 2 \in 1..(Len(head) + Len(PathOf(u))) /\ 1 <= Len(head) /\ 2 <= Len(head)
        BY <2>2, <2>3
      <3>3. QED BY <2>2, <3>1, <3>2
    <2>6. From(path, 3) = PathOf(u)
      <3> DEFINE n == Len(PathOf(u))
      <3>1. 3 \in Len(head) + 1..Len(head) + n /\ 2 + n \in Len(head) + 1..Len(head) + n /\ 3 - Len(head) = 1 /\ (2 + n) - Len(head) = n
        BY <2>2, <2>3
      <3>2. SubSeq(path, 3, 2 + n) = SubSeq(PathOf(u), 3 - Len(head), (2 + n) - Len(head))
        BY <2>2, <2>3, <2>4, <3>1, SubSeqOfConcat2
      <3>3. SubSeq(PathOf(u), 1, n) = PathOf(u)
        BY <2>3, SubSeqFull
      <3>4. QED BY <2>5, <3>1, <3>2, <3>3 DEF From
    <2>7. path # << >>
      BY <2>3, <2>5, EmptySeq
    <2>8. QED BY <2>2, <2>3, <2>5, <2>6, <2>7
  <1> HIDE DEF path, name
  <1> DEFINE port == IF Len(path[1]) = 3 THEN path[1][3] ELSE ""
  <1>6. path[1][1] = u.scheme /\ port = EncodedPort(u) /\ WRDMatch(path) /\ port \notin BadPorts
    <2>1. CASE EncodedPort(u) = ""
      <3>1. path[1] = <<u.scheme>>
        BY <1>5, <2>1 DEF WRDScheme
      <3>2. path[1][1] = u.scheme /\ Len(path[1]) = 1
        BY <3>1
      <3>3. WRDMatch(path)
        BY <1>3, <1>5, <3>1 DEF WRDMatch
      <3>4. "" \notin BadPorts
        BY AddressingAssumption
      <3>5. Len(path[1]) # 3
        BY <3>2
      <3>6. port = ""
        BY <3>5
      <3> HIDE DEF port
      <3>7. QED BY <2>1, <3>2, <3>3, <3>4, <3>6
    <2>2. CASE EncodedPort(u) # ""
      <3>1. path[1] = <<u.scheme, "-", u.port>> /\ EncodedPort(u) = u.port /\ u.port \in Ports
        BY <1>5, <2>2 DEF WRDScheme, EncodedPort, Address
      <3>2. path[1][1] = u.scheme /\ Len(path[1]) = 3 /\ path[1][3] = u.port
        BY <3>1
      <3>3. WRDMatch(path)
        BY <1>3, <1>5, <3>1 DEF WRDMatch
      <3>4. QED BY <3>1, <3>2, <3>3
    <2>3. QED BY <2>1, <2>2
  <1>7. WRDDecode(path) = assemble(u.scheme, u.host, EncodedPort(u), PathOf(u))
    BY <1>4, <1>5, <1>6 DEF WRDDecode
  <1>8. assemble(u.scheme, u.host, EncodedPort(u), PathOf(u)) = {URL(u.scheme, u.host, EncodedPort(u), PathOf(u))}
    BY <1>3 DEF assemble
  <1>9. QED BY <1>2, <1>3, <1>5, <1>7, <1>8, SameTarget

\* What Sayable says of a name, as LabelsComeBack asks it.
LEMMA SayableMeans ==
  ASSUME NEW u \in Address, u.host # << >>, Sayable(u)
  PROVE  /\ Proper(u.host)
         /\ EncodedPort(u) # "" \/ isTLSScheme(u.scheme) => u.host[Len(u.host)] \notin {".", "-"}
         /\ EncodedPort(u) = "" /\ ~isTLSScheme(u.scheme) => ~IsSuffix(<<".", "s">>, u.host)
         /\ EncodedPort(u) = "" => \A n \in Ports : ~IsSuffix(<<".", "p", n>>, u.host)
  <1>1. ~Wart(u) /\ ~Rooted(u) /\ ~Improper(u)
    BY DEF Sayable
  <1>2. Len(u.host) \in Nat
    BY LenProperties DEF Address, Name
  <1>3. Proper(u.host)
    <2> SUFFICES ASSUME NEW i \in 1..Len(u.host), u.host[i] = ".", i < Len(u.host)
                 PROVE  u.host[i + 1] \notin {".", "-"}
      BY DEF Proper
    <2>1. i \in 1..(Len(u.host) - 1)
      BY <1>2
    <2>2. QED BY <1>1, <2>1 DEF Improper
  <1>4. EncodedPort(u) # "" \/ isTLSScheme(u.scheme) => u.host[Len(u.host)] \notin {".", "-"}
    BY <1>1 DEF Rooted, Last
  <1>5. QED BY <1>1, <1>3, <1>4 DEF Wart

\* The sub-domain form of an address, where HostCodec writes it.
LEMMA HostTarget ==
  ASSUME NEW c \in AnyCodec, c.mode = "subdomain", NEW u \in Address, u.host # << >>, u.port \notin BadPorts, Sayable(u),
         LET label == encodeLabel(u.host, EncodedPort(u), isTLSScheme(u.scheme))
         IN  label \o <<".">> \o c.base # c.portal
  PROVE  LET label == encodeLabel(u.host, EncodedPort(u), isTLSScheme(u.scheme))
         IN  /\ label \o <<".">> \o c.base # << >>
             /\ \E v \in Address : HostDecode(c, label \o <<".">> \o c.base, PathOf(u)) = {v} /\ Agrees(v, u)
  <1> DEFINE tls == isTLSScheme(u.scheme)
  <1> DEFINE port == EncodedPort(u)
  <1> DEFINE label == encodeLabel(u.host, port, tls)
  <1> DEFINE host == label \o <<".">> \o c.base
  <1> DEFINE cut == SubSeq(host, 1, Len(host) - Len(c.base) - 1)
  <1> DEFINE scheme == IF tls THEN "https" ELSE "http"
  <1>1. u.host \in Name /\ port \in Ports \cup {""} /\ tls \in BOOLEAN /\ c.base \in Name
    <2>1. tls \in BOOLEAN
      BY DEF isTLSScheme
    <2>2. QED BY <2>1, EncodedPortTyped, Modes DEF Address
  <1>2. /\ Proper(u.host)
        /\ port # "" \/ tls => u.host[Len(u.host)] \notin {".", "-"}
        /\ port = "" /\ ~tls => ~IsSuffix(<<".", "s">>, u.host)
        /\ port = "" => \A n \in Ports : ~IsSuffix(<<".", "p", n>>, u.host)
    BY SayableMeans
  <1> HIDE DEF tls, port
  <1>3. decodeLabel(label) = [tls |-> tls, port |-> port, hostname |-> u.host]
    BY <1>1, <1>2, LabelsComeBack
  <1>4. label \in Name /\ ~Contains(label, ".")
    BY <1>1, EncodeLabelTyped, DotFree
  <1>5. label # << >>
    <2>1. Body(u.host) \in Name /\ Body(u.host) # << >>
      BY <1>1, BodyParts, BodyEnd
    <2>2. label = Body(u.host) \o (IF port = "" THEN << >> ELSE <<"-", "p", port>>) \o (IF tls THEN <<"-", "s">> ELSE << >>)
      BY DEF encodeLabel, Body, Written1
    <2>3. (IF port = "" THEN << >> ELSE <<"-", "p", port>>) \in Name /\ (IF tls THEN <<"-", "s">> ELSE << >>) \in Name
      <3>1. {"-", "p", "s"} \subseteq Token /\ (port # "" => port \in Token)
        BY <1>1, Tokens, AddressingAssumption
      <3>2. QED BY <3>1, Singles, EmptySeq DEF Name
    <2> DEFINE m == IF port = "" THEN << >> ELSE <<"-", "p", port>>
    <2> DEFINE e == IF tls THEN <<"-", "s">> ELSE << >>
    <2> HIDE DEF m, e, label
    <2>4. label = Body(u.host) \o m \o e /\ m \in Seq(Token) /\ e \in Seq(Token)
      BY <2>2, <2>3 DEF m, e, Name
    <2>5. Body(u.host) \o m \in Seq(Token) /\ Body(u.host) \o m # << >>
      BY <2>1, <2>4, ConcatEqualIffEmpty, Concats DEF Name
    <2>6. QED BY <2>4, <2>5, ConcatEqualIffEmpty
  <1> HIDE DEF label
  <1>6. host \in Name /\ Under(host, c.base) /\ cut = label
    BY <1>1, <1>4, <1>5, LabelCutOff
  <1>7. host # << >>
    <2>1. Len(host) > Len(c.base) + 1 /\ Len(c.base) \in Nat
      BY <1>1, <1>6, LenProperties DEF Under, Name
    <2> HIDE DEF host
    <2>2. Len(<< >>) = 0
      OBVIOUS
    <2>3. QED BY <2>1, <2>2
  <1>8. host # c.portal
    BY DEF host, label, port, tls
  <1>9. port \notin BadPorts
    BY AddressingAssumption DEF port, EncodedPort
  <1> HIDE DEF host
  <1>10. HostDecode(c, host, PathOf(u)) = assemble(scheme, u.host, port, PathOf(u))
    <2>1. decodeLabel(cut).tls = tls /\ decodeLabel(cut).port = port /\ decodeLabel(cut).hostname = u.host
      <3> DEFINE d == [tls |-> tls, port |-> port, hostname |-> u.host]
      <3>1. d.tls = tls /\ d.port = port /\ d.hostname = u.host
        OBVIOUS
      <3> HIDE DEF d, cut
      <3>2. decodeLabel(cut) = d
        BY <1>3, <1>6, Zenon DEF d
      <3>3. QED BY <3>1, <3>2, Zenon
    <2>2. ~Contains(cut, ".")
      BY <1>4, <1>6
    <2>3. QED BY <1>6, <1>8, <1>9, <2>1, <2>2 DEF HostDecode
  <1>11. PathOf(u) # << >>
    BY PathOfTyped
  <1>12. assemble(scheme, u.host, port, PathOf(u)) = {URL(scheme, u.host, port, PathOf(u))}
    BY <1>11 DEF assemble
  <1>13. scheme \in SchemeSupported /\ (isTLSScheme(scheme) <=> isTLSScheme(u.scheme))
    BY DEF SchemeSupported, isTLSScheme, tls
  <1> HIDE DEF scheme
  <1>14. URL(scheme, u.host, port, PathOf(u)) \in Address /\ Agrees(URL(scheme, u.host, port, PathOf(u)), u)
    BY <1>13, SameTarget DEF port
  <1>15. QED BY <1>7, <1>10, <1>12, <1>14 DEF host, label, port, tls

\* Whatever a codec writes an address as (codec.go: PlainCodec, WRDCodec and
\* HostCodec's Encode), Handler.decode reads as that address again, up to what
\* Norm passes over: the default port, ws for http and the empty path for "/".
\* The address must be one an upstream can have: a name not itself written with
\* a port, a port there is. In the sub-domain mode, besides, its name must be
\* Sayable and its path must not be one the gateway takes for its own form.
THEOREM TargetsComeBack ==
  ASSUME NEW c \in AnyCodec, NEW u \in Address, u.host # << >>, ~HasPort(u.host), u.port \notin BadPorts,
         c.mode = "subdomain" => Sayable(u) /\ ~PlainMatch(PathOf(u)),
         NEW at, NEW ref \in Encode(c, u)
  PROVE  \E v \in Address :
            decode(c, IF ref.host = << >> THEN at ELSE ref.host, ref.path) = {v} /\ Agrees(v, u)
  <1> DEFINE asked == IF ref.host = << >> THEN at ELSE ref.host
  <1>1. CASE ref \in PlainEncode(u)
    BY <1>1, PlainTarget DEF decode
  <1>2. CASE c.mode = "wrd"
    <2>1. ref \in WRDEncode(u)
      BY <1>2 DEF Encode
    <2>2. /\ ref.host = << >> /\ ~PlainMatch(ref.path) /\ ref.path # << >>
          /\ \E v \in Address : WRDDecode(ref.path) = {v} /\ Agrees(v, u)
      BY <2>1, WRDTarget
    <2>3. decode(c, asked, ref.path) = WRDDecode(ref.path)
      BY <1>2, <2>2 DEF decode, Decode
    <2>4. QED BY <2>2, <2>3
  <1>3. CASE c.mode = "plain"
    BY <1>1, <1>3 DEF Encode
  <1>4. CASE c.mode = "subdomain" /\ ref \notin PlainEncode(u)
    <2> DEFINE label == encodeLabel(u.host, EncodedPort(u), isTLSScheme(u.scheme))
    <2> DEFINE host == label \o <<".">> \o c.base
    <2> DEFINE w == URL(gatewayScheme(c, u.scheme), host, c.port, PathOf(u))
    <2>1. ref = w /\ host # c.portal
      BY <1>4 DEF Encode, HostEncode
    <2>2. w.host = host /\ w.path = PathOf(u)
      BY DEF URL
    <2>3. host # << >> /\ \E v \in Address : HostDecode(c, host, PathOf(u)) = {v} /\ Agrees(v, u)
      BY <1>4, <2>1, HostTarget
    <2> HIDE DEF host, w
    <2>4. asked = host /\ ref.path = PathOf(u)
      BY <2>1, <2>2, <2>3
    <2> HIDE DEF asked
    <2>5. decode(c, asked, ref.path) = HostDecode(c, host, PathOf(u))
      BY <1>4, <2>4 DEF decode, Decode
    <2>6. QED BY <2>3, <2>5 DEF asked
  <1>5. QED BY <1>1, <1>2, <1>3, <1>4, Modes

-----------------------------------------------------------------------------
(* Types *)

\* The addresses a browser asks for, and those it carries, under any settings.
LEMMA FollowedTyped ==
  ASSUME NEW s \in Settings, NEW src \in Sources
  PROVE  Followed(s, src) \in Address
  <1> DEFINE c == CodecOf(s)
  <1> DEFINE at == PageAt(s, src.page)
  <1>1. src.page \in Address /\ src.want \in Address /\ c \in AnyCodec
    BY SourceTyped, CodecsOfSettings
  <1>2. at \in Address /\ PortalAt(s) \in Address
    BY <1>1, PageAtTyped, PortalAtTyped
  <1>3. Ref(c, src.want) \in Reference
    BY <1>1, RefTyped
  <1>4. \A ref \in Reference : rewrite(c, ref, src.page, at) \in Reference /\ Resolve(rewrite(c, ref, src.page, at), at) \in Address
    BY <1>2, RewriteTyped, ResolveTyped
  <1>5. Address \subseteq Reference
    BY DEF Reference
  <1>6. src.want.path \in Path /\ PathOf(src.want) \in Path
    BY <1>1, PathOfTyped DEF Address
  <1> DEFINE base == refBase(src.page, at)
  <1> DEFINE near == [base EXCEPT !.path = (IF @ = << >> THEN << >> ELSE Front(@)) \o src.want.path]
  <1>7. near \in Address
    <2>1. base \in Address
      BY RefBaseTyped
    <2> HIDE DEF base
    <2>2. base.path \in Path /\ << >> \in Path /\ Front(base.path) \in Path
      <3>1. base.path \in Path
        BY <2>1 DEF Address
      <3>2. QED BY <3>1, Parts, EmptySeq DEF Path
    <2>3. (IF base.path = << >> THEN << >> ELSE Front(base.path)) \o src.want.path \in Path
      BY <1>6, <2>2, Concats DEF Path
    <2>4. QED BY <2>1, <2>3, Repathed
  <1> DEFINE own == PathRef(<< <<"_wv">>, <<"cookie">> >>)
  <1>8. own \in Reference
    <2>1. {"_wv", "cookie"} \subseteq Token
      BY BuildAssumption
    <2>2. << <<"_wv">>, <<"cookie">> >> \in Path
      BY <2>1, Singles DEF Name, Path
    <2>3. << <<"_wv">>, <<"cookie">> >> # << >>
      OBVIOUS
    <2>4. QED BY <2>2, <2>3 DEF Reference
  <1> DEFINE fold == [src.want EXCEPT !.path = << <<"d">> >> \o PageAt(s, src.want).path]
  <1>9. fold \in Address
    <2>1. PageAt(s, src.want).path \in Path
      BY <1>1, PageAtTyped DEF Address
    <2>2. << <<"d">> >> \in Path
      BY BuildAssumption, Singles DEF Name, Path
    <2>3. << <<"d">> >> \o PageAt(s, src.want).path \in Path
      BY <2>1, <2>2, Concats DEF Path
    <2>4. QED BY <1>1, <2>3, Repathed
  <1>10. [at EXCEPT !.path = PathOf(src.want)] \in Address /\ [PortalAt(s) EXCEPT !.path = src.want.path] \in Address
    BY <1>2, <1>6, Repathed
  <1>11. \/ Followed(s, src) = Resolve(Ref(c, src.want), at)
         \/ Followed(s, src) = Resolve(Ref(c, src.want), PortalAt(s))
         \/ Followed(s, src) = Resolve(rewrite(c, src.want, src.page, at), at)
         \/ Followed(s, src) = Resolve(rewrite(c, near, src.page, at), at)
         \/ Followed(s, src) = Resolve(rewrite(c, Ref(c, src.want), src.page, at), at)
         \/ Followed(s, src) = Resolve(rewrite(c, own, src.page, at), at)
         \/ Followed(s, src) = [at EXCEPT !.path = PathOf(src.want)]
         \/ Followed(s, src) = Resolve(Ref(c, fold), at)
         \/ Followed(s, src) = [PortalAt(s) EXCEPT !.path = src.want.path]
    BY DEF Followed
  <1>12. Ref(c, fold) \in Reference
    BY <1>1, <1>9, RefTyped
  <1> HIDE DEF c, at, near, own, fold
  <1>13. Followed(s, src) \in Address
    <2>1. Resolve(Ref(c, src.want), at) \in Address /\ Resolve(Ref(c, src.want), PortalAt(s)) \in Address /\ Resolve(Ref(c, fold), at) \in Address
      BY <1>2, <1>3, <1>12, ResolveTyped
    <2>2. /\ Resolve(rewrite(c, src.want, src.page, at), at) \in Address
          /\ Resolve(rewrite(c, near, src.page, at), at) \in Address
          /\ Resolve(rewrite(c, Ref(c, src.want), src.page, at), at) \in Address
          /\ Resolve(rewrite(c, own, src.page, at), at) \in Address
      BY <1>1, <1>3, <1>4, <1>5, <1>7, <1>8
    <2>3. QED BY <1>10, <1>11, <2>1, <2>2
  <1>14. QED BY <1>13

LEMMA WrittenTyped ==
  ASSUME NEW s \in Settings, NEW src \in Sources
  PROVE  Written(s, src) \in Address
  <1> DEFINE u == Followed(s, src)
  <1>1. u \in Address
    BY FollowedTyped
  <1>2. PathOf(u) \in Path
    BY <1>1, PathOfTyped
  <1> HIDE DEF u
  <1>3. [u EXCEPT !.path = PathOf(u)] \in Address
    BY <1>1, <1>2, Repathed
  <1>4. QED BY <1>3 DEF Written, u

LEMMA MeantTyped == ASSUME NEW src \in Sources PROVE Meant(src) \in Address
  <1>1. src.page.path \in Path /\ src.want \in Address /\ src.want.path \in Path
    BY SourceTyped DEF Address
  <1>2. Front(src.page.path) \o src.want.path \in Path
    BY <1>1, Parts, Concats DEF Path
  <1>3. << <<"d">> >> \o PathOf(src.want) \in Path
    <2>1. << <<"d">> >> \in Path
      BY BuildAssumption, Singles DEF Name, Path
    <2>2. QED BY <1>1, <2>1, PathOfTyped, Concats DEF Path
  <1>4. /\ [src.want EXCEPT !.path = << <<"d">> >> \o PathOf(src.want)] \in Address
        /\ [src.want EXCEPT !.path = Front(src.page.path) \o @] \in Address
    BY <1>1, <1>2, <1>3, Repathed
  <1>5. QED BY <1>1, <1>4 DEF Meant

LEMMA CarriedTyped ==
  ASSUME NEW s \in Settings, NEW src \in Sources
  PROVE  Carried(s, src) \in Address
  <1> DEFINE at == PageAt(s, src.page)
  <1> DEFINE u == src.param.url
  <1> DEFINE r == Ref(CodecOf(s), [u EXCEPT !.path = << >>])
  <1>1. at \in Address /\ u \in Address /\ u.path \in Path /\ << >> \in Path
    BY SourceTyped, PageAtTyped, EmptySeq DEF Address, Path
  <1>2. r \in Reference
    <2>1. [u EXCEPT !.path = << >>] \in Address
      BY <1>1, Repathed
    <2>2. QED BY <2>1, CodecsOfSettings, RefTyped
  <1> HIDE DEF at, u, r
  <1>3. r.path \in Path
    BY <1>2, PathRefParts DEF Reference, Address
  <1>4. (IF r.path = << >> THEN << >> ELSE Front(r.path)) \o u.path \in Path
    <2>1. (IF r.path = << >> THEN << >> ELSE Front(r.path)) \in Path
      BY <1>1, <1>3, Parts DEF Path
    <2>2. QED BY <1>1, <2>1, Concats DEF Path
  <1>5. Resolve(r, at) \in Address
    BY <1>1, <1>2, ResolveTyped
  <1>6. JS(CodecOf(s), u, at) = [Resolve(r, at) EXCEPT !.path = (IF r.path = << >> THEN << >> ELSE Front(r.path)) \o u.path]
    BY DEF JS, r
  <1>7. JS(CodecOf(s), u, at) \in Address /\ [at EXCEPT !.path = u.path] \in Address
    <2> DEFINE joined == (IF r.path = << >> THEN << >> ELSE Front(r.path)) \o u.path
    <2> HIDE DEF joined
    <2>1. [Resolve(r, at) EXCEPT !.path = joined] \in Address
      BY <1>4, <1>5, Repathed DEF joined
    <2>2. [at EXCEPT !.path = u.path] \in Address
      BY <1>1, Repathed
    <2>3. QED BY <1>6, <2>1, <2>2 DEF joined
  <1>8. QED BY <1>7 DEF Carried, at, u

\* A call of the cache answers with one of the codecs.
LEMMA AnswersTyped ==
  ASSUME CacheInv, NEW p \in Caller, got[p] # NoCodec
  PROVE  got[p] \in AnyCodec
  <1>1. PICK s \in during[p] : got[p] = Answer(s)
    BY DEF CacheInv, InForce
  <1>2. s \in Settings
    BY <1>1 DEF CacheInv, CacheTypeOK
  <1>3. Answer(s) \in {CodecOf(s), PlainCodec}
    BY BuildAssumption DEF Answer
  <1>4. QED BY <1>1, <1>2, <1>3, CodecsOfSettings DEF AnyCodec

\* The types of the variables of Routing that are not of the cache.
RouteTypeOK ==
    /\ source \in [Request -> Sources]
    /\ written \in [Request -> Settings]
    /\ pc \in [Request -> {"arrive", "match", "decode", "unwrap", "encode",
                           "stray", "strayed", "rewrite", "restore"} \cup Ends]
    /\ sso \in [Request -> SSOs]
    /\ strayed \in [Request -> BOOLEAN]
    /\ addr \in [Request -> Address] /\ target \in [Request -> Address]
    /\ fixed \in [Request -> Address] /\ param \in [Request -> Address]

\* The inductive invariant behind TypeOK.
RoutingInv == CacheInv /\ RouteTypeOK

\* Each step of a request, but the arrival, keeps addresses in their variables.
LEMMA HTTPTyped ==
  ASSUME NEW t \in Address PROVE [t EXCEPT !.scheme = httpScheme(@)] \in Address
  BY DEF httpScheme, SchemeSupported, Address

LEMMA ProxyTyped ==
  ASSUME RoutingInv, NEW r \in Request, NEW ts, ts \subseteq Address, Proxy(r, ts)
  PROVE  target' \in [Request -> Address] /\ pc' \in [Request -> {"arrive", "match", "decode", "unwrap", "encode",
                           "stray", "strayed", "rewrite", "restore"} \cup Ends]
  <1> USE DEF RoutingInv, RouteTypeOK, Ends
  <1>1. CASE ts = {} /\ Goto(r, "bad") /\ UNCHANGED <<cacheVars, target>>
    BY <1>1 DEF Goto
  <1>2. ASSUME NEW t \in ts, target' = [target EXCEPT ![r] = [t EXCEPT !.scheme = httpScheme(@)]], Goto(r, "unwrap")
        PROVE  target' \in [Request -> Address] /\ pc' \in [Request -> {"arrive", "match", "decode", "unwrap", "encode",
                           "stray", "strayed", "rewrite", "restore"} \cup Ends]
    <2>1. [t EXCEPT !.scheme = httpScheme(@)] \in Address
      BY HTTPTyped
    <2>2. target' \in [Request -> Address]
      BY <1>2, <2>1
    <2>3. QED BY <1>2, <2>2 DEF Goto
  <1>3. QED BY <1>1, <1>2 DEF Proxy

LEMMA ReferTyped ==
  ASSUME RoutingInv, NEW r \in Request
  PROVE  Refer(r) \in Address
  BY SourceTyped, PageAtTyped DEF Refer, RoutingInv, RouteTypeOK

LEMMA ServeTyped ==
  ASSUME RoutingInv, NEW r \in Request, Serve(r)
  PROVE  RouteTypeOK'
  <1> USE DEF RoutingInv, RouteTypeOK
  <1>1. r \in Caller
    BY RoutingAssumption
  <1>2. addr[r] \in Address /\ addr[r].path \in Path /\ addr[r].host \in Name
    BY DEF Address
  <1>3. Answered(r) => got[r] \in AnyCodec
    BY <1>1, AnswersTyped DEF Answered
  <1>4. CASE Arrive(r)
    <2>1. PlainDecode(addr[r].path) \subseteq Address
      BY <1>2, PlainDecodeTyped
    <2>2. UNCHANGED <<addr, fixed, source, written, param, strayed, sso>>
      BY <1>4 DEF Arrive, Keep
    <2>3. CASE Goto(r, "gateway") /\ UNCHANGED target
      BY <2>2, <2>3 DEF Goto, Ends
    <2>4. CASE Proxy(r, PlainDecode(addr[r].path))
      <3> HIDE DEF RouteTypeOK, RoutingInv
      <3>1. target' \in [Request -> Address] /\ pc' \in [Request -> {"arrive", "match", "decode", "unwrap", "encode",
                           "stray", "strayed", "rewrite", "restore"} \cup Ends]
        BY <2>1, <2>4, ProxyTyped
      <3>2. QED BY <2>2, <3>1 DEF RouteTypeOK, RoutingInv
    <2>5. CASE Goto(r, "match") /\ UNCHANGED target
      BY <2>2, <2>5 DEF Goto
    <2>6. QED BY <1>4, <2>3, <2>4, <2>5 DEF Arrive
  <1>5. CASE Matched(r)
    BY <1>5 DEF Matched, Goto, Keep, Ends
  <1>6. CASE Decoded(r)
    <2>1. Decode(got[r], addr[r].host, addr[r].path) \subseteq Address
      BY <1>2, <1>3, <1>6, DecodeTyped DEF Decoded
    <2>2. UNCHANGED <<addr, fixed, source, written, param, strayed, sso>> /\ Proxy(r, Decode(got[r], addr[r].host, addr[r].path))
      BY <1>6 DEF Decoded, Keep
    <2> HIDE DEF RouteTypeOK, RoutingInv
    <2>3. target' \in [Request -> Address] /\ pc' \in [Request -> {"arrive", "match", "decode", "unwrap", "encode",
                         "stray", "strayed", "rewrite", "restore"} \cup Ends]
      BY <2>1, <2>2, ProxyTyped
    <2>4. QED BY <2>2, <2>3 DEF RouteTypeOK, RoutingInv
  <1>7. CASE Unwrapped(r)
    <2>1. unwrapTarget(got[r], target[r]) \in Address
      BY <1>3, <1>7, UnwrapFolds DEF Unwrapped, Folds
    <2>2. QED BY <1>7, <2>1 DEF Unwrapped, Goto, Keep
  <1>8. CASE Redirected(r)
    <2>1. codecSecure(got[r]) \in AnyCodec
      BY <1>3, <1>8, SecureTyped DEF Redirected
    <2>2. \A ref \in Encode(codecSecure(got[r]), fixed[r]) : Resolve(ref, addr[r]) \in Address
      BY <1>2, <2>1, EncodeTyped, ResolveTyped
    <2>3. UNCHANGED <<target, fixed, source, written, param, strayed, sso>>
      BY <1>8 DEF Redirected, Keep
    <2>4. addr' \in [Request -> Address]
      BY <1>8, <2>2 DEF Redirected
    <2>5. pc' \in [Request -> {"arrive", "match", "decode", "unwrap", "encode",
                         "stray", "strayed", "rewrite", "restore"} \cup Ends]
      BY <1>8 DEF Redirected, Goto, Ends
    <2>6. QED BY <2>3, <2>4, <2>5
  <1>9. CASE Strayed(r)
    <2> DEFINE named == IF source[r].referer THEN decode(got[r], Refer(r).host, Refer(r).path) ELSE {}
    <2> DEFINE base == IF named # {} THEN named ELSE source[r].trail
    <2>1. base \subseteq Address
      <3>1. Refer(r).host \in Name /\ Refer(r).path \in Path
        BY ReferTyped DEF Address
      <3>2. got[r] \in AnyCodec
        BY <1>3, <1>9 DEF Strayed
      <3>3. decode(got[r], Refer(r).host, Refer(r).path) \subseteq Address
        BY <3>1, <3>2, DecodeTyped
      <3>4. source[r].trail \subseteq Address
        BY SourceTyped
      <3>5. QED BY <3>3, <3>4
    <2>2. UNCHANGED <<addr, target, source, written, param, sso>>
      BY <1>9 DEF Strayed
    <2>3. \/ base = {} /\ Goto(r, "notfound") /\ UNCHANGED <<fixed, strayed>>
          \/ \E b \in base : /\ fixed' = [fixed EXCEPT ![r] = [b EXCEPT !.path = addr[r].path]]
                             /\ strayed' = [strayed EXCEPT ![r] = TRUE]
                             /\ Goto(r, "strayed")
      BY <1>9 DEF Strayed
    <2> HIDE DEF base
    <2>4. CASE base = {} /\ Goto(r, "notfound") /\ UNCHANGED <<fixed, strayed>>
      BY <2>2, <2>4 DEF Goto, Ends
    <2>5. ASSUME NEW b \in base, fixed' = [fixed EXCEPT ![r] = [b EXCEPT !.path = addr[r].path]],
                 strayed' = [strayed EXCEPT ![r] = TRUE], Goto(r, "strayed")
          PROVE  RouteTypeOK'
      <3>1. [b EXCEPT !.path = addr[r].path] \in Address
        BY <1>2, <2>1, Repathed
      <3>2. fixed' \in [Request -> Address]
        BY <2>5, <3>1
      <3>3. strayed' \in [Request -> BOOLEAN] /\ pc' \in [Request -> {"arrive", "match", "decode", "unwrap", "encode",
                         "stray", "strayed", "rewrite", "restore"} \cup Ends]
        BY <2>5 DEF Goto
      <3>4. QED BY <2>2, <3>2, <3>3
    <2>6. QED BY <2>3, <2>4, <2>5
  <1>10. CASE Rewritten(r)
    <2>1. UNCHANGED <<addr, target, fixed, source, written, strayed, param>>
      BY <1>10 DEF Rewritten
    <2>2. sso' \in [Request -> SSOs] /\ (Goto(r, "restore") \/ Goto(r, "site"))
      BY <1>10 DEF Rewritten
    <2>3. QED BY <2>1, <2>2 DEF Goto, Ends
  <1>11. CASE Restored(r)
    <2> DEFINE named == IF source[r].referer THEN decode(got[r], Refer(r).host, Refer(r).path) ELSE {}
    <2> DEFINE pages == IF named # {} THEN named ELSE IF source[r].trail # {} THEN source[r].trail ELSE {target[r]}
    <2>1. got[r] \in AnyCodec
      BY <1>3, <1>11 DEF Restored
    <2>2. pages \subseteq Address
      <3>1. Refer(r).host \in Name /\ Refer(r).path \in Path
        BY ReferTyped DEF Address
      <3>2. decode(got[r], Refer(r).host, Refer(r).path) \subseteq Address
        BY <2>1, <3>1, DecodeTyped
      <3>3. source[r].trail \subseteq Address
        BY SourceTyped
      <3>4. QED BY <3>2, <3>3
    <2>3. PICK page \in pages : param' = [param EXCEPT ![r] = realAddress(got[r], @, page, addr[r].host)]
      BY <1>11 DEF Restored
    <2>4. UNCHANGED <<addr, target, fixed, source, written, strayed, sso>> /\ Goto(r, "site")
      BY <1>11 DEF Restored
    <2> HIDE DEF pages
    <2>5. realAddress(got[r], param[r], page, addr[r].host) \in Address
      BY <2>1, <2>2, RealAddressTyped
    <2>6. param' \in [Request -> Address]
      BY <2>3, <2>5
    <2>7. QED BY <2>4, <2>6 DEF Goto, Ends
  <1>12. QED BY <1>4, <1>5, <1>6, <1>7, <1>8, <1>9, <1>10, <1>11 DEF Serve

\* RoutingInv holds at the start and every step keeps it.
LEMMA RoutingInitInv == Init => RoutingInv
  <1> SUFFICES ASSUME Init PROVE RoutingInv
    OBVIOUS
  <1>1. CacheInv
    BY CacheInitInv DEF Init
  <1>2. settings \in Settings
    BY <1>1 DEF CacheInv, CacheTypeOK
  <1>3. \A src \in Sources : Written(settings, src) \in Address /\ Meant(src) \in Address /\ Carried(settings, src) \in Address
    BY <1>2, WrittenTyped, MeantTyped, CarriedTyped
  <1>4. RouteTypeOK
    BY <1>2, <1>3, RoutingAssumption DEF RouteTypeOK, Init
  <1>5. QED BY <1>1, <1>4 DEF RoutingInv

LEMMA RoutingStepInv == RoutingInv /\ [Next]_vars => RoutingInv'
  <1> SUFFICES ASSUME RoutingInv, [Next]_vars PROVE RoutingInv'
    OBVIOUS
  <1>1. CacheInv'
    BY StepAsks, CacheNextInv DEF RoutingInv
  <1>2. RouteTypeOK'
    <2>1. CASE UNCHANGED reqVars
      BY <2>1 DEF RoutingInv, RouteTypeOK, reqVars
    <2>2. QED BY <2>1, ServeTyped DEF Next, Asking, Saving, vars
  <1>3. QED BY <1>1, <1>2 DEF RoutingInv

\* Whatever pages, names, ports, paths and settings there are, every request
\* holds addresses of sites: no codec, no unwrapping, no restoration and no
\* scheme of the shim makes anything else of one (codec.go, proxy.go, restore.go,
\* shim.js).
THEOREM RoutingTypes == Spec => []TypeOK
  <1>1. RoutingInv => TypeOK
    BY DEF RoutingInv, RouteTypeOK, TypeOK, CacheInv
  <1>2. QED BY <1>1, RoutingInitInv, RoutingStepInv, PTL DEF Spec

-----------------------------------------------------------------------------
(* The gateway's own pages *)

\* The requests PortalAnswers is about.
GatewaysOwn(r) ==
    source[r].kind = "portal" \/ (source[r].kind = "own" /\ ~InPath(written[r], source[r].page))

\* A path that serves the portal, asked of the portal's name.
PortalPage(s, u) == u.path \in PortalPaths /\ (s.mode = "subdomain" => u.host = PortalHost(s))

\* Until the console saves, every answer of the cache is of one settings.
Unedited ==
    edits = 0 =>
        /\ \A r \in Request : written[r] = settings
        /\ \A p \in Caller : during[p] \subseteq {settings}

\* The portal's page is the only one of them the scheme in force is asked about.
PortalInv ==
    /\ RoutingInv
    /\ Unedited
    /\ edits = 0 =>
         \A r \in Request : GatewaysOwn(r) =>
            \/ pc[r] \in {"portal", "gateway"}
            \/ pc[r] = "arrive" /\ (Ours(settings, addr[r]) \/ PortalPage(settings, addr[r]))
            \/ pc[r] = "match" /\ PortalPage(settings, addr[r])

\* A request for the portal's page is for one of its routes or for the portal.
LEMMA PortalRequest ==
  ASSUME NEW s \in Settings, NEW src \in Sources, src.kind = "portal"
  PROVE  Ours(s, Written(s, src)) \/ PortalPage(s, Written(s, src))
  <1> DEFINE u == Written(s, src)
  <1>1. u.path = PathOf(src.want) /\ u.host = PortalAt(s).host
    <2>1. Followed(s, src) = [PortalAt(s) EXCEPT !.path = src.want.path]
      BY DEF Followed
    <2>2. Followed(s, src) = URL(PortalAt(s).scheme, PortalAt(s).host, PortalAt(s).port, src.want.path)
      BY <2>1, PortalAtTyped, Repathed
    <2>3. Followed(s, src) \in Address /\ Followed(s, src).path = src.want.path /\ Followed(s, src).host = PortalAt(s).host
      <3>1. Followed(s, src) \in Address
        BY FollowedTyped
      <3>2. QED BY <2>2, <3>1, URLParts
    <2>4. PathOf(Followed(s, src)) = PathOf(src.want)
      BY <2>3 DEF PathOf
    <2>5. u = [Followed(s, src) EXCEPT !.path = PathOf(src.want)]
      BY <2>4 DEF Written
    <2>6. QED BY <2>3, <2>5, Repathed
  <1>2. s.mode = "subdomain" => u.host = PortalHost(s)
    <2>1. s.mode = "subdomain" => PortalAt(s).host = PortalHost(s)
      BY DEF PortalAt, URL
    <2>2. QED BY <1>1, <2>1
  <1> HIDE DEF u
  <1>3. CASE PathOf(src.want) \in PortalPaths
    BY <1>1, <1>2, <1>3 DEF PortalPage, u
  <1>4. CASE PathOf(src.want) \notin PortalPaths
    <2>1. src.want.path[1] \in OwnPages /\ src.want.path = PathOf(src.want)
      BY <1>4, RoutingAssumption DEF PathOf, PortalPaths
    <2>2. Ours(s, u)
      BY <1>1, <1>2, <2>1 DEF Ours, onGatewayHost
    <2>3. QED BY <2>2 DEF u
  <1>5. QED BY <1>3, <1>4

\* The path a browser asks for is the path of what it follows.
LEMMA WrittenPath ==
  ASSUME NEW s \in Settings, NEW src \in Sources, NEW path, path # << >>, Followed(s, src).path = path
  PROVE  Written(s, src).path = path
  <1> DEFINE u == Followed(s, src)
  <1>1. PathOf(u) = path
    BY DEF PathOf
  <1>2. u \in Address
    BY FollowedTyped
  <1> HIDE DEF u
  <1>3. [u EXCEPT !.path = PathOf(u)].path = path
    BY <1>1, <1>2, Repathed
  <1>4. QED BY <1>3 DEF Written, u

\* What the shim asks of the gateway.
OwnPath == << <<"_wv">>, <<"cookie">> >>

\* On a page with a name of its own the shim asks for the gateway's routes on
\* that name.
LEMMA OwnRequest ==
  ASSUME NEW s \in Settings, NEW src \in Sources, src.kind = "own", ~InPath(s, src.page)
  PROVE  Written(s, src).path = OwnPath
  <1> DEFINE c == CodecOf(s)
  <1> DEFINE page == src.page
  <1> DEFINE at == PageAt(s, page)
  <1> DEFINE own == PathRef(OwnPath)
  <1> DEFINE u == Resolve(own, refBase(page, at))
  <1> DEFINE label == encodeLabel(page.host, EncodedPort(page), isTLSScheme(page.scheme))
  <1>1. s.mode = "subdomain" /\ ~PlainMatch(at.path) /\ c.mode = "subdomain" /\ page \in Address /\ at \in Address
    BY SettingsMode, SourceTyped, PageAtTyped DEF InPath
  <1>2. own.host = << >> /\ own.path = OwnPath /\ OwnPath # << >> /\ ~PlainMatch(OwnPath)
    <2>1. own.host = << >> /\ own.path = OwnPath
      BY PathRefParts
    <2>2. OwnPath[1] = <<"_wv">> /\ OwnPath # << >>
      BY DEF OwnPath
    <2>3. <<"_wv">> # PlainPrefix
      BY DEF PlainPrefix
    <2>4. ~PlainMatch(OwnPath)
      BY <2>2, <2>3 DEF PlainMatch
    <2>5. QED BY <2>1, <2>2, <2>4
  <1>3. u = URL(page.scheme, page.host, page.port, OwnPath)
    <2>1. refBase(page, at) = [page EXCEPT !.path = at.path]
      BY <1>1 DEF refBase
    <2>2. refBase(page, at) = URL(page.scheme, page.host, page.port, at.path) /\ refBase(page, at) \in Address
      <3>1. page \in Address /\ at.path \in Path
        BY <1>1 DEF Address
      <3> HIDE DEF page, at, own, u, label
      <3>2. [page EXCEPT !.path = at.path] = URL(page.scheme, page.host, page.port, at.path)
            /\ [page EXCEPT !.path = at.path] \in Address
        BY <3>1, Repathed
      <3>3. QED BY <2>1, <3>2
    <2>3. u = [refBase(page, at) EXCEPT !.path = OwnPath]
      BY <1>2 DEF Resolve
    <2> HIDE DEF u
    <2>4. u = URL(refBase(page, at).scheme, refBase(page, at).host, refBase(page, at).port, OwnPath)
      BY <2>2, <2>3, Repathed
    <2>5. QED BY <2>2, <2>4, URLParts
  <1>4. u.host = page.host /\ u.path = OwnPath /\ PathOf(u) = OwnPath /\ EncodedPort(u) = EncodedPort(page) /\ u.scheme = page.scheme
    <2>1. u.host = page.host /\ u.path = OwnPath /\ u.port = page.port /\ u.scheme = page.scheme
      BY <1>3, URLParts
    <2>2. QED BY <1>2, <2>1 DEF PathOf, EncodedPort
  <1> HIDE DEF u
  <1>5. CASE shimGatewayHost(c, u.host, at)
    <2>1. rewrite(c, own, page, at) = own
      BY <1>1, <1>2, <1>5 DEF rewrite, u
    <2>2. Followed(s, src) = [at EXCEPT !.path = OwnPath]
      BY <1>2, <2>1 DEF Followed, Resolve, OwnPath
    <2>3. Followed(s, src).path = OwnPath
      BY <1>1, <2>2, Repathed
    <2> QED BY <1>2, <2>3, WrittenPath
  <1>6. CASE ~shimGatewayHost(c, u.host, at)
    <2>1. ~IPv6(page.host) /\ Len(label) <= MaxLabel
      <3>1. at # page
        BY <1>4, <1>6 DEF shimGatewayHost
      <3>2. \A p : at # [PortalAt(s) EXCEPT !.path = p] \/ at.path = p
        BY PortalAtTyped, Repathed
      <3>3. at # [PortalAt(s) EXCEPT !.path = PlainPath(page)]
        BY <1>1, <3>2, PlainPathParts
      <3>4. QED BY <1>1, <3>1, <3>3, PageForms, SourceTyped
    <2>2. rewrite(c, own, page, at) = shimEncode(c, u)
      BY <1>2, <1>6 DEF rewrite, u
    <2>3. shimEncode(c, u) = URL(gatewayScheme(codecSecure(c), u.scheme), label \o <<".">> \o c.base, c.port, OwnPath)
      <3>1. label = encodeLabel(u.host, EncodedPort(u), isTLSScheme(u.scheme))
        BY <1>4
      <3>2. ~(Len(label) > MaxLabel)
        <4>1. label \in Name
          <5>1. page.host \in Name /\ EncodedPort(page) \in Ports \cup {""}
            BY <1>1, EncodedPortTyped DEF Address
          <5>2. QED BY <5>1, EncodeLabelTyped
        <4>2. Len(label) \in Nat /\ MaxLabel \in Nat
          BY <4>1, LenProperties, AddressingAssumption DEF Name
        <4> HIDE DEF label
        <4>3. QED BY <2>1, <4>2
      <3> HIDE DEF label
      <3>3. QED BY <1>1, <1>4, <2>1, <3>1, <3>2 DEF shimEncode
    <2>4. Followed(s, src).path = OwnPath
      <3>1. Followed(s, src) = Resolve(shimEncode(c, u), at)
        BY <2>2 DEF Followed, OwnPath
      <3>2. shimEncode(c, u).path = OwnPath
        BY <2>3 DEF URL
      <3>3. QED BY <1>1, <3>1, <3>2, Repathed DEF Resolve
    <2>5. QED BY <1>2, <2>4, WrittenPath
  <1>7. QED BY <1>5, <1>6

\* PortalInv holds of every page a browser may hold at the start.
LEMMA PortalInitInv == Init => PortalInv
  <1> SUFFICES ASSUME Init PROVE PortalInv
    OBVIOUS
  <1>1. RoutingInv
    BY RoutingInitInv
  <1>2. settings \in Settings /\ \A r \in Request : source[r] \in Sources /\ written[r] = settings /\ pc[r] = "arrive" /\ addr[r] = Written(settings, source[r])
    BY <1>1 DEF RoutingInv, CacheInv, CacheTypeOK, RouteTypeOK, Init
  <1>3. Unedited
    BY <1>2 DEF Unedited, Init, CacheInit
  <1>4. ASSUME NEW r \in Request, GatewaysOwn(r) PROVE Ours(settings, addr[r]) \/ PortalPage(settings, addr[r])
    <2>1. CASE source[r].kind = "portal"
      BY <1>2, <2>1, PortalRequest
    <2>2. CASE source[r].kind = "own" /\ ~InPath(written[r], source[r].page)
      <3>1. addr[r].path = OwnPath
        BY <1>2, <2>2, OwnRequest
      <3>2. Ours(settings, addr[r])
        BY <3>1 DEF Ours, OwnPath
      <3>3. QED BY <3>2
    <2>3. QED BY <1>4, <2>1, <2>2 DEF GatewaysOwn
  <1>5. QED BY <1>1, <1>2, <1>3, <1>4 DEF PortalInv

\* An edit ends what Unedited speaks of; a call begins with the settings in force.
LEMMA UneditedKept ==
  ASSUME RoutingInv, Unedited, [Next]_vars
  PROVE  Unedited' /\ (edits' = 0 => edits = 0 /\ settings' = settings)
  <1>1. edits \in Nat /\ CacheTypeOK
    BY CodecCacheAssumption DEF RoutingInv, CacheInv, CacheTypeOK
  <1>2. [CacheNext]_cacheVars
    BY StepAsks
  <1>3. written' = written
    BY DEF Next, Serve, Arrive, Matched, Decoded, Unwrapped, Redirected, Strayed, Rewritten, Restored, Keep, Asking, Saving, vars, reqVars
  <1>4. ASSUME NEW new \in Settings, Edit(new) PROVE edits' # 0
    BY <1>1, <1>4 DEF Edit
  <1>5. ASSUME NEW p \in Caller, Read(p) PROVE edits' = edits /\ settings' = settings /\ \A q \in Caller : during'[q] = during[q] \/ during'[q] = {settings}
    BY <1>1, <1>5 DEF Read, CacheTypeOK
  <1>6. ASSUME NEW p \in Caller, Compare(p) \/ Store(p) PROVE edits' = edits /\ settings' = settings /\ during' = during
    BY <1>6 DEF Compare, Store
  <1>7. CASE UNCHANGED cacheVars
    BY <1>1, <1>3, <1>7 DEF cacheVars, Unedited
  <1>8. QED BY <1>1, <1>2, <1>3, <1>4, <1>5, <1>6, <1>7 DEF CacheNext, Unedited

\* No scheme claims the portal's page.
LEMMA PortalIsNotClaimed ==
  ASSUME NEW s \in Settings, NEW u \in Address, PortalPage(s, u), NEW c \in {CodecOf(s), PlainCodec}
  PROVE  ~Match(c, u.host, u.path) /\ ~PlainMatch(u.path)
  <1>1. Len(u.path) = 1 /\ u.path[1] \in {<< >>, <<"index.html">>}
    BY DEF PortalPage, PortalPaths, Root
  <1>2. ~PlainMatch(u.path)
    BY <1>1 DEF PlainMatch
  <1>3. ~WRDMatch(u.path)
    <2>1. \A k : << >> # <<k>> /\ \A n : << >> # <<k, "-", n>> /\ <<"index.html">> # <<k, "-", n>>
      BY \A k, n : Len(<<k, "-", n>>) = 3 /\ Len(<<"index.html">>) = 1
    <2>2. \A k \in SchemeSupported : <<"index.html">> # <<k>>
      BY DEF SchemeSupported
    <2>3. QED BY <1>1, <2>1, <2>2 DEF WRDMatch
  <1>4. c \in AnyCodec
    BY CodecsOfSettings DEF AnyCodec
  <1>5. CASE c.mode = "subdomain"
    <2>1. c = CodecOf(s)
      BY <1>5 DEF PlainCodec
    <2>2. u.host = c.portal
      BY <1>5, <2>1, SettingsMode DEF PortalPage
    <2>3. ~HostMatch(c, u.host, u.path)
      BY <2>2 DEF HostMatch
    <2>4. QED BY <1>2, <1>5, <2>3 DEF Match
  <1>6. QED BY <1>2, <1>3, <1>4, <1>5, Modes DEF Match

\* Every step keeps PortalInv.
LEMMA PortalStepInv == PortalInv /\ [Next]_vars => PortalInv'
  <1> SUFFICES ASSUME PortalInv, [Next]_vars PROVE PortalInv'
    OBVIOUS
  <1>1. RoutingInv' /\ Unedited' /\ (edits' = 0 => edits = 0 /\ settings' = settings)
    BY RoutingStepInv, UneditedKept DEF PortalInv
  <1>2. RoutingInv /\ RouteTypeOK
    BY DEF PortalInv, RoutingInv
  <1>3. ASSUME NEW r \in Request, edits' = 0, GatewaysOwn(r)'
        PROVE  \/ pc'[r] \in {"portal", "gateway"}
               \/ pc'[r] = "arrive" /\ (Ours(settings', addr'[r]) \/ PortalPage(settings', addr'[r]))
               \/ pc'[r] = "match" /\ PortalPage(settings', addr'[r])
    <2>1. edits = 0 /\ settings' = settings /\ written' = written /\ source' = source
      BY <1>1, <1>3 DEF Next, Serve, Arrive, Matched, Decoded, Unwrapped, Redirected, Strayed, Rewritten, Restored, Keep, Asking, Saving, vars, reqVars
    <2>2. \/ pc[r] \in {"portal", "gateway"}
          \/ pc[r] = "arrive" /\ (Ours(settings, addr[r]) \/ PortalPage(settings, addr[r]))
          \/ pc[r] = "match" /\ PortalPage(settings, addr[r])
      BY <1>3, <2>1 DEF PortalInv, GatewaysOwn
    <2>3. ASSUME pc'[r] = pc[r], addr'[r] = addr[r] 
          PROVE  \/ pc'[r] \in {"portal", "gateway"}
                 \/ pc'[r] = "arrive" /\ (Ours(settings', addr'[r]) \/ PortalPage(settings', addr'[r]))
                 \/ pc'[r] = "match" /\ PortalPage(settings', addr'[r])
      BY <2>1, <2>2, <2>3
    <2>4. ASSUME NEW q \in Request, Serve(q), q # r PROVE pc'[r] = pc[r] /\ addr'[r] = addr[r]
      BY <1>2, <2>4 DEF Serve, Arrive, Matched, Decoded, Unwrapped, Redirected, Strayed, Rewritten, Restored, Keep, Proxy, Goto, RouteTypeOK
    <2>5. CASE UNCHANGED reqVars
      BY <2>3, <2>5 DEF reqVars
    <2>6. CASE Serve(r)
      <3>1. settings \in Settings /\ addr[r] \in Address /\ addr[r].path \in Path /\ r \in Caller
        BY <1>2, RoutingAssumption DEF RoutingInv, CacheInv, CacheTypeOK, RouteTypeOK, Address
      <3>2. CASE Arrive(r)
        <4>1. pc[r] = "arrive" /\ addr' = addr /\ (PortalPage(settings, addr[r]) => ~PlainMatch(addr[r].path))
          BY <3>1, <3>2, PortalIsNotClaimed DEF Arrive
        <4>2. CASE Ours(settings, addr[r])
          BY <1>2, <3>2, <4>1, <4>2 DEF Arrive, Goto, RouteTypeOK
        <4>3. CASE ~Ours(settings, addr[r])
          <5>1. PortalPage(settings, addr[r]) /\ ~PlainMatch(addr[r].path)
            BY <2>2, <4>1, <4>3
          <5>2. pc'[r] = "match"
            BY <1>2, <3>2, <4>3, <5>1 DEF Arrive, Goto, RouteTypeOK
          <5>3. QED BY <2>1, <4>1, <5>1, <5>2
        <4>4. QED BY <4>2, <4>3
      <3>3. CASE Matched(r)
        <4>1. pc[r] = "match" /\ addr' = addr /\ got[r] # NoCodec /\ PortalPage(settings, addr[r])
          BY <2>2, <3>3 DEF Matched, Answered
        <4>2. got[r] \in {CodecOf(settings), PlainCodec}
          <5>1. PICK s \in during[r] : got[r] = Answer(s)
            BY <3>1, <4>1 DEF PortalInv, RoutingInv, CacheInv, InForce
          <5>2. s = settings
            BY <2>1, <3>1, <5>1 DEF PortalInv, Unedited
          <5>3. QED BY <3>1, <5>1, <5>2, BuildAssumption DEF Answer
        <4>3. ~Match(got[r], addr[r].host, addr[r].path) /\ addr[r].path \in PortalPaths
          BY <3>1, <4>1, <4>2, PortalIsNotClaimed DEF PortalPage
        <4>4. pc'[r] = "portal"
          BY <1>2, <3>3, <4>3 DEF Matched, Goto, RouteTypeOK
        <4>5. QED BY <4>4
      <3>4. CASE Decoded(r) \/ Unwrapped(r) \/ Redirected(r) \/ Strayed(r) \/ Rewritten(r) \/ Restored(r)
        BY <2>2, <3>4 DEF Decoded, Unwrapped, Redirected, Strayed, Rewritten, Restored
      <3>5. QED BY <2>6, <3>2, <3>3, <3>4 DEF Serve
    <2>7. QED BY <2>3, <2>4, <2>5, <2>6 DEF Next, Asking, Saving, vars
  <1>4. QED BY <1>1, <1>3 DEF PortalInv

\* Until the console saves, the portal's pages, and what the shim asks of the
\* gateway on a page with a name of its own, are answered by the gateway, under
\* every mode, every base and every name of the portal (Handler.ServeHTTP,
\* Manager.Routes, Codec.Match).
THEOREM PortalAlwaysAnswers == Spec => []PortalAnswers
  <1>1. PortalInv => PortalAnswers
    <2> SUFFICES ASSUME PortalInv, NEW r \in Request, pc[r] \in Ends, edits = 0, GatewaysOwn(r)
                 PROVE  pc[r] \in {"portal", "gateway"}
      BY DEF PortalAnswers, GatewaysOwn
    <2>1. pc[r] # "arrive" /\ pc[r] # "match"
      BY DEF Ends
    <2>2. QED BY <2>1 DEF PortalInv
  <1>2. QED BY <1>1, PortalInitInv, PortalStepInv, PTL DEF Spec

-----------------------------------------------------------------------------
(* What an address leads to *)

\* What agreeing targets share.
LEMMA AgreesParts ==
  ASSUME NEW v \in Address, NEW u \in Address, Agrees(v, u)
  PROVE  /\ v.host = u.host /\ EncodedPort(v) = EncodedPort(u) /\ PathOf(v) = PathOf(u)
         /\ httpScheme(v.scheme) = httpScheme(u.scheme) /\ (isTLSScheme(v.scheme) <=> isTLSScheme(u.scheme))
         /\ v.port \in {u.port, EncodedPort(u)}
  <1>1. /\ Norm(v).scheme = httpScheme(v.scheme) /\ Norm(v).host = v.host /\ Norm(v).port = EncodedPort(v) /\ Norm(v).path = PathOf(v)
        /\ Norm(u).scheme = httpScheme(u.scheme) /\ Norm(u).host = u.host /\ Norm(u).port = EncodedPort(u) /\ Norm(u).path = PathOf(u)
    BY DEF Norm
  <1>2. Norm(v) = Norm(u) /\ v.port \in {u.port, EncodedPort(u)}
    BY DEF Agrees
  <1>3. httpScheme(v.scheme) = httpScheme(u.scheme)
    BY <1>1, <1>2, Zenon
  <1>4. v.scheme \in SchemeSupported /\ u.scheme \in SchemeSupported
    BY DEF Address
  <1>5. isTLSScheme(v.scheme) <=> isTLSScheme(u.scheme)
    BY <1>3, <1>4 DEF httpScheme, isTLSScheme, SchemeSupported
  <1>6. v.host = u.host /\ EncodedPort(v) = EncodedPort(u) /\ PathOf(v) = PathOf(u)
    BY <1>1, <1>2, Zenon
  <1>7. QED BY <1>2, <1>3, <1>5, <1>6

\* Targets that share so much agree.
LEMMA AgreesWhen ==
  ASSUME NEW v, NEW u, v.host = u.host, EncodedPort(v) = EncodedPort(u), PathOf(v) = PathOf(u),
         httpScheme(v.scheme) = httpScheme(u.scheme), v.port \in {u.port, EncodedPort(u)}
  PROVE  Agrees(v, u)
  BY DEF Agrees, Norm

LEMMA AgreesAgain ==
  ASSUME NEW v \in Address, NEW u \in Address, NEW w \in Address, Agrees(v, u), Agrees(u, w)
  PROVE  Agrees(v, w)
  <1>1. Norm(v) = Norm(u) /\ Norm(u) = Norm(w) /\ v.port \in {u.port, EncodedPort(u)} /\ u.port \in {w.port, EncodedPort(w)}
    BY DEF Agrees
  <1>2. EncodedPort(u) = EncodedPort(w)
    BY AgreesParts
  <1>3. v.port \in {w.port, EncodedPort(w)}
    BY <1>1, <1>2
  <1>4. QED BY <1>1, <1>3 DEF Agrees

\* A target agrees with itself, and with itself fetched over HTTP.
LEMMA AgreesItself == ASSUME NEW u PROVE Agrees(u, u)
  BY DEF Agrees

LEMMA SchemeParts ==
  ASSUME NEW u \in Address, NEW scheme \in SchemeSupported
  PROVE  LET v == [u EXCEPT !.scheme = scheme]
         IN  v \in Address /\ v.scheme = scheme /\ v.host = u.host /\ v.port = u.port /\ v.path = u.path
  BY DEF Address

LEMMA HTTPAgain ==
  ASSUME NEW s \in SchemeSupported
  PROVE  /\ httpScheme(s) \in SchemeSupported /\ httpScheme(httpScheme(s)) = httpScheme(s)
         /\ (isTLSScheme(httpScheme(s)) <=> isTLSScheme(s))
  BY DEF httpScheme, isTLSScheme, SchemeSupported

LEMMA AgreesOverHTTP ==
  ASSUME NEW u \in Address
  PROVE  LET v == [u EXCEPT !.scheme = httpScheme(@)]
         IN  /\ v \in Address /\ v.host = u.host /\ v.port = u.port /\ v.path = u.path
             /\ httpScheme(v.scheme) = httpScheme(u.scheme) /\ EncodedPort(v) = EncodedPort(u)
             /\ Agrees(v, u)
  <1> DEFINE v == [u EXCEPT !.scheme = httpScheme(@)]
  <1>1. u.scheme \in SchemeSupported
    BY DEF Address
  <1>2. v = [u EXCEPT !.scheme = httpScheme(u.scheme)]
    BY DEF Address
  <1>3. v \in Address /\ v.scheme = httpScheme(u.scheme) /\ v.host = u.host /\ v.port = u.port /\ v.path = u.path
    BY <1>1, <1>2, HTTPAgain, SchemeParts
  <1> HIDE DEF v
  <1>4. httpScheme(v.scheme) = httpScheme(u.scheme) /\ (isTLSScheme(v.scheme) <=> isTLSScheme(u.scheme))
    BY <1>1, <1>3, HTTPAgain
  <1>5. EncodedPort(v) = EncodedPort(u) /\ PathOf(v) = PathOf(u)
    BY <1>3, <1>4 DEF EncodedPort, defaultPort, PathOf
  <1>6. Agrees(v, u)
    BY <1>3, <1>4, <1>5, AgreesWhen
  <1>7. QED BY <1>3, <1>4, <1>5, <1>6 DEF v

\* Agreeing sites agree on every path of theirs.
LEMMA AgreesElsewhere ==
  ASSUME NEW v \in Address, NEW u \in Address, Agrees(v, u), NEW p \in Path, NEW q \in Path,
         q = p \/ (p = Root /\ q = << >>)
  PROVE  Agrees([v EXCEPT !.path = p], [u EXCEPT !.path = q])
  <1> DEFINE v1 == [v EXCEPT !.path = p]
  <1> DEFINE u1 == [u EXCEPT !.path = q]
  <1>1. v1 \in Address /\ v1.scheme = v.scheme /\ v1.host = v.host /\ v1.port = v.port /\ v1.path = p
    BY Repathed, URLParts
  <1>2. u1 \in Address /\ u1.scheme = u.scheme /\ u1.host = u.host /\ u1.port = u.port /\ u1.path = q
    BY Repathed, URLParts
  <1> HIDE DEF v1, u1
  <1>3. EncodedPort(v1) = EncodedPort(v) /\ EncodedPort(u1) = EncodedPort(u)
    BY <1>1, <1>2 DEF EncodedPort
  <1>4. PathOf(v1) = PathOf(u1)
    BY <1>1, <1>2 DEF PathOf, Root
  <1>5. Agrees(v1, u1)
    BY <1>1, <1>2, <1>3, <1>4, AgreesParts, AgreesWhen
  <1>6. QED BY <1>5 DEF v1, u1

\* A target an upstream can have, and one that has an address under the settings.
Upstream(u) == u.host # << >> /\ ~HasPort(u.host) /\ u.port \notin BadPorts
Fit(s, u) ==
    /\ Upstream(u) /\ ~Inside(s, u)
    /\ s.mode = "subdomain" => Sayable(u) /\ ~Taken(PathOf(u))

LEMMA FitAgrees ==
  ASSUME NEW s, NEW v \in Address, NEW u \in Address, Agrees(v, u)
  PROVE  (Upstream(u) => Upstream(v)) /\ (Fit(s, u) => Fit(s, v))
  <1>1. /\ v.host = u.host /\ EncodedPort(v) = EncodedPort(u) /\ PathOf(v) = PathOf(u)
        /\ (isTLSScheme(v.scheme) <=> isTLSScheme(u.scheme)) /\ v.port \in {u.port, EncodedPort(u)}
    BY AgreesParts
  <1>2. u.port \notin BadPorts => v.port \notin BadPorts
    BY <1>1, AddressingAssumption DEF EncodedPort
  <1>3. Upstream(u) => Upstream(v)
    BY <1>1, <1>2 DEF Upstream
  <1>4. Sayable(v) <=> Sayable(u)
    BY <1>1 DEF Sayable, Wart, Rooted, Improper
  <1>5. Inside(s, v) <=> Inside(s, u)
    BY <1>1 DEF Inside
  <1>6. QED BY <1>1, <1>3, <1>4, <1>5 DEF Fit

\* Being told how the browser came changes what a codec writes, not what it reads.
LEMMA SecureReadsAlike ==
  ASSUME NEW c \in AnyCodec, NEW host, NEW path
  PROVE  /\ decode(codecSecure(c), host, path) = decode(c, host, path)
         /\ Match(codecSecure(c), host, path) <=> Match(c, host, path)
         /\ isGatewayHost(codecSecure(c), host) <=> isGatewayHost(c, host)
         /\ codecSecure(c).mode = c.mode
  <1>1. CASE c.mode # "subdomain"
    BY <1>1 DEF codecSecure
  <1>2. CASE c.mode = "subdomain"
    <2> DEFINE d == [c EXCEPT !.tls = Secure]
    <2>1. codecSecure(c) = d
      BY <1>2 DEF codecSecure
    <2>2. d.mode = c.mode /\ d.base = c.base /\ d.portal = c.portal /\ d.port = c.port
      BY <1>2, Modes
    <2> HIDE DEF d
    <2>3. HostDecode(d, host, path) = HostDecode(c, host, path)
      BY <2>2 DEF HostDecode
    <2>4. Decode(d, host, path) = Decode(c, host, path)
      BY <1>2, <2>2, <2>3 DEF Decode
    <2>5. decode(d, host, path) = decode(c, host, path)
      BY <2>4 DEF decode
    <2>6. Match(d, host, path) <=> Match(c, host, path)
      BY <1>2, <2>2 DEF Match, HostMatch
    <2>7. isGatewayHost(d, host) <=> isGatewayHost(c, host)
      BY <2>2 DEF isGatewayHost
    <2>8. QED BY <2>1, <2>2, <2>5, <2>6, <2>7
  <1>3. QED BY <1>1, <1>2

\* What is put behind something leaves something.
LEMMA StaysFilled == ASSUME NEW S, NEW s \in Seq(S), s # << >>, NEW t \in Seq(S) PROVE s \o t \in Seq(S) /\ s \o t # << >>
  BY ConcatEqualIffEmpty, Concats

\* A label holds something of the name it is for.
LEMMA LabelFilled ==
  ASSUME NEW name \in Name, name # << >>, NEW port \in Ports \cup {""}, NEW tls \in BOOLEAN
  PROVE  encodeLabel(name, port, tls) \in Name /\ encodeLabel(name, port, tls) # << >>
  <1> DEFINE m == IF port = "" THEN << >> ELSE <<"-", "p", port>>
  <1> DEFINE e == IF tls THEN <<"-", "s">> ELSE << >>
  <1> DEFINE b == Body(name)
  <1> DEFINE label == encodeLabel(name, port, tls)
  <1>1. b \in Seq(Token) /\ b # << >>
    BY BodyParts, BodyEnd DEF Name
  <1>2. label = b \o m \o e
    BY DEF encodeLabel, Body, Written1
  <1>3. m \in Seq(Token) /\ e \in Seq(Token)
    <2>1. {"-", "p", "s"} \subseteq Token /\ (port # "" => port \in Token)
      BY Tokens, AddressingAssumption
    <2>2. QED BY <2>1, Singles, EmptySeq
  <1>4. label \in Name
    BY EncodeLabelTyped
  <1> HIDE DEF m, e, b, label
  <1>5. b \o m \in Seq(Token) /\ b \o m # << >>
    BY <1>1, <1>3, StaysFilled
  <1>6. label # << >>
    BY <1>2, <1>3, <1>5, StaysFilled
  <1>7. QED BY <1>4, <1>6 DEF label

\* Tls of a scheme is a truth value.
LEMMA TLSTyped == \A scheme : isTLSScheme(scheme) \in BOOLEAN
  BY DEF isTLSScheme

\* How a codec writes an address, and that it writes one.
LEMMA EncodeForms ==
  ASSUME NEW s \in Settings, NEW w \in Address, w.host # << >>, ~Inside(s, w)
  PROVE  LET c == codecSecure(CodecOf(s))
             label == encodeLabel(w.host, EncodedPort(w), isTLSScheme(w.scheme))
         IN  \/ /\ Encode(c, w) = PlainEncode(w) /\ s.mode # "wrd"
                /\ s.mode = "subdomain" =>
                      IPv6(w.host) \/ Len(label) > MaxLabel \/ label \o <<".">> \o s.base = PortalHost(s)
             \/ Encode(c, w) = WRDEncode(w) /\ s.mode = "wrd"
             \/ /\ s.mode = "subdomain" /\ label \o <<".">> \o s.base # PortalHost(s)
                /\ ~IPv6(w.host) /\ ~(Len(label) > MaxLabel)
                /\ Encode(c, w) = {URL(gatewayScheme(c, w.scheme), label \o <<".">> \o s.base, s.port, PathOf(w))}
  <1> DEFINE c == codecSecure(CodecOf(s))
  <1>1. /\ c \in AnyCodec /\ (c.mode = "wrd" <=> s.mode = "wrd") /\ (c.mode = "subdomain" <=> s.mode = "subdomain")
        /\ s.mode = "subdomain" => c.base = s.base /\ c.portal = PortalHost(s) /\ c.port = s.port
    BY SettingsMode
  <1>2. s.mode = "subdomain" => ~isGatewayHost(c, w.host)
    BY CodecsOfSettings, SecureReadsAlike DEF Inside
  <1> HIDE DEF c
  <1>3. CASE c.mode = "wrd"
    BY <1>1, <1>3 DEF Encode, c
  <1>4. CASE c.mode = "plain"
    <2>1. s.mode # "subdomain" /\ s.mode # "wrd"
      BY <1>1, <1>4
    <2>2. QED BY <1>4, <2>1 DEF Encode, c
  <1>5. CASE c.mode = "subdomain"
    <2> DEFINE label == encodeLabel(w.host, EncodedPort(w), isTLSScheme(w.scheme))
    <2> DEFINE host == label \o <<".">> \o c.base
    <2>1. Encode(c, w) = IF IPv6(w.host) \/ Len(label) > MaxLabel \/ host = c.portal THEN PlainEncode(w)
                         ELSE {URL(gatewayScheme(c, w.scheme), host, c.port, PathOf(w))}
      BY <1>1, <1>2, <1>5 DEF Encode, HostEncode
    <2> HIDE DEF label
    <2>2. CASE IPv6(w.host) \/ Len(label) > MaxLabel \/ host = c.portal
      BY <1>1, <1>5, <2>1, <2>2 DEF c, label
    <2>3. CASE ~(IPv6(w.host) \/ Len(label) > MaxLabel \/ host = c.portal)
      BY <1>1, <1>5, <2>1, <2>3 DEF c, label
    <2>4. QED BY <2>2, <2>3
  <1>6. QED BY <1>1, <1>3, <1>4, <1>5, Modes

\* No route of the gateway's lies under the prefixes of the codecs.
LEMMA PrefixesAreFree ==
  ASSUME NEW s, NEW u, PlainMatch(u.path) \/ WRDMatch(u.path)
  PROVE  ~Ours(s, u)
  <1>1. u.path[1] \notin OwnPages /\ u.path[1] # <<"_wv">>
    <2>1. CASE PlainMatch(u.path)
      <3>1. u.path[1] = PlainPrefix /\ PlainPrefix # <<"_wv">>
        BY <2>1 DEF PlainMatch, PlainPrefix
      <3>2. QED BY <3>1, RoutingAssumption
    <2>2. CASE WRDMatch(u.path)
      <3> DEFINE first == u.path[1]
      <3>1. \E t \in SchemeSupported : first = <<t>> \/ \E n \in Ports : first = <<t, "-", n>>
        BY <2>2 DEF WRDMatch
      <3> HIDE DEF first
      <3>2. WRDMatch(<<first>>)
        <4>1. <<first>>[1] = first /\ <<first>> # << >>
          OBVIOUS
        <4>2. QED BY <3>1, <4>1 DEF WRDMatch
      <3>3. first # <<"_wv">>
        <4>1. \A t \in SchemeSupported : <<t>> # <<"_wv">>
          BY DEF SchemeSupported
        <4>2. \A t, n : <<t, "-", n>> # <<"_wv">>
          <5>1. \A t, n : Len(<<t, "-", n>>) = 3 /\ Len(<<"_wv">>) = 1
            OBVIOUS
          <5>2. QED BY <5>1
        <4>3. QED BY <3>1, <4>1, <4>2
      <3>4. first \notin OwnPages
        BY <3>2, RoutingAssumption
      <3>5. QED BY <3>3, <3>4 DEF first
    <2>3. QED BY <2>1, <2>2
  <1>2. QED BY <1>1 DEF Ours

\* An address of the gateway that is taken, under the settings in force, for the
\* target w and for nothing else.
Leads(s, a, w) ==
    /\ a \in Address /\ a.path # << >> /\ ~Ours(s, a)
    /\ PlainMatch(a.path) \/ Match(CodecOf(s), a.host, a.path)
    /\ \E v \in Address : decode(CodecOf(s), a.host, a.path) = {v} /\ Agrees(v, w)

LEMMA LeadsAgrees ==
  ASSUME NEW s, NEW a, NEW v \in Address, NEW w \in Address, Leads(s, a, v), Agrees(v, w)
  PROVE  Leads(s, a, w)
  <1>1. PICK u \in Address : decode(CodecOf(s), a.host, a.path) = {u} /\ Agrees(u, v)
    BY DEF Leads
  <1>2. Agrees(u, w)
    BY <1>1, AgreesAgain
  <1>3. QED BY <1>1, <1>2 DEF Leads

\* The path of an address in the WRD mode is the WRD codec's.
LEMMA WRDPath ==
  ASSUME NEW u \in Address, NEW ref \in WRDEncode(u)
  PROVE  WRDMatch(ref.path) /\ ref.path # << >>
  <1> DEFINE head == <<WRDScheme(u), <<Hidden>> \o u.host>>
  <1> DEFINE path == head \o PathOf(u)
  <1>1. ref.path = path
    BY PathRefParts DEF WRDEncode
  <1>2. u.scheme \in SchemeSupported /\ (u.port # "" => u.port \in Ports)
    BY DEF Address
  <1>3. path[1] = WRDScheme(u) /\ path # << >>
    <2> DEFINE S == {WRDScheme(u), <<Hidden>> \o u.host} \cup Name
    <2>1. head \in Seq(S) /\ Len(head) = 2 /\ head[1] = WRDScheme(u) /\ head # << >>
      OBVIOUS
    <2>2. PathOf(u) \in Seq(Name)
      BY PathOfTyped DEF Path
    <2> HIDE DEF head
    <2>3. PathOf(u) \in Seq(S) /\ Len(PathOf(u)) \in Nat
      <3>1. Name \subseteq S
        OBVIOUS
      <3> HIDE DEF S
      <3>2. QED BY <2>2, <3>1, SeqMonotonic, LenProperties
    <2> HIDE DEF S
    <2>4. 1 \in 1..(Len(head) + Len(PathOf(u))) /\ 1 <= Len(head)
      BY <2>1, <2>3
    <2>5. (head \o PathOf(u))[1] = head[1]
      BY <2>1, <2>3, <2>4, ConcatProperties
    <2>6. head \o PathOf(u) # << >>
      BY <2>1, <2>3, ConcatEqualIffEmpty
    <2>7. QED BY <2>1, <2>5, <2>6
  <1> HIDE DEF path
  <1>4. WRDMatch(path)
    <2>1. CASE EncodedPort(u) = ""
      BY <1>2, <1>3, <2>1 DEF WRDScheme, WRDMatch
    <2>2. CASE EncodedPort(u) # ""
      <3>1. u.port \in Ports
        BY <1>2, <2>2 DEF EncodedPort
      <3>2. QED BY <1>2, <1>3, <2>2, <3>1 DEF WRDScheme, WRDMatch
    <2>3. QED BY <2>1, <2>2
  <1>5. QED BY <1>1, <1>3, <1>4

\* A reference without a host is followed on the host it is met on.
LEMMA FollowedHere ==
  ASSUME NEW at \in Address, NEW ref, ref.host = << >>, ref.path \in Path
  PROVE  LET a == Resolve(ref, at)
         IN  a \in Address /\ a.host = at.host /\ a.path = ref.path /\ a.scheme = at.scheme /\ a.port = at.port
  <1>1. Resolve(ref, at) = [at EXCEPT !.path = ref.path]
    BY DEF Resolve
  <1>2. QED BY <1>1, Repathed, URLParts

\* The path form leads to its target under any settings.
LEMMA PlainLeads ==
  ASSUME NEW s \in Settings, NEW w \in Address, Upstream(w), NEW at \in Address, NEW ref \in PlainEncode(w)
  PROVE  /\ Leads(s, Resolve(ref, at), w)
         /\ Resolve(ref, at).host = at.host /\ PlainMatch(Resolve(ref, at).path)
  <1> DEFINE a == Resolve(ref, at)
  <1>1. /\ ref.host = << >> /\ PlainMatch(ref.path)
        /\ \E v \in Address : PlainDecode(ref.path) = {v} /\ Agrees(v, w)
    BY PlainTarget DEF Upstream
  <1>2. ref.path \in Path /\ ref.path # << >>
    BY PlainPathParts, PathRefParts DEF PlainMatch
  <1>3. a \in Address /\ a.host = at.host /\ a.path = ref.path
    BY <1>1, <1>2, FollowedHere
  <1> HIDE DEF a
  <1>4. ~Ours(s, a)
    BY <1>1, <1>3, PrefixesAreFree
  <1>5. \E v \in Address : decode(CodecOf(s), a.host, a.path) = {v} /\ Agrees(v, w)
    BY <1>1, <1>3 DEF decode
  <1>6. QED BY <1>1, <1>2, <1>3, <1>4, <1>5 DEF Leads, a

LEMMA ReadBack ==
  ASSUME NEW c \in AnyCodec, NEW w \in Address, Upstream(w),
         c.mode = "subdomain" => Sayable(w) /\ ~PlainMatch(PathOf(w)),
         NEW at, NEW ref \in Encode(c, w)
  PROVE  \E v \in Address : decode(c, IF ref.host = << >> THEN at ELSE ref.host, ref.path) = {v} /\ Agrees(v, w)
  <1>1. w.host # << >> /\ ~HasPort(w.host) /\ w.port \notin BadPorts
    BY DEF Upstream
  <1>2. QED BY <1>1, TargetsComeBack

\* What a codec writes leads to what it was written for.
LEMMA EncodedLeads ==
  ASSUME NEW s \in Settings, NEW w \in Address, Fit(s, w), NEW at \in Address,
         NEW ref \in Encode(codecSecure(CodecOf(s)), w)
  PROVE  Leads(s, Resolve(ref, at), w)
  <1> DEFINE c == codecSecure(CodecOf(s))
  <1> DEFINE a == Resolve(ref, at)
  <1> DEFINE label == encodeLabel(w.host, EncodedPort(w), isTLSScheme(w.scheme))
  <1> DEFINE host == label \o <<".">> \o s.base
  <1>1. Upstream(w) /\ ~Inside(s, w) /\ w.host # << >> /\ c \in AnyCodec /\ CodecOf(s) \in AnyCodec
    BY SettingsMode DEF Fit, Upstream
  <1>2. \E v \in Address : decode(c, IF ref.host = << >> THEN at.host ELSE ref.host, ref.path) = {v} /\ Agrees(v, w)
    <2>1. c.mode = "subdomain" => Sayable(w) /\ ~PlainMatch(PathOf(w))
      BY SettingsMode DEF Fit, Taken, PlainMatch
    <2> DEFINE here == at.host
    <2>2. ref \in Encode(c, w)
      OBVIOUS
    <2>3. w.host # << >> /\ ~HasPort(w.host) /\ w.port \notin BadPorts
      BY <1>1 DEF Upstream
    <2> HIDE DEF c, a, label, host, here
    <2>4. \E v \in Address : decode(c, IF ref.host = << >> THEN here ELSE ref.host, ref.path) = {v} /\ Agrees(v, w)
      <3>1. c \in AnyCodec
        BY <1>1
      <3>2. Upstream(w)
        BY <1>1
      <3>3. \A x : \A r \in Encode(c, w) : \E v \in Address : decode(c, IF r.host = << >> THEN x ELSE r.host, r.path) = {v} /\ Agrees(v, w)
        BY <3>1, <3>2, <2>1, ReadBack
      <3>4. QED BY <2>2, <3>3
    <2>5. QED BY <2>4 DEF here
  <1>3. a \in Address
    BY <1>1, EncodeTyped, ResolveTyped
  <1>4. CASE ref \in PlainEncode(w)
    BY <1>1, <1>4, PlainLeads
  <1>5. CASE s.mode = "wrd" /\ ref \in WRDEncode(w)
    <2>1. WRDMatch(ref.path) /\ ref.path # << >> /\ ref.host = << >> /\ ref.path \in Path
      <3>1. ref.host = << >>
        BY <1>5, WRDPathIsNotPlain
      <3>2. PICK p \in Path \ {<< >>} : WRDEncode(w) = {PathRef(p)}
        BY WRDEncodeTyped
      <3>3. ref = PathRef(p)
        BY <1>5, <3>2
      <3>4. QED BY <1>5, <3>1, <3>3, WRDPath, PathRefParts
    <2>2. a.host = at.host /\ a.path = ref.path
      BY <2>1, FollowedHere
    <2> HIDE DEF a
    <2>3. ~Ours(s, a)
      BY <2>1, <2>2, PrefixesAreFree
    <2>4. Match(CodecOf(s), a.host, a.path)
      BY <1>5, <2>1, <2>2, SettingsMode DEF Match
    <2>5. decode(c, at.host, ref.path) = decode(CodecOf(s), a.host, a.path)
      BY <1>1, <2>2, SecureReadsAlike
    <2> HIDE DEF c
    <2>6. \E v \in Address : decode(CodecOf(s), a.host, a.path) = {v} /\ Agrees(v, w)
      BY <1>2, <2>1, <2>5
    <2>7. QED BY <1>3, <2>1, <2>2, <2>3, <2>4, <2>6 DEF Leads, a
  <1>6. CASE /\ s.mode = "subdomain" /\ host # PortalHost(s)
             /\ ref = URL(gatewayScheme(c, w.scheme), host, s.port, PathOf(w))
    <2>1. ref.host = host /\ ref.path = PathOf(w)
      <3> DEFINE scheme == gatewayScheme(c, w.scheme)
      <3> HIDE DEF host, scheme
      <3>1. ref = URL(scheme, host, s.port, PathOf(w))
        BY <1>6 DEF scheme
      <3>2. QED BY <3>1, URLParts
    <2>2. host # << >> /\ Under(host, s.base)
      <3>1. label \in Name /\ label # << >> /\ s.base \in Name
        <4>1. w.host \in Name /\ EncodedPort(w) \in Ports \cup {""} /\ isTLSScheme(w.scheme) \in BOOLEAN /\ s.base \in Name
          BY EncodedPortTyped, TLSTyped, BuildAssumption DEF Address
        <4>2. QED BY <1>1, <4>1, LabelFilled
      <3> HIDE DEF label
      <3>2. Under(host, s.base) /\ host \in Name
        BY <3>1, LabelCutOff
      <3>3. host # << >>
        <4>1. Len(host) > Len(s.base) + 1 /\ Len(s.base) \in Nat
          BY <3>1, <3>2, LenProperties DEF Under, Name
        <4> HIDE DEF host
        <4>2. Len(<< >>) = 0
          OBVIOUS
        <4>3. QED BY <4>1, <4>2
      <3>4. QED BY <3>2, <3>3
    <2> HIDE DEF host, label
    <2>3. a = ref
      BY <2>1, <2>2 DEF Resolve
    <2> HIDE DEF a
    <2>4. a.host = host /\ a.path = PathOf(w)
      BY <2>1, <2>3
    <2>5. ~Taken(PathOf(w)) /\ PathOf(w) # << >>
      BY <1>6, PathOfTyped DEF Fit
    <2>6. ~Ours(s, a)
      <3>1. ~onGatewayHost(s, a.host)
        BY <1>6, <2>4 DEF onGatewayHost
      <3>2. ~(Len(a.path) > 1 /\ a.path[1] = <<"_wv">>)
        BY <2>4, <2>5 DEF Taken
      <3>3. QED BY <3>1, <3>2 DEF Ours
    <2>7. Match(CodecOf(s), a.host, a.path)
      <3>1. ~PlainMatch(a.path)
        BY <2>4, <2>5 DEF Taken, PlainMatch
      <3>2. HostMatch(CodecOf(s), a.host, a.path)
        BY <1>6, <2>2, <2>4, <3>1, SettingsMode DEF HostMatch
      <3>3. QED BY <1>6, <3>2, SettingsMode DEF Match
    <2>8. decode(c, ref.host, ref.path) = decode(CodecOf(s), a.host, a.path)
      BY <1>1, <2>3, SecureReadsAlike
    <2> HIDE DEF c
    <2>9. \E v \in Address : decode(CodecOf(s), a.host, a.path) = {v} /\ Agrees(v, w)
      BY <1>2, <2>1, <2>2, <2>8
    <2>10. QED BY <1>3, <2>4, <2>5, <2>6, <2>7, <2>9 DEF Leads, a
  <1>7. QED BY <1>1, <1>4, <1>5, <1>6, EncodeForms

\* An address that is fit has an address of the gateway.
LEMMA EncodedSomehow ==
  ASSUME NEW s \in Settings, NEW w \in Address, w.host # << >>, ~Inside(s, w)
  PROVE  LET c == codecSecure(CodecOf(s))
         IN  Encode(c, w) # {} /\ Ref(CodecOf(s), w) \in Encode(c, w)
  <1> DEFINE c == codecSecure(CodecOf(s))
  <1>1. PlainEncode(w) # {} /\ WRDEncode(w) # {}
    BY DEF PlainEncode, WRDEncode
  <1>2. Encode(c, w) # {}
    BY <1>1, EncodeForms
  <1> HIDE DEF c
  <1>3. Ref(CodecOf(s), w) = CHOOSE r \in Encode(c, w) : TRUE
    BY <1>2 DEF Ref, c
  <1>4. QED BY <1>2, <1>3 DEF c

\* Every name under a base ends as the base does, and is the gateway's.
LEMMA UnderIsGateway ==
  ASSUME NEW s \in Settings, s.mode = "subdomain", NEW host \in Name, host = s.base \/ Under(host, s.base)
  PROVE  isGatewayHost(CodecOf(s), host)
  <1> DEFINE base == s.base
  <1> DEFINE tail == <<".">> \o base
  <1>1. base \in Seq(Token) /\ base # << >> /\ base[Len(base)] # "." /\ CodecOf(s).base = base
    BY BuildAssumption, SettingsMode DEF Name, Last
  <1>2. host \in Seq(Token)
    BY DEF Name
  <1> HIDE DEF base
  <1>3. Len(base) \in Nat \ {0} /\ Len(host) \in Nat
    BY <1>1, <1>2, LenProperties, EmptySeq
  <1>4. host[Len(host)] # "."
    <2>1. CASE host = base
      BY <1>1, <2>1
    <2>2. CASE Under(host, base)
      <3>1. <<".">> \in Seq(Token) /\ Len(<<".">>) = 1
        BY AddressingAssumption, Singles
      <3>2. tail \in Seq(Token) /\ Len(tail) = Len(base) + 1
            /\ \A k \in 1..(1 + Len(base)) : tail[k] = IF k <= 1 THEN <<".">>[k] ELSE base[k - 1]
        BY <1>1, <3>1, ConcatProperties
      <3>3. IsSuffix(tail, host)
        BY <2>2 DEF Under
      <3> HIDE DEF tail
      <3>4. Len(tail) <= Len(host) /\ \A k \in 1..Len(tail) : host[Len(host) - Len(tail) + k] = tail[k]
        BY <1>2, <3>2, <3>3, SuffixMeans
      <3> DEFINE k == Len(base) + 1
      <3>5. k \in 1..Len(tail) /\ Len(host) - Len(tail) + k = Len(host) /\ ~(k <= 1) /\ k - 1 = Len(base) /\ k \in 1..(1 + Len(base))
        BY <1>3, <3>2
      <3> HIDE DEF k
      <3>6. host[Len(host)] = tail[k] /\ tail[k] = base[Len(base)]
        BY <3>2, <3>4, <3>5
      <3>7. QED BY <1>1, <3>6
    <2>3. QED BY <2>1, <2>2 DEF base
  <1>5. Rootless(host) = host
    BY <1>4 DEF Rootless, Last
  <1>6. QED BY <1>1, <1>5 DEF isGatewayHost, base

\* The portal's own address.
LEMMA PortalParts ==
  ASSUME NEW s
  PROVE  PortalAt(s).path = Root /\ PortalAt(s).host = IF s.mode = "subdomain" THEN PortalHost(s) ELSE Gate
  BY DEF PortalAt, URL

\* The path form the shim writes is that of the target over HTTP.
LEMMA PathFormIs ==
  ASSUME NEW u \in Address
  PROVE  LET v == [u EXCEPT !.scheme = httpScheme(@)]
         IN  v \in Address /\ Agrees(v, u) /\ pathForm(u) \in PlainEncode(v) /\ pathForm(u).host = << >>
  <1> DEFINE v == [u EXCEPT !.scheme = httpScheme(@)]
  <1>1. v = [u EXCEPT !.scheme = httpScheme(u.scheme)]
    BY DEF Address
  <1>2. v \in Address /\ Agrees(v, u)
    BY AgreesOverHTTP
  <1>3. pathForm(u) = CHOOSE r \in PlainEncode(v) : TRUE
    BY <1>1 DEF pathForm
  <1>4. PlainEncode(v) # {}
    BY DEF PlainEncode
  <1> HIDE DEF v
  <1>5. pathForm(u) \in PlainEncode(v)
    BY <1>3, <1>4
  <1>6. QED BY <1>2, <1>5, PathFormTyped DEF v

\* What the shim writes for a target, but the portal's own name, leads to it.
LEMMA ShimLeads ==
  ASSUME NEW s \in Settings, NEW w \in Address, Fit(s, w), NEW at \in Address,
         shimEncode(CodecOf(s), w).host # PortalAt(s).host
  PROVE  Leads(s, Resolve(shimEncode(CodecOf(s), w), at), w)
  <1> DEFINE c == CodecOf(s)
  <1> DEFINE label == encodeLabel(w.host, EncodedPort(w), isTLSScheme(w.scheme))
  <1>1. Upstream(w) /\ ~Inside(s, w) /\ w.host # << >> /\ (c.mode = "subdomain" <=> s.mode = "subdomain")
    BY SettingsMode DEF Fit, Upstream
  <1>2. CASE shimEncode(c, w) = pathForm(w)
    <2> DEFINE v == [w EXCEPT !.scheme = httpScheme(@)]
    <2>1. v \in Address /\ Agrees(v, w) /\ pathForm(w) \in PlainEncode(v)
      BY PathFormIs
    <2> HIDE DEF v, c
    <2>2. Upstream(v)
      BY <1>1, <2>1, FitAgrees
    <2>3. Leads(s, Resolve(pathForm(w), at), v)
      BY <2>1, <2>2, PlainLeads
    <2>4. Leads(s, Resolve(pathForm(w), at), w)
      BY <2>1, <2>3, LeadsAgrees
    <2>5. QED BY <1>2, <2>4 DEF c
  <1>3. CASE shimEncode(c, w) # pathForm(w)
    <2> DEFINE ref == URL(gatewayScheme(codecSecure(c), w.scheme), label \o <<".">> \o c.base, c.port, PathOf(w))
    <2>1. c.mode = "subdomain" /\ ~IPv6(w.host) /\ ~(Len(label) > MaxLabel) /\ shimEncode(c, w) = ref
      BY <1>3 DEF shimEncode
    <2>2. s.mode = "subdomain" /\ c.base = s.base /\ c.port = s.port /\ PortalAt(s).host = PortalHost(s)
      BY <1>1, <2>1, SettingsMode, PortalParts
    <2>3. ref.host = label \o <<".">> \o s.base
      BY <2>2 DEF URL
    <2>4. label \o <<".">> \o s.base # PortalHost(s)
      BY <2>1, <2>2, <2>3
    <2>5. Encode(codecSecure(c), w) = {ref}
      BY <1>1, <2>1, <2>2, <2>4, EncodeForms
    <2>6. ref \in Encode(codecSecure(c), w)
      BY <2>5
    <2> HIDE DEF ref
    <2>7. Leads(s, Resolve(ref, at), w)
      BY <1>1, <2>6, EncodedLeads
    <2>8. QED BY <2>1, <2>7
  <1>4. QED BY <1>2, <1>3

\* The name under which the shim writes a target does not depend on its path.
LEMMA ShimHost ==
  ASSUME NEW c, NEW u \in Address, NEW p \in Path
  PROVE  shimEncode(c, [u EXCEPT !.path = p]).host = shimEncode(c, u).host
  <1> DEFINE v == [u EXCEPT !.path = p]
  <1>1. v \in Address /\ v.scheme = u.scheme /\ v.host = u.host /\ v.port = u.port
    BY Repathed, URLParts
  <1> HIDE DEF v
  <1>2. EncodedPort(v) = EncodedPort(u)
    BY <1>1 DEF EncodedPort
  <1>3. pathForm(v).host = << >> /\ pathForm(u).host = << >>
    BY <1>1, PathFormTyped
  <1>4. \A a, b, d, e, f : URL(a, b, d, e).host = b /\ URL(a, b, d, f).host = b
    BY URLParts
  <1> DEFINE label == encodeLabel(u.host, EncodedPort(u), isTLSScheme(u.scheme))
  <1>5. /\ shimEncode(c, u) = IF c.mode # "subdomain" \/ IPv6(u.host) \/ Len(label) > MaxLabel THEN pathForm(u)
                              ELSE URL(gatewayScheme(codecSecure(c), u.scheme), label \o <<".">> \o c.base, c.port, PathOf(u))
        /\ shimEncode(c, v) = IF c.mode # "subdomain" \/ IPv6(u.host) \/ Len(label) > MaxLabel THEN pathForm(v)
                              ELSE URL(gatewayScheme(codecSecure(c), u.scheme), label \o <<".">> \o c.base, c.port, PathOf(v))
    BY <1>1, <1>2 DEF shimEncode
  <1> HIDE DEF label
  <1>6. shimEncode(c, v).host = shimEncode(c, u).host
    BY <1>3, <1>4, <1>5
  <1>7. QED BY <1>6 DEF v

-----------------------------------------------------------------------------
(* Pages, and what is written on them *)

\* A label and the base make a name under the base.
LEMMA LabelUnder ==
  ASSUME NEW s \in Settings, NEW w \in Address, w.host # << >>
  PROVE  LET host == encodeLabel(w.host, EncodedPort(w), isTLSScheme(w.scheme)) \o <<".">> \o s.base
         IN  host \in Name /\ Under(host, s.base) /\ host # << >>
  <1> DEFINE label == encodeLabel(w.host, EncodedPort(w), isTLSScheme(w.scheme))
  <1> DEFINE host == label \o <<".">> \o s.base
  <1>1. label \in Name /\ label # << >> /\ s.base \in Name
    <2>1. w.host \in Name /\ EncodedPort(w) \in Ports \cup {""} /\ isTLSScheme(w.scheme) \in BOOLEAN /\ s.base \in Name
      BY EncodedPortTyped, TLSTyped, BuildAssumption DEF Address
    <2>2. QED BY <2>1, LabelFilled
  <1> HIDE DEF label
  <1>2. Under(host, s.base) /\ host \in Name
    BY <1>1, LabelCutOff
  <1>3. Len(host) > Len(s.base) + 1 /\ Len(s.base) \in Nat
    BY <1>1, <1>2, LenProperties DEF Under, Name
  <1>4. host # << >>
    <2> HIDE DEF host
    <2>1. Len(<< >>) = 0
      OBVIOUS
    <2>2. QED BY <1>3, <2>1
  <1>5. QED BY <1>2, <1>4 DEF label

\* The name a page bears: the portal's, its target's label's, or its own.
LEMMA PageHost ==
  ASSUME NEW s \in Settings, NEW page \in Address, page.host # << >>
  PROVE  LET at == PageAt(s, page)
             named == encodeLabel(page.host, EncodedPort(page), isTLSScheme(page.scheme)) \o <<".">> \o s.base
         IN  \/ at.host = PortalAt(s).host
             \/ s.mode = "subdomain" /\ isGatewayHost(CodecOf(s), page.host) /\ at.host = page.host
             \/ s.mode = "subdomain" /\ at.host = named
  <1> DEFINE at == PageAt(s, page)
  <1> DEFINE named == encodeLabel(page.host, EncodedPort(page), isTLSScheme(page.scheme)) \o <<".">> \o s.base
  <1>1. \A p : [PortalAt(s) EXCEPT !.path = p].host = PortalAt(s).host
    BY PortalAtTyped, Repathed, URLParts
  <1>2. \/ \E p : at = [PortalAt(s) EXCEPT !.path = p]
        \/ s.mode = "subdomain" /\ isGatewayHost(CodecOf(s), page.host) /\ at = page
        \/ s.mode = "subdomain" /\ \E a, p : at = URL(a, named, s.port, p)
    <2> HIDE DEF at
    <2>1. \/ at = [PortalAt(s) EXCEPT !.path = PlainPath(page)]
          \/ \E ref \in WRDEncode(page) : at = [PortalAt(s) EXCEPT !.path = ref.path]
          \/ s.mode = "subdomain" /\ isGatewayHost(CodecOf(s), page.host) /\ at = page
          \/ s.mode = "subdomain" /\ at = URL(gatewayScheme(codecSecure(CodecOf(s)), page.scheme), named, s.port, PathOf(page))
      BY PageForms DEF at
    <2> HIDE DEF named
    <2>2. QED BY <2>1, Zenon
  <1>3. \A a, p : URL(a, named, s.port, p).host = named
    BY DEF URL
  <1> HIDE DEF at, named
  <1>4. ASSUME NEW p, at = [PortalAt(s) EXCEPT !.path = p] PROVE at.host = PortalAt(s).host
    BY <1>1, <1>4, Zenon
  <1>5. ASSUME NEW a, NEW p, at = URL(a, named, s.port, p) PROVE at.host = named
    BY <1>3, <1>5, Zenon
  <1>6. \/ at.host = PortalAt(s).host
        \/ s.mode = "subdomain" /\ isGatewayHost(CodecOf(s), page.host) /\ at.host = page.host
        \/ s.mode = "subdomain" /\ at.host = named
    BY <1>2, <1>4, <1>5
  <1>7. QED BY <1>6 DEF at, named

\* The shim takes no target for the gateway but one that bears its name.
LEMMA ShimSeesTarget ==
  ASSUME NEW s \in Settings, NEW src \in Sources, ~Inside(s, src.want), src.want.host # PortalAt(s).host
  PROVE  ~shimGatewayHost(CodecOf(s), src.want.host, PageAt(s, src.page))
  <1> DEFINE c == CodecOf(s)
  <1> DEFINE page == src.page
  <1> DEFINE host == src.want.host
  <1> DEFINE at == PageAt(s, page)
  <1> DEFINE named == encodeLabel(page.host, EncodedPort(page), isTLSScheme(page.scheme)) \o <<".">> \o s.base
  <1>1. page \in Address /\ page.host # << >> /\ host \in Name
    BY SourceTyped DEF Address
  <1>2. named \in Name /\ Under(named, s.base)
    BY <1>1, LabelUnder
  <1>3. \/ at.host = PortalAt(s).host
        \/ s.mode = "subdomain" /\ isGatewayHost(CodecOf(s), page.host) /\ at.host = page.host
        \/ s.mode = "subdomain" /\ at.host = named
    BY <1>1, PageHost
  <1>4. s.mode = "subdomain" => ~isGatewayHost(c, host)
    BY DEF Inside
  <1>5. s.mode = "subdomain" => host # s.base /\ ~Under(host, s.base)
    BY <1>1, <1>4, UnderIsGateway
  <1> HIDE DEF at, named, page
  <1>6. host # at.host
    BY <1>2, <1>3, <1>4, <1>5
  <1>7. c.mode = "subdomain" => s.mode = "subdomain" /\ c.base = s.base
    BY SettingsMode
  <1>8. ~shimGatewayHost(c, host, at)
    BY <1>5, <1>6, <1>7 DEF shimGatewayHost
  <1>9. QED BY <1>8 DEF at, page

\* The site of what is meant is that of what is wanted.
LEMMA MeantSite ==
  ASSUME NEW src \in Sources
  PROVE  LET m == Meant(src)
         IN  /\ m \in Address /\ m.scheme = src.want.scheme /\ m.host = src.want.host /\ m.port = src.want.port
             /\ Upstream(m) /\ Upstream(src.want) /\ EncodedPort(m) = EncodedPort(src.want)
             /\ \E p \in Path : m = [src.want EXCEPT !.path = p]
  <1> DEFINE m == Meant(src)
  <1> DEFINE w == src.want
  <1>1. m \in Address /\ w \in Address /\ Upstream(w)
    BY MeantTyped, SourceTyped, RoutingAssumption DEF Upstream
  <1>2. m = w \/ \E p : m = [w EXCEPT !.path = p]
    BY DEF Meant
  <1>3. w = [w EXCEPT !.path = w.path]
    <2>1. w.scheme \in SchemeSupported
      BY <1>1 DEF Address
    <2>2. QED BY <1>1 DEF Address
  <1>4. PICK p : m = [w EXCEPT !.path = p]
    BY <1>2, <1>3
  <1> HIDE DEF m, w
  <1>5. m.scheme = w.scheme /\ m.host = w.host /\ m.port = w.port /\ m.path = p
    BY <1>1, <1>4, Repathed, URLParts
  <1>6. p \in Path
    BY <1>1, <1>5 DEF Address
  <1>7. Upstream(m) /\ EncodedPort(m) = EncodedPort(w)
    BY <1>1, <1>5 DEF Upstream, EncodedPort
  <1>8. QED BY <1>1, <1>4, <1>5, <1>6, <1>7 DEF m, w

LEMMA MeantFits ==
  ASSUME NEW s \in Settings, NEW src \in Sources, ~Excepted(s, src)
  PROVE  Fit(s, Meant(src)) /\ ~Inside(s, src.want)
  <1>1. Upstream(Meant(src)) /\ Meant(src).host = src.want.host
    BY MeantSite
  <1>2. ~Inside(s, src.want) /\ (s.mode = "subdomain" => Sayable(Meant(src)) /\ ~Taken(PathOf(Meant(src))))
    BY DEF Excepted
  <1>3. ~Inside(s, Meant(src))
    BY <1>1, <1>2 DEF Inside
  <1>4. QED BY <1>1, <1>2, <1>3 DEF Fit

\* What the browser follows to an address with a path is what it asks for.
LEMMA WrittenAsFollowed ==
  ASSUME NEW s \in Settings, NEW src \in Sources, Followed(s, src).path # << >>
  PROVE  Written(s, src) = Followed(s, src)
  <1> DEFINE u == Followed(s, src)
  <1>1. u \in Address /\ PathOf(u) = u.path
    BY FollowedTyped DEF PathOf
  <1>2. Written(s, src) = [u EXCEPT !.path = PathOf(u)]
    BY DEF Written
  <1> HIDE DEF u
  <1>3. [u EXCEPT !.path = u.path] = u
    BY <1>1 DEF Address
  <1>4. QED BY <1>1, <1>2, <1>3 DEF u

LEMMA LinkLeads ==
  ASSUME NEW s \in Settings, NEW w \in Address, Fit(s, w), NEW at \in Address
  PROVE  Leads(s, Resolve(Ref(CodecOf(s), w), at), w)
  <1>1. w.host # << >> /\ ~Inside(s, w)
    BY DEF Fit, Upstream
  <1>2. Ref(CodecOf(s), w) \in Encode(codecSecure(CodecOf(s)), w)
    BY <1>1, EncodedSomehow
  <1>3. QED BY <1>2, EncodedLeads

\* The shim leaves what the server has written alone, but under wrd.
LEMMA WrittenIsKept ==
  ASSUME NEW s \in Settings, s.mode # "wrd", NEW w \in Address, w.host # << >>, ~Inside(s, w), NEW page, NEW at
  PROVE  rewrite(CodecOf(s), Ref(CodecOf(s), w), page, at) = Ref(CodecOf(s), w)
  <1> DEFINE c == CodecOf(s)
  <1> DEFINE ref == Ref(c, w)
  <1> DEFINE host == encodeLabel(w.host, EncodedPort(w), isTLSScheme(w.scheme)) \o <<".">> \o s.base
  <1>1. ref \in Encode(codecSecure(c), w)
    BY EncodedSomehow
  <1>2. ref \in PlainEncode(w) \/ (s.mode = "subdomain" /\ \E a, p : ref = URL(a, host, s.port, p))
    <2> DEFINE secure == codecSecure(c)
    <2> DEFINE address == URL(gatewayScheme(secure, w.scheme), host, s.port, PathOf(w))
    <2>1. \/ Encode(secure, w) = PlainEncode(w)
          \/ s.mode = "wrd"
          \/ s.mode = "subdomain" /\ Encode(secure, w) = {address}
      BY EncodeForms
    <2>2. ref \in Encode(secure, w)
      BY <1>1
    <2> HIDE DEF address, secure, ref
    <2>3. ref \in PlainEncode(w) \/ (s.mode = "subdomain" /\ ref = address)
      BY <2>1, <2>2
    <2>4. QED BY <2>3, Zenon DEF address
  <1>3. CASE ref \in PlainEncode(w)
    <2>1. ref.host = << >> /\ PlainMatch(ref.path)
      BY <1>3, PlainPathParts, PathRefParts
    <2>2. QED BY <2>1 DEF rewrite
  <1>4. ASSUME s.mode = "subdomain", NEW a, NEW p, ref = URL(a, host, s.port, p)
        PROVE  rewrite(c, ref, page, at) = ref
    <2>1. host # << >> /\ Under(host, s.base)
      BY LabelUnder
    <2>2. c.mode = "subdomain" /\ c.base = s.base
      BY <1>4, SettingsMode
    <2> HIDE DEF host, ref, c
    <2>3. ref.host = host
      BY <1>4 DEF URL
    <2>4. Resolve(ref, refBase(page, at)) = ref
      BY <2>1, <2>3 DEF Resolve
    <2>5. shimGatewayHost(c, ref.host, at)
      BY <2>1, <2>2, <2>3 DEF shimGatewayHost
    <2>6. QED BY <2>2, <2>4, <2>5, <2>1, <2>3 DEF rewrite
  <1>5. QED BY <1>2, <1>3, <1>4

\* The shim writes the address of a target it takes for one.
LEMMA ShimWrites ==
  ASSUME NEW c, NEW u, u.host # << >>, NEW page, NEW at, ~shimGatewayHost(c, u.host, at)
  PROVE  rewrite(c, u, page, at) = shimEncode(c, u)
  <1>1. Resolve(u, refBase(page, at)) = u
    BY DEF Resolve
  <1>2. QED BY <1>1 DEF rewrite

\* A relative reference is measured from the page, but under wrd.
LEMMA MeasuredFromPage ==
  ASSUME NEW s \in Settings, NEW src \in Sources, s.mode # "wrd", ~Inside(s, src.page)
  PROVE  refBase(src.page, PageAt(s, src.page)) = [src.page EXCEPT !.path = PathOf(src.page)]
  <1> DEFINE page == src.page
  <1> DEFINE at == PageAt(s, page)
  <1>1. page \in Address /\ page.host # << >> /\ ~HasPort(page.host)
    BY SourceTyped
  <1>2. CASE PlainMatch(at.path)
    <2>1. at.path = PlainPath(page) /\ Len(at.path) > 3 /\ Len(at.path) \in Nat
      <3>1. at.path = PlainPath(page)
        BY <1>2, PagePath
      <3>2. PlainPath(page) \in Path
        BY <1>1, PlainPathParts
      <3>3. QED BY <1>1, <3>1, <3>2, PlainPathParts, LenProperties DEF Path
    <2> HIDE DEF at, page
    <2>2. PlainDecode(at.path) = {[page EXCEPT !.path = PathOf(page)]}
      BY <1>1, <2>1, PlainComesBack
    <2>3. Len(at.path) > 2
      BY <2>1
    <2>4. refBase(page, at) = [page EXCEPT !.path = PathOf(page)]
      BY <1>2, <2>2, <2>3 DEF refBase
    <2>5. QED BY <2>4 DEF at, page
  <1>3. CASE ~PlainMatch(at.path)
    <2>1. at.path = PathOf(page)
      <3> DEFINE label == encodeLabel(page.host, EncodedPort(page), isTLSScheme(page.scheme))
      <3>1. \/ at = [PortalAt(s) EXCEPT !.path = PlainPath(page)]
            \/ s.mode = "wrd"
            \/ s.mode = "subdomain" /\ isGatewayHost(CodecOf(s), page.host)
            \/ at = URL(gatewayScheme(codecSecure(CodecOf(s)), page.scheme), label \o <<".">> \o s.base, s.port, PathOf(page))
        BY <1>1, PageForms
      <3>2. ~(s.mode = "subdomain" /\ isGatewayHost(CodecOf(s), page.host))
        BY DEF Inside
      <3>3. at # [PortalAt(s) EXCEPT !.path = PlainPath(page)]
        <4>1. [PortalAt(s) EXCEPT !.path = PlainPath(page)].path = PlainPath(page)
          BY PortalAtTyped, Repathed, URLParts
        <4>2. PlainMatch(PlainPath(page))
          BY <1>1, PlainPathParts
        <4> HIDE DEF at, page
        <4>3. QED BY <1>3, <4>1, <4>2
      <3>4. at = URL(gatewayScheme(codecSecure(CodecOf(s)), page.scheme), label \o <<".">> \o s.base, s.port, PathOf(page))
        BY <3>1, <3>2, <3>3
      <3> HIDE DEF at, page, label
      <3>5. QED BY <3>4 DEF URL
    <2> HIDE DEF at, page
    <2>2. refBase(page, at) = [page EXCEPT !.path = PathOf(page)]
      BY <1>3, <2>1 DEF refBase
    <2>3. QED BY <2>2 DEF at, page
  <1>4. QED BY <1>2, <1>3

\* What a relative reference comes to is what is meant by it.
LEMMA RelativeIsMeant ==
  ASSUME NEW s \in Settings, NEW src \in Sources, s.mode # "wrd", ~Inside(s, src.want), src.kind = "relative"
  PROVE  [refBase(src.page, PageAt(s, src.page)) EXCEPT
            !.path = (IF @ = << >> THEN << >> ELSE Front(@)) \o src.want.path] = Meant(src)
  <1> DEFINE page == src.page
  <1> DEFINE w == src.want
  <1> DEFINE base == refBase(page, PageAt(s, page))
  <1>1. page \in Address /\ w \in Address /\ page.path \in Path /\ w.path \in Path
    BY SourceTyped DEF Address
  <1>2. w.scheme = page.scheme /\ w.host = page.host /\ w.port = page.port
    <2>1. [w EXCEPT !.path = << >>] = [page EXCEPT !.path = << >>]
      BY RoutingAssumption
    <2>2. URL(w.scheme, w.host, w.port, << >>) = URL(page.scheme, page.host, page.port, << >>)
      BY <1>1, <2>1, Repathed
    <2> HIDE DEF w, page
    <2>3. QED BY <2>2 DEF URL
  <1>3. base = [page EXCEPT !.path = PathOf(page)]
    BY <1>2, MeasuredFromPage DEF Inside
  <1>4. Meant(src) = [w EXCEPT !.path = Front(page.path) \o w.path]
    <2>1. \A p : [w EXCEPT !.path = p \o @] = [w EXCEPT !.path = p \o w.path]
      BY <1>1 DEF Address
    <2>2. QED BY <2>1 DEF Meant
  <1> HIDE DEF page, w, base
  <1>5. base = URL(page.scheme, page.host, page.port, PathOf(page)) /\ base.path = PathOf(page) /\ base \in Address
    BY <1>1, <1>3, PathOfTyped, Repathed, URLParts
  <1>6. Front(PathOf(page)) = Front(page.path)
    <2>1. CASE page.path = << >>
      <3>1. PathOf(page) = Root /\ Len(Root) = 1 /\ Len(<< >>) = 0
        BY <2>1 DEF PathOf, Root
      <3>2. Front(Root) = << >>
        BY <3>1, Tokens, SubSeqEmpty DEF Front, Path
      <3>3. Front(<< >>) = << >>
        <4>1. << >> \in Seq(Name) /\ 1 \in Int /\ 0 - 1 \in Int /\ 0 - 1 < 1
          BY EmptySeq
        <4>2. SubSeq(<< >>, 1, 0 - 1) = << >>
          BY <4>1, SubSeqEmpty
        <4>3. QED BY <3>1, <4>2 DEF Front
      <3>4. QED BY <2>1, <3>1, <3>2, <3>3
    <2>2. CASE page.path # << >>
      BY <2>2 DEF PathOf
    <2>3. QED BY <2>1, <2>2
  <1> DEFINE joined == (IF base.path = << >> THEN << >> ELSE Front(base.path)) \o w.path
  <1>7. [base EXCEPT !.path = (IF @ = << >> THEN << >> ELSE Front(@)) \o w.path] = [base EXCEPT !.path = joined]
    BY <1>5 DEF Address
  <1>8. joined = Front(page.path) \o w.path
    BY <1>1, <1>5, <1>6, PathOfTyped
  <1> HIDE DEF joined
  <1>9. [base EXCEPT !.path = joined] = URL(page.scheme, page.host, page.port, joined)
    BY <1>5, Repathed, URLParts
  <1>10. Meant(src) = URL(page.scheme, page.host, page.port, joined)
    <2>1. Meant(src) = [w EXCEPT !.path = joined]
      BY <1>4, <1>8, Zenon
    <2>2. Meant(src) = URL(w.scheme, w.host, w.port, joined)
      BY <1>1, <2>1, Repathed
    <2>3. QED BY <1>2, <2>2
  <1>11. QED BY <1>7, <1>9, <1>10 DEF base, page, w

\* What the server or the shim writes for a target leads to it.
LEMMA WrittenLeads ==
  ASSUME NEW s \in Settings, NEW src \in Sources, ~Excepted(s, src),
         src.kind \in {"link", "typed", "shim", "relative", "again"}
  PROVE  Leads(s, Written(s, src), Meant(src))
  <1> DEFINE c == CodecOf(s)
  <1> DEFINE at == PageAt(s, src.page)
  <1> DEFINE m == Meant(src)
  <1>1. at \in Address /\ PortalAt(s) \in Address /\ m \in Address /\ src.want \in Address
    BY SourceTyped, PageAtTyped, PortalAtTyped, MeantTyped
  <1>2. Fit(s, m) /\ ~Inside(s, src.want) /\ m.host = src.want.host /\ src.want.host # << >>
    BY MeantFits, MeantSite DEF Upstream
  <1>3. s.mode # "wrd" \/ src.kind \notin {"relative", "again"}
    BY DEF Excepted, Remeasured
  <1>4. src.kind \in {"shim", "relative"} =>
          /\ src.want.host # PortalAt(s).host /\ shimEncode(c, src.want).host # PortalAt(s).host
          /\ ~shimGatewayHost(c, src.want.host, at)
    <2>1. src.kind \in {"shim", "relative"} => src.want.host # PortalAt(s).host /\ shimEncode(c, src.want).host # PortalAt(s).host
      BY DEF Excepted, OnPortal
    <2>2. QED BY <1>2, <2>1, ShimSeesTarget
  <1>5. Leads(s, Followed(s, src), m)
    <2>1. CASE src.kind = "link"
      <3>1. Followed(s, src) = Resolve(Ref(c, m), at) /\ m = src.want
        BY <2>1 DEF Followed, Meant
      <3> HIDE DEF m, at
      <3>2. QED BY <1>1, <1>2, <3>1, LinkLeads
    <2>2. CASE src.kind = "typed"
      <3>1. Followed(s, src) = Resolve(Ref(c, m), PortalAt(s)) /\ m = src.want
        BY <2>2 DEF Followed, Meant
      <3> HIDE DEF m, at
      <3>2. QED BY <1>1, <1>2, <3>1, LinkLeads
    <2>3. CASE src.kind = "shim"
      <3>1. Followed(s, src) = Resolve(rewrite(c, m, src.page, at), at) /\ m = src.want
        BY <2>3 DEF Followed, Meant
      <3> HIDE DEF m, at, c
      <3>2. rewrite(c, m, src.page, at) = shimEncode(c, m)
        BY <1>2, <1>4, <2>3, <3>1, ShimWrites
      <3>3. Leads(s, Resolve(shimEncode(c, m), at), m)
        BY <1>1, <1>2, <1>4, <2>3, <3>1, ShimLeads DEF c
      <3>4. QED BY <3>1, <3>2, <3>3
    <2>4. CASE src.kind = "relative"
      <3> DEFINE ref == [refBase(src.page, at) EXCEPT !.path = (IF @ = << >> THEN << >> ELSE Front(@)) \o src.want.path]
      <3>1. Followed(s, src) = Resolve(rewrite(c, ref, src.page, at), at)
        BY <2>4 DEF Followed
      <3>2. ref = m
        BY <1>2, <1>3, <2>4, RelativeIsMeant
      <3>3. PICK p \in Path : m = [src.want EXCEPT !.path = p]
        BY MeantSite
      <3>4. shimEncode(c, m).host = shimEncode(c, src.want).host
        BY <1>1, <3>3, ShimHost
      <3> HIDE DEF m, at, c, ref
      <3>5. rewrite(c, m, src.page, at) = shimEncode(c, m)
        BY <1>2, <1>4, <2>4, ShimWrites
      <3>6. Leads(s, Resolve(shimEncode(c, m), at), m)
        BY <1>1, <1>2, <1>4, <2>4, <3>4, ShimLeads DEF c
      <3>7. QED BY <3>1, <3>2, <3>5, <3>6
    <2>5. CASE src.kind = "again"
      <3>1. Followed(s, src) = Resolve(rewrite(c, Ref(c, m), src.page, at), at) /\ m = src.want
        BY <2>5 DEF Followed, Meant
      <3> HIDE DEF m, at
      <3>2. rewrite(c, Ref(c, m), src.page, at) = Ref(c, m)
        BY <1>1, <1>2, <1>3, <2>5, <3>1, WrittenIsKept
      <3>3. QED BY <1>1, <1>2, <3>1, <3>2, LinkLeads
    <2>6. QED BY <2>1, <2>2, <2>3, <2>4, <2>5
  <1>6. Written(s, src) = Followed(s, src)
    BY <1>5, WrittenAsFollowed DEF Leads
  <1>7. QED BY <1>5, <1>6

-----------------------------------------------------------------------------
(* Paths behind location.origin *)

\* A path of the page's own is of the page's site.
LEMMA SamePlace ==
  ASSUME NEW src \in Sources, src.kind \in {"relative", "origin"}
  PROVE  src.want.scheme = src.page.scheme /\ src.want.host = src.page.host /\ src.want.port = src.page.port
  <1> DEFINE page == src.page
  <1> DEFINE w == src.want
  <1>1. [w EXCEPT !.path = << >>] = [page EXCEPT !.path = << >>]
    BY RoutingAssumption
  <1>2. URL(w.scheme, w.host, w.port, << >>) = URL(page.scheme, page.host, page.port, << >>)
    <2>1. w \in Address /\ page \in Address
      BY SourceTyped
    <2>2. \A u \in Address : [u EXCEPT !.path = << >>] = URL(u.scheme, u.host, u.port, << >>)
      BY Repathed
    <2>3. QED BY <1>1, <2>1, <2>2, Zenon
  <1> HIDE DEF w, page
  <1>3. w.scheme = page.scheme /\ w.host = page.host /\ w.port = page.port
    BY <1>2 DEF URL
  <1>4. QED BY <1>3 DEF w, page

\* A page whose target is in the path of its address is named by that path.
LEMMA PageNamed ==
  ASSUME NEW s \in Settings, NEW src \in Sources, InPath(s, src.page), ~Inside(s, src.page)
  PROVE  LET at == PageAt(s, src.page)
             port == IF s.mode = "wrd" THEN EncodedPort(src.page) ELSE src.page.port
             v == URL(src.page.scheme, src.page.host, port, PathOf(src.page))
         IN  /\ at.host = PortalAt(s).host
             /\ decode(CodecOf(s), at.host, at.path) = {v} /\ v \in Address /\ Agrees(v, src.page)
  <1> DEFINE page == src.page
  <1> DEFINE at == PageAt(s, page)
  <1> DEFINE port == IF s.mode = "wrd" THEN EncodedPort(page) ELSE page.port
  <1> DEFINE v == URL(page.scheme, page.host, port, PathOf(page))
  <1> DEFINE label == encodeLabel(page.host, EncodedPort(page), isTLSScheme(page.scheme))
  <1>1. page \in Address /\ page.host # << >> /\ ~HasPort(page.host) /\ page.port \notin BadPorts /\ ~PlainMatch(page.path)
    BY SourceTyped, RoutingAssumption
  <1>2. page.scheme \in SchemeSupported /\ port \in {EncodedPort(page), page.port} /\ (isTLSScheme(page.scheme) <=> isTLSScheme(page.scheme))
    BY <1>1 DEF Address
  <1>3. v \in Address /\ Agrees(v, page)
    <2> HIDE DEF port, page
    <2>1. QED BY <1>1, <1>2, SameTarget
  <1>4. ~PlainMatch(PathOf(page))
    <2>1. CASE page.path = << >>
      <3>1. PathOf(page) = Root /\ Len(Root) = 1
        BY <2>1 DEF PathOf, Root
      <3>2. QED BY <3>1 DEF PlainMatch
    <2>2. QED BY <1>1, <2>1 DEF PathOf
  <1>5. \A p : [PortalAt(s) EXCEPT !.path = p].host = PortalAt(s).host /\ [PortalAt(s) EXCEPT !.path = p].path = p
    BY PortalAtTyped, Repathed, URLParts
  <1>6. \/ at = [PortalAt(s) EXCEPT !.path = PlainPath(page)]
        \/ s.mode = "wrd" /\ \E ref \in WRDEncode(page) : at = [PortalAt(s) EXCEPT !.path = ref.path] /\ ~PlainMatch(ref.path)
    <2> HIDE DEF page, at, label
    <2>1. \/ at = [PortalAt(s) EXCEPT !.path = PlainPath(page)]
          \/ s.mode = "wrd" /\ \E ref \in WRDEncode(page) : at = [PortalAt(s) EXCEPT !.path = ref.path] /\ ~PlainMatch(ref.path)
          \/ s.mode = "subdomain" /\ isGatewayHost(CodecOf(s), page.host)
          \/ s.mode = "subdomain" /\ at = URL(gatewayScheme(codecSecure(CodecOf(s)), page.scheme), label \o <<".">> \o s.base, s.port, PathOf(page))
      BY <1>1, PageForms DEF at, label
    <2>2. ~(s.mode = "subdomain" /\ isGatewayHost(CodecOf(s), page.host))
      BY DEF Inside, page
    <2>3. s.mode = "subdomain" => PlainMatch(at.path)
      BY DEF InPath, at, page
    <2>4. \A a, b, d : URL(a, b, d, PathOf(page)).path = PathOf(page)
      BY DEF URL
    <2>5. QED BY <1>4, <2>1, <2>2, <2>3, <2>4
  <1>7. CASE at = [PortalAt(s) EXCEPT !.path = PlainPath(page)] /\ s.mode # "wrd"
    <2>1. at.host = PortalAt(s).host /\ at.path = PlainPath(page)
      BY <1>5, <1>7
    <2>2. PlainMatch(PlainPath(page)) /\ PlainDecode(PlainPath(page)) = {[page EXCEPT !.path = PathOf(page)]}
      BY <1>1, PlainPathParts, PlainComesBack
    <2>3. [page EXCEPT !.path = PathOf(page)] = URL(page.scheme, page.host, page.port, PathOf(page))
      BY <1>1, Repathed
    <2>4. port = page.port
      BY <1>7
    <2> HIDE DEF at, page, port
    <2>5. decode(CodecOf(s), at.host, at.path) = {v}
      BY <2>1, <2>2, <2>3, <2>4 DEF decode
    <2>6. QED BY <1>3, <2>1, <2>5 DEF at, page, port
  <1>8. CASE s.mode = "wrd"
    <2>1. PICK ref \in WRDEncode(page) : at = [PortalAt(s) EXCEPT !.path = ref.path]
      <3>1. PageAt(s, page) = Resolve(Ref(CodecOf(s), page), PortalAt(s))
        BY DEF PageAt
      <3>2. CodecOf(s).mode = "wrd" /\ codecSecure(CodecOf(s)).mode = "wrd"
        BY <1>8, SettingsMode
      <3>3. Encode(codecSecure(CodecOf(s)), page) = WRDEncode(page) /\ WRDEncode(page) # {}
        BY <3>2 DEF Encode, WRDEncode
      <3>4. Ref(CodecOf(s), page) \in WRDEncode(page)
        BY <3>3 DEF Ref
      <3>5. Ref(CodecOf(s), page).host = << >>
        BY <1>1, <3>4, WRDPathIsNotPlain
      <3>6. at = [PortalAt(s) EXCEPT !.path = Ref(CodecOf(s), page).path]
        BY <3>1, <3>5 DEF Resolve
      <3>7. QED BY <3>4, <3>6
    <2>2. at.host = PortalAt(s).host /\ at.path = ref.path
      BY <1>5, <2>1
    <2>3. ref.path # << >> /\ ~PlainMatch(ref.path) /\ WRDDecode(ref.path) = {URL(page.scheme, page.host, EncodedPort(page), PathOf(page))}
      BY <1>1, <2>1, WRDTarget
    <2>4. port = EncodedPort(page) /\ CodecOf(s).mode = "wrd"
      BY <1>8, SettingsMode
    <2> HIDE DEF at, page, port
    <2>5. decode(CodecOf(s), at.host, at.path) = {v}
      BY <2>2, <2>3, <2>4 DEF decode, Decode
    <2>6. QED BY <1>3, <2>2, <2>5 DEF at, page, port
  <1>9. QED BY <1>6, <1>7, <1>8

\* A path behind location.origin, no codec's and no route of the gateway's, that
\* has to be attributed to the page it is of.
Astray(s, a, src) ==
    /\ src.kind = "origin" /\ InPath(s, src.page)
    /\ a \in Address /\ a.path = src.want.path /\ a.path \notin {<< >>} \cup PortalPaths /\ ~PlainMatch(a.path)
    /\ ~Ours(s, a) /\ ~Match(CodecOf(s), a.host, a.path)
    /\ src.referer \/ src.trail = {src.page}

LEMMA OriginLeads ==
  ASSUME NEW s \in Settings, NEW src \in Sources, ~Excepted(s, src), src.kind = "origin"
  PROVE  Leads(s, Written(s, src), Meant(src)) \/ Astray(s, Written(s, src), src)
  <1> DEFINE c == CodecOf(s)
  <1> DEFINE at == PageAt(s, src.page)
  <1> DEFINE w == src.want
  <1> DEFINE page == src.page
  <1> DEFINE a == [at EXCEPT !.path = PathOf(w)]
  <1>1. at \in Address /\ w \in Address /\ page \in Address /\ PathOf(w) \in Path /\ PathOf(w) # << >> /\ w.path \in Path
    BY SourceTyped, PageAtTyped, PathOfTyped DEF Address
  <1>2. w.scheme = page.scheme /\ w.host = page.host /\ w.port = page.port /\ EncodedPort(w) = EncodedPort(page) /\ w.host # << >>
    <2>1. w.scheme = page.scheme /\ w.host = page.host /\ w.port = page.port /\ page.host # << >>
      BY SamePlace, SourceTyped
    <2>2. QED BY <2>1 DEF EncodedPort
  <1>3. Meant(src) = w /\ Fit(s, w) /\ ~Inside(s, w) /\ ~Inside(s, page)
    <2>1. Meant(src) = w
      BY DEF Meant
    <2>2. QED BY <1>2, <2>1, MeantFits DEF Inside
  <1>4. Followed(s, src) = a /\ a \in Address /\ a.path = PathOf(w) /\ a.host = at.host /\ a.scheme = at.scheme /\ a.port = at.port
    <2>1. Followed(s, src) = a
      BY DEF Followed
    <2>2. QED BY <1>1, <2>1, Repathed, URLParts
  <1>5. Written(s, src) = a
    BY <1>1, <1>4, WrittenAsFollowed
  <1>6. CASE InPath(s, page)
    <2>1. /\ w.path \notin {<< >>} \cup PortalPaths /\ ~Taken(w.path) /\ w.path[1] \notin OwnPages /\ ~WRDMatch(w.path)
          /\ src.referer \/ src.trail = {src.page}
      BY <1>6 DEF Excepted, Misses, PathOf, PortalPaths
    <2>2. a.path = w.path
      BY <1>4, <2>1 DEF PathOf
    <2>3. at.host = PortalAt(s).host
      BY <1>3, <1>6, PageNamed
    <2>4. ~PlainMatch(a.path) /\ ~Ours(s, a)
      <3> HIDE DEF a, w
      <3>1. ~PlainMatch(a.path)
        BY <2>1, <2>2 DEF Taken, PlainMatch
      <3>2. ~Ours(s, a)
        BY <2>1, <2>2 DEF Taken, Ours
      <3>3. QED BY <3>1, <3>2
    <2>5. ~Match(c, a.host, a.path)
      <3>1. s.mode = "subdomain" => c.portal = a.host
        BY <1>4, <2>3, PortalParts, SettingsMode
      <3>2. c \in AnyCodec /\ (c.mode = "subdomain" <=> s.mode = "subdomain")
        BY SettingsMode
      <3> HIDE DEF a, c, w
      <3>3. CASE c.mode = "subdomain"
        BY <3>1, <3>2, <3>3 DEF Match, HostMatch
      <3>4. CASE c.mode # "subdomain"
        BY <2>1, <2>2, <2>4, <3>2, <3>4, Modes DEF Match
      <3>5. QED BY <3>3, <3>4
    <2> HIDE DEF a, c, w, at
    <2>6. Astray(s, a, src)
      BY <1>4, <1>6, <2>1, <2>2, <2>4, <2>5 DEF Astray, w, page, c
    <2>7. QED BY <1>5, <2>6
  <1>7. CASE ~InPath(s, page)
    <2> DEFINE secure == codecSecure(c)
    <2> DEFINE label == encodeLabel(w.host, EncodedPort(w), isTLSScheme(w.scheme))
    <2> DEFINE host == label \o <<".">> \o s.base
    <2> DEFINE ref == URL(gatewayScheme(secure, w.scheme), host, s.port, PathOf(w))
    <2> DEFINE own == URL(gatewayScheme(secure, w.scheme), host, s.port, PathOf(page))
    <2>1. s.mode = "subdomain" /\ ~PlainMatch(at.path)
      BY <1>7 DEF InPath
    <2>2. Ref(c, page) \in Encode(secure, page)
      BY <1>1, <1>2, <1>3, EncodedSomehow
    <2>3. at = Resolve(Ref(c, page), PortalAt(s))
      BY DEF PageAt
    <2>4. Ref(c, page) \notin PlainEncode(page)
      <3> SUFFICES ASSUME Ref(c, page) \in PlainEncode(page) PROVE FALSE
        OBVIOUS
      <3> DEFINE r == Ref(c, page)
      <3>1. r = PathRef(PlainPath(page)) /\ PlainMatch(PlainPath(page)) /\ PlainPath(page) \in Path
        BY <1>1, PlainPathParts
      <3>2. r.host = << >> /\ r.path = PlainPath(page)
        BY <3>1, PathRefParts
      <3>3. at.path = PlainPath(page)
        BY <2>3, <3>1, <3>2, PortalAtTyped, FollowedHere
      <3>4. QED BY <2>1, <3>1, <3>3
    <2>5. /\ ~IPv6(w.host) /\ ~(Len(label) > MaxLabel) /\ host # PortalHost(s)
          /\ Encode(secure, page) = {own}
      <3> HIDE DEF label, page
      <3>1. \/ Encode(secure, page) = PlainEncode(page)
            \/ s.mode = "wrd"
            \/ /\ s.mode = "subdomain" /\ label \o <<".">> \o s.base # PortalHost(s)
               /\ ~IPv6(page.host) /\ ~(Len(label) > MaxLabel)
               /\ Encode(secure, page) = {URL(gatewayScheme(secure, page.scheme), label \o <<".">> \o s.base, s.port, PathOf(page))}
        BY <1>1, <1>2, <1>3, EncodeForms DEF label
      <3>2. QED BY <1>2, <2>1, <2>2, <2>4, <3>1
    <2>6. Encode(secure, w) = {ref}
      <3> HIDE DEF label
      <3>1. \/ IPv6(w.host) \/ Len(label) > MaxLabel \/ label \o <<".">> \o s.base = PortalHost(s)
            \/ s.mode = "wrd"
            \/ Encode(secure, w) = {ref}
        BY <1>1, <1>2, <1>3, <2>1, EncodeForms DEF label
      <3>2. QED BY <2>1, <2>5, <3>1
    <2>7. host # << >>
      BY <1>1, <1>2, LabelUnder
    <2> DEFINE scheme == gatewayScheme(secure, w.scheme)
    <2>8. at = own /\ Resolve(ref, at) = ref
      <3> HIDE DEF host, scheme, secure, w, page, at, c
      <3>1. Ref(c, page) = own
        BY <2>2, <2>5 DEF scheme
      <3>2. own.host = host /\ ref.host = host
        <4>1. \A x : URL(scheme, host, s.port, x).host = host
          BY URLParts
        <4>2. QED BY <4>1 DEF scheme
      <3>3. QED BY <2>3, <2>7, <3>1, <3>2 DEF Resolve
    <2>9. a = ref
      <3>1. a = URL(at.scheme, at.host, at.port, PathOf(w))
        BY <1>1, Repathed
      <3>2. at.scheme = scheme /\ at.host = host /\ at.port = s.port
        <4> HIDE DEF host, scheme, w, page, at
        <4>1. at = URL(scheme, host, s.port, PathOf(page))
          BY <2>8 DEF scheme
        <4>2. QED BY <4>1, URLParts
      <3> HIDE DEF host, w, page, at, a, secure
      <3>3. QED BY <3>1, <3>2
    <2>10. Leads(s, Resolve(ref, at), w)
      <3>1. ref \in Encode(codecSecure(CodecOf(s)), w)
        BY <2>6
      <3> HIDE DEF ref, at, w
      <3>2. QED BY <1>1, <1>3, <3>1, EncodedLeads
    <2> HIDE DEF ref, at, w, a
    <2>11. QED BY <1>3, <1>5, <2>8, <2>9, <2>10
  <1>8. QED BY <1>6, <1>7

-----------------------------------------------------------------------------
(* Addresses with the gateway folded in *)

\* The base path a script puts its pathname behind.
Base == << <<"d">> >>
\* The target of a folded address: the pathname of the page is still the
\* gateway's, which names the target once more.
Wrapped(s, src, v) ==
    LET carried == PageAt(s, src.want).path
    IN  /\ v \in Address /\ src.kind = "folded"
        /\ PathRef(carried) \in Encode(codecSecure(CodecOf(s)), src.want)
        /\ v.host = src.want.host /\ httpScheme(v.scheme) = httpScheme(src.want.scheme)
        /\ v.port = (IF s.mode = "wrd" THEN EncodedPort(src.want) ELSE src.want.port)
        /\ v.path = Base \o carried

LeadsWrapped(s, a, src) ==
    /\ a \in Address /\ a.path # << >> /\ ~Ours(s, a)
    /\ PlainMatch(a.path) \/ Match(CodecOf(s), a.host, a.path)
    /\ \E v \in Address : decode(CodecOf(s), a.host, a.path) = {v} /\ Wrapped(s, src, v)

\* What is put behind the base begins with it.
LEMMA BehindBase ==
  ASSUME NEW p \in Path
  PROVE  LET q == Base \o p
         IN  q \in Path /\ q # << >> /\ q[1] = <<"d">> /\ ~Taken(q) /\ From(q, 2) = p /\ Len(q) = Len(p) + 1
  <1> DEFINE q == Base \o p
  <1>1. Base \in Seq(Name) /\ Len(Base) = 1 /\ Base[1] = <<"d">> /\ p \in Seq(Name) /\ Len(p) \in Nat
    <2>1. <<"d">> \in Name
      BY BuildAssumption, Singles DEF Name
    <2>2. QED BY <2>1, Singles, LenProperties DEF Base, Path
  <1>2. /\ q \in Seq(Name) /\ Len(q) = Len(Base) + Len(p)
        /\ \A k \in 1..(Len(Base) + Len(p)) : q[k] = IF k <= Len(Base) THEN Base[k] ELSE p[k - Len(Base)]
    BY <1>1, ConcatProperties
  <1>3. 1 \in 1..(Len(Base) + Len(p)) /\ 1 <= Len(Base)
    BY <1>1
  <1> HIDE DEF q
  <1>4. q[1] = <<"d">> /\ q # << >>
    <2>1. Len(<< >>) = 0
      OBVIOUS
    <2>2. QED BY <1>1, <1>2, <1>3, <2>1
  <1>5. ~Taken(q)
    <2>1. <<"d">> # PlainPrefix /\ <<"d">> # <<"_wv">>
      BY DEF PlainPrefix
    <2>2. QED BY <1>4, <2>1 DEF Taken
  <1>6. From(q, 2) = p
    <2> DEFINE n == Len(p)
    <2>1. CASE n = 0
      <3>1. p = << >>
        BY <1>1, <2>1, EmptySeq
      <3>2. Len(q) = 1
        BY <1>1, <1>2, <2>1
      <3>3. SubSeq(q, 2, 1) = << >>
        BY <1>2, SubSeqEmpty
      <3>4. QED BY <3>1, <3>2, <3>3 DEF From
    <2>2. CASE n # 0
      <3>1. 2 \in Len(Base) + 1..Len(Base) + n /\ 1 + n \in Len(Base) + 1..Len(Base) + n /\ 2 - Len(Base) = 1 /\ (1 + n) - Len(Base) = n
        BY <1>1, <2>2
      <3>2. SubSeq(Base \o p, 2, 1 + n) = SubSeq(p, 2 - Len(Base), (1 + n) - Len(Base))
        BY <1>1, <3>1, SubSeqOfConcat2
      <3>3. SubSeq(p, 1, n) = p
        BY <1>1, SubSeqFull
      <3>4. QED BY <1>1, <1>2, <3>1, <3>2, <3>3 DEF From, q
    <2>3. QED BY <2>1, <2>2
  <1>7. QED BY <1>1, <1>2, <1>4, <1>5, <1>6 DEF q, Path

LEMMA FoldedLeads ==
  ASSUME NEW s \in Settings, NEW src \in Sources, ~Excepted(s, src), src.kind = "folded"
  PROVE  Leads(s, Written(s, src), Meant(src)) \/ LeadsWrapped(s, Written(s, src), src)
  <1> DEFINE c == CodecOf(s)
  <1> DEFINE secure == codecSecure(c)
  <1> DEFINE w == src.want
  <1> DEFINE at == PageAt(s, src.page)
  <1> DEFINE carried == PageAt(s, w).path
  <1> DEFINE x == [w EXCEPT !.path = Base \o carried]
  <1> DEFINE a == Resolve(Ref(c, x), at)
  <1>1. w \in Address /\ at \in Address /\ carried \in Path /\ PortalAt(s) \in Address
    BY SourceTyped, PageAtTyped, PortalAtTyped DEF Address
  <1>2. /\ x \in Address /\ x.scheme = w.scheme /\ x.host = w.host /\ x.port = w.port /\ x.path = Base \o carried
        /\ x.path # << >> /\ ~Taken(x.path) /\ PathOf(x) = x.path /\ EncodedPort(x) = EncodedPort(w)
    <2>1. Base \o carried \in Path /\ Base \o carried # << >> /\ ~Taken(Base \o carried)
      BY <1>1, BehindBase
    <2>2. x \in Address /\ x.scheme = w.scheme /\ x.host = w.host /\ x.port = w.port /\ x.path = Base \o carried
      <3> DEFINE p == Base \o carried
      <3>1. x = [w EXCEPT !.path = p] /\ p \in Path
        BY <2>1
      <3> HIDE DEF w, p, x
      <3>2. x = URL(w.scheme, w.host, w.port, p) /\ x \in Address
        BY <1>1, <3>1, Repathed
      <3>3. x.scheme = w.scheme /\ x.host = w.host /\ x.port = w.port /\ x.path = p
        BY <3>2, URLParts
      <3>4. QED BY <3>2, <3>3 DEF p
    <2> HIDE DEF x, w
    <2>3. QED BY <2>1, <2>2 DEF PathOf, EncodedPort
  <1> HIDE DEF x
  <1>3. Fit(s, Meant(src)) /\ ~Inside(s, w) /\ Upstream(w) /\ Meant(src).host = w.host
        /\ EncodedPort(Meant(src)) = EncodedPort(w) /\ Meant(src).scheme = w.scheme
    BY MeantFits, MeantSite
  <1>4. Fit(s, x) /\ ~Inside(s, x) /\ Upstream(x) /\ w.host # << >> /\ x.host # << >>
    <2> HIDE DEF w
    <2>1. Upstream(x) /\ ~Inside(s, x)
      BY <1>2, <1>3 DEF Upstream, Inside
    <2>2. Sayable(x) <=> Sayable(Meant(src))
      BY <1>2, <1>3 DEF Sayable, Wart, Rooted, Improper
    <2>3. Fit(s, x)
      BY <1>2, <1>3, <2>1, <2>2 DEF Fit
    <2>4. QED BY <1>3, <2>1, <2>3 DEF Upstream
  <1>5. Followed(s, src) = a /\ Meant(src) = [w EXCEPT !.path = Base \o PathOf(w)]
    BY DEF Followed, Meant, x, Base
  <1>6. Leads(s, a, x)
    BY <1>1, <1>2, <1>4, LinkLeads
  <1>7. Written(s, src) = a
    <2>1. a.path # << >>
      BY <1>6 DEF Leads
    <2>2. QED BY <1>5, <2>1, WrittenAsFollowed
  <1>8. Ref(c, x) \in Encode(secure, x) /\ Ref(c, w) \in Encode(secure, w)
    BY <1>1, <1>2, <1>3, <1>4, EncodedSomehow
  <1>9. PageAt(s, w) = Resolve(Ref(c, w), PortalAt(s))
    BY DEF PageAt
  <1> DEFINE label == encodeLabel(w.host, EncodedPort(w), isTLSScheme(w.scheme))
  <1> DEFINE host == label \o <<".">> \o s.base
  <1> DEFINE unsaid == IPv6(w.host) \/ Len(label) > MaxLabel \/ host = PortalHost(s)
  <1>10. /\ \/ Encode(secure, w) = PlainEncode(w) /\ s.mode # "wrd" /\ (s.mode = "subdomain" => unsaid)
            \/ Encode(secure, w) = WRDEncode(w) /\ s.mode = "wrd"
            \/ s.mode = "subdomain" /\ ~unsaid /\ Encode(secure, w) = {URL(gatewayScheme(secure, w.scheme), host, s.port, PathOf(w))}
         /\ \/ Encode(secure, x) = PlainEncode(x) /\ s.mode # "wrd"
            \/ Encode(secure, x) = WRDEncode(x) /\ s.mode = "wrd"
            \/ s.mode = "subdomain" /\ ~unsaid
    <2>1. /\ \/ Encode(secure, w) = PlainEncode(w) /\ s.mode # "wrd" /\ (s.mode = "subdomain" => unsaid)
             \/ Encode(secure, w) = WRDEncode(w) /\ s.mode = "wrd"
             \/ s.mode = "subdomain" /\ ~unsaid /\ Encode(secure, w) = {URL(gatewayScheme(secure, w.scheme), host, s.port, PathOf(w))}
      BY <1>1, <1>3, <1>4, EncodeForms
    <2>2. \/ Encode(secure, x) = PlainEncode(x) /\ s.mode # "wrd"
          \/ Encode(secure, x) = WRDEncode(x) /\ s.mode = "wrd"
          \/ /\ s.mode = "subdomain" /\ encodeLabel(x.host, EncodedPort(x), isTLSScheme(x.scheme)) \o <<".">> \o s.base # PortalHost(s)
             /\ ~IPv6(x.host) /\ ~(Len(encodeLabel(x.host, EncodedPort(x), isTLSScheme(x.scheme))) > MaxLabel)
      BY <1>2, <1>4, EncodeForms
    <2>3. QED BY <1>2, <2>1, <2>2
  <1> HIDE DEF unsaid
  <1>11. \A v \in Address : (decode(c, a.host, a.path) = {v} /\ Wrapped(s, src, v)) => LeadsWrapped(s, a, src)
    BY <1>6 DEF Leads, LeadsWrapped
  <1>12. CASE Encode(secure, w) = PlainEncode(w) /\ Encode(secure, x) = PlainEncode(x) /\ s.mode # "wrd"
    <2>1. Ref(c, w) = PathRef(PlainPath(w)) /\ PlainPath(w) \in Path /\ Ref(c, x) = PathRef(PlainPath(x)) /\ PlainPath(x) \in Path
          /\ PlainMatch(PlainPath(x))
      BY <1>1, <1>2, <1>8, <1>12, PlainPathParts
    <2>2. carried = PlainPath(w)
      BY <1>1, <1>9, <2>1, PathRefParts, FollowedHere
    <2>3. a.path = PlainPath(x)
      BY <1>1, <2>1, PathRefParts, FollowedHere
    <2>4. PlainDecode(PlainPath(x)) = {x}
      <3>1. PlainDecode(PlainPath(x)) = {[x EXCEPT !.path = PathOf(x)]}
        BY <1>2, <1>4, PlainComesBack DEF Upstream
      <3>2. [x EXCEPT !.path = x.path] = x
        BY <1>2 DEF Address
      <3>3. QED BY <1>2, <3>1, <3>2
    <2>5. decode(c, a.host, a.path) = {x}
      BY <2>1, <2>3, <2>4 DEF decode
    <2>6. PathRef(carried) \in Encode(secure, w)
      BY <1>8, <2>1, <2>2
    <2>7. Wrapped(s, src, x)
      <3> HIDE DEF secure
      <3>1. QED BY <1>2, <1>12, <2>6 DEF Wrapped, secure
    <2> HIDE DEF a, c
    <2>8. QED BY <1>2, <1>7, <1>11, <2>5, <2>7
  <1>13. CASE Encode(secure, w) = WRDEncode(w) /\ Encode(secure, x) = WRDEncode(x) /\ s.mode = "wrd"
    <2> DEFINE v == URL(x.scheme, x.host, EncodedPort(x), x.path)
    <2>1. \A u \in Address : \A ref \in WRDEncode(u) : ref.host = << >> /\ ref.path \in Path /\ ref = PathRef(ref.path)
      <3> SUFFICES ASSUME NEW u \in Address, NEW ref \in WRDEncode(u) PROVE ref.host = << >> /\ ref.path \in Path /\ ref = PathRef(ref.path)
        OBVIOUS
      <3>1. PICK p \in Path \ {<< >>} : WRDEncode(u) = {PathRef(p)}
        BY WRDEncodeTyped
      <3>2. ref = PathRef(p)
        BY <3>1
      <3>3. QED BY <3>2, PathRefParts
    <2>2. PathRef(carried) = Ref(c, w)
      <3>1. Ref(c, w) \in WRDEncode(w)
        BY <1>8, <1>13
      <3>2. Ref(c, w).host = << >> /\ Ref(c, w).path \in Path /\ Ref(c, w) = PathRef(Ref(c, w).path)
        BY <1>1, <2>1, <3>1
      <3>3. carried = Ref(c, w).path
        BY <1>1, <1>9, <3>2, FollowedHere
      <3>4. QED BY <3>2, <3>3
    <2>3. /\ Ref(c, x).host = << >> /\ Ref(c, x).path \in Path /\ a.path = Ref(c, x).path
          /\ ~PlainMatch(a.path) /\ a.path # << >> /\ WRDDecode(a.path) = {v}
      <3>1. Ref(c, x) \in WRDEncode(x)
        BY <1>8, <1>13
      <3>2. Ref(c, x).host = << >> /\ Ref(c, x).path \in Path
        BY <1>2, <2>1, <3>1
      <3>3. a.path = Ref(c, x).path
        BY <1>1, <3>2, FollowedHere
      <3>4. x.port \notin BadPorts
        BY <1>4 DEF Upstream
      <3> HIDE DEF a
      <3>5. QED BY <1>2, <1>4, <3>1, <3>2, <3>3, <3>4, WRDTarget
    <2>4. decode(c, a.host, a.path) = {v}
      <3>1. c.mode = "wrd"
        BY <1>13, SettingsMode
      <3> HIDE DEF a, c, v
      <3>2. QED BY <2>3, <3>1 DEF decode, Decode
    <2>5. v \in Address /\ v.scheme = w.scheme /\ v.host = w.host /\ v.port = EncodedPort(w) /\ v.path = Base \o carried
      <3>1. v.scheme = x.scheme /\ v.host = x.host /\ v.port = EncodedPort(x) /\ v.path = x.path
        BY URLParts
      <3>2. c \in AnyCodec /\ a.host \in Name /\ a.path \in Path
        BY <1>6, SettingsMode DEF Leads, Address
      <3>3. v \in Address
        <4> HIDE DEF v, a, c
        <4>1. QED BY <2>4, <3>2, DecodeTyped
      <3>4. QED BY <1>2, <3>1, <3>3
    <2>6. PathRef(carried) \in Encode(secure, w)
      BY <1>8, <2>2
    <2>7. Wrapped(s, src, v)
      <3> HIDE DEF secure, v
      <3>1. QED BY <1>13, <2>5, <2>6 DEF Wrapped, secure
    <2> HIDE DEF a, c, v
    <2>8. QED BY <1>7, <1>11, <2>4, <2>5, <2>7
  <1>14. CASE s.mode = "subdomain" /\ Encode(secure, w) = {URL(gatewayScheme(secure, w.scheme), host, s.port, PathOf(w))}
    <2> DEFINE scheme == gatewayScheme(secure, w.scheme)
    <2>1. Ref(c, w) = URL(scheme, host, s.port, PathOf(w))
      BY <1>8, <1>14
    <2>2. host # << >>
      BY <1>1, <1>4, LabelUnder
    <2> HIDE DEF host, scheme, c
    <2>3. Ref(c, w).host = host /\ Ref(c, w).path = PathOf(w)
      BY <2>1, URLParts
    <2>4. carried = PathOf(w)
      BY <1>9, <2>2, <2>3 DEF Resolve
    <2>5. x = Meant(src)
      BY <1>5, <2>4 DEF x
    <2>6. QED BY <1>6, <1>7, <2>5
  <1>15. QED BY <1>10, <1>12, <1>13, <1>14

\* unwrapTarget leaves a target with nothing folded into it alone.
LEMMA UnwrapsNothing ==
  ASSUME NEW c, NEW u, Folded(c, u) = {}
  PROVE  unwrapTarget(c, u) = u
  <1>1. Splice(c, u) = u
    BY DEF Splice
  <1>2. QED BY <1>1 DEF unwrapTarget

\* What does not name itself again does not however its port is written.
LEMMA NothingFolded ==
  ASSUME NEW s, NEW t \in Address, NEW m \in Address, Agrees(t, m), ~Nested(s, m)
  PROVE  Folded(CodecOf(s), t) = {}
  <1> DEFINE c == CodecOf(s)
  <1> DEFINE n == [m EXCEPT !.port = t.port]
  <1>1. t.host = m.host /\ PathOf(t) = PathOf(m) /\ t.port \in {m.port, EncodedPort(m)}
    BY AgreesParts
  <1>2. Folded(c, n) = {}
    BY <1>1 DEF Nested
  <1>3. n.host = m.host /\ n.port = t.port /\ n.path = m.path
    BY DEF Address
  <1> HIDE DEF n, c
  <1>4. CASE t.path = n.path
    <2>1. HostPort(n) = HostPort(t)
      BY <1>1, <1>3 DEF HostPort
    <2>2. Folded(c, t) = Folded(c, n)
      BY <1>1, <1>3, <1>4, <2>1 DEF Folded
    <2>3. QED BY <1>2, <2>2 DEF c
  <1>5. CASE t.path # n.path
    <2>1. t.path \in {<< >>, Root}
      BY <1>1, <1>3, <1>5 DEF PathOf
    <2>2. Len(t.path) <= 1 /\ Len(t.path) \in Nat
      <3>1. Len(<< >>) = 0 /\ Len(Root) = 1
        BY DEF Root
      <3>2. Len(t.path) \in {0, 1}
        BY <2>1, <3>1, Zenon
      <3>3. \A k \in {0, 1} : k <= 1 /\ k \in Nat
        OBVIOUS
      <3>4. QED BY <3>2, <3>3, Zenon
    <2>3. 2..Len(t.path) = {}
      BY <2>2
    <2>4. QED BY <2>3 DEF Folded, c
  <1>6. QED BY <1>4, <1>5

\* The pathname names the target again.
LEMMA CarriedNames ==
  ASSUME NEW s \in Settings, NEW w \in Address, Upstream(w), ~Inside(s, w), NEW carried \in Path,
         PathRef(carried) \in Encode(codecSecure(CodecOf(s)), w), NEW host
  PROVE  LET port == IF s.mode = "wrd" THEN EncodedPort(w) ELSE w.port
         IN  /\ decode(CodecOf(s), host, carried) = {URL(w.scheme, w.host, port, PathOf(w))}
             /\ Len(carried) > 0
  <1> DEFINE secure == codecSecure(CodecOf(s))
  <1> DEFINE port == IF s.mode = "wrd" THEN EncodedPort(w) ELSE w.port
  <1> DEFINE name == encodeLabel(w.host, EncodedPort(w), isTLSScheme(w.scheme)) \o <<".">> \o s.base
  <1> DEFINE address == URL(gatewayScheme(secure, w.scheme), name, s.port, PathOf(w))
  <1>1. w.host # << >> /\ ~HasPort(w.host) /\ w.port \notin BadPorts
    BY DEF Upstream
  <1>2. PathRef(carried).host = << >> /\ PathRef(carried).path = carried
    BY PathRefParts
  <1>3. carried # << >> => Len(carried) > 0
    BY EmptySeq, LenProperties DEF Path
  <1>4. \/ Encode(secure, w) = PlainEncode(w) /\ s.mode # "wrd"
        \/ Encode(secure, w) = WRDEncode(w) /\ s.mode = "wrd"
        \/ Encode(secure, w) = {address}
    BY <1>1, EncodeForms
  <1>5. address.host = name /\ name # << >>
    <2>1. name # << >>
      BY <1>1, LabelUnder
    <2> HIDE DEF name
    <2>2. address.host = name
      BY DEF URL
    <2>3. QED BY <2>1, <2>2
  <1> HIDE DEF address, name
  <1>6. CASE Encode(secure, w) = PlainEncode(w) /\ s.mode # "wrd"
    <2>1. PathRef(carried) = PathRef(PlainPath(w)) /\ PlainMatch(PlainPath(w)) /\ PlainDecode(PlainPath(w)) = {[w EXCEPT !.path = PathOf(w)]}
      BY <1>1, <1>6, PlainPathParts, PlainComesBack
    <2>2. carried = PlainPath(w)
      BY <1>2, <2>1, PathRefParts
    <2>3. [w EXCEPT !.path = PathOf(w)] = URL(w.scheme, w.host, w.port, PathOf(w)) /\ port = w.port
      BY <1>6, Repathed
    <2>4. carried # << >>
      BY <2>1, <2>2 DEF PlainMatch
    <2> HIDE DEF port
    <2>5. decode(CodecOf(s), host, carried) = {URL(w.scheme, w.host, port, PathOf(w))}
      BY <2>1, <2>2, <2>3 DEF decode
    <2>6. QED BY <1>3, <2>4, <2>5 DEF port
  <1>7. CASE Encode(secure, w) = WRDEncode(w) /\ s.mode = "wrd"
    <2>1. ~PlainMatch(carried) /\ carried # << >> /\ WRDDecode(carried) = {URL(w.scheme, w.host, EncodedPort(w), PathOf(w))}
      <3>1. PathRef(carried) \in WRDEncode(w)
        BY <1>7
      <3>2. ~PlainMatch(PathRef(carried).path) /\ PathRef(carried).path # << >>
            /\ WRDDecode(PathRef(carried).path) = {URL(w.scheme, w.host, EncodedPort(w), PathOf(w))}
        BY <1>1, <3>1, WRDTarget
      <3>3. QED BY <1>2, <3>2
    <2>2. port = EncodedPort(w) /\ CodecOf(s).mode = "wrd"
      BY <1>7, SettingsMode
    <2> HIDE DEF port
    <2>3. decode(CodecOf(s), host, carried) = {URL(w.scheme, w.host, port, PathOf(w))}
      BY <2>1, <2>2 DEF decode, Decode
    <2>4. QED BY <1>3, <2>1, <2>3 DEF port
  <1>8. CASE Encode(secure, w) = {address}
    BY <1>2, <1>5, <1>8
  <1>9. QED BY <1>4, <1>6, <1>7, <1>8

\* unwrapTarget takes the gateway's part out of a folded address, under any codec
\* that reads it as the one it was written under.
LEMMA UnwrapsUnder ==
  ASSUME NEW s \in Settings, NEW src \in Sources, ~Excepted(s, src), NEW t, Wrapped(s, src, t), NEW c,
         LET carried == PageAt(s, src.want).path
         IN  decode(c, t.host, carried) = decode(CodecOf(s), t.host, carried),
         \A f \in Address : Agrees(f, Meant(src)) => Folded(c, f) = {}
  PROVE  LET fix == unwrapTarget(c, t)
         IN  fix \in Address /\ Agrees(fix, Meant(src)) /\ fix # t
  <1> DEFINE w == src.want
  <1> DEFINE m == Meant(src)
  <1> DEFINE carried == PageAt(s, w).path
  <1> DEFINE port == IF s.mode = "wrd" THEN EncodedPort(w) ELSE w.port
  <1> DEFINE v == URL(w.scheme, w.host, port, PathOf(w))
  <1> DEFINE fix == URL(t.scheme, m.host, t.port, PathOf(m))
  <1>1. w \in Address /\ m \in Address /\ carried \in Path /\ PathOf(w) \in Path
    BY SourceTyped, PageAtTyped, MeantTyped, PathOfTyped DEF Address
  <1>2. /\ m.scheme = w.scheme /\ m.host = w.host /\ m.port = w.port /\ EncodedPort(m) = EncodedPort(w)
        /\ Upstream(w) /\ ~Inside(s, w) /\ ~Nested(s, m)
    BY MeantSite, MeantFits DEF Excepted
  <1>3. /\ t \in Address /\ t.host = w.host /\ httpScheme(t.scheme) = httpScheme(w.scheme)
        /\ t.port = port /\ t.path = Base \o carried /\ src.kind = "folded"
        /\ PathRef(carried) \in Encode(codecSecure(CodecOf(s)), w)
    BY DEF Wrapped
  <1>4. decode(c, t.host, carried) = {v} /\ Len(carried) > 0
    <2>1. decode(CodecOf(s), t.host, carried) = {v} /\ Len(carried) > 0
      BY <1>1, <1>2, <1>3, CarriedNames
    <2> HIDE DEF v
    <2>2. QED BY <2>1
  <1>5. v.host = w.host /\ v.port = port /\ v.path = PathOf(w)
    BY URLParts
  <1>6. t.path \in Seq(Name) /\ From(t.path, 2) = carried /\ Len(t.path) = Len(carried) + 1 /\ Len(carried) \in Nat /\ t.path[1] = <<"d">>
    BY <1>1, <1>3, BehindBase, LenProperties DEF Path
  <1> HIDE DEF v, carried, port
  <1>7. 2 \in Folded(c, t)
    <2>1. HostPort(v) = HostPort(t)
      BY <1>3, <1>5 DEF HostPort
    <2>2. 2 \in 2..Len(t.path)
      BY <1>4, <1>6
    <2>3. \E inner \in decode(c, t.host, From(t.path, 2)) : HostPort(inner) = HostPort(t)
      BY <1>4, <1>6, <2>1
    <2>4. QED BY <2>2, <2>3 DEF Folded
  <1>8. Min(Folded(c, t)) = 2
    <2>1. Folded(c, t) \subseteq 2..Len(t.path) /\ 2..Len(t.path) \subseteq Nat /\ Folded(c, t) \subseteq Nat
      BY <1>6 DEF Folded
    <2> DEFINE i == Min(Folded(c, t))
    <2>2. i \in Folded(c, t) /\ \A y \in Folded(c, t) : i <= y
      BY <1>7, <2>1, LeastIsIn
    <2> HIDE DEF i
    <2>3. i \in 2..Len(t.path) /\ i <= 2
      BY <1>7, <2>1, <2>2
    <2>4. i = 2
      BY <2>3, <1>6
    <2>5. QED BY <2>4 DEF i
  <1>9. m.path = Base \o PathOf(w) /\ PathOf(m) = m.path
    <2> DEFINE p == Base \o PathOf(w)
    <2>1. m = [w EXCEPT !.path = p]
      BY <1>3 DEF Meant, Base
    <2>2. p # << >>
      BY <1>1, BehindBase
    <2> HIDE DEF p, w, m
    <2>3. m.path = p
      BY <1>1, <2>1, Repathed, URLParts
    <2>4. QED BY <2>2, <2>3 DEF p, PathOf
  <1>10. Splice(c, t) = fix
    <2>1. (CHOOSE x \in decode(c, t.host, From(t.path, 2)) : TRUE) = v
      BY <1>4, <1>6
    <2>2. Splice(c, t) = [t EXCEPT !.path = SubSeq(t.path, 1, Min(Folded(c, t)) - 1)
             \o (CHOOSE x \in decode(c, t.host, From(t.path, Min(Folded(c, t)))) : TRUE).path]
      BY <1>7 DEF Splice
    <2>3. Splice(c, t) = [t EXCEPT !.path = SubSeq(t.path, 1, 2 - 1) \o PathOf(w)]
      BY <1>5, <1>8, <2>1, <2>2
    <2>4. SubSeq(t.path, 1, 2 - 1) = Base
      <3>1. 2 - 1 = 1 /\ 1 <= Len(t.path) /\ 1 \in 1..Len(t.path) /\ 1 - 1 + 1 = 1 /\ 1 \in Int /\ Len(t.path) \in Nat
        BY <1>6
      <3>2. \A k \in 1..1 : t.path[k] \in Name
        BY <1>6, <3>1, Element
      <3>3. SubSeq(t.path, 1, 1) \in Seq(Name) /\ Len(SubSeq(t.path, 1, 1)) = 1 /\ SubSeq(t.path, 1, 1)[1] = t.path[1]
        <4>1. 1 <= 1 /\ 1 \in 1..(1 - 1 + 1) /\ 1 + 1 - 1 = 1
          OBVIOUS
        <4>2. SubSeq(t.path, 1, 1) \in Seq(Name) /\ Len(SubSeq(t.path, 1, 1)) = 1
          BY <1>6, <3>1, <3>2, SubSeqProperties
        <4>3. SubSeq(t.path, 1, 1)[1] = t.path[1 + 1 - 1]
          BY <1>6, <3>1, <3>2, <4>1, SubSeqProperties
        <4>4. QED BY <4>1, <4>2, <4>3
      <3>4. Base \in Seq(Name) /\ Len(Base) = 1 /\ Base[1] = t.path[1]
        <4>1. <<"d">> \in Name
          BY <1>6, <3>1, <3>2
        <4>2. QED BY <1>6, <4>1, Singles DEF Base
      <3>5. SubSeq(t.path, 1, 1) = Base
        BY <3>3, <3>4, SeqEqual
      <3>6. QED BY <3>1, <3>5
    <2>5. Splice(c, t) = [t EXCEPT !.path = m.path]
      BY <1>9, <2>3, <2>4
    <2>6. [t EXCEPT !.path = m.path] = URL(t.scheme, t.host, t.port, m.path)
      <3>1. \A u \in Address : \A p : [u EXCEPT !.path = p] = URL(u.scheme, u.host, u.port, p)
        BY Repathed
      <3>2. QED BY <1>3, <3>1, Zenon
    <2>7. QED BY <1>2, <1>3, <1>9, <2>5, <2>6
  <1>11. fix \in Address /\ Agrees(fix, m)
    <2>1. t.scheme \in SchemeSupported /\ (isTLSScheme(t.scheme) <=> isTLSScheme(m.scheme))
      <3>1. t.scheme \in SchemeSupported /\ w.scheme \in SchemeSupported
        BY <1>1, <1>3 DEF Address
      <3>2. QED BY <1>2, <1>3, <3>1 DEF httpScheme, isTLSScheme, SchemeSupported
    <2>2. t.port \in {EncodedPort(m), m.port}
      BY <1>2, <1>3 DEF port
    <2> HIDE DEF m
    <2>3. QED BY <1>1, <2>1, <2>2, SameTarget
  <1> HIDE DEF fix, m, w
  <1>12. Folded(c, fix) = {}
    BY <1>11 DEF m
  <1>13. unwrapTarget(c, t) = fix
    <2>1. Splice(c, fix) = fix
      BY <1>12 DEF Splice
    <2>2. QED BY <1>10, <2>1 DEF unwrapTarget
  <1>14. fix # t
    BY <1>7, <1>12
  <1>15. QED BY <1>11, <1>13, <1>14 DEF m

LEMMA WrappedUnwraps ==
  ASSUME NEW s \in Settings, NEW src \in Sources, ~Excepted(s, src), NEW t, Wrapped(s, src, t)
  PROVE  LET fix == unwrapTarget(CodecOf(s), t)
         IN  fix \in Address /\ Agrees(fix, Meant(src)) /\ fix # t
  <1>1. Meant(src) \in Address /\ ~Nested(s, Meant(src))
    BY MeantTyped DEF Excepted
  <1>2. \A f \in Address : Agrees(f, Meant(src)) => Folded(CodecOf(s), f) = {}
    BY <1>1, NothingFolded
  <1>3. QED BY <1>2, UnwrapsUnder

\* A target a request for src may be sent to under s, once it is found there is
\* nothing folded into it, and an address of the gateway that names one.
Sent(s, src, t) == Agrees(t, Meant(src)) \/ Wrapped(s, src, t)
Named(s, a, src) == Leads(s, a, Meant(src)) \/ LeadsWrapped(s, a, src)

LEMMA NamedTarget ==
  ASSUME NEW s \in Settings, NEW src \in Sources, NEW a \in Address, Named(s, a, src)
  PROVE  /\ a.path # << >> /\ ~Ours(s, a) /\ (PlainMatch(a.path) \/ Match(CodecOf(s), a.host, a.path))
         /\ \E v \in Address : /\ decode(CodecOf(s), a.host, a.path) = {v}
                               /\ Sent(s, src, [v EXCEPT !.scheme = httpScheme(@)])
  <1> DEFINE m == Meant(src)
  <1>1. m \in Address
    BY MeantTyped
  <1>2. a.path # << >> /\ ~Ours(s, a) /\ (PlainMatch(a.path) \/ Match(CodecOf(s), a.host, a.path))
    BY DEF Named, Leads, LeadsWrapped
  <1>3. PICK v \in Address : decode(CodecOf(s), a.host, a.path) = {v} /\ (Agrees(v, m) \/ Wrapped(s, src, v))
    BY DEF Named, Leads, LeadsWrapped
  <1> DEFINE t == [v EXCEPT !.scheme = httpScheme(@)]
  <1>4. /\ t \in Address /\ t.host = v.host /\ t.port = v.port /\ t.path = v.path
        /\ httpScheme(t.scheme) = httpScheme(v.scheme) /\ Agrees(t, v)
    BY AgreesOverHTTP
  <1> HIDE DEF t
  <1>5. CASE Agrees(v, m)
    <2>1. Agrees(t, m)
      BY <1>1, <1>4, <1>5, AgreesAgain
    <2>2. QED BY <1>2, <1>3, <2>1 DEF t, Sent
  <1>6. CASE Wrapped(s, src, v)
    <2>1. Wrapped(s, src, t)
      BY <1>4, <1>6 DEF Wrapped
    <2>2. QED BY <1>2, <1>3, <2>1 DEF t, Sent
  <1>7. QED BY <1>3, <1>5, <1>6

LEMMA SentUnwraps ==
  ASSUME NEW s \in Settings, NEW src \in Sources, ~Excepted(s, src), NEW t \in Address, Sent(s, src, t)
  PROVE  LET fix == unwrapTarget(CodecOf(s), t)
         IN  Agrees(fix, Meant(src))
  <1>1. Meant(src) \in Address /\ ~Nested(s, Meant(src))
    BY MeantTyped DEF Excepted
  <1>2. CASE Agrees(t, Meant(src))
    <2>1. Folded(CodecOf(s), t) = {}
      BY <1>1, <1>2, NothingFolded
    <2>2. QED BY <1>2, <2>1, UnwrapsNothing
  <1>3. CASE Wrapped(s, src, t)
    BY <1>3, WrappedUnwraps
  <1>4. QED BY <1>2, <1>3 DEF Sent

\* The redirect to what an address is meant for leads there.
LEMMA RedirectLeads ==
  ASSUME NEW s \in Settings, NEW src \in Sources, ~Excepted(s, src), NEW f \in Address, Agrees(f, Meant(src)), NEW at \in Address
  PROVE  LET refs == Encode(codecSecure(CodecOf(s)), f)
         IN  refs # {} /\ \A ref \in refs : Leads(s, Resolve(ref, at), Meant(src))
  <1> DEFINE m == Meant(src)
  <1>1. m \in Address /\ Fit(s, m)
    BY MeantTyped, MeantFits
  <1> HIDE DEF m
  <1>2. Fit(s, f)
    BY <1>1, FitAgrees DEF m
  <1>3. Encode(codecSecure(CodecOf(s)), f) # {}
    BY <1>2, EncodedSomehow DEF Fit, Upstream
  <1>4. ASSUME NEW ref \in Encode(codecSecure(CodecOf(s)), f) PROVE Leads(s, Resolve(ref, at), m)
    <2>1. Leads(s, Resolve(ref, at), f)
      BY <1>2, EncodedLeads
    <2>2. QED BY <1>1, <2>1, LeadsAgrees DEF m
  <1>5. QED BY <1>3, <1>4 DEF m

\* What strays is attributed to the page it is of.
LEMMA StrayFound ==
  ASSUME NEW s \in Settings, NEW src \in Sources, ~Excepted(s, src), NEW a, Astray(s, a, src)
  PROVE  LET refer == PageAt(s, src.page)
             named == IF src.referer THEN decode(CodecOf(s), refer.host, refer.path) ELSE {}
             base == IF named # {} THEN named ELSE src.trail
         IN  base # {} /\ \A b \in base : [b EXCEPT !.path = a.path] \in Address /\ Agrees([b EXCEPT !.path = a.path], Meant(src))
  <1> DEFINE page == src.page
  <1> DEFINE w == src.want
  <1> DEFINE refer == PageAt(s, page)
  <1> DEFINE named == IF src.referer THEN decode(CodecOf(s), refer.host, refer.path) ELSE {}
  <1> DEFINE base == IF named # {} THEN named ELSE src.trail
  <1>1. src.kind = "origin" /\ InPath(s, page) /\ a.path = w.path /\ (src.referer \/ src.trail = {page}) /\ w.path \in Path
    BY SourceTyped DEF Astray, Address
  <1>2. page \in Address /\ w \in Address /\ Meant(src) = w
    BY <1>1, SourceTyped DEF Meant
  <1>3. w = [page EXCEPT !.path = w.path]
    <2>1. w.scheme = page.scheme /\ w.host = page.host /\ w.port = page.port
      BY <1>1, SamePlace
    <2>2. \A u \in Address : \A p : [u EXCEPT !.path = p] = URL(u.scheme, u.host, u.port, p)
      BY Repathed
    <2>3. w = URL(w.scheme, w.host, w.port, w.path)
      BY <1>2 DEF URL, Address
    <2> HIDE DEF w, page
    <2>4. [page EXCEPT !.path = w.path] = URL(page.scheme, page.host, page.port, w.path)
      BY <1>2, <2>2, Zenon
    <2>5. w = URL(page.scheme, page.host, page.port, w.path)
      BY <2>1, <2>3, Zenon
    <2>6. QED BY <2>4, <2>5, Zenon
  <1>4. ~Inside(s, page)
    <2>1. page.host = w.host /\ ~Inside(s, w)
      BY <1>1, SamePlace DEF Excepted
    <2>2. QED BY <2>1 DEF Inside
  <1>5. base # {} /\ \A b \in base : b \in Address /\ Agrees(b, page)
    <2>1. PICK v \in Address : decode(CodecOf(s), refer.host, refer.path) = {v} /\ Agrees(v, page)
      BY <1>1, <1>4, PageNamed
    <2>2. Agrees(page, page)
      BY AgreesItself
    <2> HIDE DEF refer, page
    <2>3. QED BY <1>1, <1>2, <2>1, <2>2
  <1> HIDE DEF base
  <1>6. ASSUME NEW b \in base PROVE [b EXCEPT !.path = a.path] \in Address /\ Agrees([b EXCEPT !.path = a.path], Meant(src))
    <2>1. b \in Address /\ Agrees(b, page)
      BY <1>5
    <2> DEFINE p == w.path
    <2>2. p \in Path /\ a.path = p
      BY <1>1
    <2>3. w = [page EXCEPT !.path = p]
      BY <1>3
    <2> HIDE DEF p, w, page
    <2>4. Agrees([b EXCEPT !.path = p], [page EXCEPT !.path = p])
      BY <1>2, <2>1, <2>2, AgreesElsewhere
    <2>5. [b EXCEPT !.path = p] \in Address
      BY <2>1, <2>2, Repathed
    <2>6. QED BY <1>2, <2>2, <2>3, <2>4, <2>5
  <1>7. QED BY <1>5, <1>6 DEF base

\* Whatever kind of address it is, it names its target or strays.
LEMMA WrittenWell ==
  ASSUME NEW s \in Settings, NEW src \in Sources, ~Excepted(s, src), src.kind \notin {"portal", "own"}
  PROVE  Named(s, Written(s, src), src) \/ Astray(s, Written(s, src), src)
  <1>1. src.kind \in {"link", "typed", "shim", "relative", "again", "origin", "folded"}
    BY SourceTyped DEF Kinds
  <1>2. QED BY <1>1, WrittenLeads, OriginLeads, FoldedLeads DEF Named

-----------------------------------------------------------------------------
(* Requests on their way *)

\* Where a request for src is on its way, between the steps.
Way(s, src, at, a, t, f) ==
    \/ at = "arrive" /\ (Named(s, a, src) \/ Astray(s, a, src))
    \/ at = "match" /\ ~PlainMatch(a.path) /\ (Named(s, a, src) \/ Astray(s, a, src))
    \/ at = "decode" /\ ~PlainMatch(a.path) /\ Named(s, a, src)
    \/ at = "unwrap" /\ Sent(s, src, t)
    \/ at \in {"encode", "strayed"} /\ Agrees(f, Meant(src))
    \/ at = "stray" /\ Astray(s, a, src)
    \/ at \in {"rewrite", "restore", "site"} /\ Agrees(t, Meant(src))

\* The requests ReachesItsTarget is about.
Expected(s, src) == src.kind \notin {"portal", "own"} /\ ~Excepted(s, src)

WayInv ==
    /\ RoutingInv
    /\ Unedited
    /\ edits = 0 =>
         \A r \in Request : Expected(settings, source[r]) => Way(settings, source[r], pc[r], addr[r], target[r], fixed[r])

\* Until the console saves, a call is answered with the scheme in force.
LEMMA AnsweredInForce ==
  ASSUME Settings \subseteq DOMAIN Build, RoutingInv, Unedited, edits = 0, NEW r \in Request, Answered(r)
  PROVE  got[r] = CodecOf(settings)
  <1>1. r \in Caller /\ got[r] # NoCodec
    BY RoutingAssumption DEF Answered
  <1>2. PICK s \in during[r] : got[r] = Answer(s)
    BY <1>1 DEF RoutingInv, CacheInv, InForce
  <1>3. s = settings /\ settings \in Settings
    BY <1>1, <1>2 DEF Unedited, RoutingInv, CacheInv, CacheTypeOK
  <1>4. QED BY <1>2, <1>3, BuildAssumption DEF Answer

LEMMA WayInitInv == Init => WayInv
  <1> SUFFICES ASSUME Init PROVE WayInv
    OBVIOUS
  <1>1. RoutingInv
    BY RoutingInitInv
  <1>2. settings \in Settings /\ \A r \in Request : source[r] \in Sources /\ written[r] = settings /\ pc[r] = "arrive" /\ addr[r] = Written(settings, source[r])
    BY <1>1 DEF RoutingInv, CacheInv, CacheTypeOK, RouteTypeOK, Init
  <1>3. Unedited
    BY <1>2 DEF Unedited, Init, CacheInit
  <1>4. ASSUME NEW r \in Request, Expected(settings, source[r])
        PROVE  Way(settings, source[r], pc[r], addr[r], target[r], fixed[r])
    <2>1. Named(settings, addr[r], source[r]) \/ Astray(settings, addr[r], source[r])
      BY <1>2, <1>4, WrittenWell DEF Expected
    <2>2. QED BY <1>2, <2>1 DEF Way
  <1>5. QED BY <1>1, <1>3, <1>4 DEF WayInv

\* serveProxy takes the target an address names.
LEMMA ProxyOnItsWay ==
  ASSUME RouteTypeOK, settings \in Settings, NEW r \in Request, NEW a \in Address, Named(settings, a, source[r]),
         Proxy(r, decode(CodecOf(settings), a.host, a.path))
  PROVE  pc'[r] = "unwrap" /\ Sent(settings, source[r], target'[r])
  <1>1. source[r] \in Sources /\ pc \in [Request -> {"arrive", "match", "decode", "unwrap", "encode",
                           "stray", "strayed", "rewrite", "restore"} \cup Ends] /\ target \in [Request -> Address]
    BY DEF RouteTypeOK
  <1>2. PICK v \in Address : decode(CodecOf(settings), a.host, a.path) = {v} /\ Sent(settings, source[r], [v EXCEPT !.scheme = httpScheme(@)])
    BY <1>1, NamedTarget
  <1> DEFINE t == [v EXCEPT !.scheme = httpScheme(@)]
  <1>3. target' = [target EXCEPT ![r] = t] /\ Goto(r, "unwrap")
    BY <1>2 DEF Proxy
  <1> HIDE DEF t
  <1>4. target'[r] = t /\ pc'[r] = "unwrap"
    BY <1>1, <1>3 DEF Goto
  <1>5. QED BY <1>2, <1>4 DEF t

\* A step of a request takes it further on its way.
LEMMA ServeOnItsWay ==
  ASSUME Settings \subseteq DOMAIN Build, RoutingInv, Unedited, edits = 0, NEW r \in Request, Serve(r),
         Expected(settings, source[r]), Way(settings, source[r], pc[r], addr[r], target[r], fixed[r])
  PROVE  Way(settings, source[r], pc'[r], addr'[r], target'[r], fixed'[r])
  <1> DEFINE s == settings
  <1> DEFINE src == source[r]
  <1> DEFINE a == addr[r]
  <1> DEFINE c == CodecOf(settings)
  <1> DEFINE Steps == {"arrive", "match", "decode", "unwrap", "encode", "stray", "strayed", "rewrite", "restore"} \cup Ends
  <1>1. /\ s \in Settings /\ src \in Sources /\ a \in Address /\ target[r] \in Address /\ fixed[r] \in Address
        /\ RouteTypeOK /\ written[r] = settings
    BY DEF RoutingInv, CacheInv, CacheTypeOK, RouteTypeOK, Unedited
  <1>2. src.kind \notin {"portal", "own"} /\ ~Excepted(s, src)
    BY DEF Expected
  <1>3. Answered(r) => got[r] = c
    BY AnsweredInForce
  <1>4. \A where \in Steps : Goto(r, where) => pc'[r] = where
    BY <1>1 DEF Goto, RouteTypeOK
  <1>5. Named(s, a, src) => ~Ours(s, a) /\ a.path # << >> /\ (PlainMatch(a.path) \/ Match(c, a.host, a.path))
    BY <1>1, NamedTarget
  <1>6. Astray(s, a, src) => ~Ours(s, a) /\ ~PlainMatch(a.path) /\ ~Match(c, a.host, a.path) /\ a.path \notin PortalPaths
    BY DEF Astray
  <1>7. CASE Arrive(r)
    <2>1. pc[r] = "arrive" /\ addr' = addr /\ fixed' = fixed
      BY <1>7 DEF Arrive
    <2>2. Named(s, a, src) \/ Astray(s, a, src)
      BY <2>1 DEF Way
    <2>3. ~Ours(s, a)
      BY <1>5, <1>6, <2>2
    <2>4. CASE PlainMatch(a.path)
      <3>1. Named(s, a, src)
        BY <1>6, <2>2, <2>4
      <3>2. Proxy(r, PlainDecode(a.path)) /\ decode(c, a.host, a.path) = PlainDecode(a.path)
        BY <1>7, <2>3, <2>4 DEF Arrive, decode
      <3>3. pc'[r] = "unwrap" /\ Sent(s, src, target'[r])
        BY <1>1, <3>1, <3>2, ProxyOnItsWay
      <3>4. QED BY <3>3 DEF Way
    <2>5. CASE ~PlainMatch(a.path)
      <3>1. Goto(r, "match")
        BY <1>7, <2>3, <2>5 DEF Arrive
      <3>2. pc'[r] = "match"
        BY <1>4, <3>1
      <3>3. QED BY <2>1, <2>2, <2>5, <3>2 DEF Way
    <2>6. QED BY <2>4, <2>5
  <1>8. CASE Matched(r)
    <2>1. pc[r] = "match" /\ addr' = addr /\ target' = target /\ fixed' = fixed /\ got[r] = c
      BY <1>3, <1>8 DEF Matched
    <2>2. ~PlainMatch(a.path) /\ (Named(s, a, src) \/ Astray(s, a, src))
      BY <2>1 DEF Way
    <2>3. CASE Named(s, a, src)
      <3>1. Match(got[r], a.host, a.path)
        BY <1>5, <2>1, <2>2, <2>3
      <3>2. Goto(r, "decode")
        BY <1>8, <3>1 DEF Matched
      <3>3. pc'[r] = "decode"
        BY <1>4, <3>2
      <3>4. QED BY <2>1, <2>2, <2>3, <3>3 DEF Way
    <2>4. CASE Astray(s, a, src)
      <3>1. ~Match(got[r], a.host, a.path) /\ a.path \notin PortalPaths
        BY <1>6, <2>1, <2>4
      <3>2. Goto(r, "stray")
        BY <1>8, <3>1 DEF Matched
      <3>3. pc'[r] = "stray"
        BY <1>4, <3>2
      <3>4. QED BY <2>1, <2>4, <3>3 DEF Way
    <2>5. QED BY <2>2, <2>3, <2>4
  <1>9. CASE Decoded(r)
    <2>1. pc[r] = "decode" /\ got[r] = c /\ Proxy(r, Decode(got[r], a.host, a.path))
      BY <1>3, <1>9 DEF Decoded
    <2>2. ~PlainMatch(a.path) /\ Named(s, a, src)
      BY <2>1 DEF Way
    <2>3. decode(c, a.host, a.path) = Decode(got[r], a.host, a.path)
      BY <2>1, <2>2 DEF decode
    <2>4. pc'[r] = "unwrap" /\ Sent(s, src, target'[r])
      BY <1>1, <2>1, <2>2, <2>3, ProxyOnItsWay
    <2>5. QED BY <2>4 DEF Way
  <1>10. CASE Unwrapped(r)
    <2> DEFINE fix == unwrapTarget(got[r], target[r])
    <2>1. pc[r] = "unwrap" /\ got[r] = c /\ fixed' = [fixed EXCEPT ![r] = fix] /\ target' = target
          /\ Goto(r, IF fixed'[r] = target[r] THEN "rewrite" ELSE "encode")
      BY <1>3, <1>10 DEF Unwrapped
    <2>2. Sent(s, src, target[r])
      BY <2>1 DEF Way
    <2>3. Agrees(fix, Meant(src))
      BY <1>1, <1>2, <2>1, <2>2, SentUnwraps
    <2> HIDE DEF fix
    <2>4. fixed'[r] = fix
      BY <1>1, <2>1 DEF RouteTypeOK
    <2>5. pc'[r] = IF fix = target[r] THEN "rewrite" ELSE "encode"
      BY <1>4, <2>1, <2>4
    <2>6. QED BY <2>1, <2>3, <2>4, <2>5 DEF Way
  <1>11. CASE Redirected(r)
    <2> DEFINE refs == Encode(codecSecure(got[r]), fixed[r])
    <2>1. pc[r] \in {"encode", "strayed"} /\ got[r] = c
      BY <1>3, <1>11 DEF Redirected
    <2>2. Agrees(fixed[r], Meant(src))
      BY <2>1 DEF Way
    <2>3. refs # {} /\ \A ref \in refs : Leads(s, Resolve(ref, a), Meant(src))
      BY <1>1, <1>2, <2>1, <2>2, RedirectLeads
    <2>4. (\E ref \in refs : addr' = [addr EXCEPT ![r] = Resolve(ref, @)]) /\ Goto(r, "arrive")
      BY <1>11, <2>3 DEF Redirected
    <2>5. PICK ref \in refs : addr' = [addr EXCEPT ![r] = Resolve(ref, @)]
      BY <2>4
    <2>6. addr'[r] = Resolve(ref, a) /\ pc'[r] = "arrive"
      BY <1>1, <1>4, <2>4, <2>5 DEF RouteTypeOK
    <2>7. QED BY <2>3, <2>6 DEF Way, Named
  <1>12. CASE Strayed(r)
    <2> DEFINE named == IF src.referer THEN decode(got[r], Refer(r).host, Refer(r).path) ELSE {}
    <2> DEFINE base == IF named # {} THEN named ELSE src.trail
    <2>1. pc[r] = "stray" /\ got[r] = c
      BY <1>3, <1>12 DEF Strayed
    <2>2. Astray(s, a, src)
      BY <2>1 DEF Way
    <2>3. Refer(r) = PageAt(s, src.page)
      BY <1>1 DEF Refer
    <2>4. base # {} /\ \A b \in base : Agrees([b EXCEPT !.path = a.path], Meant(src))
      BY <1>1, <1>2, <2>1, <2>2, <2>3, StrayFound
    <2>5. \E b \in base : fixed' = [fixed EXCEPT ![r] = [b EXCEPT !.path = a.path]] /\ Goto(r, "strayed")
      BY <1>12, <2>4 DEF Strayed
    <2>6. PICK b \in base : fixed' = [fixed EXCEPT ![r] = [b EXCEPT !.path = a.path]] /\ Goto(r, "strayed")
      BY <2>5
    <2>7. fixed'[r] = [b EXCEPT !.path = a.path] /\ pc'[r] = "strayed"
      BY <1>1, <1>4, <2>6 DEF RouteTypeOK
    <2>8. Agrees(fixed'[r], Meant(src))
      BY <2>4, <2>7
    <2>9. QED BY <2>7, <2>8 DEF Way
  <1>13. CASE Rewritten(r)
    <2>1. pc[r] = "rewrite" /\ target' = target /\ (Goto(r, "restore") \/ Goto(r, "site"))
      BY <1>13 DEF Rewritten
    <2>2. pc'[r] \in {"restore", "site"}
      BY <1>4, <2>1 DEF Ends
    <2>3. QED BY <2>1, <2>2 DEF Way
  <1>14. CASE Restored(r)
    <2>1. pc[r] = "restore" /\ target' = target /\ Goto(r, "site")
      BY <1>14 DEF Restored
    <2>2. pc'[r] = "site"
      BY <1>4, <2>1 DEF Ends
    <2>3. QED BY <2>1, <2>2 DEF Way
  <1>15. QED BY <1>7, <1>8, <1>9, <1>10, <1>11, <1>12, <1>13, <1>14 DEF Serve

LEMMA WayStepInv ==
  ASSUME Settings \subseteq DOMAIN Build
  PROVE  WayInv /\ [Next]_vars => WayInv'
  <1> SUFFICES ASSUME WayInv, [Next]_vars PROVE WayInv'
    OBVIOUS
  <1>1. RoutingInv' /\ Unedited' /\ (edits' = 0 => edits = 0 /\ settings' = settings)
    BY RoutingStepInv, UneditedKept DEF WayInv
  <1>2. RoutingInv /\ RouteTypeOK /\ Unedited
    BY DEF WayInv, RoutingInv
  <1>3. source' = source
    BY DEF Next, Serve, Arrive, Matched, Decoded, Unwrapped, Redirected, Strayed, Rewritten, Restored, Keep, Asking, Saving, vars, reqVars
  <1>4. ASSUME NEW r \in Request, edits' = 0, Expected(settings, source[r])
        PROVE  Way(settings, source[r], pc'[r], addr'[r], target'[r], fixed'[r])
    <2>1. edits = 0
      BY <1>1, <1>4
    <2>2. Way(settings, source[r], pc[r], addr[r], target[r], fixed[r])
      BY <1>4, <2>1 DEF WayInv
    <2>3. ASSUME NEW q \in Request, Serve(q), q # r
          PROVE  pc'[r] = pc[r] /\ addr'[r] = addr[r] /\ target'[r] = target[r] /\ fixed'[r] = fixed[r]
      BY <1>2, <2>3 DEF Serve, Arrive, Matched, Decoded, Unwrapped, Redirected, Strayed, Rewritten, Restored, Keep, Proxy, Goto, RouteTypeOK
    <2>4. CASE UNCHANGED reqVars
      BY <2>2, <2>4 DEF reqVars
    <2>5. CASE Serve(r)
      BY <1>2, <1>4, <2>1, <2>2, <2>5, ServeOnItsWay
    <2>6. QED BY <2>2, <2>3, <2>4, <2>5 DEF Next, Asking, Saving, vars
  <1>5. QED BY <1>1, <1>3, <1>4 DEF WayInv

\* An address the server or the shim wrote for a target reaches that target and
\* no other, by whichever hops, until the console saves, provided the settings in
\* force have a codec (Rewriter.Ref and rewrite of shim.js; Handler.ServeHTTP,
\* unwrapTarget, serveStray and the redirects of proxy.go).
THEOREM WrittenReaches ==
  ASSUME Settings \subseteq DOMAIN Build
  PROVE  Spec => []ReachesItsTarget
  <1>1. WayInv => ReachesItsTarget
    <2> SUFFICES ASSUME WayInv, NEW r \in Request, pc[r] \in Ends, edits = 0, source[r].kind \notin {"portal", "own"},
                        ~Excepted(written[r], source[r])
                 PROVE  pc[r] = "site" /\ Norm(target[r]) = Norm(Meant(source[r]))
      BY DEF ReachesItsTarget
    <2>1. Way(settings, source[r], pc[r], addr[r], target[r], fixed[r])
      BY DEF WayInv, Unedited, Expected
    <2>2. pc[r] = "site" /\ Agrees(target[r], Meant(source[r]))
      BY <2>1 DEF Way, Ends
    <2>3. QED BY <2>2 DEF Agrees
  <1>2. QED BY <1>1, WayInitInv, WayStepInv, PTL DEF Spec

-----------------------------------------------------------------------------
(* What parameters carry *)

\* The trailing "/" of an encoding is what JS drops of it.
LEMMA FrontOfPrefix ==
  ASSUME NEW p \in Path
  PROVE  p \o Root \in Path /\ Front(p \o Root) = p /\ p \o Root # << >>
  <1> DEFINE q == p \o Root
  <1>1. p \in Seq(Name) /\ Root \in Seq(Name) /\ Len(Root) = 1 /\ Len(p) \in Nat
    BY Tokens, LenProperties DEF Path, Root
  <1>2. q \in Seq(Name) /\ Len(q) = Len(p) + 1
    BY <1>1, ConcatProperties
  <1>3. SubSeq(q, 1, Len(p)) = p
    <2>1. CASE p = << >>
      <3>1. q = Root /\ Len(p) = 0
        BY <1>1, <2>1, ConcatEmptySeq
      <3>2. SubSeq(q, 1, 0) = << >>
        BY <1>2, SubSeqEmpty
      <3>3. QED BY <2>1, <3>1, <3>2
    <2>2. CASE p # << >>
      <3>1. 1 \in 1..Len(p) /\ Len(p) \in 1..Len(p)
        BY <1>1, <2>2, EmptySeq
      <3>2. QED BY <1>1, <3>1, SubSeqOfConcat1, SubSeqFull
    <2>3. QED BY <2>1, <2>2
  <1>4. Len(q) - 1 = Len(p) /\ Len(q) # 0
    BY <1>1, <1>2
  <1> HIDE DEF q
  <1>5. Front(q) = p
    BY <1>3, <1>4 DEF Front
  <1>6. q # << >>
    BY <1>2, <1>4, EmptySeq
  <1>7. QED BY <1>2, <1>5, <1>6 DEF q, Path

\* sameShapeAs gives back what the decoding of an address added to it.
LEMMA Shaped ==
  ASSUME NEW url \in Address, NEW u, NEW p \in Path, p = << >> \/ Last(p) # << >>, u.path = p \o url.path
  PROVE  sameShapeAs(u, URL(url.scheme, url.host, url.port, PathOf(url))) = url
  <1> DEFINE v == URL(url.scheme, url.host, url.port, PathOf(url))
  <1>1. url.path \in Path /\ v.path = PathOf(url)
    <2>1. url.path \in Path
      BY DEF Address
    <2>2. v.path = PathOf(url)
      BY DEF URL
    <2>3. QED BY <2>1, <2>2
  <1>2. url = URL(url.scheme, url.host, url.port, url.path)
    BY DEF URL, Address
  <1>3. [v EXCEPT !.path = << >>] = URL(url.scheme, url.host, url.port, << >>)
    BY DEF URL
  <1>4. CASE url.path = << >>
    <2>1. u.path = p
      BY <1>4, ConcatEmptySeq DEF Path
    <2>2. v.path = Root
      BY <1>1, <1>4 DEF PathOf
    <2> HIDE DEF v
    <2>3. sameShapeAs(u, v) = [v EXCEPT !.path = << >>]
      BY <2>1, <2>2 DEF sameShapeAs
    <2>4. QED BY <1>2, <1>3, <1>4, <2>3 DEF v
  <1>5. CASE url.path = Root
    <2>1. Last(u.path) = << >> /\ u.path # << >>
      <3>1. p \in Seq(Name) /\ Root \in Seq(Name) /\ Len(Root) = 1 /\ Len(p) \in Nat /\ Root[1] = << >>
        BY Tokens, LenProperties DEF Path, Root
      <3>2. p \o Root # << >> /\ u.path = p \o Root
        BY <1>5, FrontOfPrefix
      <3> DEFINE n == Len(p) + 1
      <3>3. Len(p \o Root) = n
        BY <3>1, ConcatProperties
      <3>4. n \in 1..(Len(p) + Len(Root)) /\ ~(n <= Len(p)) /\ n - Len(p) = 1
        BY <3>1
      <3> DEFINE q == p \o Root
      <3>7. \A k \in 1..(Len(p) + Len(Root)) : q[k] = IF k <= Len(p) THEN p[k] ELSE Root[k - Len(p)]
        BY <3>1, ConcatProperties
      <3> HIDE DEF n, q
      <3>5. q[n] = Root[1]
        BY <3>4, <3>7
      <3>6. QED BY <3>1, <3>2, <3>3, <3>5 DEF Last, q
    <2>2. v = url
      BY <1>2, <1>5, Tokens DEF PathOf
    <2> HIDE DEF v
    <2>3. sameShapeAs(u, v) = v
      BY <2>1 DEF sameShapeAs
    <2>4. QED BY <2>2, <2>3 DEF v
  <1>6. CASE url.path \notin {<< >>, Root}
    <2>1. v = url /\ v.path # Root
      BY <1>1, <1>2, <1>6 DEF PathOf
    <2> HIDE DEF v
    <2>2. sameShapeAs(u, v) = v
      BY <2>1 DEF sameShapeAs
    <2>3. QED BY <2>1, <2>2 DEF v
  <1>7. QED BY <1>4, <1>5, <1>6

\* The portal's name, and that of every page, is the gateway's.
LEMMA PortalIsGateways ==
  ASSUME NEW s \in Settings, s.mode = "subdomain"
  PROVE  isGatewayHost(CodecOf(s), PortalHost(s))
  <1>1. s.base \in Name /\ s.host \in Name /\ s.base # << >> /\ Last(s.base) # "." /\ (s.host # << >> => Last(s.host) # ".")
        /\ CodecOf(s).portal = PortalHost(s)
    BY BuildAssumption, SettingsMode
  <1>2. CASE s.host # << >>
    <2>1. PortalHost(s) = s.host /\ Rootless(s.host) = s.host
      BY <1>1, <1>2 DEF PortalHost, Rootless
    <2>2. QED BY <1>1, <2>1 DEF isGatewayHost
  <1>3. CASE s.host = << >>
    <2>1. PortalHost(s) = <<"app", ".">> \o s.base
      BY <1>3 DEF PortalHost
    <2> DEFINE app == <<"app", ".">>
    <2> DEFINE dot == <<".">>
    <2> DEFINE tail == dot \o s.base
    <2> DEFINE host == app \o s.base
    <2>2. app \in Seq(Token) /\ dot \in Seq(Token) /\ Len(app) = 2 /\ app[2] = "." /\ Len(dot) = 1 /\ dot[1] = "."
          /\ s.base \in Seq(Token) /\ Len(s.base) \in Nat
      BY <1>1, BuildAssumption, AddressingAssumption, Singles, LenProperties DEF Name
    <2>3. /\ tail \in Seq(Token) /\ Len(tail) = Len(dot) + Len(s.base)
          /\ \A k \in 1..(Len(dot) + Len(s.base)) : tail[k] = IF k <= Len(dot) THEN dot[k] ELSE s.base[k - Len(dot)]
      BY <2>2, ConcatProperties
    <2>6. /\ host \in Seq(Token) /\ Len(host) = Len(app) + Len(s.base)
          /\ \A k \in 1..(Len(app) + Len(s.base)) : host[k] = IF k <= Len(app) THEN app[k] ELSE s.base[k - Len(app)]
      BY <2>2, ConcatProperties
    <2> HIDE DEF app, dot, tail, host
    <2>7. ASSUME NEW k \in 1..Len(tail) PROVE host[Len(host) - Len(tail) + k] = tail[k]
      <3> DEFINE j == k + 1
      <3>1. Len(host) - Len(tail) + k = j /\ j \in 1..(Len(app) + Len(s.base)) /\ (j <= Len(app) <=> k = 1) /\ j - Len(app) = k - 1
            /\ k \in 1..(Len(dot) + Len(s.base)) /\ (k <= Len(dot) <=> k = 1) /\ k - Len(dot) = k - 1
        BY <2>2, <2>3, <2>6
      <3> HIDE DEF j
      <3>2. host[j] = IF k = 1 THEN app[j] ELSE s.base[k - 1]
        BY <2>6, <3>1
      <3>3. tail[k] = IF k = 1 THEN dot[k] ELSE s.base[k - 1]
        BY <2>3, <3>1
      <3>4. k = 1 => j = 2
        BY DEF j
      <3>5. QED BY <2>2, <3>1, <3>2, <3>3, <3>4
    <2>8. Len(tail) <= Len(host) /\ Len(host) > Len(s.base) + 1
      BY <2>2, <2>3, <2>6
    <2>9. IsSuffix(tail, host)
      BY <2>3, <2>6, <2>7, <2>8, SuffixMeans
    <2>4. Under(PortalHost(s), s.base) /\ PortalHost(s) \in Name
      BY <2>1, <2>6, <2>8, <2>9 DEF Under, tail, host, app, dot, Name
    <2>5. QED BY <2>4, UnderIsGateway
  <1>4. QED BY <1>2, <1>3

LEMMA PageIsGateways ==
  ASSUME NEW s \in Settings, NEW page \in Address, page.host # << >>
  PROVE  /\ s.mode = "subdomain" => isGatewayHost(CodecOf(s), PageAt(s, page).host)
         /\ s.mode # "subdomain" => PageAt(s, page).host = Gate
  <1> DEFINE at == PageAt(s, page)
  <1> DEFINE named == encodeLabel(page.host, EncodedPort(page), isTLSScheme(page.scheme)) \o <<".">> \o s.base
  <1>1. s.mode = "subdomain" => named \in Name /\ isGatewayHost(CodecOf(s), named)
    <2>1. named \in Name /\ Under(named, s.base)
      BY LabelUnder
    <2> HIDE DEF named
    <2>2. QED BY <2>1, UnderIsGateway
  <1>2. \/ at.host = PortalAt(s).host
        \/ s.mode = "subdomain" /\ isGatewayHost(CodecOf(s), page.host) /\ at.host = page.host
        \/ s.mode = "subdomain" /\ at.host = named
    BY PageHost
  <1> HIDE DEF at, named
  <1>3. QED BY <1>1, <1>2, PortalParts, PortalIsGateways DEF at

\* A label is read as its target, the scheme and the port being those of a page.
LEMMA LabelReads ==
  ASSUME NEW s \in Settings, s.mode = "subdomain", NEW url \in Address, Upstream(url), Sayable(url),
         url.port = EncodedPort(url), url.scheme = httpScheme(url.scheme),
         LET label == encodeLabel(url.host, EncodedPort(url), isTLSScheme(url.scheme))
         IN  label \o <<".">> \o s.base # PortalHost(s)
  PROVE  LET label == encodeLabel(url.host, EncodedPort(url), isTLSScheme(url.scheme))
         IN  HostDecode(CodecOf(s), label \o <<".">> \o s.base, url.path) = {URL(url.scheme, url.host, url.port, PathOf(url))}
  <1> DEFINE c == CodecOf(s)
  <1> DEFINE host == encodeLabel(url.host, EncodedPort(url), isTLSScheme(url.scheme)) \o <<".">> \o s.base
  <1> DEFINE w == URL(url.scheme, url.host, url.port, PathOf(url))
  <1>1. c \in AnyCodec /\ c.mode = "subdomain" /\ c.base = s.base /\ c.portal = PortalHost(s)
    BY SettingsMode
  <1>2. url.host # << >> /\ url.port \notin BadPorts /\ PathOf(url) \in Path
    BY PathOfTyped DEF Upstream
  <1>3. host \in Name
    BY <1>2, LabelUnder
  <1>4. PICK v \in Address : HostDecode(c, host, PathOf(url)) = {v} /\ Agrees(v, url)
    <2> HIDE DEF c
    <2>1. QED BY <1>1, <1>2, HostTarget
  <1> HIDE DEF host, c
  <1>5. HostDecode(c, host, url.path) = HostDecode(c, host, PathOf(url))
    <2>1. \A a, b, d : assemble(a, b, d, url.path) = assemble(a, b, d, PathOf(url))
      BY DEF assemble, PathOf, Root
    <2>2. QED BY <2>1 DEF HostDecode
  <1>6. v.scheme \in {"http", "https"} /\ v.path # << >>
    <2>1. v \in HostDecode(c, host, PathOf(url))
      BY <1>4
    <2>2. \A tls, b, d, p : \A x \in assemble(IF tls THEN "https" ELSE "http", b, d, p) : x.scheme \in {"http", "https"}
      BY DEF assemble, URL
    <2>3. v.scheme \in {"http", "https"}
      BY <2>1, <2>2 DEF HostDecode
    <2>4. v.path # << >>
      BY <1>1, <1>2, <1>3, <2>1, HostDecodeTyped
    <2>5. QED BY <2>3, <2>4
  <1>7. v = w
    <2>1. v.host = url.host /\ v.port = url.port /\ PathOf(v) = PathOf(url) /\ httpScheme(v.scheme) = httpScheme(url.scheme)
      BY <1>4, AgreesParts
    <2>2. PathOf(v) = v.path /\ httpScheme(v.scheme) = v.scheme
      BY <1>6 DEF PathOf, httpScheme
    <2>3. v = URL(v.scheme, v.host, v.port, v.path)
      BY DEF URL, Address
    <2>4. QED BY <2>1, <2>2, <2>3
  <1>8. QED BY <1>4, <1>5, <1>7 DEF host, c

\* A path behind the path form of an origin.
PlainHead(u) == <<PlainPrefix, <<u.scheme>>, HostPort(u)>>
WRDHead(u) == <<WRDScheme(u), <<Hidden>> \o u.host>>

LEMMA PlainScriptReads ==
  ASSUME NEW url \in Address, Upstream(url)
  PROVE  LET q == PlainHead(url) \o url.path
         IN  /\ PlainHead(url) \in Path /\ Last(PlainHead(url)) # << >> /\ q \in Path
             /\ PlainDecode(q) = {URL(url.scheme, url.host, url.port, PathOf(url))}
  <1> DEFINE head == PlainHead(url)
  <1> DEFINE q == head \o url.path
  <1>1. url.scheme \in SchemeSupported /\ url.path \in Seq(Name) /\ Len(url.path) \in Nat /\ url.host # << >> /\ ~HasPort(url.host)
    BY LenProperties DEF Address, Path, Upstream
  <1>2. PlainPrefix \in Name /\ <<url.scheme>> \in Name /\ HostPort(url) \in Name
    <2>1. url.scheme \in Token
      BY <1>1, Tokens
    <2>2. QED BY <2>1, Tokens, Singles, HostPortTyped DEF Name
  <1>3. q \in Seq(Name) /\ Len(q) = Len(url.path) + 3 /\ q[1] = PlainPrefix /\ q[2] = <<url.scheme>> /\ q[3] = HostPort(url) /\ From(q, 4) = url.path
    BY <1>1, <1>2, ThreeFirst DEF PlainHead
  <1>4. head \in Seq(Name) /\ Len(head) = 3 /\ head[3] = HostPort(url)
    <2> DEFINE x == <<url.scheme>>
    <2> DEFINE y == HostPort(url)
    <2>1. head = <<PlainPrefix, x, y>>
      BY DEF PlainHead
    <2> HIDE DEF head, x, y
    <2>2. QED BY <1>2, <2>1, Singles DEF x, y
  <1> HIDE DEF head, q
  <1>5. HostPort(url) # << >>
    <2>1. hostOnly(HostPort(url)) = url.host
      BY <1>1, HostPortComesBack
    <2>2. ~HasPort(<< >>)
      <3>1. Len(<< >>) = 0
        OBVIOUS
      <3>2. QED BY <3>1 DEF HasPort
    <2>3. QED BY <1>1, <2>1, <2>2 DEF hostOnly
  <1>6. Last(head) # << >>
    BY <1>4, <1>5 DEF Last
  <1>7. q[2] \in {<<z>> : z \in SchemeSupported} /\ q[2][1] = url.scheme
    <2>1. <<url.scheme>>[1] = url.scheme
      OBVIOUS
    <2>2. QED BY <1>1, <1>3, <2>1
  <1>8. PlainMatch(q) /\ Len(q) > 2
    BY <1>1, <1>3 DEF PlainMatch
  <1>9. PlainDecode(q) = assemble(url.scheme, url.host, url.port, url.path)
    BY <1>1, <1>3, <1>7, <1>8, HostPortComesBack DEF PlainDecode
  <1>10. assemble(url.scheme, url.host, url.port, url.path) = {URL(url.scheme, url.host, url.port, PathOf(url))}
    BY <1>1 DEF assemble, PathOf
  <1>11. QED BY <1>3, <1>4, <1>6, <1>9, <1>10 DEF head, q, Path

LEMMA WRDScriptReads ==
  ASSUME NEW url \in Address, Upstream(url), url.port = EncodedPort(url)
  PROVE  LET q == WRDHead(url) \o url.path
         IN  /\ WRDHead(url) \in Path /\ Last(WRDHead(url)) # << >> /\ q \in Path /\ q # << >> /\ ~PlainMatch(q)
             /\ WRDDecode(q) = {URL(url.scheme, url.host, url.port, PathOf(url))}
  <1> DEFINE scheme == WRDScheme(url)
  <1> DEFINE name == <<Hidden>> \o url.host
  <1> DEFINE head == WRDHead(url)
  <1> DEFINE q == head \o url.path
  <1> DEFINE p == head \o PathOf(url)
  <1>1. url.host # << >> /\ url.port \notin BadPorts /\ url.path \in Seq(Name) /\ PathOf(url) \in Seq(Name) /\ PathOf(url) # << >>
        /\ url.scheme \in SchemeSupported /\ url.host \in Seq(Token)
    BY PathOfTyped DEF Address, Path, Upstream, Name
  <1>2. scheme \in Name /\ name \in Name
    <2>1. url.scheme \in Token /\ "-" \in Token /\ (EncodedPort(url) # "" => url.port \in Token) /\ Hidden \in Token
      BY Tokens, AddressingAssumption DEF EncodedPort, Address, Hidden
    <2>2. scheme \in Name
      BY <2>1, Singles DEF WRDScheme, Name
    <2>3. QED BY <1>1, <2>1, <2>2, Singles, Concats DEF Name
  <1>3. name # << >>
    <2>1. <<Hidden>> \in Seq(Token) /\ <<Hidden>> # << >>
      BY AddressingAssumption, Singles DEF Hidden
    <2>2. QED BY <1>1, <2>1, StaysFilled
  <1>4. head \in Seq(Name) /\ Len(head) = 2 /\ head[1] = scheme /\ head[2] = name
    <2>1. head = <<scheme, name>>
      BY DEF WRDHead
    <2> HIDE DEF scheme, name, head
    <2>2. QED BY <1>2, <2>1, Singles
  <1>5. PathRef(p).path = p /\ PathRef(p) \in WRDEncode(url)
    <2>1. p = <<scheme, name>> \o PathOf(url)
      BY DEF WRDHead
    <2>2. PathRef(p) \in WRDEncode(url)
      BY <2>1 DEF WRDEncode
    <2> HIDE DEF p
    <2>3. QED BY <2>2, PathRefParts
  <1>6. ~PlainMatch(p) /\ p # << >> /\ WRDDecode(p) = {URL(url.scheme, url.host, url.port, PathOf(url))}
    <2> HIDE DEF p
    <2>1. QED BY <1>1, <1>5, WRDTarget, Zenon
  <1> HIDE DEF scheme, name, head
  <1>7. Last(head) # << >>
    BY <1>3, <1>4 DEF Last
  <1>8. q \in Seq(Name) /\ q # << >> /\ ~PlainMatch(q) /\ WRDDecode(q) = WRDDecode(p)
    <2>1. CASE url.path # << >>
      <3>1. PathOf(url) = url.path
        BY <2>1 DEF PathOf
      <3>2. q = p /\ q \in Seq(Name)
        BY <1>1, <1>4, <3>1, Concats
      <3> HIDE DEF p, q
      <3>3. QED BY <1>6, <3>2
    <2>2. CASE url.path = << >>
      <3>1. q = head
        BY <1>4, <2>2, ConcatEmptySeq
      <3>2. PathOf(url) = Root /\ Root \in Seq(Name) /\ Len(Root) = 1
        BY <2>2, Tokens DEF PathOf, Root, Path
      <3>3. /\ p \in Seq(Name) /\ Len(p) = Len(head) + Len(Root)
            /\ \A k \in 1..(Len(head) + Len(Root)) : p[k] = IF k <= Len(head) THEN head[k] ELSE Root[k - Len(head)]
        BY <1>4, <3>2, ConcatProperties
      <3>4. 1 \in 1..(Len(head) + Len(Root)) /\ 2 \in 1..(Len(head) + Len(Root)) /\ 1 <= Len(head) /\ 2 <= Len(head)
        BY <1>4, <3>2
      <3>5. From(p, 3) = Root
        <4>1. 3 \in Len(head) + 1..Len(head) + Len(Root) /\ 3 - Len(head) = 1
          BY <1>4, <3>2
        <4>5. p = head \o Root
          BY <3>2
        <4> HIDE DEF p
        <4>2. SubSeq(p, 3, 3) = SubSeq(Root, 3 - Len(head), 3 - Len(head))
          BY <1>4, <3>2, <4>1, <4>5, SubSeqOfConcat2
        <4>3. SubSeq(Root, 1, 1) = Root
          BY <3>2, SubSeqFull
        <4>4. Len(p) = 3
          BY <1>4, <3>2, <3>3
        <4>6. QED BY <4>1, <4>2, <4>3, <4>4 DEF From
      <3> HIDE DEF p, q
      <3>6. p[1] = q[1] /\ p[2] = q[2] /\ Len(p) = 3 /\ Len(q) = 2 /\ p # << >> /\ q # << >>
        <4>1. p[1] = head[1] /\ p[2] = head[2]
          BY <3>3, <3>4
        <4>2. Len(p) = 3 /\ Len(q) = 2
          BY <1>4, <3>1, <3>2, <3>3
        <4>3. Len(<< >>) = 0
          OBVIOUS
        <4>4. QED BY <3>1, <4>1, <4>2, <4>3
      <3>7. From(q, 3) = << >>
        <4>1. SubSeq(q, 3, 2) = << >>
          BY <1>4, <3>1, SubSeqEmpty
        <4>2. QED BY <3>6, <4>1 DEF From
      <3>8. \A a, b, d : assemble(a, b, d, << >>) = assemble(a, b, d, Root)
        BY DEF assemble, Root
      <3>9. WRDMatch(p) <=> WRDMatch(q)
        BY <3>6 DEF WRDMatch
      <3>10. Len(p) > 1 /\ Len(q) > 1
        BY <3>6
      <3>11. WRDDecode(q) = WRDDecode(p)
        BY <3>5, <3>6, <3>7, <3>8, <3>9, <3>10 DEF WRDDecode
      <3>12. PlainMatch(q) <=> PlainMatch(p)
        BY <3>6, <3>10 DEF PlainMatch
      <3>13. QED BY <1>4, <1>6, <3>1, <3>6, <3>11, <3>12
    <2>3. QED BY <2>1, <2>2
  <1> HIDE DEF p, q
  <1>9. QED BY <1>4, <1>6, <1>7, <1>8 DEF head, q, Path

\* Outside the sub-domain mode every reference is followed on the gateway's name.
LEMMA RefHere ==
  ASSUME NEW s \in Settings, s.mode # "subdomain", NEW u \in Address
  PROVE  /\ \A ref \in Encode(codecSecure(CodecOf(s)), u) : ref.host = << >>
         /\ Ref(CodecOf(s), u).host = << >>
  <1> DEFINE c == codecSecure(CodecOf(s))
  <1>1. c \in AnyCodec /\ c.mode \in {"plain", "wrd"}
    BY SettingsMode, Modes
  <1> HIDE DEF c
  <1>2. Encode(c, u) = PlainEncode(u) \/ Encode(c, u) = WRDEncode(u)
    BY <1>1 DEF Encode
  <1>3. PlainEncode(u) # {} /\ WRDEncode(u) # {}
    BY DEF PlainEncode, WRDEncode
  <1>4. \A ref \in PlainEncode(u) \cup WRDEncode(u) : ref.host = << >>
    BY PathRefParts DEF PlainEncode, WRDEncode
  <1>5. Ref(CodecOf(s), u) \in Encode(c, u)
    BY <1>2, <1>3 DEF Ref, c
  <1>6. QED BY <1>2, <1>4, <1>5 DEF c

LEMMA ResolvedHere ==
  ASSUME NEW at \in Address, at.host = Gate, NEW ref, ref.host \in {<< >>, Gate}
  PROVE  Resolve(ref, at).host = Gate
  <1>1. \A p : [at EXCEPT !.path = p].host = at.host
    BY DEF Address
  <1>2. QED BY <1>1 DEF Resolve

LEMMA RewrittenHere ==
  ASSUME NEW s \in Settings, s.mode # "subdomain", NEW at, at.host = Gate, NEW ref, NEW page
  PROVE  rewrite(CodecOf(s), ref, page, at).host \in {<< >>, Gate}
  <1> DEFINE c == CodecOf(s)
  <1> DEFINE u == Resolve(ref, refBase(page, at))
  <1>1. c.mode # "subdomain"
    BY SettingsMode
  <1> HIDE DEF c
  <1>2. \A v : shimEncode(c, v).host = << >>
    <2>1. \A v : \A x \in PlainEncode(v) : x.host = << >>
      BY PathRefParts DEF PlainEncode
    <2>2. \A v : PlainEncode(v) # {}
      BY DEF PlainEncode
    <2>3. \A v : pathForm(v).host = << >>
      <3> TAKE v
      <3> DEFINE x == [v EXCEPT !.scheme = httpScheme(v.scheme)]
      <3>1. pathForm(v) \in PlainEncode(x)
        BY <2>2 DEF pathForm
      <3>2. QED BY <2>1, <3>1
    <2>4. QED BY <1>1, <2>3 DEF shimEncode
  <1>3. ref.host # << >> => u = ref
    BY DEF Resolve
  <1>4. shimGatewayHost(c, u.host, at) <=> u.host = Gate
    BY <1>1 DEF shimGatewayHost
  <1>5. \/ rewrite(c, ref, page, at) = ref /\ ref.host \in {<< >>, Gate}
        \/ \E v : rewrite(c, ref, page, at) = shimEncode(c, v)
    <2>1. CASE ref.host = << >> /\ PlainMatch(ref.path)
      BY <2>1 DEF rewrite
    <2>2. CASE ~(ref.host = << >> /\ PlainMatch(ref.path)) /\ u.host # Gate
      <3>1. rewrite(c, ref, page, at) = shimEncode(c, u)
        BY <1>4, <2>2 DEF rewrite
      <3>2. QED BY <3>1
    <2>3. CASE ~(ref.host = << >> /\ PlainMatch(ref.path)) /\ u.host = Gate
      <3>1. rewrite(c, ref, page, at) = ref \/ rewrite(c, ref, page, at) = shimEncode(c, [page EXCEPT !.path = u.path])
        BY <1>4, <2>3 DEF rewrite
      <3>2. QED BY <1>3, <2>3, <3>1
    <2>4. QED BY <2>1, <2>2, <2>3
  <1>6. QED BY <1>2, <1>5 DEF c

LEMMA WrittenHere ==
  ASSUME NEW s \in Settings, s.mode # "subdomain", NEW src \in Sources
  PROVE  Written(s, src).host = Gate
  <1> DEFINE c == CodecOf(s)
  <1> DEFINE at == PageAt(s, src.page)
  <1>1. src.want \in Address /\ src.page \in Address /\ src.page.host # << >> /\ at \in Address /\ PortalAt(s) \in Address
    BY SourceTyped, PageAtTyped, PortalAtTyped
  <1>2. at.host = Gate /\ PortalAt(s).host = Gate
    BY <1>1, PageIsGateways, PortalParts
  <1>3. \A u \in Address : Resolve(Ref(c, u), at).host = Gate /\ Resolve(Ref(c, u), PortalAt(s)).host = Gate
    BY <1>1, <1>2, RefHere, ResolvedHere
  <1>4. \A ref : Resolve(rewrite(c, ref, src.page, at), at).host = Gate
    BY <1>1, <1>2, RewrittenHere, ResolvedHere
  <1>5. \A p : [at EXCEPT !.path = p].host = Gate /\ [PortalAt(s) EXCEPT !.path = p].host = Gate
    BY <1>1, <1>2 DEF Address
  <1>6. src.kind = "folded" => [src.want EXCEPT !.path = << <<"d">> >> \o PageAt(s, src.want).path] \in Address
    <2> DEFINE p == << <<"d">> >> \o PageAt(s, src.want).path
    <2>1. p \in Path
      <3>1. PageAt(s, src.want).path \in Path
        BY <1>1, PageAtTyped DEF Address
      <3>2. QED BY <3>1, BehindBase DEF Base
    <2> HIDE DEF p
    <2>2. [src.want EXCEPT !.path = p] \in Address
      BY <1>1, <2>1, Repathed
    <2>3. QED BY <2>2 DEF p
  <1>7. Followed(s, src).host = Gate
    <2> HIDE DEF c, at
    <2>1. CASE src.kind \in {"link", "typed", "folded"}
      BY <1>1, <1>3, <1>6, <2>1 DEF Followed, c, at
    <2>2. CASE src.kind \in {"shim", "relative", "again", "own"}
      BY <1>4, <2>2 DEF Followed, c, at
    <2>3. CASE src.kind \notin {"link", "typed", "folded", "shim", "relative", "again", "own"}
      BY <1>5, <2>3 DEF Followed, c, at
    <2>4. QED BY <2>1, <2>2, <2>3
  <1>8. \A u \in Address : \A p : [u EXCEPT !.path = p].host = u.host
    BY DEF Address
  <1>9. QED BY <1>7, <1>8, FollowedTyped DEF Written

LEMMA ParamTyped ==
  ASSUME NEW src \in Sources
  PROVE  src.param.url \in Address /\ src.page \in Address /\ Upstream(src.param.url) /\ Upstream(src.page) /\ ~PlainMatch(src.page.path)
  BY RoutingAssumption DEF Upstream

\* What realAddress reads an address as.
Exact(c, u) == IF PlainDecode(u.path) # {} THEN PlainDecode(u.path) ELSE Decode(c, u.host, u.path)

\* An address of the gateway that names a target is given back as the site wrote it.
LEMMA ExactGivesBack ==
  ASSUME NEW c, NEW u, NEW url \in Address, NEW page, NEW browserHost, addressedToGateway(c, u.host, browserHost),
         NEW p \in Path, p = << >> \/ Last(p) # << >>, u.path = p \o url.path,
         NEW v, v = URL(url.scheme, url.host, url.port, PathOf(url)),
         Exact(c, u) = {v}
  PROVE  realAddress(c, u, page, browserHost) = url
  <1> DEFINE exact == Exact(c, u)
  <1>1. exact = {v}
    OBVIOUS
  <1>2. realAddress(c, u, page, browserHost)
          = IF ~addressedToGateway(c, u.host, browserHost) THEN u
            ELSE IF exact # {} THEN sameShapeAs(u, CHOOSE x \in exact : TRUE)
            ELSE [page EXCEPT !.path = u.path]
    BY DEF realAddress, Exact
  <1>3. sameShapeAs(u, v) = url
    BY Shaped
  <1> HIDE DEF exact
  <1>4. (CHOOSE x \in exact : TRUE) = v
    BY <1>1
  <1>5. QED BY <1>1, <1>2, <1>3, <1>4

\* What a script the server rewrote hands on.
LEMMA ScriptRestored ==
  ASSUME NEW s \in Settings, NEW src \in Sources, src.param.kind # "origin", ~Blurred(s, src.param.url),
         NEW page, NEW browserHost, s.mode # "subdomain" => browserHost = Gate
  PROVE  realAddress(CodecOf(s), Carried(s, src), page, browserHost) = src.param.url
  <1> DEFINE c == CodecOf(s)
  <1> DEFINE at == PageAt(s, src.page)
  <1> DEFINE url == src.param.url
  <1> DEFINE x == [url EXCEPT !.path = << >>]
  <1> DEFINE r == Ref(c, x)
  <1> DEFINE u == Carried(s, src)
  <1> DEFINE label == encodeLabel(url.host, EncodedPort(url), isTLSScheme(url.scheme))
  <1> DEFINE name == label \o <<".">> \o s.base
  <1> DEFINE head == IF r.path = << >> THEN << >> ELSE Front(r.path)
  <1>1. url \in Address /\ src.page \in Address /\ Upstream(url) /\ src.page.host # << >> /\ at \in Address /\ url.path \in Path
        /\ << >> \in Path
    BY ParamTyped, PageAtTyped, EmptySeq DEF Upstream, Address, Path
  <1>2. /\ x \in Address /\ x.host = url.host /\ x.scheme = url.scheme /\ x.port = url.port /\ x.path = << >>
        /\ PathOf(x) = Root /\ EncodedPort(x) = EncodedPort(url) /\ HostPort(x) = HostPort(url) /\ WRDScheme(x) = WRDScheme(url)
    <2> HIDE DEF url
    <2>1. x = URL(url.scheme, url.host, url.port, << >>) /\ x \in Address
      BY <1>1, Repathed
    <2> HIDE DEF x
    <2>2. x.scheme = url.scheme /\ x.host = url.host /\ x.port = url.port /\ x.path = << >>
      BY <2>1, URLParts
    <2>3. EncodedPort(x) = EncodedPort(url)
      BY <2>2 DEF EncodedPort
    <2>4. QED BY <2>1, <2>2, <2>3 DEF PathOf, HostPort, WRDScheme
  <1>3. /\ s.mode # "plain" => url.port = EncodedPort(url) /\ url.scheme = httpScheme(url.scheme)
        /\ s.mode = "subdomain" => Sayable(url) /\ ~Inside(s, url)
        /\ ~PlainMatch(url.path)
    BY DEF Blurred
  <1>4. ~Inside(s, x) /\ x.host # << >>
    <2> HIDE DEF x, url
    <2>1. QED BY <1>1, <1>2, <1>3 DEF Inside, Upstream
  <1>5. u = [Resolve(r, at) EXCEPT !.path = head \o url.path]
    BY DEF Carried, JS
  <1> DEFINE secure == codecSecure(c)
  <1>6. \/ Encode(secure, x) = PlainEncode(x) /\ s.mode # "wrd"
        \/ Encode(secure, x) = WRDEncode(x) /\ s.mode = "wrd"
        \/ /\ s.mode = "subdomain" /\ name # PortalHost(s)
           /\ Encode(secure, x) = {URL(gatewayScheme(secure, x.scheme), name, s.port, Root)}
    <2> HIDE DEF x, url, c
    <2>1. QED BY <1>2, <1>4, EncodeForms DEF c
  <1>7. r \in Encode(secure, x)
    <2> HIDE DEF x, url, c
    <2>1. QED BY <1>2, <1>4, EncodedSomehow DEF c
  <1>8. /\ s.mode = "subdomain" => isGatewayHost(c, at.host) /\ isGatewayHost(c, name) /\ name # << >> /\ c.mode = "subdomain"
        /\ s.mode # "subdomain" => at.host = Gate
    <2>1. s.mode = "subdomain" => isGatewayHost(c, name) /\ name # << >>
      <3> HIDE DEF url
      <3>1. url.host # << >>
        BY <1>1 DEF Upstream
      <3>2. name \in Name /\ Under(name, s.base) /\ name # << >>
        BY <1>1, <3>1, LabelUnder
      <3> HIDE DEF name
      <3>3. QED BY <3>2, UnderIsGateway
    <2>2. QED BY <1>1, <2>1, PageIsGateways, SettingsMode
  <1>9. \A host : (s.mode = "subdomain" /\ host \in {at.host, name}) \/ (s.mode # "subdomain" /\ host = at.host) => addressedToGateway(c, host, browserHost)
    BY <1>8 DEF addressedToGateway
  <1>10. /\ r.host = << >> => u.host = at.host /\ u.path = head \o url.path
         /\ r.host # << >> => (r \in Address => u.host = r.host /\ u.path = head \o url.path)
    <2> DEFINE q == head \o url.path
    <2> HIDE DEF q, r, u
    <2>1. \A a \in Address : \A p : [a EXCEPT !.path = p].host = a.host /\ [a EXCEPT !.path = p].path = p
      BY DEF Address
    <2>2. \A p, z : [[at EXCEPT !.path = p] EXCEPT !.path = z].host = at.host /\ [[at EXCEPT !.path = p] EXCEPT !.path = z].path = z
      BY <1>1 DEF Address
    <2>3. u = [Resolve(r, at) EXCEPT !.path = q]
      BY <1>5 DEF q
    <2>4. CASE r.host = << >>
      <3>1. u = [[at EXCEPT !.path = r.path] EXCEPT !.path = q]
        BY <2>3, <2>4 DEF Resolve
      <3>2. QED BY <2>2, <2>4, <3>1 DEF q
    <2>5. CASE r.host # << >>
      <3>1. u = [r EXCEPT !.path = q]
        BY <2>3, <2>5 DEF Resolve
      <3>2. r \in Address => u.host = r.host /\ u.path = q
        BY <2>1, <3>1, Zenon
      <3>3. QED BY <2>5, <3>2 DEF q
    <2>6. QED BY <2>4, <2>5
  <1> HIDE DEF x, url, u, at, name, secure, c
  <1> DEFINE v == URL(url.scheme, url.host, url.port, PathOf(url))
  <1>15. v = URL(url.scheme, url.host, url.port, PathOf(url))
    OBVIOUS
  <1> HIDE DEF v
  <1>11. CASE Encode(secure, x) = PlainEncode(x) /\ s.mode # "wrd"
    <2> DEFINE p == PlainHead(url)
    <2>1. r = PathRef(p \o Root)
      BY <1>2, <1>7, <1>11 DEF PlainEncode, PlainHead
    <2>2. p \in Path /\ Last(p) # << >> /\ PlainDecode(p \o url.path) = {v}
      BY <1>1, <1>15, PlainScriptReads
    <2> HIDE DEF p, r
    <2>3. r.host = << >> /\ r.path = p \o Root
      BY <2>1, PathRefParts
    <2>4. head = p
      BY <2>2, <2>3, FrontOfPrefix
    <2> HIDE DEF head
    <2>5. u.host = at.host /\ u.path = p \o url.path
      BY <1>10, <2>3, <2>4
    <2>6. addressedToGateway(c, u.host, browserHost)
      BY <1>9, <2>5
    <2>7. PlainDecode(u.path) = {v}
      BY <2>2, <2>5
    <2>8. p \in Path /\ (p = << >> \/ Last(p) # << >>) /\ u.path = p \o url.path
      BY <2>2, <2>5
    <2>10. url \in Address
      BY <1>1
    <2>12. Exact(c, u) = {v}
      BY <2>7 DEF Exact
    <2>11. realAddress(c, u, page, browserHost) = url
      BY <1>15, <2>6, <2>8, <2>10, <2>12, ExactGivesBack
    <2>9. QED BY <2>11 DEF url, u, c
  <1>12. CASE Encode(secure, x) = WRDEncode(x) /\ s.mode = "wrd"
    <2> DEFINE p == WRDHead(url)
    <2>1. r = PathRef(p \o Root)
      BY <1>2, <1>7, <1>12 DEF WRDEncode, WRDHead
    <2>2. /\ p \in Path /\ Last(p) # << >> /\ p \o url.path # << >> /\ ~PlainMatch(p \o url.path)
          /\ WRDDecode(p \o url.path) = {v}
      BY <1>1, <1>3, <1>12, <1>15, WRDScriptReads
    <2> HIDE DEF p, r
    <2>3. r.host = << >> /\ r.path = p \o Root
      BY <2>1, PathRefParts
    <2>4. head = p
      BY <2>2, <2>3, FrontOfPrefix
    <2> HIDE DEF head
    <2>5. u.host = at.host /\ u.path = p \o url.path
      BY <1>10, <2>3, <2>4
    <2>6. addressedToGateway(c, u.host, browserHost)
      BY <1>9, <1>12, <2>5
    <2>7. PlainDecode(u.path) = {}
      BY <2>2, <2>5 DEF PlainDecode
    <2>8. Decode(c, u.host, u.path) = {v}
      <3>1. c.mode = "wrd"
        BY <1>12, SettingsMode DEF c
      <3>2. QED BY <2>2, <2>5, <3>1 DEF Decode
    <2>9. p \in Path /\ (p = << >> \/ Last(p) # << >>) /\ u.path = p \o url.path
      BY <2>2, <2>5
    <2>10. url \in Address
      BY <1>1
    <2>12. Exact(c, u) = {v}
      BY <2>7, <2>8 DEF Exact
    <2>11. realAddress(c, u, page, browserHost) = url
      BY <1>15, <2>6, <2>9, <2>10, <2>12, ExactGivesBack
    <2>13. QED BY <2>11 DEF url, u, c
  <1>13. CASE /\ s.mode = "subdomain" /\ name # PortalHost(s)
              /\ Encode(secure, x) = {URL(gatewayScheme(secure, x.scheme), name, s.port, Root)}
    <2>1. r = URL(gatewayScheme(secure, x.scheme), name, s.port, Root)
      BY <1>7, <1>13
    <2>2. r.host = name /\ r.path = Root
      BY <2>1, URLParts
    <2>3. r \in Address
      <3>1. gatewayScheme(secure, x.scheme) \in SchemeSupported
        BY SettingsMode, GatewaySchemeTyped DEF secure, c
      <3>2. name \in Name /\ s.port \in Ports \cup {""} /\ Root \in Path
        BY <1>1, LabelUnder, Tokens, BuildAssumption DEF name, Upstream
      <3>3. \A a \in SchemeSupported, b \in Name, d \in Ports \cup {""}, p \in Path : URL(a, b, d, p) \in Address
        BY DEF URL, Address
      <3>4. QED BY <2>1, <3>1, <3>2, <3>3, Zenon
    <2> HIDE DEF r
    <2>4. head = << >>
      <3>1. << >> \in Path /\ Front(<< >> \o Root) = << >>
        BY <1>1, FrontOfPrefix
      <3>2. << >> \o Root = Root /\ Root # << >>
        BY Tokens, ConcatEmptySeq DEF Path
      <3>3. QED BY <2>2, <3>1, <3>2
    <2> HIDE DEF head
    <2>5. u.host = name /\ u.path = << >> \o url.path /\ << >> \o url.path = url.path
      BY <1>1, <1>8, <1>10, <1>13, <2>2, <2>3, <2>4, ConcatEmptySeq DEF Path
    <2>6. addressedToGateway(c, u.host, browserHost)
      BY <1>9, <1>13, <2>5
    <2>7. PlainDecode(u.path) = {}
      BY <1>3, <2>5 DEF PlainDecode
    <2>8. Decode(c, u.host, u.path) = {v}
      <3>1. c.mode = "subdomain"
        BY <1>13, SettingsMode DEF c
      <3>2. HostDecode(c, name, url.path) = {v}
        BY <1>1, <1>3, <1>13, <1>15, LabelReads DEF name, c
      <3>3. QED BY <2>5, <3>1, <3>2 DEF Decode
    <2>11. Exact(c, u) = {v}
      BY <2>7, <2>8 DEF Exact
    <2>9. realAddress(c, u, page, browserHost) = url
      BY <1>1, <2>5, <2>6, <2>11, <1>15, ExactGivesBack
    <2>10. QED BY <2>9 DEF url, u, c
  <1>14. QED BY <1>6, <1>11, <1>12, <1>13

\* A path of its own names no target where the page's name names none.
LEMMA NothingExact ==
  ASSUME NEW s \in Settings, NEW u, ~PlainMatch(u.path), s.mode = "wrd" => ~WRDMatch(u.path),
         s.mode = "subdomain" => u.host = PortalHost(s)
  PROVE  Exact(CodecOf(s), u) = {}
  <1> DEFINE c == CodecOf(s)
  <1>1. c \in AnyCodec /\ (c.mode = "subdomain" <=> s.mode = "subdomain") /\ (c.mode = "wrd" <=> s.mode = "wrd")
        /\ (s.mode = "subdomain" => c.portal = PortalHost(s))
    BY SettingsMode
  <1> HIDE DEF c
  <1>2. PlainDecode(u.path) = {}
    BY DEF PlainDecode
  <1>3. CASE s.mode = "subdomain"
    <2>1. HostDecode(c, u.host, u.path) = {}
      BY <1>1, <1>3 DEF HostDecode
    <2>2. Decode(c, u.host, u.path) = {}
      BY <1>1, <1>3, <2>1 DEF Decode
    <2>3. QED BY <1>2, <2>2 DEF Exact, c
  <1>4. CASE s.mode = "wrd"
    <2>1. WRDDecode(u.path) = {}
      BY <1>4 DEF WRDDecode
    <2>2. Decode(c, u.host, u.path) = {}
      BY <1>1, <1>4, <2>1 DEF Decode
    <2>3. QED BY <1>2, <2>2 DEF Exact, c
  <1>5. CASE s.mode \notin {"subdomain", "wrd"}
    <2>1. c.mode = "plain"
      BY <1>1, <1>5, Modes
    <2>2. Decode(c, u.host, u.path) = {}
      BY <1>2, <2>1 DEF Decode
    <2>3. QED BY <1>2, <2>2 DEF Exact, c
  <1>6. QED BY <1>3, <1>4, <1>5

\* An address of the gateway that names nothing is the page's own.
LEMMA PageGivesBack ==
  ASSUME NEW c, NEW u, NEW page, NEW browserHost, addressedToGateway(c, u.host, browserHost), Exact(c, u) = {}
  PROVE  realAddress(c, u, page, browserHost) = [page EXCEPT !.path = u.path]
  BY DEF realAddress, Exact

\* What a script puts behind location.origin.
LEMMA OriginRestored ==
  ASSUME NEW s \in Settings, NEW src \in Sources, src.param.kind = "origin", ~Blurred(s, src.param.url),
         src.referer \/ src.trail = {src.page},
         NEW browserHost, s.mode # "subdomain" => browserHost = Gate,
         NEW named, src.referer => named = decode(CodecOf(s), PageAt(s, src.page).host, PageAt(s, src.page).path),
         ~src.referer => named = {},
         NEW page, named # {} => page \in named, named = {} /\ src.trail # {} => page \in src.trail
  PROVE  realAddress(CodecOf(s), Carried(s, src), page, browserHost) = src.param.url
  <1> DEFINE c == CodecOf(s)
  <1> DEFINE at == PageAt(s, src.page)
  <1> DEFINE own == src.page
  <1> DEFINE url == src.param.url
  <1> DEFINE u == Carried(s, src)
  <1> DEFINE label == encodeLabel(own.host, EncodedPort(own), isTLSScheme(own.scheme))
  <1> DEFINE name == label \o <<".">> \o s.base
  <1>1. url \in Address /\ own \in Address /\ Upstream(url) /\ Upstream(own) /\ own.host # << >> /\ at \in Address /\ << >> \in Path
    BY ParamTyped, PageAtTyped, EmptySeq DEF Upstream, Address, Path
  <1>2. url.scheme = own.scheme /\ url.host = own.host /\ url.port = own.port /\ EncodedPort(url) = EncodedPort(own)
    <2>1. [url EXCEPT !.path = << >>] = [own EXCEPT !.path = << >>]
      BY RoutingAssumption
    <2>2. \A a \in Address : [a EXCEPT !.path = << >>] = URL(a.scheme, a.host, a.port, << >>)
      BY Repathed
    <2> HIDE DEF url, own
    <2>3. URL(url.scheme, url.host, url.port, << >>) = URL(own.scheme, own.host, own.port, << >>)
      BY <1>1, <2>1, <2>2, Zenon
    <2>4. url.scheme = own.scheme /\ url.host = own.host /\ url.port = own.port
      BY <2>3 DEF URL
    <2>5. QED BY <2>4 DEF EncodedPort
  <1>3. /\ s.mode # "plain" => url.port = EncodedPort(url) /\ url.scheme = httpScheme(url.scheme)
        /\ s.mode = "subdomain" => Sayable(url) /\ ~Inside(s, url)
        /\ ~PlainMatch(url.path) /\ (s.mode = "wrd" => ~WRDMatch(url.path))
    BY DEF Blurred
  <1>4. ~Inside(s, own)
    <2> HIDE DEF url, own
    <2>1. QED BY <1>2, <1>3 DEF Inside
  <1>5. u.host = at.host /\ u.path = url.path
    <2>1. u = [at EXCEPT !.path = url.path]
      BY DEF Carried
    <2>2. \A p : [at EXCEPT !.path = p].host = at.host /\ [at EXCEPT !.path = p].path = p
      BY <1>1 DEF Address
    <2>3. QED BY <2>1, <2>2
  <1>6. addressedToGateway(c, u.host, browserHost)
    <2>1. /\ s.mode = "subdomain" => isGatewayHost(c, at.host) /\ c.mode = "subdomain"
          /\ s.mode # "subdomain" => at.host = Gate
      BY <1>1, PageIsGateways, SettingsMode
    <2>2. QED BY <1>5, <2>1 DEF addressedToGateway
  <1>7. CASE InPath(s, own)
    <2> DEFINE port == IF s.mode = "wrd" THEN EncodedPort(own) ELSE own.port
    <2> DEFINE v == URL(own.scheme, own.host, port, PathOf(own))
    <2>1. at.host = PortalAt(s).host /\ decode(c, at.host, at.path) = {v} /\ v \in Address
      BY <1>4, <1>7, PageNamed
    <2>2. s.mode = "subdomain" => u.host = PortalHost(s)
      BY <1>5, <2>1, PortalParts
    <2>3. port = url.port
      BY <1>2, <1>3
    <2>4. page.scheme = url.scheme /\ page.host = url.host /\ page.port = url.port /\ page \in Address
      <3>1. page = v \/ page = own
        <4>1. CASE src.referer
          BY <2>1, <4>1
        <4>2. CASE ~src.referer
          BY <4>2
        <4>3. QED BY <4>1, <4>2
      <3> HIDE DEF port, own, url
      <3>2. v.scheme = own.scheme /\ v.host = own.host /\ v.port = port
        BY URLParts
      <3> HIDE DEF v
      <3>3. QED BY <1>1, <1>2, <2>1, <2>3, <3>1, <3>2
    <2>5. Exact(c, u) = {}
      <3> HIDE DEF u, url
      <3>1. ~PlainMatch(u.path) /\ (s.mode = "wrd" => ~WRDMatch(u.path))
        BY <1>3, <1>5
      <3>2. QED BY <2>2, <3>1, NothingExact
    <2>6. realAddress(c, u, page, browserHost) = [page EXCEPT !.path = url.path]
      <3> HIDE DEF u, url, c
      <3>1. QED BY <1>5, <1>6, <2>5, PageGivesBack
    <2>7. [page EXCEPT !.path = url.path] = url
      <3> HIDE DEF url
      <3>1. [page EXCEPT !.path = url.path] = URL(page.scheme, page.host, page.port, url.path)
        BY <2>4, Repathed
      <3>2. url = URL(url.scheme, url.host, url.port, url.path)
        BY <1>1 DEF URL, Address
      <3>3. QED BY <2>4, <3>1, <3>2
    <2>8. QED BY <2>6, <2>7
  <1>8. CASE ~InPath(s, own)
    <2>1. s.mode = "subdomain" /\ ~PlainMatch(at.path)
      BY <1>8 DEF InPath
    <2>2. at.host = name /\ name # PortalHost(s)
      <3> DEFINE secure == codecSecure(c)
      <3> DEFINE r == Ref(c, own)
      <3>1. at = Resolve(r, PortalAt(s)) /\ PortalAt(s) \in Address
        BY PortalAtTyped DEF PageAt
      <3>2. r \in Encode(secure, own)
        <4> HIDE DEF own
        <4>1. QED BY <1>1, <1>4, EncodedSomehow
      <3>3. \/ Encode(secure, own) = PlainEncode(own)
            \/ name # PortalHost(s) /\ Encode(secure, own) = {URL(gatewayScheme(secure, own.scheme), name, s.port, PathOf(own))}
        <4> HIDE DEF own
        <4>1. QED BY <1>1, <1>4, <2>1, EncodeForms
      <3>4. name # << >>
        BY <1>1, LabelUnder
      <3> HIDE DEF name, own, r, at, secure
      <3>5. CASE Encode(secure, own) = PlainEncode(own)
        <4>1. r = PathRef(PlainPath(own)) /\ PlainMatch(PlainPath(own))
          BY <1>1, <3>2, <3>5, PlainPathParts
        <4>2. r.host = << >> /\ r.path = PlainPath(own)
          BY <4>1, PathRefParts
        <4>3. at.path = PlainPath(own)
          BY <3>1, <4>2 DEF Resolve, Address
        <4>4. QED BY <2>1, <4>1, <4>3
      <3>6. CASE name # PortalHost(s) /\ Encode(secure, own) = {URL(gatewayScheme(secure, own.scheme), name, s.port, PathOf(own))}
        <4>1. r = URL(gatewayScheme(secure, own.scheme), name, s.port, PathOf(own))
          BY <3>2, <3>6
        <4>2. r.host = name
          BY <4>1, URLParts
        <4>3. at = r
          BY <3>1, <3>4, <4>2 DEF Resolve
        <4>4. QED BY <3>6, <4>2, <4>3
      <3>7. QED BY <3>3, <3>5, <3>6
    <2> DEFINE w == URL(url.scheme, url.host, url.port, PathOf(url))
    <2>3. w = URL(url.scheme, url.host, url.port, PathOf(url))
      OBVIOUS
    <2>4. HostDecode(c, name, url.path) = {w}
      <3> HIDE DEF own, url
      <3>1. label = encodeLabel(url.host, EncodedPort(url), isTLSScheme(url.scheme))
        BY <1>2
      <3> HIDE DEF label
      <3>2. QED BY <1>1, <1>3, <2>1, <2>2, <3>1, LabelReads
    <2> HIDE DEF w
    <2>5. Exact(c, u) = {w}
      <3>1. c.mode = "subdomain"
        BY <2>1, SettingsMode
      <3> HIDE DEF c, u, url, at, name
      <3>2. PlainDecode(u.path) = {} /\ Decode(c, u.host, u.path) = {w}
        BY <1>3, <1>5, <2>2, <2>4, <3>1 DEF PlainDecode, Decode
      <3>3. QED BY <3>2 DEF Exact
    <2>6. u.path = << >> \o url.path
      <3>1. url.path \in Seq(Name)
        BY <1>1 DEF Address, Path
      <3> HIDE DEF url, u
      <3>2. QED BY <1>5, <3>1, ConcatEmptySeq
    <2> HIDE DEF u, url, c, at, own, label, name
    <2>9. url \in Address /\ << >> \in Path
      BY <1>1
    <2>7. realAddress(c, u, page, browserHost) = url
      BY <1>6, <2>3, <2>5, <2>6, <2>9, ExactGivesBack
    <2>8. QED BY <2>7 DEF u, url, c
  <1>9. QED BY <1>7, <1>8

\* The parameters RestoredExactly is about.
Given(s, src) == (src.referer \/ src.trail = {src.page}) /\ ~Blurred(s, src.param.url)

\* A request gets to the restoration only where it is due.
Due(at, c, t) == at = "restore" => restores(c, t)

\* Nothing has been restored: the request is not at its site yet, or nothing is to be.
Untouched(at, c, t) == at = "site" => ~restores(c, t)

\* What a request carries until it is restored, whatever the console saves.
Kept(r) ==
    /\ Due(pc[r], sso[r], target[r])
    /\ Untouched(pc[r], sso[r], target[r]) => param[r] = Carried(written[r], source[r])

\* What a request for src carries once it is, and the name it is sent to.
Carrying(s, src, untouched, host, p) ==
    /\ s.mode # "subdomain" => host = Gate
    /\ untouched \/ ~Given(s, src) \/ p = src.param.url

ParamInv ==
    /\ RoutingInv
    /\ Unedited
    /\ \A r \in Request : Kept(r)
    /\ edits = 0 =>
         \A r \in Request :
            Carrying(settings, source[r], Untouched(pc[r], sso[r], target[r]), addr[r].host, param[r])

LEMMA ParamInitInv == Init => ParamInv
  <1> SUFFICES ASSUME Init PROVE ParamInv
    OBVIOUS
  <1>1. RoutingInv
    BY RoutingInitInv
  <1>2. settings \in Settings /\ \A r \in Request : source[r] \in Sources /\ pc[r] = "arrive" /\ addr[r] = Written(settings, source[r])
        /\ param[r] = Carried(settings, source[r])
    BY <1>1 DEF RoutingInv, CacheInv, CacheTypeOK, RouteTypeOK, Init
  <1>3. Unedited
    BY <1>2 DEF Unedited, Init, CacheInit
  <1>4. ASSUME NEW r \in Request
        PROVE  Carrying(settings, source[r], Untouched(pc[r], sso[r], target[r]), addr[r].host, param[r])
    <2>1. settings.mode # "subdomain" => addr[r].host = Gate
      BY <1>2, WrittenHere
    <2>2. Untouched(pc[r], sso[r], target[r])
      BY <1>2 DEF Untouched
    <2>3. QED BY <2>1, <2>2 DEF Carrying
  <1>5. \A r \in Request : Kept(r)
    BY <1>2 DEF Init, Kept, Due
  <1>6. QED BY <1>1, <1>3, <1>4, <1>5 DEF ParamInv

\* Restoring gives back what was carried.
LEMMA RestoredGives ==
  ASSUME Settings \subseteq DOMAIN Build, RoutingInv, Unedited, edits = 0, NEW r \in Request, Restored(r), Kept(r),
         Carrying(settings, source[r], Untouched(pc[r], sso[r], target[r]), addr[r].host, param[r]), Given(settings, source[r])
  PROVE  param'[r] = source[r].param.url
  <1> DEFINE s == settings
  <1> DEFINE src == source[r]
  <1> DEFINE at == PageAt(s, src.page)
  <1> DEFINE c == CodecOf(s)
  <1> DEFINE host == addr[r].host
  <1> DEFINE named == IF src.referer THEN decode(c, at.host, at.path) ELSE {}
  <1>1. s \in Settings /\ src \in Sources /\ param \in [Request -> Address] /\ written[r] = settings
    BY DEF RoutingInv, CacheInv, CacheTypeOK, RouteTypeOK, Unedited
  <1>2. got[r] = c /\ pc[r] = "restore"
    BY AnsweredInForce DEF Restored
  <1>3. param[r] = Carried(s, src) /\ (s.mode # "subdomain" => host = Gate)
    BY <1>1, <1>2 DEF Carrying, Kept, Untouched
  <1>4. Refer(r) = at
    BY <1>1 DEF Refer
  <1>5. PICK page \in IF named # {} THEN named ELSE IF src.trail # {} THEN src.trail ELSE {target[r]} :
          param' = [param EXCEPT ![r] = realAddress(c, @, page, host)]
    BY <1>2, <1>4 DEF Restored
  <1>6. param'[r] = realAddress(c, Carried(s, src), page, host)
    BY <1>1, <1>3, <1>5
  <1>7. (src.referer \/ src.trail = {src.page}) /\ ~Blurred(s, src.param.url)
    BY DEF Given
  <1>8. CASE src.param.kind # "origin"
    <2> HIDE DEF s, src, host
    <2>1. realAddress(c, Carried(s, src), page, host) = src.param.url
      BY <1>1, <1>3, <1>7, <1>8, ScriptRestored
    <2>2. QED BY <1>6, <2>1 DEF src
  <1>9. CASE src.param.kind = "origin"
    <2>1. (src.referer => named = decode(CodecOf(s), PageAt(s, src.page).host, PageAt(s, src.page).path)) /\ (~src.referer => named = {})
      OBVIOUS
    <2>4. (named # {} => page \in named) /\ (named = {} /\ src.trail # {} => page \in src.trail)
      BY <1>5
    <2>5. s \in Settings /\ src \in Sources /\ (s.mode # "subdomain" => host = Gate)
      BY <1>1, <1>3
    <2> HIDE DEF s, src, host, named
    <2>2. realAddress(c, Carried(s, src), page, host) = src.param.url
      BY <1>7, <1>9, <2>1, <2>4, <2>5, OriginRestored
    <2>3. QED BY <1>6, <2>2 DEF src
  <1>10. QED BY <1>8, <1>9

\* A step leaves the parameter alone, or restores one that was to be restored.
LEMMA ServeTouches ==
  ASSUME RouteTypeOK, NEW r \in Request, Serve(r), Due(pc[r], sso[r], target[r])
  PROVE  /\ Due(pc'[r], sso'[r], target'[r])
         /\ Untouched(pc[r], sso[r], target[r])
         /\ param' = param \/ (Restored(r) /\ ~Untouched(pc'[r], sso'[r], target'[r]))
  <1>1. \A where : Goto(r, where) => pc'[r] = where
    BY DEF Goto, RouteTypeOK
  <1>2. pc[r] # "site"
    BY DEF Serve, Arrive, Matched, Decoded, Unwrapped, Redirected, Strayed, Rewritten, Restored
  <1>3. CASE Restored(r)
    <2>1. pc[r] = "restore" /\ pc'[r] = "site" /\ sso' = sso /\ target' = target
      BY <1>1, <1>3 DEF Restored
    <2>2. QED BY <1>2, <1>3, <2>1 DEF Due, Untouched
  <1>4. CASE Rewritten(r)
    <2>1. PICK c \in SSOs : /\ sso' = [sso EXCEPT ![r] = c]
                            /\ (restores(c, target[r]) /\ Goto(r, "restore")) \/ (~restores(c, target[r]) /\ Goto(r, "site"))
      BY <1>4 DEF Rewritten
    <2>2. sso'[r] = c /\ target' = target /\ param' = param
      BY <1>4, <2>1 DEF Rewritten, RouteTypeOK
    <2>3. pc'[r] = "restore" => restores(c, target[r])
      BY <1>1, <2>1
    <2>4. QED BY <1>2, <2>2, <2>3 DEF Due, Untouched
  <1>5. CASE Arrive(r) \/ Matched(r) \/ Decoded(r) \/ Unwrapped(r) \/ Redirected(r) \/ Strayed(r)
    <2>1. pc'[r] # "restore" /\ param' = param
      BY <1>1, <1>5 DEF Arrive, Matched, Decoded, Unwrapped, Redirected, Strayed, Proxy, Keep
    <2>2. QED BY <1>2, <2>1 DEF Due, Untouched
  <1>6. QED BY <1>3, <1>4, <1>5 DEF Serve

\* A step keeps the name a request is sent to where a target is in its path, and
\* what a step restores is what the page meant.
LEMMA ServeCarries ==
  ASSUME Settings \subseteq DOMAIN Build, RoutingInv, Unedited, edits = 0, NEW r \in Request, Serve(r),
         Kept(r), Carrying(settings, source[r], Untouched(pc[r], sso[r], target[r]), addr[r].host, param[r])
  PROVE  Carrying(settings, source[r], Untouched(pc'[r], sso'[r], target'[r]), addr'[r].host, param'[r])
  <1> DEFINE s == settings
  <1> DEFINE src == source[r]
  <1>1. /\ s \in Settings /\ addr \in [Request -> Address] /\ fixed[r] \in Address /\ RouteTypeOK
    BY DEF RoutingInv, CacheInv, CacheTypeOK, RouteTypeOK
  <1>2. s.mode # "subdomain" => addr[r].host = Gate
    BY DEF Carrying
  <1>3. s.mode # "subdomain" => addr'[r].host = Gate
    <2>1. CASE Redirected(r)
      <3> DEFINE refs == Encode(codecSecure(got[r]), fixed[r])
      <3>1. got[r] = CodecOf(s)
        BY <2>1, AnsweredInForce DEF Redirected
      <3>2. addr' = addr \/ \E ref \in refs : addr' = [addr EXCEPT ![r] = Resolve(ref, @)]
        BY <2>1 DEF Redirected
      <3>3. ASSUME s.mode # "subdomain" PROVE addr'[r].host = Gate
        <4>1. \A ref \in refs : Resolve(ref, addr[r]).host = Gate
          BY <1>1, <1>2, <3>1, <3>3, RefHere, ResolvedHere
        <4>2. QED BY <1>1, <1>2, <3>2, <3>3, <4>1
      <3>4. QED BY <3>3
    <2>2. CASE ~Redirected(r)
      <3>1. addr' = addr
        BY <2>2 DEF Serve, Arrive, Matched, Decoded, Unwrapped, Strayed, Rewritten, Restored
      <3>2. QED BY <1>2, <3>1
    <2>3. QED BY <2>1, <2>2
  <1>4. CASE Restored(r)
    <2>1. Given(s, src) => param'[r] = src.param.url
      BY <1>4, RestoredGives
    <2>2. QED BY <1>3, <2>1 DEF Carrying
  <1>5. CASE ~Restored(r)
    <2>1. pc'[r] = "site" => ~restores(sso'[r], target'[r])
      <3>1. CASE Rewritten(r)
        <4>1. PICK c \in SSOs : /\ sso' = [sso EXCEPT ![r] = c]
                                /\ (restores(c, target[r]) /\ Goto(r, "restore")) \/ (~restores(c, target[r]) /\ Goto(r, "site"))
          BY <3>1 DEF Rewritten
        <4>2. sso'[r] = c /\ target' = target /\ (restores(c, target[r]) => pc'[r] = "restore")
          BY <1>1, <3>1, <4>1 DEF Rewritten, RouteTypeOK, Goto
        <4>3. QED BY <4>2
      <3>2. CASE ~Rewritten(r)
        <4>1. \A where : Goto(r, where) => pc'[r] = where
          BY <1>1 DEF Goto, RouteTypeOK
        <4>2. QED BY <1>5, <3>2, <4>1 DEF Serve, Arrive, Matched, Decoded, Unwrapped, Redirected, Strayed, Proxy
      <3>3. QED BY <3>1, <3>2
    <2>2. QED BY <1>3, <2>1 DEF Carrying, Untouched
  <1>6. QED BY <1>4, <1>5

LEMMA ParamStepInv ==
  ASSUME Settings \subseteq DOMAIN Build
  PROVE  ParamInv /\ [Next]_vars => ParamInv'
  <1> SUFFICES ASSUME ParamInv, [Next]_vars PROVE ParamInv'
    OBVIOUS
  <1>1. RoutingInv' /\ Unedited' /\ (edits' = 0 => edits = 0 /\ settings' = settings)
    BY RoutingStepInv, UneditedKept DEF ParamInv
  <1>2. RoutingInv /\ RouteTypeOK /\ Unedited /\ RouteTypeOK'
    BY <1>1 DEF ParamInv, RoutingInv
  <1>3. source' = source /\ written' = written
    BY DEF Next, Serve, Arrive, Matched, Decoded, Unwrapped, Redirected, Strayed, Rewritten, Restored, Keep, Asking, Saving, vars, reqVars
  <1>4. ASSUME NEW r \in Request, NEW q \in Request, Serve(q), q # r
        PROVE  pc'[r] = pc[r] /\ addr'[r] = addr[r] /\ param'[r] = param[r] /\ sso'[r] = sso[r] /\ target'[r] = target[r]
    BY <1>2, <1>4 DEF Serve, Arrive, Matched, Decoded, Unwrapped, Redirected, Strayed, Rewritten, Restored, Keep, Proxy, Goto, RouteTypeOK
  <1>5. ASSUME NEW r \in Request
        PROVE  /\ Due(pc'[r], sso'[r], target'[r])
               /\ Untouched(pc'[r], sso'[r], target'[r]) => param'[r] = Carried(written'[r], source'[r])
    <2>1. /\ Due(pc[r], sso[r], target[r])
          /\ Untouched(pc[r], sso[r], target[r]) => param[r] = Carried(written[r], source[r])
      BY DEF ParamInv, Kept
    <2>2. CASE UNCHANGED reqVars
      BY <2>1, <2>2 DEF reqVars
    <2>3. CASE Serve(r)
      BY <1>2, <1>3, <2>1, <2>3, ServeTouches
    <2>4. QED BY <1>3, <1>4, <2>1, <2>2, <2>3 DEF Next, Asking, Saving, vars
  <1>6. ASSUME NEW r \in Request, edits' = 0
        PROVE  Carrying(settings, source[r], Untouched(pc'[r], sso'[r], target'[r]), addr'[r].host, param'[r])
    <2>1. edits = 0
      BY <1>1, <1>6
    <2>2. Carrying(settings, source[r], Untouched(pc[r], sso[r], target[r]), addr[r].host, param[r]) /\ Kept(r)
      BY <2>1 DEF ParamInv
    <2>3. CASE UNCHANGED reqVars
      BY <2>2, <2>3 DEF reqVars
    <2>4. CASE Serve(r)
      BY <1>2, <2>1, <2>2, <2>4, ServeCarries
    <2>5. QED BY <1>4, <2>2, <2>3, <2>4 DEF Next, Asking, Saving, vars
  <1>7. QED BY <1>1, <1>3, <1>5, <1>6 DEF ParamInv, Kept

\* What a page hands on in a parameter reaches the site as the site would have
\* written it, where the console has restoration on for that site (realAddress
\* and sameShapeAs of restore.go, and Rewriter.JS), until the console saves,
\* provided every settings in force has its codec; where it is off, it reaches
\* the site as the page carried it, under any settings and whatever is saved
\* (rewriteRequest of proxy.go).
THEOREM ParametersAreRestored ==
  ASSUME Settings \subseteq DOMAIN Build
  PROVE  Spec => []RestoredExactly
  <1>1. ParamInv => RestoredExactly
    <2> SUFFICES ASSUME ParamInv, NEW r \in Request, pc[r] = "site"
                 PROVE  IF restores(sso[r], target[r])
                        THEN edits = 0 /\ (source[r].referer \/ source[r].trail = {source[r].page})
                                 /\ ~Blurred(written[r], source[r].param.url)
                             => param[r] = source[r].param.url
                        ELSE param[r] = Carried(written[r], source[r])
      BY DEF RestoredExactly
    <2>1. CASE restores(sso[r], target[r])
      <3> SUFFICES ASSUME edits = 0, source[r].referer \/ source[r].trail = {source[r].page},
                          ~Blurred(written[r], source[r].param.url)
                   PROVE  param[r] = source[r].param.url
        BY <2>1
      <3>1. Carrying(settings, source[r], Untouched(pc[r], sso[r], target[r]), addr[r].host, param[r])
            /\ Given(settings, source[r])
        BY DEF ParamInv, Unedited, Given
      <3>2. ~Untouched(pc[r], sso[r], target[r])
        BY <2>1 DEF Untouched
      <3>3. QED BY <3>1, <3>2 DEF Carrying
    <2>2. CASE ~restores(sso[r], target[r])
      <3>1. Untouched(pc[r], sso[r], target[r])
        BY <2>2 DEF Untouched
      <3>2. QED BY <2>2, <3>1 DEF ParamInv, Kept
    <2>3. QED BY <2>1, <2>2
  <1>2. QED BY <1>1, ParamInitInv, ParamStepInv, PTL DEF Spec

-----------------------------------------------------------------------------
(* Settings saved on the way *)

\* The codecs a request may be answered with, whatever the console saves.
InPlay == {CodecOf(s) : s \in Settings} \cup {PlainCodec}

LEMMA InPlayForms ==
  ASSUME NEW c \in InPlay
  PROVE  /\ c \in AnyCodec
         /\ \/ c = PlainCodec /\ c.mode = "plain"
            \/ c = WRDCodec /\ c.mode = "wrd"
            \/ c.mode = "subdomain" /\ \E s \in Settings : s.mode = "subdomain" /\ c = CodecOf(s)
  <1>1. PlainCodec \in AnyCodec /\ PlainCodec.mode = "plain" /\ WRDCodec.mode = "wrd"
    BY DEF AnyCodec, PlainCodec, WRDCodec
  <1>2. CASE c = PlainCodec
    BY <1>1, <1>2
  <1>3. CASE c # PlainCodec
    <2>1. PICK s \in Settings : c = CodecOf(s)
      BY <1>3 DEF InPlay
    <2>2. c \in AnyCodec /\ (c.mode = "subdomain" <=> s.mode = "subdomain")
      BY <2>1, SettingsMode
    <2>3. CASE s.mode = "subdomain"
      BY <2>1, <2>2, <2>3
    <2>4. CASE s.mode # "subdomain"
      <3>1. c = WRDCodec \/ c = PlainCodec
        BY <2>1, <2>4 DEF CodecOf
      <3>2. QED BY <1>1, <2>2, <3>1
    <2>5. QED BY <2>3, <2>4
  <1>4. QED BY <1>2, <1>3

\* The codec a call has answered with is one of them.
LEMMA AnswersInPlay ==
  ASSUME RoutingInv, NEW r \in Request, Answered(r)
  PROVE  got[r] \in InPlay
  <1>1. r \in Caller /\ got[r] # NoCodec
    BY RoutingAssumption DEF Answered
  <1>2. PICK s \in during[r] : got[r] = Answer(s)
    BY <1>1 DEF RoutingInv, CacheInv, InForce
  <1>3. s \in Settings
    BY <1>1, <1>2 DEF RoutingInv, CacheInv, CacheTypeOK
  <1>4. QED BY <1>2, <1>3, BuildAssumption DEF Answer, InPlay

\* Whether a name is a label's does not depend on the path behind it.
LEMMA HostAlone ==
  ASSUME NEW c, NEW host, NEW path, NEW other
  PROVE  /\ HostDecode(c, host, path) = {} <=> HostDecode(c, host, other) = {}
         /\ \A v \in HostDecode(c, host, path) : \E w \in HostDecode(c, host, other) : w.host = v.host /\ w.port = v.port
  <1> DEFINE label == SubSeq(host, 1, Len(host) - Len(c.base) - 1)
  <1> DEFINE d == decodeLabel(label)
  <1> DEFINE none == host = c.portal \/ ~Under(host, c.base) \/ Contains(label, ".") \/ d.port \in BadPorts \/ d.hostname = << >>
  <1> DEFINE scheme == IF d.tls THEN "https" ELSE "http"
  <1>1. ASSUME NEW p PROVE HostDecode(c, host, p) = IF none THEN {} ELSE {URL(scheme, d.hostname, d.port, IF p = << >> THEN Root ELSE p)}
    BY DEF HostDecode, assemble
  <1>2. \A p : URL(scheme, d.hostname, d.port, p).host = d.hostname /\ URL(scheme, d.hostname, d.port, p).port = d.port
    BY DEF URL
  <1> DEFINE at(p) == URL(scheme, d.hostname, d.port, IF p = << >> THEN Root ELSE p)
  <1>3. at(path).host = at(other).host /\ at(path).port = at(other).port
    BY <1>2
  <1>4. HostDecode(c, host, path) = (IF none THEN {} ELSE {at(path)}) /\ HostDecode(c, host, other) = (IF none THEN {} ELSE {at(other)})
    BY <1>1
  <1> HIDE DEF none, at
  <1>5. QED BY <1>3, <1>4

\* A name under two wildcard domains is the same label under both.
LEMMA LabelsAlike ==
  ASSUME NEW c \in AnyCodec, c.mode = "subdomain", NEW e \in AnyCodec, e.mode = "subdomain",
         NEW host \in Name, NEW path, HostDecode(c, host, path) # {}, HostDecode(e, host, path) # {}
  PROVE  HostDecode(c, host, path) = HostDecode(e, host, path)
  <1>1. c.base \in Name /\ e.base \in Name
    BY Modes
  <1> DEFINE Label(d) == SubSeq(host, 1, Len(host) - Len(d.base) - 1)
  <1>2. \A d \in {c, e} : Under(host, d.base) /\ ~Contains(Label(d), ".")
    BY DEF HostDecode
  <1>3. ASSUME NEW d \in {c, e}
        PROVE  /\ Len(d.base) \in Nat /\ Len(host) \in Nat /\ Len(host) > Len(d.base) + 1
               /\ host[Len(host) - Len(d.base)] = "."
               /\ \A k \in 1..(Len(host) - Len(d.base) - 1) : host[k] # "."
    <2> DEFINE b == d.base
    <2>1. b \in Name /\ Len(b) \in Nat /\ host \in Seq(Token) /\ Len(host) \in Nat /\ b \in Seq(Token)
      BY <1>1, LenProperties DEF Name
    <2>2. Len(host) > Len(b) + 1 /\ IsSuffix(<<".">> \o b, host)
      BY <1>2 DEF Under
    <2>3. "." \in Token
      BY AddressingAssumption
    <2>4. <<".">> \in Seq(Token) /\ Len(<<".">>) = 1 /\ <<".">>[1] = "."
      BY <2>3, Singles
    <2> DEFINE t == <<".">> \o b
    <2>5. t \in Seq(Token) /\ Len(t) = 1 + Len(b) /\ t[1] = "."
      <3>1. t \in Seq(Token) /\ Len(t) = Len(<<".">>) + Len(b) /\ \A k \in 1..(Len(<<".">>) + Len(b)) : t[k] = IF k <= Len(<<".">>) THEN <<".">>[k] ELSE b[k - Len(<<".">>)]
        BY <2>1, <2>4, ConcatProperties
      <3> HIDE DEF t, b
      <3>2. QED BY <2>1, <2>4, <3>1
    <2> HIDE DEF t
    <2>6. IsSuffix(t, host)
      BY <2>2 DEF t
    <2>7. \A k \in 1..Len(t) : host[Len(host) - Len(t) + k] = t[k]
      BY <2>1, <2>5, <2>6, SuffixMeans
    <2>8. host[Len(host) - Len(b)] = "."
      <3> HIDE DEF b
      <3>1. 1 \in 1..Len(t) /\ Len(host) - Len(t) + 1 = Len(host) - Len(b)
        BY <2>1, <2>5
      <3>2. QED BY <2>5, <2>7, <3>1
    <2>9. ASSUME NEW k \in 1..(Len(host) - Len(b) - 1) PROVE host[k] # "."
      <3> DEFINE n == Len(host) - Len(b) - 1
      <3>1. n \in Nat /\ n <= Len(host) /\ 1 \in Int /\ n - 1 + 1 = n
        <4> HIDE DEF b
        <4>1. QED BY <2>1, <2>2
      <3>2. \A j \in 1..n : host[j] \in Token
        <4> HIDE DEF b
        <4>1. n \in Nat /\ n <= Len(host)
          BY <3>1
        <4> HIDE DEF n
        <4>2. QED BY <2>1, <4>1, Element
      <3> HIDE DEF n
      <3>3. Len(SubSeq(host, 1, n)) = n /\ SubSeq(host, 1, n)[k] = host[k]
        <4>1. SubSeq(host, 1, n) \in Seq(Token) /\ Len(SubSeq(host, 1, n)) = IF 1 <= n THEN n - 1 + 1 ELSE 0
          BY <3>1, <3>2, SubSeqProperties
        <4>2. k \in 1..n
          BY <2>9 DEF n
        <4>3. 1 <= n /\ k \in 1..(n - 1 + 1)
          BY <3>1, <4>2
        <4>4. SubSeq(host, 1, n)[k] = host[1 + k - 1]
          BY <3>1, <3>2, <4>3, SubSeqProperties
        <4>5. 1 + k - 1 = k
          BY <4>2, <3>1
        <4>6. QED BY <3>1, <4>1, <4>3, <4>4, <4>5
      <3>4. ~Contains(SubSeq(host, 1, n), ".")
        BY <1>2 DEF n
      <3>5. k \in 1..n
        BY DEF n
      <3>6. QED BY <3>3, <3>4, <3>5 DEF Contains
    <2>10. QED BY <2>1, <2>2, <2>8, <2>9
  <1>4. Len(c.base) = Len(e.base)
    <2> DEFINE l == Len(host)
    <2> DEFINE p == Len(c.base)
    <2> DEFINE q == Len(e.base)
    <2>1. p \in Nat /\ l \in Nat /\ l > p + 1 /\ host[l - p] = "." /\ \A k \in 1..(l - p - 1) : host[k] # "."
      BY <1>3
    <2>2. q \in Nat /\ l > q + 1 /\ host[l - q] = "." /\ \A k \in 1..(l - q - 1) : host[k] # "."
      BY <1>3
    <2> HIDE DEF l, p, q
    <2>3. ~(p < q)
      <3>1. p < q => l - q \in 1..(l - p - 1)
        BY <2>1, <2>2
      <3>2. QED BY <2>1, <2>2, <3>1
    <2>4. ~(q < p)
      <3>1. q < p => l - p \in 1..(l - q - 1)
        BY <2>1, <2>2
      <3>2. QED BY <2>1, <2>2, <3>1
    <2>5. p = q
      BY <2>1, <2>2, <2>3, <2>4
    <2>6. QED BY <2>5 DEF p, q
  <1> DEFINE label == Label(c)
  <1> DEFINE d == decodeLabel(label)
  <1> DEFINE both == assemble(IF d.tls THEN "https" ELSE "http", d.hostname, d.port, path)
  <1>5. Label(e) = label
    BY <1>4
  <1>6. HostDecode(c, host, path) = both
    BY DEF HostDecode
  <1>7. HostDecode(e, host, path) = both
    <2> HIDE DEF both
    <2>1. HostDecode(e, host, path) = assemble(IF decodeLabel(Label(e)).tls THEN "https" ELSE "http", decodeLabel(Label(e)).hostname, decodeLabel(Label(e)).port, path)
      BY DEF HostDecode
    <2>2. QED BY <1>5, <2>1 DEF both
  <1>8. QED BY <1>6, <1>7

\* What each codec makes of an address that is not in the path form.
LEMMA OtherForms ==
  ASSUME NEW c \in InPlay, NEW host, NEW path, ~PlainMatch(path)
  PROVE  /\ c.mode = "plain" => decode(c, host, path) = {}
         /\ c.mode = "wrd" => decode(c, host, path) = decode(WRDCodec, host, path)
         /\ c.mode = "wrd" /\ ~WRDMatch(path) => decode(c, host, path) = {}
         /\ c.mode = "subdomain" => decode(c, host, path) = HostDecode(c, host, path)
         /\ c.mode = "subdomain" /\ ~Shadowed(host) => decode(c, host, path) = {}
  <1>1. c.mode = "plain" => decode(c, host, path) = {}
    BY DEF decode, Decode, PlainDecode
  <1>2. c.mode = "wrd" => c = WRDCodec
    BY InPlayForms DEF PlainCodec
  <1>3. c.mode = "wrd" /\ ~WRDMatch(path) => decode(c, host, path) = {}
    BY DEF decode, Decode, WRDDecode
  <1>4. c.mode = "subdomain" => decode(c, host, path) = HostDecode(c, host, path)
    BY DEF decode, Decode
  <1>5. ASSUME c.mode = "subdomain", ~Shadowed(host) PROVE HostDecode(c, host, path) = {}
    <2>1. PICK s \in Settings : s.mode = "subdomain" /\ c = CodecOf(s)
      BY <1>5, InPlayForms DEF PlainCodec, WRDCodec
    <2>2. HostDecode(c, host, Root) = {}
      BY <1>5, <2>1 DEF Shadowed
    <2>3. QED BY <2>2, HostAlone
  <1>6. QED BY <1>1, <1>2, <1>3, <1>4, <1>5

\* An address in the path form is read alike by every codec.
LEMMA PathFormAlike ==
  ASSUME NEW c, NEW host, NEW path, PlainMatch(path)
  PROVE  decode(c, host, path) = PlainDecode(path)
  BY DEF decode

\* An address one codec claims is read by no other as another target, unless it
\* lies on a shadowed name or its path begins as an address of wrd does.
LEMMA ReadAlike ==
  ASSUME NEW t \in Settings, NEW a \in Address, NEW v \in Address,
         decode(CodecOf(t), a.host, a.path) = {v},
         PlainMatch(a.path) \/ Match(CodecOf(t), a.host, a.path),
         ~PlainMatch(a.path) /\ t.mode = "wrd" => ~Shadowed(a.host),
         ~PlainMatch(a.path) /\ t.mode = "subdomain" => ~WRDMatch(a.path)
  PROVE  \A c \in InPlay : decode(c, a.host, a.path) \subseteq {v}
  <1> SUFFICES ASSUME NEW c \in InPlay PROVE decode(c, a.host, a.path) \subseteq {v}
    OBVIOUS
  <1> DEFINE d == CodecOf(t)
  <1>1. d \in InPlay /\ a.host \in Name
    BY DEF InPlay, Address
  <1>2. (d.mode = "subdomain" <=> t.mode = "subdomain") /\ (d.mode = "wrd" <=> t.mode = "wrd")
    BY SettingsMode
  <1>3. decode(d, a.host, a.path) = {v} /\ (PlainMatch(a.path) \/ Match(d, a.host, a.path))
    OBVIOUS
  <1> HIDE DEF d
  <1>4. CASE PlainMatch(a.path)
    BY <1>3, <1>4, PathFormAlike
  <1>5. CASE ~PlainMatch(a.path) /\ d.mode = "wrd"
    <2>1. ~Shadowed(a.host)
      BY <1>2, <1>5
    <2>2. c.mode \in {"plain", "wrd", "subdomain"}
      BY InPlayForms
    <2>3. decode(d, a.host, a.path) = decode(WRDCodec, a.host, a.path)
      BY <1>1, <1>5, OtherForms
    <2>4. QED BY <1>3, <1>5, <2>1, <2>2, <2>3, OtherForms
  <1>6. CASE ~PlainMatch(a.path) /\ d.mode = "subdomain"
    <2>1. ~WRDMatch(a.path)
      BY <1>2, <1>6
    <2>2. decode(d, a.host, a.path) = HostDecode(d, a.host, a.path)
      BY <1>1, <1>6, OtherForms
    <2>3. CASE c.mode = "subdomain"
      <3>1. c \in AnyCodec /\ d \in AnyCodec
        BY <1>1, InPlayForms
      <3>2. decode(c, a.host, a.path) = HostDecode(c, a.host, a.path)
        BY <1>6, <2>3, OtherForms
      <3>3. HostDecode(c, a.host, a.path) # {} => HostDecode(c, a.host, a.path) = HostDecode(d, a.host, a.path)
        BY <1>1, <1>3, <1>6, <2>2, <2>3, <3>1, LabelsAlike
      <3>4. QED BY <1>3, <2>2, <3>2, <3>3
    <2>4. CASE c.mode # "subdomain"
      BY <1>6, <2>1, <2>4, InPlayForms, OtherForms
    <2>5. QED BY <2>3, <2>4
  <1>7. CASE ~PlainMatch(a.path) /\ d.mode = "plain"
    BY <1>3, <1>7 DEF Match
  <1>8. QED BY <1>1, <1>4, <1>5, <1>6, <1>7, InPlayForms

LEMMA ReadByNone ==
  ASSUME NEW a, ~PlainMatch(a.path), ~WRDMatch(a.path), ~Shadowed(a.host)
  PROVE  \A c \in InPlay : decode(c, a.host, a.path) = {}
  BY InPlayForms, OtherForms

\* Where an address leads it leads under every codec, or nowhere.
LEMMA LeadsAlike ==
  ASSUME NEW t \in Settings, NEW a, NEW m \in Address, Leads(t, a, m),
         ~PlainMatch(a.path) /\ t.mode = "wrd" => ~Shadowed(a.host),
         t.mode = "subdomain" => ~WRDMatch(PathOf(m))
  PROVE  \A c \in InPlay : \A v \in decode(c, a.host, a.path) : Agrees(v, m)
  <1>1. a \in Address /\ a.path # << >> /\ (PlainMatch(a.path) \/ Match(CodecOf(t), a.host, a.path))
    BY DEF Leads
  <1>2. PICK v \in Address : decode(CodecOf(t), a.host, a.path) = {v} /\ Agrees(v, m)
    BY DEF Leads
  <1>3. ASSUME ~PlainMatch(a.path), t.mode = "subdomain" PROVE ~WRDMatch(a.path)
    <2>1. CodecOf(t) \in InPlay /\ CodecOf(t).mode = "subdomain"
      BY <1>3, SettingsMode DEF InPlay
    <2>2. v \in HostDecode(CodecOf(t), a.host, a.path)
      BY <1>2, <1>3, <2>1, OtherForms
    <2>3. v.path = a.path
      <3> DEFINE d == decodeLabel(SubSeq(a.host, 1, Len(a.host) - Len(CodecOf(t).base) - 1))
      <3> DEFINE scheme == IF d.tls THEN "https" ELSE "http"
      <3> DEFINE p == IF a.path = << >> THEN Root ELSE a.path
      <3>1. v = URL(scheme, d.hostname, d.port, p)
        BY <2>2 DEF HostDecode, assemble
      <3>2. p = a.path
        BY <1>1
      <3> HIDE DEF d, scheme, p
      <3>3. QED BY <3>1, <3>2, URLParts
    <2>4. PathOf(v) = PathOf(m)
      BY <1>2, AgreesParts
    <2>5. PathOf(m) = a.path
      BY <1>1, <2>3, <2>4 DEF PathOf
    <2>6. QED BY <1>3, <2>5
  <1>4. \A c \in InPlay : decode(c, a.host, a.path) \subseteq {v}
    BY <1>1, <1>2, <1>3, ReadAlike
  <1>5. QED BY <1>2, <1>4

\* What a request for src, written under s, may be decoded to at a host of the
\* gateway, and an address that leads to nothing else under any codec.
Hints(s, src, host, v) ==
    Agrees(v, Meant(src)) \/ (Wrapped(s, src, v) /\ s.mode # "subdomain" /\ host = Gate)
Points(s, src, a) ==
    a \in Address /\ \A c \in InPlay : \A v \in decode(c, a.host, a.path) : Hints(s, src, a.host, v)
\* The requests NeverElsewhere is about.
Bound(s, src) == src.kind \notin {"portal", "own"} /\ ~Excepted(s, src) /\ ~Misled(s, src)

\* Only the path modes put the gateway's part into a pathname that matters.
LEMMA WrappedByPath ==
  ASSUME NEW s \in Settings, NEW src \in Sources, Bound(s, src), NEW v, Wrapped(s, src, v)
  PROVE  s.mode # "subdomain"
  <1> SUFFICES ASSUME s.mode = "subdomain" PROVE FALSE
    OBVIOUS
  <1> DEFINE w == src.want
  <1> DEFINE secure == codecSecure(CodecOf(s))
  <1> DEFINE carried == PageAt(s, w).path
  <1> DEFINE name == encodeLabel(w.host, EncodedPort(w), isTLSScheme(w.scheme)) \o <<".">> \o s.base
  <1> DEFINE address == URL(gatewayScheme(secure, w.scheme), name, s.port, PathOf(w))
  <1>1. w \in Address /\ ~Inside(s, w) /\ w.host # << >> /\ carried \in Path
    BY SourceTyped, MeantSite, PageAtTyped DEF Bound, Excepted, Upstream, Address
  <1>2. PathRef(carried) \in Encode(secure, w) /\ src.kind = "folded"
    BY DEF Wrapped
  <1>3. ~PlainMatch(carried)
    BY <1>2 DEF Bound, Misled
  <1>4. PathRef(carried).host = << >> /\ PathRef(carried).path = carried
    BY PathRefParts
  <1>5. Encode(secure, w) = PlainEncode(w) \/ Encode(secure, w) = {address}
    BY <1>1, EncodeForms
  <1>6. name # << >> /\ address.host = name
    <2>1. name # << >>
      BY <1>1, LabelUnder
    <2> HIDE DEF name
    <2>2. QED BY <2>1, URLParts
  <1> HIDE DEF address, carried, secure
  <1>7. CASE Encode(secure, w) = PlainEncode(w)
    <2>1. PathRef(carried) = PathRef(PlainPath(w)) /\ PlainMatch(PlainPath(w))
      BY <1>1, <1>2, <1>7, PlainPathParts
    <2>2. QED BY <1>3, <1>4, <2>1, PathRefParts
  <1>8. CASE Encode(secure, w) = {address}
    BY <1>2, <1>4, <1>6, <1>8
  <1>9. QED BY <1>5, <1>7, <1>8

\* What the page carries points to its target, whatever comes to be in force.
LEMMA WrittenPoints ==
  ASSUME NEW s \in Settings, NEW src \in Sources, Bound(s, src)
  PROVE  Points(s, src, Written(s, src))
  <1> DEFINE a == Written(s, src)
  <1> DEFINE m == Meant(src)
  <1>1. ~Excepted(s, src) /\ src.kind \notin {"portal", "own"} /\ m \in Address
    BY MeantTyped DEF Bound
  <1>2. Leads(s, a, m) \/ LeadsWrapped(s, a, src) \/ Astray(s, a, src)
    BY <1>1, WrittenWell DEF Named
  <1>3. /\ s.mode = "subdomain" => ~WRDMatch(PathOf(m))
        /\ a.host = PortalAt(s).host /\ ~PlainMatch(a.path) => ~Shadowed(a.host)
    BY DEF Bound, Misled
  <1>4. s.mode # "subdomain" => a.host = Gate /\ PortalAt(s).host = Gate
    BY WrittenHere, PortalParts
  <1>5. CASE Leads(s, a, m)
    <2>1. a \in Address
      BY <1>5 DEF Leads
    <2> HIDE DEF a, m
    <2>2. ~PlainMatch(a.path) /\ s.mode = "wrd" => ~Shadowed(a.host)
      BY <1>3, <1>4
    <2>3. \A c \in InPlay : \A v \in decode(c, a.host, a.path) : Agrees(v, m)
      BY <1>1, <1>3, <1>5, <2>2, LeadsAlike
    <2>4. QED BY <2>1, <2>3 DEF Points, Hints, a, m
  <1>6. CASE LeadsWrapped(s, a, src)
    <2>1. a \in Address /\ (PlainMatch(a.path) \/ Match(CodecOf(s), a.host, a.path))
      BY <1>6 DEF LeadsWrapped
    <2>2. PICK v \in Address : decode(CodecOf(s), a.host, a.path) = {v} /\ Wrapped(s, src, v)
      BY <1>6 DEF LeadsWrapped
    <2>3. s.mode # "subdomain"
      BY <2>2, WrappedByPath
    <2> HIDE DEF a
    <2>4. \A c \in InPlay : decode(c, a.host, a.path) \subseteq {v}
      BY <1>3, <1>4, <2>1, <2>2, <2>3, ReadAlike
    <2>5. QED BY <1>4, <2>1, <2>2, <2>3, <2>4 DEF Points, Hints, a
  <1>7. CASE Astray(s, a, src)
    <2>1. /\ src.kind = "origin" /\ InPath(s, src.page) /\ a \in Address /\ a.path = src.want.path
          /\ a.path # << >> /\ ~PlainMatch(a.path)
      BY <1>7 DEF Astray
    <2>2. ~WRDMatch(a.path)
      BY <1>1, <2>1 DEF Excepted, Misses
    <2>3. a.host = PortalAt(s).host
      <3>1. ~Inside(s, src.page)
        <4>1. src.page.host = src.want.host /\ ~Inside(s, src.want)
          BY <1>1, <2>1, SamePlace DEF Excepted
        <4>2. QED BY <4>1 DEF Inside
      <3>2. PageAt(s, src.page).host = PortalAt(s).host /\ PageAt(s, src.page) \in Address
        BY <2>1, <3>1, PageNamed, SourceTyped, PageAtTyped
      <3>3. Followed(s, src) = [PageAt(s, src.page) EXCEPT !.path = PathOf(src.want)]
        BY <2>1 DEF Followed
      <3>4. a.host = Followed(s, src).host
        BY <3>2, <3>3 DEF Written, Address
      <3>5. QED BY <3>2, <3>3, <3>4 DEF Address
    <2>4. ~Shadowed(a.host)
      BY <1>3, <2>1, <2>3
    <2> HIDE DEF a
    <2>5. \A c \in InPlay : decode(c, a.host, a.path) = {}
      BY <2>1, <2>2, <2>4, ReadByNone
    <2>6. QED BY <2>1, <2>5 DEF Points, a
  <1>8. QED BY <1>2, <1>5, <1>6, <1>7

\* The ends of what lies behind something are ends of the whole.
LEMMA FromBehind ==
  ASSUME NEW S, NEW x \in Seq(S), NEW q \in Seq(S), NEW j \in 1..Len(q)
  PROVE  From(x \o q, Len(x) + j) = From(q, j)
  <1> DEFINE l == Len(x)
  <1> DEFINE n == Len(q)
  <1> DEFINE i == l + j
  <1> DEFINE e == l + n
  <1>1. l \in Nat /\ n \in Nat /\ j \in Int
    BY LenProperties
  <1>2. i \in l + 1..l + n /\ e \in l + 1..l + n /\ i - l = j /\ e - l = n
    <2> HIDE DEF l, n
    <2>1. j \in 1..n
      BY DEF n
    <2>2. QED BY <1>1, <2>1
  <1>3. Len(x \o q) = e
    BY ConcatProperties
  <1>4. SubSeq(x \o q, i, e) = SubSeq(q, i - l, e - l)
    <2> HIDE DEF i, e
    <2>1. QED BY <1>2, SubSeqOfConcat2
  <1> HIDE DEF l, n, i, e
  <1>5. QED BY <1>2, <1>3, <1>4 DEF From, i, l, n

\* A target that nothing names again is left alone whichever codec unwraps it.
LEMMA NothingFoldedEver ==
  ASSUME NEW t \in Address, NEW m \in Address, Agrees(t, m), \A s \in Settings : ~Nested(s, m), Settings # {},
         NEW c \in InPlay
  PROVE  Folded(c, t) = {}
  <1>1. \A s \in Settings : Folded(CodecOf(s), t) = {}
    BY NothingFolded
  <1>2. CASE \E s \in Settings : c = CodecOf(s)
    BY <1>1, <1>2
  <1>3. CASE c = PlainCodec
    <2>1. PICK s \in Settings : TRUE
      OBVIOUS
    <2>2. c.mode = "plain"
      BY <1>3 DEF PlainCodec
    <2>3. ASSUME NEW i \in Folded(c, t) PROVE FALSE
      <3>1. i \in 2..Len(t.path)
        BY DEF Folded
      <3>2. PICK inner \in decode(c, t.host, From(t.path, i)) : HostPort(inner) = HostPort(t)
        BY DEF Folded
      <3>3. PlainMatch(From(t.path, i))
        BY <2>2, <3>2 DEF decode, Decode, PlainDecode
      <3>4. inner \in decode(CodecOf(s), t.host, From(t.path, i))
        BY <3>2, <3>3, PathFormAlike
      <3>5. i \in Folded(CodecOf(s), t)
        BY <3>1, <3>2, <3>4 DEF Folded
      <3>6. QED BY <1>1, <3>5
    <2>4. QED BY <2>3
  <1>4. QED BY <1>2, <1>3 DEF InPlay

\* What a folded address holds under wrd, part by part.
LEMMA WrappedUnderWRD ==
  ASSUME NEW s \in Settings, s.mode = "wrd", NEW src \in Sources, ~Excepted(s, src), NEW t, Wrapped(s, src, t)
  PROVE  LET q == PathOf(src.want)
         IN  \E x \in Seq(Name) :
               /\ Len(x) = 3 /\ t.path = x \o q /\ q \in Seq(Name) /\ q # << >>
               /\ ~PlainMatch(From(t.path, 2)) /\ ~PlainMatch(From(t.path, 3))
  <1> DEFINE w == src.want
  <1> DEFINE q == PathOf(w)
  <1> DEFINE carried == PageAt(s, w).path
  <1> DEFINE scheme == WRDScheme(w)
  <1> DEFINE name == <<Hidden>> \o w.host
  <1> DEFINE head == <<scheme, name>>
  <1>1. /\ w \in Address /\ w.host # << >> /\ ~Inside(s, w) /\ q \in Seq(Name) /\ q # << >> /\ Len(q) \in Nat \ {0}
    BY SourceTyped, MeantSite, PathOfTyped, LenProperties, EmptySeq DEF Excepted, Upstream, Path
  <1>2. t.path = Base \o carried /\ PathRef(carried) \in Encode(codecSecure(CodecOf(s)), w)
    BY DEF Wrapped
  <1>3. PathRef(carried) \in WRDEncode(w)
    BY <1>1, <1>2, EncodeForms
  <1>4. carried = head \o q
    <2>1. PathRef(carried) = PathRef(head \o q)
      BY <1>3 DEF WRDEncode
    <2> DEFINE p == head \o q
    <2>2. \A x : PathRef(x).path = x
      BY DEF PathRef, URL
    <2>3. PathRef(carried) = PathRef(p)
      BY <2>1
    <2> HIDE DEF carried, p
    <2>4. PathRef(carried).path = carried /\ PathRef(p).path = p
      BY <2>2
    <2>5. carried = p
      BY <2>3, <2>4, Zenon
    <2>6. QED BY <2>5 DEF p
  <1>5. ~PlainMatch(carried)
    BY <1>1, <1>3, WRDPathIsNotPlain, PathRefParts
  <1>6. scheme \in Name /\ name \in Name /\ Len(name) > 1 /\ <<"d">> \in Name
    <2>1. w.scheme \in Token /\ "-" \in Token /\ (EncodedPort(w) # "" => w.port \in Token) /\ "d" \in Token
      BY <1>1, Tokens, AddressingAssumption, BuildAssumption DEF EncodedPort, Address
    <2>2. scheme \in Name
      BY <2>1, Singles DEF WRDScheme, Name
    <2>3. w.host \in Seq(Token) /\ <<Hidden>> \in Seq(Token) /\ Len(<<Hidden>>) = 1 /\ Len(w.host) \in Nat \ {0}
      <3>1. Hidden \in Token
        BY AddressingAssumption DEF Hidden
      <3>2. QED BY <1>1, <3>1, Singles, LenProperties, EmptySeq DEF Address, Name
    <2>4. name \in Seq(Token) /\ Len(name) = 1 + Len(w.host)
      BY <2>3, ConcatProperties
    <2>5. <<"d">> \in Name
      BY <2>1, Singles DEF Name
    <2> HIDE DEF name, scheme
    <2>6. QED BY <2>2, <2>3, <2>4, <2>5 DEF Name
  <1> HIDE DEF scheme, name
  <1> DEFINE x == Base \o head
  <1>7. Base \in Seq(Name) /\ Len(Base) = 1 /\ head \in Seq(Name) /\ Len(head) = 2 /\ head[2] = name
    BY <1>6, Singles DEF Base
  <1>8. x \in Seq(Name) /\ Len(x) = 3
    <2> HIDE DEF head
    <2>1. Base \in Seq(Name) /\ head \in Seq(Name)
      BY <1>7
    <2>2. Base \o head \in Seq(Name) /\ Len(Base \o head) = Len(Base) + Len(head)
      BY <2>1, ConcatProperties
    <2>3. QED BY <1>7, <2>2
  <1>9. t.path = x \o q
    <2> HIDE DEF head, q
    <2>1. QED BY <1>1, <1>2, <1>4, <1>7, ConcatAssociative
  <1>10. carried \in Seq(Name) /\ Len(carried) = 2 + Len(q) /\ carried[2] = name
    <2> HIDE DEF head, q, carried
    <2>1. /\ head \o q \in Seq(Name) /\ Len(head \o q) = Len(head) + Len(q)
          /\ \A k \in 1..(Len(head) + Len(q)) : (head \o q)[k] = IF k <= Len(head) THEN head[k] ELSE q[k - Len(head)]
      <3>1. head \in Seq(Name) /\ q \in Seq(Name)
        BY <1>1, <1>7
      <3>2. QED BY <3>1, ConcatProperties
    <2>2. carried \in Seq(Name) /\ Len(carried) = 2 + Len(q)
          /\ \A k \in 1..(2 + Len(q)) : carried[k] = IF k <= 2 THEN head[k] ELSE q[k - 2]
      BY <1>4, <1>7, <2>1
    <2>3. 2 \in 1..(2 + Len(q)) /\ 2 <= 2
      BY <1>1
    <2>4. QED BY <1>7, <2>2, <2>3
  <1>11. \A j \in 1..Len(carried) : From(t.path, 1 + j) = From(carried, j)
    <2> HIDE DEF carried, q, head
    <2>1. ASSUME NEW j \in 1..Len(carried) PROVE From(t.path, 1 + j) = From(carried, j)
      <3>1. From(Base \o carried, Len(Base) + j) = From(carried, j)
        BY <1>7, <1>10, FromBehind
      <3>2. QED BY <1>2, <1>7, <3>1
    <2>2. QED BY <2>1
  <1> HIDE DEF carried, q, head
  <1>12. From(t.path, 2) = carried
    <2>1. 1 \in 1..Len(carried) /\ 1 + 1 = 2
      BY <1>1, <1>10
    <2>2. From(carried, 1) = carried
      BY <1>10, SubSeqFull DEF From
    <2>3. QED BY <1>11, <2>1, <2>2
  <1>13. ~PlainMatch(From(t.path, 3))
    <2>1. 2 \in 1..Len(carried) /\ 1 + 2 = 3
      BY <1>1, <1>10
    <2>2. From(t.path, 3) = From(carried, 2)
      BY <1>11, <2>1
    <2>3. From(carried, 2)[1] = name
      <3> DEFINE l == Len(carried)
      <3>1. l \in Nat /\ 2 <= l /\ 2 \in Int
        BY <1>1, <1>10
      <3>2. \A k \in 2..l : carried[k] \in Name
        <4>1. \A k \in 2..l : k \in Nat \ {0} /\ k <= l
          BY <3>1
        <4>2. QED BY <1>10, <4>1, Element
      <3> HIDE DEF l
      <3>3. 1 \in 1..(l - 2 + 1) /\ 2 + 1 - 1 = 2
        BY <3>1
      <3>4. SubSeq(carried, 2, l)[1] = carried[2 + 1 - 1]
        BY <3>1, <3>2, <3>3, SubSeqProperties
      <3>5. QED BY <1>10, <3>3, <3>4 DEF From, l
    <2>4. name # PlainPrefix
      <3>1. Len(PlainPrefix) = 1
        BY DEF PlainPrefix
      <3>2. name = PlainPrefix => Len(name) = 1
        BY <3>1, Zenon
      <3>3. Len(name) # 1
        <4>1. ~(1 > 1)
          OBVIOUS
        <4>2. QED BY <1>6, <4>1, Zenon
      <3>4. QED BY <3>2, <3>3
    <2>5. QED BY <2>2, <2>3, <2>4 DEF PlainMatch
  <1>14. QED BY <1>1, <1>5, <1>8, <1>9, <1>12, <1>13 DEF q

\* The form a name and a port take tells nothing of the path.
LEMMA SameHostPort ==
  ASSUME NEW u, NEW v, u.host = v.host, u.port = v.port
  PROVE  HostPort(u) = HostPort(v)
  BY DEF HostPort

\* No other codec finds the target in what wrd carries.
LEMMA WRDStays ==
  ASSUME NEW s \in Settings, s.mode = "wrd", NEW src \in Sources, Bound(s, src), NEW t, Wrapped(s, src, t),
         NEW c \in InPlay, c.mode # "wrd"
  PROVE  Folded(c, t) = {}
  <1> DEFINE w == src.want
  <1> DEFINE m == Meant(src)
  <1> DEFINE q == PathOf(w)
  <1> DEFINE u == [m EXCEPT !.port = t.port]
  <1>1. /\ ~Excepted(s, src) /\ \A e \in Settings : ~Nested(e, m)
    BY DEF Bound, Misled
  <1>2. /\ w \in Address /\ m \in Address /\ m.host = w.host /\ m.port = w.port /\ EncodedPort(m) = EncodedPort(w)
    BY SourceTyped, MeantSite
  <1>3. t \in Address /\ t.host = m.host /\ t.port = EncodedPort(m) /\ src.kind = "folded"
    BY <1>2 DEF Wrapped
  <1>4. PICK x \in Seq(Name) : /\ Len(x) = 3 /\ t.path = x \o q /\ q \in Seq(Name) /\ q # << >>
                               /\ ~PlainMatch(From(t.path, 2)) /\ ~PlainMatch(From(t.path, 3))
    BY <1>1, WrappedUnderWRD
  <1>5. m.path = Base \o q
    <2> DEFINE p == Base \o q
    <2>1. m = [w EXCEPT !.path = p]
      BY <1>3 DEF Meant, Base
    <2> HIDE DEF p, w, m
    <2>2. QED BY <1>2, <2>1, Repathed, URLParts DEF p
  <1>6. u.host = t.host /\ u.port = t.port /\ u.path = m.path /\ HostPort(u) = HostPort(t)
    <2>1. u.host = m.host /\ u.port = t.port /\ u.path = m.path
      BY <1>2 DEF Address
    <2> HIDE DEF u, m
    <2>2. QED BY <1>3, <2>1, SameHostPort
  <1>7. \A e \in Settings : Folded(CodecOf(e), u) = {}
    BY <1>1, <1>3 DEF Nested
  <1> HIDE DEF u, m, w, q
  <1>8. Base \in Seq(Name) /\ Len(Base) = 1
    <2>1. <<"d">> \in Name
      BY BuildAssumption, Singles DEF Name
    <2>2. QED BY <2>1, Singles DEF Base
  <1>9. Len(q) \in Nat \ {0} /\ Len(t.path) = 3 + Len(q) /\ u.path \in Seq(Name) /\ Len(u.path) = 1 + Len(q)
    <2>1. Len(q) \in Nat \ {0}
      BY <1>4, LenProperties, EmptySeq
    <2>2. Len(x \o q) = Len(x) + Len(q)
      BY <1>4, ConcatProperties
    <2>3. Base \o q \in Seq(Name) /\ Len(Base \o q) = Len(Base) + Len(q)
      BY <1>4, <1>8, ConcatProperties
    <2>4. QED BY <1>4, <1>5, <1>6, <1>8, <2>1, <2>2, <2>3
  <1>10. ASSUME NEW i \in Folded(c, t) PROVE FALSE
    <2>1. i \in 2..Len(t.path)
      BY DEF Folded
    <2>2. PICK inner \in decode(c, t.host, From(t.path, i)) : HostPort(inner) = HostPort(t)
      BY DEF Folded
    <2>3. CASE PlainMatch(From(t.path, i))
      <3> DEFINE j == i - 3
      <3>1. i # 2 /\ i # 3
        BY <1>4, <2>3
      <3>2. j \in 1..Len(q) /\ i = 3 + j /\ 1 + j \in 2..Len(u.path)
        BY <1>9, <2>1, <3>1
      <3> HIDE DEF j
      <3>3. From(x \o q, Len(x) + j) = From(q, j)
        BY <1>4, <3>2, FromBehind
      <3>4. From(Base \o q, Len(Base) + j) = From(q, j)
        BY <1>4, <1>8, <3>2, FromBehind
      <3>5. From(u.path, 1 + j) = From(t.path, i)
        BY <1>4, <1>5, <1>6, <1>8, <3>2, <3>3, <3>4
      <3>6. inner \in decode(CodecOf(s), u.host, From(u.path, 1 + j))
        BY <1>6, <2>2, <2>3, <3>5, PathFormAlike
      <3>7. 1 + j \in Folded(CodecOf(s), u)
        BY <1>6, <2>2, <3>2, <3>6 DEF Folded
      <3>8. QED BY <1>7, <3>7
    <2>4. CASE ~PlainMatch(From(t.path, i))
      <3>1. c.mode = "subdomain"
        <4>1. c.mode \in {"plain", "wrd", "subdomain"}
          BY InPlayForms
        <4>2. QED BY <2>2, <2>4, <4>1, OtherForms
      <3>2. PICK e \in Settings : c = CodecOf(e)
        BY <3>1, InPlayForms DEF PlainCodec, WRDCodec
      <3> DEFINE last == Len(u.path)
      <3>3. last \in 2..Len(u.path) /\ last \in Nat \ {0}
        BY <1>9
      <3>4. ~PlainMatch(From(u.path, last))
        <4>1. \A k \in last..last : u.path[k] \in Name
          <5>1. \A k \in last..last : k \in Nat \ {0} /\ k <= Len(u.path)
            BY <3>3
          <5>2. QED BY <1>9, <5>1, Element
        <4> HIDE DEF last
        <4>2. last <= last /\ last - last + 1 = 1 /\ last \in Int
          BY <3>3
        <4>3. Len(SubSeq(u.path, last, last)) = 1
          BY <4>1, <4>2, SubSeqProperties
        <4>4. From(u.path, last) = SubSeq(u.path, last, last)
          BY DEF From, last
        <4>5. ~(1 > 1)
          OBVIOUS
        <4>6. QED BY <4>3, <4>4, <4>5, Zenon DEF PlainMatch
      <3> HIDE DEF last
      <3>5. inner \in HostDecode(c, t.host, From(t.path, i))
        BY <2>2, <2>4, <3>1, OtherForms
      <3>6. PICK v \in HostDecode(c, t.host, From(u.path, last)) : v.host = inner.host /\ v.port = inner.port
        BY <3>5, HostAlone
      <3>7. v \in decode(c, u.host, From(u.path, last))
        BY <1>6, <3>1, <3>4, <3>6, OtherForms
      <3>8. HostPort(v) = HostPort(u)
        BY <1>6, <2>2, <3>6, SameHostPort
      <3>9. last \in Folded(c, u)
        BY <3>3, <3>7, <3>8 DEF Folded, last
      <3>10. QED BY <1>7, <3>2, <3>9
    <2>5. QED BY <2>3, <2>4
  <1>11. QED BY <1>10

LEMMA SiteParts ==
  ASSUME NEW u, NEW v, httpScheme(u.scheme) = httpScheme(v.scheme), u.host = v.host, EncodedPort(u) = EncodedPort(v)
  PROVE  SameSite(u, v)
  <1> DEFINE site(s, h, p) == [scheme |-> s, host |-> h, port |-> p, path |-> << >>]
  <1>1. \A x : [Norm(x) EXCEPT !.path = << >>] = site(httpScheme(x.scheme), x.host, EncodedPort(x))
    BY DEF Norm
  <1>2. site(httpScheme(u.scheme), u.host, EncodedPort(u)) = site(httpScheme(v.scheme), v.host, EncodedPort(v))
    <2> HIDE DEF site
    <2>1. QED BY Zenon
  <1>3. [Norm(u) EXCEPT !.path = << >>] = [Norm(v) EXCEPT !.path = << >>]
    <2> HIDE DEF site
    <2>1. QED BY <1>1, <1>2, Zenon
  <1>4. QED BY <1>3 DEF SameSite

\* What a request may be sent to is its target's site, and is redirected, if at
\* all, to its target.
LEMMA HintUnwraps ==
  ASSUME NEW s \in Settings, NEW src \in Sources, Bound(s, src), NEW t \in Address, NEW host, Hints(s, src, host, t),
         NEW c \in InPlay
  PROVE  LET fix == unwrapTarget(c, t)
         IN  /\ SameSite(t, Meant(src))
             /\ fix # t => /\ fix \in Address /\ Agrees(fix, Meant(src))
                           /\ src.kind = "folded" /\ s.mode # "subdomain" /\ host = Gate
  <1> DEFINE fix == unwrapTarget(c, t)
  <1> DEFINE m == Meant(src)
  <1>1. m \in Address /\ ~Excepted(s, src) /\ \A e \in Settings : ~Nested(e, m)
    BY MeantTyped DEF Bound, Misled
  <1>2. \A f \in Address : Agrees(f, m) => Folded(c, f) = {}
    BY <1>1, NothingFoldedEver
  <1>3. CASE Agrees(t, m)
    <2>1. SameSite(t, m)
      <3> HIDE DEF m
      <3>1. QED BY <1>1, <1>3, AgreesParts, SiteParts
    <2>2. fix = t
      BY <1>2, <1>3, UnwrapsNothing
    <2>3. QED BY <2>1, <2>2
  <1>4. CASE Wrapped(s, src, t) /\ s.mode # "subdomain" /\ host = Gate
    <2>1. src.kind = "folded"
      BY <1>4 DEF Wrapped
    <2>2. SameSite(t, m)
      <3>1. /\ m.scheme = src.want.scheme /\ m.host = src.want.host /\ m.port = src.want.port
            /\ EncodedPort(m) = EncodedPort(src.want)
        BY MeantSite
      <3>2. t.host = m.host /\ httpScheme(t.scheme) = httpScheme(m.scheme) /\ t.port \in {m.port, EncodedPort(m)}
        BY <1>4, <3>1 DEF Wrapped
      <3>3. t.scheme \in SchemeSupported /\ m.scheme \in SchemeSupported
        BY <1>1 DEF Address
      <3> HIDE DEF m
      <3>4. isTLSScheme(t.scheme) <=> isTLSScheme(m.scheme)
        BY <3>2, <3>3 DEF httpScheme, isTLSScheme, SchemeSupported
      <3>5. EncodedPort(t) = EncodedPort(m)
        BY <3>2, <3>4 DEF EncodedPort, defaultPort
      <3>6. QED BY <3>2, <3>5, SiteParts
    <2>3. fix # t => fix \in Address /\ Agrees(fix, m)
      <3>1. CASE c.mode # "wrd" /\ s.mode = "wrd"
        <4>1. Folded(c, t) = {}
          BY <1>4, <3>1, WRDStays
        <4>2. QED BY <4>1, UnwrapsNothing
      <3>2. CASE c.mode = "wrd" /\ s.mode = "wrd"
        <4>1. c = CodecOf(s)
          BY <3>2, InPlayForms DEF CodecOf, PlainCodec
        <4>2. QED BY <1>1, <1>4, <4>1, WrappedUnwraps
      <3>3. CASE s.mode # "wrd"
        <4> DEFINE w == src.want
        <4> DEFINE carried == PageAt(s, w).path
        <4>1. w \in Address /\ w.host # << >> /\ ~Inside(s, w) /\ carried \in Path
          BY <1>1, SourceTyped, MeantSite, PageAtTyped DEF Excepted, Upstream, Address
        <4>2. PathRef(carried) \in Encode(codecSecure(CodecOf(s)), w)
          BY <1>4 DEF Wrapped
        <4>3. PathRef(carried) \in PlainEncode(w)
          BY <1>4, <3>3, <4>1, <4>2, EncodeForms
        <4>4. PlainMatch(carried)
          <5>1. PathRef(carried) = PathRef(PlainPath(w)) /\ PlainMatch(PlainPath(w))
            BY <4>1, <4>3, PlainPathParts
          <5> HIDE DEF carried
          <5>2. QED BY <5>1, PathRefParts
        <4>5. decode(c, t.host, carried) = decode(CodecOf(s), t.host, carried)
          <5> HIDE DEF carried
          <5>1. QED BY <4>4, PathFormAlike
        <4>6. QED BY <1>1, <1>2, <1>4, <4>5, UnwrapsUnder
      <3>4. QED BY <3>1, <3>2, <3>3
    <2>4. QED BY <1>4, <2>1, <2>2, <2>3
  <1>5. QED BY <1>3, <1>4 DEF Hints

\* A folded address is redirected to an address that points to its target.
LEMMA RedirectPoints ==
  ASSUME NEW s \in Settings, NEW src \in Sources, Bound(s, src), src.kind = "folded", s.mode # "subdomain",
         NEW f \in Address, Agrees(f, Meant(src)), NEW at \in Address, at.host = Gate,
         NEW c \in InPlay, NEW ref \in Encode(codecSecure(c), f)
  PROVE  Points(s, src, Resolve(ref, at))
  <1> DEFINE m == Meant(src)
  <1> DEFINE a == Resolve(ref, at)
  <1>1. m \in Address /\ Upstream(m) /\ Upstream(f)
    BY MeantSite, FitAgrees
  <1>2. ~Shadowed(Gate) /\ \A t \in Settings : t.mode = "subdomain" => Sayable(m)
    BY DEF Bound, Misled
  <1>3. PathOf(m) # << >> /\ PathOf(m)[1] = <<"d">> /\ ~Taken(PathOf(m))
    <2> DEFINE p == Base \o PathOf(src.want)
    <2>1. m = [src.want EXCEPT !.path = p] /\ src.want \in Address
      BY SourceTyped DEF Meant, Base
    <2>2. PathOf(src.want) \in Path
      BY <2>1, PathOfTyped
    <2>3. p # << >> /\ p[1] = <<"d">> /\ ~Taken(p)
      BY <2>2, BehindBase
    <2> HIDE DEF p, m
    <2>4. m.path = p
      BY <2>1, Repathed, URLParts
    <2>5. QED BY <2>3, <2>4 DEF PathOf
  <1>4. ~WRDMatch(PathOf(m))
    <2> HIDE DEF m
    <2>1. \A x : x = <<"d">> => /\ \A e \in SchemeSupported : x # <<e>>
                                /\ \A e \in SchemeSupported : \A n \in Ports : x # <<e, "-", n>>
      BY DEF SchemeSupported
    <2>2. QED BY <1>3, <2>1 DEF WRDMatch
  <1>5. ASSUME NEW t \in Settings, Leads(t, a, m), ~PlainMatch(a.path) /\ t.mode = "wrd" => ~Shadowed(a.host)
        PROVE  Points(s, src, a)
    <2>1. a \in Address
      BY <1>5 DEF Leads
    <2> HIDE DEF a, m
    <2>2. \A e \in InPlay : \A v \in decode(e, a.host, a.path) : Agrees(v, m)
      BY <1>1, <1>4, <1>5, LeadsAlike
    <2>3. QED BY <2>1, <2>2 DEF Points, Hints, m
  <1>6. CASE c = PlainCodec
    <2>1. ref \in PlainEncode(f)
      BY <1>6 DEF codecSecure, Encode, PlainCodec
    <2>2. Leads(s, a, f) /\ PlainMatch(a.path)
      BY <1>1, <2>1, PlainLeads
    <2>3. Leads(s, a, m)
      <3> HIDE DEF a, m
      <3>1. QED BY <1>1, <2>2, LeadsAgrees DEF m
    <2>4. QED BY <1>5, <2>2, <2>3
  <1>7. CASE \E t \in Settings : c = CodecOf(t)
    <2>1. PICK t \in Settings : c = CodecOf(t)
      BY <1>7
    <2>2. codecSecure(c) \in AnyCodec /\ codecSecure(c).mode = c.mode /\ c \in AnyCodec
          /\ (c.mode = "subdomain" <=> t.mode = "subdomain") /\ (c.mode = "wrd" <=> t.mode = "wrd")
      BY <2>1, SettingsMode
    <2>3. ~Inside(t, f)
      <3>1. CASE t.mode = "subdomain"
        <4>1. Encode(codecSecure(c), f) = HostEncode(codecSecure(c), f)
          BY <2>2, <3>1 DEF Encode
        <4>2. ~isGatewayHost(codecSecure(c), f.host)
          BY <4>1 DEF HostEncode
        <4>3. ~isGatewayHost(c, f.host)
          BY <2>2, <4>2, SecureReadsAlike
        <4>4. QED BY <2>1, <4>3 DEF Inside
      <3>2. QED BY <3>1 DEF Inside
    <2>4. Fit(t, f)
      <3>1. f.host = m.host
        BY <1>1, AgreesParts
      <3>2. Fit(t, m)
        <4> HIDE DEF m
        <4>1. QED BY <1>1, <1>2, <1>3, <2>3, <3>1 DEF Fit, Inside
      <3> HIDE DEF m
      <3>3. QED BY <1>1, <3>2, FitAgrees DEF m
    <2>5. Leads(t, a, f)
      BY <2>1, <2>4, EncodedLeads
    <2>6. Leads(t, a, m)
      <3> HIDE DEF a, m
      <3>1. QED BY <1>1, <2>5, LeadsAgrees DEF m
    <2>7. t.mode = "wrd" => a.host = Gate
      <3> SUFFICES ASSUME t.mode = "wrd" PROVE a.host = Gate
        OBVIOUS
      <3>1. ref \in WRDEncode(f)
        BY <2>2 DEF Encode
      <3>2. ref.host = << >>
        BY <3>1, WRDPathIsNotPlain
      <3>3. QED BY <3>2 DEF Resolve, Address
    <2>8. QED BY <1>2, <1>5, <2>6, <2>7
  <1>8. QED BY <1>6, <1>7 DEF InPlay

\* Where a request for src, written under s, may be between the steps while it
\* has not been attributed to a page: what is in force plays no part.
Heading(s, src, at, a, t, f) ==
    /\ at = "arrive" => Points(s, src, a)
    /\ at \in {"match", "decode"} => Points(s, src, a) /\ ~PlainMatch(a.path)
    /\ at = "unwrap" => Hints(s, src, a.host, t)
    /\ at = "encode" => /\ Agrees(f, Meant(src)) /\ SameSite(t, Meant(src))
                        /\ src.kind = "folded" /\ s.mode # "subdomain" /\ a.host = Gate
    /\ at \in {"rewrite", "restore", "site"} => SameSite(t, Meant(src))
    /\ at # "strayed"

HeadingInv ==
    /\ RoutingInv
    /\ \A r \in Request :
          Bound(written[r], source[r]) /\ ~strayed[r]
          => Heading(written[r], source[r], pc[r], addr[r], target[r], fixed[r])

LEMMA HeadingInitInv == Init => HeadingInv
  <1> SUFFICES ASSUME Init PROVE HeadingInv
    OBVIOUS
  <1>1. RoutingInv
    BY RoutingInitInv
  <1>2. settings \in Settings /\ \A r \in Request : source[r] \in Sources /\ written[r] = settings /\ pc[r] = "arrive" /\ addr[r] = Written(settings, source[r])
    BY <1>1 DEF RoutingInv, CacheInv, CacheTypeOK, RouteTypeOK, Init
  <1>3. ASSUME NEW r \in Request, Bound(written[r], source[r])
        PROVE  Heading(written[r], source[r], pc[r], addr[r], target[r], fixed[r])
    <2>1. Points(written[r], source[r], addr[r])
      BY <1>2, <1>3, WrittenPoints
    <2>2. QED BY <1>2, <2>1 DEF Heading
  <1>4. QED BY <1>1, <1>3 DEF HeadingInv

\* serveProxy takes what an address points to.
LEMMA ProxyHeads ==
  ASSUME RouteTypeOK, NEW r \in Request, NEW s \in Settings, NEW a \in Address, Points(s, source[r], a),
         NEW c \in InPlay, Proxy(r, decode(c, a.host, a.path))
  PROVE  pc'[r] = "bad" \/ (pc'[r] = "unwrap" /\ Hints(s, source[r], a.host, target'[r]))
  <1> DEFINE src == source[r]
  <1> DEFINE ts == decode(c, a.host, a.path)
  <1> DEFINE Steps == {"arrive", "match", "decode", "unwrap", "encode", "stray", "strayed", "rewrite", "restore"} \cup Ends
  <1>1. src \in Sources /\ pc \in [Request -> Steps] /\ target \in [Request -> Address]
    BY DEF RouteTypeOK
  <1>2. \A v \in ts : v \in Address /\ Hints(s, src, a.host, v)
    <2>1. c \in AnyCodec /\ a.host \in Name /\ a.path \in Path
      BY InPlayForms DEF Address
    <2>2. QED BY <2>1, DecodeTyped DEF Points
  <1> HIDE DEF ts
  <1>3. CASE Goto(r, "bad")
    BY <1>1, <1>3 DEF Goto, Ends
  <1>4. CASE \E v \in ts : target' = [target EXCEPT ![r] = [v EXCEPT !.scheme = httpScheme(@)]] /\ Goto(r, "unwrap")
    <2>1. PICK v \in ts : target' = [target EXCEPT ![r] = [v EXCEPT !.scheme = httpScheme(@)]] /\ Goto(r, "unwrap")
      BY <1>4
    <2> DEFINE t == [v EXCEPT !.scheme = httpScheme(@)]
    <2>2. v \in Address /\ Hints(s, src, a.host, v)
      BY <1>2
    <2>3. /\ t \in Address /\ t.host = v.host /\ t.port = v.port /\ t.path = v.path
          /\ httpScheme(t.scheme) = httpScheme(v.scheme) /\ Agrees(t, v)
      BY <2>2, AgreesOverHTTP
    <2>4. target'[r] = t /\ pc'[r] = "unwrap"
      BY <1>1, <2>1 DEF Goto
    <2> HIDE DEF t
    <2>5. CASE Agrees(v, Meant(src))
      <3>1. Agrees(t, Meant(src))
        BY <1>1, <2>2, <2>3, <2>5, MeantTyped, AgreesAgain
      <3>2. QED BY <2>4, <3>1 DEF Hints
    <2>6. CASE Wrapped(s, src, v) /\ s.mode # "subdomain" /\ a.host = Gate
      <3>1. Wrapped(s, src, t)
        BY <2>3, <2>6 DEF Wrapped
      <3>2. QED BY <2>4, <2>6, <3>1 DEF Hints
    <2>7. QED BY <2>2, <2>5, <2>6 DEF Hints
  <1>5. Goto(r, "bad") \/ \E v \in ts : target' = [target EXCEPT ![r] = [v EXCEPT !.scheme = httpScheme(@)]] /\ Goto(r, "unwrap")
    BY DEF Proxy, ts
  <1>6. QED BY <1>3, <1>4, <1>5

\* Each step keeps a request heading for its target's site.
LEMMA ServeHeads ==
  ASSUME RoutingInv, NEW r \in Request, Serve(r), Bound(written[r], source[r]), ~strayed'[r],
         ~strayed[r] => Heading(written[r], source[r], pc[r], addr[r], target[r], fixed[r])
  PROVE  Heading(written[r], source[r], pc'[r], addr'[r], target'[r], fixed'[r])
  <1> DEFINE s == written[r]
  <1> DEFINE src == source[r]
  <1> DEFINE a == addr[r]
  <1> DEFINE Steps == {"arrive", "match", "decode", "unwrap", "encode", "stray", "strayed", "rewrite", "restore"} \cup Ends
  <1>1. /\ s \in Settings /\ src \in Sources /\ a \in Address /\ target[r] \in Address /\ fixed[r] \in Address /\ RouteTypeOK
    BY DEF RoutingInv, RouteTypeOK
  <1>2. Answered(r) => got[r] \in InPlay
    BY AnswersInPlay
  <1>3. \A where \in Steps : Goto(r, where) => pc'[r] = where
    BY <1>1 DEF Goto, RouteTypeOK
  <1>4. CASE Strayed(r)
    <2>1. pc[r] = "stray" /\ addr' = addr /\ target' = target
      BY <1>4 DEF Strayed
    <2>2. (Goto(r, "notfound")) \/ strayed' = [strayed EXCEPT ![r] = TRUE]
      BY <1>4 DEF Strayed
    <2>3. strayed' # [strayed EXCEPT ![r] = TRUE]
      BY <1>1 DEF RouteTypeOK
    <2>4. pc'[r] = "notfound"
      BY <1>3, <2>2, <2>3 DEF Ends
    <2>5. QED BY <2>4 DEF Heading
  <1>5. ASSUME ~Strayed(r) PROVE Heading(s, src, pc[r], a, target[r], fixed[r])
    <2>1. strayed' = strayed
      BY <1>5 DEF Serve, Arrive, Matched, Decoded, Unwrapped, Redirected, Rewritten, Restored, Keep
    <2>2. QED BY <2>1
  <1>6. CASE Arrive(r)
    <2>1. pc[r] = "arrive" /\ addr' = addr
      BY <1>6 DEF Arrive
    <2>2. Points(s, src, a)
      BY <1>5, <1>6, <2>1 DEF Heading, Strayed
    <2>3. CASE Goto(r, "gateway")
      <3>1. pc'[r] = "gateway"
        BY <1>3, <2>3 DEF Ends
      <3>2. QED BY <3>1 DEF Heading
    <2>4. CASE PlainMatch(a.path) /\ Proxy(r, PlainDecode(a.path))
      <3>1. PlainCodec \in InPlay /\ decode(PlainCodec, a.host, a.path) = PlainDecode(a.path)
        BY <2>4, PathFormAlike DEF InPlay
      <3>2. pc'[r] = "bad" \/ (pc'[r] = "unwrap" /\ Hints(s, src, a.host, target'[r]))
        BY <1>1, <2>2, <2>4, <3>1, ProxyHeads
      <3>3. QED BY <2>1, <3>2 DEF Heading
    <2>5. CASE ~PlainMatch(a.path) /\ Goto(r, "match")
      <3>1. pc'[r] = "match"
        BY <1>3, <2>5
      <3>2. QED BY <2>1, <2>2, <2>5, <3>1 DEF Heading
    <2>6. QED BY <1>6, <2>3, <2>4, <2>5 DEF Arrive
  <1>7. CASE Matched(r)
    <2>1. pc[r] = "match" /\ addr' = addr
      BY <1>7 DEF Matched
    <2>2. Points(s, src, a) /\ ~PlainMatch(a.path)
      BY <1>5, <1>7, <2>1 DEF Heading, Strayed
    <2>3. Goto(r, "decode") \/ Goto(r, "portal") \/ Goto(r, "stray")
      BY <1>7 DEF Matched
    <2>4. pc'[r] \in {"decode", "portal", "stray"}
      BY <1>3, <2>3 DEF Ends
    <2>5. QED BY <2>1, <2>2, <2>4 DEF Heading
  <1>8. CASE Decoded(r)
    <2>1. pc[r] = "decode" /\ addr' = addr /\ got[r] \in InPlay /\ Proxy(r, Decode(got[r], a.host, a.path))
      BY <1>2, <1>8 DEF Decoded
    <2>2. Points(s, src, a) /\ ~PlainMatch(a.path)
      BY <1>5, <1>8, <2>1 DEF Heading, Strayed
    <2>3. decode(got[r], a.host, a.path) = Decode(got[r], a.host, a.path)
      BY <2>2 DEF decode
    <2>4. pc'[r] = "bad" \/ (pc'[r] = "unwrap" /\ Hints(s, src, a.host, target'[r]))
      BY <1>1, <2>1, <2>2, <2>3, ProxyHeads
    <2>5. QED BY <2>1, <2>4 DEF Heading
  <1>9. CASE Unwrapped(r)
    <2> DEFINE fix == unwrapTarget(got[r], target[r])
    <2>1. pc[r] = "unwrap" /\ got[r] \in InPlay /\ fixed' = [fixed EXCEPT ![r] = fix] /\ target' = target /\ addr' = addr
          /\ Goto(r, IF fixed'[r] = target[r] THEN "rewrite" ELSE "encode")
      BY <1>2, <1>9 DEF Unwrapped
    <2>2. Hints(s, src, a.host, target[r])
      BY <1>5, <1>9, <2>1 DEF Heading, Strayed
    <2>3. /\ SameSite(target[r], Meant(src))
          /\ fix # target[r] => Agrees(fix, Meant(src)) /\ src.kind = "folded" /\ s.mode # "subdomain" /\ a.host = Gate
      BY <1>1, <2>1, <2>2, HintUnwraps
    <2> HIDE DEF fix
    <2>4. fixed'[r] = fix
      BY <1>1, <2>1 DEF RouteTypeOK
    <2>5. pc'[r] = IF fix = target[r] THEN "rewrite" ELSE "encode"
      BY <1>3, <2>1, <2>4
    <2>6. QED BY <2>1, <2>3, <2>4, <2>5 DEF Heading
  <1>10. CASE Redirected(r)
    <2> DEFINE refs == Encode(codecSecure(got[r]), fixed[r])
    <2>1. pc[r] \in {"encode", "strayed"} /\ got[r] \in InPlay /\ target' = target
      BY <1>2, <1>10 DEF Redirected
    <2>2. /\ pc[r] = "encode" /\ Agrees(fixed[r], Meant(src)) /\ SameSite(target[r], Meant(src))
          /\ src.kind = "folded" /\ s.mode # "subdomain" /\ a.host = Gate
      BY <1>5, <1>10, <2>1 DEF Heading, Strayed
    <2>3. CASE (\E ref \in refs : addr' = [addr EXCEPT ![r] = Resolve(ref, @)]) /\ Goto(r, "arrive")
      <3>1. PICK ref \in refs : addr' = [addr EXCEPT ![r] = Resolve(ref, @)]
        BY <2>3
      <3>2. addr'[r] = Resolve(ref, a) /\ pc'[r] = "arrive"
        BY <1>1, <1>3, <2>3, <3>1 DEF RouteTypeOK
      <3>3. Points(s, src, Resolve(ref, a))
        BY <1>1, <2>1, <2>2, RedirectPoints
      <3>4. QED BY <3>2, <3>3 DEF Heading
    <2>4. CASE Goto(r, "rewrite")
      <3>1. pc'[r] = "rewrite"
        BY <1>3, <2>4
      <3>2. QED BY <2>1, <2>2, <3>1 DEF Heading
    <2>5. QED BY <1>10, <2>2, <2>3, <2>4 DEF Redirected
  <1>11. CASE Rewritten(r)
    <2>1. pc[r] = "rewrite" /\ target' = target /\ (Goto(r, "restore") \/ Goto(r, "site"))
      BY <1>11 DEF Rewritten
    <2>2. pc'[r] \in {"restore", "site"}
      BY <1>3, <2>1 DEF Ends
    <2>3. SameSite(target[r], Meant(src))
      BY <1>5, <1>11, <2>1 DEF Heading, Strayed
    <2>4. QED BY <2>1, <2>2, <2>3 DEF Heading
  <1>12. CASE Restored(r)
    <2>1. pc[r] = "restore" /\ target' = target /\ Goto(r, "site")
      BY <1>12 DEF Restored
    <2>2. pc'[r] = "site"
      BY <1>3, <2>1 DEF Ends
    <2>3. SameSite(target[r], Meant(src))
      BY <1>5, <1>12, <2>1 DEF Heading, Strayed
    <2>4. QED BY <2>1, <2>2, <2>3 DEF Heading
  <1>13. QED BY <1>4, <1>6, <1>7, <1>8, <1>9, <1>10, <1>11, <1>12 DEF Serve

LEMMA HeadingStepInv == HeadingInv /\ [Next]_vars => HeadingInv'
  <1> SUFFICES ASSUME HeadingInv, [Next]_vars PROVE HeadingInv'
    OBVIOUS
  <1>1. RoutingInv'
    BY RoutingStepInv DEF HeadingInv
  <1>2. RoutingInv /\ RouteTypeOK
    BY DEF HeadingInv, RoutingInv
  <1>3. source' = source /\ written' = written
    BY DEF Next, Serve, Arrive, Matched, Decoded, Unwrapped, Redirected, Strayed, Rewritten, Restored, Keep, Asking, Saving, vars, reqVars
  <1>4. ASSUME NEW r \in Request, Bound(written[r], source[r]), ~strayed'[r]
        PROVE  Heading(written[r], source[r], pc'[r], addr'[r], target'[r], fixed'[r])
    <2>1. ~strayed[r] => Heading(written[r], source[r], pc[r], addr[r], target[r], fixed[r])
      BY <1>4 DEF HeadingInv
    <2>2. ASSUME NEW q \in Request, Serve(q), q # r
          PROVE  pc'[r] = pc[r] /\ addr'[r] = addr[r] /\ target'[r] = target[r] /\ fixed'[r] = fixed[r] /\ strayed'[r] = strayed[r]
      BY <1>2, <2>2 DEF Serve, Arrive, Matched, Decoded, Unwrapped, Redirected, Strayed, Rewritten, Restored, Keep, Proxy, Goto, RouteTypeOK
    <2>3. CASE UNCHANGED reqVars
      BY <1>4, <2>1, <2>3 DEF reqVars
    <2>4. CASE Serve(r)
      BY <1>2, <1>4, <2>1, <2>4, ServeHeads
    <2>5. QED BY <1>4, <2>1, <2>2, <2>3, <2>4 DEF Next, Asking, Saving, vars
  <1>5. QED BY <1>1, <1>3, <1>4 DEF HeadingInv

\* Whatever the console saves while a request is on its way, and between the page
\* and the request, nothing that names a target is sent to another site
\* (Handler.ServeHTTP, unwrapTarget and the redirects of proxy.go, under
\* codecCache.get of main.go).
THEOREM NothingGoesElsewhere == Spec => []NeverElsewhere
  <1>1. HeadingInv => NeverElsewhere
    <2> SUFFICES ASSUME HeadingInv, NEW r \in Request, pc[r] = "site", ~strayed[r], Bound(written[r], source[r])
                 PROVE  SameSite(target[r], Meant(source[r]))
      BY DEF NeverElsewhere, Bound
    <2>1. Heading(written[r], source[r], pc[r], addr[r], target[r], fixed[r])
      BY DEF HeadingInv
    <2>2. QED BY <2>1 DEF Heading
  <1>2. QED BY <1>1, HeadingInitInv, HeadingStepInv, PTL DEF Spec
=============================================================================
