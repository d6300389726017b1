----------------------------- MODULE CodecCache -----------------------------
(***************************************************************************)
(* codecCache of cmd/webvpn/main.go: the addressing scheme built from the  *)
(* stored settings and kept until they change. A call of get reads the     *)
(* settings (under the store's lock), compares and perhaps returns under   *)
(* its own lock, builds outside it, and stores what it built under it      *)
(* again; the console may save other settings between any two of these,    *)
(* and another call may be anywhere in its own.                            *)
(***************************************************************************)
EXTENDS Naturals

CONSTANTS
    Caller,      \* goroutines that call get
    Settings,    \* the values of store.Gateway the console may save
    Codec,       \* addressing schemes
    Build,       \* [some of Settings -> Codec]: what build makes; it fails on the others
    Fallback,    \* PlainCodec
    NoCodec,     \* nothing cached, nothing answered yet
    MaxEdit      \* bound: how often the console saves

ASSUME CodecCacheAssumption ==
    /\ DOMAIN Build \subseteq Settings
    /\ \A g \in DOMAIN Build : Build[g] \in Codec
    /\ Fallback \in Codec
    /\ NoCodec \notin Codec
    /\ MaxEdit \in Nat

VARIABLES
    settings,    \* Store.cfg.Gateway
    edits,       \* counts saves, up to MaxEdit
    cache,       \* codecCache.key and .codec, or NoCodec
    step,        \* [Caller -> where its call of get is]
    read,        \* [Caller -> the settings its call has read]
    got,         \* [Caller -> what its last call answered]
    during       \* history: [Caller -> settings in force since its call began]

cacheVars == <<settings, edits, cache, step, read, got, during>>

Answer(s) == IF s \in DOMAIN Build THEN Build[s] ELSE Fallback
Hit(s) == cache # NoCodec /\ cache.key = s

CacheTypeOK ==
    /\ settings \in Settings
    /\ edits \in 0..MaxEdit
    /\ cache \in {NoCodec} \cup [key : DOMAIN Build, codec : Codec]
    /\ step \in [Caller -> {"idle", "compare", "build"}]
    /\ read \in [Caller -> Settings]
    /\ got \in [Caller -> Codec \cup {NoCodec}]
    /\ during \in [Caller -> SUBSET Settings]

CacheInit ==
    /\ settings \in Settings
    /\ edits = 0
    /\ cache = NoCodec
    /\ step = [p \in Caller |-> "idle"]
    /\ read = [p \in Caller |-> settings]
    /\ got = [p \in Caller |-> NoCodec]
    /\ during = [p \in Caller |-> {}]

-----------------------------------------------------------------------------
\* c.store.Get().Gateway
Read(p) ==
    /\ step[p] = "idle"
    /\ step' = [step EXCEPT ![p] = "compare"]
    /\ read' = [read EXCEPT ![p] = settings]
    /\ got' = [got EXCEPT ![p] = NoCodec]
    /\ during' = [during EXCEPT ![p] = {settings}]
    /\ UNCHANGED <<settings, edits, cache>>

\* The comparison and, when it holds, the answer: one locked section.
Compare(p) ==
    /\ step[p] = "compare"
    /\ IF Hit(read[p])
       THEN /\ got' = [got EXCEPT ![p] = cache.codec]
            /\ step' = [step EXCEPT ![p] = "idle"]
       ELSE /\ step' = [step EXCEPT ![p] = "build"]
            /\ UNCHANGED got
    /\ UNCHANGED <<settings, edits, cache, read, during>>

\* Variants named "...Bug" are plausible slips of the definition that follows
\* them; nothing uses them but the mutation checks.
BuiltBug(p) == [key |-> settings, codec |-> Build[read[p]]]
Built(p) == [key |-> read[p], codec |-> Build[read[p]]]

\* build outside the lock, its result stored under it; settings no codec can
\* be built from are answered with the fallback, which is not cached.
Store(p) ==
    /\ step[p] = "build"
    /\ cache' = IF read[p] \in DOMAIN Build THEN Built(p) ELSE cache
    /\ got' = [got EXCEPT ![p] = Answer(read[p])]
    /\ step' = [step EXCEPT ![p] = "idle"]
    /\ UNCHANGED <<settings, edits, read, during>>

\* The console saves other settings.
Edit(new) ==
    /\ edits < MaxEdit
    /\ new # settings
    /\ settings' = new
    /\ edits' = edits + 1
    /\ during' = [p \in Caller |-> IF step[p] = "idle" THEN during[p] ELSE during[p] \cup {new}]
    /\ UNCHANGED <<cache, step, read, got>>

CacheNext ==
    \/ \E p \in Caller : Read(p) \/ Compare(p) \/ Store(p)
    \/ \E new \in Settings : Edit(new)

CacheSpec == CacheInit /\ [][CacheNext]_cacheVars

-----------------------------------------------------------------------------
(* Properties *)

\* What a call of get answers was the addressing scheme in force at some moment
\* of that call, however late an older build is stored: a request is never
\* handed the scheme of settings replaced before it asked.
InForce ==
    \A p \in Caller : got[p] # NoCodec => \E s \in during[p] : got[p] = Answer(s)
=============================================================================
