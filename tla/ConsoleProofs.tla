--------------------------- MODULE ConsoleProofs ----------------------------
(***************************************************************************)
(* That the configuration survives what may happen to it, for any number   *)
(* of edits, setups, sign-ins and crashes: the file is never torn or half  *)
(* saved (Durable), and a gateway that started without an administrator    *)
(* stays repairable until one has signed in (Repairable).                  *)
(*                                                                         *)
(* Three further properties do not hold of every execution, and the        *)
(* theorems say what has to be excluded, and that nothing else has to be:  *)
(* an administrator stays one and the gateway never loses its last one     *)
(* unless a session ends between the two looks handleSetConfig takes at it *)
(* (StaysWhileChecked), and a blank password keeps the stored one unless   *)
(* another configuration is set between an edit's Get and its Set          *)
(* (NoOverlap).                                                            *)
(***************************************************************************)
EXTENDS Console, FiniteSetTheorems, TLAPS

Saving == {"open", "fill", "rename", "return"}

\* Who is saving holds the lock, and nobody else; nothing outlives a crash.
LockOK ==
    /\ writer = {} \/ \E p \in Process : writer = {p}
    /\ \A p \in Process : p \in writer <=> pc[p] \in Saving
    /\ state = "down" => \A p \in Process : pc[p] \in {"idle", "done"}

\* The temporary file is complete before it is renamed; the file follows the
\* last Set that returned, but for the moment between a rename and its return.
FilesOK ==
    /\ \A p \in Process : pc[p] = "rename" => tmp = mem
    /\ \A p \in Process : pc[p] = "return" => disk = mem
    /\ (\A p \in Process : pc[p] # "return") => disk = saved

\* Setup is closed on behalf of an administrator who has signed in.
ClosingOK == \A v \in SignIn : pc[v] = "close" => entered

IInv == TypeOK /\ LockOK /\ FilesOK /\ ClosingOK /\ Repairable

\* No session ends while a request is between requireAdminAPI and the handler's
\* own look at the session.
StaysWhileChecked ==
    ~(live \subseteq live') /\ state' = "up" => \A e \in Edit : pc[e] # "self"

\* ... then an edit's draft keeps its sender, no draft is without an
\* administrator, and the list never becomes empty while the gateway runs.
KeptInv ==
    /\ \A e \in Edit :
         /\ pc[e] = "self" => sender[e] \in live
         /\ pc[e] = "read" => KeepsSelf(e)
         /\ pc[e] = "set" => sender[e] \in draft[e].admins
    /\ \A s \in Setup : pc[s] = "set" => draft[s].admins # {}
    /\ \A p \in Process : pc[p] = "set" => p \in Edit \cup Setup
    /\ entered => mem.admins # {}
    /\ state = "down" => ~entered
    /\ state = "up" /\ mem.admins = {} => bootstrap

\* No other configuration takes effect while an edit is between Get and Set.
NoOverlap ==
    \A e \in Edit : pc[e] = "set" => \A p \in Process \ {e} : ~TakesEffect(p)

\* ... then an edit that leaves the password blank holds the current one.
SecretInv ==
    \A e \in Edit : pc[e] = "set" /\ form[e].secret = Keep => draft[e].secret = mem.secret

-----------------------------------------------------------------------------
LEMMA InitIInv == Init => IInv
  <1> SUFFICES ASSUME Init PROVE IInv
    OBVIOUS
  <1>1. writer \subseteq Process /\ Cardinality(writer) <= 1
    BY FS_EmptySet DEF Init
  <1>2. TypeOK
    <2>1. Blank \in Config
      BY DEF Blank, Config
    <2>2. draft \in [Process -> Config] /\ mem \in Config
      BY <2>1 DEF Init
    <2>3. pc \in [Process -> {"idle"}] /\ live \subseteq Email /\ crashes \in 0..MaxCrash
      BY ConsoleAssumption DEF Init
    <2>4. QED BY <1>1, <2>2, <2>3 DEF Init, TypeOK
  <1>3. LockOK /\ FilesOK /\ ClosingOK /\ Repairable
    BY DEF Init, LockOK, FilesOK, ClosingOK, Repairable, Saving, Process
  <1>4. QED BY <1>2, <1>3 DEF IInv

\* A step that neither saves nor starts to leaves the lock and the files alone.
LEMMA QuietStep ==
    ASSUME IInv, NEW p \in Process, NEW l, Goto(p, l), pc[p] \notin Saving, l \notin Saving,
           state' # "down", UNCHANGED <<writer, mem, disks>>
    PROVE  LockOK' /\ FilesOK'
  <1>1. \A q \in Process : pc'[q] = IF q = p THEN l ELSE pc[q]
    BY DEF Goto, IInv, TypeOK
  <1>2. LockOK'
    BY <1>1 DEF IInv, LockOK
  <1>3. FilesOK'
    BY <1>1 DEF IInv, FilesOK, disks, Saving
  <1>4. QED BY <1>2, <1>3

\* Who saves is alone in doing so.
LEMMA SaverAlone ==
    ASSUME IInv, NEW p \in Process, pc[p] \in Saving
    PROVE  /\ writer = {p}
           /\ state # "down"
           /\ \A q \in Process : pc[q] \in Saving => q = p
  BY DEF IInv, LockOK, Saving

-----------------------------------------------------------------------------
\* save().

LEMMA OpenTmpIInv ==
    ASSUME IInv, NEW p \in Process, OpenTmp(p)
    PROVE  IInv'
  <1>1. /\ writer = {p} /\ state # "down"
        /\ \A q \in Process : pc[q] \in Saving => q = p
    BY SaverAlone DEF OpenTmp, Saving
  <1>2. TypeOK'
    BY DEF OpenTmp, Goto, IInv, TypeOK, who, start, reqs
  <1>3. LockOK'
    BY <1>1 DEF OpenTmp, Goto, IInv, TypeOK, LockOK, Saving
  <1>4. FilesOK'
    BY <1>1 DEF OpenTmp, Goto, IInv, TypeOK, FilesOK, Saving
  <1>5. ClosingOK' /\ Repairable'
    BY DEF OpenTmp, Goto, IInv, TypeOK, ClosingOK, Repairable, who, start, Process
  <1>6. QED BY <1>2, <1>3, <1>4, <1>5 DEF IInv

LEMMA FillTmpIInv ==
    ASSUME IInv, NEW p \in Process, FillTmp(p)
    PROVE  IInv'
  <1>1. /\ writer = {p} /\ state # "down"
        /\ \A q \in Process : pc[q] \in Saving => q = p
    BY SaverAlone DEF FillTmp, Saving
  <1>2. TypeOK'
    BY DEF FillTmp, Goto, IInv, TypeOK, who, start, reqs
  <1>3. LockOK'
    BY <1>1 DEF FillTmp, Goto, IInv, TypeOK, LockOK, Saving
  <1>4. FilesOK'
    BY <1>1 DEF FillTmp, Goto, IInv, TypeOK, FilesOK, Saving
  <1>5. ClosingOK' /\ Repairable'
    BY DEF FillTmp, Goto, IInv, TypeOK, ClosingOK, Repairable, who, start, Process
  <1>6. QED BY <1>2, <1>3, <1>4, <1>5 DEF IInv

\* What is renamed is complete.
LEMMA RenameTmpIInv ==
    ASSUME IInv, NEW p \in Process, RenameTmp(p)
    PROVE  IInv'
  <1>1. /\ writer = {p} /\ state # "down" /\ tmp = mem
        /\ \A q \in Process : pc[q] \in Saving => q = p
    BY SaverAlone DEF RenameTmp, Saving, IInv, FilesOK
  <1>2. TypeOK'
    BY DEF RenameTmp, Renamed, Goto, IInv, TypeOK, who, start, reqs
  <1>3. LockOK'
    BY <1>1 DEF RenameTmp, Goto, IInv, TypeOK, LockOK, Saving
  <1>4. FilesOK'
    BY <1>1 DEF RenameTmp, Renamed, Goto, IInv, TypeOK, FilesOK, Saving
  <1>5. ClosingOK' /\ Repairable'
    BY DEF RenameTmp, Goto, IInv, TypeOK, ClosingOK, Repairable, who, start, Process
  <1>6. QED BY <1>2, <1>3, <1>4, <1>5 DEF IInv

LEMMA SaveReturnsIInv ==
    ASSUME IInv, NEW p \in Process, SaveReturns(p)
    PROVE  IInv'
  <1>1. /\ state # "down" /\ disk = mem
        /\ \A q \in Process : pc[q] \in Saving => q = p
    BY SaverAlone DEF SaveReturns, Saving, IInv, FilesOK
  <1>2. \A q \in Process : pc'[q] = IF q # p THEN pc[q] ELSE IF p = Main THEN "serve" ELSE "done"
    BY DEF SaveReturns, Goto, IInv, TypeOK
  <1>3. TypeOK'
    BY FS_EmptySet DEF SaveReturns, Goto, IInv, TypeOK, who, start, reqs
  <1>4. LockOK'
    BY <1>1, <1>2 DEF SaveReturns, IInv, LockOK, Saving
  <1>5. FilesOK'
    BY <1>1, <1>2 DEF SaveReturns, FilesOK, IInv, Saving
  <1>6. ClosingOK' /\ Repairable'
    BY <1>2 DEF SaveReturns, IInv, ClosingOK, Repairable, who, start, Process
  <1>7. QED BY <1>3, <1>4, <1>5, <1>6 DEF IInv

\* A save that fails before the rename has not touched the file.
LEMMA SaveFailsIInv ==
    ASSUME IInv, NEW p \in Process, SaveFails(p)
    PROVE  IInv'
  <1>1. /\ state # "down" /\ state' # "down"
        /\ \A q \in Process : pc[q] \in Saving => q = p
    BY SaverAlone DEF SaveFails, Saving
  <1>2. \A q \in Process : pc'[q] = IF q = p THEN "done" ELSE pc[q]
    BY DEF SaveFails, Goto, IInv, TypeOK
  <1>3. TypeOK'
    BY FS_EmptySet DEF SaveFails, Goto, IInv, TypeOK, disks, who, start, reqs
  <1>4. LockOK'
    BY <1>1, <1>2 DEF SaveFails, LockOK, Saving
  <1>5. FilesOK'
    BY <1>1, <1>2 DEF SaveFails, FilesOK, IInv, Saving, disks
  <1>6. ClosingOK' /\ Repairable'
    BY <1>2 DEF SaveFails, IInv, ClosingOK, Repairable, who, start, Process
  <1>7. QED BY <1>3, <1>4, <1>5, <1>6 DEF IInv

LEMMA SetRefusedIInv ==
    ASSUME IInv, NEW p \in Process, SetRefused(p)
    PROVE  IInv'
  <1>1. LockOK' /\ FilesOK'
    BY QuietStep DEF SetRefused, Ready, Saving
  <1>2. TypeOK'
    BY DEF SetRefused, Goto, IInv, TypeOK, disks, who, start, reqs
  <1>3. ClosingOK' /\ Repairable'
    BY DEF SetRefused, Goto, IInv, TypeOK, ClosingOK, Repairable, who, start, Process
  <1>4. QED BY <1>1, <1>2, <1>3 DEF IInv

LEMMA SetIInv ==
    ASSUME IInv, NEW p \in Process, Set(p)
    PROVE  IInv'
  <1>1. writer = {} /\ state = "up" /\ \A q \in Process : pc[q] \notin Saving
    BY DEF Set, Ready, Unlocked, IInv, LockOK
  <1>2. \A q \in Process : pc'[q] = IF q = p THEN "open" ELSE pc[q]
    BY DEF Set, Goto, IInv, TypeOK
  <1>3. TypeOK'
    BY FS_Singleton DEF Set, Goto, IInv, TypeOK, disks, who, start, reqs
  <1>4. LockOK'
    BY <1>1, <1>2 DEF Set, LockOK, Saving
  <1>5. FilesOK'
    BY <1>1, <1>2 DEF Set, FilesOK, IInv, Saving, disks
  <1>6. ClosingOK' /\ Repairable'
    BY <1>2 DEF Set, IInv, ClosingOK, Repairable, who, start, Process
  <1>7. QED BY <1>3, <1>4, <1>5, <1>6 DEF IInv

-----------------------------------------------------------------------------
\* run() and LoadStore, and the crash before them.

LEMMA StartWithoutFileIInv ==
    ASSUME IInv, NEW seed \in Seeds, StartWithoutFile(seed)
    PROVE  IInv'
  <1>1. /\ writer = {} /\ Main \in Process
        /\ \A q \in Process : pc[q] \in {"idle", "done"}
    BY DEF StartWithoutFile, IInv, LockOK, Saving, Process
  <1>2. \A q \in Process : pc'[q] = IF q = Main THEN "open" ELSE pc[q]
    BY DEF StartWithoutFile, Goto, IInv, TypeOK
  <1>3. Cardinality(writer') <= 1
    BY FS_Singleton DEF StartWithoutFile
  <1>4. writer' \subseteq Process /\ mem' \in Config
    BY <1>1, ConsoleAssumption DEF StartWithoutFile
  <1>5. TypeOK'
    BY <1>3, <1>4 DEF StartWithoutFile, Goto, IInv, TypeOK, disks, who, start, reqs
  <1>6. LockOK'
    BY <1>1, <1>2 DEF StartWithoutFile, LockOK, Saving
  <1>7. FilesOK'
    BY <1>1, <1>2 DEF StartWithoutFile, FilesOK, IInv, disks
  <1>8. ClosingOK' /\ Repairable'
    BY <1>1, <1>2 DEF StartWithoutFile, ClosingOK, Repairable, Process
  <1>9. QED BY <1>5, <1>6, <1>7, <1>8 DEF IInv

LEMMA StartFromFileIInv ==
    ASSUME IInv, StartFromFile
    PROVE  IInv'
  <1>1. /\ writer = {} /\ Main \in Process
        /\ \A q \in Process : pc[q] \in {"idle", "done"}
    BY DEF StartFromFile, IInv, LockOK, Saving, Process
  <1>2. \A q \in Process : pc'[q] = IF q = Main THEN "serve" ELSE pc[q]
    BY DEF StartFromFile, Goto, IInv, TypeOK
  <1>3. TypeOK'
    BY DEF StartFromFile, Goto, IInv, TypeOK, disks, who, start, reqs
  <1>4. LockOK'
    BY <1>1, <1>2 DEF StartFromFile, LockOK, Saving
  <1>5. FilesOK'
    BY <1>1, <1>2 DEF StartFromFile, FilesOK, IInv, disks
  <1>6. ClosingOK' /\ Repairable'
    BY <1>1, <1>2 DEF StartFromFile, ClosingOK, Repairable, Process
  <1>7. QED BY <1>3, <1>4, <1>5, <1>6 DEF IInv

\* Setup is open from the start of a gateway without an administrator.
LEMMA ServeIInv ==
    ASSUME IInv, Serve
    PROVE  IInv'
  <1>1. Main \in Process
    BY DEF Process
  <1>2. LockOK' /\ FilesOK'
    BY <1>1, QuietStep DEF Serve, Saving
  <1>3. TypeOK'
    BY DEF Serve, Goto, IInv, TypeOK, disks, reqs
  <1>4. ClosingOK' /\ Repairable'
    BY DEF Serve, Goto, IInv, TypeOK, ClosingOK, Repairable, Process
  <1>5. QED BY <1>2, <1>3, <1>4 DEF IInv

LEMMA RefuseToServeIInv ==
    ASSUME IInv, RefuseToServe
    PROVE  IInv'
  <1>1. Main \in Process
    BY DEF Process
  <1>2. LockOK' /\ FilesOK'
    BY <1>1, QuietStep DEF RefuseToServe, Saving
  <1>3. TypeOK'
    BY DEF RefuseToServe, Goto, IInv, TypeOK, disks, who, start, reqs
  <1>4. ClosingOK' /\ Repairable'
    BY DEF RefuseToServe, Goto, IInv, TypeOK, ClosingOK, Repairable, who, start, Process
  <1>5. QED BY <1>2, <1>3, <1>4 DEF IInv

\* A crash between rename and return leaves the new configuration on disk; at
\* any other point the last one saved.
LEMMA CrashIInv ==
    ASSUME IInv, Crash
    PROVE  IInv'
  <1>1. \A q \in Process : pc'[q] = IF q = Main \/ pc[q] = "idle" THEN "idle" ELSE "done"
    BY DEF Crash
  <1>2. TypeOK'
    <2>1. Blank \in Config
      BY DEF Blank, Config
    <2>2. Cardinality(writer') <= 1
      BY FS_EmptySet DEF Crash
    <2>3. crashes' \in 0..MaxCrash
      BY ConsoleAssumption DEF Crash, IInv, TypeOK
    <2>4. pc' \in [Process -> {"idle", "done"}]
      BY DEF Crash
    <2>5. saved' \in Config \cup {NoFile}
      BY DEF Crash, IInv, TypeOK
    <2>6. QED BY <2>1, <2>2, <2>3, <2>4, <2>5 DEF Crash, IInv, TypeOK, reqs
  <1>3. LockOK'
    BY <1>1 DEF Crash, LockOK, Saving
  <1>4. disk' = saved'
    <2>1. CASE \E p \in writer : pc[p] = "return"
      BY <2>1 DEF Crash, IInv, TypeOK, FilesOK
    <2>2. CASE ~\E p \in writer : pc[p] = "return"
      BY <2>2 DEF Crash, IInv, LockOK, Saving, FilesOK
    <2>3. QED BY <2>1, <2>2
  <1>5. FilesOK'
    BY <1>1, <1>4 DEF FilesOK
  <1>6. ClosingOK' /\ Repairable'
    BY <1>1 DEF Crash, ClosingOK, Repairable, Process
  <1>7. QED BY <1>2, <1>3, <1>5, <1>6 DEF IInv

-----------------------------------------------------------------------------
\* The handlers.

LEMMA MergeTyped ==
    ASSUME NEW f \in Form, NEW c \in Config
    PROVE  Merge(f, c) \in Config /\ Merge(f, c).admins = f.admins
           /\ Merge(f, c).secret = IF f.secret = Keep THEN c.secret ELSE f.secret
  BY DEF Merge, Form, Config

LEMMA EditIInv ==
    ASSUME IInv, NEW e \in Edit, EditStep(e)
    PROVE  IInv'
  <1>1. e \in Process
    BY DEF Process
  <1>2. CASE RequireAdmin(e)
    <2>1. LockOK' /\ FilesOK'
      BY <1>1, <1>2, QuietStep DEF RequireAdmin, Ready, Saving
    <2>2. TypeOK' /\ ClosingOK' /\ Repairable'
      BY <1>2, ConsoleAssumption DEF RequireAdmin, Goto, IInv, TypeOK, ClosingOK, Repairable,
         disks, who, start, reqs, Process
    <2>3. QED BY <2>1, <2>2 DEF IInv
  <1>3. CASE CheckSelf(e)
    <2>1. LockOK' /\ FilesOK'
      BY <1>1, <1>3, QuietStep DEF CheckSelf, Ready, Saving
    <2>2. TypeOK' /\ ClosingOK' /\ Repairable'
      BY <1>3, ConsoleAssumption DEF CheckSelf, Goto, IInv, TypeOK, ClosingOK, Repairable,
         disks, who, start, reqs, Process
    <2>3. QED BY <2>1, <2>2 DEF IInv
  <1>4. CASE ReadAndMerge(e)
    <2>1. LockOK' /\ FilesOK'
      BY <1>1, <1>4, QuietStep DEF ReadAndMerge, Ready, Saving
    <2>2. Merge(form[e], mem) \in Config
      BY MergeTyped DEF IInv, TypeOK
    <2>3. TypeOK'
      BY <1>4, <2>2 DEF ReadAndMerge, Goto, IInv, TypeOK, disks, who, start, reqs
    <2>4. ClosingOK' /\ Repairable'
      BY <1>4, ConsoleAssumption DEF ReadAndMerge, Goto, IInv, TypeOK, ClosingOK, Repairable,
         who, start, Process
    <2>5. QED BY <2>1, <2>3, <2>4 DEF IInv
  <1>5. QED BY <1>2, <1>3, <1>4 DEF EditStep

LEMMA SetupIInv ==
    ASSUME IInv, NEW s \in Setup, SetupStep(s)
    PROVE  IInv'
  <1>1. s \in Process
    BY DEF Process
  <1>2. CASE GuardSetup(s) \/ SetupRefused(s)
    <2>1. LockOK' /\ FilesOK'
      BY <1>1, <1>2, QuietStep DEF GuardSetup, SetupRefused, Ready, Saving
    <2>2. TypeOK' /\ ClosingOK' /\ Repairable'
      BY <1>2, ConsoleAssumption DEF GuardSetup, SetupRefused, Goto, IInv, TypeOK, ClosingOK,
         Repairable, disks, who, start, reqs, Process
    <2>3. QED BY <2>1, <2>2 DEF IInv
  <1>3. ASSUME NEW a \in Email, NEW m \in BOOLEAN, NEW x \in Secret \cup {None},
               SetupConfig(s, a, m, x)
        PROVE  IInv'
    <2>1. LockOK' /\ FilesOK'
      BY <1>1, <1>3, QuietStep DEF SetupConfig, Ready, Saving
    <2>2. [admins |-> mem.admins \cup {a}, mail |-> m, secret |-> x] \in Config
      BY DEF IInv, TypeOK, Config
    <2>3. TypeOK'
      BY <1>3, <2>2 DEF SetupConfig, Goto, IInv, TypeOK, disks, who, start, reqs
    <2>4. ClosingOK' /\ Repairable'
      BY <1>3, ConsoleAssumption DEF SetupConfig, Goto, IInv, TypeOK, ClosingOK, Repairable,
         who, start, Process
    <2>5. QED BY <2>1, <2>3, <2>4 DEF IInv
  <1>4. QED BY <1>2, <1>3 DEF SetupStep

\* Only the sign-in of an administrator goes on to close setup.
LEMMA SignInIInv ==
    ASSUME IInv, NEW v \in SignIn, SignInStep(v)
    PROVE  IInv'
  <1>1. v \in Process
    BY DEF Process
  <1>2. CASE CloseSetup(v)
    <2>1. LockOK' /\ FilesOK'
      BY <1>1, <1>2, QuietStep DEF CloseSetup, Saving
    <2>2. TypeOK' /\ ClosingOK' /\ Repairable'
      BY <1>2 DEF CloseSetup, Goto, IInv, TypeOK, ClosingOK, Repairable, disks, start, reqs
    <2>3. QED BY <2>1, <2>2 DEF IInv
  <1>3. ASSUME NEW a \in Email, OpenSession(v, a) PROVE IInv'
    <2>1. LockOK' /\ FilesOK'
      BY <1>1, <1>3, QuietStep DEF OpenSession, Ready, Saving
    <2>2. TypeOK'
      BY <1>3 DEF OpenSession, Goto, IInv, TypeOK, disks, start, reqs
    <2>3. ClosingOK' /\ Repairable'
      BY <1>3 DEF OpenSession, Closes, Goto, IInv, TypeOK, ClosingOK, Repairable, start, Process
    <2>4. QED BY <2>1, <2>2, <2>3 DEF IInv
  <1>4. QED BY <1>2, <1>3 DEF SignInStep

LEMMA VanishIInv ==
    ASSUME IInv, NEW a \in Email, Vanish(a)
    PROVE  IInv'
  BY DEF Vanish, IInv, TypeOK, LockOK, FilesOK, ClosingOK, Repairable, disks, start, reqs

LEMMA StepIInv == IInv /\ [Next]_vars => IInv'
  <1> SUFFICES ASSUME IInv, [Next]_vars PROVE IInv'
    OBVIOUS
  <1>1. CASE \E p \in Process : Save(p)
    BY <1>1, OpenTmpIInv, FillTmpIInv, RenameTmpIInv, SaveReturnsIInv, SaveFailsIInv DEF Save
  <1>2. CASE \E p \in Process : SetConfig(p)
    BY <1>2, SetRefusedIInv, SetIInv DEF SetConfig
  <1>3. CASE \E e \in Edit : EditStep(e)
    BY <1>3, EditIInv
  <1>4. CASE \E s \in Setup : SetupStep(s)
    BY <1>4, SetupIInv
  <1>5. CASE \E v \in SignIn : SignInStep(v)
    BY <1>5, SignInIInv
  <1>6. CASE \E seed \in Seeds : StartWithoutFile(seed)
    BY <1>6, StartWithoutFileIInv
  <1>7. CASE StartFromFile \/ Serve \/ RefuseToServe \/ Crash
    BY <1>7, StartFromFileIInv, ServeIInv, RefuseToServeIInv, CrashIInv
  <1>8. CASE \E a \in Email : Vanish(a)
    BY <1>8, VanishIInv
  <1>9. CASE UNCHANGED vars
    BY <1>9 DEF vars, disks, who, start, reqs, IInv, TypeOK, LockOK, FilesOK, ClosingOK,
       Repairable
  <1>10. QED BY <1>1, <1>2, <1>3, <1>4, <1>5, <1>6, <1>7, <1>8, <1>9 DEF Next

LEMMA Invariance == Spec => []IInv
  BY InitIInv, StepIInv, PTL DEF Spec

-----------------------------------------------------------------------------
\* Whatever the configuration, the state of the console is well typed, and at
\* most one process is inside Set.
THEOREM ConsoleTyped == Spec => []TypeOK
  <1>1. IInv => TypeOK
    BY DEF IInv
  <1>2. QED BY <1>1, Invariance, PTL

\* Whenever the process dies, the file holds the configuration of the last Set
\* that returned, or the one whose rename has just happened: never a torn one,
\* and never one whose save failed.
THEOREM FileIsDurable == Spec => []Durable
  <1>1. IInv => Durable
    BY DEF IInv, LockOK, FilesOK, Saving, Durable
  <1>2. QED BY <1>1, Invariance, PTL

\* A gateway that started without an administrator offers its setup page until
\* an administrator has signed in, however often it is submitted and whoever
\* else signs in meanwhile.
THEOREM SetupStaysOpen == Spec => []Repairable
  <1>1. IInv => Repairable
    BY DEF IInv
  <1>2. QED BY <1>1, Invariance, PTL

-----------------------------------------------------------------------------
\* A draft takes effect in Set only.
LEMMA OnlySetOpens ==
    ASSUME IInv, [Next]_vars, NEW p \in Process, pc[p] = "set", pc'[p] = "open"
    PROVE  Set(p)
  <1>1. \A q \in Process : \A l : Goto(q, l) => p = q /\ l = "open"
    BY DEF Goto, IInv, TypeOK
  <1>2. ASSUME NEW q \in Process, Save(q) PROVE FALSE
    BY <1>1, <1>2 DEF Save, OpenTmp, FillTmp, RenameTmp, SaveReturns, SaveFails
  <1>3. ASSUME NEW q \in Process, SetConfig(q) PROVE Set(p)
    BY <1>1, <1>3 DEF SetConfig, SetRefused, Set
  <1>4. ASSUME NEW e \in Edit, EditStep(e) PROVE FALSE
    BY <1>1, <1>4 DEF EditStep, RequireAdmin, CheckSelf, ReadAndMerge, Process
  <1>5. ASSUME NEW s \in Setup, SetupStep(s) PROVE FALSE
    BY <1>1, <1>5 DEF SetupStep, GuardSetup, SetupRefused, SetupConfig, Process
  <1>6. ASSUME NEW v \in SignIn, SignInStep(v) PROVE FALSE
    BY <1>1, <1>6 DEF SignInStep, CloseSetup, OpenSession, Process
  <1>7. state = "down" => FALSE
    BY DEF IInv, LockOK
  <1>8. CASE StartFromFile \/ Serve \/ RefuseToServe \/ \E seed \in Seeds : StartWithoutFile(seed)
    BY <1>1, <1>7, <1>8 DEF StartFromFile, Serve, RefuseToServe, StartWithoutFile, Process
  <1>9. CASE Crash \/ \E a \in Email : Vanish(a)
    BY <1>9 DEF Crash, Vanish
  <1>10. CASE UNCHANGED vars
    BY <1>10 DEF vars
  <1>11. QED BY <1>2, <1>3, <1>4, <1>5, <1>6, <1>8, <1>9, <1>10 DEF Next

-----------------------------------------------------------------------------
\* Where sessions outlast the check of the form: KeptInv.

LEMMA InitKept == Init => KeptInv
  BY DEF Init, KeptInv, Process

\* The steps that neither move a request nor change who administers.
LEMMA SaveKept ==
    ASSUME IInv, KeptInv, NEW p \in Process, Save(p)
    PROVE  KeptInv'
  <1>1. state # "down" /\ pc[p] \in Saving
    BY SaverAlone DEF Save, OpenTmp, FillTmp, RenameTmp, SaveReturns, SaveFails, Saving
  <1>2. /\ UNCHANGED <<mem, draft, sender, form, live, entered, bootstrap>>
        /\ state' # "down" /\ (state' = "up" => state = "up")
        /\ \E l \in {"fill", "rename", "return", "serve", "done"} : Goto(p, l)
    BY <1>1 DEF Save, OpenTmp, FillTmp, RenameTmp, SaveReturns, SaveFails, who, start, reqs
  <1>3. \A q \in Process : pc'[q] = pc[q] \/ pc'[q] \notin {"self", "read", "set"}
    BY <1>2 DEF Goto, IInv, TypeOK
  <1>4. QED BY <1>2, <1>3 DEF KeptInv, KeepsSelf, Process

\* Only drafts with an administrator take effect.
LEMMA SetKept ==
    ASSUME IInv, KeptInv, NEW p \in Process, SetConfig(p)
    PROVE  KeptInv'
  <1>1. state = "up" /\ pc[p] = "set" /\ p \in Edit \cup Setup
    BY DEF SetConfig, SetRefused, Set, Ready, KeptInv
  <1>2. draft[p].admins # {}
    BY <1>1 DEF KeptInv
  <1>3. \A q \in Process : pc'[q] = pc[q] \/ pc'[q] \in {"done", "open"}
    BY DEF SetConfig, SetRefused, Set, Goto, IInv, TypeOK
  <1>4. /\ UNCHANGED <<draft, sender, form, live, entered, bootstrap, state>>
        /\ mem' = mem \/ mem'.admins # {}
    BY <1>2 DEF SetConfig, SetRefused, Set, who, start, reqs
  <1>5. QED BY <1>1, <1>3, <1>4 DEF KeptInv, KeepsSelf, Process

\* An edit that finds its session still there keeps its sender in the list.
LEMMA EditKept ==
    ASSUME IInv, KeptInv, NEW e \in Edit, EditStep(e)
    PROVE  KeptInv'
  <1>1. /\ UNCHANGED <<state, mem, sender, form, live, entered, bootstrap>>
        /\ state = "up" /\ e \in Process /\ e \notin Setup
    BY ConsoleAssumption DEF EditStep, RequireAdmin, CheckSelf, ReadAndMerge, Ready, who, start,
       reqs, Process
  <1>2. CASE RequireAdmin(e)
    <2>1. \A q \in Process : q # e => pc'[q] = pc[q]
      BY <1>2 DEF RequireAdmin, Goto, IInv, TypeOK
    <2>2. pc'[e] = IF sender[e] \in live /\ sender[e] \in mem.admins THEN "self" ELSE "done"
      BY <1>1, <1>2 DEF RequireAdmin, Goto, IInv, TypeOK
    <2>3. draft' = draft
      BY <1>2 DEF RequireAdmin
    <2>4. QED BY <1>1, <2>1, <2>2, <2>3 DEF KeptInv, KeepsSelf, Process
  <1>3. CASE CheckSelf(e)
    <2>1. \A q \in Process : q # e => pc'[q] = pc[q]
      BY <1>3 DEF CheckSelf, Goto, IInv, TypeOK
    <2>2. pc'[e] = IF sender[e] \in live => KeepsSelf(e) THEN "read" ELSE "done"
      BY <1>1, <1>3 DEF CheckSelf, Goto, IInv, TypeOK
    <2>3. draft' = draft /\ sender[e] \in live
      BY <1>3 DEF CheckSelf, Ready, KeptInv
    <2>4. QED BY <1>1, <2>1, <2>2, <2>3 DEF KeptInv, KeepsSelf, Process
  <1>4. CASE ReadAndMerge(e)
    <2>1. \A q \in Process : q # e => pc'[q] = pc[q] /\ draft'[q] = draft[q]
      BY <1>4 DEF ReadAndMerge, Goto, IInv, TypeOK
    <2>2. pc'[e] = "set" /\ draft'[e] = Merge(form[e], mem)
      BY <1>1, <1>4 DEF ReadAndMerge, Goto, IInv, TypeOK
    <2>3. sender[e] \in form[e].admins
      BY <1>4 DEF ReadAndMerge, Ready, KeptInv, KeepsSelf
    <2>4. sender[e] \in draft'[e].admins
      BY <2>2, <2>3, MergeTyped DEF IInv, TypeOK
    <2>5. QED BY <1>1, <2>1, <2>2, <2>4 DEF KeptInv, KeepsSelf, Process
  <1>5. QED BY <1>2, <1>3, <1>4 DEF EditStep

\* A setup only ever adds an administrator to what it read.
LEMMA SetupKept ==
    ASSUME IInv, KeptInv, NEW s \in Setup, SetupStep(s)
    PROVE  KeptInv'
  <1>1. /\ UNCHANGED <<state, mem, sender, form, live, entered, bootstrap>>
        /\ state = "up" /\ s \in Process /\ s \notin Edit
    BY ConsoleAssumption DEF SetupStep, GuardSetup, SetupRefused, SetupConfig, Ready, who, start,
       reqs, Process
  <1>2. \A q \in Process : q # s => pc'[q] = pc[q] /\ draft'[q] = draft[q]
    BY DEF SetupStep, GuardSetup, SetupRefused, SetupConfig, Goto, IInv, TypeOK
  <1>3. pc'[s] = "set" => draft'[s].admins # {}
    <2>1. CASE GuardSetup(s) \/ SetupRefused(s)
      BY <1>1, <2>1 DEF GuardSetup, SetupRefused, Goto, IInv, TypeOK
    <2>2. ASSUME NEW a \in Email, NEW m, NEW x, SetupConfig(s, a, m, x)
          PROVE  draft'[s].admins # {}
      <3>1. draft'[s] = [admins |-> mem.admins \cup {a}, mail |-> m, secret |-> x]
        BY <1>1, <2>2 DEF SetupConfig, IInv, TypeOK
      <3>2. QED BY <3>1
    <2>3. QED BY <2>1, <2>2 DEF SetupStep
  <1>4. QED BY <1>1, <1>2, <1>3 DEF KeptInv, KeepsSelf, Process

LEMMA SignInKept ==
    ASSUME IInv, KeptInv, NEW v \in SignIn, SignInStep(v)
    PROVE  KeptInv'
  <1>1. /\ UNCHANGED <<state, mem, draft, sender, form, bootstrap>>
        /\ state = "up" /\ live \subseteq live'
        /\ entered' => entered \/ mem.admins # {}
    BY DEF SignInStep, CloseSetup, OpenSession, Ready, start, reqs, IInv, TypeOK
  <1>2. \A q \in Process : pc'[q] = pc[q] \/ pc'[q] \in {"close", "done"}
    BY DEF SignInStep, CloseSetup, OpenSession, Goto, IInv, TypeOK
  <1>3. QED BY <1>1, <1>2 DEF KeptInv, KeepsSelf, Process

LEMMA LifeKept ==
    ASSUME IInv, KeptInv,
           \/ \E seed \in Seeds : StartWithoutFile(seed)
           \/ StartFromFile \/ Serve \/ RefuseToServe \/ Crash
    PROVE  KeptInv'
  <1>1. CASE (\E seed \in Seeds : StartWithoutFile(seed)) \/ StartFromFile
    <2>1. /\ state = "down" /\ state' \in {"starting", "refused"} /\ ~entered
          /\ UNCHANGED <<entered, bootstrap>>
      BY <1>1 DEF StartWithoutFile, StartFromFile, who, start, KeptInv
    <2>2. \A q \in Process : pc'[q] \in {"idle", "done", "open", "serve"}
      BY <1>1, <2>1 DEF StartWithoutFile, StartFromFile, Goto, IInv, LockOK, TypeOK
    <2>3. QED BY <2>1, <2>2 DEF KeptInv, Process
  <1>2. CASE Serve
    <2>1. \A q \in Process : pc'[q] = pc[q] \/ pc'[q] = "done"
      BY <1>2 DEF Serve, Goto, IInv, TypeOK
    <2>2. QED BY <1>2, <2>1 DEF Serve, KeptInv, KeepsSelf, reqs, Process
  <1>3. CASE RefuseToServe
    <2>1. \A q \in Process : pc'[q] = pc[q] \/ pc'[q] = "done"
      BY <1>3 DEF RefuseToServe, Goto, IInv, TypeOK
    <2>2. QED BY <1>3, <2>1 DEF RefuseToServe, KeptInv, KeepsSelf, who, start, reqs, Process
  <1>4. CASE Crash
    BY <1>4 DEF Crash, KeptInv, Process
  <1>5. QED BY <1>1, <1>2, <1>3, <1>4

\* No session ends that an edit has seen and is about to look at again.
LEMMA VanishKept ==
    ASSUME IInv, KeptInv, NEW a \in Email, Vanish(a), StaysWhileChecked
    PROVE  KeptInv'
  <1>1. \A e \in Edit : pc[e] # "self"
    BY DEF Vanish, StaysWhileChecked
  <1>2. QED BY <1>1 DEF Vanish, KeptInv, KeepsSelf, start, reqs

LEMMA StepKept ==
    ASSUME IInv, KeptInv, [Next]_vars, [StaysWhileChecked]_vars
    PROVE  KeptInv'
  <1>1. CASE \E p \in Process : Save(p) \/ SetConfig(p)
    BY <1>1, SaveKept, SetKept
  <1>2. CASE \E e \in Edit : EditStep(e)
    BY <1>2, EditKept
  <1>3. CASE \E s \in Setup : SetupStep(s)
    BY <1>3, SetupKept
  <1>4. CASE \E v \in SignIn : SignInStep(v)
    BY <1>4, SignInKept
  <1>5. CASE \/ \E seed \in Seeds : StartWithoutFile(seed)
             \/ StartFromFile \/ Serve \/ RefuseToServe \/ Crash
    BY <1>5, LifeKept
  <1>6. CASE \E a \in Email : Vanish(a)
    <2>1. live' # live
      BY <1>6 DEF Vanish
    <2>2. StaysWhileChecked
      BY <2>1 DEF vars, who
    <2>3. QED BY <1>6, <2>2, VanishKept
  <1>7. CASE UNCHANGED vars
    BY <1>7 DEF vars, disks, who, start, reqs, KeptInv, KeepsSelf
  <1>8. QED BY <1>1, <1>2, <1>3, <1>4, <1>5, <1>6, <1>7 DEF Next

LEMMA KeptInvariance == Spec /\ [][StaysWhileChecked]_vars => []KeptInv
  BY InitKept, StepKept, Invariance, PTL DEF Spec

\* A running gateway always has an administrator or an open setup page, whatever
\* the edits, setups and sign-ins, unless a session ends between the two looks
\* handleSetConfig takes at it: that race is the only way to lose the last one.
THEOREM NeverLeftOrphaned == Spec /\ [][StaysWhileChecked]_vars => []NeverOrphaned
  <1>1. IInv /\ KeptInv => NeverOrphaned
    BY DEF IInv, KeptInv, Repairable, NeverOrphaned
  <1>2. QED BY <1>1, Invariance, KeptInvariance, PTL

\* The console does not let an administrator remove himself, with the same
\* exception: the counterexample of the Self run is the only one there is.
THEOREM EditorsStay == Spec /\ [][StaysWhileChecked]_vars => EditorStaysAdmin
  <1>1. ASSUME IInv, KeptInv, [Next]_vars, NEW e \in Edit, TakesEffect(e)
        PROVE  sender[e] \in mem'.admins
    <2>1. pc[e] = "set" /\ pc'[e] = "open" /\ e \in Process
      BY <1>1 DEF TakesEffect, Process
    <2>2. sender[e] \in draft[e].admins
      BY <1>1, <2>1 DEF KeptInv
    <2>3. Set(e)
      BY <1>1, <2>1, OnlySetOpens
    <2>4. QED BY <2>2, <2>3 DEF Set
  <1>2. IInv /\ KeptInv /\ [Next]_vars
          => [\A e \in Edit : TakesEffect(e) => sender[e] \in mem'.admins]_vars
    BY <1>1
  <1>3. QED BY <1>2, Invariance, KeptInvariance, PTL DEF Spec, EditorStaysAdmin

-----------------------------------------------------------------------------
\* Where edits do not overlap: SecretInv.

\* Only Set changes the configuration of a gateway with requests under way.
LEMMA MemChanges ==
    ASSUME IInv, [Next]_vars
    PROVE  \/ mem' = mem
           \/ \E p \in Process : Set(p)
           \/ \A e \in Edit : pc'[e] # "set"
  <1>1. ASSUME state = "down", NEW l \in {"open", "serve"}, Goto(Main, l), NEW e \in Edit
        PROVE  pc'[e] # "set"
    BY <1>1 DEF Goto, IInv, LockOK, TypeOK, Process
  <1>2. CASE StartFromFile \/ \E seed \in Seeds : StartWithoutFile(seed)
    BY <1>1, <1>2 DEF StartFromFile, StartWithoutFile
  <1>3. CASE Crash
    BY <1>3 DEF Crash, Process
  <1>4. CASE \E p \in Process : Save(p) \/ SetConfig(p)
    BY <1>4 DEF Save, OpenTmp, FillTmp, RenameTmp, SaveReturns, SaveFails, SetConfig, SetRefused
  <1>5. CASE \/ \E e \in Edit : EditStep(e)
             \/ \E s \in Setup : SetupStep(s)
             \/ \E v \in SignIn : SignInStep(v)
    BY <1>5 DEF EditStep, RequireAdmin, CheckSelf, ReadAndMerge, SetupStep, GuardSetup,
       SetupRefused, SetupConfig, SignInStep, CloseSetup, OpenSession
  <1>6. CASE Serve \/ RefuseToServe \/ \E a \in Email : Vanish(a)
    BY <1>6 DEF Serve, RefuseToServe, Vanish
  <1>7. CASE UNCHANGED vars
    BY <1>7 DEF vars
  <1>8. QED BY <1>2, <1>3, <1>4, <1>5, <1>6, <1>7 DEF Next

\* An edit reaches its Set by reading the store, and its draft stays as it was.
LEMMA DraftChanges ==
    ASSUME IInv, [Next]_vars, NEW e \in Edit, pc'[e] = "set"
    PROVE  \/ ReadAndMerge(e)
           \/ pc[e] = "set" /\ draft'[e] = draft[e] /\ form' = form
  <1>1. \A q \in Process : \A l : Goto(q, l) => pc'[e] = IF e = q THEN l ELSE pc[e]
    BY DEF Goto, IInv, TypeOK, Process
  <1>2. CASE \E p \in Process : Save(p) \/ SetConfig(p)
    BY <1>1, <1>2 DEF Save, OpenTmp, FillTmp, RenameTmp, SaveReturns, SaveFails, SetConfig,
       SetRefused, Set, reqs
  <1>3. ASSUME NEW f \in Edit, EditStep(f)
        PROVE  \/ ReadAndMerge(e)
               \/ pc[e] = "set" /\ draft'[e] = draft[e] /\ form' = form
    <2>1. f \in Process /\ e \in Process
      BY DEF Process
    <2>2. CASE ReadAndMerge(f) /\ f # e
      BY <1>1, <2>1, <2>2 DEF ReadAndMerge, IInv, TypeOK, reqs
    <2>3. CASE RequireAdmin(f) \/ CheckSelf(f)
      BY <1>1, <2>1, <2>3 DEF RequireAdmin, CheckSelf, reqs
    <2>4. QED BY <1>3, <2>2, <2>3 DEF EditStep
  <1>4. ASSUME NEW s \in Setup, SetupStep(s)
        PROVE  pc[e] = "set" /\ draft'[e] = draft[e] /\ form' = form
    <2>1. s \in Process /\ e \in Process /\ s # e
      BY ConsoleAssumption DEF Process
    <2>2. QED BY <1>1, <1>4, <2>1 DEF SetupStep, GuardSetup, SetupRefused, SetupConfig, IInv,
             TypeOK, reqs
  <1>5. CASE \E v \in SignIn : SignInStep(v)
    BY <1>1, <1>5, ConsoleAssumption DEF SignInStep, CloseSetup, OpenSession, reqs, Process
  <1>6. CASE \/ \E seed \in Seeds : StartWithoutFile(seed)
             \/ StartFromFile \/ Serve \/ RefuseToServe
    BY <1>1, <1>6, ConsoleAssumption DEF StartWithoutFile, StartFromFile, Serve, RefuseToServe,
       reqs, Process
  <1>7. CASE Crash
    BY <1>7, ConsoleAssumption DEF Crash, Process
  <1>8. CASE (\E a \in Email : Vanish(a)) \/ UNCHANGED vars
    BY <1>8 DEF Vanish, vars, reqs
  <1>9. QED BY <1>2, <1>3, <1>4, <1>5, <1>6, <1>7, <1>8 DEF Next

LEMMA StepSecret ==
    ASSUME IInv, SecretInv, [Next]_vars, [NoOverlap]_vars
    PROVE  SecretInv'
  <1> SUFFICES ASSUME NEW e \in Edit, pc'[e] = "set", form'[e].secret = Keep
               PROVE  draft'[e].secret = mem'.secret
    BY DEF SecretInv
  <1>1. CASE ReadAndMerge(e)
    <2>1. draft'[e] = Merge(form[e], mem) /\ form' = form /\ mem' = mem
      BY <1>1 DEF ReadAndMerge, reqs, IInv, TypeOK, Process
    <2>2. QED BY <2>1, MergeTyped DEF IInv, TypeOK
  <1>2. CASE pc[e] = "set" /\ draft'[e] = draft[e] /\ form' = form
    <2>1. draft[e].secret = mem.secret
      BY <1>2 DEF SecretInv
    <2>2. ASSUME NEW p \in Process, Set(p) PROVE mem' = mem
      <3>1. pc[p] = "set" /\ pc'[p] = "open"
        BY <2>2 DEF Set, Ready, Goto, IInv, TypeOK
      <3>2. pc' # pc
        BY <3>1
      <3>3. p # e /\ TakesEffect(p)
        BY <3>1 DEF TakesEffect
      <3>4. NoOverlap
        BY <3>2 DEF vars
      <3>5. QED BY <1>2, <3>3, <3>4 DEF NoOverlap
    <2>3. QED BY <1>2, <2>1, <2>2, MemChanges
  <1>3. QED BY <1>1, <1>2, DraftChanges

LEMMA SecretInvariance == Spec /\ [][NoOverlap]_vars => []SecretInv
  <1>1. Init => SecretInv
    BY DEF Init, SecretInv, Process
  <1>2. QED BY <1>1, StepSecret, Invariance, PTL DEF Spec

\* Saving with the password left blank keeps the stored one, unless another
\* configuration takes effect between the edit's Get and its Set: the overlap
\* the TwoEdits run shows is the only way to bring an old password back.
THEOREM BlankKeepsTheSecret == Spec /\ [][NoOverlap]_vars => BlankKeepsSecret
  <1>1. ASSUME IInv, SecretInv, [Next]_vars, NEW e \in Edit, TakesEffect(e),
               form[e].secret = Keep
        PROVE  mem'.secret = mem.secret
    <2>1. pc[e] = "set" /\ pc'[e] = "open" /\ e \in Process
      BY <1>1 DEF TakesEffect, Process
    <2>2. draft[e].secret = mem.secret
      BY <1>1, <2>1 DEF SecretInv
    <2>3. Set(e)
      BY <1>1, <2>1, OnlySetOpens
    <2>4. QED BY <2>2, <2>3 DEF Set
  <1>2. IInv /\ SecretInv /\ [Next]_vars
          => [\A e \in Edit : TakesEffect(e) /\ form[e].secret = Keep
                 => mem'.secret = mem.secret]_vars
    BY <1>1
  <1>3. QED BY <1>2, Invariance, SecretInvariance, PTL DEF Spec, BlankKeepsSecret
=============================================================================
