------------------------------ MODULE Console -------------------------------
(***************************************************************************)
(* The configuration and who may change it: store.Store (internal/store/   *)
(* store.go: LoadStore, Get, Set, save), the console's POST                *)
(* /admin/api/config and the first-run POST /setup (internal/auth), the    *)
(* sign-in that closes setup, and what main.go decides from the stored     *)
(* file each time the process starts.                                      *)
(*                                                                         *)
(* A configuration is reduced to what these paths tell apart: who the      *)
(* administrators are, whether mail can be sent, and the write-only secret *)
(* (the SMTP password; the TLS key is folded in the same way). Set holds   *)
(* the store's write lock until save returns, so readers wait for it.      *)
(***************************************************************************)
EXTENDS Naturals, FiniteSets

CONSTANTS
    Email,      \* addresses
    Secret,     \* values of the SMTP password
    None,       \* no password
    Keep,       \* a password field left blank
    Edit,       \* POST /admin/api/config requests
    Setup,      \* POST /setup requests
    SignIn,     \* successful POST /auth/verify requests
    Main,       \* the goroutine of main(), while it starts the gateway
    NoFile,     \* what the path holds before the first run
    Torn,       \* what a file holds while it is being written
    Seeds,      \* the configurations the command line may seed
    FlagMail,   \* whether -smtp-addr or -ignore-email is given
    Vanishes,   \* whether a session may end while its request runs
    MaxCrash    \* bound: how often the process dies

Process == Edit \cup Setup \cup SignIn \cup {Main}

Config == [admins : SUBSET Email, mail : BOOLEAN, secret : Secret \cup {None}]
\* What a form submits: clearing the password is submitting None.
Form == [admins : SUBSET Email, mail : BOOLEAN, secret : Secret \cup {None, Keep}]

ASSUME ConsoleAssumption ==
    /\ Seeds \subseteq Config
    /\ None \notin Secret /\ Keep \notin Secret /\ None # Keep
    /\ NoFile \notin Config /\ Torn \notin Config /\ NoFile # Torn
    /\ Edit \cap Setup = {} /\ Edit \cap SignIn = {} /\ Setup \cap SignIn = {}
    /\ Main \notin Edit \cup Setup \cup SignIn
    /\ FlagMail \in BOOLEAN /\ Vanishes \in BOOLEAN /\ MaxCrash \in Nat

VARIABLES
    state,      \* of the process: "down", "starting", "up", or "refused" to start
    mem,        \* Store.cfg
    writer,     \* {} or the process holding the store's write lock, as a set
    disk,       \* the configuration file
    tmp,        \* the file save() writes before it renames it
    setupOpen,  \* Manager.setupOpen
    live,       \* the addresses with a signed-in browser
    pc,         \* [Process -> the step it runs next]
    sender,     \* [Edit -> the address whose session it came with]
    form,       \* [Edit -> the submitted form]
    draft,      \* [Process -> the configuration it is about to Set]
    crashes,    \* counts crashes, up to MaxCrash
    saved,      \* history: the configuration of the last Set that returned
    bootstrap,  \* history: this process started without an administrator
    entered     \* history: an administrator has signed in since it started

disks == <<disk, tmp, saved>>
who   == <<setupOpen, live, entered>>
start == <<crashes, bootstrap>>
reqs  == <<sender, form>>
vars  == <<state, mem, writer, pc, draft, disks, who, start, reqs>>

Blank == [admins |-> {}, mail |-> FALSE, secret |-> None]

TypeOK ==
    /\ state \in {"down", "starting", "up", "refused"}
    /\ mem \in Config
    /\ writer \subseteq Process /\ Cardinality(writer) <= 1
    /\ disk \in Config \cup {NoFile, Torn}
    /\ tmp \in Config \cup {NoFile, Torn}
    /\ setupOpen \in BOOLEAN
    /\ live \subseteq Email
    /\ pc \in [Process -> {"idle", "self", "read", "set", "open", "fill", "rename",
                           "return", "serve", "close", "done"}]
    /\ sender \in [Edit -> Email]
    /\ form \in [Edit -> Form]
    /\ draft \in [Process -> Config]
    /\ crashes \in 0..MaxCrash
    /\ saved \in Config \cup {NoFile}
    /\ bootstrap \in BOOLEAN
    /\ entered \in BOOLEAN

Init ==
    /\ state = "down"
    /\ mem = Blank
    /\ writer = {}
    /\ disk = NoFile /\ tmp = NoFile /\ saved = NoFile
    /\ setupOpen = FALSE /\ live = {} /\ entered = FALSE
    /\ pc = [p \in Process |-> "idle"]
    /\ sender \in [Edit -> Email]
    /\ form \in [Edit -> Form]
    /\ draft = [p \in Process |-> Blank]
    /\ crashes = 0 /\ bootstrap = FALSE

Goto(p, l) == pc' = [pc EXCEPT ![p] = l]
Unlocked == writer = {}
\* A request is served by the running gateway, and reads an unlocked store.
Ready(p, l) == state = "up" /\ pc[p] = l /\ Unlocked

-----------------------------------------------------------------------------
\* save(): the temporary file is created, filled and renamed; any of the three
\* may fail, which leaves the new configuration in memory only. WriteFile
\* truncates whatever an earlier attempt left behind.

OpenTmp(p) ==
    /\ pc[p] = "open"
    /\ tmp' = Torn
    /\ Goto(p, "fill")
    /\ UNCHANGED <<state, mem, writer, draft, disk, saved, who, start, reqs>>

FillTmp(p) ==
    /\ pc[p] = "fill"
    /\ tmp' = mem
    /\ Goto(p, "rename")
    /\ UNCHANGED <<state, mem, writer, draft, disk, saved, who, start, reqs>>

\* Variants named "...Bug" are plausible slips of the definition that follows
\* them; nothing uses them but the mutation checks.
RenamedBug == Torn
Renamed == tmp

RenameTmp(p) ==
    /\ pc[p] = "rename"
    /\ disk' = Renamed
    /\ tmp' = NoFile
    /\ Goto(p, "return")
    /\ UNCHANGED <<state, mem, writer, draft, saved, who, start, reqs>>

\* Set returns nil and the lock is released; main goes on to serve.
SaveReturns(p) ==
    /\ pc[p] = "return"
    /\ saved' = mem
    /\ writer' = {}
    /\ Goto(p, IF p = Main THEN "serve" ELSE "done")
    /\ UNCHANGED <<state, mem, draft, disk, tmp, who, start, reqs>>

SaveFails(p) ==
    /\ pc[p] \in {"open", "fill", "rename"}
    /\ writer' = {}
    /\ Goto(p, "done")
    /\ state' = IF p = Main THEN "refused" ELSE state
    /\ UNCHANGED <<mem, draft, disks, who, start, reqs>>

\* Set: normalise, validate, then lock, replace and save.
Valid(c) == c.secret # None => c.mail

SetRefused(p) ==
    /\ Ready(p, "set")
    /\ ~Valid(draft[p])
    /\ Goto(p, "done")
    /\ UNCHANGED <<state, mem, writer, draft, disks, who, start, reqs>>

Set(p) ==
    /\ Ready(p, "set")
    /\ Valid(draft[p])
    /\ mem' = draft[p]
    /\ writer' = {p}
    /\ Goto(p, "open")
    /\ UNCHANGED <<state, draft, disks, who, start, reqs>>

-----------------------------------------------------------------------------
\* main.go: run() and LoadStore.

StartWithoutFile(seed) ==
    /\ state = "down" /\ disk = NoFile
    /\ state' = "starting"
    /\ mem' = seed
    /\ writer' = {Main}
    /\ Goto(Main, "open")
    /\ UNCHANGED <<draft, disks, who, start, reqs>>

\* A file that does not parse stops the start.
StartFromFile ==
    /\ state = "down" /\ disk # NoFile
    /\ state' = IF disk = Torn THEN "refused" ELSE "starting"
    /\ mem' = IF disk = Torn THEN mem ELSE disk
    /\ Goto(Main, "serve")
    /\ UNCHANGED <<writer, draft, disks, who, start, reqs>>

\* buildMailer: with nobody to sign in yet, missing mail is not fatal.
Deliverable == FlagMail \/ mem.mail \/ mem.admins = {}

Serve ==
    /\ state = "starting" /\ pc[Main] = "serve"
    /\ Deliverable
    /\ state' = "up"
    /\ bootstrap' = (mem.admins = {})
    /\ setupOpen' = (mem.admins = {})
    /\ Goto(Main, "done")
    /\ UNCHANGED <<mem, writer, draft, disks, live, entered, crashes, reqs>>

RefuseToServe ==
    /\ state = "starting" /\ pc[Main] = "serve"
    /\ ~Deliverable
    /\ state' = "refused"
    /\ Goto(Main, "done")
    /\ UNCHANGED <<mem, writer, draft, disks, who, start, reqs>>

\* The process dies at any point; sessions, the setup flag and the requests it
\* was serving die with it, the files stay. A save already renamed has happened.
Crash ==
    /\ state \in {"starting", "up"}
    /\ crashes < MaxCrash
    /\ crashes' = crashes + 1
    /\ state' = "down"
    /\ mem' = Blank /\ writer' = {}
    /\ setupOpen' = FALSE /\ live' = {} /\ entered' = FALSE
    /\ bootstrap' = FALSE
    /\ saved' = IF \E p \in writer : pc[p] = "return" THEN mem ELSE saved
    /\ pc' = [p \in Process |-> IF p = Main \/ pc[p] = "idle" THEN "idle" ELSE "done"]
    /\ UNCHANGED <<draft, disk, tmp, reqs>>

-----------------------------------------------------------------------------
\* handleSetConfig. SessionFor runs in requireAdminAPI and once more in the
\* handler; the session may be gone by the second time.

RequireAdmin(e) ==
    /\ e \in Edit /\ Ready(e, "idle")
    /\ Goto(e, IF sender[e] \in live /\ sender[e] \in mem.admins THEN "self" ELSE "done")
    /\ UNCHANGED <<state, mem, writer, draft, disks, who, start, reqs>>

KeepsSelfBug(e) == sender[e] \in mem.admins
KeepsSelf(e) == sender[e] \in form[e].admins

CheckSelf(e) ==
    /\ e \in Edit /\ Ready(e, "self")
    /\ Goto(e, IF sender[e] \in live => KeepsSelf(e) THEN "read" ELSE "done")
    /\ UNCHANGED <<state, mem, writer, draft, disks, who, start, reqs>>

MergeKeptBug(f, current) == f
MergeBug(f, current) ==
    [f EXCEPT !.secret = IF f.secret = Keep THEN None ELSE f.secret]
Merge(f, current) ==
    [f EXCEPT !.secret = IF f.secret = Keep THEN current.secret ELSE f.secret]

ReadAndMerge(e) ==
    /\ e \in Edit /\ Ready(e, "read")
    /\ draft' = [draft EXCEPT ![e] = Merge(form[e], mem)]
    /\ Goto(e, "set")
    /\ UNCHANGED <<state, mem, writer, disks, who, start, reqs>>

\* handleSetup: guardSetup, then setupConfig adds the administrator to what is
\* stored and takes the mail settings of the form. A wrong token or a
\* rate-limited caller is refused whatever the state.
GuardSetup(s) ==
    /\ s \in Setup /\ Ready(s, "idle")
    /\ Goto(s, IF setupOpen THEN "read" ELSE "done")
    /\ UNCHANGED <<state, mem, writer, draft, disks, who, start, reqs>>

SetupRefused(s) ==
    /\ s \in Setup /\ Ready(s, "idle")
    /\ Goto(s, "done")
    /\ UNCHANGED <<state, mem, writer, draft, disks, who, start, reqs>>

SetupConfig(s, admin, mail, secret) ==
    /\ s \in Setup /\ Ready(s, "read")
    /\ draft' = [draft EXCEPT ![s] = [admins |-> mem.admins \cup {admin},
                                      mail   |-> mail,
                                      secret |-> secret]]
    /\ Goto(s, "set")
    /\ UNCHANGED <<state, mem, writer, disks, who, start, reqs>>

\* handleVerify, once the code is accepted: newSession records whether the
\* address is an administrator, and closeSetup follows for one who is.
ClosesBug(a) == TRUE
Closes(a) == a \in mem.admins

OpenSession(v, a) ==
    /\ v \in SignIn /\ Ready(v, "idle")
    /\ live' = live \cup {a}
    /\ entered' = (entered \/ a \in mem.admins)
    /\ Goto(v, IF Closes(a) THEN "close" ELSE "done")
    /\ UNCHANGED <<state, mem, writer, draft, disks, setupOpen, start, reqs>>

CloseSetup(v) ==
    /\ v \in SignIn /\ state = "up" /\ pc[v] = "close"
    /\ setupOpen' = FALSE
    /\ Goto(v, "done")
    /\ UNCHANGED <<state, mem, writer, draft, disks, live, entered, start, reqs>>

\* A logout, a revocation or an expiry.
Vanish(a) ==
    /\ Vanishes /\ state = "up" /\ a \in live
    /\ live' = live \ {a}
    /\ UNCHANGED <<state, mem, writer, pc, draft, disks, setupOpen, entered, start, reqs>>

-----------------------------------------------------------------------------
Save(p) == OpenTmp(p) \/ FillTmp(p) \/ RenameTmp(p) \/ SaveReturns(p) \/ SaveFails(p)
SetConfig(p) == SetRefused(p) \/ Set(p)
EditStep(e) == RequireAdmin(e) \/ CheckSelf(e) \/ ReadAndMerge(e)
SetupStep(s) ==
    \/ GuardSetup(s) \/ SetupRefused(s)
    \/ \E a \in Email, m \in BOOLEAN, x \in Secret \cup {None} : SetupConfig(s, a, m, x)
SignInStep(v) == CloseSetup(v) \/ \E a \in Email : OpenSession(v, a)

Next ==
    \/ \E p \in Process : Save(p) \/ SetConfig(p)
    \/ \E e \in Edit : EditStep(e)
    \/ \E s \in Setup : SetupStep(s)
    \/ \E v \in SignIn : SignInStep(v)
    \/ \E seed \in Seeds : StartWithoutFile(seed)
    \/ StartFromFile \/ Serve \/ RefuseToServe \/ Crash
    \/ \E a \in Email : Vanish(a)

Spec == Init /\ [][Next]_vars

-----------------------------------------------------------------------------
\* The step at which a request's configuration takes effect.
TakesEffect(p) == pc[p] = "set" /\ pc'[p] = "open"

\* "save writes the config atomically": whenever the process dies, the file
\* holds the configuration of the last Set that returned, or - between the
\* rename and the return - the one being saved. It is never torn, and a Set
\* that failed half way never reaches it.
Durable ==
    \/ disk = saved
    \/ disk = mem /\ \E p \in writer : pc[p] = "return"

\* Setup "stays open until that first sign-in actually succeeds" (setup.go): a
\* gateway that started without an administrator remains repairable through
\* the link until an administrator has signed in, whoever else signs in and
\* however often the form is submitted.
Repairable == state = "up" /\ bootstrap /\ ~entered => setupOpen

\* A running gateway always has an administrator or an open setup page: no
\* sequence of edits, setups and sign-ins leaves it with nobody to configure it.
NeverOrphaned == state = "up" /\ mem.admins = {} => setupOpen

\* docs/configuration.md: the console does not let an administrator remove
\* himself from the list.
EditorStaysAdmin ==
    [][\A e \in Edit : TakesEffect(e) => sender[e] \in mem'.admins]_vars

\* docs/configuration.md: saving with the password left blank keeps the stored
\* password.
BlankKeepsSecret ==
    [][\A e \in Edit : TakesEffect(e) /\ form[e].secret = Keep
            => mem'.secret = mem.secret]_vars
=============================================================================
