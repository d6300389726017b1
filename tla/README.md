# wvpn: TLA+ models and proofs

wvpn is a web gateway: a browser signs in with a code mailed to it, and asks
one Go process for pages of sites behind it. The process keeps all of its state
in memory, except for one JSON file, and serves every request in a goroutine of
its own. These modules model the parts of it where the order of events matters
- who gets in, for how long, what the configuration says, where a request may
go, which certificates are believed - check them with TLC on small instances and
prove the most important facts with TLAPS for all instances.

File names below are relative to the repository; `src/` stands for its root.

## 1. Inventory

| Part | Source | State | Operations | What is hard | What makes it correct |
|---|---|---|---|---|---|
| Sign-in by code | `internal/auth/manager.go` | `codes`, `sessions`, `setupOpen`, under `mu` | request a code, verify it, sweep | throttle, allowlist, store and mail are in different sections; guesses race; the clock is read before the lock | a code stands so many guesses, signs in once, in time, for its own address, while that address is allowed |
| Request budget | `manager.go` (`rateLimited`) | `ipHits` | record and trim, sweep | readings reach the lock out of order; the sweep uses an older one | never more than the budget in a window, no refusal without it |
| Session table | `manager.go` | `sessions` | look up and slide, renew, log out, revoke, sweep | each cookie is a section of its own; renewals act on a copy; lifetime and administrators change meanwhile | what ended stays ended, who is active stays in, who is idle goes out, only administrators revoke |
| Store and console | `internal/store/store.go`, `manager.go` | `cfg` and its parsed rules, the file | load, get, set, save; the console's save | crash and failing writes; read-merge-write without a lock over it; the sender's session may end meanwhile | the file is whole and is what was acknowledged; nobody locks himself out; secrets survive |
| First-run setup | `internal/auth/setup.go`, `cmd/webvpn/main.go` | `setupOpen`, token | show, test mail, save, close | closes with a sign-in in another goroutine; restarts decide anew | the gateway stays repairable until an administrator is in, and is shut afterwards |
| Target guard | `internal/webvpn/guard.go`, `store.go` | the site list | check a name, check an address | two phases and several snapshots per request; DNS answers change; connections are reused | never a refused address; the two phases add up to the list |
| Certificate trust | `internal/webvpn/tls.go` | `pinned`, `offered` | offer, confirm, look up | handshake, look-up and offer are apart; sites swap certificates; one offer per host | only what verifies or was confirmed is believed, only what was met can be pinned |
| Renewal by open pages | `assets/shim.js`, `portal.html`, `admin.html` | a timer per page, the cookie | ask, schedule | suspended tabs, lost and crossing answers, several tabs, two lifetimes | an open page stays signed in |
| Codecs and routing | `internal/webvpn/codec.go`, `proxy.go`, `manager.go` (`gatewayOnly`) | none of their own | encode, decode, route, redirect, attribute | escapes, ports and markers in one label; the scheme is asked for several times per request; several hops | an address reaches the target it was written for and no other; the gateway's pages are not shadowed |
| Codec cache | `cmd/webvpn/main.go` (`codecCache`) | the built codec and its settings | get, build | compare, unlock, build, store | what is answered was in force during the call |
| Cookie jars | `internal/webvpn/jar.go`, `cookie.go` | a jar per session | get, look up, sweep | three places for a cookie (jar, browser, report on its way), filled in different orders; idle and size limits | a cookie reaches the sites it was set for, within its session, and is lost only when due |
| Page memory | `internal/webvpn/pages.go` | last two documents per browser | record, look up, sweep | loads overlap, answers are lost, trails are pushed out | a request is attributed to the page that sent it, or to none |
| Listener certificate | `cmd/webvpn/main.go` (`certSource`) | the parsed certificate | read at a handshake | - | - |
| Rewriting, headers, mail, pages | `rewrite.go`, `restore.go`, `shim.js`, `headers.go`, `mailer.go`, templates | none | text to text | what the shim and the server write must agree | an address of the gateway's own is recognised as such; parameters are restored to the character |

How the parts meet: every proxied request passes `Require` (session table), then
`CheckTarget` (guard, reading the store), then a dial that runs `CheckDialAddr`
and, over TLS, the certificate check. Every POST of the sign-in and of setup passes the
request budget. The console changes the store under all of them, one call at a
time and without a common lock: each part sees the store change between any two
of its own readings. Among what it changes is the addressing scheme, which every
step of a request that needs it asks the codec cache for again. The janitor sweeps codes, sessions and hits in one section.

## 2. Plan

Modules written, in this order: `OneTimeCode` and `SignIn` with their proofs,
`RateLimiter` with its proofs, `Sessions`, `Console`, `Guard`, `OpenPages`,
`Trust`, then the proofs about `Sessions` and `Trust`; then `Addressing`,
`CodecCache`, `Routing`, which composes those two, with the proofs about all
three in `RoutingProofs`, `Cookies` and `Pages`; then `GuardProofs`, `ConsoleProofs` and
`BrowserProofs`, about `Cookies`, `Pages` and `OpenPages`.

Still to come, most important first:

1. Composition of `Sessions` and `OpenPages`: that the one-step renewal of
   `OpenPages` is implemented by the steps of `Sessions`.
2. `globMatch` and the pattern lists of `store.go` as operators, for `Guard`.

Abstract specifications: `OneTimeCode` is what sign-in promises of a code.
In `Guard` the abstract side is `Permits`, what a list says of a name and an
address read at once; in `Console`, `saved`, the last acknowledged
configuration. `CodecCache` says what any caller may rely on, and `Routing`
implements it.

## 3. Modules

All modules treat a goroutine as a process with a program counter `pc`. One
action is one section under a lock, or one reading made outside of it: of the
clock, of the store, of the resolver. A handler keeps the value it read (`now`,
`stamp`, `span`, `draft`, `answers`, `leaf`) and acts on it later. History
variables, marked in the declarations, record what the properties speak about
and nothing reads them in a guard.

**SignIn** (`handleRequestCode`, `handleVerify`, `newSession`, `closeSetup`,
`sweep`). `codes` maps an address to its `codeState`; a code carries the request
that issued it, which is how the properties tell codes apart. `standing` is what
`store.Allowed` and `store.IsAdmin` say of an address, changed by `SaveConfig` at
any moment. `CheckThrottle` and `StoreCode` are two sections, as in the code;
`RefuseCode`, `WrongCode` and `RightCode` are the three ways through the one
section of `handleVerify`.

**OneTimeCode** is the promise to a user: a code is issued to an address, missed
at most so often, redeemed at most once by a request of that address, or lapses.
`SignIn` implements it under the mapping at its end.

**RateLimiter** (`rateLimited`, `trimHits`, the sweep of `ipHits`). A hit is
represented by the request that left it; its time is that request's reading.

**Sessions** (`SessionFor`, `Require`, `handleRenew`, `handleLogout`,
`requireAdminAPI`, `handleRevokeSession`, `newSession`, the sweep of sessions).
A request carries a set of session cookies which `SessionFor` tries in the order
of the header, hence in any order. `Extend` looks the token up again, as
`handleRenew` does.

**Console** (`LoadStore`, `Set`, `save`, `handleSetConfig`, `handleSetup`, the
sign-in that closes setup, the decisions of `run`). `writer` is the holder of the
store's write lock: while a save is under way nobody else reads the store.
`OpenTmp`, `FillTmp`, `RenameTmp` are what the file system sees of `save`; each may
fail, and `Crash` may strike between any two steps. The file system is assumed
to rename atomically and to keep what was written; `save` does not fsync, so a
loss of power is outside the model. `Vanish` is a logout, a revocation or an
expiry of the session.

**Guard** (`CheckTarget`, `CheckDialAddr`, `CheckAddr`, the four questions to
the store's site list, `http.Transport`'s pool). Each question takes its own
snapshot, so `SaveSites` may fall between any two. `Resolve` returns any set of
addresses, for a literal that address. A pooled connection is taken without a
dial. An HTTP/2 connection, which several requests use at once, is modelled as
one that is taken and given back.

**OpenPages** (the renewal script, `handleRenew` in one step, session and cookie
lifetime). Its unit of time is half a minute: the script's floor is one unit, its
lead two. The pages are those whose requests reach the gateway: the portal, the
console and, under the sub-domain mode, proxied sites. Under the path modes the
script on a proxied page asks the site instead (`MCRoutingOwn`). `Fetch` bounds the requests under way; a tab coming back from sleep
asks again while an earlier answer is still out. Clocks of browser and gateway
agree.

**Trust** (`trustStore`, `dialTLS`, `serveUntrusted`, `serveTrust`). The
handshake fixes the certificate, `Verify` reads the pin, `ServeUntrusted` makes
the offer; a confirmation carries any host and any fingerprint.

**Addressing** (`codec.go`, `Handler.decode`, `unwrapTarget`, `restore.go`,
`Rewriter.Ref` and `Rewriter.JS`, the `rewrite` of `shim.js`) has no state: it is
the codecs and their users as operators. A name is a tuple of tokens in which dots, hyphens
and port numbers stand by themselves, so that a label is spelled and read back as the code does it.
`Token` is the set of those tokens, `Address` that of the targets the codecs speak of. A name may be
written down to the root of the DNS, with a last dot: `hostOnly` drops it (`Rootless`), `encodeLabel` does not.

**CodecCache** (`codecCache`) has the three steps of a call - read the settings,
compare under the lock, build and store - and edits between them.

**Routing** extends both and follows a request: from the page that carries an
address (`source`, `written`) through `Arrive`, `Matched`, `Decoded`, `Unwrapped`,
`Redirected`, `Strayed`, `Rewritten` and `Restored` to one of `Ends`. Each of these that calls
`h.codec()` is a call of the cache, with the console free to save between. `Rewritten` asks whether
parameters for the target are restored (`RestoreFor`, `main.go:213`): everywhere, for the sites a list
names, or nowhere. That setting has no other reader on the way, so its reading is any of `SSOs`,
which is what a save at any moment allows. The portal answers `PortalPaths`. An
address comes about in one of nine ways (`Kinds`), among them those the code was
written against: a path put behind `location.origin`, and the gateway's own path
folded into a site's. `Excepted` lists what the code cannot know or says it does
not do, each case with its name; `Misled` what it cannot know once the console has
saved between the page and the request; `Blurred` what the disguise of a parameter
does not keep.

**Cookies** (`rewriteRequest` and `rewriteCookies`, `jar.go`, `serveCookie`, the
shim's `document.cookie`). A cookie is the record of how it was set: by which
site, for which scope, under which session. There are three places it may be -
the jar, the browser's copy, a report on its way - and `Answer`, `Report` and
`PageWrites` fill them at different times. It follows the sub-domain mode.

**Pages** (`pages.go`, its calls in `serveProxy` and `strayBase`): documents, parts
of them and stray paths of one tab overlap; the answer to each may be lost.

## 4. Runs

Every run's properties are named in its `.cfg`. Operators ending in `Bug` are
mutations: each breaks the definition that follows it the way a slip in the code
would, and each property of a passing run is violated under one of them.

| Run | Shows |
|---|---|
| `MCSignIn` | two code requests, two verify requests, the janitor and edits of the allowlist, with a clock that passes the expiry while old readings are held: guesses bounded, spent once, in time and by whoever earned it, never deleted early, `OneTimeCode` implemented |
| `MCRateLimiter` | five requests of two addresses against a budget of two |
| `MCSessions` | a visit, a renewal, a logout and the sweep on one session: what ended stays ended, ends for a reason, does not outlive its idle limit, and is cleared by a janitor that keeps ticking; and the lifetime and the administrators change while a session is used, renewed and revoked: whoever is active stays signed in, only administrators revoke |
| `MCConsole` | first run: setup, two sign-ins, an edit, failing writes, a crash; and an edit of a seeded configuration with a session that may end |
| `MCConsoleTwoEdits` | *violated*: a blank password restores an old one |
| `MCConsoleSelf` | *violated*: an administrator removes himself |
| `MCGuard` | a user and an administrator share the pool; all lists, all resolver answers, a name outside the operator's lists, one edit: no connection outside the baseline, no dial that has not passed both halves of the lists it met, no refusal a list that stays does not ask for |
| `MCOpenPages` | two tabs with slow and lost requests, sleep, a lifetime the console may change: signed in, always asking |
| `MCTrust` | two hosts, certificate swaps, crossing warnings and confirmations |
| `MCRouting` | addresses of every kind, to names that meet every case of the encodings, in three modes and two wildcard domains: they reach their target, whoever wrote them; with two changes of the mode under way, they reach no other; the portal stays the gateway's; parameters are restored exactly where the console has restoration on, and left alone elsewhere; and no call of the cache answers a replaced scheme |
| `MCRoutingOwn` | *violated*: under the path modes the shim does not recognise the gateway's own addresses |
| `MCBrowser` | two overlapping requests to three sites, two sign-ins, lost answers, late and lost reports, a jar too few: cookies stay within their sites and session, single sign-on carries, what is lost was due; and one tab's overlapping documents, parts and stray paths, two sign-ins, another browser, a trail too few: each attributed to the page it came from, or to none |

The violated runs are disagreements between the code and what its documents or
comments say; `PROJECT.json` quotes both sides under `findings`. All of them are
defects by any reading:

- `MCConsoleSelf`: the handler also dereferences the session it did not find.
- `MCConsoleTwoEdits`: one administrator undoes what another has saved.
- `MCRoutingOwn`: `rewrite` of `shim.js` measures a reference from the target before it asks
  whether it is the gateway's. Under `plain` and `wrd` the shim's own requests
  (`/_wv/session/renew`, `/_wv/cookie`) go through the `fetch` it has patched and
  so to the site, which sees them and answers them; the page is not kept signed
  in, and no cookie is reported. Under `wrd` an address the server has
  written is encoded a second time. The same happens under the sub-domain mode to a page of a
  site that fits in no label and is served in the path form.

### Bounds

- `MaxTime` ends the clock, `MaxDelay` how long a request travels, `MaxEdit`,
  `MaxSwap`, `MaxBlip`, `MaxCrash` count edits, certificate swaps, losses and
  crashes. Each run's values are past the point where its case happens: a clock
  of three ticks goes beyond the expiry of a code that lives one, even if every
  reading is a tick old.
- `Stall` is how many ticks may pass between a reading of the clock and the step
  that uses it. It is not a bound on exploration but the parameter the
  properties are stated in: the code promises its intervals up to the time a
  goroutine takes from `now()` to the lock. The proofs hold for every `Stall`.
- Each request is one process that runs once: two or three in a race are what
  every property here relates, with more where a property counts
  (`MCRateLimiter`). `MCSignIn` has one address: that a code is never spent by
  another address is left to the proof, which has any number of them.
- Two instances of one module, or of two modules that share nothing, may be one run:
  a variable `about`, fixed at the start, says
  which instance a behaviour belongs to, and the MC module says what each leaves
  alone. In `MCSessions` the race holds readings for a tick and keeps the
  settings; the instance with the console changes the settings and holds none. In `MCConsole`
  sessions vanish only in the instance with the seeded configuration, and not
  while the edit is between its two looks at the session, which is `MCConsoleSelf`'s case.
- `MCOpenPages` allows requests of half a
  minute each way and one loss, which together use up the lead of a minute: the
  property is claimed for either, not for both.
- `MCRouting` follows one request, since requests share nothing but the cache and
  another caller of the cache runs beside it. The clock has no part in it. Names are of two to nine
  tokens, `MaxLabel` nine, so that one name is too long; restoration is on, off, or on for one site; every host is tried with every
  scheme and port, paths and parameters are varied on one of them; one name ends in a dot. Only
  the sources in `Changing` meet an edit, with two edits: one between page and request and
  one within the request, or both within it.
- `MCBrowser` gives the jars a clock of two readings and an idle limit of zero, so that one
  tick is past the limit, and keeps two cookies: an older and a newer one is what every
  property there compares. The trails have three readings and a limit of one. One jar and one
  trail for two sessions of the browser and another browser bring the limits
  about. Requests and the two sites of the domain are symmetric; nothing
  compares them but for equality.
- `CHECK_DEADLOCK FALSE` is set where the system really stops: `Console` after a
  refused start, and `Guard`, `OpenPages`, `Trust`, `Routing` and, once the clock and
  the cookies are used up, `Cookies` and `Pages`, whose requests are all
  served in the end and which have no timer of their own that would go on.

### Fairness

Only `Sessions!FairSpec` (`ScopedSpec` in `MCSessions`) needs fairness: weak fairness of `Tick` (time goes on)
and of the two halves of the sweep. `janitor()` runs on a ticker from `New` to
the end of the program, and its section is short. No request is fair: a browser
may go away at any point. So the property is about the sweep alone. Go's mutex
makes a waiting goroutine get the lock eventually, which weak fairness of
`SweepSessions` relies on: the action is never disabled by others.

## 5. Properties and hazards

`PROJECT.json` lists the hazards of this code by line and the properties that
would catch each going wrong. The ones without a property say why.

Some disagreements between documents and code are real but are not stated as
properties. They are where the properties have their qualifications:

- `docs/configuration.md:262` says one address gets no second code within 60
  seconds. `handleRequestCode` looks at the throttle in one section and stores the
  code in a later one, so two requests that arrive together both send a code. In
  `SignIn`: two requests pass `CheckThrottle`, then both run `StoreCode`.
- `README.md:49` and `docs/configuration.md:83` say the setup token is void once an
  administrator has signed in. `handleSetup` asks in `guardSetup` only, so a
  submission that was let in before takes effect after. In `Console`:
  `GuardSetup`, `OpenSession`, `CloseSetup`, `Set`.
- `docs/configuration.md:230` says a changed lifetime takes effect at once.
  `SessionFor` compares the expiry stored under the old one and never shortens it.
  Hence "the longest lifetime configured" in `IdleLimit`.
- `docs/configuration.md:236` says an open page is not interrupted. When the
  lifetime is reduced and one tab renews, another tab still waits for the old,
  longer timer, past the new expiry; and answers given under two lifetimes may
  cross, so that the browser keeps the shorter cookie. Hence `retimed` in
  `OpenPageStaysSignedIn`.
- `tls.go:280-281` gives two reasons for a refused confirmation: never offered, or
  expired. A third is that another user, shown the same page, has confirmed
  already, or that a newer warning for the host has replaced the offer. Hence the
  exceptions in `OffersLast`.

- `guard.go:25-28` says the site policy is consulted twice per request, on the name
  and on the address. `http.Transport` hands an idle connection to the next request for the same
  host without a dial (`proxy.go:225`), so the address is not looked at again,
  and a network the console has denied since then is reached as long as the connection
  lives. In `Guard`: `Finish`, `SaveSites`, `ReuseConn`. `BaselineKept`, about what no
  console can change, holds for pooled connections too.
- `guard.go:151-161` asks the list up to three times about the name, and `CheckDialAddr` up to twice about the address. A request
  that meets an edit passes each half of some list (`DialsArePermitted`), not necessarily one list as a
  whole: where the list before the edit denies the address and the one after it denies the name, it gets
  through, its name checked before and its address after. It may be refused, too, by a list
  that permits it: from no policy to an allowlist that names its host, the name
  is checked under the first and a match required under the second. In `Guard`: `CheckName`, `SaveSites`, `CheckRequiresMatch`.
  Hence `RefusalsAreDue` is about a list that does not change.
- `jar.go:24-25` says a login at one host counts at the next. A site that holds an older cookie of
  its own under the same name is sent that one: `rewriteRequest` lets the
  browser's copy win (`proxy.go:631-634`, `jarPairs`' `taken`) and cannot tell
  which of the two is newer. Hence the third exception in `SignOnCarries`. A
  cookie a page writes is reported without an answer: a report that arrives
  after a newer cookie replaces it, and one that is lost leaves the other hosts
  without it (`shim.js:568-577`).
- Under the sub-domain mode a target's path that begins with `/p/` or `/_wv/` is
  the gateway's (`HostCodec.Match`, `ServeHTTP`): the first is answered 400, or
  decoded as a plain address. `codec.go:14-16` promises root-relative URLs untouched.
  `Taken` excepts them.
- The comment of `decodeLabel` (`codec.go:358`) calls it the inverse of `encodeLabel`, but for names whose last
  component reads as a marker (`Wart`). There are more exceptions. `Rooted`: `encodeLabel` makes a hyphen of the final
  dot of `https://example.com./`, and the marker behind it begins with one, `example-com--s`. The pair reads as a
  hyphen of the name, `http://example.com-s/`. Elsewhere the code knows final dots and drops them (`hostOnly`,
  `guard.go:93`, `store.go:821`). A last hyphen of the name does the same, and a hyphen or a dot behind a dot
  joins the hyphen that dot becomes (`Improper`); the DNS has no such names.
- `proxy.go:490-492` says that counting only references to the target's own host keeps a site that really serves
  such a path from being rewritten. `unwrapTarget` rewrites it where the path names that very host, as
  `example.com` serving `/x/p/https/example.com/y`. `Nested` excepts it.
- `realAddress` (`restore.go`) has only the decoded address to restore a parameter from. Outside the path
  mode that has lost an explicit default port and the scheme of a websocket; a parameter
  whose path has one of the gateway's forms by itself is read as that. `Blurred` excepts these.
- A target inside the wildcard domain has no address (`codec.go:405-409`), and a
  page that links to one leaves the tunnel. `Inside` excepts it. The shim's
  `encode` does not look for the portal's name as the server's does
  (`codec.go:422` against `shim.js:83-90`): a script's request for a target whose
  label is the portal's goes to the portal, and one for a target that bears the gateway's
  own name is taken for a path of the page. `OnPortal` excepts both.
- A target the sub-domain mode cannot put in a label (an IPv6 address, a long name) is
  served in the path form, on the host of the page that linked to it: there
  `location.origin` is another site's, and `Misses` excepts what a path alone
  cannot say there.
- The portal answers `/index.html` as well as `/` (`proxy.go:363`). Under the path modes a page's
  `location.origin + "/index.html"` is the gateway's, and the page gets the portal. `Misses` excepts
  both with the other paths of the gateway's own.
- Restoration of parameters is a setting of the console (`main.go:213`, `proxy.go:611`). Where it is off for a site,
  what a page hands on keeps the gateway's address, as the administrator chose; `RestoredExactly` says
  which of the two the site gets.
- `ServeHTTP` asks for the codec twice, to match an address and to decode it. A change of the mode between the
  two yields 400 or the old target, never another one: `NeverElsewhere`. But no address says which codec it was
  written by, and `Misled` names what a save on the way can mislead. After a change to `wrd`, a
  target's path that begins as one of its addresses is read as one, on any host. A path that is `Nested` under
  the new settings is rewritten. Where an administrator moves the portal to another name, its old name is a label
  like any other: `go.example.com` is the site `go`, and an address on it is asked there (`Shadowed`).
  And an address with the gateway folded in is redirected under what is in force by then, from the host it arrived
  on, to a label that may not be able to say its target.

## 6. Proofs

The theorems hold for all sets of addresses, codes, tokens, hosts, certificates and
requests, all limits and every `Stall`, from the assumptions named in the modules
only: numbers are natural, `MaxAttempts`, `Burst` and lifetimes positive where the
module says so, the sets of processes disjoint.

*SignIn.* None of the invariants is inductive alone: the table of codes says
nothing of codes that are gone. The strengthening relates the two sides: a
pending code belongs to a request of its own address, which has finished
(`pc = "issued"`), its `attempts` field is exactly the number of comparisons made
so far, and nobody has spent it (`CodesOK`); a request without a code has no
comparisons (`TriesOK`); a spent code was issued, to the address of the request
that spent it, by exactly one request (`RedeemedOK`); a verify request beyond the
comparison has spent a code, and beyond the second look at the allowlist has
been allowed since (`ProgressOK`, `VouchedOK`); and readings not yet used are at
most `Stall` old (`ClockOK`). One lemma per action shows that the step keeps the
parts it can disturb. From the invariant follow `SignInTyped`,
`AttemptsAreBounded`, `CodesAreSpentOnce`, `SessionsAreEarned`, the two action
properties `CodesAreSpentInTime` and `CodesAreNotLost`, and `ImplementsOneTimeCode`:
initial states map to initial states and every step to a step of `OneTimeCode` or
to a stutter.

*RateLimiter.* The budget is a statement about real admission times, the code
knows only readings. The invariant's core is `HitsOK`: whatever has been admitted
within the window less one stall is still in the stored list, because a trim
works from a reading at most `Stall` old (`ReadingsOK`) and an admission lies
within `Stall` of its own reading (`AdmissionsOK`). So the list the code counts
contains everything the budget is about: `BudgetIsKept`. `RefusalsAreEarned`
follows from the same invariant.

`LimiterTyped` is type correctness on its own.

*Sessions.* The invariant adds to the properties what a request may still do later.
`TableOK`: a token is in the table, or among the ended, only once its sign-in is
over, so nothing can insert it again; that `Extend` looks the token up under the
lock is what makes this inductive. `UseOK`: an expiry lies between half of the
shortest lifetime and a whole lifetime after the last use, give or take a stall;
`RenewOK` carries the time of the use through the four steps of a renewal. Its
second clock reading is why `IdleLimit` has two stalls. `StandingOK`: a revocation
that took itself for an administrator's has been one since it arrived.
`ClockOK` and `PlacesOK` say how old readings are and which kind of request stands
where. The action properties `SessionsEndForReason` and `IdleSessionsEnd` follow
by a lemma that names the few steps which remove or use a session.

*Trust.* `PinsOK` and `OffersOK` say where a pinned or offered certificate came from,
`LeavesOK` what a request holds between its handshake and its end. A pin read after
the handshake may belong to a later confirmation than the user saw, but by `PinsOK`
that one was confirmed too, for this host, and met in a handshake with it.

*Console.* What the file holds, at every moment a crash may strike, depends on where
the one process inside `Set` stands: `LockOK` says that there is at most one and that `writer`
names it, `FilesOK` which of the temporary file and the real one hold which configuration
at each of its steps, and that without it the file, the memory and `saved` agree as far as
`Durable` asks. `ClosingOK` says that whoever is about to close the setup page has seen an
administrator enter, from which `SetupStaysOpen` follows for any number of setups and
sign-ins. Three theorems are about promises the code breaks in one race each, and
say that the race is the only way: `NeverLeftOrphaned` and `EditorsStay` suppose
`StaysWhileChecked` - no session ends while an edit is between `requireAdminAPI` and its own look
at the session - and `BlankKeepsTheSecret` supposes `NoOverlap` - no other configuration
takes effect while an edit is between `Get` and `Set`. Both suppositions are action
properties that most behaviours satisfy, and the runs `MCConsoleSelf` and
`MCConsoleTwoEdits` show what happens in those that do not. `KeptInv` carries the first through the steps of an edit:
its draft keeps its sender, no draft is without an administrator, and the list never
becomes empty; `SecretInv` carries the second.

*Guard.* No snapshot of the list survives its question, so the invariant says what
each answer has established. `Progress` says how far a request has come; `Knows` and `Excludes`,
for a request during which the list has stayed the same, what its answers so far say
of the name, of the address, and of both - whether a name needs an address rule, and
whether an address needs a name rule; `Met`, for any request, which half of a list it has passed, whichever
list that was: since a list a request has met stays among those it has `seen`, no later edit undoes it; `PoolOK` what holds of a connection that nobody
uses: it passed the baseline for its own address. The two phases then add up, for any
list: `OnlyPermittedDials` and `OnlyDueRefusals`. `BaselineIsKept` needs nothing of the list and
holds through edits and reuse.

*Cookies.* `CookieInv` says where a cookie may be: a jar holds what a site of
the domain set for the domain under its session (`JarsOK`), the browser's copy for a site what that
site set for itself (`CopiesOK`), a report what a page wrote for the domain (`ReportsOK`), a request only what
its own site set, or one of the domain under the request's session (`RequestsOK`).
`NoCookieStrays` follows whatever order the three are filled in. Single sign-on needs more:
`SignOnInv` says that, until a session has lost something, its jar holds the cookie
the browser was told of last, is being told of, or a newer one; cookies are numbered as they are
set. `LossHasACause` names the steps that shrink a jar.

*Pages.* `SteadyTrail` relates trails and the documents under way while the browser
opens one at a time: until the one being opened is filed, the trail of the session is at the
page shown; once filed, at that document; or the trail has begun anew. That documents and
parts of them which left the page shown keep the token they left with carries it through a
second sign-in. Hence `TrailIsFollowed`.

*OpenPages.* `RenewalInv` says how old a request under way can be and what an answer
on its way speaks of; `PagesKeepAsking` is part of it. That the page stays signed in is
arithmetic on top: without losses (`NoneLost`), a timer leaves two units of the cookie and one of the
session, a request on its way to the gateway likewise, and one on its way back one unit of the
cookie; without delays (`NoneSlow`) each loss costs one of two units. `OpenPagesStaySignedIn`
supposes lifetimes of three units or more, and the console accepts no less than ten
(five minutes, `store.go:540`; where the console sets none, `-session-ttl` holds, an hour unless given, and
is not checked); a request that takes at most one unit each way, and at most two losses in
all, which is what a lead of one minute has room for. Under two units the floor of half
a minute would eat the lead.

*CodecCache.* `CacheInv` says that the cache pairs settings with the codec built
from those very settings, however late it was stored, and that what a call has
read is among the settings in force since it began. A call answers from the one or
the other, hence `AnswersAreInForce`. It needs no order between calls: a late
store of an older codec costs the next call a build, not a wrong answer.

*Routing.* Every action of `Routing` begins a call of the cache (`Read`), finishes
one (`Asking`), saves settings or leaves the cache alone, so `Routing` implements
`CodecCache` (`RoutingImplementsCache`), and what is proved of the cache holds on
the way of every request (`RequestsGetTheSchemeInForce`).

`RoutingTypes` needs no more of the state than `CacheInv`, which says that an answer is the codec of some
settings or the fallback (`RoutingInv`); its work is one lemma per operator of `Addressing` and `Routing`, each
turning addresses into addresses. `PortalAlwaysAnswers` is about requests that have ended, so `PortalInv` says where
such a request may be before: until the console saves, the only address of the gateway's own that its routes do not
take on arrival is the portal's root, and no codec claims that one. For what the shim asks of the gateway on a page
with a name of its own, it rests on the server's codecs and the shim writing the same addresses.

*Codecs.* `TargetsComeBack`: whatever `Encode` writes, `Handler.decode` reads as the same target, for every codec,
host, port, scheme and path. It is a fact about the operators and needs no state. Its hypotheses are what the code
asks of a target (a host, not itself written with a port, and a port there is) and, in the sub-domain mode,
`Sayable` and a path other than the gateway's `/p/`: the exceptions `Wart`, `Rooted` and `Taken` that the runs make, and names
the DNS does not have, with an empty component or one that begins or ends in a hyphen. The path mode alone is
`PlainComesBack`. The label is `LabelsComeBack`, the inverse `codec.go:355` promises. There `Body`, the name's
part of the label, is spelled token by token, and each token's place is known from the prefixes of the name
(`BodyPlaces`); decodeLabel's reading, a recursive function on places, closes a pair of hyphens exactly where
the name has a hyphen, by induction along the name, because behind a dot there is none (`BodyComesBack`); and a marker
is found at the end exactly where one was written (`BodyEnd`, `MarkerFound`). The exception
`Rooted` (section 5) was found by the attempt to prove it without.

The prover cannot use the library's induction theorems, which take an operator. The two inductions here, over
`FlattenSeq` and over the pairs of hyphens, go through a set: `SetInduction` takes the least counterexample of
`WellFoundedInduction`'s `WFMin`.

*Requests to their targets.* The three other invariants of `Routing` rest on `TargetsComeBack` and on one lemma per
hop.

`WrittenReaches` (`ReachesItsTarget`) goes through `WayInv`: as long as the console has not saved, a request
stands where its step says - its address names the target (`Named`), possibly with another address of the gateway folded in, or it
is a path astray which the page it came from explains (`Astray`); its target is that of the page's author, up to what
`Norm` passes over. `WrittenWell` shows this of the address the page wrote, with a lemma for each group of `Kinds`; what the
browser resolves, what unwrapping splices and what a redirect writes again keep it.

`ParametersAreRestored` (`RestoredExactly`) needs of the state only that nothing touches the parameter before the last
step (`ParamInv`). A request comes to that step only where restoration is on for its target (`Due`);
one that went to its site past it (`Untouched`) bears the parameter the page carried, which holds through any save (`Kept`). The rest is said of `realAddress`: the disguise the page used is read as the same target
and `sameShapeAs` gives it back the shape it had, for each mode and for the bare origin.

`NothingGoesElsewhere` (`NeverElsewhere`) holds through any number of saves, so its invariant `HeadingInv` does not mention
the settings in force. What a request was written as is read, at each of its steps, by any of the codecs the
settings or the fallback make (`InPlay`), and each reads it as the target, as one more folded address with the target in
it, or as nothing (`Points`). The wildcard domains are why this is not obvious: a name may lie in two of them, and then
it is the same label in both (`LabelsAlike`); a redirect is written under one and read under another (`RedirectPoints`).

The first two suppose `Settings \subseteq DOMAIN Build`: every settings' codec can be built, as in `MCRouting`. Where
one cannot, `codecCache` answers with the path mode, and writes pages in it, too; `Written` is what the settings' own codec
writes, so the two theorems would speak of pages nobody was served. `NothingGoesElsewhere`, which has every reading
in it, does without. The exceptions in `Misled` were found by the proof, and each
clause of it is needed: without it TLC finds `NeverElsewhere` violated, for the two about `Shadowed` in an
instance whose second wildcard domain has the portal's old name as a label, for the others in `MCRouting`.

All of these assume of the constants `AddressingAssumption`, `RoutingAssumption` and `BuildAssumption`: tokens include
the ports and schemes, the sources are made of addresses, names of the settings are names, and `Build` is what
`codecCache.build` builds. TLC evaluates them in `MCRouting`.

## 7. What is only model-checked, and what is not modelled

Every safety property of a passing run is also proved. Beyond the prover is the liveness property
`ExpiredIsCleared`, which is model-checked only: fairness and `ENABLED`. No module declares a `RECURSIVE` operator. The prover says nothing of
the three violated runs, but for the theorems that name the race each of the two about `Console` needs.

Two failures the code handles by an early return are left out because they change
no state and cannot be provoked: the random source running dry in `newCode` and in
`newSession`.

Not modelled: how addresses are found in HTML, CSS, script and form text, and the
syntax of cookies and headers (`rewrite.go`, `restore.go`, `cookie.go`, `headers.go`); queries,
fragments and escapes of addresses; the paths, dates and flags of cookies, and cookies under
the path modes; the SMTP conversation (of which one thing may be noted: a mail
accepted by the server counts as failed if the closing `QUIT` fails);
`certSource`, which makes one reading per handshake; the derivation of client
addresses from proxy headers, origin checks, the wording of answers, `-no-auth` and
`-insecure-tls`, which switch whole parts off, and forward proxies taken from the
environment.
