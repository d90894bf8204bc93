# A verification of the Mirasim plugin

The plugin connects CLIProxyAPI (the *host*) to the Mirasim relay. This directory holds
TLA+ modules that model the parts of it where things happen at the same time, out of order,
late, or not at all; TLC configurations that check them on small instances; and proofs,
checked by TLAPS, that the main results hold for every instance. Paths below are relative
to the repository (`src/` here), or to `src/internal/` where they name a package.

`PROJECT.json` is the index: the components, the runs, for every definition the lines it
models, for every property a mutation of the code that breaks it, the hazards, and the
theorems.

## 1. The system

The plugin is a library loaded into the host's process. The host calls it (RPCs named
`auth.*`, `executor.*`, `management.*`), possibly from many goroutines at once, and the
plugin calls the host back for everything it does outside: HTTP, streams, the files of
credentials, the log. It keeps its state in package variables.

| Component | State | Operations | Talks to |
|---|---|---|---|
| Device session (`relaysig/ticket.go`) | per account: ticket, expiry, minting flag, refusal count, next attempt, stand-down | `Sign`, `Refused`, and beneath them `credential`, `awaitTicket`, `kick`, `mint` | called by executor and quota; mints through the host's HTTP |
| Device identity (`relaysig/relaysig.go`) | the cached key, a file | `loadIdentity`, `writeDeviceKey`, signing | called by `Sign` and `mint` |
| Executor (`executor/executor.go`, `sse.go`) | per call: two streams, a buffer | `Execute`, `CountTokens`, `ExecuteStream`, `relayStream` | device session, the host's HTTP and streams |
| Login sessions (`auth/session.go`, `management/login.go`) | map of logins: email, code sent, attempts, tokens, failure | `LoginStart`, `LoginPoll`, `handleLoginCode`, `handleLoginVerify`, `Shutdown` | the sign-in backend; the host stores the result |
| Refresh schedule (`auth/auth.go`, `mirofish/client.go`) | in the host's record: expiry, last refresh, floor, status | `auth.parse`, `auth.refresh`, `NextRefreshAfter` | the host's refresh loop; the backend |
| Console page (`ui/status.go`) with its routes (`management/status.go`) | token, table, disabled and armed buttons | load, suspend, resume, the four sweeps, unlock, forget | fetches of the routes, which edit the credential files |
| Credential files (`credential`, `management/status.go`, `auth/auth.go`) | one file per account, owned by the host | suspend, resume, weights and priorities, for one account or all; `auth.refresh`, `auth.parse` | the host's file store and scheduler; the backend's token rotation |
| Quota (`quota/quota.go`, `management/quotaroute.go`) | cache of readings by email | `ProbeCached`, `ProbeAsync`, `Lookup`, `Store`, `Forget` | device session, the host's HTTP |
| Configuration, plugin entry (`config`, `plugin`) | the settings in force | reconfigure, `Shutdown`, dispatch | everything |
| Router, models | none | pure functions | - |
| Sign-in page, sign-in client, host API | none | conversion, I/O | everything |

### What is hard in it

- **Device session.** Requests, mints and late 401s of one account interleave under a
  mutex that is let go around every HTTP call. The first request waits for the mint; a
  renewal runs while the old ticket is used; a 401 for a ticket that was replaced comes in
  late; cooldowns, floors and a stand-down keep all of that from becoming a mint storm.
- **Login sessions.** A verification books an attempt, lets go of the lock, asks the
  backend, takes the lock again. Others verify, resend, poll, expire or shut down between.
- **Streams.** Upstream cuts its bytes anywhere; an event ends in one of several blank
  lines; upstream may fail, and the consumer go away, between any two blocks.
- **Credential files.** Console requests, refreshes and sign-ins read a file, change it and
  write it back. Nothing locks it. The backend rotates the refresh token at each refresh,
  and the answer may be lost.
- **Refresh schedule.** The host refreshes an account when a floor has passed and a deadline has
  come. The plugin sets the floor at every parse of the file, from an interval that may change
  in between. Too late, and the token runs out; too early, and every look is a refresh.
- **Console page.** Its fetches are served side by side, answered in any order or never, while
  the operator clicks on. A sweep walks all accounts; the console token may be rotated or
  forgotten under a fetch.
- **Device key.** It is created by whoever comes first, on a disk that may fail, in a
  process that may crash.
- **Quota.** A probe costs a request slot; pages reload at once.

## 2. The modules

| Module | Models | Correspondence |
|---|---|---|
| `DeviceSession` | the device session with its callers | one action for each stretch of code between two lock operations: `SignNow`/`BeginWait`, `AwaitCheck`, `AwaitPoll`, `Answered401` (with `Refused`), `MintSucceeds`, `MintUnsupported`, `MintFails`, `MintReturns` |
| `MintThrottle` | abstract: what the relay may count on | at most one handshake of an account at a time, at most two started within a `mintCooldown` |
| `DeviceSessionThrottle` | `DeviceSession` with the ages of the last two mint starts | refinement mapping to `MintThrottle` |
| `DeviceSessionLive` | fairness and liveness of `DeviceSession` | |
| `DeviceSessionRefusals` | `DeviceSession` with a count of refusals in a row | |
| `LoginSession` | logins, page requests and polls | an action for each critical section of `session.go`; of each call of the backend, one for what it does (`CodeGoesOut`, `CodeJudged`) and one for what is then booked |
| `SSEFraming` | `sse.go` byte by byte, and a reference definition by lines | functions on sequences |
| `StreamRelay` | `ExecuteStream` with `drainStream` and `relayStream` | one action per block read, event emitted and stream closed |
| `CredentialFiles` | all the writers of a credential file | read and save are separate actions; a save may fail before or after the host has written; `Rebuilt` is `buildAuthData`, `Toggled` the edit of the map |
| `QuotaCache` | the cache and what lets a probe through | a probe begins in one action and stores in another |
| `RefreshSchedule` | what `auth.parse` and `auth.refresh` tell the host, the backend's answers, the host's loop | one action per parse, start and end of a refresh; expiry, floor and age count ticks |
| `ConsolePage` | the page's script and the routes behind it | one action per click, per check of the token, per answer, and per call of the host: `List` takes the host's list with its flags, `ReadRow` one account's file, later |
| `DeviceKey` | `loadIdentity` and `writeDeviceKey` | one action per system call, and a `Crash` |
| `MC...` | instances for TLC | names for model values, symmetry |
| `...Proofs` | the theorems | |

How they compose: `DeviceSessionThrottle`, `-Live` and `-Refusals` extend `DeviceSession`;
`DeviceSessionThrottle` instantiates `MintThrottle`; `StreamRelay` extends `SSEFraming`.
The components meet at narrow places, and there each model takes the other's outcomes as a
choice: a request of `DeviceSession` may be any caller of `Sign` (executor or quota probe),
a sign-in of `CredentialFiles` is the end of a login of `LoginSession`, and a `Forget` of
`QuotaCache` is a suspension. `ConsolePage` changes an account in one step, since
`CredentialFiles` has what happens between the read and the save of a file; `CredentialFiles`
has a refresh at any time, since `RefreshSchedule` has when it comes.

Data is abstracted to what the properties tell apart. A ticket is its token and a number; a
verified token pair is there or not; a reading is its age; a key of the device is a number; of
the bytes only CR, LF, other white space and the rest differ. Time is a countdown in
ticks, so that an unbounded run has finitely many states.

## 3. The runs

All of these are bounded by the constants in the `.cfg` of the same name.

**`DeviceSession`** (one account, a token that rotates to another, two requests, two mint
goroutines, three ticket ids). One mint per account; quiet during a stand-down; the refusal
count never exceeds one; an early re-mint holds the next ones back; renewal and rotation never drop a ticket; a waiting request goes out unsigned during a mint
only when its wait is over; and the machine implements `MintThrottle`. The cooldown and floor
are 2 ticks and a ticket lives 0, 1 or 4 with a renewal lead of 3, so that a ticket may be
dead on arrival, due for renewal at once, or not yet; the stand-down (5) outlasts all of them.
Two requests suffice for a late 401 to meet a newer ticket, and two mint goroutines for a
second to start while one still runs, which is what the properties rule out. Accounts share no
state but the map. A second one makes more states than a run can visit, so no run says
anything of two; that the keys of the map keep their tickets apart, for any number of them, is
what the theorem `OwnTickets` says.

**`DeviceSessionLive`**: a caller of `Sign` goes on to send; a mint ends if the host's call
does; an account recovers. Fairness is in section 4.

**`LoginSession`** (one login, two emails, two page requests, one poll, a cap of two attempts,
two ticks to live). The count that `GuessesWithinBudget` bounds is the backend's own: the guesses it
judges for an email since it sent that email a code. `attempts` is the plugin's: reset when a
send is booked, after the code is out (`login.go:23` and 27), and raised when an attempt is booked,
before the guess is judged (`login.go:47` and 56). With one request at a time the two agree and
the cap holds; with n at once it is n times the cap, and one. Further: a credential handed
back is gone from the map; nothing brings a forgotten login back; and a verified one is handed
back unless it fails or is forgotten.

**`StreamRelay`** (all streams of up to 6 bytes in blocks of up to 3): the events that are
emitted are those of the byte stream, by a definition that does not know of blocks; the end
of the stream tells whether they are all; a buffered answer has every event of what was read,
the last one rounded off, which of a response that failed under way is not what the pumped one
has; an error body is read to its bound and less than one block further; both streams are closed
in the end. Six bytes hold two events, or one with any of the separators and a rest, cut anywhere;
the theorems hold for any length.

**`CredentialFiles`** (one account, two requests, two settings, three token pairs): what a
request answered about an account holds until it is overruled; the token in the file is
always one that the backend accepts; the host schedules by the file in the end. A save may
report an error although the file is written, and the backend may answer a refresh without
a new refresh token. Accounts share nothing but the request that walks them, and the theorems hold for any number.

**`QuotaCache`** (one account, three probes at once, an interval of three ticks): page loads
start at most n(n+1)/2 probes per interval, with n calls at once, and an open console
that asks for no reload probes over and over only if the account is suspended over and over.

**`ConsolePage`** (one account, two fetches at once, both suspension sweeps and a weight sweep to 0, a
token that may be rotated or forgotten; weight and priority stay 0). A load takes the list of
accounts first, each with a flag of the host's that may say anything, and reads the files one by
one later; a row is suspended if either says so. The table of the last load shows the weight and
priority of the file; that it is suspended, if the file says so; and otherwise that it is not,
unless the host's list said it was: the code lets the file win over a record that says active,
not over one that says suspended. All this unless an action on the account is under way. A pair of sweep buttons is disabled
exactly while the page waits for one sweep; when it waits for nothing, every row's button
works. Two fetches are a load and an action, two loads, or two actions, which is every pair
that can cross. Values other than 0 are left to the theorem. Every step is of one account or of all of them alike; the theorems hold for any
number of accounts, fetches, buttons, tokens and values. What is waited for is what the page
waits for: a sweep whose answer was lost may still be served when the next one is confirmed
(`OneSweepAtATime` does not rule that out), and a row's button may be dead while the table is out of
date (`NothingStaysDisabled` excepts it; section 6).

**`RefreshSchedule`** (intervals of 2, 4 and 9 ticks, tokens that live 1, 4 or 7 or do not say; a
minute is 2 ticks, a refresh takes up to 1, the host tries again after 3). A token does not run
out while its account is in use and no refresh has failed; without a failure none is refreshed
that is younger than an interval and not in its last minute; one that has run out is renewed.
The intervals are shorter than, comparable to and longer than the lives, and the shortest life
is within the last minute from the start. A sign-in may come at any time, also while a refresh
of the credential it replaces is under way.

**`DeviceKey`** (two callers, six keys, any number of crashes): a process is one device; the
file never holds half a key; a saved key is only replaced by a call that could not read it.

Three runs expect a violation; see section 6. Types that are proved for all values of the
constants are not checked again in some of the runs.

## 4. Fairness

- `DeviceSessionLive`: time passes (`Tick`), and the runtime schedules a goroutine that sleeps
  between two looks at the ticket. `SignReturns` needs no more than that: in particular not
  that the relay or the host ever answers. `MintingEnds` also assumes that the host's HTTP
  call returns, as an explicit premise; the plugin sets no timeout of its own
  (`config.HTTPTimeout` is never used). `SessionRecovers` has the further premises that callers
  go on asking and that the relay grants a mint again and again; both are conditions under
  which the claim is made, not claims about the code.
- `LoginSession`: the host goes on polling a login it has started (strong fairness, since a
  poller is busy with one poll before it can begin the next). A poll takes no backend call.
- `StreamRelay`: the goroutine runs on once it has read something, since calls of the host
  return; and a response that is read for ever has an end. Opening is not assumed to end.
- `CredentialFiles`: the host parses every file that was written (its file watcher).
- `RefreshSchedule`: time passes, the host's loop refreshes what is due, and a refresh that is tried
  again and again brings a token with an expiry at last (strong fairness). `Tick` waits for the
  loop and for the end of a refresh: the host looks at its accounts, and a refresh ends, within
  `Latency`, which is shorter than a minute and than every interval (the default is 25 minutes,
  the least one the configuration accepts a second). An interval no longer than a refresh takes is
  outside the model.
- `QuotaCache`, `ConsolePage` and `DeviceKey`: none. `OpenConsoleCostsNothing` is about infinitely many
  probes and needs no progress.

## 5. What is proved

TLAPS checks these for every value of the constants that meets the named assumptions of the
modules (which TLC also evaluates, on the instances).

**`DeviceSessionProofs`.** `TypeCorrect`, `OneMint`, `NoStandDownByRefusal`, `QuietStandDown`,
`OwnTickets`, `PlainOnlyAfterTheWait`, `TicketOutlivesRenewal`. The inductive invariant joins the types with the
safety properties themselves: that a mint runs exactly while the flag is up makes `kick`'s
guard effective, and that holding a ticket means having no refusals gives the bound of one. The
lemmas describe each function under the mutex (`KickEffect`, `UseCredentialEffect`, ...) for
any state of the session, so a step's proof says only what it changes. The last theorem goes
through the steps that touch a ticket: only an expiry or a refusal can leave none.

The same module has the throttle. `PaidForAlways`: while two starts lie within the cooldown,
`nextAttempt` holds the next scheduled mint back and `refusedNotBefore` the next refusal, for
as long as they do. This rests on the assumption that the refusal floor is no shorter than
the cooldown, which the constants of `ticket.go:24-27` meet. `ThrottleImplemented` then maps every
step to a step of `MintThrottle` or a stutter.

**`LoginSessionProofs`.** `TypeCorrect`, `GuessesBounded`, `HandedBackIsGone`,
`ForgottenStaysForgotten`, for any number of logins, handlers and polls; and `OncePollByPoll`: if polls
never overlap, the credential is handed back once, which is the condition that the comment of
`poll` leaves out (section 6). The bound on the guesses needs a potential (`BudgetInv`): what was
judged for the code, and the guesses on their way, and a whole cap for each send that is not yet
booked, and what the counter allows now, never exceed n caps and one. A booking turns one of those
caps into what the counter allows; a booked attempt takes one from it and is on its way; judging
moves it to what was judged. When all n requests have a send to book nobody is left to
guess, which is why the last term then counts for nothing, and what makes the bound n caps and not n + 1.

**`DeviceKeyProofs`.** `TypeCorrect`, `OneIdentity`, `WholeKey`, `KeyOutlivesCrashes`. The
strengthening: whoever is not idle is alone and found no identity in the cache, and a call
that has made a key while the file holds one is a call that failed to read that one.

**`CredentialFilesProofs`.** `TypeCorrect`, `AnswersAreKept`, `NobodyLockedOut`. The last
needs two strengthenings. Everything that may still be written is accepted by the backend: the
file's pair, the copies of requests and the pair a refresh was issued. And nobody holds a
pair older than the one that a running refresh presents, so what the rotation retires is
nowhere. That a request does not stay at one file while two refreshes begin is the guard of
`RefreshStarts`, an assumption about time: a refresh comes every 25 minutes by default.

**`ConsolePageProofs`.** `TypeCorrect`, `OneSweep`, `TableIsCurrent`, `RowsComeBack`. That a fresh
table is current needs three strengthenings: what a call is at each of its stages (one that
was refused has changed nothing, one that is answered with success has done all, a load that is
not reading yet has read no file); that what the newest load has read of a file so far is still
so, for accounts that no action has begun to change, whatever flag the list had come with; and
that a dead button of a fresh table waits for a call of its own row that is still awaited.

**`RefreshScheduleProofs`.** `TypeCorrect`, `TokensOutlive`, `RefreshesAreSpaced`. The invariant says
of a token that nothing has failed for: the floor is over or lies a minute before the expiry; more
than the duration of a refresh is left, or of the rest of the running one; and the floor does
not end before an interval is over or the last minute has come. These rest on the
assumptions of section 4 about `Latency`.

**`QuotaCacheProofs`.** `TypeCorrect`, `ReloadsAreBounded`: at most n(n+1)/2 probes of an account in
an interval, for any number n of calls at once. The strengthening counts bursts, for
each age k below the interval. While a reading is missing or stale every free call may begin a
probe, and the burst is over when one of them stores. Only a call that is older than k can make the
reading stale again, and each does so once: with s of them under way a burst has n - s probes
at most, and the next burst has one old call less to count on. The lemmas are about the
cardinalities of the sets of calls that a step moves.

**`StreamRelayProofs`.** First the framing, for all byte sequences. `CutsDoNotMatter`: what is
taken from s, and from the rest of s with b behind it, is what is taken from both at once.
`FramingIsByLines`: `takeSSEEvents` and `splitSSEEvents` compute the definition by lines. Both go
through `TakenByByte`, which says what one more byte changes (it closes an event or joins the
tail), and the second through `Lines`, which relates the bytes that are kept, with their
carriage returns, to the normalised lines read so far. Then the relay: `TypeCorrect`,
`EventsSurvive`, `EndIsTrue`, `InlineAnswers`, `ErrorBodiesAreBounded`, `NothingLeftOpen`. The
invariant says for each phase what the buffer, the queue and the emitted events are of the bytes
received: the events taken and the rest while it reads, the events of the whole while it flushes,
a prefix of them after the consumer has gone. A step that reads a block is `CutsDoNotMatter`.
`InlineAnswers` is about a buffered answer alone: all events of what was read, an unfinished one
rounded off, whether or not the reading failed. `EndIsTrue` has what a pumped one gives: the same of
a response that was complete, and of another one the complete events and an error.

These are inductions over sequences and a recursive function. The induction theorems of the
library take an operator, which the provers cannot instantiate; the module states induction
for sets instead (`MeasureInduction`, `SeqInduction`), from the fact that a set of numbers which is not
empty has a least one, and proves once (`Recursion`) that a function defined by recursion along a
decreasing measure exists, so that `Taken`, `WithLF` and `ByLines` equal their definitions.

Only model-checked: the properties that something happens in the end, which are out of the
prover's reach: `SignReturns`, `MintingEnds`, `SessionRecovers`, `VerifiedIsHandedBack`,
`StreamsAreReleased`, `RuntimeFollowsFile`, `LapsedRecovers`, and `OpenConsoleCostsNothing`, which
says how often. Every other property of a passing run is a theorem.

## 6. Where the code and its documentation disagree

**`ThreeRefusals`.** A relay that grants mints and refuses the signatures never makes an account
stand down. Every refused ticket is followed by a mint, and `mint` sets the count of refusals
back to zero (`ticket.go:344`), so it never reaches `refusalsBeforeStandDown`.
`NoStandDownByRefusal` proves it for all timings. `ImplementsThrottle` bounds the cost.

**`HandedBackTwice`.** "The credential is handed back exactly once" (`session.go:130-131`)
holds for polls one after another. Two at once that have both looked the login up before the
first consumes it both get it: the tokens stay in the session.

**`SuspendIsLost`.** A weight change or a refresh that read a file before a suspension was
saved writes it back without. The console has answered that the account is suspended; it is
scheduled again. `AnswersHold` says when an answer can be relied on.

Observations that no run states.

Device session and identity:

- `Refused` is told the token and not the ticket (`ticket.go:158`). A late 401 for a ticket that
  has expired or was renewed drops the ticket that replaced it.
- The comment at `ticket.go:24` gives `mintCooldown` as a minimum between mints; the mint
  after a 401 comes inside it. Two starts per cooldown is the bound that holds.
- A read error that is not "no such file" makes a new device key and replaces the good one
  (`relaysig.go:175`); `KeySurvives` is stated so that this counts as a call that could not read.
- A reconfiguration keeps the tickets and the stand-down of a former `relay_url`
  (`plugin.go:113`).
- "Shutdown releases everything" (`plugin.go:96`); it forgets the logins and keeps tickets and
  readings.

Logins:

- Of two verifications at once, one may succeed, and answer so, after the other one has met the
  cap and failed the login. `poll` reports the failure.
- The sign-in page says "The credential is saved" (`ui/login.go:92`) when the code was verified; it is
  saved by the host after a later poll, if there is one.
- `session.go:17` says that the cap is on the guesses against one state. A code that is sent again
  starts a new budget of attempts (`session.go:90-98`), and since sends are booked after the
  code is out, one code can meet more guesses than the cap when requests overlap
  (`GuessesWithinBudget` has the bound).
- When a JWT names no email, the credential gets the login's, which a resend for another email
  may have changed after the verification began (`auth.go:110`).
- Signing in to a suspended account resumes it and clears its weight and priority.

Streams and quota:

- A buffered answer whose upstream fails under way is a success, with its last event rounded
  off (`drainStream`, `executor.go:302`); a pumped one ends with an error.
- `README.md:155` says "once a minute". With n calls at once it is up to n(n+1)/2 probes in a
  minute: each may find the reading stale, and a slow one that stores last dates the reading
  by when it began (`quota.go:141`).
- `status.go:253` says that a suspended account stops being probed. The console still probes it
  when it has no reading (`status.go:109`), which suspending it has just brought about.
- Accounts without an email are never cached (`quota.go:82`).

Refresh schedule and settings:

- "Parsing is not refreshing" (`auth.go:54-56`): `last_refresh` is kept, but the floor is set anew at
  each parse. For a token with an expiry this does no harm (`TokensOutlive`). One without
  is never refreshed if its file is parsed more often than the interval.
- A refresh computes the floor of its answer by the settings of its beginning, and that of the
  record by those of its end (`auth.go:186` and 270).
- `refresh_interval_seconds` has no upper bound (`config.go:131`); beyond 292 years it overflows.
- A priority beyond 2^53 is read back rounded, and the largest ones overflow, with a sign that
  depends on the platform (`credential.go:84-85`); the next rebuild of the file writes what was read.

Console page:

- The answer of a load that was sent before Forget opens the page again, with an empty token;
  the next action on it is refused. A late 403 for an old token forgets a newer one.
- A 403 for an action is only shown; the token is kept until the next load.
- Two loads may be answered in the other order (one that reads the quota is slow); the
  older table stays. `TableFollowsActions` is about the last load.
- A row is suspended if the host's list says so or the file does (`status.go:81` and 100-104), and the
  two are read one after the other: an account that was just resumed may still be shown as suspended,
  with a button to resume it, until the host's record follows.
- Once the answer of a sweep is lost, its pair is enabled again although it may still be served; two
  sweeps of a pair can then be served at once.
- When the load after a row's action fails, the row's button is dead until the next load. When
  the first load fails the page stays blank, without a field for the token or a button.
- A routing sweep sends what the input holds at the second click, whatever the armed button says.
- The `error` of an account that could not be read has no place in the table.

## 7. What is not modelled, and assumptions

- The host and the backend are modelled by what they may answer. That `host.auth.save`
  replaces both the file and the host's record, and that the host hands `auth.refresh` what the
  file holds, is taken from `hostapi/auth.go:49` and the plugin's comments. The rotation rule ("the
  previous one stays valid") is that of `mirofish/client.go:7-10`.
- `relayStream` takes blocks from reads only; that an open response brings none with it is how
  `ExecuteStream` uses it.
- Two proxies with one device key path share `path + ".tmp"` (`relaysig.go:237`). `DeviceKey` has
  one process.
- The email a credential is saved under is not in `LoginSession`, where a token pair is there or
  not. Accounts without an email, whose readings are never stored (`quota.go:82`), are not in
  `QuotaCache`, and neither is the decoding of the rate-limit headers.
- An `AuthSave` that reports an error has written the file or has not, in `CredentialFiles`. In
  `ConsolePage` a row's action that is answered with an error has written nothing (`Fails`): the
  page does not load again after an error, so a file that was written all the same would only be
  seen by the next load. A sweep goes on and is followed by a load either way.
- A sweep works on the account list as it was when the sweep began.
- `relaysig.Forget` is called by a test only. `quota_probe` is on.
- The host's refresh loop (`shouldRefresh`, `auth.go:275`) is modelled from the plugin's comments
  and from what it hands the host; whether the host keeps `last_refresh` in the file is left open
  (`stamped`). The plugin does not answer for tokens that live no longer than a refresh takes.
- In `ConsolePage` the browser's single thread makes each handler one step. Two pages in two tabs
  are two sources of the actions that `CredentialFiles` has. What the page says in words, its
  meters and the quota readings are left out, as is the order in which accounts are walked.
- The sign-in page only disables a button per request; its requests are those of `LoginSession`.
- Ed25519, the canonical form of a signature, header filtering, HTML, JSON conversions, the
  C ABI, dispatch tables and the bridge to the host are data or pure I/O.
- The router, the model list, the settings' bounds, `FileName` and `parseRoutingValue` are pure
  functions that no module has yet.

## 8. The plan

Done, in this order: device session; logins; streams; credential files; quota cache; device key;
refresh schedule; console page; proofs that renewal keeps the ticket, and of the guesses and the
single hand-back of logins; proofs of the bound of the quota cache, of the
framing and of the relay. Next:

1. An abstract credential store: a register per setting that requests write atomically, and
   under which scheduling of reads and saves `CredentialFiles` implements it.
2. Pure functions over bounded inputs: `parseRoutingValue` with its bounds, `Payload.Int` and
   `SetInt`, the router's decision, the configuration's bounds. They will share a run.
3. A change of `relay_url` in `DeviceSession`: what a ticket of one relay is worth at another.

The runs are one for each question.
