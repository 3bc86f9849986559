# A TLA+ development of msbd

msbd is a daemon that owns microVM sandboxes on one host: a REST API and a web
dashboard in front of one `core.Service`, which is the only caller of the
microsandbox SDK. Sandboxes are detached, so they survive the daemon; everything the
daemon remembers about them does not. Keys, accounts and sessions are in a SQLite file
that the admin commands of the same binary open too. This directory models the
concurrent and stateful part of the program in TLA+, checks it with TLC on small
instances and proves its safety properties with TLAPS for every value of the constants.

Line numbers refer to `src/`; a file named without a directory is in
`src/internal/core/`.

## Inventory

| Component | State it keeps | Operations | What is hard | What makes it correct |
|---|---|---|---|---|
| Job registry (`jobs.go`) | the map of jobs under `r.mu`; per job: state and finish time under `j.mu`, SDK handle and `closed` under `handleMu`, a cancellable context, two ring buffers | launch, drain (goroutine), poll, cancelJob, signal, dropSandbox, janitor, stdin | the handle is not goroutine-safe and Recv blocks on it; cancel, drop, signal, drain and janitor race; Kill waits for an acknowledgement a parked Recv swallows | one user of the handle at a time, none after Close; Kill only after cancel; no abandoned job or stream; outcomes settle; the tail of the output is kept |
| Create admission (`service.go` 150-440, `image.go`) | `inflight` under `admit` | Create, count over pages, cleanupSandbox, PullImage, Delete; validateCreate, buildCreateOptions | count and reservation at different moments; failures on every path; restarts forget slots, not sandboxes; narrow integers | the cap holds; each slot is given back exactly once; creates are answered; numbers arrive or are refused |
| Live-handle registry (`registry.go`, `service.go` 440-599) | `live`, `created`, `workdirs` under `mu`; a singleflight group per name | resolve, bootAndVerify, forget, Reconcile; Create, Start, Run, Exec, files, Launch, Stop, Delete | handles become stale by idle auto-stop, crash and external stop; boots that boot nothing; forget between look and cache; Create caches outside of the flight | one boot at a time; no dead handle cached; a stale handle of a running sandbox only from a late Create; a deleted sandbox leaves nothing behind |
| Terminal session (`terminal_agent.go`) | closed flag, exit code, output channel, done and quit channels | pump, Write, Resize, Signal, Close, Wait | order of the deferred closes, a full channel, a guest that ignores SIGHUP | the pump ends; the exit code is true and comes last |
| Terminal bridge (`api/terminal.go`) | the socket, a context, a reader goroutine | handleTerminal, bridgeTerminal | reader and bridge each end the other; a select with several ready clauses | nothing outlives either side |
| Terminal tickets (`tickets.go`, `api/router.go` authWS) | the ticket map under a mutex | mint, redeem, sweep | concurrent handshakes, expiry while waiting for the lock, an API that is open | a ticket opens one terminal, in time, of its sandbox |
| Key cache (`store/cache.go`, `store/apikeys.go`) | decisions by token hash with a TTL; memoised "any key" | Valid, AuthConfigured, Invalidate; create, revoke, delete, also in another process | an answer read before a revoke and inserted after the Invalidate | staleness bounded by the TTL; closed when in doubt |
| Accounts and sessions (`store/users.go`, `store/sessions.go`) | two tables in SQLite | create, set role, set password, delete, login, logout, sweep | rules checked in one statement and applied in another | sessions belong to who logged in; an admin remains; a password change ends old sessions |
| Dashboard authentication (`dashboard/auth.go`, `dashboard/handlers_auth.go`) | the memoised account count under a mutex | mode, locked, authenticate, the guards, invalidate | one request asks up to three times; another process adds accounts | open only without accounts, but for a bounded time |
| State store (`store/store.go`) | the database file | open, migrate | processes with binaries of different age; deaths inside a migration | schema and record agree; an open store is complete |
| Dashboard handlers (`dashboard/handlers_*.go`) | the cancelled-job set; pulls detached from their request | decode, one core call, render; Run panel, image pull | the flag, the kill and the drain in any order; an outcome read long after what it is compared with | the panel says what happened |
| API handlers, router (`api/`) | request counters | decode, one core call, encode | – | – |
| SDK wrappers (`fs`, `logs`, `metrics`, `snapshot`, `volume`, `version`) | none | one SDK call each | – | – |
| Daemon and admin commands (`cmd/msbd`) | configuration; the resources of the process | start-up, Reconcile, shutdown; `keys`, `users` | shutdown with requests and terminals in flight; the commands are a second process on the store | accepted requests keep their store; a signal ends the process |

Interactions: handlers call `Service`; `Service.Launch`, Run and the file operations
call `resolve`, which boots sandboxes; Delete stops the sandbox, drops its jobs,
forgets its handle and removes it, as four separate steps; Create caches a handle
directly; the registry and the job registry never call each other. Each component has
its own locks, and no lock of one is held across a call into another. The key cache and
the dashboard's account counter are invalidated by the handlers that change the tables
under them, and by nobody when a command does.

`PROJECT.json` lists the hazards of the code at their lines with the properties aimed
at each. One has no property: stdin is written without `handleMu` (`jobs.go:310`), and
what the SDK's sink does when its handle is closed is not stated in the sources. Not
listed there: two more numbers of a request are converted with no check and no stated
intent, the sizes of a volume (`volume.go:63`, to 32 bits) and the timeout of a command
(`handlers.go:140`, to nanoseconds); `CreateOptions` shows both kinds of conversion on
the memory and the idle timeout of a create.

## Modules

| Module | Models | Beside | Proofs |
|---|---|---|---|
| `Jobs` | `jobs.go`: launch, drain, cancel, signal, drop, janitor, restart | `Commands` | `JobsProofs` |
| `RunPanel` | the Run panel, its Cancel button and the job behind it | `Commands` | `JobsProofs` |
| `RingBuffer` | the output buffer of a job | `Commands` | `JobsProofs` |
| `JobLifecycle` | abstract: an asynchronous job as a polling client sees it | (refined by `Jobs`) | `JobsProofs` |
| `Admission` | Create under a cap, beside PullImage and Delete | `Creation` | `AdmissionProofs` |
| `CreateOptions` | the numbers of a create: validateCreate, buildCreateOptions | `Creation` | `AdmissionProofs` |
| `ImagePull` | pulls by the dashboard and the API, the image cache and the registry | `Creation` | `AdmissionProofs` |
| `Registry` | resolve with its singleflight and recovery, the operations that go through it, and Create, which caches beside it | `SandboxState` | `RegistryProofs` |
| `SandboxRecord` | composition: what Create, resolve, Launch, Stop, Delete and Reconcile leave in the registry's maps and the job map | `SandboxState` | `RegistryProofs` |
| `KeyCache` | Valid and Invalidate over the api_keys table | – | `KeyCacheProofs` |
| `KeyGate` | AuthConfigured and its memo | `Gates` | `KeyGateProofs` |
| `DashAuth` | the mode of the dashboard and its guards | `Gates` | `KeyGateProofs` |
| `Accounts` | accounts, logins and sessions, statement by statement | `AccountStore` | `AccountsProofs` |
| `Migrate` | Open and migrate by several processes | `AccountStore` | `AccountsProofs` |
| `Terminal` | session, bridge, reader, Close and its timer | `Service` | `TerminalProofs` |
| `Daemon` | start-up, listener, connections, signal, shutdown | `Service` | `TerminalProofs` |
| `Tickets` | mint, redeem, authWS | – | `TicketsProofs` |
| `OneShot` | abstract: what a ticket promises | (refined by `Tickets`) | `TicketsProofs` |

The modules of the column *Beside* hold two or three neighbours side by side: they extend
one and instantiate the others with variables of their own, so that the runs and the proofs
speak of the same instances. A constant variable, `part`, is chosen from `Parts` at the
beginning and says which of them moves; the others stay where they start, and where a
component has several starts, at one of them. The state spaces thus add up and do not
multiply, and no step mixes two. Fairness is required of the component that moves (a
guard in the fairness condition) or of actions that are not enabled where the component
starts. The composition modules also name what is assumed of the constants of an instance
(`Buffer`, `Widths`, `Dashboard`, `Binaries`). `MCJobs`, `MCAdmission`, `MCRegistry`,
`MCGates`, `MCAccounts`, `MCTerminal`, `MCKeyCache` and `MCTickets` give the constants
values.

Operators that no action uses, such as `ReleaseUnlocked`, stand next to the action they
vary: each is the action with a plausible mistake in it, and `PROJECT.json` names the
property that notices when it takes the action's place.

### Jobs

A critical section under `r.mu` or `j.mu` is one step, because nothing in it blocks.
`handleMu` is a variable, because it is held across SDK calls; so is the position of each
drain goroutine (`drain`) and each request (`pc`). `tracked` is the key set of the map;
`state` and `finished` are `job.state` and "`finishedAt` is set"; `cancelled` the jobs whose
context is cancelled. Two values of `state` have no string in the code: "unborn" (the id is
not minted yet) and "lost" (the process that knew it died). `ended` and nothing else is a
history variable: the processes that reported their end or were sent a Kill. What an output
event appends is `RingBuffer`'s matter. `cancelJob` and `dropSandbox` share the Kill: a
request with `victims` is a dropSandbox, one without is a cancelJob. A signal with a number
that is not positive is a cancelJob, as in the code.

The drain has two final steps: Recv hands it an event (`Recv`), and it takes `j.mu` and
applies it (`ApplyFinal`). What happens between the two is where the races are. While
`drain[j]` is "recv" nothing is assumed about what Recv returns, so the outcome of a
Kill that overlaps a Recv that has not woken yet is any event.

A `Kill` without acknowledgement, a `Signal` that times out and one that works are the
same step to the program, since the code ignores or merely reports the difference.

Writing and closing stdin touch neither the state nor the locks of the model and are
left out.

### Admission

`vms` is what the runtime lists, whatever the status: `count` counts stopped sandboxes
too. `ListPage` is one page of the cursor: any part of the names not covered yet, read at
that moment. A create holds a slot from `Admit` to `Release`, and its sandbox appears
(`Materialise`) while CreateSandbox is still running. BuildFails, BootFails, CleanupFails
and CountFails are the error paths, each in its own action. `cleanupSandbox` and PullImage's
deferred removal are best effort in the code and here. PullImage does not clean up after a
failed boot; this is the branch of `PullReturn` that leaves `vms` alone. `pulled`
distinguishes the sandboxes of pulls; it is a history variable. Names are drawn fresh:
`newName` has 64 random bits.

The admission code only runs when a cap is configured, hence `Max > 0`. The daemon starts
on a host with at most `Max` sandboxes; with more, nothing could be said of the cap until
enough are deleted.

### Registry

One sandbox, since sandboxes share nothing but a mutex held for map accesses. A boot
starts a new incarnation, a number; a handle is the number of the incarnation it was
opened for, so "stale" is a comparison. `vm = "halted"` is the state the comment on
`bootAndVerify` describes: the guest is down, a stale runtime is left, and StartDetached
reports success without booting. `draining` is folded into "running" and `paused` and
`crashed` into "stopped", as the two switches of `resolveSlow` and `withSandbox` do; the
additional Stop that Delete sends to a paused sandbox changes nothing that is modelled.
The functions of the flight are the states in `Leading`; `Publish` is the return of the
flight to its leader and followers. `Start` and `Verify` are each used twice, with the
place they are called from and where they go on. Exec is modelled by what it does: cached
or resolve, then one attempt. Run and the file operations are withSandbox. `up`, `awake`
and `genuine` are history variables, and so is `late`.

Before the sandbox exists `boot` is 0, and the only requests are creates. A create is
CreateSandbox, which makes incarnation 1 (`Materialise`) and returns its handle
(`CreateReturns`), and then the write to the cache (`CreateCache`). That write is outside
of the flight and looks at nothing, so other clients may have stopped the sandbox and
started it again by then, or a resolve may be between its look at the cache and its own
write (`Filling`). In both cases the cached handle is `late`, and stays so until the entry
is replaced or forgotten. CreateFails is the error path, with cleanupSandbox's Stop and
Remove as steps.

An operation through a handle of an older incarnation fails without reaching the guest.
Each SDK call may fail at any time; where the code ignores the result, both outcomes go on.

### SandboxRecord

Where the components meet, each is reduced to what it leaves behind: `live`, `made` and
`workdir` are the entries of one sandbox in the three maps of `registry.go`, `tracked`
its jobs in the job map. The interesting steps are the ones that write after something
else may have gone by: a create caches its handle, stamps its time and sets its workdir
in three steps; a launch has its stream before its job is in the map. Delete stops,
drops, forgets and removes; the removal refuses a sandbox that is up again. A restart
clears everything and Reconcile fills in the creation time of what exists. `overlap` is
a history variable: a request that adds to the record ran beside the Delete.

### KeyCache, KeyGate

Both have a clock with a bound, the rows of the api_keys table, requests, the key page
of the dashboard (a write, then the Invalidate, as two steps), the commands (a write and
nothing else), expiry and restarts. `KeyCache` is `Valid`: look under `mu`, query,
insert under `mu`, touch; the clock reading (`stamp`) is taken once at the beginning and
the entry expires TTL after that. A full cache is dropped wholesale by the next
insertion. A failed query becomes a negative entry, as in the code. `KeyGate`
is `AuthConfigured`: one mutex, `anyMu`, held across the count, with the clock read
before the lock is waited for; a count that fails stands for "there are keys".
Hashes and formats are abstracted: a token is a model value, and a token nobody ever
minted is one too. `diedAt`, `keyedAt`, `settled` and `since` are history variables.

### DashAuth

A request asks for the account count in `locked`, in `authenticate` and, to word a
refusal, a third time (`round`); each answer may come from the memo. A failed count
answers the last value when one is known, and zero after an invalidation. `Mode` is
what `mode()` computes from the count, the basic-auth password and nothing else.

### Accounts

Each SQL statement is a step; a request may be given up before any of them. Ids are
AUTOINCREMENT and never come back; names do. Passwords are numbered in the order they
are set, so that "older" is a comparison and `born` tells two rows of one name apart.
bcrypt, formats and the attributes of a cookie are left out: a login either has the
row's password or fails. A change of one's own password asks three times, in three steps:
the guard's session lookup (`AccountGuard`), Authenticate's SELECT (`AccountConfirm`) and
SetPassword. `alone` is a history variable: nobody else has
changed the accounts since this request last read or wrote them. The foreign key and
ON DELETE CASCADE (`schema/001_init.sql`, with foreign keys switched on at
`store/store.go`) are in `Insert` and `Apply`.

### Terminal

Five goroutines: the pump, which reads frames and feeds a channel of `Cap` places; the
bridge, with Close run by its deferred call; the reader; the grace timer; and the
environment (guest, agent connection, client), each of which may end, break, leave or go
silent at any moment. A Go `select` with several ready clauses is a choice. The deferred
functions of the pump (close the client, close `done`, close `out`) are three steps in
their order. A frame is an output, an exit code or a failure; the code's -1 is
`Unknown`.

### Tickets

A mint draws a ticket and stamps its expiry before it takes the lock; the sweep and the
insertion are one critical section. A handshake presents a ticket to authWS, which
returns at once while no key is required, then redeems, and then falls back to a
bearer key. `OneShot` has three states per ticket and one rule: a terminal is opened by
the step that voids a live ticket of its sandbox.

### RingBuffer, CreateOptions

Algorithms. `RingBuffer` is checked against everything that has been written; its two
ways to write (replace everything, shift and append) are separate operators.
`CreateOptions` walks every combination of request values that lie next to a limit, at
scaled widths: what matters is which check bounds which conversion. 2^8, 2^16, 2^32 and
2^64 become 4, 7, 7 and 38, a GB becomes 2 MB and a second 3 ns; no conversion mixes the
16-bit fields (the two ports) with the 32-bit ones (memory and disk), so these two widths
may be equal. The values asked for lie on both sides of each limit and are given to every
field, the host port and the guest port included.

### Migrate

One write transaction at a time, deferred (so the SELECT of the applied names takes no
lock), with a busy timeout and deaths at any point as bounded faults. A process that
failed to open may be started again. Migrations are numbers; the table made and the
name recorded belong to one transaction.

### Daemon, RunPanel, ImagePull

`Daemon` is runServe in the order in which it acquires things, its listener goroutine,
the connections as net/http sees them (a hijacked one is no longer the server's) and the
deferred closes. `RunPanel` has one job, the stream that polls it and the
cancels of it, by the button (`Click`) and by REST clients (`Rest`), who do not touch the
panel's flag. The job has what the two handlers see of it: Recv hands its drain one of the
four last events (exited, failed, done, an error), which the drain applies later, over
whatever state is there (exited, failed) or only over "running" (the others); a cancel
looks the job up, looks at its state, cancels the context and writes the outcome in four
steps. The handle and `handleMu` are in Jobs only. `ImagePull` has a tag that moves, a local
cache, the throwaway box of each pull, panels that watch a channel of one place and may
leave, and API requests that wait inside the call. The boot of a pull is three steps: it
looks at the cache and the tag (`Resolve`), it has downloaded the manifest it found and
writes the cache (`Store`), and its box is up (`Boot`); it may fail at each of them, and what
it has cached by then stays. Other pulls, removals and pushes go on between the steps.
`seen` (what the tag has pointed to since the pull began) and `beside` (what other pulls
were downloading at that moment) are history variables.

### What is assumed of the SDK

- A `CreateSandbox` that has returned an error creates nothing afterwards (`Materialise`
  precedes `BootFails`), and one whose daemon died creates nothing either.
- The cursor of the listing is tied to names, so that a sandbox which exists during the
  whole listing is on one of its pages. With a cursor that counts positions, a deletion
  could make a page skip a sandbox, and the cap would not hold.
- Nobody but this daemon starts a sandbox (the CLI of the runtime could).
  `StuckOnlyByCreate` needs it.
- A sandbox that is down can be started again, as far as `MaxBoots` allows; a deleted one
  is never created again under its name.

### What is assumed of the rest

- SQLite: a statement is atomic, one write transaction at a time, an open transaction is
  undone when its process dies, foreign keys are enforced, AUTOINCREMENT ids do not
  recur.
- net/http: Shutdown stops the listener first, waits for requests that are being served,
  not for hijacked connections; handlers of other connections go on meanwhile.
- `singleflight.Group.Do` runs one function per name at a time and gives its result to
  everyone who waits.
- `sync.Mutex` excludes, and does not starve a waiter (see Fairness).
- The clocks of the modules are the monotonic one of the process: they do not go back.

## Runs

| Run | Instance | Distinct states | What it shows |
|---|---|---|---|
| `jobs` | 2 jobs in one sandbox, 2 requests; or 1 panel, 2 clicks, 1 REST cancel; or ring of 3, writes to 4, 9 bytes | 557 000 | the handle has one user and none after Close; a Kill follows its cancel; outcomes are recorded; no stream is abandoned; Jobs implements JobLifecycle; what a cancel that returns has achieved; a killed command is shown as such; the ring keeps the tail and conceals nothing |
| `jobs_live` | 1 job, 2 requests; or 1 panel, 1 click, 1 REST cancel | 13 000 | cancelled jobs release their handle; requests return; a click ends the panel's stream |
| `admission` | 2 creates, 1 pull, 4 names, cap 1; or one request with numbers around every limit | 308 000 | the cap, exact slots, creates answered; disk and ports arrive or are refused |
| `pulls` | 1 panel pull, 1 API pull, 2 digests | 150 000 | a pull reports nothing older than the tag, or than another pull's download, when it began; it leaves no box, and ends |
| `registry` | 2 requests, 3 boots | 489 000 | no dead handle; a stale handle of a running sandbox only by a late Create; requests answered |
| `record` | 2 requests, 2 jobs, 1 sandbox | 251 000 | what stays of a deleted sandbox came from a request beside the Delete; its jobs go |
| `key_cache` | 2 requests, 1 key page, 1 key, 1 bogus token, cache of 1, TTL 1, clock to 2 | 2 326 000 | an accepted key was live less than a TTL ago; the cache keeps its bound |
| `gates` | 2 requests, 1 admin, 1 key, TTL 1, clock to 2; or 2 visitors, 1 admin, clock to 1 | 99 000 | both gates are open only while nothing is configured or for a TTL after; a change in the dashboard closes them at once; no lock is kept |
| `accounts` | 2 clients, 2 names, 2 cookies, 3 ids, 3 passwords; or 3 processes, 2 migrations, 2 faults | 2 260 000 | a login's session is of its own account; only a race loses the last admin or spares an older session; schema and record agree, an open store is complete |
| `accounts_admin` | 2 clients, 2 ids | – | *violated*: a demotion that read the account as a viewer's is written after another request made it the admin |
| `terminal` | channel of 1, 3 frames, 2 codes; or 3 connections | 73 000 | the exit event is last and true; the pump and both sides end; requests keep their store; a signal ends the process |
| `tickets` | 2 tickets, 2 sandboxes, 3 handshakes, TTL 1, clock to 3 | 269 000 | old tickets do not pile up; Tickets implements OneShot |

**Bounds.** Two requests are enough for every pairwise race, and the third party of the
races (the drain, the janitor, the auto-stop, the pull, the commands of another process, a
restart, an expiry) is a process of its own; the proofs have no bound. Two jobs in one
sandbox give dropSandbox a victim to be slow on and another to wait. Four names let two
creates, a pull and an existing sandbox meet. With cap 1 the last slot is contended by two
creates. Three boots allow a start, its recovery and one more. A cache of one entry is full
when a key and a bogus token meet. Clocks run past the end of a memo (an ASSUME of each MC
module says so). Three ids and passwords let a name come back and be changed; three
handshakes let two race for a ticket after a third has used another. The channel of the
terminal is smaller than the output, and the ring smaller than a write. Three processes, one
of an older binary, and two faults let a process die inside the migration another waits for.

`MaxPulled`, `MaxBoots`, `MaxNow`, `MaxTime`, `DashMaxNow`, `MaxUsers`, `MaxId`, `MaxPw`,
`MaxOut`, `MaxWrite`, `MaxTotal` and `MaxFaults` are bounds of the models, not of the code;
each is a guard. The bounds that could hide a behaviour are `MaxBoots` and `MaxPw`: when
they are reached a boot can only fail and a password change only be given up, outcomes the
code has anyway.

**Symmetry** is used in `jobs`, `key_cache`, `accounts` and `tickets`, whose properties are
all safety (`LifecycleSpec` and `KeepsPromise` included: the abstract specifications have no
fairness) and treat the members of the symmetric sets alike. `CHECK_DEADLOCK` is never
switched off: a client may always arrive, and a component that is over (a process that has
exited, a terminal that has been torn down) has an explicit stuttering step.

### Fairness

- A goroutine that can take a step takes it (weak fairness per request and per drain).
- A `sync.Mutex` that is free again and again is eventually handed to a waiter: Go's mutex
  goes into starvation mode after 1 ms. Hence strong fairness for taking `handleMu`,
  `admit` and `anyMu`.
- SDK calls under `handleMu` return: they run under a 5 s context (`jobs.go` 355 and 392).
  CreateSandbox runs under `createTO`, the probes under their deadlines. Other SDK calls
  (listing, GetSandbox, StartDetached) run under the request's context, which ends at the
  latest when the client leaves; the model takes them to return.
- Recv owes an answer only once its context is cancelled (`RecvCancelled`).
- Clients owe nothing, and no fault is ever due.
- The terminal, the panels and the pulls: a goroutine that can run runs, Send and the
  teardown return, the grace timer and the pull timeout run out. The guest owes nothing,
  not even its end after a hangup; the client owes nothing.
- `SandboxRecord`: the streams of a sandbox that was removed end, and the
  janitor comes by; a stream of a sandbox that exists owes nothing.
- `Daemon`: main goes on and the shutdown timeout runs out; a handler may take for ever.
- Ticks, signals, changes of keys and accounts, failures and faults are never due.

`CreateReturns`, `RequestsReturn` and `GatePasses` say nothing about the waiting time:
`count` has no timeout of its own and holds `admit`, so all creates wait as long as one
listing lasts, and the gate holds `anyMu` as long as a query takes.

## Proofs

All theorems are about the `Spec` of a component, so they need no fairness, and they hold
for every value of the constants that satisfies the named assumption of the module:
`JobsAssumption` (request names differ from the two other mutex values, `NoJob` is no job),
`AdmissionAssumption` (finitely many requests and names, a positive cap),
`RegistryAssumption` (a positive bound), `KeysAssumption` and `NoEntryAssumption` (finitely
many tokens, a positive TTL and cap), `GateAssumption`, `AccountsAssumption`,
`TerminalAssumption` (a channel with at least one place) and `TicketsAssumption`. TLC
evaluates them in the runs of their modules.

The theorems about an instance of a composition module have its hypotheses in their
statement: `Buffer` (a ring with room for something), `Widths` (positive widths, the
widest field of an even number of values, integers asked for), `Dashboard` (a positive
TTL, and nobody is no visitor), `Binaries` (finitely many processes, at least one, each
with some number of migrations) and, for `ImagePull`, `Apart` (no pull is both a panel's and
the API's). The MC modules assume the same formulas, so that TLC
evaluates these too. `SandboxRecord`, `RunPanel` and `Daemon` are proved
without a hypothesis.

| Module | About | Theorems (*in italics: no run repeats the property*) |
|---|---|---|
| `JobsProofs` | `Jobs` | *`TypeCorrect`*, `HandleExclusive`, `KillFollowsCancel`, `OutcomesRecorded`, `StreamsNotOrphaned`, *`LockIsReturned`*, `ImplementsLifecycle`, *`AnswersStayTrue`*, `CancelKeepsWord` |
| | `RunPanel` (`Panel`) | *`PanelTypeCorrect`*, `PanelShowsKill`, *`PanelCancelsOnRequest`* |
| | `RingBuffer` (`Ring`) | *`RingTypeCorrect`*, `RingIsFaithful`, *`FlagNeedsFull`* |
| `AdmissionProofs` | `Admission` | *`TypeCorrect`*, `CapHolds`, `SlotsBalance`, *`AdmissionSerialized`* |
| | `CreateOptions` (`Opts`) | `NumbersKept`, *`OptionsFit`*, *`OptionsLost`* |
| | `ImagePull` (`Image`) | *`PullTypeCorrect`*, `PullReportsRegistry`, `PullLeavesNoBox` |
| `RegistryProofs` | `Registry` | *`TypeCorrect`*, *`FlightsAlone`*, `NoDeadHandleCached`, `StaleMeansDown` |
| | `SandboxRecord` (`Record`) | *`RecordTypeCorrect`*, `ResidueComesFromOverlap` |
| `KeyCacheProofs` | `KeyCache` | *`TypeCorrect`*, `RevocationLatency`, `CacheStaysBounded` |
| `KeyGateProofs` | `KeyGate` | *`TypeCorrect`*, `OpenIsBounded`, `GateClosesAtOnce`, *`GateLockIsReturned`* |
| | `DashAuth` (`Dash`) | *`DashTypeCorrect`*, `DashboardIsGuarded` |
| `AccountsProofs` | `Accounts` | *`TypeCorrect`*, *`NoSessionWithoutUser`*, `LoginOpensItsOwn`, `LastAdminKept`, `ChangeEvicts` |
| | `Migrate` (`File`) | *`FileTypeCorrect`*, `SchemaStaysSound` |
| `TerminalProofs` | `Terminal` | *`TypeCorrect`*, `ExitIsLast`, *`WaitIsShort`* |
| | `Daemon` (`Serving`) | *`ServingTypeCorrect`*, `RequestsKeepStore`, *`FailureHasCause`* |
| `TicketsProofs` | `Tickets` | *`TypeCorrect`*, *`TicketsOpenOnce`*, *`TicketsBound`*, `RegistrySwept`, `TicketsKeepPromise` |

*Jobs.* None of the four properties is inductive. `JobInv` ties a job's drain to its state
(a running job has a drain that receives or applies; a drain that closes owns handleMu);
`CallInv` ties what a request may still do to the job it points to (inside an SDK call it
owns handleMu of a job not closed; past "cancelling" the context is cancelled; a job a
request launches belongs to it alone). With TypeOK and NoOrphanStream they are inductive.
The refinement maps `status[j]` to what `Poll` answers and `open[j]` to "the drain has not
applied its last event, or a cancel that saw the job running has not marked it": every step
of Jobs is a step of JobLifecycle or a stutter. `JobLifecycle` thereby says what remains
true in spite of the violated `CancelMarksKilled`: outcomes may be replaced, but only while
somebody in the middle of an operation can, and never by "running". `AnswersStayTrue` is
that consequence, proved of the contract and carried over to Jobs by the refinement.
`CancelKeepsWord` says it of a cancel that has returned: its job is over and killed, unless
the drain applied an exit or a failure that the guest reported. It needs to know what the
cancel in progress has achieved so far (`CancelFacts`): past the Kill the process is in
`ended`, or the handle was closed. `LockIsReturned` is the other half of `HandleExclusive`:
handleMu is taken only by somebody who is inside an SDK call on that job, so no return path
keeps it.

*RunPanel.* The flag goes up before the job is looked at, comes down only with a poll that
found the job ended, and a job that has ended is never found running again. So a click
that still can find the job running has its flag up, and one that has found it running is
shown, or will be when the flag is taken (`Shown`); the panel says "ended" only after
such a poll (`LastView`). That holds
whichever event the drain still applies: a failure written over the kill changes what the
poll answers, and the flag is there before the kill. `dropped` is left aside on purpose: a
Delete beside the panel takes the job out of the map, and then the click fails.

*RingBuffer.* The output is always what has been lost followed by the buffer, and
something is lost only with the flag up and the buffer full (`LostIs`). The rest is
algebra of sequences (`DropSplits`, `DropConcat`): a write as long as the ring replaces
it, a shorter one pushes out a prefix. `FlagNeedsFull` bounds the violated
`TruncatedMeansLost`: a flag that is wrong is one beside an output as long as the ring.

*CreateOptions.* The check of the disk is a division by the unit, so what passes it can be
multiplied back without leaving 32 bits (`TimesFits`); a port within 16 bits is not changed
by keeping 16 bits (`SmallRemainder`). `OptionsFit` says what is true of the violated
`MemoryKept` and `IdleKept` as well: the value may be wrong, but it is one of its field; and
`OptionsLost` says for which requests exactly these and `CpusKept` fail.

*ImagePull.* A request keeps its worker for itself until it is over (`Started`), so a box
belongs to a pull that tears it down. For `ReportsRegistry`: the tag's present
manifest is among those seen since the pull began (`Remembered`); what anybody is
downloading while it runs is one of these or was in somebody's hands when it began
(`InHand`); so what a forced pull stores, what others store before it reads the cache back,
and hence what it reads, is one of these too (`Newer`). A panel goes past a cached image
only by force (`Forced`), and what it has been told is the outcome of a pull that is over
(`Told`). `beside` cannot be dropped from the statement: that is the violated
`ReportsCurrent`.

*Admission.* The cap is an invariant because of the order "list, then look at `inflight`"
and because the deferred decrement takes `admit`. `Counted` says that, while a request
counts, every sandbox of a create has been listed, or will be, or has a slot: a slot
cannot be released in between. `Room` adds the creates whose sandbox is still to come.
Both rest on `SlotsExact`, on each create having a name of its own (`OwnName`) and on
cardinalities of finite sets, taken from FiniteSetTheorems. The mutant that releases the
slot without the mutex breaks exactly this argument.

*Registry.* The leader is alone (`OneFlight`), and while it is filling the cache (`Filling`)
the cache is empty or its entry is `late`; the handle it brings is that of the last boot,
and that boot came up (`LeaderInv`). No other step starts an incarnation but the first one,
which a create makes before there is anything to resolve (`CreateInv`). So a cached handle
of a running sandbox is the current one, or a create wrote it `late`. Only the leader's
second look at the cache keeps the handle of a running sandbox from being replaced by a
later flight. `StaleMeansDown` is the statement of `StuckOnlyByCreate`, and it is as far as
the serialisation of the flight reaches: Create does not take part in it, which is the
violated `NoStuckHandle`.

*SandboxRecord.* A Delete drops the jobs, forgets the entries and removes the sandbox, in
this order. If no request that adds to the record ran beside it, nobody is there to fill
the map or the entries behind its back (`Apart`), so after the drop there are no jobs and
after the forget no entries (`Cleared`); once the sandbox is gone a newcomer gets no
further than its look for it. `Places` says which kind of request is where, and that a
launch about to register has its stream.

*KeyCache.* `AcceptBounded` is not inductive: a decision is made by a request that may
have read the cache, queried, and waited for as long as it likes. `Vouched` says that a
positive verdict in hand was true at the clock reading the request took, or the key died
no earlier than that reading; that a positive entry expires no later than TTL after its
key died, whenever it was inserted; and that a request on its way from a hit carries a
reading younger than that. This is why the entry must expire TTL after the reading and
not after the insertion. `CacheBounded` needs only that look-and-insert is one critical
section, and cardinalities.

*KeyGate.* `Answers`: a count of zero in hand, and a memo that says "open", are either
still true or from no later than the moment the table stopped being empty. For
`ClosedAtOnce` the order of the locks matters: Invalidate needs `anyMu`, so it cannot run
between a count and its store (`Locked`), and what is settled (`Settled`) when a memo is
stored has no row any more and, as ids are not reused, never again.
`GateLockIsReturned` is that anyMu is held by nobody but a request between its lock and its
store, also after a query that fails.

*DashAuth.* The same argument with another lock order (`ZeroIsRecent`, `SettledIsCounted`,
and `Querying` for the mutex held across a query). What differs is that one request counts
up to three times, and that a failed query answers from the memo: the property leaves
these answers aside, and the violated `ErrorKeepsMode` is about them.

*Accounts.* The row a request has in hand is the row that has its id now, or there is none
(`Hand`): that is AUTOINCREMENT's part of `LoginSessionsOwn`; the foreign key does the rest.
For the last admin the row in hand must also be current (`Current`) and the other admin
of the count still be there (`Cleared`), which holds as long as nobody else has changed
the accounts. A second invariant, `Race`, is for `EvictedButForRaces`: a change that has
returned is not newer than the password of its row (`Evicts`), an undisturbed change is the
last password set (`Latest`), and what an undisturbed login verified is still the row
(`Verified`). The theorem says exactly where `PasswordEvicts` fails.

*Migrate.* Only the holder of the write transaction has made a table or recorded a name,
and then both belong to the migration it is at (`Transaction`); a process is past a
migration only when it is recorded (`Passed`); and what is recorded has no gaps (`Sound`).
That one of finitely many binaries is the newest, which the bound of the migrations
rests on, is a lemma by well-foundedness (`NewestBinary`).

*Terminal.* Until the bridge leaves its loop, what the pump received is what was delivered
plus what is on its way (`Balance`), because `quit` is only closed by Close, which the
bridge runs afterwards. The pump records the code after the last frame and closes `done`
before `out` (`Order`, `Exit`), and the bridge asks for the code only once `out` is closed
and empty (`Drained`).

*Daemon.* runServe acquires things in one order (`Startup`), so that main is past its select
before anything is closed; and when it closes the store, the listener is down and no
connection is served, unless the timeout ran out or the listener failed (`Closing`).

*Tickets.* A handshake that got its terminal by a ticket has taken that ticket out of the
registry, and only a ticket that was never registered is put there (`Handshakes`,
`Registered`). The refinement maps a ticket to "none", "live" or "void" (redeemed, swept,
expired) and every step of Tickets, a tick of the clock included, to a step of OneShot or
a stutter.

Model-checked only: the liveness properties (`CancelReleases`, `CallsReturn`,
`CreateReturns`, `RequestsReturn`, `JobsOfGoneEnd`, `GatePasses`, `CloseEndsPump`,
`TerminalEnds`, `SignalEnds`, `ClickEndsStream`, `PullAnswered`), which need fairness and
ENABLED; and the violated properties. Every other property of a run is a theorem.

## Divergences

Places where the code does not do what its comments or documents say. Each is a property
of the module named, stated in the words of the source, and TLC shows the counterexample
when the property is added to a configuration of the module. `AdminRemains` has a run of
its own (`accounts_admin`) and is the finding of `PROJECT.json`: it can leave the dashboard
without an administrator, and needs nothing but two requests at the same time.

| Property | Where | What happens | What is said |
|---|---|---|---|
| `Accounts!AdminRemains` | `store/users.go:249` | SetRole and DeleteUser read the role in one statement and write in another: an account read as a viewer's is demoted or deleted unchecked, though a request in between made it the admin (the run's counterexample); likewise two requests that each count the other's admin remove both | `users.go:264` "It refuses to delete the last admin so the dashboard can never become unreachable" |
| `Accounts!PasswordEvicts` | `store/users.go:236` | a login that verified the old password before the change inserts its session after the eviction | `users.go:217` "a password change is how you evict a compromised login" |
| `Accounts!AccountSessionsOwn` | `dashboard/handlers_auth.go:138` | the cookie is re-issued by name; an account deleted and made anew meanwhile gets the session | `handlers_auth.go:148` "annoying, never wrong" |
| `Jobs!CancelMarksKilled` | `jobs.go:260` | a drain with its final event in hand replaces "killed" by "done" | `service.go:631` "it marks the job JobKilled so the caller can tell a cancellation apart from a clean exit 0" |
| `Jobs!CancelTerminates` | `jobs.go:391` | the drain that cancel() wakes closes the handle first, and the Kill is skipped | `jobs.go:363` "terminates a running job deterministically and promptly" |
| `Admission!HostWithinCap` | `image.go:148` | pulls boot sandboxes that no admission has seen | `README.md:198` "Hard cap on concurrent sandboxes" |
| `Admission!RefusedOnlyWhenFull` | `service.go:214` | a slot and its listed sandbox count twice | `registry.go:34` "when the host is already running the configured maximum" |
| `Registry!NoHandleForGoneVM` | `registry.go:174` | a resolve caches its handle after Delete's forget | `registry.go:131` "to confirm the VM exists (ErrNotFound if gone)" |
| `Registry!NotRunTwice` | `service.go:585` | the retry is decided from a state read after the failure | `service.go:572` "keeps a genuine in-guest failure from being masked or the command double-run" |
| `Registry!StartEnsuresRunning` | `registry.go:136` | Start answers from the cache when the sandbox has stopped by itself | `service.go:452` "Start is an idempotent ensure-running" |
| `Registry!NoStuckHandle` | `service.go:249` | Create caches the handle of the first boot after other clients have stopped the sandbox and started it again, or while a resolve is booting it; the handle stays stale while the sandbox runs | `registry.go:127` "returns a live, RUNNING *Sandbox handle", `registry.go:63` "group serializes resolve()/create admission per sandbox name" |
| `SandboxRecord!PinnedWorkdirKept` | `registry.go:97` | Stop or a restart forgets a pinned workdir, which the config never had | `service.go:665` "the stored config only carries an explicitly-pinned workdir" |
| `SandboxRecord!ReconcileAttaches` | `registry.go:260` | Reconcile opens no handle | `registry.go:248` "re-attaches to every pre-existing VM at startup" |
| `CreateOptions!MemoryKept` | `service.go:299` | memory_mb wraps in uint32 | `service.go:290` "rather than silently dropping or wrapping them" |
| `CreateOptions!IdleKept` | `service.go:371` | auto_stop_secs overflows as nanoseconds | `service.go:290`, as above |
| `CreateOptions!CpusKept` | `service.go:302` | a cpu below 1 becomes 0 | `service.go:152` "before they are silently truncated" |
| `RingBuffer!TruncatedMeansLost` | `jobs.go:80` | a write that fills an empty ring exactly counts as truncated | `jobs.go:61` "whether truncation occurred" |
| `KeyCache!RevokedAtOnce` | `store/cache.go:134` | an answer from before the revoke is inserted after the Invalidate | `cache.go:20` "A revoke through the dashboard is instant" |
| `KeyCache!LiveKeyAccepted` | `store/cache.go:121` | a failed query is memoised as a refusal for others | `cache.go:95` "reports whether raw is a live store-backed API key" |
| `KeyCache!TouchThrottled` | `store/cache.go:127` | an entry lives shorter than touchInterval, and every miss touches | `cache.go:29` "throttles last_used_at writes for a busy key" |
| `DashAuth!LockedWithKey` | `dashboard/auth.go:171` | the two reads of one request disagree | `auth.go:151` "must refuse to serve: it has NO auth of its own" |
| `DashAuth!ErrorKeepsMode` | `dashboard/auth.go:127` | after an invalidation a failed count answers 0 | `auth.go:109` "keeps serving the last known value" |
| `Terminal!ExitReported` | `api/terminal.go:150` | a failed write to the ended guest cancels the bridge while the closed channel is ready | `api/terminal.go:18` exit "sent just before close" |
| `Terminal!CloseSignals` | `terminal_agent.go:293` | the pump that Close wakes closes the agent client before the SIGHUP is sent | `terminal.go:48` "killing the guest process" |
| `Tickets!SingleUse` | `api/router.go:234` | a ticket presented to an open API is not consumed | `openapi.yaml:126` "single-use ticket" |
| `Migrate!OpensTogether` | `store/store.go:196` | two processes read a fresh file as empty, and the second CREATE TABLE fails | `cmd/msbd/admin.go:7` "SQLite's file locking handles the concurrent access" |
| `RunPanel!CancelledWasKilled` | `dashboard/handlers_sandbox.go:232` | the flag is set before the job is looked at | `handlers_sandbox.go:233` "say what actually happened" |
| `RunPanel!FlagConsumed` | `dashboard/dashboard.go:91` | a click after the last poll leaves its flag for good | `dashboard.go:75` "Entries are consumed by the stream that owns the job" |
| `ImagePull!PulledIsFetched` | `dashboard/handlers_image.go:232` | "pulled" is decided from an inspection before the pull | `handlers_image.go:224` "reports what the pull actually accomplished" |
| `ImagePull!ReportsCurrent` | `dashboard/handlers_image.go:239` | a slower pull writes an older manifest to the cache between this pull's download and its read, and the older one is reported | `handlers_image.go:240` "is unchanged — the registry copy matches the cached one" |
| `Daemon!CutIsReported` | `cmd/msbd/main.go:391` | Shutdown knows nothing of a hijacked terminal | `main.go:392` "a live terminal still open ... is expected operationally" |

Besides these, `service.go:495` and `README.md:342` say that exec does not ensure that the
sandbox runs, while a cache miss makes it resolve, hence boot (`service.go:500`). And the
flight of a resolve runs under its leader's request context (`registry.go:148`): when that
client leaves, the followers are answered with its cancellation. In Registry this is one
of the failures an SDK call may have.

The properties of the runs are the strongest statements in the neighbourhood that hold:
`AcceptBounded` beside `RevokedAtOnce`, `EvictedButForRaces` beside `PasswordEvicts`,
`AdminLostInRaceOnly` beside `AdminRemains`, `CreatesWithinCap` beside `HostWithinCap`,
`ResidueFromOverlap` beside `NoHandleForGoneVM`, `StuckOnlyByCreate` beside `NoStuckHandle`,
`ReportsRegistry` beside `ReportsCurrent`, `CancelOutcome` beside `CancelMarksKilled` and
`CancelTerminates`, `KeepsPromise` beside `SingleUse`. Two more
are theorems that no run repeats: `LostOnlyBeyondField` beside `MemoryKept`, `IdleKept` and
`CpusKept`, and `TruncatedMeansFull` beside `TruncatedMeansLost`.

## Plan

1. *Done:* the job registry, admission and the handle registry; their composition in what
   they remember of a sandbox; keys, the two gates, accounts and sessions; terminals and
   tickets; the store's migrations; the daemon's life; the Run panel and image pulls; the
   ring buffer and the numbers of a create. Safety proofs for all of them.
2. *Proofs* of what bounds the other violated properties from the other side: when a mode
   read twice agrees, when a revoke is seen.
3. *Stdin* of jobs and the contexts of the flight's leader and followers, once the SDK's
   contract is known.

## Not modelled

Most of the repository's lines are not the daemon's logic. `src/internal/dashboard/components`,
`twmerge`, `utils`, `assets` and all `*_templ.go` files are a vendored component library,
icon tables and code generated from templates: they map values to HTML and keep no
state. About ten thousand lines are written by hand, and of these the modules cover the
ones that keep state, lock, wait, retry or check. What they leave out:

- decoding, encoding, validation messages, OpenAPI, HTML, server-sent-event framing, log
  lines and metrics counters: no property here is about them;
- the SDK wrappers for files, logs, metrics, snapshots and volumes: one SDK call each
  under the request's context, no state in the daemon; the file operations appear in
  Registry as users of withSandbox;
- stdin of jobs (see the inventory);
- bcrypt, hashing, key and cookie formats, cookie attributes, name and password rules;
- file modes, paths, flags and the installation of the runtime;
- the tables the admin commands print; what they write is in Migrate, KeyCache, KeyGate,
  Accounts and DashAuth as the second process.

Durations are abstracted to "may end now", except where a TTL is the point (keys, gates,
tickets), where a clock with a bound ticks at any moment.
