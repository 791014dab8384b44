# Agent sandbox platform: TLA+ models, checks and proofs

This directory holds TLA+ models of the stateful services of the agent sandbox
platform, the TLC configurations that check them on small instances, and TLAPS
proofs for every size. `PROJECT.json` maps every definition to the lines it
models and lists the runs, the faults each property is known to catch, the
findings, the hazards and the theorems.

## The system

| Component | State it keeps | Operations | What makes it correct |
|---|---|---|---|
| Control plane, lease backend (`apps/control-plane-go/internal/backend/kubernetes`) | SandboxClaims in Kubernetes; in memory only `acquireMu` | Acquire, List, Get, Exec, ReadFile, WriteFile, OpenFile, WriteFileStream, Release, Delete, Recover, SweepExpired, Close | one active lease per tenant scope and idempotency key; a released lease stays released; nothing crosses a tenant scope; expired leases go away |
| Transfer manager (`transfer.go`) | active operations, two counters, blocked leases, closed | begin, finish, stopLease, close | counters agree with operations and limits; no transfer outlives its lease or the deletion of its claim |
| Control-plane lifecycle (`internal/app`) | none | Run: recover, sweep, serve, sweep periodically, shut down | expiry goes on across failures and restarts; an orderly shutdown |
| HTTP API, authentication | none | one backend call per request | scope comes from the token only |
| List and its cursor (`backend.go`, `cursor.go`) | none: a page's position and instant travel in an encrypted cursor | List | the pages of one traversal are together one list of one moment |
| Go SDK (`packages/sdk-go`) | the Client's closed flag, a Pager's position, a handle's terminal transition | Iterate, Next, ListPage, Release, Delete, Close; Acquire, Connect, Refresh, Run, files | a traversal is complete and ends; success means that the lease has ended, for every goroutine that asked |
| Workload router, registry (`apps/workload-router/internal/auth`) | exposures with generation, hosts, capabilities, sessions, slots, connections, timers | Register, LookupHost, Exchange, Authenticate, Acquire, TrackConnection, Revoke, Close, expiry | single-use capabilities; sessions bound to one registration and host; revocation reaches every connection |
| Workload router, proxy (`internal/router`, `internal/resolver`) | none | lookup, bootstrap, exchange, proxy, dial | calls the registry in the right order |
| Command supervisor, manager (`apps/command-supervisor/internal/runtime`) | records, requestIds, unhealthy flag, children; `metadata.json` per command | Start, collect, Status, List, Connect, Wait, Stdin, CloseStdin, Signal, KillAll, load | a requestId starts at most one child, whatever fails; a terminal state is final; no output or wake-up is lost |
| Command supervisor, spool (`persistence.go`) | segment files | append with rotation and eviction, read with truncation | bounded size; the newest output is kept; a torn write is recoverable |
| Command supervisor, server (`server.go`) | client slots, a watcher per connection | Serve, handleConnection, Dispatch | slots come back; a client that has gone and a shutdown leave no operation behind |
| Command supervisor, processes, state lock | process groups, a lock file | start, signal | a signal reaches the whole process group; one supervisor per directory |
| File-transfer helper (`images/runtime/file-transfer`) | temporary files in the workspace | download, upload | a file is replaced whole or not at all; a download is what its digest says |
| Other SDKs, legacy JavaScript control plane, platform gate, Pi extension, deployment | various | | not modelled, see below |

The components interact as follows. HTTP handlers, the sweep and the shutdown
path of the control plane are goroutines over the same claims, and the transfer
manager is shared by all of them; the Kubernetes API server and the SandboxClaim
controller act on the claims by themselves. A transfer runs the helper in the
sandbox through a Pod exec; the helper shares the workspace with other helpers
and with whatever the agent runs, and outlives an exec that breaks. In the router, requests, expiry
timers, the transport's dial goroutines and the control side share the registry
under one mutex. In the supervisor, client connections and one collect
goroutine per command share the manager's records and the disk; beside each
operation a watcher reads from its connection. The SDK's Pager sees the claims
through one List request per page, each on its own.

The hard behaviours are the windows between an unlock or an API call and the
use of what was read (Exchange, prepareTransfer, waitForReadyClaim, release
closures), identifiers that are used again after revocation, calls that fail
after they took effect, crashes between two writes, timers that have fired but
not yet run, what changes between two requests of one traversal, and waiting
(stopLease, Wait, acquireMu, drained and full pipes, joined transitions).
`PROJECT.json` lists each of these under `hazards` at its line.

## Modules

| Module | Models | State and actions |
|---|---|---|
| `TransferManager` | `transfer.go`, the manager | One action per method under `m.mu`; `stopLease` is two steps, marking and waiting for the done channels. |
| `FileTransfer` | `OpenFile` and `WriteFileStream` of `transfer.go`, the content handlers of `httpapi/server.go`, the helper | Extends `TransferManager` with the content of each transfer, block by block. `pc`, `result`, `moved`, `run` are the handler and its exec, `helper` and `marker` the process in the sandbox, `file`, `data`, `temps` the workspace. |
| `LeaseBackend` | `backend.go`, `exec.go`, `transfer.go`, `app.go` | Instantiates `TransferManager`. `phase`, `owner`, `idemKey`, `expires`, `runtime` are the claims; `pc`, `req`, `queue` the handlers and the main goroutine (`Sweeper`); `app` the process. One action per API call or critical section; every API call may fail, before or after it took effect. |
| `LeaseService` | the `Backend` interface as a promise | A lease is opened while its key has no other active one, and ends once. `LeaseBackend` implements it (`ImplementsLeaseService`). |
| `Registry` | `registry.go`, the request path of `router.go` | One action per section under `r.mu`. A method reads the clock before it locks, so an action uses any time since its goroutine's previous step. `revokeRef` removes under the lock and closes connections afterwards, one action each. A timer that fired becomes a callback that `Stop` no longer reaches. Connections are dialled by goroutines that may outlive the request. |
| `CommandManager` | `manager.go`, the metadata part of `persistence.go` | Handlers run Start and Wait step by step; each command has a collect goroutine (`cpc`); `meta` and `spool` are the disk, `proc` the child (the group leader), `open` whether it or a descendant still holds stdout or stderr, `pipe` what nobody has read yet, `stdin` and `inPipe` the field and the pipe behind it. collect ends when both outputs are at EOF and the child has been reaped (`Ended`): a descendant that inherited stdout keeps it waiting after the child's end, and one that left the group survives `Kill`, which may fail anyway. Writes may fail before or after the rename; a crash may come between any two steps, including between the directory's creation and the first metadata. |
| `CommandControl` | Signal, KillAll, Stdin and CloseStdin of `manager.go` | Extends `CommandManager` with what clients do to a running command: `stdinWrite` is the lock a blocked write holds, `killing` the commands a KillAll has still to signal, `firstFailure` that one of its signals failed. Instantiates `CommandManager` with the state as the manager's own code would have it (`Manager`): a handler in Signal, KillAll or Stdin is idle there, and an input pipe stays open until collect closes it. |
| `SupervisorServer` | `server.go`, `client.go`, the supervisor's `main` | Extends `CommandControl`: Serve with its slots, a connection and a watcher per client, the context each request derives from the server's, SIGTERM. |
| `SandboxClient` | `sdk-go/client.go`, `sdk-go/sandbox.go`, `Backend.List`, `cursor.go` | `pager` is a Pager, the request it has out, the cursor it holds (with the API server's continue token inside) and the history of its traversal; `transition` and `pc` are a Sandbox handle and the goroutines that end it; `phase` the claims. An application either lists or ends a sandbox, for the two meet only in the closed flag and in claims that the platform deletes anyway. |
| `Spool` | `appendBoundedEvent`, `readEvents` | Segment files in abstract byte sizes; an append is decide, evict, create, write; an interruption may leave any number of bytes. |
| `EventLog` | the spool as a promise | The events that are kept, the newest, and what an interrupted append left behind. `Spool` implements it (`ImplementsEventLog`), and each command's spool in `CommandManager` is one (`SpoolsAreLogs`). |
| `...Proofs` | | Theorems about `TransferManager`, `LeaseBackend`, `FileTransfer`, `Registry`, `CommandManager`, `SupervisorServer` (with `CommandControl`), `SandboxClient` and `Spool`, one module each. |
| `MC...` | | Instances for TLC: constants that need names, symmetry sets. |

A definition marked *Fault* is a plausible bug in the definition after it;
`PROJECT.json` pairs it with the property that catches it.

Assumptions of the models: a single control-plane replica and a single router
(as the documentation requires); a List of the API server returns every claim
stored before it; one clock; random lease IDs, command IDs and credentials are
fresh and not guessed; the state lock admits one supervisor; an API call takes
effect at most once and, except for the fault `"late"`, not after its caller saw
it fail. That a supervisor's children and their descendants die with it (`Crash`)
is an assumption on the deployment: the code sets only Setpgid
(`process_linux.go:55`), with no parent-death signal, and relies on the image,
whose first process is tini with the supervisor as its child, so that the sandbox
ends with the supervisor.

Failures are one outcome each where nothing distinguishes them: in `LeaseBackend`
any error of a step (the API call, or annotations that do not parse,
`ScanFails` and `SweepFails`) ends the handler or the sweep. Two branches are
modelled although the code hardly reaches them: `containment.Started` failing
after the child was spawned (`Spawn`), and `WriteFileStream`'s own check of the
input's error after a result marker (`transfer.go:208`, `InputErr`). Wait looks
its command up and then checks health at the top of its loop; the model does both
at the lookup (`Wait`): a manager that is healthy at the check was so at the
lookup, for it never becomes healthy again, and one that is not makes Wait return
without a trace.

## Runs

| Run | Question | Bounds |
|---|---|---|
| `file_transfer` | Is an acknowledged upload stored, a rejected one without trace, a replacement atomic, a download intact? Do the counters, limits and cancellations of the manager hold under real transfers? | 2 transfers of one path, limit 1, so that it is met and a helper from an earlier transfer meets the next; contents of 0 to 3 blocks with a maximum of 2; one change by another process; crashes |
| `transfer_aborted` | Is 408 ABORTED only ever the answer to a transfer that was cancelled? *Violated.* | 1 transfer of an empty file |
| `lease_acquire` | Can two Acquire calls, expiry, lost responses and crashes produce two active leases for a key, or a lease of another scope? Is `LeaseService` implemented? | 2 handlers, 2 scopes with the same key, 2 leases, one of which expires |
| `lease_transfer` | Do transfers, commands, lookups and releases of one lease end properly under the sweep, cluster expiry, crashes and SIGTERM? | 2 handlers of 2 scopes, 1 lease, late creates included |
| `lease_live` | Is an expired lease deleted, and every Acquire served that waits behind another? | 2 handlers besides the sweep, which acquire one lease and transfer on it, crashes and SIGTERM |
| `registry_credentials` | Are capabilities single-use, authority never stale and slots accounted for, and do sessions stay with their registration? | 2 requests at once, 2 exposure IDs on one host, 2 registrations, 4 credentials |
| `registry_lifecycle` | Do revocation and expiry reach every connection and only their own registration? | 1 exposure registered twice, 1 request, 1 connection, expiry of both |
| `command_manager` | At most one child per requestId, terminal states durable, no wake-up lost, output complete, cursors valid, collect never stuck? | 2 clients that start and wait, 3 requestIds of which 2 fit, 2 commands, 2 chunks of output in all, by children or by descendants that outlive them, failing writes, crashes |
| `supervisor_server` | Do slots come back, do disconnects and SIGTERM leave nothing behind, does closing stdin free its writers, does KillAll reach what is running? Do clients and server make the manager take a step it would not take alone (`ManagerSteps`)? | 2 clients and slots, one requestId, all six operations on one command that is running at the beginning, no failing writes |
| `sandbox_client` | Is a traversal a complete list of one moment, and does it end? Does success mean that the lease has ended, and does every joiner return? | 3 leases of 2 scopes and 2 pools, 2 of which expire; 3 queries, pages of 1 and 2; 2 goroutines on one handle |
| `command_recovery` | Does the supervisor start after every crash? *Violated.* | |
| `spool` | Is the spool bounded, and is it an `EventLog`: contiguous up to the newest event, and readable after an interruption? | 8 events of 3 sizes; segments hold 1 or 2 records, the budget 2 full segments, so rotation by segment size and by budget, and eviction of one and of several segments, all happen |

The bounds are the smallest in which every race the hazards name can happen:
two actors for a race, two registrations for an identifier used again, one time
unit for an expiry and a second one for its successor. Handlers, leases and
scopes are interchangeable, which the symmetry sets use in safety runs only.
`MaxTime`, `MaxGen`, `MaxCreds`, `MaxEvents`, `MaxSeq` and `MaxEdits` cap what
would grow without bound. `FileTransfer` has no clock: deadlines are in
`LeaseBackend`, and there a context ends only because it is cancelled. Both
registry runs have one host, so that a session presented on another host appears
only as a host given to another exposure; `command_manager` has one command
specification, so that a requestId used for another command is not refused in
any run. It has no signals and no writes to stdin either: to the records a
signalled child is one that dies by itself, which `ManagerSteps` checks and
`ControlIsInvisible` proves. `supervisor_server` begins where Start has returned,
for `command_manager` covers what comes before; TLC therefore sees `ManagerSteps`
without crashes, recovery and new commands, which the proof covers. Its KillAll
has a list of one command, met by signals, CloseStdin, its own end and other
KillAlls: that a longer list is gone through while commands are added and finish
rests on the theorems `KillAllReachesAll` and `KillAllIsComplete`. Both property
and theorems are about group leaders, and about a KillAll none of whose signals
failed (it answers SIGNAL_FAILED otherwise): a descendant that called setsid
escapes, as ADR 0005 says. `lease_live` has one lease, so that a lease which
delays others in the sweep does not occur there: every step of the sweep may fail
and end it, but only the deletion of that one lease is shown.

Fairness. `LeaseBackend!Fairness`: Go runs every goroutine, the deployment
restarts the process, the clock advances, a transfer whose context is done
returns. Each of the two properties states what else it needs as its premise:
`ExpiredAreDeleted` that the ticker fires and that what the sweep retries for
ever succeeds sometimes (`SweepFairness`, strong, per lease), `AcquireIsServed`
that Go's mutex starves nobody (`MutexFairness`). The latter thus says that
whoever holds `acquireMu` gives it up, on every path through Acquire.
`Registry!Fairness`: timers fire, their callbacks and a revocation that has
begun run on; nothing is assumed of clients, workloads or the transport.
`SupervisorServer!ServerFairness`: goroutines run on, a mutex is not withheld
for ever, the read and write deadlines pass; clients need not leave, children
need not read or end, Wait's timeout need not pass. `SandboxClient!Fairness`:
the application goes on calling Next, a request is answered or fails, and a
joiner whose channel is closed is scheduled. That
collect is never stuck is an invariant (`CollectGoesOn`), with no fairness at
all: whatever is in the pipe, of a child or a descendant, can be read, also after
the spool failed, what was read can be recorded, and the command can be finished
once there is nothing more to come. Requests, crashes, SIGTERM and process exits are never assumed to happen.

Deadlock is checked in every run but `supervisor_server`, whose process ends.

## What the code does not keep

- Abort without cause (`transfer_aborted`): the goroutine that runs a download's
  exec calls `op.finish`, which cancels the operation's context, and `OpenFile`
  looks at that context after it has read the marker. A download whose exec
  broke (502 by the documentation), or of an intact empty file, is answered 408
  ABORTED when the goroutine is faster.
- Recovery (`command_recovery`): a crash between the creation of a command's
  directory and its first metadata, or between the creation of a segment file
  and its header, leaves a state directory that `load` refuses at every start.

More facts showed while modelling and are not among the runs:

- A Stdin blocked on a child that does not read looks at no context: a
  disconnect leaves it (and its slot) behind, and shutdown waits for it, although
  `server.go` says "Either way no operation remains detached". `NoneDetached` and
  `ShutdownEnds` assume that such writes end (`WritesEnd`); CloseStdin, Signal
  and the child's end do end them (`StdinEnds`).
- When Accept fails for another reason than shutdown, Serve waits for its
  handlers with the server's context still alive, up to Wait's own timeout.
- KillAll passes over a command that is still starting, which then runs on.
- A descendant that keeps stdout or stderr open without writing leaves its
  command running, in the records, after the child has ended, and Wait with it:
  collect waits for both EOFs before it reaps the child.
- load persists `lost` and truncates the spool before it looks for a duplicate
  requestId, so that a start it refuses has already changed the entry.
- Connect takes NextCursor from the record, but the events from the spool, which
  may hold one more when the write of the metadata failed: a client that goes on
  from NextCursor sees that event twice.
- A Release that is retried after its response was lost is answered 404; a
  goroutine that joins a Release or Delete gets the leader's error, the
  leader's own cancellation included. After a Delete the handle's record still
  says active, and a Refresh that overtakes a Release may write active over
  released.

- Shutdown: `App.Run` waits in `server.Shutdown` and calls `backend.Close` only
  if that succeeds, so a transfer longer than ten seconds is cut off with the
  process and not aborted with 408 as `docs/api-v1.md` says.
- An upload answered 408 or 502 may still be committed, even later: the helper
  has all it needs and runs on without its exec. Only the validation errors
  promise that nothing was stored (`RejectedLeavesNothing`).
- A helper that is killed leaves its temporary file in the workspace.
- A write that fails in the sandbox (a full disk) is answered
  CONTENT_LENGTH_MISMATCH: the helper does not tell a failed copy from a short
  body (`UploadIOFails`).

- A Create that fails for its caller and lands later (the fault `"late"`) can
  give a key two active leases; the claim's name is random, so nothing in the
  API server prevents it. `OneActiveLeasePerKey` is checked and proved without
  that fault.
- Acquire returns a replayed lease without readiness or runtime verification,
  also when the first attempt crashed before verifying it.
- `waitForReadyClaim` accepts a claim that is already being deleted.

## Proofs

All theorems are checked by TLAPS for any number of handlers, leases, scopes,
operations, callers, hosts and commands, and for any limits, sizes and times.
Every safety invariant the runs check, all action properties and all
refinements are theorems, with one exception (`CollectGoesOn`, below).
Each proof finds an inductive invariant, which TLC checked on the run's instance
first, and shows that the initial states have it, that every action keeps it (one
step of the proof per action), and that it implies the property.

`TransferManagerProofs` (for `TransferManager!Spec`, which besides the
operations has the cancellation of a single transfer by its client):
`TransferLimits` (`TransferAccounting`) and
`StopCancels` (`StoppedAreCancelled`). The inductive invariant adds to the
types that an operation is registered for one lease only and that the sets
whose cardinalities the counters claim to be are finite.

`LeaseBackendProofs`:
- `TypesCorrect`, the type part every other proof rests on, with the fact that
  a goroutine inside an operation knows its lease.
- `OneActiveLease`. The property is not inductive: a caller about to create
  must know that its key has no active lease. `KeyInv` adds that the goroutine
  in the critical section holds `acquireMu`, that while it scans every active
  lease of its key is still in its queue, and that none is left when it
  creates; time only takes leases away. It needs `NoLateCreates`.
- `ReleasedForGood`, `DeletesQuietly`, `TransfersAuthorised`, from `SafeInv`:
  a lease for which someone is past `stopLease` is blocked or its process is
  gone, a blocked lease admits no transfer, and a transfer's deadline is at
  most its lease's expiry.
- `AcquiresInScope` (`AcquireStaysInScope`): `granted` remembers every answer of
  Acquire, replays of one lease to several callers included, as scope, key and
  lease. From `ScopeInv`: the claims a caller scans, the one it waits for and all
  it was ever answered were stored with its own scope and key.
- `BackendImplementsService`: each step maps to Open, End or a stutter of
  `LeaseService`; `OneActiveLease` gives Open's guard.
- `BackendImplementsManager`: each step of a handler, the sweep, the process or
  the cluster is one operation of `TransferManager!Next`, a tick or a stutter.
  `TimesInv` adds that no lease expires later than the last instant plus `MaxTTL`,
  since Acquire checks `ttlSeconds` before it reads the clock. The manager's own
  theorems are then instantiated, which gives `BackendTransferLimits`,
  `BackendStopsCancel` and, with `TypesCorrect`, `BackendTypeOK`.

`FileTransferProofs`, all from `FileInv` (`TransferInvariant`), which says of
each transfer what its handler, exec and helper know of one another: the helper
of an upload has copied a prefix of the body, has published only what matched the
declared content, and says OK only after the rename and a validation error only
when it ends without one; a download has copied a prefix of a published file, and
its marker describes the whole. `AcknowledgedIsStored`, `RejectedIsGone`,
`ReplacedIsWhole` and `DownloadsAreIntact` are read from it. A step of one
transfer is shown to leave the others' part alone once, by frame lemmas for
handler steps and for helper steps. `TransfersImplementManager` maps every step to
`TransferManager!Next` or a stutter, and `TransfersStayWithinLimits` and
`StoppedTransfersAreCancelled` carry that module's theorems over.

`RegistryProofs`, from `IInv` (`RegistryInvariant`). Its parts say that
generations and credentials come from counters, so that nothing a slow goroutine
remembers can be a later registration (`OldRefs`, `OldCreds`); that what a request
has read of a registration still holds while that one is in force
(`ExposureCurrent`); that a consumed capability belongs to one goroutine or one
exchange (`Consumed`); that timers, callbacks and lookups revoke only what has
expired (`RevokesExpired`); and that what was registered when Close began is
on someone's list (`CloseCovers`). `CapabilitiesSingleUse`, `AuthorityLive`,
`SessionsBound`, `ConnectionsFound`, `SlotsExact`, `CloseEmpties` and the action
property `EndsOnlyForCause` follow.

`CommandManagerProofs`, from an `IInv` (`ManagerInvariant`) built on ownership: a
command belongs to the handler that starts it until its child runs, and to its
collect goroutine from then on, which keeps it until nobody has its outputs open; what an owner does to memory, disk, spool and
pipe advances in a fixed order, and an ID that was never drawn has left no
trace. A crash takes the owners away and leaves what `load` rebuilds the two maps
from. `OneChildPerRequest`, `TerminalDurable`, `OutputIsComplete`, `CursorsValid`
and `WakeupsReach` follow. `SpoolsAreLogs` says that each command's spool is an
`EventLog`; its invariant `Clean` adds that a spool with half a record at its end
has no appender, because collect gave it up for good, or died.

`SupervisorServerProofs` puts clients, and then the server, on top of the manager.
- `ControlIsInvisible`: `ControlSpec`, the manager with Signal, KillAll, Stdin and
  CloseStdin in any interleaving with Start, Wait, collect, crashes and recovery,
  implements `CommandManager!Spec`. A signal that hits is the child dying, all
  else is silent. The mapping needs `HandlersInv`: a handler at rest has no call,
  nobody is at work in a supervisor that is not up, and a child whose running
  record could not be persisted is in the hands of one handler.
- `ManagerUnderClients` instantiates the manager's theorems with that mapping, so
  that `AtMostOnce`, `TerminalIsDurable`, `OutputComplete`, `CursorsStayValid` and
  `NoLostWakeup` hold however clients signal and write.
- `KillAllReachesAll`, from `HuntInv`: a record settles only once its child is
  dead, and a command a KillAll has to reach is on its list or dead, unless one of
  its signals failed.
- Behind the server: its first state, where every command already runs, has the
  same invariants, and each step of a connection, a watcher or the shutdown is one
  of the manager with its clients or touches neither. `ServerTakesManagerSteps`
  (`ManagerSteps`), `ManagerBehindServer` and `KillAllIsComplete` follow.
- `SlotsAreHeld`, whose invariant adds that the set of served connections is finite.

`SandboxClientProofs`: `EndingsAreTrue`, since the leader of a transition has seen
the lease end before it says so, and `TraversalsAreComplete`: after each page the
leases given are exactly the wanted ones up to the key where the cursor stands,
out of the snapshot and the instant the traversal began with; a page and the
rest are disjoint because the API server lists in the order of keys.

`SpoolProofs`, from `SpoolInv` (`SpoolInvariant`): `BudgetIsKept`, `NewestStay`
and `RecoverableAlways`. The invariant describes each step of an append by the
room that is left and by which segment is whole. That the sizes add up is proved
without an induction rule: of the sums that were wrong there would be a first
(`LeastOf`). Eviction leaves the newest segment because two segments fit in the
budget. `SpoolIsALog` maps every step to `EventLog`: a completed write is Append,
also when the writer is told of an error; an interruption is Append, Interrupted
or nothing, by the bytes that got there; a removed segment is Drop; readEvents is
Read or nothing; the rest is silent. `LogsAreRuns` says what that is worth: the
events of such a log are one unbroken run up to its newest.

The proofs rest on the assumptions the modules name, which TLC evaluates in the
runs: `LimitsAssumption`, those of `LeaseBackend`, `FileAssumption`,
`RegistryAssumption`, `ManagerAssumption`, `ServerAssumption`, `ClientAssumption`
and `SpoolAssumption`. They fix types, say that limits and lifetimes are not zero,
keep the placeholder `None` and the timers' name apart from real values, say that
leases and handlers are finite in number where something is counted, and relate
the spool's sizes as the code's constants do (8 MiB of segments of 256 KiB, every
record smaller than one). `ServerAssumption` also asks for at least as many
requestIds as commands and for a command specification, for every command is
running at the beginning, each started by a requestId of its own.

Only model-checked: the liveness properties (`ExpiredAreDeleted`,
`AcquireIsServed`, `ConnectionsEnd`, `NoneDetached`, `ShutdownEnds`, `StdinEnds`,
`PagersEnd`, `JoinersReturn`), which are outside the prover's reach, and
`CollectGoesOn`, which is stated with ENABLED.

## Not modelled

- Ready, token verification, HTTP routing, configuration: no state of their own,
  or data only.
- The Go SDK's Acquire, Connect, Refresh, Run and file calls: one request each.
  Acquire's retries with one key are those of `LeaseBackend`'s callers.
- The Python and TypeScript SDKs and the legacy JavaScript control plane: other
  implementations of interfaces whose Go version is modelled.
- Process IDs: a signal sent after its process group was reaped.
- Platform gate, Pi extension, examples, images, Helm chart, scripts: test
  drivers, adapters and configuration.

## Plan

1. Done: `TransferManager`, `LeaseBackend`, `LeaseService` with their proofs,
   `FileTransfer`, `Registry`, `CommandManager`, `CommandControl`, `Spool`,
   `EventLog`, `SupervisorServer`, `SandboxClient`.
2. Proved: every safety invariant, action property and refinement of the runs but
   `CollectGoesOn`; the manager under its clients and behind its server; that the
   spool, in files and in the manager, is one event log.
3. Open: the SDK's verified download as the client of `FileTransfer`; the list of
   events that Connect returns, of which only the cursor is modelled.

To run: `tlc -config X.cfg M` for a run's configuration and module,
`tlapm M.tla` for a proof module.
