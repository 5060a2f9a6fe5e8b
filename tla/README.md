# Verification of agentic-driver

`agentic-driver` is a Go library that drives coding-agent CLIs without a
terminal. The root package owns the **process** (argument vector, environment,
pipes, timeouts, the end of a run); a **provider** package (`claudecode`,
`codex`) owns the **dialect** (flags, event schema, credentials) and, when it
vendors its CLI, the **installer** that downloads, verifies, publishes and
prunes versions on disk.

This directory holds TLA+ models of the parts of the library whose
correctness depends on an order of events, the TLC configurations that check
them, and TLAPS proofs of what matters most.

## 1. Inventory

| Component | State | Operations | Hard because |
|---|---|---|---|
| `Driver.Stream`, `streamEnd` (`stream.go`) | contexts, the child, the scanner, `decodeErr`, `reaped`, the decoder's fold | start, scan, yield, wait, judge | four parties interleave: iterator and caller's loop body, CLI and its descendants, contexts, the `os/exec` watcher |
| process control (`driver.go` `command`, `process_unix.go`) | process group, `WaitDelay` | kill the group, close held pipes after `killGrace` | descendants that escape the group and hold some of the pipes |
| `Driver.Run` (`driver.go`) | none | fold the sequence | relies on Stream's contract |
| request gate (`driver.go` `prepare`, `checkSchema`) | none | refuse what the provider cannot honour, settle the model | a dropped restriction fails silently |
| environment (`env.go`), redaction (`redact.go`), bounded stderr (`stream.go`) | none / a buffer | build, scrub, redact, truncate | allow and deny lists meet; buffer at its limit |
| codex installer, flights (`codex/install.go` `Install`, `run`, `leave`, `forget`) | `inflight` map, `install{done, waiters, cancel, result}` | join, give up, cancel, forget, publish | callers come and go while a download that belongs to all of them runs |
| codex installer, disk (`installOnce`, `sweepStaging`, `Prune`) | `<root>/<version>`, staging directories | stage, fetch, extract, flush, rename, sweep, retain | several processes share the root; processes die; power fails |
| codex release client (`codex/release.go`) | none | fetch and check the digest, extract | size budgets, archive entries |
| Claude Code installer and release client (`claudecode/install.go`, `release.go`, `openpgp.go`) | as above, one file per version | manifest, signature, download, publish, prune | as above, with no staging sweep |
| decoders (`codex/parse.go`, `claudecode/parse.go`) | the fold of one run | decode a line, result | order of lines; verdict, outage and block must not be confused |
| dialects (`codex/provider.go`, `claudecode/provider.go`) | codex: schema files on disk | arguments, permissions, tool patterns, schema publication | concurrent publication of one file |
| interfaces, errors, model aliases, ownership checks, fake CLI | none | declarations, lookups | - |

How they interact: a caller holds a `Driver`; `Run` ranges over `Stream`; Stream
asks the provider for an invocation and a decoder, runs the child, feeds the
decoder line by line and turns what it knows at the end into one verdict.
`Driver.Install` and `Prune` delegate to the provider's installer. Calls of
`Install` in one process meet in the `inflight` map; processes meet only in
the file system.

What makes each correct, in one line: a run yields events and then exactly one
end, the right one, and leaves no process behind; an installer never downloads
one version twice for callers that want it and never hands one caller another
caller's cancellation; a published version is complete and durable, and
retention removes only what it was told it may. PROJECT.json lists the hazards
one by one, each at its line with the properties that would catch it.

## 2. Modules

| Module | Models | Kind |
|---|---|---|
| `InstallFlight` | `Installer.Install`, `run`, `leave`, `forget` and the ways `installOnce` can end | state machine, inductive invariant, liveness |
| `VersionStore` | codex `installOnce`, `sweepStaging`, `Prune` on a shared disk, with crashes, power cuts and a clock | state machine |
| `RunContract` | what a caller of `Stream` may observe | abstract specification |
| `Stream` | the iterator, `streamEnd`, the CLI, a descendant, the contexts, `os/exec` | state machine, refines `RunContract` |
| `SchemaPublish` | `SchemaArgs`, `schemaDir`, `publish`: one schema file shared by goroutines, processes and other programs | state machine with faults |
| `PackageExtract` | codex `Fetch`, `extract`, `writeFile` over every archive of a bounded length | state machine over inputs |
| `SignedInstall` | Claude Code's release client, the detached signature, `installOnce`, `Prune`, with crashes and power cuts | state machine with faults |
| `RequestGate` | `New`, `prepare`, `checkSchema`, the arguments of both dialects, tool patterns, `buildEnv` | flow over inputs, operators |
| `RunVerdict` | both decoders as folds over the lines of a run, and what `Driver.Run` makes of them | flow over inputs, operators |
| `InstallFlightProofs`, `VersionStoreProofs`, `StreamProofs`, `SchemaPublishProofs`, `PackageExtractProofs`, `SignedInstallProofs`, `RequestGateProofs`, `RunVerdictProofs` | - | TLAPS proofs about the module of that name |
| `MCInstallFlight`, `MCVersionStore`, `MCStream`, `MCSchemaPublish`, `MCPackageExtract`, `MCSignedInstall`, `MCRequestGate`, `MCRunVerdict` | constants and symmetry for TLC | model-checking instances |

How they divide the system: `RequestGate` ends where a process is started, `Stream` runs
from there to the end of the iteration, `RunVerdict` says what the lines that
`Stream` delivers amount to. On the other side `InstallFlight` has `installOnce` as
one step that ends somehow, and `VersionStore` (codex) and `SignedInstall` (Claude
Code) open it up; `PackageExtract` opens up the steps `Extracts` of
`VersionStore`. `SchemaPublish` stands beside them: it is the only place where a run
itself writes to a directory that others share.

Definitions whose comment starts with "Bug:" are not part of a specification. Each
stands before the definition it is a wrong version of and says which mistake it
makes; replacing the one by the other makes TLC find the property broken, which
shows that the property depends on that line of the code.

### InstallFlight

A caller is one call of `Install`. The `install` struct is named after the call
that allocated it, so `stage[f]`, `waiters[f]`, `cancelled[f]` and `outcome[f]`
are the goroutine `run` and the fields of the struct. `Installer.mu` makes each
critical section one action: `Start` and `Join` (lines 267-280), `Leave`
(323-329), `Forget` (345-349). What happens outside the lock is a step of its own:
`CancelFlight` comes after `Leave` has released the lock, `Publish` (store the
result, close `done`) after `Forget`. `Served` and `GiveUp` are the two arms of
the `select`, which picks either when both are ready. The claudecode installer
has the same code (`claudecode/install.go:227-316`).

Cancellation is cooperative: only the download looks at its context
(`FetchCancelled`), and it may also succeed or fail just after it was cancelled.

### VersionStore

A tree is the set of its `Parts` that are there: the binary, and everything else.
`<root>/<version>` (`disk`) and the staged tree of each process (`tree`) hold a set of
parts, or `None` where there is no directory; `usable` sees only the binary. Each system
call that others can observe is one action: the presence check with the making of the
staging directory, the download, each part that `extract` writes, the flush, the rename
(or the collision), the flush of the root; for `Prune` the two directory listings, each
unlinking inside `RemoveAll`, the final `rmdir`.

The sweep of a process runs beside the work of all the others. `Looks` is the look at one
entry's age; `Loots` is the `RemoveAll` that follows, a part at a time and then the
directories, whatever the owner does meanwhile; `Drops` is its end, with an error or with
nothing left. Between any two of them the owner may stamp its directory
(`Swept`, `Fetched`) or write into it. `Extracts` makes every directory that is missing
on its way, as `MkdirAll` does (`codex/release.go:296, 332`), the staging directory included, so
an extraction goes on after a sweep has passed and ends with what it has written since.
If the tree is published while a sweep is at work in it, `TreeMoves` lets the sweep have it
open, and `Gnaws` goes on removing what is in it under its new name. `robbed` and
`tainted` are histories: the directory a process has now was taken by a sweep; a
version was published from such a directory.

Durability is two bits per version: `solid`, its contents are on the device, and
`settled`, its entry is. `PowerCut` stops everybody and lets an unsettled entry
be lost, or survive with contents that were never flushed, or a removal be
undone in part (`AfterCut`). `Crash` stops one process and leaves its staging
directory, which only the sweep can reclaim (`SweepsOrphans`). A `Prune` may fail at its
second listing. Time is a tick that ages staging directories and extractions; `age` is
the directory's mtime, which what is created or removed directly in it renews.

The provider passes the version it would execute to `Prune` as protected, so
`PinOf[p]` is part of the model of a process.

### RunContract and Stream

`RunContract` is the caller's view: events, then one end, which is the answer
(an outcome was read and the caller is there), "you went away", "unreadable",
"no answer", or the caller's own break. `Stream` maps its twenty-two variables
onto those four and every step is a step of the contract or a stutter (`KeepsContract`): TLC
checks it, and `StreamProofs` proves it.

A line of output is what decoding it does: yield an event, nothing, the terminal
outcome, an error, or exceed `maxEventLine`. A line is written in two steps, so a
kill can cut it, and `bufio.Scanner` then hands over the cut line at the end of
the input. The pipe holds `PipeCap` lines before the CLI blocks. `Kill` is the
watcher goroutine of `os/exec` calling `cmd.Cancel`; `GraceCloses` is the close of
held pipes `WaitDelay` later; `WaitReturns` and `DeferredWaitReturns` are the two
places that reap. `streamEnd` reads the caller's context and the derived one at
two instants, so it is two actions, `Judges` and `Explains`.

`os/exec` and the CLI are not in this repository; they are modelled from how the
code relies on them. `os/exec` copies stdin and stderr on goroutines of its own and only
while one of these is running does it close pipes, all of them, when the grace is over;
stdout is a `StdoutPipe`, which the iterator scans itself. A descendant inherits stdout,
a copied pipe, or both (`holds`), and `GraceCloses` needs one that holds a copied pipe.
A descendant outside the group that keeps stdout alone (`Holdout`) is out of reach of the
kill and of the grace: the run `stream_endless` is about it.

### SchemaPublish

`SchemaArgs` gives a run the path of a file whose name is the digest of the schema,
so all runs of an account that ask for one schema share one file; different schemas
have different files and locks, and one is modelled. A run is one call of
`SchemaArgs`; `ProviderOf` says of which provider value, and `ProcOf` in which process that
value lives. The `sync.Map` of locks is a field of the provider value
(`codex/provider.go:66`), so the runs of one value exclude each other and those of two values,
in one process or in two, do not. `gate` is its entry, loaded in `Begins` and stored by `LoadOrStore` in `Stores`; `lock` is the
mutex a run got from it. `MkdirAll`, the `Lstat` of the directory, the `Lstat` of the file,
the read, `RemoveAll`, the temporary file, the write and the rename are one action
each, because another process can act between any two. Any of them can fail
(`Fails`), after which the deferred functions run (`Returns`).

Around the runs: another account can make the directory first and then does what it
likes in it (`Stranger`); the account itself, or a sweeper of the temporary directory,
takes or replaces the file or the directory (`Meddles`); a process dies (`Crash`); and
since nothing in this code is flushed, a power cut may lose the file or leave it
torn (`PowerCut`). `disturbed`, `stripped`, `losses` and `published` are histories.

### PackageExtract

An archive is a sequence of headers: a name, a kind, a size and an execute bit. A
name is its components, so `path.Clean`, the check for an absolute or rising name,
the prefix `package/vendor` and the target triple are modelled by what they do to
components (`Way` follows a name a component at a time, `Clean` is where it ends; `Outside`,
`InTarget`, `Target`, `Inner`). `Escapes`, which a property uses, says the same of a name in
another way: it counts rises and falls and never cleans. `Entry` is one turn of the
loop of `extract`; `MakesDir` and `Writes` are its two ways to touch the disk, with
`O_EXCL` (the path is new), the budget charged before the write, and `MkdirAll` refusing to
make a directory where a file is. An entry may also fail half way, after which the
caller removes the staging directory, so what was written in part is left out.
`Serves` is `Fetch`: all bytes are hashed before the first header is read. What is outside
`package/vendor/`, and what names a directory right below it and no more, is skipped before
its target and its kind are looked at, so `OnlyTheExpectedShape` speaks of the entries below a
target's directory.

### SignedInstall

Trust first: `ReleaseKey` is `parsePublicKey` and the fingerprint (one primary key, and
that one, whatever subkeys follow); `Verified` is `verifyDetached` with the packets of the
signature, its hashed subpackets (the later of two wins, a critical one that is not
understood spoils it), issuer, creation and expiry. What RSA and SHA-512 decide is
one fact: a signature is over a document and by a key, and the release key signed only
what was released. `Trusts` adds that the manifest is of the version asked for, which
is what stops an old one from being replayed.

Then the disk: `<root>/<version>` is absent, empty or holds one file, which is some
build or one cut short. `disk` is what is there and `device` the set of what a power cut
may leave, so that a flush is a step that makes `device` smaller. `Unlinks` and `Removes` are
the two steps of `RemoveAll` others can observe. `Install`, `run`, `leave` and `forget` are
codex's code again and stand under `InstallFlight`.

### RequestGate

One behaviour is one request: `New`, `Prepare`, `StreamCommand`, `Spawn`, each with its
refusals. The capabilities of a provider (which optional interfaces it implements)
are a set; the dialect "other" has the mandatory interface only and ignores every
optional field, which is the case the gate exists for. An argument vector is the
function from fields to what they are rendered as. A tool pattern is spelt
character by character, because `checkToolPattern` is about characters; `Reading` is the
rule the CLI splits a list by, which `claudecode/provider.go:392-407` describes, and
`CLIReads` what it has at the end.
The environment is a function from variables to values; where two assignments meet,
`Over` keeps the later one, as `os/exec` does. Of the many variables that reroute a
credential two per dialect stand for all. `HomeOf` is `WithHome` or, by default, the HOME that
`New` read from the calling process; the parent's environment is taken not to change
between `New` and the start of the child. `Profile` is where the CLI then looks for its
configuration and its session: the variable of its dialect, or else HOME.

### RunVerdict

Both decoders are folds: `CodexFold` and `ClaudeFold` are their `Decode`, `CodexEvents` and
`ClaudeEvents` what a watcher is shown, `CodexResult` and `Parse` the result, `Ends` the
requirement of `Driver.Run` that a result needs an outcome. A text is one of a few that
the code tells apart: empty, JSON `null`, prose, a document. The usage map of Claude Code
is ranged over in every order (`SetToSeqs`), as Go may; `Leader` is who leads after so
many of its entries.

## 3. Runs

| Run | Bounds | Checks |
|---|---|---|
| `flight` | 3 calls, 2 pinned versions and 1 refused, symmetric | `TypeOK`, `SingleFlight`, `NoForeignCancellation`, `JoinableIsAlive`, `OnlyItsOwnEntry` |
| `flight_live` | 2 calls | `GivingUpReturns`, `AbandonedStops` |
| `stream` | pipe of 2, 3 lines | `TypeOK`, `ReapedOnce`, `NoAnswerLost`, `OnlyItsOwnDeathIsBlamed`, refinement of `RunContract` (`KeepsContract`), `OverdueEnds`, `AbandonedEnds` |
| `store` | 2 processes, 2 versions, keep 0 or 1, 1 fault, lifetime 1, 1 tick, symmetric | `TypeOK`, `DamageHasACause`, `PinStays`, `BlockedOnlyByDebris`, `LiveIsSpared` |
| `schema` | 3 runs of 2 provider values in 2 processes, 1 interference, crash or power cut; the other account without bound | `ToldHolds`, `WorkDoneOnce`, `NeverHalfWritten` |
| `extract` | 3 headers, 16 names, sizes 1 and 2 against a budget of 3 | `Confined`, `WithinBudget`, `Faithful`, `OnlyTheExpectedShape` |
| `signed` | 2 processes with one pin, 2 versions, keep 0 or 1, 2 crashes or power cuts, 5 key blocks, 7 manifests, 8 subpacket areas, 2 times | `Authentic`, `PinStays`, `BlockedByARemoval`, `PruneLeavesSome` |
| `gate` | every combination of 9 fields, tool patterns of up to 4 characters out of 6, 19 drivers, 2 parent environments | `NothingDropped`, `ReadAsWritten`, `CredentialStands`, `NominationStands` |
| `verdict` | 3 lines | `AnswersInShape`, `BlockedIsRefused`, `FailureSpeaks`, `LastWord`, `MainModel` |
| `stream_endless`, `schema_peers`, `gate_patterns` | pipe and line of 1; as `schema`; as `gate` | one violated claim each, see below |

Why the bounds are enough to be interesting. *Flight*: three calls are needed for a
flight that is abandoned, its successor, and a third call that would be misled by
a wrong eviction; two versions let flights coexist. *Stream*: three lines allow an
event, an outcome and something bad after it; a pipe of two lets the CLI run ahead
and still block. *Store*: two processes race, prune under each other and are hit by a
fault at every point; one tick is a lifetime, so a directory that is old when it is looked at
is stamped, extracted into, published or left behind by a crash while it is removed
(3.8 million states; a second tick is beyond the time of a run, and the theorems
need none). *Schema*: two goroutines that share a provider value contend for its lock and
the third run, of another value, races with both; two values in one process differ
from that only in dying together; the interference may come anywhere, also before the first run starts.
*Extract*: three headers allow the binary and two entries that collide, exceed what
is left of the budget together, or name two targets; the names cover every rise
and fall around the vendor directory. *Signed*: one fault spoils what the first
install published and a second one what repaired it. *Gate*: four characters are one more
than the shortest entry whose parentheses balance only because their count went
below zero. *Verdict*: three lines allow an answer, a failure and a completion in every
order. Where a theorem below states the property, the bound does not matter.

Deadlock is checked except in `extract`, `gate`, `verdict` and the violation run of the
gate: there a behaviour is one archive, one request or one run, and ends. In the
other modules that end, `Quiet` and `Over` are the states in which all modelled calls
are over; nothing else may stop.

The inductive invariants of the proofs (`IInv`, `StreamInv`, `StoreInv`, `PublishInv` and so
on) imply the properties and are proved, so no run repeats them.

### Fairness

*InstallFlight*: a runnable goroutine is scheduled (`Served \/ GiveUp`, `Leave`,
`CancelFlight`, the steps of `run`), and a cancelled HTTP download notices its
context. Nothing makes a download end on its own, and no caller is made to call
or to give up. *Stream*: the driver's goroutine runs, the caller's loop body
returns, the kill is delivered and the grace passes. Nothing is
assumed of the CLI, its descendant, the caller's context or the timeout, so
`OverdueEnds` and `AbandonedEnds` hold of a CLI that does whatever it likes. The grace is
taken to pass only where `os/exec` acts on it, with a copied pipe held. `OverdueEnds`
therefore excepts the run whose stdout is kept by a descendant outside the group that
keeps nothing else; every other run ends, because `context.WithTimeout` gives it a deadline
(`defaultTimeout`). The other modules
state safety only: their steps are system calls that return or fail, and nothing in
them waits for anything but a mutex held over such calls.

### Where the code does not do what its words say

Each of these is a run with `expect: violation` and a finding in PROJECT.json.

| Run | What happens |
|---|---|
| `schema_peers` | A process that saw a link or a directory under the schema's name calls `RemoveAll` on what is there by then, which may be the schema another process has just published and handed to a run (`codex/provider.go:480`; `:60-63` says concurrent publication converges between processes too). The next run repairs it. |
| `gate_patterns` | `checkToolPattern` lets its depth go below zero, so whitespace outside parentheses passes in an entry that closes one before it opens one (`claudecode/provider.go:428`); the CLI then reads two entries. |
| `stream_endless` | A descendant outside the group that holds stdout and no copied pipe keeps the scan blocked past the deadline, for `os/exec` closes nothing (`driver.go:475`); `stream.go:20` says that the sequence always ends, `driver.go:17-19` and `:462-464` that the grace bounds stdout. |

Found while modelling, and stated as exceptions of the properties rather than by a run of
their own:

- A caller that cancels between the two context reads of `streamEnd` (`stream.go:163, 170`) is
  told the CLI timed out, although `driver_test.go:184` warns of exactly that. The contract
  therefore leaves open which failure a run without an answer ends in.
- A published tree need not be complete, as `codex/install.go:57-60` says it is: `MkdirAll` for
  each entry (`codex/release.go:296, 332`) recreates what another process's sweep removes of a
  staging directory, and a tree that misses the rest is renamed and reported as installed; a
  sweep that has the tree open may also go on after the rename. It takes an extraction that
  lasts a day, or a download that did and a sweep that looked just before its end: the
  age is read (`codex/install.go:532-541`) before `RemoveAll` acts on it (`:544`), so the time
  before the extraction can count after all (`:28-34` says not). `DamageHasACause`, `PinStays`
  and `BlockedOnlyByDebris` exempt such versions (`tainted`), and `LiveIsSpared` is about the look.
- A link outside `package/vendor/`, or the bare directory of a second target, is passed over and
  the archive accepted (`codex/release.go:270-278`), although `:219-227` says that every such
  entry is refused and that exactly one target is required. Nothing of it is written.
- A decode error is reported before `streamEnd` is asked, so a malformed line after a
  complete outcome makes the run an outage (`stream.go:129`). An over-long line abandons
  stdout without the cancel that comes first elsewhere (`stream.go:123`), and the run ends
  at its timeout.
- Debris under the protected version is neither pruned nor installed over
  (`codex/install.go:436`); a version published between the two listings of `Prune` is removed
  although it is the newest (`:614`); a tree being removed is reported as present while its
  binary is still there (`:354`).
- A codex turn that fails and is then completed stays a failure.

## 4. Proofs

Every theorem holds for all values of the constants that satisfy the named
assumption of its module (`FlightAssumption`, `StreamAssumption`, `StoreAssumption`,
`SchemaAssumption`, `ExtractAssumption`, `SignedAssumption`, `GateAssumption`,
`VerdictAssumption`), which TLC evaluates on
the instances. The pattern is the same everywhere: an invariant that is inductive, one
lemma for each of its parts or each action, and the temporal theorems by PTL. Every
safety property and every action property of a passing run is a theorem.

Three modules need an induction over data as well: over the components of a name, the
files of a tree, the characters of a tool pattern, the entries of a list or a map. The induction theorems of the
library take a predicate as a parameter, which no installed prover can instantiate; but
`WFMin` of `WellFoundedInduction` takes a set. `Least` (a nonempty set of numbers has a least
element) follows from it, and from that `Inductive`: a set with 0 in it, and n + 1 whenever n
is, holds every number. Each induction names the set of the numbers up to which
its claim is true. The recursive functions are `CHOOSE`s by definition, so their
equations are proved too: that some function satisfies them is one such induction
(`WayExists`, `Recursion`), after which the `CHOOSE` has to be one.

### InstallFlight

| Theorem | States |
|---|---|
| `FlightInvariant` | `Spec => []IInv` |
| `FlightTypeCorrect` | `Spec => []TypeOK` |
| `FlightSingle` | `Spec => []SingleFlight` |
| `FlightNoForeignCancellation` | `Spec => []NoForeignCancellation` |
| `FlightJoinableIsAlive` | `Spec => []JoinableIsAlive` |
| `FlightOnlyItsOwnEntry` | `Spec => OnlyItsOwnEntry` |

`SingleFlight` is not inductive. `IInv` adds what the code relies on without saying:

- `CountExact`: `waiters[f]` is the number of calls on `f` that have not left. That is
  why `waiters == 0` means nobody is left, and why the count never goes below
  zero (`TypeOK`). It needs finite cardinalities, for which the library's
  `FiniteSetTheorems` are cited.
- `Boarded`: a call past the gate is on a flight that exists and is for its version.
- `WantedIsMapped` and `JoinableIsAlive`: the map and the wanted flights agree in both
  directions. Together they give `SingleFlight`: two wanted flights for one version
  are both the one in the map.
- `CancelledIsUnwanted` and `LeftOnItsOwn`: a cancelled flight has no callers, so nobody
  is served its cancellation; who was told "cancelled" left of its own accord.

### Stream

For every pipe that holds at least one line and any number of lines:

| Theorem | States |
|---|---|
| `StreamInvariant` | `Spec => []StreamInv` |
| `StreamTypeCorrect` | `Spec => []TypeOK` |
| `StreamReapedOnce` | `Spec => []ReapedOnce` |
| `StreamNoAnswerLost` | `Spec => []NoAnswerLost` |
| `StreamOnlyItsOwnDeathIsBlamed` | `Spec => []OnlyItsOwnDeathIsBlamed` |
| `StreamKeepsContract` | `Spec => KeepsContract` |

The strengthening `StreamInv` has four parts besides the types:

- `Reaping`: where the iterator is decides whether there is a child and how often it
  was waited for. This is what the flag `reaped` of the code stands for.
- `Accounted`: what was yielded, what is in the pipe and the line being written
  never exceed what the CLI wrote; a line begun has room in the pipe.
- `KillsOnPurpose`: a signal needs a context that is over, and a killed CLI needs a
  signal. With the order in which `streamEnd` asks its questions it gives
  `OnlyItsOwnDeathIsBlamed`.
- `Drained`: a scan that ended without an error left nothing in the pipe and nobody
  to write to it, which gives `NoAnswerLost`.

For `StreamKeepsContract`, `Ending` maps a verdict to an end of the contract. Every
action is either invisible there or one step of the contract; `StreamInv` is
needed where the contract has a guard: an abandoned loop has been given an event,
`FailUnanswered` has seen no outcome, nothing happens after the end.

### VersionStore

For any set of processes, any finite set of versions, any pins and retention counts,
any clock and any number of faults:

| Theorem | States |
|---|---|
| `StoreInvariant` | `Spec => []StoreInv` |
| `StoreTypeCorrect` | `Spec => []TypeOK` |
| `StoreDamageHasACause` | `Spec => []DamageHasACause` |
| `StorePinStays` | `Spec => []PinStays` |
| `StoreBlockedOnlyByDebris` | `Spec => []BlockedOnlyByDebris` |
| `StoreLiveIsSpared` | `Spec => LiveIsSpared` |

`DamageHasACause` and `PinStays` are not inductive: whether a tree is whole when it is
published depends on every sweep that passed while it was extracted, and whether a power
cut spoils it on what was flushed before. `PreyIsMarked` says that whatever a sweep has in
hand is marked `robbed` or, once published, `tainted`; `IntactUnlessRobbed` that an unmarked
tree is what `extract` has written so far, and all of it when it is published.
`OnlyRemovalUnsettles` says that, where neither a removal nor a sweep has passed, an
unflushed entry is of a whole tree whose contents were flushed before the rename;
`PinIsHeld` that a version everybody is pinned to is whole from its rename on and for
whoever was told it is present, and on the device from the flush of the root.
`SpentInTime` bounds the age of an extraction by the clock, for the types. The steps
that neither touch the disk nor tell anyone "blocked" are handled together
(`Harmless`); publishing, settling, removing and the power cut have a lemma each.

`LiveIsSpared` has an induction of its own, on top of the types: `StampedAnew`
says that a staging directory is never older than the extraction that fills it, because the
tree directory is made, and the staging one stamped, after the download, and one that
is recreated is new. A sweep that looks at it therefore finds a lifetime spent. It is about
the look and not about the removal, which comes later.

### SchemaPublish

| Theorem | States |
|---|---|
| `PublishInvariant` | `Spec => []PublishInv` |
| `TypeCorrect` | `Spec => []TypeOK` |
| `WhatWasToldHolds` | `Spec => []ToldHolds` |
| `EachProviderWorksOnce` | `Spec => []WorkDoneOnce` |
| `WholeUntilThePowerFails` | `Spec => NeverHalfWritten` |

`ToldHolds` rests on three facts of `PublishInv`. `DirHolds`: a run that nothing has
disturbed saw a directory only its account can write, and it still is, so no other
account can have touched the file. `OneAtATime`: the mutex keeps the runs of a provider value
apart, whoever stored it first. `ClearsForACause`: a run that is about to clear the name
saw an obstacle there, so if a run of its own provider value had been told the path, a run
of another value had taken the schema from it already. `LossesMadeGood` counts for `WorkDoneOnce`:
a run that is on its way to the rename has a loss that its provider value has not yet made good.

### PackageExtract

For any names, any sizes and an archive of any length:

| Theorem | States |
|---|---|
| `ExtractInvariant` | `Spec => []ExtractInv` |
| `TypeInvariant` | `Spec => []TypeOK` |
| `NothingEscapes` | `Spec => []Confined` |
| `TreeIsWithinBudget` | `Spec => []WithinBudget` |
| `AcceptedIsOnDisk` | `Spec => []Faithful` |
| `OnlyTheExpected` | `Spec => []OnlyTheExpectedShape` |

`ExtractInv` has two halves. `Tree` holds whatever the archive is: paths are `Level` (no
component of them goes up), and what is on disk is exactly what has been charged, `Total(files) =
MaxExtracted - budget`. That sum is a fold over a set that grows by one file at a time; `TotalAdds` is
what a file adds to it. `Accepted` holds as long as nothing was refused: the files are
those of the headers so far, each once, none of them a link or of another target.

What a name can do is `WayClimbs`: on the way through a name, the components of the path so
far that are ".." all stand at its head, and of a relative name their number never shrinks
(`UpStaysUp`) and the depth goes by what each component is worth. So a cleaned name whose
first component is not ".." has none (`InsideIsLevel`, for `Confined`), and one that rose
above its start at any point has ".." first (`EscapesAreOutside`, for `OnlyTheExpectedShape`).

### SignedInstall

| Theorem | States |
|---|---|
| `SignedInvariant` | `Spec => []SignedInv` |
| `TypeCorrect` | `Spec => []TypeOK` |
| `OnlyTheReleaseRuns` | `Spec => []Authentic` |
| `PinsStay` | `Spec => []PinStays` |
| `OnlyRemovalsBlock` | `Spec => []BlockedByARemoval` |
| `PrunesLeaveSome` | `Spec => []PruneLeavesSome` |

`Authentic` follows a build from the server to the disk: `Trusting` (a manifest that is
vouched for was released, and is of the version asked for), `Sealed` (from the end of the
download on, what is staged is that version's build), `Genuine` (no power cut can find
anything else under the version's name, and an empty directory only where a removal
has begun). `MetSomething` is what `colliding` remembers, and with `Genuine` it says who can be
blocked. `PinHeld` is the counterpart of `VersionStore`'s `PinIsHeld`.

`PruneLeavesSome` is not inductive either: nothing in it says why the version that can be
run now will not be the next to go. `SomeIsSpared` names one that the only Prune at work has
among those it keeps, before it has listed the others, and not among those it removes, after. That there is
one among the newest, however few are kept, is `TheNewestIsAmongThem`: of the finite sets of
what is newer than a version the smallest is empty.

### RequestGate

| Theorem | States |
|---|---|
| `GateInvariant` | `Spec => []GateInv` |
| `ProcessHasAllThatWasAsked` | `Spec => []NothingDropped` |
| `ToolListsAreReadAsWritten` | `Spec => []ReadAsWritten` |
| `IsolatedCredentialStands` | `Spec => []CredentialStands` |
| `NominatedProfileStands` | `Spec => []NominationStands` |

`GateInv` carries what one step found out to the next: what was let through lacks
nothing (`LetThrough`), the arguments are the whole rendering of a request the dialect
can express (`Rendered`), the environment is the one that was built (`Environed`), and of an
isolated one the token and what it can have inherited are known (`Isolates`). The lemmas
`OnlyHomeInherited` and `NominationIsBuilt` are the case analysis over the layers of the
environment, for any home, given or taken from the calling process, and the lemma
`WhatIsAskedIsRendered` is the case analysis over fields and dialects.

For tool lists, of any length and over any characters: `ReadsOn` (a longer text is read as
the text and then the rest), `EntryIsRead` (an accepted entry ends nowhere before its
end, by induction over its characters: the CLI's count of open parentheses is the
check's depth, because where the entry is steady neither goes below zero), `JoinedIsRead` (so
each comma of the joined list ends one entry, by induction over the entries). The
hypothesis `Steady` is needed: without it the run `gate_patterns` is the counterexample.

### RunVerdict

For any lines and any number of them:

| Theorem | States |
|---|---|
| `VerdictInvariant` | `Spec => []VerdictInv` |
| `AnswersAreInShape` | `Spec => []AnswersInShape` |
| `BlockedRunsAreRefused` | `Spec => []BlockedIsRefused` |
| `FailuresSpeak` | `Spec => []FailureSpeaks` |
| `LastWordIsLast` | `Spec => []LastWord` |
| `MainModelIsNamed` | `Spec => []MainModel` |

`VerdictInv` says where what a decoder holds was read. `CodexRead`: its text is that of the last
answer, which was shown; it is complete because a line ended the turn, and calls the run
blocked because one `Refuses`. `ClaudeRead`: it is the last envelope, parsed in some order of its
map and held to the shape. The two dialects hold an answer to the shape at
different moments: Claude Code's envelope as it is decoded, codex's text when the run is
over, so only for the one is it part of the invariant. `LeaderLeads` is the induction over the usage map:
the leader after n entries is one of them, and none of them beats it.

### Only model-checked

All liveness (`GivingUpReturns`, `AbandonedStops`, `OverdueEnds`, `AbandonedEnds`): fairness is
outside what the proof system can do.

## 5. Not modelled, and why

- The byte formats: OpenPGP packets and armour, RSA and SHA, gzip and tar framing, JSON
  and the regular expression over codex's prose. Each is a predicate or a step that can
  fail; what is decided with what they yield is modelled.
- `redact.go` and the bounded stderr buffer: functions of their input that only word
  errors, with no order of events in them.
- The wording and the order of flags, and the interface declarations.
- Platforms other than unix, where `killWholeGroup` does nothing and the ownership checks
  are empty.
- `agentictest`, which is test support.
- `syncDir` is skipped by a process that loses the race to publish, or finds the version
  there, and reports "present": a power cut may take the version back then, so `PinStays`
  holds it for such a process only as long as that runs.
- What a CLI makes of the profile it finds: that a session in a nominated `CODEX_HOME` outranks
  the token (`codex/provider.go:119-124`) is the CLI's doing, and the caller's to avoid.
- `os.Rename` onto an empty directory: in both stores a rename takes effect only where
  nothing is, which is what Go's `os.Rename` does for directories on unix; the
  comment at `codex/install.go:427` expects it to replace an empty one.
- Claude Code's staging directories of processes that died: nothing in that installer looks
  at them again, so there is no state to follow.
- A request that reaches a dialect's `StreamCommand` without the driver: codex lets a session
  and a roster go there, which `NothingDropped` does not speak of.

## 6. What is left

1. The composition of flights and store: `installOnce` of `InstallFlight` refined by the steps
   of `VersionStore`, so that "present" and "installed" of one process's calls are those of
   the disk.
2. A composition of `Stream` and `RunVerdict`: the lines of the one decoded by the other, with
   the end of the run judged on both.
