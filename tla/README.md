# TLA+ models of the R4OS SDK

This directory holds TLA+ specifications of the parts of the R4OS SDK whose
correctness depends on interleaving, crashes and partial failure, the TLC
configurations that check them on small instances, and TLAPS proofs of the
properties that matter most for instances of any size.

Paths below are relative to the repository; `r4os/...` is `src/r4os/...`.

## 1. The system

The SDK is the user-side runtime of R4OS programs: a Zig library with C and Rust
projections over kernel call tables.  Most of it is sequential (parsers, layout,
typed views of kernel handles).  The parts with state that several actors share,
or that has to survive a crash, are these.

| Component | State | Operations | Hard behaviour |
|---|---|---|---|
| Heap runtime, `r4os/heap_runtime.zig` | one word `phase`, one counter `calls`, the bound owner | bind, alloc, free, realloc, stats, finish | lock-free admission racing with teardown; a teardown that fails halfway |
| Allocator waiting, `r4os/vm_allocator.zig`, `r4os/allocator_wait.zig` | the allocator lock, the VM operation token, two notification channels | acquire, release, begin/end VM operation, wait, enroll, observe, notify, prune | lost wakeups, notifications created and closed on the fly, a lock given up in the middle of an operation |
| Update journal and lease, `r4os/system_update_engine.zig`, `r4os/system_update_recovery.zig` | two journal files, the lease file | look up, take the lease, write with readback | torn writes, lying completions, two processes at once |
| Update transaction, same files | installed files, stage and backup files, journal | APPLY, RESUME, ROLLBACK-LAST, boot recovery | a crash or an error at any disk operation, errors after the effect, local edits |
| VM allocator regions, `r4os/vm_allocator.zig` | size-class regions, direct regions, cache, retirement queues | alloc, resize, free, trim, shutdown | kernel calls that fail in the middle of a change of region state |
| File names on the volume, `r4os/ntfs_volume.zig` | index entries, canonical names and the dirty bit, each cached by the device | replace, publish, rename, delete, create, recover | two publications of several requests each, any of which fails or loses its answer, and losses of power between write and flush |
| Restart batch, `r4os/system_update_batch.zig`, engine and recovery core | a batch record in two slots, the journal of its one transaction | STAGE, COMMIT, RESUME-BATCH, ROLLBACK-LAST, ABORT-BATCH, boot recovery | two journals that move one after the other; decisions from readings without the lease |
| Pending removal, `r4os/system_update_remove.zig` | a second two-slot journal, receipts, the application's file, `MODULES.JSON` with stage and backup | check, lease, execute, archive, wait, cancel | excludes updates while pending, over days and without the lease; repetition after an ambiguous answer; other tools edit the inventory meanwhile |
| Upload claim, `r4os/upload_publish_claim.zig` | a claim document | claim, publish, replay | lost answers, replay |
| Web jobs, `r4os/app_web_jobs.zig`, `r4os/web_runtime_jobs.zig`, parts of `web_runtime.zig` and `app_web.zig` | job slots with their buffers and threads, request states, document generation | prepare, start, service, collect, complete, deinit; queue, abort, navigate, close | callbacks on the stack of another thread, cancel between any two steps, scripts that run during a delivery |
| Document save, `r4os/document_save.zig` | a document and its private copy | save | errors after publication |
| Subsystem host, persistence, audio transport | guest state, a ring | event loop, save, mix | events against saves |
| Registry, catalogs, manifests, codecs | in-memory tables | parse, look up | sequential |
| Services, network, caches, queues, facades, web engine, GUI, bridges | handles and documents | thin wrappers, parsers, drawing | sequential, or in the kernel |

`PROJECT.json` lists every component with its sources and status.

### How they interact

* A program's heap calls go through `heap_runtime` into `vm_allocator`, which
  calls the kernel's `vm_*` functions with its lock given up, and its threads
  wait on `allocator_wait` channels.  `R4SdkHeapFinish` calls
  `vm_allocator.shutdown`; the admission protocol exists to keep every other
  call out of it.
* An update command takes the lease, reads the journal, and drives the
  transaction.  The journal is the only thing a later command, or the boot
  adapter, knows of an earlier one.  `system_update_recovery` is the replay core
  that the live engine and the boot adapter both instantiate with their own I/O.
* A batch collects restart packages; COMMIT binds them into one transaction whose journal
  is the only one that boot recovery knows.  After the restart RESUME-BATCH verifies the
  running kernel, writes the release marker, and gives the batch its verdict.
* The transaction changes files only through the kernel's checked primitives
  (`file_update_atomic_checked`, `file_update_cleanup_checked`), which verify
  size and checksum of every object under one file-system gate.  A replacement is two
  publications of names in `ntfs_volume`.
* A removal and an update exclude each other by reading each other's journal before and
  under the lease that both take; a removal that waits holds no lease.
* A web job's thread never touches the document.  It publishes a call and waits; the
  owner's thread, between its scripts, answers the call, joins the thread, and delivers
  the response to every request that shares the job.

### What makes each part correct

* Heap: teardown runs alone; the counter is exact; a heap that began teardown
  serves no new allocation; a phase never goes back to open.
* Waiting: one holder of lock and token; a ticket's notification stays alive;
  nobody sleeps without somebody who will wake it; every wait ends.
* Journal: what was acknowledged is never lost; two slots are never ambiguous;
  no command continues from a copy that another command has overtaken; together,
  the two files are one durable cell.
* Transaction: an update is installed whole or undone whole; the old contents
  can be recovered until it is undone; replay never conflicts with its own
  traces; foreign files are left alone; an applied update stays applied;
  every open update can be brought to an end.
* Batch: a batch under way has a transaction of its own, and an open transaction its batch;
  a verdict agrees with transaction and files; the release marker comes last and only
  under the new kernel; every batch gets a verdict.
* Names: no object loses its last durable name; the target is old, new, or absent with
  both at hand; repeating a replacement completes it; an answer of ok is durable.
* Removal: never pending next to an open update; a request deletes at most one
  installation; a gap between file and inventory is always on record; other entries are
  kept.
* Web jobs: no call runs on a frame that is gone; no buffer is freed under a thread; a
  request is fetched by one job and settled once; every target is authorized; every job
  ends.

## 2. The modules

| Module | Models | Lines of code it stands for |
|---|---|---|
| `HeapRuntime` | heap admission and teardown | `heap_runtime.zig`, `vm_allocator.shutdown` |
| `AllocatorWait` | lock, token, channels | `allocator_wait.zig`, the locking half of `vm_allocator.zig` |
| `UpdateJournal` | slots, lease, scans, writes | journal and lease functions of the engine |
| `DurableCell` | what the journal promises | abstract |
| `UpdateTransaction` | APPLY, RESUME, ROLLBACK-LAST, boot recovery | transaction functions of engine and recovery core |
| `AtomicFileSet` | what a transaction promises | abstract |
| `NtfsNames` | moves, creations and removals of names on a volume | name operations of `ntfs_volume.zig` |
| `AtomicReplace` | what a replacement promises | abstract |
| `RestartBatch` | restart batches, their two journals, boot recovery | `system_update_batch.zig`, batch functions of the engine, `resumeBatchForward`, `rollbackToTerminal`, `cleanupToTerminal` |
| `PendingRemoval` | removals and their exclusion of updates | `system_update_remove.zig`, lock functions of the engine |
| `WebJobs` | job threads, the requests they serve, the owner | `app_web_jobs.zig`, `web_runtime_jobs.zig`, request states of `web_runtime.zig`, the loop of `WebTransport.fetch` |
| `*Proofs` | theorems of the module they are named after | |
| `MC*` | constants and symmetry for TLC | |

Every definition that stands for code is listed in `PROJECT.json` under `map` with
its file and lines.  Definitions introduced by "A slip:" or "Faulty variant:" are not
part of a specification: each is the wrong version of the definition after it, and
replacing the right one by it makes TLC find a property violated; `mutants` in
`PROJECT.json` lists one for each property that a run checks.

### HeapRuntime

`phase` is the word of the code: 0 fresh, 1 binding, 2 open, 3 frees only, 4 one
thread has it to itself, 5 finished.  Every atomic access is one step: `EnterLoad`,
`EnterOwner`, `EnterCount`, `EnterRecheck` are the four accesses of `enter`;
`FinishClose` to `FinishSettle` those of `R4SdkHeapFinish`.  The bodies change `live`,
the number of blocks in use.  The count is taken with a checked addition that stops at
its bound; `MaxCalls` stands for it.  `torn` is a history variable: teardown has begun
to release regions.  The atomics of this file are read-modify-writes or loads around
one, which x86-64 executes in a single order; steps are therefore interleaved.

### AllocatorWait

A thread walks through `acquireAllocatorLock`, a body with the lock held, and
`releaseAllocatorLock`.  The body is reduced to what it does to lock and token: take a
fast path, publish a free (`PublishFree`), run a VM operation (`BeginVm`, any number
of `VmCall`/`VmReturn`, `EndVm`), or wait for another thread's (`WaitForVm`).  For each
channel the model has the fields of `Channel` (`active`, `handle`, `changing`,
`refs`); the channel's own spin lock makes each of its critical sections one step,
and creating and closing a notification, which happens outside of it, two.  A revision
number is reduced to whether it is still the newest: `current[t]` is the set of
channels whose newest revision `t` has observed, and notifying empties it.

`StoreBuffer = TRUE` lets the plain store that frees the lock stay in the processor's
store buffer (`pending`) while the thread goes on to load `active`.  Locked
instructions wait for the buffer (`~pending[t]` in their guards).

The kernel may refuse every call but notifying an open handle: creating, querying,
waiting and closing each have a failing action.

### UpdateJournal

One process per command.  `BeginApply`, `Preflight`, `TakeLease`, `Decide` are the steps
of an APPLY up to the moment its transaction starts; RESUME skips the preflight.
`Draft`, `StartWrite`, `FinishWrite`, `Readback` are `writeInactiveJournal`; a write may
be cut after the old content is gone (`Torn`), its error code is ignored, and only
the readback decides.  `End` is the death of the process at any point.  A record is its
generation and whether its phase is terminal.

### UpdateTransaction

A file is reduced to which content it has.  An index is a target path, and a package names
any set of them (`named`): `Payloads` are the paths it names, the loops of the code over its
payloads pass over the others (`Unnamed`).  `target[i]`, `stage[g][i]`, `backup[g][i]` are
the three names of path `i` in transaction `g`; `newest` is the journal on disk,
`mem` the running command's copy, `prior` the terminal predecessor that APPLY holds.
`pc` and `cursor` say where the command is.  One action is one disk operation with the
decision that follows it; `Persist` is a journal write as its caller sees it, with
both outcomes of a failure.  The exclusion of commands and the atomicity of the journal
are what `UpdateJournal` shows.

`Inherit` is `bindPreviousBackups`: a payload takes over the last-good copy that the newest
journal knows for its path, and only that journal is asked.  Updates of A, of B and of A again
therefore leave A's first copy in no journal; the code knows this as an `orphan from an ancient
transaction` (`system_update_engine.zig:3911`), and `ARCHIVE-BOOT-BACKUP` removes such copies.
`OrphansOnlyUnnamed` says that there is no other way: a copy the newest journal knows
stays known, through rollbacks, failures and resumed updates, until an update does not
name its path.

The inventory phase appends payload `N + 1`, `MODULES.JSON`, whose content is the old
inventory with the entries of the package changed.  `BootRecovery` follows the comment in
`system_update_recovery.zig` on single-package journals: rolled back unless applied.
`Crash` stops a command anywhere, and with `TornStage` leaves half a stage file.  `Edit` is
a change by somebody else; `touched` remembers which payloads were hit, because the
guarantees speak of the others.

`AtomicFileSet` says it in one sentence: the set of files a recovery would arrive at
changes as a whole, and so does the set that ROLLBACK-LAST would bring back.
`Recovered` and `LastGood` are the refinement mapping.

### RestartBatch

`slot` and `newest` are `BATCH0.JRN` and `BATCH1.JRN` and which of them counts; `txn` is the
transaction's newest journal, one cell, as `UpdateJournal` shows that it behaves like one.
A record and a transaction are told from later ones by `id`, which stands for the batch
generation as far as it decides anything.  `installed` is the set of payloads
whose target has the new content, `active` tells which kernel runs.  `lease` and `at` are the
holder of the update and its next step, `pc` and `seen` the commands that have only looked:
STAGE, APPLY and COMMIT read the transaction's journal before they have the lease, and
COMMIT verifies the packages of a snapshot.

`writeInactiveBatchJournal` is a batch record with its readback: acknowledged, or not, and
then the old record, the new one or neither is there.  `persist` is the same for the transaction.
COMMIT is `BeginCommit`, `LookCommit`, `TakeLease`, `commitBatchCommand`, `Plan`, `Progress`,
`Bind`, `Committing`; the actions from `Enter` to `UndoConflict` are the replay core, which COMMIT
and RESUME-BATCH (label `forward`), the release marker (`markForward`) and boot recovery
(`bootForward`, `bootUndo`) share.  `Boot` starts the kernel that is installed and runs
boot recovery before anything else; `Kill` ends one process.

### NtfsNames

A directory is a function from names to objects (an MFT record with its sequence number); a
record has a canonical name, or none when it is free.  Each device request is one step:
`Mark` and `MarkFlush` the bracket that sets the dirty bit, `Insert`, `Publish`, `Canon`,
`Detach`, `Settle`, `Free` the phases of a publication, `Drain`, `Clear`, `ClearFlush` its end.
`LookReplace` ... `LookRecover` are the decisions each call takes from the names it finds;
`FirstLegOpen` tells which leg of a replacement is still to do.

The device acknowledges writes before they are durable.  `mayIndex`, `mayCanon` and
`mayDirty` hold every content that a sector may have after a loss of power: a write adds to
the set, a flush reduces it to the current content.  `FailWrite` and
`FailWithoutEffect` are failed requests, with and without effect; `PowerLoss` picks any
content.  After a failure the call returns and may be made again.

Properties that speak of one replacement hold where only one is made: `OneMove` says that the
calls on the directory are that replacement, publications with its names and their repetitions, and
`Alone` that there are no other kinds of call.  Two replacements that share a name, one
interrupted and the other then made, undo each other's legs, and the code does not claim
otherwise; `NeverNameless` and `NoImageDangles` hold for them all the same.

`AtomicReplace` says it in one sentence: whole objects move, the old one from target to
backup and the new one from stage to target, in this order.

### PendingRemoval

A record is its generation, request, phase and the two inventory digests; the two slots may be
torn.  `at` is the holder's next step, and the actions from `Execute` to `Finish` are the
statements of `execute` and of `removeInventory` in their order.  `Persist` is `persist` with
its readback, `Archive` the receipt, `Delete` the conditional deletion with its ambiguous
error, `Replace` the replacement whose answer the code does not read.  It is two moves of a
name, as in `NtfsNames`: either may stop while a record has two names, of which one is its own
(`alias` is the other, and every ordinary lookup of it is an I/O error, which makes the removal
refuse; `lookupInDirectoryStatus` does not accept this half-state).  A repetition that reaches
`replaceFileAtomic` again completes the first move.  Whatever of a failed request a loss of power
would take back is taken back at the failure.  `RemoveCheck` to
`RemoveRecheck` and `UpdateSee` to `UpdateRecheck` are the readings before and
under the lease.  An update is reduced to what concerns a removal: it opens its journal,
may install the application, lists it, and closes the journal, or stops anywhere.
`Stop` kills any set of processes, `Edit` is the older administrator's tool that knows
the lease and not the record.

### WebJobs

`at[j]` is where a job's thread is in `entry` and `fetch`; `question`, `pending` and `answer`
are the invocation on its stack, the word that publishes it and what the owner has written
into it.  `owner` is what the owner's thread does; `Poll` and `Deinit` begin a round of
`service` and `collect`, `Answer`, `Join`, `Deliver`, `Release` are its parts.  `done` is set
before the thread exits, so there is a step between them in which a join times out.
`Deliver` takes the consumers one at a time; `Script` is what a delivery may let a script
do to the others.  The words that the two threads share are atomics with acquire and
release order of which each is written by one side at a time, so interleaving covers them.

## 3. The runs

| Run | Instance | Distinct states | Question |
|---|---|---|---|
| `heap` | 4 threads, 2 identities, 2 calls | 501,292 | teardown and admission |
| `journal` | 2 processes, 4 generations | 67,807 | one durable cell? |
| `txn` | 2 paths + inventory, 2 updates of any of them, a crash with a torn stage or an edit | 7,630,029 | whole or undone, refinement, foreign files |
| `liveness` | 2 paths + inventory, 3 updates of one path each, 1 crash | 853,054 | does every update end? which copies does the journal lose? |
| `waits` | 3 threads, 2 tickets, store buffers | 869,569 | exclusion, tickets, sleeping |
| `waits_live` | 2 threads, no store buffers | 32,230 | does every wait end? |
| `names` | 3 names, 3 objects, 8 directories, 3 workloads | 1,781,502 | names, replay, refinement |
| `batch` | 2 processes, 2 packages, 2 faults | 2,801,006 | do the two journals and the files agree? |
| `batch_live` | a process and one that stages, 2 packages, 1 fault | 246,706 | does every batch get a verdict? |
| `removal` | 2 processes, 3 requests, 2 installations, 2 edits, 2 faults | 1,030,897 | exclusion, deletion, inventory |
| `jobs` | 2 jobs, 2 requests, 1 navigation, 1 redirect | 567,832 | frames, buffers, delivery, end |
| `rename_alias` | the names of `names`, renames only | | finding 1 of section 6 |

Type invariants are in no run: they are proved for every instance (section 4).  So are
`CallsExact`, `NeverReopens`, `NeverAmbiguous`, `LockExclusive`, `SleepsForLock` and
`EveryHopAuthorized`.

### Why the bounds are enough

* `heap`: three threads of the owner are a finisher, a call that is inside and one that
  is at the recheck; the fourth has a foreign identity.  `MaxCalls = 2` makes the full
  counter reachable with a thread still to refuse.
* `journal`: two processes are the writer and the one that holds a stale scan.  Four
  generations use each slot twice and reach the exhausted counter.
* `txn`: two paths give every shape of a partly committed and partly restored package, and
  packages that name one of them or both; the inventory is a third.  I/O errors are not bounded: each operation may fail each
  time.  A crash differs from an error only by a torn stage file and by where it can
  strike, and an edit may strike anywhere, so one of either is enough next to them.
* `liveness`: three updates are needed for a last-good copy that is passed on by a middle
  one, or that a middle one of another path takes out of the journal.  Each package names one
  path here (`OnePathSpec`), with the inventory as its successor; packages of two paths over two
  updates are in `MCUpdateLivenessPackage`.  Of starts that differ only by a swap of the two contents
  one is taken.
* `waits`: three threads are one inside a VM operation, one waiting and one
  that releases or closes a channel.  Two tickets meet a full counter.
* `names`: every combination of an old target, a staged file and a foreign backup; two moves
  per replacement have seven requests each, and six failures strike one replacement and
  its repetitions in every phase.  With all kinds of call two failures: one strikes a
  call, one its repetition.
* `batch`: two processes are a COMMIT and a STAGE or ABORT-BATCH that looked before it.  Two
  packages are one with the kernel and one without, collected in two calls of STAGE, and give
  a partly committed transaction.  Of two faults (a failed write, a conflict, a kill,
  a reset that nothing waits for) one interrupts a command and one its repetition or its rollback.  Starts of the
  machine between commands are not faults and not bounded, nor is the number of batches.
* `batch_live`: a batch is finished by one command after another, so one process runs every
  command (`StagerSpec`).  The second one runs STAGE, which is the command that changes a batch
  on the strength of a reading without the lease, at any moment and any number of times.  One fault
  is what it takes to bind a batch without knowing (section 6, finding 4).  `MCRestartBatchLiveFaults`
  has one process and two faults.
* `removal`: three requests are one that is finished, one that is pending and one that is
  new; two installations let a late repetition meet a second one; `MaxGen = 16` is more
  than three requests use.  Two faults: an ambiguous step and a failed repetition of it.
* `jobs`: two jobs compete for the requests, two identical requests share one;
  one navigation separates two generations, and one redirect two targets.
* The state spaces are exhausted in every passing run.  Contents, threads, processes and
  requests are symmetric where a run says so; the runs with liveness use no symmetry.

Deadlock is checked except in `removal` and `jobs`, where the bounds on faults,
installations and navigations are used up and everything is settled; the
other models have an idle choice (`Rest` in `UpdateTransaction`, another call in `NtfsNames`).

### Further configurations

Not all questions are asked in each regular run; these configurations are kept next to
them.

| Configuration | Shows |
|---|---|
| `MCUpdateLivenessPackage` | `Settles`, `OrphansOnlyUnnamed` and `NeverUnwritable` hold with packages of any of two paths and two updates (740,502 states) |
| `MCRestartBatchLiveFaults` | `BatchEnds` holds with one process and two faults (261,542 states) |
| `MCUpdateForeign` | `JournalTruth`, `RotatesOnlyApplied` and `ForeignKept` hold in the instance of `txn` |
| `MCNtfsTarget` | `TargetOldOrNew` holds in the instance of `names` |
| `MCUpdateTorn`, `MCAllocatorWaitTSO`, `MCRestartBatchSpan`, `MCRestartBatchAgain` | `TornStageGoes`, `WakesUp` with store buffers, `SpansBatch` and `PreparingUnbound` are violated: findings 2 to 5 of section 6 |
| `MCUpdateOrphan` | `NoOrphanInventory` is violated, see section 6 |
| `MCNtfsLegs`, `MCNtfsRenameReplay`, `MCNtfsDelete` | `BetweenLegsDirty`, `RenameReplays`, `DirtyTellsOrphans` are violated, see section 6 |
| `MCPendingRemovalStuck` | `SettlesInventory` is violated, see section 6 |

### Fairness

* `UpdateTransaction.FairSpec`: weak fairness of `Step`, a command that runs takes its
  next step; weak fairness of `Resume \/ BootRecovery`, an open transaction is
  picked up by the next boot or by the user.  Neither `Crash` nor `Edit` nor a new
  update is fair.  That storage stops failing cannot be stated as fairness, as every
  operation may fail again and again: `Settles` has it as a premise (`Failed` happens
  finitely often), where `Failed` counts only the ends at which the code had a
  way on.  A RESUME that ends because there is no way on is no such failure, so a
  journal that no RESUME can finish satisfies the premise and would be found.
* `AllocatorWait.FairSpec`: weak fairness of each thread's own steps and of its store
  buffer.  Not fair: starting another call, a refused wait.  Strong fairness of `EndVm` says
  that a VM operation makes finitely many kernel calls, which its loops over a
  bounded table of regions do.  Strong fairness of taking the free lock is an
  assumption about the machine: a compare-and-exchange lock with parking guarantees no
  turn to anybody, and starvation by luck is not what `WakesUp` is about.
* `RestartBatch.Fairness`: weak fairness of `Step`, whoever holds the lease goes on; strong
  fairness of `Boot`, which between commands is what the code asks the user for; and for each
  process that is to get through, `Repeats(p)`: strong fairness of `Resume(p)` (RESUME-BATCH),
  `resumeTransaction(p)` (RESUME, for a single update that is open) and `TakeLease(p)`, since other
  commands may hold the lease in between, and weak fairness of the steps of the COMMIT that
  RESUME-BATCH turns into.  In `batch_live` only the first process repeats; nothing is
  assumed of the one that stages.  Faults are bounded and not fair; a restart that the open
  transaction waits for is no fault, also when it ends a command that has only looked.  Neither
  ROLLBACK-LAST nor ABORT-BATCH is fair: a batch ends without them.
  `BatchEnds` makes two exceptions: `BoundAgain`, which is finding 5, and `Outgrown`, a batch that a
  STAGE enlarged beside its open transaction, which is finding 4.
* `WebJobs.FairSpec`: weak fairness of `Working`, the owner finishes what it has begun; of
  `Worker(j)`, a thread runs, and its waits for the network end with the deadline that
  every fetch has; strong fairness of `Poll(j)`, because the owner's loop polls its jobs
  in turn and `Poll` is disabled while it works on another one.  Nothing is assumed of
  the user's events, of `Close` or of `Deinit`: a program that never closes still ends
  every job.

## 4. The proofs

All component modules have safety properties proved for every value of the constants
that satisfies the module's assumption.  The argument is the same everywhere: an inductive
invariant, true initially, one lemma per group of actions that it is preserved, and
each property from it.

* `HeapRuntimeProofs`.  `CallsExact` ties the counter to a set of program counters;
  `PhaseHeld` says that phases 1 and 4 have one owner; `Drained` that whoever read the
  counter at zero under phase 4 has the heap to itself.  The hard step is
  `EnterRecheck`: a thread that counts itself in after the finisher looked at the
  counter sees phase 4 when it looks again.  `PastFirstCheck` and
  `TornFreesOnly` are needed for the action properties.
* `UpdateJournalProofs`.  `LeaseHeld` (a holding process owns the lease), `ScanFresh` and
  `BaseFresh` (what the holder read is still there), `DraftNext` (the draft goes to the
  other slot with the next number), `TornFirst`, `ReadbackKnows`.  From these: nothing
  acknowledged is lost, no ambiguity, no stale continuation, and the step
  simulation of `DurableCell`.
* `UpdateTransactionProofs`.  `Truth(j)` says that each untouched payload is wholly in its old
  place or wholly in its new one, and in the one that the journal's marks name; a
  payload without a mark may be in either.  `Shaped` is what phases and entries
  of a journal have to do with each other; `Durable` states both of the journal on disk and
  `Memory` of the running copy; `At` and `Cursor` tie the program counter to the phases.
  `Unused` says that the names of later transactions are free.
  The step simulation of `AtomicFileSet` (`TxnReplacesAsOne`) reads the files before the
  transaction off the newest journal; as long as nobody edits a file the journal in memory,
  when it takes a payload up, describes that payload as it is (`Described`).  Over `IInv` every
  step then replaces files, advances the phase, begins a journal or takes the inventory in
  (`StepKinds`), and each of these maps to a step or a stutter (`KindsRefine`).
  `OrphansOnlyUnnamed` follows from `Lineage`: when an update begins, the one copy that the
  newest journal knows of a path it names is the one its entry inherits (`HandedDown`), and once
  an update is complete the copy it inherited is gone (`Rotated`), so that of a
  completed journal only its own copy is left to hand down; `SamePrev` says that what an entry
  inherits is fixed once it is on disk.
  `NoSelfConflict` needs to know more of a disk that nobody edited, `Smooth`: last-good copies are as
  the entries that lead to them describe them (`Kin`); under stage names there are only the
  transaction's own payloads, whole or torn, and none of later ones (`ClearOf`); from the stage record
  to the applied one every package payload is staged or installed (`Ready`); and the command
  commits only what was staged and cleans up only what is no more (`Place`).
  `JournalTruth` follows from `Recorded`: the commit loop has every earlier payload on record before
  it takes up the next, so up to the commit phase the files are at most one payload ahead
  (`Ordered`); later phases have every package mark, which each accepted journal must.
  `NeverUnwritable` adds `Writable` for the journal in memory: installed marks are a prefix and
  restored ones a suffix, there are none before the commit phase, and what each label writes
  next has the marks that its phase asks for (`Ahead`).
  `RotatesOnlyApplied` needs only that targets and copies stay as `precheck` saw them
  (`Checked`).  `ForeignKept` needs to know that nothing new is foreign (`NewsKnown`): package
  payloads are from the package, and a rendered inventory parses (`ForeignAssumption`).
* `AllocatorWaitProofs`.  `Routes` says which program counters go with which channel and
  continuation; `LockInv` counts a buffered store as holding the lock; `RefsExact`,
  `TicketInv` and `ChannelInv` are the ticket discipline; `TokenInv` and `VmSleepInv`
  the VM token.  `WaitSleepsForLock` holds under `~StoreBuffer` only, and section 6 shows
  why.
* `NtfsNamesProofs`.  `CurrentPossible` (what is visible is among what may survive), `Named`
  itself, and what each phase of a move knows (`Landed`, `MoveKnown`, `OnTheWay`): the new
  alias goes where nothing is and nothing can come back; before the old name is removed
  the new one is flushed or was found durable.  The hard step is a repetition that finds both
  names: the flush of the dirty bit, which every move makes first, makes what it found durable.
  `NoNameDangles` is proved for every kind of call, from `RefersInv`: a record that is moved was
  found under a name, a created one is stored before its name is published (`canonflush`), and a
  record is released only when no content of the directory that may survive names it.
  The five results about a replacement that is made as one come from `ReplacingInv`.  For each leg
  it says what of the directory is settled, where the move is between its names, and what
  the running call has yet to flush; `Bracket` ties the dirty bit on disk to a
  move under way, so that a clean volume shows no half of one.  The hard step
  is a repetition that reads the leg off the names alone: whatever content of a sector
  survived, at most one leg fits it.  `ReplacesAtomically` maps every step to a
  move of `AtomicReplace` or a stutter.
* `RestartBatchProofs`.  `NewestOk` relates the batch's newest record to the transaction,
  `TxnOk` the transaction to the files, and `AtInv` says for each label of the holder what it
  may rely on.  `OtherOk` is about the older record, which an interrupted ABORT-BATCH brings back.
  A write that is not acknowledged leaves the old record or the new one, so every write has
  to keep the invariant both ways, and the same holds for a step that is killed before it.
  All seven safety properties of `batch` follow.
* `PendingRemovalProofs`.  `RemovalExcludesUpdate` from an invariant that says, for each
  label of the holder, which of the two journals it has read as terminal under the
  lease; `RemovalKeepsOthers` from one that relates the current inventory, its stage
  and its backup to the digests on record.  The type theorem needs its own invariant
  (`Kept`) because records and receipts are read back from disk.  `RemovalGapOnRecord` and
  `RemovalDeletesOnce` rest on `Books`: whoever runs a request has the newest record in memory,
  a torn write hits only the other slot, and a request that has deleted something is on
  disk or archived, so it is never admitted as a new one.  It uses `MarksAssumption`:
  an absent and a torn slot are told apart from every record, as the magic and the digest do.
  `RemovalRefusedOnlyWhen` adds `Tidy`, what stage, backup and inventory have to do with the two
  digests of the newest record and which of the names is a second one: not yet replaced, stopped
  within one of the two moves or between them, or replaced.
* `WebJobsProofs`.  `JInv` says what the owner knows of the job it works on, what a published
  call says of its thread, and that between authorization and exchange the
  authorized hop is the current one.  `Serving` is for the two results about a request:
  an open request is of the current generation (`Current`), the requests of different jobs
  are different ones and have left the queue (`Owned`), whatever is in flight is in a job
  (`Covered`), and what the owner has delivered is no more in flight (`Delivered`).

Checked by TLC and not proved:

* `Settles`, `WakesUp`, `BatchEnds` and `JobsEnd`, which are liveness under fairness and out of
  the prover's reach.

## 5. Assumptions and what is left out

* For `UpdateTransaction` the kernel's checked file operations are atomic, act only on the
  described objects, and accept their own outcome again.  `NtfsNames` shows how far that holds
  of the two publications below them: a repetition completes what a failure left.  The
  two are not composed: a target that was replaced while its stage is still an alias
  (`commitInventoryPayload` counts it as done) is in neither model.
* A file that could not be written completely is not equal to any package content, and is no
  inventory that parses (`ForeignAssumption`).
* `notification_notify` succeeds on an open handle.
* `UpdateTransaction` is a single-package transaction.  Restart batches are in `RestartBatch`; the
  binding of a package to its manifest is left out: `Reverify` may fail or roll back at will in place
  of the last.  The guards of pending removals are in `PendingRemoval`.
* In `HeapRuntime` and `AllocatorWait`, what an allocation does to regions is left out.
* `RestartBatch`: `MODULES.JSON` is a payload like any other, and each payload is replaced by one
  atomic step (`UpdateTransaction` has the files around it).  The order of the packages, their
  verification, assets, CONFIRM-RELEASE and STATUS are left out; APPLY and RESUME are there as
  far as they meet a batch.  The boot adapter is in the kernel, outside this repository: it calls the
  replay core through `update_helper_adapters.zig`, and `BootAt` is what the core's comments
  and the phases of the journal leave it to do.
* `NtfsNames` runs one call at a time, as the volume's gate does.  Hard links, directories as
  objects, clusters, streams and the layout of index blocks are left out; an index entry
  is one sector.
* `PendingRemoval`: whether the application runs is a choice; `RemoveBusy` and the
  errors of reading files are refusals.  One application stands for all.
* `WebJobs`: preflights (same target, no cookies), caches, connection reuse, request memory
  that cannot be had, and everything the response does to the page are left out.

Not modelled:

* `VmRegions` (size classes, direct cache, retirement), the upload
  claim, document save, subsystem persistence and the audio ring: they have state
  worth a model and are the next modules of the plan.
* Parsers, codecs, layout, GUI, web engine: large sequential functions over documents.
* Driver and graphics queues, application facades: typed views of state in the kernel,
  which is not in this repository.
* The C and Rust projections.  `src/Shared/C/include/r4os/*.h` are generated: each of
  their functions marshals its arguments into a call of the Zig function that is modelled or
  listed here, and keeps no state.  `r4os/storage_tools/limine/limine.c` is a vendored boot
  loader tool.  The code that is modelled is Zig.

## 6. Findings

1. `rename_alias`: `renameLocked` flushes the destination alias only in the call that inserts
   it.  If that flush fails and then a canonical write fails with effect, the third attempt
   finds the phase `canonical_rewritten` and detaches the source; no flush has succeeded
   since the alias was inserted, and a loss of power can leave the object without a name.
   The comment above `renameEntry` promises that the alias is durable first.
   `publishFileCreateOnly` flushes again in this situation.
2. `MCUpdateTorn`: half a stage file under a transaction's private name stops every later RESUME
   with a stage conflict, and nothing deletes it.  A comment in `ntfs_volume.zig`
   says that SYSUPD recovery deletes torn stage files.
3. `MCAllocatorWaitTSO`: the store that frees the allocator lock and the load that looks for
   waiters are not ordered with each other.  If the load goes first, the releaser sees
   no waiter, and a waiter that rechecks before the store arrives still sees the lock
   taken and parks.  It sleeps until somebody else passes through the lock.  The window is
   the life of one buffered store, during which the waiter must create the channel
   and observe it, so it is narrow; the comment in `acquireAllocatorLock` says that the
   release cannot be lost.  `waits_live` and `WaitSleepsForLock` show that the ordering
   is the only thing that is missing.
4. `MCRestartBatchSpan`: STAGE looks at the transaction's journal before it has the lease and not again.
   A COMMIT whose transaction record is written but not acknowledged gives its batch back
   as staged; a STAGE that looked before then adds a package.  The open transaction no longer
   spans the batch, and RESUME-BATCH, COMMIT, ABORT-BATCH, RESUME and ROLLBACK-LAST all refuse:
  the batch stays without a verdict, which is why `BatchEnds` excepts it (`Outgrown`).
   A comment in the recovery core says that one journal spans the complete batch.
5. `MCRestartBatchAgain`: a reset between the transaction's record and the batch's leaves the batch
   in `staging` with a transaction of its own.  RESUME-BATCH finishes it, and a second reset
   between the transaction's last record and the batch's verdict lets the next RESUME-BATCH
   take the transaction for an earlier batch's: it sends the installed batch to COMMIT again, and
   post-boot verification then refuses for good, because the release marker has moved on.
   The comment there says that a preparatory batch has not bound its own transaction.

Smaller observations, with their configuration where there is one:

* `MCUpdateOrphan`: an update that is resumed in its inventory phase has no predecessor journal
  at hand, so its `MODULES.JSON` entry inherits no last-good copy; the copy of the update
  before it stays on the disk, known to no journal.  The comment in `applyCommand`
  (`system_update_engine.zig:1052`) promises that every target, the inventory
  included, inherits.
* `MCNtfsLegs`: each leg of `replaceFileAtomic` ends with a clean dirty bit, so between the legs
  the volume is clean on disk while the target is absent; the comment at
  `ntfs_volume.zig:6263` says that the volume is dirty there.  The replacement is still
  recognised from its names.
* `MCNtfsRenameReplay`: after a failed flush of the dirty bit, a retry and a loss of power, both
  names of a rename are there on a clean volume, and every further rename is refused.
* `MCNtfsDelete`: in the same way a repeated delete can leave a clean volume with a record that
  no name refers to.  `ensureDirtyDurable` exists for this; only the publisher calls it.
* `MCPendingRemovalStuck`: a pending removal can be refused forever without an edit by anybody
  else: a torn write of `RMVINV.NEW` is a stage conflict each time; a replacement that stopped
  between its moves leaves no `MODULES.JSON` to read; and one that stopped within a move leaves
  `MODULES.JSON` or `RMVINV.NEW` as a name that its record does not have as its own, which
  every lookup of the removal refuses with an I/O error.  In the last case the new
  inventory may be installed and only the cleanup of the stage refuses.  `RefusedOnlyWhen` says that
  these are the only ways: a backup that is still a second name is completed by the repetition.  As long as the removal is pending, no update may run either.
* An older administrator's edit after the digests went on record makes the removal refuse:
  the comment in `execute` promises to keep edits "between a crash and this explicit
  resume", which the code does by refusing in this window.
* If the very first write of an update journal, a batch record or a removal record is torn, one slot is
  invalid and the other missing.  Every later lookup fails closed until the slot is removed
  by hand.  A torn receipt stops only its own request and the archiving of it.
* An ABORT-BATCH that stops between its two deletions can leave a torn slot alone, or bring the
  record before the aborted one back; the first refuses every later lookup.
* After a later batch was aborted, ROLLBACK-LAST refuses the earlier, installed one:
  its record is gone.
* A payload that was not yet on record as installed and is then changed by somebody
  else keeps a rollback from finishing; the journal stays in `rollback`.

## 7. Plan

Done: `HeapRuntime`, `UpdateJournal`, `UpdateTransaction`, `AllocatorWait`, `NtfsNames`,
`PendingRemoval`, `WebJobs`, `RestartBatch` with their proofs.

Next, most important first:

1. `VmRegions`: region states over reserve, commit, decommit and release, direct cache,
   retirement after a failed release, shutdown; composed with `AllocatorWait`'s token:
   no region is lost, released twice or used after release.
2. `UploadClaim`, `document_save.zig`, subsystem persistence and the audio ring.

Proofs: what these two will need.  Every property of the present modules that section 3 says
holds is proved, liveness excepted.

## 8. Running

    tlc -workers 2 -config MCHeapRuntime.cfg MCHeapRuntime.tla
    tlapm HeapRuntimeProofs.tla

and likewise for the other configurations and proof modules; each run takes less than
three minutes on two cores; a proof module takes about three and a half minutes or less.
