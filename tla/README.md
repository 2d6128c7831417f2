# Verification of omj-agent

TLA+ models of the agent, the TLC configurations that check them on small
instances, and TLAPS proofs about them for every instance. Everything is
translated from the Go source under `src/`; `PROJECT.json` maps each definition to
its lines.

    tlc -workers 2 -config AgentSafety.cfg MCAgent     # one run; the table below has all
    for m in *Proofs.tla; do tlapm $m; done            # the proofs

## The system

omj-agent runs on a machine, long-polls a Server for work, executes each leased
Run as a shell command in a process group of its own, streams the output back,
and reports the outcome exactly once. The Server is not part of this repository;
it is modelled from what the agent sends it and how it treats the answers.

| Component | State | Operations | Talks to |
|---|---|---|---|
| Poll loop, leases, registry (`internal/agent`: agent, lease, registry, startup) | the registry of Runs this process owns, the Run whose lease is being started | poll, apply an answer, handle a lease (ignore, resend, cancel before start, accept), start, spawn, cancel, reconcile at start | Server (work, start), state store, runner, reporter |
| State store (`internal/state`, `atomicfile`) | Machine id, active Runs, recent outcomes; `state.json` | Load, MarkActive, MarkFinished, Reset, SetMachineID, save (whole or not at all), prune | called by poll loop, reporters and reconcile under one mutex |
| Reporter (`agent/reporter.go`), one goroutine per Run | waiting, disconnected, outputDone, the finish request | flush, heartbeat, drain after the exit, finish, record, release | buffer, chunker, process, Server (output, heartbeat, finish) |
| Chunker (`output/chunker.go`), one per Run | the chunk being filled, written bytes, sequence number | Write (two goroutines), flush on tick (a third), Close (the reporter) | called by the runner, calls the buffer |
| Output buffer (`output/buffer.go`), shared by all Runs | unacknowledged chunks per Run, total size, truncated flags | Add, NextBatch, AckUpTo, Forget | chunkers, reporters |
| Runner (`internal/runner`) | one process: terminating, timed out, cancelled, exited, result | Start, Cancel, timeout, terminateGroup, wait | the operating system |
| Shutdown (`agent/signals.go`, `Agent.Run`, `Agent.Wait`, `cli/run.go`) | pollCtx, reportCtx, the signal channel, forced | first and second signal, cancelAll, drain, Wait | every goroutine above |
| Discovery (`agent/discovery.go`, `internal/discovery`) | one in flight, unsupported; the collection: entries, bytes, what was left out or could not be read | read crontabs and timers within a budget, report | poll loop, Server, systemctl |
| HTTP client (`internal/client`) | the credential it was made with | calls, Retry, Backoff, classification of errors | Server |
| Enrolment (`internal/enroll`) and configuration (`internal/config`) | `agent.conf`, `agent.credential` and their owners | enroll, Save, Load | Server (enroll), the daemon that loads the files |
| Doctor, command line, sysinfo, protocol, version | none | read, print, plain data | - |

### What is hard

* **Lost and repeated messages.** Any answer may be lost after the Server acted
  on it. The Server repeats the lease of a Run it has not heard of, so the agent
  must recognise a Run that is registered, finished, or known only to the file.
* **Crashes and failed saves.** The process is spawned before it is on record; a
  failed save is only logged, so memory may run ahead of the file.
* **Threads.** The poll loop, one reporter per Run, one lost-report per Run found
  at start, the signal watcher, the timer callback, `wait`, `terminateGroup`, the
  copying goroutines, the flush ticks and a discovery all interleave.
* **Timeouts and retries.** Lease expiry during start, the backoff sleep beside
  the supervise loop, the stop budget, the grace of a termination, WaitDelay.
* **Limits.** The slots, the cap on buffered output over all Runs, the batch
  size, the output limit of a Run, channels of one and of two.
* **Partial failure.** Enrolment spends a single-use token, then writes two files
  and gives them away, beside a daemon that may be loading them. A discovery makes
  up to three systemctl calls per timer, each of which may fail or hang.
* **Bounded memory of the past.** Outcomes are pruned by age and by number, so a
  lease repeated after that meets a store that does not know the Run.

`PROJECT.json` lists these as hazards, each at its line with the properties that
would catch it.

### What makes each part correct

* Poll loop and store: a Run is executed at most once, only with the Server's
  consent, never above the limit; nothing that runs is forgotten by the registry,
  nor by the file once a save has succeeded; the outcome told, the outcome recorded
  and what happened agree.
* Runner: one termination wins and the result names it; every process ends.
* Chunker and buffer: each byte once, in order, in the right stream; memory is
  bounded, what is lost is flagged, a flood on one Run does not cost a quiet one.
* Reporter: the finish does not overtake or overstate the output; a Run the
  Server gave up on is revived before output is sent; it ends.
* Shutdown: one signal ends the daemon, and nothing is left running or unrecorded.
* Enrolment: what the daemon executes, records and reports is of the Machine it is
  enrolled as; an enroll that succeeded leaves two files of one Machine and one
  owner, the account the command names.
* State store: an executed Run is forgotten for the reasons the code has, and for
  no other.
* Discovery: the report is the beginning of what the Machine schedules and says
  what it lacks; a discovery that is told to stop ends.

## The modules

    MCAgent --> Agent ==implements==> RunLife    leases, registry, store, crashes
                  ^-- AgentProofs
                  .
                  . steps of one Run, in detail:
                  +. Process                 the process group
                  +. Chunker --> (chunks) --> OutputBuffer ==implements==> RunBuffer
                  +. Reporter --> RunBuffer  delivery of output and outcome
                  . the store with its limits:
                  +. StateStore              pruning, clock, a spoiled file
    Shutdown                                 signals, drain, Wait, discovery
                  . the discovery in flight, in detail:
                  +. Collector               crontabs and timers, read into a report
    Enrollment                               who the agent is

`RunnerProofs` are about `Process` and `Chunker`, what the code has of one process.
`OutputBuffer`, `Reporter`, `Shutdown`, `Enrollment`, `Collector` and `StateStore` each
have a module of proofs, named after them.

| Module | Models | Correspondence |
|---|---|---|
| `Agent` | poll loop, leases, registry, startup, store | `pc` is where the polling goroutine is, `cur` the Run in the middle of `start`/`spawn`; `registry[r]` is a registry entry with the step of its reporter; `mem`, `disk` are the store and its file, `unsaved` the Runs active in memory since whose start no save succeeded, `pruned` those whose outcome a save dropped; one action per lease branch, per step of `start`/`spawn` and per reporter step |
| `RunLife` | what the Agent promises of one Run | six variables, one action per thing that can happen to a Run as the Server and its user see it: consent, the wish to cancel, execution, exit, the death of the daemon, being forgotten, the outcome |
| `Process` | one `runner.Process` | the flags under `p.mu`, the timer, and the two goroutines (`waiter`, `group`); the group is a shell and one descendant that may ignore SIGTERM and hold the pipes |
| `Chunker` | `output.Chunker` | bytes are their place in the input; `Write` is cut at the turns of its loop, `holder` is the mutex |
| `OutputBuffer` | `output.Buffer` | `adding` is an `Add` that holds the mutex; `MakeRoom` one turn of its loop |
| `RunBuffer` | what the buffer is to one Run | an interval of chunks and a flag; it grows, loses its head to others, loses its tail only when empty, and is acknowledged |
| `Reporter` | `report.deliver` and what it calls | `pc` names each request in flight; the buffer is `RunBuffer`; the Server may mark the Run lost, close it, or stop taking output |
| `Shutdown` | `watchSignals`, `drain`, `Wait`, `discoverIfAsked` | goroutines `main`, `watcher`, one reporter per Run, one discovery; `spawn` is cut at its context check and its fork |
| `Enrollment` | `Enroll`, `Save*`, `Load*`, `adopt`, `Reset`, the 401 retry | `cmd` is the progress of the command, `daemon` that of the start, `owner` whose each file is and `giveTo` whose it is to be; a credential is its number |
| `StateStore` | `State.save` with `prune`, `Load`, the corrupt file | the contents in memory and on file with the time of each outcome; `Known` is the three questions that keep a lease from being executed; `owed` is what may not be forgotten yet |
| `Collector` | `Discover`, `collection`, the crontab parser, `readTimers` | `place` is the source being read, `call` the systemctl call in flight; `lines` is what the Machine answered, and the report is compared with it |
| `AgentProofs`, `RunnerProofs`, `OutputBufferProofs`, `StateStoreProofs`, `ReporterProofs`, `ShutdownProofs`, `EnrollmentProofs`, `CollectorProofs` | theorems | |
| `MCAgent`, `MCOutputBuffer` | symmetry for TLC | |

An operator named `X_What` is `X` with a plausible bug (a dropped guard, a
missing reset, an off-by-one). No specification uses one. Each property is known
to fail when the `X_What` listed beside it in `PROJECT.json` stands for `X`: that
is the evidence that a property can tell the code from a broken version of it.

### Where detail is split between modules

`Agent` implements `RunLife` for every Run (`ImplementsRunLife`, checked and proved):
no lease, answer, save or other Run makes one Run live otherwise. What `RunLife`
says of a Run is its whole life: it starts with consent that is used up by the
outcome, is executed again only if a crash or pruning made the Agent forget it,
and is told once, with an outcome its process explains.

`Agent` sees a reporter as the steps supervise, finish, mark, release and a
process as its exit; `Reporter` and `Process` are those steps in full.
`Reporter` uses `RunBuffer`, and `OutputBuffer` implements `RunBuffer` for every
Run (`ImplementsRunBuffer`, checked and proved), so the two compose. What
`Reporter` and `Shutdown` assume of a process (told to stop, it exits) is
`EveryProcessEnds` of `Process`. What `Shutdown` assumes of a discovery (it ends
once its context is done) is `CancelEndsDiscovery` of `Collector`. `OutputBuffer`
takes numbered chunks from a chunker, and `OutputFaithful` of `Chunker` says what
is in them.

A save of `Agent` may drop any outcomes recorded before it (`Prune`), and a Run whose
outcome was dropped is exempt from what rests on the record. Which outcomes the
code does drop, and when, is in `StateStore`: `Remembered` says that an executed Run
is known, and so protected by `AtMostOnce`, until its outcome is older than the time
to live, or MaxRecentRuns others finished since, or the file was spoiled, or the
daemon crashed before any save. `Reset`, which empties the store of another
Machine, is in `Enrollment`.

## The runs

| Run | Instance | What it shows |
|---|---|---|
| AgentSafety | 2 Runs, limit 1, 2 slots, 1 crash, 1 save that prunes, symmetric | no Run is executed twice unless forgotten, none without consent or above the limit; a process is on file unless no save has succeeded since its start; outcomes are true and agree; the file forgets by pruning only; each Run lives a `RunLife` |
| ProcessEnds | 2 cancel reasons, every behaviour of the command, fair | one termination wins and the flags tell it; every process ends; which descendants may be left |
| ProcessGroup | the same | *violation*, finding 1 |
| OutputBuffer | 2 Runs, symmetric, cap 4, chunks of 1, 2 and 5, batches of 3 bytes and 2 chunks | cap, accounting, no gaps, loss flagged, fairness between Runs, the refinement |
| Chunker | chunks of 3, limit 5, 7 bytes written, fair | bytes faithful, Close seals, nobody waits for ever |
| Reporter | 2 chunks, batches of 2, fair | truthful finish, no output cut off by a lost connection, the backoff sleeper, order at the Server, termination, arrival of a cancellation |
| Shutdown | 2 Runs, 3 signals, fair | the daemon ends and leaves nothing behind; reporting is cut only by the budget or a second signal |
| ShutdownFirstSignal | 2 Runs, 2 signals | *violation*, finding 2 |
| Enrollment | 2 Machines, 2 Runs, 3 credentials | what is recorded and reported is of one Machine; an enroll that succeeded left both files of one Machine and with the owner it names |
| EnrollmentCredential | 2 Machines, 1 Run, 2 credentials, fair | *violation*, finding 3 |
| Collector | 2 entries, 3 bytes, sizes 1, 2 and 4, 3 lines, 2 files, 1 timezone, fair | the report is a beginning of what is scheduled and says what is missing; a cancelled discovery ends |
| StateStore | 3 Runs, 2 outcomes kept, time to live 1, clock 0 to 2 | an executed Run is forgotten only for the four reasons there are |

### Why the bounds are enough

* `Agent`: two Runs and one slot are the least for which a lease can find the
  registry full, be cancelled while another starts, and compete; a second crash
  would repeat the restart from a state the first one reaches already (the file
  is any subset of the saves). One save prunes, and drops any of the outcomes it
  finds: with two Runs that is every way to forget one, or both, in the middle of
  everything else. The theorems cover every instance.
* `Process` has no bound: one descendant stands for those that matter, one that
  survives SIGTERM and one that holds the pipes.
* `OutputBuffer`: the chunk sizes are below a batch, fill one with another, and
  exceed both the batch and the cap, the three cases the code tells apart. Three
  chunks per Run let the head be dropped while a batch is in flight and another
  arrives. Chunks that hold the cap many times over behave as the one of 5.
* `Chunker`: 7 bytes are two full chunks and one more; a limit of 5 falls inside
  a chunk and inside a write. Limits 0, 2, 3 and 4 with chunks of 1 to 3 were
  tried with the same result.
* `Reporter`: two chunks are enough for a batch in flight with one arriving, or
  one dropped and one left. Three chunks pass the same properties (895 560
  states), which takes longer than a run should.
* `Shutdown`: three signals are the two the code knows and one more, for a
  channel of two; two Runs let one be in mid-start while another runs.
* `Enrollment`: three credentials are an enrolment, a replacement by another
  Machine and a return to the first. Three accounts are the service's, root's and
  one more for `--user`.
* `Collector`: the sizes are one that leaves room, one that fills the report with
  the first, and one larger than the whole report; three lines over two files let
  an entry be left out and a smaller one follow, in another file and with another
  zone. Four lines (about 12 million states) pass the same properties.
* `StateStore`: three Runs are one more than are kept; the clock can be before,
  at and after the end of the time to live, and set back.

`Agent` has no liveness run: what must happen in the end is checked where the steps
are in full, the arrival of a cancellation by `CancelArrives` of `Reporter`, the
end of the process by `EveryProcessEnds` of `Process`, the release of the Run by
`ReleasedOnceReachable` and `ReleasedOnStop`.

### Deadlock

`AgentSafety` and `StateStore` check for deadlock. The others end: the process is
over, the reporter released the Run, the daemon exited, the discovery was
reported, the bound of chunks, bytes or credentials is used up.

### Fairness, and why the code justifies it

* `Agent`, `StateStore`, `OutputBuffer`: none, safety only.
* `Process`: timers fire, a process dies of a SIGTERM it does not ignore, and
  goroutines run. A shell or a descendant need never end by itself.
* `Reporter`: the reporter's goroutine runs; `select` does not pass over a ready
  case for ever (strong fairness of the exit and of the heartbeat tick); a
  Server that can be reached does not reject heartbeats for ever. That the link
  is up in the end is a premise of the property that needs it
  (`<>[]link => ...`), not of the specification.
* `Shutdown`: goroutines run, the budget is a timer, a process that was told
  exits, a discovery ends once its context is done (collection and call take it).
  Nothing of the Server's answers.
* `Chunker`: a Write that has the mutex goes on; the ticker ticks; a goroutine
  that waits for the mutex gets it in the end (Go's mutex does not starve), and
  `select` takes `stop` in the end.
* `Collector`: the collection goes on by itself. systemctl need never answer, and
  nothing is assumed of the files. The end of the context kills the call in
  flight (`exec.CommandContext`), which is a step of the collection.
* `Enrollment`: fairness is used only in the run of finding 3: a daemon that came
  up goes on polling.

## Findings

Places where the documentation and the code disagree; each has a run whose
counterexample shows what the code does.

1. *ProcessGroup.* `terminateGroup` (`runner/terminate_unix.go:18`) returns as
   soon as the shell is done within the grace, without SIGKILL. A descendant that
   ignores SIGTERM survives; `docs/security.md:190` says a termination kills the
   group. `HonestGroupDies` states what holds instead.
2. *ShutdownFirstSignal.* The first signal cancels every process at once
   (`agent/signals.go:42`). `docs/troubleshooting.md:253` says it waits for
   anything in flight, and line 158 that `agent_stopped` comes with the second.
3. *EnrollmentCredential.* The client keeps the credential it was made with
   (`client/client.go:74`); `docs/troubleshooting.md:46` says a restart is not
   required after a new enrolment.

Two observations that are no findings: `drain` does not look at `waiting`, so a
process that exits during a backoff sleep has its output sent at once, while the
comment on the field (`agent/reporter.go:73`) reads as if the sleep held every
request back; and the `entryOverhead` a discovery adds to an entry
(`discovery/discovery.go:25`) is a constant that stands for the framing in JSON, so
that the bytes counted are not those of the encoded report.

## What is proved

For every value of the constants that satisfies the assumptions named in the
modules (`AgentAssumption`, `NoneAssumption`, `OutputBufferAssumption` and so on:
sets of Runs are finite, limits are positive, bounds are natural numbers, `None` is
none of the values it stands beside). TLC evaluates each assumption in the runs of
its module.

| Module | Theorem | Property |
|---|---|---|
| `AgentProofs` | `TypeCorrect`, `ProcessesOwned`, `NoRunWithoutConsent`, `ExecutedAtMostOnce`, `LimitKept` | `[]TypeOK`, `[]NoForgottenProcess`, `[]StartedWithConsent`, `[]AtMostOnce`, `[]WithinLimit` |
| | `FileForgetsByPruningOnly` | `FileForgetsByPruning`, an action property |
| | `TruthToServer`, `RecordAgrees` | `[]TruthfulOutcome`, `[]OutcomesAgree` |
| | `LifeOfEachRun` | `ImplementsRunLife`, a refinement |
| `RunnerProofs` | `ResultExplainsSignals`, `FirstWins` | `[]FlagsExplainSignals`, `FirstTerminationWins` |
| | `SurvivorsExplained` | the safety half of `HonestGroupDies` |
| | `ChunkerTypeCorrect`, `OutputIsFaithful`, `CloseSeals` | `[]ChunkerTypeOK`, `[]OutputFaithful`, `[]SealedByClose` |
| `OutputBufferProofs` | `LossFlagged`, `CapKept` | `[]LossIsFlagged`, `[]WithinCap` |
| | `QuietRunKept`, `Implements` | `QuietRunKeepsOutput`, an action property; `ImplementsRunBuffer`, a refinement |
| `StateStoreProofs` | `NothingForgotten` | `[]Remembered` |
| `ReporterProofs` | `TruthTold`, `NotCutOff`, `SleeperWatches`, `OrderKept` | `[]FinishTellsTruth`, `[]NeverCutOff`, `[]WaitingHasSleeper`, `StoredInOrder` |
| `ShutdownProofs` | `NothingLeft`, `ReportingCutByDrain` | `[]LeavesNothingBehind`, `[]ReportedUnlessCut` |
| `EnrollmentProofs` | `OneMachine`, `Usable` | `[]StateOfOneMachine`, `[]EnrolledMeansUsable` |
| `CollectorProofs` | `Beginning`, `NothingMissedQuietly` | `[]ReportIsBeginning`, `[]SaysWhatIsMissing` |

Each module also proves `[]TypeOK` (`TypeCorrect`); for `Process`,
`Reporter`, `Shutdown` and `Enrollment` the runs leave it out, the theorem covers it.
With that, every invariant and every action property a passing run checks is
proved.
The two refinements are stated as the initial condition and `[][...]_vars` of the
abstract specification, for every Run, which is what is proved. None of
the properties is inductive by itself. Each module names the parts of its
inductive invariant, proves that every action keeps each part, and has a theorem
(`Inductive`, `OutcomesKept`, `CountersExact`, `ChunkerInductive`) that puts the parts
together.

**Induction over data.** What a fold or a recursive function computes is proved
from a least counterexample: the natural numbers for which a claim fails have no
least element (`WFMin` with `NatLessThanWellFounded`), so there are none. The set of
those numbers takes the place of a predicate, which the provers could not
instantiate. This gives the laws of sums in `OutputBufferProofs`, of `FlattenSeq`
in `RunnerProofs`, and of pruning in `StateStoreProofs` (`EveryNumber`).

**Agent.** `IInv` is built in layers, each proved with those below it. *Control*:
types, `CurInHand` (the polling goroutine has a Run in hand exactly between accept
and launch), `CurIsNew` (that Run is neither registered nor on record),
`NothingYet`, `OnRecord`, `StoreConsistent`, `Owned`: a spawn must not meet a Run
that has a process, and only the control state says so. *DiskBehind*: memory knows
all the file knows but for the outcomes it pruned, whatever saves failed; a restart
goes back to the file, and what it drops must have an outcome. *UnsavedOnly*: what
is active in memory and not on file has had no successful save since, which is the
exception `NoForgottenProcess` makes. *Consent*. *Once*: `ExecutedIsKnown` and
`LeaseIsRepeated` carry `AtMostOnce` over the restart. *HeldWithinLimit*: the Runs
that hold a slot, by cardinality, never exceed the limit.

**Outcomes.** An outcome reaches the Server from the reporter of a registered Run,
from the record of one that is not, and from the goroutines of `reconcile`.
`LostKept` says that two of them never speak of one Run, `Open` that a Run in hand
or supervised has no outcome at the Server yet, so each finds the Server without
an outcome or with its own (`Agreeing`), and what it carries is true when taken up
and stays so (`Truths`). For the refinement, `Lived` says that a Run has a
process if and only if it was executed, and that a supervised one runs; the truth
of an outcome includes that an ended process was seen to exit. These hold of Runs
the Agent has not forgotten. `Allowed` is what holds of any: whatever outcome is on its
way or on record, the Server consented to the start, or the user asked to cancel if
the Run was cancelled before it. Each action then maps to one step of `RunLife` for the Run it is about
and to a stutter for the others; a save that prunes maps to `Forget` for the Runs it
drops (`PruneSteps`).

**Process.** The result is a copy of the flags at the exit (`Frozen`), and the flags
say at every moment what was done to the group (`Flags`): `terminating` is set under
the mutex by the termination that signals. `SurvivorsExplained` follows the group
through `terminateGroup` (`Reached`): when that has returned, a descendant that lives
is one of those `LeftBehind` names or was sent SIGTERM. What `HonestGroupDies` adds is
that a process dies of it in the end.

**Chunker.** What was handed over and is pending is the bytes written, in order
(`Faithful`); with what is left of the `Write` that holds the mutex it is all that was
offered, unless the limit was passed, where both stop (`Accounted`, `Turning`). The
chunk being filled is never full (`Filling`), since a full one is handed over at once.
Once `closed` is set the flusher is gone, nobody holds the mutex and nothing is pending,
so what `Close` returned stays true (`Closing`). The lemmas on `FlattenSeq` say that a
flush moves bytes and changes none.

**OutputBuffer.** What is held of a Run is an interval of numbers that ends with
its latest chunk; unless the Run is marked truncated it begins at or before the
first chunk the Server has not acknowledged and at or before the end of the batch
in flight (`FlaggedOf`). So an answer that was overtaken by drops passes over
nothing in silence. A lemma per operation says what it does to the interval; the
refinement and the preservation of the invariant both rest on them. `BatchIsHeld`
and `CoveredIs` say what the maxima in `NextBatch` and `AckUpTo` are. The cap rests on
`Counted`: `bytes[r]` is the sum of the chunks held of r and `size` the sum of
`bytes`, through each of the operations that add or free chunks and in the middle
of an `Add`. The sums are folds; that a head dropped or a prefix acknowledged takes
off what it holds, whatever the order of summation, is what the lemmas on them say.
For `QuietRunKeepsOutput`, the Run that gives up a chunk holds the most, so no less
than the average, and what is held exceeds what the new chunk leaves of the cap.

**StateStore.** Pruning first: the outcomes kept stand in the list in the same order
(`Embeds`), and one that is fresh is left out only for `MaxRecentRuns` later ones
(`Survives`), so one that fewer Runs follow is kept (`PruneRemembers`, by the
pigeonhole principle). The module deletes with a recursive function, `FreshOnes`,
since the provers have no definition of `SelectSeq`. Between saves, a Run no save has
reached is still in the process (`Process`), any other that is owed is in a readable
file (`OnFile`), and its outcome, in memory and on file, is neither too old nor
followed by `MaxRecentRuns` others (`InTime`). The file may be any number of saves
behind memory; that no Run is both active and finished (`Apart`) keeps a start from
finding two answers.

**Reporter.** `Connected` (a Run the Server has lost is one whose reporter knows it
is disconnected, and no request with output is in flight then), `InFlight` and
`NoGap` (the batch in flight begins at or before what the buffer holds, and the
Server has no hole above it), `Complete` (until something is dropped, refused or
cut, the Server has all before the buffer), `Honest` (the finish carries the flag as
it was when the output was done).

**Shutdown.** `Owned`: a running process has a reporter that supervises it, or is
the one the main goroutine has just forked; `Settled`: a reporter that is done has
recorded; `Cut`: a reporter gives up only when `reportCtx` is done, which only
`drain` brings about. `InHand` is what the cut of `spawn` needs.

**Enrollment.** `Leased`: the active Runs, in memory and on file, were leased to the
Machine the state names; `Progress`: what the command has written so far is what it
was answered, and belongs to who wrote it until it is given to whom it is to be;
`Said`: an enroll is over when it says so.

**Collector.** Every step is, for the report, a line that is offered to it or
nothing (`StepKinds`). Once an entry that could be reported was left out, nothing
fits any more (`Complete`), which makes the report a beginning; the zone of the
parser is that of the last assignment of the open crontab (`InForce`).

### Only model-checked

Liveness, which is out of the prover's reach as fairness and ENABLED are:
`EveryProcessEnds` and `HonestGroupDies` of `Process`, `ReleasedOnceReachable`,
`ReleasedOnStop` and `CancelArrives` of `Reporter`, `SignalEndsDaemon` of `Shutdown`,
`NothingWaitsForEver` of `Chunker`, `CancelEndsDiscovery` of `Collector`. The absence of
deadlock in `Agent` and `StateStore` is checked by their runs.

## What is not modelled

* The delivery of a request after the agent gave it up (late, out of order). A
  request is handled at once or not at all, its answer arrives or is lost.
* The chunker's limit in `Reporter`: there the flag of a truncated Run comes from
  the buffer and the Server; what Close reports is in `Chunker`.
* A signal that cannot be sent to a process group (EPERM), and process ids that
  are used again.
* Two enroll commands at once, and `agent.conf` edited by hand. The daemon is taken
  to run as the service's account; an enroll by root that keeps the files, for want
  of that account or because `--user` says so, or that gives them to another account
  succeeds (`enroll.go:241-253`, `267-270`, `enroll_test.go:568`), and this daemon
  cannot start from them.
* The save that `drain` ends with (`signals.go:106`), which writes what is in memory.
* The text of crontabs, of `list-timers` and of `systemctl show`: `Collector` keeps of
  a line what the parsers make of it. How a Machine encodes its report, and so
  whether it fits the Server's limit after `entryOverhead`, is a hazard without a
  property: that limit is not in this repository.
* `doctor` reads the host once and prints, and changes nothing; it does not compare
  the Machine of the configuration with that of the credential.
* Parsing and validation of configuration, encoding, the lengths of delays and
  the jitter, the allowlist of users (`run_as`), the environment of a command,
  sysinfo and the command line: conversions and input/output without state. The
  allowlist and the checks of a lease's fields are choices in `Agent` (a lease is
  verified or not), except for the Machine id, which is in `Enrollment`.

## What is left

1. Model: the users a lease may name (`ResolveRunAs`, `verify`) as a decision of its
   own; the lengths of the backoff; the delivery of output as part of `RunLife`, with
   `Reporter` as the implementation of that part.
2. Prove: what the liveness properties need of safety, as `SurvivorsExplained` does
   for `HonestGroupDies`: that a goroutine that waits always waits for one that can
   go on, in `Shutdown` and in `Chunker`.
