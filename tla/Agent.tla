------------------------------- MODULE Agent -------------------------------
(***************************************************************************)
(* The daemon's poll loop, the leases it takes, the registry of the Runs   *)
(* it owns and the state file that outlives it (internal/agent: agent.go,  *)
(* lease.go, registry.go, startup.go; internal/state), against a Server    *)
(* that repeats leases and a network that loses requests and answers.      *)
(*                                                                         *)
(* Threads.  One goroutine polls and handles the leases of an answer one   *)
(* after the other (pc, cur); each registered Run has a reporter goroutine *)
(* (registry[r].step); each Run found active at start has a goroutine that *)
(* reports it lost (lostReports).  The delivery of one Run is in Reporter, *)
(* the process in Process, the stop in Shutdown: here a reporter is its    *)
(* steps, and a process its exit.                                          *)
(*                                                                         *)
(* A crash loses everything but the state file.  A save may fail, which    *)
(* the code only logs: memory then runs ahead of the disk.  A save, failed *)
(* or not, first drops outcomes that are old or too many (prune): here any *)
(* outcomes recorded before, StateStore says which.                        *)
(*                                                                         *)
(* An operator X_What is X with a plausible bug: the specification never   *)
(* uses it, the properties are known to fail when it replaces X.           *)
(***************************************************************************)
EXTENDS Integers, FiniteSets

CONSTANTS
    Run,                \* run ids
    MaxConcurrentRuns,  \* agent.conf max_concurrent_runs
    MaxSlots,           \* agent.go MaxSlots
    MaxCrashes,         \* bound: crashes of the daemon in a behaviour
    MaxPrunes,          \* bound: saves that drop outcomes in a behaviour
    None

ASSUME AgentAssumption ==
    /\ IsFiniteSet(Run)
    /\ MaxConcurrentRuns \in Nat \ {0}
    /\ MaxSlots \in Nat \ {0}
    /\ MaxCrashes \in Nat
    /\ MaxPrunes \in Nat

VARIABLES
    pc,          \* where the polling goroutine is
    cur,         \* the Run whose lease it is starting
    leases,      \* the leases of the answer it has not handled yet
    cancels,     \* cancel_run_ids of that answer
    registry,    \* the Runs this process owns, and their reporters
    lostReports, \* Runs being reported lost in the background
    mem,         \* the state store in memory
    disk,        \* state.json
    unsaved,     \* history: Runs active since no save has succeeded
    pruned,      \* history: Runs whose outcome a save dropped
    prunes,
    proc,        \* the process of each Run
    signalled,   \* processes told to stop by a cancellation
    status,      \* the Server's view of each Run
    outcome,     \* the outcome the Server accepted
    cancelReq,   \* Runs a user asked the Server to cancel
    execs,       \* history: how often a process was started for the Run
    repeated,    \* history: Runs whose lease was repeated after their start
    unrecorded,  \* history: Runs executed by a process that crashed before
                 \* the state file knew of them
    crashes

pollVars   == <<pc, cur, leases, cancels>>
storeVars  == <<mem, disk, unsaved, pruned, prunes>>
procVars   == <<proc, signalled, execs>>
serverVars == <<status, outcome, cancelReq, repeated>>
crashVars  == <<unrecorded, crashes>>
vars == <<pollVars, registry, lostReports, storeVars, procVars, serverVars, crashVars>>

----------------------------------------------------------------------------
(* Outcomes, by what produced them: the process ended by itself (success,  *)
(* failed, timed out), it was stopped on request, it never started, it was *)
(* cancelled before it was started, it was active when the Agent died.     *)
Outcome == {"ended", "stopped", "not_started", "cancelled_before_start", "lost"}

\* OutcomeOf and finishRequest: what the reporter will say of the Run.
OutcomeOf(r) == IF r \in signalled THEN "stopped" ELSE "ended"

Store == [active : SUBSET Run, recent : [Run -> Outcome \cup {None}]]
EmptyStore == [active |-> {}, recent |-> [r \in Run |-> None]]

\* The Run struct: what became of it (Process, SpawnErr or
\* CancelledBeforeStart) and how far its reporter has come.
Entry ==
    [kind : {"process"}, step : {"supervise"}, outcome : {None}]
    \cup [kind : {"process", "not_started", "cancelled_before_start"},
          step : {"finish", "mark", "release"}, outcome : Outcome]

ASSUME NoneAssumption == None \notin Run \cup Outcome \cup Entry

Registered(r) == registry[r] # None
Count == Cardinality({r \in Run : Registered(r)})

\* registry.active: start was accepted and finish has not been.
ActiveRuns == {r \in Run : Registered(r) /\ registry[r].kind # "cancelled_before_start"}

\* workRequest: min(max(free, 0), MaxSlots).
Slots == LET free == MaxConcurrentRuns - Count IN
         IF free < 0 THEN 0 ELSE IF free > MaxSlots THEN MaxSlots ELSE free

----------------------------------------------------------------------------
(* The state store.                                                        *)

Pruned(contents, old) ==
    [active |-> contents.active,
     recent |-> [r \in Run |-> IF r \in old THEN None ELSE contents.recent[r]]]

\* prune drops outcomes recorded before this save, never the one it records:
\* that is the youngest, and the last of the list.
Prune(old) ==
    /\ old \subseteq {r \in Run : mem.recent[r] # None}
    /\ pruned' = pruned \cup old
    /\ IF old = {} THEN prunes' = prunes ELSE prunes < MaxPrunes /\ prunes' = prunes + 1

Save_FileBehind(contents) ==
    \E old \in SUBSET Run :
        /\ Prune(old)
        /\ mem' = Pruned(contents, old)
        /\ \/ disk' = mem /\ unsaved' = {}
           \/ disk' = disk /\ unsaved' = contents.active \ (mem.active \ unsaved)

\* Store.save: memory always takes the new contents, pruned; the file takes all
\* of them or keeps the previous ones (atomicfile).
Save(contents) ==
    \E old \in SUBSET Run :
        /\ Prune(old)
        /\ mem' = Pruned(contents, old)
        /\ \/ disk' = mem' /\ unsaved' = {}
           \/ disk' = disk /\ unsaved' = contents.active \ (mem.active \ unsaved)

WithActive(r) == [mem EXCEPT !.active = @ \cup {r}]
WithFinished(r, o) == [active |-> mem.active \ {r}, recent |-> [mem.recent EXCEPT ![r] = o]]

----------------------------------------------------------------------------
(* The Server: what it answers, and what it does on its own.               *)

CanStart(r) == status[r] \in {"leased", "started"} /\ r \notin cancelReq
ServerStart(r) == status' = [status EXCEPT ![r] = "started"]

\* FinishRun: idempotent, the first outcome stays (run_finished afterwards).
ServerFinish(r, o) ==
    /\ status[r] # "queued"
    /\ status' = [status EXCEPT ![r] = "finished"]
    /\ outcome' = IF status[r] = "finished" THEN outcome ELSE [outcome EXCEPT ![r] = o]

UserCancels(r) ==
    /\ status[r] \in {"leased", "started"}
    /\ cancelReq' = cancelReq \cup {r}
    /\ UNCHANGED <<pollVars, registry, lostReports, storeVars, procVars, status, outcome, repeated, crashVars>>

\* A lease nobody started runs out and the Run is handed out afresh.
LeaseRunsOut(r) ==
    /\ status[r] = "leased" /\ r \notin cancelReq
    /\ status' = [status EXCEPT ![r] = "queued"]
    /\ UNCHANGED <<pollVars, registry, lostReports, storeVars, procVars, outcome, cancelReq, repeated, crashVars>>

----------------------------------------------------------------------------
(* Start of the daemon: reconcile.                                         *)

\* One turn of reconcile's loop: the outcome is recorded first, then
\* delivered in the background.
Reconcile(r) ==
    /\ pc = "reconcile" /\ r \in mem.active
    /\ Save(WithFinished(r, "lost"))
    /\ lostReports' = lostReports \cup {r}
    /\ UNCHANGED <<pollVars, registry, procVars, serverVars, crashVars>>

Reconciled ==
    /\ pc = "reconcile" /\ mem.active = {}
    /\ pc' = "poll"
    /\ UNCHANGED <<cur, leases, cancels, registry, lostReports, storeVars, procVars, serverVars, crashVars>>

----------------------------------------------------------------------------
(* The poll loop.                                                          *)

\* The Server answers the work request: Runs it leases now, as many as there
\* are slots, and leases it repeats.  The answer is in flight until Receive.
Poll ==
    /\ pc = "poll"
    /\ \E fresh \in SUBSET {r \in Run : status[r] = "queued"},
          again \in SUBSET {r \in Run : status[r] \in {"leased", "started"}} :
         /\ Cardinality(fresh) <= Slots
         /\ status' = [r \in Run |-> IF r \in fresh THEN "leased" ELSE status[r]]
         /\ leases' = fresh \cup again
         /\ repeated' = repeated \cup {r \in again : status[r] = "started"}
    /\ cancels' = {r \in cancelReq : status[r] # "finished"}
    /\ pc' = "await"
    /\ UNCHANGED <<cur, registry, lostReports, storeVars, procVars, outcome, cancelReq, crashVars>>

\* The answer is lost: backoff, then the next poll.
AnswerLost ==
    /\ pc = "await"
    /\ pc' = "poll" /\ leases' = {} /\ cancels' = {}
    /\ UNCHANGED <<cur, registry, lostReports, storeVars, procVars, serverVars, crashVars>>

Cancellable_IgnoresIds(ids) == {r \in Run : Registered(r) /\ registry[r].kind = "process"}

\* cancel: only Runs that are registered and have a process; a process that
\* is no longer supervised has exited and ignores it.
Cancellable(ids) ==
    {r \in ids : Registered(r) /\ registry[r].kind = "process" /\ proc[r] = "running"}

Receive ==
    /\ pc = "await"
    /\ pc' = "handle"
    /\ signalled' = signalled \cup Cancellable(cancels)
    /\ UNCHANGED <<cur, leases, cancels, registry, lostReports, storeVars, proc, execs, serverVars, crashVars>>

HandledAll ==
    /\ pc = "handle" /\ leases = {}
    /\ pc' = "poll" /\ cancels' = {}
    /\ UNCHANGED <<cur, leases, registry, lostReports, storeVars, procVars, serverVars, crashVars>>

----------------------------------------------------------------------------
(* handleLease, one branch each.                                           *)

Handling(r) == pc = "handle" /\ r \in leases /\ leases' = leases \ {r}

Launch(r, kind, step, o) ==
    registry' = [registry EXCEPT ![r] = [kind |-> kind, step |-> step, outcome |-> o]]

\* acknowledge: start is sent once more if it was ever accepted; whatever the
\* answer, nothing else happens.
Acknowledge(r) ==
    /\ Handling(r) /\ Registered(r)
    /\ status' \in IF r \in ActiveRuns /\ CanStart(r)
                   THEN {status, [status EXCEPT ![r] = "started"]} ELSE {status}
    /\ UNCHANGED <<pc, cur, cancels, registry, lostReports, storeVars, procVars, outcome, cancelReq, repeated, crashVars>>

Resend_GuessesLost(r) ==
    /\ Handling(r) /\ ~Registered(r) /\ mem.recent[r] # None
    /\ ServerFinish(r, "lost") \/ UNCHANGED <<status, outcome>>
    /\ UNCHANGED <<pc, cur, cancels, registry, lostReports, storeVars, procVars, cancelReq, repeated, crashVars>>

\* Resend: one attempt, which may not arrive.
Resend(r) ==
    /\ Handling(r) /\ ~Registered(r) /\ mem.recent[r] # None
    /\ ServerFinish(r, mem.recent[r]) \/ UNCHANGED <<status, outcome>>
    /\ UNCHANGED <<pc, cur, cancels, registry, lostReports, storeVars, procVars, cancelReq, repeated, crashVars>>

Unknown_IgnoresRecord(r) == ~Registered(r)
Unknown(r) == ~Registered(r) /\ mem.recent[r] = None

\* verify refuses the lease (malformed, of another machine, expired, or the
\* Run is still listed active), or there is no free slot.  A lease can be
\* malformed or expired at any time, so no guard says when it is not.
Ignore(r) ==
    /\ Handling(r) /\ Unknown(r)
    /\ UNCHANGED <<pc, cur, cancels, registry, lostReports, storeVars, procVars, serverVars, crashVars>>

Verified(r) == Unknown(r) /\ r \notin mem.active

\* Cancelled before it was started: handed to a reporter, no slot needed.
LaunchCancelled(r) ==
    /\ Handling(r) /\ Verified(r) /\ r \in cancels
    /\ Launch(r, "cancelled_before_start", "finish", "cancelled_before_start")
    /\ UNCHANGED <<pc, cur, cancels, lostReports, storeVars, procVars, serverVars, crashVars>>

FreeSlot_OffByOne == Count <= MaxConcurrentRuns
FreeSlot == Count < MaxConcurrentRuns

Accept(r) ==
    /\ Handling(r) /\ Verified(r) /\ r \notin cancels
    /\ FreeSlot
    /\ pc' = "start" /\ cur' = r
    /\ UNCHANGED <<cancels, registry, lostReports, storeVars, procVars, serverVars, crashVars>>

----------------------------------------------------------------------------
(* start: retried until the lease expires.                                 *)

StartAccepted ==
    /\ pc = "start" /\ CanStart(cur)
    /\ ServerStart(cur)
    /\ pc' = "spawn"
    /\ UNCHANGED <<cur, leases, cancels, registry, lostReports, storeVars, procVars, outcome, cancelReq, repeated, crashVars>>

\* The Server started the Run and its answer was lost: start is retried.
StartAnswerLost ==
    /\ pc = "start" /\ CanStart(cur)
    /\ ServerStart(cur)
    /\ UNCHANGED <<pollVars, registry, lostReports, storeVars, procVars, outcome, cancelReq, repeated, crashVars>>

StartDropped_SpawnsAnyway ==
    /\ pc = "start"
    /\ pc' = "spawn"
    /\ UNCHANGED <<cur, leases, cancels, registry, lostReports, storeVars, procVars, serverVars, crashVars>>

\* A conflict, another refusal, or the lease expired: the lease is dropped.
StartDropped ==
    /\ pc = "start"
    /\ pc' = "handle" /\ cur' = None
    /\ UNCHANGED <<leases, cancels, registry, lostReports, storeVars, procVars, serverVars, crashVars>>

----------------------------------------------------------------------------
(* spawn and launch.                                                       *)

\* The execution user is not permitted or the process does not start.
NotStarted ==
    /\ pc = "spawn"
    /\ Launch(cur, "not_started", "finish", "not_started")
    /\ pc' = "handle" /\ cur' = None
    /\ UNCHANGED <<leases, cancels, lostReports, storeVars, procVars, serverVars, crashVars>>

StartProcess ==
    /\ pc = "spawn"
    /\ proc' = [proc EXCEPT ![cur] = "running"]
    /\ execs' = [execs EXCEPT ![cur] = @ + 1]
    /\ pc' = "mark_active"
    /\ UNCHANGED <<cur, leases, cancels, registry, lostReports, storeVars, signalled, serverVars, crashVars>>

\* The process exists before the state file says so.
MarkActive ==
    /\ pc = "mark_active"
    /\ Save(WithActive(cur))
    /\ Launch(cur, "process", "supervise", None)
    /\ pc' = "handle" /\ cur' = None
    /\ UNCHANGED <<leases, cancels, lostReports, procVars, serverVars, crashVars>>

----------------------------------------------------------------------------
(* The reporter of a registered Run.                                       *)

At(r, step) == Registered(r) /\ registry[r].step = step

\* A heartbeat or an output answer says cancel_requested.
CancelByAnswer(r) ==
    /\ At(r, "supervise") /\ r \in cancelReq
    /\ signalled' = signalled \cup {r}
    /\ UNCHANGED <<pollVars, registry, lostReports, storeVars, proc, execs, serverVars, crashVars>>

Exit_NoOutcome(r) ==
    /\ At(r, "supervise")
    /\ proc' = [proc EXCEPT ![r] = "exited"]
    /\ registry' = [registry EXCEPT ![r].step = "finish"]
    /\ UNCHANGED <<pollVars, lostReports, storeVars, signalled, execs, serverVars, crashVars>>

\* supervise returns: the process has exited, its outcome is settled.
Exit(r) ==
    /\ At(r, "supervise")
    /\ proc' = [proc EXCEPT ![r] = "exited"]
    /\ registry' = [registry EXCEPT ![r].step = "finish", ![r].outcome = OutcomeOf(r)]
    /\ UNCHANGED <<pollVars, lostReports, storeVars, signalled, execs, serverVars, crashVars>>

Finish(r) ==
    /\ At(r, "finish")
    /\ ServerFinish(r, registry[r].outcome)
    /\ registry' = [registry EXCEPT ![r].step = "mark"]
    /\ UNCHANGED <<pollVars, lostReports, storeVars, procVars, cancelReq, repeated, crashVars>>

\* The Server has the outcome, the reporter does not know: it retries.
FinishAnswerLost(r) ==
    /\ At(r, "finish")
    /\ ServerFinish(r, registry[r].outcome)
    /\ UNCHANGED <<pollVars, registry, lostReports, storeVars, procVars, cancelReq, repeated, crashVars>>

\* Refused for good (not_leased, 404, a rejected credential): the outcome is
\* kept for the next lease.
FinishRefused(r) ==
    /\ At(r, "finish")
    /\ registry' = [registry EXCEPT ![r].step = "mark"]
    /\ UNCHANGED <<pollVars, lostReports, storeVars, procVars, serverVars, crashVars>>

MarkFinished(r) ==
    /\ At(r, "mark")
    /\ Save(WithFinished(r, registry[r].outcome))
    /\ registry' = [registry EXCEPT ![r].step = "release"]
    /\ UNCHANGED <<pollVars, lostReports, procVars, serverVars, crashVars>>

\* launch's deferred registry.remove.
Release(r) ==
    /\ At(r, "release")
    /\ registry' = [registry EXCEPT ![r] = None]
    /\ UNCHANGED <<pollVars, lostReports, storeVars, procVars, serverVars, crashVars>>

----------------------------------------------------------------------------
(* reportLost, in the background.                                          *)

ReportLost(r) ==
    /\ r \in lostReports
    /\ ServerFinish(r, "lost")
    /\ lostReports' = lostReports \ {r}
    /\ UNCHANGED <<pollVars, registry, storeVars, procVars, cancelReq, repeated, crashVars>>

ReportLostAnswerLost(r) ==
    /\ r \in lostReports
    /\ ServerFinish(r, "lost")
    /\ UNCHANGED <<pollVars, registry, lostReports, storeVars, procVars, cancelReq, repeated, crashVars>>

ReportLostRefused(r) ==
    /\ r \in lostReports
    /\ lostReports' = lostReports \ {r}
    /\ UNCHANGED <<pollVars, registry, storeVars, procVars, serverVars, crashVars>>

----------------------------------------------------------------------------
(* Crash and restart.                                                      *)

Recorded(store, r) == r \in store.active \/ store.recent[r] # None

Crash ==
    /\ pc # "down" /\ crashes < MaxCrashes
    /\ crashes' = crashes + 1
    /\ pc' = "down" /\ cur' = None /\ leases' = {} /\ cancels' = {}
    /\ registry' = [r \in Run |-> None] /\ lostReports' = {}
    /\ mem' = EmptyStore /\ unsaved' = {}
    /\ proc' = [r \in Run |-> IF proc[r] = "running" THEN "orphan" ELSE proc[r]]
    /\ signalled' = {}
    /\ unrecorded' = unrecorded \cup {r \in Run \ pruned : execs[r] > 0 /\ ~Recorded(disk, r)}
    /\ UNCHANGED <<disk, pruned, prunes, execs, serverVars>>

Restart_StartsEmpty ==
    /\ pc = "down"
    /\ pc' = "reconcile" /\ mem' = EmptyStore
    /\ UNCHANGED <<cur, leases, cancels, registry, lostReports, disk, unsaved, pruned, prunes>>
    /\ UNCHANGED <<procVars, serverVars, crashVars>>

\* Load: the previous contents of the file.
Restart ==
    /\ pc = "down"
    /\ pc' = "reconcile" /\ mem' = disk
    /\ UNCHANGED <<cur, leases, cancels, registry, lostReports, disk, unsaved, pruned, prunes>>
    /\ UNCHANGED <<procVars, serverVars, crashVars>>

----------------------------------------------------------------------------
Init ==
    /\ pc = "reconcile" /\ cur = None /\ leases = {} /\ cancels = {}
    /\ registry = [r \in Run |-> None] /\ lostReports = {}
    /\ mem = EmptyStore /\ disk = EmptyStore /\ unsaved = {} /\ pruned = {} /\ prunes = 0
    /\ proc = [r \in Run |-> "none"] /\ signalled = {} /\ execs = [r \in Run |-> 0]
    /\ status = [r \in Run |-> "queued"] /\ outcome = [r \in Run |-> None] /\ cancelReq = {} /\ repeated = {}
    /\ unrecorded = {} /\ crashes = 0

HandleLease(r) == Acknowledge(r) \/ Resend(r) \/ Ignore(r) \/ LaunchCancelled(r) \/ Accept(r)

Report(r) ==
    \/ CancelByAnswer(r) \/ Exit(r)
    \/ Finish(r) \/ FinishAnswerLost(r) \/ FinishRefused(r)
    \/ MarkFinished(r) \/ Release(r)

ReportLostRun(r) == ReportLost(r) \/ ReportLostAnswerLost(r) \/ ReportLostRefused(r)

PollLoop ==
    \/ Reconciled \/ Poll \/ AnswerLost \/ Receive \/ HandledAll
    \/ StartAccepted \/ StartAnswerLost \/ StartDropped
    \/ NotStarted \/ StartProcess \/ MarkActive
    \/ \E r \in Run : Reconcile(r) \/ HandleLease(r)

Next ==
    \/ PollLoop
    \/ \E r \in Run : Report(r) \/ ReportLostRun(r) \/ UserCancels(r) \/ LeaseRunsOut(r)
    \/ Crash \/ Restart

Spec == Init /\ [][Next]_vars

----------------------------------------------------------------------------
(* Properties.                                                             *)

\* Types of the variables.
TypeOK ==
    /\ pc \in {"down", "reconcile", "poll", "await", "handle", "start", "spawn", "mark_active"}
    /\ cur \in Run \cup {None} /\ leases \subseteq Run /\ cancels \subseteq Run
    /\ registry \in [Run -> Entry \cup {None}] /\ lostReports \subseteq Run
    /\ mem \in Store /\ disk \in Store
    /\ unsaved \subseteq Run /\ pruned \subseteq Run /\ prunes \in Nat
    /\ proc \in [Run -> {"none", "running", "exited", "orphan"}]
    /\ signalled \subseteq Run /\ execs \in [Run -> Nat]
    /\ status \in [Run -> {"queued", "leased", "started", "finished"}]
    /\ outcome \in [Run -> Outcome \cup {None}]
    /\ cancelReq \subseteq Run /\ repeated \subseteq Run
    /\ unrecorded \subseteq Run /\ crashes \in Nat

\* What the Agent no longer knows of: a crash came before the record, or a save
\* dropped the outcome.
Forgotten == unrecorded \cup pruned

\* "A run id is never executed twice" (state.go), and precisely when that can
\* fail: only if the Server repeats the lease of a Run it saw start, and either
\* a crash fell after the start of its process and before a successful save, or
\* its outcome was pruned meanwhile (Remembered of StateStore says when).
AtMostOnce == \A r \in Run : execs[r] > 1 => r \in Forgotten /\ r \in repeated

\* Nothing runs without the Server's consent: a process exists only for a Run
\* whose start the Server accepted, answers lost and leases dropped or run
\* out in between included (start, spawn).
StartedWithConsent == \A r \in Run : execs[r] > 0 => status[r] \in {"started", "finished"}

Running(r) == proc[r] = "running"

\* max_concurrent_runs bounds the processes of this incarnation whatever the
\* Server leases; Runs that failed to start or were cancelled before it share
\* the registry and may exceed the limit, processes may not (handleLease).
WithinLimit == Cardinality({r \in Run : Running(r)}) <= MaxConcurrentRuns

\* A live process always has an owner that names it in the next work request,
\* and it is on file as active, so that the next incarnation finds it (launch,
\* MarkActive).  The exception is a process since whose start no save succeeded
\* (spawn and the reporter only log it): memory has it, and a crash forgets it.
NoForgottenProcess ==
    \A r \in Run : Running(r) =>
        \/ pc = "mark_active" /\ cur = r
        \/ /\ r \in ActiveRuns /\ r \in mem.active
           /\ r \in disk.active \/ r \in unsaved

\* What the Server is told is what happened: the outcome of a process only
\* once it is over, "stopped" only if a user asked for it, "not started" and
\* "cancelled before start" only if none was started, "lost" only for a
\* process a crash interrupted (except for Runs the Agent has forgotten).
TruthfulOutcome ==
    \A r \in Run \ Forgotten :
        /\ outcome[r] \in {"ended", "stopped", "lost"} => execs[r] > 0 /\ ~Running(r)
        /\ outcome[r] \in {"not_started", "cancelled_before_start"} => execs[r] = 0
        /\ outcome[r] = "stopped" => r \in cancelReq
        /\ outcome[r] = "lost" => crashes > 0

\* The outcome on record is the one the Server has.  They differ only when a
\* crash fell between the accepted finish and its save: the record then says
\* lost, and the Server keeps the real outcome.  A Run whose outcome was pruned
\* may have been executed again.
OutcomesAgree ==
    \A r \in Run \ pruned : mem.recent[r] # None /\ outcome[r] # None =>
        mem.recent[r] = outcome[r] \/ (mem.recent[r] = "lost" /\ crashes > 0)

\* state.json forgets by pruning only: a Run it lists as active leaves the list
\* only for an outcome, and the outcome it has of a Run stays as it is, crashes,
\* failed saves and repeated leases included, until prune drops it.
FileForgetsByPruning ==
    [][\A r \in Run \ pruned' :
        /\ r \in disk.active => r \in disk'.active \/ disk'.recent[r] # None
        /\ disk.recent[r] # None => disk'.recent[r] = disk.recent[r]]_vars

----------------------------------------------------------------------------
(* The life of each Run, as the Server and its user see it.                *)

OfRun(r) == INSTANCE RunLife WITH
    consent <- status[r] = "started", asked <- r \in cancelReq, process <- proc[r],
    interrupted <- crashes > 0, forgotten <- r \in Forgotten, told <- outcome[r]

\* Whatever leases, answers, saves and other Runs do, each Run lives a RunLife:
\* it starts with consent, is executed once unless forgotten, and is told as it
\* was, once, after its process is over.
ImplementsRunLife ==
    /\ \A r \in Run : OfRun(r)!NewRun
    /\ [][\A r \in Run : OfRun(r)!RunLifeNext \/ UNCHANGED OfRun(r)!runLifeVars]_vars
============================================================================
