------------------------------ MODULE Shutdown ------------------------------
(***************************************************************************)
(* How the daemon stops (internal/agent/signals.go, Agent.Run and Wait,    *)
(* the end of cli/run.go).  A goroutine watches the signals, the main one  *)
(* polls and then drains, each Run has a reporter, and a Run may be in the *)
(* middle of its start when the signal arrives.                            *)
(*                                                                         *)
(* The start of a Run is Agent's, cut here at the points where the signal  *)
(* can fall between; a process is Process's, told to stop and exiting.     *)
(*                                                                         *)
(* An operator X_What is X with a plausible bug: the specification never   *)
(* uses it, the properties are known to fail when it replaces X.           *)
(***************************************************************************)
EXTENDS Naturals

CONSTANTS
    Run,
    MaxSignals,     \* bound: stop signals the process gets
    None

ASSUME ShutdownAssumption == MaxSignals \in Nat /\ None \notin Run

VARIABLES
    main,           \* where the main goroutine is
    cur,            \* the Run it is starting
    watcher,        \* where the goroutine of watchSignals is
    toCancel,       \* what is left of the registry snapshot of each cancelAll
    pending,        \* signals in the channel, which takes two
    sent,           \* signals sent so far
    forced,         \* stopper.forced is closed
    pollDone,       \* pollCtx is done
    reportDone,     \* reportCtx is done
    step,           \* the reporter of each Run
    proc,
    told,           \* processes cancelled with agent_stopped while they ran
    answered,       \* Runs whose finish the Server took or refused for good
    recorded,       \* Runs whose outcome the state store has
    inFlight,       \* a discovery runs in a goroutine of its own
    unsupported     \* the Server has no discovery

signalVars == <<pending, sent, forced>>
mainVars == <<main, cur>>
contextVars == <<pollDone, reportDone>>
runVars == <<step, proc, told, answered, recorded>>
discoveryVars == <<inFlight, unsupported>>
vars == <<mainVars, watcher, toCancel, signalVars, contextVars, runVars, discoveryVars>>

\* registry.all, the Runs that have a process; Agent.runs, a WaitGroup.
Cancellable == {r \in Run : proc[r] # "none" /\ step[r] \notin {"none", "done"}}
Working == {r \in Run : step[r] \notin {"none", "done"}}

\* Process.Cancel: nothing if the process is over.
Cancel(r) == told' = IF proc[r] = "running" THEN told \cup {r} ELSE told

----------------------------------------------------------------------------
(* Signals.                                                                *)

\* A signal that finds the channel full is dropped.
Signal ==
    /\ sent < MaxSignals /\ main \notin {"wait", "exited", "killed"}
    /\ sent' = sent + 1
    /\ pending' = IF pending < 2 THEN pending + 1 ELSE pending
    /\ UNCHANGED <<mainVars, watcher, toCancel, forced, contextVars, runVars, discoveryVars>>

\* Run has returned and unsubscribed: the next signal ends the daemon on the
\* spot, its default action.
SignalKills ==
    /\ sent < MaxSignals /\ main = "wait"
    /\ sent' = sent + 1
    /\ main' = "killed" /\ watcher' = "done"
    /\ UNCHANGED <<cur, toCancel, pending, forced, contextVars, runVars, discoveryVars>>

\* watchSignals: cancelAll, over a copy of the registry, close(stopped),
\* stopPolling, then the second signal.
FirstSignal ==
    /\ watcher = "watch" /\ pending > 0
    /\ pending' = pending - 1
    /\ watcher' = "cancel"
    /\ toCancel' = [toCancel EXCEPT !["watcher"] = Cancellable]
    /\ UNCHANGED <<mainVars, sent, forced, contextVars, runVars, discoveryVars>>

WatcherCancels(r) ==
    /\ watcher = "cancel" /\ r \in toCancel["watcher"]
    /\ Cancel(r)
    /\ toCancel' = [toCancel EXCEPT !["watcher"] = @ \ {r}]
    /\ UNCHANGED <<mainVars, watcher, signalVars, contextVars, step, proc, answered, recorded, discoveryVars>>

StopPolling_OneContext ==
    /\ watcher = "cancel" /\ toCancel["watcher"] = {}
    /\ pollDone' = TRUE /\ reportDone' = TRUE
    /\ watcher' = "second"
    /\ UNCHANGED <<mainVars, toCancel, signalVars, runVars, discoveryVars>>

StopPolling ==
    /\ watcher = "cancel" /\ toCancel["watcher"] = {}
    /\ pollDone' = TRUE
    /\ watcher' = "second"
    /\ UNCHANGED <<mainVars, toCancel, signalVars, reportDone, runVars, discoveryVars>>

SecondSignal ==
    /\ watcher = "second" /\ pending > 0
    /\ pending' = pending - 1 /\ forced' = TRUE
    /\ watcher' = "done"
    /\ UNCHANGED <<mainVars, toCancel, sent, contextVars, runVars, discoveryVars>>

----------------------------------------------------------------------------
(* The main goroutine while it polls.                                      *)

\* The Server accepted the start; with a done pollCtx the call fails.
StartAccepted(r) ==
    /\ main = "poll" /\ ~pollDone /\ step[r] = "none"
    /\ main' = "spawn" /\ cur' = r
    /\ UNCHANGED <<watcher, toCancel, signalVars, contextVars, runVars, discoveryVars>>

Launch(r, s) == step' = [step EXCEPT ![r] = s]

\* A Run cancelled before it started; the leases of the last answer are still
\* gone through when pollCtx is done.
LaunchCancelled(r) ==
    /\ main = "poll" /\ step[r] = "none"
    /\ Launch(r, "finish")
    /\ UNCHANGED <<mainVars, watcher, toCancel, signalVars, contextVars, proc, told, answered, recorded, discoveryVars>>

\* runner.Start fails, for one because pollCtx is done.
NotStarted ==
    /\ main = "spawn"
    /\ Launch(cur, "finish")
    /\ main' = "poll" /\ cur' = None
    /\ UNCHANGED <<watcher, toCancel, signalVars, contextVars, proc, told, answered, recorded, discoveryVars>>

\* It looks at pollCtx before it forks, and not afterwards.
PassesCheck ==
    /\ main = "spawn" /\ ~pollDone
    /\ main' = "fork"
    /\ UNCHANGED <<cur, watcher, toCancel, signalVars, contextVars, runVars, discoveryVars>>

StartProcess ==
    /\ main = "fork"
    /\ proc' = [proc EXCEPT ![cur] = "running"]
    /\ main' = "register"
    /\ UNCHANGED <<cur, watcher, toCancel, signalVars, contextVars, step, told, answered, recorded, discoveryVars>>

Register ==
    /\ main = "register"
    /\ Launch(cur, "supervise")
    /\ main' = "poll" /\ cur' = None
    /\ UNCHANGED <<watcher, toCancel, signalVars, contextVars, proc, told, answered, recorded, discoveryVars>>

----------------------------------------------------------------------------
(* drain, and the Wait that follows it.                                    *)

PollEnds_NoSecondCancel ==
    /\ main = "poll" /\ pollDone
    /\ main' = "cancel"
    /\ UNCHANGED <<cur, watcher, toCancel, signalVars, contextVars, runVars, discoveryVars>>

PollEnds ==
    /\ main = "poll" /\ pollDone
    /\ main' = "cancel"
    /\ toCancel' = [toCancel EXCEPT !["main"] = Cancellable]
    /\ UNCHANGED <<cur, watcher, signalVars, contextVars, runVars, discoveryVars>>

DrainCancels(r) ==
    /\ main = "cancel" /\ r \in toCancel["main"]
    /\ Cancel(r)
    /\ toCancel' = [toCancel EXCEPT !["main"] = @ \ {r}]
    /\ UNCHANGED <<mainVars, watcher, signalVars, contextVars, step, proc, answered, recorded, discoveryVars>>

BeginWait ==
    /\ main = "cancel" /\ toCancel["main"] = {}
    /\ main' = "drain"
    /\ UNCHANGED <<cur, watcher, toCancel, signalVars, contextVars, runVars, discoveryVars>>

EveryRunReported ==
    /\ main = "drain" /\ Working = {}
    /\ main' = "wait"
    /\ UNCHANGED <<cur, watcher, toCancel, signalVars, contextVars, runVars, discoveryVars>>

StopReporting ==
    /\ main = "drain"
    /\ reportDone' = TRUE
    /\ main' = "wait"
    /\ UNCHANGED <<cur, watcher, toCancel, signalVars, pollDone, runVars, discoveryVars>>

BudgetElapses == ~forced /\ StopReporting
ForcedStop == forced /\ StopReporting

\* Run has returned, done is closed; cli/run.go calls Wait.
Exit_WithoutWait ==
    /\ main = "wait"
    /\ main' = "exited"
    /\ UNCHANGED <<cur, watcher, toCancel, signalVars, contextVars, runVars, discoveryVars>>

Exit ==
    /\ main = "wait" /\ Working = {} /\ ~inFlight
    /\ main' = "exited"
    /\ UNCHANGED <<cur, watcher, toCancel, signalVars, contextVars, runVars, discoveryVars>>

WatcherEnds ==
    /\ watcher = "second" /\ main \in {"wait", "exited"}
    /\ watcher' = "done"
    /\ UNCHANGED <<mainVars, toCancel, signalVars, contextVars, runVars, discoveryVars>>

----------------------------------------------------------------------------
(* Processes and reporters.                                                *)

ProcessExits(r) ==
    /\ proc[r] = "running"
    /\ proc' = [proc EXCEPT ![r] = "exited"]
    /\ UNCHANGED <<mainVars, watcher, toCancel, signalVars, contextVars, step, told, answered, recorded, discoveryVars>>

At(r, s) == step[r] = s /\ main # "killed"

ExitNoticed(r) ==
    /\ At(r, "supervise") /\ proc[r] = "exited"
    /\ step' = [step EXCEPT ![r] = "finish"]
    /\ UNCHANGED <<mainVars, watcher, toCancel, signalVars, contextVars, proc, told, answered, recorded, discoveryVars>>

\* The outcomes of the Runs found active at start are in the store already.
NextStep(r) == IF r \in recorded THEN "done" ELSE "mark"

\* client.Retry: until the Server answers, or reportCtx is done.
FinishAnswered(r) ==
    /\ At(r, "finish") /\ ~reportDone
    /\ answered' = answered \cup {r}
    /\ step' = [step EXCEPT ![r] = NextStep(r)]
    /\ UNCHANGED <<mainVars, watcher, toCancel, signalVars, contextVars, proc, told, recorded, discoveryVars>>

FinishGivenUp(r) ==
    /\ At(r, "finish") /\ reportDone
    /\ step' = [step EXCEPT ![r] = NextStep(r)]
    /\ UNCHANGED <<mainVars, watcher, toCancel, signalVars, contextVars, proc, told, answered, recorded, discoveryVars>>

\* MarkFinished, then the registry and the WaitGroup let go of the Run.
MarkFinished(r) ==
    /\ At(r, "mark")
    /\ recorded' = recorded \cup {r}
    /\ step' = [step EXCEPT ![r] = "done"]
    /\ UNCHANGED <<mainVars, watcher, toCancel, signalVars, contextVars, proc, told, answered, discoveryVars>>

----------------------------------------------------------------------------
(* The discovery of scheduled work, on the poll context.                   *)

\* A work answer asked for it: one at a time, none once the Server is known
\* not to have it.
DiscoverIfAsked ==
    /\ main = "poll" /\ ~inFlight /\ ~unsupported
    /\ inFlight' = TRUE
    /\ UNCHANGED <<mainVars, watcher, toCancel, signalVars, contextVars, runVars, unsupported>>

\* Reported, failed, or cut by pollCtx.
DiscoveryEnds ==
    /\ inFlight /\ main # "killed"
    /\ inFlight' = FALSE
    /\ UNCHANGED <<mainVars, watcher, toCancel, signalVars, contextVars, runVars, unsupported>>

DiscoveryUnsupported ==
    /\ inFlight /\ ~pollDone
    /\ inFlight' = FALSE /\ unsupported' = TRUE
    /\ UNCHANGED <<mainVars, watcher, toCancel, signalVars, contextVars, runVars>>

----------------------------------------------------------------------------
\* Some Runs are being reported lost (reconcile) when polling begins.
Init ==
    /\ main = "poll" /\ cur = None /\ watcher = "watch"
    /\ toCancel = [g \in {"watcher", "main"} |-> {}]
    /\ pending = 0 /\ sent = 0 /\ forced = FALSE
    /\ pollDone = FALSE /\ reportDone = FALSE
    /\ recorded \in SUBSET Run
    /\ step = [r \in Run |-> IF r \in recorded THEN "finish" ELSE "none"]
    /\ proc = [r \in Run |-> "none"] /\ told = {} /\ answered = {}
    /\ inFlight = FALSE /\ unsupported = FALSE

Watch == FirstSignal \/ StopPolling \/ SecondSignal \/ WatcherEnds \/ \E r \in Run : WatcherCancels(r)

Start(r) == StartAccepted(r) \/ LaunchCancelled(r)
Spawn == NotStarted \/ PassesCheck \/ StartProcess \/ Register
Drain ==
    \/ PollEnds \/ BeginWait \/ EveryRunReported \/ BudgetElapses \/ ForcedStop \/ Exit
    \/ \E r \in Run : DrainCancels(r)

Discover == DiscoverIfAsked \/ DiscoveryEnds \/ DiscoveryUnsupported

Report(r) == ExitNoticed(r) \/ FinishAnswered(r) \/ FinishGivenUp(r) \/ MarkFinished(r)

Next ==
    \/ Signal \/ SignalKills \/ Watch \/ Spawn \/ Drain \/ Discover
    \/ \E r \in Run : Start(r) \/ Report(r) \/ ProcessExits(r)

Spec == Init /\ [][Next]_vars

(***************************************************************************)
(* Fairness.  Every goroutine takes its next step, the budget is a timer,  *)
(* a process told to stop exits (Process!EveryProcessEnds), a discovery    *)
(* ends once pollCtx is done.  Nothing is assumed of a process that was    *)
(* not told, nor of the Server's answers.                                  *)
(***************************************************************************)
Fairness ==
    /\ WF_vars(Watch) /\ WF_vars(Spawn) /\ WF_vars(Drain)
    /\ WF_vars(pollDone /\ DiscoveryEnds)
    /\ \A r \in Run :
        /\ WF_vars(ProcessExits(r) /\ r \in told)
        /\ WF_vars(ExitNoticed(r)) /\ WF_vars(FinishGivenUp(r)) /\ WF_vars(MarkFinished(r))

FairSpec == Spec /\ Fairness

----------------------------------------------------------------------------
(* Properties.                                                             *)

\* Types of the variables.
TypeOK ==
    /\ main \in {"poll", "spawn", "fork", "register", "cancel", "drain", "wait", "exited", "killed"}
    /\ cur \in Run \cup {None}
    /\ watcher \in {"watch", "cancel", "second", "done"}
    /\ toCancel \in [{"watcher", "main"} -> SUBSET Run]
    /\ pending \in 0..2 /\ sent \in 0..MaxSignals
    /\ {forced, pollDone, reportDone, inFlight, unsupported} \subseteq BOOLEAN
    /\ step \in [Run -> {"none", "supervise", "finish", "mark", "done"}]
    /\ proc \in [Run -> {"none", "running", "exited"}]
    /\ told \subseteq Run /\ answered \subseteq Run /\ recorded \subseteq Run

\* The daemon leaves nothing behind: when it exits by itself no process of its
\* Runs and no discovery is running and every Run it executed has its outcome
\* in the store, though the signal came in the middle of a start, the budget
\* ran out or a second signal came (drain, Wait).
LeavesNothingBehind ==
    main = "exited" => ~inFlight /\ \A r \in Run : proc[r] # "running" /\ (step[r] # "none" => r \in recorded)

\* No outcome is given up before the budget is spent or a second signal came
\* and drain has taken note of it: stopping to poll does not stop reporting.
ReportedUnlessCut ==
    \A r \in Run : step[r] \in {"mark", "done"} /\ r \notin answered =>
        main \in {"wait", "exited", "killed"}

\* One signal ends the daemon: it exits, or another signal kills it, whatever
\* the Server and the processes do, also if a process is spawned while the
\* signal is being handled (the second cancelAll of drain) or a discovery is
\* in flight.
SignalEndsDaemon == pending > 0 ~> main \in {"exited", "killed"}

\* "The first signal waits for anything in flight" (docs/troubleshooting.md):
\* no process is told to stop before a second signal has come.  The code tells
\* them on the first one.
FirstSignalWaits == told # {} => sent > 1
============================================================================
