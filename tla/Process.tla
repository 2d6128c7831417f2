------------------------------ MODULE Process ------------------------------
(***************************************************************************)
(* One process of the runner (internal/runner): a shell in a process group *)
(* of its own, its timeout, its cancellation, and the end of the group.    *)
(*                                                                         *)
(* Threads: the callers of Cancel, the timer's callback (timer), the       *)
(* goroutine in wait (waiter) and the one in terminateGroup (group).  Time *)
(* is abstracted: the timeout, the grace and WaitDelay may elapse in any   *)
(* order, as Runner.Grace is free while waitDelay is fixed.                *)
(*                                                                         *)
(* The rest of the group is one descendant; whether the shell and the      *)
(* descendant ignore SIGTERM and whether the descendant inherited the      *)
(* output pipes is fixed by the command.                                   *)
(*                                                                         *)
(* An operator X_What is X with a plausible bug: the specification never   *)
(* uses it, the properties are known to fail when it replaces X.           *)
(***************************************************************************)
EXTENDS Naturals

CONSTANT Reason     \* cancel reasons: cancel_requested, agent_stopped

VARIABLES
    command,     \* how the shell and its descendant behave
    shell,       \* "alive", or what ended it
    descendant,
    termed,      \* members of the group SIGTERM was delivered to
    timer,       \* time.AfterFunc: armed, stopped, or its callback is running
    terminating, timedOut, cancelled, reason,   \* guarded by p.mu
    exited,
    group,       \* terminateGroup
    waiter,      \* wait
    result

osVars   == <<command, shell, descendant, termed>>
flagVars == <<terminating, timedOut, cancelled, reason>>
waitVars == <<exited, waiter, result>>
vars == <<osVars, timer, flagVars, group, waitVars>>

NoReason == ""

----------------------------------------------------------------------------
(* The operating system.                                                   *)

Alive(state) == state = "alive"

\* A shell that SIGTERM is about to kill forks no more.
Fork ==
    /\ Alive(shell) /\ descendant = "none"
    /\ "shell" \in termed => command.shellIgnoresTerm
    /\ descendant' = "alive"
    /\ UNCHANGED <<command, shell, termed, timer, flagVars, group, waitVars>>

ShellExits ==
    /\ Alive(shell)
    /\ shell' = "ended"
    /\ UNCHANGED <<command, descendant, termed, timer, flagVars, group, waitVars>>

DescendantExits ==
    /\ Alive(descendant)
    /\ descendant' = "ended"
    /\ UNCHANGED <<command, shell, termed, timer, flagVars, group, waitVars>>

ShellDiesOfTerm ==
    /\ Alive(shell) /\ "shell" \in termed /\ ~command.shellIgnoresTerm
    /\ shell' = "terminated"
    /\ UNCHANGED <<command, descendant, termed, timer, flagVars, group, waitVars>>

DescendantDiesOfTerm ==
    /\ Alive(descendant) /\ "descendant" \in termed /\ ~command.descendantIgnoresTerm
    /\ descendant' = "terminated"
    /\ UNCHANGED <<command, shell, termed, timer, flagVars, group, waitVars>>

----------------------------------------------------------------------------
(* terminate: the first termination wins.                                  *)

StopTimer == timer' = IF timer = "armed" THEN "stopped" ELSE timer

Terminable_AfterExit == ~terminating
Terminable_Again == ~exited
Terminable == ~exited /\ ~terminating

Terminate(byTimeout, why) ==
    IF Terminable
    THEN /\ terminating' = TRUE
         /\ timedOut' = byTimeout /\ cancelled' = ~byTimeout /\ reason' = why
         /\ group' = "term"
    ELSE UNCHANGED <<flagVars, group>>

Cancel(why) ==
    /\ Terminate(FALSE, why)
    /\ IF Terminable THEN StopTimer ELSE UNCHANGED timer
    /\ UNCHANGED <<osVars, waitVars>>

\* The timer expires: its callback runs from here on, Stop comes too late.
TimerExpires ==
    /\ timer = "armed"
    /\ timer' = "expired"
    /\ UNCHANGED <<osVars, flagVars, group, waitVars>>

TimeOut ==
    /\ timer = "expired"
    /\ timer' = "done"
    /\ Terminate(TRUE, NoReason)
    /\ UNCHANGED <<osVars, waitVars>>

----------------------------------------------------------------------------
(* terminateGroup.                                                         *)

Members_ShellOnly == {m \in {"shell"} : Alive(shell)}
Members == {m \in {"shell", "descendant"} :
                Alive(IF m = "shell" THEN shell ELSE descendant)}

TermGroup ==
    /\ group = "term"
    /\ termed' = termed \cup Members
    /\ group' = "grace"
    /\ UNCHANGED <<command, shell, descendant, timer, flagVars, waitVars>>

\* The process is done within the grace: terminateGroup returns.
DoneInGrace ==
    /\ group = "grace" /\ waiter = "done"
    /\ group' = "returned"
    /\ UNCHANGED <<osVars, timer, flagVars, waitVars>>

GraceElapses_NoKill ==
    /\ group = "grace"
    /\ group' = "killed"
    /\ UNCHANGED <<osVars, timer, flagVars, waitVars>>

GraceElapses ==
    /\ group = "grace"
    /\ group' = "killed"
    /\ shell' = IF Alive(shell) THEN "killed" ELSE shell
    /\ descendant' = IF Alive(descendant) THEN "killed" ELSE descendant
    /\ UNCHANGED <<command, termed, timer, flagVars, waitVars>>

GroupReturns ==
    /\ group = "killed" /\ waiter = "done"
    /\ group' = "returned"
    /\ UNCHANGED <<osVars, timer, flagVars, waitVars>>

----------------------------------------------------------------------------
(* wait.                                                                   *)

PipesHeld == Alive(descendant) /\ command.descendantHoldsPipes

\* cmd.Wait returns once the shell is gone and the pipes are closed.
Reap ==
    /\ waiter = "wait" /\ ~Alive(shell) /\ ~PipesHeld
    /\ waiter' = "reaped"
    /\ UNCHANGED <<osVars, timer, flagVars, group, exited, result>>

\* WaitDelay: the pipes are closed under a descendant that still holds them.
WaitDelayElapses ==
    /\ waiter = "wait" /\ ~Alive(shell) /\ PipesHeld
    /\ waiter' = "reaped"
    /\ UNCHANGED <<osVars, timer, flagVars, group, exited, result>>

Record ==
    /\ waiter = "reaped"
    /\ waiter' = "recorded"
    /\ exited' = TRUE
    /\ StopTimer
    /\ result' = [timedOut |-> timedOut, cancelled |-> cancelled, reason |-> reason, by |-> shell]
    /\ UNCHANGED <<osVars, flagVars, group>>

CloseDone ==
    /\ waiter = "recorded"
    /\ waiter' = "done"
    /\ UNCHANGED <<osVars, timer, flagVars, group, exited, result>>

----------------------------------------------------------------------------
Command == [shellIgnoresTerm : BOOLEAN, descendantIgnoresTerm : BOOLEAN,
            descendantHoldsPipes : BOOLEAN]

NoResult == [timedOut |-> FALSE, cancelled |-> FALSE, reason |-> NoReason, by |-> "alive"]

\* Runner.Start returned: the shell runs, the timer is armed, wait is running.
Init ==
    /\ command \in Command
    /\ shell = "alive" /\ descendant = "none" /\ termed = {}
    /\ timer = "armed"
    /\ terminating = FALSE /\ timedOut = FALSE /\ cancelled = FALSE /\ reason = NoReason
    /\ group = "idle"
    /\ exited = FALSE /\ waiter = "wait" /\ result = NoResult

System == Fork \/ ShellExits \/ DescendantExits \/ ShellDiesOfTerm \/ DescendantDiesOfTerm

TerminateGroup == TermGroup \/ DoneInGrace \/ GraceElapses \/ GroupReturns

Wait == Reap \/ WaitDelayElapses \/ Record \/ CloseDone

Next ==
    \/ System \/ TerminateGroup \/ Wait
    \/ TimerExpires \/ TimeOut
    \/ \E why \in Reason : Cancel(why)

Spec == Init /\ [][Next]_vars

\* Goroutines are scheduled, timers elapse, and a delivered SIGTERM kills
\* what does not ignore it.  Nothing else ever ends a process for certain.
Fairness ==
    /\ WF_vars(ShellDiesOfTerm) /\ WF_vars(DescendantDiesOfTerm)
    /\ WF_vars(TimerExpires) /\ WF_vars(TimeOut)
    /\ WF_vars(TerminateGroup) /\ WF_vars(Wait)

FairSpec == Spec /\ Fairness

----------------------------------------------------------------------------
(* Properties.                                                             *)

\* Types of the variables.
TypeOK ==
    /\ command \in Command
    /\ shell \in {"alive", "ended", "terminated", "killed"}
    /\ descendant \in {"none", "alive", "ended", "terminated", "killed"}
    /\ termed \subseteq {"shell", "descendant"}
    /\ timer \in {"armed", "stopped", "expired", "done"}
    /\ {terminating, timedOut, cancelled, exited} \subseteq BOOLEAN
    /\ reason \in Reason \cup {NoReason}
    /\ group \in {"idle", "term", "grace", "killed", "returned"}
    /\ waiter \in {"wait", "reaped", "recorded", "done"}
    /\ IF waiter \in {"wait", "reaped"}
       THEN result = NoResult
       ELSE result \in [timedOut : BOOLEAN, cancelled : BOOLEAN, reason : Reason \cup {NoReason},
                        by : {"ended", "terminated", "killed"}]

\* "The flags always say why the group was signalled" (terminate): the result
\* says timed out or cancelled, never both, exactly when a termination began
\* before the exit was recorded, and it does if a signal ended the shell.
FlagsExplainSignals ==
    waiter \in {"recorded", "done"} =>
        /\ ~(result.timedOut /\ result.cancelled)
        /\ (result.timedOut \/ result.cancelled) = (group # "idle")
        /\ result.by \in {"terminated", "killed"} => result.timedOut \/ result.cancelled
        /\ result.reason # NoReason => result.cancelled

\* "The first termination wins" (terminate): a cancellation racing a timeout
\* that already fired, or a second cancellation, changes nothing.
FirstTerminationWins ==
    [][terminating => UNCHANGED <<terminating, timedOut, cancelled, reason>>]_vars

\* Every process ends: whatever the command ignores and whoever holds its
\* pipes, the timeout brings Wait to return and the goroutines with it.
EveryProcessEnds == <>(waiter = "done" /\ group \in {"idle", "returned"})

\* What a termination does promise about the group: it leaves a descendant
\* behind only if that ignores SIGTERM, or was forked after it by a shell that
\* ignored it and then ended within the grace.
LeftBehind ==
    \/ command.descendantIgnoresTerm
    \/ command.shellIgnoresTerm /\ "descendant" \notin termed

HonestGroupDies == group = "returned" ~> ~Alive(descendant) \/ LeftBehind

\* "A timeout or a cancellation kills the group, so a command that spawns
\* children cannot leave them behind" (docs/security.md).
TerminationKillsGroup == group = "returned" ~> ~Alive(descendant)
============================================================================
