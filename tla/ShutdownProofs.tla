--------------------------- MODULE ShutdownProofs ---------------------------
(***************************************************************************)
(* What is proved of Shutdown, for any set of Runs and any number of       *)
(* signals: an exit leaves nothing behind, and no outcome is given up      *)
(* before drain cut the reporting.                                         *)
(*                                                                         *)
(* A process that runs has a reporter that supervises it, or is the one    *)
(* the main goroutine has just forked (Owned); Exit waits for reporters,   *)
(* and one that is done has recorded its outcome (Settled).  A reporter    *)
(* gives up only when reportCtx is done, which only drain brings about     *)
(* (Cut).                                                                  *)
(***************************************************************************)
EXTENDS Shutdown, TLAPS

Types ==
    /\ main \in {"poll", "spawn", "fork", "register", "cancel", "drain", "wait", "exited", "killed"}
    /\ step \in [Run -> {"none", "supervise", "finish", "mark", "done"}]
    /\ proc \in [Run -> {"none", "running", "exited"}]

\* The Run the main goroutine is starting has no reporter yet.
InHand == main \in {"spawn", "fork", "register"} => cur \in Run /\ step[cur] = "none"

Owned == \A r \in Run : proc[r] = "running" => step[r] = "supervise" \/ (main = "register" /\ cur = r)

Settled ==
    /\ \A r \in Run : step[r] = "done" => r \in recorded
    /\ main = "exited" => ~inFlight /\ \A r \in Run : step[r] \in {"none", "done"}

Over == main \in {"wait", "exited", "killed"}

Cut ==
    /\ reportDone => Over
    /\ \A r \in Run : step[r] \in {"mark", "done"} /\ r \notin answered => Over

Inv == TypeOK /\ InHand /\ Owned /\ Settled /\ Cut

LEMMA StepTypes == TypeOK => Types
  BY DEF TypeOK, Types

LEMMA InitInv == Init => Inv
<1> SUFFICES ASSUME Init PROVE Inv
  OBVIOUS
<1> USE DEF Init
<1>1. TypeOK
  <2>1. pending \in 0..2 /\ sent \in 0..MaxSignals
    BY ShutdownAssumption
  <2>2. QED
    BY <2>1 DEF TypeOK
<1>2. InHand /\ Owned /\ Settled /\ Cut
  BY DEF InHand, Owned, Settled, Cut, Over
<1>3. QED
  BY <1>1, <1>2 DEF Inv

LEMMA NextTypeOK == TypeOK /\ InHand /\ [Next]_vars => TypeOK'
<1> SUFFICES ASSUME TypeOK, InHand, [Next]_vars PROVE TypeOK'
  OBVIOUS
<1> USE DEF TypeOK, InHand, vars, mainVars, signalVars, contextVars, runVars, discoveryVars
<1>1. CASE Signal
  <2>1. pending' \in 0..2 /\ sent' \in 0..MaxSignals
    BY <1>1, ShutdownAssumption DEF Signal
  <2>2. QED
    BY <1>1, <2>1 DEF Signal
<1>2. CASE SignalKills
  <2>1. pending' \in 0..2 /\ sent' \in 0..MaxSignals
    BY <1>2, ShutdownAssumption DEF SignalKills
  <2>2. QED
    BY <1>2, <2>1 DEF SignalKills
<1>3. CASE FirstSignal
  BY <1>3 DEF FirstSignal, Cancellable
<1>4. ASSUME NEW r \in Run, WatcherCancels(r) PROVE TypeOK'
  BY <1>4 DEF WatcherCancels, Cancel
<1>5. CASE StopPolling
  BY <1>5 DEF StopPolling
<1>6. CASE SecondSignal
  BY <1>6 DEF SecondSignal
<1>7. CASE WatcherEnds
  BY <1>7 DEF WatcherEnds
<1>8. ASSUME NEW r \in Run, StartAccepted(r) PROVE TypeOK'
  BY <1>8 DEF StartAccepted
<1>9. ASSUME NEW r \in Run, LaunchCancelled(r) PROVE TypeOK'
  BY <1>9 DEF LaunchCancelled, Launch
<1>10. CASE NotStarted
  BY <1>10 DEF NotStarted, Launch
<1>11. CASE PassesCheck
  BY <1>11 DEF PassesCheck
<1>12. CASE StartProcess
  BY <1>12 DEF StartProcess
<1>13. CASE Register
  BY <1>13 DEF Register, Launch
<1>14. CASE PollEnds
  BY <1>14 DEF PollEnds, Cancellable
<1>15. ASSUME NEW r \in Run, DrainCancels(r) PROVE TypeOK'
  BY <1>15 DEF DrainCancels, Cancel
<1>16. CASE BeginWait
  BY <1>16 DEF BeginWait
<1>17. CASE EveryRunReported
  BY <1>17 DEF EveryRunReported
<1>18. CASE BudgetElapses
  BY <1>18 DEF BudgetElapses, StopReporting
<1>19. CASE ForcedStop
  BY <1>19 DEF ForcedStop, StopReporting
<1>20. CASE Exit
  BY <1>20 DEF Exit, Working
<1>21. ASSUME NEW r \in Run, ProcessExits(r) PROVE TypeOK'
  BY <1>21 DEF ProcessExits
<1>22. ASSUME NEW r \in Run, ExitNoticed(r) PROVE TypeOK'
  BY <1>22 DEF ExitNoticed, At
<1>23. ASSUME NEW r \in Run, FinishAnswered(r) PROVE TypeOK'
  BY <1>23 DEF FinishAnswered, At, NextStep
<1>24. ASSUME NEW r \in Run, FinishGivenUp(r) PROVE TypeOK'
  BY <1>24 DEF FinishGivenUp, At, NextStep
<1>25. ASSUME NEW r \in Run, MarkFinished(r) PROVE TypeOK'
  BY <1>25 DEF MarkFinished, At
<1>26. CASE DiscoverIfAsked
  BY <1>26 DEF DiscoverIfAsked
<1>27. CASE DiscoveryEnds
  BY <1>27 DEF DiscoveryEnds
<1>28. CASE DiscoveryUnsupported
  BY <1>28 DEF DiscoveryUnsupported
<1>29. CASE UNCHANGED vars
  BY <1>29
<1>30. QED
  BY <1>1, <1>2, <1>3, <1>4, <1>5, <1>6, <1>7, <1>8, <1>9, <1>10, <1>11,
     <1>12, <1>13, <1>14, <1>15, <1>16, <1>17, <1>18, <1>19, <1>20, <1>21,
     <1>22, <1>23, <1>24, <1>25, <1>26, <1>27, <1>28, <1>29
     DEF Next, Watch, Spawn, Drain, Discover, Start, Report

LEMMA NextInHand == Types /\ InHand /\ [Next]_vars => InHand'
<1> SUFFICES ASSUME Types, InHand, [Next]_vars PROVE InHand'
  OBVIOUS
<1> USE DEF Types, InHand, vars, mainVars, signalVars, contextVars, runVars, discoveryVars
<1>1. CASE Signal
  BY <1>1 DEF Signal
<1>2. CASE SignalKills
  BY <1>2 DEF SignalKills
<1>3. CASE FirstSignal
  BY <1>3 DEF FirstSignal, Cancellable
<1>4. ASSUME NEW r \in Run, WatcherCancels(r) PROVE InHand'
  BY <1>4 DEF WatcherCancels, Cancel
<1>5. CASE StopPolling
  BY <1>5 DEF StopPolling
<1>6. CASE SecondSignal
  BY <1>6 DEF SecondSignal
<1>7. CASE WatcherEnds
  BY <1>7 DEF WatcherEnds
<1>8. ASSUME NEW r \in Run, StartAccepted(r) PROVE InHand'
  BY <1>8 DEF StartAccepted
<1>9. ASSUME NEW r \in Run, LaunchCancelled(r) PROVE InHand'
  BY <1>9 DEF LaunchCancelled, Launch
<1>10. CASE NotStarted
  BY <1>10 DEF NotStarted, Launch
<1>11. CASE PassesCheck
  BY <1>11 DEF PassesCheck
<1>12. CASE StartProcess
  BY <1>12 DEF StartProcess
<1>13. CASE Register
  BY <1>13 DEF Register, Launch
<1>14. CASE PollEnds
  BY <1>14 DEF PollEnds, Cancellable
<1>15. ASSUME NEW r \in Run, DrainCancels(r) PROVE InHand'
  BY <1>15 DEF DrainCancels, Cancel
<1>16. CASE BeginWait
  BY <1>16 DEF BeginWait
<1>17. CASE EveryRunReported
  BY <1>17 DEF EveryRunReported
<1>18. CASE BudgetElapses
  BY <1>18 DEF BudgetElapses, StopReporting
<1>19. CASE ForcedStop
  BY <1>19 DEF ForcedStop, StopReporting
<1>20. CASE Exit
  BY <1>20 DEF Exit, Working
<1>21. ASSUME NEW r \in Run, ProcessExits(r) PROVE InHand'
  BY <1>21 DEF ProcessExits
<1>22. ASSUME NEW r \in Run, ExitNoticed(r) PROVE InHand'
  BY <1>22 DEF ExitNoticed, At
<1>23. ASSUME NEW r \in Run, FinishAnswered(r) PROVE InHand'
  BY <1>23 DEF FinishAnswered, At, NextStep
<1>24. ASSUME NEW r \in Run, FinishGivenUp(r) PROVE InHand'
  BY <1>24 DEF FinishGivenUp, At, NextStep
<1>25. ASSUME NEW r \in Run, MarkFinished(r) PROVE InHand'
  BY <1>25 DEF MarkFinished, At
<1>26. CASE DiscoverIfAsked
  BY <1>26 DEF DiscoverIfAsked
<1>27. CASE DiscoveryEnds
  BY <1>27 DEF DiscoveryEnds
<1>28. CASE DiscoveryUnsupported
  BY <1>28 DEF DiscoveryUnsupported
<1>29. CASE UNCHANGED vars
  BY <1>29
<1>30. QED
  BY <1>1, <1>2, <1>3, <1>4, <1>5, <1>6, <1>7, <1>8, <1>9, <1>10, <1>11,
     <1>12, <1>13, <1>14, <1>15, <1>16, <1>17, <1>18, <1>19, <1>20, <1>21,
     <1>22, <1>23, <1>24, <1>25, <1>26, <1>27, <1>28, <1>29
     DEF Next, Watch, Spawn, Drain, Discover, Start, Report

LEMMA NextOwned == Types /\ InHand /\ Owned /\ [Next]_vars => Owned'
<1> SUFFICES ASSUME Types, InHand, Owned, [Next]_vars PROVE Owned'
  OBVIOUS
<1> USE DEF Types, InHand, Owned, vars, mainVars, signalVars, contextVars, runVars, discoveryVars
<1>1. CASE Signal
  BY <1>1 DEF Signal
<1>2. CASE SignalKills
  BY <1>2 DEF SignalKills
<1>3. CASE FirstSignal
  BY <1>3 DEF FirstSignal, Cancellable
<1>4. ASSUME NEW r \in Run, WatcherCancels(r) PROVE Owned'
  BY <1>4 DEF WatcherCancels, Cancel
<1>5. CASE StopPolling
  BY <1>5 DEF StopPolling
<1>6. CASE SecondSignal
  BY <1>6 DEF SecondSignal
<1>7. CASE WatcherEnds
  BY <1>7 DEF WatcherEnds
<1>8. ASSUME NEW r \in Run, StartAccepted(r) PROVE Owned'
  BY <1>8 DEF StartAccepted
<1>9. ASSUME NEW r \in Run, LaunchCancelled(r) PROVE Owned'
  BY <1>9 DEF LaunchCancelled, Launch
<1>10. CASE NotStarted
  BY <1>10 DEF NotStarted, Launch
<1>11. CASE PassesCheck
  BY <1>11 DEF PassesCheck
<1>12. CASE StartProcess
  BY <1>12 DEF StartProcess
<1>13. CASE Register
  BY <1>13 DEF Register, Launch
<1>14. CASE PollEnds
  BY <1>14 DEF PollEnds, Cancellable
<1>15. ASSUME NEW r \in Run, DrainCancels(r) PROVE Owned'
  BY <1>15 DEF DrainCancels, Cancel
<1>16. CASE BeginWait
  BY <1>16 DEF BeginWait
<1>17. CASE EveryRunReported
  BY <1>17 DEF EveryRunReported
<1>18. CASE BudgetElapses
  BY <1>18 DEF BudgetElapses, StopReporting
<1>19. CASE ForcedStop
  BY <1>19 DEF ForcedStop, StopReporting
<1>20. CASE Exit
  BY <1>20 DEF Exit, Working
<1>21. ASSUME NEW r \in Run, ProcessExits(r) PROVE Owned'
  BY <1>21 DEF ProcessExits
<1>22. ASSUME NEW r \in Run, ExitNoticed(r) PROVE Owned'
  BY <1>22 DEF ExitNoticed, At
<1>23. ASSUME NEW r \in Run, FinishAnswered(r) PROVE Owned'
  BY <1>23 DEF FinishAnswered, At, NextStep
<1>24. ASSUME NEW r \in Run, FinishGivenUp(r) PROVE Owned'
  BY <1>24 DEF FinishGivenUp, At, NextStep
<1>25. ASSUME NEW r \in Run, MarkFinished(r) PROVE Owned'
  BY <1>25 DEF MarkFinished, At
<1>26. CASE DiscoverIfAsked
  BY <1>26 DEF DiscoverIfAsked
<1>27. CASE DiscoveryEnds
  BY <1>27 DEF DiscoveryEnds
<1>28. CASE DiscoveryUnsupported
  BY <1>28 DEF DiscoveryUnsupported
<1>29. CASE UNCHANGED vars
  BY <1>29
<1>30. QED
  BY <1>1, <1>2, <1>3, <1>4, <1>5, <1>6, <1>7, <1>8, <1>9, <1>10, <1>11,
     <1>12, <1>13, <1>14, <1>15, <1>16, <1>17, <1>18, <1>19, <1>20, <1>21,
     <1>22, <1>23, <1>24, <1>25, <1>26, <1>27, <1>28, <1>29
     DEF Next, Watch, Spawn, Drain, Discover, Start, Report

LEMMA NextSettled == Types /\ InHand /\ Settled /\ [Next]_vars => Settled'
<1> SUFFICES ASSUME Types, InHand, Settled, [Next]_vars PROVE Settled'
  OBVIOUS
<1> USE DEF Types, InHand, Settled, vars, mainVars, signalVars, contextVars, runVars, discoveryVars
<1>1. CASE Signal
  BY <1>1 DEF Signal
<1>2. CASE SignalKills
  BY <1>2 DEF SignalKills
<1>3. CASE FirstSignal
  BY <1>3 DEF FirstSignal, Cancellable
<1>4. ASSUME NEW r \in Run, WatcherCancels(r) PROVE Settled'
  BY <1>4 DEF WatcherCancels, Cancel
<1>5. CASE StopPolling
  BY <1>5 DEF StopPolling
<1>6. CASE SecondSignal
  BY <1>6 DEF SecondSignal
<1>7. CASE WatcherEnds
  BY <1>7 DEF WatcherEnds
<1>8. ASSUME NEW r \in Run, StartAccepted(r) PROVE Settled'
  BY <1>8 DEF StartAccepted
<1>9. ASSUME NEW r \in Run, LaunchCancelled(r) PROVE Settled'
  BY <1>9 DEF LaunchCancelled, Launch
<1>10. CASE NotStarted
  BY <1>10 DEF NotStarted, Launch
<1>11. CASE PassesCheck
  BY <1>11 DEF PassesCheck
<1>12. CASE StartProcess
  BY <1>12 DEF StartProcess
<1>13. CASE Register
  BY <1>13 DEF Register, Launch
<1>14. CASE PollEnds
  BY <1>14 DEF PollEnds, Cancellable
<1>15. ASSUME NEW r \in Run, DrainCancels(r) PROVE Settled'
  BY <1>15 DEF DrainCancels, Cancel
<1>16. CASE BeginWait
  BY <1>16 DEF BeginWait
<1>17. CASE EveryRunReported
  BY <1>17 DEF EveryRunReported
<1>18. CASE BudgetElapses
  BY <1>18 DEF BudgetElapses, StopReporting
<1>19. CASE ForcedStop
  BY <1>19 DEF ForcedStop, StopReporting
<1>20. CASE Exit
  BY <1>20 DEF Exit, Working
<1>21. ASSUME NEW r \in Run, ProcessExits(r) PROVE Settled'
  BY <1>21 DEF ProcessExits
<1>22. ASSUME NEW r \in Run, ExitNoticed(r) PROVE Settled'
  BY <1>22 DEF ExitNoticed, At
<1>23. ASSUME NEW r \in Run, FinishAnswered(r) PROVE Settled'
  BY <1>23 DEF FinishAnswered, At, NextStep
<1>24. ASSUME NEW r \in Run, FinishGivenUp(r) PROVE Settled'
  BY <1>24 DEF FinishGivenUp, At, NextStep
<1>25. ASSUME NEW r \in Run, MarkFinished(r) PROVE Settled'
  BY <1>25 DEF MarkFinished, At
<1>26. CASE DiscoverIfAsked
  BY <1>26 DEF DiscoverIfAsked
<1>27. CASE DiscoveryEnds
  BY <1>27 DEF DiscoveryEnds
<1>28. CASE DiscoveryUnsupported
  BY <1>28 DEF DiscoveryUnsupported
<1>29. CASE UNCHANGED vars
  BY <1>29
<1>30. QED
  BY <1>1, <1>2, <1>3, <1>4, <1>5, <1>6, <1>7, <1>8, <1>9, <1>10, <1>11,
     <1>12, <1>13, <1>14, <1>15, <1>16, <1>17, <1>18, <1>19, <1>20, <1>21,
     <1>22, <1>23, <1>24, <1>25, <1>26, <1>27, <1>28, <1>29
     DEF Next, Watch, Spawn, Drain, Discover, Start, Report

LEMMA NextCut == Types /\ InHand /\ Cut /\ [Next]_vars => Cut'
<1> SUFFICES ASSUME Types, InHand, Cut, [Next]_vars PROVE Cut'
  OBVIOUS
<1> USE DEF Types, InHand, Cut, Over, vars, mainVars, signalVars, contextVars, runVars, discoveryVars
<1>1. CASE Signal
  BY <1>1 DEF Signal
<1>2. CASE SignalKills
  BY <1>2 DEF SignalKills
<1>3. CASE FirstSignal
  BY <1>3 DEF FirstSignal, Cancellable
<1>4. ASSUME NEW r \in Run, WatcherCancels(r) PROVE Cut'
  BY <1>4 DEF WatcherCancels, Cancel
<1>5. CASE StopPolling
  BY <1>5 DEF StopPolling
<1>6. CASE SecondSignal
  BY <1>6 DEF SecondSignal
<1>7. CASE WatcherEnds
  BY <1>7 DEF WatcherEnds
<1>8. ASSUME NEW r \in Run, StartAccepted(r) PROVE Cut'
  BY <1>8 DEF StartAccepted
<1>9. ASSUME NEW r \in Run, LaunchCancelled(r) PROVE Cut'
  BY <1>9 DEF LaunchCancelled, Launch
<1>10. CASE NotStarted
  BY <1>10 DEF NotStarted, Launch
<1>11. CASE PassesCheck
  BY <1>11 DEF PassesCheck
<1>12. CASE StartProcess
  BY <1>12 DEF StartProcess
<1>13. CASE Register
  BY <1>13 DEF Register, Launch
<1>14. CASE PollEnds
  BY <1>14 DEF PollEnds, Cancellable
<1>15. ASSUME NEW r \in Run, DrainCancels(r) PROVE Cut'
  BY <1>15 DEF DrainCancels, Cancel
<1>16. CASE BeginWait
  BY <1>16 DEF BeginWait
<1>17. CASE EveryRunReported
  BY <1>17 DEF EveryRunReported
<1>18. CASE BudgetElapses
  BY <1>18 DEF BudgetElapses, StopReporting
<1>19. CASE ForcedStop
  BY <1>19 DEF ForcedStop, StopReporting
<1>20. CASE Exit
  BY <1>20 DEF Exit, Working
<1>21. ASSUME NEW r \in Run, ProcessExits(r) PROVE Cut'
  BY <1>21 DEF ProcessExits
<1>22. ASSUME NEW r \in Run, ExitNoticed(r) PROVE Cut'
  BY <1>22 DEF ExitNoticed, At
<1>23. ASSUME NEW r \in Run, FinishAnswered(r) PROVE Cut'
  BY <1>23 DEF FinishAnswered, At, NextStep
<1>24. ASSUME NEW r \in Run, FinishGivenUp(r) PROVE Cut'
  BY <1>24 DEF FinishGivenUp, At, NextStep
<1>25. ASSUME NEW r \in Run, MarkFinished(r) PROVE Cut'
  BY <1>25 DEF MarkFinished, At
<1>26. CASE DiscoverIfAsked
  BY <1>26 DEF DiscoverIfAsked
<1>27. CASE DiscoveryEnds
  BY <1>27 DEF DiscoveryEnds
<1>28. CASE DiscoveryUnsupported
  BY <1>28 DEF DiscoveryUnsupported
<1>29. CASE UNCHANGED vars
  BY <1>29
<1>30. QED
  BY <1>1, <1>2, <1>3, <1>4, <1>5, <1>6, <1>7, <1>8, <1>9, <1>10, <1>11,
     <1>12, <1>13, <1>14, <1>15, <1>16, <1>17, <1>18, <1>19, <1>20, <1>21,
     <1>22, <1>23, <1>24, <1>25, <1>26, <1>27, <1>28, <1>29
     DEF Next, Watch, Spawn, Drain, Discover, Start, Report

\* The conjunction the theorems below rest on holds in every reachable state.
THEOREM Inductive == Spec => []Inv
<1>1. Inv /\ [Next]_vars => Inv'
  BY StepTypes, NextTypeOK, NextInHand, NextOwned, NextSettled, NextCut DEF Inv
<1>2. QED
  BY InitInv, <1>1, PTL DEF Spec

\* Every variable keeps its type (watchSignals, drain, Run).
THEOREM TypeCorrect == Spec => []TypeOK
  BY Inductive, PTL DEF Inv

\* When the daemon exits by itself, no process and no discovery is running and
\* every outcome is in the store, wherever the signals fell (drain, Wait).
THEOREM NothingLeft == Spec => []LeavesNothingBehind
<1>1. Inv => LeavesNothingBehind
  BY StepTypes DEF Inv, Types, Owned, Settled, LeavesNothingBehind
<1>2. QED
  BY <1>1, Inductive, PTL

\* An outcome is given up only once drain cut the reporting (drain, finish).
THEOREM ReportingCutByDrain == Spec => []ReportedUnlessCut
<1>1. Inv => ReportedUnlessCut
  BY DEF Inv, Cut, Over, ReportedUnlessCut
<1>2. QED
  BY <1>1, Inductive, PTL
============================================================================
