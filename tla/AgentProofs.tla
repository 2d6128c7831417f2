---------------------------- MODULE AgentProofs ----------------------------
(***************************************************************************)
(* Proofs about Agent: what it promises for every set of Runs, limit and   *)
(* number of crashes.  First that a Run is executed once, only after the   *)
(* Server was asked, and within the limit; then what the Server is told of *)
(* it; last, that each Run lives as RunLife says.                          *)
(***************************************************************************)
EXTENDS Agent, FiniteSetTheorems, TLAPS

(***************************************************************************)
(* The parts of the inductive invariant (IInv, at the end).                *)
(***************************************************************************)

\* handleLease has a Run in hand, exactly while it starts it, and the lease is
\* off the list.
Busy == pc \in {"start", "spawn", "mark_active"}
CurInHand == (cur \in Run <=> Busy) /\ cur \notin leases

\* The Run in hand is new to this process and to the record.
CurIsNew == Busy => ~Registered(cur) /\ cur \notin mem.active /\ mem.recent[cur] = None

\* Nothing is registered before the poll loop runs.
NothingYet == pc \in {"down", "reconcile"} => \A r \in Run : ~Registered(r)

\* What the record says of a registered Run: no outcome until its reporter
\* has stored it, and active until then if it has a process.
OnRecord ==
    \A r \in Run : Registered(r) =>
        IF registry[r].step = "release" THEN mem.recent[r] # None \/ r \in pruned
        ELSE mem.recent[r] = None /\ (registry[r].kind = "process" => r \in mem.active)

\* A Run is not active and finished at once.
StoreConsistent ==
    \A r \in Run :
        /\ r \in mem.active => mem.recent[r] = None
        /\ r \in disk.active => disk.recent[r] = None

\* A process has its reporter, unless launch is about to give it one.
Owned ==
    \A r \in Run : Running(r) =>
        \/ pc = "mark_active" /\ cur = r
        \/ At(r, "supervise")

\* Memory knows all that the file knows, but for what was pruned and not saved.
DiskBehind ==
    pc # "down" => \A r \in Run \ pruned :
        /\ r \in disk.active => r \in mem.active \/ mem.recent[r] # None
        /\ disk.recent[r] # None => mem.recent[r] = disk.recent[r]

\* The file lists what memory lists, but for what no save has put there yet.
UnsavedOnly == pc # "down" => mem.active \subseteq disk.active \cup unsaved

\* The Run in hand was started by the Server before it is spawned.
CurConsented == pc \in {"spawn", "mark_active"} => status[cur] \in {"started", "finished"}

\* A Run that was executed is known to the process, or to the file while there
\* is none.
ExecutedIsKnown ==
    \A r \in Run : execs[r] > 0 /\ r \notin Forgotten =>
        IF pc = "down" THEN Recorded(disk, r)
        ELSE Registered(r) \/ Recorded(mem, r) \/ (pc = "mark_active" /\ cur = r)

\* A lease for a Run that was executed is a repeated one.
LeaseIsRepeated ==
    \A r \in Run :
        /\ r \in leases \/ (pc \in {"start", "spawn"} /\ cur = r)
        /\ execs[r] > 0
        => r \in repeated

----------------------------------------------------------------------------
(***************************************************************************)
(* Type correctness.  The Run in hand has to be a Run for the record to    *)
(* stay one, so CurInHand comes along.                                     *)
(***************************************************************************)
Typed == TypeOK /\ CurInHand

\* A registered Run has an entry: None is not one (registry).
LEMMA RegisteredIsEntry ==
    ASSUME TypeOK, NEW r \in Run, Registered(r)
    PROVE  registry[r] \in Entry
  BY DEF TypeOK, Registered

\* The records Launch and the reporter put into the registry are entries.
LEMMA EntryMade ==
    ASSUME NEW k \in {"process", "not_started", "cancelled_before_start"},
           NEW s \in {"finish", "mark", "release"}, NEW o \in Outcome
    PROVE  [kind |-> k, step |-> s, outcome |-> o] \in Entry
  BY DEF Entry

\* The entry of a process just spawned is one.
LEMMA SupervisedMade == [kind |-> "process", step |-> "supervise", outcome |-> None] \in Entry
  BY DEF Entry

\* MarkActive builds a store out of a store.
LEMMA WithActiveIsStore == ASSUME TypeOK, NEW r \in Run PROVE WithActive(r) \in Store
  BY DEF TypeOK, WithActive, Store

\* MarkFinished builds a store out of a store.
LEMMA WithFinishedIsStore ==
    ASSUME TypeOK, NEW r \in Run, NEW o \in Outcome
    PROVE  WithFinished(r, o) \in Store
  BY DEF TypeOK, WithFinished, Store

\* What is on record of a Run stays, or is pruned.
KeptOrPruned(q) == mem'.recent[q] = mem.recent[q] \/ (mem'.recent[q] = None /\ q \in pruned')

\* The file takes what memory holds, or stays as it is.
SavedOrNot ==
    \/ disk' = mem' /\ unsaved' = {}
    \/ disk' = disk /\ unsaved' = mem'.active \ (mem.active \ unsaved)

\* What every save does to the history.
HistoryKept ==
    /\ unsaved' \subseteq Run /\ pruned' \subseteq Run /\ prunes' \in Nat
    /\ pruned \subseteq pruned'
    /\ \A q \in pruned' \ pruned : mem.recent[q] # None

\* save, whatever it prunes and whether it fails or not.
LEMMA SaveEffect ==
    ASSUME TypeOK, NEW c \in Store, Save(c)
    PROVE  /\ mem' \in Store /\ disk' \in Store /\ mem'.active = c.active
           /\ \A q \in Run :
                 \/ mem'.recent[q] = c.recent[q]
                 \/ mem'.recent[q] = None /\ q \in pruned' /\ mem.recent[q] # None
           /\ SavedOrNot /\ HistoryKept
<1>1. PICK old \in SUBSET Run :
        /\ Prune(old) /\ mem' = Pruned(c, old)
        /\ \/ disk' = mem' /\ unsaved' = {}
           \/ disk' = disk /\ unsaved' = c.active \ (mem.active \ unsaved)
  BY DEF Save
<1>2. /\ c.active \subseteq Run /\ c.recent \in [Run -> Outcome \cup {None}]
      /\ unsaved \subseteq Run /\ pruned \subseteq Run /\ prunes \in Nat /\ disk \in Store
  BY DEF Store, TypeOK
<1>3. /\ mem'.active = c.active
      /\ mem'.recent = [q \in Run |-> IF q \in old THEN None ELSE c.recent[q]]
      /\ mem' = [active |-> c.active, recent |-> [q \in Run |-> IF q \in old THEN None ELSE c.recent[q]]]
  BY <1>1 DEF Pruned
<1>4. mem' \in Store
  BY <1>2, <1>3 DEF Store
<1>5. disk' \in Store /\ SavedOrNot
  BY <1>1, <1>2, <1>3, <1>4 DEF SavedOrNot
<1>6. old \subseteq {q \in Run : mem.recent[q] # None} /\ pruned' = pruned \cup old /\ prunes' \in Nat
  BY <1>1, <1>2 DEF Prune
<1>7. HistoryKept
  BY <1>1, <1>2, <1>6 DEF HistoryKept
<1> QED
  BY <1>3, <1>4, <1>5, <1>6, <1>7

\* MarkActive's save.
LEMMA SaveActive ==
    ASSUME TypeOK, NEW r \in Run, Save(WithActive(r))
    PROVE  /\ mem' \in Store /\ disk' \in Store /\ mem'.active = mem.active \cup {r}
           /\ \A q \in Run : KeptOrPruned(q)
           /\ SavedOrNot /\ HistoryKept
<1>1. WithActive(r).active = mem.active \cup {r} /\ WithActive(r).recent = mem.recent
  BY DEF WithActive
<1> QED
  BY <1>1, WithActiveIsStore, SaveEffect DEF KeptOrPruned

\* MarkFinished's save: the outcome it records is not pruned by it.
LEMMA SaveFinished ==
    ASSUME TypeOK, NEW r \in Run, NEW o \in Outcome, mem.recent[r] = None, Save(WithFinished(r, o))
    PROVE  /\ mem' \in Store /\ disk' \in Store /\ mem'.active = mem.active \ {r}
           /\ mem'.recent[r] = o
           /\ \A q \in Run \ {r} : KeptOrPruned(q)
           /\ SavedOrNot /\ HistoryKept
<1>1. /\ WithFinished(r, o).active = mem.active \ {r}
      /\ WithFinished(r, o).recent = [mem.recent EXCEPT ![r] = o]
      /\ mem.recent \in [Run -> Outcome \cup {None}]
  BY DEF WithFinished, TypeOK, Store
<1> QED
  BY <1>1, WithFinishedIsStore, SaveEffect DEF KeptOrPruned

\* ServerFinish keeps the Server's tables in shape.
LEMMA ServerFinishTyped ==
    ASSUME TypeOK, NEW r \in Run, NEW o \in Outcome, ServerFinish(r, o)
    PROVE  /\ status' \in [Run -> {"queued", "leased", "started", "finished"}]
           /\ outcome' \in [Run -> Outcome \cup {None}]
  BY DEF TypeOK, ServerFinish

\* Next, as the list of its actions: what the proofs below go through.
LEMMA NextActions ==
    ASSUME Next
    PROVE  \/ Reconciled \/ Poll \/ AnswerLost \/ Receive \/ HandledAll
           \/ StartAccepted \/ StartAnswerLost \/ StartDropped
           \/ NotStarted \/ StartProcess \/ MarkActive \/ Crash \/ Restart
           \/ \E r \in Run :
                 \/ Reconcile(r) \/ Acknowledge(r) \/ Resend(r) \/ Ignore(r)
                 \/ LaunchCancelled(r) \/ Accept(r)
                 \/ CancelByAnswer(r) \/ Exit(r) \/ Finish(r) \/ FinishAnswerLost(r)
                 \/ FinishRefused(r) \/ MarkFinished(r) \/ Release(r)
                 \/ ReportLost(r) \/ ReportLostAnswerLost(r) \/ ReportLostRefused(r)
                 \/ UserCancels(r) \/ LeaseRunsOut(r)
  BY Zenon DEF Next, PollLoop, HandleLease, Report, ReportLostRun

\* A daemon that never ran is well typed.
LEMMA TypedInit == Init => Typed
  BY AgentAssumption, NoneAssumption
  DEF Init, Typed, TypeOK, CurInHand, Busy, Store, EmptyStore, Outcome, Entry

\* What a reporter carries is an outcome, and its next step is an entry.
LEMMA EntryAdvances ==
    ASSUME TypeOK, NEW r \in Run, Registered(r), registry[r].step \in {"finish", "mark"},
           NEW s \in {"mark", "release"}
    PROVE  /\ registry[r].outcome \in Outcome
           /\ [registry[r] EXCEPT !.step = s] \in Entry
  BY RegisteredIsEntry DEF Entry

\* A reporter that no longer supervises has an outcome to tell.
LEMMA CarriedIsOutcome ==
    ASSUME TypeOK, NEW r \in Run, Registered(r), registry[r].step # "supervise"
    PROVE  registry[r].outcome \in Outcome
  BY RegisteredIsEntry DEF Entry

\* The entry of a process that ended is one.
LEMMA EntryExits ==
    ASSUME TypeOK, NEW r \in Run, At(r, "supervise"), NEW o \in Outcome
    PROVE  [registry[r] EXCEPT !.step = "finish", !.outcome = o] \in Entry
  BY RegisteredIsEntry DEF Entry, At

\* Every action keeps the types, and the Run in hand one of the Runs.
LEMMA TypedStep == Typed /\ [Next]_vars => Typed'
<1> SUFFICES ASSUME Typed, [Next]_vars PROVE Typed'
  OBVIOUS
<1> USE AgentAssumption, NoneAssumption DEF Typed, TypeOK, CurInHand, Busy,
      pollVars, storeVars, procVars, serverVars, crashVars
<1>1. CASE Reconciled
  BY <1>1 DEF Reconciled
<1>2. CASE Poll
  BY <1>2 DEF Poll
<1>3. CASE AnswerLost
  BY <1>3 DEF AnswerLost
<1>4. CASE Receive
  BY <1>4 DEF Receive, Cancellable
<1>5. CASE HandledAll
  BY <1>5 DEF HandledAll
<1>6. CASE StartAccepted
  BY <1>6 DEF StartAccepted, ServerStart
<1>7. CASE StartAnswerLost
  BY <1>7 DEF StartAnswerLost, ServerStart
<1>8. CASE StartDropped
  BY <1>8 DEF StartDropped
<1>9. CASE NotStarted
  <2>1. cur \in Run /\ "not_started" \in Outcome
    BY <1>9 DEF NotStarted, Outcome
  <2>2. [kind |-> "not_started", step |-> "finish", outcome |-> "not_started"] \in Entry
    BY <2>1, EntryMade
  <2> QED
    BY <1>9, <2>1, <2>2 DEF NotStarted, Launch
<1>10. CASE StartProcess
  BY <1>10 DEF StartProcess
<1>11. CASE MarkActive
  <2>1. cur \in Run
    BY <1>11 DEF MarkActive
  <2>2. mem' \in Store /\ disk' \in Store /\ HistoryKept
    BY <1>11, <2>1, SaveActive DEF MarkActive
  <2> QED
    BY <1>11, <2>1, <2>2, SupervisedMade DEF MarkActive, Launch, HistoryKept
<1>12. CASE Crash
  BY <1>12 DEF Crash, EmptyStore, Store
<1>13. CASE Restart
  BY <1>13 DEF Restart
<1>14. ASSUME NEW r \in Run, Reconcile(r) PROVE Typed'
  <2>1. mem' \in Store /\ disk' \in Store /\ HistoryKept
    <3>1. "lost" \in Outcome
      BY DEF Outcome
    <3> QED
      BY <1>14, <3>1, WithFinishedIsStore, SaveEffect DEF Reconcile
  <2> QED
    BY <1>14, <2>1 DEF Reconcile, HistoryKept
<1>15. ASSUME NEW r \in Run, Acknowledge(r) PROVE Typed'
  BY <1>15 DEF Acknowledge, Handling
<1>16. ASSUME NEW r \in Run, Resend(r) PROVE Typed'
  <2>1. mem.recent[r] \in Outcome
    BY <1>16 DEF Resend, Store
  <2>2. /\ status' \in [Run -> {"queued", "leased", "started", "finished"}]
        /\ outcome' \in [Run -> Outcome \cup {None}]
    BY <1>16, <2>1, ServerFinishTyped DEF Resend
  <2> QED
    BY <1>16, <2>2 DEF Resend, Handling
<1>17. ASSUME NEW r \in Run, Ignore(r) PROVE Typed'
  BY <1>17 DEF Ignore, Handling
<1>18. ASSUME NEW r \in Run, LaunchCancelled(r) PROVE Typed'
  <2>1. "cancelled_before_start" \in Outcome
    BY DEF Outcome
  <2>2. [kind |-> "cancelled_before_start", step |-> "finish", outcome |-> "cancelled_before_start"] \in Entry
    BY <2>1, EntryMade
  <2> QED
    BY <1>18, <2>2 DEF LaunchCancelled, Handling, Launch
<1>19. ASSUME NEW r \in Run, Accept(r) PROVE Typed'
  BY <1>19 DEF Accept, Handling
<1>20. ASSUME NEW r \in Run, CancelByAnswer(r) PROVE Typed'
  BY <1>20 DEF CancelByAnswer, Handling
<1>21. ASSUME NEW r \in Run, Exit(r) PROVE Typed'
  <2>1. OutcomeOf(r) \in Outcome
    BY DEF OutcomeOf, Outcome
  <2>2. [registry[r] EXCEPT !.step = "finish", !.outcome = OutcomeOf(r)] \in Entry
    BY <1>21, <2>1, EntryExits DEF Exit
  <2> QED
    BY <1>21, <2>2 DEF Exit
<1>22. ASSUME NEW r \in Run, Finish(r) PROVE Typed'
  <2>1. registry[r].outcome \in Outcome /\ [registry[r] EXCEPT !.step = "mark"] \in Entry
    BY <1>22, EntryAdvances DEF Finish, At
  <2>2. /\ status' \in [Run -> {"queued", "leased", "started", "finished"}]
        /\ outcome' \in [Run -> Outcome \cup {None}]
    BY <1>22, <2>1, ServerFinishTyped DEF Finish
  <2> QED
    BY <1>22, <2>1, <2>2 DEF Finish
<1>23. ASSUME NEW r \in Run, FinishAnswerLost(r) PROVE Typed'
  <2>1. registry[r].outcome \in Outcome /\ [registry[r] EXCEPT !.step = "mark"] \in Entry
    BY <1>23, EntryAdvances DEF FinishAnswerLost, At
  <2>2. /\ status' \in [Run -> {"queued", "leased", "started", "finished"}]
        /\ outcome' \in [Run -> Outcome \cup {None}]
    BY <1>23, <2>1, ServerFinishTyped DEF FinishAnswerLost
  <2> QED
    BY <1>23, <2>1, <2>2 DEF FinishAnswerLost
<1>24. ASSUME NEW r \in Run, FinishRefused(r) PROVE Typed'
  <2>1. [registry[r] EXCEPT !.step = "mark"] \in Entry
    BY <1>24, EntryAdvances DEF FinishRefused, At
  <2> QED
    BY <1>24, <2>1 DEF FinishRefused
<1>25. ASSUME NEW r \in Run, MarkFinished(r) PROVE Typed'
  <2>1. registry[r].outcome \in Outcome /\ [registry[r] EXCEPT !.step = "release"] \in Entry
    BY <1>25, EntryAdvances DEF MarkFinished, At
  <2>2. mem' \in Store /\ disk' \in Store /\ HistoryKept
    BY <1>25, <2>1, WithFinishedIsStore, SaveEffect DEF MarkFinished
  <2> QED
    BY <1>25, <2>1, <2>2 DEF MarkFinished, HistoryKept
<1>26. ASSUME NEW r \in Run, Release(r) PROVE Typed'
  BY <1>26 DEF Release, Handling
<1>27. ASSUME NEW r \in Run, ReportLost(r) PROVE Typed'
  <2>1. "lost" \in Outcome
    BY DEF Outcome
  <2>2. /\ status' \in [Run -> {"queued", "leased", "started", "finished"}]
        /\ outcome' \in [Run -> Outcome \cup {None}]
    BY <1>27, <2>1, ServerFinishTyped DEF ReportLost
  <2> QED
    BY <1>27, <2>2 DEF ReportLost
<1>28. ASSUME NEW r \in Run, ReportLostAnswerLost(r) PROVE Typed'
  <2>1. "lost" \in Outcome
    BY DEF Outcome
  <2>2. /\ status' \in [Run -> {"queued", "leased", "started", "finished"}]
        /\ outcome' \in [Run -> Outcome \cup {None}]
    BY <1>28, <2>1, ServerFinishTyped DEF ReportLostAnswerLost
  <2> QED
    BY <1>28, <2>2 DEF ReportLostAnswerLost
<1>29. ASSUME NEW r \in Run, ReportLostRefused(r) PROVE Typed'
  BY <1>29 DEF ReportLostRefused, Handling
<1>30. ASSUME NEW r \in Run, UserCancels(r) PROVE Typed'
  BY <1>30 DEF UserCancels, Handling
<1>31. ASSUME NEW r \in Run, LeaseRunsOut(r) PROVE Typed'
  BY <1>31 DEF LeaseRunsOut, Handling
<1>32. CASE UNCHANGED vars
  BY <1>32 DEF vars
<1> HIDE DEF Typed
<1> QED
  BY <1>1, <1>2, <1>3, <1>4, <1>5, <1>6, <1>7, <1>8, <1>9, <1>10, <1>11, <1>12, <1>13, <1>14, <1>15, <1>16, <1>17, <1>18, <1>19, <1>20, <1>21, <1>22, <1>23, <1>24, <1>25, <1>26, <1>27, <1>28, <1>29, <1>30, <1>31, <1>32, NextActions

\* Every variable keeps its type, whatever the interleaving, the crashes and
\* the answers.
THEOREM TypeCorrect == Spec => []TypeOK
<1>1. Typed => TypeOK
  BY DEF Typed
<1> QED
  BY <1>1, TypedInit, TypedStep, PTL DEF Spec

----------------------------------------------------------------------------
(***************************************************************************)
(* Who owns a Run: the polling goroutine, a reporter, the record.          *)
(***************************************************************************)
Control == CurIsNew /\ NothingYet /\ OnRecord /\ StoreConsistent /\ Owned

\* Initially nothing is in hand, registered or on record.
LEMMA ControlInit == Init => Control
  BY DEF Init, Control, CurIsNew, NothingYet, OnRecord, StoreConsistent, Owned, Busy,
         Registered, Running, EmptyStore

\* Every action keeps the poll loop, the registry and the record in step.
LEMMA ControlStep == Typed /\ Control /\ [Next]_vars => Control'
<1> SUFFICES ASSUME Typed, Control, [Next]_vars PROVE Control'
  OBVIOUS
<1> USE AgentAssumption, NoneAssumption DEF Typed, TypeOK, CurInHand, Busy, Store,
      Control, CurIsNew, NothingYet, OnRecord, StoreConsistent, Owned, Registered, Running, At,
      pollVars, storeVars, procVars, serverVars, crashVars
<1>1. CASE Reconciled
  BY <1>1 DEF Reconciled
<1>2. CASE Poll
  BY <1>2 DEF Poll
<1>3. CASE AnswerLost
  BY <1>3 DEF AnswerLost
<1>4. CASE Receive
  BY <1>4 DEF Receive, Cancellable
<1>5. CASE HandledAll
  BY <1>5 DEF HandledAll
<1>6. CASE StartAccepted
  BY <1>6 DEF StartAccepted, ServerStart, CanStart
<1>7. CASE StartAnswerLost
  BY <1>7 DEF StartAnswerLost, ServerStart, CanStart
<1>8. CASE StartDropped
  BY <1>8 DEF StartDropped
<1>9. CASE NotStarted
  BY <1>9 DEF NotStarted, Launch
<1>10. CASE StartProcess
  BY <1>10 DEF StartProcess
<1>11. CASE MarkActive
  <2>1. /\ cur \in Run /\ mem'.active = mem.active \cup {cur}
        /\ disk' = mem' \/ disk' = disk
    BY <1>11, SaveActive DEF MarkActive, SavedOrNot
  <2>2. /\ \A q \in Run : mem'.recent[q] = mem.recent[q] \/ (mem'.recent[q] = None /\ q \in pruned')
        /\ pruned \subseteq pruned'
    BY <1>11, <2>1, SaveActive DEF MarkActive, KeptOrPruned, HistoryKept
  <2>3. StoreConsistent'
    BY <1>11, <2>1, <2>2 DEF MarkActive
  <2>4. OnRecord' /\ CurIsNew' /\ NothingYet'
    BY <1>11, <2>1, <2>2 DEF MarkActive, Launch
  <2>5. Owned'
    BY <1>11, <2>1, SupervisedMade DEF MarkActive, Launch
  <2> QED
    BY <2>3, <2>4, <2>5
<1>12. CASE Crash
  BY <1>12 DEF Crash, EmptyStore
<1>13. CASE Restart
  BY <1>13 DEF Restart
<1>14. ASSUME NEW r \in Run, Reconcile(r) PROVE Control'
  <2>1. mem.recent[r] = None /\ "lost" \in Outcome
    BY <1>14 DEF Reconcile, Outcome
  <2>2. /\ mem'.active = mem.active \ {r} /\ mem'.recent[r] = "lost"
        /\ disk' = mem' \/ disk' = disk
    BY <1>14, <2>1, SaveFinished DEF Reconcile, SavedOrNot
  <2>3. /\ \A q \in Run \ {r} : mem'.recent[q] = mem.recent[q] \/ (mem'.recent[q] = None /\ q \in pruned')
        /\ pruned \subseteq pruned'
    BY <1>14, <2>1, SaveFinished DEF Reconcile, KeptOrPruned, HistoryKept
  <2> QED
    BY <1>14, <2>1, <2>2, <2>3 DEF Reconcile
<1>15. ASSUME NEW r \in Run, Acknowledge(r) PROVE Control'
  BY <1>15 DEF Acknowledge, Handling
<1>16. ASSUME NEW r \in Run, Resend(r) PROVE Control'
  BY <1>16 DEF Resend, ServerFinish, Handling
<1>17. ASSUME NEW r \in Run, Ignore(r) PROVE Control'
  BY <1>17 DEF Ignore, Handling
<1>18. ASSUME NEW r \in Run, LaunchCancelled(r) PROVE Control'
  BY <1>18 DEF LaunchCancelled, Launch, Verified, Unknown, Handling
<1>19. ASSUME NEW r \in Run, Accept(r) PROVE Control'
  BY <1>19 DEF Accept, Verified, Unknown, Handling
<1>20. ASSUME NEW r \in Run, CancelByAnswer(r) PROVE Control'
  BY <1>20 DEF CancelByAnswer
<1>21. ASSUME NEW r \in Run, Exit(r) PROVE Control'
  BY <1>21 DEF Exit
<1>22. ASSUME NEW r \in Run, Finish(r) PROVE Control'
  BY <1>22 DEF Finish, ServerFinish
<1>23. ASSUME NEW r \in Run, FinishAnswerLost(r) PROVE Control'
  BY <1>23 DEF FinishAnswerLost, ServerFinish
<1>24. ASSUME NEW r \in Run, FinishRefused(r) PROVE Control'
  BY <1>24 DEF FinishRefused
<1>25. ASSUME NEW r \in Run, MarkFinished(r) PROVE Control'
  <2>0. registry[r].outcome \in Outcome
    BY <1>25, EntryAdvances DEF MarkFinished, At
  <2>1. mem.recent[r] = None /\ registry[r].outcome \in Outcome /\ registry[r].outcome # None
    <3>1. Registered(r) /\ registry[r].step = "mark"
      BY <1>25 DEF MarkFinished, At
    <3> QED
      BY <2>0, <3>1
  <2>2. /\ mem'.active = mem.active \ {r} /\ mem'.recent[r] = registry[r].outcome
        /\ disk' = mem' \/ disk' = disk
    BY <1>25, <2>1, SaveFinished DEF MarkFinished, SavedOrNot
  <2>3. /\ \A q \in Run \ {r} : mem'.recent[q] = mem.recent[q] \/ (mem'.recent[q] = None /\ q \in pruned')
        /\ pruned \subseteq pruned'
    BY <1>25, <2>1, SaveFinished DEF MarkFinished, KeptOrPruned, HistoryKept
  <2>4. StoreConsistent'
    BY <1>25, <2>1, <2>2, <2>3 DEF MarkFinished
  <2>5. OnRecord' /\ CurIsNew' /\ NothingYet' /\ Owned'
    BY <1>25, <2>1, <2>2, <2>3 DEF MarkFinished
  <2> QED
    BY <2>4, <2>5
<1>26. ASSUME NEW r \in Run, Release(r) PROVE Control'
  BY <1>26 DEF Release
<1>27. ASSUME NEW r \in Run, ReportLost(r) PROVE Control'
  BY <1>27 DEF ReportLost, ServerFinish
<1>28. ASSUME NEW r \in Run, ReportLostAnswerLost(r) PROVE Control'
  BY <1>28 DEF ReportLostAnswerLost, ServerFinish
<1>29. ASSUME NEW r \in Run, ReportLostRefused(r) PROVE Control'
  BY <1>29 DEF ReportLostRefused
<1>30. ASSUME NEW r \in Run, UserCancels(r) PROVE Control'
  BY <1>30 DEF UserCancels
<1>31. ASSUME NEW r \in Run, LeaseRunsOut(r) PROVE Control'
  BY <1>31 DEF LeaseRunsOut
<1>32. CASE UNCHANGED vars
  BY <1>32 DEF vars
<1> HIDE DEF Typed, Control
<1> QED
  BY <1>1, <1>2, <1>3, <1>4, <1>5, <1>6, <1>7, <1>8, <1>9, <1>10, <1>11, <1>12, <1>13, <1>14, <1>15, <1>16, <1>17, <1>18, <1>19, <1>20, <1>21, <1>22, <1>23, <1>24, <1>25, <1>26, <1>27, <1>28, <1>29, <1>30, <1>31, <1>32, NextActions

----------------------------------------------------------------------------
(***************************************************************************)
(* The file.  Five actions touch the store.                                *)
(***************************************************************************)
LEMMA WhoTouchesTheStore ==
    ASSUME [Next]_vars
    PROVE  \/ MarkActive \/ Crash \/ Restart
           \/ \E r \in Run : Reconcile(r) \/ MarkFinished(r)
           \/ UNCHANGED storeVars /\ (pc' # "down" => pc # "down")
<1> DEFINE Untouched == UNCHANGED storeVars /\ (pc' # "down" => pc # "down")
<1>1. ASSUME Reconciled \/ Poll \/ AnswerLost \/ Receive
             \/ HandledAll \/ StartAccepted \/ StartAnswerLost \/ StartDropped
             \/ NotStarted \/ StartProcess
      PROVE  Untouched
  BY <1>1 DEF Reconciled, Poll, AnswerLost, Receive, HandledAll, StartAccepted,
              StartAnswerLost, StartDropped, NotStarted, StartProcess, storeVars, pollVars
<1>2. ASSUME NEW r \in Run,
             Acknowledge(r) \/ Resend(r) \/ Ignore(r) \/ LaunchCancelled(r)
             \/ Accept(r)
      PROVE  Untouched
  BY <1>2 DEF Acknowledge, Resend, Ignore, LaunchCancelled, Accept, Handling
<1>3. ASSUME NEW r \in Run,
             CancelByAnswer(r) \/ Exit(r) \/ Finish(r) \/ FinishAnswerLost(r)
             \/ FinishRefused(r) \/ Release(r) \/ ReportLost(r) \/ ReportLostAnswerLost(r)
             \/ ReportLostRefused(r) \/ UserCancels(r) \/ LeaseRunsOut(r)
      PROVE  Untouched
  BY <1>3 DEF CancelByAnswer, Exit, Finish, FinishAnswerLost, FinishRefused,
              Release, ReportLost, ReportLostAnswerLost, ReportLostRefused, UserCancels, LeaseRunsOut, pollVars
<1>4. CASE UNCHANGED vars
  BY <1>4 DEF vars, pollVars
<1> QED
  BY <1>1, <1>2, <1>3, <1>4, NextActions

\* What any touch of the store does to the file, given that memory knows what
\* it knows.
DiskKeeps ==
    \A r \in Run \ pruned' :
        /\ r \in disk.active => r \in disk'.active \/ disk'.recent[r] # None
        /\ disk.recent[r] # None => disk'.recent[r] = disk.recent[r]

\* A save keeps the file behind memory, if it is of a Run with no outcome yet.
LEMMA FinishedOnDisk ==
    ASSUME Typed, DiskBehind, UnsavedOnly, NEW r \in Run, NEW o \in Outcome,
           pc # "down", UNCHANGED pc, mem.recent[r] = None, Save(WithFinished(r, o))
    PROVE  DiskBehind' /\ UnsavedOnly' /\ DiskKeeps
<1>1. /\ mem'.active = mem.active \ {r} /\ mem'.recent[r] = o /\ o # None
      /\ SavedOrNot /\ HistoryKept
      /\ \A q \in Run \ {r} : KeptOrPruned(q)
  BY SaveFinished, NoneAssumption DEF Typed
<1>2. DiskBehind'
  BY <1>1 DEF DiskBehind, SavedOrNot, HistoryKept, KeptOrPruned
<1>3. UnsavedOnly'
  BY <1>1 DEF UnsavedOnly, SavedOrNot
<1>4. DiskKeeps
  BY <1>1 DEF DiskBehind, DiskKeeps, SavedOrNot, HistoryKept, KeptOrPruned
<1> QED
  BY <1>2, <1>3, <1>4

\* Every action keeps the file behind memory, and forgets nothing of the file
\* but what it prunes.
LEMMA DiskStep ==
    Typed /\ Control /\ DiskBehind /\ UnsavedOnly /\ [Next]_vars
    => DiskBehind' /\ UnsavedOnly' /\ DiskKeeps
<1> SUFFICES ASSUME Typed, Control, DiskBehind, UnsavedOnly, [Next]_vars
             PROVE  DiskBehind' /\ UnsavedOnly' /\ DiskKeeps
  OBVIOUS
<1>1. CASE MarkActive
  <2>1. cur \in Run /\ pc' = "handle" /\ pc # "down"
    BY <1>1 DEF MarkActive, Typed, CurInHand, Busy
  <2>2. /\ mem'.active = mem.active \cup {cur} /\ SavedOrNot /\ HistoryKept
        /\ \A q \in Run : KeptOrPruned(q)
    BY <1>1, <2>1, SaveActive DEF MarkActive, Typed
  <2>3. DiskBehind'
    BY <2>1, <2>2 DEF DiskBehind, SavedOrNot, HistoryKept, KeptOrPruned
  <2>4. UnsavedOnly'
    BY <2>1, <2>2 DEF UnsavedOnly, SavedOrNot
  <2>5. DiskKeeps
    BY <2>1, <2>2 DEF DiskBehind, DiskKeeps, SavedOrNot, HistoryKept, KeptOrPruned
  <2> QED
    BY <2>3, <2>4, <2>5
<1>3. ASSUME NEW r \in Run, Reconcile(r) PROVE DiskBehind' /\ UnsavedOnly' /\ DiskKeeps
  BY <1>3, FinishedOnDisk DEF Reconcile, Control, StoreConsistent, Outcome, pollVars
<1>4. ASSUME NEW r \in Run, MarkFinished(r) PROVE DiskBehind' /\ UnsavedOnly' /\ DiskKeeps
  <2>1. Registered(r) /\ registry[r].step = "mark" /\ registry[r].outcome \in Outcome
    BY <1>4, EntryAdvances DEF MarkFinished, At, Typed
  <2>2. pc # "down" /\ mem.recent[r] = None
    BY <2>1 DEF Control, NothingYet, OnRecord
  <2> QED
    BY <1>4, <2>1, <2>2, FinishedOnDisk DEF MarkFinished, pollVars
<1>5. CASE Crash
  BY <1>5 DEF Crash, DiskBehind, UnsavedOnly, DiskKeeps
<1>6. CASE Restart
  BY <1>6 DEF Restart, DiskBehind, UnsavedOnly, DiskKeeps
<1>7. CASE UNCHANGED storeVars /\ (pc' # "down" => pc # "down")
  BY <1>7 DEF storeVars, DiskBehind, UnsavedOnly, DiskKeeps
<1> QED
  BY <1>1, <1>3, <1>4, <1>5, <1>6, <1>7, WhoTouchesTheStore

Filed == DiskBehind /\ UnsavedOnly

\* Initially the file is empty.
LEMMA FiledInit == Init => Filed
  BY DEF Init, Filed, DiskBehind, UnsavedOnly, EmptyStore

\* state.json forgets a Run it lists, or an outcome, only by pruning it, though
\* saves fail, the Agent crashes and leases are repeated.
THEOREM FileForgetsByPruningOnly == Spec => FileForgetsByPruning
<1>1. Typed /\ Control /\ Filed /\ [Next]_vars => (Typed /\ Control /\ Filed)'
  BY TypedStep, ControlStep, DiskStep DEF Filed
<1>2. Typed /\ Control /\ Filed /\ [Next]_vars => [DiskKeeps]_vars
  BY DiskStep DEF Filed
<1> QED
  BY <1>1, <1>2, TypedInit, ControlInit, FiledInit, PTL DEF Spec, FileForgetsByPruning, DiskKeeps

\* A live process has a reporter that is registered and listed, and is active on
\* file, unless no save has succeeded since it was launched; launch itself is the
\* only other exception, for one step.
THEOREM ProcessesOwned == Spec => []NoForgottenProcess
<1>1. Typed /\ Control /\ Filed => NoForgottenProcess
  <2> SUFFICES ASSUME Typed, Control, Filed, NEW r \in Run, Running(r),
                      ~(pc = "mark_active" /\ cur = r)
               PROVE  r \in ActiveRuns /\ r \in mem.active /\ (r \in disk.active \/ r \in unsaved)
    BY DEF NoForgottenProcess
  <2>1. At(r, "supervise")
    BY DEF Control, Owned
  <2>2. registry[r].kind = "process"
    BY <2>1, RegisteredIsEntry DEF At, Typed, Entry
  <2>3. r \in ActiveRuns /\ r \in mem.active
    BY <2>1, <2>2 DEF At, ActiveRuns, Control, OnRecord
  <2>4. pc # "down"
    BY <2>1 DEF At, Control, NothingYet
  <2> QED
    BY <2>3, <2>4 DEF Filed, UnsavedOnly
<1>2. Typed /\ Control /\ Filed /\ [Next]_vars => (Typed /\ Control /\ Filed)'
  BY TypedStep, ControlStep, DiskStep DEF Filed
<1> QED
  BY <1>1, <1>2, TypedInit, ControlInit, FiledInit, PTL DEF Spec

----------------------------------------------------------------------------
(***************************************************************************)
(* Consent.  A Run the Server has started stays started or is finished; it *)
(* is executed only by StartProcess, which StartAccepted precedes.         *)
(***************************************************************************)
Consented(r) == status[r] \in {"started", "finished"}

LEMMA StatusMovesForward ==
    ASSUME Typed, [Next]_vars, NEW q \in Run, Consented(q)
    PROVE  Consented(q)'
<1> USE DEF Consented, Typed, TypeOK, serverVars
<1>1. CASE Poll
  BY <1>1 DEF Poll
<1>2. CASE StartAccepted \/ StartAnswerLost
  BY <1>2 DEF StartAccepted, StartAnswerLost, ServerStart
<1>3. ASSUME NEW r \in Run, Acknowledge(r) PROVE Consented(q)'
  BY <1>3 DEF Acknowledge
<1>4. ASSUME NEW r \in Run,
             Resend(r) \/ Finish(r) \/ FinishAnswerLost(r) \/ ReportLost(r) \/ ReportLostAnswerLost(r)
      PROVE  Consented(q)'
  BY <1>4 DEF Resend, Finish, FinishAnswerLost, ReportLost, ReportLostAnswerLost, ServerFinish
<1>5. ASSUME NEW r \in Run, LeaseRunsOut(r) PROVE Consented(q)'
  BY <1>5 DEF LeaseRunsOut
<1>6. ASSUME Reconciled \/ AnswerLost \/ Receive \/ HandledAll \/ StartDropped
             \/ NotStarted \/ StartProcess \/ MarkActive \/ Crash \/ Restart
      PROVE  UNCHANGED status
  BY <1>6 DEF Reconciled, AnswerLost, Receive, HandledAll, StartDropped, NotStarted, StartProcess,
              MarkActive, Crash, Restart
<1>7. ASSUME NEW r \in Run,
             Reconcile(r) \/ Ignore(r) \/ LaunchCancelled(r) \/ Accept(r) \/ CancelByAnswer(r)
             \/ Exit(r) \/ FinishRefused(r) \/ MarkFinished(r) \/ Release(r)
             \/ ReportLostRefused(r) \/ UserCancels(r)
      PROVE  UNCHANGED status
  BY <1>7 DEF Reconcile, Ignore, LaunchCancelled, Accept, CancelByAnswer, Exit, FinishRefused,
              MarkFinished, Release, ReportLostRefused, UserCancels
<1>8. CASE UNCHANGED vars
  BY <1>8 DEF vars
<1> QED
  BY <1>1, <1>2, <1>3, <1>4, <1>5, <1>6, <1>7, <1>8, NextActions

\* Apart from StartProcess no action executes anything, and the goroutine gets
\* to spawn only by an accepted start, to mark_active not at all.
OnlyWaits ==
    /\ UNCHANGED execs
    /\ pc' = "mark_active" => pc = "mark_active" /\ UNCHANGED cur
    /\ pc' = "spawn" => (pc = "spawn" /\ UNCHANGED cur) \/ StartAccepted

\* Only StartProcess begins a process.
LEMMA WhoExecutes == ASSUME [Next]_vars PROVE StartProcess \/ OnlyWaits
<1> USE DEF OnlyWaits, procVars, pollVars
<1>1. ASSUME Reconciled \/ Poll \/ AnswerLost \/ Receive \/ HandledAll \/ StartAccepted
             \/ StartAnswerLost \/ StartDropped \/ NotStarted \/ MarkActive \/ Crash \/ Restart
      PROVE  OnlyWaits
  BY <1>1 DEF Reconciled, Poll, AnswerLost, Receive, HandledAll, StartAccepted,
              StartAnswerLost, StartDropped, NotStarted, MarkActive, Crash, Restart
<1>2. ASSUME NEW r \in Run,
             Acknowledge(r) \/ Resend(r) \/ Ignore(r) \/ LaunchCancelled(r) \/ Accept(r)
      PROVE  OnlyWaits
  BY <1>2 DEF Acknowledge, Resend, Ignore, LaunchCancelled, Accept
<1>3. ASSUME NEW r \in Run,
             Reconcile(r) \/ CancelByAnswer(r) \/ Exit(r) \/ Finish(r) \/ FinishAnswerLost(r)
             \/ FinishRefused(r) \/ MarkFinished(r) \/ Release(r) \/ ReportLost(r)
             \/ ReportLostAnswerLost(r) \/ ReportLostRefused(r) \/ UserCancels(r) \/ LeaseRunsOut(r)
      PROVE  OnlyWaits
  BY <1>3 DEF Reconcile, CancelByAnswer, Exit, Finish, FinishAnswerLost, FinishRefused, MarkFinished,
              Release, ReportLost, ReportLostAnswerLost, ReportLostRefused, UserCancels, LeaseRunsOut
<1>4. CASE UNCHANGED vars
  BY <1>4 DEF vars
<1> QED
  BY <1>1, <1>2, <1>3, <1>4, NextActions

Consent == StartedWithConsent /\ CurConsented

\* Initially nothing was executed and nothing is in hand.
LEMMA ConsentInit == Init => Consent
  BY DEF Init, Consent, StartedWithConsent, CurConsented

\* No action loses the consent a Run was started with.
LEMMA ConsentStep == Typed /\ Consent /\ [Next]_vars => Consent'
<1> SUFFICES ASSUME Typed, Consent, [Next]_vars PROVE Consent'
  OBVIOUS
<1>1. \A q \in Run : Consented(q) => Consented(q)'
  BY StatusMovesForward
<1>2. pc \in {"start", "spawn", "mark_active"} => cur \in Run
  BY DEF Typed, CurInHand, Busy
<1> USE DEF Consent, StartedWithConsent, CurConsented, Consented, Typed, TypeOK
<1>3. CASE StartProcess
  BY <1>1, <1>2, <1>3 DEF StartProcess
<1>4. CASE StartAccepted
  BY <1>1, <1>2, <1>4 DEF StartAccepted, ServerStart, procVars
<1>5. CASE OnlyWaits /\ ~StartAccepted
  BY <1>1, <1>2, <1>5 DEF OnlyWaits
<1> QED
  BY <1>3, <1>4, <1>5, WhoExecutes

\* No process without the Server's consent, whatever is lost or runs out
\* between its answer and the spawn.
THEOREM NoRunWithoutConsent == Spec => []StartedWithConsent
<1>1. Typed /\ Consent /\ [Next]_vars => (Typed /\ Consent)'
  BY TypedStep, ConsentStep
<1>2. Consent => StartedWithConsent
  BY DEF Consent
<1> QED
  BY <1>1, <1>2, TypedInit, ConsentInit, PTL DEF Spec

----------------------------------------------------------------------------
(***************************************************************************)
(* At most once.  A Run that was executed is known, so its lease is not    *)
(* taken for a new one; it is forgotten only in a crash that falls before  *)
(* its record, or when its outcome is pruned, and then only a repeated     *)
(* lease brings it back.                                                   *)
(***************************************************************************)
Owning == Typed /\ Control /\ Consent

\* A Run executed once stays known: to the registry, the memory or the file.
LEMMA KnownStep == Owning /\ ExecutedIsKnown /\ [Next]_vars => ExecutedIsKnown'
<1> SUFFICES ASSUME Owning, ExecutedIsKnown, [Next]_vars PROVE ExecutedIsKnown'
  OBVIOUS
<1>a. \A e \in Entry : e # None
  BY NoneAssumption
<1> USE NoneAssumption DEF Owning, Typed, TypeOK, CurInHand, Busy, Control, NothingYet, OnRecord,
      ExecutedIsKnown, Forgotten, Recorded, Registered, pollVars, storeVars, procVars, serverVars, crashVars
<1>1. CASE Reconciled
  BY <1>1 DEF Reconciled
<1>2. CASE Poll
  BY <1>2 DEF Poll
<1>3. CASE AnswerLost
  BY <1>3 DEF AnswerLost
<1>4. CASE Receive
  BY <1>4 DEF Receive, Cancellable
<1>5. CASE HandledAll
  BY <1>5 DEF HandledAll
<1>6. CASE StartAccepted
  BY <1>6 DEF StartAccepted, ServerStart, CanStart
<1>7. CASE StartAnswerLost
  BY <1>7 DEF StartAnswerLost, ServerStart, CanStart
<1>8. CASE StartDropped
  BY <1>8 DEF StartDropped
<1>9. CASE NotStarted
  <2>1. cur \in Run /\ registry'[cur] # None /\ \A r \in Run \ {cur} : registry'[r] = registry[r]
    BY <1>9, <1>a, EntryMade DEF NotStarted, Launch, Outcome
  <2> QED
    BY <1>9, <2>1 DEF NotStarted
<1>10. CASE StartProcess
  BY <1>10 DEF StartProcess
<1>11. CASE MarkActive
  <2>1. /\ cur \in Run /\ mem'.active = mem.active \cup {cur}
        /\ pruned \subseteq pruned'
    BY <1>11, SaveActive DEF MarkActive, HistoryKept
  <2>2. \A q \in Run : mem'.recent[q] = mem.recent[q] \/ q \in pruned'
    BY <1>11, <2>1, SaveActive DEF MarkActive, KeptOrPruned
  <2>3. registry'[cur] # None /\ \A r \in Run \ {cur} : registry'[r] = registry[r]
    BY <1>11, <1>a, <2>1, SupervisedMade DEF MarkActive, Launch
  <2> QED
    BY <1>11, <2>1, <2>2, <2>3 DEF MarkActive
<1>12. CASE Crash
  BY <1>12 DEF Crash
<1>13. CASE Restart
  BY <1>13 DEF Restart
<1>14. ASSUME NEW r \in Run, Reconcile(r) PROVE ExecutedIsKnown'
  <2>1. mem.recent[r] = None /\ "lost" \in Outcome /\ "lost" # None
    BY <1>14 DEF Reconcile, StoreConsistent, Outcome
  <2>2. /\ mem'.active = mem.active \ {r} /\ mem'.recent[r] # None
        /\ pruned \subseteq pruned'
    BY <1>14, <2>1, SaveFinished DEF Reconcile, HistoryKept
  <2>3. \A q \in Run \ {r} : mem'.recent[q] = mem.recent[q] \/ q \in pruned'
    BY <1>14, <2>1, SaveFinished DEF Reconcile, KeptOrPruned
  <2> QED
    BY <1>14, <2>2, <2>3 DEF Reconcile
<1>15. ASSUME NEW r \in Run, Acknowledge(r) PROVE ExecutedIsKnown'
  BY <1>15 DEF Acknowledge, Handling
<1>16. ASSUME NEW r \in Run, Resend(r) PROVE ExecutedIsKnown'
  BY <1>16 DEF Resend, ServerFinish, Handling
<1>17. ASSUME NEW r \in Run, Ignore(r) PROVE ExecutedIsKnown'
  BY <1>17 DEF Ignore, Handling
<1>18. ASSUME NEW r \in Run, LaunchCancelled(r) PROVE ExecutedIsKnown'
  <2>1. registry'[r] # None /\ \A q \in Run \ {r} : registry'[q] = registry[q]
    BY <1>18, <1>a, EntryMade DEF LaunchCancelled, Launch, Outcome
  <2> QED
    BY <1>18, <2>1 DEF LaunchCancelled, Handling
<1>19. ASSUME NEW r \in Run, Accept(r) PROVE ExecutedIsKnown'
  BY <1>19 DEF Accept, Verified, Unknown, Handling
<1>20. ASSUME NEW r \in Run, CancelByAnswer(r) PROVE ExecutedIsKnown'
  BY <1>20 DEF CancelByAnswer
<1>21. ASSUME NEW r \in Run, Exit(r) PROVE ExecutedIsKnown'
  <2>1. OutcomeOf(r) \in Outcome
    BY DEF OutcomeOf, Outcome
  <2>2. registry'[r] # None /\ \A q \in Run \ {r} : registry'[q] = registry[q]
    BY <1>21, <1>a, <2>1, EntryExits DEF Exit
  <2> QED
    BY <1>21, <2>2 DEF Exit
<1>22. ASSUME NEW r \in Run, Finish(r) PROVE ExecutedIsKnown'
  <2>1. registry'[r] # None /\ \A q \in Run \ {r} : registry'[q] = registry[q]
    BY <1>22, <1>a, EntryAdvances DEF Finish, At
  <2> QED
    BY <1>22, <2>1 DEF Finish
<1>23. ASSUME NEW r \in Run, FinishAnswerLost(r) PROVE ExecutedIsKnown'
  BY <1>23 DEF FinishAnswerLost, ServerFinish
<1>24. ASSUME NEW r \in Run, FinishRefused(r) PROVE ExecutedIsKnown'
  <2>1. registry'[r] # None /\ \A q \in Run \ {r} : registry'[q] = registry[q]
    BY <1>24, <1>a, EntryAdvances DEF FinishRefused, At
  <2> QED
    BY <1>24, <2>1 DEF FinishRefused
<1>25. ASSUME NEW r \in Run, MarkFinished(r) PROVE ExecutedIsKnown'
  <2>0. registry[r].outcome \in Outcome
    BY <1>25, EntryAdvances DEF MarkFinished, At
  <2>1. mem.recent[r] = None /\ registry[r].outcome \in Outcome /\ registry[r].outcome # None
    <3>1. Registered(r) /\ registry[r].step = "mark"
      BY <1>25 DEF MarkFinished, At
    <3> QED
      BY <2>0, <3>1
  <2>2. /\ mem'.active = mem.active \ {r} /\ mem'.recent[r] # None
        /\ pruned \subseteq pruned'
    BY <1>25, <2>1, SaveFinished DEF MarkFinished, HistoryKept
  <2>3. \A q \in Run \ {r} : mem'.recent[q] = mem.recent[q] \/ q \in pruned'
    BY <1>25, <2>1, SaveFinished DEF MarkFinished, KeptOrPruned
  <2>4. \A q \in Run \ {r} : registry'[q] = registry[q]
    BY <1>25 DEF MarkFinished
  <2>5. \A q \in Run \ {r} :
          (Recorded(mem, q) => Recorded(mem, q)' \/ q \in pruned') /\ (Registered(q) => Registered(q)')
    BY <2>2, <2>3, <2>4
  <2>6. Recorded(mem, r)'
    BY <2>2, <2>3
  <2>7. UNCHANGED <<pc, cur, execs, unrecorded>> /\ pc # "down"
    BY <1>25 DEF MarkFinished, At
  <2> HIDE DEF Recorded, Registered
  <2> QED
    BY <2>2, <2>5, <2>6, <2>7
<1>26. ASSUME NEW r \in Run, Release(r) PROVE ExecutedIsKnown'
  BY <1>26 DEF Release, At
<1>27. ASSUME NEW r \in Run, ReportLost(r) PROVE ExecutedIsKnown'
  BY <1>27 DEF ReportLost, ServerFinish
<1>28. ASSUME NEW r \in Run, ReportLostAnswerLost(r) PROVE ExecutedIsKnown'
  BY <1>28 DEF ReportLostAnswerLost, ServerFinish
<1>29. ASSUME NEW r \in Run, ReportLostRefused(r) PROVE ExecutedIsKnown'
  BY <1>29 DEF ReportLostRefused
<1>30. ASSUME NEW r \in Run, UserCancels(r) PROVE ExecutedIsKnown'
  BY <1>30 DEF UserCancels
<1>31. ASSUME NEW r \in Run, LeaseRunsOut(r) PROVE ExecutedIsKnown'
  BY <1>31 DEF LeaseRunsOut
<1>32. CASE UNCHANGED vars
  BY <1>32 DEF vars
<1> QED
  BY <1>1, <1>2, <1>3, <1>4, <1>5, <1>6, <1>7, <1>8, <1>9, <1>10, <1>11, <1>12, <1>13, <1>14, <1>15, <1>16, <1>17, <1>18, <1>19, <1>20, <1>21, <1>22, <1>23, <1>24, <1>25, <1>26, <1>27, <1>28, <1>29, <1>30, <1>31, <1>32, NextActions

\* The Run about to be spawned was not executed, unless it is forgotten.
LEMMA SpawnedIsNew ==
    ASSUME Owning, ExecutedIsKnown, pc \in {"start", "spawn"}, execs[cur] > 0
    PROVE  cur \in Forgotten
  BY DEF Owning, Typed, CurInHand, Busy, Control, CurIsNew, ExecutedIsKnown, Recorded

\* History is not rewritten.
LEMMA HistoryGrows ==
    ASSUME Typed, [Next]_vars
    PROVE  /\ unrecorded \subseteq unrecorded' /\ pruned \subseteq pruned'
           /\ repeated \subseteq repeated' /\ cancelReq \subseteq cancelReq'
<1> DEFINE Grown == /\ unrecorded \subseteq unrecorded' /\ pruned \subseteq pruned'
                    /\ repeated \subseteq repeated' /\ cancelReq \subseteq cancelReq'
<1> USE DEF serverVars, crashVars, storeVars
<1>1. ASSUME Reconciled \/ Poll \/ AnswerLost \/ Receive \/ HandledAll \/ StartAccepted
             \/ StartAnswerLost \/ StartDropped \/ NotStarted \/ StartProcess
             \/ Crash \/ Restart
      PROVE  Grown
  BY <1>1 DEF Reconciled, Poll, AnswerLost, Receive, HandledAll, StartAccepted,
              StartAnswerLost, StartDropped, NotStarted, StartProcess, Crash, Restart
<1>2. ASSUME NEW r \in Run,
             Acknowledge(r) \/ Resend(r) \/ Ignore(r) \/ LaunchCancelled(r) \/ Accept(r)
      PROVE  Grown
  BY <1>2 DEF Acknowledge, Resend, Ignore, LaunchCancelled, Accept
<1>3. ASSUME NEW r \in Run,
             CancelByAnswer(r) \/ Exit(r) \/ Finish(r) \/ FinishAnswerLost(r)
             \/ FinishRefused(r) \/ Release(r) \/ ReportLost(r)
             \/ ReportLostAnswerLost(r) \/ ReportLostRefused(r) \/ UserCancels(r) \/ LeaseRunsOut(r)
      PROVE  Grown
  BY <1>3 DEF CancelByAnswer, Exit, Finish, FinishAnswerLost, FinishRefused,
              Release, ReportLost, ReportLostAnswerLost, ReportLostRefused, UserCancels, LeaseRunsOut
<1>4. ASSUME NEW c \in Store, Save(c) PROVE pruned \subseteq pruned'
  BY <1>4, SaveEffect DEF Typed, HistoryKept
<1>5. CASE MarkActive
  BY <1>4, <1>5, WithActiveIsStore DEF MarkActive, Typed, CurInHand, Busy
<1>6. ASSUME NEW r \in Run, Reconcile(r) PROVE Grown
  BY <1>4, <1>6, WithFinishedIsStore DEF Reconcile, Typed, Outcome
<1>7. ASSUME NEW r \in Run, MarkFinished(r) PROVE Grown
  BY <1>4, <1>7, WithFinishedIsStore, EntryAdvances DEF MarkFinished, Typed, At
<1>8. CASE UNCHANGED vars
  BY <1>8 DEF vars
<1> QED
  BY <1>1, <1>2, <1>3, <1>5, <1>6, <1>7, <1>8, NextActions

\* A lease that comes after the execution of its Run is marked repeated.
LEMMA RepeatedStep == Owning /\ LeaseIsRepeated /\ [Next]_vars => LeaseIsRepeated'
<1> SUFFICES ASSUME Owning, LeaseIsRepeated, [Next]_vars PROVE LeaseIsRepeated'
  OBVIOUS
<1> USE DEF Owning, Typed, TypeOK, CurInHand, Busy, Consent, StartedWithConsent, LeaseIsRepeated,
      pollVars, procVars, serverVars
<1>1. CASE Reconciled
  BY <1>1 DEF Reconciled
<1>2. CASE Poll
  BY <1>2 DEF Poll
<1>3. CASE AnswerLost
  BY <1>3 DEF AnswerLost
<1>4. CASE Receive
  BY <1>4 DEF Receive, Cancellable
<1>5. CASE HandledAll
  BY <1>5 DEF HandledAll
<1>6. CASE StartAccepted
  BY <1>6 DEF StartAccepted, ServerStart, CanStart
<1>7. CASE StartAnswerLost
  BY <1>7 DEF StartAnswerLost, ServerStart, CanStart
<1>8. CASE StartDropped
  BY <1>8 DEF StartDropped
<1>9. CASE NotStarted
  BY <1>9 DEF NotStarted, Launch
<1>10. CASE StartProcess
  BY <1>10 DEF StartProcess
<1>11. CASE MarkActive
  BY <1>11 DEF MarkActive, Launch
<1>12. CASE Crash
  BY <1>12 DEF Crash, EmptyStore
<1>13. CASE Restart
  BY <1>13 DEF Restart
<1>14. ASSUME NEW r \in Run, Reconcile(r) PROVE LeaseIsRepeated'
  BY <1>14 DEF Reconcile
<1>15. ASSUME NEW r \in Run, Acknowledge(r) PROVE LeaseIsRepeated'
  BY <1>15 DEF Acknowledge, Handling
<1>16. ASSUME NEW r \in Run, Resend(r) PROVE LeaseIsRepeated'
  BY <1>16 DEF Resend, ServerFinish, Handling
<1>17. ASSUME NEW r \in Run, Ignore(r) PROVE LeaseIsRepeated'
  BY <1>17 DEF Ignore, Handling
<1>18. ASSUME NEW r \in Run, LaunchCancelled(r) PROVE LeaseIsRepeated'
  BY <1>18 DEF LaunchCancelled, Launch, Verified, Unknown, Handling
<1>19. ASSUME NEW r \in Run, Accept(r) PROVE LeaseIsRepeated'
  BY <1>19 DEF Accept, Verified, Unknown, Handling
<1>20. ASSUME NEW r \in Run, CancelByAnswer(r) PROVE LeaseIsRepeated'
  BY <1>20 DEF CancelByAnswer
<1>21. ASSUME NEW r \in Run, Exit(r) PROVE LeaseIsRepeated'
  BY <1>21 DEF Exit
<1>22. ASSUME NEW r \in Run, Finish(r) PROVE LeaseIsRepeated'
  BY <1>22 DEF Finish, ServerFinish
<1>23. ASSUME NEW r \in Run, FinishAnswerLost(r) PROVE LeaseIsRepeated'
  BY <1>23 DEF FinishAnswerLost, ServerFinish
<1>24. ASSUME NEW r \in Run, FinishRefused(r) PROVE LeaseIsRepeated'
  BY <1>24 DEF FinishRefused
<1>25. ASSUME NEW r \in Run, MarkFinished(r) PROVE LeaseIsRepeated'
  BY <1>25 DEF MarkFinished
<1>26. ASSUME NEW r \in Run, Release(r) PROVE LeaseIsRepeated'
  BY <1>26 DEF Release
<1>27. ASSUME NEW r \in Run, ReportLost(r) PROVE LeaseIsRepeated'
  BY <1>27 DEF ReportLost, ServerFinish
<1>28. ASSUME NEW r \in Run, ReportLostAnswerLost(r) PROVE LeaseIsRepeated'
  BY <1>28 DEF ReportLostAnswerLost, ServerFinish
<1>29. ASSUME NEW r \in Run, ReportLostRefused(r) PROVE LeaseIsRepeated'
  BY <1>29 DEF ReportLostRefused
<1>30. ASSUME NEW r \in Run, UserCancels(r) PROVE LeaseIsRepeated'
  BY <1>30 DEF UserCancels
<1>31. ASSUME NEW r \in Run, LeaseRunsOut(r) PROVE LeaseIsRepeated'
  BY <1>31 DEF LeaseRunsOut
<1>32. CASE UNCHANGED vars
  BY <1>32 DEF vars
<1> QED
  BY <1>1, <1>2, <1>3, <1>4, <1>5, <1>6, <1>7, <1>8, <1>9, <1>10, <1>11, <1>12, <1>13, <1>14, <1>15, <1>16, <1>17, <1>18, <1>19, <1>20, <1>21, <1>22, <1>23, <1>24, <1>25, <1>26, <1>27, <1>28, <1>29, <1>30, <1>31, <1>32, NextActions

Once == ExecutedIsKnown /\ LeaseIsRepeated /\ AtMostOnce

\* Initially nothing was executed.
LEMMA OnceInit == Init => Once
  BY DEF Init, Once, ExecutedIsKnown, LeaseIsRepeated, AtMostOnce

\* No action executes a Run a second time.
LEMMA OnceStep == Owning /\ Once /\ [Next]_vars => Once'
<1> SUFFICES ASSUME Owning, Once, [Next]_vars PROVE Once'
  OBVIOUS
<1>1. ExecutedIsKnown'
  BY KnownStep DEF Once
<1>2. LeaseIsRepeated'
  BY RepeatedStep DEF Once
<1>3. AtMostOnce'
  <2>1. CASE StartProcess
    <3>1. cur \in Run /\ execs' = [execs EXCEPT ![cur] = @ + 1] /\ execs[cur] \in Nat
      BY <2>1 DEF StartProcess, Owning, Typed, TypeOK, CurInHand, Busy
    <3>2. execs[cur] > 0 => cur \in Forgotten /\ cur \in repeated
      BY <2>1, <3>1, SpawnedIsNew DEF StartProcess, Once, LeaseIsRepeated
    <3> QED
      BY <3>1, <3>2, HistoryGrows DEF Once, AtMostOnce, Forgotten, Owning, Typed, TypeOK
  <2>2. CASE UNCHANGED execs
    BY <2>2, HistoryGrows DEF Once, AtMostOnce, Forgotten, Owning
  <2> QED
    BY <2>1, <2>2, WhoExecutes DEF OnlyWaits
<1> QED
  BY <1>1, <1>2, <1>3 DEF Once

\* A Run is executed at most once, whatever is lost, repeated or not saved; the
\* exception is a repeated lease after a crash before the record, or after the
\* outcome was pruned.
THEOREM ExecutedAtMostOnce == Spec => []AtMostOnce
<1>1. Owning /\ Once /\ [Next]_vars => (Owning /\ Once)'
  BY TypedStep, ControlStep, ConsentStep, OnceStep DEF Owning
<1>2. Init => Owning /\ Once
  BY TypedInit, ControlInit, ConsentInit, OnceInit DEF Owning
<1>3. Once => AtMostOnce
  BY DEF Once
<1> QED
  BY <1>1, <1>2, <1>3, PTL DEF Spec

----------------------------------------------------------------------------
(***************************************************************************)
(* The limit.  Runs that may have a process are those supervised and the   *)
(* one in hand; only Accept adds one, after counting all of the registry.  *)
(***************************************************************************)
Supervised == {r \in Run : At(r, "supervise")}
Held == Supervised \cup {r \in Run : Busy /\ cur = r}

\* Accept is the one action that takes a place; the others only give places back.
LEMMA OnlyAcceptHolds ==
    ASSUME Typed, [Next]_vars
    PROVE  Held' \subseteq Held \/ \E r \in Run : Accept(r)
<1> USE DEF Held, Supervised, At, Registered, Busy, Typed, TypeOK, CurInHand, pollVars
<1>1. CASE Reconciled
  BY <1>1 DEF Reconciled
<1>2. CASE Poll
  BY <1>2 DEF Poll
<1>3. CASE AnswerLost
  BY <1>3 DEF AnswerLost
<1>4. CASE Receive
  BY <1>4 DEF Receive, Cancellable
<1>5. CASE HandledAll
  BY <1>5 DEF HandledAll
<1>6. CASE StartAccepted
  BY <1>6 DEF StartAccepted, ServerStart, CanStart
<1>7. CASE StartAnswerLost
  BY <1>7 DEF StartAnswerLost, ServerStart, CanStart
<1>8. CASE StartDropped
  BY <1>8 DEF StartDropped
<1>9. CASE NotStarted
  BY <1>9 DEF NotStarted, Launch
<1>10. CASE StartProcess
  BY <1>10 DEF StartProcess
<1>11. CASE MarkActive
  BY <1>11 DEF MarkActive, Launch
<1>12. CASE Crash
  BY <1>12 DEF Crash
<1>13. CASE Restart
  BY <1>13 DEF Restart
<1>14. ASSUME NEW r \in Run, Reconcile(r) PROVE Held' \subseteq Held \/ \E q \in Run : Accept(q)
  BY <1>14 DEF Reconcile
<1>15. ASSUME NEW r \in Run, Acknowledge(r) PROVE Held' \subseteq Held \/ \E q \in Run : Accept(q)
  BY <1>15 DEF Acknowledge, Handling
<1>16. ASSUME NEW r \in Run, Resend(r) PROVE Held' \subseteq Held \/ \E q \in Run : Accept(q)
  BY <1>16 DEF Resend, ServerFinish, Handling
<1>17. ASSUME NEW r \in Run, Ignore(r) PROVE Held' \subseteq Held \/ \E q \in Run : Accept(q)
  BY <1>17 DEF Ignore, Handling
<1>18. ASSUME NEW r \in Run, LaunchCancelled(r) PROVE Held' \subseteq Held \/ \E q \in Run : Accept(q)
  BY <1>18 DEF LaunchCancelled, Launch, Verified, Unknown, Handling
<1>19. ASSUME NEW r \in Run, Accept(r) PROVE Held' \subseteq Held \/ \E q \in Run : Accept(q)
  BY <1>19
<1>20. ASSUME NEW r \in Run, CancelByAnswer(r) PROVE Held' \subseteq Held \/ \E q \in Run : Accept(q)
  BY <1>20 DEF CancelByAnswer
<1>21. ASSUME NEW r \in Run, Exit(r) PROVE Held' \subseteq Held \/ \E q \in Run : Accept(q)
  BY <1>21 DEF Exit
<1>22. ASSUME NEW r \in Run, Finish(r) PROVE Held' \subseteq Held \/ \E q \in Run : Accept(q)
  BY <1>22 DEF Finish, ServerFinish
<1>23. ASSUME NEW r \in Run, FinishAnswerLost(r) PROVE Held' \subseteq Held \/ \E q \in Run : Accept(q)
  BY <1>23 DEF FinishAnswerLost, ServerFinish
<1>24. ASSUME NEW r \in Run, FinishRefused(r) PROVE Held' \subseteq Held \/ \E q \in Run : Accept(q)
  BY <1>24 DEF FinishRefused
<1>25. ASSUME NEW r \in Run, MarkFinished(r) PROVE Held' \subseteq Held \/ \E q \in Run : Accept(q)
  BY <1>25 DEF MarkFinished
<1>26. ASSUME NEW r \in Run, Release(r) PROVE Held' \subseteq Held \/ \E q \in Run : Accept(q)
  BY <1>26 DEF Release
<1>27. ASSUME NEW r \in Run, ReportLost(r) PROVE Held' \subseteq Held \/ \E q \in Run : Accept(q)
  BY <1>27 DEF ReportLost, ServerFinish
<1>28. ASSUME NEW r \in Run, ReportLostAnswerLost(r) PROVE Held' \subseteq Held \/ \E q \in Run : Accept(q)
  BY <1>28 DEF ReportLostAnswerLost, ServerFinish
<1>29. ASSUME NEW r \in Run, ReportLostRefused(r) PROVE Held' \subseteq Held \/ \E q \in Run : Accept(q)
  BY <1>29 DEF ReportLostRefused
<1>30. ASSUME NEW r \in Run, UserCancels(r) PROVE Held' \subseteq Held \/ \E q \in Run : Accept(q)
  BY <1>30 DEF UserCancels
<1>31. ASSUME NEW r \in Run, LeaseRunsOut(r) PROVE Held' \subseteq Held \/ \E q \in Run : Accept(q)
  BY <1>31 DEF LeaseRunsOut
<1>32. CASE UNCHANGED vars
  BY <1>32 DEF vars
<1> QED
  BY <1>1, <1>2, <1>3, <1>4, <1>5, <1>6, <1>7, <1>8, <1>9, <1>10, <1>11, <1>12, <1>13, <1>14, <1>15, <1>16, <1>17, <1>18, <1>19, <1>20, <1>21, <1>22, <1>23, <1>24, <1>25, <1>26, <1>27, <1>28, <1>29, <1>30, <1>31, <1>32, NextActions

\* Accept takes one place, and a place was free.
LEMMA AcceptCounts ==
    ASSUME Typed, NEW r \in Run, Accept(r)
    PROVE  Cardinality(Held') <= MaxConcurrentRuns
<1> DEFINE R == {q \in Run : Registered(q)}
<1>1. IsFiniteSet(R) /\ Cardinality(R) \in Nat
  BY AgentAssumption, FS_Subset, FS_CardinalityType
<1>2. Cardinality(R) < MaxConcurrentRuns
  BY DEF Accept, FreeSlot, Count
<1>3. Held' \subseteq R \cup {r}
  BY DEF Accept, Held, Supervised, At, Registered, Busy
<1> HIDE DEF R
<1>4. /\ IsFiniteSet(R \cup {r}) /\ Cardinality(R \cup {r}) \in Nat
      /\ Cardinality(R \cup {r}) <= Cardinality(R) + 1
  <2>1. /\ IsFiniteSet(R \cup {r})
        /\ Cardinality(R \cup {r}) = IF r \in R THEN Cardinality(R) ELSE Cardinality(R) + 1
    BY <1>1, FS_AddElement, Zenon
  <2> QED
    BY <1>1, <2>1
<1>5. Cardinality(Held') \in Nat /\ Cardinality(Held') <= Cardinality(R \cup {r})
  BY <1>3, <1>4, FS_Subset, FS_CardinalityType
<1> QED
  BY <1>1, <1>2, <1>4, <1>5, AgentAssumption

HeldWithinLimit == Cardinality(Held) <= MaxConcurrentRuns

\* The places taken can be counted.
LEMMA HeldFinite == IsFiniteSet(Held) /\ Cardinality(Held) \in Nat
  BY AgentAssumption, FS_Subset, FS_CardinalityType DEF Held, Supervised

\* Initially no place is taken.
LEMMA HeldInit == Init => HeldWithinLimit
<1> SUFFICES ASSUME Init PROVE HeldWithinLimit
  OBVIOUS
<1>1. Held = {}
  BY DEF Init, Held, Supervised, At, Registered, Busy
<1> QED
  BY <1>1, FS_EmptySet, AgentAssumption DEF HeldWithinLimit

\* No action takes more places than the limit leaves.
LEMMA HeldStep == Typed /\ HeldWithinLimit /\ [Next]_vars => HeldWithinLimit'
<1> SUFFICES ASSUME Typed, HeldWithinLimit, [Next]_vars PROVE HeldWithinLimit'
  OBVIOUS
<1>1. ASSUME Held' \subseteq Held PROVE HeldWithinLimit'
  <2>1. Cardinality(Held') \in Nat /\ Cardinality(Held') <= Cardinality(Held)
    BY <1>1, HeldFinite, FS_Subset, FS_CardinalityType
  <2> QED
    BY <2>1, HeldFinite, AgentAssumption DEF HeldWithinLimit
<1>2. ASSUME NEW r \in Run, Accept(r) PROVE HeldWithinLimit'
  BY <1>2, AcceptCounts DEF HeldWithinLimit
<1> QED
  BY <1>1, <1>2, OnlyAcceptHolds

\* No more processes than max_concurrent_runs, however many leases arrive,
\* are repeated or are cancelled before they start.
THEOREM LimitKept == Spec => []WithinLimit
<1>1. Typed /\ Control /\ HeldWithinLimit => WithinLimit
  <2> SUFFICES ASSUME Typed, Control, HeldWithinLimit PROVE WithinLimit
    OBVIOUS
  <2>1. {r \in Run : Running(r)} \subseteq Held
    BY DEF Control, Owned, Held, Supervised, Busy
  <2>2. /\ Cardinality({r \in Run : Running(r)}) \in Nat
        /\ Cardinality({r \in Run : Running(r)}) <= Cardinality(Held)
    BY <2>1, HeldFinite, FS_Subset, FS_CardinalityType
  <2> QED
    BY <2>2, HeldFinite, AgentAssumption DEF WithinLimit, HeldWithinLimit
<1>2. Typed /\ Control /\ HeldWithinLimit /\ [Next]_vars => (Typed /\ Control /\ HeldWithinLimit)'
  BY TypedStep, ControlStep, HeldStep
<1> QED
  BY <1>1, <1>2, TypedInit, ControlInit, HeldInit, PTL DEF Spec

----------------------------------------------------------------------------
(***************************************************************************)
(* The inductive invariant as a whole.                                     *)
(***************************************************************************)
IInv ==
    /\ TypeOK
    /\ CurInHand /\ CurIsNew /\ NothingYet
    /\ OnRecord /\ StoreConsistent /\ Owned
    /\ DiskBehind /\ UnsavedOnly
    /\ StartedWithConsent /\ CurConsented
    /\ ExecutedIsKnown /\ LeaseIsRepeated /\ AtMostOnce
    /\ HeldWithinLimit

\* The invariant holds initially and every step of the Agent, its reporters,
\* the Server and a crash preserves it.
THEOREM Inductive == Spec => []IInv
<1>1. IInv <=> Owning /\ Filed /\ Once /\ HeldWithinLimit
  BY DEF IInv, Owning, Typed, Control, Consent, Filed, Once
<1>2. Init => IInv
  BY <1>1, TypedInit, ControlInit, ConsentInit, FiledInit, OnceInit, HeldInit DEF Owning
<1>3. IInv /\ [Next]_vars => IInv'
  <2> SUFFICES ASSUME IInv, [Next]_vars PROVE IInv'
    OBVIOUS
  <2>1. Typed /\ Control /\ Consent /\ Filed /\ Once /\ HeldWithinLimit
    BY <1>1 DEF Owning
  <2>2. Typed' /\ Control' /\ Consent' /\ Filed' /\ Once' /\ HeldWithinLimit'
    BY <2>1, TypedStep, ControlStep, ConsentStep, DiskStep, OnceStep, HeldStep DEF Owning, Filed
  <2> QED
    BY <2>2 DEF IInv, Typed, Control, Consent, Filed, Once
<1> QED
  BY <1>2, <1>3, PTL DEF Spec

(***************************************************************************)
(* The outcomes, on top of the above: what the Server is told of a Run is  *)
(* what happened to it, and what is on record is what the Server was told. *)
(*                                                                         *)
(* An outcome reaches the Server from three places: the reporter of a      *)
(* registered Run, the record of a Run that is not registered (Resend),    *)
(* and the goroutines of reconcile.  They never speak of one Run at the    *)
(* same time (LostKept), a Run in hand or supervised is still open         *)
(* (Open), so each finds the Server without an outcome or with its own     *)
(* (Agreeing), and what it carries is true when it takes it up and stays   *)
(* so (Truths).                                                            *)
(***************************************************************************)

\* An answer is handled only after reconcile; a daemon that is down reports
\* nothing; only a crash leaves active Runs to reconcile.
Quiet ==
    /\ pc \in {"down", "reconcile"} => leases = {}
    /\ pc = "down" => lostReports = {}
    /\ crashes = 0 => pc # "down" /\ (pc = "reconcile" => mem.active = {})

\* Only what a user asked to cancel is cancelled.
CancelsAsked == cancels \subseteq cancelReq /\ signalled \subseteq cancelReq

\* What is active, or about to be, has been executed.
ActiveExecuted ==
    /\ \A r \in mem.active \cup disk.active : execs[r] > 0
    /\ pc = "mark_active" => execs[cur] > 0

\* What a process is, and that it was executed; one that is supervised runs.
Lived ==
    /\ \A r \in Run : execs[r] = 0 <=> proc[r] = "none"
    /\ \A r \in unrecorded : execs[r] > 0
    /\ \A r \in Run : At(r, "supervise") => Running(r)
    /\ pc = "mark_active" => Running(cur)

\* A Run reported lost is on record as lost, and has no reporter.
LostKept ==
    \A r \in lostReports :
        /\ crashes > 0 /\ execs[r] > 0
        /\ r \notin pruned => mem.recent[r] = "lost" /\ ~Registered(r)

\* The Server has no outcome of a Run in hand or supervised, nor of a leased
\* one the Agent does not know.
Open ==
    /\ \A r \in Run : outcome[r] # None <=> status[r] = "finished"
    /\ \A r \in leases \ pruned : status[r] = "finished" => Registered(r) \/ mem.recent[r] # None
    /\ Busy /\ cur \notin pruned => status[cur] # "finished"
    /\ \A r \in Run \ pruned : At(r, "supervise") => status[r] # "finished"

Settled(r) == Registered(r) /\ registry[r].step # "supervise"

Agrees(o, told) == o # None /\ told # None => o = told \/ (o = "lost" /\ crashes > 0)

\* What a reporter carries is what the Server has, if it has anything, and so
\* is what is on record.
Agreeing ==
    \A r \in Run \ pruned :
        /\ Settled(r) /\ outcome[r] # None => registry[r].outcome = outcome[r]
        /\ Agrees(mem.recent[r], outcome[r])
        /\ Agrees(disk.recent[r], outcome[r])

\* An outcome is what happened to the Run.
Truthful(r, o) ==
    /\ o \in {"ended", "stopped", "lost"} => execs[r] > 0
    /\ o \in {"not_started", "cancelled_before_start"} => execs[r] = 0
    /\ o \in {"ended", "stopped"} => proc[r] = "exited"
    /\ o = "stopped" => r \in cancelReq
    /\ o = "lost" => crashes > 0

\* An outcome the Server, or its user, has a part in: it consented to the start,
\* or was asked to cancel.  It holds of forgotten Runs as well.
Allowed(r, o) ==
    /\ o \in Outcome \ {"cancelled_before_start"} => Consented(r)
    /\ o = "cancelled_before_start" => r \in cancelReq

AllAllowed ==
    \A r \in Run :
        /\ Settled(r) => Allowed(r, registry[r].outcome)
        /\ Allowed(r, mem.recent[r]) /\ Allowed(r, disk.recent[r])

\* So is what a reporter carries, what is on record and what the Server has.
Truths ==
    \A r \in Run \ Forgotten :
        /\ Settled(r) => Truthful(r, registry[r].outcome)
        /\ Truthful(r, mem.recent[r]) /\ Truthful(r, disk.recent[r])
        /\ Truthful(r, outcome[r])

\* What an action does to the store that files the outcome of a Run.
Files(r, o) ==
    /\ mem.recent[r] = None /\ o \in Outcome /\ o # None
    /\ mem'.active = mem.active \ {r} /\ mem'.recent[r] = o
    /\ \A q \in Run \ {r} : KeptOrPruned(q)
    /\ disk' = mem' \/ disk' = disk
    /\ pruned \subseteq pruned'

\* What reconcile does of one Run to the store.
LEMMA ReconcileFiles == ASSUME Typed, Control, NEW r \in Run, Reconcile(r) PROVE Files(r, "lost")
<1>1. mem.recent[r] = None /\ "lost" \in Outcome /\ "lost" # None
  BY NoneAssumption DEF Reconcile, Control, StoreConsistent, Outcome
<1> QED
  BY <1>1, SaveFinished DEF Reconcile, Files, Typed, SavedOrNot, HistoryKept, KeptOrPruned

\* What MarkFinished does to the store.
LEMMA MarkFinishedFiles ==
    ASSUME Typed, Control, NEW r \in Run, MarkFinished(r) PROVE Files(r, registry[r].outcome)
<1>1. Registered(r) /\ registry[r].step = "mark"
  BY DEF MarkFinished, At
<1>2. registry[r].outcome \in Outcome /\ registry[r].outcome # None
  BY <1>1, EntryAdvances, NoneAssumption DEF Typed
<1>3. mem.recent[r] = None
  BY <1>1 DEF Control, OnRecord
<1> QED
  BY <1>2, <1>3, SaveFinished DEF MarkFinished, Files, Typed, SavedOrNot, HistoryKept, KeptOrPruned

\* What MarkActive does to the store.
Activates ==
    /\ cur \in Run /\ mem'.active = mem.active \cup {cur}
    /\ \A q \in Run : KeptOrPruned(q)
    /\ disk' = mem' \/ disk' = disk
    /\ pruned \subseteq pruned'

\* launch's save of the Run in hand.
LEMMA MarkActiveActivates == ASSUME Typed, MarkActive PROVE Activates
<1>1. cur \in Run
  BY DEF MarkActive, Typed, CurInHand, Busy
<1> QED
  BY <1>1, SaveActive DEF MarkActive, Activates, Typed, SavedOrNot, HistoryKept

\* Nothing is handled before reconcile is over.
LEMMA QuietStep == Typed /\ Control /\ Quiet /\ [Next]_vars => Quiet'
<1> SUFFICES ASSUME Typed, Control, Quiet, [Next]_vars PROVE Quiet'
  OBVIOUS
<1> USE NoneAssumption DEF Typed, TypeOK, Quiet, Store, pollVars, storeVars,
      procVars, serverVars, crashVars
<1>1. CASE Reconciled
  BY <1>1 DEF Reconciled
<1>2. CASE Poll
  BY <1>2 DEF Poll
<1>3. CASE AnswerLost
  BY <1>3 DEF AnswerLost
<1>4. CASE Receive
  BY <1>4 DEF Receive, Cancellable
<1>5. CASE HandledAll
  BY <1>5 DEF HandledAll
<1>6. CASE StartAccepted
  BY <1>6 DEF StartAccepted, ServerStart, CanStart
<1>7. CASE StartAnswerLost
  BY <1>7 DEF StartAnswerLost, ServerStart, CanStart
<1>8. CASE StartDropped
  BY <1>8 DEF StartDropped
<1>9. CASE NotStarted
  BY <1>9 DEF NotStarted, Launch
<1>10. CASE StartProcess
  BY <1>10 DEF StartProcess
<1>11. CASE MarkActive
  BY <1>11 DEF MarkActive
<1>12. CASE Crash
  BY <1>12 DEF Crash, EmptyStore
<1>13. CASE Restart
  BY <1>13 DEF Restart
<1>14. ASSUME NEW r \in Run, Reconcile(r) PROVE Quiet'
  BY <1>14 DEF Reconcile
<1>15. ASSUME NEW r \in Run, Acknowledge(r) PROVE Quiet'
  BY <1>15 DEF Acknowledge, Handling, CanStart
<1>16. ASSUME NEW r \in Run, Resend(r) PROVE Quiet'
  BY <1>16 DEF Resend, ServerFinish, Handling
<1>17. ASSUME NEW r \in Run, Ignore(r) PROVE Quiet'
  BY <1>17 DEF Ignore, Handling
<1>18. ASSUME NEW r \in Run, LaunchCancelled(r) PROVE Quiet'
  BY <1>18 DEF LaunchCancelled, Launch, Verified, Unknown, Handling
<1>19. ASSUME NEW r \in Run, Accept(r) PROVE Quiet'
  BY <1>19 DEF Accept, Verified, Unknown, Handling
<1>20. ASSUME NEW r \in Run, CancelByAnswer(r) PROVE Quiet'
  BY <1>20 DEF CancelByAnswer
<1>21. ASSUME NEW r \in Run, Exit(r) PROVE Quiet'
  BY <1>21 DEF Exit, OutcomeOf
<1>22. ASSUME NEW r \in Run, Finish(r) PROVE Quiet'
  BY <1>22 DEF Finish, ServerFinish
<1>23. ASSUME NEW r \in Run, FinishAnswerLost(r) PROVE Quiet'
  BY <1>23 DEF FinishAnswerLost, ServerFinish
<1>24. ASSUME NEW r \in Run, FinishRefused(r) PROVE Quiet'
  BY <1>24 DEF FinishRefused
<1>25. ASSUME NEW r \in Run, MarkFinished(r) PROVE Quiet'
  <2>1. mem'.active \subseteq mem.active
    BY <1>25, MarkFinishedFiles DEF Files
  <2> QED
    BY <1>25, <2>1 DEF MarkFinished
<1>26. ASSUME NEW r \in Run, Release(r) PROVE Quiet'
  BY <1>26 DEF Release
<1>27. ASSUME NEW r \in Run, ReportLost(r) PROVE Quiet'
  BY <1>27 DEF ReportLost, ServerFinish
<1>28. ASSUME NEW r \in Run, ReportLostAnswerLost(r) PROVE Quiet'
  BY <1>28 DEF ReportLostAnswerLost, ServerFinish
<1>29. ASSUME NEW r \in Run, ReportLostRefused(r) PROVE Quiet'
  BY <1>29 DEF ReportLostRefused
<1>30. ASSUME NEW r \in Run, UserCancels(r) PROVE Quiet'
  BY <1>30 DEF UserCancels
<1>31. ASSUME NEW r \in Run, LeaseRunsOut(r) PROVE Quiet'
  BY <1>31 DEF LeaseRunsOut
<1>32. CASE UNCHANGED vars
  BY <1>32 DEF vars
<1> QED
  BY <1>1, <1>2, <1>3, <1>4, <1>5, <1>6, <1>7, <1>8, <1>9, <1>10, <1>11,
     <1>12, <1>13, <1>14, <1>15, <1>16, <1>17, <1>18, <1>19, <1>20, <1>21,
     <1>22, <1>23, <1>24, <1>25, <1>26, <1>27, <1>28, <1>29, <1>30, <1>31,
     <1>32, NextActions

\* Cancellations come from work, heartbeat and output answers only.
LEMMA CancelsStep == Typed /\ CancelsAsked /\ [Next]_vars => CancelsAsked'
<1> SUFFICES ASSUME Typed, CancelsAsked, [Next]_vars PROVE CancelsAsked'
  OBVIOUS
<1> USE NoneAssumption DEF Typed, TypeOK, CancelsAsked, pollVars, storeVars,
      procVars, serverVars, crashVars
<1>1. CASE Reconciled
  BY <1>1 DEF Reconciled
<1>2. CASE Poll
  BY <1>2 DEF Poll
<1>3. CASE AnswerLost
  BY <1>3 DEF AnswerLost
<1>4. CASE Receive
  BY <1>4 DEF Receive, Cancellable
<1>5. CASE HandledAll
  BY <1>5 DEF HandledAll
<1>6. CASE StartAccepted
  BY <1>6 DEF StartAccepted, ServerStart, CanStart
<1>7. CASE StartAnswerLost
  BY <1>7 DEF StartAnswerLost, ServerStart, CanStart
<1>8. CASE StartDropped
  BY <1>8 DEF StartDropped
<1>9. CASE NotStarted
  BY <1>9 DEF NotStarted, Launch
<1>10. CASE StartProcess
  BY <1>10 DEF StartProcess
<1>11. CASE MarkActive
  BY <1>11 DEF MarkActive, Launch
<1>12. CASE Crash
  BY <1>12 DEF Crash, EmptyStore
<1>13. CASE Restart
  BY <1>13 DEF Restart
<1>14. ASSUME NEW r \in Run, Reconcile(r) PROVE CancelsAsked'
  BY <1>14 DEF Reconcile
<1>15. ASSUME NEW r \in Run, Acknowledge(r) PROVE CancelsAsked'
  BY <1>15 DEF Acknowledge, Handling, CanStart
<1>16. ASSUME NEW r \in Run, Resend(r) PROVE CancelsAsked'
  BY <1>16 DEF Resend, ServerFinish, Handling
<1>17. ASSUME NEW r \in Run, Ignore(r) PROVE CancelsAsked'
  BY <1>17 DEF Ignore, Handling
<1>18. ASSUME NEW r \in Run, LaunchCancelled(r) PROVE CancelsAsked'
  BY <1>18 DEF LaunchCancelled, Launch, Verified, Unknown, Handling
<1>19. ASSUME NEW r \in Run, Accept(r) PROVE CancelsAsked'
  BY <1>19 DEF Accept, Verified, Unknown, Handling
<1>20. ASSUME NEW r \in Run, CancelByAnswer(r) PROVE CancelsAsked'
  BY <1>20 DEF CancelByAnswer
<1>21. ASSUME NEW r \in Run, Exit(r) PROVE CancelsAsked'
  BY <1>21 DEF Exit, OutcomeOf
<1>22. ASSUME NEW r \in Run, Finish(r) PROVE CancelsAsked'
  BY <1>22 DEF Finish, ServerFinish
<1>23. ASSUME NEW r \in Run, FinishAnswerLost(r) PROVE CancelsAsked'
  BY <1>23 DEF FinishAnswerLost, ServerFinish
<1>24. ASSUME NEW r \in Run, FinishRefused(r) PROVE CancelsAsked'
  BY <1>24 DEF FinishRefused
<1>25. ASSUME NEW r \in Run, MarkFinished(r) PROVE CancelsAsked'
  BY <1>25 DEF MarkFinished
<1>26. ASSUME NEW r \in Run, Release(r) PROVE CancelsAsked'
  BY <1>26 DEF Release
<1>27. ASSUME NEW r \in Run, ReportLost(r) PROVE CancelsAsked'
  BY <1>27 DEF ReportLost, ServerFinish
<1>28. ASSUME NEW r \in Run, ReportLostAnswerLost(r) PROVE CancelsAsked'
  BY <1>28 DEF ReportLostAnswerLost, ServerFinish
<1>29. ASSUME NEW r \in Run, ReportLostRefused(r) PROVE CancelsAsked'
  BY <1>29 DEF ReportLostRefused
<1>30. ASSUME NEW r \in Run, UserCancels(r) PROVE CancelsAsked'
  BY <1>30 DEF UserCancels
<1>31. ASSUME NEW r \in Run, LeaseRunsOut(r) PROVE CancelsAsked'
  BY <1>31 DEF LeaseRunsOut
<1>32. CASE UNCHANGED vars
  BY <1>32 DEF vars
<1> QED
  BY <1>1, <1>2, <1>3, <1>4, <1>5, <1>6, <1>7, <1>8, <1>9, <1>10, <1>11,
     <1>12, <1>13, <1>14, <1>15, <1>16, <1>17, <1>18, <1>19, <1>20, <1>21,
     <1>22, <1>23, <1>24, <1>25, <1>26, <1>27, <1>28, <1>29, <1>30, <1>31,
     <1>32, NextActions

\* The record of an active Run follows its process.
LEMMA ActiveStep == Typed /\ Control /\ ActiveExecuted /\ [Next]_vars => ActiveExecuted'
<1> SUFFICES ASSUME Typed, Control, ActiveExecuted, [Next]_vars PROVE ActiveExecuted'
  OBVIOUS
<1> USE NoneAssumption DEF Typed, TypeOK, CurInHand, Busy, Store,
      ActiveExecuted, pollVars, storeVars, procVars, serverVars, crashVars
<1>1. CASE Reconciled
  BY <1>1 DEF Reconciled
<1>2. CASE Poll
  BY <1>2 DEF Poll
<1>3. CASE AnswerLost
  BY <1>3 DEF AnswerLost
<1>4. CASE Receive
  BY <1>4 DEF Receive, Cancellable
<1>5. CASE HandledAll
  BY <1>5 DEF HandledAll
<1>6. CASE StartAccepted
  BY <1>6 DEF StartAccepted, ServerStart, CanStart
<1>7. CASE StartAnswerLost
  BY <1>7 DEF StartAnswerLost, ServerStart, CanStart
<1>8. CASE StartDropped
  BY <1>8 DEF StartDropped
<1>9. CASE NotStarted
  BY <1>9 DEF NotStarted, Launch
<1>10. CASE StartProcess
  BY <1>10 DEF StartProcess
<1>11. CASE MarkActive
  <2>1. mem'.active = mem.active \cup {cur} /\ (disk' = mem' \/ disk' = disk)
    BY <1>11, MarkActiveActivates DEF Activates
  <2> QED
    BY <1>11, <2>1 DEF MarkActive
<1>12. CASE Crash
  BY <1>12 DEF Crash, EmptyStore
<1>13. CASE Restart
  BY <1>13 DEF Restart
<1>14. ASSUME NEW r \in Run, Reconcile(r) PROVE ActiveExecuted'
  <2>1. mem'.active = mem.active \ {r} /\ (disk' = mem' \/ disk' = disk)
    BY <1>14, ReconcileFiles DEF Files
  <2> QED
    BY <1>14, <2>1 DEF Reconcile
<1>15. ASSUME NEW r \in Run, Acknowledge(r) PROVE ActiveExecuted'
  BY <1>15 DEF Acknowledge, Handling, CanStart
<1>16. ASSUME NEW r \in Run, Resend(r) PROVE ActiveExecuted'
  BY <1>16 DEF Resend, ServerFinish, Handling
<1>17. ASSUME NEW r \in Run, Ignore(r) PROVE ActiveExecuted'
  BY <1>17 DEF Ignore, Handling
<1>18. ASSUME NEW r \in Run, LaunchCancelled(r) PROVE ActiveExecuted'
  BY <1>18 DEF LaunchCancelled, Launch, Verified, Unknown, Handling
<1>19. ASSUME NEW r \in Run, Accept(r) PROVE ActiveExecuted'
  BY <1>19 DEF Accept, Verified, Unknown, Handling
<1>20. ASSUME NEW r \in Run, CancelByAnswer(r) PROVE ActiveExecuted'
  BY <1>20 DEF CancelByAnswer
<1>21. ASSUME NEW r \in Run, Exit(r) PROVE ActiveExecuted'
  BY <1>21 DEF Exit, OutcomeOf
<1>22. ASSUME NEW r \in Run, Finish(r) PROVE ActiveExecuted'
  BY <1>22 DEF Finish, ServerFinish
<1>23. ASSUME NEW r \in Run, FinishAnswerLost(r) PROVE ActiveExecuted'
  BY <1>23 DEF FinishAnswerLost, ServerFinish
<1>24. ASSUME NEW r \in Run, FinishRefused(r) PROVE ActiveExecuted'
  BY <1>24 DEF FinishRefused
<1>25. ASSUME NEW r \in Run, MarkFinished(r) PROVE ActiveExecuted'
  <2>1. mem'.active = mem.active \ {r} /\ (disk' = mem' \/ disk' = disk)
    BY <1>25, MarkFinishedFiles DEF Files
  <2> QED
    BY <1>25, <2>1 DEF MarkFinished
<1>26. ASSUME NEW r \in Run, Release(r) PROVE ActiveExecuted'
  BY <1>26 DEF Release
<1>27. ASSUME NEW r \in Run, ReportLost(r) PROVE ActiveExecuted'
  BY <1>27 DEF ReportLost, ServerFinish
<1>28. ASSUME NEW r \in Run, ReportLostAnswerLost(r) PROVE ActiveExecuted'
  BY <1>28 DEF ReportLostAnswerLost, ServerFinish
<1>29. ASSUME NEW r \in Run, ReportLostRefused(r) PROVE ActiveExecuted'
  BY <1>29 DEF ReportLostRefused
<1>30. ASSUME NEW r \in Run, UserCancels(r) PROVE ActiveExecuted'
  BY <1>30 DEF UserCancels
<1>31. ASSUME NEW r \in Run, LeaseRunsOut(r) PROVE ActiveExecuted'
  BY <1>31 DEF LeaseRunsOut
<1>32. CASE UNCHANGED vars
  BY <1>32 DEF vars
<1> QED
  BY <1>1, <1>2, <1>3, <1>4, <1>5, <1>6, <1>7, <1>8, <1>9, <1>10, <1>11,
     <1>12, <1>13, <1>14, <1>15, <1>16, <1>17, <1>18, <1>19, <1>20, <1>21,
     <1>22, <1>23, <1>24, <1>25, <1>26, <1>27, <1>28, <1>29, <1>30, <1>31,
     <1>32, NextActions

\* A process is begun in hand, and ends with its reporter or the daemon.
LEMMA LivedStep == Owning /\ Lived /\ [Next]_vars => Lived'
<1> SUFFICES ASSUME Owning, Lived, [Next]_vars PROVE Lived'
  OBVIOUS
<1> USE NoneAssumption DEF Owning, Typed, TypeOK, CurInHand, Busy, Store,
      Control, CurIsNew, NothingYet, OnRecord, Owned, Registered, At, Running,
      Lived, pollVars, storeVars, procVars, serverVars, crashVars
<1>1. CASE Reconciled
  BY <1>1 DEF Reconciled
<1>2. CASE Poll
  BY <1>2 DEF Poll
<1>3. CASE AnswerLost
  BY <1>3 DEF AnswerLost
<1>4. CASE Receive
  BY <1>4 DEF Receive, Cancellable
<1>5. CASE HandledAll
  BY <1>5 DEF HandledAll
<1>6. CASE StartAccepted
  BY <1>6 DEF StartAccepted, ServerStart, CanStart
<1>7. CASE StartAnswerLost
  BY <1>7 DEF StartAnswerLost, ServerStart, CanStart
<1>8. CASE StartDropped
  BY <1>8 DEF StartDropped
<1>9. CASE NotStarted
  BY <1>9 DEF NotStarted, Launch
<1>10. CASE StartProcess
  BY <1>10 DEF StartProcess
<1>11. CASE MarkActive
  BY <1>11 DEF MarkActive, Launch
<1>12. CASE Crash
  BY <1>12 DEF Crash, EmptyStore
<1>13. CASE Restart
  BY <1>13 DEF Restart
<1>14. ASSUME NEW r \in Run, Reconcile(r) PROVE Lived'
  BY <1>14 DEF Reconcile
<1>15. ASSUME NEW r \in Run, Acknowledge(r) PROVE Lived'
  BY <1>15 DEF Acknowledge, Handling, CanStart
<1>16. ASSUME NEW r \in Run, Resend(r) PROVE Lived'
  BY <1>16 DEF Resend, ServerFinish, Handling
<1>17. ASSUME NEW r \in Run, Ignore(r) PROVE Lived'
  BY <1>17 DEF Ignore, Handling
<1>18. ASSUME NEW r \in Run, LaunchCancelled(r) PROVE Lived'
  BY <1>18 DEF LaunchCancelled, Launch, Verified, Unknown, Handling
<1>19. ASSUME NEW r \in Run, Accept(r) PROVE Lived'
  BY <1>19 DEF Accept, Verified, Unknown, Handling
<1>20. ASSUME NEW r \in Run, CancelByAnswer(r) PROVE Lived'
  BY <1>20 DEF CancelByAnswer
<1>21. ASSUME NEW r \in Run, Exit(r) PROVE Lived'
  BY <1>21 DEF Exit, OutcomeOf
<1>22. ASSUME NEW r \in Run, Finish(r) PROVE Lived'
  BY <1>22 DEF Finish, ServerFinish
<1>23. ASSUME NEW r \in Run, FinishAnswerLost(r) PROVE Lived'
  BY <1>23 DEF FinishAnswerLost, ServerFinish
<1>24. ASSUME NEW r \in Run, FinishRefused(r) PROVE Lived'
  BY <1>24 DEF FinishRefused
<1>25. ASSUME NEW r \in Run, MarkFinished(r) PROVE Lived'
  BY <1>25 DEF MarkFinished
<1>26. ASSUME NEW r \in Run, Release(r) PROVE Lived'
  BY <1>26 DEF Release
<1>27. ASSUME NEW r \in Run, ReportLost(r) PROVE Lived'
  BY <1>27 DEF ReportLost, ServerFinish
<1>28. ASSUME NEW r \in Run, ReportLostAnswerLost(r) PROVE Lived'
  BY <1>28 DEF ReportLostAnswerLost, ServerFinish
<1>29. ASSUME NEW r \in Run, ReportLostRefused(r) PROVE Lived'
  BY <1>29 DEF ReportLostRefused
<1>30. ASSUME NEW r \in Run, UserCancels(r) PROVE Lived'
  BY <1>30 DEF UserCancels
<1>31. ASSUME NEW r \in Run, LeaseRunsOut(r) PROVE Lived'
  BY <1>31 DEF LeaseRunsOut
<1>32. CASE UNCHANGED vars
  BY <1>32 DEF vars
<1> QED
  BY <1>1, <1>2, <1>3, <1>4, <1>5, <1>6, <1>7, <1>8, <1>9, <1>10, <1>11,
     <1>12, <1>13, <1>14, <1>15, <1>16, <1>17, <1>18, <1>19, <1>20, <1>21,
     <1>22, <1>23, <1>24, <1>25, <1>26, <1>27, <1>28, <1>29, <1>30, <1>31,
     <1>32, NextActions

\* A Run on record as lost is taken up by no reporter.
LEMMA LostStep == Owning /\ Quiet /\ ActiveExecuted /\ LostKept /\ [Next]_vars => LostKept'
<1> SUFFICES ASSUME Owning, Quiet, ActiveExecuted, LostKept, [Next]_vars PROVE LostKept'
  OBVIOUS
<1>a. \A e \in Entry : e # None
  BY NoneAssumption
<1> USE NoneAssumption DEF Owning, Typed, TypeOK, CurInHand, Busy, Store,
      Control, CurIsNew, NothingYet, OnRecord, Registered, At, Quiet,
      LostKept, pollVars, storeVars, procVars, serverVars, crashVars
<1>1. CASE Reconciled
  BY <1>1 DEF Reconciled
<1>2. CASE Poll
  BY <1>2 DEF Poll
<1>3. CASE AnswerLost
  BY <1>3 DEF AnswerLost
<1>4. CASE Receive
  BY <1>4 DEF Receive, Cancellable
<1>5. CASE HandledAll
  BY <1>5 DEF HandledAll
<1>6. CASE StartAccepted
  BY <1>6 DEF StartAccepted, ServerStart, CanStart
<1>7. CASE StartAnswerLost
  BY <1>7 DEF StartAnswerLost, ServerStart, CanStart
<1>8. CASE StartDropped
  BY <1>8 DEF StartDropped
<1>9. CASE NotStarted
  <2>1. /\ registry'[cur] = [kind |-> "not_started", step |-> "finish", outcome |-> "not_started"]
        /\ registry'[cur] # None
        /\ \A q \in Run \ {cur} : registry'[q] = registry[q]
    BY <1>9, <1>a, EntryMade DEF NotStarted, Launch, Outcome, Handling
  <2> QED
    BY <1>9, <2>1 DEF NotStarted, Outcome
<1>10. CASE StartProcess
  BY <1>10 DEF StartProcess
<1>11. CASE MarkActive
  <2>1. /\ registry'[cur] = [kind |-> "process", step |-> "supervise", outcome |-> None]
        /\ registry'[cur] # None
        /\ \A q \in Run \ {cur} : registry'[q] = registry[q]
    BY <1>11, <1>a, SupervisedMade DEF MarkActive, Launch, Outcome, Handling
  <2>2. pruned \subseteq pruned' /\ \A q \in Run \ pruned' : mem'.recent[q] = mem.recent[q]
    BY <1>11, MarkActiveActivates DEF Activates, KeptOrPruned
  <2> QED
    BY <1>11, <2>1, <2>2 DEF MarkActive, Outcome
<1>12. CASE Crash
  BY <1>12 DEF Crash, EmptyStore
<1>13. CASE Restart
  BY <1>13 DEF Restart
<1>14. ASSUME NEW r \in Run, Reconcile(r) PROVE LostKept'
  <2>1. /\ mem'.recent[r] = "lost" /\ pruned \subseteq pruned'
        /\ \A q \in Run \ (pruned' \cup {r}) : mem'.recent[q] = mem.recent[q]
    BY <1>14, ReconcileFiles DEF Files, KeptOrPruned
  <2>2. execs[r] > 0
    BY <1>14 DEF Reconcile, ActiveExecuted
  <2> QED
    BY <1>14, <2>1, <2>2 DEF Reconcile
<1>15. ASSUME NEW r \in Run, Acknowledge(r) PROVE LostKept'
  BY <1>15 DEF Acknowledge, Handling, CanStart
<1>16. ASSUME NEW r \in Run, Resend(r) PROVE LostKept'
  BY <1>16 DEF Resend, ServerFinish, Handling
<1>17. ASSUME NEW r \in Run, Ignore(r) PROVE LostKept'
  BY <1>17 DEF Ignore, Handling
<1>18. ASSUME NEW r \in Run, LaunchCancelled(r) PROVE LostKept'
  <2>1. /\ registry'[r] = [kind |-> "cancelled_before_start", step |-> "finish", outcome |-> "cancelled_before_start"]
        /\ registry'[r] # None
        /\ \A q \in Run \ {r} : registry'[q] = registry[q]
    BY <1>18, <1>a, EntryMade DEF LaunchCancelled, Launch, Outcome, Handling
  <2> QED
    BY <1>18, <2>1 DEF LaunchCancelled, Handling, Verified, Unknown, Outcome
<1>19. ASSUME NEW r \in Run, Accept(r) PROVE LostKept'
  BY <1>19 DEF Accept, Verified, Unknown, Handling
<1>20. ASSUME NEW r \in Run, CancelByAnswer(r) PROVE LostKept'
  BY <1>20 DEF CancelByAnswer
<1>21. ASSUME NEW r \in Run, Exit(r) PROVE LostKept'
  BY <1>21 DEF Exit, OutcomeOf
<1>22. ASSUME NEW r \in Run, Finish(r) PROVE LostKept'
  BY <1>22 DEF Finish, ServerFinish
<1>23. ASSUME NEW r \in Run, FinishAnswerLost(r) PROVE LostKept'
  BY <1>23 DEF FinishAnswerLost, ServerFinish
<1>24. ASSUME NEW r \in Run, FinishRefused(r) PROVE LostKept'
  BY <1>24 DEF FinishRefused
<1>25. ASSUME NEW r \in Run, MarkFinished(r) PROVE LostKept'
  <2>1. /\ mem.recent[r] = None /\ pruned \subseteq pruned'
        /\ \A q \in Run \ (pruned' \cup {r}) : mem'.recent[q] = mem.recent[q]
    BY <1>25, MarkFinishedFiles DEF Files, KeptOrPruned
  <2> QED
    BY <1>25, <2>1 DEF MarkFinished, Outcome
<1>26. ASSUME NEW r \in Run, Release(r) PROVE LostKept'
  BY <1>26 DEF Release
<1>27. ASSUME NEW r \in Run, ReportLost(r) PROVE LostKept'
  BY <1>27 DEF ReportLost, ServerFinish
<1>28. ASSUME NEW r \in Run, ReportLostAnswerLost(r) PROVE LostKept'
  BY <1>28 DEF ReportLostAnswerLost, ServerFinish
<1>29. ASSUME NEW r \in Run, ReportLostRefused(r) PROVE LostKept'
  BY <1>29 DEF ReportLostRefused
<1>30. ASSUME NEW r \in Run, UserCancels(r) PROVE LostKept'
  BY <1>30 DEF UserCancels
<1>31. ASSUME NEW r \in Run, LeaseRunsOut(r) PROVE LostKept'
  BY <1>31 DEF LeaseRunsOut
<1>32. CASE UNCHANGED vars
  BY <1>32 DEF vars
<1> QED
  BY <1>1, <1>2, <1>3, <1>4, <1>5, <1>6, <1>7, <1>8, <1>9, <1>10, <1>11,
     <1>12, <1>13, <1>14, <1>15, <1>16, <1>17, <1>18, <1>19, <1>20, <1>21,
     <1>22, <1>23, <1>24, <1>25, <1>26, <1>27, <1>28, <1>29, <1>30, <1>31,
     <1>32, NextActions

\* Only reporters, the record and reconcile close a Run, and only theirs.
LEMMA OpenStep == Owning /\ Quiet /\ LostKept /\ Open /\ [Next]_vars => Open'
<1> SUFFICES ASSUME Owning, Quiet, LostKept, Open, [Next]_vars PROVE Open'
  OBVIOUS
<1>a. \A e \in Entry : e # None
  BY NoneAssumption
<1> USE NoneAssumption DEF Owning, Typed, TypeOK, CurInHand, Busy, Store,
      Control, CurIsNew, NothingYet, OnRecord, Registered, At, Quiet,
      LostKept, Open, pollVars, storeVars, procVars, serverVars, crashVars
<1>1. CASE Reconciled
  BY <1>1 DEF Reconciled
<1>2. CASE Poll
  BY <1>2 DEF Poll
<1>3. CASE AnswerLost
  BY <1>3 DEF AnswerLost
<1>4. CASE Receive
  BY <1>4 DEF Receive, Cancellable
<1>5. CASE HandledAll
  BY <1>5 DEF HandledAll
<1>6. CASE StartAccepted
  BY <1>6 DEF StartAccepted, ServerStart, CanStart
<1>7. CASE StartAnswerLost
  BY <1>7 DEF StartAnswerLost, ServerStart, CanStart
<1>8. CASE StartDropped
  BY <1>8 DEF StartDropped
<1>9. CASE NotStarted
  BY <1>9 DEF NotStarted, Launch
<1>10. CASE StartProcess
  BY <1>10 DEF StartProcess
<1>11. CASE MarkActive
  <2>1. Activates /\ cur \in Run /\ pruned \subseteq pruned'
    BY <1>11, MarkActiveActivates DEF Activates
  <2>2. \A q \in Run \ pruned' : mem'.recent[q] = mem.recent[q]
    BY <2>1 DEF Activates, KeptOrPruned
  <2>3. registry'[cur] # None /\ \A q \in Run \ {cur} : registry'[q] = registry[q]
    BY <1>11, <1>a, <2>1, SupervisedMade DEF MarkActive, Launch
  <2>4. cur' = None /\ pc' = "handle" /\ UNCHANGED <<leases, status, outcome>>
    BY <1>11 DEF MarkActive
  <2>5. cur \notin pruned => status[cur] # "finished"
    BY <1>11 DEF MarkActive
  <2> QED
    BY <2>1, <2>2, <2>3, <2>4, <2>5
<1>12. CASE Crash
  BY <1>12 DEF Crash, EmptyStore
<1>13. CASE Restart
  BY <1>13 DEF Restart
<1>14. ASSUME NEW r \in Run, Reconcile(r) PROVE Open'
  <2>1. Files(r, "lost") /\ pruned \subseteq pruned'
    BY <1>14, ReconcileFiles DEF Files
  <2> QED
    BY <1>14, <2>1 DEF Reconcile
<1>15. ASSUME NEW r \in Run, Acknowledge(r) PROVE Open'
  BY <1>15 DEF Acknowledge, Handling, CanStart
<1>16. ASSUME NEW r \in Run, Resend(r) PROVE Open'
  BY <1>16 DEF Resend, ServerFinish, Handling
<1>17. ASSUME NEW r \in Run, Ignore(r) PROVE Open'
  BY <1>17 DEF Ignore, Handling
<1>18. ASSUME NEW r \in Run, LaunchCancelled(r) PROVE Open'
  BY <1>18 DEF LaunchCancelled, Launch, Verified, Unknown, Handling
<1>19. ASSUME NEW r \in Run, Accept(r) PROVE Open'
  BY <1>19 DEF Accept, Verified, Unknown, Handling
<1>20. ASSUME NEW r \in Run, CancelByAnswer(r) PROVE Open'
  BY <1>20 DEF CancelByAnswer
<1>21. ASSUME NEW r \in Run, Exit(r) PROVE Open'
  BY <1>21 DEF Exit, OutcomeOf
<1>22. ASSUME NEW r \in Run, Finish(r) PROVE Open'
  <2>0. [registry[r] EXCEPT !.step = "mark"].step = "mark" /\ [registry[r] EXCEPT !.step = "mark"] # None
    BY <1>22, <1>a, EntryAdvances, RegisteredIsEntry DEF Finish, Entry
  <2>1. registry'[r].step = "mark" /\ registry'[r] # None /\ \A q \in Run \ {r} : registry'[q] = registry[q]
    BY <1>22, <2>0 DEF Finish
  <2>2. registry[r].outcome # None
    <3>1. Registered(r) /\ registry[r].step = "finish"
      BY <1>22 DEF Finish
    <3> QED
      BY <3>1, CarriedIsOutcome
  <2>3. /\ status'[r] = "finished" /\ outcome'[r] # None
        /\ \A q \in Run \ {r} : status'[q] = status[q] /\ outcome'[q] = outcome[q]
    BY <1>22, <2>2 DEF Finish, ServerFinish
  <2> QED
    BY <1>22, <2>1, <2>3 DEF Finish
<1>23. ASSUME NEW r \in Run, FinishAnswerLost(r) PROVE Open'
  <2>1. registry[r].outcome # None
    <3>1. Registered(r) /\ registry[r].step = "finish"
      BY <1>23 DEF FinishAnswerLost
    <3> QED
      BY <3>1, CarriedIsOutcome
  <2>2. /\ status'[r] = "finished" /\ outcome'[r] # None
        /\ \A q \in Run \ {r} : status'[q] = status[q] /\ outcome'[q] = outcome[q]
    BY <1>23, <2>1 DEF FinishAnswerLost, ServerFinish
  <2> QED
    BY <1>23, <2>2 DEF FinishAnswerLost
<1>24. ASSUME NEW r \in Run, FinishRefused(r) PROVE Open'
  <2>0. [registry[r] EXCEPT !.step = "mark"].step = "mark" /\ [registry[r] EXCEPT !.step = "mark"] # None
    BY <1>24, <1>a, EntryAdvances, RegisteredIsEntry DEF FinishRefused, Entry
  <2>1. registry'[r].step = "mark" /\ registry'[r] # None /\ \A q \in Run \ {r} : registry'[q] = registry[q]
    BY <1>24, <2>0 DEF FinishRefused
  <2> QED
    BY <1>24, <2>1 DEF FinishRefused
<1>25. ASSUME NEW r \in Run, MarkFinished(r) PROVE Open'
  <2>0. [registry[r] EXCEPT !.step = "release"].step = "release" /\ [registry[r] EXCEPT !.step = "release"] # None
    BY <1>25, <1>a, EntryAdvances, RegisteredIsEntry DEF MarkFinished, Entry
  <2>1. registry'[r].step = "release" /\ registry'[r] # None /\ \A q \in Run \ {r} : registry'[q] = registry[q]
    BY <1>25, <2>0 DEF MarkFinished
  <2>2. Files(r, registry[r].outcome) /\ pruned \subseteq pruned'
    BY <1>25, MarkFinishedFiles DEF Files
  <2>3. \A q \in Run \ pruned' : q = r \/ mem'.recent[q] = mem.recent[q]
    BY <2>2 DEF Files, KeptOrPruned
  <2>4. UNCHANGED <<pollVars, status, outcome>>
    BY <1>25 DEF MarkFinished
  <2> QED
    BY <1>25, <2>1, <2>2, <2>3, <2>4
<1>26. ASSUME NEW r \in Run, Release(r) PROVE Open'
  BY <1>26 DEF Release
<1>27. ASSUME NEW r \in Run, ReportLost(r) PROVE Open'
  <2>1. r \notin pruned => mem.recent[r] # None /\ ~Registered(r)
    BY <1>27 DEF ReportLost, Outcome
  <2>2. /\ status'[r] = "finished" /\ outcome'[r] # None
        /\ \A q \in Run \ {r} : status'[q] = status[q] /\ outcome'[q] = outcome[q]
    BY <1>27 DEF ReportLost, ServerFinish, Outcome
  <2> QED
    BY <1>27, <2>1, <2>2 DEF ReportLost
<1>28. ASSUME NEW r \in Run, ReportLostAnswerLost(r) PROVE Open'
  <2>1. r \notin pruned => mem.recent[r] # None /\ ~Registered(r)
    BY <1>28 DEF ReportLostAnswerLost, Outcome
  <2>2. /\ status'[r] = "finished" /\ outcome'[r] # None
        /\ \A q \in Run \ {r} : status'[q] = status[q] /\ outcome'[q] = outcome[q]
    BY <1>28 DEF ReportLostAnswerLost, ServerFinish, Outcome
  <2> QED
    BY <1>28, <2>1, <2>2 DEF ReportLostAnswerLost
<1>29. ASSUME NEW r \in Run, ReportLostRefused(r) PROVE Open'
  BY <1>29 DEF ReportLostRefused
<1>30. ASSUME NEW r \in Run, UserCancels(r) PROVE Open'
  BY <1>30 DEF UserCancels
<1>31. ASSUME NEW r \in Run, LeaseRunsOut(r) PROVE Open'
  BY <1>31 DEF LeaseRunsOut
<1>32. CASE UNCHANGED vars
  BY <1>32 DEF vars
<1> QED
  BY <1>1, <1>2, <1>3, <1>4, <1>5, <1>6, <1>7, <1>8, <1>9, <1>10, <1>11,
     <1>12, <1>13, <1>14, <1>15, <1>16, <1>17, <1>18, <1>19, <1>20, <1>21,
     <1>22, <1>23, <1>24, <1>25, <1>26, <1>27, <1>28, <1>29, <1>30, <1>31,
     <1>32, NextActions

\* Who tells the Server an outcome has the only one, or the one it has.
LEMMA AgreeingStep ==
    Owning /\ DiskBehind /\ Quiet /\ LostKept /\ Open /\ Agreeing /\
    [Next]_vars
    => Agreeing'
<1> SUFFICES ASSUME Owning, DiskBehind, Quiet, LostKept, Open, Agreeing, [Next]_vars
             PROVE  Agreeing'
  OBVIOUS
<1> USE NoneAssumption DEF Owning, Typed, TypeOK, CurInHand, Busy, Store,
      Control, CurIsNew, NothingYet, OnRecord, Registered, At, DiskBehind,
      Quiet, LostKept, Open, Settled, Agrees, Agreeing, pollVars, storeVars,
      procVars, serverVars, crashVars
<1>1. CASE Reconciled
  BY <1>1 DEF Reconciled
<1>2. CASE Poll
  BY <1>2 DEF Poll
<1>3. CASE AnswerLost
  BY <1>3 DEF AnswerLost
<1>4. CASE Receive
  BY <1>4 DEF Receive, Cancellable
<1>5. CASE HandledAll
  BY <1>5 DEF HandledAll
<1>6. CASE StartAccepted
  BY <1>6 DEF StartAccepted, ServerStart, CanStart
<1>7. CASE StartAnswerLost
  BY <1>7 DEF StartAnswerLost, ServerStart, CanStart
<1>8. CASE StartDropped
  BY <1>8 DEF StartDropped
<1>9. CASE NotStarted
  BY <1>9 DEF NotStarted, Launch
<1>10. CASE StartProcess
  BY <1>10 DEF StartProcess
<1>11. CASE MarkActive
  <2>1. Activates /\ cur \in Run /\ pruned \subseteq pruned'
    BY <1>11, MarkActiveActivates DEF Activates
  <2>2. /\ \A q \in Run \ pruned' : mem'.recent[q] = mem.recent[q]
        /\ disk' = mem' \/ disk' = disk
    BY <2>1 DEF Activates, KeptOrPruned
  <2>3. registry'[cur].step = "supervise" /\ \A q \in Run \ {cur} : registry'[q] = registry[q]
    BY <1>11, <2>1 DEF MarkActive, Launch
  <2>4. UNCHANGED <<outcome, crashes>>
    BY <1>11 DEF MarkActive
  <2> QED
    BY <2>1, <2>2, <2>3, <2>4
<1>12. CASE Crash
  BY <1>12 DEF Crash, EmptyStore
<1>13. CASE Restart
  BY <1>13 DEF Restart
<1>14. ASSUME NEW r \in Run, Reconcile(r) PROVE Agreeing'
  <2>1. Files(r, "lost") /\ pruned \subseteq pruned'
    BY <1>14, ReconcileFiles DEF Files
  <2>2. /\ \A q \in (Run \ pruned') \ {r} : mem'.recent[q] = mem.recent[q]
        /\ mem'.recent[r] = "lost" /\ (disk' = mem' \/ disk' = disk)
    BY <2>1 DEF Files, KeptOrPruned
  <2>3. crashes > 0
    BY <1>14 DEF Reconcile
  <2> QED
    BY <1>14, <2>1, <2>2, <2>3 DEF Reconcile
<1>15. ASSUME NEW r \in Run, Acknowledge(r) PROVE Agreeing'
  BY <1>15 DEF Acknowledge, Handling, CanStart
<1>16. ASSUME NEW r \in Run, Resend(r) PROVE Agreeing'
  BY <1>16 DEF Resend, ServerFinish, Handling
<1>17. ASSUME NEW r \in Run, Ignore(r) PROVE Agreeing'
  BY <1>17 DEF Ignore, Handling
<1>18. ASSUME NEW r \in Run, LaunchCancelled(r) PROVE Agreeing'
  BY <1>18 DEF LaunchCancelled, Launch, Verified, Unknown, Handling
<1>19. ASSUME NEW r \in Run, Accept(r) PROVE Agreeing'
  BY <1>19 DEF Accept, Verified, Unknown, Handling
<1>20. ASSUME NEW r \in Run, CancelByAnswer(r) PROVE Agreeing'
  BY <1>20 DEF CancelByAnswer
<1>21. ASSUME NEW r \in Run, Exit(r) PROVE Agreeing'
  BY <1>21 DEF Exit, OutcomeOf
<1>22. ASSUME NEW r \in Run, Finish(r) PROVE Agreeing'
  BY <1>22 DEF Finish, ServerFinish
<1>23. ASSUME NEW r \in Run, FinishAnswerLost(r) PROVE Agreeing'
  BY <1>23 DEF FinishAnswerLost, ServerFinish
<1>24. ASSUME NEW r \in Run, FinishRefused(r) PROVE Agreeing'
  BY <1>24 DEF FinishRefused
<1>25. ASSUME NEW r \in Run, MarkFinished(r) PROVE Agreeing'
  <2>1. Files(r, registry[r].outcome) /\ pruned \subseteq pruned'
    BY <1>25, MarkFinishedFiles DEF Files
  <2>2. /\ \A q \in (Run \ pruned') \ {r} : mem'.recent[q] = mem.recent[q]
        /\ mem'.recent[r] = registry[r].outcome /\ (disk' = mem' \/ disk' = disk)
    BY <2>1 DEF Files, KeptOrPruned
  <2>3. UNCHANGED <<outcome, crashes>>
    BY <1>25 DEF MarkFinished
  <2>4. Settled(r) /\ \A q \in Run : Settled(q)' => Settled(q) /\ registry'[q].outcome = registry[q].outcome
    <3>1. /\ [registry[r] EXCEPT !.step = "release"].outcome = registry[r].outcome
      BY <1>25, EntryAdvances, RegisteredIsEntry DEF MarkFinished, Entry
    <3> QED
      BY <1>25, <3>1 DEF MarkFinished
  <2>5. ASSUME NEW q \in Run \ pruned' PROVE Agrees(mem.recent[q], outcome[q])' /\ Agrees(disk.recent[q], outcome[q])'
    BY <2>1, <2>2, <2>3, <2>4
  <2> QED
    BY <2>1, <2>3, <2>4, <2>5
<1>26. ASSUME NEW r \in Run, Release(r) PROVE Agreeing'
  BY <1>26 DEF Release
<1>27. ASSUME NEW r \in Run, ReportLost(r) PROVE Agreeing'
  BY <1>27 DEF ReportLost, ServerFinish
<1>28. ASSUME NEW r \in Run, ReportLostAnswerLost(r) PROVE Agreeing'
  BY <1>28 DEF ReportLostAnswerLost, ServerFinish
<1>29. ASSUME NEW r \in Run, ReportLostRefused(r) PROVE Agreeing'
  BY <1>29 DEF ReportLostRefused
<1>30. ASSUME NEW r \in Run, UserCancels(r) PROVE Agreeing'
  BY <1>30 DEF UserCancels
<1>31. ASSUME NEW r \in Run, LeaseRunsOut(r) PROVE Agreeing'
  BY <1>31 DEF LeaseRunsOut
<1>32. CASE UNCHANGED vars
  BY <1>32 DEF vars
<1> QED
  BY <1>1, <1>2, <1>3, <1>4, <1>5, <1>6, <1>7, <1>8, <1>9, <1>10, <1>11,
     <1>12, <1>13, <1>14, <1>15, <1>16, <1>17, <1>18, <1>19, <1>20, <1>21,
     <1>22, <1>23, <1>24, <1>25, <1>26, <1>27, <1>28, <1>29, <1>30, <1>31,
     <1>32, NextActions

\* An outcome is true when it is taken up, and nothing makes it false.
LEMMA TruthsStep ==
    Owning /\ ExecutedIsKnown /\ DiskBehind /\ Quiet /\ CancelsAsked /\
    ActiveExecuted /\ Lived /\ LostKept /\ Open /\ Truths /\ [Next]_vars
    => Truths'
<1> SUFFICES ASSUME Owning, ExecutedIsKnown, DiskBehind, Quiet, CancelsAsked, ActiveExecuted,
                    Lived, LostKept, Open, Truths, [Next]_vars
             PROVE  Truths'
  OBVIOUS
<1> USE NoneAssumption DEF Owning, Typed, TypeOK, CurInHand, Busy, Store,
      Control, CurIsNew, NothingYet, OnRecord, Registered, At,
      ExecutedIsKnown, Recorded, DiskBehind, Quiet, CancelsAsked,
      ActiveExecuted, Lived, LostKept, Open, Settled, Truthful, Truths, Forgotten, pollVars,
      storeVars, procVars, serverVars, crashVars
<1>1. CASE Reconciled
  BY <1>1 DEF Reconciled
<1>2. CASE Poll
  BY <1>2 DEF Poll
<1>3. CASE AnswerLost
  BY <1>3 DEF AnswerLost
<1>4. CASE Receive
  BY <1>4 DEF Receive, Cancellable
<1>5. CASE HandledAll
  BY <1>5 DEF HandledAll
<1>6. CASE StartAccepted
  BY <1>6 DEF StartAccepted, ServerStart, CanStart
<1>7. CASE StartAnswerLost
  BY <1>7 DEF StartAnswerLost, ServerStart, CanStart
<1>8. CASE StartDropped
  BY <1>8 DEF StartDropped
<1>9. CASE NotStarted
  <2>1. cur \in Run /\ mem.recent[cur] = None /\ cur \notin mem.active /\ ~Registered(cur)
    BY <1>9 DEF NotStarted
  <2>2. cur \notin Forgotten => execs[cur] = 0
    BY <1>9, <2>1 DEF NotStarted
  <2> QED
    BY <1>9, <2>1, <2>2 DEF NotStarted, Launch
<1>10. CASE StartProcess
  <2>1. /\ cur \in Run /\ ~Registered(cur)
        /\ cur \notin pruned => mem.recent[cur] = None /\ disk.recent[cur] = None /\ outcome[cur] = None
    BY <1>10 DEF StartProcess
  <2>2. Truthful(cur, None)'
    BY DEF Outcome
  <2>3. \A q \in Run \ {cur} : execs'[q] = execs[q] /\ proc'[q] = proc[q]
    BY <1>10 DEF StartProcess
  <2> QED
    BY <1>10, <2>1, <2>2, <2>3 DEF StartProcess
<1>11. CASE MarkActive
  <2>1. Activates /\ cur \in Run /\ pruned \subseteq pruned'
    BY <1>11, MarkActiveActivates DEF Activates
  <2>2. /\ \A q \in Run \ pruned' : mem'.recent[q] = mem.recent[q]
        /\ disk' = mem' \/ disk' = disk
    BY <2>1 DEF Activates, KeptOrPruned
  <2>3. registry'[cur].step = "supervise" /\ \A q \in Run \ {cur} : registry'[q] = registry[q]
    BY <1>11, <2>1 DEF MarkActive, Launch
  <2>4. UNCHANGED <<outcome, procVars, serverVars, crashVars>>
    BY <1>11 DEF MarkActive
  <2> QED
    BY <2>1, <2>2, <2>3, <2>4
<1>12. CASE Crash
  <2>1. \A q \in Run : ~Registered(q)' /\ mem'.recent[q] = None
    BY <1>12 DEF Crash, EmptyStore
  <2>2. \A q \in Run : Truthful(q, None)'
    BY DEF Outcome
  <2>3. /\ UNCHANGED <<disk, outcome, execs, cancelReq>> /\ unrecorded \subseteq unrecorded'
        /\ crashes \in Nat /\ crashes' = crashes + 1
    BY <1>12 DEF Crash
  <2>4. crashes' > 0 /\ \A q \in Run : proc[q] = "exited" => proc'[q] = "exited"
    BY <1>12, <2>3 DEF Crash
  <2>5. \A q \in Run \ Forgotten' : q \in Run \ Forgotten
    BY <1>12, <2>3 DEF Crash
  <2>6. \A q \in Run \ Forgotten' : Truthful(q, disk.recent[q])' /\ Truthful(q, outcome[q])'
    BY <2>3, <2>4, <2>5
  <2> QED
    BY <2>1, <2>2, <2>6
<1>13. CASE Restart
  BY <1>13 DEF Restart
<1>14. ASSUME NEW r \in Run, Reconcile(r) PROVE Truths'
  <2>1. Files(r, "lost") /\ pruned \subseteq pruned'
    BY <1>14, ReconcileFiles DEF Files
  <2>2. /\ \A q \in (Run \ pruned') \ {r} : mem'.recent[q] = mem.recent[q]
        /\ mem'.recent[r] = "lost" /\ (disk' = mem' \/ disk' = disk)
    BY <2>1 DEF Files, KeptOrPruned
  <2>3. crashes > 0 /\ execs[r] > 0
    BY <1>14 DEF Reconcile
  <2> QED
    BY <1>14, <2>1, <2>2, <2>3 DEF Reconcile
<1>15. ASSUME NEW r \in Run, Acknowledge(r) PROVE Truths'
  BY <1>15 DEF Acknowledge, Handling, CanStart
<1>16. ASSUME NEW r \in Run, Resend(r) PROVE Truths'
  BY <1>16 DEF Resend, ServerFinish, Handling
<1>17. ASSUME NEW r \in Run, Ignore(r) PROVE Truths'
  BY <1>17 DEF Ignore, Handling
<1>18. ASSUME NEW r \in Run, LaunchCancelled(r) PROVE Truths'
  BY <1>18 DEF LaunchCancelled, Launch, Verified, Unknown, Handling
<1>19. ASSUME NEW r \in Run, Accept(r) PROVE Truths'
  BY <1>19 DEF Accept, Verified, Unknown, Handling
<1>20. ASSUME NEW r \in Run, CancelByAnswer(r) PROVE Truths'
  BY <1>20 DEF CancelByAnswer
<1>21. ASSUME NEW r \in Run, Exit(r) PROVE Truths'
  <2> PICK o \in Outcome : o = OutcomeOf(r)
    BY DEF OutcomeOf, Outcome
  <2>1. registry[r].kind = "process" /\ r \in mem.active
    BY <1>21, RegisteredIsEntry DEF Exit, Entry
  <2>2. execs[r] > 0
    BY <2>1
  <2>3. proc'[r] = "exited" /\ \A q \in Run \ {r} : proc'[q] = proc[q]
    BY <1>21 DEF Exit
  <2>4. registry'[r].outcome = o /\ \A q \in Run \ {r} : registry'[q] = registry[q]
    <3>1. [registry[r] EXCEPT !.step = "finish", !.outcome = OutcomeOf(r)].outcome = OutcomeOf(r)
      BY <1>21, RegisteredIsEntry DEF Exit, Entry
    <3> QED
      BY <1>21, <3>1 DEF Exit
  <2>5. UNCHANGED <<mem, disk, pruned, outcome, execs, cancelReq, unrecorded, crashes>>
    BY <1>21 DEF Exit
  <2>6. o \in {"ended", "stopped"} /\ (o = "stopped" => r \in cancelReq)
    BY DEF OutcomeOf
  <2>7. Truthful(r, o)'
    BY <2>2, <2>3, <2>5, <2>6
  <2>8. \A q \in Run : proc[q] = "exited" => proc'[q] = "exited"
    BY <2>3
  <2>9. ASSUME NEW q \in Run \ Forgotten, NEW p, Truthful(q, p) PROVE Truthful(q, p)'
    BY <2>5, <2>8, <2>9
  <2>10. ASSUME NEW q \in Run \ Forgotten
         PROVE  Truthful(q, mem.recent[q])' /\ Truthful(q, disk.recent[q])' /\ Truthful(q, outcome[q])'
    <3>1. Truthful(q, mem.recent[q]) /\ Truthful(q, disk.recent[q]) /\ Truthful(q, outcome[q])
      OBVIOUS
    <3> HIDE DEF Truthful
    <3> QED
      BY <2>5, <2>9, <3>1
  <2>11. ASSUME NEW q \in Run \ Forgotten, Settled(q)' PROVE Truthful(q, registry[q].outcome)'
    <3>1. CASE q = r
      BY <2>4, <2>7, <3>1
    <3>2. CASE q # r
      <4>1. Settled(q) /\ registry'[q] = registry[q]
        BY <2>4, <2>11, <3>2
      <4>2. Truthful(q, registry[q].outcome)
        BY <4>1
      <4> HIDE DEF Truthful
      <4> QED
        BY <2>9, <4>1, <4>2
    <3> QED
      BY <3>1, <3>2
  <2>12. Forgotten' = Forgotten
    BY <2>5
  <2> QED
    BY <2>5, <2>10, <2>11, <2>12 DEF Truths
<1>22. ASSUME NEW r \in Run, Finish(r) PROVE Truths'
  BY <1>22 DEF Finish, ServerFinish
<1>23. ASSUME NEW r \in Run, FinishAnswerLost(r) PROVE Truths'
  BY <1>23 DEF FinishAnswerLost, ServerFinish
<1>24. ASSUME NEW r \in Run, FinishRefused(r) PROVE Truths'
  BY <1>24 DEF FinishRefused
<1>25. ASSUME NEW r \in Run, MarkFinished(r) PROVE Truths'
  <2>1. Files(r, registry[r].outcome) /\ pruned \subseteq pruned'
    BY <1>25, MarkFinishedFiles DEF Files
  <2>2. /\ \A q \in (Run \ pruned') \ {r} : mem'.recent[q] = mem.recent[q]
        /\ mem'.recent[r] = registry[r].outcome /\ (disk' = mem' \/ disk' = disk)
    BY <2>1 DEF Files, KeptOrPruned
  <2>3. UNCHANGED <<procVars, serverVars, crashVars>>
    BY <1>25 DEF MarkFinished
  <2>4. Settled(r) /\ \A q \in Run : Settled(q)' => Settled(q) /\ registry'[q].outcome = registry[q].outcome
    <3>1. /\ [registry[r] EXCEPT !.step = "release"].outcome = registry[r].outcome
      BY <1>25, EntryAdvances, RegisteredIsEntry DEF MarkFinished, Entry
    <3> QED
      BY <1>25, <3>1 DEF MarkFinished
  <2>5. ASSUME NEW q \in Run, NEW o PROVE Truthful(q, o)' <=> Truthful(q, o)
    BY <2>3
  <2>6. \A q \in Run \ Forgotten' : q \in Run \ Forgotten
    BY <2>1, <2>3
  <2>7. ASSUME NEW q \in Run \ Forgotten'
        PROVE  /\ Settled(q)' => Truthful(q, registry[q].outcome)'
               /\ Truthful(q, mem.recent[q])' /\ Truthful(q, disk.recent[q])'
               /\ Truthful(q, outcome[q])'
    <3>1. /\ Settled(q) => Truthful(q, registry[q].outcome)
          /\ Truthful(q, mem.recent[q]) /\ Truthful(q, disk.recent[q])
          /\ Truthful(q, outcome[q])
      BY <2>6
    <3>2. mem'.recent[q] = IF q = r THEN registry[r].outcome ELSE mem.recent[q]
      BY <2>2
    <3>3. Truthful(q, mem'.recent[q]) /\ Truthful(q, disk'.recent[q])
      BY <2>2, <2>4, <3>1, <3>2
    <3> HIDE DEF Truthful, Settled
    <3> QED
      BY <2>3, <2>4, <2>5, <3>1, <3>3
  <2> QED
    BY <2>7 DEF Truths
<1>26. ASSUME NEW r \in Run, Release(r) PROVE Truths'
  BY <1>26 DEF Release
<1>27. ASSUME NEW r \in Run, ReportLost(r) PROVE Truths'
  BY <1>27 DEF ReportLost, ServerFinish
<1>28. ASSUME NEW r \in Run, ReportLostAnswerLost(r) PROVE Truths'
  BY <1>28 DEF ReportLostAnswerLost, ServerFinish
<1>29. ASSUME NEW r \in Run, ReportLostRefused(r) PROVE Truths'
  BY <1>29 DEF ReportLostRefused
<1>30. ASSUME NEW r \in Run, UserCancels(r) PROVE Truths'
  BY <1>30 DEF UserCancels
<1>31. ASSUME NEW r \in Run, LeaseRunsOut(r) PROVE Truths'
  BY <1>31 DEF LeaseRunsOut
<1>32. CASE UNCHANGED vars
  BY <1>32 DEF vars
<1> QED
  BY <1>1, <1>2, <1>3, <1>4, <1>5, <1>6, <1>7, <1>8, <1>9, <1>10, <1>11,
     <1>12, <1>13, <1>14, <1>15, <1>16, <1>17, <1>18, <1>19, <1>20, <1>21,
     <1>22, <1>23, <1>24, <1>25, <1>26, <1>27, <1>28, <1>29, <1>30, <1>31,
     <1>32, NextActions

\* Consent and a wish to cancel are not taken back.
LEMMA AllowedStays ==
    ASSUME Typed, [Next]_vars, NEW q \in Run
    PROVE  (Consented(q) => Consented(q)') /\ (q \in cancelReq => q \in cancelReq')
  BY StatusMovesForward, HistoryGrows

\* Who settles an outcome that no reporter had: the end of the process, a start
\* that failed, a cancellation before it.
LEMMA WhoSettles ==
    ASSUME Typed, [Next]_vars, NEW q \in Run, Settled(q)'
    PROVE  \/ Settled(q) /\ registry'[q].outcome = registry[q].outcome
           \/ Exit(q) /\ registry'[q].outcome \in {"ended", "stopped"}
           \/ NotStarted /\ q = cur /\ registry'[q].outcome = "not_started"
           \/ LaunchCancelled(q) /\ registry'[q].outcome = "cancelled_before_start"
<1> DEFINE Was == Settled(q) /\ registry'[q].outcome = registry[q].outcome
<1> USE DEF Typed, TypeOK, Settled, Registered
<1>1. ASSUME Reconciled \/ Poll \/ AnswerLost \/ Receive \/ HandledAll \/ StartAccepted
             \/ StartAnswerLost \/ StartDropped \/ StartProcess \/ Restart \/ UNCHANGED vars
      PROVE  Was
  BY <1>1 DEF Reconciled, Poll, AnswerLost, Receive, HandledAll, StartAccepted,
              StartAnswerLost, StartDropped, StartProcess, Restart, vars
<1>2. ASSUME NEW r \in Run,
             Reconcile(r) \/ Acknowledge(r) \/ Resend(r) \/ Ignore(r) \/ Accept(r) \/ CancelByAnswer(r)
             \/ FinishAnswerLost(r) \/ ReportLost(r) \/ ReportLostAnswerLost(r)
             \/ ReportLostRefused(r) \/ UserCancels(r) \/ LeaseRunsOut(r)
      PROVE  Was
  BY <1>2 DEF Reconcile, Acknowledge, Resend, Ignore, Accept, CancelByAnswer, FinishAnswerLost,
              ReportLost, ReportLostAnswerLost, ReportLostRefused, UserCancels, LeaseRunsOut
<1>3. ASSUME Crash PROVE FALSE
  BY <1>3 DEF Crash
<1>4. ASSUME NEW r \in Run, Release(r) PROVE Was
  BY <1>4 DEF Release
<1>5. ASSUME MarkActive PROVE Was
  BY <1>5 DEF MarkActive, Launch, CurInHand, Busy
<1>6. ASSUME NEW r \in Run, NEW t \in {"mark", "release"}, NEW f \in {"finish", "mark"}, At(r, f),
             registry' = [registry EXCEPT ![r].step = t]
      PROVE  Was
  <2>1. [registry[r] EXCEPT !.step = t].outcome = registry[r].outcome /\ Settled(r)
    BY <1>6, RegisteredIsEntry DEF At, Entry
  <2> QED
    BY <1>6, <2>1
<1>7. ASSUME NEW r \in Run, Finish(r) \/ FinishRefused(r) \/ MarkFinished(r) PROVE Was
  BY <1>6, <1>7 DEF Finish, FinishRefused, MarkFinished
<1>8. ASSUME NEW r \in Run, Exit(r)
      PROVE  Was \/ (q = r /\ registry'[q].outcome \in {"ended", "stopped"})
  <2>1. [registry[r] EXCEPT !.step = "finish", !.outcome = OutcomeOf(r)].outcome = OutcomeOf(r)
    BY <1>8, RegisteredIsEntry DEF Exit, At, Entry
  <2> QED
    BY <1>8, <2>1 DEF Exit, OutcomeOf
<1>9. ASSUME NotStarted PROVE Was \/ (q = cur /\ registry'[q].outcome = "not_started")
  BY <1>9 DEF NotStarted, Launch, CurInHand, Busy
<1>10. ASSUME NEW r \in Run, LaunchCancelled(r)
       PROVE  Was \/ (q = r /\ registry'[q].outcome = "cancelled_before_start")
  BY <1>10 DEF LaunchCancelled, Launch
<1> QED
  BY <1>1, <1>2, <1>3, <1>4, <1>5, <1>7, <1>8, <1>9, <1>10, NextActions

\* An outcome is taken up with the consent it needs.
LEMMA AllowedSettled ==
    ASSUME Owning, CancelsAsked, ActiveExecuted, Lived, AllAllowed, [Next]_vars,
           NEW q \in Run, Settled(q)'
    PROVE  Allowed(q, registry[q].outcome)'
<1>1. (Consented(q) => Consented(q)') /\ (q \in cancelReq => q \in cancelReq')
  BY AllowedStays DEF Owning
<1>2. CASE Settled(q) /\ registry'[q].outcome = registry[q].outcome
  BY <1>1, <1>2 DEF AllAllowed, Allowed
<1>3. CASE Exit(q) /\ registry'[q].outcome \in {"ended", "stopped"}
  <2>1. execs[q] \in Nat /\ execs[q] # 0
    BY <1>3 DEF Exit, Lived, Running, Owning, Typed, TypeOK
  <2>2. Consented(q)
    BY <2>1 DEF Owning, Consent, StartedWithConsent, Consented
  <2> QED
    BY <1>1, <1>3, <2>2 DEF Allowed
<1>4. CASE NotStarted /\ q = cur /\ registry'[q].outcome = "not_started"
  <2>1. Consented(q)
    BY <1>4 DEF NotStarted, Owning, Consent, CurConsented, Consented
  <2> QED
    BY <1>1, <1>4, <2>1 DEF Allowed
<1>5. CASE LaunchCancelled(q) /\ registry'[q].outcome = "cancelled_before_start"
  BY <1>1, <1>5 DEF LaunchCancelled, CancelsAsked, Allowed
<1> QED
  BY <1>2, <1>3, <1>4, <1>5, WhoSettles DEF Owning

\* Nothing gets on record, or into the hands of a reporter, that was not allowed.
LEMMA AllowedStep ==
    Owning /\ CancelsAsked /\ ActiveExecuted /\ Lived /\ AllAllowed /\ [Next]_vars => AllAllowed'
<1> SUFFICES ASSUME Owning, CancelsAsked, ActiveExecuted, Lived, AllAllowed, [Next]_vars, NEW q \in Run
             PROVE  Allowed(q, mem.recent[q])' /\ Allowed(q, disk.recent[q])'
  BY AllowedSettled DEF AllAllowed
<1>1. /\ Consented(q) => Consented(q)'
      /\ q \in cancelReq => q \in cancelReq'
      /\ Allowed(q, mem.recent[q]) /\ Allowed(q, disk.recent[q]) /\ None \notin Outcome
  BY AllowedStays, NoneAssumption DEF Owning, AllAllowed
<1>2. ASSUME NEW o, Files(q, o), Allowed(q, o) PROVE Allowed(q, mem.recent[q])' /\ Allowed(q, disk.recent[q])'
  BY <1>1, <1>2 DEF Files, Allowed
<1>3. ASSUME KeptOrPruned(q), disk' = mem' \/ disk' = disk
      PROVE  Allowed(q, mem.recent[q])' /\ Allowed(q, disk.recent[q])'
  BY <1>1, <1>3, NoneAssumption DEF KeptOrPruned, Allowed, Outcome
<1>4. CASE MarkActive
  BY <1>3, <1>4, MarkActiveActivates DEF Activates, Owning
<1>5. CASE Crash \/ Restart \/ UNCHANGED storeVars
  BY <1>1, <1>5, NoneAssumption DEF Crash, Restart, storeVars, EmptyStore, Allowed, Outcome
<1>6. ASSUME NEW r \in Run, Reconcile(r) PROVE Allowed(q, mem.recent[q])' /\ Allowed(q, disk.recent[q])'
  <2>1. Files(r, "lost")
    BY <1>6, ReconcileFiles DEF Owning
  <2>2. Allowed(r, "lost")
    BY <1>6 DEF Reconcile, ActiveExecuted, Owning, Consent, StartedWithConsent, Consented, Allowed
  <2> QED
    BY <1>2, <1>3, <2>1, <2>2 DEF Files
<1>7. ASSUME NEW r \in Run, MarkFinished(r) PROVE Allowed(q, mem.recent[q])' /\ Allowed(q, disk.recent[q])'
  <2>1. Files(r, registry[r].outcome)
    BY <1>7, MarkFinishedFiles DEF Owning
  <2>2. Allowed(r, registry[r].outcome)
    BY <1>7 DEF MarkFinished, At, Settled, AllAllowed
  <2> QED
    BY <1>2, <1>3, <2>1, <2>2 DEF Files
<1> QED
  BY <1>4, <1>5, <1>6, <1>7, WhoTouchesTheStore

----------------------------------------------------------------------------
Outcomes == 
    /\ Quiet /\ CancelsAsked /\ ActiveExecuted /\ Lived /\ LostKept
    /\ Open /\ Agreeing /\ Truths /\ AllAllowed

\* Initially nothing happened.
LEMMA OutcomesInit == Init => Outcomes
  BY NoneAssumption DEF Init, Outcomes, Quiet, CancelsAsked, ActiveExecuted, Lived, LostKept, Open, Agreeing, Truths, AllAllowed,
     Settled, Agrees, Truthful, Allowed, Outcome, EmptyStore, Registered, At, Busy

\* Together with what AgentProofs knows, what is said of outcomes is inductive.
LEMMA OutcomesStep == IInv /\ Outcomes /\ [Next]_vars => Outcomes'
<1> SUFFICES ASSUME IInv, Outcomes, [Next]_vars PROVE Outcomes'
  OBVIOUS
<1>1. Owning /\ Typed /\ Control /\ DiskBehind /\ ExecutedIsKnown
  BY DEF IInv, Owning, Typed, Control, Consent
<1>2. Quiet' /\ CancelsAsked' /\ ActiveExecuted' /\ Lived'
  BY <1>1, QuietStep, CancelsStep, ActiveStep, LivedStep DEF Outcomes
<1>3. LostKept' /\ Open'
  BY <1>1, LostStep, OpenStep DEF Outcomes
<1>4. Agreeing' /\ Truths' /\ AllAllowed'
  BY <1>1, AgreeingStep, TruthsStep, AllowedStep DEF Outcomes
<1> QED
  BY <1>2, <1>3, <1>4 DEF Outcomes

\* The conjunction the theorems below rest on holds in every reachable state.
THEOREM OutcomesKept == Spec => [](IInv /\ Outcomes)
<1>1. Spec => []IInv
  BY Inductive
<1> QED
  BY <1>1, OutcomesInit, OutcomesStep, PTL DEF Spec

\* What the Server is told of a Run is what happened to it, answers lost, saves
\* failed and crashes included, unless the Agent has forgotten the Run (finish,
\* Resend, reportLost).
THEOREM TruthToServer == Spec => []TruthfulOutcome
<1>1. IInv /\ Outcomes => TruthfulOutcome
  <2> SUFFICES ASSUME IInv, Outcomes, NEW r \in Run, r \notin Forgotten
               PROVE  /\ Truthful(r, outcome[r])
                      /\ outcome[r] \in {"ended", "stopped", "lost"} => ~Running(r)
    BY DEF TruthfulOutcome, Truthful
  <2>1. Truthful(r, outcome[r])
    BY DEF Outcomes, Truths
  <2>2. ASSUME outcome[r] \in {"ended", "stopped", "lost"}, Running(r) PROVE FALSE
    <3>1. status[r] = "finished"
      BY <2>2, NoneAssumption DEF Outcomes, Open, Outcome
    <3>2. (Busy /\ cur = r) \/ At(r, "supervise")
      BY <2>2 DEF IInv, Owned, Busy
    <3> QED
      BY <3>1, <3>2 DEF Outcomes, Open, Forgotten
  <2> QED
    BY <2>1, <2>2
<1> QED
  BY <1>1, OutcomesKept, PTL

\* The outcome on record is the one the Server has, but for a Run that finished
\* just before a crash (MarkFinished, reconcile).
THEOREM RecordAgrees == Spec => []OutcomesAgree
<1>1. Outcomes => OutcomesAgree
  BY DEF Outcomes, Agreeing, Agrees, OutcomesAgree
<1> QED
  BY <1>1, OutcomesKept, PTL

----------------------------------------------------------------------------
(***************************************************************************)
(* The refinement: Agent implements RunLife for every Run.                 *)
(***************************************************************************)
OneRunLife(r) == OfRun(r)!RunLifeNext \/ UNCHANGED OfRun(r)!runLifeVars

\* The variables of RunLife that are neither the Server's nor the process.
SameRest(r) ==
    /\ r \in cancelReq' <=> r \in cancelReq
    /\ r \in Forgotten' <=> r \in Forgotten
    /\ crashes' = crashes

SameConsent(r) == status'[r] = "started" <=> status[r] = "started"

\* A step that changes nothing a RunLife has.
LEMMA RunLifeStutters ==
    ASSUME NEW r \in Run, SameRest(r), SameConsent(r), proc'[r] = proc[r], outcome'[r] = outcome[r]
    PROVE  OneRunLife(r)
  BY DEF OneRunLife, SameRest, SameConsent, Forgotten, OfRun!runLifeVars

\* The Server accepts an outcome, unless it has one (FinishRun).
LEMMA ServerFinishTells ==
    ASSUME TypeOK, NEW r \in Run, NEW o \in Outcome, ServerFinish(r, o),
           UNCHANGED <<proc, cancelReq, pruned, crashVars>>,
           outcome[r] # None => status[r] = "finished",
           status[r] # "finished" =>
             /\ Consented(r) \/ o = "cancelled_before_start"
             /\ r \in Forgotten \/ OfRun(r)!Explained(o)
    PROVE  \A q \in Run : OneRunLife(q)
<1>1. \A q \in Run : SameRest(q) /\ proc'[q] = proc[q]
  BY DEF SameRest, Forgotten, crashVars
<1>2. \A q \in Run \ {r} : SameConsent(q) /\ outcome'[q] = outcome[q]
  BY DEF ServerFinish, TypeOK, SameConsent
<1>3. \A q \in Run \ {r} : OneRunLife(q)
  BY <1>1, <1>2, RunLifeStutters
<1>4. CASE status[r] = "finished"
  <2>1. SameConsent(r) /\ outcome'[r] = outcome[r]
    BY <1>4 DEF ServerFinish, TypeOK, SameConsent
  <2> QED
    BY <1>1, <1>3, <2>1, RunLifeStutters
<1>5. CASE status[r] # "finished"
  <2>1. outcome[r] = None /\ outcome'[r] = o /\ o # None /\ status'[r] = "finished"
    BY <1>5, NoneAssumption DEF ServerFinish, TypeOK
  <2>2. status[r] = "started" \/ o = "cancelled_before_start"
    BY <1>5 DEF Consented
  <2>3. OfRun(r)!Tell
    BY <1>1, <1>5, <2>1, <2>2 DEF OfRun!Tell, OfRun!Explained, SameRest, Forgotten
  <2> QED
    BY <1>3, <2>3 DEF OneRunLife, OfRun!RunLifeNext
<1> QED
  BY <1>4, <1>5

\* A true outcome explains itself.
LEMMA TruthExplains ==
    ASSUME IInv, Outcomes, NEW r \in Run, NEW o \in Outcome, Allowed(r, o),
           r \notin Forgotten => Truthful(r, o) /\ ~Running(r)
    PROVE  /\ Consented(r) \/ o = "cancelled_before_start"
           /\ r \in Forgotten \/ OfRun(r)!Explained(o)
<1>1. /\ execs[r] \in Nat /\ proc[r] \in {"none", "running", "exited", "orphan"}
      /\ execs[r] = 0 <=> proc[r] = "none"
  BY DEF IInv, TypeOK, Outcomes, Lived
<1>2. Consented(r) \/ o = "cancelled_before_start"
  BY DEF Allowed
<1>3. r \notin Forgotten => OfRun(r)!Explained(o)
  BY <1>1 DEF Truthful, Outcome, Running, OfRun!Explained
<1> QED
  BY <1>2, <1>3

\* Steps that change nothing but what is inside the Agent.
LEMMA InsideSteps ==
    ASSUME NEW q \in Run, UNCHANGED <<proc, status, outcome, cancelReq, pruned, crashVars>>
    PROVE  OneRunLife(q)
<1>1. SameRest(q) /\ SameConsent(q) /\ proc'[q] = proc[q] /\ outcome'[q] = outcome[q]
  BY DEF SameRest, SameConsent, Forgotten, crashVars
<1> QED
  BY <1>1, RunLifeStutters

\* The Server accepts a start.
LEMMA ConsentSteps ==
    ASSUME IInv, Outcomes, NEW r \in Run, CanStart(r), status' = [status EXCEPT ![r] = "started"],
           UNCHANGED <<proc, outcome, cancelReq, pruned, crashVars>>, NEW q \in Run
    PROVE  OneRunLife(q)
<1>1. SameRest(q) /\ proc'[q] = proc[q] /\ outcome'[q] = outcome[q]
  BY DEF SameRest, Forgotten, crashVars
<1>2. CASE q # r \/ status[r] = "started"
  <2>1. SameConsent(q)
    BY <1>2 DEF SameConsent, IInv, TypeOK
  <2> QED
    BY <1>1, <2>1, RunLifeStutters
<1>3. CASE q = r /\ status[r] # "started"
  <2>1. status'[q] = "started" /\ q \notin cancelReq /\ outcome[q] = None
    BY <1>3 DEF CanStart, IInv, TypeOK, Outcomes, Open
  <2>2. OfRun(q)!Consent
    BY <1>1, <1>3, <2>1 DEF OfRun!Consent, SameRest, Forgotten
  <2> QED
    BY <2>2 DEF OneRunLife, OfRun!RunLifeNext
<1> QED
  BY <1>2, <1>3

\* A process is started for a Run that has none, or was forgotten.
LEMMA ExecuteSteps ==
    ASSUME IInv, Outcomes, StartProcess, NEW q \in Run PROVE OneRunLife(q)
<1>1. /\ pc = "spawn" /\ proc' = [proc EXCEPT ![cur] = "running"]
      /\ UNCHANGED <<status, outcome, cancelReq, pruned, crashVars>>
  BY DEF StartProcess, serverVars, storeVars
<1>2. /\ cur \in Run /\ ~Registered(cur) /\ cur \notin mem.active /\ mem.recent[cur] = None
      /\ ~Running(cur) /\ status[cur] \in {"started", "finished"}
      /\ cur \notin pruned => status[cur] = "started"
      /\ status[cur] = "finished" => outcome[cur] # None
  BY <1>1 DEF IInv, CurInHand, Busy, CurIsNew, CurConsented, Owned, At, Outcomes, Open
<1>3. SameRest(q) /\ SameConsent(q) /\ outcome'[q] = outcome[q]
  BY <1>1 DEF SameRest, SameConsent, Forgotten, crashVars
<1>4. CASE q # cur
  BY <1>1, <1>3, <1>4, RunLifeStutters DEF IInv, TypeOK
<1>5. CASE q = cur
  <2>1. (proc[q] = "none" /\ status[q] = "started") \/ q \in Forgotten
    <3>1. q \notin Forgotten => execs[q] = 0
      BY <1>1, <1>2, <1>5 DEF IInv, TypeOK, ExecutedIsKnown, Recorded
    <3>2. q \notin Forgotten => proc[q] = "none"
      BY <3>1 DEF Outcomes, Lived
    <3> QED
      BY <1>2, <1>5, <3>2 DEF Forgotten
  <2>2. proc'[q] = "running"
    BY <1>1, <1>5 DEF IInv, TypeOK
  <2>3. OfRun(q)!Execute
    <3>1. status[q] = "started" \/ outcome[q] # None
      BY <1>2, <1>5
    <3>2. proc[q] # "running"
      BY <1>2, <1>5 DEF Running
    <3> QED
      BY <1>3, <2>1, <2>2, <3>1, <3>2 DEF OfRun!Execute, SameRest, SameConsent, Forgotten
  <2> QED
    BY <2>3 DEF OneRunLife, OfRun!RunLifeNext
<1> QED
  BY <1>4, <1>5

\* A process exits under its reporter.
LEMMA ExitSteps ==
    ASSUME IInv, Outcomes, NEW r \in Run, Exit(r), NEW q \in Run PROVE OneRunLife(q)
<1>1. proc' = [proc EXCEPT ![r] = "exited"] /\ UNCHANGED <<status, outcome, cancelReq, pruned, crashVars>>
  BY DEF Exit, serverVars, storeVars
<1>2. proc[r] = "running"
  BY DEF Exit, Outcomes, Lived, Running
<1>3. SameRest(q) /\ SameConsent(q) /\ outcome'[q] = outcome[q]
  BY <1>1 DEF SameRest, SameConsent, Forgotten, crashVars
<1>4. CASE q # r
  BY <1>1, <1>3, <1>4, RunLifeStutters DEF IInv, TypeOK
<1>5. CASE q = r
  <2>1. proc'[q] = "exited"
    BY <1>1, <1>5 DEF IInv, TypeOK
  <2>2. OfRun(q)!End
    BY <1>2, <1>3, <1>5, <2>1 DEF OfRun!End, SameRest, SameConsent, Forgotten
  <2> QED
    BY <2>2 DEF OneRunLife, OfRun!RunLifeNext
<1> QED
  BY <1>4, <1>5

\* A crash interrupts every Run.
LEMMA CrashSteps ==
    ASSUME IInv, Outcomes, Crash, NEW q \in Run PROVE OneRunLife(q)
<1>1. /\ crashes' = crashes + 1 /\ crashes \in Nat
      /\ proc'[q] = IF proc[q] = "running" THEN "orphan" ELSE proc[q]
      /\ UNCHANGED <<status, outcome, cancelReq>>
  BY DEF Crash, serverVars, storeVars, IInv, TypeOK
<1>2. /\ q \in Forgotten => q \in Forgotten'
      /\ proc[q] = "none" => (q \in Forgotten' <=> q \in Forgotten)
  BY DEF Crash, Outcomes, Lived, IInv, TypeOK, Forgotten
<1>3. OfRun(q)!Interrupt
  BY <1>1, <1>2 DEF OfRun!Interrupt, Forgotten
<1> QED
  BY <1>3 DEF OneRunLife, OfRun!RunLifeNext

\* A user asks to cancel a Run that is not over.
LEMMA AskSteps ==
    ASSUME IInv, Outcomes, NEW r \in Run, UserCancels(r), NEW q \in Run PROVE OneRunLife(q)
<1>1. /\ cancelReq' = cancelReq \cup {r} /\ UNCHANGED <<proc, status, outcome, pruned, crashVars>>
      /\ outcome[r] = None
  BY DEF UserCancels, procVars, storeVars, Outcomes, Open
<1>2. CASE q # r
  <2>1. SameRest(q) /\ SameConsent(q) /\ proc'[q] = proc[q] /\ outcome'[q] = outcome[q]
    BY <1>1, <1>2 DEF SameRest, SameConsent, Forgotten, crashVars
  <2> QED
    BY <2>1, RunLifeStutters
<1>3. CASE q = r
  <2>1. OfRun(q)!Ask
    BY <1>1, <1>3 DEF OfRun!Ask, Forgotten, crashVars
  <2> QED
    BY <2>1 DEF OneRunLife, OfRun!RunLifeNext
<1> QED
  BY <1>2, <1>3

\* A reporter, Resend or reportLost delivers an outcome.
LEMMA TellSteps ==
    ASSUME IInv, Outcomes, NEW r \in Run, NEW o \in Outcome, ServerFinish(r, o),
           UNCHANGED <<proc, cancelReq, pruned, crashVars>>, Allowed(r, o),
           r \notin Forgotten => Truthful(r, o) /\ ~Running(r)
    PROVE  \A q \in Run : OneRunLife(q)
<1>1. outcome[r] # None => status[r] = "finished"
  BY DEF Outcomes, Open
<1>2. TypeOK
  BY DEF IInv
<1> QED
  BY <1>1, <1>2, TruthExplains, ServerFinishTells

\* The Run of a reporter that finishes, and one on record, have no process that
\* runs.
LEMMA NobodyRuns ==
    ASSUME IInv, NEW r \in Run, At(r, "finish") \/ mem.recent[r] # None
    PROVE  ~Running(r)
  BY DEF IInv, Owned, OnRecord, At, CurIsNew, Busy, Registered

\* A reporter at finish has an outcome, and a true one.
LEMMA FinishIsTrue ==
    ASSUME IInv, Outcomes, NEW r \in Run, At(r, "finish")
    PROVE  /\ registry[r].outcome \in Outcome /\ Allowed(r, registry[r].outcome)
           /\ r \notin Forgotten => Truthful(r, registry[r].outcome)
<1>1. registry[r].outcome \in Outcome
  BY CarriedIsOutcome DEF IInv, At
<1>2. Settled(r)
  BY DEF At, Settled
<1> QED
  BY <1>1, <1>2 DEF Outcomes, Truths, AllAllowed

\* So is what is on record.
LEMMA RecordIsTrue ==
    ASSUME IInv, Outcomes, NEW r \in Run, mem.recent[r] # None
    PROVE  /\ mem.recent[r] \in Outcome /\ Allowed(r, mem.recent[r])
           /\ r \notin Forgotten => Truthful(r, mem.recent[r])
  BY DEF IInv, TypeOK, Store, Outcomes, Truths, AllAllowed

\* A save forgets Runs that are over, and no others.
LEMMA PruneSteps ==
    ASSUME IInv, Outcomes, HistoryKept, UNCHANGED <<proc, status, outcome, cancelReq, crashVars>>,
           NEW q \in Run
    PROVE  OneRunLife(q)
<1>1. CASE q \in Forgotten' <=> q \in Forgotten
  BY <1>1, RunLifeStutters DEF SameRest, SameConsent, crashVars
<1>2. CASE ~(q \in Forgotten' <=> q \in Forgotten)
  <2>1. q \in Forgotten' /\ mem.recent[q] # None
    BY <1>2 DEF HistoryKept, Forgotten, crashVars
  <2>2. ~Running(q) /\ mem.recent[q] \in Outcome /\ Allowed(q, mem.recent[q])
    BY <2>1, NobodyRuns, RecordIsTrue
  <2>3. status[q] = "started" \/ q \in cancelReq \/ outcome[q] # None
    BY <2>2 DEF Allowed, Consented, Outcomes, Open
  <2>4. OfRun(q)!Forget
    BY <2>1, <2>2, <2>3 DEF OfRun!Forget, Running, Forgotten, crashVars
  <2> QED
    BY <2>4 DEF OneRunLife, OfRun!RunLifeNext
<1> QED
  BY <1>1, <1>2

\* Every step of the Agent is, for every Run, a step of its RunLife or none.
LEMMA EveryRunLife == IInv /\ Outcomes /\ [Next]_vars => \A q \in Run : OneRunLife(q)
<1> SUFFICES ASSUME IInv, Outcomes, [Next]_vars PROVE \A q \in Run : OneRunLife(q)
  OBVIOUS
<1>1. ASSUME Reconciled \/ AnswerLost \/ Receive \/ HandledAll \/ StartDropped \/ NotStarted
             \/ Restart \/ UNCHANGED vars
      PROVE  UNCHANGED <<proc, status, outcome, cancelReq, pruned, crashVars>>
  BY <1>1 DEF Reconciled, AnswerLost, Receive, HandledAll, StartDropped, NotStarted,
              Restart, vars, procVars, serverVars, storeVars
<1>2. ASSUME NEW r \in Run,
             Ignore(r) \/ LaunchCancelled(r) \/ Accept(r) \/ CancelByAnswer(r)
             \/ FinishRefused(r) \/ Release(r) \/ ReportLostRefused(r)
      PROVE  UNCHANGED <<proc, status, outcome, cancelReq, pruned, crashVars>>
  BY <1>2 DEF Ignore, LaunchCancelled, Accept, CancelByAnswer, FinishRefused, Release,
              ReportLostRefused, procVars, serverVars, storeVars
<1>3. ASSUME Poll \/ \E r \in Run : LeaseRunsOut(r), NEW q \in Run PROVE OneRunLife(q)
  <2>1. UNCHANGED <<proc, outcome, cancelReq, pruned, crashVars>>
    BY <1>3 DEF Poll, LeaseRunsOut, procVars, storeVars
  <2>2. SameConsent(q)
    BY <1>3 DEF Poll, LeaseRunsOut, SameConsent, IInv, TypeOK
  <2>3. SameRest(q) /\ proc'[q] = proc[q] /\ outcome'[q] = outcome[q]
    BY <2>1 DEF SameRest, Forgotten, crashVars
  <2> QED
    BY <2>2, <2>3, RunLifeStutters
<1>4. ASSUME StartAccepted \/ StartAnswerLost, NEW q \in Run PROVE OneRunLife(q)
  <2>1. cur \in Run
    BY <1>4 DEF StartAccepted, StartAnswerLost, IInv, CurInHand, Busy
  <2>2. CanStart(cur) /\ status' = [status EXCEPT ![cur] = "started"]
        /\ UNCHANGED <<proc, outcome, cancelReq, pruned, crashVars>>
    BY <1>4 DEF StartAccepted, StartAnswerLost, ServerStart, procVars, storeVars
  <2> QED
    BY <2>1, <2>2, ConsentSteps
<1>5. ASSUME NEW r \in Run, Acknowledge(r), NEW q \in Run PROVE OneRunLife(q)
  <2>1. UNCHANGED <<proc, outcome, cancelReq, pruned, crashVars>>
    BY <1>5 DEF Acknowledge, procVars, storeVars
  <2>2. CASE status' = status
    BY <2>1, <2>2, InsideSteps
  <2>3. CASE CanStart(r) /\ status' = [status EXCEPT ![r] = "started"]
    BY <2>1, <2>3, ConsentSteps
  <2> QED
    BY <1>5, <2>2, <2>3 DEF Acknowledge
<1>6. ASSUME NEW r \in Run, Resend(r) PROVE \A q \in Run : OneRunLife(q)
  <2>1. UNCHANGED <<proc, cancelReq, pruned, crashVars>> /\ ~Running(r)
    BY <1>6, NobodyRuns DEF Resend, procVars, storeVars
  <2>2. CASE UNCHANGED <<status, outcome>>
    BY <2>1, <2>2, InsideSteps
  <2>3. CASE ServerFinish(r, mem.recent[r])
    BY <1>6, <2>1, <2>3, RecordIsTrue, TellSteps DEF Resend
  <2> QED
    BY <1>6, <2>2, <2>3 DEF Resend
<1>7. ASSUME NEW r \in Run, Finish(r) \/ FinishAnswerLost(r) PROVE \A q \in Run : OneRunLife(q)
  <2>1. UNCHANGED <<proc, cancelReq, pruned, crashVars>> /\ At(r, "finish") /\ ServerFinish(r, registry[r].outcome)
    BY <1>7 DEF Finish, FinishAnswerLost, procVars, storeVars
  <2> QED
    BY <2>1, NobodyRuns, FinishIsTrue, TellSteps
<1>8. ASSUME NEW r \in Run, ReportLost(r) \/ ReportLostAnswerLost(r) PROVE \A q \in Run : OneRunLife(q)
  <2>1. UNCHANGED <<proc, cancelReq, pruned, crashVars>> /\ ServerFinish(r, "lost")
    BY <1>8 DEF ReportLost, ReportLostAnswerLost, procVars, storeVars
  <2>2. "lost" \in Outcome /\ execs[r] > 0 /\ (r \notin pruned => mem.recent[r] = "lost")
    BY <1>8 DEF ReportLost, ReportLostAnswerLost, Outcomes, LostKept, Outcome
  <2>3. Allowed(r, "lost")
    BY <2>2 DEF IInv, StartedWithConsent, Consented, Allowed
  <2>4. r \notin Forgotten => Truthful(r, "lost") /\ ~Running(r)
    BY <2>2, NobodyRuns, RecordIsTrue, NoneAssumption DEF Forgotten
  <2> QED
    BY <2>1, <2>2, <2>3, <2>4, TellSteps
<1>9. ASSUME NEW c \in Store, Save(c) PROVE HistoryKept
  BY <1>9, SaveEffect DEF IInv
<1>10. ASSUME MarkActive, NEW q \in Run PROVE OneRunLife(q)
  <2>1. UNCHANGED <<proc, status, outcome, cancelReq, crashVars>>
    BY <1>10 DEF MarkActive, procVars, serverVars
  <2> QED
    BY <1>9, <1>10, <2>1, WithActiveIsStore, PruneSteps DEF MarkActive, IInv, CurInHand, Busy
<1>11. ASSUME NEW r \in Run, Reconcile(r), NEW q \in Run PROVE OneRunLife(q)
  <2>1. UNCHANGED <<proc, status, outcome, cancelReq, crashVars>>
    BY <1>11 DEF Reconcile, procVars, serverVars
  <2> QED
    BY <1>9, <1>11, <2>1, WithFinishedIsStore, PruneSteps DEF Reconcile, IInv, Outcome
<1>12. ASSUME NEW r \in Run, MarkFinished(r), NEW q \in Run PROVE OneRunLife(q)
  <2>1. UNCHANGED <<proc, status, outcome, cancelReq, crashVars>>
    BY <1>12 DEF MarkFinished, procVars, serverVars
  <2>2. registry[r].outcome \in Outcome
    BY <1>12, CarriedIsOutcome DEF MarkFinished, At, IInv
  <2> QED
    BY <1>9, <1>12, <2>1, <2>2, WithFinishedIsStore, PruneSteps DEF MarkFinished, IInv
<1> QED
  BY <1>1, <1>2, <1>3, <1>4, <1>5, <1>6, <1>7, <1>8, <1>10, <1>11, <1>12, InsideSteps, ExecuteSteps,
     ExitSteps, CrashSteps, AskSteps, NextActions

\* The life of each Run is a RunLife, whatever happens to leases, answers,
\* saves, the daemon and the other Runs (handleLease, deliver, reconcile).
THEOREM LifeOfEachRun == Spec => ImplementsRunLife
<1>1. Init => \A r \in Run : OfRun(r)!NewRun
  BY DEF Init, OfRun!NewRun, Forgotten
<1>2. IInv /\ Outcomes /\ [Next]_vars =>
        [\A r \in Run : OfRun(r)!RunLifeNext \/ UNCHANGED OfRun(r)!runLifeVars]_vars
  BY EveryRunLife DEF OneRunLife
<1> QED
  BY <1>1, <1>2, OutcomesKept, PTL DEF Spec, ImplementsRunLife
============================================================================
