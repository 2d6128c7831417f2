----------------------------- MODULE StateStore -----------------------------
(***************************************************************************)
(* What the state file remembers, and for how long (internal/state): the   *)
(* Runs that are active, and the outcomes of those that finished recently, *)
(* pruned by age and by number at every save.  Around it, what the Agent   *)
(* calls it for: a lease that may be repeated at any time, the end of a    *)
(* Run, and a start after a crash.  Agent has the same store with every    *)
(* outcome kept, and the rest of a Run's life.                             *)
(*                                                                         *)
(* The clock is the Machine's, and may be set.  A save is whole or not at  *)
(* all.  What the store owes is history: the Runs it may not have          *)
(* forgotten, whatever has happened since they were executed.              *)
(*                                                                         *)
(* An operator X_What is X with a plausible bug: the specification never   *)
(* uses it, the properties are known to fail when it replaces X.           *)
(***************************************************************************)
EXTENDS Integers, Sequences, FiniteSets

CONSTANTS
    Run,
    MaxRecentRuns, RecentRunTTL,
    Corrupt,            \* what a file that cannot be parsed holds
    MaxTime             \* bound: what the clock may show

Recent == [run : Run, at : 0..MaxTime]

ASSUME StateStoreAssumption ==
    /\ IsFiniteSet(Run)
    /\ MaxRecentRuns \in Nat \ {0} /\ RecentRunTTL \in Nat
    /\ MaxTime \in Nat
    /\ Corrupt \notin [active : SUBSET Run, recent : Seq(Recent)]

VARIABLES
    clock,
    active, recent,     \* contents, in memory
    file,               \* contents, or Corrupt
    daemon,
    step,               \* each Run in this process: none, accepted, running
    finishedAt,         \* history: when each Run finished, -1 if it has not
    after,              \* history: the Runs that finished since
    unsaved,            \* history: Runs executed since the last save
    owed                \* history: Runs that must be remembered

contents == <<active, recent>>
history == <<finishedAt, after, unsaved, owed>>
vars == <<clock, contents, file, daemon, step, history>>

RunsIn(list) == {list[i].run : i \in DOMAIN list}

\* What keeps a repeated lease from being executed: the registry, IsActive and
\* RecentOutcome.
Known(r) == step[r] # "none" \/ r \in active \/ r \in RunsIn(recent)

----------------------------------------------------------------------------
(* The store.                                                              *)

Fresh(o) == o.at >= clock - RecentRunTTL

\* slices.DeleteFunc of what is not fresh, as a recursive function of the length.
FreshOnes(list) ==
    LET fresh[n \in 0..Len(list)] ==
            IF n = 0 THEN <<>>
            ELSE IF Fresh(list[n]) THEN Append(fresh[n - 1], list[n]) ELSE fresh[n - 1]
    IN  fresh[Len(list)]

Prune_FirstOnes(list) ==
    LET fresh == FreshOnes(list)
    IN  SubSeq(fresh, 1, IF Len(fresh) > MaxRecentRuns THEN MaxRecentRuns ELSE Len(fresh))

Prune_OneMore(list) ==
    LET fresh == FreshOnes(list)
    IN  IF Len(fresh) > MaxRecentRuns + 1 THEN Tail(fresh) ELSE fresh

Prune(list) ==
    LET fresh == FreshOnes(list)
    IN  IF Len(fresh) > MaxRecentRuns
        THEN SubSeq(fresh, Len(fresh) - MaxRecentRuns + 1, Len(fresh)) ELSE fresh

\* save: memory is pruned first, and stays pruned if the file is not written.
\* A Run that is accepted and not marked yet is in no file.
Save(act, list) ==
    /\ active' = act /\ recent' = Prune(list)
    /\ \/ /\ file' = [active |-> act, recent |-> Prune(list)]
          /\ unsaved' = {r \in unsaved : step'[r] = "accepted"}
       \/ UNCHANGED <<file, unsaved>>

MarkActive(r) == Save(active \cup {r}, recent)

\* An outcome that is there already is replaced where it is.
WithOutcome(r) ==
    LET outcome == [run |-> r, at |-> clock]
    IN  IF r \in RunsIn(recent)
        THEN [i \in DOMAIN recent |-> IF recent[i].run = r THEN outcome ELSE recent[i]]
        ELSE Append(recent, outcome)

\* MaxRecentRuns others finished since.
Crowded == {r \in Run : Cardinality(after'[r]) >= MaxRecentRuns}

MarkFinished(r) ==
    /\ Save(active \ {r}, WithOutcome(r))
    /\ finishedAt' = [finishedAt EXCEPT ![r] = clock]
    /\ after' = [q \in Run |-> IF q = r \/ finishedAt[q] < 0 THEN {} ELSE after[q] \cup {r}]
    /\ owed' = owed \ Crowded

----------------------------------------------------------------------------
(* The Agent.                                                              *)

\* A lease, for the first time or again, of a Run nobody remembers.
Execute(r) ==
    /\ daemon = "up" /\ ~Known(r)
    /\ step' = [step EXCEPT ![r] = "accepted"]
    /\ finishedAt' = [finishedAt EXCEPT ![r] = -1] /\ after' = [after EXCEPT ![r] = {}]
    /\ unsaved' = unsaved \cup {r} /\ owed' = owed \cup {r}
    /\ UNCHANGED <<clock, contents, file, daemon>>

Started(r) ==
    /\ daemon = "up" /\ step[r] = "accepted"
    /\ step' = [step EXCEPT ![r] = "running"]
    /\ MarkActive(r)
    /\ UNCHANGED <<clock, daemon, finishedAt, after, owed>>

\* A Run whose process could not be started is finished without being active.
Finish(r) ==
    /\ daemon = "up" /\ step[r] # "none"
    /\ step' = [step EXCEPT ![r] = "none"]
    /\ MarkFinished(r)
    /\ UNCHANGED <<clock, daemon>>

\* The daemon ends without a stop.  What no save has reached is lost.
Crash ==
    /\ daemon # "down"
    /\ daemon' = "down"
    /\ active' = {} /\ recent' = <<>>
    /\ step' = [r \in Run |-> "none"]
    /\ owed' = owed \ unsaved /\ unsaved' = {}
    /\ UNCHANGED <<clock, file, finishedAt, after>>

\* Something else spoils the file, while the daemon is down.
Spoil ==
    /\ daemon = "down" /\ file # Corrupt
    /\ file' = Corrupt
    /\ owed' = {}
    /\ UNCHANGED <<clock, contents, daemon, step, finishedAt, after, unsaved>>

\* A corrupt file is set aside, or else overwritten later; the store is empty.
Load ==
    /\ daemon = "down"
    /\ daemon' = "reconcile"
    /\ IF file = Corrupt
       THEN /\ UNCHANGED contents
            /\ file' \in {file, [active |-> {}, recent |-> <<>>]}
       ELSE active' = file.active /\ recent' = file.recent /\ UNCHANGED file
    /\ UNCHANGED <<clock, step, history>>

\* reconcile: the Runs left active are lost.
Lost(r) ==
    /\ daemon = "reconcile" /\ r \in active
    /\ UNCHANGED <<clock, daemon, step>>
    /\ MarkFinished(r)

Reconciled ==
    /\ daemon = "reconcile" /\ active = {}
    /\ daemon' = "up"
    /\ UNCHANGED <<clock, contents, file, step, history>>

\* Time passes, or the clock is set.  What has once been too old may be gone.
Clock(t) ==
    /\ clock' = t
    /\ owed' = {r \in owed : finishedAt[r] < 0 \/ finishedAt[r] >= t - RecentRunTTL}
    /\ UNCHANGED <<contents, file, daemon, step, finishedAt, after, unsaved>>

Init ==
    /\ clock = 0
    /\ active = {} /\ recent = <<>> /\ file = [active |-> {}, recent |-> <<>>]
    /\ daemon = "up" /\ step = [r \in Run |-> "none"]
    /\ finishedAt = [r \in Run |-> -1] /\ after = [r \in Run |-> {}]
    /\ unsaved = {} /\ owed = {}

Next ==
    \/ Crash \/ Spoil \/ Load \/ Reconciled
    \/ \E t \in 0..MaxTime : Clock(t)
    \/ \E r \in Run : Execute(r) \/ Started(r) \/ Finish(r) \/ Lost(r)

Spec == Init /\ [][Next]_vars

----------------------------------------------------------------------------
(* Properties.                                                             *)

\* Types of the variables; a Run has one outcome, and there are never more than
\* MaxRecentRuns.
TypeOK ==
    /\ clock \in 0..MaxTime
    /\ active \subseteq Run /\ recent \in Seq(Recent)
    /\ file \in [active : SUBSET Run, recent : Seq(Recent)] \cup {Corrupt}
    /\ daemon \in {"down", "reconcile", "up"}
    /\ step \in [Run -> {"none", "accepted", "running"}]
    /\ finishedAt \in [Run -> -1..MaxTime] /\ after \in [Run -> SUBSET Run]
    /\ unsaved \subseteq Run /\ owed \subseteq Run
    /\ Len(recent) <= MaxRecentRuns
    /\ \A i, j \in DOMAIN recent : recent[i].run = recent[j].run => i = j

\* A Run that was executed is remembered, so that its lease executes nothing when
\* it is repeated, across crashes, failed saves and a clock that is set.  It may
\* be forgotten only once its outcome has been older than RecentRunTTL, once
\* MaxRecentRuns others have finished since, when the daemon crashed before any
\* save succeeded, and when the file was spoiled.
Remembered == daemon # "down" => \A r \in owed : Known(r)
============================================================================
