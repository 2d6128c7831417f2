-------------------------- MODULE EnrollmentProofs --------------------------
(***************************************************************************)
(* What is proved of Enrollment, for any Machines, Runs and number of      *)
(* enrollments: the state a daemon works with is that of the Machine it is *)
(* configured as, and an enroll that says it succeeded can be started      *)
(* from.                                                                   *)
(*                                                                         *)
(* The active Runs in memory and on disk were leased, so a state that      *)
(* names no Machine has none (Leased); what the enroll command has written *)
(* so far is what it was answered (Progress), and an enroll is over when   *)
(* it says so, which keeps the next answer from changing what it says      *)
(* (Said).                                                                 *)
(***************************************************************************)
EXTENDS Enrollment, TLAPS

Types ==
    /\ issued \in Seq(Machine) /\ valid \subseteq Issued /\ home \in [Run -> Machine \cup {None}]
    /\ config \in Machine \cup {None} /\ credential \in 0..Len(issued)
    /\ owner \in [File -> Account \cup {None}] /\ giveTo \in Owners(asRoot)
    /\ cmd \in {"idle", "checked", "answered", "config_saved", "credential_saved", "config_given"}
    /\ asRoot \in BOOLEAN /\ enrolled \in BOOLEAN /\ retryLater \in BOOLEAN
    /\ answer \in 0..Len(issued)
    /\ daemon \in {"down", "configured", "built", "reconcile", "up"}
    /\ machineID \in Machine \cup {None} /\ held \in 0..Len(issued)
    /\ mem \in State /\ disk \in State
    /\ daemon \in {"built", "reconcile", "up"} => held \in Issued

LEMMA TypesTypeOK == TypeOK <=> Types
  BY DEF TypeOK, Types

\* An active Run was leased, to the Machine the state belongs to.
Leased(s) == \A r \in s.active : home[r] = s.machine /\ home[r] # None

Identity ==
    /\ daemon # "down" => machineID # None
    /\ daemon \in {"reconcile", "up"} => mem.machine = machineID

\* What the enroll command has done when it has come this far.
Progress ==
    /\ cmd \in {"answered", "config_saved", "credential_saved", "config_given"} => answer \in Issued
    /\ cmd \in {"config_saved", "credential_saved", "config_given"} => config = issued[answer]
    /\ cmd \in {"credential_saved", "config_given"} => credential = answer
    /\ cmd \in {"config_saved", "credential_saved"} => owner["config"] = Writer
    /\ cmd \in {"credential_saved", "config_given"} => owner["credential"] = Writer
    /\ cmd = "config_given" => owner["config"] = giveTo /\ ChangesOwner

Said ==
    enrolled => /\ cmd = "idle" /\ \A file \in File : owner[file] = giveTo
                /\ credential \in Issued /\ config = issued[credential]

Inv == Types /\ Leased(mem) /\ Leased(disk) /\ Identity /\ Progress /\ Said

LEMMA InitInv == Init => Inv
<1> SUFFICES ASSUME Init PROVE Inv
  OBVIOUS
<1> USE DEF Init
<1>1. Types
  <2>1. mem \in State /\ disk \in State
    BY DEF EmptyState, State
  <2>2. issued \in Seq(Machine) /\ Len(issued) = 0
    OBVIOUS
  <2>3. home \in [Run -> Machine \cup {None}] /\ valid \subseteq Issued
    OBVIOUS
  <2>4. 0 \in 0..Len(issued)
    BY <2>2
  <2>5. config = None /\ machineID = None /\ credential = 0 /\ answer = 0 /\ held = 0
    OBVIOUS
  <2>6. /\ owner \in [File -> Account \cup {None}] /\ giveTo \in Owners(asRoot)
    BY DEF Owners
  <2>7. /\ cmd = "idle" /\ daemon = "down"
        /\ asRoot \in BOOLEAN /\ enrolled \in BOOLEAN /\ retryLater \in BOOLEAN
    OBVIOUS
  <2> HIDE DEF Init
  <2>8. QED
    BY <2>1, <2>2, <2>3, <2>4, <2>5, <2>6, <2>7 DEF Types
<1>2. Leased(mem) /\ Leased(disk)
  BY DEF Leased, EmptyState
<1>3. Identity /\ Progress /\ Said
  BY DEF Identity, Progress, Said
<1>4. QED
  BY <1>1, <1>2, <1>3 DEF Inv

\* A credential issued adds to those there are.
LEMMA IssueAppends ==
  ASSUME Types, NEW m \in Machine, Issue(m)
  PROVE  /\ issued' \in Seq(Machine) /\ Len(issued') = Len(issued) + 1
         /\ issued'[Len(issued) + 1] = m
         /\ \A c \in Issued : issued'[c] = issued[c]
         /\ valid' \subseteq Issued' /\ Issued \subseteq Issued' /\ Len(issued) + 1 \in Issued'
         /\ 0..Len(issued) \subseteq 0..Len(issued')
<1>1. issued \in Seq(Machine) /\ Len(issued) \in Nat /\ valid \subseteq 1..Len(issued)
  BY DEF Types, Issued
<1>2. issued' = Append(issued, m) /\ valid' \subseteq valid \cup {Len(issued) + 1}
  BY DEF Issue
<1>3. Len(issued') = Len(issued) + 1
  BY <1>1, <1>2
<1>4. QED
  BY <1>1, <1>2, <1>3 DEF Issued

LEMMA EmptyTyped == EmptyState \in State /\ EmptyState.active = {} /\ EmptyState.machine = None
  BY DEF EmptyState, State

\* What is left when a Run is forgotten.
LEMMA ForgottenState ==
  ASSUME Types, NEW r \in Run, Forgotten(r)
  PROVE  /\ mem' \in State /\ disk' \in State
         /\ mem'.machine = mem.machine /\ mem'.active \subseteq mem.active
         /\ disk' = disk \/ disk' = mem'
<1>1. mem \in State /\ disk \in State
  BY DEF Types
<1>2. mem' = [mem EXCEPT !.active = @ \ {r}] /\ disk' \in {disk, mem'}
  BY DEF Forgotten
<1>3. mem' = [machine |-> mem.machine, active |-> mem.active \ {r}]
  BY <1>1, <1>2 DEF State
<1>4. QED
  BY <1>1, <1>2, <1>3 DEF State

\* What a daemon works with once it has made the state its own.
LEMMA Adopted ==
  ASSUME Types, Leased(mem), Leased(disk), Identity, Adopt
  PROVE  /\ mem' \in State /\ disk' \in State /\ mem'.machine = machineID
         /\ mem'.active # {} => mem' = mem
         /\ disk' = disk \/ disk' = mem' \/ disk' = EmptyState
<1>1. mem \in State /\ disk \in State /\ machineID \in Machine \cup {None}
  BY DEF Types
<1>2. CASE mem.machine = machineID
  BY <1>1, <1>2 DEF Adopt, storeVars
<1>3. CASE mem.machine # machineID /\ mem.machine # None
  <2>1. mem' = [machine |-> machineID, active |-> {}] /\ disk' \in {disk, mem', EmptyState}
    BY <1>3 DEF Adopt, Reset
  <2>2. QED
    BY <1>1, <2>1, EmptyTyped DEF State
<1>4. CASE mem.machine # machineID /\ mem.machine = None
  <2>1. mem' = [mem EXCEPT !.machine = machineID] /\ disk' \in {disk, mem'}
    BY <1>4 DEF Adopt, SetMachineID
  <2>2. mem.active = {}
    BY <1>4 DEF Leased
  <2>3. mem' = [machine |-> machineID, active |-> {}]
    BY <1>1, <2>1, <2>2 DEF State
  <2>4. QED
    BY <1>1, <2>1, <2>3 DEF State
<1>5. QED
  BY <1>2, <1>3, <1>4

\* A file has an owner when it is written, and when it is given away.
LEMMA WrittenTyped ==
  ASSUME Types, NEW f \in File, Written(f) PROVE owner' \in [File -> Account \cup {None}]
BY DEF Types, Written, Writer, Account

LEMMA GivenTyped ==
  ASSUME Types, NEW f \in File, Give(f) PROVE owner' \in [File -> Account \cup {None}]
BY DEF Types, Give, Owners, Account

LEMMA NextTypes == Types /\ Leased(mem) /\ Leased(disk) /\ Identity /\ Progress /\ [Next]_vars => Types'
<1> SUFFICES ASSUME Types, Leased(mem), Leased(disk), Identity, Progress, [Next]_vars PROVE Types'
  OBVIOUS
<1> USE DEF Types, Issued, vars, serverVars, fileVars, cmdVars, storeVars, daemonVars
<1>1. ASSUME NEW force \in BOOLEAN, NEW root \in BOOLEAN, NEW account \in Account,
             BeginEnroll(force, root, account)
      PROVE  Types'
  BY <1>1 DEF BeginEnroll
<1>2. ASSUME NEW m \in Machine, EnrollAnswered(m) PROVE Types'
  <2>1. Issue(m)
    BY <1>2 DEF EnrollAnswered, Issue
  <2>2. QED
    BY <1>2, <2>1, IssueAppends, Len(issued) \in Nat DEF EnrollAnswered, Issue
<1>3. ASSUME NEW m \in Machine, EnrollAnswerLost(m) PROVE Types'
  <2>1. Issue(m)
    BY <1>3 DEF EnrollAnswerLost, Issue
  <2>2. QED
    BY <1>3, <2>1, IssueAppends, Len(issued) \in Nat DEF EnrollAnswerLost, Issue
<1>4. CASE SaveConfig
  BY <1>4, WrittenTyped DEF SaveConfig, Progress, File
<1>5. CASE SaveCredential
  BY <1>5, WrittenTyped DEF SaveCredential, File
<1>6. CASE GiveConfig
  BY <1>6, GivenTyped DEF GiveConfig, File
<1>7. CASE KeepFiles \/ GiveCredential
  BY <1>7, GivenTyped DEF KeepFiles, GiveCredential, File
<1>8. CASE EnrollStops
  BY <1>8 DEF EnrollStops
<1>9. CASE LoadConfig
  BY <1>9 DEF LoadConfig
<1>10. CASE LoadCredential
  BY <1>10 DEF LoadCredential, NewClient
<1>11. CASE Adopt
  BY <1>11, Adopted DEF Adopt
<1>12. CASE Reconciled
  BY <1>12 DEF Reconciled
<1>13. ASSUME NEW r \in Run, ReportLost(r) PROVE Types'
  <2>1. Forgotten(r)
    BY <1>13 DEF ReportLost
  <2>2. QED
    BY <1>13, <2>1, ForgottenState DEF ReportLost
<1>14. CASE Rejected
  BY <1>14 DEF Rejected, Sent
<1>15. CASE AskAgain
  BY <1>15 DEF AskAgain
<1>16. CASE DaemonEnds
  BY <1>16, EmptyTyped DEF DaemonEnds
<1>17. ASSUME NEW m \in Machine, RemoveMachine(m) PROVE Types'
  BY <1>17 DEF RemoveMachine
<1>18. ASSUME NEW r \in Run, Execute(r) PROVE Types'
  BY <1>18 DEF Execute, Sent, Verified, State
<1>19. ASSUME NEW r \in Run, Finish(r) PROVE Types'
  <2>1. Forgotten(r)
    BY <1>19 DEF Finish
  <2>2. QED
    BY <1>19, <2>1, ForgottenState DEF Finish
<1>20. CASE UNCHANGED vars
  BY <1>20
<1>21. QED
  BY <1>1, <1>2, <1>3, <1>4, <1>5, <1>6, <1>7, <1>8, <1>9, <1>10, <1>11,
     <1>12, <1>13, <1>14, <1>15, <1>16, <1>17, <1>18, <1>19, <1>20
     DEF Next, Enroll, Build, Poll

LEMMA NextLeased == Types /\ Leased(mem) /\ Leased(disk) /\ Identity /\ [Next]_vars => (Leased(mem) /\ Leased(disk))'
<1> SUFFICES ASSUME Types, Leased(mem), Leased(disk), Identity, [Next]_vars PROVE (Leased(mem) /\ Leased(disk))'
  OBVIOUS
<1> USE DEF Leased, vars, serverVars, fileVars, cmdVars, storeVars, daemonVars
<1>1. ASSUME NEW force \in BOOLEAN, NEW root \in BOOLEAN, NEW account \in Account,
             BeginEnroll(force, root, account)
      PROVE  (Leased(mem) /\ Leased(disk))'
  BY <1>1 DEF BeginEnroll
<1>2. ASSUME NEW m \in Machine, EnrollAnswered(m) PROVE (Leased(mem) /\ Leased(disk))'
  BY <1>2 DEF EnrollAnswered, Issue
<1>3. ASSUME NEW m \in Machine, EnrollAnswerLost(m) PROVE (Leased(mem) /\ Leased(disk))'
  BY <1>3 DEF EnrollAnswerLost, Issue
<1>4. CASE SaveConfig
  BY <1>4 DEF SaveConfig, Written
<1>5. CASE SaveCredential
  BY <1>5 DEF SaveCredential, Written
<1>6. CASE GiveConfig
  BY <1>6 DEF GiveConfig, Give
<1>7. CASE KeepFiles \/ GiveCredential
  BY <1>7 DEF KeepFiles, GiveCredential, Give
<1>8. CASE EnrollStops
  BY <1>8 DEF EnrollStops
<1>9. CASE LoadConfig
  BY <1>9 DEF LoadConfig
<1>10. CASE LoadCredential
  BY <1>10 DEF LoadCredential, NewClient
<1>11. CASE Adopt
  BY <1>11, Adopted, EmptyTyped DEF Adopt
<1>12. CASE Reconciled
  BY <1>12 DEF Reconciled
<1>13. ASSUME NEW r \in Run, ReportLost(r) PROVE (Leased(mem) /\ Leased(disk))'
  <2>1. Forgotten(r)
    BY <1>13 DEF ReportLost
  <2>2. QED
    BY <1>13, <2>1, ForgottenState DEF ReportLost
<1>14. CASE Rejected
  BY <1>14 DEF Rejected, Sent
<1>15. CASE AskAgain
  BY <1>15 DEF AskAgain
<1>16. CASE DaemonEnds
  BY <1>16, EmptyTyped DEF DaemonEnds
<1>17. ASSUME NEW m \in Machine, RemoveMachine(m) PROVE (Leased(mem) /\ Leased(disk))'
  BY <1>17 DEF RemoveMachine
<1>18. ASSUME NEW r \in Run, Execute(r) PROVE (Leased(mem) /\ Leased(disk))'
  BY <1>18 DEF Execute, Sent, Verified, State, Types, Issued, Identity
<1>19. ASSUME NEW r \in Run, Finish(r) PROVE (Leased(mem) /\ Leased(disk))'
  <2>1. Forgotten(r)
    BY <1>19 DEF Finish
  <2>2. QED
    BY <1>19, <2>1, ForgottenState DEF Finish
<1>20. CASE UNCHANGED vars
  BY <1>20
<1>21. QED
  BY <1>1, <1>2, <1>3, <1>4, <1>5, <1>6, <1>7, <1>8, <1>9, <1>10, <1>11,
     <1>12, <1>13, <1>14, <1>15, <1>16, <1>17, <1>18, <1>19, <1>20
     DEF Next, Enroll, Build, Poll

LEMMA NextIdentity == Types /\ Leased(mem) /\ Leased(disk) /\ Identity /\ [Next]_vars => Identity'
<1> SUFFICES ASSUME Types, Leased(mem), Leased(disk), Identity, [Next]_vars PROVE Identity'
  OBVIOUS
<1> USE DEF Identity, vars, serverVars, fileVars, cmdVars, storeVars, daemonVars
<1>1. ASSUME NEW force \in BOOLEAN, NEW root \in BOOLEAN, NEW account \in Account,
             BeginEnroll(force, root, account)
      PROVE  Identity'
  BY <1>1 DEF BeginEnroll
<1>2. ASSUME NEW m \in Machine, EnrollAnswered(m) PROVE Identity'
  BY <1>2 DEF EnrollAnswered, Issue
<1>3. ASSUME NEW m \in Machine, EnrollAnswerLost(m) PROVE Identity'
  BY <1>3 DEF EnrollAnswerLost, Issue
<1>4. CASE SaveConfig
  BY <1>4 DEF SaveConfig, Written
<1>5. CASE SaveCredential
  BY <1>5 DEF SaveCredential, Written
<1>6. CASE GiveConfig
  BY <1>6 DEF GiveConfig, Give
<1>7. CASE KeepFiles \/ GiveCredential
  BY <1>7 DEF KeepFiles, GiveCredential, Give
<1>8. CASE EnrollStops
  BY <1>8 DEF EnrollStops
<1>9. CASE LoadConfig
  BY <1>9 DEF LoadConfig
<1>10. CASE LoadCredential
  BY <1>10 DEF LoadCredential, NewClient
<1>11. CASE Adopt
  BY <1>11, Adopted DEF Adopt
<1>12. CASE Reconciled
  BY <1>12 DEF Reconciled
<1>13. ASSUME NEW r \in Run, ReportLost(r) PROVE Identity'
  <2>1. Forgotten(r)
    BY <1>13 DEF ReportLost
  <2>2. QED
    BY <1>13, <2>1, ForgottenState DEF ReportLost
<1>14. CASE Rejected
  BY <1>14 DEF Rejected, Sent
<1>15. CASE AskAgain
  BY <1>15 DEF AskAgain
<1>16. CASE DaemonEnds
  BY <1>16 DEF DaemonEnds, EmptyState
<1>17. ASSUME NEW m \in Machine, RemoveMachine(m) PROVE Identity'
  BY <1>17 DEF RemoveMachine
<1>18. ASSUME NEW r \in Run, Execute(r) PROVE Identity'
  BY <1>18 DEF Execute, State, Types
<1>19. ASSUME NEW r \in Run, Finish(r) PROVE Identity'
  <2>1. Forgotten(r)
    BY <1>19 DEF Finish
  <2>2. QED
    BY <1>19, <2>1, ForgottenState DEF Finish
<1>20. CASE UNCHANGED vars
  BY <1>20
<1>21. QED
  BY <1>1, <1>2, <1>3, <1>4, <1>5, <1>6, <1>7, <1>8, <1>9, <1>10, <1>11,
     <1>12, <1>13, <1>14, <1>15, <1>16, <1>17, <1>18, <1>19, <1>20
     DEF Next, Enroll, Build, Poll

LEMMA NextProgress == Types /\ Progress /\ [Next]_vars => Progress'
<1> SUFFICES ASSUME Types, Progress, [Next]_vars PROVE Progress'
  OBVIOUS
<1> USE DEF Progress, Issued, Types, File, Writer, ChangesOwner, vars, serverVars, fileVars, cmdVars, storeVars, daemonVars
<1>1. ASSUME NEW force \in BOOLEAN, NEW root \in BOOLEAN, NEW account \in Account,
             BeginEnroll(force, root, account)
      PROVE  Progress'
  BY <1>1 DEF BeginEnroll
<1>2. ASSUME NEW m \in Machine, EnrollAnswered(m) PROVE Progress'
  <2>1. Issue(m)
    BY <1>2 DEF EnrollAnswered
  <2>2. QED
    BY <1>2, <2>1, IssueAppends, Len(issued) \in Nat DEF EnrollAnswered
<1>3. ASSUME NEW m \in Machine, EnrollAnswerLost(m) PROVE Progress'
  <2>1. Issue(m)
    BY <1>3 DEF EnrollAnswerLost
  <2>2. QED
    BY <1>3, <2>1, IssueAppends, Len(issued) \in Nat DEF EnrollAnswerLost
<1>4. CASE SaveConfig
  BY <1>4 DEF SaveConfig, Written
<1>5. CASE SaveCredential
  BY <1>5 DEF SaveCredential, Written
<1>6. CASE GiveConfig
  BY <1>6 DEF GiveConfig, Give
<1>7. CASE KeepFiles \/ GiveCredential
  BY <1>7 DEF KeepFiles, GiveCredential, Give
<1>8. CASE EnrollStops
  BY <1>8 DEF EnrollStops
<1>9. CASE LoadConfig
  BY <1>9 DEF LoadConfig
<1>10. CASE LoadCredential
  BY <1>10 DEF LoadCredential, NewClient
<1>11. CASE Adopt
  BY <1>11 DEF Adopt, Reset, SetMachineID
<1>12. CASE Reconciled
  BY <1>12 DEF Reconciled
<1>13. ASSUME NEW r \in Run, ReportLost(r) PROVE Progress'
  BY <1>13 DEF ReportLost, Forgotten
<1>14. CASE Rejected
  BY <1>14 DEF Rejected, Sent
<1>15. CASE AskAgain
  BY <1>15 DEF AskAgain
<1>16. CASE DaemonEnds
  BY <1>16 DEF DaemonEnds, EmptyState
<1>17. ASSUME NEW m \in Machine, RemoveMachine(m) PROVE Progress'
  BY <1>17 DEF RemoveMachine
<1>18. ASSUME NEW r \in Run, Execute(r) PROVE Progress'
  BY <1>18 DEF Execute, Sent, Verified
<1>19. ASSUME NEW r \in Run, Finish(r) PROVE Progress'
  BY <1>19 DEF Finish, Forgotten
<1>20. CASE UNCHANGED vars
  BY <1>20
<1>21. QED
  BY <1>1, <1>2, <1>3, <1>4, <1>5, <1>6, <1>7, <1>8, <1>9, <1>10, <1>11,
     <1>12, <1>13, <1>14, <1>15, <1>16, <1>17, <1>18, <1>19, <1>20
     DEF Next, Enroll, Build, Poll

LEMMA NextSaid == Types /\ Progress /\ Said /\ [Next]_vars => Said'
<1> SUFFICES ASSUME Types, Progress, Said, [Next]_vars PROVE Said'
  OBVIOUS
<1> USE DEF Said, Issued, vars, serverVars, fileVars, cmdVars, storeVars, daemonVars
<1>1. ASSUME NEW force \in BOOLEAN, NEW root \in BOOLEAN, NEW account \in Account,
             BeginEnroll(force, root, account)
      PROVE  Said'
  BY <1>1 DEF BeginEnroll
<1>2. ASSUME NEW m \in Machine, EnrollAnswered(m) PROVE Said'
  <2>1. Issue(m)
    BY <1>2 DEF EnrollAnswered
  <2>2. QED
    BY <1>2, <2>1, IssueAppends, Len(issued) \in Nat DEF EnrollAnswered
<1>3. ASSUME NEW m \in Machine, EnrollAnswerLost(m) PROVE Said'
  <2>1. Issue(m)
    BY <1>3 DEF EnrollAnswerLost
  <2>2. QED
    BY <1>3, <2>1, IssueAppends, Len(issued) \in Nat DEF EnrollAnswerLost
<1>4. CASE SaveConfig
  BY <1>4 DEF SaveConfig, Written
<1>5. CASE SaveCredential
  BY <1>5 DEF SaveCredential, Written
<1>6. CASE GiveConfig
  BY <1>6 DEF GiveConfig, Give
<1>7. CASE KeepFiles \/ GiveCredential
  BY <1>7 DEF KeepFiles, GiveCredential, Give, Progress, Types, File, Writer, ChangesOwner, Owners
<1>8. CASE EnrollStops
  BY <1>8 DEF EnrollStops
<1>9. CASE LoadConfig
  BY <1>9 DEF LoadConfig
<1>10. CASE LoadCredential
  BY <1>10 DEF LoadCredential, NewClient
<1>11. CASE Adopt
  BY <1>11 DEF Adopt, Reset, SetMachineID
<1>12. CASE Reconciled
  BY <1>12 DEF Reconciled
<1>13. ASSUME NEW r \in Run, ReportLost(r) PROVE Said'
  BY <1>13 DEF ReportLost, Forgotten
<1>14. CASE Rejected
  BY <1>14 DEF Rejected, Sent
<1>15. CASE AskAgain
  BY <1>15 DEF AskAgain
<1>16. CASE DaemonEnds
  BY <1>16 DEF DaemonEnds, EmptyState
<1>17. ASSUME NEW m \in Machine, RemoveMachine(m) PROVE Said'
  BY <1>17 DEF RemoveMachine
<1>18. ASSUME NEW r \in Run, Execute(r) PROVE Said'
  BY <1>18 DEF Execute, Sent, Verified
<1>19. ASSUME NEW r \in Run, Finish(r) PROVE Said'
  BY <1>19 DEF Finish, Forgotten
<1>20. CASE UNCHANGED vars
  BY <1>20
<1>21. QED
  BY <1>1, <1>2, <1>3, <1>4, <1>5, <1>6, <1>7, <1>8, <1>9, <1>10, <1>11,
     <1>12, <1>13, <1>14, <1>15, <1>16, <1>17, <1>18, <1>19, <1>20
     DEF Next, Enroll, Build, Poll

----------------------------------------------------------------------------
LEMMA InvStateOfOneMachine == Inv => StateOfOneMachine
  BY DEF Inv, StateOfOneMachine, Leased, Identity

LEMMA InvEnrolledMeansUsable == Inv => EnrolledMeansUsable
  BY DEF Inv, EnrolledMeansUsable, Said

\* Inv is an invariant, whatever enrolls, starts, fails and stops half way.
THEOREM Inductive == Spec => []Inv
<1>1. Inv /\ [Next]_vars => Inv'
  BY NextTypes, NextLeased, NextIdentity, NextProgress, NextSaid DEF Inv
<1>2. QED
  BY InitInv, <1>1, PTL DEF Spec

\* A running daemon holds a credential the Server issued.
THEOREM TypeCorrect == Spec => []TypeOK
<1>1. Inv => TypeOK
  BY TypesTypeOK DEF Inv
<1>2. QED
  BY Inductive, <1>1, PTL

\* A daemon works on the Runs of the Machine it is configured as, through
\* enrollments that stop half way and states that could not be set aside
\* (adopt, Reset, verify).
THEOREM OneMachine == Spec => []StateOfOneMachine
  BY Inductive, InvStateOfOneMachine, PTL

\* After an enroll that says it succeeded, the configuration and the
\* credential are those of one Machine, and the daemon can read them (Enroll,
\* apply).
THEOREM Usable == Spec => []EnrolledMeansUsable
  BY Inductive, InvEnrolledMeansUsable, PTL
============================================================================
