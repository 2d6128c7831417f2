----------------------------- MODULE Enrollment -----------------------------
(***************************************************************************)
(* Who the Agent is (internal/enroll, internal/config, the build of        *)
(* cli/run.go, Agent.adopt and Store.Reset): a Machine id in agent.conf, a *)
(* credential in a file of its own, and a state file that belongs to one   *)
(* Machine.  The enroll command writes the first two while a daemon may be *)
(* running or starting; each of its steps may be the last, as any of them  *)
(* can fail and the command can be killed.                                 *)
(*                                                                         *)
(* A credential is its number, in the order the Server issued them.  One   *)
(* enroll command runs at a time.  What a Run goes through is in Agent:    *)
(* here it is executed, and later finished or reported lost.               *)
(*                                                                         *)
(* An operator X_What is X with a plausible bug: the specification never   *)
(* uses it, the properties are known to fail when it replaces X.           *)
(***************************************************************************)
EXTENDS Naturals, Sequences

CONSTANTS
    Machine, Run,
    MaxCredentials,   \* bound: enrollments the Server takes
    None

ASSUME EnrollmentAssumption == MaxCredentials \in Nat /\ None \notin Machine

VARIABLES
    issued,        \* the Server: the Machine of each credential
    valid,         \* the credentials it accepts
    home,          \* the Machine it leased each Run to
    config,        \* machine_id of agent.conf
    credential,    \* agent.credential
    owner,         \* the account each of the two files belongs to
    cmd,           \* how far the enroll command has come
    asRoot,
    giveTo,        \* whose the files are to be
    answer,        \* the credential it was given
    enrolled,      \* the last command said it succeeded
    daemon,
    machineID, held,     \* what the daemon loaded: Machine and credential
    mem, disk,           \* the state store and its file
    retryLater     \* the poll loop sleeps after a 401

serverVars == <<issued, valid, home>>
fileVars == <<config, credential, owner>>
cmdVars == <<cmd, asRoot, giveTo, answer, enrolled>>
storeVars == <<mem, disk>>
daemonVars == <<daemon, machineID, held, retryLater>>
vars == <<serverVars, fileVars, cmdVars, storeVars, daemonVars>>

Issued == 1..Len(issued)
File == {"config", "credential"}
EmptyState == [machine |-> None, active |-> {}]

----------------------------------------------------------------------------
(* The enroll command.                                                     *)

\* The service's account, which the daemon runs as, root, and any other that
\* --user may name.
Account == {"service", "root", "other"}

\* resolveOwner.  Root gives the files to the service's account if there is one,
\* or to whom --user names; it keeps them if there is none, or --user says so.
\* Anyone else keeps them: here the service, nobody else may write there.
Owners(root) == IF root THEN Account ELSE {"service"}

\* The service's account reads what is its own.
Readable(file) == owner[file] = "service"

\* existingConfig: a file that cannot be read ends the command, --force or not.
ConfigRead(root) == root \/ config = None \/ Readable("config")

\* Nothing is written yet: flags, owner, existing configuration, a probe of
\* the directory.  An enrolled Machine needs --force.
BeginEnroll(force, root, account) ==
    /\ cmd = "idle" /\ Len(issued) < MaxCredentials
    /\ account \in Owners(root)
    /\ ConfigRead(root) /\ (config = None \/ force)
    /\ cmd' = "checked" /\ asRoot' = root /\ giveTo' = account /\ enrolled' = FALSE
    /\ UNCHANGED <<serverVars, fileVars, answer, storeVars, daemonVars>>

\* POST /enroll: the token is spent.  A new Machine, or the same one again,
\* whose earlier credentials are void.
Issue(m) ==
    /\ issued' = Append(issued, m)
    /\ valid' = {c \in valid : issued[c] # m} \cup {Len(issued) + 1}
    /\ UNCHANGED home

EnrollAnswered(m) ==
    /\ cmd = "checked" /\ Issue(m)
    /\ cmd' = "answered" /\ answer' = Len(issued) + 1
    /\ UNCHANGED <<fileVars, asRoot, giveTo, enrolled, storeVars, daemonVars>>

EnrollAnswerLost(m) ==
    /\ cmd = "checked" /\ Issue(m)
    /\ cmd' = "idle"
    /\ UNCHANGED <<fileVars, asRoot, giveTo, answer, enrolled, storeVars, daemonVars>>

\* A file written anew is its writer's until it is given away.
Writer == IF asRoot THEN "root" ELSE "service"
Written(file) == owner' = [owner EXCEPT ![file] = Writer]

SaveConfig ==
    /\ cmd = "answered"
    /\ config' = issued[answer]
    /\ Written("config")
    /\ cmd' = "config_saved"
    /\ UNCHANGED <<serverVars, credential, asRoot, giveTo, answer, enrolled, storeVars, daemonVars>>

SaveCredential ==
    /\ cmd = "config_saved"
    /\ credential' = answer
    /\ Written("credential")
    /\ cmd' = "credential_saved"
    /\ UNCHANGED <<serverVars, config, asRoot, giveTo, answer, enrolled, storeVars, daemonVars>>

\* owner.apply: nothing to do unless the owner changes, else agent.conf first.
ChangesOwner == asRoot /\ giveTo # "root"
Give(file) == ChangesOwner /\ owner' = [owner EXCEPT ![file] = giveTo]

KeepFiles ==
    /\ cmd = "credential_saved" /\ ~ChangesOwner
    /\ cmd' = "idle" /\ enrolled' = TRUE
    /\ UNCHANGED <<serverVars, fileVars, asRoot, giveTo, answer, storeVars, daemonVars>>

GiveConfig ==
    /\ cmd = "credential_saved"
    /\ Give("config")
    /\ cmd' = "config_given"
    /\ UNCHANGED <<serverVars, config, credential, asRoot, giveTo, answer, enrolled, storeVars, daemonVars>>

GiveCredential_NotGiven ==
    /\ cmd = "config_given"
    /\ UNCHANGED owner
    /\ cmd' = "idle" /\ enrolled' = TRUE
    /\ UNCHANGED <<serverVars, config, credential, asRoot, giveTo, answer, storeVars, daemonVars>>

GiveCredential ==
    /\ cmd = "config_given"
    /\ Give("credential")
    /\ cmd' = "idle" /\ enrolled' = TRUE
    /\ UNCHANGED <<serverVars, config, credential, asRoot, giveTo, answer, storeVars, daemonVars>>

\* An error, or a kill: what was done so far stays.
EnrollStops ==
    /\ cmd # "idle"
    /\ cmd' = "idle"
    /\ UNCHANGED <<serverVars, fileVars, asRoot, giveTo, answer, enrolled, storeVars, daemonVars>>

\* A user removes the Machine: its credentials die with it.
RemoveMachine(m) ==
    /\ valid' = {c \in valid : issued[c] # m}
    /\ UNCHANGED <<issued, home, fileVars, cmdVars, storeVars, daemonVars>>

----------------------------------------------------------------------------
(* The daemon starts: two files read one after the other, then the state   *)
(* file, which it makes its own.                                           *)

LoadConfig ==
    /\ daemon = "down" /\ config # None /\ Readable("config")
    /\ machineID' = config
    /\ daemon' = "configured"
    /\ UNCHANGED <<serverVars, fileVars, cmdVars, storeVars, held, retryLater>>

\* client.New keeps the credential it is given.
NewClient == held' = credential

LoadCredential ==
    /\ daemon = "configured" /\ credential # 0 /\ Readable("credential")
    /\ NewClient
    /\ mem' = disk
    /\ daemon' = "built"
    /\ UNCHANGED <<serverVars, fileVars, cmdVars, disk, machineID, retryLater>>

\* Reset: the old file is set aside and a new one saved; either may fail.
Reset_KeepsRuns ==
    /\ mem' = [mem EXCEPT !.machine = machineID]
    /\ disk' \in {disk, mem', EmptyState}
Reset ==
    /\ mem' = [machine |-> machineID, active |-> {}]
    /\ disk' \in {disk, mem', EmptyState}

SetMachineID ==
    /\ mem' = [mem EXCEPT !.machine = machineID]
    /\ disk' \in {disk, mem'}

Adopt ==
    /\ daemon = "built"
    /\ IF mem.machine = machineID THEN UNCHANGED storeVars
       ELSE IF mem.machine # None THEN Reset ELSE SetMachineID
    /\ daemon' = "reconcile"
    /\ UNCHANGED <<serverVars, fileVars, cmdVars, machineID, held, retryLater>>

Forgotten(r) ==
    /\ mem' = [mem EXCEPT !.active = @ \ {r}]
    /\ disk' \in {disk, mem'}

\* reconcile: a Run still active is recorded and reported lost.
ReportLost(r) ==
    /\ daemon = "reconcile" /\ r \in mem.active
    /\ Forgotten(r)
    /\ UNCHANGED <<serverVars, fileVars, cmdVars, daemonVars>>

Reconciled ==
    /\ daemon = "reconcile" /\ mem.active = {}
    /\ daemon' = "up"
    /\ UNCHANGED <<serverVars, fileVars, cmdVars, storeVars, machineID, held, retryLater>>

----------------------------------------------------------------------------
(* The daemon works.                                                       *)

\* The credential a request carries.
Sent == held

\* verify: "lease is for machine %q, not this one".
Verified(m) == m = machineID

\* The Server leases a Run to the Machine of the credential; what is not
\* verified is ignored.
Execute(r) ==
    /\ daemon = "up" /\ ~retryLater /\ Sent \in valid /\ home[r] = None
    /\ home' = [home EXCEPT ![r] = issued[Sent]]
    /\ IF Verified(issued[Sent])
       THEN /\ mem' = [mem EXCEPT !.active = @ \cup {r}]
            /\ disk' \in {disk, mem'}
       ELSE UNCHANGED storeVars
    /\ UNCHANGED <<issued, valid, fileVars, cmdVars, daemonVars>>

Finish(r) ==
    /\ daemon = "up" /\ r \in mem.active
    /\ Forgotten(r)
    /\ UNCHANGED <<serverVars, fileVars, cmdVars, daemonVars>>

\* 401: the poll loop sleeps AuthRetryInterval, then asks again.
Rejected ==
    /\ daemon = "up" /\ ~retryLater /\ Sent \notin valid
    /\ retryLater' = TRUE
    /\ UNCHANGED <<serverVars, fileVars, cmdVars, storeVars, daemon, machineID, held>>

AskAgain ==
    /\ daemon = "up" /\ retryLater
    /\ retryLater' = FALSE
    /\ UNCHANGED <<serverVars, fileVars, cmdVars, storeVars, daemon, machineID, held>>

\* It is stopped, crashes, or fails to start.
DaemonEnds ==
    /\ daemon # "down"
    /\ daemon' = "down" /\ retryLater' = FALSE
    /\ mem' = EmptyState
    /\ UNCHANGED <<serverVars, fileVars, cmdVars, disk, machineID, held>>

----------------------------------------------------------------------------
Init ==
    /\ issued = <<>> /\ valid = {} /\ home = [r \in Run |-> None]
    /\ config = None /\ credential = 0 /\ owner = [f \in File |-> None]
    /\ cmd = "idle" /\ asRoot = FALSE /\ giveTo = "service" /\ answer = 0 /\ enrolled = FALSE
    /\ daemon = "down" /\ machineID = None /\ held = 0 /\ retryLater = FALSE
    /\ mem = EmptyState /\ disk = EmptyState

Enroll ==
    \/ \E force, root \in BOOLEAN, account \in Account : BeginEnroll(force, root, account)
    \/ \E m \in Machine : EnrollAnswered(m) \/ EnrollAnswerLost(m)
    \/ SaveConfig \/ SaveCredential \/ KeepFiles \/ GiveConfig \/ GiveCredential

Build == LoadConfig \/ LoadCredential \/ Adopt \/ Reconciled \/ \E r \in Run : ReportLost(r)

Poll == Rejected \/ AskAgain

Next ==
    \/ Enroll \/ EnrollStops \/ Build \/ Poll \/ DaemonEnds
    \/ \E m \in Machine : RemoveMachine(m)
    \/ \E r \in Run : Execute(r) \/ Finish(r)

Spec == Init /\ [][Next]_vars

\* A command that was begun goes on, a daemon that was started comes up, and
\* it polls.
FairSpec ==
    /\ Spec
    /\ WF_vars(cmd # "idle" /\ Enroll) /\ WF_vars(daemon # "down" /\ Build) /\ WF_vars(Poll)

----------------------------------------------------------------------------
(* Properties.                                                             *)

State == [machine : Machine \cup {None}, active : SUBSET Run]

\* Types of the variables.
TypeOK ==
    /\ issued \in Seq(Machine) /\ valid \subseteq Issued /\ home \in [Run -> Machine \cup {None}]
    /\ config \in Machine \cup {None} /\ credential \in 0..Len(issued)
    /\ owner \in [File -> Account \cup {None}] /\ giveTo \in Owners(asRoot)
    /\ cmd \in {"idle", "checked", "answered", "config_saved", "credential_saved", "config_given"}
    /\ {asRoot, enrolled, retryLater} \subseteq BOOLEAN /\ answer \in 0..Len(issued)
    /\ daemon \in {"down", "configured", "built", "reconcile", "up"}
    /\ machineID \in Machine \cup {None} /\ held \in 0..Len(issued)
    /\ mem \in State /\ disk \in State
    /\ daemon \in {"built", "reconcile", "up"} => held \in Issued

\* Active Runs belong to the Machine the state is recorded under, in memory
\* and on disk, and a daemon that reports or executes Runs is enrolled as it:
\* Runs of another Machine "must never be reported again" (adopt, Reset,
\* verify), through enrollments that stop half way, a daemon that loads the
\* configuration of one and the credential of the next, and a Reset whose
\* rename or save fails.
StateOfOneMachine ==
    /\ \A s \in {mem, disk} : \A r \in s.active : home[r] = s.machine
    /\ daemon \in {"reconcile", "up"} => mem.machine = machineID

\* An enroll that says it succeeded leaves what the account it names can start
\* a daemon from: one Machine, its own credential, both files that account's,
\* whatever earlier commands, of the same user or another, that stopped half way
\* had left there (Enroll, resolveOwner, apply).  It need not be the service's:
\* root that finds no such user keeps the files and succeeds.
EnrolledMeansUsable ==
    enrolled => /\ config = issued[credential]
                /\ \A file \in File : owner[file] = giveTo

\* "A restart is not required: the Agent [...] picks up the new one on its
\* own" (docs/troubleshooting.md): a running daemon whose credential is
\* rejected comes to hold the one a later enroll wrote.  It never does.
NewCredentialPickedUp ==
    [](daemon = "up" /\ retryLater /\ enrolled /\ held # credential =>
       <>(held = credential \/ daemon # "up" \/ ~enrolled))
============================================================================
