------------------------------ MODULE Reporter ------------------------------
(***************************************************************************)
(* The delivery of one Run (internal/agent/reporter.go): its output while  *)
(* the process runs, what is left of it after the exit, then the outcome,  *)
(* over a link that fails and to a Server that may think the Run lost.     *)
(*                                                                         *)
(* One goroutine runs deliver; pc is where it is, and a state whose name   *)
(* ends in "_call" has a request in flight.  Meanwhile the chunker adds    *)
(* output, other Runs take its memory (RunBuffer), a backoff sleep may run *)
(* on the side (sleeper), and the process may exit at any time.            *)
(*                                                                         *)
(* An operator X_What is X with a plausible bug: the specification never   *)
(* uses it, the properties are known to fail when it replaces X.           *)
(***************************************************************************)
EXTENDS RunBuffer

CONSTANTS
    MaxSeq,        \* bound: chunks the Run makes
    BatchChunks,   \* output.DefaultBatchChunks
    None

ASSUME ReporterAssumption ==
    /\ MaxSeq \in Nat
    /\ BatchChunks \in Nat \ {0}
    /\ None \notin [last : Nat, truncated : BOOLEAN]

VARIABLES
    pc,
    batch,         \* the chunks of the request being sent
    waiting, disconnected, outputDone, heartbeats, serverTruncated,
    sleeper,       \* retryLater's goroutine: none, sleeping
    retryReady,    \* the channel it writes to: messages in it
    exited,        \* the process is over
    signalled,     \* the process was told to stop
    request,       \* the finish request, once computed
    ctxDone,       \* reportCtx: the stop budget is spent
    link,          \* is the Server reachable?
    server,        \* running, lost, closed by the Server, or finished
    received,      \* the chunks the Server stored
    full,          \* the Server's output limit is reached
    cancelReq,
    accepted,      \* the finish request the Server took
    cutOff         \* history: output was refused because the Run was lost

flags == <<waiting, disconnected, outputDone, heartbeats, serverTruncated>>
sleepVars == <<sleeper, retryReady>>
procVars == <<exited, signalled>>
serverVars == <<server, received, full, cancelReq, accepted, cutOff>>
vars == <<runBufferVars, pc, batch, flags, sleepVars, procVars, request, ctxDone, link, serverVars>>

Supervising == pc \in {"supervise", "flush_heartbeat_call", "flush_call", "heartbeat_call"}

\* NextBatch: the oldest chunks, as many as a batch takes (OutputBuffer).
NextBatch_NewestAfterFailure ==
    LET upTo == IF first + BatchChunks - 1 < last THEN first + BatchChunks - 1 ELSE last
    IN  IF disconnected /\ first <= last THEN {last} ELSE first .. upTo
NextBatch ==
    LET upTo == IF first + BatchChunks - 1 < last THEN first + BatchChunks - 1 ELSE last
    IN  first .. upTo

LastOf(b) == CHOOSE n \in b : \A m \in b : m <= n

----------------------------------------------------------------------------
(* Around the goroutine.                                                   *)

\* The chunker hands over a chunk until it is closed.
Write ==
    /\ Supervising /\ last < MaxSeq
    /\ Keep \/ Lose
    /\ UNCHANGED <<pc, batch, flags, sleepVars, procVars, request, ctxDone, link, serverVars>>

\* Another Run needs the memory.
TakenByOthers ==
    /\ pc # "released"
    /\ DropOldest
    /\ UNCHANGED <<pc, batch, flags, sleepVars, procVars, request, ctxDone, link, serverVars>>

ProcessExits ==
    /\ ~exited
    /\ exited' = TRUE
    /\ UNCHANGED <<runBufferVars, pc, batch, flags, sleepVars, signalled, request, ctxDone, link, serverVars>>

LinkChanges ==
    /\ link' = ~link
    /\ UNCHANGED <<runBufferVars, pc, batch, flags, sleepVars, procVars, request, ctxDone, serverVars>>

\* drain of the Agent: the stop budget is spent.
StopReporting ==
    /\ ~ctxDone
    /\ ctxDone' = TRUE
    /\ UNCHANGED <<runBufferVars, pc, batch, flags, sleepVars, procVars, request, link, serverVars>>

\* retryLater's goroutine wakes up; the send blocks while the channel is full.
SleeperWakes ==
    /\ sleeper = "sleeping" /\ retryReady = 0
    /\ sleeper' = "none" /\ retryReady' = 1
    /\ UNCHANGED <<runBufferVars, pc, batch, flags, procVars, request, ctxDone, link, serverVars>>

----------------------------------------------------------------------------
(* The Server on its own.                                                  *)

\* It gives a silent Run up as lost.  Silence long enough for that has failed
\* at least one heartbeat of the Run, so the reporter is disconnected, unless
\* it is past its output and only retries the finish.
MarkLost ==
    /\ server = "running" /\ ~link
    /\ disconnected \/ pc \in {"finish_call", "finish_sleep"}
    /\ server' = "lost"
    /\ UNCHANGED <<runBufferVars, pc, batch, flags, sleepVars, procVars, request, ctxDone, link,
                   received, full, cancelReq, accepted, cutOff>>

CloseRun ==
    /\ server \in {"running", "lost"}
    /\ server' = "closed"
    /\ UNCHANGED <<runBufferVars, pc, batch, flags, sleepVars, procVars, request, ctxDone, link,
                   received, full, cancelReq, accepted, cutOff>>

UserCancels ==
    /\ cancelReq' = TRUE
    /\ UNCHANGED <<runBufferVars, pc, batch, flags, sleepVars, procVars, request, ctxDone, link,
                   server, received, full, accepted, cutOff>>

OutputLimitReached ==
    /\ full' = TRUE
    /\ UNCHANGED <<runBufferVars, pc, batch, flags, sleepVars, procVars, request, ctxDone, link,
                   server, received, cancelReq, accepted, cutOff>>

----------------------------------------------------------------------------
(* Calls.  A call is answered, refused because the Run is not running, or  *)
(* rejected for good; while the link is down it fails, and the Server may  *)
(* have handled it nevertheless.  A done context fails every call.         *)

HandleOutput ==
    /\ server = "running"
    /\ received' = IF full THEN received ELSE received \cup batch
    /\ UNCHANGED <<server, full, cancelReq, accepted, cutOff>>

HandleHeartbeat ==
    /\ server \in {"running", "lost"}
    /\ server' = "running"
    /\ UNCHANGED <<received, full, cancelReq, accepted, cutOff>>

HandleFinish ==
    /\ server \in {"running", "lost"}
    /\ server' = "finished" /\ accepted' = request
    /\ UNCHANGED <<received, full, cancelReq, cutOff>>

Answered == link /\ ~ctxDone
\* The Server is reachable but refuses the request as such (401, 413, 422).
Rejected == link \/ ctxDone

\* CancelRequested in an answer.
CancelIfAsked == signalled' = (signalled \/ (cancelReq /\ ~exited))

\* accept.
Accept ==
    /\ AckUpTo(LastOf(batch))
    /\ serverTruncated' = (serverTruncated \/ full)
    /\ outputDone' = (outputDone \/ full)
    /\ CancelIfAsked
    /\ UNCHANGED <<waiting, disconnected, heartbeats, exited>>

\* retryLater.
RetryLater ==
    IF waiting THEN UNCHANGED <<waiting, sleeper, retryReady>>
    ELSE waiting' = TRUE /\ sleeper' = "sleeping" /\ UNCHANGED retryReady

----------------------------------------------------------------------------
(* supervise.                                                              *)

\* sendOutput, from a flush tick or after a backoff sleep, up to its request.
SendOutput_NoHeartbeatFirst(wait) ==
    IF outputDone \/ wait \/ NextBatch = {}
    THEN UNCHANGED <<pc, batch>>
    ELSE batch' = NextBatch /\ pc' = "flush_call"

SendOutput(wait) ==
    IF outputDone \/ wait \/ NextBatch = {}
    THEN UNCHANGED <<pc, batch>>
    ELSE /\ batch' = NextBatch
         /\ pc' = IF disconnected THEN "flush_heartbeat_call" ELSE "flush_call"

FlushTick ==
    /\ pc = "supervise" /\ ~outputDone /\ ~waiting /\ NextBatch # {}
    /\ SendOutput(waiting)
    /\ UNCHANGED <<runBufferVars, flags, sleepVars, procVars, request, ctxDone, link, serverVars>>

RetryReady_StaysWaiting ==
    /\ pc = "supervise" /\ retryReady = 1
    /\ retryReady' = 0 /\ UNCHANGED waiting
    /\ SendOutput(FALSE)
    /\ UNCHANGED <<runBufferVars, disconnected, outputDone, heartbeats, serverTruncated, sleeper,
                   procVars, request, ctxDone, link, serverVars>>

RetryReady ==
    /\ pc = "supervise" /\ retryReady = 1
    /\ retryReady' = 0 /\ waiting' = FALSE
    /\ SendOutput(FALSE)
    /\ UNCHANGED <<runBufferVars, disconnected, outputDone, heartbeats, serverTruncated, sleeper,
                   procVars, request, ctxDone, link, serverVars>>

HeartbeatTick_LeavesReconnectingToOutput ==
    /\ pc = "supervise" /\ heartbeats /\ ~disconnected
    /\ pc' = "heartbeat_call"
    /\ UNCHANGED <<runBufferVars, batch, flags, sleepVars, procVars, request, ctxDone, link, serverVars>>

HeartbeatTick ==
    /\ pc = "supervise" /\ heartbeats
    /\ pc' = "heartbeat_call"
    /\ UNCHANGED <<runBufferVars, batch, flags, sleepVars, procVars, request, ctxDone, link, serverVars>>

\* heartbeat, wherever it is called from, by its answer.
HeartbeatOk ==
    /\ Answered /\ HandleHeartbeat
    /\ disconnected' = FALSE
    /\ CancelIfAsked
    /\ UNCHANGED <<waiting, outputDone, heartbeats, serverTruncated, exited>>

HeartbeatClosed_WantsOutput ==
    /\ Answered /\ server \in {"closed", "finished"}
    /\ heartbeats' = FALSE
    /\ UNCHANGED <<waiting, disconnected, outputDone, serverTruncated, procVars, serverVars>>

HeartbeatClosed ==
    /\ Answered /\ server \in {"closed", "finished"}
    /\ heartbeats' = FALSE /\ outputDone' = TRUE
    /\ UNCHANGED <<waiting, disconnected, serverTruncated, procVars, serverVars>>

HeartbeatFails ==
    /\ ~link /\ ~ctxDone
    /\ disconnected' = TRUE
    /\ HandleHeartbeat \/ UNCHANGED serverVars
    /\ UNCHANGED <<outputDone, heartbeats, serverTruncated, procVars>>

HeartbeatRejected == Rejected /\ UNCHANGED <<flags, procVars, serverVars>>

Heartbeat ==
    /\ pc = "heartbeat_call"
    /\ HeartbeatOk \/ HeartbeatClosed \/ (HeartbeatFails /\ UNCHANGED waiting) \/ HeartbeatRejected
    /\ pc' = "supervise"
    /\ UNCHANGED <<runBufferVars, batch, sleepVars, request, ctxDone, link>>

\* The heartbeat that has to succeed before output is replayed.
FlushHeartbeat ==
    /\ pc = "flush_heartbeat_call"
    /\ \/ HeartbeatOk /\ pc' = "flush_call" /\ UNCHANGED sleepVars
       \/ (HeartbeatClosed \/ HeartbeatRejected) /\ pc' = "supervise" /\ UNCHANGED sleepVars
       \/ HeartbeatFails /\ RetryLater /\ pc' = "supervise"
    /\ UNCHANGED <<runBufferVars, batch, request, ctxDone, link>>

\* AppendOutput, by its answer: accept or outputFailed.
OutputOk == Answered /\ HandleOutput /\ Accept

OutputRefused ==
    /\ Answered /\ server # "running"
    /\ outputDone' = TRUE
    /\ cutOff' = (cutOff \/ server = "lost")
    /\ UNCHANGED <<runBufferVars, waiting, disconnected, heartbeats, serverTruncated, procVars,
                   server, received, full, cancelReq, accepted>>

OutputFails ==
    /\ ~link /\ ~ctxDone
    /\ disconnected' = TRUE
    /\ HandleOutput \/ UNCHANGED serverVars
    /\ UNCHANGED <<runBufferVars, outputDone, heartbeats, serverTruncated, procVars>>

OutputRejected ==
    /\ Rejected
    /\ outputDone' = TRUE
    /\ UNCHANGED <<runBufferVars, waiting, disconnected, heartbeats, serverTruncated, procVars, serverVars>>

Flush ==
    /\ pc = "flush_call"
    /\ \/ (OutputOk \/ OutputRefused \/ OutputRejected) /\ UNCHANGED sleepVars
       \/ OutputFails /\ RetryLater
    /\ pc' = "supervise"
    /\ UNCHANGED <<batch, request, ctxDone, link>>

\* The exit is noticed; Chunker.Close flushes what is pending.
ExitNoticed ==
    /\ pc = "supervise" /\ exited
    /\ (last < MaxSeq /\ (Keep \/ Lose)) \/ UNCHANGED runBufferVars
    /\ pc' = "drain"
    /\ UNCHANGED <<batch, flags, sleepVars, procVars, request, ctxDone, link, serverVars>>

----------------------------------------------------------------------------
(* drain: client.Retry around one batch after the other.                   *)

Outgoing == IF disconnected THEN "drain_heartbeat_call" ELSE "drain_call"

DrainNext ==
    /\ pc = "drain" /\ ~outputDone /\ NextBatch # {}
    /\ batch' = NextBatch
    /\ pc' = Outgoing
    /\ UNCHANGED <<runBufferVars, flags, sleepVars, procVars, request, ctxDone, link, serverVars>>

\* Every way out of a turn of the loop ends here when the context is done.
Turn_IgnoresContext == pc' = "drain"
Turn == pc' = IF ctxDone THEN "drained" ELSE "drain"

DrainHeartbeat ==
    /\ pc = "drain_heartbeat_call"
    /\ \/ HeartbeatOk /\ pc' = "drain_call"
       \/ HeartbeatClosed /\ Turn
       \/ HeartbeatFails /\ pc' = "drain_sleep" /\ UNCHANGED waiting
       \/ /\ Rejected /\ Turn
          /\ outputDone' = (outputDone \/ ~ctxDone)
          /\ UNCHANGED <<waiting, disconnected, heartbeats, serverTruncated, procVars, serverVars>>
    /\ UNCHANGED <<runBufferVars, batch, sleepVars, request, ctxDone, link>>

DrainCall ==
    /\ pc = "drain_call"
    /\ \/ (OutputOk \/ OutputRefused) /\ Turn
       \/ OutputFails /\ pc' = "drain_sleep" /\ UNCHANGED waiting
       \/ /\ Rejected /\ Turn
          /\ outputDone' = (outputDone \/ ~ctxDone)
          /\ UNCHANGED <<runBufferVars, waiting, disconnected, heartbeats, serverTruncated, procVars, serverVars>>
    /\ UNCHANGED <<batch, sleepVars, request, ctxDone, link>>

\* The backoff sleep ends, early if the context is done.
DrainSleep ==
    /\ pc = "drain_sleep"
    /\ pc' = IF ctxDone THEN "drained" ELSE Outgoing
    /\ UNCHANGED <<runBufferVars, batch, flags, sleepVars, procVars, request, ctxDone, link, serverVars>>

----------------------------------------------------------------------------
(* finish.                                                                 *)

TruncatedFlag_ServerOnly == serverTruncated
TruncatedFlag == serverTruncated \/ truncated

\* finishRequest, once the output is drained, refused or given up.
ComputeRequest ==
    /\ \/ pc = "drain" /\ (outputDone \/ NextBatch = {})
       \/ pc = "drained"
    /\ request' = [last |-> last, truncated |-> TruncatedFlag]
    /\ pc' = "finish_call"
    /\ UNCHANGED <<runBufferVars, batch, flags, sleepVars, procVars, ctxDone, link, serverVars>>

FinishCall ==
    /\ pc = "finish_call"
    /\ \/ Answered /\ (HandleFinish \/ (server \in {"closed", "finished"} /\ UNCHANGED serverVars)) /\ pc' = "mark"
       \/ ~link /\ ~ctxDone /\ (HandleFinish \/ UNCHANGED serverVars) /\ pc' = "finish_sleep"
       \/ Rejected /\ UNCHANGED serverVars /\ pc' = "mark"
    /\ UNCHANGED <<runBufferVars, batch, flags, sleepVars, procVars, request, ctxDone, link>>

FinishSleep ==
    /\ pc = "finish_sleep"
    /\ pc' = IF ctxDone THEN "mark" ELSE "finish_call"
    /\ UNCHANGED <<runBufferVars, batch, flags, sleepVars, procVars, request, ctxDone, link, serverVars>>

\* MarkFinished, then Forget.
Release ==
    /\ pc = "mark"
    /\ Forget
    /\ pc' = "released"
    /\ UNCHANGED <<batch, flags, sleepVars, procVars, request, ctxDone, link, serverVars>>

----------------------------------------------------------------------------
Init ==
    /\ EmptyRunBuffer
    /\ pc = "supervise" /\ batch = {}
    /\ waiting = FALSE /\ disconnected = FALSE /\ outputDone = FALSE
    /\ heartbeats = TRUE /\ serverTruncated = FALSE
    /\ sleeper = "none" /\ retryReady = 0
    /\ exited = FALSE /\ signalled = FALSE
    /\ request = None /\ ctxDone = FALSE /\ link = TRUE
    /\ server = "running" /\ received = {} /\ full = FALSE /\ cancelReq = FALSE
    /\ accepted = None /\ cutOff = FALSE

Supervise ==
    FlushTick \/ RetryReady \/ HeartbeatTick \/ Heartbeat \/ FlushHeartbeat \/ Flush \/ ExitNoticed

Drain == DrainNext \/ DrainHeartbeat \/ DrainCall \/ DrainSleep

Deliver == Supervise \/ Drain \/ ComputeRequest \/ FinishCall \/ FinishSleep \/ Release

Environment ==
    \/ Write \/ TakenByOthers \/ ProcessExits \/ LinkChanges \/ StopReporting
    \/ MarkLost \/ CloseRun \/ UserCancels \/ OutputLimitReached

Next == Deliver \/ SleeperWakes \/ Environment

Spec == Init /\ [][Next]_vars

\* The goroutine runs, its ticks and its exit are not starved by one another
\* (select picks at random), and sleeps end.  A reachable Server does not
\* reject heartbeats out of hand for ever (401).  Nothing is assumed of the
\* link: the properties that need it say so.
Fairness ==
    /\ WF_vars(Deliver) /\ WF_vars(SleeperWakes)
    /\ SF_vars(ExitNoticed) /\ SF_vars(HeartbeatTick)
    /\ SF_vars(Heartbeat /\ (HeartbeatOk \/ HeartbeatClosed))

FairSpec == Spec /\ Fairness

----------------------------------------------------------------------------
(* Properties.                                                             *)

\* Types of the variables.
TypeOK ==
    /\ first \in Nat /\ last \in Nat /\ truncated \in BOOLEAN
    /\ pc \in {"supervise", "flush_heartbeat_call", "flush_call", "heartbeat_call", "drain",
               "drain_heartbeat_call", "drain_call", "drain_sleep", "drained",
               "finish_call", "finish_sleep", "mark", "released"}
    /\ batch \subseteq 1..MaxSeq
    /\ {waiting, disconnected, outputDone, heartbeats, serverTruncated} \subseteq BOOLEAN
    /\ sleeper \in {"none", "sleeping"} /\ retryReady \in {0, 1}
    /\ {exited, signalled, ctxDone, link, full, cancelReq, cutOff} \subseteq BOOLEAN
    /\ {request, accepted} \subseteq [last : 0..MaxSeq, truncated : BOOLEAN] \cup {None}
    /\ server \in {"running", "lost", "closed", "finished"} /\ received \subseteq 1..MaxSeq

\* The outcome does not overtake the output, nor hide that some is missing
\* (drain, finishRequest): once the Server has accepted a finish that says the
\* output is complete, it has every chunk, unless it refused some itself.
FinishTellsTruth ==
    accepted # None /\ ~accepted.truncated /\ ~outputDone => 1..accepted.last \subseteq received

\* Output of a Run the Server has marked lost is preceded by a heartbeat that
\* revives it, in supervise and in drain, after every kind of failed call: no
\* Run is cut off from its output by a lost connection (sendOutput, drain).
NeverCutOff == ~cutOff

\* waiting is never left standing: while it stops the flushes there is exactly
\* one sleep, or its message in the channel, to clear it (retryLater).
WaitingHasSleeper ==
    /\ Supervising => (waiting <=> sleeper = "sleeping" \/ retryReady = 1)
    /\ ~(sleeper = "sleeping" /\ retryReady = 1)

\* The Server stores chunks in order: retries, replays after a reconnection
\* and chunks dropped while a batch is in flight never make it store a chunk
\* older than one it has (NextBatch, AckUpTo).
StoredInOrder == [][\A n \in received' \ received : \A m \in received : n > m]_vars

\* A Run that is over is released, however often calls failed before, if the
\* Server can be reached from some moment on.
ReleasedOnceReachable == <>[]link => (exited ~> pc = "released")

\* Even if it never can be, the end of the stop budget releases it.
ReleasedOnStop == exited /\ ctxDone ~> pc = "released"

\* A cancellation stops the process though the Run has no output and calls
\* failed before, unless the Server disowned the Run or the Agent is stopping.
CancelArrives ==
    <>[]link => (cancelReq ~> signalled \/ exited \/ ~heartbeats \/ ctxDone)
============================================================================
