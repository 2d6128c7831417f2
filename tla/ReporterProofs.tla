--------------------------- MODULE ReporterProofs ---------------------------
(***************************************************************************)
(* What is proved of Reporter, for any number of chunks and any batch      *)
(* size: no Run is cut off from its output, its outcome does not hide that *)
(* some is missing, chunks are stored in order, and a Run that waits is    *)
(* woken.                                                                  *)
(*                                                                         *)
(* A Run the Server gave up as lost is one whose reporter knows that it is *)
(* disconnected, and a request with output is not sent by one that does    *)
(* (Connected).  What is in flight is an interval that begins at or before *)
(* what the buffer holds (InFlight), and until something is dropped,       *)
(* refused or cut short, the chunks before it are those the Server has     *)
(* (Complete).                                                             *)
(***************************************************************************)
EXTENDS Reporter, Integers, TLAPS

Request == [last : 0..MaxSeq, truncated : BOOLEAN]

Places ==
    /\ pc \in {"supervise", "flush_heartbeat_call", "flush_call", "heartbeat_call", "drain",
               "drain_heartbeat_call", "drain_call", "drain_sleep", "drained",
               "finish_call", "finish_sleep", "mark", "released"}
    /\ sleeper \in {"none", "sleeping"} /\ retryReady \in {0, 1}
    /\ server \in {"running", "lost", "closed", "finished"}

Flags ==
    /\ truncated \in BOOLEAN
    /\ waiting \in BOOLEAN /\ disconnected \in BOOLEAN /\ outputDone \in BOOLEAN
    /\ heartbeats \in BOOLEAN /\ serverTruncated \in BOOLEAN
    /\ exited \in BOOLEAN /\ signalled \in BOOLEAN /\ ctxDone \in BOOLEAN /\ link \in BOOLEAN
    /\ full \in BOOLEAN /\ cancelReq \in BOOLEAN /\ cutOff \in BOOLEAN

Types == Places /\ Flags

Requests == request \in Request \cup {None} /\ accepted \in Request \cup {None}

\* What is sent and stored is what was made, and the buffer is an interval.
Chunks ==
    /\ first \in 1..(last + 1) /\ last \in 0..MaxSeq
    /\ batch \subseteq 1..last /\ received \subseteq 1..last

Sending == pc \in {"flush_heartbeat_call", "flush_call", "drain_heartbeat_call", "drain_call", "drain_sleep"}

InFlight ==
    Sending => /\ \E h \in batch : \A m \in batch : m <= h
               /\ \A m \in batch : \A n \in first..m : n \in batch
               /\ \A m \in received : \A n \in batch : n <= m => n \in received

\* The Server has no gap in what the buffer still holds.
NoGap == \A m \in received : \A n \in first..m : n \in received

Connected ==
    /\ server = "lost" => disconnected \/ pc \in {"finish_call", "finish_sleep", "mark", "released"}
    /\ pc \in {"flush_call", "drain_call"} => ~disconnected
    /\ ~cutOff

Complete ==
    pc # "released" /\ ~truncated /\ ~serverTruncated =>
        /\ 1..(first - 1) \subseteq received
        /\ Sending => \A m \in batch : 1..m \subseteq received \cup batch

\* The request that will be sent, and the one that was accepted.
Honest ==
    /\ pc = "drained" => ctxDone
    /\ request # None /\ ~request.truncated /\ ~outputDone /\ ~ctxDone =>
        1..request.last \subseteq received
    /\ FinishTellsTruth

Inv == Types /\ Requests /\ Chunks /\ InFlight /\ NoGap /\ Connected /\ Complete /\ Honest /\ WaitingHasSleeper

LEMMA InvTypeOK == Types /\ Requests /\ Chunks => TypeOK
<1> SUFFICES ASSUME Types, Requests, Chunks PROVE TypeOK
  OBVIOUS
<1>1. MaxSeq \in Nat
  BY ReporterAssumption
<1>2. batch \subseteq 1..MaxSeq /\ received \subseteq 1..MaxSeq
  BY <1>1 DEF Chunks
<1>3. {request, accepted} \subseteq [last : 0..MaxSeq, truncated : BOOLEAN] \cup {None}
  BY DEF Requests, Request
<1>4. /\ {waiting, disconnected, outputDone, heartbeats, serverTruncated} \subseteq BOOLEAN
      /\ {exited, signalled, ctxDone, link, full, cancelReq, cutOff} \subseteq BOOLEAN
  BY DEF Types, Flags
<1>5. first \in Nat /\ last \in Nat
  BY <1>1 DEF Chunks
<1>6. QED
  BY <1>2, <1>3, <1>4, <1>5 DEF Types, Places, Flags, TypeOK

----------------------------------------------------------------------------
(* Batches.                                                                *)

\* A batch is an interval from the oldest chunk on.
LEMMA BatchIs ==
  ASSUME Chunks, NextBatch # {}
  PROVE  /\ NextBatch \subseteq first..last /\ first <= last
         /\ \E h \in NextBatch : \A m \in NextBatch : m <= h
         /\ \A m \in NextBatch : \A n \in first..m : n \in NextBatch
<1> DEFINE upTo == IF first + BatchChunks - 1 < last THEN first + BatchChunks - 1 ELSE last
<1>1. NextBatch = first..upTo
  BY DEF NextBatch
<1>2. first \in Nat /\ last \in Nat /\ BatchChunks \in Nat
  BY ReporterAssumption DEF Chunks
<1>3. upTo \in Int /\ upTo <= last /\ first <= upTo
  BY <1>1, <1>2
<1> HIDE DEF upTo
<1>4. QED
  BY <1>1, <1>2, <1>3

LEMMA NoBatch ==
  ASSUME Chunks, NextBatch = {}
  PROVE  first = last + 1
<1>1. first \in Nat /\ last \in Nat /\ BatchChunks \in Nat \ {0} /\ first <= last + 1
  BY ReporterAssumption DEF Chunks
<1>2. first \notin NextBatch
  OBVIOUS
<1>3. QED
  BY <1>1, <1>2 DEF NextBatch

\* The number an answer acknowledges is the last of what was sent.
LEMMA LastIs ==
  ASSUME Sending, InFlight, Chunks
  PROVE  /\ LastOf(batch) \in batch /\ \A m \in batch : m <= LastOf(batch)
         /\ LastOf(batch) \in 1..last
  BY DEF InFlight, LastOf, Chunks

LEMMA NextPlaces == Places /\ [Next]_vars => Places'
<1> SUFFICES ASSUME Places, [Next]_vars PROVE Places'
  OBVIOUS
<1> USE DEF Places, vars, runBufferVars, flags, sleepVars, procVars, serverVars
<1>1. CASE Write
  BY <1>1 DEF Write, Supervising, Keep, Lose
<1>2. CASE TakenByOthers
  BY <1>2 DEF TakenByOthers, DropOldest
<1>3. CASE ProcessExits
  BY <1>3 DEF ProcessExits
<1>4. CASE LinkChanges
  BY <1>4 DEF LinkChanges
<1>5. CASE StopReporting
  BY <1>5 DEF StopReporting
<1>6. CASE SleeperWakes
  BY <1>6 DEF SleeperWakes
<1>7. CASE MarkLost
  BY <1>7 DEF MarkLost
<1>8. CASE CloseRun
  BY <1>8 DEF CloseRun
<1>9. CASE UserCancels
  BY <1>9 DEF UserCancels
<1>10. CASE OutputLimitReached
  BY <1>10 DEF OutputLimitReached
<1>11. CASE FlushTick
  BY <1>11 DEF FlushTick, SendOutput
<1>12. CASE RetryReady
  BY <1>12 DEF RetryReady, SendOutput
<1>13. CASE HeartbeatTick
  BY <1>13 DEF HeartbeatTick
<1>14. CASE Heartbeat
  BY <1>14 DEF Heartbeat, HeartbeatOk, HeartbeatClosed, HeartbeatFails,
                HeartbeatRejected, HandleHeartbeat, Answered, Rejected,
                CancelIfAsked
<1>15. CASE FlushHeartbeat
  BY <1>15 DEF FlushHeartbeat, HeartbeatOk, HeartbeatClosed, HeartbeatFails,
                HeartbeatRejected, HandleHeartbeat, Answered, Rejected,
                CancelIfAsked, RetryLater
<1>16. CASE Flush
  BY <1>16 DEF Flush, OutputOk, OutputRefused, OutputFails, OutputRejected,
                HandleOutput, Accept, Answered, Rejected, CancelIfAsked,
                RetryLater
<1>17. CASE ExitNoticed
  BY <1>17 DEF ExitNoticed, Keep, Lose
<1>18. CASE DrainNext
  BY <1>18 DEF DrainNext, Outgoing
<1>19. CASE DrainHeartbeat
  BY <1>19 DEF DrainHeartbeat, HeartbeatOk, HeartbeatClosed, HeartbeatFails,
                HeartbeatRejected, HandleHeartbeat, Answered, Rejected,
                CancelIfAsked, Turn
<1>20. CASE DrainCall
  BY <1>20 DEF DrainCall, OutputOk, OutputRefused, OutputFails,
                OutputRejected, HandleOutput, Accept, Answered, Rejected,
                CancelIfAsked, Turn
<1>21. CASE DrainSleep
  BY <1>21 DEF DrainSleep, Outgoing
<1>22. CASE ComputeRequest
  BY <1>22 DEF ComputeRequest
<1>23. CASE FinishCall
  BY <1>23 DEF FinishCall, HandleFinish, Answered, Rejected
<1>24. CASE FinishSleep
  BY <1>24 DEF FinishSleep
<1>25. CASE Release
  BY <1>25 DEF Release, Forget
<1>26. CASE UNCHANGED vars
  BY <1>26
<1>27. QED
  BY <1>1, <1>2, <1>3, <1>4, <1>5, <1>6, <1>7, <1>8, <1>9, <1>10, <1>11,
     <1>12, <1>13, <1>14, <1>15, <1>16, <1>17, <1>18, <1>19, <1>20, <1>21,
     <1>22, <1>23, <1>24, <1>25, <1>26
     DEF Next, Deliver, Supervise, Drain, Environment

\* What a call may change of the flags, by its answer.
CallFlags ==
    /\ disconnected \in BOOLEAN /\ outputDone \in BOOLEAN
    /\ heartbeats \in BOOLEAN /\ serverTruncated \in BOOLEAN
    /\ exited \in BOOLEAN /\ signalled \in BOOLEAN
    /\ full \in BOOLEAN /\ cancelReq \in BOOLEAN /\ cutOff \in BOOLEAN

LEMMA CallTypes ==
  ASSUME Flags
  PROVE  /\ HeartbeatOk \/ HeartbeatClosed \/ HeartbeatFails \/ HeartbeatRejected
            \/ OutputOk \/ OutputRefused \/ OutputFails \/ OutputRejected
           => CallFlags'
         /\ HeartbeatOk \/ HeartbeatClosed \/ HeartbeatRejected \/ OutputOk \/ OutputRefused \/ OutputRejected
           => UNCHANGED waiting
         /\ OutputOk \/ OutputRefused \/ OutputFails \/ OutputRejected => UNCHANGED truncated
<1> USE DEF Flags, CallFlags, flags, procVars, serverVars, runBufferVars
<1>1. HeartbeatOk => CallFlags' /\ UNCHANGED waiting
  BY DEF HeartbeatOk, HandleHeartbeat, CancelIfAsked
<1>2. HeartbeatClosed => CallFlags' /\ UNCHANGED waiting
  BY DEF HeartbeatClosed
<1>3. HeartbeatFails => CallFlags'
  BY DEF HeartbeatFails, HandleHeartbeat
<1>4. HeartbeatRejected => CallFlags' /\ UNCHANGED waiting
  BY DEF HeartbeatRejected
<1>5. OutputOk => CallFlags' /\ UNCHANGED waiting /\ UNCHANGED truncated
  BY DEF OutputOk, HandleOutput, Accept, AckUpTo, CancelIfAsked
<1>6. OutputRefused => CallFlags' /\ UNCHANGED waiting /\ UNCHANGED truncated
  BY DEF OutputRefused
<1>7. OutputFails => CallFlags' /\ UNCHANGED truncated
  BY DEF OutputFails, HandleOutput
<1>8. OutputRejected => CallFlags' /\ UNCHANGED waiting /\ UNCHANGED truncated
  BY DEF OutputRejected
<1>9. QED
  BY <1>1, <1>2, <1>3, <1>4, <1>5, <1>6, <1>7, <1>8

LEMMA NextFlags == Flags /\ [Next]_vars => Flags'
<1> SUFFICES ASSUME Flags, [Next]_vars PROVE Flags'
  OBVIOUS
<1> USE DEF Flags, vars, runBufferVars, flags, sleepVars, procVars, serverVars
<1>1. CASE Write
  <2>1. truncated' \in BOOLEAN
    BY <1>1 DEF Write, Keep, Lose
  <2>2. UNCHANGED <<flags, procVars, ctxDone, link, serverVars>>
    BY <1>1 DEF Write
  <2>3. QED
    BY <2>1, <2>2
<1>2. CASE TakenByOthers
  BY <1>2 DEF TakenByOthers, DropOldest
<1>3. CASE ProcessExits
  BY <1>3 DEF ProcessExits
<1>4. CASE LinkChanges
  BY <1>4 DEF LinkChanges
<1>5. CASE StopReporting
  BY <1>5 DEF StopReporting
<1>6. CASE SleeperWakes
  BY <1>6 DEF SleeperWakes
<1>7. CASE MarkLost
  BY <1>7 DEF MarkLost
<1>8. CASE CloseRun
  BY <1>8 DEF CloseRun
<1>9. CASE UserCancels
  BY <1>9 DEF UserCancels
<1>10. CASE OutputLimitReached
  BY <1>10 DEF OutputLimitReached
<1>11. CASE FlushTick
  BY <1>11 DEF FlushTick, SendOutput
<1>12. CASE RetryReady
  BY <1>12 DEF RetryReady, SendOutput
<1>13. CASE HeartbeatTick
  BY <1>13 DEF HeartbeatTick
<1>14. CASE Heartbeat
  <2>1. CallFlags' /\ waiting' \in BOOLEAN
    BY <1>14, CallTypes DEF Heartbeat, RetryLater
  <2>2. UNCHANGED <<truncated, ctxDone, link>>
    BY <1>14, CallTypes DEF Heartbeat
  <2>3. QED
    BY <2>1, <2>2 DEF CallFlags
<1>15. CASE FlushHeartbeat
  <2>1. CallFlags' /\ waiting' \in BOOLEAN
    BY <1>15, CallTypes DEF FlushHeartbeat, RetryLater
  <2>2. UNCHANGED <<truncated, ctxDone, link>>
    BY <1>15, CallTypes DEF FlushHeartbeat
  <2>3. QED
    BY <2>1, <2>2 DEF CallFlags
<1>16. CASE Flush
  <2>1. CallFlags' /\ waiting' \in BOOLEAN
    BY <1>16, CallTypes DEF Flush, RetryLater
  <2>2. UNCHANGED <<truncated, ctxDone, link>>
    BY <1>16, CallTypes DEF Flush
  <2>3. QED
    BY <2>1, <2>2 DEF CallFlags
<1>17. CASE ExitNoticed
  BY <1>17 DEF ExitNoticed, Keep, Lose
<1>18. CASE DrainNext
  BY <1>18 DEF DrainNext, Outgoing
<1>19. CASE DrainHeartbeat
  <2>1. CASE HeartbeatOk \/ HeartbeatClosed \/ HeartbeatFails
    <3>1. CallFlags' /\ waiting' \in BOOLEAN
      BY <1>19, <2>1, CallTypes DEF DrainHeartbeat
    <3>2. UNCHANGED <<truncated, ctxDone, link>>
      BY <1>19, <2>1, CallTypes DEF DrainHeartbeat
    <3>3. QED
      BY <3>1, <3>2 DEF CallFlags
  <2>2. CASE /\ outputDone' = (outputDone \/ ~ctxDone)
             /\ UNCHANGED <<waiting, disconnected, heartbeats, serverTruncated, procVars, serverVars>>
    <3>1. UNCHANGED <<truncated, ctxDone, link>>
      BY <1>19, CallTypes, <2>2 DEF DrainHeartbeat
    <3>2. QED
      BY <2>2, <3>1
  <2>3. QED
    BY <1>19, <2>1, <2>2 DEF DrainHeartbeat
<1>20. CASE DrainCall
  <2>1. CASE OutputOk \/ OutputRefused \/ OutputFails
    <3>1. CallFlags' /\ waiting' \in BOOLEAN
      BY <1>20, <2>1, CallTypes DEF DrainCall
    <3>2. UNCHANGED <<truncated, ctxDone, link>>
      BY <1>20, <2>1, CallTypes DEF DrainCall
    <3>3. QED
      BY <3>1, <3>2 DEF CallFlags
  <2>2. CASE /\ outputDone' = (outputDone \/ ~ctxDone)
             /\ UNCHANGED <<waiting, disconnected, heartbeats, serverTruncated, procVars, serverVars>>
    <3>1. UNCHANGED <<truncated, ctxDone, link>>
      BY <1>20, CallTypes, <2>2 DEF DrainCall
    <3>2. QED
      BY <2>2, <3>1
  <2>3. QED
    BY <1>20, <2>1, <2>2 DEF DrainCall
<1>21. CASE DrainSleep
  BY <1>21 DEF DrainSleep, Outgoing
<1>22. CASE ComputeRequest
  BY <1>22 DEF ComputeRequest
<1>23. CASE FinishCall
  BY <1>23 DEF FinishCall, HandleFinish, Answered, Rejected
<1>24. CASE FinishSleep
  BY <1>24 DEF FinishSleep
<1>25. CASE Release
  BY <1>25 DEF Release, Forget
<1>26. CASE UNCHANGED vars
  BY <1>26
<1>27. QED
  BY <1>1, <1>2, <1>3, <1>4, <1>5, <1>6, <1>7, <1>8, <1>9, <1>10, <1>11,
     <1>12, <1>13, <1>14, <1>15, <1>16, <1>17, <1>18, <1>19, <1>20, <1>21,
     <1>22, <1>23, <1>24, <1>25, <1>26
     DEF Next, Deliver, Supervise, Drain, Environment

LEMMA NextConnected == Types /\ Connected /\ [Next]_vars => Connected'
<1> SUFFICES ASSUME Types, Connected, [Next]_vars PROVE Connected'
  OBVIOUS
<1> USE DEF Types, Flags, Connected, vars, runBufferVars, flags, sleepVars, procVars, serverVars
<1>1. CASE Write
  BY <1>1 DEF Write, Supervising, Keep, Lose
<1>2. CASE TakenByOthers
  BY <1>2 DEF TakenByOthers, DropOldest
<1>3. CASE ProcessExits
  BY <1>3 DEF ProcessExits
<1>4. CASE LinkChanges
  BY <1>4 DEF LinkChanges
<1>5. CASE StopReporting
  BY <1>5 DEF StopReporting
<1>6. CASE SleeperWakes
  BY <1>6 DEF SleeperWakes
<1>7. CASE MarkLost
  BY <1>7 DEF MarkLost
<1>8. CASE CloseRun
  BY <1>8 DEF CloseRun
<1>9. CASE UserCancels
  BY <1>9 DEF UserCancels
<1>10. CASE OutputLimitReached
  BY <1>10 DEF OutputLimitReached
<1>11. CASE FlushTick
  BY <1>11 DEF FlushTick, SendOutput
<1>12. CASE RetryReady
  BY <1>12 DEF RetryReady, SendOutput
<1>13. CASE HeartbeatTick
  BY <1>13 DEF HeartbeatTick
<1>14. CASE Heartbeat
  BY <1>14 DEF Heartbeat, HeartbeatOk, HeartbeatClosed, HeartbeatFails,
                HeartbeatRejected, HandleHeartbeat, Answered, Rejected,
                CancelIfAsked
<1>15. CASE FlushHeartbeat
  BY <1>15 DEF FlushHeartbeat, HeartbeatOk, HeartbeatClosed, HeartbeatFails,
                HeartbeatRejected, HandleHeartbeat, Answered, Rejected,
                CancelIfAsked, RetryLater
<1>16. CASE Flush
  BY <1>16 DEF Flush, OutputOk, OutputRefused, OutputFails, OutputRejected,
                HandleOutput, Accept, Answered, Rejected, CancelIfAsked,
                RetryLater
<1>17. CASE ExitNoticed
  BY <1>17 DEF ExitNoticed, Keep, Lose
<1>18. CASE DrainNext
  BY <1>18 DEF DrainNext, Outgoing
<1>19. CASE DrainHeartbeat
  BY <1>19 DEF DrainHeartbeat, HeartbeatOk, HeartbeatClosed, HeartbeatFails,
                HeartbeatRejected, HandleHeartbeat, Answered, Rejected,
                CancelIfAsked, Turn
<1>20. CASE DrainCall
  BY <1>20 DEF DrainCall, OutputOk, OutputRefused, OutputFails,
                OutputRejected, HandleOutput, Accept, Answered, Rejected,
                CancelIfAsked, Turn
<1>21. CASE DrainSleep
  BY <1>21 DEF DrainSleep, Outgoing
<1>22. CASE ComputeRequest
  BY <1>22 DEF ComputeRequest
<1>23. CASE FinishCall
  BY <1>23 DEF FinishCall, HandleFinish, Answered, Rejected
<1>24. CASE FinishSleep
  BY <1>24 DEF FinishSleep
<1>25. CASE Release
  BY <1>25 DEF Release, Forget
<1>26. CASE UNCHANGED vars
  BY <1>26
<1>27. QED
  BY <1>1, <1>2, <1>3, <1>4, <1>5, <1>6, <1>7, <1>8, <1>9, <1>10, <1>11,
     <1>12, <1>13, <1>14, <1>15, <1>16, <1>17, <1>18, <1>19, <1>20, <1>21,
     <1>22, <1>23, <1>24, <1>25, <1>26
     DEF Next, Deliver, Supervise, Drain, Environment

LEMMA NextWaiting == Types /\ WaitingHasSleeper /\ [Next]_vars => WaitingHasSleeper'
<1> SUFFICES ASSUME Types, WaitingHasSleeper, [Next]_vars PROVE WaitingHasSleeper'
  OBVIOUS
<1> USE DEF Types, WaitingHasSleeper, Supervising, vars, runBufferVars, flags, sleepVars, procVars, serverVars
<1>1. CASE Write
  BY <1>1 DEF Write, Supervising, Keep, Lose
<1>2. CASE TakenByOthers
  BY <1>2 DEF TakenByOthers, DropOldest
<1>3. CASE ProcessExits
  BY <1>3 DEF ProcessExits
<1>4. CASE LinkChanges
  BY <1>4 DEF LinkChanges
<1>5. CASE StopReporting
  BY <1>5 DEF StopReporting
<1>6. CASE SleeperWakes
  BY <1>6 DEF SleeperWakes
<1>7. CASE MarkLost
  BY <1>7 DEF MarkLost
<1>8. CASE CloseRun
  BY <1>8 DEF CloseRun
<1>9. CASE UserCancels
  BY <1>9 DEF UserCancels
<1>10. CASE OutputLimitReached
  BY <1>10 DEF OutputLimitReached
<1>11. CASE FlushTick
  BY <1>11 DEF FlushTick, SendOutput
<1>12. CASE RetryReady
  BY <1>12 DEF RetryReady, SendOutput
<1>13. CASE HeartbeatTick
  BY <1>13 DEF HeartbeatTick
<1>14. CASE Heartbeat
  BY <1>14 DEF Heartbeat, HeartbeatOk, HeartbeatClosed, HeartbeatFails,
                HeartbeatRejected, HandleHeartbeat, Answered, Rejected,
                CancelIfAsked
<1>15. CASE FlushHeartbeat
  BY <1>15 DEF FlushHeartbeat, HeartbeatOk, HeartbeatClosed, HeartbeatFails,
                HeartbeatRejected, HandleHeartbeat, Answered, Rejected,
                CancelIfAsked, RetryLater
<1>16. CASE Flush
  BY <1>16 DEF Flush, OutputOk, OutputRefused, OutputFails, OutputRejected,
                HandleOutput, Accept, Answered, Rejected, CancelIfAsked,
                RetryLater
<1>17. CASE ExitNoticed
  BY <1>17 DEF ExitNoticed, Keep, Lose
<1>18. CASE DrainNext
  BY <1>18 DEF DrainNext, Outgoing
<1>19. CASE DrainHeartbeat
  BY <1>19 DEF DrainHeartbeat, HeartbeatOk, HeartbeatClosed, HeartbeatFails,
                HeartbeatRejected, HandleHeartbeat, Answered, Rejected,
                CancelIfAsked, Turn
<1>20. CASE DrainCall
  BY <1>20 DEF DrainCall, OutputOk, OutputRefused, OutputFails,
                OutputRejected, HandleOutput, Accept, Answered, Rejected,
                CancelIfAsked, Turn
<1>21. CASE DrainSleep
  BY <1>21 DEF DrainSleep, Outgoing
<1>22. CASE ComputeRequest
  BY <1>22 DEF ComputeRequest
<1>23. CASE FinishCall
  BY <1>23 DEF FinishCall, HandleFinish, Answered, Rejected
<1>24. CASE FinishSleep
  BY <1>24 DEF FinishSleep
<1>25. CASE Release
  BY <1>25 DEF Release, Forget
<1>26. CASE UNCHANGED vars
  BY <1>26
<1>27. QED
  BY <1>1, <1>2, <1>3, <1>4, <1>5, <1>6, <1>7, <1>8, <1>9, <1>10, <1>11,
     <1>12, <1>13, <1>14, <1>15, <1>16, <1>17, <1>18, <1>19, <1>20, <1>21,
     <1>22, <1>23, <1>24, <1>25, <1>26
     DEF Next, Deliver, Supervise, Drain, Environment

----------------------------------------------------------------------------
(* What a step is for the chunks.                                          *)

\* The buffer moves on its own.
Moves ==
    /\ \/ last < MaxSeq /\ (Keep \/ Lose)
       \/ DropOldest
       \/ Forget /\ pc' = "released"
    /\ UNCHANGED <<batch, received, serverTruncated>>
    /\ Sending' => Sending

Batched == NextBatch # {} /\ batch' = NextBatch /\ UNCHANGED <<runBufferVars, received, serverTruncated>>

\* The Server has handled what was sent, or not; an answer says so.
Handled ==
    /\ Sending /\ UNCHANGED batch
    /\ received' = received \/ received' = received \cup batch
    /\ \/ UNCHANGED <<runBufferVars, serverTruncated>>
       \/ /\ AckUpTo(LastOf(batch)) /\ ~Sending'
          /\ serverTruncated => serverTruncated'
          /\ serverTruncated' \/ received' = received \cup batch

Idle == UNCHANGED <<runBufferVars, batch, received, serverTruncated>> /\ (Sending' => Sending)

Kinds == Moves \/ Batched \/ Handled \/ Idle

LEMMA StepKinds == [Next]_vars => Kinds
<1> SUFFICES ASSUME [Next]_vars PROVE Kinds
  OBVIOUS
<1> USE DEF Kinds, Sending, vars, runBufferVars, flags, sleepVars, procVars, serverVars
<1>1. CASE Write
  <2>1. UNCHANGED <<batch, received, serverTruncated>> /\ UNCHANGED pc
    BY <1>1 DEF Write
  <2>2. last < MaxSeq /\ (Keep \/ Lose)
    BY <1>1 DEF Write
  <2> HIDE DEF runBufferVars
  <2>3. QED
    BY <2>1, <2>2 DEF Moves
<1>2. CASE TakenByOthers
  <2>1. UNCHANGED <<batch, received, serverTruncated>> /\ UNCHANGED pc
    BY <1>2 DEF TakenByOthers
  <2>2. DropOldest
    BY <1>2 DEF TakenByOthers
  <2> HIDE DEF runBufferVars
  <2>3. QED
    BY <2>1, <2>2 DEF Moves
<1>3. CASE ProcessExits
  BY <1>3 DEF ProcessExits, Idle
<1>4. CASE LinkChanges
  BY <1>4 DEF LinkChanges, Idle
<1>5. CASE StopReporting
  BY <1>5 DEF StopReporting, Idle
<1>6. CASE SleeperWakes
  BY <1>6 DEF SleeperWakes, Idle
<1>7. CASE MarkLost
  BY <1>7 DEF MarkLost, Idle
<1>8. CASE CloseRun
  BY <1>8 DEF CloseRun, Idle
<1>9. CASE UserCancels
  BY <1>9 DEF UserCancels, Idle
<1>10. CASE OutputLimitReached
  BY <1>10 DEF OutputLimitReached, Idle
<1>11. CASE FlushTick
  BY <1>11 DEF FlushTick, SendOutput, Batched
<1>12. CASE RetryReady
  BY <1>12 DEF RetryReady, SendOutput, Batched, Idle
<1>13. CASE HeartbeatTick
  BY <1>13 DEF HeartbeatTick, Idle
<1>14. CASE Heartbeat
  BY <1>14 DEF Heartbeat, Idle, HeartbeatOk, HeartbeatClosed, HeartbeatFails,
     HeartbeatRejected, HandleHeartbeat, Answered, Rejected, CancelIfAsked
<1>15. CASE FlushHeartbeat
  BY <1>15 DEF FlushHeartbeat, Idle, HeartbeatOk, HeartbeatClosed,
     HeartbeatFails, HeartbeatRejected, HandleHeartbeat, Answered, Rejected,
     CancelIfAsked
<1>16. CASE Flush
  BY <1>16 DEF Flush, Handled, OutputOk, OutputRefused, OutputFails,
     OutputRejected, HandleOutput, Accept, Answered, Rejected, CancelIfAsked
<1>17. CASE ExitNoticed
  <2>1. UNCHANGED <<batch, received, serverTruncated>> /\ ~Sending'
    BY <1>17 DEF ExitNoticed
  <2>2. UNCHANGED runBufferVars \/ (last < MaxSeq /\ (Keep \/ Lose))
    BY <1>17 DEF ExitNoticed
  <2> HIDE DEF runBufferVars
  <2>3. QED
    BY <2>1, <2>2 DEF Moves, Idle
<1>18. CASE DrainNext
  BY <1>18 DEF DrainNext, Batched
<1>19. CASE DrainHeartbeat
  BY <1>19 DEF DrainHeartbeat, Idle, Turn, HeartbeatOk, HeartbeatClosed,
     HeartbeatFails, HeartbeatRejected, HandleHeartbeat, Answered, Rejected,
     CancelIfAsked
<1>20. CASE DrainCall
  BY <1>20 DEF DrainCall, Handled, Turn, OutputOk, OutputRefused, OutputFails,
     OutputRejected, HandleOutput, Accept, Answered, Rejected, CancelIfAsked
<1>21. CASE DrainSleep
  BY <1>21 DEF DrainSleep, Idle, Outgoing
<1>22. CASE ComputeRequest
  BY <1>22 DEF ComputeRequest, Idle
<1>23. CASE FinishCall
  BY <1>23 DEF FinishCall, Idle, HandleFinish
<1>24. CASE FinishSleep
  BY <1>24 DEF FinishSleep, Idle
<1>25. CASE Release
  BY <1>25 DEF Release, Moves
<1>26. CASE UNCHANGED vars
  BY <1>26 DEF Idle
<1>27. QED
  BY <1>1, <1>2, <1>3, <1>4, <1>5, <1>6, <1>7, <1>8, <1>9, <1>10, <1>11,
     <1>12, <1>13, <1>14, <1>15, <1>16, <1>17, <1>18, <1>19, <1>20, <1>21,
     <1>22, <1>23, <1>24, <1>25, <1>26
     DEF Next, Deliver, Supervise, Drain, Environment

LEMMA ReleasedForGood == [Next]_vars => (pc = "released" => pc' = "released")
  BY DEF Next, Deliver, Supervise, Drain, Environment, vars, Write, Supervising, TakenByOthers,
         ProcessExits, LinkChanges, StopReporting, SleeperWakes, MarkLost, CloseRun, UserCancels,
         OutputLimitReached, FlushTick, RetryReady, HeartbeatTick, Heartbeat, FlushHeartbeat,
         Flush, ExitNoticed, DrainNext, DrainHeartbeat, DrainCall, DrainSleep, ComputeRequest,
         FinishCall, FinishSleep, Release

\* A batch lies between the oldest and the newest chunk.
LEMMA Ranges ==
  ASSUME Chunks
  PROVE  /\ first \in Nat /\ last \in Nat /\ MaxSeq \in Nat /\ first >= 1 /\ first <= last + 1
         /\ last <= MaxSeq
         /\ \A n \in batch : n \in Nat /\ 1 <= n /\ n <= last
         /\ \A n \in received : n \in Nat /\ 1 <= n /\ n <= last
  BY ReporterAssumption DEF Chunks

LEMMA MovesOn ==
  ASSUME Chunks, (last < MaxSeq /\ (Keep \/ Lose)) \/ DropOldest \/ Forget
  PROVE  /\ first' \in 1..(last' + 1) /\ last' \in 0..MaxSeq /\ last <= last' /\ first <= first'
         /\ ~Forget /\ ~truncated' => first' = first /\ ~truncated
<1>1. first \in Nat /\ last \in Nat /\ MaxSeq \in Nat /\ first >= 1 /\ first <= last + 1 /\ last <= MaxSeq
  BY Ranges
<1>2. QED
  BY <1>1 DEF Keep, Lose, DropOldest, Forget

LEMMA Acknowledged ==
  ASSUME Chunks, InFlight, Sending, AckUpTo(LastOf(batch))
  PROVE  /\ first' \in 1..(last + 1) /\ last' = last /\ first <= first' /\ UNCHANGED truncated
         /\ first' = first \/ first' = LastOf(batch) + 1
<1>1. first \in Nat /\ last \in Nat /\ first >= 1 /\ first <= last + 1
  BY Ranges
<1>2. LastOf(batch) \in 1..last
  BY LastIs
<1>3. QED
  BY <1>1, <1>2 DEF AckUpTo

\* However a step moves the buffer, it moves it on.
LEMMA MovesForward ==
  ASSUME Chunks, InFlight, Kinds
  PROVE  /\ first' \in 1..(last' + 1) /\ last' \in 0..MaxSeq /\ last <= last' /\ first <= first'
         /\ batch' \subseteq 1..last
<1>1. /\ first \in Nat /\ last \in Nat /\ first >= 1 /\ first <= last + 1
      /\ first \in 1..(last + 1) /\ last \in 0..MaxSeq /\ batch \subseteq 1..last
  BY Ranges DEF Chunks
<1>2. CASE Moves
  BY <1>1, <1>2, MovesOn DEF Moves
<1>3. CASE Batched
  <2>1. NextBatch \subseteq 1..last
    BY <1>1, <1>3, BatchIs DEF Batched
  <2>2. QED
    BY <1>1, <1>3, <2>1 DEF Batched, runBufferVars
<1>4. CASE Handled
  BY <1>1, <1>4, Acknowledged DEF Handled, runBufferVars
<1>5. CASE Idle
  BY <1>1, <1>5 DEF Idle, runBufferVars
<1>6. QED
  BY <1>2, <1>3, <1>4, <1>5 DEF Kinds

LEMMA NextChunks == Chunks /\ InFlight /\ [Next]_vars => Chunks'
<1> SUFFICES ASSUME Chunks, InFlight, [Next]_vars PROVE Chunks'
  OBVIOUS
<1>1. Kinds
  BY StepKinds
<1>2. received' \subseteq received \cup batch
  BY <1>1 DEF Kinds, Moves, Batched, Handled, Idle
<1>3. last \in Nat /\ last' \in Nat /\ last <= last'
  BY <1>1, Ranges, MovesForward
<1>4. batch' \subseteq 1..last' /\ received' \subseteq 1..last'
  BY <1>1, <1>2, <1>3, MovesForward DEF Chunks
<1>5. QED
  BY <1>1, <1>4, MovesForward DEF Chunks

LEMMA NextInFlight == Chunks /\ InFlight /\ NoGap /\ [Next]_vars => InFlight' /\ NoGap'
<1> SUFFICES ASSUME Chunks, InFlight, NoGap, [Next]_vars PROVE InFlight' /\ NoGap'
  OBVIOUS
<1>1. first \in Nat /\ first' \in Nat /\ first <= first'
  BY Ranges, MovesForward, StepKinds
<1>2. \A m \in Nat : first'..m \subseteq first..m
  BY <1>1
<1>3. (\A m \in batch : m \in Nat) /\ (\A m \in received : m \in Nat)
  BY Ranges
<1>4. CASE UNCHANGED <<batch, received>> /\ (Sending' => Sending)
  BY <1>2, <1>3, <1>4 DEF InFlight, NoGap
<1>5. CASE Batched
  <2>1. NextBatch \subseteq first..last /\ first' = first
    BY <1>5, BatchIs DEF Batched, runBufferVars
  <2>2. \A m \in received : \A n \in NextBatch : n <= m => n \in received
    BY <1>1, <1>3, <2>1 DEF NoGap
  <2>3. QED
    BY <1>5, <2>1, <2>2, BatchIs DEF Batched, InFlight, NoGap
<1>6. CASE Handled
  <2>1. batch' = batch /\ Sending /\ received \subseteq received' /\ received' \subseteq received \cup batch
        /\ (received' = received \/ received' = received \cup batch)
    BY <1>6 DEF Handled
  <2>2. \A m \in batch : \A n \in first'..m : n \in batch
    BY <1>2, <1>3, <2>1 DEF InFlight
  <2>3. \A m \in received' : \A n \in first'..m : n \in received'
    BY <1>2, <1>3, <2>1, <2>2 DEF NoGap
  <2>4. \A m \in received' : \A n \in batch : n <= m => n \in received'
    BY <2>1 DEF InFlight
  <2>5. QED
    BY <2>1, <2>2, <2>3, <2>4 DEF InFlight, NoGap
<1>7. QED
  BY <1>4, <1>5, <1>6, StepKinds DEF Kinds, Moves, Idle

\* Chunks are stored in order: whatever was stored of a batch before, the rest
\* comes after it.
LEMMA StepStoresInOrder ==
  ASSUME Chunks, InFlight, [Next]_vars
  PROVE  \A n \in received' \ received : \A m \in received : n > m
<1>1. received' = received \/ (Sending /\ received' = received \cup batch)
  BY StepKinds DEF Kinds, Moves, Batched, Handled, Idle
<1>2. \A n \in received' \ received : n \in batch /\ Sending
  BY <1>1
<1>3. \A n \in batch : \A m \in received : n \in Nat /\ m \in Nat
  BY Ranges
<1>4. QED
  BY <1>2, <1>3 DEF InFlight

LEMMA NextComplete == Chunks /\ InFlight /\ Complete /\ [Next]_vars => Complete'
<1> SUFFICES ASSUME Chunks, InFlight, Complete, [Next]_vars,
                    pc' # "released", ~truncated', ~serverTruncated'
             PROVE  /\ 1..(first' - 1) \subseteq received'
                    /\ Sending' => \A m \in batch' : 1..m \subseteq received' \cup batch'
  BY DEF Complete
<1>0. pc # "released"
  BY ReleasedForGood
<1>1. first \in Nat /\ last \in Nat /\ first >= 1
  BY Ranges
<1>2. CASE Moves
  <2>1. ~Forget
    BY <1>1, <1>2 DEF Moves, Keep, Lose, DropOldest, Forget
  <2>2. first' = first /\ ~truncated /\ ~serverTruncated /\ UNCHANGED <<batch, received>>
    BY <1>2, <2>1, MovesOn DEF Moves
  <2>3. QED
    BY <1>0, <1>2, <2>2 DEF Moves, Complete
<1>3. CASE Batched
  <2>1. UNCHANGED <<first, received>> /\ ~truncated /\ ~serverTruncated /\ batch' = NextBatch
    BY <1>3 DEF Batched, runBufferVars
  <2>2. 1..(first - 1) \subseteq received
    BY <1>0, <2>1 DEF Complete
  <2>3. ASSUME NEW m \in NextBatch, NEW n \in 1..m PROVE n \in received \cup NextBatch
    <3>1. m \in first..last
      BY <1>3, BatchIs DEF Batched
    <3>2. n \in 1..(first - 1) \/ n \in first..m
      BY <1>1, <3>1
    <3>3. QED
      BY <1>3, <2>2, <3>2, BatchIs DEF Batched
  <2>4. QED
    BY <2>1, <2>2, <2>3
<1>4. CASE Handled
  <2>1. Sending /\ batch' = batch /\ received \subseteq received'
    BY <1>4 DEF Handled
  <2>2. ~truncated /\ ~serverTruncated
    BY <1>4, Acknowledged DEF Handled, runBufferVars
  <2>3. 1..(first - 1) \subseteq received /\ \A m \in batch : 1..m \subseteq received \cup batch
    BY <1>0, <2>1, <2>2 DEF Complete
  <2>4. CASE UNCHANGED runBufferVars
    BY <2>1, <2>3, <2>4 DEF runBufferVars
  <2>5. CASE AckUpTo(LastOf(batch)) /\ ~Sending' /\ received' = received \cup batch
    <3>1. first' = first \/ first' = LastOf(batch) + 1
      BY <2>1, <2>5, Acknowledged
    <3>2. LastOf(batch) \in batch /\ LastOf(batch) \in Nat
      BY <2>1, LastIs
    <3>3. QED
      BY <2>1, <2>3, <2>5, <3>1, <3>2
  <2>6. QED
    BY <1>4, <2>4, <2>5 DEF Handled
<1>5. CASE Idle
  BY <1>0, <1>5 DEF Idle, Complete, runBufferVars
<1>6. QED
  BY <1>2, <1>3, <1>4, <1>5, StepKinds DEF Kinds

----------------------------------------------------------------------------
(* The finish.                                                             *)

\* Who makes a request, and who takes it.
Finishes ==
    \/ UNCHANGED <<request, accepted>>
    \/ ComputeRequest
    \/ UNCHANGED <<request, outputDone, ctxDone>> /\ ~ctxDone /\ accepted' = request

Grows == (outputDone => outputDone') /\ (ctxDone => ctxDone')

LEMMA CallGrows ==
  /\ HeartbeatOk \/ HeartbeatClosed \/ HeartbeatFails \/ HeartbeatRejected => (outputDone => outputDone')
  /\ OutputOk \/ OutputRefused \/ OutputFails \/ OutputRejected => (outputDone => outputDone')
<1> USE DEF flags
<1>1. HeartbeatOk \/ HeartbeatClosed \/ HeartbeatFails \/ HeartbeatRejected => (outputDone => outputDone')
  BY DEF HeartbeatOk, HeartbeatClosed, HeartbeatFails, HeartbeatRejected
<1>2. OutputOk => (outputDone => outputDone')
  BY DEF OutputOk, Accept
<1>3. OutputRefused \/ OutputFails \/ OutputRejected => (outputDone => outputDone')
  BY DEF OutputRefused, OutputFails, OutputRejected
<1>4. QED
  BY <1>1, <1>2, <1>3

LEMMA StepGrows == [Next]_vars => Grows
<1> SUFFICES ASSUME [Next]_vars PROVE Grows
  OBVIOUS
<1> USE DEF Grows, vars, runBufferVars, flags, sleepVars, procVars, serverVars
<1>1. CASE Write
  BY <1>1 DEF Write
<1>2. CASE TakenByOthers
  BY <1>2 DEF TakenByOthers
<1>3. CASE ProcessExits
  BY <1>3 DEF ProcessExits
<1>4. CASE LinkChanges
  BY <1>4 DEF LinkChanges
<1>5. CASE StopReporting
  BY <1>5 DEF StopReporting
<1>6. CASE SleeperWakes
  BY <1>6 DEF SleeperWakes
<1>7. CASE MarkLost
  BY <1>7 DEF MarkLost
<1>8. CASE CloseRun
  BY <1>8 DEF CloseRun
<1>9. CASE UserCancels
  BY <1>9 DEF UserCancels
<1>10. CASE OutputLimitReached
  BY <1>10 DEF OutputLimitReached
<1>11. CASE FlushTick
  BY <1>11 DEF FlushTick, SendOutput
<1>12. CASE RetryReady
  BY <1>12 DEF RetryReady, SendOutput
<1>13. CASE HeartbeatTick
  BY <1>13 DEF HeartbeatTick
<1>14. CASE Heartbeat
  BY <1>14, CallGrows DEF Heartbeat
<1>15. CASE FlushHeartbeat
  BY <1>15, CallGrows DEF FlushHeartbeat
<1>16. CASE Flush
  BY <1>16, CallGrows DEF Flush
<1>17. CASE ExitNoticed
  BY <1>17 DEF ExitNoticed
<1>18. CASE DrainNext
  BY <1>18 DEF DrainNext, Outgoing
<1>19. CASE DrainHeartbeat
  BY <1>19, CallGrows DEF DrainHeartbeat
<1>20. CASE DrainCall
  BY <1>20, CallGrows DEF DrainCall
<1>21. CASE DrainSleep
  BY <1>21 DEF DrainSleep, Outgoing
<1>22. CASE ComputeRequest
  BY <1>22 DEF ComputeRequest
<1>23. CASE FinishCall
  BY <1>23 DEF FinishCall, HandleFinish, Answered, Rejected
<1>24. CASE FinishSleep
  BY <1>24 DEF FinishSleep
<1>25. CASE Release
  BY <1>25 DEF Release
<1>26. CASE UNCHANGED vars
  BY <1>26
<1>27. QED
  BY <1>1, <1>2, <1>3, <1>4, <1>5, <1>6, <1>7, <1>8, <1>9, <1>10, <1>11,
     <1>12, <1>13, <1>14, <1>15, <1>16, <1>17, <1>18, <1>19, <1>20, <1>21,
     <1>22, <1>23, <1>24, <1>25, <1>26
     DEF Next, Deliver, Supervise, Drain, Environment

LEMMA StepFinishes == [Next]_vars => Finishes
<1> SUFFICES ASSUME [Next]_vars PROVE Finishes
  OBVIOUS
<1> USE DEF Finishes, vars, runBufferVars, flags, sleepVars, procVars, serverVars
<1>1. CASE Write
  BY <1>1 DEF Write
<1>2. CASE TakenByOthers
  BY <1>2 DEF TakenByOthers
<1>3. CASE ProcessExits
  BY <1>3 DEF ProcessExits
<1>4. CASE LinkChanges
  BY <1>4 DEF LinkChanges
<1>5. CASE StopReporting
  BY <1>5 DEF StopReporting
<1>6. CASE SleeperWakes
  BY <1>6 DEF SleeperWakes
<1>7. CASE MarkLost
  BY <1>7 DEF MarkLost
<1>8. CASE CloseRun
  BY <1>8 DEF CloseRun
<1>9. CASE UserCancels
  BY <1>9 DEF UserCancels
<1>10. CASE OutputLimitReached
  BY <1>10 DEF OutputLimitReached
<1>11. CASE FlushTick
  BY <1>11 DEF FlushTick, SendOutput
<1>12. CASE RetryReady
  BY <1>12 DEF RetryReady, SendOutput
<1>13. CASE HeartbeatTick
  BY <1>13 DEF HeartbeatTick
<1>14. CASE Heartbeat
  BY <1>14 DEF Heartbeat, HeartbeatOk, HeartbeatClosed, HeartbeatFails,
     HeartbeatRejected, HandleHeartbeat, Answered, Rejected, CancelIfAsked
<1>15. CASE FlushHeartbeat
  BY <1>15 DEF FlushHeartbeat, HeartbeatOk, HeartbeatClosed, HeartbeatFails,
     HeartbeatRejected, HandleHeartbeat, Answered, Rejected, CancelIfAsked,
     RetryLater
<1>16. CASE Flush
  BY <1>16 DEF Flush, OutputOk, OutputRefused, OutputFails, OutputRejected,
     HandleOutput, Accept, Answered, Rejected, CancelIfAsked, RetryLater
<1>17. CASE ExitNoticed
  BY <1>17 DEF ExitNoticed
<1>18. CASE DrainNext
  BY <1>18 DEF DrainNext, Outgoing
<1>19. CASE DrainHeartbeat
  BY <1>19 DEF DrainHeartbeat, HeartbeatOk, HeartbeatClosed, HeartbeatFails,
     HeartbeatRejected, HandleHeartbeat, Answered, Rejected, CancelIfAsked,
     Turn
<1>20. CASE DrainCall
  BY <1>20 DEF DrainCall, OutputOk, OutputRefused, OutputFails,
     OutputRejected, HandleOutput, Accept, Answered, Rejected, CancelIfAsked,
     Turn
<1>21. CASE DrainSleep
  BY <1>21 DEF DrainSleep, Outgoing
<1>22. CASE ComputeRequest
  BY <1>22 DEF ComputeRequest
<1>23. CASE FinishCall
  BY <1>23 DEF FinishCall, HandleFinish, Answered, Rejected
<1>24. CASE FinishSleep
  BY <1>24 DEF FinishSleep
<1>25. CASE Release
  BY <1>25 DEF Release
<1>26. CASE UNCHANGED vars
  BY <1>26
<1>27. QED
  BY <1>1, <1>2, <1>3, <1>4, <1>5, <1>6, <1>7, <1>8, <1>9, <1>10, <1>11,
     <1>12, <1>13, <1>14, <1>15, <1>16, <1>17, <1>18, <1>19, <1>20, <1>21,
     <1>22, <1>23, <1>24, <1>25, <1>26
     DEF Next, Deliver, Supervise, Drain, Environment

LEMMA StoresMore == [Next]_vars => received \subseteq received'
  BY StepKinds DEF Kinds, Moves, Batched, Handled, Idle

\* What a request says is so when it is computed, and stays so.
LEMMA RequestMade ==
  ASSUME Flags, Chunks, Complete, Honest, ComputeRequest
  PROVE  /\ request' \in Request
         /\ ~request'.truncated /\ ~outputDone' /\ ~ctxDone' => 1..request'.last \subseteq received'
<1>1. request' = [last |-> last, truncated |-> TruncatedFlag]
  BY DEF ComputeRequest
<1>2. TruncatedFlag \in BOOLEAN /\ last \in 0..MaxSeq
  BY DEF TruncatedFlag, Flags, Chunks
<1>3. request' \in Request /\ request'.last = last /\ (~request'.truncated => ~TruncatedFlag)
  BY <1>1, <1>2 DEF Request
<1>4. UNCHANGED <<outputDone, ctxDone, received>>
  BY DEF ComputeRequest, flags, serverVars
<1>5. ASSUME ~TruncatedFlag, ~outputDone, ~ctxDone PROVE 1..last \subseteq received
  <2>1. pc = "drain" /\ NextBatch = {}
    BY <1>5 DEF ComputeRequest, Honest
  <2>2. first = last + 1
    BY <2>1, NoBatch
  <2>3. 1..(first - 1) \subseteq received
    BY <1>5, <2>1 DEF TruncatedFlag, Complete
  <2>4. last \in Nat
    BY Ranges
  <2>5. QED
    BY <2>2, <2>3, <2>4
<1>6. QED
  BY <1>3, <1>4, <1>5

LEMMA NextRequests ==
  ASSUME Flags, Chunks, Complete, Honest, Requests, [Next]_vars
  PROVE  Requests'
<1>1. CASE UNCHANGED <<request, accepted>> \/ (accepted' = request /\ UNCHANGED request)
  BY <1>1 DEF Requests
<1>2. CASE ComputeRequest
  <2>1. UNCHANGED accepted
    BY <1>2 DEF ComputeRequest, serverVars
  <2>2. QED
    BY <1>2, <2>1, RequestMade DEF Requests
<1>3. QED
  BY <1>1, <1>2, StepFinishes DEF Finishes

\* Giving the output up is for a context that is done.
Given == pc = "drained" => ctxDone

LEMMA StepGiven == [Next]_vars => (Given => Given')
<1> SUFFICES ASSUME [Next]_vars PROVE (Given => Given')
  OBVIOUS
<1> USE DEF Given, vars, runBufferVars, flags, sleepVars, procVars, serverVars
<1>1. CASE Write
  BY <1>1 DEF Write, Supervising
<1>2. CASE TakenByOthers
  BY <1>2 DEF TakenByOthers
<1>3. CASE ProcessExits
  BY <1>3 DEF ProcessExits
<1>4. CASE LinkChanges
  BY <1>4 DEF LinkChanges
<1>5. CASE StopReporting
  BY <1>5 DEF StopReporting
<1>6. CASE SleeperWakes
  BY <1>6 DEF SleeperWakes
<1>7. CASE MarkLost
  BY <1>7 DEF MarkLost
<1>8. CASE CloseRun
  BY <1>8 DEF CloseRun
<1>9. CASE UserCancels
  BY <1>9 DEF UserCancels
<1>10. CASE OutputLimitReached
  BY <1>10 DEF OutputLimitReached
<1>11. CASE FlushTick
  BY <1>11 DEF FlushTick, SendOutput
<1>12. CASE RetryReady
  BY <1>12 DEF RetryReady, SendOutput
<1>13. CASE HeartbeatTick
  BY <1>13 DEF HeartbeatTick
<1>14. CASE Heartbeat
  BY <1>14 DEF Heartbeat
<1>15. CASE FlushHeartbeat
  BY <1>15 DEF FlushHeartbeat
<1>16. CASE Flush
  BY <1>16 DEF Flush
<1>17. CASE ExitNoticed
  BY <1>17 DEF ExitNoticed
<1>18. CASE DrainNext
  BY <1>18 DEF DrainNext, Outgoing
<1>19. CASE DrainHeartbeat
  BY <1>19 DEF DrainHeartbeat, Turn
<1>20. CASE DrainCall
  BY <1>20 DEF DrainCall, Turn
<1>21. CASE DrainSleep
  BY <1>21 DEF DrainSleep, Outgoing
<1>22. CASE ComputeRequest
  BY <1>22 DEF ComputeRequest
<1>23. CASE FinishCall
  BY <1>23 DEF FinishCall
<1>24. CASE FinishSleep
  BY <1>24 DEF FinishSleep
<1>25. CASE Release
  BY <1>25 DEF Release
<1>26. CASE UNCHANGED vars
  BY <1>26
<1>27. QED
  BY <1>1, <1>2, <1>3, <1>4, <1>5, <1>6, <1>7, <1>8, <1>9, <1>10, <1>11,
     <1>12, <1>13, <1>14, <1>15, <1>16, <1>17, <1>18, <1>19, <1>20, <1>21,
     <1>22, <1>23, <1>24, <1>25, <1>26
     DEF Next, Deliver, Supervise, Drain, Environment

LEMMA NextHonest ==
  ASSUME Flags, Chunks, Complete, Honest, Requests, [Next]_vars
  PROVE  Honest'
<1>1. Given'
  BY StepGiven DEF Honest, Given
<1>2. (outputDone => outputDone') /\ (ctxDone => ctxDone') /\ received \subseteq received'
  BY StepGrows, StoresMore DEF Grows
<1>3. CASE UNCHANGED <<request, accepted>>
  BY <1>1, <1>2, <1>3 DEF Honest, Given, FinishTellsTruth
<1>4. CASE ComputeRequest
  <2>1. UNCHANGED <<accepted, outputDone, received>>
    BY <1>4 DEF ComputeRequest, flags, serverVars
  <2>2. FinishTellsTruth'
    BY <2>1 DEF Honest, FinishTellsTruth
  <2>3. QED
    BY <1>1, <1>4, <2>2, RequestMade DEF Honest, Given
<1>5. CASE UNCHANGED <<request, outputDone, ctxDone>> /\ ~ctxDone /\ accepted' = request
  BY <1>1, <1>2, <1>5 DEF Honest, Given, FinishTellsTruth
<1>6. QED
  BY <1>3, <1>4, <1>5, StepFinishes DEF Finishes

LEMMA InitInv == Init => Inv
<1> SUFFICES ASSUME Init PROVE Inv
  OBVIOUS
<1> USE DEF Init, EmptyRunBuffer
<1>1. Places /\ Flags /\ Requests /\ Connected
  BY DEF Places, Flags, Requests, Connected
<1>2. MaxSeq \in Nat
  BY ReporterAssumption
<1>3. Chunks
  BY <1>2 DEF Chunks
<1>4. ~Sending /\ received = {} /\ 1..(first - 1) = {}
  BY DEF Sending
<1>5. InFlight /\ NoGap /\ Complete
  BY <1>4 DEF InFlight, NoGap, Complete
<1>6. Honest /\ WaitingHasSleeper
  BY DEF Honest, FinishTellsTruth, WaitingHasSleeper
<1>7. QED
  BY <1>1, <1>3, <1>5, <1>6 DEF Inv, Types

LEMMA NextInv == Inv /\ [Next]_vars => Inv'
  BY NextPlaces, NextFlags, NextRequests, NextChunks, NextInFlight, NextConnected, NextComplete,
     NextHonest, NextWaiting
     DEF Inv, Types

----------------------------------------------------------------------------
\* Inv is an invariant, whatever the link, the Server, the process and the
\* other Runs do.
THEOREM Inductive == Spec => []Inv
  BY InitInv, NextInv, PTL DEF Spec

\* The variables have their types.
THEOREM TypeCorrect == Spec => []TypeOK
<1>1. Inv => TypeOK
  BY InvTypeOK DEF Inv
<1>2. QED
  BY Inductive, <1>1, PTL

\* An accepted finish that says the output is complete is no lie, unless the
\* output was refused (finishRequest, drain).
THEOREM TruthTold == Spec => []FinishTellsTruth
<1>1. Inv => FinishTellsTruth
  BY DEF Inv, Honest
<1>2. QED
  BY Inductive, <1>1, PTL

\* No Run is cut off from its output for having been disconnected (sendOutput,
\* drain).
THEOREM NotCutOff == Spec => []NeverCutOff
<1>1. Inv => NeverCutOff
  BY DEF Inv, Connected, NeverCutOff
<1>2. QED
  BY Inductive, <1>1, PTL

\* A Run that waits is woken by one sleep or its message (retryLater).
THEOREM SleeperWatches == Spec => []WaitingHasSleeper
<1>1. Inv => WaitingHasSleeper
  BY DEF Inv
<1>2. QED
  BY Inductive, <1>1, PTL

\* The Server stores the chunks in order (NextBatch, AckUpTo).
THEOREM OrderKept == Spec => StoredInOrder
<1>1. Inv /\ [Next]_vars => [\A n \in received' \ received : \A m \in received : n > m]_vars
  BY StepStoresInOrder DEF Inv
<1>2. QED
  BY Inductive, <1>1, PTL DEF Spec, StoredInOrder
=============================================================================
