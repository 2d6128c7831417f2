------------------------------ MODULE Chunker ------------------------------
(***************************************************************************)
(* The output of one process as numbered chunks (internal/output/          *)
(* chunker.go).  The goroutines that copy stdout and stderr write, a third *)
(* flushes on every tick, and the reporter closes; one mutex orders them.  *)
(* A byte is its place in what was written; Write is cut at the turns of   *)
(* its loop, so that a tick or Close can fall on it.                       *)
(*                                                                         *)
(* An operator X_What is X with a plausible bug: the specification never   *)
(* uses it, the properties are known to fail when it replaces X.           *)
(***************************************************************************)
EXTENDS Naturals, Sequences, SequencesExt, FiniteSetsExt

CONSTANTS
    ChunkBytes,
    MaxOutput,      \* 0: no cap
    MaxBytes,       \* bound: bytes the process writes
    None

Stream == {"stdout", "stderr"}

ASSUME ChunkerAssumption ==
    /\ ChunkBytes \in Nat \ {0} /\ MaxOutput \in Nat /\ MaxBytes \in Nat
    /\ None \notin Stream \cup {"writer", "closer"}

VARIABLES
    holder,         \* who has the mutex
    writing,        \* the Write in progress: its stream and what is left
    pending,        \* stream and data of the chunk being filled
    written, truncated, closed,
    chunks,         \* handed to receive, in order
    flusher,        \* where flushOnTicks is
    closer,         \* where Close is
    returned,       \* what Close returned
    input           \* history: the stream of each byte offered before closed

writeVars == <<writing, written, truncated, input>>
outVars == <<pending, chunks>>
closeVars == <<closer, closed, returned>>
chunkerVars == <<holder, writeVars, outVars, closeVars, flusher>>

Nothing == [stream |-> None, data |-> <<>>]

\* flushLocked: what receive has been given afterwards; c.seq is its length.
Flushed(p, given) ==
    IF p.data = <<>> THEN given
    ELSE Append(given, [seq |-> Len(given) + 1, stream |-> p.stream, data |-> p.data])

FlushLocked == chunks' = Flushed(pending, chunks) /\ pending' = Nothing

----------------------------------------------------------------------------
(* Write.                                                                  *)

Lock(who) == holder = None /\ holder' = who
Unlock == holder' = None

Refused_Never == FALSE
Refused == closed

BeginWrite(s, n) ==
    /\ Len(input) + n <= MaxBytes /\ ~Refused
    /\ Lock("writer")
    /\ input' = input \o [i \in 1..n |-> s]
    /\ writing' = [stream |-> s, data |-> [i \in 1..n |-> Len(input) + i]]
    /\ UNCHANGED <<written, truncated, outVars, closeVars, flusher>>

Remaining == MaxOutput - written
Capped == MaxOutput > 0

\* The cap is reached: the rest of the write is dropped.
WriteStops ==
    /\ holder = "writer" /\ writing.data # <<>>
    /\ Capped /\ written >= MaxOutput
    /\ truncated' = TRUE
    /\ writing' = Nothing /\ Unlock
    /\ UNCHANGED <<written, input, outVars, closeVars, flusher>>

\* What of the write is below the cap.
Allowed_OffByOne ==
    IF Capped /\ Len(writing.data) > Remaining + 1 THEN SubSeq(writing.data, 1, Remaining + 1) ELSE writing.data
Allowed == IF Capped /\ Len(writing.data) > Remaining THEN SubSeq(writing.data, 1, Remaining) ELSE writing.data

\* A chunk has one stream.
OtherStream_Ignored == FALSE
OtherStream == pending.data # <<>> /\ pending.stream # writing.stream

WriteTurn ==
    /\ holder = "writer" /\ writing.data # <<>>
    /\ ~(Capped /\ written >= MaxOutput)
    /\ LET given == IF OtherStream THEN Flushed(pending, chunks) ELSE chunks
           before == IF OtherStream \/ pending.data = <<>> THEN [stream |-> writing.stream, data |-> <<>>] ELSE pending
           n == Min({ChunkBytes - Len(before.data), Len(Allowed)})
           after == [before EXCEPT !.data = @ \o SubSeq(Allowed, 1, n)]
           full == Len(after.data) = ChunkBytes
       IN  /\ chunks' = IF full THEN Flushed(after, given) ELSE given
           /\ pending' = IF full THEN Nothing ELSE after
           /\ written' = written + n
           /\ writing' = [writing EXCEPT !.data = SubSeq(Allowed, n + 1, Len(Allowed))]
    /\ truncated' = (truncated \/ Allowed # writing.data)
    /\ UNCHANGED <<holder, input, closeVars, flusher>>

EndWrite ==
    /\ holder = "writer" /\ writing.data = <<>>
    /\ writing' = Nothing /\ Unlock
    /\ UNCHANGED <<written, truncated, input, outVars, closeVars, flusher>>

----------------------------------------------------------------------------
(* flushOnTicks: a tick and stop may both be ready, select takes either.   *)

Tick ==
    /\ flusher = "select"
    /\ flusher' = "tick"
    /\ UNCHANGED <<holder, writeVars, outVars, closeVars>>

FlushOnTick ==
    /\ flusher = "tick" /\ holder = None
    /\ FlushLocked
    /\ flusher' = "select"
    /\ UNCHANGED <<holder, writeVars, closeVars>>

FlusherStops ==
    /\ flusher = "select" /\ closer # "open"
    /\ flusher' = "done"
    /\ UNCHANGED <<holder, writeVars, outVars, closeVars>>

----------------------------------------------------------------------------
(* Close.                                                                  *)

BeginClose_Locked ==
    /\ closer = "open"
    /\ closer' = "stopping" /\ Lock("closer")
    /\ UNCHANGED <<writeVars, outVars, closed, returned, flusher>>

\* close(stop), before the mutex is taken.
BeginClose ==
    /\ closer = "open"
    /\ closer' = "stopping"
    /\ UNCHANGED <<holder, writeVars, outVars, closed, returned, flusher>>

FinalFlush ==
    /\ closer = "stopping" /\ flusher = "done" /\ holder \in {None, "closer"}
    /\ FlushLocked
    /\ closed' = TRUE
    /\ closer' = "flushed" /\ Unlock
    /\ UNCHANGED <<writeVars, returned, flusher>>

\* The mutex is taken afresh for what is returned.
CloseReturns ==
    /\ closer = "flushed" /\ holder = None
    /\ returned' = [lastSeq |-> Len(chunks), truncated |-> truncated]
    /\ closer' = "returned"
    /\ UNCHANGED <<holder, writeVars, outVars, closed, flusher>>

----------------------------------------------------------------------------
ChunkerInit ==
    /\ holder = None /\ writing = Nothing /\ pending = Nothing
    /\ written = 0 /\ truncated = FALSE /\ closed = FALSE
    /\ chunks = <<>> /\ input = <<>>
    /\ flusher = "select" /\ closer = "open" /\ returned = None

Write ==
    \/ \E s \in Stream, n \in 1..MaxBytes : BeginWrite(s, n)
    \/ WriteTurn \/ WriteStops \/ EndWrite

FlushOnTicks == Tick \/ FlushOnTick \/ FlusherStops
Close == BeginClose \/ FinalFlush \/ CloseReturns

ChunkerNext == Write \/ FlushOnTicks \/ Close

ChunkerSpec == ChunkerInit /\ [][ChunkerNext]_chunkerVars

\* A Write that has the mutex goes on, the ticker ticks and the mutex is
\* handed on, stop is taken sooner or later, a Close that has begun goes on.
FairChunkerSpec ==
    /\ ChunkerSpec
    /\ WF_chunkerVars(WriteTurn \/ WriteStops \/ EndWrite)
    /\ WF_chunkerVars(Tick) /\ SF_chunkerVars(FlushOnTick) /\ SF_chunkerVars(FlusherStops)
    /\ SF_chunkerVars(FinalFlush) /\ SF_chunkerVars(CloseReturns)

----------------------------------------------------------------------------
(* Properties.                                                             *)

Buffered == [stream : Stream \cup {None}, data : Seq(1..MaxBytes)]

\* Types of the variables; what is pending never fills a chunk.
ChunkerTypeOK ==
    /\ holder \in {None, "writer", "closer"}
    /\ writing \in Buffered /\ pending \in Buffered /\ Len(pending.data) < ChunkBytes
    /\ written \in 0..MaxBytes /\ (Capped => written <= MaxOutput)
    /\ truncated \in BOOLEAN /\ closed \in BOOLEAN
    /\ chunks \in Seq([seq : Nat, stream : Stream, data : Seq(1..MaxBytes)])
    /\ flusher \in {"select", "tick", "done"}
    /\ closer \in {"open", "stopping", "flushed", "returned"}
    /\ returned = None \/ returned \in [lastSeq : Nat, truncated : BOOLEAN]
    /\ input \in Seq(Stream)

Handed == FlattenSeq([i \in DOMAIN chunks |-> chunks[i].data])

\* The chunks and what is pending are the bytes written so far, each once and
\* in order, every one in a chunk of its own stream, at most ChunkBytes long
\* and numbered without a gap: wherever the limit, a change of stream or a tick
\* falls (Write, flushLocked).
OutputFaithful ==
    /\ Handed \o pending.data = [i \in 1..written |-> i]
    /\ \A i \in DOMAIN chunks :
        /\ chunks[i].seq = i /\ Len(chunks[i].data) \in 1..ChunkBytes
        /\ \A j \in DOMAIN chunks[i].data : input[chunks[i].data[j]] = chunks[i].stream

\* What Close returned stays true, though writes and ticks raced it: no later
\* chunk, nothing pending, truncated exactly if bytes offered before are
\* missing.  The finish is sent with it (deliver).
SealedByClose ==
    closer = "returned" =>
        /\ Len(chunks) = returned.lastSeq /\ pending.data = <<>>
        /\ returned.truncated <=> Len(Handed) < Len(input)

HandedOver(b) == \E i \in DOMAIN chunks : b \in {chunks[i].data[j] : j \in DOMAIN chunks[i].data}

\* A byte kept back for a fuller chunk is handed over in the end, by a tick or
\* by Close, and a Close comes back: nobody waits on the mutex or on the
\* flusher for ever.
NothingWaitsForEver ==
    /\ \A b \in 1..MaxBytes : b <= written ~> HandedOver(b)
    /\ closer = "stopping" ~> closer = "returned"
============================================================================
