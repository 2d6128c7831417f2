---------------------------- MODULE OutputBuffer ----------------------------
(***************************************************************************)
(* The output the Server has not acknowledged, per Run, under one cap for  *)
(* all (internal/output/buffer.go), as the chunkers fill it and the        *)
(* reporters empty it.                                                     *)
(*                                                                         *)
(* Add holds the buffer's mutex while it makes room: adding is the chunk   *)
(* it was called with, MakeRoom one turn of its loop, and no other         *)
(* operation runs before it ends.  A reporter sends a batch without the    *)
(* mutex: what it sent may be dropped before the answer arrives (sent).    *)
(*                                                                         *)
(* An operator X_What is X with a plausible bug: the specification never   *)
(* uses it, the properties are known to fail when it replaces X.           *)
(***************************************************************************)
EXTENDS Integers, Sequences, FiniteSets, FiniteSetsExt

CONSTANTS
    Run,
    GlobalCap,      \* bytes
    BatchBytes, BatchChunks,
    ChunkSize,      \* the sizes chunks come in
    MaxSeq,         \* bound: chunks a Run makes
    None

ASSUME OutputBufferAssumption ==
    /\ IsFiniteSet(Run)
    /\ GlobalCap \in Nat \ {0} /\ BatchBytes \in Nat \ {0} /\ BatchChunks \in Nat \ {0}
    /\ ChunkSize \subseteq Nat \ {0}
    /\ MaxSeq \in Nat
    /\ None \notin [run : Run, seq : Nat, bytes : Nat]

VARIABLES
    chunks,     \* runOutput.chunks of each Run
    bytes,      \* runOutput.bytes
    truncated,  \* runOutput.truncated
    size,       \* Buffer.size
    adding,     \* the chunk Add was called with, while it holds the mutex
    seq,        \* Chunker.seq: the last chunk each Run made
    sent,       \* the last chunk of the batch each reporter has in flight
    acked,      \* history: the last chunk the Server acknowledged
    closed      \* Runs whose output was forgotten; their chunker is closed

bufferVars == <<chunks, bytes, truncated, size>>
vars == <<bufferVars, adding, seq, sent, acked, closed>>

Chunk == [seq : Nat, bytes : ChunkSize]

Empty(r) == chunks[r] = <<>>

----------------------------------------------------------------------------
(* The helpers of buffer.go.                                               *)

\* largestRun: map order decides between Runs that hold the same.
Largest_Any == {r \in Run : ~Empty(r)}
Largest == {r \in Run : ~Empty(r) /\ \A q \in Run : ~Empty(q) => bytes[q] <= bytes[r]}

DropOldest(r) ==
    /\ chunks' = [chunks EXCEPT ![r] = Tail(@)]
    /\ bytes' = [bytes EXCEPT ![r] = @ - Head(chunks[r]).bytes]
    /\ size' = size - Head(chunks[r]).bytes

TotalBytes(cs) == MapThenSumSet(LAMBDA i : cs[i].bytes, DOMAIN cs)

\* A batch of the first k chunks: in number, contiguous, and in bytes unless
\* it is a single chunk.
FitsBatch(cs, k) ==
    /\ k <= BatchChunks
    /\ \A i \in 2..k : cs[i].seq = cs[i-1].seq + 1
    /\ k > 1 => TotalBytes(SubSeq(cs, 1, k)) <= BatchBytes

NextBatch(r) ==
    SubSeq(chunks[r], 1, Max({0} \cup {k \in DOMAIN chunks[r] : FitsBatch(chunks[r], k)}))

----------------------------------------------------------------------------
(* Add, called by flushLocked with the chunker's next chunk.               *)

Free == adding = None

BeginAdd(r, n) ==
    /\ Free /\ r \notin closed /\ seq[r] < MaxSeq
    /\ seq' = [seq EXCEPT ![r] = @ + 1]
    /\ adding' = [run |-> r, seq |-> seq[r] + 1, bytes |-> n]
    /\ UNCHANGED <<bufferVars, sent, acked, closed>>

Overflows_AtCap == size >= GlobalCap
Overflows == size + adding.bytes > GlobalCap

\* The loop: the oldest chunk of the Run that holds most makes room.
MakeRoom(r) ==
    /\ ~Free /\ Overflows /\ r \in Largest
    /\ DropOldest(r)
    /\ truncated' = [truncated EXCEPT ![r] = TRUE]
    /\ UNCHANGED <<adding, seq, sent, acked, closed>>

\* No Run has a chunk to give up: the chunk is larger than the cap itself, and
\* is refused.
Refuse_Silently ==
    /\ ~Free /\ Overflows /\ \A r \in Run : Empty(r)
    /\ adding' = None
    /\ UNCHANGED <<bufferVars, seq, sent, acked, closed>>

Refuse ==
    /\ ~Free /\ Overflows /\ \A r \in Run : Empty(r)
    /\ truncated' = [truncated EXCEPT ![adding.run] = TRUE]
    /\ adding' = None
    /\ UNCHANGED <<chunks, bytes, size, seq, sent, acked, closed>>

Keep_WholeRecord ==
    /\ ~Free /\ ~Overflows
    /\ chunks' = [chunks EXCEPT ![adding.run] = Append(@, adding)]
    /\ bytes' = [bytes EXCEPT ![adding.run] = @ + adding.bytes]
    /\ size' = size + adding.bytes
    /\ adding' = None
    /\ UNCHANGED <<truncated, seq, sent, acked, closed>>

Keep ==
    /\ ~Free /\ ~Overflows
    /\ chunks' = [chunks EXCEPT ![adding.run] = Append(@, [seq |-> adding.seq, bytes |-> adding.bytes])]
    /\ bytes' = [bytes EXCEPT ![adding.run] = @ + adding.bytes]
    /\ size' = size + adding.bytes
    /\ adding' = None
    /\ UNCHANGED <<truncated, seq, sent, acked, closed>>

----------------------------------------------------------------------------
(* The reporter of a Run: send a batch, take the answer, forget the Run.   *)

Send(r) ==
    /\ Free /\ sent[r] = 0 /\ NextBatch(r) # <<>>
    /\ sent' = [sent EXCEPT ![r] = NextBatch(r)[Len(NextBatch(r))].seq]
    /\ UNCHANGED <<bufferVars, adding, seq, acked, closed>>

SendFails(r) ==
    /\ sent[r] # 0
    /\ sent' = [sent EXCEPT ![r] = 0]
    /\ UNCHANGED <<bufferVars, adding, seq, acked, closed>>

Covered_OffByOne(r, n) ==
    Max({0} \cup {k \in DOMAIN chunks[r] : \A i \in 1..k : chunks[r][i].seq <= n + 1})

\* AckUpTo: how many of the oldest chunks the answer covers.
Covered(r, n) ==
    Max({0} \cup {k \in DOMAIN chunks[r] : \A i \in 1..k : chunks[r][i].seq <= n})

AckUpTo(r) ==
    /\ Free /\ sent[r] # 0
    /\ LET k == Covered(r, sent[r])
           freed == TotalBytes(SubSeq(chunks[r], 1, k))
       IN  /\ chunks' = [chunks EXCEPT ![r] = SubSeq(@, k + 1, Len(@))]
           /\ bytes' = [bytes EXCEPT ![r] = @ - freed]
           /\ size' = size - freed
    /\ acked' = [acked EXCEPT ![r] = sent[r]]
    /\ sent' = [sent EXCEPT ![r] = 0]
    /\ UNCHANGED <<truncated, adding, seq, closed>>

Forget_LeavesSize(r) ==
    /\ Free /\ r \notin closed /\ sent[r] = 0
    /\ chunks' = [chunks EXCEPT ![r] = <<>>]
    /\ bytes' = [bytes EXCEPT ![r] = 0]
    /\ truncated' = [truncated EXCEPT ![r] = FALSE]
    /\ closed' = closed \cup {r}
    /\ UNCHANGED <<size, adding, seq, sent, acked>>

\* deliver forgets the Run when its chunker is closed and its finish sent.
Forget(r) ==
    /\ Free /\ r \notin closed /\ sent[r] = 0
    /\ chunks' = [chunks EXCEPT ![r] = <<>>]
    /\ bytes' = [bytes EXCEPT ![r] = 0]
    /\ size' = size - bytes[r]
    /\ truncated' = [truncated EXCEPT ![r] = FALSE]
    /\ closed' = closed \cup {r}
    /\ UNCHANGED <<adding, seq, sent, acked>>

----------------------------------------------------------------------------
Init ==
    /\ chunks = [r \in Run |-> <<>>] /\ bytes = [r \in Run |-> 0]
    /\ truncated = [r \in Run |-> FALSE] /\ size = 0
    /\ adding = None
    /\ seq = [r \in Run |-> 0] /\ sent = [r \in Run |-> 0] /\ acked = [r \in Run |-> 0]
    /\ closed = {}

Add == Refuse \/ Keep \/ \E r \in Run : MakeRoom(r) \/ \E n \in ChunkSize : BeginAdd(r, n)

Next == Add \/ \E r \in Run : Send(r) \/ SendFails(r) \/ AckUpTo(r) \/ Forget(r)

Spec == Init /\ [][Next]_vars

----------------------------------------------------------------------------
(* Properties.                                                             *)

\* Types of the variables.
TypeOK ==
    /\ chunks \in [Run -> Seq(Chunk)] /\ bytes \in [Run -> Int]
    /\ truncated \in [Run -> BOOLEAN] /\ size \in Int
    /\ adding \in [run : Run, seq : Nat, bytes : ChunkSize] \cup {None}
    /\ seq \in [Run -> Nat] /\ sent \in [Run -> Nat] /\ acked \in [Run -> Nat]
    /\ closed \subseteq Run

\* The memory in use never exceeds the cap, whatever sizes chunks come in
\* (Add), and the counters it is enforced with are the bytes that are really
\* held: none of the four operations that free chunks loses or repeats one.
WithinCap ==
    /\ size <= GlobalCap
    /\ \A r \in Run : bytes[r] = TotalBytes(chunks[r])
    /\ size = MapThenSumSet(LAMBDA r : bytes[r], Run)

\* Output is never lost in silence: a chunk the Server has not acknowledged is
\* held, or being added, or the Run is marked truncated (until forgotten).
LossIsFlagged ==
    \A r \in Run \ closed : \A n \in acked[r] + 1 .. seq[r] :
        \/ \E i \in DOMAIN chunks[r] : chunks[r][i].seq = n
        \/ ~Free /\ adding.run = r /\ adding.seq = n
        \/ truncated[r]

\* "One noisy Run cannot starve the others of memory" (Add): a Run that holds
\* no more than its share of what the new chunk leaves of the cap is not made
\* to give up a chunk.
QuietRunKeepsOutput ==
    [][\A r \in Run :
        Len(chunks'[r]) < Len(chunks[r]) /\ truncated'[r] /\ ~Free =>
            bytes[r] * Cardinality({q \in Run : ~Empty(q)}) > GlobalCap - adding.bytes]_vars

----------------------------------------------------------------------------
(* The interval of each Run, as RunBuffer has it.                          *)

Last(r) == IF ~Free /\ adding.run = r THEN seq[r] - 1 ELSE seq[r]
First(r) == Last(r) - Len(chunks[r]) + 1

OfRun(r) == INSTANCE RunBuffer WITH first <- First(r), last <- Last(r), truncated <- truncated[r]

\* What is held of a Run is an unbroken stretch that ends with its latest
\* chunk: drops for other Runs, acknowledgements of batches overtaken by
\* drops, and chunks refused for their size leave no gap, at which NextBatch
\* would have to stop.
Unbroken ==
    \A r \in Run : \A i \in DOMAIN chunks[r] : chunks[r][i].seq = First(r) + i - 1

\* The buffer of each Run is a RunBuffer, whatever the others do to it: what it
\* holds is that interval, and changes only as RunBuffer says.
ImplementsRunBuffer ==
    /\ []Unbroken
    /\ \A r \in Run : OfRun(r)!EmptyRunBuffer
    /\ [][\A r \in Run : OfRun(r)!RunBufferNext \/ UNCHANGED OfRun(r)!runBufferVars]_vars
============================================================================
