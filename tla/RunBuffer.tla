----------------------------- MODULE RunBuffer -----------------------------
(***************************************************************************)
(* What the output buffer promises the reporter of one Run: an interval of *)
(* chunk numbers, first..last, that grows at its end, shrinks only at its  *)
(* beginning, and says so (truncated) when it lets go of a chunk the       *)
(* Server has not acknowledged.  OutputBuffer implements it for every Run, *)
(* under a cap all Runs share; Reporter is written against it.             *)
(***************************************************************************)
EXTENDS Naturals

VARIABLES
    first,      \* the oldest chunk that is kept
    last,       \* the newest chunk that was made
    truncated

runBufferVars == <<first, last, truncated>>

EmptyRunBuffer == first = 1 /\ last = 0 /\ truncated = FALSE

\* Add: the new chunk is kept, or there is no room for it: then nothing is.
Keep == last' = last + 1 /\ UNCHANGED <<first, truncated>>
Lose == last' = last + 1 /\ first' = last + 2 /\ truncated' = TRUE

\* Add, on behalf of any Run: the oldest chunk makes room.
DropOldest == first <= last /\ first' = first + 1 /\ truncated' = TRUE /\ UNCHANGED last

AckUpTo(seq) ==
    /\ first' = IF seq >= first THEN seq + 1 ELSE first
    /\ UNCHANGED <<last, truncated>>

Forget == first' = last + 1 /\ truncated' = FALSE /\ UNCHANGED last

RunBufferNext == Keep \/ Lose \/ DropOldest \/ Forget \/ \E seq \in 0..last : AckUpTo(seq)

RunBufferSpec == EmptyRunBuffer /\ [][RunBufferNext]_runBufferVars
============================================================================
