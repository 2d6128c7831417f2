---------------------------- MODULE RunnerProofs ----------------------------
(***************************************************************************)
(* What is proved of a process and of its output: Process, for any set of  *)
(* cancel reasons, and Chunker, for any chunk size, limit and bytes.       *)
(*                                                                         *)
(* The result of a process names the termination that signalled its group, *)
(* and the first termination wins.  FlagsExplainSignals is about the       *)
(* result alone.  It is carried by what the flags say of the group and of  *)
(* SIGTERM at every moment (Flags), and by the result being a copy of      *)
(* flags that do not change any more (Frozen).                             *)
(*                                                                         *)
(* The chunks of an output are the bytes written, each once and in order.  *)
(* That rests on where a Write stands between two turns: what is left of   *)
(* it begins after the last byte written (Turning), and is all that is     *)
(* missing of what was offered unless the cap was passed (Accounted).      *)
(***************************************************************************)
EXTENDS Process, Chunker, FiniteSetTheorems, SequenceTheorems, TLAPS

----------------------------------------------------------------------------
(* Process.                                                                *)

\* The flags are set by the termination that starts terminateGroup, and nothing
\* is signalled without it.
Flags ==
    /\ group # "idle" <=> terminating
    /\ terminating <=> timedOut \/ cancelled
    /\ ~(timedOut /\ cancelled)
    /\ reason # NoReason => cancelled
    /\ termed # {} => terminating
    /\ shell \in {"terminated", "killed"} => terminating

\* Once wait recorded the exit, result, flags and shell agree for good.
Frozen ==
    /\ exited <=> waiter \in {"recorded", "done"}
    /\ waiter # "wait" => shell # "alive"
    /\ exited => /\ result.timedOut <=> timedOut
                 /\ result.cancelled <=> cancelled
                 /\ result.reason = reason /\ result.by = shell

Inv == TypeOK /\ Flags /\ Frozen

Booleans == /\ terminating \in BOOLEAN /\ timedOut \in BOOLEAN
            /\ cancelled \in BOOLEAN /\ exited \in BOOLEAN

\* The flags are Booleans.
LEMMA TypedFlags == TypeOK => Booleans
  BY DEF TypeOK, Booleans

\* A process that was just started.
LEMMA InitInv == Init => Inv
<1> USE DEF Init
<1>1. Init => TypeOK
  BY DEF TypeOK
<1>2. Init => Flags
  BY DEF Flags
<1>3. Init => Frozen
  BY DEF Frozen
<1>4. QED
  BY <1>1, <1>2, <1>3 DEF Inv

\* No step of the shell, its group or the three threads leaves the types.
LEMMA NextTypeOK == TypeOK /\ Frozen /\ [Next]_vars => TypeOK'
<1> SUFFICES ASSUME TypeOK, Frozen, [Next]_vars PROVE TypeOK'
  OBVIOUS
<1> USE DEF TypeOK, vars, osVars, flagVars, waitVars, Alive
<1>1. CASE System
  BY <1>1 DEF System, Fork, ShellExits, DescendantExits, ShellDiesOfTerm, DescendantDiesOfTerm
<1>2. CASE TerminateGroup
  BY <1>2 DEF TerminateGroup, TermGroup, DoneInGrace, GraceElapses, GroupReturns, Members
<1>3. CASE Reap \/ WaitDelayElapses \/ CloseDone
  BY <1>3 DEF Reap, WaitDelayElapses, CloseDone
<1>4. CASE Record
  BY <1>4 DEF Record, StopTimer, Frozen
<1>5. CASE TimerExpires
  BY <1>5 DEF TimerExpires
<1>6. CASE TimeOut
  BY <1>6 DEF TimeOut, Terminate
<1>7. ASSUME NEW why \in Reason, Cancel(why) PROVE TypeOK'
  BY <1>7 DEF Cancel, Terminate, StopTimer
<1>8. CASE UNCHANGED vars
  BY <1>8
<1>9. QED
  BY <1>1, <1>2, <1>3, <1>4, <1>5, <1>6, <1>7, <1>8 DEF Next, Wait

\* Only a termination sets the flags, and it starts terminateGroup.
LEMMA NextFlags == Inv /\ [Next]_vars => Flags'
<1> SUFFICES ASSUME Inv, [Next]_vars PROVE Flags'
  OBVIOUS
<1>0. Booleans
  BY TypedFlags DEF Inv
<1> USE <1>0 DEF Inv, Flags, Booleans, vars, osVars, flagVars, waitVars, Alive
<1>1. CASE System
  BY <1>1 DEF System, Fork, ShellExits, DescendantExits, ShellDiesOfTerm, DescendantDiesOfTerm
<1>2. CASE TerminateGroup
  BY <1>2 DEF TerminateGroup, TermGroup, DoneInGrace, GraceElapses, GroupReturns, Members
<1>3. CASE Reap \/ WaitDelayElapses \/ Record \/ CloseDone
  BY <1>3 DEF Reap, WaitDelayElapses, Record, CloseDone
<1>4. CASE TimerExpires
  BY <1>4 DEF TimerExpires
<1>5. CASE TimeOut
  BY <1>5 DEF TimeOut, Terminate, Terminable
<1>6. ASSUME NEW why \in Reason, Cancel(why) PROVE Flags'
  <2>1. CASE Terminable
    <3>1. /\ terminating' /\ ~timedOut' /\ cancelled' /\ group' = "term"
          /\ UNCHANGED <<termed, shell>>
      BY <1>6, <2>1 DEF Cancel, Terminate
    <3>2. QED
      BY <3>1
  <2>2. CASE ~Terminable
    BY <1>6, <2>2 DEF Cancel, Terminate
  <2>3. QED
    BY <2>1, <2>2
<1>7. CASE UNCHANGED vars
  BY <1>7
<1>8. QED
  BY <1>1, <1>2, <1>3, <1>4, <1>5, <1>6, <1>7 DEF Next, Wait

\* After the exit is recorded no termination is possible.
LEMMA NextFrozen == Inv /\ [Next]_vars => Frozen'
<1> SUFFICES ASSUME Inv, [Next]_vars PROVE Frozen'
  OBVIOUS
<1>0. Booleans
  BY TypedFlags DEF Inv
<1> USE <1>0 DEF Inv, Frozen, Booleans, vars, osVars, flagVars, waitVars, Alive
<1>1. CASE System
  BY <1>1 DEF System, Fork, ShellExits, DescendantExits, ShellDiesOfTerm, DescendantDiesOfTerm
<1>2. CASE TerminateGroup
  BY <1>2 DEF TerminateGroup, TermGroup, DoneInGrace, GraceElapses, GroupReturns
<1>3. CASE Reap \/ WaitDelayElapses \/ Record \/ CloseDone
  BY <1>3 DEF Reap, WaitDelayElapses, Record, CloseDone
<1>4. CASE TimerExpires
  BY <1>4 DEF TimerExpires
<1>5. CASE TimeOut
  BY <1>5 DEF TimeOut, Terminate, Terminable
<1>6. ASSUME NEW why \in Reason, Cancel(why) PROVE Frozen'
  BY <1>6 DEF Cancel, Terminate, Terminable
<1>7. CASE UNCHANGED vars
  BY <1>7
<1>8. QED
  BY <1>1, <1>2, <1>3, <1>4, <1>5, <1>6, <1>7 DEF Next, Wait

\* The conjunction the theorems below rest on holds in every reachable state.
THEOREM Inductive == Spec => []Inv
<1>1. Inv /\ [Next]_vars => Inv'
  BY NextTypeOK, NextFlags, NextFrozen DEF Inv
<1>2. QED
  BY InitInv, <1>1, PTL DEF Spec

\* Every variable keeps its type (Runner.Start, terminate, terminateGroup, wait).
THEOREM TypeCorrect == Spec => []TypeOK
  BY Inductive, PTL DEF Inv

\* The result names the termination that signalled the group, and only that,
\* whatever cancellations and whatever timeout raced the exit (terminate, wait).
THEOREM ResultExplainsSignals == Spec => []FlagsExplainSignals
<1>1. Inv => FlagsExplainSignals
  BY TypedFlags DEF Inv, Booleans, Flags, Frozen, FlagsExplainSignals
<1>2. QED
  BY <1>1, Inductive, PTL

\* No later termination changes what the first one said (terminate).
THEOREM FirstWins == Spec => FirstTerminationWins
<1>1. [Next]_vars => [terminating => UNCHANGED <<terminating, timedOut, cancelled, reason>>]_vars
  <2> SUFFICES ASSUME Next, terminating
               PROVE  UNCHANGED <<terminating, timedOut, cancelled, reason>>
    OBVIOUS
  <2> USE DEF flagVars, osVars
  <2>1. CASE System \/ TerminateGroup \/ Wait \/ TimerExpires
    BY <2>1 DEF System, Fork, ShellExits, DescendantExits, ShellDiesOfTerm, DescendantDiesOfTerm,
                TerminateGroup, TermGroup, DoneInGrace, GraceElapses, GroupReturns,
                Wait, Reap, WaitDelayElapses, Record, CloseDone, TimerExpires
  <2>2. CASE TimeOut
    BY <2>2 DEF TimeOut, Terminate, Terminable
  <2>3. ASSUME NEW why \in Reason, Cancel(why)
        PROVE UNCHANGED <<terminating, timedOut, cancelled, reason>>
    BY <2>3 DEF Cancel, Terminate, Terminable
  <2>4. QED
    BY <2>1, <2>2, <2>3 DEF Next
<1>2. QED
  BY <1>1, PTL DEF Spec, FirstTerminationWins

\* Whom SIGTERM reached: from then on a shell that lives was sent it, and a
\* descendant that lives was sent it or is the child of a shell that ignores it.
Reached ==
    group \in {"grace", "killed", "returned"} =>
        /\ Alive(shell) => "shell" \in termed
        /\ Alive(descendant) => "descendant" \in termed \/ command.shellIgnoresTerm

\* Only Fork makes a process that TermGroup has not seen.
LEMMA NextReached == Reached /\ [Next]_vars => Reached'
<1> SUFFICES ASSUME Reached, [Next]_vars PROVE Reached'
  OBVIOUS
<1> USE DEF Reached, vars, osVars, flagVars, waitVars, Alive
<1>1. CASE System
  BY <1>1 DEF System, Fork, ShellExits, DescendantExits, ShellDiesOfTerm, DescendantDiesOfTerm
<1>2. CASE TermGroup
  BY <1>2 DEF TermGroup, Members
<1>3. CASE DoneInGrace \/ GroupReturns
  BY <1>3 DEF DoneInGrace, GroupReturns
<1>4. CASE GraceElapses
  BY <1>4 DEF GraceElapses
<1>5. CASE Wait
  BY <1>5 DEF Wait, Reap, WaitDelayElapses, Record, CloseDone
<1>6. CASE TimerExpires
  BY <1>6 DEF TimerExpires
<1>7. CASE TimeOut
  BY <1>7 DEF TimeOut, Terminate
<1>8. ASSUME NEW why \in Reason, Cancel(why) PROVE Reached'
  BY <1>8 DEF Cancel, Terminate
<1>9. CASE UNCHANGED vars
  BY <1>9
<1>10. QED
  BY <1>1, <1>2, <1>3, <1>4, <1>5, <1>6, <1>7, <1>8, <1>9 DEF Next, TerminateGroup

\* When terminateGroup returns, what still lives was sent SIGTERM or is one of
\* the two kinds it leaves behind: what HonestGroupDies then needs is only that
\* a SIGTERM kills (terminateGroup).
THEOREM SurvivorsExplained ==
    Spec => [](group = "returned" /\ Alive(descendant) => LeftBehind \/ "descendant" \in termed)
<1>1. Init => Reached
  BY DEF Init, Reached
<1>2. Reached => (group = "returned" /\ Alive(descendant) => LeftBehind \/ "descendant" \in termed)
  BY DEF Reached, LeftBehind
<1>3. QED
  BY <1>1, <1>2, NextReached, PTL DEF Spec

----------------------------------------------------------------------------
(* Sequences of sequences.                                                 *)

\* A set of numbers has a least one.
LEMMA LeastOf ==
    ASSUME NEW N \in SUBSET Nat, N # {}
    PROVE  \E m \in N : \A k \in N : m <= k
<1> DEFINE R == OpToRel(<, Nat)
<1>1. IsWellFoundedOn(R, Nat)
  BY NatLessThanWellFounded
<1>2. \A x, y \in Nat : x < y => <<x, y>> \in R
  BY DEF OpToRel
<1> HIDE DEF R
<1>3. PICK m \in N : \A k \in N : ~ (<<k, m>> \in R)
  BY <1>1, WFMin
<1>4. \A k \in N : m <= k
  <2> SUFFICES ASSUME NEW k \in N PROVE ~(k < m)
    OBVIOUS
  <2> QED
    BY <1>2, <1>3
<1> QED
  BY <1>4

\* A set with 0 in it, and with every number its successor, is Nat.
LEMMA EveryNumber ==
    ASSUME NEW G \in SUBSET Nat, 0 \in G, \A n \in G : n + 1 \in G
    PROVE  G = Nat
<1> SUFFICES ASSUME G # Nat PROVE FALSE
  OBVIOUS
<1>1. PICK m \in Nat \ G : \A k \in Nat \ G : m <= k
  BY LeastOf
<1>2. m # 0 /\ m - 1 \in Nat /\ m - 1 \notin Nat \ G
  BY <1>1
<1> QED
  BY <1>2

\* The recursion of FlattenSeq.
IsFlat(g, ss) == g = [i \in 1..Len(ss) |-> IF i = 1 THEN ss[i] ELSE g[i - 1] \o ss[i]]
Flat(ss) == CHOOSE g : IsFlat(g, ss)

\* That recursion has a solution: one for the first n sequences extends to
\* the next.
LEMMA FlatExists ==
    ASSUME NEW ss, Len(ss) \in Nat
    PROVE  IsFlat(Flat(ss), ss)
<1> DEFINE Part(g, n) == g = [i \in 1..n |-> IF i = 1 THEN ss[i] ELSE g[i - 1] \o ss[i]]
           G == {n \in Nat : \E g : Part(g, n)}
<1>1. 0 \in G
  <2>1. Part([i \in 1..0 |-> 0], 0)
    OBVIOUS
  <2> QED
    BY <2>1
<1>2. ASSUME NEW n \in G PROVE n + 1 \in G
  <2> PICK g : Part(g, n)
    OBVIOUS
  <2> DEFINE Turn(f, i) == IF i = 1 THEN ss[i] ELSE f[i - 1] \o ss[i]
             h == [i \in 1..n + 1 |-> Turn(g, i)]
  <2>1. \A i \in 1..n : h[i] = g[i]
    <3>1. \A i \in 1..n : g[i] = Turn(g, i)
      OBVIOUS
    <3>2. \A i \in 1..n : i \in 1..n + 1
      OBVIOUS
    <3> HIDE DEF Turn
    <3> QED
      BY <3>1, <3>2
  <2>2. \A i \in 1..n + 1 : i # 1 => h[i - 1] = g[i - 1]
    <3>1. \A i \in 1..n + 1 : i # 1 => i - 1 \in 1..n
      OBVIOUS
    <3> HIDE DEF h
    <3> QED
      BY <2>1, <3>1
  <2>3. Part(h, n + 1)
    BY <2>2
  <2>4. \E k : Part(k, n + 1)
    <3> HIDE DEF Part, h
    <3> QED
      BY <2>3
  <2> QED
    <3> HIDE DEF Part
    <3> QED
      BY <2>4
<1>3. Len(ss) \in G
  <2> HIDE DEF G
  <2> QED
    BY <1>1, <1>2, EveryNumber DEF G
<1>4. \E g : IsFlat(g, ss)
  BY <1>3 DEF IsFlat
<1> QED
  BY <1>4 DEF Flat

\* FlattenSeq is its last value.
LEMMA FlattenIs == \A ss : FlattenSeq(ss) = IF Len(ss) = 0 THEN ss ELSE Flat(ss)[Len(ss)]
  BY DEF FlattenSeq, Flat, IsFlat

\* The recursion holds of the function it defines.
LEMMA FlatIs ==
    ASSUME NEW ss, Len(ss) \in Nat, NEW i \in 1..Len(ss)
    PROVE  Flat(ss)[i] = IF i = 1 THEN ss[i] ELSE Flat(ss)[i - 1] \o ss[i]
<1> DEFINE g == Flat(ss)
<1>1. IsFlat(g, ss)
  BY FlatExists
<1> HIDE DEF g
<1>2. g = [j \in 1..Len(ss) |-> IF j = 1 THEN ss[j] ELSE g[j - 1] \o ss[j]]
  BY <1>1 DEF IsFlat
<1>3. g[i] = IF i = 1 THEN ss[i] ELSE g[i - 1] \o ss[i]
  BY <1>2
<1> QED
  BY <1>3 DEF g

\* A longer sequence of sequences begins like a shorter one.
LEMMA FlatBegins ==
    ASSUME NEW ss, NEW tt, Len(ss) \in Nat, Len(tt) \in Nat, Len(ss) <= Len(tt),
           \A i \in 1..Len(ss) : ss[i] = tt[i], NEW i \in 1..Len(ss)
    PROVE  Flat(ss)[i] = Flat(tt)[i]
<1> DEFINE N == {j \in 1..Len(ss) : Flat(ss)[j] # Flat(tt)[j]}
<1> SUFFICES ASSUME N # {} PROVE FALSE
  OBVIOUS
<1>1. PICK m \in N : \A k \in N : m <= k
  <2>1. N \in SUBSET Nat
    OBVIOUS
  <2> HIDE DEF N
  <2> QED
    BY <2>1, LeastOf
<1>2. /\ Flat(ss)[m] = IF m = 1 THEN ss[m] ELSE Flat(ss)[m - 1] \o ss[m]
      /\ Flat(tt)[m] = IF m = 1 THEN tt[m] ELSE Flat(tt)[m - 1] \o tt[m]
  BY FlatIs
<1>3. m # 1 => m - 1 \in 1..Len(ss) /\ m - 1 \notin N
  BY <1>1
<1>4. m # 1 => Flat(ss)[m - 1] = Flat(tt)[m - 1]
  BY <1>3
<1> QED
  BY <1>1, <1>2, <1>4

\* Its values are sequences of the same elements.
LEMMA FlatSeq ==
    ASSUME NEW S, NEW ss \in Seq(Seq(S)), NEW i \in 1..Len(ss)
    PROVE  Flat(ss)[i] \in Seq(S)
<1> DEFINE N == {j \in 1..Len(ss) : Flat(ss)[j] \notin Seq(S)}
<1> SUFFICES ASSUME N # {} PROVE FALSE
  OBVIOUS
<1>0. Len(ss) \in Nat
  OBVIOUS
<1>1. PICK m \in N : \A k \in N : m <= k
  <2>1. N \in SUBSET Nat
    OBVIOUS
  <2> HIDE DEF N
  <2> QED
    BY <2>1, LeastOf
<1>2. Flat(ss)[m] = IF m = 1 THEN ss[m] ELSE Flat(ss)[m - 1] \o ss[m]
  BY <1>0, FlatIs
<1>3. m # 1 => m - 1 \in 1..Len(ss) /\ m - 1 \notin N
  BY <1>0, <1>1
<1>4. m # 1 => Flat(ss)[m - 1] \in Seq(S)
  BY <1>3
<1>5. ss[m] \in Seq(S)
  OBVIOUS
<1>6. \A a, b \in Seq(S) : a \o b \in Seq(S)
  OBVIOUS
<1> QED
  BY <1>1, <1>2, <1>4, <1>5, <1>6

\* Nothing to flatten.
LEMMA FlattenOfNone == FlattenSeq(<<>>) = <<>>
  BY FlattenIs

\* What is flattened is a sequence of the same elements.
LEMMA FlattenIsSeq ==
    ASSUME NEW S, NEW ss \in Seq(Seq(S))
    PROVE  FlattenSeq(ss) \in Seq(S)
<1>1. CASE Len(ss) = 0
  <2>1. ss = <<>> /\ <<>> \in Seq(S)
    BY <1>1
  <2>2. FlattenSeq(ss) = <<>>
    BY <2>1, FlattenOfNone
  <2> QED
    BY <2>1, <2>2
<1>2. CASE Len(ss) # 0
  <2>1. Len(ss) \in 1..Len(ss)
    BY <1>2
  <2> QED
    BY <1>2, <2>1, FlattenIs, FlatSeq
<1> QED
  BY <1>1, <1>2

\* One more sequence at the end comes last.
LEMMA FlattenAppend ==
    ASSUME NEW S, NEW ss \in Seq(Seq(S)), NEW s \in Seq(S)
    PROVE  FlattenSeq(Append(ss, s)) = FlattenSeq(ss) \o s
<1> DEFINE tt == Append(ss, s)
           n == Len(ss)
<1>1. n \in Nat /\ Len(tt) = n + 1 /\ tt[n + 1] = s /\ \A i \in 1..n : tt[i] = ss[i]
  OBVIOUS
<1> HIDE DEF tt, n
<1>2. FlattenSeq(tt) = Flat(tt)[n + 1]
  BY <1>1, FlattenIs
<1>3. Flat(tt)[n + 1] = IF n + 1 = 1 THEN tt[n + 1] ELSE Flat(tt)[n + 1 - 1] \o tt[n + 1]
  BY <1>1, FlatIs
<1>4. CASE n = 0
  <2>1. ss = <<>>
    BY <1>4 DEF n
  <2>2. <<>> \o s = s
    OBVIOUS
  <2> QED
    BY <1>1, <1>2, <1>3, <1>4, <2>1, <2>2, FlattenOfNone DEF tt
<1>5. CASE n # 0
  <2>1. n \in 1..n /\ n + 1 - 1 = n /\ n + 1 # 1 /\ n <= n + 1
    BY <1>1, <1>5
  <2>2. Flat(ss)[n] = Flat(tt)[n]
    <3>1. Len(ss) = n
      BY DEF n
    <3> QED
      BY <1>1, <2>1, <3>1, FlatBegins
  <2>3. FlattenSeq(ss) = Flat(ss)[n]
    BY <1>5, FlattenIs DEF n
  <2> QED
    BY <1>1, <1>2, <1>3, <2>1, <2>2, <2>3 DEF tt
<1> QED
  BY <1>4, <1>5

----------------------------------------------------------------------------
(* The chunks of a Chunker.                                                *)

\* Chunks, and chunks being filled, of the first n bytes offered.
ChunkOf(n) == [seq : Nat, stream : Stream, data : Seq(1..n)]
PartOf(n) == [stream : Stream \cup {None}, data : Seq(1..n)]

\* s is data of one stream: places among the bytes offered, each of which was
\* written to that stream.
OfStream(s, stream, offered) ==
    s # <<>> => stream \in Stream /\ \A j \in 1..Len(s) : offered[s[j]] = stream

\* The bytes that follow the first ones.
InOrder(s, from) == \A j \in 1..Len(s) : s[j] = from + j

\* The bytes of chunks, in order (Handed).
HandedBy(cs) == FlattenSeq([i \in DOMAIN cs |-> cs[i].data])

\* Chunks are numbered without a gap, of one stream each, and none is empty.
WellFormed(cs, offered) ==
    /\ cs \in Seq(ChunkOf(Len(offered)))
    /\ \A i \in 1..Len(cs) :
        /\ cs[i].seq = i /\ Len(cs[i].data) \in 1..ChunkBytes
        /\ OfStream(cs[i].data, cs[i].stream, offered)

\* A chunk being filled, or the rest of a Write.
Buffering(b, offered) == b \in PartOf(Len(offered)) /\ OfStream(b.data, b.stream, offered)

\* How much a turn of Write takes is the smaller of two numbers.
LEMMA MinOfTwo ==
    ASSUME NEW a \in Int, NEW b \in Int
    PROVE  Min({a, b}) \in {a, b} /\ Min({a, b}) <= a /\ Min({a, b}) <= b
<1>1. \E x \in {a, b} : \A y \in {a, b} : x <= y
  <2>1. CASE a <= b
    BY <2>1
  <2>2. CASE b <= a
    BY <2>2
  <2> QED
    BY <2>1, <2>2
<1> QED
  BY <1>1 DEF Min

\* No chunks hand over nothing.
LEMMA HandedByNone == HandedBy(<<>>) = <<>>
<1>1. [i \in DOMAIN <<>> |-> <<>>[i].data] = <<>>
  OBVIOUS
<1> QED
  BY <1>1, FlattenOfNone DEF HandedBy

\* The data of chunks.
LEMMA DataOfChunks ==
    ASSUME NEW n \in Nat, NEW cs \in Seq(ChunkOf(n))
    PROVE  DOMAIN cs = 1..Len(cs) /\ Len(cs) \in Nat /\ \A i \in 1..Len(cs) : cs[i].data \in Seq(1..n)
<1>1. \A c \in ChunkOf(n) : c.data \in Seq(1..n)
  BY DEF ChunkOf
<1> QED
  BY <1>1, LenProperties, ElementOfSeq

\* The data of chunks with one more.
LEMMA DatasOf ==
    ASSUME NEW n \in Nat, NEW cs \in Seq(ChunkOf(n)), NEW c \in ChunkOf(n)
    PROVE  /\ [i \in DOMAIN cs |-> cs[i].data] \in Seq(Seq(1..n))
           /\ [i \in DOMAIN Append(cs, c) |-> Append(cs, c)[i].data] =
                    Append([i \in DOMAIN cs |-> cs[i].data], c.data)
<1> DEFINE ds == [i \in DOMAIN cs |-> cs[i].data]
           es == [i \in DOMAIN Append(cs, c) |-> Append(cs, c)[i].data]
<1>1. DOMAIN cs = 1..Len(cs) /\ Len(cs) \in Nat /\ \A i \in 1..Len(cs) : cs[i].data \in Seq(1..n)
  BY DataOfChunks
<1>2. c.data \in Seq(1..n)
  BY DEF ChunkOf
<1>3. ds \in Seq(Seq(1..n)) /\ Len(ds) = Len(cs) /\ \A i \in 1..Len(cs) : ds[i] = cs[i].data
  BY <1>1
<1>4. /\ DOMAIN Append(cs, c) = 1..Len(cs) + 1 /\ Append(cs, c)[Len(cs) + 1] = c
      /\ \A i \in 1..Len(cs) : Append(cs, c)[i] = cs[i]
  BY <1>1, AppendProperties
<1>5. Append(ds, c.data) \in Seq(Seq(1..n)) /\ Len(Append(ds, c.data)) = Len(cs) + 1
      /\ Append(ds, c.data)[Len(cs) + 1] = c.data
      /\ \A i \in 1..Len(cs) : Append(ds, c.data)[i] = ds[i]
  <2> HIDE DEF ds
  <2> QED
    BY <1>2, <1>3, AppendProperties
<1>6. es = [i \in 1..Len(cs) + 1 |-> IF i = Len(cs) + 1 THEN c.data ELSE cs[i].data]
  <2>1. \A i \in 1..Len(cs) + 1 : Append(cs, c)[i].data = IF i = Len(cs) + 1 THEN c.data ELSE cs[i].data
    BY <1>1, <1>4
  <2> QED
    BY <1>4, <2>1
<1>7. es = Append(ds, c.data)
  <2>1. es \in Seq(Seq(1..n)) /\ Len(es) = Len(cs) + 1
    BY <1>1, <1>2, <1>6
  <2>2. \A i \in 1..Len(cs) + 1 : es[i] = Append(ds, c.data)[i]
    <3>1. \A i \in 1..Len(cs) + 1 : es[i] = IF i = Len(cs) + 1 THEN c.data ELSE cs[i].data
      BY <1>6
    <3> HIDE DEF es, ds
    <3> QED
      BY <1>1, <1>3, <1>5, <3>1
  <2> HIDE DEF es, ds
  <2> QED
    BY <1>5, <2>1, <2>2, SeqEqual
<1> QED
  BY <1>3, <1>7

\* One more chunk hands over its data after the others.
LEMMA HandedByAppend ==
    ASSUME NEW n \in Nat, NEW cs \in Seq(ChunkOf(n)), NEW c \in ChunkOf(n)
    PROVE  HandedBy(cs) \in Seq(1..n) /\ HandedBy(Append(cs, c)) = HandedBy(cs) \o c.data
<1>1. c.data \in Seq(1..n)
  BY DEF ChunkOf
<1> QED
  BY <1>1, DatasOf, FlattenAppend, FlattenIsSeq DEF HandedBy

\* What chunks hand over are places among the bytes offered.
LEMMA HandedByIsSeq ==
    ASSUME NEW n \in Nat, NEW cs \in Seq(ChunkOf(n))
    PROVE  HandedBy(cs) \in Seq(1..n)
<1>1. [i \in DOMAIN cs |-> cs[i].data] \in Seq(Seq(1..n))
  <2>1. DOMAIN cs = 1..Len(cs) /\ Len(cs) \in Nat /\ \A i \in 1..Len(cs) : cs[i].data \in Seq(1..n)
    BY DataOfChunks
  <2> QED
    BY <2>1
<1> QED
  BY <1>1, FlattenIsSeq DEF HandedBy

\* flushLocked gives receive one chunk, and all there is in it.
LEMMA FlushKeeps ==
    ASSUME NEW offered \in Seq(Stream), NEW cs, NEW p,
           WellFormed(cs, offered), Buffering(p, offered), Len(p.data) <= ChunkBytes
    PROVE  /\ WellFormed(Flushed(p, cs), offered)
           /\ HandedBy(cs) \in Seq(1..Len(offered))
           /\ HandedBy(Flushed(p, cs)) = HandedBy(cs) \o p.data
<1> DEFINE N == Len(offered)
           c == [seq |-> Len(cs) + 1, stream |-> p.stream, data |-> p.data]
<1>1. N \in Nat /\ cs \in Seq(ChunkOf(N)) /\ p.data \in Seq(1..N) /\ Len(cs) \in Nat
  BY DEF WellFormed, Buffering, PartOf
<1>2. HandedBy(cs) \in Seq(1..N)
  <2> HIDE DEF N
  <2> QED
    BY <1>1, HandedByIsSeq
<1>3. CASE p.data = <<>>
  <2>1. HandedBy(cs) \o p.data = HandedBy(cs)
    <3> HIDE DEF N
    <3> QED
      BY <1>2, <1>3, ConcatEmptySeq
  <2> QED
    BY <1>2, <1>3, <2>1 DEF Flushed
<1>4. CASE p.data # <<>>
  <2>1. c \in ChunkOf(N) /\ Flushed(p, cs) = Append(cs, c) /\ c.data = p.data
    <3>1. p.stream \in Stream
      BY <1>4 DEF Buffering, OfStream
    <3> QED
      BY <1>1, <1>4, <3>1 DEF ChunkOf, Flushed
  <2>2. HandedBy(Append(cs, c)) = HandedBy(cs) \o p.data
    <3> HIDE DEF N, c
    <3> QED
      BY <1>1, <2>1, HandedByAppend
  <2>3. Len(p.data) \in 1..ChunkBytes
    <3>1. Len(p.data) \in Nat /\ Len(p.data) # 0
      BY <1>1, <1>4, EmptySeq
    <3> QED
      BY <3>1, ChunkerAssumption
  <2>4. /\ Append(cs, c) \in Seq(ChunkOf(N)) /\ Len(Append(cs, c)) = Len(cs) + 1
        /\ Append(cs, c)[Len(cs) + 1] = c /\ \A i \in 1..Len(cs) : Append(cs, c)[i] = cs[i]
    <3> HIDE DEF N, c
    <3> QED
      BY <1>1, <2>1, AppendProperties
  <2>5. WellFormed(Append(cs, c), offered)
    <3> SUFFICES ASSUME NEW i \in 1..Len(cs) + 1
                 PROVE  /\ Append(cs, c)[i].seq = i /\ Len(Append(cs, c)[i].data) \in 1..ChunkBytes
                        /\ OfStream(Append(cs, c)[i].data, Append(cs, c)[i].stream, offered)
      BY <2>4 DEF WellFormed
    <3>1. CASE i = Len(cs) + 1
      <4>1. c.seq = i /\ c.stream = p.stream /\ c.data = p.data
        BY <3>1
      <4>2. Append(cs, c)[i] = c
        BY <2>4, <3>1
      <4> HIDE DEF c
      <4> QED
        BY <2>3, <4>1, <4>2 DEF Buffering
    <3>2. CASE i \in 1..Len(cs)
      BY <2>4, <3>2 DEF WellFormed
    <3> QED
      BY <1>1, <3>1, <3>2
  <2> HIDE DEF c
  <2> QED
    BY <1>2, <2>1, <2>2, <2>5
<1> QED
  BY <1>3, <1>4

\* What is written before stays as it is when more is offered.
LEMMA OfferKeeps ==
    ASSUME NEW offered \in Seq(Stream), NEW t \in Seq(Stream)
    PROVE  /\ \A cs : WellFormed(cs, offered) => WellFormed(cs, offered \o t)
           /\ \A b : Buffering(b, offered) => Buffering(b, offered \o t)
<1> DEFINE N == Len(offered)
           M == Len(offered \o t)
<1>1. N \in Nat /\ M \in Nat /\ N <= M /\ \A j \in 1..N : (offered \o t)[j] = offered[j]
  BY ConcatProperties
<1>2. 1..N \subseteq 1..M
  BY <1>1
<1>3. \A s \in Seq(1..N) : s \in Seq(1..M)
  <2> HIDE DEF N, M
  <2> QED
    BY <1>2, SeqMonotonic
<1>4. ASSUME NEW s \in Seq(1..N), NEW stream, OfStream(s, stream, offered)
      PROVE  OfStream(s, stream, offered \o t)
  <2>1. \A j \in 1..Len(s) : s[j] \in 1..N
    <3> HIDE DEF N
    <3> QED
      BY ElementOfSeq
  <2> HIDE DEF N
  <2> QED
    BY <1>1, <1>4, <2>1 DEF OfStream
<1>5. ASSUME NEW cs, WellFormed(cs, offered) PROVE WellFormed(cs, offered \o t)
  <2>1. cs \in Seq(ChunkOf(N))
    BY <1>5 DEF WellFormed
  <2>2. ChunkOf(N) \subseteq ChunkOf(M)
    <3> HIDE DEF N, M
    <3> QED
      BY <1>3 DEF ChunkOf
  <2>3. cs \in Seq(ChunkOf(M))
    <3> HIDE DEF N, M
    <3> QED
      BY <2>1, <2>2, SeqMonotonic
  <2>4. \A i \in 1..Len(cs) : cs[i].data \in Seq(1..N)
    <3> HIDE DEF N, M
    <3> QED
      BY <1>1, <2>1, DataOfChunks
  <2>5. \A i \in 1..Len(cs) : OfStream(cs[i].data, cs[i].stream, offered \o t)
    BY <1>4, <1>5, <2>4 DEF WellFormed
  <2> QED
    BY <1>5, <2>3, <2>5 DEF WellFormed
<1>6. ASSUME NEW b, Buffering(b, offered) PROVE Buffering(b, offered \o t)
  <2>1. b.data \in Seq(1..N) /\ b \in PartOf(N)
    BY <1>6 DEF Buffering, PartOf
  <2>2. PartOf(N) \subseteq PartOf(M)
    <3> HIDE DEF N, M
    <3> QED
      BY <1>3 DEF PartOf
  <2> QED
    BY <1>4, <1>6, <2>1, <2>2 DEF Buffering
<1> QED
  BY <1>5, <1>6

\* What receive was given.
Numbered == WellFormed(chunks, input)

\* The cap leaves room.
Open == ~(Capped /\ written >= MaxOutput)

\* The chunk being filled never fills up: a full one is handed over at once.
Filling == Buffering(pending, input) /\ Len(pending.data) < ChunkBytes

\* Who holds the mutex writes, and what is left of the Write comes next.
Turning ==
    /\ Buffering(writing, input)
    /\ holder = "writer" => writing.stream \in Stream
    /\ holder # "writer" => writing = Nothing
    /\ Open => InOrder(writing.data, written)

\* What is written and what is left of the Write is all that was offered, or
\* the cap was passed and they stop at it.
Accounted ==
    /\ written \in Nat /\ truncated \in BOOLEAN
    /\ input \in Seq(Stream) /\ Len(input) <= MaxBytes
    /\ Capped => written <= MaxOutput
    /\ ~truncated => Len(input) = written + Len(writing.data)
    /\ truncated => Capped /\ Len(input) > MaxOutput /\ (Open => written + Len(writing.data) = MaxOutput)

\* What was given and what is pending are the bytes written, in order.
Faithful == HandedBy(chunks) \o pending.data = [i \in 1..written |-> i]

\* After closed is set the flusher is gone and nothing is pending, so what Close
\* returned stays true.
Closing ==
    /\ holder \in {None, "writer"} /\ closed \in BOOLEAN
    /\ flusher \in {"select", "tick", "done"}
    /\ closer \in {"open", "stopping", "flushed", "returned"}
    /\ closed <=> closer \in {"flushed", "returned"}
    /\ closed => flusher = "done" /\ holder = None /\ pending = Nothing
    /\ closer # "returned" => returned = None
    /\ closer = "returned" => returned = [lastSeq |-> Len(chunks), truncated |-> truncated]

Held == Numbered /\ Filling /\ Faithful
ChunkerInv == Held /\ Turning /\ Accounted /\ Closing

\* An empty chunk has no data.
LEMMA NothingBuffered ==
    ASSUME NEW offered \in Seq(Stream)
    PROVE  Buffering(Nothing, offered) /\ Nothing.data = <<>> /\ Len(Nothing.data) = 0
  BY EmptySeq DEF Buffering, PartOf, Nothing, OfStream

\* flushLocked moves what is pending into a chunk and changes nothing else of
\* what is held.
LEMMA FlushLockedHolds ==
    ASSUME Held, Accounted, FlushLocked, UNCHANGED <<written, input>>
    PROVE  Held' /\ pending' = Nothing
<1>1. /\ WellFormed(Flushed(pending, chunks), input)
      /\ HandedBy(chunks) \in Seq(1..Len(input))
      /\ HandedBy(Flushed(pending, chunks)) = HandedBy(chunks) \o pending.data
  <2>1. Len(pending.data) <= ChunkBytes
    BY ChunkerAssumption DEF Held, Filling, Buffering, PartOf
  <2> QED
    BY <2>1, FlushKeeps DEF Held, Numbered, Filling, Accounted
<1>2. chunks' = Flushed(pending, chunks) /\ pending' = Nothing
  BY DEF FlushLocked
<1>3. Numbered' /\ Filling'
  BY <1>1, <1>2, NothingBuffered, ChunkerAssumption DEF Numbered, Filling, Accounted
<1>4. HandedBy(chunks') \o <<>> = HandedBy(chunks')
  <2>1. HandedBy(chunks) \o pending.data \in Seq(1..Len(input))
    BY <1>1 DEF Held, Filling, Buffering, PartOf
  <2> QED
    BY <1>1, <1>2, <2>1, ConcatEmptySeq
<1>5. Faithful'
  BY <1>1, <1>2, <1>4, NothingBuffered DEF Held, Faithful, Accounted
<1> QED
  BY <1>2, <1>3, <1>5 DEF Held

\* What of a write is taken in one turn, and what is left of it.
LEMMA TurnTakes ==
    ASSUME NEW N \in Nat, NEW data \in Seq(1..N), NEW n \in 0..Len(data)
    PROVE  /\ SubSeq(data, 1, n) \in Seq(1..N) /\ Len(SubSeq(data, 1, n)) = n
           /\ \A j \in 1..n : SubSeq(data, 1, n)[j] = data[j]
           /\ SubSeq(data, n + 1, Len(data)) \in Seq(1..N)
           /\ Len(SubSeq(data, n + 1, Len(data))) = Len(data) - n
           /\ \A j \in 1..Len(data) - n : SubSeq(data, n + 1, Len(data))[j] = data[n + j]
<1>1. Len(data) \in Nat /\ \A j \in 1..Len(data) : data[j] \in 1..N
  BY ElementOfSeq, LenProperties
<1>2. \A j \in 1..n : data[j] \in 1..N
  BY <1>1
<1>3. /\ SubSeq(data, 1, n) \in Seq(1..N) /\ Len(SubSeq(data, 1, n)) = n
      /\ \A j \in 1..n : SubSeq(data, 1, n)[j] = data[j]
  BY <1>1
<1>4. SubSeq(data, n + 1, Len(data)) \in Seq(1..N) /\ Len(SubSeq(data, n + 1, Len(data))) = Len(data) - n
  BY <1>1
<1>5. \A j \in 1..Len(data) - n : SubSeq(data, n + 1, Len(data))[j] = data[n + j]
  BY <1>1
<1> QED
  BY <1>3, <1>4, <1>5

\* What was written and what comes next is what is written now.
LEMMA NextInOrder ==
    ASSUME NEW w \in Nat, NEW N, NEW s \in Seq(N), InOrder(s, w)
    PROVE  [i \in 1..w |-> i] \o s = [i \in 1..w + Len(s) |-> i]
  BY DEF InOrder

\* Of a write the cap lets through all, or exactly what is left below it.
LEMMA AllowedPart ==
    ASSUME Turning, Accounted, Open
    PROVE  /\ Allowed \in Seq(1..Len(input)) /\ Len(Allowed) \in Nat /\ Len(Allowed) <= Len(writing.data)
           /\ \A j \in 1..Len(Allowed) : Allowed[j] = writing.data[j]
           /\ Capped => written + Len(Allowed) <= MaxOutput
           /\ Allowed # writing.data => Capped /\ written + Len(Allowed) = MaxOutput /\ Len(Allowed) < Len(writing.data)
<1> DEFINE N == Len(input)
           data == writing.data
<1>1. N \in Nat /\ data \in Seq(1..N) /\ Len(data) \in Nat
  BY DEF Turning, Buffering, PartOf, Accounted
<1>2. Capped => Remaining \in Nat /\ written + Remaining = MaxOutput
  BY ChunkerAssumption DEF Open, Remaining, Accounted
<1>3. CASE Capped /\ Len(data) > Remaining
  <2>1. Remaining \in 0..Len(data)
    BY <1>1, <1>2, <1>3
  <2>2. Allowed = SubSeq(data, 1, Remaining)
    BY <1>3 DEF Allowed
  <2> HIDE DEF N, data
  <2>3. Allowed \in Seq(1..N) /\ Len(Allowed) = Remaining /\ \A j \in 1..Remaining : Allowed[j] = data[j]
    BY <1>1, <2>1, <2>2, TurnTakes
  <2>4. Len(Allowed) < Len(data) /\ Len(Allowed) \in Nat /\ Capped /\ written + Len(Allowed) = MaxOutput
    BY <1>1, <1>2, <1>3, <2>3
  <2>5. Len(Allowed) <= Len(data) /\ written + Len(Allowed) <= MaxOutput
    BY <1>1, <2>4, ChunkerAssumption
  <2> QED
    BY <2>3, <2>4, <2>5 DEF N, data
<1>4. CASE ~(Capped /\ Len(data) > Remaining)
  <2>1. Allowed = data
    BY <1>4 DEF Allowed
  <2> QED
    BY <1>1, <1>2, <1>4, <2>1, ChunkerAssumption DEF Accounted
<1> QED
  BY <1>3, <1>4

\* Two parts of one stream are one.
LEMMA SameStream ==
    ASSUME NEW offered, NEW stream, NEW N \in Nat, NEW s \in Seq(1..N), NEW t \in Seq(1..N),
           OfStream(s, stream, offered), OfStream(t, stream, offered)
    PROVE  s \o t \in Seq(1..N) /\ Len(s \o t) = Len(s) + Len(t) /\ OfStream(s \o t, stream, offered)
<1>1. /\ s \o t \in Seq(1..N) /\ Len(s \o t) = Len(s) + Len(t) /\ Len(s) \in Nat /\ Len(t) \in Nat
      /\ \A i \in 1..Len(s) + Len(t) : (s \o t)[i] = IF i <= Len(s) THEN s[i] ELSE t[i - Len(s)]
  BY ConcatProperties, LenProperties
<1>2. s \o t # <<>> => s # <<>> \/ t # <<>>
  BY ConcatEmptySeq
<1>3. ASSUME NEW i \in 1..Len(s \o t) PROVE offered[(s \o t)[i]] = stream
  <2>1. CASE i <= Len(s)
    <3>1. i \in 1..Len(s) /\ s # <<>>
      BY <1>1, <1>3, <2>1, EmptySeq
    <3> QED
      BY <1>1, <1>3, <2>1, <3>1 DEF OfStream
  <2>2. CASE i > Len(s)
    <3>1. i - Len(s) \in 1..Len(t) /\ t # <<>>
      BY <1>1, <1>3, <2>2, EmptySeq
    <3> QED
      BY <1>1, <1>3, <2>2, <3>1 DEF OfStream
  <2> QED
    BY <1>1, <2>1, <2>2
<1> QED
  BY <1>1, <1>2, <1>3 DEF OfStream

\* A turn of Write begins with a pending chunk of its own stream: what was
\* pending of the other is handed over first.
LEMMA BeforeTurn ==
    ASSUME Held, Turning, Accounted, holder = "writer", NEW given, NEW before,
           given = IF OtherStream THEN Flushed(pending, chunks) ELSE chunks,
           before = IF OtherStream \/ pending.data = <<>> THEN [stream |-> writing.stream, data |-> <<>>] ELSE pending
    PROVE  /\ WellFormed(given, input) /\ HandedBy(given) \in Seq(1..Len(input))
           /\ Buffering(before, input) /\ before.stream = writing.stream
           /\ before = [stream |-> before.stream, data |-> before.data]
           /\ Len(before.data) < ChunkBytes /\ Len(before.data) \in Nat
           /\ HandedBy(given) \o before.data = HandedBy(chunks) \o pending.data
<1> DEFINE none == [stream |-> writing.stream, data |-> <<>>]
           N == Len(input)
<1>1. /\ N \in Nat /\ chunks \in Seq(ChunkOf(N)) /\ pending \in PartOf(N) /\ pending.data \in Seq(1..N)
      /\ Len(pending.data) \in Nat /\ Len(pending.data) < ChunkBytes
  BY DEF Held, Filling, Buffering, PartOf, Accounted, Numbered, WellFormed
<1>2. /\ Buffering(none, input) /\ none.data = <<>> /\ none.stream = writing.stream
      /\ none = [stream |-> none.stream, data |-> none.data] /\ Len(none.data) = 0
  BY <1>1, EmptySeq DEF Turning, Buffering, PartOf, OfStream
<1>3. /\ WellFormed(Flushed(pending, chunks), input)
      /\ HandedBy(chunks) \in Seq(1..Len(input))
      /\ HandedBy(Flushed(pending, chunks)) = HandedBy(chunks) \o pending.data
  <2>1. Len(pending.data) <= ChunkBytes
    BY <1>1, ChunkerAssumption
  <2> QED
    BY <2>1, FlushKeeps DEF Held, Numbered, Filling, Accounted
<1>4. HandedBy(chunks) \o pending.data \in Seq(1..N)
  <2> HIDE DEF N
  <2> QED
    BY <1>1, <1>3, ConcatProperties DEF N
<1> HIDE DEF none
<1>5. CASE OtherStream
  <2>1. given = Flushed(pending, chunks) /\ before = none
    BY <1>5 DEF none
  <2>2. HandedBy(given) \o before.data = HandedBy(given)
    BY <1>2, <1>3, <1>4, <2>1, ConcatEmptySeq
  <2>3. HandedBy(given) \in Seq(1..N) /\ HandedBy(given) = HandedBy(chunks) \o pending.data
    BY <1>3, <1>4, <2>1
  <2>4. WellFormed(given, input)
    BY <1>3, <2>1
  <2>5. Len(before.data) < ChunkBytes /\ Len(before.data) \in Nat
    BY <1>2, <2>1, ChunkerAssumption
  <2>6. Buffering(before, input) /\ before.stream = writing.stream /\ before = [stream |-> before.stream, data |-> before.data]
    BY <1>2, <2>1
  <2> QED
    BY <2>2, <2>3, <2>4, <2>5, <2>6
<1>6. CASE ~OtherStream /\ pending.data = <<>>
  <2>1. given = chunks /\ before = none
    BY <1>6 DEF none
  <2> QED
    BY <1>2, <1>3, <1>6, <2>1, ChunkerAssumption DEF Held, Numbered
<1>7. CASE ~OtherStream /\ pending.data # <<>>
  <2>1. given = chunks /\ before = pending /\ pending.stream = writing.stream
    BY <1>7 DEF OtherStream
  <2>2. pending = [stream |-> pending.stream, data |-> pending.data]
    BY <1>1 DEF PartOf
  <2> QED
    BY <1>1, <1>3, <2>1, <2>2 DEF Held, Numbered, Filling
<1> QED
  BY <1>5, <1>6, <1>7

\* A chunk that is added to.
LEMMA Fuller ==
    ASSUME NEW b, NEW stream, b.stream = stream, b = [stream |-> b.stream, data |-> b.data], NEW s
    PROVE  [b EXCEPT !.data = @ \o s] = [stream |-> stream, data |-> b.data \o s]
<1>1. \A x, y, z : [[stream |-> x, data |-> y] EXCEPT !.data = z] = [stream |-> x, data |-> z]
  OBVIOUS
<1>2. [b EXCEPT !.data = b.data \o s] = [[stream |-> b.stream, data |-> b.data] EXCEPT !.data = b.data \o s]
  OBVIOUS
<1> QED
  BY <1>1, <1>2

\* A turn takes the next bytes, up to a full chunk, and counts them.
LEMMA WriteTurnKeeps ==
    ASSUME ChunkerInv, WriteTurn
    PROVE  Held' /\ Turning' /\ Accounted' /\ closed' = closed /\ ~closed
<1> DEFINE given == IF OtherStream THEN Flushed(pending, chunks) ELSE chunks
           before == IF OtherStream \/ pending.data = <<>> THEN [stream |-> writing.stream, data |-> <<>>] ELSE pending
           n == Min({ChunkBytes - Len(before.data), Len(Allowed)})
           s == SubSeq(Allowed, 1, n)
           rest == SubSeq(Allowed, n + 1, Len(Allowed))
           after == [before EXCEPT !.data = @ \o s]
           full == Len(after.data) = ChunkBytes
           N == Len(input)
<1>0. holder = "writer" /\ writing.data # <<>> /\ Open
  BY DEF WriteTurn, Open
<1>1. /\ chunks' = IF full THEN Flushed(after, given) ELSE given
      /\ pending' = IF full THEN Nothing ELSE after
      /\ written' = written + n /\ writing' = [writing EXCEPT !.data = rest]
      /\ truncated' = (truncated \/ Allowed # writing.data)
      /\ holder' = holder /\ input' = input /\ closed' = closed
  BY DEF WriteTurn, closeVars
<1>2. /\ N \in Nat /\ written \in Nat /\ input \in Seq(Stream) /\ writing \in PartOf(N) /\ writing.stream \in Stream
      /\ Len(writing.data) \in Nat /\ writing.data \in Seq(1..N)
  BY <1>0 DEF ChunkerInv, Turning, Accounted, Buffering, PartOf
<1>3. /\ Allowed \in Seq(1..N) /\ Len(Allowed) \in Nat /\ Len(Allowed) <= Len(writing.data)
      /\ \A j \in 1..Len(Allowed) : Allowed[j] = writing.data[j]
      /\ Capped => written + Len(Allowed) <= MaxOutput
      /\ Allowed # writing.data => Capped /\ written + Len(Allowed) = MaxOutput /\ Len(Allowed) < Len(writing.data)
  BY <1>0, AllowedPart DEF ChunkerInv
<1>4. /\ WellFormed(given, input) /\ HandedBy(given) \in Seq(1..N)
      /\ Buffering(before, input) /\ before.stream = writing.stream
      /\ before = [stream |-> before.stream, data |-> before.data]
      /\ Len(before.data) < ChunkBytes /\ Len(before.data) \in Nat
      /\ HandedBy(given) \o before.data = HandedBy(chunks) \o pending.data
  <2> HIDE DEF given, before
  <2> QED
    BY <1>0, BeforeTurn DEF ChunkerInv, given, before
<1> HIDE DEF given, before
<1>5. n \in 0..Len(Allowed) /\ n <= ChunkBytes - Len(before.data)
  <2> DEFINE a == ChunkBytes - Len(before.data)
             b == Len(Allowed)
  <2>1. a \in Nat /\ b \in Nat
    BY <1>3, <1>4, ChunkerAssumption
  <2>2. n \in {a, b} /\ n <= a /\ n <= b
    <3>1. n = Min({a, b})
      OBVIOUS
    <3> HIDE DEF a, b, n
    <3> QED
      BY <2>1, <3>1, MinOfTwo
  <2>3. n \in Nat
    <3> HIDE DEF a, b, n
    <3> QED
      BY <2>1, <2>2
  <2> HIDE DEF n
  <2> QED
    BY <2>1, <2>2, <2>3
<1> HIDE DEF n, N
<1>6. /\ s \in Seq(1..N) /\ Len(s) = n /\ \A j \in 1..n : s[j] = Allowed[j]
      /\ rest \in Seq(1..N) /\ Len(rest) = Len(Allowed) - n
      /\ \A j \in 1..Len(Allowed) - n : rest[j] = Allowed[n + j]
  <2>1. N \in Nat /\ Allowed \in Seq(1..N) /\ n \in 0..Len(Allowed)
    BY <1>2, <1>3, <1>5
  <2> QED
    BY <2>1, TurnTakes
<1> HIDE DEF s, rest
<1>7. \A j \in 1..Len(writing.data) : writing.data[j] = written + j /\ input[writing.data[j]] = writing.stream
  BY <1>0 DEF ChunkerInv, Turning, InOrder, Buffering, OfStream
<1>8. InOrder(s, written) /\ OfStream(s, writing.stream, input)
  <2>1. \A j \in 1..n : j \in 1..Len(Allowed) /\ j \in 1..Len(writing.data)
    BY <1>2, <1>3, <1>5
  <2>2. \A j \in 1..n : s[j] = writing.data[j] /\ j \in 1..Len(writing.data)
    BY <1>3, <1>6, <2>1
  <2> QED
    BY <1>2, <1>6, <1>7, <2>2 DEF InOrder, OfStream
<1>9. InOrder(rest, written + n) /\ OfStream(rest, writing.stream, input)
  <2>1. \A j \in 1..Len(rest) : rest[j] = writing.data[n + j] /\ n + j \in 1..Len(writing.data)
    <3> SUFFICES ASSUME NEW j \in 1..Len(rest)
                 PROVE  rest[j] = writing.data[n + j] /\ n + j \in 1..Len(writing.data)
      OBVIOUS
    <3>1. j \in 1..Len(Allowed) - n /\ n + j \in 1..Len(Allowed) /\ n + j \in 1..Len(writing.data)
      BY <1>2, <1>3, <1>5, <1>6
    <3> QED
      BY <1>3, <1>6, <3>1
  <2>2. \A j \in 1..Len(rest) : rest[j] = written + n + j
    BY <1>2, <1>5, <1>7, <2>1, <1>6
  <2>3. \A j \in 1..Len(rest) : input[rest[j]] = writing.stream
    BY <1>7, <2>1
  <2> QED
    BY <1>2, <2>2, <2>3 DEF InOrder, OfStream
<1>10. /\ after = [stream |-> writing.stream, data |-> before.data \o s]
       /\ Buffering(after, input) /\ Len(after.data) <= ChunkBytes /\ Len(after.data) \in Nat
  <2>1. before.data \in Seq(1..N) /\ OfStream(before.data, writing.stream, input)
    BY <1>4 DEF Buffering, PartOf, N
  <2>2. /\ before.data \o s \in Seq(1..N) /\ Len(before.data \o s) = Len(before.data) + n
        /\ OfStream(before.data \o s, writing.stream, input)
    <3>1. N \in Nat /\ s \in Seq(1..N) /\ OfStream(s, writing.stream, input)
      BY <1>2, <1>6, <1>8
    <3>2. /\ before.data \o s \in Seq(1..N) /\ Len(before.data \o s) = Len(before.data) + Len(s)
          /\ OfStream(before.data \o s, writing.stream, input)
      BY <2>1, <3>1, SameStream
    <3> QED
      BY <1>6, <3>2
  <2>3. after = [stream |-> writing.stream, data |-> before.data \o s]
    BY <1>4, Fuller
  <2>4. Len(before.data) + n <= ChunkBytes /\ Len(before.data) + n \in Nat
    BY <1>3, <1>4, <1>5, ChunkerAssumption
  <2> HIDE DEF after
  <2> QED
    BY <1>2, <2>2, <2>3, <2>4 DEF Buffering, PartOf, N
<1>11. HandedBy(given) \o after.data = [i \in 1..written + n |-> i]
  <2>1. before.data \in Seq(1..N)
    BY <1>4 DEF Buffering, PartOf, N
  <2>2. HandedBy(given) \o (before.data \o s) = (HandedBy(given) \o before.data) \o s
    <3>1. HandedBy(given) \in Seq(1..N) /\ s \in Seq(1..N)
      BY <1>4, <1>6
    <3> DEFINE h == HandedBy(given)
               p == before.data
    <3>2. h \in Seq(1..N) /\ p \in Seq(1..N)
      BY <2>1, <3>1
    <3> HIDE DEF h, p
    <3>3. h \o (p \o s) = (h \o p) \o s
      BY <3>1, <3>2, ConcatAssociative
    <3> QED
      BY <3>3 DEF h, p
  <2>3. (HandedBy(given) \o before.data) \o s = [i \in 1..written |-> i] \o s
    BY <1>4 DEF ChunkerInv, Held, Faithful
  <2>4. [i \in 1..written |-> i] \o s = [i \in 1..written + n |-> i]
    BY <1>2, <1>6, <1>8, NextInOrder
  <2> QED
    BY <1>10, <2>2, <2>3, <2>4
<1> HIDE DEF after
<1>12. Held'
  <2>1. CASE full
    <3>1. /\ WellFormed(chunks', input') /\ HandedBy(chunks') = HandedBy(given) \o after.data
          /\ pending' = Nothing
      BY <1>1, <1>2, <1>4, <1>10, <2>1, FlushKeeps
    <3>2. HandedBy(given) \o after.data \in Seq(1..N)
      BY <1>2, <1>4, <1>10, ConcatProperties DEF Buffering, PartOf, N
    <3>3. HandedBy(chunks') \o <<>> = HandedBy(chunks')
      BY <3>1, <3>2, ConcatEmptySeq
    <3>4. Faithful'
      BY <1>1, <1>2, <1>11, <3>1, <3>3, NothingBuffered DEF Faithful
    <3>5. Numbered' /\ Filling'
      BY <1>1, <1>2, <3>1, NothingBuffered, ChunkerAssumption DEF Numbered, Filling
    <3> QED
      BY <3>4, <3>5 DEF Held
  <2>2. CASE ~full
    <3>1. chunks' = given /\ pending' = after /\ input' = input /\ written' = written + n
      BY <1>1, <2>2
    <3>2. Len(after.data) < ChunkBytes
      BY <1>10, <2>2, ChunkerAssumption
    <3> QED
      BY <1>4, <1>10, <1>11, <3>1, <3>2 DEF Held, Numbered, Filling, Faithful
  <2> QED
    BY <2>1, <2>2
<1>13. writing' = [stream |-> writing.stream, data |-> rest]
  BY <1>1, <1>2 DEF PartOf
<1>14. Turning'
  <2>1. Buffering(writing', input')
    BY <1>1, <1>2, <1>6, <1>9, <1>13 DEF Buffering, PartOf, N
  <2>2. InOrder(writing'.data, written')
    BY <1>1, <1>9, <1>13
  <2> QED
    BY <1>0, <1>1, <1>2, <1>13, <2>1, <2>2 DEF Turning
<1>15. written' + Len(writing'.data) = written + Len(Allowed)
  BY <1>1, <1>2, <1>3, <1>5, <1>6, <1>13
<1>16. Accounted'
  <2>1. n \in Nat /\ written' \in Nat /\ truncated' \in BOOLEAN /\ input' \in Seq(Stream) /\ Len(input') <= MaxBytes
    BY <1>1, <1>2, <1>3, <1>5 DEF ChunkerInv, Accounted
  <2>2. Capped' => written' <= MaxOutput
    BY <1>1, <1>2, <1>3, <1>5, <2>1, ChunkerAssumption DEF Capped
  <2>3. ~truncated' => Len(input') = written' + Len(writing'.data)
    BY <1>1, <1>15 DEF ChunkerInv, Accounted
  <2>4. ASSUME truncated' PROVE Capped /\ Len(input) > MaxOutput /\ written' + Len(writing'.data) = MaxOutput
    <3>1. CASE Allowed # writing.data
      <4>1. Capped /\ written + Len(Allowed) = MaxOutput /\ Len(Allowed) < Len(writing.data)
        BY <1>3, <3>1
      <4>2. Len(input) > MaxOutput
        BY <1>0, <1>2, <1>3, <4>1, ChunkerAssumption DEF ChunkerInv, Accounted, N
      <4> QED
        BY <1>15, <4>1, <4>2
    <3>2. CASE truncated /\ Allowed = writing.data
      BY <1>0, <1>15, <3>2 DEF ChunkerInv, Accounted
    <3> QED
      BY <1>1, <2>4, <3>1, <3>2 DEF ChunkerInv, Accounted
  <2>5. Capped' = Capped
    BY DEF Capped
  <2> QED
    BY <1>1, <2>1, <2>2, <2>3, <2>4, <2>5 DEF Accounted
<1>17. ~closed
  BY <1>0, ChunkerAssumption DEF ChunkerInv, Closing
<1> QED
  BY <1>1, <1>12, <1>14, <1>16, <1>17

\* A Write begins with nothing left of another, after all that was written or
\* beyond the cap.
LEMMA BeginWriteKeeps ==
    ASSUME ChunkerInv, NEW stream \in Stream, NEW n \in 1..MaxBytes, BeginWrite(stream, n)
    PROVE  ChunkerInv'
<1> DEFINE t == [i \in 1..n |-> stream]
           data == [i \in 1..n |-> Len(input) + i]
           N == Len(input)
           M == Len(input \o t)
<1>1. /\ holder = None /\ ~closed /\ Len(input) + n <= MaxBytes /\ holder' = "writer"
      /\ input' = input \o t /\ writing' = [stream |-> stream, data |-> data]
      /\ UNCHANGED <<written, truncated, pending, chunks, closer, closed, returned, flusher>>
  BY DEF BeginWrite, Refused, Lock, outVars, closeVars
<1>2. n \in Nat /\ input \in Seq(Stream) /\ N \in Nat /\ t \in Seq(Stream) /\ Len(t) = n /\ \A j \in 1..n : t[j] = stream
  BY ChunkerAssumption DEF ChunkerInv, Accounted
<1>3. /\ input \o t \in Seq(Stream) /\ M = N + n
      /\ \A j \in 1..n : (input \o t)[N + j] = stream
  BY <1>2, ConcatProperties
<1>4. data \in Seq(1..M) /\ Len(data) = n /\ \A j \in 1..n : data[j] = N + j
  BY <1>2, <1>3
<1> HIDE DEF t, data, M
<1>5. Held'
  <2>1. WellFormed(chunks, input \o t) /\ Buffering(pending, input \o t)
    BY <1>2, OfferKeeps DEF ChunkerInv, Held, Numbered, Filling
  <2> QED
    BY <1>1, <2>1 DEF ChunkerInv, Held, Numbered, Filling, Faithful
<1>6. writing = Nothing /\ Len(writing.data) = 0
  BY <1>1, <1>2, NothingBuffered, ChunkerAssumption DEF ChunkerInv, Turning
<1>7. Turning'
  <2>1. OfStream(data, stream, input \o t)
    BY <1>2, <1>3, <1>4 DEF OfStream
  <2>2. writing'.stream = stream /\ writing'.data = data
    BY <1>1
  <2>3. Buffering(writing', input')
    <3>1. writing' \in PartOf(M)
      BY <1>1, <1>4 DEF PartOf
    <3> QED
      BY <1>1, <2>1, <2>2, <3>1 DEF Buffering, M
  <2>4. ASSUME Open PROVE InOrder(data, written)
    <3>1. ~truncated
      BY <1>6, <2>4, ChunkerAssumption DEF ChunkerInv, Accounted, Open
    <3>2. written = N
      BY <1>6, <3>1 DEF ChunkerInv, Accounted
    <3> QED
      BY <1>4, <3>2 DEF InOrder
  <2>5. Open' = Open
    BY <1>1 DEF Open, Capped
  <2> QED
    BY <1>1, <2>2, <2>3, <2>4, <2>5 DEF Turning
<1>8. Accounted'
  <2>1. Len(input') = N + n /\ Len(writing'.data) = n /\ input' \in Seq(Stream)
    BY <1>1, <1>3, <1>4 DEF M
  <2>2. Open' = Open /\ Capped' = Capped
    BY <1>1 DEF Open, Capped
  <2>3. truncated => Len(input) > MaxOutput /\ Capped /\ ~Open
    BY <1>6, ChunkerAssumption DEF ChunkerInv, Accounted, Open
  <2>4. ~truncated => N = written /\ written \in Nat
    BY <1>6 DEF ChunkerInv, Accounted
  <2>5. truncated' = truncated /\ written' = written /\ Len(input') <= MaxBytes
    BY <1>1, <2>1
  <2>6. truncated => Len(input') > MaxOutput
    BY <1>2, <2>1, <2>3, ChunkerAssumption
  <2>7. ~truncated => Len(input') = written + Len(writing'.data)
    BY <2>1, <2>4
  <2> QED
    BY <2>1, <2>2, <2>3, <2>5, <2>6, <2>7 DEF ChunkerInv, Accounted
<1>9. Closing'
  BY <1>1, ChunkerAssumption DEF ChunkerInv, Closing
<1> QED
  BY <1>5, <1>7, <1>8, <1>9 DEF ChunkerInv

\* What a Write leaves when it ends is nothing, or what the cap dropped.
LEMMA WriteEnds ==
    ASSUME ChunkerInv, WriteStops \/ EndWrite
    PROVE  ChunkerInv'
<1>1. /\ holder = "writer" /\ holder' = None /\ writing' = Nothing
      /\ UNCHANGED <<written, input, pending, chunks, closer, closed, returned, flusher>>
  BY DEF WriteStops, EndWrite, Unlock, outVars, closeVars
<1>2. Held'
  BY <1>1 DEF ChunkerInv, Held, Numbered, Filling, Faithful
<1>3. Buffering(Nothing, input) /\ Nothing.data = <<>> /\ Len(Nothing.data) = 0
  BY NothingBuffered DEF ChunkerInv, Accounted
<1>4. Turning'
  BY <1>1, <1>3, ChunkerAssumption DEF Turning, InOrder
<1>5. Open' = Open /\ Capped' = Capped
  BY <1>1 DEF Open, Capped
<1>6. Accounted'
  <2>1. CASE WriteStops
    <3>1. truncated' = TRUE /\ Capped /\ ~Open /\ writing.data # <<>>
      BY <2>1 DEF WriteStops, Open
    <3>2. Len(input) > MaxOutput
      <4>1. Len(writing.data) \in Nat /\ Len(writing.data) > 0
        BY <3>1, EmptySeq DEF ChunkerInv, Turning, Buffering, PartOf
      <4>2. written = MaxOutput
        BY <3>1, ChunkerAssumption DEF ChunkerInv, Accounted, Open
      <4> QED
        BY <4>1, <4>2, ChunkerAssumption DEF ChunkerInv, Accounted
    <3> QED
      BY <1>1, <1>5, <3>1, <3>2 DEF ChunkerInv, Accounted
  <2>2. CASE EndWrite
    <3>1. truncated' = truncated /\ writing.data = <<>> /\ Len(writing.data) = 0
      BY <2>2, EmptySeq DEF EndWrite
    <3> QED
      BY <1>1, <1>3, <1>5, <3>1 DEF ChunkerInv, Accounted
  <2> QED
    BY <2>1, <2>2
<1>7. Closing'
  <2>1. truncated' = truncated \/ ~closed
    BY <1>1, ChunkerAssumption DEF ChunkerInv, Closing
  <2>2. ~closed /\ closer # "returned"
    BY <1>1, ChunkerAssumption DEF ChunkerInv, Closing
  <2> QED
    BY <1>1, <2>2 DEF ChunkerInv, Closing
<1> QED
  BY <1>2, <1>4, <1>6, <1>7 DEF ChunkerInv

\* A turn holds the mutex, so Close has not set closed.
LEMMA WriteTurnHolds ==
    ASSUME ChunkerInv, WriteTurn PROVE ChunkerInv'
<1>1. Held' /\ Turning' /\ Accounted' /\ ~closed
  BY WriteTurnKeeps
<1>2. UNCHANGED <<holder, closer, closed, returned, flusher>>
  BY DEF WriteTurn, closeVars
<1>3. Closing'
  BY <1>1, <1>2 DEF ChunkerInv, Closing
<1> QED
  BY <1>1, <1>3 DEF ChunkerInv

\* The ticker's goroutine and Close leave the Write in progress alone.
LEMMA NoWrite ==
    ASSUME ChunkerInv, UNCHANGED writeVars, holder' = holder
    PROVE  Turning' /\ Accounted'
<1>1. UNCHANGED <<writing, written, truncated, input, holder>>
  BY DEF writeVars
<1>2. Open' = Open /\ Capped' = Capped
  BY <1>1 DEF Open, Capped
<1> QED
  BY <1>1, <1>2 DEF ChunkerInv, Turning, Accounted

\* A tick flushes only before Close waited for the flusher to be done.
LEMMA FlushOnTicksHolds ==
    ASSUME ChunkerInv, FlushOnTicks PROVE ChunkerInv'
<1>1. UNCHANGED writeVars /\ holder' = holder /\ UNCHANGED <<closer, closed, returned>>
  BY DEF FlushOnTicks, Tick, FlushOnTick, FlusherStops, closeVars
<1>2. Turning' /\ Accounted'
  BY <1>1, NoWrite
<1>3. CASE Tick \/ FlusherStops
  <2>1. UNCHANGED <<pending, chunks>> /\ UNCHANGED <<written, truncated, input>>
    BY <1>1, <1>3 DEF Tick, FlusherStops, outVars, writeVars
  <2>2. Held'
    BY <2>1 DEF ChunkerInv, Held, Numbered, Filling, Faithful
  <2>3. Closing'
    BY <1>1, <1>3, <2>1 DEF ChunkerInv, Closing, Tick, FlusherStops
  <2> QED
    BY <1>2, <2>2, <2>3 DEF ChunkerInv
<1>4. CASE FlushOnTick
  <2>1. flusher = "tick" /\ flusher' = "select" /\ FlushLocked /\ UNCHANGED <<written, truncated, input>>
    BY <1>1, <1>4 DEF FlushOnTick, writeVars
  <2>2. Held'
    BY <2>1, FlushLockedHolds DEF ChunkerInv
  <2>3. ~closed
    BY <2>1 DEF ChunkerInv, Closing
  <2>4. Closing'
    BY <1>1, <2>1, <2>3 DEF ChunkerInv, Closing
  <2> QED
    BY <1>2, <2>2, <2>4 DEF ChunkerInv
<1> QED
  BY <1>3, <1>4 DEF FlushOnTicks

\* Close waits for the mutex, so for the end of a Write, before the last flush.
LEMMA CloseHolds ==
    ASSUME ChunkerInv, Close PROVE ChunkerInv'
<1>1. UNCHANGED writeVars /\ UNCHANGED <<written, truncated, input>> /\ flusher' = flusher
  BY DEF Close, BeginClose, FinalFlush, CloseReturns, writeVars
<1>2. CASE BeginClose
  <2>1. closer = "open" /\ closer' = "stopping" /\ UNCHANGED <<holder, pending, chunks, closed, returned>>
    BY <1>2 DEF BeginClose, outVars
  <2>2. Held'
    BY <1>1, <2>1 DEF ChunkerInv, Held, Numbered, Filling, Faithful
  <2>3. Closing'
    BY <1>1, <2>1 DEF ChunkerInv, Closing
  <2> QED
    BY <1>1, <2>1, <2>2, <2>3, NoWrite DEF ChunkerInv
<1>3. CASE FinalFlush
  <2>1. /\ closer = "stopping" /\ flusher = "done" /\ holder \in {None, "closer"} /\ FlushLocked
        /\ closed' = TRUE /\ closer' = "flushed" /\ holder' = None /\ returned' = returned
    BY <1>3 DEF FinalFlush, Unlock
  <2>2. holder = None
    BY <2>1, ChunkerAssumption DEF ChunkerInv, Closing
  <2>3. Held' /\ pending' = Nothing
    BY <1>1, <2>1, FlushLockedHolds DEF ChunkerInv
  <2>4. Closing'
    BY <1>1, <2>1, <2>3 DEF ChunkerInv, Closing
  <2> QED
    BY <1>1, <2>1, <2>2, <2>3, <2>4, NoWrite DEF ChunkerInv
<1>4. CASE CloseReturns
  <2>1. /\ closer = "flushed" /\ closer' = "returned" /\ returned' = [lastSeq |-> Len(chunks), truncated |-> truncated]
        /\ UNCHANGED <<holder, pending, chunks, closed>>
    BY <1>4 DEF CloseReturns, outVars
  <2>2. Held'
    BY <1>1, <2>1 DEF ChunkerInv, Held, Numbered, Filling, Faithful
  <2>3. Closing'
    BY <1>1, <2>1 DEF ChunkerInv, Closing
  <2> QED
    BY <1>1, <2>1, <2>2, <2>3, NoWrite DEF ChunkerInv
<1> QED
  BY <1>2, <1>3, <1>4 DEF Close

\* Every step keeps the invariant.
LEMMA ChunkerStep == ChunkerInv /\ [ChunkerNext]_chunkerVars => ChunkerInv'
<1> SUFFICES ASSUME ChunkerInv, [ChunkerNext]_chunkerVars PROVE ChunkerInv'
  OBVIOUS
<1>1. CASE UNCHANGED chunkerVars
  <2>1. UNCHANGED writeVars /\ UNCHANGED <<written, truncated, input, holder, pending, chunks, closer, closed, returned, flusher>>
    BY <1>1 DEF chunkerVars, writeVars, outVars, closeVars
  <2>2. Held' /\ Closing'
    BY <2>1 DEF ChunkerInv, Held, Numbered, Filling, Faithful, Closing
  <2> QED
    BY <2>1, <2>2, NoWrite DEF ChunkerInv
<1>2. CASE Write
  BY <1>2, BeginWriteKeeps, WriteTurnHolds, WriteEnds DEF Write
<1> QED
  BY <1>1, <1>2, FlushOnTicksHolds, CloseHolds DEF ChunkerNext

\* A new chunker has written nothing.
LEMMA ChunkerStarts == ChunkerInit => ChunkerInv
<1> SUFFICES ASSUME ChunkerInit PROVE ChunkerInv
  OBVIOUS
<1>1. /\ holder = None /\ writing = Nothing /\ pending = Nothing /\ written = 0 /\ truncated = FALSE
      /\ closed = FALSE /\ chunks = <<>> /\ input = <<>> /\ flusher = "select" /\ closer = "open" /\ returned = None
  BY DEF ChunkerInit
<1>2. input \in Seq(Stream) /\ Len(input) = 0
  BY <1>1, EmptySeq
<1>3. Buffering(Nothing, input) /\ Nothing.data = <<>> /\ Len(Nothing.data) = 0
  BY <1>2, NothingBuffered
<1>4. Numbered
  BY <1>1, <1>2, EmptySeq DEF Numbered, WellFormed
<1>5. Faithful
  <2>1. <<>> \o <<>> = <<>> /\ [i \in 1..0 |-> i] = <<>>
    OBVIOUS
  <2>2. HandedBy(chunks) = <<>> /\ pending.data = <<>>
    BY <1>1, <1>3, HandedByNone
  <2> QED
    BY <1>1, <2>1, <2>2 DEF Faithful
<1>6. Filling
  BY <1>1, <1>3, ChunkerAssumption DEF Filling
<1>7. Turning
  BY <1>1, <1>2, <1>3, ChunkerAssumption DEF Turning, InOrder
<1>8. Accounted
  <2>1. Len(writing.data) = 0 /\ written = 0 /\ ~truncated /\ truncated \in BOOLEAN
    BY <1>1, <1>3
  <2>2. Len(input) <= MaxBytes /\ 0 <= MaxOutput
    BY <1>2, ChunkerAssumption
  <2> QED
    BY <1>2, <2>1, <2>2 DEF Accounted
<1>9. Closing
  BY <1>1 DEF Closing
<1> QED
  BY <1>4, <1>5, <1>6, <1>7, <1>8, <1>9 DEF ChunkerInv, Held

\* Where a Write stands, what is pending and what was handed over fit together,
\* whatever ticks, cap and Close fall between its turns (Write, flushLocked).
THEOREM ChunkerInductive == ChunkerSpec => []ChunkerInv
  BY ChunkerStarts, ChunkerStep, PTL DEF ChunkerSpec

\* Every variable of a chunker keeps its type, and what is pending never fills
\* a chunk (Write, flushLocked, Close).
THEOREM ChunkerTypeCorrect == ChunkerSpec => []ChunkerTypeOK
<1>1. ChunkerInv => ChunkerTypeOK
  <2> SUFFICES ASSUME ChunkerInv PROVE ChunkerTypeOK
    OBVIOUS
  <2> DEFINE N == Len(input)
  <2>1. N \in Nat /\ N <= MaxBytes /\ input \in Seq(Stream)
    BY DEF ChunkerInv, Accounted
  <2>2. \A s \in Seq(1..N) : s \in Seq(1..MaxBytes)
    <3>1. 1..N \subseteq 1..MaxBytes
      BY <2>1, ChunkerAssumption
    <3> HIDE DEF N
    <3> QED
      BY <3>1, SeqMonotonic
  <2>3. PartOf(N) \subseteq Buffered
    <3> HIDE DEF N
    <3> QED
      BY <2>2 DEF PartOf, Buffered
  <2>4. chunks \in Seq([seq : Nat, stream : Stream, data : Seq(1..MaxBytes)])
    <3>1. chunks \in Seq(ChunkOf(N))
      BY DEF ChunkerInv, Held, Numbered, WellFormed
    <3>2. ChunkOf(N) \subseteq [seq : Nat, stream : Stream, data : Seq(1..MaxBytes)]
      <4> HIDE DEF N
      <4> QED
        BY <2>2 DEF ChunkOf
    <3> HIDE DEF N
    <3> QED
      BY <3>1, <3>2, SeqMonotonic
  <2>5. writing \in Buffered /\ pending \in Buffered /\ Len(pending.data) < ChunkBytes
    BY <2>3 DEF ChunkerInv, Turning, Held, Filling, Buffering
  <2>6. written \in 0..MaxBytes /\ (Capped => written <= MaxOutput)
    <3>1. Len(writing.data) \in Nat
      BY DEF ChunkerInv, Turning, Buffering, PartOf
    <3>2. written \in Nat /\ written <= N
      BY <3>1, ChunkerAssumption DEF ChunkerInv, Accounted
    <3> QED
      BY <2>1, <3>2, ChunkerAssumption DEF ChunkerInv, Accounted
  <2>7. returned = None \/ returned \in [lastSeq : Nat, truncated : BOOLEAN]
    <3>1. Len(chunks) \in Nat
      BY <2>4
    <3>2. truncated \in BOOLEAN
      BY DEF ChunkerInv, Accounted
    <3> QED
      BY <3>1, <3>2 DEF ChunkerInv, Closing
  <2> QED
    BY <2>1, <2>4, <2>5, <2>6, <2>7 DEF ChunkerTypeOK, ChunkerInv, Closing, Accounted
<1> QED
  BY <1>1, ChunkerInductive, PTL

\* The chunks are the bytes written, each once, in order and in its stream, for
\* any sizes of chunks, writes and limit (Write, flushLocked).
THEOREM OutputIsFaithful == ChunkerSpec => []OutputFaithful
<1>1. ChunkerInv => OutputFaithful
  <2> SUFFICES ASSUME ChunkerInv PROVE OutputFaithful
    OBVIOUS
  <2> DEFINE N == Len(input)
  <2>1. N \in Nat /\ chunks \in Seq(ChunkOf(N))
    BY DEF ChunkerInv, Accounted, Held, Numbered, WellFormed
  <2>2. DOMAIN chunks = 1..Len(chunks) /\ \A i \in 1..Len(chunks) : chunks[i].data \in Seq(1..N)
    <3> HIDE DEF N
    <3> QED
      BY <2>1, DataOfChunks
  <2>3. ASSUME NEW i \in DOMAIN chunks
        PROVE  /\ chunks[i].seq = i /\ Len(chunks[i].data) \in 1..ChunkBytes
               /\ \A j \in DOMAIN chunks[i].data : input[chunks[i].data[j]] = chunks[i].stream
    <3>1. /\ chunks[i].seq = i /\ Len(chunks[i].data) \in 1..ChunkBytes
          /\ OfStream(chunks[i].data, chunks[i].stream, input)
      BY <2>2, <2>3 DEF ChunkerInv, Held, Numbered, WellFormed
    <3>2. DOMAIN chunks[i].data = 1..Len(chunks[i].data) /\ chunks[i].data # <<>>
      BY <2>2, <2>3, <3>1, LenProperties, EmptySeq
    <3> QED
      BY <3>1, <3>2 DEF OfStream
  <2>4. Handed \o pending.data = [i \in 1..written |-> i]
    BY DEF ChunkerInv, Held, Faithful, HandedBy, Handed
  <2> QED
    BY <2>3, <2>4 DEF OutputFaithful
<1> QED
  BY <1>1, ChunkerInductive, PTL

\* What Close returned stays true, and says truncated exactly if bytes are
\* missing (Close).
THEOREM CloseSeals == ChunkerSpec => []SealedByClose
<1>1. ChunkerInv => SealedByClose
  <2> SUFFICES ASSUME ChunkerInv, closer = "returned"
               PROVE  /\ Len(chunks) = returned.lastSeq /\ pending.data = <<>>
                      /\ returned.truncated <=> Len(Handed) < Len(input)
    BY DEF SealedByClose
  <2>1. /\ returned.lastSeq = Len(chunks) /\ returned.truncated = truncated /\ pending = Nothing
        /\ holder = None
    BY DEF ChunkerInv, Closing
  <2>2. input \in Seq(Stream) /\ Len(input) \in Nat /\ written \in Nat
    BY DEF ChunkerInv, Accounted
  <2>3. pending.data = <<>> /\ writing = Nothing /\ Len(writing.data) = 0
    BY <2>1, <2>2, NothingBuffered, ChunkerAssumption DEF ChunkerInv, Turning
  <2>4. Len(Handed) = written
    <3>1. Handed = HandedBy(chunks)
      BY DEF Handed, HandedBy
    <3>2. HandedBy(chunks) \in Seq(1..Len(input))
      BY <2>2, HandedByIsSeq DEF ChunkerInv, Held, Numbered, WellFormed
    <3>3. HandedBy(chunks) \o <<>> = HandedBy(chunks)
      BY <3>2, ConcatEmptySeq
    <3>4. HandedBy(chunks) = [i \in 1..written |-> i]
      BY <2>3, <3>3 DEF ChunkerInv, Held, Faithful
    <3> QED
      BY <2>2, <3>1, <3>4
  <2>5. ~truncated => Len(input) = written
    BY <2>2, <2>3 DEF ChunkerInv, Accounted
  <2>6. truncated => written < Len(input)
    BY <2>2, ChunkerAssumption DEF ChunkerInv, Accounted
  <2>7. truncated \in BOOLEAN
    BY DEF ChunkerInv, Accounted
  <2> QED
    BY <2>1, <2>2, <2>3, <2>4, <2>5, <2>6, <2>7
<1> QED
  BY <1>1, ChunkerInductive, PTL
=============================================================================
