--------------------------- MODULE CollectorProofs ---------------------------
(***************************************************************************)
(* What is proved of Collector, for any limits, sizes and timezones and    *)
(* any Machine: a report is the beginning of what the Machine schedules,   *)
(* and says when it is not all of it.                                      *)
(*                                                                         *)
(* Whatever is read next, it is one of two things for the report: a line   *)
(* that is offered to it (Offered, RowLeftOut) or nothing (Quiet).  Once   *)
(* an entry that could be reported was left out, nothing more fits         *)
(* (Complete), and the zone of the parser is that of the last assignment   *)
(* of the crontab that is open (InForce).                                  *)
(***************************************************************************)
EXTENDS Collector, FiniteSetTheorems, TLAPS

Types ==
    /\ place \in Cron \cup {"begin", "timers", "rows", "reported", "cancelled"}
    /\ opened \in BOOLEAN /\ timezone \in Zone \cup {None}
    /\ call \in {None, "list", "timer", "unit"}
    /\ rows \in Nat /\ todo \in Nat /\ runnable \in BOOLEAN
    /\ cancelled \in BOOLEAN
    /\ source \in Nat /\ unreadable \subseteq unseen /\ unseen \subseteq 1..source

Budget ==
    /\ entries \in Seq(Entry) /\ Len(entries) <= MaxEntries
    /\ bytes \in 0..MaxBytes /\ omitted \in Nat /\ spent \in BOOLEAN
    /\ lines \in Seq(Line)

LEMMA Typed == TypeOK <=> Types /\ Budget
  BY DEF TypeOK, Types, Budget

\* Where a call can be in flight, and rows and schedules left.
Phases ==
    /\ call = "list" => place = "timers"
    /\ call \in {"timer", "unit"} => place = "rows"
    /\ place \notin {"rows", "cancelled"} => rows = 0 /\ todo = 0
    /\ opened => place \in Cron

\* An unreadable source is named if none is yet.
Named == unreadable = {} => unseen = {}

\* The assignments of the crontab that is open.
Assigned == {j \in DOMAIN lines : lines[j].source = source /\ lines[j].kind = "zone"}

Bounded(S) == S # {} => \E n \in S : \A j \in S : j <= n

InForce ==
    /\ \A i \in DOMAIN lines : lines[i].source <= source /\ Bounded(ZoneAbove(i))
    /\ Bounded(Assigned)
    /\ opened => timezone = IF Assigned = {} THEN None ELSE lines[Max(Assigned)].zone

\* Each entry is a line the Machine answered, as it was.
Faithful ==
    \A k \in DOMAIN entries :
        /\ entries[k].line \in Reportable
        /\ entries[k].zone = ZoneOf(entries[k].line)
        /\ entries[k].parses = lines[entries[k].line].parses

Ordered == \A k \in DOMAIN entries : \A h \in 1..(k - 1) : entries[h].line < entries[k].line

Complete ==
    /\ Reportable \subseteq Reported \/ Full
    /\ \A i \in Reportable \ Reported : \A k \in DOMAIN entries : entries[k].line < i

Counted ==
    /\ Len(entries) + omitted = Cardinality(Scheduled)
    /\ omitted = 0 => Reported = Scheduled

Report == Faithful /\ Ordered /\ Complete /\ Counted

Inv == Types /\ Budget /\ Phases /\ Named /\ InForce /\ Report

----------------------------------------------------------------------------
(* What a step is for the report.                                          *)

Quiet ==
    /\ UNCHANGED <<entries, bytes, omitted, spent, lines>>
    /\ \/ source' = source /\ (opened' => opened /\ timezone' = timezone)
       \/ source' = source + 1 /\ (opened' => timezone' = None)

\* A line of text or a schedule: kind, source and timezone as the parser has them.
Offered(kind, size, lineZone, zone, ok) ==
    /\ Remember(kind, source, size, lineZone, ok)
    /\ Add(NextEntry(zone, ok), size)
    /\ UNCHANGED <<source, opened, timezone>>

Steps ==
    \/ Quiet
    \/ \E zone \in Zone \cup {None} : AssignZone(zone)
    \/ \E size \in Size, ok \in BOOLEAN : opened /\ Offered("cron", size, None, timezone, ok)
    \/ \E size \in Size, zone \in Zone \cup {None}, ok \in BOOLEAN : Offered("timer", size, zone, zone, ok)
    \/ RowLeftOut

LEMMA StepKinds == Types /\ Phases /\ [Next]_vars => Steps
<1> SUFFICES ASSUME Types, Phases, [Next]_vars PROVE Steps
  OBVIOUS
<1> USE DEF vars, fileVars, timerVars, budgetVars, sourceVars
<1>1. CASE Begin
  BY <1>1 DEF Begin, Steps, Quiet, End
<1>2. CASE Cancel
  BY <1>2 DEF Cancel, Steps, Quiet
<1>3. CASE OpenCrontab
  BY <1>3 DEF OpenCrontab, Steps, Quiet, MoreFiles
<1>4. CASE UnreadableFile
  BY <1>4 DEF UnreadableFile, Steps, Quiet, UnreadableSource
<1>5. ASSUME NEW zone \in Zone \cup {None}, AssignZone(zone) PROVE Steps
  BY <1>5 DEF Steps
<1>6. ASSUME NEW size \in Size, NEW ok \in BOOLEAN, CronLine(size, ok) PROVE Steps
  <2>1. opened /\ Offered("cron", size, None, timezone, ok)
    BY <1>6 DEF CronLine, Offered
  <2>2. QED
    BY <2>1 DEF Steps
<1>7. CASE EndOfCrontab
  BY <1>7 DEF EndOfCrontab, Steps, Quiet
<1>8. CASE NoMoreFiles
  BY <1>8 DEF NoMoreFiles, Steps, Quiet, Following, Cron
<1>9. CASE NoSystemctl
  BY <1>9 DEF NoSystemctl, Steps, Quiet, End
<1>10. CASE ListTimers
  BY <1>10 DEF ListTimers, Steps, Quiet
<1>11. CASE Listed
  BY <1>11 DEF Listed, Steps, Quiet
<1>12. CASE ListFails
  BY <1>12 DEF ListFails, Steps, Quiet, Phases, Cron, UnreadableSource
<1>13. CASE StopReading
  BY <1>13 DEF StopReading, Steps, Quiet, End
<1>14. ASSUME NEW size \in Size, RowWithoutTimer(size) PROVE Steps
  <2>1. Offered("timer", size, None, None, FALSE)
    BY <1>14 DEF RowWithoutTimer, Offered
  <2>2. QED
    BY <2>1 DEF Steps
<1>15. CASE RowLeftOut
  BY <1>15 DEF Steps
<1>16. CASE AskTimer
  BY <1>16 DEF AskTimer, Steps, Quiet, AtRow
<1>17. CASE TimerFails
  BY <1>17 DEF TimerFails, Steps, Quiet, Phases, Cron, UnreadableSource
<1>18. ASSUME NEW n \in 0..2, NEW hasUnit \in BOOLEAN, TimerShown(n, hasUnit) PROVE Steps
  BY <1>18 DEF TimerShown, Steps, Quiet, Phases, Cron
<1>19. ASSUME NEW hasCommand \in BOOLEAN, UnitShown(hasCommand) PROVE Steps
  BY <1>19 DEF UnitShown, Steps, Quiet
<1>20. CASE UnitFails
  BY <1>20 DEF UnitFails, Steps, Quiet, Phases, Cron, UnreadableSource
<1>21. ASSUME NEW size \in Size, NEW zone \in Zone \cup {None}, AddSchedule(size, zone) PROVE Steps
  <2>1. Offered("timer", size, zone, zone, runnable) /\ runnable \in BOOLEAN
    BY <1>21 DEF AddSchedule, Offered, Types
  <2>2. QED
    BY <2>1 DEF Steps
<1>22. CASE NoMoreRows
  BY <1>22 DEF NoMoreRows, Steps, Quiet, End
<1>23. CASE UNCHANGED vars
  BY <1>23 DEF Steps, Quiet
<1>24. QED
  BY <1>1, <1>2, <1>3, <1>4, <1>5, <1>6, <1>7, <1>8, <1>9, <1>10, <1>11,
     <1>12, <1>13, <1>14, <1>15, <1>16, <1>17, <1>18, <1>19, <1>20, <1>21,
     <1>22, <1>23
     DEF Next, ReadCrontabs, Answer, ReadTimers

LEMMA NextTypes == Types /\ [Next]_vars => Types'
<1> SUFFICES ASSUME Types, [Next]_vars PROVE Types'
  OBVIOUS
<1> USE DEF Types, Cron, vars, fileVars, timerVars, budgetVars, sourceVars
<1>1. CASE Begin
  BY <1>1 DEF Begin, End
<1>2. CASE Cancel
  BY <1>2 DEF Cancel
<1>3. CASE OpenCrontab
  BY <1>3 DEF OpenCrontab, MoreFiles
<1>4. CASE UnreadableFile
  BY <1>4 DEF UnreadableFile, UnreadableSource
<1>5. ASSUME NEW zone \in Zone \cup {None}, AssignZone(zone) PROVE Types'
  BY <1>5 DEF AssignZone, Remember
<1>6. ASSUME NEW size \in Size, NEW ok \in BOOLEAN, CronLine(size, ok) PROVE Types'
  BY <1>6 DEF CronLine
<1>7. CASE EndOfCrontab
  BY <1>7 DEF EndOfCrontab
<1>8. CASE NoMoreFiles
  BY <1>8 DEF NoMoreFiles, Following, Cron
<1>9. CASE NoSystemctl
  BY <1>9 DEF NoSystemctl, End
<1>10. CASE ListTimers
  BY <1>10 DEF ListTimers
<1>11. CASE Listed
  BY <1>11 DEF Listed
<1>12. CASE ListFails
  BY <1>12 DEF ListFails, UnreadableSource
<1>13. CASE StopReading
  BY <1>13 DEF StopReading, End
<1>14. ASSUME NEW size \in Size, RowWithoutTimer(size) PROVE Types'
  BY <1>14 DEF RowWithoutTimer, AtRow
<1>15. CASE RowLeftOut
  BY <1>15 DEF RowLeftOut, AtRow, Remember
<1>16. CASE AskTimer
  BY <1>16 DEF AskTimer, AtRow
<1>17. CASE TimerFails
  BY <1>17 DEF TimerFails, UnreadableSource
<1>18. ASSUME NEW n \in 0..2, NEW hasUnit \in BOOLEAN, TimerShown(n, hasUnit) PROVE Types'
  BY <1>18 DEF TimerShown
<1>19. ASSUME NEW hasCommand \in BOOLEAN, UnitShown(hasCommand) PROVE Types'
  BY <1>19 DEF UnitShown
<1>20. CASE UnitFails
  <2>1. runnable' = FALSE /\ call' = None /\ UNCHANGED <<place, opened, timezone, rows, todo, cancelled>>
    BY <1>20 DEF UnitFails
  <2>2. source' = source + 1 /\ unreadable' \subseteq unseen' /\ unseen' \subseteq 1..source'
    BY <1>20 DEF UnitFails, UnreadableSource
  <2>3. source' \in Nat
    BY <2>2
  <2>4. runnable' \in BOOLEAN /\ call' \in {None, "list", "timer", "unit"}
    BY <2>1
  <2>5. QED
    BY <2>1, <2>2, <2>3, <2>4
<1>21. ASSUME NEW size \in Size, NEW zone \in Zone \cup {None}, AddSchedule(size, zone) PROVE Types'
  BY <1>21 DEF AddSchedule
<1>22. CASE NoMoreRows
  BY <1>22 DEF NoMoreRows, End
<1>23. CASE UNCHANGED vars
  BY <1>23
<1>24. QED
  BY <1>1, <1>2, <1>3, <1>4, <1>5, <1>6, <1>7, <1>8, <1>9, <1>10, <1>11,
     <1>12, <1>13, <1>14, <1>15, <1>16, <1>17, <1>18, <1>19, <1>20, <1>21,
     <1>22, <1>23
     DEF Next, ReadCrontabs, Answer, ReadTimers

LEMMA NextPhases == Types /\ Phases /\ [Next]_vars => Phases'
<1> SUFFICES ASSUME Types, Phases, [Next]_vars PROVE Phases'
  OBVIOUS
<1> USE DEF Phases, Types, Cron, vars, fileVars, timerVars, budgetVars, sourceVars
<1>1. CASE Begin
  BY <1>1, CollectorAssumption DEF Begin, End
<1>2. CASE Cancel
  BY <1>2, CollectorAssumption DEF Cancel
<1>3. CASE OpenCrontab
  BY <1>3, CollectorAssumption DEF OpenCrontab, MoreFiles
<1>4. CASE UnreadableFile
  BY <1>4, CollectorAssumption DEF UnreadableFile, UnreadableSource
<1>5. ASSUME NEW zone \in Zone \cup {None}, AssignZone(zone) PROVE Phases'
  BY <1>5, CollectorAssumption DEF AssignZone, Remember
<1>6. ASSUME NEW size \in Size, NEW ok \in BOOLEAN, CronLine(size, ok) PROVE Phases'
  BY <1>6, CollectorAssumption DEF CronLine
<1>7. CASE EndOfCrontab
  BY <1>7, CollectorAssumption DEF EndOfCrontab
<1>8. CASE NoMoreFiles
  BY <1>8, CollectorAssumption DEF NoMoreFiles, Following, Cron
<1>9. CASE NoSystemctl
  BY <1>9, CollectorAssumption DEF NoSystemctl, End
<1>10. CASE ListTimers
  BY <1>10, CollectorAssumption DEF ListTimers
<1>11. CASE Listed
  BY <1>11, CollectorAssumption DEF Listed
<1>12. CASE ListFails
  BY <1>12, CollectorAssumption DEF ListFails, UnreadableSource
<1>13. CASE StopReading
  BY <1>13, CollectorAssumption DEF StopReading, End
<1>14. ASSUME NEW size \in Size, RowWithoutTimer(size) PROVE Phases'
  BY <1>14, CollectorAssumption DEF RowWithoutTimer, AtRow
<1>15. CASE RowLeftOut
  BY <1>15, CollectorAssumption DEF RowLeftOut, AtRow, Remember
<1>16. CASE AskTimer
  BY <1>16, CollectorAssumption DEF AskTimer, AtRow
<1>17. CASE TimerFails
  BY <1>17, CollectorAssumption DEF TimerFails, UnreadableSource
<1>18. ASSUME NEW n \in 0..2, NEW hasUnit \in BOOLEAN, TimerShown(n, hasUnit) PROVE Phases'
  BY <1>18, CollectorAssumption DEF TimerShown
<1>19. ASSUME NEW hasCommand \in BOOLEAN, UnitShown(hasCommand) PROVE Phases'
  BY <1>19, CollectorAssumption DEF UnitShown
<1>20. CASE UnitFails
  BY <1>20, CollectorAssumption DEF UnitFails, UnreadableSource
<1>21. ASSUME NEW size \in Size, NEW zone \in Zone \cup {None}, AddSchedule(size, zone) PROVE Phases'
  BY <1>21, CollectorAssumption DEF AddSchedule
<1>22. CASE NoMoreRows
  BY <1>22, CollectorAssumption DEF NoMoreRows, End
<1>23. CASE UNCHANGED vars
  BY <1>23
<1>24. QED
  BY <1>1, <1>2, <1>3, <1>4, <1>5, <1>6, <1>7, <1>8, <1>9, <1>10, <1>11,
     <1>12, <1>13, <1>14, <1>15, <1>16, <1>17, <1>18, <1>19, <1>20, <1>21,
     <1>22, <1>23
     DEF Next, ReadCrontabs, Answer, ReadTimers

LEMMA NextNamed == Types /\ Named /\ [Next]_vars => Named'
<1> SUFFICES ASSUME Types, Named, [Next]_vars PROVE Named'
  OBVIOUS
<1>1. CASE UnreadableSource
  <2>1. Cardinality({}) = 0 /\ MaxEntries > 0
    BY FS_EmptySet, CollectorAssumption
  <2>2. unreadable' # {}
    BY <1>1, <2>1 DEF UnreadableSource, Named
  <2>3. QED
    BY <2>2 DEF Named
<1>2. CASE UNCHANGED <<unseen, unreadable>>
  BY <1>2 DEF Named
<1>3. UnreadableSource \/ UNCHANGED <<unseen, unreadable>>
  BY DEF Next, ReadCrontabs, Answer, ReadTimers, vars, sourceVars, End,
         Begin, Cancel, OpenCrontab, UnreadableFile, AssignZone, CronLine, EndOfCrontab,
         NoMoreFiles, NoSystemctl, ListTimers, Listed, ListFails, StopReading, RowWithoutTimer,
         RowLeftOut, AskTimer, TimerFails, TimerShown, UnitShown, UnitFails, AddSchedule, NoMoreRows
<1>4. QED
  BY <1>1, <1>2, <1>3

----------------------------------------------------------------------------
(* What a line leaves as it was.                                           *)

LEMMA LinesGrow ==
  ASSUME Budget, NEW x \in Line, lines' = Append(lines, x)
  PROVE  /\ lines' \in Seq(Line) /\ Len(lines) \in Nat
         /\ DOMAIN lines = 1..Len(lines) /\ DOMAIN lines' = 1..(Len(lines) + 1)
         /\ \A i \in DOMAIN lines : lines'[i] = lines[i]
         /\ lines'[Len(lines) + 1] = x
  BY DEF Budget

LEMMA LineFields ==
  ASSUME NEW x \in Line
  PROVE  x.source \in Nat /\ x.size \in Nat
<1>1. x.source \in Nat
  BY DEF Line
<1>2. x.size \in Size \cup {0}
  BY DEF Line
<1>3. Size \cup {0} \subseteq Nat
  BY CollectorAssumption
<1>4. QED
  BY <1>1, <1>2, <1>3

LEMMA MaxIs ==
  ASSUME NEW S \in SUBSET Nat, NEW n \in S, \A j \in S : j <= n
  PROVE  Max(S) = n
<1>1. PICK m \in S : m = Max(S) /\ \A y \in S : m >= y
  BY DEF Max
<1>2. m <= n /\ m >= n /\ m \in Nat /\ n \in Nat
  BY <1>1
<1>3. QED
  BY <1>1, <1>2

\* The zone of a line that is there does not change.
LEMMA ZonesKept ==
  ASSUME Budget, InForce, NEW x \in Line, lines' = Append(lines, x), NEW i \in DOMAIN lines
  PROVE  ZoneAbove(i)' = ZoneAbove(i) /\ ZoneOf(i)' = ZoneOf(i)
<1>1. ZoneAbove(i)' = ZoneAbove(i)
  BY LinesGrow DEF ZoneAbove
<1>2. lines'[i] = lines[i]
  BY LinesGrow
<1>3. ASSUME ZoneAbove(i) # {} PROVE lines'[Max(ZoneAbove(i))] = lines[Max(ZoneAbove(i))]
  <2>1. PICK n \in ZoneAbove(i) : \A j \in ZoneAbove(i) : j <= n
    BY <1>3 DEF InForce, Bounded
  <2>2. ZoneAbove(i) \subseteq DOMAIN lines /\ DOMAIN lines \subseteq Nat
    BY LinesGrow DEF ZoneAbove
  <2>3. Max(ZoneAbove(i)) = n
    BY <2>1, <2>2, MaxIs
  <2>4. QED
    BY <2>1, <2>2, <2>3, LinesGrow
<1>4. QED
  BY <1>1, <1>2, <1>3 DEF ZoneOf

LEMMA NextAbove ==
  ASSUME Budget, NEW x \in Line, lines' = Append(lines, x), x.source = source,
         NEW n, n = Len(lines) + 1
  PROVE  ZoneAbove(n)' = Assigned
<1>1. lines'[n] = x /\ 1..(n - 1) = DOMAIN lines /\ \A i \in DOMAIN lines : lines'[i] = lines[i]
  BY LinesGrow
<1>2. ZoneAbove(n)' = {j \in DOMAIN lines : lines'[j].source = source /\ lines'[j].kind = "zone"}
  BY <1>1 DEF ZoneAbove
<1>3. QED
  BY <1>1, <1>2 DEF Assigned

\* The zone above the next line is that of the assignments so far.
LEMMA NextZone ==
  ASSUME Budget, InForce, NEW x \in Line, lines' = Append(lines, x), x.source = source,
         x.kind # "timer", NEW n, n = Len(lines) + 1
  PROVE  ZoneOf(n)' = IF Assigned = {} THEN None ELSE lines[Max(Assigned)].zone
<1>1. ZoneAbove(n)' = Assigned
  BY NextAbove
<1>2. lines'[n] = x
  BY LinesGrow
<1>3. ASSUME Assigned # {} PROVE lines'[Max(Assigned)] = lines[Max(Assigned)]
  <2>1. PICK m \in Assigned : \A j \in Assigned : j <= m
    BY <1>3 DEF InForce, Bounded
  <2>2. Assigned \subseteq DOMAIN lines /\ DOMAIN lines \subseteq Nat
    BY LinesGrow DEF Assigned
  <2>3. Max(Assigned) = m
    BY <2>1, <2>2, MaxIs
  <2>4. QED
    BY <2>1, <2>2, <2>3, LinesGrow
<1>4. QED
  BY <1>1, <1>2, <1>3 DEF ZoneOf

\* A line that assigns no zone, and one that does.
LEMMA InForceKept ==
  ASSUME Types, Budget, InForce, NEW x \in Line, lines' = Append(lines, x), x.source = source,
         x.kind # "zone", UNCHANGED <<source, opened, timezone>>
  PROVE  InForce'
<1>1. Assigned' = Assigned
  BY LinesGrow DEF Assigned
<1>2. ASSUME Assigned # {} PROVE lines'[Max(Assigned)] = lines[Max(Assigned)]
  <2>1. PICK m \in Assigned : \A j \in Assigned : j <= m
    BY <1>2 DEF InForce, Bounded
  <2>2. Assigned \subseteq DOMAIN lines /\ DOMAIN lines \subseteq Nat
    BY LinesGrow DEF Assigned
  <2>3. Max(Assigned) = m
    BY <2>1, <2>2, MaxIs
  <2>4. QED
    BY <2>1, <2>2, <2>3, LinesGrow
<1>3. \A n : n = Len(lines) + 1 => ZoneAbove(n)' = Assigned
  BY NextAbove
<1>4. \A i \in DOMAIN lines' : Bounded(ZoneAbove(i)')
  <2>1. TAKE i \in DOMAIN lines'
  <2>2. i \in DOMAIN lines \/ i = Len(lines) + 1
    BY LinesGrow
  <2>3. QED
    BY <1>3, <2>2, ZonesKept DEF InForce
<1>5. \A i \in DOMAIN lines' : lines'[i].source <= source'
  BY LinesGrow DEF InForce, Types
<1>6. QED
  BY <1>1, <1>2, <1>4, <1>5 DEF InForce

LEMMA InForceAssigned ==
  ASSUME Types, Budget, InForce, NEW x \in Line, lines' = Append(lines, x), x.source = source,
         x.kind = "zone", timezone' = x.zone, UNCHANGED source
  PROVE  InForce'
<1>1. Assigned' = Assigned \cup {Len(lines) + 1}
  BY LinesGrow DEF Assigned
<1>2. Assigned \subseteq 1..Len(lines) /\ Len(lines) \in Nat
  BY LinesGrow DEF Assigned
<1>3. Max(Assigned') = Len(lines) + 1
  BY <1>1, <1>2, MaxIs
<1>4. Bounded(Assigned')
  BY <1>1, <1>2 DEF Bounded
<1>5. \A n : n = Len(lines) + 1 => ZoneAbove(n)' = Assigned
  BY NextAbove
<1>6. \A i \in DOMAIN lines' : Bounded(ZoneAbove(i)')
  <2>1. TAKE i \in DOMAIN lines'
  <2>2. i \in DOMAIN lines \/ i = Len(lines) + 1
    BY LinesGrow
  <2>3. QED
    BY <1>5, <2>2, ZonesKept DEF InForce
<1>7. \A i \in DOMAIN lines' : lines'[i].source <= source'
  BY LinesGrow DEF InForce, Types
<1>8. lines'[Len(lines) + 1].zone = timezone'
  BY LinesGrow
<1>9. QED
  BY <1>1, <1>3, <1>4, <1>6, <1>7, <1>8 DEF InForce

\* Lines that are left alone, under a parser that keeps its zone or starts anew.
LEMMA InForceQuiet ==
  ASSUME Types, Budget, InForce, UNCHANGED lines,
         \/ source' = source /\ (opened' => opened /\ timezone' = timezone)
         \/ source' = source + 1 /\ (opened' => timezone' = None)
  PROVE  InForce'
<1>1. \A i \in DOMAIN lines : ZoneAbove(i)' = ZoneAbove(i)
  BY DEF ZoneAbove
<1>2. lines \in Seq(Line) /\ source \in Nat
  BY DEF Types, Budget
<1>3. \A i \in DOMAIN lines : lines[i].source \in Nat
  BY <1>2, LineFields
<1>4. \A i \in DOMAIN lines : lines[i].source <= source'
  BY <1>2, <1>3 DEF InForce
<1>5. CASE source' = source /\ (opened' => opened /\ timezone' = timezone)
  <2>1. Assigned' = Assigned
    BY <1>5 DEF Assigned
  <2>2. QED
    BY <1>1, <1>4, <1>5, <2>1 DEF InForce
<1>6. CASE source' = source + 1 /\ (opened' => timezone' = None)
  <2>1. Assigned' = {}
    BY <1>2, <1>3, <1>6 DEF Assigned, InForce
  <2>2. QED
    BY <1>1, <1>4, <1>6, <2>1 DEF InForce, Bounded
<1>7. QED
  BY <1>5, <1>6

----------------------------------------------------------------------------
(* The report after a line.                                                *)

\* What is reportable after a line that is none, and one that is.
LEMMA AfterLine ==
  ASSUME Budget, NEW x \in Line, lines' = Append(lines, x)
  PROVE  /\ Scheduled' = IF x.kind = "zone" THEN Scheduled ELSE Scheduled \cup {Len(lines) + 1}
         /\ Reportable' = IF x.kind = "zone" \/ x.size > MaxBytes THEN Reportable
                          ELSE Reportable \cup {Len(lines) + 1}
         /\ Reportable \subseteq Scheduled /\ Scheduled \subseteq 1..Len(lines)
         /\ Cardinality(Scheduled') = IF x.kind = "zone" THEN Cardinality(Scheduled)
                                      ELSE Cardinality(Scheduled) + 1
         /\ Cardinality(Scheduled) \in Nat
<1>1. Scheduled' = IF x.kind = "zone" THEN Scheduled ELSE Scheduled \cup {Len(lines) + 1}
  BY LinesGrow DEF Scheduled
<1>2. x.size \in Nat /\ MaxBytes \in Nat
  BY CollectorAssumption, LineFields
<1>3. Reportable' = IF x.kind = "zone" \/ x.size > MaxBytes THEN Reportable
                    ELSE Reportable \cup {Len(lines) + 1}
  BY <1>1, <1>2, LinesGrow DEF Reportable, Scheduled
<1>4. Reportable \subseteq Scheduled /\ Scheduled \subseteq 1..Len(lines) /\ Len(lines) \in Nat
  BY LinesGrow DEF Reportable, Scheduled
<1>5. IsFiniteSet(Scheduled) /\ Len(lines) + 1 \notin Scheduled
  <2>1. IsFiniteSet(1..Len(lines))
    BY <1>4, FS_Interval
  <2>2. Scheduled \in SUBSET (1..Len(lines)) /\ Len(lines) + 1 \notin 1..Len(lines)
    BY <1>4
  <2>3. IsFiniteSet(Scheduled)
    BY <2>1, <2>2, FS_Subset
  <2>4. QED
    BY <1>4, <2>2, <2>3
<1>6. QED
  BY <1>1, <1>3, <1>4, <1>5, FS_AddElement, FS_CardinalityType

\* Entries that are left alone stay faithful.
LEMMA FaithfulKept ==
  ASSUME Budget, InForce, Faithful, NEW x \in Line, lines' = Append(lines, x), UNCHANGED entries
  PROVE  Faithful'
<1>1. ASSUME NEW k \in DOMAIN entries
      PROVE  /\ entries[k].line \in Reportable'
             /\ entries[k].zone = ZoneOf(entries[k].line)'
             /\ entries[k].parses = lines'[entries[k].line].parses
  <2>1. entries[k].line \in Reportable /\ entries[k].line \in DOMAIN lines
    BY DEF Faithful, Reportable, Scheduled
  <2>2. QED
    BY <2>1, AfterLine, ZonesKept, LinesGrow DEF Faithful
<1>2. QED
  BY <1>1 DEF Faithful

\* A line whose entry is left out, because it is too large or nothing more fits.
LEMMA LeftOut ==
  ASSUME Budget, InForce, Report, NEW x \in Line, lines' = Append(lines, x), x.kind # "zone",
         UNCHANGED entries, omitted' = omitted + 1,
         (x.size > MaxBytes /\ UNCHANGED spent) \/ Full'
  PROVE  Report'
<1>1. Reported' = Reported /\ omitted \in Nat
  BY DEF Reported, Budget
<1>2. Faithful' /\ Ordered'
  BY FaithfulKept DEF Report, Ordered
<1>3. Counted'
  <2>1. Len(entries) \in Nat /\ omitted' # 0
    BY DEF Budget
  <2>2. QED
    BY <1>1, <2>1, AfterLine DEF Report, Counted
<1>4. \A k \in DOMAIN entries : entries[k].line < Len(lines) + 1
  BY AfterLine, LinesGrow DEF Report, Faithful
<1>5. CASE x.size > MaxBytes /\ UNCHANGED spent
  BY <1>1, <1>2, <1>3, <1>5, AfterLine DEF Report, Complete, Full
<1>6. CASE Full'
  <2>1. \A i \in Reportable' \ Reported' : \A k \in DOMAIN entries : entries[k].line < i
    BY <1>1, <1>4, AfterLine DEF Report, Complete
  <2>2. QED
    BY <1>2, <1>3, <1>6, <2>1 DEF Report, Complete
<1>7. QED
  BY <1>5, <1>6

\* A line whose entry is taken: everything reportable was reported.
LEMMA Taken ==
  ASSUME Budget, InForce, Report, NEW x \in Line, lines' = Append(lines, x), x.kind # "zone",
         x.size <= MaxBytes, ~Full, UNCHANGED omitted,
         NEW e \in Entry, entries' = Append(entries, e),
         NEW n, n = Len(lines) + 1, e.line = n, e.zone = ZoneOf(n)', e.parses = x.parses
  PROVE  Report'
<1>1. /\ entries \in Seq(Entry) /\ Len(entries) \in Nat /\ DOMAIN entries = 1..Len(entries)
      /\ DOMAIN entries' = 1..(Len(entries) + 1) /\ Len(entries') = Len(entries) + 1
      /\ \A k \in DOMAIN entries : entries'[k] = entries[k]
      /\ entries'[Len(entries) + 1] = e
  BY DEF Budget
<1>2. Reported' = Reported \cup {Len(lines) + 1}
  BY <1>1 DEF Reported
<1>3. x.size \in Nat /\ MaxBytes \in Nat
  BY CollectorAssumption, LineFields
<1>4. Reportable' = Reportable \cup {Len(lines) + 1}
  BY <1>3, AfterLine
<1>5. Faithful'
  <2>1. ASSUME NEW k \in DOMAIN entries, NEW i, i = entries[k].line
        PROVE  i \in Reportable' /\ entries[k].zone = ZoneOf(i)' /\ entries[k].parses = lines'[i].parses
    <3>1. i \in Reportable /\ i \in DOMAIN lines
      BY <2>1 DEF Report, Faithful, Reportable, Scheduled
    <3>2. ZoneOf(i)' = ZoneOf(i)
      BY <3>1, ZonesKept
    <3>3. QED
      BY <2>1, <3>1, <3>2, <1>4, LinesGrow DEF Report, Faithful
  <2>2. n \in Reportable' /\ e.parses = lines'[n].parses
    BY <1>4, LinesGrow
  <2>3. ASSUME NEW k \in DOMAIN entries', NEW i, i = entries'[k].line
        PROVE  /\ i \in Reportable' /\ entries'[k].zone = ZoneOf(i)'
               /\ entries'[k].parses = lines'[i].parses
    <3>0. k \in DOMAIN entries \/ k = Len(entries) + 1
      BY <1>1
    <3>1. CASE k \in DOMAIN entries
      BY <2>1, <2>3, <3>1, <1>1
    <3>2. CASE k = Len(entries) + 1
      <4>1. entries'[k] = e /\ i = n
        BY <2>3, <3>2, <1>1
      <4>2. QED
        BY <2>2, <4>1
    <3>3. QED
      BY <3>0, <3>1, <3>2
  <2>4. QED
    BY <2>3 DEF Faithful
<1>6. Ordered'
  <2>1. \A k \in DOMAIN entries : entries[k].line < Len(lines) + 1
    BY AfterLine, LinesGrow DEF Report, Faithful
  <2>2. \A k \in DOMAIN entries' : \A h \in 1..(k - 1) : h \in DOMAIN entries
    BY <1>1
  <2>3. \A k \in DOMAIN entries' : k \in DOMAIN entries \/ k = Len(entries) + 1
    BY <1>1
  <2>4. QED
    BY <1>1, <2>1, <2>2, <2>3 DEF Report, Ordered
<1>7. Complete'
  BY <1>2, <1>4 DEF Report, Complete
<1>8. Counted'
  <2>1. omitted \in Nat
    BY DEF Budget
  <2>2. QED
    BY <1>1, <1>2, <2>1, AfterLine DEF Report, Counted
<1>9. QED
  BY <1>5, <1>6, <1>7, <1>8 DEF Report

LEMMA Zoned ==
  ASSUME Budget, InForce, Report, NEW x \in Line, lines' = Append(lines, x), x.kind = "zone",
         UNCHANGED <<entries, omitted, spent>>
  PROVE  Report'
<1>1. Reported' = Reported
  BY DEF Reported
<1>2. QED
  BY <1>1, FaithfulKept, AfterLine DEF Report, Ordered, Complete, Counted, Full

----------------------------------------------------------------------------
(* One step.                                                               *)

\* What a remembered line is.
LEMMA Remembered ==
  ASSUME Types, Budget, NEW kind \in {"zone", "cron", "timer", "row"}, NEW size \in Size \cup {0},
         NEW zone \in Zone \cup {None}, NEW ok \in BOOLEAN, Remember(kind, source, size, zone, ok)
  PROVE  \E x \in Line : /\ lines' = Append(lines, x) /\ x.source = source
                         /\ x.kind = kind /\ x.size = size /\ x.zone = zone /\ x.parses = ok
<1> DEFINE x == [source |-> source, kind |-> kind, size |-> size, zone |-> zone, parses |-> ok]
<1>1. x \in Line
  BY DEF Types, Line
<1>2. lines' = Append(lines, x)
  BY DEF Remember
<1>3. QED
  BY <1>1, <1>2

LEMMA OfferedStep ==
  ASSUME Types, Budget, InForce, Report,
         NEW kind \in {"cron", "timer"}, NEW size \in Size, NEW lineZone \in Zone \cup {None},
         NEW zone \in Zone \cup {None}, NEW ok \in BOOLEAN,
         Offered(kind, size, lineZone, zone, ok),
         kind = "timer" => zone = lineZone, kind = "cron" => opened /\ zone = timezone
  PROVE  Budget' /\ InForce' /\ Report'
<1>1. PICK x \in Line : /\ lines' = Append(lines, x) /\ x.source = source
                        /\ x.kind = kind /\ x.size = size /\ x.zone = lineZone /\ x.parses = ok
  <2>1. kind \in {"zone", "cron", "timer", "row"} /\ size \in Size \cup {0}
    OBVIOUS
  <2>2. Remember(kind, source, size, lineZone, ok)
    BY DEF Offered
  <2>3. QED
    BY <2>1, <2>2, Remembered
<1>2. InForce'
  BY <1>1, InForceKept DEF Offered
<1>3. lines' \in Seq(Line) /\ Len(lines) \in Nat
  BY <1>1, LinesGrow
<1>4. size \in Nat /\ MaxBytes \in Nat /\ MaxEntries \in Nat
  BY <1>1, LineFields, CollectorAssumption
<1>5. CASE Skip(size)
  <2>1. Budget'
    BY <1>3, <1>5 DEF Skip, Budget
  <2>2. Report'
    BY <1>1, <1>4, <1>5, LeftOut DEF Skip, TooLarge
  <2>3. QED
    BY <1>2, <2>1, <2>2
<1>6. CASE LeaveOut(size)
  <2>1. Budget'
    BY <1>3, <1>6 DEF LeaveOut, Budget
  <2>2. Report'
    BY <1>1, <1>6, LeftOut DEF LeaveOut, Full
  <2>3. QED
    BY <1>2, <2>1, <2>2
<1>7. CASE Take(NextEntry(zone, ok), size)
  <2>0. PICK n : n = Len(lines) + 1
    OBVIOUS
  <2>1. PICK e \in Entry : e = NextEntry(zone, ok) /\ e.line = n /\ e.zone = zone /\ e.parses = ok
    <3>1. NextEntry(zone, ok) \in Entry
      BY <1>3 DEF NextEntry, Entry
    <3>2. QED
      BY <3>1, <2>0 DEF NextEntry
  <2>2. entries' = Append(entries, e) /\ omitted' = omitted /\ spent' = spent /\ bytes' = bytes + size
        /\ ~TooLarge(size) /\ ~Full /\ bytes + size <= MaxBytes
    BY <1>7, <2>1 DEF Take, Fits
  <2>3. zone = ZoneOf(n)'
    <3>1. CASE kind = "timer"
      <4>1. lines'[n] = x
        BY <1>1, <2>0, LinesGrow
      <4>2. QED
        BY <1>1, <3>1, <4>1 DEF ZoneOf
    <3>2. CASE kind = "cron"
      <4>1. ZoneOf(n)' = IF Assigned = {} THEN None ELSE lines[Max(Assigned)].zone
        BY <1>1, <2>0, <3>2, NextZone
      <4>2. QED
        BY <3>2, <4>1 DEF InForce
    <3>3. QED
      BY <3>1, <3>2
  <2>4. Report'
    <3>1. x.kind # "zone" /\ x.size <= MaxBytes /\ e.parses = x.parses
      BY <1>1, <1>4, <2>1, <2>2 DEF TooLarge
    <3>2. QED
      BY <1>1, <2>0, <2>1, <2>2, <2>3, <3>1, Taken
  <2>5. entries' \in Seq(Entry) /\ Len(entries') <= MaxEntries
    BY <1>4, <2>1, <2>2 DEF Budget, Full
  <2>6. bytes' \in 0..MaxBytes
    BY <1>4, <2>2 DEF Budget
  <2>7. Budget'
    BY <1>3, <2>2, <2>5, <2>6 DEF Budget
  <2>8. QED
    BY <1>2, <2>4, <2>7
<1>8. QED
  BY <1>5, <1>6, <1>7 DEF Offered, Add

LEMMA RowLeftOutStep ==
  ASSUME Types, Budget, InForce, Report, RowLeftOut
  PROVE  Budget' /\ InForce' /\ Report'
<1> USE DEF RowLeftOut, fileVars, sourceVars
<1>1. PICK x \in Line : lines' = Append(lines, x) /\ x.source = source /\ x.kind = "row"
  <2>1. /\ "row" \in {"zone", "cron", "timer", "row"} /\ 0 \in Size \cup {0}
        /\ None \in Zone \cup {None}
    OBVIOUS
  <2>2. \E ok \in BOOLEAN : Remember("row", source, 0, None, ok)
    OBVIOUS
  <2>3. QED
    BY <2>1, <2>2, Remembered
<1>2. InForce'
  BY <1>1, InForceKept
<1>3. Full'
  BY DEF Full
<1>4. Report'
  BY <1>1, <1>3, LeftOut
<1>5. lines' \in Seq(Line)
  BY <1>1, LinesGrow
<1>6. Budget'
  BY <1>5 DEF Budget
<1>7. QED
  BY <1>2, <1>4, <1>6

LEMMA AssignZoneStep ==
  ASSUME Types, Budget, InForce, Report, NEW zone \in Zone \cup {None}, AssignZone(zone)
  PROVE  Budget' /\ InForce' /\ Report'
<1> USE DEF AssignZone, budgetVars, sourceVars
<1>1. PICK x \in Line : /\ lines' = Append(lines, x) /\ x.source = source /\ x.kind = "zone"
                        /\ x.zone = zone
  <2>1. "zone" \in {"zone", "cron", "timer", "row"} /\ 0 \in Size \cup {0}
    OBVIOUS
  <2>2. \E ok \in BOOLEAN : Remember("zone", source, 0, zone, ok)
    OBVIOUS
  <2>3. QED
    BY <2>1, <2>2, Remembered
<1>2. InForce'
  BY <1>1, InForceAssigned
<1>3. Report'
  BY <1>1, Zoned
<1>4. lines' \in Seq(Line)
  BY <1>1, LinesGrow
<1>5. Budget'
  BY <1>4 DEF Budget
<1>6. QED
  BY <1>2, <1>3, <1>5

LEMMA QuietStep ==
  ASSUME Types, Budget, InForce, Report, Quiet
  PROVE  Budget' /\ InForce' /\ Report'
<1>1. InForce'
  BY InForceQuiet DEF Quiet
<1>2. Budget'
  BY DEF Quiet, Budget
<1>3. Report'
  <2>1. Reported' = Reported /\ Scheduled' = Scheduled /\ Reportable' = Reportable
    BY DEF Quiet, Reported, Reportable, Scheduled
  <2>2. ASSUME NEW i PROVE ZoneOf(i)' = ZoneOf(i)
    <3>1. ZoneAbove(i)' = ZoneAbove(i)
      BY DEF Quiet, ZoneAbove
    <3>2. QED
      BY <3>1 DEF Quiet, ZoneOf
  <2>3. UNCHANGED <<entries, omitted, spent, lines>>
    BY DEF Quiet
  <2>4. Faithful'
    BY <2>1, <2>2, <2>3 DEF Report, Faithful
  <2>5. Ordered' /\ Complete' /\ Counted'
    BY <2>1, <2>3 DEF Report, Ordered, Complete, Counted, Full
  <2>6. QED
    BY <2>4, <2>5 DEF Report
<1>4. QED
  BY <1>1, <1>2, <1>3

LEMMA NextInv == Inv /\ [Next]_vars => Inv'
<1> SUFFICES ASSUME Inv, [Next]_vars PROVE Inv'
  OBVIOUS
<1> USE DEF Inv
<1>1. Types' /\ Phases' /\ Named'
  BY NextTypes, NextPhases, NextNamed
<1>2. CASE Quiet
  BY <1>1, <1>2, QuietStep
<1>3. ASSUME NEW zone \in Zone \cup {None}, AssignZone(zone) PROVE Inv'
  BY <1>1, <1>3, AssignZoneStep
<1>4. ASSUME NEW size \in Size, NEW ok \in BOOLEAN, opened, Offered("cron", size, None, timezone, ok)
      PROVE  Inv'
  <2>1. timezone \in Zone \cup {None} /\ "cron" # "timer"
    BY DEF Types
  <2>2. QED
    BY <1>1, <1>4, <2>1, OfferedStep
<1>5. ASSUME NEW size \in Size, NEW zone \in Zone \cup {None}, NEW ok \in BOOLEAN,
             Offered("timer", size, zone, zone, ok)
      PROVE  Inv'
  <2>1. "cron" # "timer"
    OBVIOUS
  <2>2. QED
    BY <1>1, <1>5, <2>1, OfferedStep
<1>6. CASE RowLeftOut
  BY <1>1, <1>6, RowLeftOutStep
<1>7. QED
  BY <1>2, <1>3, <1>4, <1>5, <1>6, StepKinds DEF Steps

LEMMA InitInv == Init => Inv
<1> SUFFICES ASSUME Init PROVE Inv
  OBVIOUS
<1> USE DEF Init
<1>1. Types
  BY DEF Types
<1>0. Phases /\ Named
  BY CollectorAssumption DEF Phases, Named
<1>2. MaxEntries \in Nat /\ MaxBytes \in Nat /\ 0 \in 0..MaxBytes
  BY CollectorAssumption
<1>3. Budget
  <2>1. entries \in Seq(Entry) /\ lines \in Seq(Line) /\ Len(entries) = 0
    OBVIOUS
  <2>2. omitted \in Nat /\ spent \in BOOLEAN /\ bytes = 0
    OBVIOUS
  <2>3. QED
    BY <1>2, <2>1, <2>2 DEF Budget
<1>4. Scheduled = {} /\ Reportable = {} /\ Reported = {} /\ Assigned = {} /\ DOMAIN lines = {}
  BY DEF Scheduled, Reportable, Reported, Assigned
<1>5. InForce
  BY <1>4 DEF InForce, Bounded
<1>6. Report
  BY <1>4, FS_EmptySet DEF Report, Faithful, Ordered, Complete, Counted
<1>7. QED
  BY <1>0, <1>1, <1>3, <1>5, <1>6 DEF Inv

----------------------------------------------------------------------------
LEMMA InvSays == Inv => SaysWhatIsMissing
<1> SUFFICES ASSUME Inv PROVE SaysWhatIsMissing
  OBVIOUS
<1>1. omitted \in Nat
  BY DEF Inv, Budget
<1>2. QED
  BY <1>1 DEF Inv, Report, Counted, Named, Phases, SaysWhatIsMissing, Truncated

LEMMA InvBeginning == Inv => ReportIsBeginning
  BY DEF Inv, Report, Faithful, Ordered, Complete, ReportIsBeginning

\* Inv is an invariant, whatever the Machine answers and the context does.
THEOREM Inductive == Spec => []Inv
  BY InitInv, NextInv, PTL DEF Spec

\* The limits of a discovery are never exceeded.
THEOREM TypeCorrect == Spec => []TypeOK
<1>1. Inv => TypeOK
  BY Typed DEF Inv
<1>2. QED
  BY Inductive, <1>1, PTL

\* A report is the beginning of what the Machine schedules, each entry with the
\* timezone assigned above it (add, readCrontab).
THEOREM Beginning == Spec => []ReportIsBeginning
  BY Inductive, InvBeginning, PTL

\* A report that is neither truncated nor names an unreadable source is all of
\* it (Truncated, UnreadableSources).
THEOREM NothingMissedQuietly == Spec => []SaysWhatIsMissing
  BY Inductive, InvSays, PTL
=============================================================================
