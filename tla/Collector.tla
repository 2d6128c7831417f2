----------------------------- MODULE Collector -----------------------------
(***************************************************************************)
(* One discovery of the scheduled work of a Machine (internal/discovery):  *)
(* the system crontab, the files of the cron directory, the users'         *)
(* crontabs and the timers of systemd, read one after the other into a     *)
(* report that is bounded in entries and bytes, while the poll context may *)
(* be cancelled.                                                           *)
(*                                                                         *)
(* The Machine is not fixed in advance: it answers each read with what it  *)
(* pleases, and lines keeps what it answered.  Of a line of text only what *)
(* the parser makes of it is kept: an assignment of a timezone, or an      *)
(* entry with its size, which parses or does not.  Blank lines, comments,  *)
(* other assignments and the files cron ignores change nothing and are     *)
(* left out.  A call of systemctl is in flight (call) until it is answered.*)
(*                                                                         *)
(* An operator X_What is X with a plausible bug: the specification never   *)
(* uses it, the properties are known to fail when it replaces X.           *)
(***************************************************************************)
EXTENDS Naturals, Sequences, FiniteSets, FiniteSetsExt

CONSTANTS
    MaxEntries, MaxBytes,
    Size,           \* the sizes entries come in, entryOverhead included
    Zone,           \* the timezones that are named
    None,
    MaxLines,       \* bound: lines and rows the Machine answers with
    MaxFiles        \* bound: crontabs and directories that are there

ASSUME CollectorAssumption ==
    /\ MaxEntries \in Nat \ {0} /\ MaxBytes \in Nat \ {0}
    /\ Size \subseteq Nat \ {0}
    /\ None \notin Zone \cup {"list", "timer", "unit"}
    /\ MaxLines \in Nat /\ MaxFiles \in Nat

VARIABLES
    place,          \* the kind of source that is being read
    opened,         \* a crontab is open
    timezone,       \* cronParser.timezone
    call,           \* the systemctl call in flight
    rows,           \* rows of list-timers that are left
    todo,           \* schedules of the current timer that are left
    runnable,       \* the current timer has a command and a schedule
    entries, unreadable, bytes, omitted, spent,    \* the collection
    cancelled,      \* the context is done
    lines,          \* history: what the Machine answered
    source,         \* history: sources that are there, counted as they are met
    unseen          \* history: those that could not be read

fileVars == <<opened, timezone>>
timerVars == <<call, rows, todo, runnable>>
budgetVars == <<entries, bytes, omitted, spent>>
sourceVars == <<source, unseen, unreadable>>
vars == <<place, fileVars, timerVars, budgetVars, cancelled, lines, sourceVars>>

Line == [source : Nat, kind : {"zone", "cron", "timer", "row"}, size : Size \cup {0},
         zone : Zone \cup {None}, parses : BOOLEAN]
Entry == [line : Nat, zone : Zone \cup {None}, parses : BOOLEAN]

----------------------------------------------------------------------------
(* The collection: what is kept, counted and named.                        *)

TooLarge(size) == size > MaxBytes

Full == spent \/ Len(entries) >= MaxEntries

Fits_IgnoresNumber(size) == ~spent /\ bytes + size <= MaxBytes
Fits_AnySmallOne(size) == Len(entries) < MaxEntries /\ bytes + size <= MaxBytes
Fits(size) == ~Full /\ bytes + size <= MaxBytes

\* An entry larger than a whole discovery is counted, and costs no other.
Skip(size) ==
    /\ TooLarge(size)
    /\ omitted' = omitted + 1
    /\ UNCHANGED <<entries, bytes, spent>>

LeaveOut(size) ==
    /\ ~TooLarge(size) /\ ~Fits(size)
    /\ spent' = TRUE /\ omitted' = omitted + 1
    /\ UNCHANGED <<entries, bytes>>

Take(entry, size) ==
    /\ ~TooLarge(size) /\ Fits(size)
    /\ entries' = Append(entries, entry) /\ bytes' = bytes + size
    /\ UNCHANGED <<omitted, spent>>

Add(entry, size) == Skip(size) \/ LeaveOut(size) \/ Take(entry, size)

\* A source that is there and cannot be read is named, unless too many are.
UnreadableSource ==
    /\ source' = source + 1 /\ unseen' = unseen \cup {source + 1}
    /\ unreadable' = IF Cardinality(unreadable) < MaxEntries
                     THEN unreadable \cup {source + 1} ELSE unreadable

Remember(kind, src, size, zone, ok) ==
    lines' = Append(lines, [source |-> src, kind |-> kind, size |-> size, zone |-> zone, parses |-> ok])

NextEntry(zone, ok) == [line |-> Len(lines) + 1, zone |-> zone, parses |-> ok]

----------------------------------------------------------------------------
(* Crontabs.                                                               *)

Cron == {"systemCrontab", "cronDirectory", "userCrontabs"}

\* The system crontab is one file, the directories hold any number.
MoreFiles == source < MaxFiles /\ (place = "systemCrontab" => source = 0)

\* readCrontab: a parser of its own for each file.
OpenCrontab ==
    /\ place \in Cron /\ ~opened /\ MoreFiles
    /\ opened' = TRUE /\ timezone' = None
    /\ source' = source + 1
    /\ UNCHANGED <<place, timerVars, budgetVars, cancelled, lines, unseen, unreadable>>

\* A file or a directory.  An absent one is passed over, and is not a source.
UnreadableFile ==
    /\ place \in Cron /\ ~opened /\ MoreFiles
    /\ UnreadableSource
    /\ UNCHANGED <<place, fileVars, timerVars, budgetVars, cancelled, lines>>

\* parse: CRON_TZ or TZ, maybe empty, for the lines below.
AssignZone(zone) ==
    /\ opened /\ Len(lines) < MaxLines
    /\ timezone' = zone
    /\ Remember("zone", source, 0, zone, TRUE)
    /\ UNCHANGED <<place, opened, timerVars, budgetVars, cancelled, sourceVars>>

\* parse: an entry, with a note if it has no schedule, user or command.
CronLine(size, ok) ==
    /\ opened /\ Len(lines) < MaxLines
    /\ Remember("cron", source, size, None, ok)
    /\ Add(NextEntry(timezone, ok), size)
    /\ UNCHANGED <<place, fileVars, timerVars, cancelled, sourceVars>>

EndOfCrontab ==
    /\ opened
    /\ opened' = FALSE
    /\ UNCHANGED <<place, timezone, timerVars, budgetVars, cancelled, lines, sourceVars>>

Following == [systemCrontab |-> "cronDirectory", cronDirectory |-> "userCrontabs",
              userCrontabs |-> "timers"]

NoMoreFiles ==
    /\ place \in Cron /\ ~opened
    /\ place' = Following[place]
    /\ UNCHANGED <<fileVars, timerVars, budgetVars, cancelled, lines, sourceVars>>

----------------------------------------------------------------------------
(* Timers.                                                                 *)

\* No call outlives it.
End(how) ==
    /\ place' = how /\ call' = None
    /\ UNCHANGED <<fileVars, rows, todo, runnable, budgetVars, cancelled, lines, sourceVars>>

NoSystemctl == place = "timers" /\ call = None /\ End("reported")

ListTimers ==
    /\ place = "timers" /\ call = None
    /\ call' = "list"
    /\ UNCHANGED <<place, fileVars, rows, todo, runnable, budgetVars, cancelled, lines, sourceVars>>

Listed ==
    /\ call = "list"
    /\ place' = "rows" /\ call' = None
    /\ rows' \in 0..(MaxLines - Len(lines))
    /\ UNCHANGED <<fileVars, todo, runnable, budgetVars, cancelled, lines, sourceVars>>

ListFails ==
    /\ call = "list" /\ ~cancelled
    /\ UnreadableSource
    /\ place' = "reported" /\ call' = None
    /\ UNCHANGED <<fileVars, rows, todo, runnable, budgetVars, cancelled, lines>>

\* The context is looked at before each row, and after a call that failed:
\* then nothing of the collection is reported.
StopReading_BetweenRows ==
    /\ cancelled
    /\ place = "rows" /\ call = None /\ todo = 0 /\ rows > 0
    /\ End("cancelled")

StopReading_KeepsTheRest ==
    /\ cancelled
    /\ \/ place = "rows" /\ call = None /\ todo = 0 /\ rows > 0
       \/ call # None
    /\ End("reported")

StopReading ==
    /\ cancelled
    /\ \/ place = "rows" /\ call = None /\ todo = 0 /\ rows > 0
       \/ call # None
    /\ End("cancelled")

AtRow == place = "rows" /\ call = None /\ todo = 0 /\ rows > 0 /\ ~cancelled

RowWithoutTimer(size) ==
    /\ AtRow
    /\ rows' = rows - 1
    /\ Remember("timer", source, size, None, FALSE)
    /\ Add(NextEntry(None, FALSE), size)
    /\ UNCHANGED <<place, fileVars, call, todo, runnable, cancelled, sourceVars>>

\* Nothing more fits: the timer is counted once and not asked for.
RowLeftOut ==
    /\ AtRow /\ Full
    /\ rows' = rows - 1
    /\ Remember("row", source, 0, None, FALSE)
    /\ omitted' = omitted + 1
    /\ UNCHANGED <<place, fileVars, call, todo, runnable, entries, bytes, spent, cancelled, sourceVars>>

AskTimer ==
    /\ AtRow /\ ~Full
    /\ rows' = rows - 1 /\ call' = "timer"
    /\ UNCHANGED <<place, fileVars, todo, runnable, budgetVars, cancelled, lines, sourceVars>>

TimerFails ==
    /\ call = "timer" /\ ~cancelled
    /\ UnreadableSource
    /\ call' = None
    /\ UNCHANGED <<place, fileVars, rows, todo, runnable, budgetVars, cancelled, lines>>

\* n schedules and the unit the timer triggers, or no unit.  A timer without a
\* schedule is one entry, that does not parse.
TimerShown(n, hasUnit) ==
    /\ call = "timer" /\ Len(lines) + rows + n <= MaxLines
    /\ source' = source + 1
    /\ todo' = IF n = 0 THEN 1 ELSE n
    /\ runnable' = (hasUnit /\ n > 0)
    /\ call' = IF hasUnit THEN "unit" ELSE None
    /\ UNCHANGED <<place, fileVars, rows, budgetVars, cancelled, lines, unseen, unreadable>>

UnitShown(hasCommand) ==
    /\ call = "unit"
    /\ call' = None
    /\ runnable' = (runnable /\ hasCommand)
    /\ UNCHANGED <<place, fileVars, rows, todo, budgetVars, cancelled, lines, sourceVars>>

\* The timer is reported all the same, without a command.
UnitFails ==
    /\ call = "unit" /\ ~cancelled
    /\ UnreadableSource
    /\ call' = None /\ runnable' = FALSE
    /\ UNCHANGED <<place, fileVars, rows, todo, budgetVars, cancelled, lines>>

AddSchedule(size, zone) ==
    /\ place = "rows" /\ call = None /\ todo > 0
    /\ todo' = todo - 1
    /\ Remember("timer", source, size, zone, runnable)
    /\ Add(NextEntry(zone, runnable), size)
    /\ UNCHANGED <<place, fileVars, call, rows, runnable, cancelled, sourceVars>>

NoMoreRows == place = "rows" /\ call = None /\ todo = 0 /\ rows = 0 /\ End("reported")

----------------------------------------------------------------------------
(* Collect.                                                                *)

Begin ==
    /\ place = "begin"
    /\ End(IF cancelled THEN "cancelled" ELSE "systemCrontab")

Cancel ==
    /\ ~cancelled
    /\ cancelled' = TRUE
    /\ UNCHANGED <<place, fileVars, timerVars, budgetVars, lines, sourceVars>>

Init ==
    /\ place = "begin" /\ opened = FALSE /\ timezone = None
    /\ call = None /\ rows = 0 /\ todo = 0 /\ runnable = FALSE
    /\ entries = <<>> /\ unreadable = {} /\ bytes = 0 /\ omitted = 0 /\ spent = FALSE
    /\ cancelled = FALSE
    /\ lines = <<>> /\ source = 0 /\ unseen = {}

ReadCrontabs ==
    \/ OpenCrontab \/ UnreadableFile \/ EndOfCrontab \/ NoMoreFiles
    \/ \E zone \in Zone \cup {None} : AssignZone(zone)
    \/ \E size \in Size, ok \in BOOLEAN : CronLine(size, ok)

\* What systemctl answers, and what the collection does of itself.
Answer ==
    \/ Listed \/ ListFails \/ TimerFails \/ UnitFails
    \/ \E n \in 0..2, hasUnit \in BOOLEAN : TimerShown(n, hasUnit)
    \/ \E hasCommand \in BOOLEAN : UnitShown(hasCommand)

ReadTimers ==
    \/ NoSystemctl \/ ListTimers \/ StopReading \/ RowLeftOut \/ AskTimer \/ NoMoreRows
    \/ \E size \in Size : RowWithoutTimer(size) \/ \E zone \in Zone \cup {None} : AddSchedule(size, zone)

Next == Begin \/ Cancel \/ ReadCrontabs \/ Answer \/ ReadTimers

Spec == Init /\ [][Next]_vars

\* The collection goes on by itself; systemctl need not ever answer.  The end
\* of the context kills it (exec.CommandContext), so StopReading is in it.
FairSpec == Spec /\ WF_vars(Begin \/ ReadCrontabs \/ ReadTimers)

----------------------------------------------------------------------------
(* Properties.                                                             *)

\* Types of the variables; the budget is never exceeded.
TypeOK ==
    /\ place \in Cron \cup {"begin", "timers", "rows", "reported", "cancelled"}
    /\ opened \in BOOLEAN /\ timezone \in Zone \cup {None}
    /\ call \in {None, "list", "timer", "unit"}
    /\ rows \in Nat /\ todo \in Nat /\ runnable \in BOOLEAN
    /\ entries \in Seq(Entry) /\ Len(entries) <= MaxEntries
    /\ bytes \in 0..MaxBytes /\ omitted \in Nat /\ spent \in BOOLEAN
    /\ cancelled \in BOOLEAN
    /\ lines \in Seq(Line)
    /\ source \in Nat /\ unreadable \subseteq unseen /\ unseen \subseteq 1..source

\* What the Machine schedules, and could be reported: all but the assignments
\* and the entries larger than a whole discovery.
Scheduled == {i \in DOMAIN lines : lines[i].kind # "zone"}
Reportable == {i \in Scheduled : lines[i].size <= MaxBytes}
Reported == {entries[k].line : k \in DOMAIN entries}

\* The timezone of a line of a crontab: the last one assigned above it in the
\* same file.
ZoneAbove(i) == {j \in 1..(i - 1) : lines[j].source = lines[i].source /\ lines[j].kind = "zone"}
ZoneOf(i) ==
    IF lines[i].kind = "timer" THEN lines[i].zone
    ELSE IF ZoneAbove(i) = {} THEN None
    ELSE lines[Max(ZoneAbove(i))].zone

\* "The report is the beginning of what the Machine schedules rather than
\* whichever entries happened to be small" (add): in order, none reported
\* after one that was left out, each with the timezone assigned above it and
\* marked if it does not parse.
ReportIsBeginning ==
    /\ \A k \in DOMAIN entries :
        /\ entries[k].line \in Reportable
        /\ \A h \in 1..(k - 1) : entries[h].line < entries[k].line
        /\ entries[k].zone = ZoneOf(entries[k].line)
        /\ entries[k].parses = lines[entries[k].line].parses
    /\ \A i \in Reportable \ Reported : \A k \in DOMAIN entries : entries[k].line < i

\* "What does not fit is counted in OmittedEntries rather than left out
\* quietly", "reports what it could read and names what it could not"
\* (discovery.go): a report that is neither truncated nor names an unreadable
\* source is all that the Machine schedules.
Truncated == omitted > 0

SaysWhatIsMissing ==
    /\ Len(entries) + omitted = Cardinality(Scheduled)
    /\ place = "reported" /\ ~Truncated /\ unreadable = {} =>
        /\ Reported = Scheduled
        /\ rows = 0 /\ todo = 0 /\ unseen = {}

\* A discovery that is told to stop ends, though systemctl may never answer:
\* what Wait, and so the end of the daemon, relies on (Shutdown).
CancelEndsDiscovery == cancelled ~> place \in {"reported", "cancelled"}
============================================================================
