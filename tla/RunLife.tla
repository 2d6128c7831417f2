------------------------------ MODULE RunLife ------------------------------
(***************************************************************************)
(* What the Agent promises of one Run to the Server and to its user: it is *)
(* executed once, with the Server's consent, and what the Server is told   *)
(* of it in the end is what happened to it.  A crash of the daemon may     *)
(* interrupt it, which can be told.  The Agent may forget it, in a crash   *)
(* before it is on record or by pruning it, and then promises less.  Agent *)
(* implements it for every Run, beside all the others.                     *)
(***************************************************************************)

CONSTANT None

VARIABLES
    consent,        \* the Server has accepted its start
    asked,          \* a user asked to cancel it
    process,        \* none, running, exited, or orphan of a daemon that died
    interrupted,    \* the daemon has died
    forgotten,      \* the Agent does not know the Run any more
    told            \* the outcome

runLifeVars == <<consent, asked, process, interrupted, forgotten, told>>

NewRun ==
    /\ consent = FALSE /\ asked = FALSE /\ process = "none"
    /\ interrupted = FALSE /\ forgotten = FALSE /\ told = None

\* start.
Consent ==
    /\ ~consent /\ ~asked /\ told = None
    /\ consent' = TRUE
    /\ UNCHANGED <<asked, process, interrupted, forgotten, told>>

Ask ==
    /\ told = None
    /\ asked' = TRUE
    /\ UNCHANGED <<consent, process, interrupted, forgotten, told>>

\* spawn, and never again, unless the Run was forgotten; even then only with a
\* consent the Server gave.
Execute ==
    /\ process # "running"
    /\ \/ consent /\ process = "none"
       \/ forgotten /\ (consent \/ told # None)
    /\ process' = "running"
    /\ UNCHANGED <<consent, asked, interrupted, forgotten, told>>

End ==
    /\ process = "running"
    /\ process' = "exited"
    /\ UNCHANGED <<consent, asked, interrupted, forgotten, told>>

\* The daemon dies.  A Run that was executed may be forgotten by it.
Interrupt ==
    /\ interrupted' = TRUE
    /\ process' = IF process = "running" THEN "orphan" ELSE process
    /\ UNCHANGED forgotten \/ (process # "none" /\ forgotten' = TRUE)
    /\ UNCHANGED <<consent, asked, told>>

\* The outcome on record is pruned: only of a Run that is over, one way or another.
Forget ==
    /\ process # "running"
    /\ process # "none" \/ consent \/ asked \/ told # None
    /\ forgotten' = TRUE
    /\ UNCHANGED <<consent, asked, process, interrupted, told>>

\* What an outcome says of the process, and of those who ended it.
Explained(o) ==
    \/ o \in {"not_started", "cancelled_before_start"} /\ process = "none"
    \/ o = "ended" /\ process = "exited"
    \/ o = "stopped" /\ process = "exited" /\ asked
    \/ o = "lost" /\ process \in {"exited", "orphan"} /\ interrupted

\* The Server accepts an outcome, once; its consent is used up.  Without it the
\* Run can only have been cancelled.
Tell ==
    /\ told = None /\ told' # None
    /\ consent \/ told' = "cancelled_before_start"
    /\ forgotten \/ Explained(told')
    /\ consent' = FALSE
    /\ UNCHANGED <<asked, process, interrupted, forgotten>>

RunLifeNext == Consent \/ Ask \/ Execute \/ End \/ Interrupt \/ Forget \/ Tell

RunLifeSpec == NewRun /\ [][RunLifeNext]_runLifeVars
=============================================================================
