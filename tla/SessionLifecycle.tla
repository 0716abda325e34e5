-------------------------- MODULE SessionLifecycle --------------------------
(***************************************************************************)
(* What a babysit session promises to everybody who polls its status file: *)
(* the abstract specification that Worker implements.                      *)
(*                                                                         *)
(* A session is recorded as starting, runs one command after another (one  *)
(* per restart) and ends, once, as exited or killed.  A reader who sees it *)
(* running knows which command is meant (command), a command is replaced   *)
(* only after it is over, and a terminal record is final.                  *)
(***************************************************************************)
EXTENDS Naturals

CONSTANT MaxPanes               \* bound on the commands a session runs

VARIABLES
    state,      \* the recorded state of the session
    command,    \* the ordinal of the recorded command, 0 when none is
    over        \* has the recorded command been seen to finish?

vars == <<state, command, over>>

Terminal == {"exited", "killed"}

TypeOK ==
    /\ state \in {"none", "starting", "running"} \cup Terminal
    /\ command \in 0 .. MaxPanes
    /\ over \in BOOLEAN

Init ==
    /\ state = "none"
    /\ command = 0
    /\ over = FALSE

\* The worker announces the session before it starts the command.
Announce ==
    /\ state = "none"
    /\ state' = "starting"
    /\ UNCHANGED <<command, over>>

\* The first command never started: the session is over at once.
FailToStart ==
    /\ state = "starting"
    /\ state' = "exited"
    /\ UNCHANGED <<command, over>>

\* The first command is published; it may have finished already.
Publish ==
    /\ state = "starting"
    /\ state' = "running"
    /\ command' = 1
    /\ over' \in BOOLEAN

\* The recorded command finishes.
Finish ==
    /\ state = "running"
    /\ ~over
    /\ over' = TRUE
    /\ UNCHANGED <<state, command>>

\* A restart records the next command, never over one that still runs.
Replace ==
    /\ state = "running"
    /\ over
    /\ command < MaxPanes
    /\ command' = command + 1
    /\ over' \in BOOLEAN
    /\ UNCHANGED state

\* The session ends after its command did; a terminal record names no command.
End ==
    /\ state = "running"
    /\ over
    /\ state' \in Terminal
    /\ command' = 0
    /\ over' = FALSE

\* The control socket could not be set up: the session is given up, and the
\* command is terminated on a best effort only.
GiveUp ==
    /\ state = "running"
    /\ command = 1
    /\ state' = "killed"
    /\ command' = 0
    /\ over' = FALSE

Next ==
    \/ Announce \/ FailToStart \/ Publish \/ Finish
    \/ Replace \/ End \/ GiveUp

Spec == Init /\ [][Next]_vars
=============================================================================
