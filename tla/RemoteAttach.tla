---------------------------- MODULE RemoteAttach ----------------------------
(***************************************************************************)
(* `babysit --host H attach`: a terminal shows the output of a session on  *)
(* another machine over an SSH bridge that may be cut at any time, and     *)
(* resumes where it was (remote.rs, attach and bridge).  The worker side   *)
(* is one connection of handle_attach, fed by the OutputHub.               *)
(***************************************************************************)
EXTENDS OutputHub

CONSTANTS
    viewer,         \* the connection of the attached terminal at the hub
    Modes,          \* how it was started, see AttachModes
    MaxCuts         \* bound on lost connections and failed handshakes

\* "visual": both ends are terminals, the display is rebuilt from the backlog
\* after a loss; "plain": output is resumed; "once": --no-reconnect.
AttachModes == {"visual", "plain", "once"}

ASSUME RemoteAssumption ==
    /\ Resuming = {viewer} /\ Legacy = {}
    /\ Modes \subseteq AttachModes
    /\ MaxCuts \in Nat

VARIABLES
    session,        \* "running", then its exit is "announced", then "gone"
    due,            \* history: bytes produced when the exit was announced
    racing,         \* history: this connection had just found no output then
    mode,           \* how the attach was started
    \* handle_attach on the worker.
    server,         \* what the connection does next
    readPos,        \* offset in write_log_range_frames
    \* The bridge.
    link,           \* the frames on their way to the terminal
    cuts,
    \* attach on the terminal's machine.
    place,          \* where the attach stands
    established,    \* established_once
    cursor,         \* cursor, NoCursor for None
    shown           \* the bytes written to the terminal

sessionVars == <<session, due, racing, mode>>
serverVars  == <<server, readPos, client, inbox>>
viewerVars  == <<place, established, cursor, shown>>
hubSide     == <<produced, files, spawns, hub>>
vars == <<hubVars, sessionVars, server, readPos, link, cuts, viewerVars>>

NoCursor == -1
Output(offset, bytes) == [kind |-> "output", offset |-> offset, bytes |-> bytes]
Final(kind) == [kind |-> kind, offset |-> 0, bytes |-> <<>>]

TypeOK ==
    /\ HubTypeOK
    /\ session \in {"running", "announced", "gone"}
    /\ due \in 0 .. MaxBytes
    /\ racing \in BOOLEAN
    /\ mode \in Modes
    /\ server \in {"none", "hello", "replay", "stream", "quiet", "done"}
    /\ readPos \in 0 .. MaxBytes
    /\ link \in Seq([kind : {"output", "exit", "error"},
                     offset : 0 .. MaxBytes, bytes : Seq(0 .. MaxBytes)])
    /\ cuts \in 0 .. MaxCuts
    /\ place \in {"connecting", "streaming", "exited", "failed", "detached"}
    /\ established \in BOOLEAN
    /\ cursor \in {NoCursor} \cup 0 .. MaxBytes
    /\ shown \in Seq(0 .. MaxBytes)

Init ==
    /\ HubInit
    /\ session = "running"
    /\ due = 0
    /\ racing = FALSE
    /\ mode \in Modes
    /\ server = "none"
    /\ readPos = 0
    /\ link = <<>>
    /\ cuts = 0
    /\ place = "connecting"
    /\ established = FALSE
    /\ cursor = NoCursor
    /\ shown = <<>>

-----------------------------------------------------------------------------
(***************************************************************************)
(* The session.                                                            *)
(***************************************************************************)

\* A command starts or writes output; group members may write after the exit.
SessionRuns ==
    /\ session # "gone"
    /\ \/ session = "running" /\ Configure
       \/ \E size \in Sizes : Broadcast(size)
    /\ UNCHANGED <<sessionVars, server, readPos, link, cuts, viewerVars>>

\* exit_tx.send
AnnounceExit ==
    /\ session = "running"
    /\ spawns > 0
    /\ session' = "announced"
    /\ due' = produced
    /\ racing' = (server = "quiet")
    /\ UNCHANGED <<hubVars, mode, server, readPos, link, cuts, viewerVars>>

\* The connection at the worker is closed; what it has written still arrives.
Close ==
    /\ server' = "done"
    /\ client' = [client EXCEPT ![viewer] = NoClient]
    /\ inbox' = [inbox EXCEPT ![viewer] = <<>>]
    /\ UNCHANGED readPos

\* The sockets are removed and the worker process ends, not later than 2 s
\* after the announcement, whatever is attached.
WorkerEnds ==
    /\ session = "announced"
    /\ session' = "gone"
    /\ IF server = "none" THEN UNCHANGED serverVars ELSE Close
    /\ UNCHANGED <<hubSide, due, racing, mode, link, cuts, viewerVars>>

-----------------------------------------------------------------------------
(***************************************************************************)
(* handle_attach for protocol 1 without a view command.                    *)
(***************************************************************************)

\* The subscription, and what it means for the rest of the connection.
Accept ==
    /\ server = "hello"
    /\ IF cursor = NoCursor THEN ResumeFresh(viewer) ELSE Resume(viewer, cursor)
    /\ LET sub == client'[viewer]
           replays == cursor # NoCursor /\ cursor < sub.end
       IN  /\ sub.state = "live"
           /\ server' = IF replays THEN "replay" ELSE "stream"
           /\ readPos' = IF replays THEN cursor ELSE readPos
    /\ UNCHANGED <<sessionVars, link, cuts, viewerVars>>

\* The log is broken, or shorter than what the terminal has seen.
Refuse ==
    /\ server = "hello"
    /\ logError \/ (cursor # NoCursor /\ ~Resumable(cursor))
    /\ link' = Append(link, Final("error"))
    /\ Close
    /\ UNCHANGED <<hubSide, sessionVars, cuts, viewerVars>>

\* write_log_range_frames: a read returns what it likes, ReplayableRange says
\* that it returns something.
Replay ==
    /\ server = "replay"
    /\ \E n \in 1 .. client[viewer].end - readPos :
        /\ link' = Append(link, Output(readPos, SubSeq(log, readPos + 1, readPos + n)))
        /\ readPos' = readPos + n
        /\ server' = IF readPos + n = client[viewer].end THEN "stream" ELSE "replay"
    /\ UNCHANGED <<hubVars, sessionVars, cuts, viewerVars>>

Forward ==
    /\ server = "stream"
    /\ inbox[viewer] # <<>>
    /\ LET chunk == Head(inbox[viewer]) IN
        link' = Append(link, Output(chunk.offset, Bytes(chunk.first, chunk.size)))
    /\ inbox' = [inbox EXCEPT ![viewer] = Tail(@)]
    /\ UNCHANGED <<hubSide, client, sessionVars, server, readPos, cuts, viewerVars>>

\* The select polls the output first, and finds none.  Before it polls the exit
\* output may come and the exit be announced.
PollOutput ==
    /\ server = "stream"
    /\ inbox[viewer] = <<>>
    /\ server' = "quiet"
    /\ UNCHANGED <<hubVars, sessionVars, readPos, link, cuts, viewerVars>>

\* Mutant: the exit is sent as soon as it is announced.
SendExit_Early ==
    /\ server \in {"stream", "quiet"}
    /\ session = "announced"
    /\ link' = Append(link, Final("exit"))
    /\ Close
    /\ UNCHANGED <<hubSide, sessionVars, cuts, viewerVars>>

\* Queued output is polled before the exit.
SendExit ==
    /\ server = "quiet"
    /\ session = "announced"
    /\ link' = Append(link, Final("exit"))
    /\ Close
    /\ UNCHANGED <<hubSide, sessionVars, cuts, viewerVars>>

\* There is no exit either: the select waits, and polls the output again.
PollExit ==
    /\ server = "quiet"
    /\ session = "running"
    /\ server' = "stream"
    /\ UNCHANGED <<hubVars, sessionVars, readPos, link, cuts, viewerVars>>

-----------------------------------------------------------------------------
(***************************************************************************)
(* The bridge.                                                             *)
(***************************************************************************)

\* The bridge reaches the worker, passes the hello on and says it is ready.
Connect ==
    /\ place = "connecting"
    /\ session # "gone"
    /\ spawns > 0
    /\ place' = "streaming"
    /\ established' = TRUE
    /\ server' = "hello"
    /\ racing' = FALSE
    /\ UNCHANGED <<hubVars, session, due, mode, readPos, link, cuts, cursor, shown>>

\* Where a terminal without a cursor starts to read a finished log.
Tail0 == IF Len(log) < BacklogCap THEN 0 ELSE Len(log) - BacklogCap

\* Mutant: the output is repeated, but the end is not.
ConnectFinished_Silent ==
    /\ place = "connecting"
    /\ session = "gone"
    /\ place' = "streaming"
    /\ established' = TRUE
    /\ server' = "done"
    /\ link' = <<>>
    /\ racing' = FALSE
    /\ UNCHANGED <<hubVars, session, due, mode, readPos, cuts, cursor, shown>>

\* The session has finished: the bridge answers from the files.
ConnectFinished ==
    /\ place = "connecting"
    /\ session = "gone"
    /\ place' = "streaming"
    /\ established' = TRUE
    /\ server' = "done"
    /\ LET start == IF cursor = NoCursor THEN Tail0 ELSE cursor IN
        link' = IF start > Len(log) THEN <<Final("error")>>
                ELSE IF start = Len(log) THEN <<Final("exit")>>
                ELSE <<Output(start, SubSeq(log, start + 1, Len(log))), Final("exit")>>
    /\ racing' = FALSE
    /\ UNCHANGED <<hubVars, session, due, mode, readPos, cuts, cursor, shown>>

-----------------------------------------------------------------------------
(***************************************************************************)
(* The terminal.                                                           *)
(***************************************************************************)

\* reconnect_after_loss, after the first handshake and unless --no-reconnect:
\* a visual attach forgets its cursor and its display.
Reconnect ==
    /\ place' = IF established /\ mode # "once" THEN "connecting" ELSE "failed"
    /\ cursor' = IF mode = "visual" THEN NoCursor ELSE cursor
    /\ shown' = IF mode = "visual" THEN <<>> ELSE shown
    /\ UNCHANGED established

\* Everything of the lost connection is forgotten.
Abandon ==
    /\ server' = "none"
    /\ link' = <<>>
    /\ client' = [client EXCEPT ![viewer] = NoClient]
    /\ inbox' = [inbox EXCEPT ![viewer] = <<>>]
    /\ UNCHANGED readPos

HandshakeFails ==
    /\ place = "connecting"
    /\ cuts < MaxCuts
    /\ cuts' = cuts + 1
    /\ Reconnect
    /\ UNCHANGED <<hubVars, sessionVars, server, readPos, link>>

\* The transport breaks, with whatever was on its way.
Cut ==
    /\ place = "streaming"
    /\ cuts < MaxCuts
    /\ cuts' = cuts + 1
    /\ Reconnect
    /\ Abandon
    /\ UNCHANGED <<hubSide, sessionVars>>

\* The worker has closed the connection without a last word.
EndOfStream ==
    /\ place = "streaming"
    /\ server = "done"
    /\ link = <<>>
    /\ Reconnect
    /\ Abandon
    /\ UNCHANGED <<hubSide, sessionVars, cuts>>

\* Mutant: the cursor is the start of the frame shown last.
Show_Unmoved(offset, bytes) ==
    LET expected == IF cursor = NoCursor THEN offset ELSE cursor
        skip == Least(expected - offset, Len(bytes))
    IN  /\ shown' = shown \o SubSeq(bytes, skip + 1, Len(bytes))
        /\ cursor' = expected

\* offset_frame_progress on a frame without a gap: what was shown is skipped.
Show(offset, bytes) ==
    LET expected == IF cursor = NoCursor THEN offset ELSE cursor
        skip == Least(expected - offset, Len(bytes))
        end == offset + Len(bytes)
    IN  /\ shown' = shown \o SubSeq(bytes, skip + 1, Len(bytes))
        /\ cursor' = IF end > expected THEN end ELSE expected

ReceiveOutput ==
    /\ place = "streaming"
    /\ link # <<>>
    /\ Head(link).kind = "output"
    /\ IF cursor # NoCursor /\ Head(link).offset > cursor
       THEN Reconnect /\ Abandon
       ELSE /\ Show(Head(link).offset, Head(link).bytes)
            /\ link' = Tail(link)
            /\ UNCHANGED <<place, established, serverVars>>
    /\ UNCHANGED <<hubSide, sessionVars, cuts>>

ReceiveFinal ==
    /\ place = "streaming"
    /\ link # <<>>
    /\ Head(link).kind \in {"exit", "error"}
    /\ place' = IF Head(link).kind = "exit" THEN "exited" ELSE "failed"
    /\ Abandon
    /\ UNCHANGED <<hubSide, sessionVars, cuts, established, cursor, shown>>

\* Ctrl-\ twice, also while reconnecting.
UserDetaches ==
    /\ place \in {"connecting", "streaming"}
    /\ place' = "detached"
    /\ Abandon
    /\ UNCHANGED <<hubSide, sessionVars, cuts, established, cursor, shown>>

-----------------------------------------------------------------------------
Server == Accept \/ Refuse \/ Replay \/ Forward \/ PollOutput \/ SendExit \/ PollExit
Bridge == Connect \/ ConnectFinished
Terminal == ReceiveOutput \/ ReceiveFinal \/ EndOfStream
Ended == place \in {"exited", "failed", "detached"} /\ UNCHANGED vars

Next ==
    \/ SessionRuns \/ AnnounceExit \/ WorkerEnds
    \/ Server \/ Bridge \/ Terminal
    \/ HandshakeFails \/ Cut \/ UserDetaches
    \/ Ended

Spec == Init /\ [][Next]_vars

\* The worker serves its connections and ends in time, the bridge can be
\* started again, the terminal reads.  The user and the network owe nothing.
FairSpec ==
    Spec /\ WF_vars(Server) /\ WF_vars(Bridge) /\ WF_vars(Terminal)
         /\ WF_vars(WorkerEnds)

-----------------------------------------------------------------------------
\* Over all connections of an attach, every byte is shown once and in order
\* (README, remote sessions; remote.rs, offset_frame_progress).
ShownOnce ==
    \A i \in 1 .. Len(shown) - 1 : shown[i + 1] = shown[i] + 1

\* The offset an attach resumes from is where its display ends: a byte number
\* is a log offset as long as no write to the log has failed before a restart.
CursorIsTrue ==
    cursor # NoCursor /\ shown # <<>> => shown[Len(shown)] + 1 = cursor

\* An attach that reports the exit of the command has shown everything that
\* was written before the exit, if it could be logged, on whatever connection it
\* learned of it, unless the exit was announced between two polls of that
\* connection, that of the output and that of the exit (control.rs,
\* handle_attach: queued output is drained before the exit).
ExitIsComplete ==
    place = "exited" /\ capturing /\ ~racing =>
        IF shown = <<>> THEN due <= Prior ELSE shown[Len(shown)] + 1 >= due

\* Once a session ends, every attach ends, whatever was lost on the way.
AttachEnds ==
    session = "announced" ~> place \in {"exited", "failed", "detached"}
=============================================================================
