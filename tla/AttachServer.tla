---------------------------- MODULE AttachServer ----------------------------
(***************************************************************************)
(* A terminal attached to a session on the same host: attach_to on one     *)
(* side of the control socket (attach.rs), handle_attach on the other      *)
(* (control.rs), perhaps with a view command between the output and the    *)
(* terminal, while the command writes and ends, somebody else orders a     *)
(* detach, and the worker waits for its clients before it goes (run.rs).   *)
(*                                                                         *)
(* Output is counted in chunks: the hub delivers them in order, whole, and *)
(* from the backlog on (OutputHub), so that numbers tell which they are.   *)
(***************************************************************************)
EXTENDS DetachFilter

CONSTANTS
    Scripts,        \* what may be typed
    Codes,          \* exit codes
    MaxChunks,      \* bounds, for each of the scripts: chunks of output
    MaxDetaches,    \* and detaches ordered by others
    MayFlood,       \* whether its output may come faster than it is sent
    MayCrash,       \* the worker may be killed
    MayQuit         \* the view command may end before its input does

NoCode == -1

ASSUME AttachAssumption ==
    /\ Scripts \subseteq Seq(Key)
    /\ Codes \subseteq Nat
    /\ {MaxChunks, MaxDetaches} \subseteq [Scripts -> Nat]
    /\ MayFlood \in [Scripts -> BOOLEAN]
    /\ {MayCrash, MayQuit} \subseteq BOOLEAN

VARIABLES
    \* The session.
    worker,     \* its process: binding its socket, serving it, gone in one of two ways
    produced,   \* chunks broadcast so far
    end,        \* the recorded end: a code or none, and whether it was killed
    announced,  \* exit_tx has been sent
    due,        \* history: the chunks produced when it was
    racing,     \* history: handle_attach had just found no output when it was
    detaches,   \* the value of detach_tx
    slow,       \* clients may take more than the 2 s they have in the end
    flood,      \* so much is written that the queue of this client never runs empty
    \* handle_attach.
    srv,        \* where it is
    attached,   \* the counter of clients
    already,    \* already_exited
    viewCmd,    \* there is a view command
    view,       \* has_view: it runs for this client
    seen,       \* the value of detach_tx when it subscribed
    sent,       \* output frames written
    last,       \* the last frame written
    pty,        \* input written to the command
    \* The view command and the tasks at its ends.
    fed,        \* chunks written to it
    eof,        \* its input has been closed
    formatted,  \* chunks it has written, on their way to handle_attach
    viewer,     \* its process
    \* attach_to.
    place,      \* where it is
    shown,      \* output frames shown
    keys,       \* what will be typed
    typed,      \* how much has been read
    filter,     \* DetachFilter
    wireIn,     \* input frames on their way to the worker
    answer      \* how it ended

session == <<worker, produced, end, announced, due, racing, detaches, slow, flood>>
handler == <<srv, attached, already, viewCmd, view, seen, sent, last, pty>>
pipe    == <<fed, eof, formatted, viewer>>
input   == <<typed, filter, wireIn>>
client  == <<place, shown, keys, input, answer>>
attach  == <<handler, pipe, client>>
vars    == <<session, attach>>

NoEnd == [code |-> NoCode, killed |-> FALSE, over |-> FALSE]
Endings == [code : Codes, killed : BOOLEAN, over : {TRUE}]
           \cup {[code |-> NoCode, killed |-> TRUE, over |-> TRUE]}
Nothing == [kind |-> "none", code |-> NoCode]

AttachTypeOK ==
    /\ worker \in {"starting", "serving", "ended", "killed"}
    /\ produced \in 0 .. MaxChunks[keys] /\ due \in 0 .. produced
    /\ end \in Endings \cup {NoEnd} /\ {announced, racing, flood} \subseteq BOOLEAN
    /\ detaches \in 0 .. MaxDetaches[keys] /\ slow \in BOOLEAN
    /\ srv \in {"none", "counted", "checked", "piped", "loop", "exit", "detach", "gone",
                "closed"}
    /\ attached = IF srv \in {"none", "closed"} THEN 0 ELSE 1
    /\ already \in BOOLEAN /\ {viewCmd, view, eof} \subseteq BOOLEAN
    /\ seen \in 0 .. detaches
    /\ last \in {"none", "exit", "detached"}
    /\ sent \in 0 .. (IF view THEN formatted ELSE produced)
    /\ shown \in 0 .. produced
    /\ fed \in 0 .. produced /\ formatted \in 0 .. fed
    /\ viewer \in {"none", "runs", "exited"}
    /\ place \in {"connect", "stream", "done"}
    /\ keys \in Scripts /\ typed \in 0 .. Len(keys)
    /\ filter \in [withheld : Seq(Key), escape : Seq(Key), out : Seq(Key), hit : Seq(Key)]
    /\ wireIn \in Seq(Key) /\ pty \in Seq(Key)
    /\ answer.kind \in {"none", "exit", "eof", "detached", "keys", "log", "error"}
    /\ answer # Nothing <=> place = "done"

Init ==
    /\ worker = "starting" /\ produced = 0 /\ end = NoEnd
    /\ announced = FALSE /\ due = 0 /\ racing = FALSE
    /\ detaches = 0 /\ slow \in BOOLEAN /\ flood = FALSE
    /\ srv = "none" /\ attached = 0 /\ already = FALSE
    /\ viewCmd \in BOOLEAN /\ view = FALSE
    /\ seen = 0 /\ sent = 0 /\ last = "none" /\ pty = <<>>
    /\ fed = 0 /\ eof = FALSE /\ formatted = 0 /\ viewer = "none"
    /\ place = "connect" /\ shown = 0
    /\ keys \in Scripts /\ typed = 0 /\ filter = NoKeys /\ wireIn = <<>>
    /\ answer = Nothing

-----------------------------------------------------------------------------
(***************************************************************************)
(* The session.                                                            *)
(***************************************************************************)

Down == worker \in {"ended", "killed"}

Bind ==
    /\ worker = "starting" /\ worker' = "serving"
    /\ UNCHANGED <<produced, end, announced, due, racing, detaches, slow, flood, attach>>

Produce ==
    /\ ~Down /\ produced < MaxChunks[keys]
    /\ produced' = produced + 1
    /\ UNCHANGED <<worker, end, announced, due, racing, detaches, slow, flood, attach>>

RecordEnd ==
    /\ worker = "serving" /\ ~end.over
    /\ end' \in Endings
    /\ UNCHANGED <<worker, produced, announced, due, racing, detaches, slow, flood, attach>>

\* The readers have been waited for, up to 500 ms.
AnnounceExit ==
    /\ worker = "serving" /\ end.over /\ ~announced
    /\ announced' = TRUE /\ due' = produced /\ racing' = (srv = "exit")
    /\ UNCHANGED <<worker, produced, end, detaches, slow, flood, attach>>

\* The worker waits until no client is counted, for 2 s.
WorkerEnds ==
    /\ worker = "serving" /\ announced
    /\ attached = 0 \/ slow \/ flood
    /\ worker' = "ended"
    /\ UNCHANGED <<produced, end, announced, due, racing, detaches, slow, flood, attach>>

Crash ==
    /\ MayCrash /\ ~Down /\ worker' = "killed"
    /\ UNCHANGED <<produced, end, announced, due, racing, detaches, slow, flood, attach>>

\* dispatch, Detach: somebody else's babysit detach.
Detach ==
    /\ worker = "serving" /\ detaches < MaxDetaches[keys]
    /\ detaches' = detaches + 1
    /\ UNCHANGED <<worker, produced, end, announced, due, racing, slow, flood, attach>>

\* The command, the rest of its group, or the view command starts or stops
\* writing faster than this client is served.  What is written in excess is not
\* counted.
Flood ==
    /\ ~Down /\ MayFlood[keys] /\ (announced => flood)
    /\ flood' = ~flood
    /\ UNCHANGED <<worker, produced, end, announced, due, racing, detaches, slow, attach>>

-----------------------------------------------------------------------------
(***************************************************************************)
(* handle_attach up to its loop.                                           *)
(***************************************************************************)

Goes(from, to) ==
    /\ worker = "serving" /\ srv = from /\ srv' = to
    /\ UNCHANGED <<session, client, viewCmd, sent, pty>>

\* Mutant: a client is not counted.
Count_Never ==
    /\ Goes("none", "counted") /\ place # "connect"
    /\ UNCHANGED <<attached, already, view, seen, last, pipe>>

\* attached.fetch_add.
Count ==
    /\ Goes("none", "counted") /\ place # "connect"
    /\ attached' = attached + 1
    /\ UNCHANGED <<already, view, seen, last, pipe>>

LookAtExit ==
    /\ Goes("counted", "checked")
    /\ already' = announced
    /\ UNCHANGED <<attached, view, seen, last, pipe>>

\* spawn_view_filter, or the raw stream when there is no view command or it
\* cannot be started.
Subscribe ==
    /\ Goes("checked", "piped")
    /\ view' \in {FALSE, viewCmd}
    /\ viewer' = IF view' THEN "runs" ELSE "none"
    /\ UNCHANGED <<attached, already, seen, last, fed, eof, formatted>>

\* The end of the function: the guard counts down, the viewer is killed.
Leave(from, frame) ==
    /\ Goes(from, "closed")
    /\ last' = frame
    /\ attached' = attached - 1
    /\ viewer' = IF view THEN "exited" ELSE "none"
    /\ UNCHANGED <<already, view, seen, fed, eof, formatted>>

Gone == place = "done"

\* detach_tx.subscribe, S_READY and the reader task.
EnterLoop ==
    \/ /\ Goes("piped", "loop")
       /\ seen' = detaches
       /\ UNCHANGED <<attached, already, view, last, pipe>>
    \/ Gone /\ Leave("piped", "none")

-----------------------------------------------------------------------------
(***************************************************************************)
(* The view command: feed, the formatter, drain.                           *)
(***************************************************************************)

InLoop == srv \in {"loop", "exit", "detach", "gone"}

Piped == view /\ worker = "serving" /\ (srv = "piped" \/ InLoop) /\ viewer = "runs"

FeedView ==
    /\ Piped /\ ~eof /\ fed < produced
    /\ fed' = fed + 1
    /\ UNCHANGED <<session, handler, eof, formatted, viewer, client>>

\* Only the backlog of a session that has ended is finite.
CloseView ==
    /\ Piped /\ already /\ ~eof /\ fed = produced
    /\ eof' = TRUE
    /\ UNCHANGED <<session, handler, fed, formatted, viewer, client>>

Format ==
    /\ Piped /\ formatted < fed
    /\ formatted' = formatted + 1
    /\ UNCHANGED <<session, handler, fed, eof, viewer, client>>

ViewEnds ==
    /\ Piped
    /\ MayQuit \/ (eof /\ formatted = fed)
    /\ viewer' = "exited"
    /\ UNCHANGED <<session, handler, fed, eof, formatted, client>>

-----------------------------------------------------------------------------
(***************************************************************************)
(* The loop of handle_attach.  Its select is biased, and it polls what it  *)
(* waits for in turn: the output at "loop", then the exit, a detach and    *)
(* the end of the client at the stages of these names, and the output      *)
(* again.  The runtime has several threads: everything may happen between  *)
(* two polls.  exit_rx is a clone that never takes note of the value it    *)
(* has looked at, so changed() is ready as soon as the exit is announced,  *)
(* however early.  The branch that waits 15 s for a silent view command of *)
(* an ended session comes after it and is never reached.                   *)
(***************************************************************************)

Pending == sent < (IF view THEN formatted ELSE produced)
Flooded == flood /\ (view => viewer = "runs")
Ready == Pending \/ Flooded
OutputClosed == view /\ viewer = "exited" /\ ~Ready
Quiet == ~Ready /\ ~OutputClosed

\* An output frame, and the exit when that was the whole backlog.
LoopOutput ==
    LET drained == already /\ ~view /\ ~flood /\ sent + 1 = produced IN
    /\ worker = "serving" /\ srv = "loop" /\ Pending
    /\ sent' = sent + 1
    /\ IF drained
       THEN srv' = "closed" /\ last' = "exit" /\ attached' = attached - 1
       ELSE UNCHANGED <<srv, last, attached>>
    /\ UNCHANGED <<session, already, viewCmd, view, seen, pty, pipe, client>>

LoopBroken == Ready /\ Gone /\ Leave("loop", "none")

\* Mutant: a view command that ends is the end of the session.
LoopClosed_Exit == OutputClosed /\ Leave("loop", "exit")

LoopClosed == OutputClosed /\ Leave("loop", IF announced THEN "exit" ELSE "detached")

\* A poll that finds nothing.
Polls(here, next) ==
    Goes(here, next) /\ UNCHANGED <<attached, already, view, seen, last, pipe>>

LoopQuiet == Quiet /\ Polls("loop", "exit")

\* Mutant: the exit is polled before the output.
LoopExit_Eager ==
    \/ announced /\ (Leave("loop", "exit") \/ Leave("exit", "exit"))
    \/ ~announced /\ Polls("exit", "detach")

LoopExit ==
    \/ announced /\ Leave("exit", "exit")
    \/ ~announced /\ Polls("exit", "detach")

\* Mutant: an ended session is not detached from.
LoopDetach_Running ==
    \/ ~end.over /\ ~view /\ seen < detaches /\ Leave("detach", "detached")
    \/ (end.over \/ view \/ seen = detaches) /\ Polls("detach", "gone")

LoopDetach ==
    \/ seen < detaches /\ Leave("detach", "detached")
    \/ seen = detaches /\ Polls("detach", "gone")

\* Mutant: that a client has left is noticed when output cannot be written.
LoopGone_Writing == Polls("gone", "loop")

LoopGone ==
    \/ Gone /\ Leave("gone", "none")
    \/ ~Gone /\ Polls("gone", "loop")

\* The reader task.
ReadInput ==
    /\ worker = "serving" /\ InLoop /\ wireIn # <<>>
    /\ pty' = pty \o wireIn /\ wireIn' = <<>>
    /\ UNCHANGED <<session, srv, attached, already, viewCmd, view, seen, sent, last, pipe,
                   place, shown, keys, typed, filter, answer>>

-----------------------------------------------------------------------------
(***************************************************************************)
(* attach_to.                                                              *)
(***************************************************************************)

Ends(kind, code) == place' = "done" /\ answer' = [kind |-> kind, code |-> code]
Continues == UNCHANGED <<place, answer>>

\* exit_payload and exit_code_from_status agree; a session without an end has
\* the code 0.
ExitCode == IF end.code # NoCode THEN end.code ELSE IF end.killed THEN 130 ELSE 0

\* connect_retry, and the request.
Connect ==
    /\ place = "connect" /\ worker = "serving"
    /\ place' = "stream"
    /\ UNCHANGED <<session, handler, pipe, shown, keys, input, answer>>

\* fallback_finished: nobody listens and the session has ended.
ConnectFinished ==
    /\ place = "connect" /\ worker # "serving" /\ end.over
    /\ Ends("log", ExitCode)
    /\ shown' = produced
    /\ UNCHANGED <<session, handler, pipe, keys, input>>

\* 75 attempts have failed.
ConnectGivesUp ==
    /\ place = "connect" /\ worker # "serving" /\ ~end.over
    /\ Ends("error", NoCode)
    /\ UNCHANGED <<session, handler, pipe, shown, keys, input>>

Streaming == place = "stream"
Broken == srv = "closed" \/ Down

ShowOutput ==
    /\ Streaming /\ shown < sent
    /\ shown' = shown + 1
    /\ UNCHANGED <<session, handler, pipe, place, keys, input, answer>>

ReadLast ==
    /\ Streaming /\ shown = sent
    /\ \/ last = "exit" /\ Ends("exit", ExitCode)
       \/ last = "detached" /\ Ends("detached", 0)
    /\ UNCHANGED <<session, handler, pipe, shown, keys, input>>

\* The worker has vanished: recorded_exit_code.
ReadEof ==
    /\ Streaming /\ shown = sent /\ last = "none" /\ Broken
    /\ Ends("eof", ExitCode)
    /\ UNCHANGED <<session, handler, pipe, shown, keys, input>>

\* What is forwarded to a worker that has gone ends the client with an error,
\* before the frames it has not read.
Forward(bytes, ends) ==
    IF bytes # <<>> /\ Broken
    THEN Ends("error", NoCode) /\ UNCHANGED wireIn
    ELSE /\ wireIn' = wireIn \o bytes
         /\ IF ends THEN Ends("keys", 0) ELSE Continues

\* A chunk of the terminal's input.
ReadKeys ==
    /\ Streaming
    /\ \E n \in typed + 1 .. Len(keys) :
        /\ typed' = n
        /\ filter' = Push(filter, SubSeq(keys, typed + 1, n))
    /\ Forward(filter'.out, filter'.hit # <<>>)
    /\ UNCHANGED <<session, handler, pipe, shown, keys>>

\* 10 ms after a sequence was begun.
EscapeTimeout ==
    /\ Streaming /\ filter.escape # <<>>
    /\ filter' = Flush(filter)
    /\ Forward(filter'.out, FALSE)
    /\ UNCHANGED <<session, handler, pipe, shown, keys, typed>>

-----------------------------------------------------------------------------
Handler ==
    \/ Count \/ LookAtExit \/ Subscribe \/ EnterLoop
    \/ LoopOutput \/ LoopBroken \/ LoopClosed
    \/ LoopQuiet \/ LoopExit \/ LoopDetach \/ LoopGone
Ending == AnnounceExit \/ WorkerEnds
Viewer == FeedView \/ CloseView \/ Format \/ ViewEnds
Reading == ConnectFinished \/ Connect \/ ShowOutput \/ ReadLast \/ ReadEof

Over == Down /\ place = "done"
Next ==
    \/ Bind \/ Produce \/ RecordEnd \/ Ending \/ Crash \/ Detach \/ Flood
    \/ Handler \/ ReadInput \/ Viewer
    \/ Reading \/ ConnectGivesUp \/ ReadKeys \/ EscapeTimeout
    \/ Over /\ UNCHANGED vars

Spec == Init /\ [][Next]_vars

\* The tasks of the worker and of the client are scheduled, so that what is sent
\* is also read; the command, the view command, other users and the clock owe
\* nothing.
FairSpec == Spec /\ WF_vars(Handler) /\ WF_vars(Ending) /\ WF_vars(Reading)

-----------------------------------------------------------------------------
\* The command gets what was typed, each byte once and in order, but for what
\* the filter still holds; a client is detached by its keys only when they are
\* the detach sequence, and then it is all that is held (attach.rs,
\* DetachFilter and attach_to; control.rs, the reader task).
InputExact ==
    LET passed == pty \o wireIn
        held == filter.withheld \o filter.escape
        release == CHOOSE r \in Releases : TRUE
        again(n) == [i \in 1 .. n * Len(release) |-> release[1 + ((i - 1) % Len(release))]] IN
    /\ Streaming => passed \o held = SubSeq(keys, 1, typed)
    /\ answer.kind = "keys" =>
        /\ IsPrefix(passed \o held \o filter.hit, keys)
        /\ \E first \in Presses, n \in 0 .. Len(held) : held = first \o again(n)

\* A client that is told the exit has been sent all the output of before, unless
\* the exit was announced just between the poll of the output and that of the
\* exit; and so has every counted client of a worker that ends in its own time,
\* when 2 s are enough for what it is sent (control.rs, handle_attach; run.rs).
ExitWhole ==
    ~view /\ shown < due =>
        /\ answer.kind = "exit" => racing
        /\ answer.kind = "eof" /\ srv # "none" => slow \/ flood \/ worker = "killed"

\* How a terminal is told its session went is how it went (attach.rs, attach_to;
\* control.rs, handle_attach).
ClientTruth ==
    /\ answer.kind \in {"exit", "log"} => end.over /\ answer.code = ExitCode
    /\ answer.kind = "exit" => announced
    /\ answer.kind = "detached" => detaches > 0 \/ viewer = "exited"
    /\ answer.kind = "eof" => Down

\* A detach reaches every client that is in its loop, in the end of the session,
\* behind a stalled view command and after any output, as long as the output
\* comes to a pause at some time: the select looks for a detach only when it has
\* found none.  A client that is counted and not in its loop yet may miss it
\* (control.rs, Detach and handle_attach).
DetachHeard == <>[]~flood => ((InLoop /\ seen < detaches) ~> Broken)

\* The terminal of a session that ends, or whose worker vanishes, gets its
\* prompt back, and the worker forgets every client that has left.
AttachEnds ==
    /\ (Streaming /\ (end.over \/ Down)) ~> Gone
    /\ Gone ~> (attached = 0 \/ Down)

\* The terminal of a session that had already ended when it came is told the
\* exit when its view command has closed its output, and not before
\* (control.rs:713-720).
ViewWhole ==
    [][already /\ view /\ last = "none" /\ last' = "exit" => OutputClosed]_vars
=============================================================================
