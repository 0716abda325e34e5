------------------------------- MODULE Pollers -------------------------------
(***************************************************************************)
(* The commands that poll the files of a session while its worker writes   *)
(* them: wait, expect, expect --screen, wait-idle, log --follow and        *)
(* log --since, and an agent that sends input and expects the answer       *)
(* (sub.rs).  Nothing is locked: each read of a file is a step.            *)
(*                                                                         *)
(* The session is what these commands can see of it: the status, the log   *)
(* and whether its worker lives.  Readers do not disturb each other, so    *)
(* one is enough; what it is asked is chosen when it starts.               *)
(***************************************************************************)
EXTENDS LogText

CONSTANTS
    Cases,          \* the commands asked, see Commands, and for each what the
                    \* command of the session writes to its log
    Codes,          \* the codes it may exit with
    MayCrash,       \* the worker may die without a word
    MayPrune        \* another user may prune the session once it is over

Commands == {"wait", "expect", "screen", "idle", "follow", "log", "ask"}

ASSUME PollersAssumption ==
    /\ Cases \subseteq Commands \X Seq(Byte)
    /\ Codes \subseteq Nat
    /\ {MayCrash, MayPrune} \subseteq BOOLEAN

VARIABLES
    \* The session.
    script,     \* what its command writes
    written,    \* how much of it is in output.log
    stamps,     \* the rows of output.timestamps.jsonl
    status,     \* status.json
    owner,      \* the worker process
    files,      \* the session directory exists
    due,        \* history: the length of the log when the end was recorded
    \* The reader.
    kind,       \* the command it executes
    place,      \* what it does next
    start,      \* the offset it began to read at
    off,        \* off: how far it has read
    text,       \* what it has shown, or looked at
    rows,       \* the capture times it reports
    lastSize,   \* last_size of wait-idle
    quiet,      \* idle_after_done of log --follow
    advanced,   \* did the last read of log --follow find anything?
    asked,      \* history: the length of the log when the input was written
    answer      \* what it reports

session == <<script, written, stamps, status, owner, files, due>>
taken   == <<start, off, text, rows>>
ticks   == <<lastSize, quiet, advanced>>
reader  == <<kind, place, taken, ticks, asked, answer>>
vars    == <<session, reader>>

NoCode == -1
Status(state, code) == [state |-> state, code |-> code]
Finished == status.state \in {"exited", "killed"}
Nothing == [kind |-> "none", code |-> NoCode]

TypeOK ==
    /\ <<kind, script>> \in Cases
    /\ written \in 0 .. Len(script) /\ due \in 0 .. Len(script)
    /\ stamps \in Seq(Nat \X Nat)
    /\ status \in [state : {"none", "starting", "running", "exited", "killed"},
                   code : Codes \cup {NoCode}]
    /\ owner \in {"alive", "gone"}
    /\ files \in BOOLEAN
    /\ place \in {"open", "connect", "offset", "inject", "poll", "owner",
                  "check", "tail", "rows", "deadline", "done"}
    /\ start \in 0 .. off /\ off \in 0 .. written
    /\ rows \in Seq(Nat \X Nat)
    /\ lastSize \in 0 .. written
    /\ quiet \in 0 .. 2 /\ advanced \in BOOLEAN
    /\ asked \in 0 .. written
    /\ place = "done" <=> answer # Nothing

Init ==
    /\ \E case \in Cases : kind = case[1] /\ script = case[2]
    /\ written = 0
    /\ stamps = <<>>
    /\ status = Status("none", NoCode)
    /\ owner = "alive"
    /\ files = TRUE
    /\ due = 0
    /\ place = "open"
    /\ start = 0 /\ off = 0 /\ text = <<>> /\ rows = <<>>
    /\ lastSize = 0 /\ quiet = 0 /\ advanced = FALSE
    /\ asked = 0
    /\ answer = Nothing

-----------------------------------------------------------------------------
(***************************************************************************)
(* The session, as far as its files and its process show.                  *)
(***************************************************************************)

\* The status is announced, then published with the running command.
Advance ==
    /\ owner = "alive"
    /\ \/ status.state = "none" /\ status' = Status("starting", NoCode)
       \/ status.state = "starting" /\ status' = Status("running", NoCode)
    /\ UNCHANGED <<script, written, stamps, owner, files, due, reader>>

\* The reader thread of the worker logs and stamps what the command wrote; it
\* may still do so after the end has been recorded.
Write ==
    /\ owner = "alive"
    /\ status.state \in {"running", "exited", "killed"}
    /\ \E n \in written + 1 .. Len(script) :
        /\ written' = n
        /\ stamps' = IF kind = "log" /\ files
                     THEN Append(stamps, <<written, n - written>>) ELSE stamps
    /\ UNCHANGED <<script, status, owner, files, due, reader>>

\* The end is recorded; the last output may not have been logged yet.
RecordEnd ==
    /\ owner = "alive"
    /\ \/ status.state = "starting" /\ status' = Status("exited", NoCode)
       \/ /\ status.state = "running"
          /\ \/ \E c \in Codes : status' = Status("exited", c)
             \/ \E c \in Codes \cup {NoCode} : status' = Status("killed", c)
    /\ due' = written
    /\ UNCHANGED <<script, written, stamps, owner, files, reader>>

\* The worker ends after it has recorded the end, or is killed before.
WorkerGoes ==
    /\ owner = "alive"
    /\ Finished \/ MayCrash
    /\ owner' = "gone"
    /\ UNCHANGED <<script, written, stamps, status, files, due, reader>>

Prune ==
    /\ MayPrune
    /\ files
    /\ Finished \/ owner = "gone"
    /\ files' = FALSE
    /\ UNCHANGED <<script, written, stamps, status, owner, due, reader>>

\* Connections are served from the first running status until the worker ends.
Serving == owner = "alive" /\ status.state \in {"running", "exited", "killed"}

Session == Advance \/ Write \/ RecordEnd \/ WorkerGoes \/ Prune

-----------------------------------------------------------------------------
(***************************************************************************)
(* What every reader does.                                                 *)
(***************************************************************************)

At(k, p) == kind \in k /\ place = p
Answer(what, code) ==
    /\ place' = "done"
    /\ answer' = [kind |-> what, code |-> code]
Continue(p) == place' = p /\ UNCHANGED answer

\* read_status: a status that cannot be read is not final.
Readable == files /\ status.state # "none"

\* Mutant: killed is forgotten.
IsFinished_Exited == Readable /\ status.state = "exited"

\* is_finished.
IsFinished == Readable /\ Finished

LogLength == IF files THEN written ELSE 0

\* Mutant: the length of the slice is taken for its end.
ReadSlice_Rewind ==
    LET unread == IF files THEN SubSeq(script, off + 1, written) ELSE <<>>
        safe == SafePrefix(unread)
    IN  /\ off' = IF safe > 0 THEN safe ELSE off
        /\ text' = text \o Visible(SubSeq(unread, 1, safe))

\* read_slice from off to the end of the file, without what must be held back.
ReadSlice ==
    LET unread == IF files THEN SubSeq(script, off + 1, written) ELSE <<>>
        safe == SafePrefix(unread)
    IN  /\ off' = off + safe
        /\ text' = text \o Visible(SubSeq(unread, 1, safe))

Matches(shown) == "mark" \in ToSet(shown)

\* The screen, reduced to its last cell: from the live worker, else from the log.
Screen ==
    LET shown == Visible(SubSeq(script, 1, IF Serving \/ files THEN written ELSE 0))
    IN  IF shown = <<>> THEN <<>> ELSE <<Last(shown)>>

\* resolve, and where to begin: at the start of the log (or a given offset, the
\* start of the part that matters), or at its present end.
Open ==
    /\ place = "open"
    /\ IF ~files THEN Answer("failed", NoCode) /\ UNCHANGED <<start, off, lastSize>>
       ELSE /\ Continue(IF kind = "ask" THEN "connect" ELSE "poll")
            /\ start' \in IF kind \in {"expect", "follow", "log"} THEN {0, written} ELSE {0}
            /\ off' = start'
            /\ lastSize' = IF kind = "idle" THEN written ELSE 0
    /\ UNCHANGED <<session, kind, text, rows, quiet, advanced, asked>>

\* The deadline has passed, or the reader sleeps and polls again.
Deadline ==
    /\ place = "deadline"
    /\ Answer("timeout", 124) \/ Continue("poll")
    /\ UNCHANGED <<session, kind, taken, ticks, asked>>

-----------------------------------------------------------------------------
(***************************************************************************)
(* wait.                                                                   *)
(***************************************************************************)

ExitCode ==
    IF status.code # NoCode THEN status.code
    ELSE IF status.state = "killed" THEN 130 ELSE 0

\* Mutant: the owner is looked at before the status.
WaitStatus_OwnerFirst ==
    /\ At({"wait"}, "poll")
    /\ IF Readable /\ owner = "gone" THEN Answer("dead", 137)
       ELSE IF IsFinished THEN Answer("code", ExitCode)
       ELSE Continue("deadline")
    /\ UNCHANGED <<session, kind, taken, ticks, asked>>

WaitStatus ==
    /\ At({"wait"}, "poll")
    /\ IF IsFinished THEN Answer("code", ExitCode)
       ELSE Continue(IF Readable THEN "owner" ELSE "deadline")
    /\ UNCHANGED <<session, kind, taken, ticks, asked>>

\* read_meta and is_pid_alive, after the status was read.
WaitOwner ==
    /\ At({"wait"}, "owner")
    /\ IF files /\ owner = "gone" THEN Answer("dead", 137) ELSE Continue("deadline")
    /\ UNCHANGED <<session, kind, taken, ticks, asked>>

-----------------------------------------------------------------------------
(***************************************************************************)
(* send, expect and expect --screen.                                       *)
(***************************************************************************)

\* connect_with_retry: gives up on a session that is over, and in the end.
Connect ==
    /\ At({"ask"}, "connect")
    /\ \/ Serving /\ Continue("offset")
       \/ ~Serving /\ Answer("failed", NoCode)
       \/ ~Serving /\ ~(Readable /\ (Finished \/ owner = "gone")) /\ Continue("connect")
    /\ UNCHANGED <<session, kind, taken, ticks, asked>>

\* dispatch, Send: the length of the log before the input.
SendOffset ==
    /\ At({"ask"}, "offset")
    /\ IF Serving
       THEN /\ Continue("inject")
            /\ start' = LogLength /\ off' = LogLength
       ELSE Answer("failed", NoCode) /\ UNCHANGED <<start, off>>
    /\ UNCHANGED <<session, kind, text, rows, ticks, asked>>

\* The input is written; what the command logs from here on may be its answer.
SendInput ==
    /\ At({"ask"}, "inject")
    /\ IF Serving THEN Continue("poll") /\ asked' = written
       ELSE Answer("failed", NoCode) /\ UNCHANGED asked
    /\ UNCHANGED <<session, kind, taken, ticks>>

ExpectScan ==
    /\ At({"expect", "ask"}, "poll")
    /\ ReadSlice
    /\ IF text' # text /\ Matches(text') THEN Answer("match", 0) ELSE Continue("check")
    /\ UNCHANGED <<session, kind, start, rows, ticks, asked>>

ScreenLook ==
    /\ At({"screen"}, "poll")
    /\ text' = Screen
    /\ IF Matches(text') THEN Answer("match", 0) ELSE Continue("check")
    /\ UNCHANGED <<session, kind, start, off, rows, ticks, asked>>

\* Mutant: the end of the session is the end of the search.
ExpectCheck_Hasty ==
    /\ At({"expect", "ask", "screen"}, "check")
    /\ IF IsFinished THEN Answer("ended", 1) ELSE Continue("deadline")
    /\ UNCHANGED <<session, kind, taken, ticks, asked>>

ExpectCheck ==
    /\ At({"expect", "ask", "screen"}, "check")
    /\ Continue(IF IsFinished THEN "tail" ELSE "deadline")
    /\ UNCHANGED <<session, kind, taken, ticks, asked>>

\* One more look at a session that has ended.
ExpectTail ==
    /\ At({"expect", "ask", "screen"}, "tail")
    /\ IF kind = "screen" THEN text' = Screen /\ UNCHANGED off ELSE ReadSlice
    /\ IF Matches(text') THEN Answer("match", 0) ELSE Answer("ended", 1)
    /\ UNCHANGED <<session, kind, start, rows, ticks, asked>>

-----------------------------------------------------------------------------
(***************************************************************************)
(* wait-idle, log --follow and log --since.                                *)
(***************************************************************************)

\* The time to settle may have passed whenever the size has not changed.
IdlePoll ==
    /\ At({"idle"}, "poll")
    /\ lastSize' = LogLength
    /\ Continue("check") \/ (lastSize = LogLength /\ Answer("idle", 0))
    /\ UNCHANGED <<session, kind, taken, quiet, advanced, asked>>

IdleCheck ==
    /\ At({"idle"}, "check")
    /\ IF IsFinished THEN Answer("idle", 0) ELSE Continue("deadline")
    /\ UNCHANGED <<session, kind, taken, ticks, asked>>

FollowRead ==
    /\ At({"follow"}, "poll")
    /\ ReadSlice
    /\ advanced' = (off' > off)
    /\ Continue("check")
    /\ UNCHANGED <<session, kind, start, rows, lastSize, quiet, asked>>

\* Mutant: one quiet poll is enough.
FollowCheck_Once ==
    /\ At({"follow"}, "check")
    /\ IF IsFinished /\ ~advanced THEN Answer("stopped", 0) ELSE Continue("poll")
    /\ UNCHANGED <<session, kind, taken, ticks, asked>>

\* A finished session is followed until two polls have found nothing new.
FollowCheck ==
    /\ At({"follow"}, "check")
    /\ quiet' = IF ~IsFinished THEN quiet ELSE IF advanced THEN 0 ELSE quiet + 1
    /\ IF quiet' = 2 THEN Answer("stopped", 0) ELSE Continue("poll")
    /\ UNCHANGED <<session, kind, taken, lastSize, advanced, asked>>

LogRead ==
    /\ At({"log"}, "poll")
    /\ ReadSlice
    /\ Continue("rows")
    /\ UNCHANGED <<session, kind, start, rows, ticks, asked>>

\* The capture times, then whether the session is done.
LogRows ==
    /\ At({"log"}, "rows")
    /\ rows' = IF files THEN ClipRows(stamps, start, off) ELSE <<>>
    /\ Continue("tail")
    /\ UNCHANGED <<session, kind, start, off, text, ticks, asked>>

LogDone ==
    /\ At({"log"}, "tail")
    /\ Answer(IF IsFinished THEN "done" ELSE "more", 0)
    /\ UNCHANGED <<session, kind, taken, ticks, asked>>

-----------------------------------------------------------------------------
Reader ==
    \/ Open \/ Deadline
    \/ WaitStatus \/ WaitOwner
    \/ Connect \/ SendOffset \/ SendInput
    \/ ExpectScan \/ ScreenLook \/ ExpectCheck \/ ExpectTail
    \/ IdlePoll \/ IdleCheck
    \/ FollowRead \/ FollowCheck
    \/ LogRead \/ LogRows \/ LogDone

Answered == place = "done"
Next == Session \/ Reader \/ (Answered /\ UNCHANGED vars)

Spec == Init /\ [][Next]_vars

\* A poller goes on polling; the session and its users owe nothing.
FairSpec == Spec /\ WF_vars(Reader)

-----------------------------------------------------------------------------
\* However a log of complete sequences and characters grows between two reads,
\* what an incremental reader has shown is what one read of the same bytes
\* shows: no escape sequence and no character is split.  A log that is not
\* WellFormed may be shown differently (sub.rs, read_slice and safe_prefix_len).
SliceExact ==
    kind \in {"expect", "ask", "follow", "log"} =>
        text = Visible(SubSeq(script, start + 1, off))

\* An expect that answers 1 on a session that was not pruned has not missed
\* anything logged before the end was recorded, and an expect from the offset
\* of a send looks at everything logged since the input (sub.rs, expect;
\* control.rs, Send).
ExpectIsTrue ==
    /\ answer.kind = "ended" /\ files =>
        IF kind = "screen" THEN written = due => ~Matches(Screen)
        ELSE ~Matches(Visible(SubSeq(script, start + 1, due)))
    /\ At({"ask"}, "poll") => start <= asked

\* A follower that stops has shown everything that was logged before the end
\* was recorded, but for a sequence that was not complete by then (sub.rs,
\* follow_log).
FollowComplete ==
    answer.kind = "stopped" => SafePrefix(SubSeq(script, off + 1, due)) = 0

\* Once the end is recorded, a wait answers the recorded code, or 124 if its
\* time is up, and never 137, for a death without a word.  The one wait left
\* out has read a running status and has not looked at the owner yet: it may
\* find the worker gone and answer 137 although the end is on disk, against
\* sub.rs:483-485 (sub.rs, wait).
WaitIsTrue ==
    [](kind = "wait" /\ place \notin {"owner", "done"} /\ Finished =>
        [](answer # Nothing /\ files =>
              answer \in {[kind |-> "code", code |-> ExitCode],
                          [kind |-> "timeout", code |-> 124]}))

\* The capture times of a slice are about bytes of that slice, each byte once,
\* although the log and its times are read at different moments (sub.rs,
\* log --since --timestamps and clip_capture_rows).
RowsAreTrue ==
    \A i \in DOMAIN rows :
        /\ start <= rows[i][1] /\ rows[i][1] + rows[i][2] <= off
        /\ i > 1 => rows[i - 1][1] + rows[i - 1][2] <= rows[i][1]

\* A session that records its end is noticed by everybody who waits for it, a
\* dead worker by wait, unless the session is pruned between two polls.
PollersEnd ==
    /\ (Readable /\ Finished) ~> (Answered \/ ~files)
    /\ (kind = "wait" /\ Readable /\ owner = "gone") ~> (Answered \/ ~files)
=============================================================================
