------------------------------- MODULE Worker -------------------------------
(***************************************************************************)
(* The detached supervisor of one session: serve_worker and its select     *)
(* loop, terminate_pane, the wait thread of each command, the control      *)
(* connections that ask it to kill or restart, and the status file.        *)
(*                                                                         *)
(* A pane is one run of the wrapped command.  Its process group holds the  *)
(* leader (the direct child) and, abstracted to one process, the other     *)
(* members.  The kernel, the command and the clock are the environment:    *)
(* a process exits when it likes, a bounded wait may expire.               *)
(***************************************************************************)
EXTENDS Naturals, Sequences

CONSTANTS
    MaxPanes,       \* bound on the commands started: one, and one per restart
    Killers,        \* connections that each send one kill request
    Restarters,     \* connections that each send one restart request
    LeaderKinds,    \* the ways the direct child reacts to signals
    MemberKinds,    \* the same for the rest of its group; "none" = no member
    HasTimeout,     \* --timeout given
    HasIdleTimeout, \* --idle-timeout given
    SpawnFaults,    \* how Pane::spawn can fail: "early", "late"
    BindMayFail,    \* the control socket may be impossible to set up
    WriteMayFail,   \* a status write after the first may fail
    SlowDeath,      \* a SIGKILLed process may outlive the 2 s wait
    SlowClient,     \* a reply may take more than 2 s to reach its client
    KillMayTimeOut  \* a kill request may wait for more than 7 s

\* How a process reacts: "polite" dies of SIGHUP, "stubborn" of SIGKILL only,
\* "foreign" belongs to another user and cannot be signalled at all.
Kinds == {"polite", "stubborn", "foreign"}
Clients == Killers \cup Restarters
Panes == 1 .. MaxPanes

ASSUME ConstantsAssumption ==
    /\ MaxPanes \in Nat \ {0}
    /\ Killers \cap Restarters = {}
    /\ LeaderKinds \subseteq Kinds /\ LeaderKinds # {}
    /\ MemberKinds \subseteq Kinds \cup {"none"} /\ MemberKinds # {}
    /\ SpawnFaults \subseteq {"early", "late"}
    /\ {HasTimeout, HasIdleTimeout, BindMayFail, WriteMayFail,
        SlowDeath, SlowClient, KillMayTimeOut} \subseteq BOOLEAN

VARIABLES
    \* The processes, per pane.
    leader,     \* the direct child
    member,     \* the other members of its process group
    cause,      \* how the leader ended, as waitpid reports it
    struck,     \* history: a signal of the worker reached a live process
    \* struct Pane, per pane.
    waiter,     \* the wait thread: what it does next
    exitStatus, \* exit_status
    permit,     \* the permit stored in exit_notify
    \* serve_worker and terminate_pane.
    pc,         \* what the worker does next
    pane,       \* current_pane, from the moment it is spawned
    why,        \* who called terminate_pane
    asker,      \* the kill request being served
    info,       \* the exit info in hand
    signalSent, \* Termination.signal_sent of the last termination
    escalated,  \* Termination.escalated
    termReq,    \* termination_requested
    recorded,   \* terminal_status_written
    \* What the rest of the world sees.
    status,     \* status.json
    socket,     \* the socket file exists
    listening,  \* connections are served
    handlePane, \* Handle.cmd_pane
    announced,  \* the exit info sent to attached clients on exit_tx
    \* The control connections.
    queue,      \* the action channel
    reply,      \* the oneshot reply of each kill request
    conn        \* where each connection stands

procs == <<leader, member, cause, struck>>
waits == <<waiter, exitStatus, permit>>
term  == <<why, asker, info, signalSent, escalated, termReq>>
world == <<status, socket, listening, handlePane, announced, recorded>>
ctl   == <<queue, reply, conn>>
vars  == <<procs, waits, pc, pane, term, world, ctl>>

Live == Kinds \cup {"dying"}
Info == {"code", "signaled"}
Terminal == {"exited", "killed"}
Answers == {"killed", "late", "failed", "raced", "unresolved", "mainGone",
            "eof", "queued"}
Status(st, pid, code) == [state |-> st, pid |-> pid, code |-> code]

ProcsOK ==
    /\ leader \in [Panes -> Live \cup {"unborn", "zombie", "reaped"}]
    /\ member \in [Panes -> Live \cup {"none"}]
    /\ cause \in [Panes -> Info \cup {"none"}]
    /\ struck \in [Panes -> BOOLEAN]

WaitsOK ==
    /\ waiter \in [Panes -> {"absent", "waiting", "storing", "notifying", "done"}]
    /\ exitStatus \in [Panes -> Info \cup {"none"}]
    /\ permit \in [Panes -> BOOLEAN]

PlaceOK ==
    /\ pc \in {"start", "spawn", "publish", "serve", "loop", "terminate",
               "hangup", "await", "poll", "wait", "probe", "force", "group",
               "respawn", "swap", "republish", "recordKill", "replyKill",
               "flush", "giveUp", "finish", "drain", "linger", "returned",
               "gone"}
    /\ pane \in 0 .. MaxPanes
    /\ pane = 0 <=> pc \in {"start", "spawn"}

TermOK ==
    /\ why \in {"none", "timeout", "idle", "restart", "kill", "setup"}
    /\ asker \in Clients \cup {"none"}
    /\ info \in Info \cup {"none"}

WorldOK ==
    /\ status \in [state : {"none", "starting", "running"} \cup Terminal,
                   pid : 0 .. MaxPanes,
                   code : {"none", "code", "setup"}]
    /\ handlePane \in 0 .. MaxPanes
    /\ announced \in Info \cup {"none"}

FlagsOK ==
    {signalSent, escalated, termReq, recorded, socket, listening} \subseteq BOOLEAN

CtlOK ==
    /\ queue \in Seq(Clients)
    /\ reply \in [Killers -> {"none", "killed", "late", "failed"}]
    /\ conn \in [Clients -> Answers \cup {"idle", "waiting", "racing"}]

TypeOK ==
    ProcsOK /\ WaitsOK /\ PlaceOK /\ TermOK /\ WorldOK /\ FlagsOK /\ CtlOK

Init ==
    /\ leader = [p \in Panes |-> "unborn"]
    /\ member = [p \in Panes |-> "none"]
    /\ cause = [p \in Panes |-> "none"]
    /\ struck = [p \in Panes |-> FALSE]
    /\ waiter = [p \in Panes |-> "absent"]
    /\ exitStatus = [p \in Panes |-> "none"]
    /\ permit = [p \in Panes |-> FALSE]
    /\ pc = "start"
    /\ pane = 0
    /\ why = "none"
    /\ asker = "none"
    /\ info = "none"
    /\ signalSent = FALSE
    /\ escalated = FALSE
    /\ termReq = FALSE
    /\ recorded = FALSE
    /\ status = Status("none", 0, "none")
    /\ socket = FALSE
    /\ listening = FALSE
    /\ handlePane = 0
    /\ announced = "none"
    /\ queue = <<>>
    /\ reply = [k \in Killers |-> "none"]
    /\ conn = [c \in Clients |-> "idle"]

-----------------------------------------------------------------------------
(***************************************************************************)
(* The processes of a pane, and its wait thread.                           *)
(***************************************************************************)

\* process_group_alive: a zombie leader still makes the group exist, and a
\* group that may not be signalled counts as alive.
GroupAlive(p) == leader[p] \in Live \cup {"zombie"} \/ member[p] \in Live

\* killpg fails with EPERM when nothing in the group may be signalled.
Denied(p) ==
    /\ GroupAlive(p)
    /\ leader[p] \in {"foreign", "reaped"}
    /\ member[p] \in {"foreign", "none"}

\* What a signal makes of a process it reaches.
Struck(process, signal) ==
    IF process = "polite" \/ (process = "stubborn" /\ signal = "KILL")
    THEN "dying" ELSE process

\* signal_process_group that is not denied; no such group counts as success.
SignalGroup(p, signal) ==
    /\ leader' = [leader EXCEPT ![p] = Struck(@, signal)]
    /\ member' = [member EXCEPT ![p] = Struck(@, signal)]
    /\ struck' = [struck EXCEPT ![p] = @ \/ leader[p] \in Live \/ member[p] \in Live]
    /\ UNCHANGED cause

\* The direct child ends, by itself or of a signal; it may have handled the
\* signal and report a code.  Nobody watches once the worker is gone.
LeaderExits(p) ==
    /\ pc # "gone"
    /\ leader[p] \in Live
    /\ leader' = [leader EXCEPT ![p] = "zombie"]
    /\ \E c \in Info : cause' = [cause EXCEPT ![p] = c]
    /\ UNCHANGED <<member, struck, waits, pc, pane, term, world, ctl>>

MemberExits(p) ==
    /\ pc # "gone"
    /\ member[p] \in Live
    /\ member' = [member EXCEPT ![p] = "none"]
    /\ UNCHANGED <<leader, cause, struck, waits, pc, pane, term, world, ctl>>

\* The wait thread: wait() returns, exit_status is set, exit_notify is armed.
Reap(p) ==
    /\ pc # "gone"
    /\ waiter[p] = "waiting"
    /\ leader[p] = "zombie"
    /\ leader' = [leader EXCEPT ![p] = "reaped"]
    /\ waiter' = [waiter EXCEPT ![p] = "storing"]
    /\ UNCHANGED <<member, cause, struck, exitStatus, permit, pc, pane, term,
                   world, ctl>>

StoreExit(p) ==
    /\ pc # "gone"
    /\ waiter[p] = "storing"
    /\ exitStatus' = [exitStatus EXCEPT ![p] = cause[p]]
    /\ waiter' = [waiter EXCEPT ![p] = "notifying"]
    /\ UNCHANGED <<procs, permit, pc, pane, term, world, ctl>>

\* Mutant: only notify_waiters is called, so an exit nobody awaits is lost.
NotifyExit_WaitersOnly(p) ==
    /\ waiter[p] = "notifying"
    /\ waiter' = [waiter EXCEPT ![p] = "done"]
    /\ UNCHANGED <<procs, exitStatus, permit, pc, pane, term, world, ctl>>

\* notify_waiters wakes a registered waiter without using the permit that
\* notify_one then stores.
NotifyExit(p) ==
    /\ pc # "gone"
    /\ waiter[p] = "notifying"
    /\ permit' = [permit EXCEPT ![p] = TRUE]
    /\ waiter' = [waiter EXCEPT ![p] = "done"]
    /\ UNCHANGED <<procs, exitStatus, pc, pane, term, world, ctl>>

-----------------------------------------------------------------------------
(***************************************************************************)
(* serve_worker up to its loop.                                            *)
(***************************************************************************)

\* The child of pane p starts, with or without further group members.
StartChild(p) ==
    /\ \E l \in LeaderKinds, m \in MemberKinds :
        /\ leader' = [leader EXCEPT ![p] = l]
        /\ member' = [member EXCEPT ![p] = m]
    /\ UNCHANGED <<cause, struck>>

\* Pane::spawn succeeds: the child runs and has a wait thread.
SpawnPane(p) ==
    /\ StartChild(p)
    /\ waiter' = [waiter EXCEPT ![p] = "waiting"]
    /\ UNCHANGED <<exitStatus, permit>>

\* Pane::spawn fails: early, nothing runs; late (the readers or the log cannot
\* be opened), the child runs and nobody waits for it.
SpawnFails(p) ==
    /\ \/ "early" \in SpawnFaults /\ UNCHANGED procs
       \/ "late" \in SpawnFaults /\ StartChild(p)
    /\ UNCHANGED waits

\* A failing status write ends serve_worker at once.
WriteFails ==
    /\ WriteMayFail
    /\ pc \in {"publish", "republish", "recordKill", "giveUp"}
        \/ (pc = "finish" /\ ~recorded)
    /\ pc' = "returned"
    /\ UNCHANGED <<procs, waits, pane, term, world, ctl>>

Start ==
    /\ pc = "start"
    /\ status' = Status("starting", 0, "none")
    /\ pc' = "spawn"
    /\ UNCHANGED <<procs, waits, pane, term, socket, listening, handlePane,
                   announced, recorded, ctl>>

Spawn ==
    /\ pc = "spawn"
    /\ pane' = 1
    /\ SpawnPane(1)
    /\ pc' = "publish"
    /\ UNCHANGED <<term, world, ctl>>

SpawnAborts ==
    /\ pc = "spawn"
    /\ pane' = 1
    /\ SpawnFails(1)
    /\ status' \in {status, Status("exited", 0, "none")}
    /\ (status' = status) => WriteMayFail
    /\ pc' = "returned"
    /\ UNCHANGED <<term, socket, listening, handlePane, announced, recorded, ctl>>

\* Status running, and the handle the connections will share.
Publish ==
    /\ pc = "publish"
    /\ status' = Status("running", 1, "none")
    /\ handlePane' = 1
    /\ pc' = "serve"
    /\ UNCHANGED <<procs, waits, pane, term, socket, listening, announced,
                   recorded, ctl>>

Serve ==
    /\ pc = "serve"
    /\ socket' = TRUE
    /\ listening' = TRUE
    /\ pc' = "loop"
    /\ UNCHANGED <<procs, waits, pane, term, status, handlePane, announced,
                   recorded, ctl>>

\* The caller of terminate_pane; its first step reads exit_info.
Terminate(caller) ==
    /\ why' = caller
    /\ pc' = "terminate"

\* The socket file is left behind when it is bound and cannot be secured.
ServeFails ==
    /\ pc = "serve"
    /\ BindMayFail
    /\ socket' \in BOOLEAN
    /\ Terminate("setup")
    /\ UNCHANGED <<procs, waits, pane, asker, info, signalSent, escalated,
                   termReq, status, listening, handlePane, announced, recorded,
                   ctl>>

\* Whatever terminate_pane said, the session is recorded as killed, code 1.
GiveUp ==
    /\ pc = "giveUp"
    /\ status' = Status("killed", 0, "setup")
    /\ pc' = "returned"
    /\ UNCHANGED <<procs, waits, pane, term, socket, listening, handlePane,
                   announced, recorded, ctl>>

-----------------------------------------------------------------------------
(***************************************************************************)
(* terminate_pane on the current pane, and wait_for_pane_exit in it.       *)
(***************************************************************************)

\* Ok(Termination): where each caller goes on.
Terminated(sent) ==
    /\ signalSent' = sent
    /\ termReq' = IF why \in {"timeout", "idle"} THEN sent ELSE termReq
    /\ pc' = CASE why \in {"timeout", "idle"} -> "finish"
               [] why = "restart" -> "respawn"
               [] why = "kill" -> "recordKill"
               [] OTHER -> "giveUp"

\* Err: a kill is refused and the loop goes on, a setup failure ignores it,
\* every other caller returns it from serve_worker.
TerminateFails ==
    /\ pc' = CASE why = "kill" -> "loop"
               [] why = "setup" -> "giveUp"
               [] OTHER -> "returned"
    /\ reply' = IF why = "kill" THEN [reply EXCEPT ![asker] = "failed"] ELSE reply
    /\ UNCHANGED <<signalSent, termReq, info, escalated, queue, conn>>

\* exit_info, then, when the leader is known to be gone, the group probe.
CheckExit ==
    /\ pc = "terminate"
    /\ info' = exitStatus[pane]
    /\ escalated' = FALSE
    /\ \/ /\ exitStatus[pane] = "none"
          /\ pc' = "hangup"
          /\ UNCHANGED <<signalSent, termReq>>
       \/ /\ exitStatus[pane] # "none"
          /\ GroupAlive(pane)
          /\ pc' = "force"
          /\ UNCHANGED <<signalSent, termReq>>
       \/ /\ exitStatus[pane] # "none"
          /\ ~GroupAlive(pane)
          /\ Terminated(FALSE)
    /\ UNCHANGED <<procs, waits, pane, why, asker, world, ctl>>

\* Pane::kill
Hangup ==
    /\ pc = "hangup"
    /\ \/ /\ Denied(pane)
          /\ TerminateFails
          /\ UNCHANGED procs
       \/ /\ ~Denied(pane)
          /\ SignalGroup(pane, "HUP")
          /\ pc' = "await"
          /\ UNCHANGED <<info, signalSent, escalated, termReq, ctl>>
    /\ UNCHANGED <<waits, pane, why, asker, world>>

\* wait_for_pane_exit has an answer; the second call follows the SIGKILL.
Awaited ==
    /\ info' = exitStatus[pane]
    /\ pc' = IF escalated THEN "group" ELSE "probe"

\* The two checks of exit_info before the notification is awaited.
Await ==
    /\ pc = "await"
    /\ IF exitStatus[pane] # "none" THEN Awaited
       ELSE pc' = "poll" /\ UNCHANGED info
    /\ UNCHANGED <<procs, waits, pane, why, asker, signalSent, escalated,
                   termReq, world, ctl>>

\* The first poll of notified() takes a stored permit, else it registers.
Poll ==
    /\ pc = "poll"
    /\ IF permit[pane]
       THEN /\ permit' = [permit EXCEPT ![pane] = FALSE]
            /\ Awaited
       ELSE /\ pc' = "wait"
            /\ UNCHANGED <<permit, info>>
    /\ UNCHANGED <<procs, waiter, exitStatus, pane, why, asker, signalSent,
                   escalated, termReq, world, ctl>>

\* Woken, or 300 ms are over, which may be before the exit is stored; after
\* SIGKILL the 2 s are enough unless the leader cannot be killed or is slow.
WaitOver ==
    /\ pc = "wait"
    /\ \/ /\ exitStatus[pane] # "none" \/ ~escalated
          /\ Awaited
          /\ UNCHANGED <<signalSent, escalated, termReq, ctl>>
       \/ /\ exitStatus[pane] = "none"
          /\ escalated
          /\ SlowDeath \/ leader[pane] = "foreign"
          /\ TerminateFails
    /\ UNCHANGED <<procs, waits, pane, why, asker, world>>

\* Mutant: the exit of the direct child is taken for the end of its group.
Probe_LeaderOnly ==
    /\ pc = "probe"
    /\ IF info # "none"
       THEN Terminated(TRUE)
       ELSE pc' = "force" /\ UNCHANGED <<signalSent, termReq>>
    /\ UNCHANGED <<procs, waits, pane, why, asker, info, escalated, world, ctl>>

\* Mutant: an accepted signal is taken for a termination.
Probe_Trusting ==
    /\ pc = "probe"
    /\ Terminated(TRUE)
    /\ UNCHANGED <<procs, waits, pane, why, asker, info, escalated, world, ctl>>

Probe ==
    /\ pc = "probe"
    /\ IF info # "none" /\ ~GroupAlive(pane)
       THEN Terminated(TRUE)
       ELSE pc' = "force" /\ UNCHANGED <<signalSent, termReq>>
    /\ UNCHANGED <<procs, waits, pane, why, asker, info, escalated, world, ctl>>

\* Pane::force_kill
ForceKill ==
    /\ pc = "force"
    /\ \/ /\ Denied(pane)
          /\ TerminateFails
          /\ UNCHANGED procs
       \/ /\ ~Denied(pane)
          /\ SignalGroup(pane, "KILL")
          /\ escalated' = TRUE
          /\ pc' = IF info = "none" THEN "await" ELSE "group"
          /\ UNCHANGED <<info, signalSent, termReq, ctl>>
    /\ UNCHANGED <<waits, pane, why, asker, world>>

\* Mutant: SIGKILL is not followed by a wait for the group.
GroupGone_Unconfirmed ==
    /\ pc = "group"
    /\ Terminated(TRUE)
    /\ UNCHANGED <<procs, waits, pane, why, asker, info, escalated, world, ctl>>

\* wait_for_process_group_exit
GroupGone ==
    /\ pc = "group"
    /\ ~GroupAlive(pane)
    /\ Terminated(TRUE)
    /\ UNCHANGED <<procs, waits, pane, why, asker, info, escalated, world, ctl>>

\* The 2 s are over first: a member is slow to die or cannot be killed.
GroupSurvives ==
    /\ pc = "group"
    /\ GroupAlive(pane)
    /\ SlowDeath \/ member[pane] = "foreign"
    /\ TerminateFails
    /\ UNCHANGED <<procs, waits, pane, why, asker, world>>

-----------------------------------------------------------------------------
(***************************************************************************)
(* The select loop.  Ready branches are chosen from in no order.           *)
(***************************************************************************)

\* The --timeout deadline, or the idle watchdog finding no output for long.
WatchdogFires ==
    /\ pc = "loop"
    /\ \/ HasTimeout /\ Terminate("timeout")
       \/ HasIdleTimeout /\ Terminate("idle")
    /\ UNCHANGED <<procs, waits, pane, asker, info, signalSent, escalated,
                   termReq, world, ctl>>

ReceiveKill ==
    /\ pc = "loop"
    /\ queue # <<>>
    /\ Head(queue) \in Killers
    /\ asker' = Head(queue)
    /\ queue' = Tail(queue)
    /\ Terminate("kill")
    /\ UNCHANGED <<procs, waits, pane, info, signalSent, escalated, termReq,
                   world, reply, conn>>

\* Mutant: a restart does not terminate the command it replaces.
ReceiveRestart_Blind ==
    /\ pc = "loop"
    /\ queue # <<>>
    /\ Head(queue) \in Restarters
    /\ queue' = Tail(queue)
    /\ pc' = "respawn"
    /\ UNCHANGED <<procs, waits, pane, term, world, reply, conn>>

ReceiveRestart ==
    /\ pc = "loop"
    /\ queue # <<>>
    /\ Head(queue) \in Restarters
    /\ queue' = Tail(queue)
    /\ Terminate("restart")
    /\ UNCHANGED <<procs, waits, pane, asker, info, signalSent, escalated,
                   termReq, world, reply, conn>>

\* exit_notify.notified() is ready.
NoticeExit ==
    /\ pc = "loop"
    /\ permit[pane]
    /\ permit' = [permit EXCEPT ![pane] = FALSE]
    /\ info' = exitStatus[pane]
    /\ pc' = "finish"
    /\ UNCHANGED <<procs, waiter, exitStatus, pane, why, asker, signalSent,
                   escalated, termReq, world, ctl>>

\* Restart, after the termination: the new pane, the handle, the status.
\* MaxPanes bounds the restarts.
Respawn ==
    /\ pc = "respawn"
    /\ pane < MaxPanes
    /\ pane' = pane + 1
    /\ SpawnPane(pane + 1)
    /\ pc' = "swap"
    /\ UNCHANGED <<term, world, ctl>>

RespawnFails ==
    /\ pc = "respawn"
    /\ pane < MaxPanes
    /\ pane' = pane + 1
    /\ SpawnFails(pane + 1)
    /\ pc' = "returned"
    /\ UNCHANGED <<term, world, ctl>>

\* Mutant: connections keep the old pane.
Swap_Forgotten ==
    /\ pc = "swap"
    /\ pc' = "republish"
    /\ UNCHANGED <<procs, waits, pane, term, world, ctl>>

\* replace_cmd_pane
Swap ==
    /\ pc = "swap"
    /\ handlePane' = pane
    /\ pc' = "republish"
    /\ UNCHANGED <<procs, waits, pane, term, status, socket, listening,
                   announced, recorded, ctl>>

Republish ==
    /\ pc = "republish"
    /\ status' = Status("running", pane, "none")
    /\ pc' = "loop"
    /\ UNCHANGED <<procs, waits, pane, term, socket, listening, handlePane,
                   announced, recorded, ctl>>

\* Mutant: death by a signal nobody here sent is recorded as an exit.
Ended_RequestOnly(signalled) ==
    Status(IF signalled THEN "killed" ELSE "exited", 0,
           IF info = "code" THEN "code" ELSE "none")

\* Mutant: the placeholder code of a signalled command is recorded.
Ended_RawCode(signalled) ==
    Status(IF signalled \/ info # "code" THEN "killed" ELSE "exited", 0, info)

\* Kill, after the termination: the status first, then the reply.
Ended(signalled) ==
    Status(IF signalled \/ info # "code" THEN "killed" ELSE "exited", 0,
           IF info = "code" THEN "code" ELSE "none")

RecordKill ==
    /\ pc = "recordKill"
    /\ status' = Ended(signalSent)
    /\ recorded' = TRUE
    /\ pc' = "replyKill"
    /\ UNCHANGED <<procs, waits, pane, term, socket, listening, handlePane,
                   announced, ctl>>

\* Mutant: only a kill that signalled something is replied to.
ReplyKill_SuccessOnly ==
    /\ pc = "replyKill"
    /\ reply' = IF signalSent THEN [reply EXCEPT ![asker] = "killed"] ELSE reply
    /\ pc' = "flush"
    /\ UNCHANGED <<procs, waits, pane, term, world, queue, conn>>

ReplyKill ==
    /\ pc = "replyKill"
    /\ reply' = [reply EXCEPT ![asker] = IF signalSent THEN "killed" ELSE "late"]
    /\ pc' = "flush"
    /\ UNCHANGED <<procs, waits, pane, term, world, queue, conn>>

\* Mutant: the worker does not wait for the reply to be delivered.
Flushed_Unawaited ==
    /\ pc = "flush"
    /\ pc' = "finish"
    /\ UNCHANGED <<procs, waits, pane, term, world, ctl>>

\* Mutant: a kill returns from the worker instead of leaving the loop.
Flushed_Returns ==
    /\ pc = "flush"
    /\ conn[asker] \in Answers \/ SlowClient
    /\ pc' = "returned"
    /\ UNCHANGED <<procs, waits, pane, term, world, ctl>>

\* response_flushed, or 2 s.
Flushed ==
    /\ pc = "flush"
    /\ conn[asker] \in Answers \/ SlowClient
    /\ pc' = "finish"
    /\ UNCHANGED <<procs, waits, pane, term, world, ctl>>

-----------------------------------------------------------------------------
(***************************************************************************)
(* serve_worker after its loop.                                            *)
(***************************************************************************)

\* Mutant: the status a kill has recorded is written again.
Finish_Overwrites ==
    /\ pc = "finish"
    /\ status' = Ended(termReq)
    /\ pc' = "drain"
    /\ UNCHANGED <<procs, waits, pane, term, socket, listening, handlePane,
                   announced, recorded, ctl>>

Finish ==
    /\ pc = "finish"
    /\ status' = IF recorded THEN status ELSE Ended(termReq)
    /\ pc' = "drain"
    /\ UNCHANGED <<procs, waits, pane, term, socket, listening, handlePane,
                   announced, recorded, ctl>>

\* The bounded waits, for the last output and for the attached clients, always
\* end; exit_tx.send is between them and the sockets are removed after both.
AnnounceExit ==
    /\ pc = "drain"
    /\ announced' = IF info = "none" THEN "signaled" ELSE info
    /\ pc' = "linger"
    /\ UNCHANGED <<procs, waits, pane, term, status, socket, listening,
                   handlePane, recorded, ctl>>

Cleanup ==
    /\ pc = "linger"
    /\ socket' = FALSE
    /\ pc' = "returned"
    /\ UNCHANGED <<procs, waits, pane, term, status, listening, handlePane,
                   announced, recorded, ctl>>

\* serve_worker has returned and dropped action_rx; the process ends.
ProcessEnds ==
    /\ pc = "returned"
    /\ listening' = FALSE
    /\ pc' = "gone"
    /\ UNCHANGED <<procs, waits, pane, term, status, socket, handlePane,
                   announced, recorded, ctl>>

-----------------------------------------------------------------------------
(***************************************************************************)
(* The control connections: dispatch of kill and restart.                  *)
(***************************************************************************)

\* What a connection step leaves alone.
ConnectionOnly == UNCHANGED <<procs, waits, pc, pane, term, world, reply>>

\* action_tx.send, which fails once action_rx is dropped.
Ask(c) ==
    /\ listening
    /\ conn[c] = "idle"
    /\ IF pc = "returned"
       THEN /\ conn' = [conn EXCEPT ![c] = "mainGone"]
            /\ UNCHANGED queue
       ELSE /\ conn' = [conn EXCEPT ![c] = IF c \in Killers THEN "waiting"
                                           ELSE "queued"]
            /\ queue' = Append(queue, c)
    /\ ConnectionOnly

\* The reply is relayed to the client.
Relay(k) ==
    /\ listening
    /\ conn[k] = "waiting"
    /\ reply[k] # "none"
    /\ conn' = [conn EXCEPT ![k] = reply[k]]
    /\ UNCHANGED queue
    /\ ConnectionOnly

\* The reply was dropped with the worker's channel, or 7 s are over.
StopWaiting(k) ==
    /\ listening
    /\ conn[k] = "waiting"
    /\ reply[k] = "none"
    /\ pc = "returned" \/ KillMayTimeOut
    /\ conn' = [conn EXCEPT ![k] = "racing"]
    /\ UNCHANGED queue
    /\ ConnectionOnly

\* kill_race_error: a terminal status within 500 ms, or none.
SettleRace(k) ==
    /\ listening
    /\ conn[k] = "racing"
    /\ conn' = [conn EXCEPT ![k] = IF status.state \in Terminal THEN "raced"
                                   ELSE "unresolved"]
    /\ UNCHANGED queue
    /\ ConnectionOnly

\* The worker process is gone and its connections with it.
Eof(k) ==
    /\ pc = "gone"
    /\ conn[k] \in {"waiting", "racing"}
    /\ conn' = [conn EXCEPT ![k] = "eof"]
    /\ UNCHANGED queue
    /\ ConnectionOnly

-----------------------------------------------------------------------------
Boot == Start \/ Spawn \/ SpawnAborts \/ Publish \/ Serve \/ ServeFails \/ GiveUp
Termination == CheckExit \/ Hangup \/ Await \/ Poll \/ WaitOver \/ Probe
               \/ ForceKill \/ GroupGone \/ GroupSurvives
LoopEvent == ReceiveKill \/ ReceiveRestart \/ NoticeExit
Restart == Respawn \/ RespawnFails \/ Swap \/ Republish
Killing == RecordKill \/ ReplyKill \/ Flushed
Shutdown == Finish \/ AnnounceExit \/ Cleanup \/ ProcessEnds
WorkerStep ==
    Boot \/ WriteFails \/ Termination \/ LoopEvent \/ Restart \/ Killing \/ Shutdown

Environment(p) == LeaderExits(p) \/ MemberExits(p)
WaitThread(p) == Reap(p) \/ StoreExit(p) \/ NotifyExit(p)
Connection(k) == Relay(k) \/ StopWaiting(k) \/ SettleRace(k) \/ Eof(k)

\* The session is over and everything about it has happened.
Over == pc = "gone" /\ UNCHANGED vars

Next ==
    \/ WorkerStep
    \/ WatchdogFires
    \/ \E p \in Panes : Environment(p) \/ WaitThread(p)
    \/ \E c \in Clients : Ask(c)
    \/ \E k \in Killers : Connection(k)
    \/ Over

Spec == Init /\ [][Next]_vars

\* The worker, its threads and its connection tasks are scheduled; a process
\* with a fatal signal pending dies.  The command itself owes nothing, and no
\* answer relies on the 7 s of a kill request being over.
Fairness ==
    /\ WF_vars(WorkerStep)
    /\ \A p \in Panes : /\ WF_vars(WaitThread(p))
                        /\ WF_vars(leader[p] = "dying" /\ LeaderExits(p))
                        /\ WF_vars(member[p] = "dying" /\ MemberExits(p))
    /\ \A k \in Killers :
        WF_vars((conn[k] # "waiting" \/ reply[k] # "none" \/ ~listening
                 \/ pc = "returned") /\ Connection(k))

FairSpec == Spec /\ Fairness

-----------------------------------------------------------------------------
(***************************************************************************)
(* What the worker must get right.                                         *)
(***************************************************************************)

\* Termination is confirmed before a restart goes on: two commands of one
\* session never run at the same time (run.rs, terminate_pane and Restart).
OneCommand ==
    \A p, q \in Panes : p # q => ~(GroupAlive(p) /\ GroupAlive(q))

\* A client that is told "killed" can rely on it: the status on disk says
\* killed and no process of any command of the session is left.
KillConfirmed ==
    \A k \in Killers : reply[k] = "killed" =>
        /\ status.state = "killed"
        /\ \A p \in Panes : ~GroupAlive(p)

\* Whenever the loop is ready for the next event, the pane it would terminate,
\* the pane connections write to and screenshot, and the pane named by the
\* status file are the same one (run.rs, Restart; control.rs, replace_cmd_pane).
LoopAgrees ==
    pc = "loop" => /\ handlePane = pane
                   /\ status = Status("running", pane, "none")

\* The exit sent to attached clients and the one recorded for everybody who
\* comes later are the same exit, and it is recorded first.
ExitTold ==
    announced # "none" =>
        /\ status.state \in Terminal
        /\ announced = "code" <=> status.code = "code"
        /\ announced = "signaled" => status.state = "killed"

\* A session recorded as finished has no direct child left, and the recorded
\* exit code is that of the last command.
EndIsTrue ==
    status.state \in Terminal /\ status.code # "setup" =>
        /\ \A p \in Panes : leader[p] \notin Live
        /\ status.state = "exited" /\ pane # 0 => cause[pane] # "signaled"
        /\ status.code = "code" => cause[pane] = "code"

\* A worker does not leave without recording the end, and takes its socket
\* with it.
NoStaleSession ==
    pc = "gone" => status.state \in Terminal /\ ~socket

\* The worker outlives the confirmation it owes: a kill that succeeded is not
\* reported to its client as a broken connection.
KillDelivered ==
    \A k \in Killers : reply[k] = "killed" => conn[k] # "eof"

\* "killed" is claimed only by a worker that signalled something alive, not
\* for a command that ended by itself (control.rs, dispatch of kill).
HonestClaim ==
    \A k \in Killers : reply[k] = "killed" => struck[pane]

\* A terminal status is final (session.rs, is_terminal).
TerminalIsFinal ==
    [][status.state \in Terminal => status' = status]_status

\* The status file over time is a session's life cycle.
Lifecycle == INSTANCE SessionLifecycle WITH
    state   <- status.state,
    command <- status.pid,
    over    <- status.pid \in Panes /\ exitStatus[status.pid] # "none"
LifecycleSpec == Lifecycle!Spec

\* An exit of the command is not missed: it is recorded, or the command is
\* replaced by a restart that was already asked for.
ExitRecorded ==
    \A p \in Panes :
        exitStatus[p] # "none" ~> status.state \in Terminal \/ pane > p

\* Every kill request is answered, whatever the worker is doing.
KillAnswered ==
    \A k \in Killers : conn[k] = "waiting" ~> conn[k] \in Answers
=============================================================================
