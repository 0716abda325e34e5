---------------------------- MODULE WorkerProofs ----------------------------
(***************************************************************************)
(* What Worker guarantees for every number of panes, connections and kinds *)
(* of processes: its type correctness, that two commands never overlap,    *)
(* that a confirmed kill is the truth, that a terminal status is final and *)
(* that the status file follows SessionLifecycle.  All of this follows     *)
(* from one inductive invariant, IInv.  What is said of the end, and what  *)
(* holds while some things do not fail, needs more: the last two parts.    *)
(***************************************************************************)
EXTENDS Worker, TLAPS

-----------------------------------------------------------------------------
(***************************************************************************)
(* Type correctness.                                                       *)
(***************************************************************************)

\* The session runs at least one command.
LEMMA Bounds == MaxPanes \in Nat /\ MaxPanes > 0
  BY ConstantsAssumption

\* A process that starts is alive, whatever its kind.
LEMMA KindsAreLive ==
  /\ LeaderKinds \subseteq Live
  /\ MemberKinds \subseteq Live \cup {"none"}
  BY ConstantsAssumption DEF Live, Kinds

\* Once the worker has spawned its first command it has a pane in hand.
LEMMA PaneIsBorn ==
  ASSUME TypeOK, pc \notin {"start", "spawn"}
  PROVE  pane \in Panes
  BY Bounds DEF TypeOK, PlaceOK, Panes

\* A signal leaves every process in a state of its type.
LEMMA SignalGroupTypes ==
  ASSUME NEW p \in Panes, NEW signal, ProcsOK, SignalGroup(p, signal)
  PROVE  ProcsOK'
  <1>1. leader' \in [Panes -> Live \cup {"unborn", "zombie", "reaped"}]
    <2>1. Struck(leader[p], signal) \in Live \cup {"unborn", "zombie", "reaped"}
      BY DEF ProcsOK, Struck, Live
    <2>. QED  BY <2>1 DEF ProcsOK, SignalGroup
  <1>2. member' \in [Panes -> Live \cup {"none"}]
    <2>1. Struck(member[p], signal) \in Live \cup {"none"}
      BY DEF ProcsOK, Struck, Live
    <2>. QED  BY <2>1 DEF ProcsOK, SignalGroup
  <1>3. struck' \in [Panes -> BOOLEAN]
    BY DEF ProcsOK, SignalGroup
  <1>. QED  BY <1>1, <1>2, <1>3 DEF ProcsOK, SignalGroup

\* The initial state has the types of TypeOK.
LEMMA TypeInit == Init => TypeOK
  <1> SUFFICES ASSUME Init PROVE TypeOK
    OBVIOUS
  <1> USE DEF Init
  <1>1. ProcsOK  BY DEF ProcsOK
  <1>2. WaitsOK  BY DEF WaitsOK
  <1>3. PlaceOK  BY Bounds DEF PlaceOK
  <1>4. TermOK   BY DEF TermOK
  <1>5. WorldOK  BY Bounds DEF WorldOK, Status
  <1>6. FlagsOK  BY DEF FlagsOK
  <1>7. CtlOK    BY DEF CtlOK
  <1>. QED  BY <1>1, <1>2, <1>3, <1>4, <1>5, <1>6, <1>7 DEF TypeOK

\* One step per group of actions, one sub-step per part of the state.
LEMMA TypeStep == ASSUME TypeOK, [Next]_vars PROVE TypeOK'
  <1>1. CASE Boot
    <2> USE <1>1 DEF TypeOK, Boot, Start, Spawn, SpawnAborts, Publish, Serve,
       ServeFails, GiveUp, SpawnPane, SpawnFails, StartChild, Terminate,
       procs, waits, term, world, ctl
    <2>1. ProcsOK'
      BY KindsAreLive DEF ProcsOK, Live, Info
    <2>2. WaitsOK'
      BY DEF ProcsOK, WaitsOK
    <2>3. PlaceOK'
      BY Bounds DEF PlaceOK
    <2>4. TermOK'
      BY PaneIsBorn DEF WaitsOK, TermOK, CtlOK, Info, Clients
    <2>5. WorldOK'
      BY Bounds DEF PlaceOK, TermOK, WorldOK, Status, Ended, Terminal, Info
    <2>6. FlagsOK'
      BY DEF FlagsOK
    <2>7. CtlOK'
      BY DEF CtlOK, Answers, Clients
    <2>. QED  BY <2>1, <2>2, <2>3, <2>4, <2>5, <2>6, <2>7
  <1>2. CASE CheckExit
    <2> USE <1>2 DEF TypeOK, CheckExit, Terminated, procs, waits, term, world, ctl
    <2>1. ProcsOK'
      BY KindsAreLive DEF ProcsOK, Live, Info
    <2>2. WaitsOK'
      BY DEF ProcsOK, WaitsOK
    <2>3. PlaceOK'
      BY Bounds DEF PlaceOK
    <2>4. TermOK'
      BY PaneIsBorn DEF WaitsOK, TermOK, CtlOK, Info, Clients
    <2>5. WorldOK'
      BY Bounds DEF PlaceOK, TermOK, WorldOK, Status, Ended, Terminal, Info
    <2>6. FlagsOK'
      BY DEF FlagsOK
    <2>7. CtlOK'
      BY DEF CtlOK, Answers, Clients
    <2>. QED  BY <2>1, <2>2, <2>3, <2>4, <2>5, <2>6, <2>7
  <1>3. CASE Hangup \/ ForceKill
    <2> USE <1>3 DEF TypeOK, Hangup, ForceKill, TerminateFails, procs, waits, term,
       world, ctl
    <2>1. ProcsOK'
      BY PaneIsBorn, SignalGroupTypes DEF ProcsOK, Live, Info
    <2>2. WaitsOK'
      BY DEF ProcsOK, WaitsOK
    <2>3. PlaceOK'
      BY Bounds DEF PlaceOK
    <2>4. TermOK'
      BY PaneIsBorn DEF WaitsOK, TermOK, CtlOK, Info, Clients
    <2>5. WorldOK'
      BY Bounds DEF PlaceOK, TermOK, WorldOK, Status, Ended, Terminal, Info
    <2>6. FlagsOK'
      BY DEF FlagsOK
    <2>7. CtlOK'
      BY DEF CtlOK, Answers, Clients
    <2>. QED  BY <2>1, <2>2, <2>3, <2>4, <2>5, <2>6, <2>7
  <1>4. CASE Await \/ Poll \/ WaitOver
    <2> USE <1>4 DEF TypeOK, Await, Poll, WaitOver, Awaited, TerminateFails, procs,
       waits, term, world, ctl
    <2>1. ProcsOK'
      BY KindsAreLive DEF ProcsOK, Live, Info
    <2>2. WaitsOK'
      BY DEF ProcsOK, WaitsOK
    <2>3. PlaceOK'
      BY Bounds DEF PlaceOK
    <2>4. TermOK'
      BY PaneIsBorn DEF WaitsOK, TermOK, CtlOK, Info, Clients
    <2>5. WorldOK'
      BY Bounds DEF PlaceOK, TermOK, WorldOK, Status, Ended, Terminal, Info
    <2>6. FlagsOK'
      BY DEF FlagsOK
    <2>7. CtlOK'
      BY DEF CtlOK, Answers, Clients
    <2>. QED  BY <2>1, <2>2, <2>3, <2>4, <2>5, <2>6, <2>7
  <1>5. CASE Probe \/ GroupGone \/ GroupSurvives
    <2> USE <1>5 DEF TypeOK, Probe, GroupGone, GroupSurvives, Terminated,
       TerminateFails, procs, waits, term, world, ctl
    <2>1. ProcsOK'
      BY KindsAreLive DEF ProcsOK, Live, Info
    <2>2. WaitsOK'
      BY DEF ProcsOK, WaitsOK
    <2>3. PlaceOK'
      BY Bounds DEF PlaceOK
    <2>4. TermOK'
      BY PaneIsBorn DEF WaitsOK, TermOK, CtlOK, Info, Clients
    <2>5. WorldOK'
      BY Bounds DEF PlaceOK, TermOK, WorldOK, Status, Ended, Terminal, Info
    <2>6. FlagsOK'
      BY DEF FlagsOK
    <2>7. CtlOK'
      BY DEF CtlOK, Answers, Clients
    <2>. QED  BY <2>1, <2>2, <2>3, <2>4, <2>5, <2>6, <2>7
  <1>6. CASE LoopEvent \/ WatchdogFires \/ WriteFails
    <2> USE <1>6 DEF TypeOK, LoopEvent, ReceiveKill, ReceiveRestart, NoticeExit,
       WatchdogFires, WriteFails, Terminate, procs, waits, term, world, ctl
    <2>1. ProcsOK'
      BY KindsAreLive DEF ProcsOK, Live, Info
    <2>2. WaitsOK'
      BY DEF ProcsOK, WaitsOK
    <2>3. PlaceOK'
      BY Bounds DEF PlaceOK
    <2>4. TermOK'
      BY PaneIsBorn DEF WaitsOK, TermOK, CtlOK, Info, Clients
    <2>5. WorldOK'
      BY Bounds DEF PlaceOK, TermOK, WorldOK, Status, Ended, Terminal, Info
    <2>6. FlagsOK'
      BY DEF FlagsOK
    <2>7. CtlOK'
      BY DEF CtlOK, Answers, Clients
    <2>. QED  BY <2>1, <2>2, <2>3, <2>4, <2>5, <2>6, <2>7
  <1>7. CASE Restart
    <2> USE <1>7
       DEF TypeOK, Restart, Respawn, RespawnFails, Swap, Republish, SpawnPane,
       SpawnFails, StartChild, procs, waits, term, world, ctl
    <2>1. ProcsOK'
      BY KindsAreLive DEF ProcsOK, Live, Info
    <2>2. WaitsOK'
      BY DEF ProcsOK, WaitsOK
    <2>3. PlaceOK'
      BY Bounds DEF PlaceOK
    <2>4. TermOK'
      BY PaneIsBorn DEF WaitsOK, TermOK, CtlOK, Info, Clients
    <2>5. WorldOK'
      BY Bounds DEF PlaceOK, TermOK, WorldOK, Status, Ended, Terminal, Info
    <2>6. FlagsOK'
      BY DEF FlagsOK
    <2>7. CtlOK'
      BY DEF CtlOK, Answers, Clients
    <2>. QED  BY <2>1, <2>2, <2>3, <2>4, <2>5, <2>6, <2>7
  <1>8. CASE Killing \/ Shutdown
    <2> USE <1>8
       DEF TypeOK, Killing, RecordKill, ReplyKill, Flushed, Shutdown, Finish,
       AnnounceExit, Cleanup, ProcessEnds, procs, waits, term, world, ctl
    <2>1. ProcsOK'
      BY KindsAreLive DEF ProcsOK, Live, Info
    <2>2. WaitsOK'
      BY DEF ProcsOK, WaitsOK
    <2>3. PlaceOK'
      BY Bounds DEF PlaceOK
    <2>4. TermOK'
      BY PaneIsBorn DEF WaitsOK, TermOK, CtlOK, Info, Clients
    <2>5. WorldOK'
      BY Bounds DEF PlaceOK, TermOK, WorldOK, Status, Ended, Terminal, Info
    <2>6. FlagsOK'
      BY DEF FlagsOK
    <2>7. CtlOK'
      BY DEF CtlOK, Answers, Clients
    <2>. QED  BY <2>1, <2>2, <2>3, <2>4, <2>5, <2>6, <2>7
  <1>9. ASSUME NEW p \in Panes, Environment(p) \/ WaitThread(p)
        PROVE  TypeOK'
    <2> USE <1>9
       DEF TypeOK, Environment, LeaderExits, MemberExits, WaitThread, Reap,
       StoreExit, NotifyExit, procs, waits, term, world, ctl
    <2>1. ProcsOK'
      BY KindsAreLive DEF ProcsOK, Live, Info
    <2>2. WaitsOK'
      BY DEF ProcsOK, WaitsOK
    <2>3. PlaceOK'
      BY Bounds DEF PlaceOK
    <2>4. TermOK'
      BY PaneIsBorn DEF WaitsOK, TermOK, CtlOK, Info, Clients
    <2>5. WorldOK'
      BY Bounds DEF PlaceOK, TermOK, WorldOK, Status, Ended, Terminal, Info
    <2>6. FlagsOK'
      BY DEF FlagsOK
    <2>7. CtlOK'
      BY DEF CtlOK, Answers, Clients
    <2>. QED  BY <2>1, <2>2, <2>3, <2>4, <2>5, <2>6, <2>7
  <1>10. CASE (\E c \in Clients : Ask(c)) \/ (\E k \in Killers : Connection(k))
    <2> USE <1>10 DEF TypeOK, Ask, Connection, Relay, StopWaiting, SettleRace, Eof,
       ConnectionOnly, procs, waits, term, world, ctl
    <2>1. ProcsOK'
      BY KindsAreLive DEF ProcsOK, Live, Info
    <2>2. WaitsOK'
      BY DEF ProcsOK, WaitsOK
    <2>3. PlaceOK'
      BY Bounds DEF PlaceOK
    <2>4. TermOK'
      BY PaneIsBorn DEF WaitsOK, TermOK, CtlOK, Info, Clients
    <2>5. WorldOK'
      BY Bounds DEF PlaceOK, TermOK, WorldOK, Status, Ended, Terminal, Info
    <2>6. FlagsOK'
      BY DEF FlagsOK
    <2>7. CtlOK'
      BY DEF CtlOK, Answers, Clients
    <2>. QED  BY <2>1, <2>2, <2>3, <2>4, <2>5, <2>6, <2>7
  <1>11. CASE UNCHANGED vars
    BY <1>11
       DEF TypeOK, ProcsOK, WaitsOK, PlaceOK, TermOK, WorldOK, FlagsOK, CtlOK,
       vars, procs, waits, term, world, ctl
  <1>. QED  BY <1>1, <1>2, <1>3, <1>4, <1>5, <1>6, <1>7, <1>8, <1>9, <1>10,
       <1>11 DEF Next, WorkerStep, Termination, Over

\* Every variable keeps its type, for every value of the constants.
THEOREM TypeCorrect == Spec => []TypeOK
  BY TypeInit, TypeStep, PTL DEF Spec

-----------------------------------------------------------------------------
(***************************************************************************)
(* The inductive invariant.                                                *)
(***************************************************************************)

Terminating == {"terminate", "hangup", "await", "poll", "wait", "probe", "force",
                "group"}
\* Where the recorded command is the one in hand.
InSession ==
    pc \in {"serve", "loop", "respawn", "recordKill", "giveUp"} \cup Terminating
    \/ (pc = "finish" /\ ~recorded)
\* Where a terminal status may have been recorded.
Ending == {"replyKill", "flush", "finish", "drain", "linger", "returned", "gone"}

\* Earlier commands are gone, later ones not born.
PanesInOrder ==
    /\ \A p \in Panes : p < pane => ~GroupAlive(p)
    /\ \A p \in Panes : p > pane => leader[p] = "unborn" /\ member[p] = "none"

\* Every successful termination leaves the current group gone.
Confirmed ==
    pc \in {"respawn", "recordKill", "replyKill", "flush"} \/ recorded =>
        ~GroupAlive(pane)

\* Only the kill request that ended the loop is told "killed".
KillRecorded ==
    /\ recorded => pc \in Ending
    /\ pc \in {"replyKill", "flush"} => recorded
    /\ recorded /\ signalSent => status.state = "killed"
    /\ \A k \in Killers : reply[k] = "killed" => recorded /\ signalSent

\* What the wait thread has stored when it notifies, and what the worker knows.
ExitKnown ==
    /\ \A p \in Panes :
        /\ leader[p] = "zombie" \/ waiter[p] = "storing" => cause[p] # "none"
        /\ waiter[p] = "notifying" \/ permit[p] => exitStatus[p] # "none"
    /\ pc \in {"group", "respawn", "recordKill", "replyKill", "flush", "finish"} =>
        exitStatus[pane] # "none"
    /\ pc \in Terminating \ {"terminate"} /\ info # "none" => exitStatus[pane] # "none"

\* The status file, step by step.
StatusInStep ==
    /\ status.state = "running" <=> status.pid # 0
    /\ pc = "start" => status.state = "none"
    /\ pc \in {"spawn", "publish"} => status.state = "starting"
    /\ pc = "publish" => pane = 1
    /\ InSession => handlePane = pane /\ status = Status("running", pane, "none")
    /\ pc \in {"swap", "republish"} =>
        /\ pane > 1
        /\ status = Status("running", pane - 1, "none")
        /\ exitStatus[pane - 1] # "none"
    /\ pc = "republish" => handlePane = pane

\* Only a failed set-up is given up, and it is about the first command.
SetUp ==
    /\ pc \in Terminating => why # "none" /\ (why = "setup" => pane = 1)
    /\ pc \in {"serve", "giveUp"} => pane = 1

IInv ==
    /\ TypeOK
    /\ PanesInOrder /\ Confirmed /\ KillRecorded
    /\ ExitKnown /\ StatusInStep /\ SetUp

\* IInv holds before the worker has done anything.
LEMMA InvInit == Init => IInv
  <1> SUFFICES ASSUME Init PROVE IInv
    OBVIOUS
  <1>1. TypeOK  BY TypeInit
  <1>2. PanesInOrder  BY DEF Init, PanesInOrder, GroupAlive, Live, Kinds
  <1>3. Confirmed  BY DEF Init, Confirmed
  <1>4. KillRecorded  BY DEF Init, KillRecorded
  <1>5. ExitKnown  BY DEF Init, ExitKnown, Terminating
  <1>6. StatusInStep  BY DEF Init, StatusInStep, InSession, Terminating, Status
  <1>7. SetUp  BY DEF Init, SetUp, Terminating
  <1>. QED  BY <1>1, <1>2, <1>3, <1>4, <1>5, <1>6, <1>7 DEF IInv

\* No signal and no exit brings a process back to life.
LEMMA SignalKeepsDead ==
  ASSUME NEW p \in Panes, NEW signal, ProcsOK, SignalGroup(p, signal)
  PROVE  \A q \in Panes :
           /\ ~GroupAlive(q) => ~GroupAlive(q)'
           /\ leader[q] = "unborn" /\ member[q] = "none" =>
                leader'[q] = "unborn" /\ member'[q] = "none"
  BY DEF ProcsOK, SignalGroup, Struck, GroupAlive, Live, Kinds

\* Neither does an exit, nor anything the wait thread does.
LEMMA EnvironmentKeepsDead ==
  ASSUME TypeOK, NEW p \in Panes, Environment(p) \/ WaitThread(p), NEW q \in Panes
  PROVE  /\ ~GroupAlive(q) => ~GroupAlive(q)'
         /\ leader[q] = "unborn" => leader'[q] = "unborn"
         /\ member[q] = "none" => member'[q] = "none"
  <1>1. CASE LeaderExits(p)
    BY <1>1 DEF TypeOK, ProcsOK, LeaderExits, GroupAlive, Live, Kinds
  <1>2. CASE MemberExits(p)
    BY <1>2 DEF TypeOK, ProcsOK, MemberExits, GroupAlive, Live, Kinds
  <1>3. CASE Reap(p)
    BY <1>3 DEF TypeOK, ProcsOK, Reap, GroupAlive, Live, Kinds
  <1>4. CASE StoreExit(p) \/ NotifyExit(p)
    BY <1>4 DEF StoreExit, NotifyExit, procs, GroupAlive
  <1>. QED  BY <1>1, <1>2, <1>3, <1>4 DEF Environment, WaitThread

\* A new command does not touch the processes of the others.
LEMMA StartChildKeepsOthers ==
  ASSUME NEW p \in Panes, ProcsOK, StartChild(p), NEW q \in Panes, q # p
  PROVE  leader'[q] = leader[q] /\ member'[q] = member[q]
  BY DEF ProcsOK, StartChild

\* A reply of "killed" comes only after the terminal status: every step.
LEMMA KillRecordedStep == ASSUME IInv, [Next]_vars PROVE KillRecorded'
  <1>1. CASE Boot
    BY <1>1
       DEF IInv, KillRecorded, Ending, Ended, Status, TypeOK, CtlOK, FlagsOK,
       TermOK, Boot, Start, Spawn, SpawnAborts, Publish, Serve, ServeFails,
       GiveUp, SpawnPane, SpawnFails, StartChild, Terminate, procs, waits,
       term, world, ctl
  <1>2. CASE CheckExit
    BY <1>2
       DEF IInv, KillRecorded, Ending, Ended, Status, TypeOK, CtlOK, FlagsOK,
       TermOK, CheckExit, Terminated, procs, waits, term, world, ctl
  <1>3. CASE Hangup \/ ForceKill
    BY <1>3
       DEF IInv, KillRecorded, Ending, Ended, Status, TypeOK, CtlOK, FlagsOK,
       TermOK, Hangup, ForceKill, TerminateFails, SignalGroup, procs, waits,
       term, world, ctl
  <1>4. CASE Await \/ Poll \/ WaitOver
    BY <1>4
       DEF IInv, KillRecorded, Ending, Ended, Status, TypeOK, CtlOK, FlagsOK,
       TermOK, Await, Poll, WaitOver, Awaited, TerminateFails, procs, waits,
       term, world, ctl
  <1>5. CASE Probe \/ GroupGone \/ GroupSurvives
    <2>1. ~recorded /\ pc' \notin {"replyKill", "flush"} /\ UNCHANGED recorded
      BY <1>5 DEF IInv, KillRecorded, Ending, Probe, GroupGone, GroupSurvives,
         Terminated, TerminateFails, world
    <2>2. \A k \in Killers : reply'[k] # "killed"
      BY <1>5, <2>1 DEF IInv, TypeOK, CtlOK, KillRecorded, Probe, GroupGone,
         GroupSurvives, TerminateFails, ctl
    <2>. QED  BY <2>1, <2>2 DEF KillRecorded
  <1>6. CASE LoopEvent \/ WatchdogFires \/ WriteFails
    BY <1>6
       DEF IInv, KillRecorded, Ending, Ended, Status, TypeOK, CtlOK, FlagsOK,
       TermOK, LoopEvent, ReceiveKill, ReceiveRestart, NoticeExit,
       WatchdogFires, WriteFails, Terminate, procs, waits, term, world, ctl
  <1>7. CASE Restart
    BY <1>7
       DEF IInv, KillRecorded, Ending, Ended, Status, TypeOK, CtlOK, FlagsOK,
       TermOK, Restart, Respawn, RespawnFails, Swap, Republish, SpawnPane,
       SpawnFails, StartChild, procs, waits, term, world, ctl
  <1>8. CASE Killing \/ Shutdown
    BY <1>8
       DEF IInv, KillRecorded, Ending, Ended, Status, TypeOK, CtlOK, FlagsOK,
       TermOK, Killing, RecordKill, ReplyKill, Flushed, Shutdown, Finish,
       AnnounceExit, Cleanup, ProcessEnds, procs, waits, term, world, ctl
  <1>9. ASSUME NEW p \in Panes, Environment(p) \/ WaitThread(p)
        PROVE  KillRecorded'
    BY <1>9
       DEF IInv, KillRecorded, Ending, Ended, Status, TypeOK, CtlOK, FlagsOK,
       TermOK, Environment, LeaderExits, MemberExits, WaitThread, Reap,
       StoreExit, NotifyExit, procs, waits, term, world, ctl
  <1>10. CASE (\E c \in Clients : Ask(c)) \/ (\E k \in Killers : Connection(k))
    BY <1>10
       DEF IInv, KillRecorded, Ending, Ended, Status, TypeOK, CtlOK, FlagsOK,
       TermOK, Ask, Connection, Relay, StopWaiting, SettleRace, Eof,
       ConnectionOnly, procs, waits, term, world, ctl
  <1>11. CASE UNCHANGED vars
    BY <1>11
       DEF IInv, KillRecorded, Ending, Ended, Status, TypeOK, CtlOK, FlagsOK,
       TermOK, vars, procs, waits, term, world, ctl
  <1>. QED  BY <1>1, <1>2, <1>3, <1>4, <1>5, <1>6, <1>7, <1>8, <1>9, <1>10,
       <1>11 DEF Next, WorkerStep, Termination, Over

\* The caller of terminate_pane is known while it runs: every step.
LEMMA SetUpStep == ASSUME IInv, [Next]_vars PROVE SetUp'
  <1>1. CASE Boot
    BY <1>1
       DEF IInv, SetUp, StatusInStep, Terminating, TypeOK, PlaceOK, TermOK,
       Boot, Start, Spawn, SpawnAborts, Publish, Serve, ServeFails, GiveUp,
       SpawnPane, SpawnFails, StartChild, Terminate, procs, waits, term,
       world, ctl
  <1>2. CASE CheckExit
    BY <1>2
       DEF IInv, SetUp, StatusInStep, Terminating, TypeOK, PlaceOK, TermOK,
       CheckExit, Terminated, procs, waits, term, world, ctl
  <1>3. CASE Hangup \/ ForceKill
    BY <1>3
       DEF IInv, SetUp, StatusInStep, Terminating, TypeOK, PlaceOK, TermOK,
       Hangup, ForceKill, TerminateFails, SignalGroup, procs, waits, term,
       world, ctl
  <1>4. CASE Await \/ Poll \/ WaitOver
    BY <1>4
       DEF IInv, SetUp, StatusInStep, Terminating, TypeOK, PlaceOK, TermOK,
       Await, Poll, WaitOver, Awaited, TerminateFails, procs, waits, term,
       world, ctl
  <1>5. CASE Probe \/ GroupGone \/ GroupSurvives
    BY <1>5
       DEF IInv, SetUp, StatusInStep, Terminating, TypeOK, PlaceOK, TermOK,
       Probe, GroupGone, GroupSurvives, Terminated, TerminateFails, procs,
       waits, term, world, ctl
  <1>6. CASE LoopEvent \/ WatchdogFires \/ WriteFails
    BY <1>6
       DEF IInv, SetUp, StatusInStep, Terminating, TypeOK, PlaceOK, TermOK,
       LoopEvent, ReceiveKill, ReceiveRestart, NoticeExit, WatchdogFires,
       WriteFails, Terminate, procs, waits, term, world, ctl
  <1>7. CASE Restart
    BY <1>7
       DEF IInv, SetUp, StatusInStep, Terminating, TypeOK, PlaceOK, TermOK,
       Restart, Respawn, RespawnFails, Swap, Republish, SpawnPane, SpawnFails,
       StartChild, procs, waits, term, world, ctl
  <1>8. CASE Killing \/ Shutdown
    BY <1>8
       DEF IInv, SetUp, StatusInStep, Terminating, TypeOK, PlaceOK, TermOK,
       Killing, RecordKill, ReplyKill, Flushed, Shutdown, Finish,
       AnnounceExit, Cleanup, ProcessEnds, procs, waits, term, world, ctl
  <1>9. ASSUME NEW p \in Panes, Environment(p) \/ WaitThread(p)
        PROVE  SetUp'
    BY <1>9
       DEF IInv, SetUp, StatusInStep, Terminating, TypeOK, PlaceOK, TermOK,
       Environment, LeaderExits, MemberExits, WaitThread, Reap, StoreExit,
       NotifyExit, procs, waits, term, world, ctl
  <1>10. CASE (\E c \in Clients : Ask(c)) \/ (\E k \in Killers : Connection(k))
    BY <1>10
       DEF IInv, SetUp, StatusInStep, Terminating, TypeOK, PlaceOK, TermOK,
       Ask, Connection, Relay, StopWaiting, SettleRace, Eof, ConnectionOnly,
       procs, waits, term, world, ctl
  <1>11. CASE UNCHANGED vars
    BY <1>11
       DEF IInv, SetUp, StatusInStep, Terminating, TypeOK, PlaceOK, TermOK,
       vars, procs, waits, term, world, ctl
  <1>. QED  BY <1>1, <1>2, <1>3, <1>4, <1>5, <1>6, <1>7, <1>8, <1>9, <1>10,
       <1>11 DEF Next, WorkerStep, Termination, Over

\* What a thread says of an exit has been stored before: every step.
LEMMA ExitKnownStep == ASSUME IInv, [Next]_vars PROVE ExitKnown'
  <1>1. CASE Boot
    <2>1. \A p \in Panes : leader'[p] = "zombie" \/ waiter'[p] = "storing" =>
                               cause'[p] # "none"
      BY <1>1, KindsAreLive
         DEF IInv, ExitKnown, TypeOK, ProcsOK, WaitsOK, Info, Live, Kinds,
         Boot, Start, Spawn, SpawnAborts, Publish, Serve, ServeFails, GiveUp,
         SpawnPane, SpawnFails, StartChild, Terminate, procs, waits, term,
         world, ctl
    <2>2. \A p \in Panes : waiter'[p] = "notifying" \/ permit'[p] =>
                               exitStatus'[p] # "none"
      BY <1>1, KindsAreLive
         DEF IInv, ExitKnown, TypeOK, ProcsOK, WaitsOK, Info, Live, Kinds,
         Boot, Start, Spawn, SpawnAborts, Publish, Serve, ServeFails, GiveUp,
         SpawnPane, SpawnFails, StartChild, Terminate, procs, waits, term,
         world, ctl
    <2>3. pc' \in {"group", "respawn", "recordKill", "replyKill", "flush", "finish"} =>
            exitStatus'[pane'] # "none"
      BY <1>1, PaneIsBorn
         DEF IInv, ExitKnown, Terminating, TypeOK, ProcsOK, WaitsOK, Boot,
         Start, Spawn, SpawnAborts, Publish, Serve, ServeFails, GiveUp,
         SpawnPane, SpawnFails, StartChild, Terminate, procs, waits, term,
         world, ctl
    <2>4. pc' \in Terminating \ {"terminate"} /\ info' # "none" =>
            exitStatus'[pane'] # "none"
      BY <1>1, PaneIsBorn
         DEF IInv, ExitKnown, Terminating, TypeOK, ProcsOK, WaitsOK, Boot,
         Start, Spawn, SpawnAborts, Publish, Serve, ServeFails, GiveUp,
         SpawnPane, SpawnFails, StartChild, Terminate, procs, waits, term,
         world, ctl
    <2>. QED  BY <2>1, <2>2, <2>3, <2>4 DEF ExitKnown
  <1>2. CASE CheckExit
    BY <1>2, PaneIsBorn
       DEF IInv, ExitKnown, Terminating, TypeOK, ProcsOK, WaitsOK, Info,
       CheckExit, Terminated, procs, waits, term, world, ctl
  <1>3. CASE Hangup \/ ForceKill
    <2>1. \A p \in Panes : leader'[p] = "zombie" \/ waiter'[p] = "storing" =>
                               cause'[p] # "none"
      BY <1>3, PaneIsBorn
         DEF IInv, ExitKnown, TypeOK, ProcsOK, WaitsOK, Info, Live, Kinds,
         Struck, Hangup, ForceKill, TerminateFails, SignalGroup, procs, waits, term,
         world, ctl
    <2>2. \A p \in Panes : waiter'[p] = "notifying" \/ permit'[p] =>
                               exitStatus'[p] # "none"
      BY <1>3, PaneIsBorn
         DEF IInv, ExitKnown, TypeOK, ProcsOK, WaitsOK, Info, Live, Kinds,
         Struck, Hangup, ForceKill, TerminateFails, SignalGroup, procs, waits, term,
         world, ctl
    <2>3. pc' \in {"group", "respawn", "recordKill", "replyKill", "flush", "finish"} =>
            exitStatus'[pane'] # "none"
      BY <1>3, PaneIsBorn
         DEF IInv, ExitKnown, Terminating, TypeOK, ProcsOK, WaitsOK, Hangup,
         ForceKill, TerminateFails, SignalGroup, procs, waits, term, world,
         ctl
    <2>4. pc' \in Terminating \ {"terminate"} /\ info' # "none" =>
            exitStatus'[pane'] # "none"
      BY <1>3, PaneIsBorn
         DEF IInv, ExitKnown, Terminating, TypeOK, ProcsOK, WaitsOK, Hangup,
         ForceKill, TerminateFails, SignalGroup, procs, waits, term, world,
         ctl
    <2>. QED  BY <2>1, <2>2, <2>3, <2>4 DEF ExitKnown
  <1>4. CASE Await \/ Poll \/ WaitOver
    BY <1>4, PaneIsBorn
       DEF IInv, ExitKnown, Terminating, TypeOK, ProcsOK, WaitsOK, Info,
       Await, Poll, WaitOver, Awaited, TerminateFails, procs, waits, term,
       world, ctl
  <1>5. CASE Probe \/ GroupGone \/ GroupSurvives
    BY <1>5, PaneIsBorn
       DEF IInv, ExitKnown, Terminating, TypeOK, ProcsOK, WaitsOK, Info,
       Probe, GroupGone, GroupSurvives, Terminated, TerminateFails, procs,
       waits, term, world, ctl
  <1>6. CASE LoopEvent \/ WatchdogFires \/ WriteFails
    BY <1>6, PaneIsBorn
       DEF IInv, ExitKnown, Terminating, TypeOK, ProcsOK, WaitsOK, Info,
       LoopEvent, ReceiveKill, ReceiveRestart, NoticeExit, WatchdogFires,
       WriteFails, Terminate, procs, waits, term, world, ctl
  <1>7. CASE Restart
    <2>1. \A p \in Panes : leader'[p] = "zombie" \/ waiter'[p] = "storing" =>
                               cause'[p] # "none"
      BY <1>7, KindsAreLive
         DEF IInv, ExitKnown, TypeOK, ProcsOK, WaitsOK, Info, Live, Kinds,
         Restart, Respawn, RespawnFails, Swap, Republish, SpawnPane,
         SpawnFails, StartChild, procs, waits, term, world, ctl
    <2>2. \A p \in Panes : waiter'[p] = "notifying" \/ permit'[p] =>
                               exitStatus'[p] # "none"
      BY <1>7, KindsAreLive
         DEF IInv, ExitKnown, TypeOK, ProcsOK, WaitsOK, Info, Live, Kinds,
         Restart, Respawn, RespawnFails, Swap, Republish, SpawnPane,
         SpawnFails, StartChild, procs, waits, term, world, ctl
    <2>3. pc' \in {"group", "respawn", "recordKill", "replyKill", "flush", "finish"} =>
            exitStatus'[pane'] # "none"
      BY <1>7, PaneIsBorn
         DEF IInv, ExitKnown, Terminating, TypeOK, ProcsOK, WaitsOK, Restart,
         Respawn, RespawnFails, Swap, Republish, SpawnPane, SpawnFails,
         StartChild, procs, waits, term, world, ctl
    <2>4. pc' \in Terminating \ {"terminate"} /\ info' # "none" =>
            exitStatus'[pane'] # "none"
      BY <1>7, PaneIsBorn
         DEF IInv, ExitKnown, Terminating, TypeOK, ProcsOK, WaitsOK, Restart,
         Respawn, RespawnFails, Swap, Republish, SpawnPane, SpawnFails,
         StartChild, procs, waits, term, world, ctl
    <2>. QED  BY <2>1, <2>2, <2>3, <2>4 DEF ExitKnown
  <1>8. CASE Killing \/ Shutdown
    BY <1>8, PaneIsBorn
       DEF IInv, ExitKnown, Terminating, TypeOK, ProcsOK, WaitsOK, Info,
       Killing, RecordKill, ReplyKill, Flushed, Shutdown, Finish,
       AnnounceExit, Cleanup, ProcessEnds, procs, waits, term, world, ctl
  <1>9. ASSUME NEW p \in Panes, Environment(p) \/ WaitThread(p)
        PROVE  ExitKnown'
    BY <1>9, PaneIsBorn
       DEF IInv, ExitKnown, Terminating, TypeOK, ProcsOK, WaitsOK, Info,
       Environment, LeaderExits, MemberExits, WaitThread, Reap, StoreExit,
       NotifyExit, procs, waits, term, world, ctl
  <1>10. CASE (\E c \in Clients : Ask(c)) \/ (\E k \in Killers : Connection(k))
    BY <1>10, PaneIsBorn
       DEF IInv, ExitKnown, Terminating, TypeOK, ProcsOK, WaitsOK, Info, Ask,
       Connection, Relay, StopWaiting, SettleRace, Eof, ConnectionOnly, procs,
       waits, term, world, ctl
  <1>11. CASE UNCHANGED vars
    BY <1>11, PaneIsBorn
       DEF IInv, ExitKnown, Terminating, TypeOK, ProcsOK, WaitsOK, Info, vars,
       procs, waits, term, world, ctl
  <1>. QED  BY <1>1, <1>2, <1>3, <1>4, <1>5, <1>6, <1>7, <1>8, <1>9, <1>10,
       <1>11 DEF Next, WorkerStep, Termination, Over

\* The status file follows the program counter: every step.
LEMMA StatusInStepStep == ASSUME IInv, [Next]_vars PROVE StatusInStep'
  <1>1. CASE Boot
    BY <1>1, PaneIsBorn, Bounds
       DEF IInv, StatusInStep, SetUp, ExitKnown, InSession, Terminating,
       Ended, Status, TypeOK, PlaceOK, WorldOK, WaitsOK, TermOK, Panes, Boot,
       Start, Spawn, SpawnAborts, Publish, Serve, ServeFails, GiveUp,
       SpawnPane, SpawnFails, StartChild, Terminate, procs, waits, term,
       world, ctl
  <1>2. CASE CheckExit
    BY <1>2, PaneIsBorn, Bounds
       DEF IInv, StatusInStep, SetUp, ExitKnown, InSession, Terminating,
       Ended, Status, TypeOK, PlaceOK, WorldOK, WaitsOK, TermOK, Panes,
       CheckExit, Terminated, procs, waits, term, world, ctl
  <1>3. CASE Hangup \/ ForceKill
    BY <1>3, PaneIsBorn, Bounds
       DEF IInv, StatusInStep, SetUp, ExitKnown, InSession, Terminating,
       Ended, Status, TypeOK, PlaceOK, WorldOK, WaitsOK, TermOK, Panes,
       Hangup, ForceKill, TerminateFails, SignalGroup, procs, waits, term,
       world, ctl
  <1>4. CASE Await \/ Poll \/ WaitOver
    BY <1>4, PaneIsBorn, Bounds
       DEF IInv, StatusInStep, SetUp, ExitKnown, InSession, Terminating,
       Ended, Status, TypeOK, PlaceOK, WorldOK, WaitsOK, TermOK, Panes, Await,
       Poll, WaitOver, Awaited, TerminateFails, procs, waits, term, world, ctl
  <1>5. CASE Probe \/ GroupGone \/ GroupSurvives
    <2>1. InSession /\ UNCHANGED <<status, handlePane, pane, exitStatus>>
      BY <1>5 DEF InSession, Terminating, Probe, GroupGone, GroupSurvives, world, waits
    <2>2. pc' \notin {"start", "spawn", "publish", "swap", "republish"}
      BY <1>5 DEF Probe, GroupGone, GroupSurvives, Terminated, TerminateFails
    <2>. QED  BY <2>1, <2>2 DEF IInv, StatusInStep
  <1>6. CASE LoopEvent \/ WatchdogFires \/ WriteFails
    BY <1>6, PaneIsBorn, Bounds
       DEF IInv, StatusInStep, SetUp, ExitKnown, InSession, Terminating,
       Ended, Status, TypeOK, PlaceOK, WorldOK, WaitsOK, TermOK, Panes,
       LoopEvent, ReceiveKill, ReceiveRestart, NoticeExit, WatchdogFires,
       WriteFails, Terminate, procs, waits, term, world, ctl
  <1>7. CASE Restart
    BY <1>7, PaneIsBorn, Bounds
       DEF IInv, StatusInStep, SetUp, ExitKnown, InSession, Terminating,
       Ended, Status, TypeOK, PlaceOK, WorldOK, WaitsOK, TermOK, Panes,
       Restart, Respawn, RespawnFails, Swap, Republish, SpawnPane, SpawnFails,
       StartChild, procs, waits, term, world, ctl
  <1>8. CASE Killing \/ Shutdown
    <2>1. pc' \notin {"start", "spawn", "publish", "swap", "republish"}
      BY <1>8 DEF Killing, RecordKill, ReplyKill, Flushed, Shutdown, Finish,
         AnnounceExit, Cleanup, ProcessEnds
    <2>2. ~InSession'
      BY <1>8 DEF IInv, KillRecorded, InSession, Terminating, Killing, RecordKill,
         ReplyKill, Flushed, Shutdown, Finish, AnnounceExit, Cleanup, ProcessEnds,
         world
    <2>3. (status.state = "running" <=> status.pid # 0)'
      BY <1>8 DEF IInv, StatusInStep, Ended, Status, Killing, RecordKill, ReplyKill,
         Flushed, Shutdown, Finish, AnnounceExit, Cleanup, ProcessEnds, world
    <2>. QED  BY <2>1, <2>2, <2>3 DEF StatusInStep
  <1>9. ASSUME NEW p \in Panes, Environment(p) \/ WaitThread(p)
        PROVE  StatusInStep'
    BY <1>9, PaneIsBorn, Bounds
       DEF IInv, StatusInStep, SetUp, ExitKnown, InSession, Terminating,
       Ended, Status, TypeOK, PlaceOK, WorldOK, WaitsOK, TermOK, Panes,
       Environment, LeaderExits, MemberExits, WaitThread, Reap, StoreExit,
       NotifyExit, procs, waits, term, world, ctl
  <1>10. CASE (\E c \in Clients : Ask(c)) \/ (\E k \in Killers : Connection(k))
    BY <1>10, PaneIsBorn, Bounds
       DEF IInv, StatusInStep, SetUp, ExitKnown, InSession, Terminating,
       Ended, Status, TypeOK, PlaceOK, WorldOK, WaitsOK, TermOK, Panes, Ask,
       Connection, Relay, StopWaiting, SettleRace, Eof, ConnectionOnly, procs,
       waits, term, world, ctl
  <1>11. CASE UNCHANGED vars
    BY <1>11, PaneIsBorn, Bounds
       DEF IInv, StatusInStep, SetUp, ExitKnown, InSession, Terminating,
       Ended, Status, TypeOK, PlaceOK, WorldOK, WaitsOK, TermOK, Panes, vars,
       procs, waits, term, world, ctl
  <1>. QED  BY <1>1, <1>2, <1>3, <1>4, <1>5, <1>6, <1>7, <1>8, <1>9, <1>10,
       <1>11 DEF Next, WorkerStep, Termination, Over

\* A successful termination leaves nothing alive: every step.
LEMMA ConfirmedStep == ASSUME IInv, [Next]_vars PROVE Confirmed'
  <1>1. CASE Boot
    BY <1>1, PaneIsBorn, SignalKeepsDead, EnvironmentKeepsDead
       DEF IInv, Confirmed, KillRecorded, Ending, TypeOK, ProcsOK, GroupAlive,
       Boot, Start, Spawn, SpawnAborts, Publish, Serve, ServeFails, GiveUp,
       SpawnPane, SpawnFails, StartChild, Terminate, procs, waits, term,
       world, ctl
  <1>2. CASE CheckExit
    BY <1>2, PaneIsBorn, SignalKeepsDead, EnvironmentKeepsDead
       DEF IInv, Confirmed, KillRecorded, Ending, TypeOK, ProcsOK, GroupAlive,
       CheckExit, Terminated, procs, waits, term, world, ctl
  <1>3. CASE Hangup \/ ForceKill
    BY <1>3, PaneIsBorn, SignalKeepsDead, EnvironmentKeepsDead
       DEF IInv, Confirmed, KillRecorded, Ending, TypeOK, ProcsOK, GroupAlive,
       Hangup, ForceKill, TerminateFails, SignalGroup, procs, waits, term,
       world, ctl
  <1>4. CASE Await \/ Poll \/ WaitOver
    BY <1>4, PaneIsBorn, SignalKeepsDead, EnvironmentKeepsDead
       DEF IInv, Confirmed, KillRecorded, Ending, TypeOK, ProcsOK, GroupAlive,
       Await, Poll, WaitOver, Awaited, TerminateFails, procs, waits, term,
       world, ctl
  <1>5. CASE Probe \/ GroupGone \/ GroupSurvives
    BY <1>5, PaneIsBorn, SignalKeepsDead, EnvironmentKeepsDead
       DEF IInv, Confirmed, KillRecorded, Ending, TypeOK, ProcsOK, GroupAlive,
       Probe, GroupGone, GroupSurvives, Terminated, TerminateFails, procs,
       waits, term, world, ctl
  <1>6. CASE LoopEvent \/ WatchdogFires \/ WriteFails
    BY <1>6, PaneIsBorn, SignalKeepsDead, EnvironmentKeepsDead
       DEF IInv, Confirmed, KillRecorded, Ending, TypeOK, ProcsOK, GroupAlive,
       LoopEvent, ReceiveKill, ReceiveRestart, NoticeExit, WatchdogFires,
       WriteFails, Terminate, procs, waits, term, world, ctl
  <1>7. CASE Restart
    BY <1>7, PaneIsBorn, SignalKeepsDead, EnvironmentKeepsDead
       DEF IInv, Confirmed, KillRecorded, Ending, TypeOK, ProcsOK, GroupAlive,
       Restart, Respawn, RespawnFails, Swap, Republish, SpawnPane, SpawnFails,
       StartChild, procs, waits, term, world, ctl
  <1>8. CASE Killing \/ Shutdown
    BY <1>8, PaneIsBorn, SignalKeepsDead, EnvironmentKeepsDead
       DEF IInv, Confirmed, KillRecorded, Ending, TypeOK, ProcsOK, GroupAlive,
       Killing, RecordKill, ReplyKill, Flushed, Shutdown, Finish,
       AnnounceExit, Cleanup, ProcessEnds, procs, waits, term, world, ctl
  <1>9. ASSUME NEW p \in Panes, Environment(p) \/ WaitThread(p)
        PROVE  Confirmed'
    BY <1>9, PaneIsBorn, SignalKeepsDead, EnvironmentKeepsDead
       DEF IInv, Confirmed, KillRecorded, Ending, TypeOK, ProcsOK, GroupAlive,
       Environment, LeaderExits, MemberExits, WaitThread, Reap, StoreExit,
       NotifyExit, procs, waits, term, world, ctl
  <1>10. CASE (\E c \in Clients : Ask(c)) \/ (\E k \in Killers : Connection(k))
    BY <1>10, PaneIsBorn, SignalKeepsDead, EnvironmentKeepsDead
       DEF IInv, Confirmed, KillRecorded, Ending, TypeOK, ProcsOK, GroupAlive,
       Ask, Connection, Relay, StopWaiting, SettleRace, Eof, ConnectionOnly,
       procs, waits, term, world, ctl
  <1>11. CASE UNCHANGED vars
    BY <1>11, PaneIsBorn, SignalKeepsDead, EnvironmentKeepsDead
       DEF IInv, Confirmed, KillRecorded, Ending, TypeOK, ProcsOK, GroupAlive,
       vars, procs, waits, term, world, ctl
  <1>. QED  BY <1>1, <1>2, <1>3, <1>4, <1>5, <1>6, <1>7, <1>8, <1>9, <1>10,
       <1>11 DEF Next, WorkerStep, Termination, Over

\* Earlier commands stay gone, later ones unborn: every step.
LEMMA PanesInOrderStep == ASSUME IInv, [Next]_vars PROVE PanesInOrder'
  <1>1. CASE Boot
    <2>1. CASE UNCHANGED <<leader, member>> /\ (UNCHANGED pane \/ (pane = 0 /\ pane' = 1))
      BY <2>1, Bounds DEF IInv, PanesInOrder, GroupAlive, Live, Kinds, Panes
    <2>2. CASE StartChild(1) /\ pane = 0 /\ pane' = 1
      <3>1. 1 \in Panes /\ \A q \in Panes : q >= 1
        BY Bounds DEF Panes
      <3>2. \A q \in Panes : q # 1 => leader'[q] = leader[q] /\ member'[q] = member[q]
        BY <2>2, <3>1, StartChildKeepsOthers DEF IInv, TypeOK
      <3>. QED  BY <2>2, <3>1, <3>2 DEF IInv, PanesInOrder, Panes
    <2>. QED
      BY <1>1, <2>1, <2>2
         DEF IInv, TypeOK, PlaceOK, Boot, Start, Spawn, SpawnAborts, Publish, Serve,
         ServeFails, GiveUp, SpawnPane, SpawnFails, Terminate, procs
  <1>2. CASE CheckExit
    BY <1>2, PaneIsBorn, Bounds, SignalKeepsDead, EnvironmentKeepsDead, StartChildKeepsOthers
       DEF IInv, PanesInOrder, Confirmed, TypeOK, ProcsOK, PlaceOK,
       GroupAlive, Panes, CheckExit, Terminated, procs, waits, term, world,
       ctl
  <1>3. CASE Hangup \/ ForceKill
    BY <1>3, PaneIsBorn, Bounds, SignalKeepsDead, EnvironmentKeepsDead, StartChildKeepsOthers
       DEF IInv, PanesInOrder, Confirmed, TypeOK, ProcsOK, PlaceOK,
       GroupAlive, Panes, Hangup, ForceKill, TerminateFails, procs, waits,
       term, world, ctl
  <1>4. CASE Await \/ Poll \/ WaitOver
    BY <1>4, PaneIsBorn, Bounds, SignalKeepsDead, EnvironmentKeepsDead, StartChildKeepsOthers
       DEF IInv, PanesInOrder, Confirmed, TypeOK, ProcsOK, PlaceOK,
       GroupAlive, Panes, Await, Poll, WaitOver, Awaited, TerminateFails,
       procs, waits, term, world, ctl
  <1>5. CASE Probe \/ GroupGone \/ GroupSurvives
    BY <1>5, PaneIsBorn, Bounds, SignalKeepsDead, EnvironmentKeepsDead, StartChildKeepsOthers
       DEF IInv, PanesInOrder, Confirmed, TypeOK, ProcsOK, PlaceOK,
       GroupAlive, Panes, Probe, GroupGone, GroupSurvives, Terminated,
       TerminateFails, procs, waits, term, world, ctl
  <1>6. CASE LoopEvent \/ WatchdogFires \/ WriteFails
    BY <1>6, PaneIsBorn, Bounds, SignalKeepsDead, EnvironmentKeepsDead, StartChildKeepsOthers
       DEF IInv, PanesInOrder, Confirmed, TypeOK, ProcsOK, PlaceOK,
       GroupAlive, Panes, LoopEvent, ReceiveKill, ReceiveRestart, NoticeExit,
       WatchdogFires, WriteFails, Terminate, procs, waits, term, world, ctl
  <1>7. CASE Restart
    BY <1>7, PaneIsBorn, Bounds, SignalKeepsDead, EnvironmentKeepsDead, StartChildKeepsOthers
       DEF IInv, PanesInOrder, Confirmed, TypeOK, ProcsOK, PlaceOK,
       GroupAlive, Panes, Restart, Respawn, RespawnFails, Swap, Republish,
       SpawnPane, SpawnFails, procs, waits, term, world, ctl
  <1>8. CASE Killing \/ Shutdown
    BY <1>8, PaneIsBorn, Bounds, SignalKeepsDead, EnvironmentKeepsDead, StartChildKeepsOthers
       DEF IInv, PanesInOrder, Confirmed, TypeOK, ProcsOK, PlaceOK,
       GroupAlive, Panes, Killing, RecordKill, ReplyKill, Flushed, Shutdown,
       Finish, AnnounceExit, Cleanup, ProcessEnds, procs, waits, term, world,
       ctl
  <1>9. ASSUME NEW p \in Panes, Environment(p) \/ WaitThread(p)
        PROVE  PanesInOrder'
    BY <1>9, PaneIsBorn, Bounds, SignalKeepsDead, EnvironmentKeepsDead, StartChildKeepsOthers
       DEF IInv, PanesInOrder, Confirmed, TypeOK, ProcsOK, PlaceOK,
       GroupAlive, Panes, Environment, LeaderExits, MemberExits, WaitThread,
       Reap, StoreExit, NotifyExit, procs, waits, term, world, ctl
  <1>10. CASE (\E c \in Clients : Ask(c)) \/ (\E k \in Killers : Connection(k))
    BY <1>10, PaneIsBorn, Bounds, SignalKeepsDead, EnvironmentKeepsDead, StartChildKeepsOthers
       DEF IInv, PanesInOrder, Confirmed, TypeOK, ProcsOK, PlaceOK,
       GroupAlive, Panes, Ask, Connection, Relay, StopWaiting, SettleRace,
       Eof, ConnectionOnly, procs, waits, term, world, ctl
  <1>11. CASE UNCHANGED vars
    BY <1>11, PaneIsBorn, Bounds, SignalKeepsDead, EnvironmentKeepsDead, StartChildKeepsOthers
       DEF IInv, PanesInOrder, Confirmed, TypeOK, ProcsOK, PlaceOK,
       GroupAlive, Panes, vars, procs, waits, term, world, ctl
  <1>. QED  BY <1>1, <1>2, <1>3, <1>4, <1>5, <1>6, <1>7, <1>8, <1>9, <1>10,
       <1>11 DEF Next, WorkerStep, Termination, Over

\* IInv is an invariant for every value of the constants.
THEOREM Invariance == Spec => []IInv
  <1>1. IInv /\ [Next]_vars => IInv'
    BY TypeStep, PanesInOrderStep, ConfirmedStep, KillRecordedStep, ExitKnownStep,
       StatusInStepStep, SetUpStep DEF IInv
  <1>. QED  BY InvInit, <1>1, PTL DEF Spec

-----------------------------------------------------------------------------
(***************************************************************************)
(* What follows from it.                                                   *)
(***************************************************************************)

\* Two commands of a session never have live processes at the same time,
\* however many restarts there are and whatever the processes do.
THEOREM OneCommandAtATime == Spec => []OneCommand
  <1>1. IInv => OneCommand
    <2> SUFFICES ASSUME IInv, NEW p \in Panes, NEW q \in Panes, p < q
                 PROVE  ~(GroupAlive(p) /\ GroupAlive(q))
      BY Bounds DEF OneCommand, Panes
    <2>1. CASE q <= pane
      BY <2>1, Bounds DEF IInv, PanesInOrder, TypeOK, PlaceOK, Panes
    <2>2. CASE q > pane
      BY <2>2 DEF IInv, PanesInOrder, GroupAlive, Live, Kinds
    <2>. QED  BY <2>1, <2>2, Bounds DEF IInv, TypeOK, PlaceOK, Panes
  <1>. QED  BY Invariance, <1>1, PTL

\* A client told "killed" finds the session recorded as killed and no process
\* of any of its commands alive.
THEOREM ConfirmedKills == Spec => []KillConfirmed
  <1>1. IInv => KillConfirmed
    <2> SUFFICES ASSUME IInv, NEW k \in Killers, reply[k] = "killed"
                 PROVE  status.state = "killed" /\ \A p \in Panes : ~GroupAlive(p)
      BY DEF KillConfirmed
    <2>1. recorded /\ status.state = "killed" /\ ~GroupAlive(pane)
      BY DEF IInv, KillRecorded, Confirmed
    <2>2. ASSUME NEW p \in Panes PROVE ~GroupAlive(p)
      <3>1. p < pane \/ p = pane \/ p > pane
        BY Bounds DEF IInv, TypeOK, PlaceOK, Panes
      <3>2. CASE p < pane
        BY <3>2 DEF IInv, PanesInOrder
      <3>3. CASE p > pane
        BY <3>3 DEF IInv, PanesInOrder, GroupAlive, Live, Kinds
      <3>. QED  BY <2>1, <3>1, <3>2, <3>3
    <2>. QED  BY <2>1, <2>2
  <1>. QED  BY Invariance, <1>1, PTL

\* Between two events of the loop, the pane in hand, the one connections use
\* and the recorded one are the same.
THEOREM LoopIsConsistent == Spec => []LoopAgrees
  <1>1. IInv => LoopAgrees
    BY DEF IInv, StatusInStep, InSession, LoopAgrees
  <1>. QED  BY Invariance, <1>1, PTL

\* A status written outside its place in the order would name a live session.
LEMMA TerminalMeansEnding ==
  ASSUME IInv, status.state \in Terminal
  PROVE  pc \in Ending /\ (pc = "finish" => recorded)
  BY DEF IInv, TypeOK, PlaceOK, StatusInStep, InSession, Terminating, Ending,
         Terminal, Status

\* Once a terminal status is on disk the worker never writes another one.
THEOREM TerminalStays == Spec => TerminalIsFinal
  <1>1. IInv /\ [Next]_vars => [status.state \in Terminal => status' = status]_status
    <2> SUFFICES ASSUME IInv, [Next]_vars, status.state \in Terminal
                 PROVE  status' = status
      OBVIOUS
    <2>1. pc \in Ending /\ (pc = "finish" => recorded)
      BY TerminalMeansEnding
    <2>. USE <2>1 DEF Ending
    <2>2. CASE Boot
      BY <2>2 DEF Boot, Start, Spawn, SpawnAborts, Publish, Serve, ServeFails,
         GiveUp, Terminate, world
    <2>3. CASE CheckExit
      BY <2>3 DEF CheckExit, Terminated, world
    <2>4. CASE Hangup \/ ForceKill
      BY <2>4 DEF Hangup, ForceKill, TerminateFails, world
    <2>5. CASE Await \/ Poll \/ WaitOver
      BY <2>5 DEF Await, Poll, WaitOver, Awaited, TerminateFails, world
    <2>6. CASE Probe \/ GroupGone \/ GroupSurvives
      BY <2>6 DEF Probe, GroupGone, GroupSurvives, Terminated, TerminateFails,
         world
    <2>7. CASE LoopEvent \/ WatchdogFires \/ WriteFails
      BY <2>7 DEF LoopEvent, ReceiveKill, ReceiveRestart, NoticeExit,
         WatchdogFires, WriteFails, Terminate, world
    <2>8. CASE Restart
      BY <2>8 DEF Restart, Respawn, RespawnFails, Swap, Republish, world
    <2>9. CASE Killing \/ Shutdown
      BY <2>9 DEF Killing, RecordKill, ReplyKill, Flushed, Shutdown, Finish,
         AnnounceExit, Cleanup, ProcessEnds, world
    <2>10. ASSUME NEW p \in Panes, Environment(p) \/ WaitThread(p)
          PROVE  status' = status
      BY <2>10 DEF Environment, LeaderExits, MemberExits, WaitThread, Reap,
         StoreExit, NotifyExit, world
    <2>11. CASE (\E c \in Clients : Ask(c)) \/ (\E k \in Killers : Connection(k))
      BY <2>11 DEF Ask, Connection, Relay, StopWaiting, SettleRace, Eof,
         ConnectionOnly, world
    <2>12. CASE UNCHANGED vars
      BY <2>12 DEF vars, world
    <2>. QED  BY <2>2, <2>3, <2>4, <2>5, <2>6, <2>7, <2>8, <2>9, <2>10, <2>11,
         <2>12 DEF Next, WorkerStep, Termination, Over
  <1>. QED  BY Invariance, <1>1, PTL DEF Spec, TerminalIsFinal

\* What a step does to the status file and to the exits, seen from outside.
LEMMA QuietSteps ==
  ASSUME IInv, [Next]_vars
  PROVE  \/ UNCHANGED <<status, exitStatus>>
         \/ Start \/ SpawnAborts \/ Publish \/ GiveUp \/ Republish \/ RecordKill
         \/ (Finish /\ ~recorded)
         \/ \E p \in Panes : StoreExit(p)
  <1>1. CASE Boot
    BY <1>1
       DEF Boot, Spawn, Serve, ServeFails, SpawnPane, Terminate, world, waits
  <1>2. CASE CheckExit
    BY <1>2 DEF CheckExit, Terminated, world, waits
  <1>3. CASE Hangup \/ ForceKill
    BY <1>3 DEF Hangup, ForceKill, TerminateFails, world, waits
  <1>4. CASE Await \/ Poll \/ WaitOver
    BY <1>4 DEF Await, Poll, WaitOver, Awaited, TerminateFails, world, waits
  <1>5. CASE Probe \/ GroupGone \/ GroupSurvives
    BY <1>5
       DEF Probe, GroupGone, GroupSurvives, Terminated, TerminateFails, world,
       waits
  <1>6. CASE LoopEvent \/ WatchdogFires \/ WriteFails
    BY <1>6
       DEF LoopEvent, ReceiveKill, ReceiveRestart, NoticeExit, WatchdogFires,
       WriteFails, Terminate, world, waits
  <1>7. CASE Restart
    BY <1>7 DEF Restart, Respawn, RespawnFails, Swap, SpawnPane, SpawnFails,
       world, waits
  <1>8. CASE Killing \/ Shutdown
    BY <1>8 DEF Killing, ReplyKill, Flushed, Shutdown, Finish, AnnounceExit,
       Cleanup, ProcessEnds, world, waits
  <1>9. CASE \E p \in Panes : Environment(p) \/ WaitThread(p)
    BY <1>9 DEF Environment, LeaderExits, MemberExits, WaitThread, Reap,
       NotifyExit, world, waits
  <1>10. CASE (\E c \in Clients : Ask(c)) \/ (\E k \in Killers : Connection(k))
    BY <1>10 DEF Ask, Connection, Relay, StopWaiting, SettleRace, Eof,
       ConnectionOnly, world, waits
  <1>11. CASE UNCHANGED vars
    BY <1>11 DEF vars, world, waits
  <1>. QED  BY <1>1, <1>2, <1>3, <1>4, <1>5, <1>6, <1>7, <1>8, <1>9, <1>10,
       <1>11 DEF Next, WorkerStep, Termination, Over

\* The status file over time is a behaviour of SessionLifecycle: it names the
\* commands one after another, each only after the one before it is over, and
\* ends once.
THEOREM ImplementsLifecycle == Spec => LifecycleSpec
  <1>1. Init => Lifecycle!Init
    BY DEF Init, Lifecycle!Init, Status
  <1>2. IInv /\ IInv' /\ [Next]_vars => [Lifecycle!Next]_(Lifecycle!vars)
    <2> SUFFICES ASSUME IInv, IInv', [Next]_vars
                 PROVE  [Lifecycle!Next]_(Lifecycle!vars)
      OBVIOUS
    <2>1. CASE UNCHANGED <<status, exitStatus>>
      BY <2>1 DEF Lifecycle!vars
    <2>2. CASE Start
      BY <2>2 DEF Start, waits, IInv, StatusInStep, Status, Lifecycle!Next, Lifecycle!Announce
    <2>3. CASE SpawnAborts
      <3>1. CASE status' = status
        BY <2>3, <3>1 DEF SpawnAborts, SpawnFails, waits, Lifecycle!vars
      <3>2. CASE status' = Status("exited", 0, "none")
        BY <2>3, <3>2, Bounds DEF SpawnAborts, SpawnFails, IInv, StatusInStep,
           TypeOK, WorldOK, Status, Panes, Lifecycle!Next, Lifecycle!FailToStart
      <3>. QED  BY <2>3, <3>1, <3>2 DEF SpawnAborts
    <2>4. CASE Publish
      BY <2>4 DEF Publish, IInv, StatusInStep, Status, Lifecycle!Next,
         Lifecycle!Publish
    <2>5. CASE GiveUp
      BY <2>5, Bounds DEF GiveUp, IInv, StatusInStep, SetUp, InSession, Status,
         Panes, Lifecycle!Next, Lifecycle!GiveUp
    <2>6. CASE Republish
      <3>1. /\ status = Status("running", pane - 1, "none")
            /\ exitStatus[pane - 1] # "none" /\ pane > 1
        BY <2>6 DEF Republish, IInv, StatusInStep
      <3>2. pane \in Panes /\ pane - 1 \in Panes /\ pane - 1 < MaxPanes
        BY <2>6, <3>1, PaneIsBorn, Bounds DEF Republish, IInv, Panes
      <3>3. Lifecycle!Replace
        BY <2>6, <3>1, <3>2 DEF Republish, Status, Panes, Lifecycle!Replace
      <3>. QED  BY <3>3 DEF Lifecycle!Next
    <2>7. CASE RecordKill \/ (Finish /\ ~recorded)
      <3>1. /\ status = Status("running", pane, "none")
            /\ exitStatus[pane] # "none" /\ pane \in Panes
        BY <2>7, PaneIsBorn DEF RecordKill, Finish, IInv, StatusInStep, ExitKnown,
           InSession
      <3>2. status'.state \in Terminal /\ status'.pid = 0
        BY <2>7 DEF RecordKill, Finish, Ended, Status, Terminal
      <3>3. Lifecycle!End
        BY <3>1, <3>2, Bounds DEF Status, Panes, Terminal, Lifecycle!Terminal,
           Lifecycle!End
      <3>. QED  BY <3>3 DEF Lifecycle!Next
    <2>8. ASSUME NEW p \in Panes, StoreExit(p)
          PROVE  [Lifecycle!Next]_(Lifecycle!vars)
      <3>1. status' = status /\ exitStatus' = [exitStatus EXCEPT ![p] = cause[p]]
        BY <2>8 DEF StoreExit, world
      <3>2. cause[p] # "none"
        BY <2>8 DEF StoreExit, IInv, ExitKnown
      <3>3. CASE status.pid = p /\ exitStatus[p] = "none"
        BY <3>1, <3>2, <3>3, Bounds DEF IInv, TypeOK, WaitsOK, WorldOK,
           StatusInStep, Panes, Lifecycle!Next, Lifecycle!Finish
      <3>4. CASE ~(status.pid = p /\ exitStatus[p] = "none")
        BY <3>1, <3>2, <3>4 DEF IInv, TypeOK, WaitsOK, Lifecycle!vars
      <3>. QED  BY <3>3, <3>4
    <2>. QED  BY QuietSteps, <2>1, <2>2, <2>3, <2>4, <2>5, <2>6, <2>7, <2>8
  <1>. QED  BY Invariance, <1>1, <1>2, PTL DEF Spec, LifecycleSpec, Lifecycle!Spec

-----------------------------------------------------------------------------
(***************************************************************************)
(* What is known of the exits, and what is said of them.                   *)
(***************************************************************************)

\* Where the worker holds the exit of the command that it takes for ended.
Holding == {"group", "respawn", "recordKill", "replyKill", "flush", "finish",
            "drain", "linger"}

\* An exit that is stored is that of a child that has been reaped, and the one
\* in hand is the one that is stored.
ExitInv ==
    /\ \A p \in Panes :
        /\ cause[p] # "none" => leader[p] \in {"zombie", "reaped"}
        /\ waiter[p] \in {"storing", "notifying", "done"} => leader[p] = "reaped"
        /\ exitStatus[p] # "none" => leader[p] = "reaped" /\ cause[p] = exitStatus[p]
    /\ pc \in Terminating \ {"terminate"} /\ info # "none" => info = exitStatus[pane]
    /\ pc \in Holding => info # "none" /\ info = exitStatus[pane]

\* The status says of the end what the exit in hand does.
EndSaid ==
    /\ status.state \in Terminal /\ status.code # "setup"
    /\ status.code = "code" <=> info = "code"
    /\ info # "code" => status.state = "killed"

\* It is said on disk before it is announced, and not taken back.
SaidInv ==
    /\ announced # "none" => pc \in {"linger", "returned", "gone"}
    /\ recorded \/ pc \in {"drain", "linger"} => EndSaid
    /\ ExitTold

\* A client that was told "killed" has its answer before the worker goes on.
HeardInv ==
    /\ \A c \in Clients : conn[c] = "eof" => pc = "gone"
    /\ \A k \in Killers : reply[k] = "killed" =>
        k = asker /\ (pc = "flush" \/ conn[k] \in Answers \ {"eof"})


\* An exit in hand is that of a child that has been reaped: every step.
LEMMA ExitStep == ASSUME IInv, ExitInv, [Next]_vars PROVE ExitInv'
  <1>1. CASE Boot
    <2>1. \A p \in Panes : cause'[p] # "none" => leader'[p] \in {"zombie", "reaped"}
      BY <1>1, PaneIsBorn, KindsAreLive, Bounds
         DEF IInv, TypeOK, ProcsOK, WaitsOK, PlaceOK, PanesInOrder, ExitKnown,
             ExitInv, Terminating, Holding, Live, Kinds, Info, Boot, Start,
             Spawn, SpawnAborts, Publish, Serve, ServeFails, GiveUp, SpawnPane,
             SpawnFails, StartChild, Terminate, procs, waits, term, world, ctl
    <2>2. \A p \in Panes : waiter'[p] \in {"storing", "notifying", "done"} =>
                               leader'[p] = "reaped"
      BY <1>1, PaneIsBorn, KindsAreLive, Bounds
         DEF IInv, TypeOK, ProcsOK, WaitsOK, PlaceOK, PanesInOrder, ExitKnown,
             ExitInv, Terminating, Holding, Live, Kinds, Info, Boot, Start,
             Spawn, SpawnAborts, Publish, Serve, ServeFails, GiveUp, SpawnPane,
             SpawnFails, StartChild, Terminate, procs, waits, term, world, ctl
    <2>3. \A p \in Panes : exitStatus'[p] # "none" =>
                               leader'[p] = "reaped" /\ cause'[p] = exitStatus'[p]
      BY <1>1, PaneIsBorn, KindsAreLive, Bounds
         DEF IInv, TypeOK, ProcsOK, WaitsOK, PlaceOK, PanesInOrder, ExitKnown,
             ExitInv, Terminating, Holding, Live, Kinds, Info, Boot, Start,
             Spawn, SpawnAborts, Publish, Serve, ServeFails, GiveUp, SpawnPane,
             SpawnFails, StartChild, Terminate, procs, waits, term, world, ctl
    <2>4. pc' \in Terminating \ {"terminate"} /\ info' # "none" =>
                               info' = exitStatus'[pane']
      BY <1>1, PaneIsBorn, KindsAreLive, Bounds
         DEF IInv, TypeOK, ProcsOK, WaitsOK, PlaceOK, PanesInOrder, ExitKnown,
             ExitInv, Terminating, Holding, Live, Kinds, Info, Boot, Start,
             Spawn, SpawnAborts, Publish, Serve, ServeFails, GiveUp, SpawnPane,
             SpawnFails, StartChild, Terminate, procs, waits, term, world, ctl
    <2>5. pc' \in Holding => info' # "none" /\ info' = exitStatus'[pane']
      BY <1>1, PaneIsBorn, KindsAreLive, Bounds
         DEF IInv, TypeOK, ProcsOK, WaitsOK, PlaceOK, PanesInOrder, ExitKnown,
             ExitInv, Terminating, Holding, Live, Kinds, Info, Boot, Start,
             Spawn, SpawnAborts, Publish, Serve, ServeFails, GiveUp, SpawnPane,
             SpawnFails, StartChild, Terminate, procs, waits, term, world, ctl
    <2>. QED  BY <2>1, <2>2, <2>3, <2>4, <2>5 DEF ExitInv
  <1>2. CASE CheckExit
    <2>1. \A p \in Panes : cause'[p] # "none" => leader'[p] \in {"zombie", "reaped"}
      BY <1>2, PaneIsBorn, KindsAreLive, Bounds
         DEF IInv, TypeOK, ProcsOK, WaitsOK, PlaceOK, PanesInOrder, ExitKnown,
             ExitInv, Terminating, Holding, Live, Kinds, Info, CheckExit,
             Terminated, procs, waits, term, world, ctl
    <2>2. \A p \in Panes : waiter'[p] \in {"storing", "notifying", "done"} =>
                               leader'[p] = "reaped"
      BY <1>2, PaneIsBorn, KindsAreLive, Bounds
         DEF IInv, TypeOK, ProcsOK, WaitsOK, PlaceOK, PanesInOrder, ExitKnown,
             ExitInv, Terminating, Holding, Live, Kinds, Info, CheckExit,
             Terminated, procs, waits, term, world, ctl
    <2>3. \A p \in Panes : exitStatus'[p] # "none" =>
                               leader'[p] = "reaped" /\ cause'[p] = exitStatus'[p]
      BY <1>2, PaneIsBorn, KindsAreLive, Bounds
         DEF IInv, TypeOK, ProcsOK, WaitsOK, PlaceOK, PanesInOrder, ExitKnown,
             ExitInv, Terminating, Holding, Live, Kinds, Info, CheckExit,
             Terminated, procs, waits, term, world, ctl
    <2>4. pc' \in Terminating \ {"terminate"} /\ info' # "none" =>
                               info' = exitStatus'[pane']
      BY <1>2, PaneIsBorn, KindsAreLive, Bounds
         DEF IInv, TypeOK, ProcsOK, WaitsOK, PlaceOK, PanesInOrder, ExitKnown,
             ExitInv, Terminating, Holding, Live, Kinds, Info, CheckExit,
             Terminated, procs, waits, term, world, ctl
    <2>5. pc' \in Holding => info' # "none" /\ info' = exitStatus'[pane']
      BY <1>2, PaneIsBorn, KindsAreLive, Bounds
         DEF IInv, TypeOK, ProcsOK, WaitsOK, PlaceOK, PanesInOrder, ExitKnown,
             ExitInv, Terminating, Holding, Live, Kinds, Info, CheckExit,
             Terminated, procs, waits, term, world, ctl
    <2>. QED  BY <2>1, <2>2, <2>3, <2>4, <2>5 DEF ExitInv
  <1>3. CASE Hangup \/ ForceKill
    <2>1. \A p \in Panes : cause'[p] # "none" => leader'[p] \in {"zombie", "reaped"}
      BY <1>3, PaneIsBorn, KindsAreLive, Bounds
         DEF IInv, TypeOK, ProcsOK, WaitsOK, PlaceOK, PanesInOrder, ExitKnown,
             ExitInv, Terminating, Holding, Live, Kinds, Info, Hangup, ForceKill,
             TerminateFails, SignalGroup, Struck, procs, waits, term, world, ctl
    <2>2. \A p \in Panes : waiter'[p] \in {"storing", "notifying", "done"} =>
                               leader'[p] = "reaped"
      BY <1>3, PaneIsBorn, KindsAreLive, Bounds
         DEF IInv, TypeOK, ProcsOK, WaitsOK, PlaceOK, PanesInOrder, ExitKnown,
             ExitInv, Terminating, Holding, Live, Kinds, Info, Hangup, ForceKill,
             TerminateFails, SignalGroup, Struck, procs, waits, term, world, ctl
    <2>3. \A p \in Panes : exitStatus'[p] # "none" =>
                               leader'[p] = "reaped" /\ cause'[p] = exitStatus'[p]
      BY <1>3, PaneIsBorn, KindsAreLive, Bounds
         DEF IInv, TypeOK, ProcsOK, WaitsOK, PlaceOK, PanesInOrder, ExitKnown,
             ExitInv, Terminating, Holding, Live, Kinds, Info, Hangup, ForceKill,
             TerminateFails, SignalGroup, Struck, procs, waits, term, world, ctl
    <2>4. pc' \in Terminating \ {"terminate"} /\ info' # "none" =>
                               info' = exitStatus'[pane']
      BY <1>3, PaneIsBorn, KindsAreLive, Bounds
         DEF IInv, TypeOK, ProcsOK, WaitsOK, PlaceOK, PanesInOrder, ExitKnown,
             ExitInv, Terminating, Holding, Live, Kinds, Info, Hangup, ForceKill,
             TerminateFails, SignalGroup, Struck, procs, waits, term, world, ctl
    <2>5. pc' \in Holding => info' # "none" /\ info' = exitStatus'[pane']
      BY <1>3, PaneIsBorn, KindsAreLive, Bounds
         DEF IInv, TypeOK, ProcsOK, WaitsOK, PlaceOK, PanesInOrder, ExitKnown,
             ExitInv, Terminating, Holding, Live, Kinds, Info, Hangup, ForceKill,
             TerminateFails, SignalGroup, Struck, procs, waits, term, world, ctl
    <2>. QED  BY <2>1, <2>2, <2>3, <2>4, <2>5 DEF ExitInv
  <1>4. CASE Await \/ Poll \/ WaitOver
    <2>1. \A p \in Panes : cause'[p] # "none" => leader'[p] \in {"zombie", "reaped"}
      BY <1>4, PaneIsBorn, KindsAreLive, Bounds
         DEF IInv, TypeOK, ProcsOK, WaitsOK, PlaceOK, PanesInOrder, ExitKnown,
             ExitInv, Terminating, Holding, Live, Kinds, Info, Await, Poll,
             WaitOver, Awaited, TerminateFails, procs, waits, term, world, ctl
    <2>2. \A p \in Panes : waiter'[p] \in {"storing", "notifying", "done"} =>
                               leader'[p] = "reaped"
      BY <1>4, PaneIsBorn, KindsAreLive, Bounds
         DEF IInv, TypeOK, ProcsOK, WaitsOK, PlaceOK, PanesInOrder, ExitKnown,
             ExitInv, Terminating, Holding, Live, Kinds, Info, Await, Poll,
             WaitOver, Awaited, TerminateFails, procs, waits, term, world, ctl
    <2>3. \A p \in Panes : exitStatus'[p] # "none" =>
                               leader'[p] = "reaped" /\ cause'[p] = exitStatus'[p]
      BY <1>4, PaneIsBorn, KindsAreLive, Bounds
         DEF IInv, TypeOK, ProcsOK, WaitsOK, PlaceOK, PanesInOrder, ExitKnown,
             ExitInv, Terminating, Holding, Live, Kinds, Info, Await, Poll,
             WaitOver, Awaited, TerminateFails, procs, waits, term, world, ctl
    <2>4. pc' \in Terminating \ {"terminate"} /\ info' # "none" =>
                               info' = exitStatus'[pane']
      BY <1>4, PaneIsBorn, KindsAreLive, Bounds
         DEF IInv, TypeOK, ProcsOK, WaitsOK, PlaceOK, PanesInOrder, ExitKnown,
             ExitInv, Terminating, Holding, Live, Kinds, Info, Await, Poll,
             WaitOver, Awaited, TerminateFails, procs, waits, term, world, ctl
    <2>5. pc' \in Holding => info' # "none" /\ info' = exitStatus'[pane']
      BY <1>4, PaneIsBorn, KindsAreLive, Bounds
         DEF IInv, TypeOK, ProcsOK, WaitsOK, PlaceOK, PanesInOrder, ExitKnown,
             ExitInv, Terminating, Holding, Live, Kinds, Info, Await, Poll,
             WaitOver, Awaited, TerminateFails, procs, waits, term, world, ctl
    <2>. QED  BY <2>1, <2>2, <2>3, <2>4, <2>5 DEF ExitInv
  <1>5. CASE Probe \/ GroupGone \/ GroupSurvives
    <2>1. UNCHANGED <<procs, waits, pane>>
      BY <1>5
         DEF Probe, GroupGone, GroupSurvives
    <2>2. \A p \in Panes : cause'[p] # "none" => leader'[p] \in {"zombie", "reaped"}
      BY <2>1 DEF ExitInv, procs, waits
    <2>3. \A p \in Panes : waiter'[p] \in {"storing", "notifying", "done"} =>
                               leader'[p] = "reaped"
      BY <2>1 DEF ExitInv, procs, waits
    <2>4. \A p \in Panes : exitStatus'[p] # "none" =>
                               leader'[p] = "reaped" /\ cause'[p] = exitStatus'[p]
      BY <2>1 DEF ExitInv, procs, waits
    <2>5. pc' \in Terminating \ {"terminate"} /\ info' # "none" =>
                               info' = exitStatus'[pane']
      BY <1>5, <2>1
         DEF ExitInv, ExitKnown, IInv, TypeOK, PlaceOK, Terminating, Holding,
             Probe, GroupGone, GroupSurvives, Terminated, TerminateFails, waits
    <2>6. pc' \in Holding => info' # "none" /\ info' = exitStatus'[pane']
      BY <1>5, <2>1
         DEF ExitInv, ExitKnown, IInv, TypeOK, PlaceOK, Terminating, Holding,
             Probe, GroupGone, GroupSurvives, Terminated, TerminateFails, waits
    <2>. QED  BY <2>2, <2>3, <2>4, <2>5, <2>6 DEF ExitInv
  <1>6. CASE LoopEvent \/ WatchdogFires \/ WriteFails
    <2>1. \A p \in Panes : cause'[p] # "none" => leader'[p] \in {"zombie", "reaped"}
      BY <1>6, PaneIsBorn, KindsAreLive, Bounds
         DEF IInv, TypeOK, ProcsOK, WaitsOK, PlaceOK, PanesInOrder, ExitKnown,
             ExitInv, Terminating, Holding, Live, Kinds, Info, LoopEvent,
             ReceiveKill, ReceiveRestart, NoticeExit, WatchdogFires, WriteFails,
             Terminate, procs, waits, term, world, ctl
    <2>2. \A p \in Panes : waiter'[p] \in {"storing", "notifying", "done"} =>
                               leader'[p] = "reaped"
      BY <1>6, PaneIsBorn, KindsAreLive, Bounds
         DEF IInv, TypeOK, ProcsOK, WaitsOK, PlaceOK, PanesInOrder, ExitKnown,
             ExitInv, Terminating, Holding, Live, Kinds, Info, LoopEvent,
             ReceiveKill, ReceiveRestart, NoticeExit, WatchdogFires, WriteFails,
             Terminate, procs, waits, term, world, ctl
    <2>3. \A p \in Panes : exitStatus'[p] # "none" =>
                               leader'[p] = "reaped" /\ cause'[p] = exitStatus'[p]
      BY <1>6, PaneIsBorn, KindsAreLive, Bounds
         DEF IInv, TypeOK, ProcsOK, WaitsOK, PlaceOK, PanesInOrder, ExitKnown,
             ExitInv, Terminating, Holding, Live, Kinds, Info, LoopEvent,
             ReceiveKill, ReceiveRestart, NoticeExit, WatchdogFires, WriteFails,
             Terminate, procs, waits, term, world, ctl
    <2>4. pc' \in Terminating \ {"terminate"} /\ info' # "none" =>
                               info' = exitStatus'[pane']
      BY <1>6, PaneIsBorn, KindsAreLive, Bounds
         DEF IInv, TypeOK, ProcsOK, WaitsOK, PlaceOK, PanesInOrder, ExitKnown,
             ExitInv, Terminating, Holding, Live, Kinds, Info, LoopEvent,
             ReceiveKill, ReceiveRestart, NoticeExit, WatchdogFires, WriteFails,
             Terminate, procs, waits, term, world, ctl
    <2>5. pc' \in Holding => info' # "none" /\ info' = exitStatus'[pane']
      BY <1>6, PaneIsBorn, KindsAreLive, Bounds
         DEF IInv, TypeOK, ProcsOK, WaitsOK, PlaceOK, PanesInOrder, ExitKnown,
             ExitInv, Terminating, Holding, Live, Kinds, Info, LoopEvent,
             ReceiveKill, ReceiveRestart, NoticeExit, WatchdogFires, WriteFails,
             Terminate, procs, waits, term, world, ctl
    <2>. QED  BY <2>1, <2>2, <2>3, <2>4, <2>5 DEF ExitInv
  <1>7. CASE Restart
    <2>1. \A p \in Panes : cause'[p] # "none" => leader'[p] \in {"zombie", "reaped"}
      BY <1>7, PaneIsBorn, KindsAreLive, Bounds
         DEF IInv, TypeOK, ProcsOK, WaitsOK, PlaceOK, PanesInOrder, ExitKnown,
             ExitInv, Terminating, Holding, Live, Kinds, Info, Restart, Respawn,
             RespawnFails, Swap, Republish, SpawnPane, SpawnFails, StartChild,
             procs, waits, term, world, ctl
    <2>2. \A p \in Panes : waiter'[p] \in {"storing", "notifying", "done"} =>
                               leader'[p] = "reaped"
      BY <1>7, PaneIsBorn, KindsAreLive, Bounds
         DEF IInv, TypeOK, ProcsOK, WaitsOK, PlaceOK, PanesInOrder, ExitKnown,
             ExitInv, Terminating, Holding, Live, Kinds, Info, Restart, Respawn,
             RespawnFails, Swap, Republish, SpawnPane, SpawnFails, StartChild,
             procs, waits, term, world, ctl
    <2>3. \A p \in Panes : exitStatus'[p] # "none" =>
                               leader'[p] = "reaped" /\ cause'[p] = exitStatus'[p]
      BY <1>7, PaneIsBorn, KindsAreLive, Bounds
         DEF IInv, TypeOK, ProcsOK, WaitsOK, PlaceOK, PanesInOrder, ExitKnown,
             ExitInv, Terminating, Holding, Live, Kinds, Info, Restart, Respawn,
             RespawnFails, Swap, Republish, SpawnPane, SpawnFails, StartChild,
             procs, waits, term, world, ctl
    <2>4. pc' \in Terminating \ {"terminate"} /\ info' # "none" =>
                               info' = exitStatus'[pane']
      BY <1>7, PaneIsBorn, KindsAreLive, Bounds
         DEF IInv, TypeOK, ProcsOK, WaitsOK, PlaceOK, PanesInOrder, ExitKnown,
             ExitInv, Terminating, Holding, Live, Kinds, Info, Restart, Respawn,
             RespawnFails, Swap, Republish, SpawnPane, SpawnFails, StartChild,
             procs, waits, term, world, ctl
    <2>5. pc' \in Holding => info' # "none" /\ info' = exitStatus'[pane']
      BY <1>7, PaneIsBorn, KindsAreLive, Bounds
         DEF IInv, TypeOK, ProcsOK, WaitsOK, PlaceOK, PanesInOrder, ExitKnown,
             ExitInv, Terminating, Holding, Live, Kinds, Info, Restart, Respawn,
             RespawnFails, Swap, Republish, SpawnPane, SpawnFails, StartChild,
             procs, waits, term, world, ctl
    <2>. QED  BY <2>1, <2>2, <2>3, <2>4, <2>5 DEF ExitInv
  <1>8. CASE Killing \/ Shutdown
    <2>1. \A p \in Panes : cause'[p] # "none" => leader'[p] \in {"zombie", "reaped"}
      BY <1>8, PaneIsBorn, KindsAreLive, Bounds
         DEF IInv, TypeOK, ProcsOK, WaitsOK, PlaceOK, PanesInOrder, ExitKnown,
             ExitInv, Terminating, Holding, Live, Kinds, Info, Killing,
             RecordKill, ReplyKill, Flushed, Shutdown, Finish, AnnounceExit,
             Cleanup, ProcessEnds, procs, waits, term, world, ctl
    <2>2. \A p \in Panes : waiter'[p] \in {"storing", "notifying", "done"} =>
                               leader'[p] = "reaped"
      BY <1>8, PaneIsBorn, KindsAreLive, Bounds
         DEF IInv, TypeOK, ProcsOK, WaitsOK, PlaceOK, PanesInOrder, ExitKnown,
             ExitInv, Terminating, Holding, Live, Kinds, Info, Killing,
             RecordKill, ReplyKill, Flushed, Shutdown, Finish, AnnounceExit,
             Cleanup, ProcessEnds, procs, waits, term, world, ctl
    <2>3. \A p \in Panes : exitStatus'[p] # "none" =>
                               leader'[p] = "reaped" /\ cause'[p] = exitStatus'[p]
      BY <1>8, PaneIsBorn, KindsAreLive, Bounds
         DEF IInv, TypeOK, ProcsOK, WaitsOK, PlaceOK, PanesInOrder, ExitKnown,
             ExitInv, Terminating, Holding, Live, Kinds, Info, Killing,
             RecordKill, ReplyKill, Flushed, Shutdown, Finish, AnnounceExit,
             Cleanup, ProcessEnds, procs, waits, term, world, ctl
    <2>4. pc' \in Terminating \ {"terminate"} /\ info' # "none" =>
                               info' = exitStatus'[pane']
      BY <1>8, PaneIsBorn, KindsAreLive, Bounds
         DEF IInv, TypeOK, ProcsOK, WaitsOK, PlaceOK, PanesInOrder, ExitKnown,
             ExitInv, Terminating, Holding, Live, Kinds, Info, Killing,
             RecordKill, ReplyKill, Flushed, Shutdown, Finish, AnnounceExit,
             Cleanup, ProcessEnds, procs, waits, term, world, ctl
    <2>5. pc' \in Holding => info' # "none" /\ info' = exitStatus'[pane']
      BY <1>8, PaneIsBorn, KindsAreLive, Bounds
         DEF IInv, TypeOK, ProcsOK, WaitsOK, PlaceOK, PanesInOrder, ExitKnown,
             ExitInv, Terminating, Holding, Live, Kinds, Info, Killing,
             RecordKill, ReplyKill, Flushed, Shutdown, Finish, AnnounceExit,
             Cleanup, ProcessEnds, procs, waits, term, world, ctl
    <2>. QED  BY <2>1, <2>2, <2>3, <2>4, <2>5 DEF ExitInv
  <1>9. ASSUME NEW p \in Panes, Environment(p) \/ WaitThread(p)
        PROVE  ExitInv'
    <2>1. \A q \in Panes : cause'[q] # "none" => leader'[q] \in {"zombie", "reaped"}
      BY <1>9, PaneIsBorn, KindsAreLive, Bounds
         DEF IInv, TypeOK, ProcsOK, WaitsOK, PlaceOK, PanesInOrder, ExitKnown,
             ExitInv, Terminating, Holding, Live, Kinds, Info, Environment,
             LeaderExits, MemberExits, WaitThread, Reap, StoreExit, NotifyExit,
             procs, waits, term, world, ctl
    <2>2. \A q \in Panes : waiter'[q] \in {"storing", "notifying", "done"} =>
                               leader'[q] = "reaped"
      BY <1>9, PaneIsBorn, KindsAreLive, Bounds
         DEF IInv, TypeOK, ProcsOK, WaitsOK, PlaceOK, PanesInOrder, ExitKnown,
             ExitInv, Terminating, Holding, Live, Kinds, Info, Environment,
             LeaderExits, MemberExits, WaitThread, Reap, StoreExit, NotifyExit,
             procs, waits, term, world, ctl
    <2>3. \A q \in Panes : exitStatus'[q] # "none" =>
                               leader'[q] = "reaped" /\ cause'[q] = exitStatus'[q]
      BY <1>9, PaneIsBorn, KindsAreLive, Bounds
         DEF IInv, TypeOK, ProcsOK, WaitsOK, PlaceOK, PanesInOrder, ExitKnown,
             ExitInv, Terminating, Holding, Live, Kinds, Info, Environment,
             LeaderExits, MemberExits, WaitThread, Reap, StoreExit, NotifyExit,
             procs, waits, term, world, ctl
    <2>4. pc' \in Terminating \ {"terminate"} /\ info' # "none" =>
                               info' = exitStatus'[pane']
      BY <1>9, PaneIsBorn, KindsAreLive, Bounds
         DEF IInv, TypeOK, ProcsOK, WaitsOK, PlaceOK, PanesInOrder, ExitKnown,
             ExitInv, Terminating, Holding, Live, Kinds, Info, Environment,
             LeaderExits, MemberExits, WaitThread, Reap, StoreExit, NotifyExit,
             procs, waits, term, world, ctl
    <2>5. pc' \in Holding => info' # "none" /\ info' = exitStatus'[pane']
      BY <1>9, PaneIsBorn, KindsAreLive, Bounds
         DEF IInv, TypeOK, ProcsOK, WaitsOK, PlaceOK, PanesInOrder, ExitKnown,
             ExitInv, Terminating, Holding, Live, Kinds, Info, Environment,
             LeaderExits, MemberExits, WaitThread, Reap, StoreExit, NotifyExit,
             procs, waits, term, world, ctl
    <2>. QED  BY <2>1, <2>2, <2>3, <2>4, <2>5 DEF ExitInv
  <1>10. CASE (\E c \in Clients : Ask(c)) \/ (\E k \in Killers : Connection(k))
    <2>1. \A p \in Panes : cause'[p] # "none" => leader'[p] \in {"zombie", "reaped"}
      BY <1>10, PaneIsBorn, KindsAreLive, Bounds
         DEF IInv, TypeOK, ProcsOK, WaitsOK, PlaceOK, PanesInOrder, ExitKnown,
             ExitInv, Terminating, Holding, Live, Kinds, Info, Ask, Connection,
             Relay, StopWaiting, SettleRace, Eof, ConnectionOnly, procs, waits,
             term, world, ctl
    <2>2. \A p \in Panes : waiter'[p] \in {"storing", "notifying", "done"} =>
                               leader'[p] = "reaped"
      BY <1>10, PaneIsBorn, KindsAreLive, Bounds
         DEF IInv, TypeOK, ProcsOK, WaitsOK, PlaceOK, PanesInOrder, ExitKnown,
             ExitInv, Terminating, Holding, Live, Kinds, Info, Ask, Connection,
             Relay, StopWaiting, SettleRace, Eof, ConnectionOnly, procs, waits,
             term, world, ctl
    <2>3. \A p \in Panes : exitStatus'[p] # "none" =>
                               leader'[p] = "reaped" /\ cause'[p] = exitStatus'[p]
      BY <1>10, PaneIsBorn, KindsAreLive, Bounds
         DEF IInv, TypeOK, ProcsOK, WaitsOK, PlaceOK, PanesInOrder, ExitKnown,
             ExitInv, Terminating, Holding, Live, Kinds, Info, Ask, Connection,
             Relay, StopWaiting, SettleRace, Eof, ConnectionOnly, procs, waits,
             term, world, ctl
    <2>4. pc' \in Terminating \ {"terminate"} /\ info' # "none" =>
                               info' = exitStatus'[pane']
      BY <1>10, PaneIsBorn, KindsAreLive, Bounds
         DEF IInv, TypeOK, ProcsOK, WaitsOK, PlaceOK, PanesInOrder, ExitKnown,
             ExitInv, Terminating, Holding, Live, Kinds, Info, Ask, Connection,
             Relay, StopWaiting, SettleRace, Eof, ConnectionOnly, procs, waits,
             term, world, ctl
    <2>5. pc' \in Holding => info' # "none" /\ info' = exitStatus'[pane']
      BY <1>10, PaneIsBorn, KindsAreLive, Bounds
         DEF IInv, TypeOK, ProcsOK, WaitsOK, PlaceOK, PanesInOrder, ExitKnown,
             ExitInv, Terminating, Holding, Live, Kinds, Info, Ask, Connection,
             Relay, StopWaiting, SettleRace, Eof, ConnectionOnly, procs, waits,
             term, world, ctl
    <2>. QED  BY <2>1, <2>2, <2>3, <2>4, <2>5 DEF ExitInv
  <1>11. CASE UNCHANGED vars
    <2>1. \A p \in Panes : cause'[p] # "none" => leader'[p] \in {"zombie", "reaped"}
      BY <1>11, PaneIsBorn, KindsAreLive, Bounds
         DEF IInv, TypeOK, ProcsOK, WaitsOK, PlaceOK, PanesInOrder, ExitKnown,
             ExitInv, Terminating, Holding, Live, Kinds, Info, vars, procs,
             waits, term, world, ctl
    <2>2. \A p \in Panes : waiter'[p] \in {"storing", "notifying", "done"} =>
                               leader'[p] = "reaped"
      BY <1>11, PaneIsBorn, KindsAreLive, Bounds
         DEF IInv, TypeOK, ProcsOK, WaitsOK, PlaceOK, PanesInOrder, ExitKnown,
             ExitInv, Terminating, Holding, Live, Kinds, Info, vars, procs,
             waits, term, world, ctl
    <2>3. \A p \in Panes : exitStatus'[p] # "none" =>
                               leader'[p] = "reaped" /\ cause'[p] = exitStatus'[p]
      BY <1>11, PaneIsBorn, KindsAreLive, Bounds
         DEF IInv, TypeOK, ProcsOK, WaitsOK, PlaceOK, PanesInOrder, ExitKnown,
             ExitInv, Terminating, Holding, Live, Kinds, Info, vars, procs,
             waits, term, world, ctl
    <2>4. pc' \in Terminating \ {"terminate"} /\ info' # "none" =>
                               info' = exitStatus'[pane']
      BY <1>11, PaneIsBorn, KindsAreLive, Bounds
         DEF IInv, TypeOK, ProcsOK, WaitsOK, PlaceOK, PanesInOrder, ExitKnown,
             ExitInv, Terminating, Holding, Live, Kinds, Info, vars, procs,
             waits, term, world, ctl
    <2>5. pc' \in Holding => info' # "none" /\ info' = exitStatus'[pane']
      BY <1>11, PaneIsBorn, KindsAreLive, Bounds
         DEF IInv, TypeOK, ProcsOK, WaitsOK, PlaceOK, PanesInOrder, ExitKnown,
             ExitInv, Terminating, Holding, Live, Kinds, Info, vars, procs,
             waits, term, world, ctl
    <2>. QED  BY <2>1, <2>2, <2>3, <2>4, <2>5 DEF ExitInv
  <1>. QED  BY <1>1, <1>2, <1>3, <1>4, <1>5, <1>6, <1>7, <1>8, <1>9, <1>10,
       <1>11 DEF Next, WorkerStep, Termination, Over

\* The end is recorded before it is announced, and announced as recorded:
\* every step.
LEMMA SaidStep == ASSUME IInv, ExitInv, SaidInv, [Next]_vars PROVE SaidInv'
  <1>1. CASE Boot
    BY <1>1
       DEF IInv, TypeOK, PlaceOK, TermOK, WorldOK, KillRecorded, Ending, ExitInv,
           Holding, SaidInv, EndSaid, ExitTold, Ended, Status, Terminal, Info,
           Boot, Start, Spawn, SpawnAborts, Publish, Serve, ServeFails, GiveUp,
           SpawnPane, SpawnFails, StartChild, Terminate, procs, waits, term,
           world, ctl
  <1>2. CASE CheckExit
    BY <1>2
       DEF IInv, TypeOK, PlaceOK, TermOK, WorldOK, KillRecorded, Ending, ExitInv,
           Holding, SaidInv, EndSaid, ExitTold, Ended, Status, Terminal, Info,
           CheckExit, Terminated, procs, waits, term, world, ctl
  <1>3. CASE Hangup \/ ForceKill
    BY <1>3
       DEF IInv, TypeOK, PlaceOK, TermOK, WorldOK, KillRecorded, Ending, ExitInv,
           Holding, SaidInv, EndSaid, ExitTold, Ended, Status, Terminal, Info,
           Hangup, ForceKill, TerminateFails, SignalGroup, Struck, procs, waits,
           term, world, ctl
  <1>4. CASE Await \/ Poll \/ WaitOver
    BY <1>4
       DEF IInv, TypeOK, PlaceOK, TermOK, WorldOK, KillRecorded, Ending, ExitInv,
           Holding, SaidInv, EndSaid, ExitTold, Ended, Status, Terminal, Info,
           Await, Poll, WaitOver, Awaited, TerminateFails, procs, waits, term,
           world, ctl
  <1>5. CASE Probe \/ GroupGone \/ GroupSurvives
    <2>1. /\ ~recorded /\ announced = "none" /\ UNCHANGED <<recorded, announced>>
          /\ pc' \notin {"drain", "linger"}
      BY <1>5 DEF IInv, KillRecorded, Ending, SaidInv, Probe, GroupGone,
         GroupSurvives, Terminated, TerminateFails, world
    <2>. QED  BY <2>1 DEF SaidInv, ExitTold
  <1>6. CASE LoopEvent \/ WatchdogFires \/ WriteFails
    BY <1>6
       DEF IInv, TypeOK, PlaceOK, TermOK, WorldOK, KillRecorded, Ending, ExitInv,
           Holding, SaidInv, EndSaid, ExitTold, Ended, Status, Terminal, Info,
           LoopEvent, ReceiveKill, ReceiveRestart, NoticeExit, WatchdogFires,
           WriteFails, Terminate, procs, waits, term, world, ctl
  <1>7. CASE Restart
    BY <1>7
       DEF IInv, TypeOK, PlaceOK, TermOK, WorldOK, KillRecorded, Ending, ExitInv,
           Holding, SaidInv, EndSaid, ExitTold, Ended, Status, Terminal, Info,
           Restart, Respawn, RespawnFails, Swap, Republish, SpawnPane,
           SpawnFails, StartChild, procs, waits, term, world, ctl
  <1>8. CASE Killing \/ Shutdown
    BY <1>8
       DEF IInv, TypeOK, PlaceOK, TermOK, WorldOK, KillRecorded, Ending, ExitInv,
           Holding, SaidInv, EndSaid, ExitTold, Ended, Status, Terminal, Info,
           Killing, RecordKill, ReplyKill, Flushed, Shutdown, Finish,
           AnnounceExit, Cleanup, ProcessEnds, procs, waits, term, world, ctl
  <1>9. ASSUME NEW p \in Panes, Environment(p) \/ WaitThread(p)
        PROVE  SaidInv'
    BY <1>9
       DEF IInv, TypeOK, PlaceOK, TermOK, WorldOK, KillRecorded, Ending, ExitInv,
           Holding, SaidInv, EndSaid, ExitTold, Ended, Status, Terminal, Info,
           Environment, LeaderExits, MemberExits, WaitThread, Reap, StoreExit,
           NotifyExit, procs, waits, term, world, ctl
  <1>10. CASE (\E c \in Clients : Ask(c)) \/ (\E k \in Killers : Connection(k))
    BY <1>10
       DEF IInv, TypeOK, PlaceOK, TermOK, WorldOK, KillRecorded, Ending, ExitInv,
           Holding, SaidInv, EndSaid, ExitTold, Ended, Status, Terminal, Info,
           Ask, Connection, Relay, StopWaiting, SettleRace, Eof, ConnectionOnly,
           procs, waits, term, world, ctl
  <1>11. CASE UNCHANGED vars
    BY <1>11
       DEF IInv, TypeOK, PlaceOK, TermOK, WorldOK, KillRecorded, Ending, ExitInv,
           Holding, SaidInv, EndSaid, ExitTold, Ended, Status, Terminal, Info,
           vars, procs, waits, term, world, ctl
  <1>. QED  BY <1>1, <1>2, <1>3, <1>4, <1>5, <1>6, <1>7, <1>8, <1>9, <1>10,
       <1>11 DEF Next, WorkerStep, Termination, Over

\* A client that was told "killed" has heard it: every step.
LEMMA HeardStep == ASSUME IInv, HeardInv, ~SlowClient, [Next]_vars PROVE HeardInv'
  <1>1. CASE Boot
    BY <1>1
       DEF IInv, TypeOK, CtlOK, TermOK, KillRecorded, Ending, HeardInv, Answers,
           Clients, Boot, Start, Spawn, SpawnAborts, Publish, Serve, ServeFails,
           GiveUp, SpawnPane, SpawnFails, StartChild, Terminate, procs, waits,
           term, world, ctl
  <1>2. CASE CheckExit
    BY <1>2
       DEF IInv, TypeOK, CtlOK, TermOK, KillRecorded, Ending, HeardInv, Answers,
           Clients, CheckExit, Terminated, procs, waits, term, world, ctl
  <1>3. CASE Hangup \/ ForceKill
    BY <1>3
       DEF IInv, TypeOK, CtlOK, TermOK, KillRecorded, Ending, HeardInv, Answers,
           Clients, Hangup, ForceKill, TerminateFails, SignalGroup, Struck,
           procs, waits, term, world, ctl
  <1>4. CASE Await \/ Poll \/ WaitOver
    BY <1>4
       DEF IInv, TypeOK, CtlOK, TermOK, KillRecorded, Ending, HeardInv, Answers,
           Clients, Await, Poll, WaitOver, Awaited, TerminateFails, procs, waits,
           term, world, ctl
  <1>5. CASE Probe \/ GroupGone \/ GroupSurvives
    BY <1>5
       DEF IInv, TypeOK, CtlOK, TermOK, KillRecorded, Ending, HeardInv, Answers,
           Clients, Probe, GroupGone, GroupSurvives, Terminated, TerminateFails,
           procs, waits, term, world, ctl
  <1>6. CASE LoopEvent \/ WatchdogFires \/ WriteFails
    BY <1>6
       DEF IInv, TypeOK, CtlOK, TermOK, KillRecorded, Ending, HeardInv, Answers,
           Clients, LoopEvent, ReceiveKill, ReceiveRestart, NoticeExit,
           WatchdogFires, WriteFails, Terminate, procs, waits, term, world, ctl
  <1>7. CASE Restart
    BY <1>7
       DEF IInv, TypeOK, CtlOK, TermOK, KillRecorded, Ending, HeardInv, Answers,
           Clients, Restart, Respawn, RespawnFails, Swap, Republish, SpawnPane,
           SpawnFails, StartChild, procs, waits, term, world, ctl
  <1>8. CASE Killing \/ Shutdown
    BY <1>8
       DEF IInv, TypeOK, CtlOK, TermOK, KillRecorded, Ending, HeardInv, Answers,
           Clients, Killing, RecordKill, ReplyKill, Flushed, Shutdown, Finish,
           AnnounceExit, Cleanup, ProcessEnds, procs, waits, term, world, ctl
  <1>9. ASSUME NEW p \in Panes, Environment(p) \/ WaitThread(p)
        PROVE  HeardInv'
    BY <1>9
       DEF IInv, TypeOK, CtlOK, TermOK, KillRecorded, Ending, HeardInv, Answers,
           Clients, Environment, LeaderExits, MemberExits, WaitThread, Reap,
           StoreExit, NotifyExit, procs, waits, term, world, ctl
  <1>10. CASE (\E c \in Clients : Ask(c)) \/ (\E k \in Killers : Connection(k))
    BY <1>10
       DEF IInv, TypeOK, CtlOK, TermOK, KillRecorded, Ending, HeardInv, Answers,
           Clients, Ask, Connection, Relay, StopWaiting, SettleRace, Eof,
           ConnectionOnly, procs, waits, term, world, ctl
  <1>11. CASE UNCHANGED vars
    BY <1>11
       DEF IInv, TypeOK, CtlOK, TermOK, KillRecorded, Ending, HeardInv, Answers,
           Clients, vars, procs, waits, term, world, ctl
  <1>. QED  BY <1>1, <1>2, <1>3, <1>4, <1>5, <1>6, <1>7, <1>8, <1>9, <1>10,
       <1>11 DEF Next, WorkerStep, Termination, Over
\* Files can be written, commands can be started again, the socket can be set
\* up, and every process dies of SIGKILL in time.
Sound ==
    /\ SpawnFaults = {} /\ ~BindMayFail /\ ~WriteMayFail /\ ~SlowDeath
    /\ "foreign" \notin LeaderKinds \cup MemberKinds

\* In such an environment the worker returns only at the end of its work.
ReturnInv ==
    /\ \A p \in Panes : leader[p] # "foreign" /\ member[p] # "foreign"
    /\ pc \in Terminating => why # "setup"
    /\ pc # "giveUp"
    /\ pc \in {"returned", "gone"} => status.state \in Terminal /\ ~socket

\* A recorded end is true: every step.
LEMMA EndStep ==
  ASSUME IInv, ExitInv, EndIsTrue, "late" \notin SpawnFaults, [Next]_vars
  PROVE  EndIsTrue'
  <1>1. CASE Boot
    <2>1. CASE SpawnAborts
      <3>1. pane = 0 /\ pane' = 1 /\ leader' = leader /\ cause' = cause
        BY <2>1 DEF SpawnAborts, SpawnFails, procs, IInv, TypeOK, PlaceOK
      <3>2. \A p \in Panes : leader[p] = "unborn" /\ cause[p] = "none"
        BY <3>1, Bounds DEF IInv, PanesInOrder, ExitInv, Panes
      <3>3. status'.state \in Terminal => status'.code = "none"
        BY <2>1 DEF SpawnAborts, Status, IInv, TypeOK, WorldOK, StatusInStep, Terminal,
           EndIsTrue, ExitInv, Panes
      <3>. QED  BY <3>1, <3>2, <3>3, Bounds DEF EndIsTrue, Live, Kinds, Panes
    <2>2. CASE GiveUp
      BY <2>2 DEF GiveUp, Status, EndIsTrue
    <2>3. CASE Start \/ Spawn \/ Publish \/ Serve \/ ServeFails
      <3>1. status'.state \notin Terminal
        BY <2>3 DEF Start, Spawn, Publish, Serve, ServeFails, Status, Terminal, IInv,
           StatusInStep, InSession, world
      <3>. QED  BY <3>1 DEF EndIsTrue
    <2>. QED  BY <1>1, <2>1, <2>2, <2>3 DEF Boot
  <1>2. CASE CheckExit
    BY <1>2, PaneIsBorn, TerminalMeansEnding, Bounds
       DEF IInv, TypeOK, ProcsOK, PlaceOK, TermOK, WorldOK, KillRecorded, Ending,
           PanesInOrder, StatusInStep, InSession, Terminating, GroupAlive,
           ExitInv, Holding, EndIsTrue, Ended, Status, Terminal, Info, Live,
           Kinds, CheckExit, Terminated, procs, waits, term, world, ctl
  <1>3. CASE Hangup \/ ForceKill
    BY <1>3, PaneIsBorn, TerminalMeansEnding, Bounds
       DEF IInv, TypeOK, ProcsOK, PlaceOK, TermOK, WorldOK, KillRecorded, Ending,
           PanesInOrder, StatusInStep, InSession, Terminating, GroupAlive,
           ExitInv, Holding, EndIsTrue, Ended, Status, Terminal, Info, Live,
           Kinds, Hangup, ForceKill, TerminateFails, SignalGroup, Struck, procs,
           waits, term, world, ctl
  <1>4. CASE Await \/ Poll \/ WaitOver
    BY <1>4, PaneIsBorn, TerminalMeansEnding, Bounds
       DEF IInv, TypeOK, ProcsOK, PlaceOK, TermOK, WorldOK, KillRecorded, Ending,
           PanesInOrder, StatusInStep, InSession, Terminating, GroupAlive,
           ExitInv, Holding, EndIsTrue, Ended, Status, Terminal, Info, Live,
           Kinds, Await, Poll, WaitOver, Awaited, TerminateFails, procs, waits,
           term, world, ctl
  <1>5. CASE Probe \/ GroupGone \/ GroupSurvives
    BY <1>5, PaneIsBorn, TerminalMeansEnding, Bounds
       DEF IInv, TypeOK, ProcsOK, PlaceOK, TermOK, WorldOK, KillRecorded, Ending,
           PanesInOrder, StatusInStep, InSession, Terminating, GroupAlive,
           ExitInv, Holding, EndIsTrue, Ended, Status, Terminal, Info, Live,
           Kinds, Probe, GroupGone, GroupSurvives, Terminated, TerminateFails,
           procs, waits, term, world, ctl
  <1>6. CASE LoopEvent \/ WatchdogFires \/ WriteFails
    BY <1>6, PaneIsBorn, TerminalMeansEnding, Bounds
       DEF IInv, TypeOK, ProcsOK, PlaceOK, TermOK, WorldOK, KillRecorded, Ending,
           PanesInOrder, StatusInStep, InSession, Terminating, GroupAlive,
           ExitInv, Holding, EndIsTrue, Ended, Status, Terminal, Info, Live,
           Kinds, LoopEvent, ReceiveKill, ReceiveRestart, NoticeExit,
           WatchdogFires, WriteFails, Terminate, procs, waits, term, world, ctl
  <1>7. CASE Restart
    BY <1>7, PaneIsBorn, TerminalMeansEnding, Bounds
       DEF IInv, TypeOK, ProcsOK, PlaceOK, TermOK, WorldOK, KillRecorded, Ending,
           PanesInOrder, StatusInStep, InSession, Terminating, GroupAlive,
           ExitInv, Holding, EndIsTrue, Ended, Status, Terminal, Info, Live,
           Kinds, Restart, Respawn, RespawnFails, Swap, Republish, SpawnPane,
           SpawnFails, StartChild, procs, waits, term, world, ctl
  <1>8. CASE Killing \/ Shutdown
    <2>1. UNCHANGED <<procs, pane>>
      BY <1>8 DEF Killing, RecordKill, ReplyKill, Flushed, Shutdown, Finish, AnnounceExit,
         Cleanup, ProcessEnds
    <2>2. CASE RecordKill \/ (Finish /\ ~recorded)
      <3>1. pane \in Panes /\ info # "none" /\ leader[pane] = "reaped" /\ cause[pane] = info
        BY <2>2, PaneIsBorn DEF RecordKill, Finish, IInv, ExitInv, Holding
      <3>2. \A p \in Panes : leader[p] \notin Live
        BY <3>1, Bounds DEF IInv, PanesInOrder, GroupAlive, Live, Kinds, Panes
      <3>3. /\ status'.state = "exited" => info = "code"
            /\ status'.code = "code" => info = "code"
        BY <2>2 DEF RecordKill, Finish, Ended, Status
      <3>. QED  BY <2>1, <3>1, <3>2, <3>3 DEF EndIsTrue, procs
    <2>3. CASE status' = status
      BY <2>1, <2>3 DEF EndIsTrue, procs
    <2>. QED  BY <1>8, <2>2, <2>3 DEF Killing, ReplyKill, Flushed, Shutdown, Finish,
         AnnounceExit, Cleanup, ProcessEnds, world
  <1>9. ASSUME NEW p \in Panes, Environment(p) \/ WaitThread(p)
        PROVE  EndIsTrue'
    BY <1>9, PaneIsBorn, TerminalMeansEnding, Bounds
       DEF IInv, TypeOK, ProcsOK, PlaceOK, TermOK, WorldOK, KillRecorded, Ending,
           PanesInOrder, StatusInStep, InSession, Terminating, GroupAlive,
           ExitInv, Holding, EndIsTrue, Ended, Status, Terminal, Info, Live,
           Kinds, Environment, LeaderExits, MemberExits, WaitThread, Reap,
           StoreExit, NotifyExit, procs, waits, term, world, ctl
  <1>10. CASE (\E c \in Clients : Ask(c)) \/ (\E k \in Killers : Connection(k))
    BY <1>10, PaneIsBorn, TerminalMeansEnding, Bounds
       DEF IInv, TypeOK, ProcsOK, PlaceOK, TermOK, WorldOK, KillRecorded, Ending,
           PanesInOrder, StatusInStep, InSession, Terminating, GroupAlive,
           ExitInv, Holding, EndIsTrue, Ended, Status, Terminal, Info, Live,
           Kinds, Ask, Connection, Relay, StopWaiting, SettleRace, Eof,
           ConnectionOnly, procs, waits, term, world, ctl
  <1>11. CASE UNCHANGED vars
    BY <1>11, PaneIsBorn, TerminalMeansEnding, Bounds
       DEF IInv, TypeOK, ProcsOK, PlaceOK, TermOK, WorldOK, KillRecorded, Ending,
           PanesInOrder, StatusInStep, InSession, Terminating, GroupAlive,
           ExitInv, Holding, EndIsTrue, Ended, Status, Terminal, Info, Live,
           Kinds, vars, procs, waits, term, world, ctl
  <1>. QED  BY <1>1, <1>2, <1>3, <1>4, <1>5, <1>6, <1>7, <1>8, <1>9, <1>10,
       <1>11 DEF Next, WorkerStep, Termination, Over

\* The worker returns only when its work is done: every step.
LEMMA ReturnStep ==
  ASSUME IInv, ExitInv, SaidInv, ReturnInv, Sound, [Next]_vars
  PROVE  ReturnInv'
  <1>1. CASE Boot
    BY <1>1, PaneIsBorn
       DEF IInv, TypeOK, ProcsOK, PlaceOK, TermOK, WorldOK, SetUp, StatusInStep,
           Terminating, ExitInv, Holding, SaidInv, EndSaid, ReturnInv, Sound,
           Denied, GroupAlive, Ended, Status, Terminal, Live, Kinds, Boot, Start,
           Spawn, SpawnAborts, Publish, Serve, ServeFails, GiveUp, SpawnPane,
           SpawnFails, StartChild, Terminate, procs, waits, term, world, ctl
  <1>2. CASE CheckExit
    BY <1>2, PaneIsBorn
       DEF IInv, TypeOK, ProcsOK, PlaceOK, TermOK, WorldOK, SetUp, StatusInStep,
           Terminating, ExitInv, Holding, SaidInv, EndSaid, ReturnInv, Sound,
           Denied, GroupAlive, Ended, Status, Terminal, Live, Kinds, CheckExit,
           Terminated, procs, waits, term, world, ctl
  <1>3. CASE Hangup \/ ForceKill
    BY <1>3, PaneIsBorn
       DEF IInv, TypeOK, ProcsOK, PlaceOK, TermOK, WorldOK, SetUp, StatusInStep,
           Terminating, ExitInv, Holding, SaidInv, EndSaid, ReturnInv, Sound,
           Denied, GroupAlive, Ended, Status, Terminal, Live, Kinds, Hangup,
           ForceKill, TerminateFails, SignalGroup, Struck, procs, waits, term,
           world, ctl
  <1>4. CASE Await \/ Poll \/ WaitOver
    BY <1>4, PaneIsBorn
       DEF IInv, TypeOK, ProcsOK, PlaceOK, TermOK, WorldOK, SetUp, StatusInStep,
           Terminating, ExitInv, Holding, SaidInv, EndSaid, ReturnInv, Sound,
           Denied, GroupAlive, Ended, Status, Terminal, Live, Kinds, Await, Poll,
           WaitOver, Awaited, TerminateFails, procs, waits, term, world, ctl
  <1>5. CASE Probe \/ GroupGone \/ GroupSurvives
    BY <1>5, PaneIsBorn
       DEF IInv, TypeOK, ProcsOK, PlaceOK, TermOK, WorldOK, SetUp, StatusInStep,
           Terminating, ExitInv, Holding, SaidInv, EndSaid, ReturnInv, Sound,
           Denied, GroupAlive, Ended, Status, Terminal, Live, Kinds, Probe,
           GroupGone, GroupSurvives, Terminated, TerminateFails, procs, waits,
           term, world, ctl
  <1>6. CASE LoopEvent \/ WatchdogFires \/ WriteFails
    BY <1>6, PaneIsBorn
       DEF IInv, TypeOK, ProcsOK, PlaceOK, TermOK, WorldOK, SetUp, StatusInStep,
           Terminating, ExitInv, Holding, SaidInv, EndSaid, ReturnInv, Sound,
           Denied, GroupAlive, Ended, Status, Terminal, Live, Kinds, LoopEvent,
           ReceiveKill, ReceiveRestart, NoticeExit, WatchdogFires, WriteFails,
           Terminate, procs, waits, term, world, ctl
  <1>7. CASE Restart
    BY <1>7, PaneIsBorn
       DEF IInv, TypeOK, ProcsOK, PlaceOK, TermOK, WorldOK, SetUp, StatusInStep,
           Terminating, ExitInv, Holding, SaidInv, EndSaid, ReturnInv, Sound,
           Denied, GroupAlive, Ended, Status, Terminal, Live, Kinds, Restart,
           Respawn, RespawnFails, Swap, Republish, SpawnPane, SpawnFails,
           StartChild, procs, waits, term, world, ctl
  <1>8. CASE Killing \/ Shutdown
    BY <1>8, PaneIsBorn
       DEF IInv, TypeOK, ProcsOK, PlaceOK, TermOK, WorldOK, SetUp, StatusInStep,
           Terminating, ExitInv, Holding, SaidInv, EndSaid, ReturnInv, Sound,
           Denied, GroupAlive, Ended, Status, Terminal, Live, Kinds, Killing,
           RecordKill, ReplyKill, Flushed, Shutdown, Finish, AnnounceExit,
           Cleanup, ProcessEnds, procs, waits, term, world, ctl
  <1>9. ASSUME NEW p \in Panes, Environment(p) \/ WaitThread(p)
        PROVE  ReturnInv'
    BY <1>9, PaneIsBorn
       DEF IInv, TypeOK, ProcsOK, PlaceOK, TermOK, WorldOK, SetUp, StatusInStep,
           Terminating, ExitInv, Holding, SaidInv, EndSaid, ReturnInv, Sound,
           Denied, GroupAlive, Ended, Status, Terminal, Live, Kinds, Environment,
           LeaderExits, MemberExits, WaitThread, Reap, StoreExit, NotifyExit,
           procs, waits, term, world, ctl
  <1>10. CASE (\E c \in Clients : Ask(c)) \/ (\E k \in Killers : Connection(k))
    BY <1>10, PaneIsBorn
       DEF IInv, TypeOK, ProcsOK, PlaceOK, TermOK, WorldOK, SetUp, StatusInStep,
           Terminating, ExitInv, Holding, SaidInv, EndSaid, ReturnInv, Sound,
           Denied, GroupAlive, Ended, Status, Terminal, Live, Kinds, Ask,
           Connection, Relay, StopWaiting, SettleRace, Eof, ConnectionOnly,
           procs, waits, term, world, ctl
  <1>11. CASE UNCHANGED vars
    BY <1>11, PaneIsBorn
       DEF IInv, TypeOK, ProcsOK, PlaceOK, TermOK, WorldOK, SetUp, StatusInStep,
           Terminating, ExitInv, Holding, SaidInv, EndSaid, ReturnInv, Sound,
           Denied, GroupAlive, Ended, Status, Terminal, Live, Kinds, vars, procs,
           waits, term, world, ctl
  <1>. QED  BY <1>1, <1>2, <1>3, <1>4, <1>5, <1>6, <1>7, <1>8, <1>9, <1>10,
       <1>11 DEF Next, WorkerStep, Termination, Over

-----------------------------------------------------------------------------
(***************************************************************************)
(* What follows for the end of a session.                                  *)
(***************************************************************************)

\* What is known of the exits holds for every value of the constants.
THEOREM ExitsAreKnown == Spec => [](IInv /\ ExitInv /\ SaidInv)
  <1>1. Init => ExitInv /\ SaidInv
    BY DEF Init, ExitInv, SaidInv, ExitTold, Terminating, Holding
  <1>2. IInv /\ ExitInv /\ SaidInv /\ [Next]_vars => ExitInv' /\ SaidInv'
    BY ExitStep, SaidStep
  <1>. QED  BY Invariance, <1>1, <1>2, PTL DEF Spec

\* Attached clients are told the exit that is recorded for everybody who comes
\* later, and not before it is recorded, whatever fails (run.rs, supervise:
\* exit_tx).
THEOREM ExitIsTold == Spec => []ExitTold
  <1>1. SaidInv => ExitTold
    BY DEF SaidInv
  <1>. QED  BY ExitsAreKnown, <1>1, PTL

\* A session that is recorded as finished has no direct child left, and its code
\* is that of the last command.  Only a command that was started and then could
\* not be supervised (a late fault of Pane::spawn) is left running (run.rs,
\* supervise; pane.rs, Pane::spawn).
THEOREM RecordedEndIsTrue ==
  ASSUME "late" \notin SpawnFaults
  PROVE  Spec => []EndIsTrue
  <1>1. Init => EndIsTrue
    BY DEF Init, EndIsTrue, Status, Terminal
  <1>2. IInv /\ ExitInv /\ EndIsTrue /\ [Next]_vars => EndIsTrue'
    BY EndStep
  <1>. QED  BY ExitsAreKnown, <1>1, <1>2, PTL DEF Spec

\* When replies reach their clients in the 2 s they have, nobody who was told
\* "killed" sees a broken connection, whatever else fails (run.rs, supervise;
\* control.rs, handle).
THEOREM KillsAreDelivered ==
  ASSUME ~SlowClient
  PROVE  Spec => []KillDelivered
  <1>1. Init => HeardInv
    BY DEF Init, HeardInv
  <1>2. IInv /\ HeardInv /\ [Next]_vars => HeardInv'
    BY HeardStep
  <1>3. HeardInv => KillDelivered
    BY DEF HeardInv, KillDelivered, Clients
  <1>. QED  BY Invariance, <1>1, <1>2, <1>3, PTL DEF Spec

\* In an environment in which nothing fails the worker never leaves without a
\* terminal status, nor its socket behind (run.rs, worker).
THEOREM NoSessionIsStale ==
  ASSUME Sound
  PROVE  Spec => []NoStaleSession
  <1>1. Init => ReturnInv
    BY DEF Init, ReturnInv, Terminating
  <1>2. IInv /\ ExitInv /\ SaidInv /\ ReturnInv /\ [Next]_vars => ReturnInv'
    BY ReturnStep
  <1>3. ReturnInv => NoStaleSession
    BY DEF ReturnInv, NoStaleSession
  <1>. QED  BY ExitsAreKnown, <1>1, <1>2, <1>3, PTL DEF Spec

=============================================================================
