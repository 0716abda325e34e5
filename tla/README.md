# A TLA+ model of babysit

`babysit` starts a command under a detached supervisor (the *worker*), records
its output and its end, and lets any number of clients look at it, type into
it, restart it or kill it, also from another machine over SSH. This directory
holds TLA+ modules translated from its source, the TLC configurations that
check them, and proofs checked by TLAPS. Source lines are those of `src/src/`;
`PROJECT.json` maps every definition to the lines it stands for.

## The system

| Component | State | Operations |
|---|---|---|
| **Session worker** (`run.rs` serve_worker, terminate_pane; `pane.rs` wait thread; `control.rs` kill and restart) | the current pane, `status.json`, the control socket, the exit notification, queued actions | start, publish, serve, terminate (SIGHUP, wait, probe the group, SIGKILL), restart, kill and its reply, the two deadlines, record the end, announce it, clean up |
| **Output hub** (`pane.rs` OutputHub) | `output.log`, its timestamps, the backlog, the subscribers | configure the log, broadcast a chunk, subscribe (legacy, resumable, fresh) |
| **Remote attach** (`remote.rs` attach, bridge; `control.rs` handle_attach) | the cursor, the display, the connection | connect, handshake, replay, forward, exit, reconnect, detach |
| **Attach server and local attach** (`control.rs` handle_attach, `attach.rs`) | attached count, view filter, detach channel | attach, view-command filter, input, resize, forced detach |
| **Control operations** (`control.rs` dispatch) | none of their own | status, log, screenshot, send, resize |
| **Pollers** (`sub.rs`) | their position in the log, a deadline | wait, expect, wait-idle, log --follow |
| **Session store** (`session.rs`, `sub.rs` prune, `paths.rs`) | one directory and one socket per session | choose an id, write meta, status and note, list, prune |
| **Run front end** (`run.rs` run, `main.rs`) | none | choose the id, start the worker, attach |
| **Remote run and proxy** (`remote.rs`, `main.rs`) | none | compatibility check, run, confirm, forward |
| **Detach filter, key names, log slices, durations** | pure | |
| **Rendering, command line, completions, upgrade** | pure or pure I/O | |

How they interact. A client reaches the worker over a Unix socket, one task per
connection; kill and restart are handed to the select loop of `serve_worker` on
a channel (kill with a oneshot reply). The loop, the wait thread of the pane and
the connections share the pane through `Handle.cmd_pane` and its exit
notification. Reader threads push output into the hub under one lock; attached
connections take it from an unbounded channel each. Everybody else polls files:
`status.json` for the end, `output.log` for the output. The bridge of a remote
attach copies one connection to SSH, and answers from the files once the worker
is gone.

What is hard in it:

* **Confirming a termination.** The leader is reaped by a thread, its process
  group by nobody; a restart must not start over processes that still run, and
  a "killed" must be true when it is told.
* **The exit race.** The command may exit before, during and after each step of
  a kill or a restart; one `Notify` permit announces the exit to both the loop
  and `terminate_pane`.
* **Failing halves.** The spawn, the socket, each status write and each signal
  can fail, with the other half of the step done.
* **Two clocks of the output.** Offsets are counted by the hub and mean
  positions in a file whose writes can fail; backlog, log and live chunks must
  meet without gap or overlap, on every reconnection again.
* **The last words.** Exit and output travel on different channels, and a
  client may be reconnecting while the worker leaves.
* **Files without locks.** Pollers, prune and a second `run` with the same id
  read and delete what a worker writes.

What makes each part correct: for the worker, one command at a time, truthful
confirmations, a final and truthful record, an answer to every request, no
stale session; for the hub, a gapless stream per client and offsets that mean
what they say; for the remote attach, every byte shown once, nothing missing
before the reported exit, and an end; for the local attach, input that arrives
as it was typed but for the detach keys, a detach that reaches every client, the
whole output before the exit; for the pollers, an answer that is never less than
the recorded truth; for the store, a prune that touches no live session and
leaves none that is over, a socket that belongs to the worker that bound it, and
a remote user who is told only what happened.

## Modules

| Module | What it is |
|---|---|
| `SessionLifecycle` | abstract: what the status file of a session may do over time |
| `Worker` | the worker in detail; implements `SessionLifecycle` |
| `WorkerProofs` | theorems about `Worker` |
| `OutputHub` | the hub with its log, timestamps, backlog and clients |
| `OutputHubProofs` | theorems about `OutputHub` |
| `RemoteAttach` | extends `OutputHub`: worker connection, bridge and terminal |
| `RemoteAttachProofs` | theorems about `RemoteAttach` |
| `DetachFilter` | pure: what a terminal makes of the keys typed at it |
| `AttachServer` | extends `DetachFilter`: a local terminal, `handle_attach` and a view command |
| `AttachServerProofs` | theorems about both |
| `LogText` | pure: how much of a growing log may be shown, what is visible of it, capture times |
| `Pollers` | extends `LogText`: the commands that poll the files of a session |
| `PollersProofs` | theorems about both |
| `SessionStore` | directories and sockets shared by runs, workers, prune, flag, ls and remote runs |
| `SessionStoreProofs` | theorems about `SessionStore` |
| `PruneProofs` | extends it: what a prune removes and spares |
| `Recursion` | induction over the numbers, stated of a set, for the proofs about folds and recursive functions |
| `MCWorker`, `MCOutputHub`, `MCRemoteAttach`, `MCAttachServer`, `MCPollers`, `MCSessionStore` | small instances and symmetry |

A definition named `X_Suffix`, with a comment that begins with "Mutant", is the
definition `X` with a plausible bug. No specification uses it; it documents what
the properties are able to notice.

### Worker

A *pane* is one run of the command: its direct child (`leader`), the rest of its
process group reduced to one process (`member`), and the wait thread that reaps
the child, stores `exit_status` and leaves a permit in `exit_notify`, three
steps that anything can come between. How a process reacts to signals is chosen
when it starts: *polite* dies of SIGHUP, *stubborn* of SIGKILL only, *foreign*
cannot be signalled (EPERM). A group whose remaining processes are foreign makes
`killpg` fail; an empty one counts as signalled, as `ESRCH` does in the code.

The worker is one sequential process. `pc` names its await points and the steps
between which other tasks can observe a difference: `start`, `spawn`, `publish`,
`serve` before the loop; `loop`; `terminate`, `hangup`, `await`, `poll`, `wait`,
`probe`, `force`, `group` inside `terminate_pane` and its callees, shared by its
five callers (`why`); `respawn`, `swap`, `republish`; `recordKill`, `replyKill`,
`flush`; `giveUp`; `finish`, `drain`, `linger`, `returned`, `gone`. Each action
is one such step with every assignment it makes. `Awaited`, `Terminated` and
`TerminateFails` are the continuations of the callers, the last one being
the error branch of each: a refused kill goes back to the loop, a restart returns
from the worker.

Connections: `Ask` sends a request, `Relay` forwards the loop's reply, and
`StopWaiting`, `SettleRace` and `Eof` are the other ways in which `dispatch`
ends: the dropped channel, the 7 s timeout, the half second of
`kill_race_error`, the end of the process.

Time is abstract: a bounded wait may expire whenever it is not already
satisfied, within the assumptions of a run (`SlowDeath`, `SlowClient`,
`KillMayTimeOut`). `struck` is a history variable for one property.

### OutputHub

Bytes are numbered in the order they are produced, so a chunk, the content of
the log and the backlog are known by numbers, and "the log has at this offset
what the client was sent" can be stated. The offset the hub assigns
(`nextOffset`) is kept apart from the byte number (`produced`): they coincide
only as long as the log works, and that is the question. All operations hold one
lock and are one action each. A failing `write_all` leaves any proper prefix of
the chunk in the file. `log_error` and `log` are two flags.
A client of the hub neither reads nor leaves here, so that its inbox is the whole
stream it is sent; `broadcast` drops a client that has left, which changes
nothing for the others. `RemoteAttach` has the reading and the leaving.

### RemoteAttach

Three parts and two channels: the connection of `handle_attach` (`server`,
`readPos` and its hub inbox), the bytes of the bridge on their way (`link`), and
the terminal (`place`, `cursor`, `shown`). A loss drops what is on its way, at
any frame boundary. `Reconnect` is what each of the call sites of
`reconnect_after_loss` does: fatal before the first handshake and with
`--no-reconnect`; a visual attach clears its display and forgets its cursor; a
plain one resumes from the cursor. The hub's `Resume`/`ResumeFresh` are used as
they are. When the worker is gone the bridge answers from the log.

The select of `handle_attach` polls its branches in turn while other threads go
on. `PollOutput` finds the inbox empty and goes to *quiet*; there the exit is
polled (`SendExit`, `PollExit`), and output or the announcement may have come
meanwhile. `racing` remembers that the exit was announced at *quiet*.

Differences between source and model worth knowing: the exit code in the exit
frame is left out; a lost connection is noticed at a frame boundary (a frame cut
in half is discarded by `read_frame` in the code); the session's directory is
never pruned while an attach is alive; the worker does not crash before it has
announced the exit (in `AttachServer` it may at any time).

### DetachFilter and AttachServer

A byte of input is known by its class; the parameters of an enhanced key event
are one byte, `press` or `release`. `Push` folds `Feed` over a chunk, and a chunk
ends anywhere, so that a sequence may be split between any two bytes.

`AttachServer` follows one client from `connect_retry` to its answer. `srv` is
where `handle_attach` is: *counted*, *checked* (it has looked at `exit_tx`),
*piped* (the output or the view command is set up), its loop, *closed*. Its
select is biased, and it polls its branches in turn on a runtime with several
threads (main.rs:10): *loop* is where it polls the output, *exit*, *detach* and
*gone* where it polls these. A poll that finds nothing goes on to the next one
(`Polls`), the last one back to the first, and everything may happen between two
polls. `racing` remembers that the exit was announced after the output had been
polled and before the exit was. `Flood` is output that comes faster than it is
sent: while it lasts the output branch is ready, and nothing below it is polled.
The feed and drain tasks of a view
command, and the command itself, are `FeedView`, `CloseView`, `Format` and
`ViewEnds`; a view command may stall for ever, and with `MayQuit` end at any
time. Output is counted in chunks: `OutputHub` is about their content and order.
`attach_to` is `place` with one action per branch of its select. `Forward` has
the one error path a user may meet: input that is written to a worker that has
just gone ends the client with an error instead of the exit code.

`exit_rx` is a clone whose version never saw the exit, therefore `LoopExit` looks
only at whether the exit is announced, and the 15 s guard is unreachable and left
out; that is the finding of `attach_view`.

### LogText and Pollers

`LogText` has the byte classes that `safe_prefix_len` and `escape_complete` tell
apart. `Visible` is the terminal automaton that the stripping library implements,
written independently of the slicing: `SliceExact` compares slices, cut wherever
a reader found the end of the file, with one reading of the whole. The `ESC \`
branch of `escape_complete` can never be taken, as the tail begins at the last
ESC; such a sequence counts as complete one byte later, by its own ESC.
`WellFormed` says which logs the slicing is meant for: characters are whole, and
an escape goes on as one of the forms that `escape_complete` tells apart. TLC
evaluates it of every log of the run.

`Pollers` has the session as its files show it and one reader, whose command is
chosen at the start; `place` is the point between two of its reads. A deadline
may pass at any poll. What is looked for is the byte `mark`; a screen is its
last visible cell, which later output replaces. `ask` is an agent that sends
input and then expects from the offset the send reported.

### SessionStore

For each id: whether its directory exists, its meta, status and note, and who
listens at its socket name. Each file operation is a step: `write_meta_json`
leaves an empty file first (`OpenMeta`), `remove_dir_all` empties the directory
and then removes it, failing when something was written meanwhile. A worker
whose directory has gone fails at its next status. The rest of a worker is in
`Worker`. `prune` carries what it has read of the id it looks at, `ls` its row.
`shared` collects the ids that two runs were given at once, which `make_id`
cannot prevent (it checks, and the worker creates the directory later).

A remote run asks, and is told *created*, *failed* or *unknown*; its request may
arrive after its answer was given up. `RemoteCut` is an ssh that a signal ends,
or a remote front end that does: neither success nor 255, it is told as *failed*
wherever the run is (main.rs:107-123). `cut` collects these runs. Generated ids of remote runs have eight
digits and are taken to be unique.

Not in these models: a pid that another process uses again (the code documents
it); a dead worker that is a zombie, and alive to `kill(pid, 0)`, as long as the
process that spawned it lives and does not wait for it, which may be long when
the library is embedded (a crash counts as reaped at once); a `remove_dir_all`
that fails for other reasons than a late write (sub.rs:566-569); the second,
legacy path of the socket; `prune --dry-run`, which changes nothing.

## Runs

| Run | Question | Result |
|---|---|---|
| `worker_faults` | which guarantees survive every fault | holds, about 816,000 states |
| `worker_sound` | which guarantees hold when the system behaves and is scheduled | holds, about 76,000 states |
| `worker_respawn` | a restart that cannot spawn | `NoStaleSession` fails |
| `worker_claim` | a kill racing the natural exit | `HonestClaim` fails |
| `worker_permit` | a refused kill racing the exit | `ExitRecorded` fails |
| `hub_faults` | log, timestamps and clients with failing writes and a restart | holds, about 53,000 states |
| `hub_reopen` | a restart after a failed log write | `OffsetsAreTrue` fails |
| `remote_resume` | display and end of a remote attach | holds, about 156,000 states |
| `poll_files` | what each poller reports | holds, about 138,000 states |
| `store_files` | prunes, notes, listings and runs over the same ids | holds, about 3.1 million states |
| `attach_local` | what a local terminal shows, forwards and is told | holds, about 798,000 states |
| `attach_view` | the exit comes after the output of a view command | `ViewWhole` fails |

**worker_faults** checks the type invariant, `OneCommand` (two commands of a
session never have live processes at once), `KillConfirmed` (who is told
"killed" finds the record and no process), `LoopAgrees` (loop, connections and
status file mean the same pane), `ExitTold` (the announced and the recorded exit
are the same), `TerminalIsFinal`, and that the worker implements
`SessionLifecycle`. **worker_sound** adds what faults would excuse: `EndIsTrue`
(a recorded end is the truth about the processes), `NoStaleSession`,
`KillDelivered` (a confirmation is not lost with the process), and under
fairness `ExitRecorded` and `KillAnswered`.

**hub_faults** checks `LegacyStream` (backlog and live chunks join without gap),
`ReplayableRange` (the promised range can be read back, also after writes
failed) and `StampsAreTrue`. **remote_resume** checks `ShownOnce`,
`CursorIsTrue`, `ExitIsComplete` (a reported exit comes after all output written
before it, unless it was announced between two polls) and `AttachEnds`.

**poll_files** checks `SliceExact`, `ExpectIsTrue` (a 1 means that nothing logged
before the end was recorded matched, and a search from the offset of a send
misses nothing of the answer), `FollowComplete` (a follower that stops leaves
nothing that was logged before the end and can be shown), `WaitIsTrue` (once the
end is recorded, a wait that is not between its two reads answers the recorded
code, or 124), `RowsAreTrue` and `PollersEnd`. **store_files** checks `LiveSpared` (prune empties no directory of
a live session), `PruneComplete`, `SocketKept`, `ToldIsTrue` (created is told of a
run that started its worker, failed of one that never will, but for a signal) and
`RowIsTrue`. **attach_local** checks `InputExact`, `ExitWhole` (the whole output is
sent before the exit, but for the same two polls), `ClientTruth`, `DetachHeard`
(a detach reaches every client in its loop, once output pauses) and `AttachEnds`.

What these properties do not claim, because the code does not hold it:

* A terminal may be told the exit without the last output, locally and remotely:
  the select finds no output, then the last chunk is queued and the exit
  announced on other threads, then it polls `exit_rx`. control.rs:645-646 says
  "so the client never loses the tail". `racing` is exactly this moment; without
  it `ExitWhole` and `ExitIsComplete` are violated.
* A detach is not heard while output comes faster than the client takes it: the
  output branch is first in the select and its queue has no bound. Without the
  hypothesis that output pauses, `DetachHeard` is violated.
* A remote run may be told "remote run failed" and have its session: when a signal
  ends ssh here, or the remote front end after it has spawned the worker
  (main.rs:107-123). Without `cut` the second half of `ToldIsTrue` is violated.
* `wait` may answer 137 for a session that has recorded its end: it reads the
  status, the end is recorded and the worker leaves, it reads the owner.
  sub.rs:483-485 keeps 137 for an owner that dies "without recording a terminal
  state". `WaitIsTrue` leaves out this wait and no other.
* Two prunes at once can empty the directory of a run that took the id after the
  first of them: the second judged the former owner. `LiveSpared` excludes it, as
  it excludes shared ids. A prune that was complete can take the socket of a
  new run with the same id, and so can the cleanup of an old worker.
* `log --since` may say `done` with a slice read before the last output: the
  slice is read first (sub.rs:168, 753), the status after it.
* `SliceExact` is about `WellFormed` logs read from the start of a character.
  `escape_complete` takes `ESC (` for complete (sub.rs:880), so a charset
  designation that is cut behind it shows its last byte as text; and a slice that
  begins inside a character has its first error there, which makes
  `from_utf8` hold nothing back at its other end (sub.rs:857-863). TLC shows
  both with the logs `MCCharset` and `MCBegin` of `MCPollers` as `Cases`. The
  answers are not affected: `ExpectIsTrue` and `FollowComplete` are true of
  every log.
* A detach between a client's count and its subscription is lost; a client that
  is connected and not yet counted when the worker stops waiting gets the code
  without the output.
* After a prune, `wait` without a timeout and `log --follow` never return.

The five runs that fail show disagreements between the code and its own
comments and tests:

1. `worker_respawn`: `?` in the restart branch (run.rs:249-250) leaves the
   session recorded as running, with its socket, though lines 135 and 180-182
   are at pains to avoid that elsewhere.
2. `worker_claim`: `ESRCH` counts as a delivered signal (pane.rs:548), so a
   request that came after the command's own exit is answered "killed", which
   control.rs:415-417 excludes.
3. `worker_permit`: `wait_for_pane_exit` takes the exit permit; when the kill is
   then refused the loop never sees the exit, although run.rs:518 promises not to
   lose a notification.
4. `hub_reopen`: after a failed write, a restart reopens the log and renumbers a
   backlog that holds older bytes (pane.rs:73-76), against pane.rs:65-67 and
   154.
5. `attach_view`: for a session that had already ended, `exit_rx.changed()` is
   ready at once, and a view command that has not answered yet is cut off,
   against control.rs:588-590 and 714-718.

### Bounds

| Bound | Value | Why it is enough |
|---|---|---|
| `MaxPanes` | 2 | old and new command of a restart; no step looks at more than two panes |
| `Killers`, `Restarters` | 2 and 1 (1 and 1 under fairness) | two kills race each other and a restart; requests are served one at a time |
| process kinds | every kind on the leader or the member in some run | the outcomes of a signal |
| `Sizes`, `MaxBytes` | {1, 2}, 5 | a chunk can straddle the start of the backlog and a cursor |
| `BacklogCap` | 2 (4 in `hub_reopen`) | smaller than the output, so it overflows |
| `Prior` | 1 (0 in `hub_reopen`) | a log that is not empty when it is opened |
| `MaxSpawns` | 2 in the hub runs, 1 remotely | a restart; what it does to offsets is `hub_reopen`'s question |
| `MaxCuts` | 2 | a loss while catching up after a loss |
| `Cases` | logs of 1 to 6 bytes | each kind of sequence, cut between any two bytes, before or after the mark |
| `Runs`, `Pruners`, `Flaggers`, ids | 2, 2, 1 and 2 | an id used twice, locally and from outside; one prune with one of a second prune (both runs are then given the same id), a flag, or a listing (one of the runs then has no id of its own choice) |
| `MaxEscape`, `MaxWithheld` | 4, 5 (128 and 1024 in the code) | sequences and repeats just below and above them |
| `Scripts` | 6 | both forms of the detach sequence, its releases, and what almost is one |
| `MaxChunks`, `MaxDetaches` | 2 and 1 without keys, 1 and 0 with keys | a backlog of more than one chunk; what is typed and what is shown do not meet |
| `MayFlood` | only without keys | output without end is one flag, not counted: it needs no more chunks |

Two kill connections are interchangeable, and symmetry is used for them in
`worker_faults`, which checks no liveness property. Deadlock checking is off in
the hub runs (clients and output are bounded), in `store_files` (users may stop
at any time) and where finding 3 stops the
worker (`worker_faults`, `worker_permit`); elsewhere it is on, with explicit
stuttering in the states in which everything is over.

### Fairness

`Worker!Fairness`: the worker, its wait threads and its connection tasks are
scheduled (tokio and the kernel do that, and every await is bounded or on
something a fair action provides); a process with a fatal signal pending dies.
The command owes nothing: it may run for ever, and no property relies on the
client timeout of 7 s. `RemoteAttach!FairSpec`: the worker serves its
connections and leaves within its 2 s bound, a bridge can be started again, the
terminal reads; the user and the network owe nothing. Losses are finite
(`MaxCuts`): with a network that fails for ever no attach could end.
`Pollers!FairSpec` asks only that a poller goes on; `AttachServer!FairSpec` that
the connection task, the end of the worker and the reading half of the client are
scheduled. No specification asks anything of the command, of a view command or of
other users. One property does: `DetachHeard` has as its hypothesis that output
which comes faster than it is sent comes to a pause.

## Proofs

`WorkerProofs` proves for all values of the constants, from
`ConstantsAssumption` alone (at least one pane, kill and restart connections
are different, the sets of kinds are not empty, the switches are Boolean):

| Theorem | |
|---|---|
| `TypeCorrect` | `Spec => []TypeOK` |
| `Invariance` | `Spec => []IInv` |
| `OneCommandAtATime`, `ConfirmedKills`, `LoopIsConsistent` | `[]OneCommand`, `[]KillConfirmed`, `[]LoopAgrees` |
| `TerminalStays` | `Spec => TerminalIsFinal` |
| `ExitsAreKnown`, `ExitIsTold` | `[](IInv /\ ExitInv /\ SaidInv)`, `[]ExitTold` |
| `RecordedEndIsTrue` | `[]EndIsTrue`, if no spawn fails after its command was started |
| `KillsAreDelivered` | `[]KillDelivered`, if `~SlowClient` |
| `NoSessionIsStale` | `[]NoStaleSession`, if `Sound`: no spawn, socket, write or signal fails |
| `ImplementsLifecycle` | `Spec => LifecycleSpec`, the refinement |

None of the invariants is inductive by itself. `IInv` conjoins with the types:

* `PanesInOrder`: panes are started in order and all but the current one are
  empty. `OneCommand` follows; it needs to know that a restart reaches `respawn`
  only with an empty group.
* `Confirmed`: at the places of the worker behind a confirmed termination, the
  group of the pane is empty. This is what `terminate_pane` returns to
  its callers.
* `KillRecorded`: a positive reply is preceded by the killed record, and
  nothing that follows writes another or starts a process. `KillConfirmed` is a
  part of it.
* `ExitKnown`: what the wait thread has stored goes with a reaped leader and
  with the exit info in the worker's hand.
* `StatusInStep`: which status is on disk at each place of the worker, and which
  pane connections see. `LoopAgrees` and the refinement rest on it.
* `SetUp`: which places and flags are possible before the loop and after it.

There is a lemma per conjunct for "every step preserves it", with a case per
action that can disturb it. The refinement maps `command` to the pid in the
status file and `over` to "the wait thread of that pane has stored its exit";
`QuietSteps` collects the actions that map to a stutter.

What is true of the end of a session needs more than `IInv`, and part of it needs
that something does not fail. The hypotheses are among those of `worker_sound`,
and each theorem has only what it cannot do without:

* `ExitInv`: a stored exit is that of a child that has been reaped, and from the
  end of a termination on the exit in the worker's hand is the stored one. With it
  a recorded end is the truth (`EndIsTrue`). A spawn that fails late leaves a
  live command behind a recorded failure, which is why that theorem excludes it.
* `SaidInv`: what is announced is on disk and is not taken back. `ExitTold` is a
  part of it and holds whatever fails.
* `HeardInv`: a client that was told "killed" has its answer before the worker
  leaves `flush`, and no connection is broken before the process is gone. The
  2 s of that place are the hypothesis.
* `ReturnInv`: the worker returns only with a terminal status and without its
  socket. In a sound environment it never gives up, and terminates nothing while
  it is being set up.

`OutputHubProofs` does the same for the hub, from `HubAssumption`: chunk sizes,
capacity and the number of commands are positive, the log of a former worker is
within the bound on bytes, and a client is of one kind only.

| Theorem | |
|---|---|
| `HubTypeCorrect` | `HubSpec => []HubTypeOK` |
| `HubInvariance` | `HubSpec => []HubInv` |
| `StreamHasNoGap`, `PromisedRangeIsThere`, `StampsAreAboutTheLog` | `[]LegacyStream`, `[]ReplayableRange`, `[]StampsAreTrue` |

`HubInv` adds to the types and the three properties: the backlog holds produced
bytes only (`BacklogFits`, so that a snapshot ends with the last byte produced);
the log of a started hub is open and ends at the next offset, or its error is
known (`LogInStep`, without which a resumable client could be promised bytes
that a failed write has lost, or a row be stamped twice); only a registered
client is sent anything (`OnlyLiveAreSent`, so that its stream starts with the
snapshot). `LogInStep` also shows what goes wrong in `hub_reopen`: a restart
makes it true again by moving the offset, and nothing moves the backlog.

`RemoteAttachProofs` extends both modules. Its theorems assume

    OpenedOnce == MaxSpawns = 1 \/ ~LogMayFail

besides the assumptions of the modules: the log is not opened again, or does
not fail. A log that is reopened after a failed write is numbered anew, and then
offsets are wrong; that is finding 4, and `hub_reopen` shows it. For any
number of bytes, chunks, losses and reconnections:

| Theorem | |
|---|---|
| `RemoteInvariance` | `Spec => []RemoteInv` |
| `RemoteTypes` | `[]TypeOK` |
| `EveryByteOnce`, `CursorIsExact` | `[]ShownOnce`, `[]CursorIsTrue` |
| `ExitAfterOutput` | `[]ExitIsComplete` |
| `OffsetsAreExact` | `[]OffsetsAreTrue`, which `hub_reopen` refutes without the assumption |

`RemoteInv` follows a byte from the hub to the display:

* `HubInStep`: under `OpenedOnce` the number of a byte is its offset, in the log,
  the backlog and the chunks that are sent.
* `Connection`: which places of the worker's side and of the terminal go
  together, and that nothing is on a link without a connection.
* `Delivery`: the frames on the link continue the display at the cursor,
  without gap or overlap (`Continues`).
* `Service`: what the worker sends next, from the log or its inbox (`Queued`),
  goes on (`GoesOnAt`) where the last frame on the link ends (`Front`).
* `Display`: what is shown is a run of bytes that ends at the cursor.
* `Ending`: an exit frame comes after a display that is complete (`Told`,
  `Complete`), also the one of the bridge that reads the files. At *quiet* with an
  exit that was announced before the poll of the output, everything is sent;
  announced after it, the connection is `racing` and nothing is claimed.

There is a lemma for each action. After a loss the cursor may be far behind what
the worker has sent; `AcceptStep` shows that the range it is then promised, read
from the log, and the chunks that follow go on from the cursor.

`SessionStoreProofs` and `PruneProofs` are about `SessionStore`, from
`StoreAssumption`: the remote runs are some of the runs, what is given as `--id`
is an id, and the markers are none of the runs and ids.

| Theorem | |
|---|---|
| `StoreTypes`, `StoreInvariant` | `Spec => []StoreTypeOK`, `Spec => []StoreInv` |
| `SocketIsKept`, `UserIsToldTheTruth`, `RowsAreTrue` | `[]SocketKept`, `[]ToldIsTrue`, `[]RowIsTrue` |
| `PruneInvariant` | `Spec => []PruneInv` |
| `PruneIsComplete`, `LiveAreSpared` | `[]PruneComplete`, `LiveSpared` |

`StoreInv` says of every file of an id that a run with that id wrote it
(`FilesHaveOwners`), of what a prune is about to remove that some worker of that
id has ended (`PrunesJudged`), of a generated id that nobody else comes to use it
(`GeneratedIsUnique`, which is why an answer to it confirms the run that was asked
for), of an end next to its meta that it stays (`EndIsKept`), and what a
listing knows at each of its reads (`ListingInStep`). Its preservation is proved
from `StoreMoves`, which says how a run, a meta, a status and a socket may move in
any step; `AllMoves` shows it once for all the actions, and the lemmas about the
conjuncts need no action that does not concern them.

`PruneInv` adds what is known of an id that was never shared: of two runs that
had it, one has gone and owns no file of it (`Apart`), so a recorded end next to
a meta is the end of that meta's run. From it a prune still has to do with all it
owes (`OwedRemain`), and what the only prune has looked at is as it was
(`TargetsStand`). A second prune breaks the latter, as "What these properties do
not claim" says.

`AttachServerProofs` is about a local attach, from `AttachAssumption` and
`FilterAssumption` alone: for every sequence of tokens, every pair of limits, and
every amount of output.

| Theorem | |
|---|---|
| `AttachInvariant`, `AttachTypes` | `[]AttachInv`, `[]AttachTypeOK` |
| `ExitIsWhole`, `ClientIsToldTheTruth` | `[]ExitWhole`, `[]ClientTruth` |
| `InputIsExact` | `[]InputExact` |

`AttachInv` has two parts that do not meet. `HandlerInv` and `ToldInv` follow
the output and the end: what each place of `handle_attach` has seen (behind a poll
of the output, all of what was due has been sent, or the exit is not announced, or
it is a race), and that an answer of the client is the last frame it was sent. `InputInv` follows the keys:
what the command has, what is on the wire and what the filter holds, in this
order, are what was typed. It rests on lemmas about the filter: it neither
loses, invents nor exchanges a key (`Given` grows by the one that was fed), and
all that it withholds is one press of the detach key followed by its releases
(`Pressed`), so that nothing else is discarded when the second press comes.
`Push` is a fold; that it keeps `FilterInv` is by induction over the chunk.

`PollersProofs` is about `LogText` and `Pollers`, from `PollersAssumption`: for
every log, every list of capture times and every moment of the end.

| Theorem | |
|---|---|
| `PollInvariant`, `PollersTypes` | `[]PollInv`, `[]TypeOK` |
| `WaitIsTold` | `Spec => WaitIsTrue` |
| `ExpectIsTold`, `FollowIsComplete` | `[]ExpectIsTrue`, `[]FollowComplete` |
| `RowsAreExact` | `[]RowsAreTrue` |
| `SlicesAreExact` | `[](Sliceable => SliceExact)` |

The first half is about the pure part. The automaton `Visible` reads one byte
after the other, so that what it shows of a log is what it shows of a part and,
from the state it is in, of the rest. Where a safe prefix ends it is in the
ground state between two characters (`Boundary`), if the log is `WellFormed`;
therefore slices add up to one reading. The second half is the invariant:
`PlaceInv` (a poller that reads the tail, or has counted a quiet poll, has seen
the end), `ExpectInv` (nothing matched up to where the reader is), `FollowInv` (a
follower that found nothing once after the end was recorded has nothing to find),
`WaitInv`, `SliceInv`. `WaitIsTrue` is about two moments, one after the end and
any later one: `Waits` is true from the first one on, kept by every step
(`WaitsStep`), and implies what is told at the second. `Sliceable` is a well-formed log and a start behind a whole
character; see "What these properties do not claim".

`Recursion` has what these two need. The theorems on induction of the library
have an operator as parameter, which the installed provers cannot instantiate.
Stated of a set (`NatSetInduction`: a set that holds 0 and the successor of each
of its members holds every number) induction is proved from the well-foundedness
of `<`, and then used with the set of the lengths for which a lemma holds.
`Iteration` shows that a function exists that satisfies a recursive equation;
without that nothing follows from its definition.

Every safety property of a run that passes is stated by a theorem. Model-checked only are the liveness properties (`ExitRecorded`,
`KillAnswered`, `DetachHeard`, `PollersEnd` and `AttachEnds` of both attaches):
fairness and ENABLED are beyond the prover, and their runs are the evidence, for
the bounds above. The properties of the runs that fail are refuted by a trace.

## Not modelled

* Other processes of a group beyond one, and their forking.
* Terminal sizes, rendering and resizing; several attached terminals at once
  (they share only the counter, the detach generation and the pane).
* `--idle-timeout` as time: in `Worker` any moment may be idle.
* Typed input over a remote attach, protocol 0, and a remote session that is
  pruned while attached.
* `last_n_lines`, `grep_filter`, `last_visible_line`, key names, durations, sizes
  and the host arguments: functions of their input without state; a test of one
  says as much as a model.
* The proxy of other commands over SSH, the command line, completions, the
  library surface and the upgrade: they pass arguments on.

## Plan

1. `SessionLifecycle`, `Worker`, `WorkerProofs` - done.
2. `OutputHub`, `OutputHubProofs` - done.
3. `RemoteAttach`, `DetachFilter`, `AttachServer` - done but for typed input over
   a remote connection.
4. `LogText`, `Pollers` - done.
5. `SessionStore`, with remote runs - done.
6. `SessionStoreProofs`, `PruneProofs` - done.
7. `AttachServerProofs`, `Recursion`, `PollersProofs` - done.
8. The end of a session in `WorkerProofs`; `RemoteAttachProofs` - done.
9. Left: the hub as an abstract byte stream for each client, with the refinement
   proved; typed input over a remote connection, and a session that is pruned
   while it is attached remotely; what remains true of the display when a log is
   reopened after a failed write.
