---------------------------- MODULE SessionStore ----------------------------
(***************************************************************************)
(* The state root: one directory per session, found by its id, and one     *)
(* control socket per id.  Nobody locks anything.  Front ends choose an id *)
(* and start a worker (run.rs, session.rs), workers record their session   *)
(* and remove their socket by its name (run.rs, control.rs), prune removes *)
(* what is over, flag leaves notes, ls reads it all (sub.rs), and a run on *)
(* another host is asked for over a connection that may fail (main.rs,     *)
(* remote.rs).  What a worker does with its command is in Worker.          *)
(***************************************************************************)
EXTENDS Integers, FiniteSets

CONSTANTS
    Runs,           \* invocations of babysit run; each has at most one worker
    Remote,         \* those that are asked for over ssh
    Pruners,        \* invocations of babysit prune
    Flaggers,       \* invocations of babysit flag and babysit unflag
    Ids,
    ShortIds,       \* the ids new_unique_id tries; remote runs generate longer ones
    NoId,           \* no --id was given
    Wanted,         \* what the runs may be given as --id: a set of [Runs -> ...]
    None

ASSUME StoreAssumption ==
    /\ Remote \subseteq Runs /\ ShortIds \subseteq Ids
    /\ NoId \notin Ids /\ None \notin Runs \cup Ids \cup {"torn"} /\ "torn" \notin Runs
    /\ Wanted \subseteq [Runs -> Ids \cup {NoId}]

VARIABLES
    \* The files of each id.
    dir,        \* its directory exists
    meta,       \* meta.json: None, "torn" while it is written, or the run it names
    status,     \* status.json: a state and, as history, who wrote it
    note,       \* it has a note
    sock,       \* the worker that listens at the name of its socket
    \* Each run.
    wanted,     \* --id
    idOf,       \* the id it uses
    front,      \* the process that chooses the id
    worker,     \* the detached process
    told,       \* what the user of a remote run knows
    \* The other processes.
    prune,      \* where each prune is
    flag,       \* where each flag is
    ls,         \* where a listing is, and the row it makes
    \* History.
    shared,     \* ids that two runs were given
    cut         \* remote runs that are called failed because of a signal

files  == <<dir, meta, status, note, sock>>
runs   == <<wanted, idOf, front, worker, told>>
users  == <<prune, flag, ls>>
vars   == <<files, runs, users, shared, cut>>

NoStatus == [state |-> "none", by |-> None]
Written == {"starting", "running", "ended"}
Pruning == [at : {"off", "idle", "meta", "status", "judge", "rmdir", "socket", "done"},
            todo : SUBSET Ids, targets : SUBSET (Ids \X Runs), id : Ids \cup {None},
            owner : Runs \cup {None}, state : Written \cup {"none"},
            owed : SUBSET (Ids \X Runs)]
Row == [at : {"off", "idle", "status", "label", "done"}, id : Ids \cup {None},
        owner : Runs \cup {None}, state : Written \cup {"none"}, alive : BOOLEAN,
        over : SUBSET Runs]

StoreTypeOK ==
    /\ dir \in [Ids -> BOOLEAN] /\ note \in [Ids -> BOOLEAN]
    /\ meta \in [Ids -> Runs \cup {None, "torn"}]
    /\ status \in [Ids -> [state : Written \cup {"none"}, by : Runs \cup {None}]]
    /\ sock \in [Ids -> Runs \cup {None}]
    /\ wanted \in Wanted /\ idOf \in [Runs -> Ids \cup {None}]
    /\ front \in [Runs -> {"away", "idle", "checked", "done", "failed"}]
    /\ worker \in [Runs -> {"none", "boot", "named", "recorded", "starting", "running",
                            "serving", "linger", "gone"}]
    /\ told \in [Runs -> {"nothing", "asked", "confirm", "created", "failed", "unknown"}]
    /\ prune \in [Pruners -> Pruning]
    /\ flag \in [Flaggers -> [at : {"off", "idle", "resolved", "done"}, id : Ids \cup {None}]]
    /\ ls \in Row
    /\ shared \subseteq Ids /\ cut \subseteq Remote
    \* Nothing is in a directory that is not there.
    /\ \A i \in Ids : ~dir[i] => meta[i] = None /\ status[i] = NoStatus /\ ~note[i]

Init ==
    /\ dir = [i \in Ids |-> FALSE] /\ note = [i \in Ids |-> FALSE]
    /\ meta = [i \in Ids |-> None] /\ status = [i \in Ids |-> NoStatus]
    /\ sock = [i \in Ids |-> None]
    /\ wanted \in Wanted
    /\ idOf = [r \in Runs |-> None]
    /\ front = [r \in Runs |-> IF r \in Remote THEN "away" ELSE "idle"]
    /\ worker = [r \in Runs |-> "none"]
    /\ told = [r \in Runs |-> "nothing"]
    \* Some of the other commands are never given.
    /\ prune \in [Pruners -> [at : {"off", "idle"}, todo : {{}}, targets : {{}}, id : {None},
                              owner : {None}, state : {"none"}, owed : {{}}]]
    /\ flag \in [Flaggers -> [at : {"off", "idle"}, id : {None}]]
    /\ ls \in [at : {"off", "idle"}, id : {None}, owner : {None}, state : {"none"},
               alive : {FALSE}, over : {{}}]
    /\ shared = {} /\ cut = {}

-----------------------------------------------------------------------------
\* is_pid_alive, of the pid a run has recorded; no other process has the pid.
PidAlive(r) == worker[r] \notin {"none", "gone"}

\* A worker that has named its session and has not recorded its end.
Live(r) == worker[r] \in {"recorded", "starting", "running", "serving"}
Serving(r) == worker[r] = "serving"

\* read_meta fails on a file that is not there or not complete.
HasMeta(i) == meta[i] \in Runs
Over(i) == status[i].state = "ended" \/ (HasMeta(i) /\ ~PidAlive(meta[i]))

-----------------------------------------------------------------------------
(***************************************************************************)
(* A run: the id is checked, then given to a worker that creates the       *)
(* directory.                                                              *)
(***************************************************************************)

\* make_id: an explicit id must be free.
TakeWanted(r) ==
    /\ front[r] = "idle" /\ wanted[r] # NoId
    /\ front' = [front EXCEPT ![r] = IF dir[wanted[r]] THEN "failed" ELSE "checked"]
    /\ idOf' = [idOf EXCEPT ![r] = wanted[r]]
    /\ UNCHANGED <<files, wanted, worker, told, users, shared, cut>>

\* new_unique_id: an id that is free, or any when none is.
TakeShort(r) ==
    /\ front[r] = "idle" /\ wanted[r] = NoId /\ r \notin Remote
    /\ \E i \in ShortIds :
        /\ ~dir[i] \/ \A j \in ShortIds : dir[j]
        /\ idOf' = [idOf EXCEPT ![r] = i]
    /\ front' = [front EXCEPT ![r] = "checked"]
    /\ UNCHANGED <<files, wanted, worker, told, users, shared, cut>>

\* The request of a remote run names its id, so the remote front end has one.
TakeGiven(r) ==
    /\ front[r] = "idle" /\ wanted[r] = NoId /\ r \in Remote
    /\ front' = [front EXCEPT ![r] = IF dir[idOf[r]] THEN "failed" ELSE "checked"]
    /\ UNCHANGED <<files, wanted, idOf, worker, told, users, shared, cut>>

Uses(r, i) == idOf[r] = i /\ worker[r] \notin {"none", "linger", "gone"}

\* spawn_worker_process.
SpawnWorker(r) ==
    /\ front[r] = "checked"
    /\ \/ /\ front' = [front EXCEPT ![r] = "done"]
          /\ worker' = [worker EXCEPT ![r] = "boot"]
          /\ shared' = IF dir[idOf[r]] \/ \E q \in Runs : Uses(q, idOf[r])
                       THEN shared \cup {idOf[r]} ELSE shared
       \/ front' = [front EXCEPT ![r] = "failed"] /\ UNCHANGED <<worker, shared>>
    /\ UNCHANGED <<files, wanted, idOf, told, users, cut>>

-----------------------------------------------------------------------------
(***************************************************************************)
(* The worker, as far as it touches the store.                             *)
(***************************************************************************)

Step(r, from, to) ==
    /\ worker[r] = from
    /\ worker' = [worker EXCEPT ![r] = to]
    /\ UNCHANGED <<wanted, idOf, front, told, users, shared, cut>>

\* write_meta_json: the directory, then a file that is empty at first.
OpenMeta(r) ==
    /\ Step(r, "boot", "named")
    /\ dir' = [dir EXCEPT ![idOf[r]] = TRUE]
    /\ meta' = [meta EXCEPT ![idOf[r]] = "torn"]
    /\ UNCHANGED <<status, note, sock>>

WriteMeta(r) ==
    /\ Step(r, "named", "recorded")
    /\ meta' = [meta EXCEPT ![idOf[r]] = IF @ = None THEN None ELSE r]
    /\ UNCHANGED <<dir, status, note, sock>>

\* write_status fails, and ends the worker, when the directory is gone.
Record(r, from, state, to) ==
    LET i == idOf[r] IN
    /\ Step(r, from, IF dir[i] THEN to ELSE "gone")
    /\ status' = [status EXCEPT ![i] = IF dir[i] THEN [state |-> state, by |-> r] ELSE @]
    /\ UNCHANGED <<dir, meta, note, sock>>

WriteStarting(r) == Record(r, "recorded", "starting", "starting")
WriteRunning(r) == Record(r, "starting", "running", "running")

\* The command could not be started, or the socket not be bound.
SetupFails(r) == \E s \in {"starting", "running"} : Record(r, s, "ended", "gone")

\* serve: whatever is at the name of the socket is replaced.
Serve(r) ==
    /\ Step(r, "running", "serving")
    /\ sock' = [sock EXCEPT ![idOf[r]] = r]
    /\ UNCHANGED <<dir, meta, status, note>>

RecordEnd(r) == Record(r, "serving", "ended", "linger")

\* control::cleanup, after the clients were waited for: by name.
Cleanup(r) ==
    /\ Step(r, "linger", "gone")
    /\ sock' = [sock EXCEPT ![idOf[r]] = None]
    /\ UNCHANGED <<dir, meta, status, note>>

\* A worker that is killed leaves everything as it is; nobody answers at its
\* socket any more.
Crash(r) ==
    /\ PidAlive(r)
    /\ worker' = [worker EXCEPT ![r] = "gone"]
    /\ sock' = [i \in Ids |-> IF sock[i] = r THEN None ELSE sock[i]]
    /\ UNCHANGED <<dir, meta, status, note, wanted, idOf, front, told, users, shared, cut>>

-----------------------------------------------------------------------------
(***************************************************************************)
(* prune looks at every id, one file at a time, then removes what it found.*)
(***************************************************************************)

PruneMoves(p, at) ==
    /\ prune[p].at = at
    /\ UNCHANGED <<runs, flag, ls, shared, cut>>

PruneList(p) ==
    /\ PruneMoves(p, "idle")
    /\ prune' = [prune EXCEPT ![p] = [@ EXCEPT !.at = "meta", !.todo = {i \in Ids : dir[i]},
                    !.owed = {<<i, meta[i]>> : i \in {j \in Ids : HasMeta(j) /\ Over(j)}}]]
    /\ UNCHANGED files

PruneMeta(p) ==
    /\ PruneMoves(p, "meta")
    /\ \E i \in prune[p].todo :
        prune' = [prune EXCEPT ![p] = [@ EXCEPT !.todo = prune[p].todo \ {i},
                    !.at = IF HasMeta(i) THEN "status" ELSE "meta",
                    !.id = IF HasMeta(i) THEN i ELSE None,
                    !.owner = IF HasMeta(i) THEN meta[i] ELSE None]]
    /\ UNCHANGED files

PruneStatus(p) ==
    /\ PruneMoves(p, "status")
    /\ prune' = [prune EXCEPT ![p] = [@ EXCEPT !.at = "judge",
                    !.state = status[prune[p].id].state]]
    /\ UNCHANGED files

\* Mutant: a session without a status is an orphan.
Doomed_Orphan(state, alive) == state \in {"ended", "none"} \/ ~alive

\* Mutant: a session that has not got beyond its start is no loss.
Doomed_Starting(state, alive) == state \in {"ended", "starting"} \/ ~alive

\* Mutant: a worker that died before its command ran is forgotten.
Doomed_NotStarting(state, alive) ==
    state = "ended" \/ (state \in {"running", "none"} /\ ~alive)

\* should_delete: it is over, or its owner has died.
Doomed(state, alive) == state = "ended" \/ ~alive

PruneJudge(p) ==
    /\ PruneMoves(p, "judge")
    /\ prune' = [prune EXCEPT ![p] = [@ EXCEPT !.at = "meta", !.id = None, !.owner = None,
                    !.state = "none",
                    !.targets = IF Doomed(prune[p].state, PidAlive(prune[p].owner))
                                   THEN prune[p].targets \cup {<<prune[p].id, prune[p].owner>>}
                                ELSE prune[p].targets]]
    /\ UNCHANGED files

\* remove_dir_all empties the directory, then removes it.
PruneFiles(p) ==
    /\ PruneMoves(p, "meta") /\ prune[p].todo = {}
    /\ \E t \in prune[p].targets :
        /\ prune' = [prune EXCEPT ![p] = [@ EXCEPT !.targets = prune[p].targets \ {t},
                        !.id = t[1], !.owner = t[2], !.at = IF dir[t[1]] THEN "rmdir" ELSE "meta"]]
        /\ meta' = [meta EXCEPT ![t[1]] = None]
        /\ status' = [status EXCEPT ![t[1]] = NoStatus]
        /\ note' = [note EXCEPT ![t[1]] = FALSE]
    /\ UNCHANGED <<dir, sock>>

\* It fails when something was put into it meanwhile, and the socket stays.
PruneDir(p) ==
    LET i == prune[p].id
        empty == meta[i] = None /\ status[i] = NoStatus /\ ~note[i] IN
    /\ PruneMoves(p, "rmdir")
    /\ prune' = [prune EXCEPT ![p] = [@ EXCEPT
                    !.at = IF dir[i] /\ empty THEN "socket" ELSE "meta"]]
    /\ dir' = [dir EXCEPT ![i] = @ /\ ~empty]
    /\ UNCHANGED <<meta, status, note, sock>>

PruneSocket(p) ==
    /\ PruneMoves(p, "socket")
    /\ prune' = [prune EXCEPT ![p] = [@ EXCEPT !.at = "meta"]]
    /\ sock' = [sock EXCEPT ![prune[p].id] = None]
    /\ UNCHANGED <<dir, meta, status, note>>

PruneEnds(p) ==
    /\ PruneMoves(p, "meta")
    /\ prune[p].todo = {} /\ prune[p].targets = {}
    /\ prune' = [prune EXCEPT ![p] = [@ EXCEPT !.at = "done"]]
    /\ UNCHANGED files

-----------------------------------------------------------------------------
(***************************************************************************)
(* flag and unflag: the session is looked up, then the note written.       *)
(***************************************************************************)

Resolve(f) ==
    /\ flag[f].at = "idle"
    /\ \E i \in Ids :
        flag' = [flag EXCEPT ![f] = [at |-> IF dir[i] THEN "resolved" ELSE "done", id |-> i]]
    /\ UNCHANGED <<files, runs, prune, ls, shared, cut>>

\* Mutant: the directory is taken to be there still.
WriteNote_NoDir(f) ==
    /\ flag[f].at = "resolved"
    /\ flag' = [flag EXCEPT ![f].at = "done"]
    /\ \E b \in BOOLEAN : note' = [note EXCEPT ![flag[f].id] = b]
    /\ UNCHANGED <<dir, meta, status, sock, runs, prune, ls, shared, cut>>

\* write_note creates the directory when it is gone; clear_note needs nothing.
WriteNote(f) ==
    LET i == flag[f].id IN
    /\ flag[f].at = "resolved"
    /\ flag' = [flag EXCEPT ![f].at = "done"]
    /\ \/ dir' = [dir EXCEPT ![i] = TRUE] /\ note' = [note EXCEPT ![i] = TRUE]
       \/ note' = [note EXCEPT ![i] = FALSE] /\ UNCHANGED dir
    /\ UNCHANGED <<meta, status, sock, runs, prune, ls, shared, cut>>

-----------------------------------------------------------------------------
(***************************************************************************)
(* ls: the row of one id.                                                  *)
(***************************************************************************)

LsMeta ==
    /\ ls.at = "idle"
    /\ \E i \in Ids :
        /\ HasMeta(i)
        /\ ls' = [ls EXCEPT !.at = "status", !.id = i, !.owner = meta[i],
                    !.over = {r \in Runs : worker[r] \in {"linger", "gone"}}]
    /\ UNCHANGED <<files, runs, prune, flag, shared, cut>>

\* A status that cannot be read counts as starting.
LsStatus ==
    /\ ls.at = "status"
    /\ ls' = [ls EXCEPT !.at = "label",
                !.state = IF status[ls.id].state = "none" THEN "starting"
                          ELSE status[ls.id].state]
    /\ UNCHANGED <<files, runs, prune, flag, shared, cut>>

\* Mutant: a process that exists is a session that lives.
LsLabel_Pid ==
    /\ ls.at = "label"
    /\ ls' = [ls EXCEPT !.at = "done", !.alive = PidAlive(ls.owner)]
    /\ UNCHANGED <<files, runs, prune, flag, shared, cut>>

\* is_owner_alive and state_label_for.
LsLabel ==
    /\ ls.at = "label"
    /\ ls' = [ls EXCEPT !.at = "done", !.alive = ls.state # "ended" /\ PidAlive(ls.owner)]
    /\ UNCHANGED <<files, runs, prune, flag, shared, cut>>

-----------------------------------------------------------------------------
(***************************************************************************)
(* A run on another host.  The request may arrive late or never, and its   *)
(* answer may be lost.                                                     *)
(***************************************************************************)

Tell(r, from, what) == told[r] = from /\ told' = [told EXCEPT ![r] = what]

\* The id is generated here when none was given.
RemoteAsk(r) ==
    /\ r \in Remote
    /\ Tell(r, "nothing", "asked")
    /\ \/ wanted[r] # NoId /\ UNCHANGED idOf
       \/ /\ wanted[r] = NoId
          /\ \E i \in Ids \ ShortIds :
                /\ \A q \in Runs : wanted[q] # i /\ idOf[q] # i
                /\ idOf' = [idOf EXCEPT ![r] = i]
    /\ UNCHANGED <<files, wanted, front, worker, users, shared, cut>>

RemoteArrives(r) ==
    /\ front[r] = "away" /\ told[r] # "nothing"
    /\ front' = [front EXCEPT ![r] = "idle"]
    /\ UNCHANGED <<files, wanted, idOf, worker, told, users, shared, cut>>

\* The remote front end has ended with success or an error of its own.
RemoteAnswer(r) ==
    /\ \/ front[r] = "done" /\ Tell(r, "asked", "created")
       \/ front[r] = "failed" /\ Tell(r, "asked", "failed")
    /\ UNCHANGED <<files, wanted, idOf, front, worker, users, shared, cut>>

\* ssh ends by a signal and has no exit code, or the remote front end does and
\* the shell reports 128 + n: that is no success and not 255, so it is called
\* failed, wherever the remote front end is.
RemoteCut(r) ==
    /\ r \in Remote
    /\ Tell(r, "asked", "failed")
    /\ cut' = cut \cup {r}
    /\ UNCHANGED <<files, wanted, idOf, front, worker, users, shared>>

\* Mutant: any id that exists afterwards is taken for the new session.
RemoteLost_Any(r) ==
    /\ Tell(r, "asked", "confirm")
    /\ UNCHANGED <<files, wanted, idOf, front, worker, users, shared, cut>>

\* ssh reports 255: only an id that was made up here can be asked about.
RemoteLost(r) ==
    /\ Tell(r, "asked", IF wanted[r] = NoId THEN "confirm" ELSE "unknown")
    /\ UNCHANGED <<files, wanted, idOf, front, worker, users, shared, cut>>

\* 20 s have passed.
RemoteTimeout(r) ==
    /\ Tell(r, "asked", "unknown")
    /\ UNCHANGED <<files, wanted, idOf, front, worker, users, shared, cut>>

\* confirm_session: status answers for an id with a worker or a status file.
IdAsked(r) == IF wanted[r] = NoId THEN idOf[r] ELSE wanted[r]
RemoteConfirm(r) ==
    /\ \/ /\ Tell(r, "confirm", "created")
          /\ dir[IdAsked(r)]
          /\ sock[IdAsked(r)] # None \/ status[IdAsked(r)] # NoStatus
       \/ Tell(r, "confirm", "unknown")
    /\ UNCHANGED <<files, wanted, idOf, front, worker, users, shared, cut>>

-----------------------------------------------------------------------------
Front(r) == TakeWanted(r) \/ TakeShort(r) \/ TakeGiven(r) \/ SpawnWorker(r)
WorkerStep(r) ==
    \/ OpenMeta(r) \/ WriteMeta(r) \/ WriteStarting(r) \/ WriteRunning(r)
    \/ SetupFails(r) \/ Serve(r) \/ RecordEnd(r) \/ Cleanup(r) \/ Crash(r)
Prune(p) ==
    \/ PruneList(p) \/ PruneMeta(p) \/ PruneStatus(p) \/ PruneJudge(p)
    \/ PruneFiles(p) \/ PruneDir(p) \/ PruneSocket(p) \/ PruneEnds(p)
Flag(f) == Resolve(f) \/ WriteNote(f)
Ls == LsMeta \/ LsStatus \/ LsLabel
RemoteRun(r) ==
    \/ RemoteAsk(r) \/ RemoteArrives(r) \/ RemoteAnswer(r) \/ RemoteCut(r)
    \/ RemoteLost(r) \/ RemoteTimeout(r) \/ RemoteConfirm(r)

Next ==
    \/ \E r \in Runs : Front(r) \/ WorkerStep(r) \/ RemoteRun(r)
    \/ \E p \in Pruners : Prune(p)
    \/ \E f \in Flaggers : Flag(f)
    \/ Ls

Spec == Init /\ [][Next]_vars

-----------------------------------------------------------------------------
\* No other worker has ever used the id of this one.
SoleUser(r) == \A q \in Runs \ {r} : idOf[q] = idOf[r] => worker[q] = "none"

\* prune does not empty the directory of a live session, whatever happens
\* between its looks at it; what it may meet is an id that two runs were given
\* at once, or that another prune has freed since (sub.rs, prune).
LiveSpared ==
    [][\A p \in Pruners, i \in Ids :
        /\ prune[p].at = "meta" /\ prune'[p].at = "rmdir" /\ prune'[p].id = i
        /\ HasMeta(i) /\ Live(meta[i])
        => i \in shared \/ \E q \in Pruners \ {p} : prune[q].at \notin {"off", "idle"}]_vars

\* A prune that has ended has left no session that was over when it began,
\* however early its worker died (sub.rs, prune).
PruneComplete ==
    \A p \in Pruners : prune[p].at = "done" =>
        \A t \in prune[p].owed : t[1] \in shared \/ meta[t[1]] # t[2]

\* A worker that serves can be reached by the name of its session, as long as
\* nobody else has used the name (control.rs, serve and cleanup; sub.rs, prune).
SocketKept == \A r \in Runs : Serving(r) /\ SoleUser(r) => sock[idOf[r]] = r

\* What the user of a remote run is told is true: a session reported as created
\* is the one this run has started, and one reported as failed was not and will
\* not be started, unless a signal ended ssh or the remote front end: then
\* failed is told of a session that may live (main.rs, Run with --host).
ToldIsTrue ==
    \A r \in Remote :
        /\ told[r] = "created" => worker[r] # "none"
        /\ told[r] = "failed" /\ r \notin cut => worker[r] = "none"

\* ls calls a session dead only when its worker is gone, and alive only when it
\* had not ended before, unless it was pruned or replaced meanwhile (sub.rs,
\* list; session.rs, is_owner_alive).
RowIsTrue ==
    ls.at = "done" =>
        /\ ls.state # "ended" /\ ~ls.alive => ~PidAlive(ls.owner)
        /\ ls.alive /\ meta[ls.id] = ls.owner /\ SoleUser(ls.owner) =>
            ls.owner \notin ls.over
=============================================================================
