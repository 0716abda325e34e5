------------------------- MODULE SessionStoreProofs -------------------------
(***************************************************************************)
(* What SessionStore guarantees for every number of runs, prunes, notes    *)
(* and ids: its type correctness, that the user of a remote run is told    *)
(* the truth, that a worker keeps its socket while nobody else uses its    *)
(* id, and that ls tells the dead from the living.  All of it follows from *)
(* one inductive invariant, StoreInv.                                      *)
(***************************************************************************)
EXTENDS SessionStore, TLAPS

Begun(r) == worker[r] # "none"
Done(r) == worker[r] \in {"linger", "gone"}

\* A run has a worker exactly when its front end has started one, and by then
\* it has an id.
RunsInStep ==
    \A r \in Runs :
        /\ front[r] = "done" <=> Begun(r)
        /\ front[r] \in {"checked", "done"} => idOf[r] \in Ids

\* Each file of an id was written by a run with that id.
FilesHaveOwners ==
    \A i \in Ids :
        /\ HasMeta(i) => idOf[meta[i]] = i /\ worker[meta[i]] \notin {"none", "boot", "named"}
        /\ status[i] # NoStatus =>
            status[i].by \in Runs /\ idOf[status[i].by] = i /\ Begun(status[i].by)
        /\ status[i].state = "ended" => status[i].by \in Runs /\ Done(status[i].by)
        /\ sock[i] # None => idOf[sock[i]] = i /\ Begun(sock[i])

\* What a prune is about to remove belongs to an id one of whose workers has
\* ended.
Ended(i) == \E q \in Runs : idOf[q] = i /\ Done(q)
PruneJudged(p) ==
    /\ prune[p].at \in {"status", "judge"} =>
        /\ prune[p].id \in Ids /\ prune[p].owner \in Runs
        /\ idOf[prune[p].owner] = prune[p].id /\ Begun(prune[p].owner)
    /\ prune[p].at = "judge" /\ prune[p].state = "ended" => Ended(prune[p].id)
    /\ prune[p].at \in {"rmdir", "socket"} => prune[p].id \in Ids /\ Ended(prune[p].id)
    /\ \A t \in prune[p].targets : t[1] \in Ids /\ Ended(t[1])
PrunesJudged == \A p \in Pruners : PruneJudged(p)

\* An id that was generated for a remote run is nobody else's.
Generated(r) == r \in Remote /\ wanted[r] = NoId /\ told[r] # "nothing"
GeneratedIsUnique ==
    \A r \in Runs : Generated(r) =>
        /\ idOf[r] \in Ids \ ShortIds
        /\ \A q \in Runs \ {r} : wanted[q] # idOf[r] /\ idOf[q] # idOf[r]

\* Where the user of a remote run is follows the run.
AskedInStep ==
    \A r \in Runs :
        /\ r \notin Remote => told[r] = "nothing" /\ front[r] # "away"
        /\ told[r] = "nothing" => front[r] = "away" \/ r \notin Remote
        /\ told[r] = "confirm" => wanted[r] = NoId
        /\ told[r] = "created" => Begun(r)
        /\ told[r] = "failed" /\ r \notin cut => front[r] = "failed"

\* A worker that lingers has recorded its end, and nobody has removed it
\* without its meta.
EndIsKept ==
    \A r \in Runs :
        worker[r] = "linger" /\ meta[idOf[r]] = r /\ SoleUser(r) =>
            status[idOf[r]].state = "ended"

\* What a listing has read so far.
ListingInStep ==
    /\ ls.at \in {"status", "label", "done"} =>
        /\ ls.id \in Ids /\ ls.owner \in Runs /\ idOf[ls.owner] = ls.id
        /\ worker[ls.owner] \notin {"none", "boot", "named"}
        /\ \A r \in ls.over : Done(r)
    /\ ls.at = "label" =>
        /\ ls.owner \in ls.over /\ meta[ls.id] = ls.owner /\ SoleUser(ls.owner) =>
            ls.state = "ended" \/ worker[ls.owner] = "gone"

StoreInv ==
    /\ StoreTypeOK /\ RunsInStep /\ FilesHaveOwners /\ PrunesJudged
    /\ GeneratedIsUnique /\ AskedInStep /\ EndIsKept /\ ListingInStep
    /\ SocketKept /\ RowIsTrue

-----------------------------------------------------------------------------
(***************************************************************************)
(* Type correctness.                                                       *)
(***************************************************************************)

\* An id that a run may be given is one, unless it is chosen here.
LEMMA WantedIds ==
  ASSUME StoreTypeOK, NEW r \in Runs, wanted[r] # NoId
  PROVE  wanted[r] \in Ids
  BY StoreAssumption DEF StoreTypeOK

\* At the beginning everything has its type.
LEMMA StoreTypeInit == Init => StoreTypeOK
  <1> SUFFICES ASSUME Init PROVE StoreTypeOK
    OBVIOUS
  <1>. QED  BY StoreAssumption DEF Init, StoreTypeOK, NoStatus, Row, Pruning, Written

\* The steps of a front end.
LEMMA FrontTypes ==
  ASSUME StoreTypeOK, RunsInStep, NEW r \in Runs, Front(r)
  PROVE  StoreTypeOK'
  <1> USE DEF StoreTypeOK, files, users
  <1>1. CASE TakeWanted(r)
    BY <1>1, WantedIds DEF TakeWanted
  <1>2. CASE TakeShort(r)
    BY <1>2, StoreAssumption DEF TakeShort
  <1>3. CASE TakeGiven(r)
    BY <1>3 DEF TakeGiven
  <1>4. CASE SpawnWorker(r)
    <2>1. idOf[r] \in Ids
      BY <1>4 DEF SpawnWorker, RunsInStep
    <2>. QED  BY <1>4, <2>1 DEF SpawnWorker
  <1>. QED  BY <1>1, <1>2, <1>3, <1>4 DEF Front

\* Recording a status changes the type of nothing.
LEMMA RecordTypes ==
  ASSUME StoreTypeOK, NEW r \in Runs, NEW from, NEW state \in Written,
         NEW to \in {"starting", "running", "linger", "gone"}, Record(r, from, state, to)
  PROVE  StoreTypeOK'
  <1> USE DEF StoreTypeOK, users, Record, Step
  <1>1. worker' \in [Runs -> {"none", "boot", "named", "recorded", "starting", "running",
                              "serving", "linger", "gone"}]
    OBVIOUS
  <1>2. status' \in [Ids -> [state : Written \cup {"none"}, by : Runs \cup {None}]]
    OBVIOUS
  <1>3. \A i \in Ids : ~dir'[i] => status'[i] = NoStatus
    OBVIOUS
  <1>. QED  BY <1>1, <1>2, <1>3

\* The steps of a worker.
LEMMA WorkerTypes ==
  ASSUME StoreTypeOK, NEW r \in Runs, WorkerStep(r)
  PROVE  StoreTypeOK'
  <1> USE DEF StoreTypeOK, users
  <1>1. CASE OpenMeta(r)
    BY <1>1 DEF OpenMeta, Step
  <1>2. CASE WriteMeta(r)
    BY <1>2 DEF WriteMeta, Step
  <1>3. CASE WriteStarting(r)
    BY <1>3, RecordTypes DEF WriteStarting, Written
  <1>4. CASE WriteRunning(r)
    BY <1>4, RecordTypes DEF WriteRunning, Written
  <1>5. CASE SetupFails(r)
    BY <1>5, RecordTypes DEF SetupFails, Written
  <1>6. CASE Serve(r)
    BY <1>6 DEF Serve, Step
  <1>7. CASE RecordEnd(r)
    BY <1>7, RecordTypes DEF RecordEnd, Written
  <1>8. CASE Cleanup(r)
    BY <1>8 DEF Cleanup, Step
  <1>9. CASE Crash(r)
    BY <1>9 DEF Crash
  <1>. QED
    BY <1>1, <1>2, <1>3, <1>4, <1>5, <1>6, <1>7, <1>8, <1>9 DEF WorkerStep

\* A prune that has become another.
LEMMA PruneChanges ==
  ASSUME StoreTypeOK, NEW p \in Pruners, NEW v \in Pruning,
         prune' = [prune EXCEPT ![p] = v]
  PROVE  /\ prune' \in [Pruners -> Pruning]
         /\ prune'[p] = v
         /\ \A q \in Pruners \ {p} : prune'[q] = prune[q]
  BY DEF StoreTypeOK

\* What a step of a prune makes of it is a prune, and the others stay.
LEMMA PruneNext ==
  ASSUME StoreTypeOK, PrunesJudged, NEW p \in Pruners, Prune(p)
  PROVE  /\ prune' \in [Pruners -> Pruning]
         /\ \A q \in Pruners \ {p} : prune'[q] = prune[q]
  <1>1. prune[p] \in Pruning
    BY DEF StoreTypeOK
  <1>2. CASE PruneList(p)
    <2> DEFINE ids == {i \in Ids : dir[i]}
               owed == {<<i, meta[i]>> : i \in {j \in Ids : HasMeta(j) /\ Over(j)}}
    <2>1. owed \subseteq Ids \X Runs
      BY DEF HasMeta
    <2> HIDE DEF owed
    <2>2. [prune[p] EXCEPT !.at = "meta", !.todo = ids, !.owed = owed] \in Pruning
      BY <1>1, <2>1 DEF Pruning
    <2>. QED  BY <1>2, <2>2, PruneChanges DEF PruneList, owed
  <1>3. CASE PruneMeta(p)
    <2>1. PICK i \in prune[p].todo :
            prune' = [prune EXCEPT ![p] = [@ EXCEPT !.todo = prune[p].todo \ {i},
                        !.at = IF HasMeta(i) THEN "status" ELSE "meta",
                        !.id = IF HasMeta(i) THEN i ELSE None,
                        !.owner = IF HasMeta(i) THEN meta[i] ELSE None]]
      BY <1>3 DEF PruneMeta
    <2>2. i \in Ids
      BY <1>1 DEF Pruning
    <2>3. [prune[p] EXCEPT !.todo = prune[p].todo \ {i},
             !.at = IF HasMeta(i) THEN "status" ELSE "meta",
             !.id = IF HasMeta(i) THEN i ELSE None,
             !.owner = IF HasMeta(i) THEN meta[i] ELSE None] \in Pruning
      BY <1>1, <2>2 DEF Pruning, HasMeta
    <2>. QED  BY <2>1, <2>3, PruneChanges
  <1>4. CASE PruneStatus(p)
    <2>1. prune[p].id \in Ids
      BY <1>4 DEF PruneStatus, PruneMoves, PrunesJudged, PruneJudged
    <2>2. status[prune[p].id].state \in Written \cup {"none"}
      BY <2>1 DEF StoreTypeOK
    <2>3. [prune[p] EXCEPT !.at = "judge", !.state = status[prune[p].id].state] \in Pruning
      BY <1>1, <2>2 DEF Pruning
    <2>. QED  BY <1>4, <2>3, PruneChanges DEF PruneStatus
  <1>5. CASE PruneJudge(p)
    <2>1. prune[p].id \in Ids /\ prune[p].owner \in Runs
      BY <1>5 DEF PruneJudge, PruneMoves, PrunesJudged, PruneJudged
    <2> DEFINE targets == IF Doomed(prune[p].state, PidAlive(prune[p].owner))
                          THEN prune[p].targets \cup {<<prune[p].id, prune[p].owner>>}
                          ELSE prune[p].targets
    <2>2. targets \subseteq Ids \X Runs
      BY <1>1, <2>1 DEF Pruning
    <2> HIDE DEF targets
    <2>3. [prune[p] EXCEPT !.at = "meta", !.id = None, !.owner = None, !.state = "none",
             !.targets = targets] \in Pruning
      BY <1>1, <2>2 DEF Pruning
    <2>. QED  BY <1>5, <2>3, PruneChanges DEF PruneJudge, targets
  <1>6. CASE PruneFiles(p)
    <2>1. PICK t \in prune[p].targets :
            prune' = [prune EXCEPT ![p] = [@ EXCEPT !.targets = prune[p].targets \ {t}, !.id = t[1],
                        !.owner = t[2], !.at = IF dir[t[1]] THEN "rmdir" ELSE "meta"]]
      BY <1>6 DEF PruneFiles
    <2>2. t[1] \in Ids /\ t[2] \in Runs
      BY <1>1 DEF Pruning
    <2>3. [prune[p] EXCEPT !.targets = prune[p].targets \ {t}, !.id = t[1], !.owner = t[2],
             !.at = IF dir[t[1]] THEN "rmdir" ELSE "meta"] \in Pruning
      BY <1>1, <2>2 DEF Pruning
    <2>. QED  BY <2>1, <2>3, PruneChanges
  <1>7. ASSUME NEW at \in {"socket", "meta", "done"},
               prune' = [prune EXCEPT ![p] = [@ EXCEPT !.at = at]]
        PROVE  /\ prune' \in [Pruners -> Pruning]
               /\ \A q \in Pruners \ {p} : prune'[q] = prune[q]
    <2>1. [prune[p] EXCEPT !.at = at] \in Pruning
      BY <1>1 DEF Pruning
    <2>. QED  BY <1>7, <2>1, PruneChanges
  <1>8. CASE PruneDir(p) \/ PruneSocket(p) \/ PruneEnds(p)
    BY <1>7, <1>8 DEF PruneDir, PruneSocket, PruneEnds
  <1>. QED  BY <1>2, <1>3, <1>4, <1>5, <1>6, <1>8 DEF Prune

\* The steps of a prune.
LEMMA PruneTypes ==
  ASSUME StoreTypeOK, PrunesJudged, NEW p \in Pruners, Prune(p)
  PROVE  StoreTypeOK'
  <1>1. prune' \in [Pruners -> Pruning] /\ UNCHANGED <<runs, flag, ls, shared, cut>>
    BY PruneNext DEF Prune, PruneList, PruneMeta, PruneStatus, PruneJudge, PruneFiles,
       PruneDir, PruneSocket, PruneEnds, PruneMoves
  <1>2. CASE UNCHANGED files
    BY <1>1, <1>2 DEF StoreTypeOK, files, runs
  <1>3. CASE PruneFiles(p)
    <2>1. PICK t \in prune[p].targets :
            /\ meta' = [meta EXCEPT ![t[1]] = None]
            /\ status' = [status EXCEPT ![t[1]] = NoStatus]
            /\ note' = [note EXCEPT ![t[1]] = FALSE]
      BY <1>3 DEF PruneFiles
    <2>. QED  BY <1>1, <1>3, <2>1 DEF PruneFiles, StoreTypeOK, NoStatus, runs
  <1>4. CASE PruneDir(p)
    BY <1>1, <1>4 DEF PruneDir, StoreTypeOK, runs
  <1>5. CASE PruneSocket(p)
    BY <1>1, <1>5 DEF PruneSocket, StoreTypeOK, runs
  <1>. QED
    BY <1>2, <1>3, <1>4, <1>5 DEF Prune, PruneList, PruneMeta, PruneStatus, PruneJudge,
       PruneEnds

\* What each step makes of a prune, field by field: PruneList.
LEMMA ListFields ==
  ASSUME StoreTypeOK, NEW p \in Pruners, PruneList(p)
  PROVE  /\ prune[p].at = "idle" /\ prune'[p].at = "meta"
         /\ prune'[p].todo = {i \in Ids : dir[i]} /\ prune'[p].targets = prune[p].targets
         /\ prune'[p].owed = {<<i, meta[i]>> : i \in {j \in Ids : HasMeta(j) /\ Over(j)}}
  BY DEF StoreTypeOK, Pruning, PruneList, PruneMoves

\* PruneMeta.
LEMMA MetaFields ==
  ASSUME StoreTypeOK, NEW p \in Pruners, PruneMeta(p)
  PROVE  \E i \in Ids :
            /\ prune[p].at = "meta" /\ i \in prune[p].todo
            /\ prune'[p].at = IF HasMeta(i) THEN "status" ELSE "meta"
            /\ prune'[p].id = IF HasMeta(i) THEN i ELSE None
            /\ prune'[p].owner = IF HasMeta(i) THEN meta[i] ELSE None
            /\ prune'[p].todo = prune[p].todo \ {i}
            /\ prune'[p].targets = prune[p].targets /\ prune'[p].owed = prune[p].owed
  <1>1. PICK i \in prune[p].todo :
          prune' = [prune EXCEPT ![p] = [@ EXCEPT !.todo = prune[p].todo \ {i},
                      !.at = IF HasMeta(i) THEN "status" ELSE "meta",
                      !.id = IF HasMeta(i) THEN i ELSE None,
                      !.owner = IF HasMeta(i) THEN meta[i] ELSE None]]
    BY DEF PruneMeta
  <1>2. prune[p] \in Pruning /\ prune[p].at = "meta"
    BY DEF StoreTypeOK, PruneMeta, PruneMoves
  <1>3. i \in Ids
    BY <1>2 DEF Pruning
  <1>4. /\ prune'[p].at = IF HasMeta(i) THEN "status" ELSE "meta"
        /\ prune'[p].id = IF HasMeta(i) THEN i ELSE None
        /\ prune'[p].owner = IF HasMeta(i) THEN meta[i] ELSE None
        /\ prune'[p].todo = prune[p].todo \ {i}
        /\ prune'[p].targets = prune[p].targets /\ prune'[p].owed = prune[p].owed
    BY <1>1, <1>2 DEF StoreTypeOK, Pruning
  <1>. QED  BY <1>2, <1>3, <1>4

\* PruneStatus.
LEMMA StatusFields ==
  ASSUME StoreTypeOK, NEW p \in Pruners, PruneStatus(p)
  PROVE  /\ prune[p].at = "status" /\ prune'[p].at = "judge"
         /\ prune'[p].state = status[prune[p].id].state
         /\ prune'[p].id = prune[p].id /\ prune'[p].owner = prune[p].owner
         /\ prune'[p].todo = prune[p].todo
         /\ prune'[p].targets = prune[p].targets /\ prune'[p].owed = prune[p].owed
  BY DEF StoreTypeOK, Pruning, PruneStatus, PruneMoves

\* PruneJudge.
LEMMA JudgeFields ==
  ASSUME StoreTypeOK, NEW p \in Pruners, PruneJudge(p)
  PROVE  /\ prune[p].at = "judge" /\ prune'[p].at = "meta"
         /\ prune'[p].targets = IF Doomed(prune[p].state, PidAlive(prune[p].owner))
                                THEN prune[p].targets \cup {<<prune[p].id, prune[p].owner>>}
                                ELSE prune[p].targets
         /\ prune'[p].todo = prune[p].todo /\ prune'[p].owed = prune[p].owed
  BY DEF StoreTypeOK, Pruning, PruneJudge, PruneMoves

\* PruneFiles.
LEMMA FilesFields ==
  ASSUME StoreTypeOK, NEW p \in Pruners, PruneFiles(p)
  PROVE  \E t \in prune[p].targets :
            /\ prune[p].at = "meta" /\ prune[p].todo = {}
            /\ t \in Ids \X Runs
            /\ prune'[p].at \in {"rmdir", "meta"} /\ prune'[p].id = t[1]
            /\ prune'[p].todo = {} /\ prune'[p].owed = prune[p].owed
            /\ prune'[p].targets = prune[p].targets \ {t}
            /\ meta'[t[1]] = None /\ \A i \in Ids \ {t[1]} : meta'[i] = meta[i]
  <1>1. PICK t \in prune[p].targets :
          /\ prune' = [prune EXCEPT ![p] = [@ EXCEPT !.targets = prune[p].targets \ {t},
                         !.id = t[1], !.owner = t[2],
                         !.at = IF dir[t[1]] THEN "rmdir" ELSE "meta"]]
          /\ meta' = [meta EXCEPT ![t[1]] = None]
    BY DEF PruneFiles
  <1>2. prune[p] \in Pruning /\ prune[p].at = "meta" /\ prune[p].todo = {}
    BY DEF StoreTypeOK, PruneFiles, PruneMoves
  <1>3. t \in Ids \X Runs
    BY <1>2 DEF Pruning
  <1>4. /\ prune'[p].at \in {"rmdir", "meta"} /\ prune'[p].id = t[1]
        /\ prune'[p].todo = {} /\ prune'[p].owed = prune[p].owed
        /\ prune'[p].targets = prune[p].targets \ {t}
    BY <1>1, <1>2 DEF StoreTypeOK, Pruning
  <1>5. meta'[t[1]] = None /\ \A i \in Ids \ {t[1]} : meta'[i] = meta[i]
    BY <1>1, <1>3 DEF StoreTypeOK
  <1>. QED  BY <1>2, <1>3, <1>4, <1>5

\* The steps that change only where the prune is.
LEMMA LastFields ==
  ASSUME StoreTypeOK, NEW p \in Pruners, PruneDir(p) \/ PruneSocket(p) \/ PruneEnds(p)
  PROVE  /\ prune'[p].id = prune[p].id /\ prune'[p].todo = prune[p].todo
         /\ prune'[p].targets = prune[p].targets /\ prune'[p].owed = prune[p].owed
         /\ prune[p].at \in {"rmdir", "socket", "meta"}
         /\ prune'[p].at \in {"socket", "meta", "done"}
         /\ prune'[p].at = "socket" => prune[p].at = "rmdir"
         /\ prune'[p].at = "done" => prune[p].todo = {} /\ prune[p].targets = {}
         /\ UNCHANGED meta
  BY DEF StoreTypeOK, Pruning, PruneDir, PruneSocket, PruneEnds, PruneMoves, files

\* The steps of a flag and of a listing.
LEMMA NoteAndListTypes ==
  ASSUME StoreTypeOK, ListingInStep, (\E f \in Flaggers : Flag(f)) \/ Ls
  PROVE  StoreTypeOK'
  <1> USE DEF StoreTypeOK, files, runs
  <1>1. ASSUME NEW f \in Flaggers, Resolve(f) PROVE StoreTypeOK'
    BY <1>1 DEF Resolve
  <1>2. ASSUME NEW f \in Flaggers, WriteNote(f) PROVE StoreTypeOK'
    <2>1. flag' \in [Flaggers -> [at : {"off", "idle", "resolved", "done"},
                                  id : Ids \cup {None}]]
      BY <1>2 DEF WriteNote
    <2>2. note' \in [Ids -> BOOLEAN] /\ dir' \in [Ids -> BOOLEAN]
      BY <1>2 DEF WriteNote
    <2>3. \A i \in Ids : ~dir'[i] => ~dir[i] /\ ~note'[i]
      BY <1>2 DEF WriteNote
    <2>. QED  BY <1>2, <2>1, <2>2, <2>3 DEF WriteNote
  <1>3. CASE LsMeta
    <2>1. PICK i \in Ids :
            /\ HasMeta(i)
            /\ ls' = [ls EXCEPT !.at = "status", !.id = i, !.owner = meta[i],
                        !.over = {r \in Runs : worker[r] \in {"linger", "gone"}}]
      BY <1>3 DEF LsMeta
    <2>2. ls' \in Row
      BY <2>1 DEF Row, HasMeta
    <2>. QED  BY <1>3, <2>2 DEF LsMeta
  <1>4. CASE LsStatus
    <2>1. status[ls.id].state \in Written \cup {"none"}
      BY <1>4 DEF LsStatus, ListingInStep
    <2>2. ls' \in Row
      BY <1>4, <2>1 DEF LsStatus, Row, Written
    <2>. QED  BY <1>4, <2>2 DEF LsStatus
  <1>5. CASE LsLabel
    <2>1. ls' \in Row
      BY <1>5 DEF LsLabel, Row
    <2>. QED  BY <1>5, <2>1 DEF LsLabel
  <1>. QED  BY <1>1, <1>2, <1>3, <1>4, <1>5 DEF Flag, Ls

\* The steps of a remote run.
LEMMA RemoteTypes ==
  ASSUME StoreTypeOK, NEW r \in Runs, RemoteRun(r)
  PROVE  StoreTypeOK'
  <1> USE DEF StoreTypeOK, files, users, Tell
  <1>1. CASE RemoteAsk(r)
    BY <1>1 DEF RemoteAsk
  <1>2. CASE RemoteArrives(r)
    BY <1>2 DEF RemoteArrives
  <1>3. CASE RemoteAnswer(r)
    BY <1>3 DEF RemoteAnswer
  <1>4. CASE RemoteLost(r)
    BY <1>4 DEF RemoteLost
  <1>5. CASE RemoteTimeout(r)
    BY <1>5 DEF RemoteTimeout
  <1>6. CASE RemoteConfirm(r)
    BY <1>6 DEF RemoteConfirm
  <1>7. CASE RemoteCut(r)
    BY <1>7 DEF RemoteCut
  <1>. QED  BY <1>1, <1>2, <1>3, <1>4, <1>5, <1>6, <1>7 DEF RemoteRun

\* Every step keeps the types, as long as whoever uses an id has one.
LEMMA StoreTypeNext ==
  ASSUME StoreTypeOK, RunsInStep, PrunesJudged, ListingInStep, [Next]_vars
  PROVE  StoreTypeOK'
  <1>1. CASE UNCHANGED vars
    BY <1>1 DEF StoreTypeOK, vars, files, runs, users
  <1>2. CASE Next
    BY <1>2, FrontTypes, WorkerTypes, PruneTypes, NoteAndListTypes, RemoteTypes DEF Next
  <1>. QED  BY <1>1, <1>2

-----------------------------------------------------------------------------
(***************************************************************************)
(* How the runs and the files of an id move in a step, whoever takes it.   *)
(***************************************************************************)

\* A run that has begun keeps its id, and one that is done stays so.
RunMoves(r) ==
    /\ Begun(r) => Begun(r)' /\ idOf'[r] = idOf[r]
    /\ Begun(r)' => idOf'[r] = idOf[r]
    /\ Done(r) => Done(r)'
    /\ worker[r] = "gone" => worker'[r] = "gone"
    /\ worker[r] \notin {"none", "boot", "named"} => worker'[r] \notin {"none", "boot", "named"}

\* A meta is only ever replaced by one that its own worker writes.
MetaMoves(i) ==
    \/ meta'[i] \in {meta[i], None, "torn"}
    \/ /\ meta'[i] \in Runs /\ idOf[meta'[i]] = i
       /\ worker[meta'[i]] = "named" /\ worker'[meta'[i]] = "recorded"

\* A status is written by a worker with that id, and goes together with the meta.
StatusMoves(i) ==
    \/ status'[i] = status[i]
    \/ status'[i] = NoStatus /\ meta'[i] = None
    \/ \E r \in Runs : /\ idOf[r] = i /\ Begun(r) /\ ~Done(r) /\ status'[i].by = r
                       /\ status'[i].state = "ended" <=> Done(r)'

\* A socket goes when its worker does, or when some worker of the id has ended.
SockMoves(i) ==
    \/ sock'[i] = sock[i]
    \/ sock'[i] = None /\ Ended(i)'
    \/ sock'[i] = None /\ sock[i] \in Runs /\ worker'[sock[i]] = "gone"
    \/ sock'[i] \in Runs /\ idOf[sock'[i]] = i /\ Begun(sock'[i])

\* Who begins to serve has its socket, and who begins to linger has its end recorded.
WorkerLeaves(r) ==
    /\ Serving(r)' => Serving(r) \/ sock'[idOf[r]] = r
    /\ worker'[r] = "linger" => worker[r] = "linger" \/ status'[idOf[r]].state = "ended"

StoreMoves ==
    /\ wanted' = wanted
    /\ \A r \in Runs : RunMoves(r) /\ WorkerLeaves(r)
    /\ \A i \in Ids : MetaMoves(i) /\ StatusMoves(i) /\ SockMoves(i)

\* Nothing moves but front ends and what users know.
LEMMA StillFiles ==
  ASSUME UNCHANGED files, UNCHANGED worker
  PROVE  /\ \A i \in Ids : MetaMoves(i) /\ StatusMoves(i) /\ SockMoves(i)
         /\ \A r \in Runs : WorkerLeaves(r)
  BY DEF files, MetaMoves, StatusMoves, SockMoves, WorkerLeaves, Serving

\* A front end moves only its own run, which has not begun.
LEMMA FrontMoves ==
  ASSUME StoreTypeOK, RunsInStep, NEW r \in Runs, Front(r)
  PROVE  StoreMoves
  <1>1. front[r] \in {"idle", "checked"} /\ ~Begun(r)
    BY DEF Front, TakeWanted, TakeShort, TakeGiven, SpawnWorker, RunsInStep
  <1>2. CASE TakeWanted(r) \/ TakeShort(r) \/ TakeGiven(r)
    <2>1. /\ UNCHANGED <<files, wanted, worker>>
          /\ \A q \in Runs \ {r} : idOf'[q] = idOf[q]
      BY <1>2 DEF TakeWanted, TakeShort, TakeGiven, StoreTypeOK
    <2>2. \A q \in Runs : RunMoves(q)
      BY <1>1, <2>1 DEF RunMoves, Begun, Done
    <2>. QED  BY <2>1, <2>2, StillFiles DEF StoreMoves
  <1>3. CASE SpawnWorker(r)
    <2>1. /\ UNCHANGED <<files, wanted, idOf>>
          /\ \A q \in Runs \ {r} : worker'[q] = worker[q]
          /\ worker'[r] \in {worker[r], "boot"}
      BY <1>3 DEF SpawnWorker, StoreTypeOK
    <2>2. \A q \in Runs : RunMoves(q)
      BY <1>1, <2>1 DEF RunMoves, Begun, Done
    <2>3. \A i \in Ids : MetaMoves(i) /\ StatusMoves(i) /\ SockMoves(i)
      BY <2>1 DEF MetaMoves, StatusMoves, SockMoves, files
    <2>4. \A q \in Runs : WorkerLeaves(q)
      BY <1>1, <2>1 DEF WorkerLeaves, Serving, files
    <2>. QED  BY <2>1, <2>2, <2>3, <2>4 DEF StoreMoves
  <1>. QED  BY <1>2, <1>3 DEF Front

\* Asking for a remote run moves no run that has begun.
LEMMA RemoteMoves ==
  ASSUME StoreTypeOK, RunsInStep, AskedInStep, NEW r \in Runs, RemoteRun(r)
  PROVE  StoreMoves
  <1>1. UNCHANGED <<files, wanted, worker>>
    BY DEF RemoteRun, RemoteAsk, RemoteArrives, RemoteAnswer, RemoteLost, RemoteTimeout,
           RemoteConfirm, RemoteCut
  <1>2. \A q \in Runs : Begun(q) => idOf'[q] = idOf[q]
    <2>1. CASE RemoteAsk(r)
      <3>1. ~Begun(r)
        BY <2>1 DEF RemoteAsk, Tell, AskedInStep, RunsInStep
      <3>. QED  BY <2>1, <3>1 DEF RemoteAsk, StoreTypeOK
    <2>. QED
      BY <2>1 DEF RemoteRun, RemoteArrives, RemoteAnswer, RemoteLost, RemoteTimeout,
                  RemoteConfirm, RemoteCut
  <1>3. \A q \in Runs : RunMoves(q)
    BY <1>1, <1>2 DEF RunMoves, Begun, Done
  <1>. QED  BY <1>1, <1>3, StillFiles DEF StoreMoves

\* A worker that takes a step of its own.
LEMMA StepMoves ==
  ASSUME StoreTypeOK, RunsInStep, NEW r \in Runs,
         NEW from, NEW to, Step(r, from, to), from # "none"
  PROVE  /\ worker'[r] = to /\ worker[r] = from /\ Begun(r) /\ idOf[r] \in Ids
         /\ UNCHANGED <<wanted, idOf, front, told, users, shared, cut>>
         /\ \A q \in Runs \ {r} : worker'[q] = worker[q]
  BY DEF Step, StoreTypeOK, RunsInStep, Begun

\* Recording a status.
LEMMA RecordMoves ==
  ASSUME StoreTypeOK, RunsInStep, NEW r \in Runs,
         NEW from \in {"recorded", "starting", "running", "serving"},
         NEW state \in Written, NEW to \in {"starting", "running", "linger", "gone"},
         state = "ended" <=> to \in {"linger", "gone"},
         Record(r, from, state, to)
  PROVE  StoreMoves
  <1> DEFINE i == idOf[r]
  <1>1. /\ worker'[r] = IF dir[i] THEN to ELSE "gone"
        /\ worker[r] = from /\ Begun(r) /\ ~Done(r) /\ i \in Ids
        /\ UNCHANGED <<wanted, idOf, meta, sock>>
        /\ \A q \in Runs \ {r} : worker'[q] = worker[q]
    BY StepMoves DEF Record, Done
  <1>2. \A q \in Runs : RunMoves(q)
    BY <1>1 DEF RunMoves, Begun, Done
  <1>3. status' = [status EXCEPT ![i] = IF dir[i] THEN [state |-> state, by |-> r] ELSE status[i]]
    BY DEF Record
  <1>4. /\ \A j \in Ids \ {i} : status'[j] = status[j]
        /\ dir[i] => status'[i] = [state |-> state, by |-> r]
        /\ ~dir[i] => status'[i] = status[i]
    BY <1>1, <1>3 DEF StoreTypeOK
  <1>5. \A j \in Ids : StatusMoves(j)
    <2>1. CASE dir[i]
      <3>1. status'[i].by = r /\ (status'[i].state = "ended" <=> Done(r)')
        BY <1>1, <1>4, <2>1 DEF Done
      <3>. QED  BY <1>1, <1>4, <3>1 DEF StatusMoves
    <2>2. CASE ~dir[i]
      BY <1>4, <2>2 DEF StatusMoves
    <2>. QED  BY <2>1, <2>2
  <1>6. \A q \in Runs : WorkerLeaves(q)
    BY <1>1, <1>4 DEF WorkerLeaves, Serving
  <1>. QED
    BY <1>1, <1>2, <1>5, <1>6 DEF StoreMoves, MetaMoves, SockMoves

\* The steps of a worker.
LEMMA WorkerMoves ==
  ASSUME StoreTypeOK, RunsInStep, FilesHaveOwners, NEW r \in Runs, WorkerStep(r)
  PROVE  StoreMoves
  <1> DEFINE i == idOf[r]
  <1>1. CASE OpenMeta(r)
    <2>1. /\ worker'[r] = "named" /\ worker[r] = "boot" /\ i \in Ids
          /\ UNCHANGED <<wanted, idOf, status, sock>>
          /\ \A q \in Runs \ {r} : worker'[q] = worker[q]
      BY <1>1, StepMoves DEF OpenMeta
    <2>2. \A j \in Ids : MetaMoves(j)
      BY <1>1, <2>1 DEF OpenMeta, MetaMoves, StoreTypeOK
    <2>3. \A q \in Runs : RunMoves(q) /\ WorkerLeaves(q)
      BY <2>1 DEF RunMoves, Begun, Done, WorkerLeaves, Serving
    <2>. QED  BY <2>1, <2>2, <2>3 DEF StoreMoves, StatusMoves, SockMoves
  <1>2. CASE WriteMeta(r)
    <2>1. /\ worker'[r] = "recorded" /\ worker[r] = "named" /\ i \in Ids
          /\ UNCHANGED <<wanted, idOf, status, sock>>
          /\ \A q \in Runs \ {r} : worker'[q] = worker[q]
      BY <1>2, StepMoves DEF WriteMeta
    <2>2. \A j \in Ids : MetaMoves(j)
      BY <1>2, <2>1 DEF WriteMeta, MetaMoves, StoreTypeOK
    <2>3. \A q \in Runs : RunMoves(q) /\ WorkerLeaves(q)
      BY <2>1 DEF RunMoves, Begun, Done, WorkerLeaves, Serving
    <2>. QED  BY <2>1, <2>2, <2>3 DEF StoreMoves, StatusMoves, SockMoves
  <1>3. CASE WriteStarting(r)
    BY <1>3, RecordMoves DEF WriteStarting, Written
  <1>4. CASE WriteRunning(r)
    BY <1>4, RecordMoves DEF WriteRunning, Written
  <1>5. CASE SetupFails(r)
    BY <1>5, RecordMoves DEF SetupFails, Written
  <1>6. CASE Serve(r)
    <2>1. /\ worker'[r] = "serving" /\ worker[r] = "running" /\ i \in Ids /\ Begun(r)
          /\ UNCHANGED <<wanted, idOf, meta, status>>
          /\ \A q \in Runs \ {r} : worker'[q] = worker[q]
      BY <1>6, StepMoves DEF Serve
    <2>2. sock'[i] = r /\ \A j \in Ids \ {i} : sock'[j] = sock[j]
      BY <1>6, <2>1 DEF Serve, StoreTypeOK
    <2>3. \A j \in Ids : SockMoves(j)
      BY <2>1, <2>2 DEF SockMoves
    <2>4. \A q \in Runs : RunMoves(q) /\ WorkerLeaves(q)
      BY <2>1, <2>2 DEF RunMoves, Begun, Done, WorkerLeaves, Serving
    <2>. QED  BY <2>1, <2>3, <2>4 DEF StoreMoves, StatusMoves, MetaMoves
  <1>7. CASE RecordEnd(r)
    BY <1>7, RecordMoves DEF RecordEnd, Written
  <1>8. CASE Cleanup(r)
    <2>1. /\ worker'[r] = "gone" /\ worker[r] = "linger" /\ i \in Ids
          /\ UNCHANGED <<wanted, idOf, meta, status>>
          /\ \A q \in Runs \ {r} : worker'[q] = worker[q]
      BY <1>8, StepMoves DEF Cleanup
    <2>2. sock'[i] = None /\ \A j \in Ids \ {i} : sock'[j] = sock[j]
      BY <1>8, <2>1 DEF Cleanup, StoreTypeOK
    <2>3. \A j \in Ids : j = i => Ended(j)'
      BY <2>1 DEF Ended, Done
    <2>4. \A j \in Ids : SockMoves(j)
      BY <2>2, <2>3 DEF SockMoves
    <2>5. \A q \in Runs : RunMoves(q) /\ WorkerLeaves(q)
      BY <2>1 DEF RunMoves, Begun, Done, WorkerLeaves, Serving
    <2>. QED  BY <2>1, <2>4, <2>5 DEF StoreMoves, StatusMoves, MetaMoves
  <1>9. CASE Crash(r)
    <2>1. /\ worker'[r] = "gone" /\ Begun(r)
          /\ UNCHANGED <<wanted, idOf, meta, status>>
          /\ \A q \in Runs \ {r} : worker'[q] = worker[q]
          /\ \A j \in Ids : sock'[j] = IF sock[j] = r THEN None ELSE sock[j]
      BY <1>9 DEF Crash, StoreTypeOK, PidAlive, Begun
    <2>2. \A j \in Ids : SockMoves(j)
      BY <2>1 DEF SockMoves
    <2>3. \A q \in Runs : RunMoves(q) /\ WorkerLeaves(q)
      BY <2>1 DEF RunMoves, Begun, Done, WorkerLeaves, Serving
    <2>. QED  BY <2>1, <2>2, <2>3 DEF StoreMoves, StatusMoves, MetaMoves
  <1>. QED
    BY <1>1, <1>2, <1>3, <1>4, <1>5, <1>6, <1>7, <1>8, <1>9 DEF WorkerStep

\* The steps of a prune.
LEMMA PruneStepMoves ==
  ASSUME StoreTypeOK, PrunesJudged, NEW p \in Pruners, Prune(p)
  PROVE  StoreMoves
  <1>1. UNCHANGED runs
    BY DEF Prune, PruneList, PruneMeta, PruneStatus, PruneJudge, PruneFiles, PruneDir,
           PruneSocket, PruneEnds, PruneMoves
  <1>2. \A q \in Runs : RunMoves(q)
    BY <1>1 DEF RunMoves, Begun, Done, runs
  <1>3. CASE UNCHANGED files
    BY <1>1, <1>2, <1>3, StillFiles DEF StoreMoves, runs
  <1>4. CASE PruneFiles(p)
    <2>1. PICK t \in prune[p].targets :
            /\ meta' = [meta EXCEPT ![t[1]] = None]
            /\ status' = [status EXCEPT ![t[1]] = NoStatus]
            /\ UNCHANGED sock
      BY <1>4 DEF PruneFiles
    <2>2. \A j \in Ids : \/ meta'[j] = meta[j] /\ status'[j] = status[j]
                         \/ meta'[j] = None /\ status'[j] = NoStatus
      BY <2>1 DEF StoreTypeOK
    <2>3. \A j \in Ids : MetaMoves(j) /\ StatusMoves(j) /\ SockMoves(j)
      BY <2>1, <2>2 DEF MetaMoves, StatusMoves, SockMoves
    <2>4. \A q \in Runs : WorkerLeaves(q)
      BY <1>1 DEF WorkerLeaves, Serving, runs
    <2>. QED  BY <1>1, <1>2, <2>3, <2>4 DEF StoreMoves, runs
  <1>5. CASE PruneDir(p)
    <2>1. UNCHANGED <<meta, status, sock>>
      BY <1>5 DEF PruneDir
    <2>. QED
      BY <1>1, <1>2, <2>1 DEF StoreMoves, MetaMoves, StatusMoves, SockMoves, WorkerLeaves,
                              Serving, runs
  <1>6. CASE PruneSocket(p)
    <2>1. /\ UNCHANGED <<meta, status>>
          /\ sock' = [sock EXCEPT ![prune[p].id] = None]
          /\ Ended(prune[p].id)
      BY <1>6 DEF PruneSocket, PruneMoves, PrunesJudged, PruneJudged
    <2>2. Ended(prune[p].id) => \A j \in Ids : j = prune[p].id => Ended(j)'
      BY <1>1 DEF Ended, Done, runs
    <2>3. \A j \in Ids : SockMoves(j)
      BY <2>1, <2>2 DEF SockMoves, StoreTypeOK
    <2>. QED
      BY <1>1, <1>2, <2>1, <2>3 DEF StoreMoves, MetaMoves, StatusMoves, WorkerLeaves,
                                    Serving, runs
  <1>. QED
    BY <1>3, <1>4, <1>5, <1>6 DEF Prune, PruneList, PruneMeta, PruneStatus, PruneJudge,
       PruneEnds

\* Every step moves runs and files in this way.
LEMMA AllMoves ==
  ASSUME StoreInv, [Next]_vars
  PROVE  StoreMoves
  <1> USE DEF StoreInv
  <1>1. CASE UNCHANGED vars
    BY <1>1, StillFiles DEF vars, runs, StoreMoves, RunMoves, Begun, Done
  <1>2. ASSUME NEW f \in Flaggers, Flag(f) PROVE StoreMoves
    BY <1>2 DEF Flag, Resolve, WriteNote, StoreMoves, RunMoves, Begun, Done, MetaMoves,
                StatusMoves, SockMoves, WorkerLeaves, Serving, runs, files
  <1>3. CASE Ls
    BY <1>3, StillFiles DEF Ls, LsMeta, LsStatus, LsLabel, StoreMoves, RunMoves, Begun, Done,
                            runs
  <1>. QED
    BY <1>1, <1>2, <1>3, FrontMoves, WorkerMoves, RemoteMoves, PruneStepMoves DEF Next

-----------------------------------------------------------------------------
(***************************************************************************)
(* The parts of the invariant, one by one.                                 *)
(***************************************************************************)

\* Who is done stays done, so an id one of whose workers has ended stays one.
LEMMA EndedStays ==
  ASSUME StoreMoves, NEW i \in Ids, Ended(i)
  PROVE  Ended(i)'
  <1>1. PICK q \in Runs : idOf[q] = i /\ Done(q)
    BY DEF Ended
  <1>2. idOf'[q] = i /\ Done(q)'
    BY <1>1 DEF StoreMoves, RunMoves, Done, Begun
  <1>. QED  BY <1>2 DEF Ended

\* A run that is the only user of its id has been so since it began.
LEMMA SoleBefore ==
  ASSUME StoreMoves, NEW r \in Runs, Begun(r), SoleUser(r)'
  PROVE  SoleUser(r)
  <1> SUFFICES ASSUME NEW q \in Runs \ {r}, idOf[q] = idOf[r] PROVE worker[q] = "none"
    BY DEF SoleUser
  <1>. QED  BY DEF StoreMoves, RunMoves, SoleUser, Begun

\* Nobody else with the id of a sole user has begun.
LEMMA SoleBegun ==
  ASSUME StoreMoves, NEW r \in Runs, SoleUser(r)', Begun(r),
         NEW q \in Runs, idOf[q] = idOf[r], Begun(q)
  PROVE  q = r
  BY SoleBefore DEF SoleUser, Begun

\* A run that holds a name knows it.
LEMMA IdsOfRuns ==
  ASSUME RunsInStep, NEW r \in Runs, Begun(r)
  PROVE  idOf[r] \in Ids
  BY DEF RunsInStep

\* No run has begun.
LEMMA RunsInStepInit == Init => RunsInStep
  BY DEF Init, RunsInStep, Begun

\* A run is given an id before its worker is started, and only a front end starts one.
LEMMA RunsInStepNext ==
  ASSUME StoreInv, [Next]_vars
  PROVE  RunsInStep'
  <1> USE DEF StoreInv
  <1>1. CASE UNCHANGED <<front, worker, idOf>>
    BY <1>1 DEF RunsInStep, Begun
  <1>2. ASSUME NEW r \in Runs, TakeWanted(r) PROVE RunsInStep'
    BY <1>2, WantedIds DEF TakeWanted, RunsInStep, Begun, StoreTypeOK
  <1>3. ASSUME NEW r \in Runs, TakeShort(r) PROVE RunsInStep'
    BY <1>3, StoreAssumption DEF TakeShort, RunsInStep, Begun, StoreTypeOK
  <1>4. ASSUME NEW r \in Runs, TakeGiven(r) PROVE RunsInStep'
    <2>1. Generated(r)
      BY <1>4 DEF TakeGiven, Generated, AskedInStep
    <2>2. idOf[r] \in Ids
      BY <2>1 DEF GeneratedIsUnique
    <2>. QED  BY <1>4, <2>2 DEF TakeGiven, RunsInStep, Begun, StoreTypeOK
  <1>5. ASSUME NEW r \in Runs, SpawnWorker(r) PROVE RunsInStep'
    BY <1>5 DEF SpawnWorker, RunsInStep, Begun, StoreTypeOK
  <1>6. ASSUME NEW r \in Runs, WorkerStep(r) PROVE RunsInStep'
    <2>1. UNCHANGED <<front, idOf>>
      BY <1>6 DEF WorkerStep, OpenMeta, WriteMeta, WriteStarting, WriteRunning, SetupFails,
                  Serve, RecordEnd, Cleanup, Crash, Record, Step
    <2>2. Begun(r) /\ Begun(r)'
      BY <1>6, AllMoves, WorkerMoves DEF WorkerStep, OpenMeta, WriteMeta, WriteStarting,
         WriteRunning, SetupFails, Serve, RecordEnd, Cleanup, Crash, Record, Step, PidAlive,
         Begun, StoreMoves, RunMoves
    <2>3. \A q \in Runs \ {r} : worker'[q] = worker[q]
      BY <1>6 DEF WorkerStep, OpenMeta, WriteMeta, WriteStarting, WriteRunning, SetupFails,
                  Serve, RecordEnd, Cleanup, Crash, Record, Step, StoreTypeOK
    <2>. QED  BY <2>1, <2>2, <2>3 DEF RunsInStep, Begun
  <1>7. ASSUME NEW r \in Runs, RemoteAsk(r) PROVE RunsInStep'
    <2>1. front[r] = "away"
      BY <1>7 DEF RemoteAsk, Tell, AskedInStep
    <2>. QED  BY <1>7, <2>1 DEF RemoteAsk, RunsInStep, Begun, StoreTypeOK
  <1>8. ASSUME NEW r \in Runs, RemoteArrives(r) PROVE RunsInStep'
    BY <1>8 DEF RemoteArrives, RunsInStep, Begun, StoreTypeOK
  <1>9. CASE \/ UNCHANGED vars
             \/ \E p \in Pruners : Prune(p)
             \/ \E f \in Flaggers : Flag(f)
             \/ Ls
             \/ \E r \in Runs : RemoteAnswer(r) \/ RemoteLost(r) \/ RemoteTimeout(r)
                                \/ RemoteConfirm(r) \/ RemoteCut(r)
    <2>1. UNCHANGED <<front, worker, idOf>>
      BY <1>9 DEF vars, runs, Prune, PruneList, PruneMeta, PruneStatus, PruneJudge,
         PruneFiles, PruneDir, PruneSocket, PruneEnds, PruneMoves, Flag, Resolve, WriteNote,
         Ls, LsMeta, LsStatus, LsLabel, RemoteAnswer, RemoteLost, RemoteTimeout,
         RemoteConfirm, RemoteCut
    <2>. QED  BY <1>1, <2>1
  <1>. QED
    BY <1>2, <1>3, <1>4, <1>5, <1>6, <1>7, <1>8, <1>9 DEF Next, Front, RemoteRun

\* There are no files.
LEMMA FilesHaveOwnersInit == Init => FilesHaveOwners
  BY StoreAssumption DEF Init, FilesHaveOwners, HasMeta, NoStatus

\* A file that stays keeps its owner, and a new one has been written by its own.
LEMMA FilesHaveOwnersNext ==
  ASSUME StoreInv, [Next]_vars
  PROVE  FilesHaveOwners'
  <1>1. StoreMoves
    BY AllMoves
  <1> SUFFICES ASSUME NEW i \in Ids
               PROVE  /\ HasMeta(i)' => /\ idOf'[meta'[i]] = i
                                        /\ worker'[meta'[i]] \notin {"none", "boot", "named"}
                      /\ status'[i] # NoStatus =>
                            status'[i].by \in Runs /\ idOf'[status'[i].by] = i
                            /\ Begun(status[i].by)'
                      /\ status'[i].state = "ended" =>
                            status'[i].by \in Runs /\ Done(status[i].by)'
                      /\ sock'[i] # None => idOf'[sock'[i]] = i /\ Begun(sock[i])'
    BY DEF FilesHaveOwners, Begun, Done, NoStatus
  <1>2. /\ HasMeta(i) => idOf[meta[i]] = i /\ worker[meta[i]] \notin {"none", "boot", "named"}
        /\ status[i] # NoStatus =>
            status[i].by \in Runs /\ idOf[status[i].by] = i /\ Begun(status[i].by)
        /\ status[i].state = "ended" => status[i].by \in Runs /\ Done(status[i].by)
        /\ sock[i] # None => sock[i] \in Runs /\ idOf[sock[i]] = i /\ Begun(sock[i])
    BY DEF StoreInv, StoreTypeOK, FilesHaveOwners
  <1>3. \A r \in Runs : RunMoves(r)
    BY <1>1 DEF StoreMoves
  <1>4. ASSUME HasMeta(i)'
        PROVE  idOf'[meta'[i]] = i /\ worker'[meta'[i]] \notin {"none", "boot", "named"}
    <2>1. CASE meta'[i] = meta[i]
      BY <1>2, <1>3, <1>4, <2>1 DEF HasMeta, RunMoves, Begun
    <2>2. CASE meta'[i] # meta[i]
      <3>1. /\ meta'[i] \in Runs /\ idOf[meta'[i]] = i
            /\ worker[meta'[i]] = "named" /\ worker'[meta'[i]] = "recorded"
        BY <1>1, <1>4, <2>2, StoreAssumption DEF StoreMoves, MetaMoves, HasMeta
      <3>. QED  BY <1>3, <3>1 DEF RunMoves, Begun
    <2>. QED  BY <2>1, <2>2
  <1>5. /\ status'[i] # NoStatus =>
            status'[i].by \in Runs /\ idOf'[status'[i].by] = i /\ Begun(status[i].by)'
        /\ status'[i].state = "ended" => status'[i].by \in Runs /\ Done(status[i].by)'
    <2>1. CASE status'[i] = status[i]
      BY <1>2, <1>3, <2>1 DEF RunMoves, Begun, Done
    <2>2. CASE status'[i] = NoStatus
      BY <2>2 DEF NoStatus
    <2>3. ASSUME NEW r \in Runs, idOf[r] = i, Begun(r), status'[i].by = r,
                 status'[i].state = "ended" <=> Done(r)'
          PROVE  /\ status'[i].by \in Runs /\ idOf'[status'[i].by] = i /\ Begun(status[i].by)'
                 /\ status'[i].state = "ended" => status'[i].by \in Runs /\ Done(status[i].by)'
      BY <1>3, <2>3 DEF RunMoves, Begun, Done
    <2>. QED  BY <1>1, <2>1, <2>2, <2>3 DEF StoreMoves, StatusMoves
  <1>6. sock'[i] # None => idOf'[sock'[i]] = i /\ Begun(sock[i])'
    BY <1>1, <1>2, <1>3 DEF StoreMoves, SockMoves, RunMoves, Begun
  <1>. QED  BY <1>4, <1>5, <1>6

\* No prune has looked at anything.
LEMMA PrunesJudgedInit == Init => PrunesJudged
  BY DEF Init, PrunesJudged, PruneJudged

\* A prune that takes no step knows what it knew.
LEMMA PruneStaysJudged ==
  ASSUME StoreInv, [Next]_vars, NEW p \in Pruners, prune'[p] = prune[p]
  PROVE  PruneJudged(p)'
  <1>1. StoreMoves /\ PruneJudged(p)
    BY AllMoves DEF StoreInv, PrunesJudged
  <1>2. \A r \in Runs : Begun(r) => Begun(r)' /\ idOf'[r] = idOf[r]
    BY <1>1 DEF StoreMoves, RunMoves
  <1>3. \A i : i \in Ids /\ Ended(i) => Ended(i)'
    BY <1>1, EndedStays
  <1>4. prune[p].at = "judge" /\ prune[p].state = "ended" =>
            prune[p].id \in Ids /\ Ended(prune[p].id)
    BY <1>1 DEF PruneJudged
  <1>. QED  BY <1>1, <1>2, <1>3, <1>4 DEF PruneJudged, Begun, Ended, Done

\* Nobody but a prune itself changes it.
LEMMA PruneOfStep ==
  ASSUME StoreTypeOK, PrunesJudged, [Next]_vars, NEW p \in Pruners, prune'[p] # prune[p]
  PROVE  Prune(p)
  <1>1. CASE \E q \in Pruners : Prune(q)
    BY <1>1, PruneNext
  <1>2. CASE UNCHANGED prune
    BY <1>2
  <1>. QED
    BY <1>1, <1>2 DEF Next, vars, users, Front, TakeWanted, TakeShort, TakeGiven, SpawnWorker,
       WorkerStep, OpenMeta, WriteMeta, WriteStarting, WriteRunning, SetupFails, Serve,
       RecordEnd, Cleanup, Crash, Record, Step, RemoteRun, RemoteAsk, RemoteArrives,
       RemoteAnswer, RemoteLost, RemoteTimeout, RemoteConfirm, RemoteCut, Flag, Resolve,
       WriteNote, Ls, LsMeta, LsStatus, LsLabel

\* What a prune has read was so when it was read, and an end is for good.
LEMMA PrunesJudgedNext ==
  ASSUME StoreInv, [Next]_vars
  PROVE  PrunesJudged'
  <1> SUFFICES ASSUME NEW p \in Pruners, prune'[p] # prune[p] PROVE PruneJudged(p)'
    BY PruneStaysJudged DEF PrunesJudged
  <1>1. Prune(p)
    BY PruneOfStep DEF StoreInv
  <1>2. PruneJudged(p) /\ prune[p] \in Pruning
    BY DEF StoreInv, StoreTypeOK, PrunesJudged
  <1>3. UNCHANGED runs
    BY <1>1 DEF Prune, PruneList, PruneMeta, PruneStatus, PruneJudge, PruneFiles, PruneDir,
                PruneSocket, PruneEnds, PruneMoves
  <1>4. \A i : Ended(i) => Ended(i)'
    BY <1>3 DEF Ended, Done, runs
  <1>5. \A r : Begun(r) => Begun(r)'
    BY <1>3 DEF Begun, runs
  <1>6. UNCHANGED idOf
    BY <1>3 DEF runs
  <1> USE DEF StoreInv
  <1>7. CASE PruneList(p)
    BY <1>2, <1>4, <1>7, ListFields DEF PruneJudged
  <1>8. CASE PruneMeta(p)
    <2>1. PICK i \in Ids :
            /\ prune'[p].at = IF HasMeta(i) THEN "status" ELSE "meta"
            /\ prune'[p].id = IF HasMeta(i) THEN i ELSE None
            /\ prune'[p].owner = IF HasMeta(i) THEN meta[i] ELSE None
            /\ prune'[p].targets = prune[p].targets
      BY <1>8, MetaFields
    <2>2. HasMeta(i) => meta[i] \in Runs /\ idOf[meta[i]] = i /\ Begun(meta[i])
      BY DEF FilesHaveOwners, HasMeta, Begun
    <2>. QED  BY <1>2, <1>4, <1>5, <1>6, <2>1, <2>2 DEF PruneJudged, Begun
  <1>9. CASE PruneStatus(p)
    <2>1. prune[p].at = "status" /\ prune[p].id \in Ids
      BY <1>2, <1>9, StatusFields DEF PruneJudged
    <2>2. status[prune[p].id].state = "ended" => Ended(prune[p].id)
      <3>1. status[prune[p].id].state = "ended" => status[prune[p].id] # NoStatus
        BY DEF NoStatus
      <3>. QED  BY <2>1, <3>1 DEF FilesHaveOwners, Ended
    <2>. QED
      BY <1>2, <1>4, <1>5, <1>6, <1>9, <2>2, StatusFields DEF PruneJudged, Begun, Ended, Done
  <1>10. CASE PruneJudge(p)
    <2>1. prune[p].id \in Ids
      BY <1>2, <1>10, JudgeFields DEF PruneJudged
    <2>2. Doomed(prune[p].state, PidAlive(prune[p].owner)) => Ended(prune[p].id)
      BY <1>2, <1>10, JudgeFields DEF PruneJudged, Doomed, PidAlive, Ended, Done, Begun
    <2>3. ASSUME NEW t \in prune'[p].targets PROVE t[1] \in Ids /\ Ended(t[1])
      <3>1. \/ t \in prune[p].targets
            \/ /\ t = <<prune[p].id, prune[p].owner>>
               /\ Doomed(prune[p].state, PidAlive(prune[p].owner))
        BY <1>10, <2>3, JudgeFields
      <3>2. t = <<prune[p].id, prune[p].owner>> => t[1] = prune[p].id
        OBVIOUS
      <3>. QED  BY <1>2, <2>1, <2>2, <3>1, <3>2 DEF PruneJudged
    <2>. QED  BY <1>4, <1>10, <2>3, JudgeFields DEF PruneJudged
  <1>11. CASE PruneFiles(p)
    <2>1. PICK t \in prune[p].targets :
            /\ prune'[p].at \in {"rmdir", "meta"} /\ prune'[p].id = t[1]
            /\ prune'[p].targets = prune[p].targets \ {t}
      BY <1>11, FilesFields
    <2>2. \A u \in prune'[p].targets : u[1] \in Ids /\ Ended(u[1])'
      BY <1>2, <1>4, <2>1 DEF PruneJudged
    <2>3. t[1] \in Ids /\ Ended(prune[p].id)'
      BY <1>2, <1>4, <2>1 DEF PruneJudged, Ended, Done
    <2>. QED  BY <2>1, <2>2, <2>3 DEF PruneJudged
  <1>12. CASE PruneDir(p) \/ PruneSocket(p) \/ PruneEnds(p)
    <2>1. prune[p].at = "rmdir" => Ended(prune[p].id)'
      BY <1>2, <1>3, <1>12, LastFields DEF PruneJudged, Ended, Done, runs
    <2>. QED  BY <1>2, <1>4, <1>12, <2>1, LastFields DEF PruneJudged
  <1>. QED
    BY <1>1, <1>7, <1>8, <1>9, <1>10, <1>11, <1>12 DEF Prune

\* No id was generated.
LEMMA GeneratedIsUniqueInit == Init => GeneratedIsUnique
  BY DEF Init, GeneratedIsUnique, Generated

\* Ids are generated longer than they are chosen, so nobody else comes to use one.
LEMMA GeneratedIsUniqueNext ==
  ASSUME StoreInv, [Next]_vars
  PROVE  GeneratedIsUnique'
  <1> USE DEF StoreInv
  <1>1. CASE /\ UNCHANGED <<wanted, idOf>>
             /\ \A r \in Runs : told[r] = "nothing" => told'[r] = "nothing"
    BY <1>1 DEF GeneratedIsUnique, Generated
  <1>2. ASSUME NEW r \in Runs, TakeWanted(r) PROVE GeneratedIsUnique'
    <2>1. /\ UNCHANGED <<wanted, told>> /\ wanted[r] # NoId /\ idOf'[r] = wanted[r]
          /\ \A q \in Runs \ {r} : idOf'[q] = idOf[q]
      BY <1>2 DEF TakeWanted, StoreTypeOK
    <2>. QED  BY <2>1 DEF GeneratedIsUnique, Generated
  <1>3. ASSUME NEW r \in Runs, TakeShort(r) PROVE GeneratedIsUnique'
    <2>1. /\ UNCHANGED <<wanted, told>> /\ r \notin Remote /\ idOf'[r] \in ShortIds
          /\ \A q \in Runs \ {r} : idOf'[q] = idOf[q]
          /\ wanted[r] = NoId
      BY <1>3 DEF TakeShort, StoreTypeOK
    <2>. QED  BY <2>1 DEF GeneratedIsUnique, Generated
  <1>4. ASSUME NEW r \in Runs, RemoteAsk(r) PROVE GeneratedIsUnique'
    <2>1. /\ UNCHANGED wanted /\ told[r] = "nothing"
          /\ \A q \in Runs \ {r} : told'[q] = told[q]
      BY <1>4 DEF RemoteAsk, Tell, StoreTypeOK
    <2>2. CASE wanted[r] # NoId /\ UNCHANGED idOf
      BY <2>1, <2>2 DEF GeneratedIsUnique, Generated
    <2>3. CASE wanted[r] = NoId /\ ~UNCHANGED idOf
      <3>1. PICK i \in Ids \ ShortIds :
              /\ \A q \in Runs : wanted[q] # i /\ idOf[q] # i
              /\ idOf' = [idOf EXCEPT ![r] = i]
        BY <1>4, <2>3 DEF RemoteAsk
      <3>2. idOf'[r] = i /\ \A q \in Runs \ {r} : idOf'[q] = idOf[q]
        BY <3>1 DEF StoreTypeOK
      <3>3. \A q \in Runs \ {r} : Generated(q)' => Generated(q)
        BY <2>1 DEF Generated
      <3>4. \A q \in Runs : Generated(q) => wanted[r] # idOf[q]
        BY <2>1, <2>3 DEF GeneratedIsUnique, Generated
      <3>. QED  BY <2>1, <3>1, <3>2, <3>3, <3>4 DEF GeneratedIsUnique
    <2>4. CASE wanted[r] = NoId /\ UNCHANGED idOf
      <3>1. PICK i \in Ids \ ShortIds :
              /\ \A q \in Runs : wanted[q] # i /\ idOf[q] # i
              /\ idOf' = [idOf EXCEPT ![r] = i]
        BY <1>4, <2>4 DEF RemoteAsk
      <3>2. idOf[r] = i
        BY <2>4, <3>1 DEF StoreTypeOK
      <3>. QED  BY <3>1, <3>2
    <2>. QED  BY <1>4, <2>2, <2>3, <2>4 DEF RemoteAsk
  <1>5. CASE UNCHANGED vars \/ Ls \/ \E f \in Flaggers : Flag(f)
    BY <1>1, <1>5 DEF vars, runs, Ls, LsMeta, LsStatus, LsLabel, Flag, Resolve, WriteNote
  <1>6. ASSUME NEW p \in Pruners, Prune(p) PROVE GeneratedIsUnique'
    BY <1>1, <1>6 DEF runs, Prune, PruneList, PruneMeta, PruneStatus, PruneJudge, PruneFiles,
                      PruneDir, PruneSocket, PruneEnds, PruneMoves
  <1>7. ASSUME NEW r \in Runs, WorkerStep(r) PROVE GeneratedIsUnique'
    BY <1>1, <1>7 DEF WorkerStep, OpenMeta, WriteMeta, WriteStarting, WriteRunning, SetupFails,
                      Serve, RecordEnd, Cleanup, Crash, Record, Step
  <1>8. ASSUME NEW r \in Runs, TakeGiven(r) \/ SpawnWorker(r) PROVE GeneratedIsUnique'
    BY <1>1, <1>8 DEF TakeGiven, SpawnWorker
  <1>9. ASSUME NEW r \in Runs,
               RemoteArrives(r) \/ RemoteAnswer(r) \/ RemoteLost(r) \/ RemoteTimeout(r)
               \/ RemoteConfirm(r) \/ RemoteCut(r)
        PROVE GeneratedIsUnique'
    BY <1>1, <1>9 DEF RemoteArrives, RemoteAnswer, RemoteLost, RemoteTimeout, RemoteConfirm,
                      RemoteCut, Tell, StoreTypeOK
  <1>. QED
    BY <1>2, <1>3, <1>4, <1>5, <1>6, <1>7, <1>8, <1>9 DEF Next, Front, RemoteRun

\* Nobody has asked.
LEMMA AskedInStepInit == Init => AskedInStep
  BY StoreAssumption DEF Init, AskedInStep

\* A session that answers to a generated id is the one that was asked for.
LEMMA AskedInStepNext ==
  ASSUME StoreInv, [Next]_vars
  PROVE  AskedInStep'
  <1> USE DEF StoreInv
  <1>1. wanted' = wanted /\ \A r \in Runs : Begun(r) => Begun(r)'
    BY AllMoves DEF StoreMoves, RunMoves
  <1>2. CASE UNCHANGED <<front, told, cut>>
    BY <1>1, <1>2 DEF AskedInStep
  <1>3. ASSUME NEW r \in Runs, Front(r) PROVE AskedInStep'
    <2>1. /\ UNCHANGED <<told, cut>> /\ \A q \in Runs \ {r} : front'[q] = front[q]
          /\ front[r] \in {"idle", "checked"} /\ front'[r] \in {"checked", "done", "failed"}
      BY <1>3 DEF Front, TakeWanted, TakeShort, TakeGiven, SpawnWorker, StoreTypeOK
    <2>. QED  BY <1>1, <2>1 DEF AskedInStep
  <1>4. ASSUME NEW r \in Runs, RemoteAsk(r) PROVE AskedInStep'
    BY <1>1, <1>4 DEF RemoteAsk, Tell, AskedInStep, StoreTypeOK
  <1>5. ASSUME NEW r \in Runs, RemoteArrives(r) PROVE AskedInStep'
    BY <1>1, <1>5 DEF RemoteArrives, AskedInStep, StoreTypeOK
  <1>6. ASSUME NEW r \in Runs, RemoteAnswer(r) PROVE AskedInStep'
    BY <1>1, <1>6 DEF RemoteAnswer, Tell, AskedInStep, StoreTypeOK, RunsInStep
  <1>7. ASSUME NEW r \in Runs, RemoteLost(r) \/ RemoteTimeout(r) PROVE AskedInStep'
    BY <1>1, <1>7 DEF RemoteLost, RemoteTimeout, Tell, AskedInStep, StoreTypeOK
  <1>8. ASSUME NEW r \in Runs, RemoteConfirm(r) PROVE AskedInStep'
    <2>1. /\ told[r] = "confirm" /\ UNCHANGED <<front, cut>>
          /\ \A q \in Runs \ {r} : told'[q] = told[q]
      BY <1>8 DEF RemoteConfirm, Tell, StoreTypeOK
    <2>2. wanted[r] = NoId /\ Generated(r)
      BY <2>1 DEF AskedInStep, Generated
    <2>3. idOf[r] \in Ids /\ IdAsked(r) = idOf[r]
      BY <2>2 DEF GeneratedIsUnique, IdAsked
    <2>4. \A q \in Runs : idOf[q] = idOf[r] => q = r
      BY <2>2 DEF GeneratedIsUnique
    <2>5. \/ told'[r] = "created" /\ (sock[idOf[r]] # None \/ status[idOf[r]] # NoStatus)
          \/ told'[r] = "unknown"
      BY <1>8, <2>3 DEF RemoteConfirm, Tell, StoreTypeOK
    <2>6. sock[idOf[r]] # None \/ status[idOf[r]] # NoStatus => Begun(r)
      BY <2>3, <2>4 DEF FilesHaveOwners, StoreTypeOK
    <2>. QED  BY <1>1, <2>1, <2>2, <2>5, <2>6 DEF AskedInStep
  <1>9. ASSUME NEW r \in Runs, RemoteCut(r) PROVE AskedInStep'
    BY <1>1, <1>9 DEF RemoteCut, Tell, AskedInStep, StoreTypeOK
  <1>10. CASE \/ UNCHANGED vars \/ Ls
              \/ \E f \in Flaggers : Flag(f)
              \/ \E p \in Pruners : Prune(p)
              \/ \E r \in Runs : WorkerStep(r)
    <2>1. UNCHANGED <<front, told, cut>>
      BY <1>10 DEF vars, runs, Prune, PruneList, PruneMeta, PruneStatus, PruneJudge,
         PruneFiles, PruneDir, PruneSocket, PruneEnds, PruneMoves, Flag, Resolve, WriteNote,
         Ls, LsMeta, LsStatus, LsLabel, WorkerStep, OpenMeta, WriteMeta, WriteStarting,
         WriteRunning, SetupFails, Serve, RecordEnd, Cleanup, Crash, Record, Step
    <2>. QED  BY <1>2, <2>1
  <1>. QED
    BY <1>3, <1>4, <1>5, <1>6, <1>7, <1>8, <1>9, <1>10 DEF Next, RemoteRun

\* No worker has ended.
LEMMA EndIsKeptInit == Init => EndIsKept
  BY DEF Init, EndIsKept

\* The meta and the status of an ended session go together, and nobody else
\* writes them.
LEMMA EndIsKeptNext ==
  ASSUME StoreInv, [Next]_vars
  PROVE  EndIsKept'
  <1>1. StoreMoves
    BY AllMoves
  <1> SUFFICES ASSUME NEW r \in Runs, worker'[r] = "linger", meta'[idOf'[r]] = r,
                      SoleUser(r)', worker[r] = "linger"
               PROVE  status'[idOf[r]].state = "ended"
    <2>1. ASSUME NEW q \in Runs, worker'[q] = "linger" PROVE idOf'[q] = idOf[q]
      BY <1>1, <2>1 DEF StoreMoves, RunMoves, Begun
    <2>2. ASSUME NEW q \in Runs, worker'[q] = "linger", worker[q] # "linger"
          PROVE  status'[idOf[q]].state = "ended"
      BY <1>1, <2>2 DEF StoreMoves, WorkerLeaves
    <2>. QED  BY <2>1, <2>2 DEF EndIsKept
  <1> DEFINE i == idOf[r]
  <1>2. Begun(r) /\ i \in Ids /\ idOf'[r] = i /\ Done(r)'
    BY <1>1, IdsOfRuns DEF StoreInv, StoreMoves, RunMoves, Begun, Done
  <1>3. SoleUser(r)
    BY <1>1, <1>2, SoleBefore
  <1>4. meta[i] = r
    BY <1>1, <1>2, StoreAssumption DEF StoreMoves, MetaMoves
  <1>5. status[i].state = "ended"
    BY <1>2, <1>3, <1>4 DEF StoreInv, EndIsKept
  <1>6. CASE status'[i] = NoStatus /\ meta'[i] = None
    BY <1>2, <1>6, StoreAssumption
  <1>7. ASSUME NEW q \in Runs, idOf[q] = i, Begun(q), status'[i].by = q,
               status'[i].state = "ended" <=> Done(q)'
        PROVE  status'[i].state = "ended"
    <2>1. q = r
      BY <1>1, <1>2, <1>7, SoleBegun
    <2>. QED  BY <1>2, <1>7, <2>1
  <1>. QED  BY <1>1, <1>2, <1>5, <1>6, <1>7 DEF StoreMoves, StatusMoves

\* No listing has begun.
LEMMA ListingInStepInit == Init => ListingInStep /\ RowIsTrue
  BY DEF Init, ListingInStep, RowIsTrue

\* A listing that takes no step knows what it knew.
LEMMA ListingStays ==
  ASSUME StoreInv, [Next]_vars, UNCHANGED ls
  PROVE  ListingInStep' /\ RowIsTrue'
  <1>1. StoreMoves
    BY AllMoves
  <1>2. CASE ls.at \notin {"status", "label", "done"}
    BY <1>2 DEF ListingInStep, RowIsTrue
  <1>3. CASE ls.at \in {"status", "label", "done"}
    <2> DEFINE o == ls.owner
    <2>1. /\ ls.id \in Ids /\ o \in Runs /\ idOf[o] = ls.id
          /\ worker[o] \notin {"none", "boot", "named"} /\ Begun(o)
          /\ \A r \in ls.over : Done(r)
      BY <1>3 DEF StoreInv, ListingInStep, Begun
    <2>2. ls.over \subseteq Runs
      BY DEF StoreInv, StoreTypeOK, Row
    <2>3. /\ idOf'[o] = ls.id /\ worker'[o] \notin {"none", "boot", "named"}
          /\ \A r \in ls.over : Done(r)'
          /\ worker[o] = "gone" => worker'[o] = "gone"
      BY <1>1, <2>1, <2>2 DEF StoreMoves, RunMoves
    <2>4. meta'[ls.id] = o => meta[ls.id] = o
      BY <1>1, <2>1, StoreAssumption DEF StoreMoves, MetaMoves
    <2>5. SoleUser(o)' => SoleUser(o)
      BY <1>1, <2>1, SoleBefore
    <2>6. ListingInStep'
      BY <2>1, <2>3, <2>4, <2>5 DEF StoreInv, ListingInStep
    <2>7. ~PidAlive(o) => ~PidAlive(o)'
      BY <2>1, <2>3 DEF PidAlive
    <2>8. RowIsTrue'
      BY <2>4, <2>5, <2>7 DEF StoreInv, RowIsTrue
    <2>. QED  BY <2>6, <2>8
  <1>. QED  BY <1>2, <1>3

\* What a listing reads of the owner of the meta it has read is so, or the owner
\* has moved on since.
LEMMA ListingNext ==
  ASSUME StoreInv, [Next]_vars
  PROVE  ListingInStep' /\ RowIsTrue'
  <1>1. ls \in Row
    BY DEF StoreInv, StoreTypeOK
  <1>2. CASE LsMeta
    <2>1. PICK i \in Ids :
            /\ HasMeta(i)
            /\ ls' = [ls EXCEPT !.at = "status", !.id = i, !.owner = meta[i],
                        !.over = {r \in Runs : worker[r] \in {"linger", "gone"}}]
      BY <1>2 DEF LsMeta
    <2>2. ls'.at = "status" /\ ls'.id = i /\ ls'.owner = meta[i]
          /\ ls'.over = {r \in Runs : worker[r] \in {"linger", "gone"}}
      BY <1>1, <2>1 DEF Row
    <2>3. UNCHANGED <<idOf, worker>>
      BY <1>2 DEF LsMeta, runs
    <2>4. meta[i] \in Runs /\ idOf[meta[i]] = i /\ worker[meta[i]] \notin {"none", "boot", "named"}
      BY <2>1 DEF StoreInv, FilesHaveOwners, HasMeta
    <2>. QED  BY <2>2, <2>3, <2>4 DEF ListingInStep, RowIsTrue, Done
  <1>3. CASE LsStatus
    <2> DEFINE o == ls.owner
    <2>1. /\ ls.at = "status" /\ ls'.at = "label" /\ ls'.id = ls.id /\ ls'.owner = o
          /\ ls'.over = ls.over
          /\ status[ls.id].state = "ended" => ls'.state = "ended"
      BY <1>1, <1>3 DEF LsStatus, Row
    <2>2. UNCHANGED <<idOf, worker, meta>>
      BY <1>3 DEF LsStatus, runs, files
    <2>3. /\ ls.id \in Ids /\ o \in Runs /\ idOf[o] = ls.id
          /\ worker[o] \notin {"none", "boot", "named"}
          /\ \A r \in ls.over : Done(r)
      BY <2>1 DEF StoreInv, ListingInStep
    <2>4. o \in ls.over /\ meta[ls.id] = o /\ SoleUser(o) =>
            status[ls.id].state = "ended" \/ worker[o] = "gone"
      BY <2>3 DEF StoreInv, EndIsKept, Done
    <2>. QED  BY <2>1, <2>2, <2>3, <2>4 DEF ListingInStep, RowIsTrue, Done, SoleUser
  <1>4. CASE LsLabel
    <2> DEFINE o == ls.owner
    <2>1. /\ ls.at = "label" /\ ls'.at = "done" /\ ls'.id = ls.id /\ ls'.owner = o
          /\ ls'.over = ls.over /\ ls'.state = ls.state
          /\ ls'.alive <=> (ls.state # "ended" /\ PidAlive(o))
      BY <1>1, <1>4 DEF LsLabel, Row
    <2>2. UNCHANGED <<idOf, worker, meta>>
      BY <1>4 DEF LsLabel, runs, files
    <2>3. ListingInStep
      BY DEF StoreInv
    <2>. QED  BY <2>1, <2>2, <2>3 DEF ListingInStep, RowIsTrue, Done, SoleUser, PidAlive
  <1>5. CASE \/ UNCHANGED vars
             \/ \E f \in Flaggers : Flag(f)
             \/ \E p \in Pruners : Prune(p)
             \/ \E r \in Runs : Front(r) \/ WorkerStep(r) \/ RemoteRun(r)
    <2>1. UNCHANGED ls
      BY <1>5 DEF vars, users, Prune, PruneList, PruneMeta, PruneStatus, PruneJudge,
         PruneFiles, PruneDir, PruneSocket, PruneEnds, PruneMoves, Flag, Resolve, WriteNote,
         Front, TakeWanted, TakeShort, TakeGiven, SpawnWorker, WorkerStep, OpenMeta, WriteMeta,
         WriteStarting, WriteRunning, SetupFails, Serve, RecordEnd, Cleanup, Crash, Record,
         Step, RemoteRun, RemoteAsk, RemoteArrives, RemoteAnswer, RemoteLost, RemoteTimeout,
         RemoteConfirm, RemoteCut
    <2>. QED  BY <2>1, ListingStays
  <1>. QED  BY <1>2, <1>3, <1>4, <1>5 DEF Next, Ls

\* No worker serves.
LEMMA SocketKeptInit == Init => SocketKept
  BY DEF Init, SocketKept, Serving

\* Only a worker with the same id, or a prune that knows of one that has ended,
\* touches the socket of a worker.
LEMMA SocketKeptNext ==
  ASSUME StoreInv, [Next]_vars
  PROVE  SocketKept'
  <1>1. StoreMoves
    BY AllMoves
  <1> SUFFICES ASSUME NEW r \in Runs, Serving(r)', SoleUser(r)', Serving(r)
               PROVE  sock'[idOf[r]] = r
    <2>1. ASSUME NEW q \in Runs, Serving(q)' PROVE idOf'[q] = idOf[q]
      BY <1>1, <2>1 DEF StoreMoves, RunMoves, Begun, Serving
    <2>2. ASSUME NEW q \in Runs, Serving(q)', ~Serving(q) PROVE sock'[idOf[q]] = q
      BY <1>1, <2>2 DEF StoreMoves, WorkerLeaves
    <2>. QED  BY <2>1, <2>2 DEF SocketKept
  <1> DEFINE i == idOf[r]
  <1>2. Begun(r) /\ i \in Ids /\ idOf'[r] = i
    BY <1>1, IdsOfRuns DEF StoreInv, StoreMoves, RunMoves, Begun, Serving
  <1>3. SoleUser(r)
    BY <1>1, <1>2, SoleBefore
  <1>4. sock[i] = r
    BY <1>3 DEF StoreInv, SocketKept
  <1>5. ASSUME NEW q \in Runs, idOf'[q] = i, Done(q)' PROVE FALSE
    BY <1>2, <1>5 DEF SoleUser, Done, Serving
  <1>6. ASSUME NEW q \in Runs, idOf[q] = i, Begun(q) PROVE q = r
    BY <1>1, <1>2, <1>6, SoleBegun
  <1>7. \A j \in Ids : j = i => ~Ended(j)'
    BY <1>5 DEF Ended
  <1>8. worker'[r] # "gone"
    BY DEF Serving
  <1>. QED  BY <1>1, <1>2, <1>4, <1>6, <1>7, <1>8 DEF StoreMoves, SockMoves

-----------------------------------------------------------------------------
(***************************************************************************)
(* The theorems.                                                           *)
(***************************************************************************)

\* The invariant holds at the beginning.
LEMMA StoreInvInit == Init => StoreInv
  BY StoreTypeInit, RunsInStepInit, FilesHaveOwnersInit, PrunesJudgedInit,
     GeneratedIsUniqueInit, AskedInStepInit, EndIsKeptInit, ListingInStepInit, SocketKeptInit
     DEF StoreInv

\* Every step keeps the invariant.
LEMMA StoreInvNext == StoreInv /\ [Next]_vars => StoreInv'
  <1> SUFFICES ASSUME StoreInv, [Next]_vars PROVE StoreInv'
    OBVIOUS
  <1>1. StoreTypeOK'
    BY StoreTypeNext DEF StoreInv
  <1>. QED
    BY <1>1, RunsInStepNext, FilesHaveOwnersNext, PrunesJudgedNext, GeneratedIsUniqueNext,
       AskedInStepNext, EndIsKeptNext, ListingNext, SocketKeptNext DEF StoreInv

\* The invariant the others follow from.
THEOREM StoreInvariant == Spec => []StoreInv
  BY StoreInvInit, StoreInvNext, PTL DEF Spec

\* Type correctness: among others, nothing is in a directory that is not there.
THEOREM StoreTypes == Spec => []StoreTypeOK
  <1>1. StoreInv => StoreTypeOK
    BY DEF StoreInv
  <1>. QED  BY <1>1, StoreInvariant, PTL

\* A worker that serves can be reached by the name of its session, as long as
\* nobody else has used the name (control.rs, serve and cleanup; sub.rs, prune).
THEOREM SocketIsKept == Spec => []SocketKept
  <1>1. StoreInv => SocketKept
    BY DEF StoreInv
  <1>. QED  BY <1>1, StoreInvariant, PTL

\* What the user of a remote run is told is true, although requests and answers
\* may be lost, but for a failure that is told because a signal ended ssh or the
\* remote front end (main.rs, Run with --host; remote.rs, confirm_session).
THEOREM UserIsToldTheTruth == Spec => []ToldIsTrue
  <1>1. StoreInv => ToldIsTrue
    BY StoreAssumption DEF StoreInv, AskedInStep, RunsInStep, ToldIsTrue, Begun
  <1>. QED  BY <1>1, StoreInvariant, PTL

\* ls calls dead only what is gone, and alive only what had not ended before
\* (sub.rs, list; session.rs, is_owner_alive).
THEOREM RowsAreTrue == Spec => []RowIsTrue
  <1>1. StoreInv => RowIsTrue
    BY DEF StoreInv
  <1>. QED  BY <1>1, StoreInvariant, PTL
=============================================================================
