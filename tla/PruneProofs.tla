---------------------------- MODULE PruneProofs ----------------------------
(***************************************************************************)
(* What prune guarantees for every number of runs, prunes and ids: that a  *)
(* prune that has ended has left nothing that was over when it began, and  *)
(* that it empties no directory of a live session, unless the id was given *)
(* to two runs at once or another prune has been about.  Both follow from  *)
(* StoreInv and from what is known of an id that was never shared.         *)
(***************************************************************************)
EXTENDS SessionStoreProofs

\* A run of which nothing is left but perhaps a socket, and that writes no more.
Past(r) == Done(r) /\ meta[idOf[r]] # r /\ status[idOf[r]].by # r

\* Of two runs with an id that was never shared, one had gone when the other began.
Apart ==
    \A q, r \in Runs :
        q # r /\ Begun(q) /\ Begun(r) /\ idOf[q] = idOf[r] /\ idOf[r] \notin shared
            => Past(q) \/ Past(r)

\* A worker that lingers has recorded its end, next to its meta.
EndStands ==
    \A i \in Ids \ shared :
        meta[i] \in Runs /\ worker[meta[i]] = "linger" => status[i].state = "ended"

\* A prune still has to do with all that was over when it began.
Remains(p, i, r) ==
    \/ i \in prune[p].todo
    \/ /\ prune[p].at \in {"status", "judge"} /\ prune[p].id = i /\ prune[p].owner = r
       /\ prune[p].at = "judge" => prune[p].state = "ended" \/ worker[r] = "gone"
    \/ <<i, r>> \in prune[p].targets
OwedStill(p) ==
    /\ prune[p].at \in {"off", "idle"} => prune[p].owed = {}
    /\ prune[p].at \in {"rmdir", "socket", "done"} => prune[p].todo = {}
    /\ prune[p].at = "done" => prune[p].targets = {}
    /\ \A t \in prune[p].owed : worker[t[2]] \notin {"none", "boot", "named"}
    /\ \A t \in prune[p].owed :
        \/ t[1] \in shared \/ meta[t[1]] # t[2]
        \/ Done(t[2]) /\ Remains(p, t[1], t[2])
OwedRemain == \A p \in Pruners : OwedStill(p)

\* As long as a prune is the only one, what it has looked at stays as it was.
Alone(p) == \A q \in Pruners \ {p} : prune[q].at \in {"off", "idle"}
TargetStands(p) ==
    /\ prune[p].at \in {"off", "idle"} => prune[p].targets = {}
    /\ prune[p].at \in {"status", "judge"} /\ prune[p].id \notin shared =>
        /\ meta[prune[p].id] = prune[p].owner
        /\ prune[p].at = "judge" /\ prune[p].state = "ended" => Done(prune[p].owner)
    /\ \A t \in prune[p].targets :
        t[1] \in shared \/ (meta[t[1]] = t[2] /\ Done(t[2]))
TargetsStand == \A p \in Pruners : Alone(p) => TargetStands(p)

PruneInv == StoreInv /\ Apart /\ EndStands /\ OwedRemain /\ TargetsStand

-----------------------------------------------------------------------------
(***************************************************************************)
(* Runs with the same id.                                                  *)
(***************************************************************************)

\* Only one run begins in a step, and an id that is not shared by it is free.
LEMMA BeginsApart ==
  ASSUME StoreInv, [Next]_vars, NEW r \in Runs, ~Begun(r), Begun(r)'
  PROVE  /\ \A q \in Runs \ {r} : Begun(q)' => Begun(q)
         /\ \/ idOf[r] \in shared'
            \/ ~dir[idOf[r]] /\ \A q \in Runs : ~Uses(q, idOf[r])
         /\ UNCHANGED files /\ idOf[r] \in Ids
  <1>1. SpawnWorker(r)
    <2>1. \A q \in Runs \ {r} : SpawnWorker(q) => worker'[r] = worker[r]
      BY DEF SpawnWorker, StoreInv, StoreTypeOK
    <2>2. ASSUME NEW q \in Runs, WorkerStep(q) PROVE worker'[r] = worker[r]
      <3>1. Begun(q)
        BY <2>2 DEF WorkerStep, OpenMeta, WriteMeta, WriteStarting, WriteRunning, SetupFails,
                    Serve, RecordEnd, Cleanup, Crash, Record, Step, PidAlive, Begun
      <3>. QED
        BY <2>2, <3>1 DEF WorkerStep, OpenMeta, WriteMeta, WriteStarting, WriteRunning,
           SetupFails, Serve, RecordEnd, Cleanup, Crash, Record, Step, StoreInv, StoreTypeOK
    <2>3. worker'[r] # worker[r]
      BY DEF Begun
    <2>. QED
      BY <2>1, <2>2, <2>3 DEF Next, vars, runs, Front, TakeWanted, TakeShort, TakeGiven,
         RemoteRun, RemoteAsk, RemoteArrives, RemoteAnswer, RemoteLost, RemoteTimeout,
         RemoteConfirm, RemoteCut, Prune, PruneList, PruneMeta, PruneStatus, PruneJudge, PruneFiles,
         PruneDir, PruneSocket, PruneEnds, PruneMoves, Flag, Resolve, WriteNote, Ls, LsMeta,
         LsStatus, LsLabel
  <1>2. \A q \in Runs \ {r} : worker'[q] = worker[q]
    BY <1>1 DEF SpawnWorker, StoreInv, StoreTypeOK
  <1>3. /\ \/ idOf[r] \in shared'
           \/ ~dir[idOf[r]] /\ \A q \in Runs : ~Uses(q, idOf[r])
        /\ UNCHANGED files
    BY <1>1 DEF SpawnWorker, Begun
  <1>4. idOf[r] \in Ids
    BY <1>1 DEF SpawnWorker, StoreInv, RunsInStep
  <1>. QED  BY <1>2, <1>3, <1>4 DEF Begun

\* An id that was shared stays so.
LEMMA SharedGrows ==
  ASSUME StoreInv, [Next]_vars
  PROVE  shared \subseteq shared'
  BY DEF Next, vars, users, Front, TakeWanted, TakeShort, TakeGiven, SpawnWorker, WorkerStep,
     OpenMeta, WriteMeta, WriteStarting, WriteRunning, SetupFails, Serve, RecordEnd, Cleanup,
     Crash, Record, Step, RemoteRun, RemoteAsk, RemoteArrives, RemoteAnswer, RemoteLost,
     RemoteTimeout, RemoteConfirm, RemoteCut, Prune, PruneList, PruneMeta, PruneStatus, PruneJudge,
     PruneFiles, PruneDir, PruneSocket, PruneEnds, PruneMoves, Flag, Resolve, WriteNote, Ls,
     LsMeta, LsStatus, LsLabel

\* A run that is past stays so.
LEMMA PastStays ==
  ASSUME StoreInv, [Next]_vars, NEW r \in Runs, Past(r)
  PROVE  Past(r)'
  <1>1. StoreMoves
    BY AllMoves
  <1> DEFINE i == idOf[r]
  <1>2. Done(r) /\ Done(r)' /\ idOf'[r] = i /\ i \in Ids
    BY <1>1, IdsOfRuns DEF StoreInv, StoreMoves, RunMoves, Past, Done, Begun
  <1>3. meta'[i] # r
    BY <1>1, <1>2, StoreAssumption DEF StoreMoves, MetaMoves, Past, Done
  <1>4. status'[i].by # r
    BY <1>1, <1>2, StoreAssumption DEF StoreMoves, StatusMoves, Past, NoStatus
  <1>. QED  BY <1>2, <1>3, <1>4 DEF Past

\* Every step keeps apart those who were, and a new run begins apart.
LEMMA ApartNext ==
  ASSUME StoreInv, Apart, [Next]_vars
  PROVE  Apart'
  <1>1. StoreMoves /\ shared \subseteq shared'
    BY AllMoves, SharedGrows
  <1>2. \A q \in Runs : Begun(q)' => idOf'[q] = idOf[q]
    BY <1>1 DEF StoreMoves, RunMoves
  \* One begins where the other is gone already.
  <1>3. ASSUME NEW q \in Runs, NEW r \in Runs, q # r, Begun(q)', ~Begun(r), Begun(r)',
               idOf[q] = idOf[r], idOf[r] \notin shared'
        PROVE  Past(q)'
    <2>1. /\ Begun(q) /\ idOf[r] \in Ids
          /\ ~dir[idOf[r]] /\ ~Uses(q, idOf[r])
      BY <1>3, BeginsApart
    <2>2. Done(q)
      BY <1>3, <2>1 DEF Uses, Done, Begun
    <2>3. meta[idOf[q]] = None /\ status[idOf[q]] = NoStatus
      BY <1>3, <2>1 DEF StoreInv, StoreTypeOK
    <2>4. Past(q)
      BY <2>2, <2>3, StoreAssumption DEF Past, NoStatus
    <2>. QED  BY <2>4, PastStays
  <1> SUFFICES ASSUME NEW q \in Runs, NEW r \in Runs, q # r, Begun(q)', Begun(r)',
                      idOf[q] = idOf[r], idOf[r] \notin shared'
               PROVE  Past(q)' \/ Past(r)'
    BY <1>2 DEF Apart
  <1>4. CASE Begun(q) /\ Begun(r)
    <2>1. Past(q) \/ Past(r)
      BY <1>1, <1>4 DEF Apart
    <2>. QED  BY <2>1, PastStays
  <1>. QED  BY <1>3, <1>4

\* The run whose meta is there is not past, so every other one with its id is.
LEMMA OthersPast ==
  ASSUME StoreInv, Apart, NEW i \in Ids, i \notin shared, meta[i] \in Runs,
         NEW q \in Runs, q # meta[i], Begun(q), idOf[q] = i
  PROVE  Past(q)
  BY DEF Apart, Past, StoreInv, FilesHaveOwners, HasMeta, Begun

\* An end that is recorded next to a meta is the end of its run.
LEMMA EndOfOwner ==
  ASSUME StoreInv, Apart, NEW i \in Ids, i \notin shared, meta[i] \in Runs,
         status[i].state = "ended"
  PROVE  Done(meta[i])
  <1>1. status[i] # NoStatus
    BY DEF NoStatus
  <1> DEFINE q == status[i].by
  <1>2. q \in Runs /\ idOf[q] = i /\ Begun(q) /\ Done(q)
    BY <1>1 DEF StoreInv, FilesHaveOwners
  <1>3. ~Past(q)
    BY <1>2 DEF Past
  <1>. QED  BY <1>2, <1>3, OthersPast

\* Only the owner of a meta writes the status next to it.
LEMMA EndStandsNext ==
  ASSUME StoreInv, Apart, EndStands, [Next]_vars
  PROVE  EndStands'
  <1>1. StoreMoves /\ shared \subseteq shared' /\ FilesHaveOwners'
    BY AllMoves, SharedGrows, FilesHaveOwnersNext
  <1> SUFFICES ASSUME NEW i \in Ids, i \notin shared', meta'[i] \in Runs,
                      worker'[meta'[i]] = "linger"
               PROVE  status'[i].state = "ended"
    BY DEF EndStands
  <1>2. PICK r \in Runs : meta'[i] = r
    OBVIOUS
  <1>3. i \notin shared /\ idOf[r] = i /\ Done(r)'
    BY <1>1, <1>2 DEF FilesHaveOwners, HasMeta, StoreMoves, RunMoves, Begun, Done
  <1>4. CASE worker[r] # "linger"
    BY <1>1, <1>2, <1>3, <1>4 DEF StoreMoves, WorkerLeaves
  <1>5. CASE worker[r] = "linger"
    <2>1. meta[i] = r
      BY <1>1, <1>2, <1>5, StoreAssumption DEF StoreMoves, MetaMoves
    <2>2. status[i].state = "ended"
      BY <1>3, <1>5, <2>1 DEF EndStands
    <2>3. ASSUME NEW q \in Runs, idOf[q] = i, Begun(q), ~Done(q) PROVE FALSE
      <3>1. q # r
        BY <1>5, <2>3 DEF Done
      <3>. QED  BY <1>3, <2>1, <2>3, <3>1, OthersPast DEF Past
    <2>. QED  BY <1>1, <1>2, <2>2, <2>3, StoreAssumption DEF StoreMoves, StatusMoves
  <1>. QED  BY <1>4, <1>5

-----------------------------------------------------------------------------
(***************************************************************************)
(* What a prune is still to remove.                                        *)
(***************************************************************************)

\* A session that was recorded and is not there any more does not come back.
LEMMA OwedStays ==
  ASSUME StoreInv, [Next]_vars, NEW t \in Ids \X Runs,
         worker[t[2]] \notin {"none", "boot", "named"}, t[1] \notin shared', meta'[t[1]] = t[2]
  PROVE  /\ t[1] \notin shared /\ meta[t[1]] = t[2]
         /\ worker'[t[2]] \notin {"none", "boot", "named"}
         /\ Done(t[2]) => Done(t[2])'
  BY AllMoves, SharedGrows, StoreAssumption DEF StoreMoves, RunMoves, MetaMoves

\* A prune meets, judges and removes what it owes, or somebody else has removed it.
LEMMA OwedRemainNext ==
  ASSUME PruneInv, [Next]_vars
  PROVE  OwedRemain'
  <1> USE DEF PruneInv
  <1> SUFFICES ASSUME NEW p \in Pruners PROVE OwedStill(p)'
    BY DEF OwedRemain
  <1>1. /\ StoreTypeOK /\ OwedStill(p) /\ PruneJudged(p)
        /\ prune[p] \in Pruning /\ prune[p].owed \subseteq Ids \X Runs
    BY DEF StoreInv, StoreTypeOK, Pruning, OwedRemain, PrunesJudged
  <1>2. \A t \in prune[p].owed : worker'[t[2]] \notin {"none", "boot", "named"}
    BY <1>1, AllMoves DEF OwedStill, StoreMoves, RunMoves
  <1>3. ASSUME NEW t \in prune[p].owed, t[1] \notin shared', meta'[t[1]] = t[2]
        PROVE  /\ t \in Ids \X Runs /\ t[1] \notin shared /\ meta[t[1]] = t[2]
               /\ Done(t[2]) /\ Done(t[2])' /\ Remains(p, t[1], t[2])
               /\ worker[t[2]] = "gone" => worker'[t[2]] = "gone"
    BY <1>1, <1>3, OwedStays, AllMoves DEF OwedStill, StoreMoves, RunMoves
  <1>4. CASE prune'[p] = prune[p]
    <2>1. ASSUME NEW t \in prune[p].owed, t[1] \notin shared', meta'[t[1]] = t[2]
          PROVE  Remains(p, t[1], t[2])'
      BY <1>3, <1>4, <2>1 DEF Remains
    <2>. QED  BY <1>1, <1>2, <1>3, <1>4, <2>1 DEF OwedStill
  \* The prune goes on with what it owes.
  <1>5. ASSUME prune'[p].owed = prune[p].owed, prune'[p].at \notin {"off", "idle"},
               prune'[p].at \in {"rmdir", "socket", "done"} => prune'[p].todo = {},
               prune'[p].at = "done" => prune'[p].targets = {},
               \A t \in prune[p].owed :
                    t[1] \notin shared' /\ meta'[t[1]] = t[2] => Remains(p, t[1], t[2])'
        PROVE  OwedStill(p)'
    BY <1>2, <1>3, <1>5 DEF OwedStill
  <1>6. CASE PruneList(p)
    <2>1. UNCHANGED <<worker, meta, shared, dir>>
      BY <1>6 DEF PruneList, PruneMoves, runs, files
    <2>2. ASSUME NEW i \in Ids, HasMeta(i), Over(i)
          PROVE  /\ dir[i] /\ worker[meta[i]] \notin {"none", "boot", "named"}
                 /\ i \in shared \/ Done(meta[i])
      <3>1. dir[i] /\ worker[meta[i]] \notin {"none", "boot", "named"}
        BY <2>2, StoreAssumption DEF StoreInv, StoreTypeOK, FilesHaveOwners, HasMeta
      <3>2. CASE status[i].state = "ended"
        BY <2>2, <3>1, <3>2, EndOfOwner DEF HasMeta
      <3>3. CASE ~PidAlive(meta[i])
        BY <3>1, <3>3 DEF PidAlive, Done
      <3>. QED  BY <2>2, <3>1, <3>2, <3>3 DEF Over
    <2>3. ASSUME NEW t \in prune'[p].owed
          PROVE  /\ t[1] \in prune'[p].todo /\ worker[t[2]] \notin {"none", "boot", "named"}
                 /\ t[1] \in shared \/ Done(t[2])
      <3>1. PICK i \in Ids : HasMeta(i) /\ Over(i) /\ t = <<i, meta[i]>>
        BY <1>1, <1>6, <2>3, ListFields
      <3>2. t[1] = i /\ t[2] = meta[i]
        BY <3>1
      <3>. QED  BY <1>1, <1>6, <2>2, <3>1, <3>2, ListFields
    <2>4. \A t \in prune'[p].owed : Remains(p, t[1], t[2])'
      BY <2>3 DEF Remains
    <2>5. prune'[p].at = "meta"
      BY <1>1, <1>6, ListFields
    <2>. QED  BY <2>1, <2>3, <2>4, <2>5 DEF OwedStill, Done
  <1>7. CASE PruneMeta(p)
    <2>1. PICK i \in Ids :
            /\ prune[p].at = "meta"
            /\ prune'[p].at = IF HasMeta(i) THEN "status" ELSE "meta"
            /\ prune'[p].id = IF HasMeta(i) THEN i ELSE None
            /\ prune'[p].owner = IF HasMeta(i) THEN meta[i] ELSE None
            /\ prune'[p].todo = prune[p].todo \ {i}
            /\ prune'[p].targets = prune[p].targets /\ prune'[p].owed = prune[p].owed
      BY <1>1, <1>7, MetaFields
    <2>2. ASSUME NEW t \in prune[p].owed, t[1] \notin shared', meta'[t[1]] = t[2]
          PROVE  Remains(p, t[1], t[2])'
      <3>1. t[2] \in Runs /\ meta[t[1]] = t[2] /\ Remains(p, t[1], t[2])
        BY <1>3, <2>2
      <3>. QED  BY <2>1, <3>1 DEF Remains, HasMeta
    <2>. QED  BY <1>5, <2>1, <2>2
  <1>8. CASE PruneStatus(p)
    <2>1. UNCHANGED worker
      BY <1>8 DEF PruneStatus, PruneMoves, runs
    <2>2. ASSUME NEW t \in prune[p].owed, t[1] \notin shared', meta'[t[1]] = t[2]
          PROVE  Remains(p, t[1], t[2])'
      <3>1. /\ t \in Ids \X Runs /\ t[1] \notin shared /\ meta[t[1]] = t[2]
            /\ Done(t[2]) /\ Remains(p, t[1], t[2])
        BY <1>3, <2>2
      <3>2. status[t[1]].state = "ended" \/ worker[t[2]] = "gone"
        BY <3>1 DEF EndStands, Done
      <3>. QED  BY <1>1, <1>8, <2>1, <3>1, <3>2, StatusFields DEF Remains
    <2>. QED  BY <1>1, <1>5, <1>8, <2>2, StatusFields
  <1>9. CASE PruneJudge(p)
    <2>1. ASSUME NEW t \in prune[p].owed, t[1] \notin shared', meta'[t[1]] = t[2]
          PROVE  Remains(p, t[1], t[2])'
      <3>1. t \in Ids \X Runs /\ Remains(p, t[1], t[2])
        BY <1>3, <2>1
      <3>2. CASE prune[p].id = t[1] /\ prune[p].owner = t[2]
                 /\ (prune[p].state = "ended" \/ worker[t[2]] = "gone")
        <4>1. Doomed(prune[p].state, PidAlive(prune[p].owner))
          BY <3>2 DEF Doomed, PidAlive
        <4>2. <<t[1], t[2]>> \in prune'[p].targets
          BY <1>1, <1>9, <3>2, <4>1, JudgeFields
        <4>. QED  BY <4>2 DEF Remains
      <3>3. CASE t[1] \in prune[p].todo \/ <<t[1], t[2]>> \in prune[p].targets
        BY <1>1, <1>9, <3>3, JudgeFields DEF Remains
      <3>. QED  BY <1>1, <1>9, <3>1, <3>2, <3>3, JudgeFields DEF Remains
    <2>. QED  BY <1>1, <1>5, <1>9, <2>1, JudgeFields
  <1>10. CASE PruneFiles(p)
    <2>1. PICK u \in prune[p].targets :
            /\ prune[p].at = "meta" /\ prune[p].todo = {} /\ u \in Ids \X Runs
            /\ prune'[p].at \in {"rmdir", "meta"}
            /\ prune'[p].todo = {} /\ prune'[p].owed = prune[p].owed
            /\ prune'[p].targets = prune[p].targets \ {u}
            /\ meta'[u[1]] = None
      BY <1>1, <1>10, FilesFields
    <2>2. ASSUME NEW t \in prune[p].owed, t[1] \notin shared', meta'[t[1]] = t[2]
          PROVE  Remains(p, t[1], t[2])'
      <3>1. t \in Ids \X Runs /\ Remains(p, t[1], t[2])
        BY <1>3, <2>2
      <3>2. <<t[1], t[2]>> \in prune[p].targets
        BY <2>1, <3>1 DEF Remains
      <3>3. <<t[1], t[2]>> # u
        BY <2>1, <2>2, <3>1, StoreAssumption
      <3>. QED  BY <2>1, <3>2, <3>3 DEF Remains
    <2>. QED  BY <1>5, <2>1, <2>2
  <1>11. CASE PruneDir(p) \/ PruneSocket(p) \/ PruneEnds(p)
    <2>1. ASSUME NEW t \in prune[p].owed, t[1] \notin shared', meta'[t[1]] = t[2]
          PROVE  Remains(p, t[1], t[2])'
      BY <1>1, <1>3, <1>11, <2>1, LastFields DEF Remains
    <2>2. /\ prune'[p].owed = prune[p].owed /\ prune'[p].at \notin {"off", "idle"}
          /\ prune'[p].at \in {"rmdir", "socket", "done"} => prune'[p].todo = {}
          /\ prune'[p].at = "done" => prune'[p].targets = {}
      BY <1>1, <1>11, LastFields DEF OwedStill
    <2>. QED  BY <1>5, <2>1, <2>2
  <1>12. prune'[p] # prune[p] => Prune(p)
    BY PruneOfStep DEF StoreInv
  <1>. QED
    BY <1>4, <1>6, <1>7, <1>8, <1>9, <1>10, <1>11, <1>12 DEF Prune

\* A prune that has begun does not look as if it had not.
LEMMA PruneBegins ==
  ASSUME StoreInv, [Next]_vars, NEW p \in Pruners, prune'[p].at \in {"off", "idle"}
  PROVE  prune'[p] = prune[p] /\ prune[p].at \in {"off", "idle"} /\ ~Prune(p)
  <1>1. ~Prune(p)
    BY ListFields, MetaFields, StatusFields, JudgeFields, FilesFields, LastFields
       DEF Prune, StoreInv
  <1>. QED  BY <1>1, PruneOfStep DEF StoreInv

\* Without a prune, nothing happens to the meta of a session whose id only one
\* run uses.
LEMMA MetaKept ==
  ASSUME StoreInv, Apart, [Next]_vars, \A p \in Pruners : ~Prune(p),
         NEW i \in Ids, i \notin shared, meta[i] \in Runs
  PROVE  meta'[i] = meta[i]
  <1>1. ASSUME NEW q \in Runs, worker[q] \in {"boot", "named"}, idOf[q] = i PROVE FALSE
    <2>1. q # meta[i]
      BY <1>1 DEF StoreInv, FilesHaveOwners, HasMeta
    <2>. QED  BY <1>1, <2>1, OthersPast DEF Past, Done, Begun
  <1>2. ASSUME NEW q \in Runs, WorkerStep(q) PROVE meta'[i] = meta[i]
    <2>1. CASE OpenMeta(q)
      BY <1>1, <2>1 DEF OpenMeta, Step, StoreInv, StoreTypeOK
    <2>2. CASE WriteMeta(q)
      BY <1>1, <2>2 DEF WriteMeta, Step, StoreInv, StoreTypeOK
    <2>. QED
      BY <1>2, <2>1, <2>2 DEF WorkerStep, WriteStarting, WriteRunning, SetupFails, Serve,
         RecordEnd, Cleanup, Crash, Record
  <1>. QED
    BY <1>2 DEF Next, vars, files, Front, TakeWanted, TakeShort, TakeGiven, SpawnWorker,
       RemoteRun, RemoteAsk, RemoteArrives, RemoteAnswer, RemoteLost, RemoteTimeout,
       RemoteConfirm, RemoteCut, Flag, Resolve, WriteNote, Ls, LsMeta, LsStatus, LsLabel

\* Only the prune itself changes what it has looked at.
LEMMA TargetsStandNext ==
  ASSUME PruneInv, [Next]_vars
  PROVE  TargetsStand'
  <1> USE DEF PruneInv
  <1> SUFFICES ASSUME NEW p \in Pruners, Alone(p)' PROVE TargetStands(p)'
    BY DEF TargetsStand
  <1>1. \A q \in Pruners \ {p} : ~Prune(q) /\ prune[q].at \in {"off", "idle"}
    BY PruneBegins DEF Alone
  <1>2. TargetStands(p)
    BY <1>1 DEF TargetsStand, Alone
  <1>3. /\ StoreTypeOK /\ prune[p] \in Pruning /\ PruneJudged(p)
        /\ prune[p].targets \subseteq Ids \X Runs
    BY DEF StoreInv, StoreTypeOK, Pruning, PrunesJudged
  <1>4. StoreMoves /\ shared \subseteq shared'
    BY AllMoves, SharedGrows
  <1>5. CASE ~Prune(p)
    <2>1. prune'[p] = prune[p] /\ \A q \in Pruners : ~Prune(q)
      BY <1>1, <1>3, <1>5, PruneOfStep DEF StoreInv
    <2>2. ASSUME NEW i \in Ids, NEW r \in Runs, i \notin shared', meta[i] = r
          PROVE  meta'[i] = r /\ (Done(r) => Done(r)')
      <3>1. meta'[i] = meta[i]
        BY <1>4, <2>1, <2>2, MetaKept
      <3>. QED  BY <1>4, <2>2, <3>1 DEF StoreMoves, RunMoves
    <2>3. ASSUME NEW t \in prune[p].targets, t[1] \notin shared'
          PROVE  meta'[t[1]] = t[2] /\ Done(t[2])'
      BY <1>2, <1>3, <1>4, <2>2, <2>3 DEF TargetStands
    <2>4. ASSUME prune[p].at \in {"status", "judge"}, prune[p].id \notin shared'
          PROVE  /\ meta'[prune[p].id] = prune[p].owner
                 /\ prune[p].at = "judge" /\ prune[p].state = "ended" => Done(prune[p].owner)'
      <3>1. prune[p].id \in Ids /\ prune[p].owner \in Runs
        BY <1>3, <2>4 DEF PruneJudged
      <3>2. /\ meta[prune[p].id] = prune[p].owner
            /\ prune[p].at = "judge" /\ prune[p].state = "ended" => Done(prune[p].owner)
        BY <1>2, <1>4, <2>4 DEF TargetStands
      <3>3. ASSUME NEW i \in Ids, NEW r \in Runs, i = prune[p].id, r = prune[p].owner
            PROVE  meta'[i] = r /\ (Done(r) => Done(r)')
        BY <2>2, <2>4, <3>2, <3>3
      <3>. QED  BY <2>1, <3>1, <3>2, <3>3 DEF Done
    <2>. QED  BY <1>2, <2>1, <2>3, <2>4 DEF TargetStands, Done
  <1>6. CASE Prune(p)
    <2>1. UNCHANGED <<runs, shared>>
      BY <1>6 DEF Prune, PruneList, PruneMeta, PruneStatus, PruneJudge, PruneFiles, PruneDir,
                  PruneSocket, PruneEnds, PruneMoves
    <2>2. \A r : Done(r) => Done(r)'
      BY <2>1 DEF Done, runs
    <2>3. UNCHANGED meta \/ PruneFiles(p)
      BY <1>6 DEF Prune, PruneList, PruneMeta, PruneStatus, PruneJudge, PruneDir, PruneSocket,
                  PruneEnds, files
    <2>4. prune'[p].at \notin {"off", "idle"}
      BY <1>6, PruneBegins
    <2>5. CASE PruneList(p)
      BY <1>2, <1>3, <2>5, ListFields DEF TargetStands
    <2>6. CASE PruneMeta(p)
      <3>1. UNCHANGED meta
        BY <2>6 DEF PruneMeta, files
      <3>. QED
        BY <1>2, <1>3, <2>1, <2>2, <2>4, <2>6, <3>1, MetaFields DEF TargetStands
    <2>7. CASE PruneStatus(p)
      <3>1. UNCHANGED meta
        BY <2>7 DEF PruneStatus, files
      <3>2. ASSUME prune[p].id \notin shared
            PROVE  /\ meta[prune[p].id] = prune[p].owner
                   /\ status[prune[p].id].state = "ended" => Done(prune[p].owner)
        BY <1>2, <1>3, <2>7, <3>2, StatusFields, EndOfOwner DEF TargetStands, PruneJudged
      <3>. QED
        BY <1>2, <1>3, <2>1, <2>2, <2>7, <3>1, <3>2, StatusFields DEF TargetStands, Done, runs
    <2>8. CASE PruneJudge(p)
      <3>1. UNCHANGED meta
        BY <2>8 DEF PruneJudge, files
      <3>2. Doomed(prune[p].state, PidAlive(prune[p].owner)) =>
                prune[p].id \in shared
                \/ (meta[prune[p].id] = prune[p].owner /\ Done(prune[p].owner))
        BY <1>2, <1>3, <2>8, JudgeFields
           DEF TargetStands, PruneJudged, Doomed, PidAlive, Done, Begun
      <3>3. ASSUME NEW t \in prune'[p].targets
            PROVE  t[1] \in shared \/ (meta[t[1]] = t[2] /\ Done(t[2]))
        <4>1. \/ t \in prune[p].targets
              \/ /\ t = <<prune[p].id, prune[p].owner>>
                 /\ Doomed(prune[p].state, PidAlive(prune[p].owner))
          BY <1>3, <2>8, <3>3, JudgeFields
        <4>2. t = <<prune[p].id, prune[p].owner>> => t[1] = prune[p].id /\ t[2] = prune[p].owner
          OBVIOUS
        <4>. QED  BY <1>2, <3>2, <4>1, <4>2 DEF TargetStands
      <3>. QED  BY <1>3, <2>1, <2>2, <2>8, <3>1, <3>3, JudgeFields DEF TargetStands
    <2>9. CASE PruneFiles(p)
      <3>1. PICK u \in prune[p].targets :
              /\ u \in Ids \X Runs /\ prune'[p].at \in {"rmdir", "meta"}
              /\ prune'[p].targets = prune[p].targets \ {u}
              /\ \A i \in Ids \ {u[1]} : meta'[i] = meta[i]
        BY <1>3, <2>9, FilesFields
      <3>2. ASSUME NEW t \in prune'[p].targets, t[1] \notin shared
            PROVE  meta'[t[1]] = t[2] /\ Done(t[2])
        <4>1. t \in Ids \X Runs /\ t # u /\ meta[t[1]] = t[2] /\ Done(t[2])
          BY <1>2, <1>3, <3>1, <3>2 DEF TargetStands
        <4>2. t[1] # u[1]
          BY <1>2, <3>1, <3>2, <4>1 DEF TargetStands
        <4>. QED  BY <3>1, <4>1, <4>2
      <3>. QED  BY <2>1, <2>2, <3>1, <3>2 DEF TargetStands
    <2>10. CASE PruneDir(p) \/ PruneSocket(p) \/ PruneEnds(p)
      BY <1>2, <1>3, <2>1, <2>2, <2>10, LastFields DEF TargetStands
    <2>. QED
      BY <1>6, <2>5, <2>6, <2>7, <2>8, <2>9, <2>10 DEF Prune
  <1>. QED  BY <1>5, <1>6

-----------------------------------------------------------------------------
(***************************************************************************)
(* The theorems.                                                           *)
(***************************************************************************)

\* The invariant holds at the beginning.
LEMMA PruneInvInit == Init => PruneInv
  <1> SUFFICES ASSUME Init PROVE PruneInv
    OBVIOUS
  <1>1. StoreInv
    BY StoreInvInit
  <1>2. Apart /\ EndStands
    BY StoreAssumption DEF Init, Apart, EndStands, Begun
  <1>3. \A p \in Pruners : /\ prune[p].at \in {"off", "idle"} /\ prune[p].owed = {}
                           /\ prune[p].targets = {}
    BY DEF Init
  <1>4. OwedRemain /\ TargetsStand
    BY <1>3 DEF OwedRemain, OwedStill, TargetsStand, TargetStands
  <1>. QED  BY <1>1, <1>2, <1>4 DEF PruneInv

\* Every step keeps the invariant.
LEMMA PruneInvNext == PruneInv /\ [Next]_vars => PruneInv'
  BY StoreInvNext, ApartNext, EndStandsNext, OwedRemainNext, TargetsStandNext DEF PruneInv

\* The invariant the two theorems follow from.
THEOREM PruneInvariant == Spec => []PruneInv
  BY PruneInvInit, PruneInvNext, PTL DEF Spec

\* A prune that has ended has left no session that was over when it began,
\* however early its worker died and whatever the others do meanwhile (sub.rs,
\* prune).
THEOREM PruneIsComplete == Spec => []PruneComplete
  <1>1. PruneInv => PruneComplete
    BY DEF PruneInv, OwedRemain, OwedStill, Remains, PruneComplete
  <1>. QED  BY <1>1, PruneInvariant, PTL

\* prune does not empty the directory of a live session, unless its id was given
\* to two runs at once or another prune has been about (sub.rs, prune).
THEOREM LiveAreSpared == Spec => LiveSpared
  <1> DEFINE Spares ==
        \A p \in Pruners, i \in Ids :
            /\ prune[p].at = "meta" /\ prune'[p].at = "rmdir" /\ prune'[p].id = i
            /\ HasMeta(i) /\ Live(meta[i])
            => i \in shared \/ \E q \in Pruners \ {p} : prune[q].at \notin {"off", "idle"}
  <1>1. PruneInv /\ [Next]_vars => Spares
    <2> SUFFICES ASSUME PruneInv, [Next]_vars, NEW p \in Pruners, NEW i \in Ids,
                        prune[p].at = "meta", prune'[p].at = "rmdir", prune'[p].id = i,
                        HasMeta(i), Live(meta[i]), Alone(p)
                 PROVE  i \in shared
      BY DEF Alone
    <2>1. StoreTypeOK /\ TargetStands(p)
      BY DEF PruneInv, StoreInv, TargetsStand
    <2>2. Prune(p)
      BY PruneOfStep DEF PruneInv, StoreInv
    <2>3. PruneFiles(p)
      BY <2>1, <2>2, ListFields, MetaFields, StatusFields, JudgeFields, LastFields DEF Prune
    <2>4. PICK t \in prune[p].targets : t[1] = i
      BY <2>1, <2>3, FilesFields
    <2>. QED  BY <2>1, <2>4 DEF TargetStands, Live, Done
  <1>2. Spares => [Spares]_vars
    OBVIOUS
  <1>. QED  BY <1>1, <1>2, PruneInvariant, PTL DEF Spec, LiveSpared
=============================================================================
