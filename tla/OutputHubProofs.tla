--------------------------- MODULE OutputHubProofs ---------------------------
(***************************************************************************)
(* What OutputHub guarantees for every chunk size, backlog capacity, set   *)
(* of clients and fault: its type correctness, that a legacy client sees a *)
(* stream without gap, that the range promised to a resuming client is in  *)
(* the log, and that the timestamps are about logged bytes.                *)
(***************************************************************************)
EXTENDS OutputHub, TLAPS

-----------------------------------------------------------------------------
(***************************************************************************)
(* Type correctness.                                                       *)
(***************************************************************************)

\* The constants are numbers.
LEMMA Numbers ==
  /\ Sizes \subseteq Nat \ {0} /\ BacklogCap \in Nat \ {0}
  /\ Prior \in Nat /\ MaxBytes \in Nat /\ Prior <= MaxBytes
  /\ MaxSpawns \in Nat \ {0}
  /\ LogMayFail \in BOOLEAN /\ StampMayFail \in BOOLEAN
  BY HubAssumption

\* A sequence of none or one element.
LEMMA ShortSequences ==
  /\ \A S : <<>> \in Seq(S)
  /\ \A S : \A r \in S : <<r>> \in Seq(S)
  OBVIOUS

\* A run of bytes is as long as it says, and within its bounds.
LEMMA BytesAreBytes ==
  ASSUME NEW first \in Nat, NEW size \in Nat, first + size <= MaxBytes
  PROVE  /\ Bytes(first, size) \in Seq(0 .. MaxBytes)
         /\ Len(Bytes(first, size)) = size
  <1>1. Bytes(first, size) \in [1 .. size -> 0 .. MaxBytes]
    BY Numbers DEF Bytes
  <1>. QED  BY <1>1 DEF Bytes

\* Appending a run of bytes to the log keeps its type and adds its length.
LEMMA LogGrows ==
  ASSUME NEW l \in Seq(0 .. MaxBytes), NEW first \in Nat, NEW size \in Nat,
         first + size <= MaxBytes
  PROVE  /\ l \o Bytes(first, size) \in Seq(0 .. MaxBytes)
         /\ Len(l \o Bytes(first, size)) = Len(l) + size
  <1>. DEFINE b == Bytes(first, size)
  <1>1. b \in Seq(0 .. MaxBytes) /\ Len(b) = size
    BY BytesAreBytes
  <1>. HIDE DEF b
  <1>. QED  BY <1>1 DEF b

\* What Capture does to the files, whichever way it goes.
LEMMA CaptureFacts ==
  ASSUME HubTypeOK, NEW size \in Sizes, produced + size <= MaxBytes, Capture(size)
  PROVE  /\ log' \in Seq(0 .. MaxBytes)
         /\ Len(log') >= Len(log)
         /\ stamps' \in Seq(Nat \X Nat)
         /\ capturing' \in BOOLEAN /\ stamping' \in BOOLEAN /\ logError' \in BOOLEAN
         /\ capturing' => capturing /\ Len(log') = Len(log) + size /\ logError' = logError
         /\ capturing /\ ~capturing' => logError'
         /\ ~capturing => logError' = logError
         /\ \/ stamps' = stamps
            \/ capturing' /\ stamps' = Append(stamps, <<nextOffset, size>>)
  <1>1. /\ size \in Nat \ {0} /\ produced \in Nat /\ nextOffset \in Nat
        /\ log \in Seq(0 .. MaxBytes) /\ stamps \in Seq(Nat \X Nat)
        /\ capturing \in BOOLEAN /\ stamping \in BOOLEAN /\ logError \in BOOLEAN
    BY Numbers DEF HubTypeOK
  <1>2. CASE capturing /\ log' = log \o Bytes(produced, size)
             /\ UNCHANGED <<capturing, logError>>
             /\ \/ stamping /\ stamps' = Append(stamps, <<nextOffset, size>>) /\ UNCHANGED stamping
                \/ stamping /\ StampMayFail /\ stamping' = FALSE /\ UNCHANGED stamps
                \/ ~stamping /\ UNCHANGED <<stamps, stamping>>
    <2>1. log' \in Seq(0 .. MaxBytes) /\ Len(log') = Len(log) + size
      BY <1>1, <1>2, LogGrows
    <2>2. <<nextOffset, size>> \in Nat \X Nat
      BY <1>1
    <2>3. Append(stamps, <<nextOffset, size>>) \in Seq(Nat \X Nat)
      BY <1>1, <2>2
    <2>4. Len(log) \in Nat /\ Len(log') >= Len(log)
      BY <1>1, <2>1
    <2>5. capturing' \in BOOLEAN /\ stamping' \in BOOLEAN /\ logError' \in BOOLEAN
      BY <1>1, <1>2
    <2>6. /\ capturing' = capturing /\ capturing /\ logError' = logError
          /\ \/ stamps' = stamps
             \/ stamps' = Append(stamps, <<nextOffset, size>>)
      BY <1>2
    <2>7. stamps' \in Seq(Nat \X Nat)
      BY <1>1, <2>3, <2>6
    <2>. QED  BY <2>1, <2>4, <2>5, <2>6, <2>7
  <1>3. CASE /\ capturing /\ LogMayFail /\ capturing' = FALSE /\ stamping' = FALSE
             /\ logError' = TRUE /\ UNCHANGED stamps
             /\ \E written \in 0 .. size - 1 : log' = log \o Bytes(produced, written)
    <2>1. PICK written \in 0 .. size - 1 : log' = log \o Bytes(produced, written)
      BY <1>3
    <2>2. log' \in Seq(0 .. MaxBytes) /\ Len(log') = Len(log) + written
      BY <1>1, <2>1, LogGrows, Numbers
    <2>3. Len(log) \in Nat /\ Len(log') >= Len(log)
      BY <1>1, <2>1, <2>2
    <2>. QED  BY <1>1, <1>3, <2>2, <2>3
  <1>4. CASE ~capturing /\ UNCHANGED <<files, capturing, stamping, logError>>
    BY <1>1, <1>4 DEF files
  <1>. QED  BY <1>2, <1>3, <1>4 DEF Capture

\* The backlog stays within its capacity and its start a natural number.
LEMMA RetainFacts ==
  ASSUME HubTypeOK, NEW size \in Sizes, Retain(size)
  PROVE  backlog' \in 0 .. BacklogCap /\ backlogStart' \in Nat
  BY Numbers DEF HubTypeOK, Retain, Least

ClientType == [state : {"none", "live", "refused"}, since : Nat, end : Nat]
ChunkType == [offset : Nat, first : Nat, size : Nat]

\* A subscription changes one client and the chunks it is sent.
LEMMA SubscriptionTypes ==
  ASSUME HubTypeOK, NEW c \in Clients, NEW r \in ClientType, NEW s \in Seq(ChunkType),
         client' = [client EXCEPT ![c] = r], inbox' = [inbox EXCEPT ![c] = s],
         UNCHANGED <<produced, files, spawns, hub>>
  PROVE  HubTypeOK'
  BY DEF HubTypeOK, ClientType, ChunkType, files, hub

\* The backlog holds bytes that were produced.
BacklogFits == backlog <= produced

\* The snapshot of the backlog is at most one chunk, ending with the last byte.
LEMMA SnapshotFacts ==
  ASSUME HubTypeOK, BacklogFits
  PROVE  /\ Snapshot \in Seq(ChunkType)
         /\ Snapshot # <<>> => /\ Len(Snapshot) = 1
                               /\ Snapshot[1].first + Snapshot[1].size = produced
  <1>. DEFINE chunk == Chunk(backlogStart, produced - backlog, backlog)
  <1>1. chunk \in ChunkType /\ chunk.first + chunk.size = produced
    BY Numbers DEF HubTypeOK, BacklogFits, Chunk, ChunkType
  <1>. HIDE DEF chunk
  <1>2. Snapshot = <<>> \/ Snapshot = <<chunk>>
    BY DEF Snapshot, chunk
  <1>3. <<>> \in Seq(ChunkType) /\ <<chunk>> \in Seq(ChunkType)
    BY <1>1
  <1>4. CASE Snapshot = <<>>
    BY <1>3, <1>4
  <1>5. CASE Snapshot = <<chunk>>
    BY <1>1, <1>3, <1>5
  <1>. QED  BY <1>2, <1>4, <1>5

\* The initial state has the types of HubTypeOK.
LEMMA HubTypeInit == HubInit => HubTypeOK /\ BacklogFits
  <1> SUFFICES ASSUME HubInit PROVE HubTypeOK /\ BacklogFits
    OBVIOUS
  <1>1. log \in Seq(0 .. MaxBytes)
    BY Numbers, BytesAreBytes DEF HubInit
  <1>2. stamps \in Seq(Nat \X Nat)
    <2>. DEFINE row == <<0, Prior>>
    <2>1. row \in Nat \X Nat
      BY Numbers
    <2>. HIDE DEF row
    <2>2. <<>> \in Seq(Nat \X Nat) /\ <<row>> \in Seq(Nat \X Nat)
      BY <2>1, ShortSequences
    <2>3. stamps = <<>> \/ stamps = <<row>>
      BY DEF HubInit, row
    <2>. QED  BY <2>2, <2>3, Zenon
  <1>3. client \in [Clients -> ClientType] /\ inbox \in [Clients -> Seq(ChunkType)]
    BY DEF HubInit, NoClient, ClientType
  <1>4. {capturing, stamping, logError} \subseteq BOOLEAN
    BY DEF HubInit
  <1>5. /\ produced \in Prior .. MaxBytes /\ spawns \in 0 .. MaxSpawns
        /\ backlog \in 0 .. BacklogCap /\ {backlogStart, nextOffset} \subseteq Nat
        /\ BacklogFits
    BY Numbers DEF HubInit, BacklogFits
  <1>. QED
    BY <1>1, <1>2, <1>3, <1>4, <1>5 DEF HubTypeOK, ClientType, ChunkType

\* Every operation of the hub keeps the types and a backlog of produced bytes.
LEMMA HubTypeStep ==
  ASSUME HubTypeOK, BacklogFits, [HubNext]_hubVars
  PROVE  HubTypeOK' /\ BacklogFits'
  <1>1. CASE Configure
    <2>1. Len(log) \in Nat
      BY DEF HubTypeOK
    <2>2. spawns' \in 0 .. MaxSpawns
      BY <1>1, Numbers DEF Configure, HubTypeOK
    <2>3. stamps' \in Seq(Nat \X Nat)
      <3>1. stamps' = <<>> \/ stamps' = stamps
        BY <1>1 DEF Configure
      <3>. QED  BY <3>1, ShortSequences, Zenon DEF HubTypeOK
    <2>4. {capturing', stamping', logError'} \subseteq BOOLEAN
      BY <1>1, Numbers DEF Configure, HubTypeOK, hub
    <2>5. {backlogStart', nextOffset'} \subseteq Nat /\ backlog' = backlog
      BY <1>1, <2>1 DEF Configure, HubTypeOK, hub
    <2>6. UNCHANGED <<produced, log, client, inbox>>
      BY <1>1 DEF Configure
    <2>. QED  BY <2>2, <2>3, <2>4, <2>5, <2>6 DEF HubTypeOK, BacklogFits
  <1>2. ASSUME NEW size \in Sizes, Broadcast(size) PROVE HubTypeOK' /\ BacklogFits'
    <2>1. Capture(size) /\ Retain(size) /\ produced + size <= MaxBytes
      BY <1>2 DEF Broadcast
    <2>2. /\ log' \in Seq(0 .. MaxBytes) /\ stamps' \in Seq(Nat \X Nat)
          /\ {capturing', stamping', logError'} \subseteq BOOLEAN
      BY <2>1, CaptureFacts
    <2>3. backlog' \in 0 .. BacklogCap /\ backlogStart' \in Nat
      BY <2>1, RetainFacts
    <2>4. produced' \in Prior .. MaxBytes /\ nextOffset' \in Nat
      BY <1>2, Numbers DEF Broadcast, HubTypeOK
    <2>5. Chunk(nextOffset, produced, size) \in ChunkType
      BY Numbers DEF HubTypeOK, Chunk, ChunkType
    <2>6. inbox' \in [Clients -> Seq(ChunkType)]
      <3>. DEFINE chunk == Chunk(nextOffset, produced, size)
      <3>1. inbox \in [Clients -> Seq(ChunkType)] /\ chunk \in ChunkType
        BY <2>5 DEF HubTypeOK, ChunkType
      <3>2. inbox' = [c \in Clients |-> IF client[c].state = "live"
                                       THEN Append(inbox[c], chunk) ELSE inbox[c]]
        BY <1>2 DEF Broadcast
      <3>. HIDE DEF chunk
      <3>3. \A c \in Clients : Append(inbox[c], chunk) \in Seq(ChunkType)
        BY <3>1
      <3>. QED  BY <3>1, <3>2, <3>3
    <2>7. BacklogFits'
      BY <1>2, <2>1, Numbers DEF Broadcast, HubTypeOK, BacklogFits, Retain, Least
    <2>. QED
      BY <1>2, <2>2, <2>3, <2>4, <2>6, <2>7 DEF Broadcast, HubTypeOK, ChunkType
  <1>3. ASSUME NEW c \in Clients, NEW r \in ClientType, NEW s \in Seq(ChunkType),
               client' = [client EXCEPT ![c] = r], inbox' = [inbox EXCEPT ![c] = s],
               UNCHANGED <<produced, files, spawns, hub>>
        PROVE  HubTypeOK' /\ BacklogFits'
    BY <1>3, SubscriptionTypes DEF BacklogFits, hub
  <1>4. ASSUME NEW c \in Legacy, Subscribe(c) PROVE HubTypeOK' /\ BacklogFits'
    <2>1. [state |-> "live", since |-> nextOffset, end |-> nextOffset] \in ClientType
      BY DEF HubTypeOK, ClientType
    <2>. QED  BY <1>3, <1>4, <2>1, SnapshotFacts DEF Subscribe, Clients
  <1>5. ASSUME NEW c \in Resuming, NEW since \in 0 .. MaxBytes, Resume(c, since)
        PROVE  HubTypeOK' /\ BacklogFits'
    <2>1. [state |-> IF Resumable(since) THEN "live" ELSE "refused",
           since |-> since, end |-> nextOffset] \in ClientType
      BY Numbers DEF HubTypeOK, ClientType
    <2>2. <<>> \in Seq(ChunkType)
      OBVIOUS
    <2>. QED  BY <1>3, <1>5, <2>1, <2>2 DEF Resume, Clients
  <1>6. ASSUME NEW c \in Resuming, ResumeFresh(c) PROVE HubTypeOK' /\ BacklogFits'
    <2>1. [state |-> IF logError THEN "refused" ELSE "live",
           since |-> nextOffset, end |-> nextOffset] \in ClientType
      BY DEF HubTypeOK, ClientType
    <2>2. (IF logError THEN <<>> ELSE Snapshot) \in Seq(ChunkType)
      BY SnapshotFacts
    <2>. QED  BY <1>3, <1>6, <2>1, <2>2 DEF ResumeFresh, Clients
  <1>7. CASE UNCHANGED hubVars
    BY <1>7 DEF HubTypeOK, BacklogFits, hubVars, files, hub
  <1>. QED  BY <1>1, <1>2, <1>4, <1>5, <1>6, <1>7 DEF HubNext

\* Every variable of the hub keeps its type (pane.rs, OutputHub).
THEOREM HubTypeCorrect == HubSpec => []HubTypeOK
  <1>1. HubInit => HubTypeOK /\ BacklogFits
    BY HubTypeInit
  <1>2. HubTypeOK /\ BacklogFits /\ [HubNext]_hubVars => HubTypeOK' /\ BacklogFits'
    BY HubTypeStep
  <1>. QED  BY <1>1, <1>2, PTL DEF HubSpec

-----------------------------------------------------------------------------
(***************************************************************************)
(* The inductive invariant.                                                *)
(***************************************************************************)

\* The log of a started hub is open or its error is known, and an open log
\* ends where the next chunk goes.
LogInStep ==
  /\ spawns > 0 => capturing \/ logError
  /\ capturing => nextOffset = Len(log) /\ ~logError

\* Only a registered client is sent anything.
OnlyLiveAreSent ==
  \A c \in Clients : inbox[c] # <<>> => client[c].state = "live"

HubInv ==
  /\ HubTypeOK
  /\ BacklogFits
  /\ LogInStep
  /\ OnlyLiveAreSent
  /\ LegacyStream
  /\ ReplayableRange
  /\ StampsAreTrue

\* The initial state satisfies the invariant.
LEMMA HubInvInit == HubInit => HubInv
  <1> SUFFICES ASSUME HubInit PROVE HubInv
    OBVIOUS
  <1>1. HubTypeOK /\ BacklogFits
    BY HubTypeInit
  <1>2. LogInStep /\ OnlyLiveAreSent /\ LegacyStream
    BY DEF HubInit, LogInStep, OnlyLiveAreSent, LegacyStream, Clients
  <1>3. ReplayableRange
    BY DEF HubInit, ReplayableRange, NoClient, Clients
  <1>4. StampsAreTrue
    <2>1. Len(log) = Prior
      BY Numbers, BytesAreBytes DEF HubInit
    <2>. QED  BY <2>1, Numbers DEF HubInit, StampsAreTrue
  <1>. QED  BY <1>1, <1>2, <1>3, <1>4 DEF HubInv

\* The log and its offset: only Configure and Broadcast touch them.
LEMMA LogStep == ASSUME HubInv, [HubNext]_hubVars PROVE LogInStep'
  <1> USE DEF HubInv
  <1>1. CASE Configure
    <2>1. log' = log
      BY <1>1 DEF Configure
    <2>2. capturing' /\ nextOffset' = Len(log) /\ ~logError'
      <3>1. CASE capturing /\ UNCHANGED hub
        BY <3>1, Zenon DEF LogInStep, hub
      <3>2. CASE capturing' = TRUE /\ nextOffset' = Len(log) /\ logError' = FALSE
        BY <3>2, Zenon
      <3>. QED  BY <1>1, <3>1, <3>2, Zenon DEF Configure
    <2>. QED  BY <2>1, <2>2, Zenon DEF LogInStep
  <1>2. ASSUME NEW size \in Sizes, Broadcast(size) PROVE LogInStep'
    <2>1. /\ Capture(size) /\ produced + size <= MaxBytes
          /\ nextOffset' = nextOffset + size /\ spawns' = spawns
      BY <1>2 DEF Broadcast
    <2>2. /\ capturing' => capturing /\ Len(log') = Len(log) + size /\ logError' = logError
          /\ capturing /\ ~capturing' => logError'
          /\ ~capturing => logError' = logError
      BY <2>1, CaptureFacts
    <2>. QED  BY <2>1, <2>2 DEF LogInStep
  <1>3. CASE UNCHANGED <<files, spawns, hub>>
    BY <1>3 DEF LogInStep, files, hub
  <1>. QED
    BY <1>1, <1>2, <1>3 DEF HubNext, Subscribe, Resume, ResumeFresh, hubVars

\* The clients: what they are sent starts with their registration.
LEMMA SentStep == ASSUME HubInv, [HubNext]_hubVars PROVE OnlyLiveAreSent'
  <1> USE DEF HubInv
  <1>1. CASE UNCHANGED <<client, inbox>>
    BY <1>1 DEF OnlyLiveAreSent
  <1>2. ASSUME NEW size \in Sizes, Broadcast(size) PROVE OnlyLiveAreSent'
    BY <1>2 DEF Broadcast, OnlyLiveAreSent
  <1>3. ASSUME NEW c \in Clients, NEW r, NEW s, r.state = "live" \/ s = <<>>,
               client' = [client EXCEPT ![c] = r], inbox' = [inbox EXCEPT ![c] = s]
        PROVE  OnlyLiveAreSent'
    BY <1>3 DEF OnlyLiveAreSent, HubTypeOK
  <1>4. ASSUME NEW c \in Legacy, Subscribe(c) PROVE OnlyLiveAreSent'
    BY <1>3, <1>4 DEF Subscribe, Clients
  <1>5. ASSUME NEW c \in Resuming, NEW since \in 0 .. MaxBytes, Resume(c, since)
        PROVE  OnlyLiveAreSent'
    BY <1>3, <1>5 DEF Resume, Clients
  <1>6. ASSUME NEW c \in Resuming, ResumeFresh(c) PROVE OnlyLiveAreSent'
    <2>. DEFINE r == [state |-> IF logError THEN "refused" ELSE "live",
                      since |-> nextOffset, end |-> nextOffset]
                s == IF logError THEN <<>> ELSE Snapshot
    <2>1. r.state = "live" \/ s = <<>>
      OBVIOUS
    <2>. QED  BY <1>3, <1>6, <2>1 DEF ResumeFresh, Clients
  <1>. QED
    BY <1>1, <1>2, <1>4, <1>5, <1>6 DEF HubNext, Configure, hubVars

\* A stream that is extended by the chunk just produced stays without gap.
LEMMA StreamStep == ASSUME HubInv, [HubNext]_hubVars PROVE LegacyStream'
  <1> USE DEF HubInv
  <1>1. CASE UNCHANGED <<produced, inbox>>
    BY <1>1 DEF LegacyStream
  <1>2. ASSUME NEW size \in Sizes, Broadcast(size) PROVE LegacyStream'
    <2>. DEFINE chunk == Chunk(nextOffset, produced, size)
    <2>1. chunk.first = produced /\ chunk.size = size /\ produced' = produced + size
      BY <1>2 DEF Broadcast, Chunk
    <2>2. SUFFICES ASSUME NEW c \in Legacy, inbox[c]' # <<>>
          PROVE  LET n == Len(inbox[c]') IN
                 /\ \A i \in 1 .. n - 1 : inbox[c]'[i + 1].first
                                          = inbox[c]'[i].first + inbox[c]'[i].size
                 /\ inbox[c]'[n].first + inbox[c]'[n].size = produced'
      BY DEF LegacyStream
    <2>3. client[c].state = "live" /\ inbox[c]' = Append(inbox[c], chunk)
      BY <1>2, <2>2 DEF Broadcast, OnlyLiveAreSent, Clients
    <2>4. inbox[c] \in Seq(ChunkType)
      BY DEF HubTypeOK, Clients, ChunkType
    <2>. HIDE DEF chunk
    <2>5. CASE inbox[c] = <<>>
      BY <2>1, <2>3, <2>5
    <2>6. CASE inbox[c] # <<>>
      <3>1. /\ \A i \in 1 .. Len(inbox[c]) - 1 :
                 inbox[c][i + 1].first = inbox[c][i].first + inbox[c][i].size
            /\ inbox[c][Len(inbox[c])].first + inbox[c][Len(inbox[c])].size = produced
        BY <2>6 DEF LegacyStream
      <3>2. Len(inbox[c]') = Len(inbox[c]) + 1 /\ Len(inbox[c]) \in Nat
        BY <2>3, <2>4
      <3>3. /\ \A i \in 1 .. Len(inbox[c]) : inbox[c]'[i] = inbox[c][i]
            /\ inbox[c]'[Len(inbox[c]) + 1] = chunk
        BY <2>3, <2>4
      <3>4. \A i \in 1 .. Len(inbox[c]) :
               inbox[c]'[i + 1].first = inbox[c]'[i].first + inbox[c]'[i].size
        <4>. TAKE i \in 1 .. Len(inbox[c])
        <4>1. CASE i = Len(inbox[c])
          BY <2>1, <3>1, <3>3, <4>1
        <4>2. CASE i < Len(inbox[c])
          <5>1. i \in 1 .. Len(inbox[c]) - 1 /\ i + 1 \in 1 .. Len(inbox[c])
            BY <3>2, <4>2
          <5>. QED  BY <3>1, <3>3, <5>1
        <4>. QED  BY <3>2, <4>1, <4>2
      <3>5. chunk.first + chunk.size = produced'
        BY <2>1
      <3>. QED  BY <3>2, <3>3, <3>4, <3>5
    <2>. QED  BY <2>5, <2>6
  <1>3. ASSUME NEW c \in Legacy, Subscribe(c) PROVE LegacyStream'
    <2>1. \A d \in Legacy : inbox'[d] = IF d = c THEN Snapshot ELSE inbox[d]
      BY <1>3 DEF Subscribe, HubTypeOK, Clients
    <2>2. produced' = produced
      BY <1>3 DEF Subscribe
    <2>. QED  BY <2>1, <2>2, SnapshotFacts DEF LegacyStream
  <1>4. ASSUME NEW c \in Resuming,
               ResumeFresh(c) \/ \E since \in 0 .. MaxBytes : Resume(c, since)
        PROVE  LegacyStream'
    <2>1. produced' = produced /\ \A d \in Legacy : inbox'[d] = inbox[d]
      BY <1>4, HubAssumption DEF Resume, ResumeFresh, HubTypeOK, Clients
    <2>. QED  BY <2>1 DEF LegacyStream
  <1>. QED
    BY <1>1, <1>2, <1>3, <1>4 DEF HubNext, Configure, hubVars

\* A range is promised only up to the end of an intact log, which only grows.
LEMMA RangeStep == ASSUME HubInv, [HubNext]_hubVars PROVE ReplayableRange'
  <1> USE DEF HubInv
  <1>1. CASE UNCHANGED <<log, client>>
    BY <1>1 DEF ReplayableRange
  <1>2. ASSUME NEW size \in Sizes, Broadcast(size) PROVE ReplayableRange'
    <2>1. Capture(size) /\ produced + size <= MaxBytes /\ client' = client
      BY <1>2 DEF Broadcast
    <2>2. Len(log') >= Len(log) /\ Len(log') \in Nat /\ Len(log) \in Nat
      BY <2>1, CaptureFacts DEF HubTypeOK
    <2>3. \A c \in Resuming : client[c].end \in Nat
      BY DEF HubTypeOK, Clients
    <2>. QED  BY <2>1, <2>2, <2>3 DEF ReplayableRange
  <1>3. ASSUME NEW c \in Legacy, Subscribe(c) PROVE ReplayableRange'
    <2>1. log' = log /\ \A d \in Resuming : client'[d] = client[d]
      BY <1>3, HubAssumption DEF Subscribe, HubTypeOK, Clients, files
    <2>. QED  BY <2>1 DEF ReplayableRange
  <1>4. ASSUME NEW c \in Resuming, NEW r, log' = log,
               client' = [client EXCEPT ![c] = r],
               r.state = "live" => r.since <= r.end /\ r.end <= Len(log)
        PROVE  ReplayableRange'
    BY <1>4 DEF ReplayableRange, HubTypeOK, Clients
  <1>5. ~logError /\ spawns > 0 => nextOffset = Len(log) /\ nextOffset \in Nat
    BY DEF LogInStep, HubTypeOK
  <1>6. ASSUME NEW c \in Resuming, NEW since \in 0 .. MaxBytes, Resume(c, since)
        PROVE  ReplayableRange'
    <2>. DEFINE r == [state |-> IF Resumable(since) THEN "live" ELSE "refused",
                      since |-> since, end |-> nextOffset]
    <2>1. spawns > 0 /\ log' = log /\ client' = [client EXCEPT ![c] = r]
      BY <1>6 DEF Resume, files
    <2>2. r.state = "live" => r.since <= r.end /\ r.end <= Len(log)
      BY <1>5, <2>1 DEF Resumable
    <2>. QED  BY <1>4, <2>1, <2>2
  <1>7. ASSUME NEW c \in Resuming, ResumeFresh(c) PROVE ReplayableRange'
    <2>. DEFINE r == [state |-> IF logError THEN "refused" ELSE "live",
                      since |-> nextOffset, end |-> nextOffset]
    <2>1. spawns > 0 /\ log' = log /\ client' = [client EXCEPT ![c] = r]
      BY <1>7 DEF ResumeFresh, files
    <2>2. r.state = "live" => r.since <= r.end /\ r.end <= Len(log)
      BY <1>5, <2>1
    <2>. QED  BY <1>4, <2>1, <2>2
  <1>. QED
    BY <1>1, <1>2, <1>3, <1>6, <1>7 DEF HubNext, Configure, hubVars, files

\* A row is added only for bytes that have just been added to the log.
LEMMA StampsStep == ASSUME HubInv, [HubNext]_hubVars PROVE StampsAreTrue'
  <1> USE DEF HubInv
  <1>1. CASE UNCHANGED files
    BY <1>1 DEF StampsAreTrue, files
  <1>2. CASE Configure
    <2>1. log' = log /\ (stamps' = stamps \/ stamps' = <<>>)
      BY <1>2 DEF Configure
    <2>. QED  BY <2>1 DEF StampsAreTrue
  <1>3. ASSUME NEW size \in Sizes, Broadcast(size) PROVE StampsAreTrue'
    <2>1. Capture(size) /\ produced + size <= MaxBytes
      BY <1>3 DEF Broadcast
    <2>2. /\ Len(log') >= Len(log) /\ Len(log) \in Nat /\ Len(log') \in Nat
          /\ stamps \in Seq(Nat \X Nat) /\ size \in Nat /\ nextOffset \in Nat
      BY <2>1, CaptureFacts, Numbers DEF HubTypeOK
    <2>3. CASE stamps' = stamps
      <3>1. \A i \in 1 .. Len(stamps) : stamps[i][1] \in Nat /\ stamps[i][2] \in Nat
        BY <2>2
      <3>. QED  BY <2>2, <2>3, <3>1 DEF StampsAreTrue
    <2>4. CASE capturing' /\ stamps' = Append(stamps, <<nextOffset, size>>)
      <3>1. nextOffset = Len(log) /\ Len(log') = nextOffset + size
        BY <2>1, <2>4, CaptureFacts DEF LogInStep
      <3>2. /\ Len(stamps) \in Nat /\ Len(stamps') = Len(stamps) + 1
            /\ \A i \in 1 .. Len(stamps) : stamps'[i] = stamps[i]
            /\ stamps'[Len(stamps) + 1][1] = nextOffset
            /\ stamps'[Len(stamps) + 1][2] = size
            /\ \A i \in 1 .. Len(stamps) : stamps[i][1] \in Nat /\ stamps[i][2] \in Nat
        BY <2>2, <2>4
      <3>3. \A i \in 1 .. Len(stamps) :
               /\ stamps[i][1] + stamps[i][2] <= Len(log)
               /\ i > 1 => stamps[i - 1][1] + stamps[i - 1][2] <= stamps[i][1]
        BY DEF StampsAreTrue
      <3>4. SUFFICES ASSUME NEW i \in 1 .. Len(stamps) + 1
            PROVE  /\ stamps'[i][1] + stamps'[i][2] <= Len(log')
                   /\ i > 1 => stamps'[i - 1][1] + stamps'[i - 1][2] <= stamps'[i][1]
        BY <3>2 DEF StampsAreTrue
      <3>5. i > 1 => i - 1 \in 1 .. Len(stamps) /\ stamps'[i - 1] = stamps[i - 1]
        BY <3>2
      <3>6. CASE i = Len(stamps) + 1
        BY <2>2, <3>1, <3>2, <3>3, <3>5, <3>6
      <3>7. CASE i \in 1 .. Len(stamps)
        <4>1. stamps'[i] = stamps[i] /\ stamps[i][1] \in Nat /\ stamps[i][2] \in Nat
          BY <3>2, <3>7
        <4>2. stamps[i][1] + stamps[i][2] <= Len(log)
          BY <3>3, <3>7
        <4>3. stamps'[i][1] + stamps'[i][2] <= Len(log')
          BY <2>2, <4>1, <4>2
        <4>4. ASSUME i > 1
              PROVE  stamps'[i - 1][1] + stamps'[i - 1][2] <= stamps'[i][1]
          BY <3>3, <3>5, <3>7, <4>1, <4>4
        <4>. QED  BY <4>3, <4>4
      <3>. QED  BY <3>2, <3>6, <3>7
    <2>. QED  BY <2>1, <2>3, <2>4, CaptureFacts
  <1>. QED
    BY <1>1, <1>2, <1>3 DEF HubNext, Subscribe, Resume, ResumeFresh, hubVars

\* What holds of the hub in every reachable state (pane.rs, OutputHub).
THEOREM HubInvariance == HubSpec => []HubInv
  <1>1. HubInit => HubInv
    BY HubInvInit
  <1>2. HubInv /\ [HubNext]_hubVars => HubInv'
    BY HubTypeStep, LogStep, SentStep, StreamStep, RangeStep, StampsStep DEF HubInv
  <1>. QED  BY <1>1, <1>2, PTL DEF HubSpec

\* A legacy client sees the backlog and every later chunk, without gap and
\* without a byte twice (pane.rs, subscribe and broadcast).
THEOREM StreamHasNoGap == HubSpec => []LegacyStream
  <1>1. HubInv => LegacyStream
    BY DEF HubInv
  <1>. QED  BY <1>1, HubInvariance, PTL

\* The range promised to a resuming client stays in the log, whatever fails
\* later (control.rs, write_log_range_frames).
THEOREM PromisedRangeIsThere == HubSpec => []ReplayableRange
  <1>1. HubInv => ReplayableRange
    BY DEF HubInv
  <1>. QED  BY <1>1, HubInvariance, PTL

\* The timestamps are about logged bytes, each at most once (pane.rs,
\* broadcast).
THEOREM StampsAreAboutTheLog == HubSpec => []StampsAreTrue
  <1>1. HubInv => StampsAreTrue
    BY DEF HubInv
  <1>. QED  BY <1>1, HubInvariance, PTL
=============================================================================
