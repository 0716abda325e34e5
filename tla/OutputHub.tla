------------------------------ MODULE OutputHub ------------------------------
(***************************************************************************)
(* The output of a session: every chunk its commands write is appended to  *)
(* output.log, kept in a bounded backlog and sent to every attached        *)
(* client, all under one lock (pane.rs, OutputHub).                        *)
(*                                                                         *)
(* Bytes are numbered 0, 1, 2, ... in the order in which they are produced *)
(* and a chunk is a run of consecutive bytes: what a client is sent, and   *)
(* what the log holds, is known by its numbers.                            *)
(***************************************************************************)
EXTENDS Integers, Sequences

CONSTANTS
    Sizes,          \* the sizes of a chunk
    MaxBytes,       \* bound on the bytes ever produced
    BacklogCap,     \* BACKLOG_CAP
    Prior,          \* bytes a former worker has left in output.log
    MaxSpawns,      \* bound on the commands started, each configures the log
    LogMayFail,     \* a write to the log may fail
    StampMayFail,   \* opening or writing the timestamps may fail
    Legacy,         \* clients of subscribe
    Resuming        \* clients of subscribe_resumable

ASSUME HubAssumption ==
    /\ Sizes \subseteq Nat \ {0}
    /\ BacklogCap \in Nat \ {0}
    /\ Prior \in Nat /\ MaxBytes \in Nat /\ Prior <= MaxBytes
    /\ MaxSpawns \in Nat \ {0}
    /\ {LogMayFail, StampMayFail} \subseteq BOOLEAN
    /\ Legacy \cap Resuming = {}

VARIABLES
    produced,       \* bytes produced so far
    log,            \* output.log: the numbers of its bytes
    stamps,         \* the rows of output.timestamps.jsonl: <<offset, size>>
    spawns,         \* commands started
    \* struct HubInner
    backlog,        \* how many of the last bytes produced are in backlog
    backlogStart,   \* backlog_start
    nextOffset,     \* next_offset
    capturing,      \* log is Some
    stamping,       \* timestamps is Some
    logError,       \* log_error is Some
    \* The clients.
    client,         \* where each one stands
    inbox           \* what each one was sent and has not taken yet

files == <<log, stamps>>
hub   == <<backlog, backlogStart, nextOffset, capturing, stamping, logError>>
hubVars == <<produced, files, spawns, hub, client, inbox>>

Clients == Legacy \cup Resuming
NoClient == [state |-> "none", since |-> 0, end |-> 0]
Chunk(offset, first, size) == [offset |-> offset, first |-> first, size |-> size]
Bytes(first, size) == [i \in 1 .. size |-> first + i - 1]
Least(a, b) == IF a < b THEN a ELSE b

HubTypeOK ==
    /\ produced \in Prior .. MaxBytes
    /\ log \in Seq(0 .. MaxBytes)
    /\ stamps \in Seq(Nat \X Nat)
    /\ spawns \in 0 .. MaxSpawns
    /\ backlog \in 0 .. BacklogCap
    /\ {backlogStart, nextOffset} \subseteq Nat
    /\ {capturing, stamping, logError} \subseteq BOOLEAN
    /\ client \in [Clients -> [state : {"none", "live", "refused"},
                               since : Nat, end : Nat]]
    /\ inbox \in [Clients -> Seq([offset : Nat, first : Nat, size : Nat])]

HubInit ==
    /\ produced = Prior
    /\ log = Bytes(0, Prior)
    /\ stamps = IF Prior = 0 THEN <<>> ELSE <<<<0, Prior>>>>
    /\ spawns = 0
    /\ backlog = 0
    /\ backlogStart = 0
    /\ nextOffset = 0
    /\ capturing = FALSE
    /\ stamping = FALSE
    /\ logError = FALSE
    /\ client = [c \in Clients |-> NoClient]
    /\ inbox = [c \in Clients |-> <<>>]

-----------------------------------------------------------------------------
\* configure_log, by Pane::spawn: only a hub without a log opens it.
Configure ==
    /\ spawns < MaxSpawns
    /\ spawns' = spawns + 1
    /\ \/ capturing /\ UNCHANGED <<stamps, hub>>
       \/ /\ ~capturing
          /\ capturing' = TRUE
          /\ nextOffset' = Len(log)
          /\ backlogStart' = Len(log)
          /\ stamping' \in {TRUE, ~StampMayFail}
          /\ stamps' = IF stamping' /\ Len(log) = 0 THEN <<>> ELSE stamps
          /\ logError' = FALSE
          /\ UNCHANGED backlog
    /\ UNCHANGED <<produced, log, client, inbox>>

\* Mutant: a failed write is stamped like any other.
Capture_Unchecked(size) ==
    /\ capturing
    /\ \/ log' = log \o Bytes(produced, size) /\ UNCHANGED <<capturing, logError>>
       \/ /\ LogMayFail
          /\ UNCHANGED log
          /\ capturing' = FALSE
          /\ logError' = TRUE
    /\ stamps' = Append(stamps, <<nextOffset, size>>)
    /\ UNCHANGED stamping

\* Mutant: an error of the log does not make it unavailable.
Capture_Forgiving(size) ==
    /\ \E written \in {size} \cup (IF LogMayFail THEN 0 .. size - 1 ELSE {}) :
        log' = log \o Bytes(produced, written)
    /\ UNCHANGED <<capturing, logError, stamps, stamping>>

\* The chunk is written to the log and stamped, which may fail without
\* consequences; a failed write, complete or not, ends the capture.
Capture(size) ==
    \/ /\ capturing
       /\ log' = log \o Bytes(produced, size)
       /\ \/ stamping /\ stamps' = Append(stamps, <<nextOffset, size>>) /\ UNCHANGED stamping
          \/ stamping /\ StampMayFail /\ stamping' = FALSE /\ UNCHANGED stamps
          \/ ~stamping /\ UNCHANGED <<stamps, stamping>>
       /\ UNCHANGED <<capturing, logError>>
    \/ /\ capturing
       /\ LogMayFail
       /\ \E written \in 0 .. size - 1 : log' = log \o Bytes(produced, written)
       /\ capturing' = FALSE
       /\ stamping' = FALSE
       /\ logError' = TRUE
       /\ UNCHANGED stamps
    \/ ~capturing /\ UNCHANGED <<files, capturing, stamping, logError>>

\* Mutant: the backlog is never cut.
Retain_All(size) ==
    /\ backlog' = backlog + size
    /\ UNCHANGED backlogStart

\* Mutant: the start of the backlog is not moved when it overflows.
Retain_NotMoved(size) ==
    /\ backlog' = Least(backlog + size, BacklogCap)
    /\ UNCHANGED backlogStart

\* The backlog keeps the last bytes and its start moves with them.
Retain(size) ==
    /\ backlog' = Least(backlog + size, BacklogCap)
    /\ backlogStart' = backlogStart + (backlog + size - backlog')

\* broadcast, by a reader thread of any command of the session.
Broadcast(size) ==
    /\ spawns > 0
    /\ produced + size <= MaxBytes
    /\ Capture(size)
    /\ nextOffset' = nextOffset + size
    /\ Retain(size)
    /\ inbox' = [c \in Clients |->
                   IF client[c].state = "live"
                   THEN Append(inbox[c], Chunk(nextOffset, produced, size))
                   ELSE inbox[c]]
    /\ produced' = produced + size
    /\ UNCHANGED <<spawns, client>>

\* The backlog as one chunk, if there is any.
Snapshot ==
    IF backlog = 0 THEN <<>>
    ELSE <<Chunk(backlogStart, produced - backlog, backlog)>>

\* Mutant: the client is registered and then sent the whole backlog twice.
Subscribe_Twice(c) ==
    /\ spawns > 0
    /\ client[c].state = "none"
    /\ client' = [client EXCEPT ![c] = [state |-> "live", since |-> 0, end |-> 0]]
    /\ inbox' = [inbox EXCEPT ![c] = Snapshot \o Snapshot]
    /\ UNCHANGED <<produced, files, spawns, hub>>

\* subscribe; connections are served once the first command has started.
Subscribe(c) ==
    /\ spawns > 0
    /\ client[c].state = "none"
    /\ client' = [client EXCEPT ![c] =
                    [state |-> "live", since |-> nextOffset, end |-> nextOffset]]
    /\ inbox' = [inbox EXCEPT ![c] = Snapshot]
    /\ UNCHANGED <<produced, files, spawns, hub>>

\* Is the range of a resuming client there to be replayed?
Resumable(since) == ~logError /\ since <= nextOffset

\* subscribe_resumable(Some(since)): the older range is replayed from the log.
Resume(c, since) ==
    /\ spawns > 0
    /\ client[c].state = "none"
    /\ client' = [client EXCEPT ![c] =
                    [state |-> IF Resumable(since) THEN "live" ELSE "refused",
                     since |-> since, end |-> nextOffset]]
    /\ inbox' = [inbox EXCEPT ![c] = <<>>]
    /\ UNCHANGED <<produced, files, spawns, hub>>

\* subscribe_resumable(None): the backlog, with its offset.
ResumeFresh(c) ==
    /\ spawns > 0
    /\ client[c].state = "none"
    /\ client' = [client EXCEPT ![c] =
                    [state |-> IF logError THEN "refused" ELSE "live",
                     since |-> nextOffset, end |-> nextOffset]]
    /\ inbox' = [inbox EXCEPT ![c] = IF logError THEN <<>> ELSE Snapshot]
    /\ UNCHANGED <<produced, files, spawns, hub>>

HubNext ==
    \/ Configure
    \/ \E size \in Sizes : Broadcast(size)
    \/ \E c \in Legacy : Subscribe(c)
    \/ \E c \in Resuming, since \in 0 .. MaxBytes : Resume(c, since)
    \/ \E c \in Resuming : ResumeFresh(c)

HubSpec == HubInit /\ [][HubNext]_hubVars

-----------------------------------------------------------------------------
\* A client of subscribe sees the backlog and then every later chunk: no gap
\* and no byte twice, whether or not the log can be written (pane.rs,
\* OutputHub).
LegacyStream ==
    \A c \in Legacy : inbox[c] # <<>> =>
        LET n == Len(inbox[c]) IN
        /\ \A i \in 1 .. n - 1 :
            inbox[c][i + 1].first = inbox[c][i].first + inbox[c][i].size
        /\ inbox[c][n].first + inbox[c][n].size = produced

\* The range a resuming client was accepted with can be read back from the
\* log for as long as the client is attached (control.rs, handle_attach).
ReplayableRange ==
    \A c \in Resuming : client[c].state = "live" =>
        client[c].since <= client[c].end /\ client[c].end <= Len(log)

\* Every timestamp is about bytes that are in the log, and no byte has two
\* (pane.rs, configure_log and broadcast).
StampsAreTrue ==
    \A i \in 1 .. Len(stamps) :
        /\ stamps[i][1] + stamps[i][2] <= Len(log)
        /\ i > 1 => stamps[i - 1][1] + stamps[i - 1][2] <= stamps[i][1]

\* Offsets map exactly to bytes in the persisted log: a chunk a client was sent
\* with an offset holds what the log has there (pane.rs, configure_log and
\* subscribe_resumable).
OffsetsAreTrue ==
    \A c \in Resuming : \A i \in 1 .. Len(inbox[c]) :
        LET chunk == inbox[c][i] IN
        \A j \in 0 .. chunk.size - 1 :
            chunk.offset + j < Len(log) => log[chunk.offset + j + 1] = chunk.first + j
=============================================================================
