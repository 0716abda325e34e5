-------------------------- MODULE RemoteAttachProofs --------------------------
(***************************************************************************)
(* What an attach over a transport that may break shows, for every size of *)
(* a chunk, capacity of the backlog, number of cuts and bound on the bytes *)
(* produced: each byte once and in order, a cursor that is where the       *)
(* display ends, and before the exit of the command everything that was    *)
(* written before it, but for an exit that is announced between two polls. *)
(*                                                                         *)
(* All of it as long as the log is never opened again after a write to it  *)
(* has failed: a reopened log numbers its bytes anew (Hub_reopen).         *)
(***************************************************************************)
EXTENDS RemoteAttach, OutputHubProofs, SequenceTheorems

\* A log whose write has failed is not opened again: there is one command, or
\* no write fails.
OpenedOnce == MaxSpawns = 1 \/ ~LogMayFail

-----------------------------------------------------------------------------
(***************************************************************************)
(* The inductive invariant.                                                *)
(***************************************************************************)

\* The numbers of consecutive bytes, from first on.
IsRun(bytes, first) == \A i \in 1 .. Len(bytes) : bytes[i] = first + i - 1

\* The number of a byte is its offset in the log, the backlog holds the last
\* bytes produced, and a log that is not written has an error.
HubInStep ==
    /\ IsRun(log, 0) /\ Len(log) <= produced
    /\ capturing => Len(log) = produced /\ ~logError /\ spawns > 0
    /\ backlog <= produced
    /\ backlog = 0 <=> produced = Prior
    /\ spawns = 0 => produced = Prior /\ Len(log) = produced
    /\ spawns > 0 => /\ nextOffset = produced
                     /\ backlogStart = produced - backlog
                     /\ capturing \/ (logError /\ LogMayFail)

\* A frame of output holds bytes below p, under their numbers.
FrameEnd(frame) == frame.offset + Len(frame.bytes)
Carries(frame, p) ==
    /\ Len(frame.bytes) > 0
    /\ IsRun(frame.bytes, frame.offset)
    /\ FrameEnd(frame) <= p

\* The frames of a link continue the display that ends at c, without gap, and
\* nothing follows a last word.
Continues(frames, c, p) ==
    /\ \A i \in 1 .. Len(frames) : frames[i].kind = "output" => Carries(frames[i], p)
    /\ \A i \in 1 .. Len(frames) - 1 : frames[i].kind = "output"
    /\ \A i \in 2 .. Len(frames) : frames[i].kind = "output" =>
            frames[i].offset = FrameEnd(frames[i - 1])
    /\ frames # <<>> /\ frames[1].kind = "output" /\ c # NoCursor =>
            frames[1].offset = c

\* Where the display will be when the frames have been shown.
Front(frames, c) == IF frames = <<>> THEN c ELSE FrameEnd(frames[Len(frames)])

\* The chunks a client was sent and has not taken are the last ones below p.
Queued(chunks, p) ==
    /\ \A i \in 1 .. Len(chunks) : /\ chunks[i].offset = chunks[i].first
                                   /\ chunks[i].size > 0
                                   /\ chunks[i].first + chunks[i].size <= p
    /\ \A i \in 2 .. Len(chunks) :
            chunks[i].first = chunks[i - 1].first + chunks[i - 1].size
    /\ chunks # <<>> =>
            chunks[Len(chunks)].first + chunks[Len(chunks)].size = p

\* They go on where the client is; one that has seen nothing missed nothing.
GoesOnAt(chunks, c, p) ==
    IF chunks = <<>> THEN c = p \/ (c = NoCursor /\ p = Prior)
    ELSE c = chunks[1].first \/ c = NoCursor

Sent == inbox[viewer]
Registered == client[viewer]

\* The terminal is connected while a connection exists.
Connection ==
    /\ server = "none" <=> place # "streaming"
    /\ server \in {"none", "hello"} => link = <<>>
    /\ server \in {"none", "hello", "done"} => Registered = NoClient /\ Sent = <<>>
    /\ server \in {"replay", "stream", "quiet"} =>
            Registered.state = "live" /\ spawns > 0 /\ session # "gone"
    /\ server = "hello" => spawns > 0 /\ session # "gone"

\* The frames on their way, and a last word only from a closed connection.
Delivery ==
    /\ Continues(link, cursor, produced)
    /\ \A i \in 1 .. Len(link) : link[i].kind # "output" => server = "done"

\* What the worker sends next continues what is on its way.
Service ==
    /\ Queued(Sent, produced)
    /\ server = "replay" =>
            /\ Front(link, cursor) = readPos
            /\ readPos < Registered.end /\ Registered.end <= Len(log)
            /\ GoesOnAt(Sent, Registered.end, produced)
    /\ server \in {"stream", "quiet"} => GoesOnAt(Sent, Front(link, cursor), produced)

\* The display is a run of bytes that ends at the cursor.
Display ==
    /\ shown = <<>> <=> cursor = NoCursor
    /\ ShownOnce
    /\ shown # <<>> => shown[Len(shown)] + 1 = cursor
    /\ cursor <= produced

\* A display that ends at c has the d bytes written before the exit, if they
\* are owed to it; an exit on its way comes after such a display.
Complete(c, d, open) == open => IF c = NoCursor THEN d <= Prior ELSE d <= c
Told(frames, c, d, open) ==
    \A i \in 1 .. Len(frames) : frames[i].kind = "exit" =>
        Complete(IF i = 1 THEN c ELSE FrameEnd(frames[i - 1]), d, open)

\* The output could be logged, and the exit was not announced just when this
\* connection had found its queue empty.
Owed == capturing /\ ~racing

\* The exit is told after the output; so a connection that polls for an exit
\* which was announced before it polled for output has nothing left to send.
Ending ==
    /\ due <= produced
    /\ session # "running" => spawns > 0
    /\ session = "running" => /\ due = 0 /\ place # "exited"
                              /\ \A i \in 1 .. Len(link) : link[i].kind # "exit"
    /\ Told(link, cursor, due, Owed)
    /\ server = "quiet" /\ session = "announced" =>
            Complete(Front(link, cursor), due, Owed)
    /\ place = "exited" => Complete(cursor, due, Owed)

RemoteInv ==
    /\ TypeOK
    /\ HubInStep
    /\ Connection
    /\ Delivery
    /\ Service
    /\ Display
    /\ Ending

-----------------------------------------------------------------------------
(***************************************************************************)
(* Sequences of bytes, frames and chunks.                                  *)
(***************************************************************************)

FrameType == [kind : {"output", "exit", "error"},
              offset : 0 .. MaxBytes, bytes : Seq(0 .. MaxBytes)]

\* The attached terminal is the one client of the hub.
LEMMA Setting ==
    /\ viewer \in Resuming /\ viewer \in Clients /\ Clients = {viewer}
    /\ MaxCuts \in Nat
  BY RemoteAssumption DEF Clients

\* What a sequence is after an element was added or taken.
LEMMA Queues ==
    ASSUME NEW S, NEW q \in Seq(S)
    PROVE  /\ Len(q) \in Nat /\ (q = <<>> <=> Len(q) = 0)
           /\ \A i \in 1 .. Len(q) : q[i] \in S
           /\ \A e \in S : /\ Append(q, e) \in Seq(S)
                           /\ Append(q, e) # <<>>
                           /\ Len(Append(q, e)) = Len(q) + 1
                           /\ Append(q, e)[Len(q) + 1] = e
                           /\ \A i \in 1 .. Len(q) : Append(q, e)[i] = q[i]
           /\ q # <<>> => /\ Head(q) = q[1] /\ q[1] \in S
                          /\ Tail(q) \in Seq(S)
                          /\ Len(Tail(q)) = Len(q) - 1
                          /\ \A i \in 1 .. Len(q) - 1 : Tail(q)[i] = q[i + 1]
<1>1. /\ Len(q) \in Nat /\ (q = <<>> <=> Len(q) = 0)
      /\ \A i \in 1 .. Len(q) : q[i] \in S
  OBVIOUS
<1>2. ASSUME NEW e \in S
      PROVE  /\ Append(q, e) \in Seq(S) /\ Append(q, e) # <<>>
             /\ Len(Append(q, e)) = Len(q) + 1 /\ Append(q, e)[Len(q) + 1] = e
             /\ \A i \in 1 .. Len(q) : Append(q, e)[i] = q[i]
  BY AppendProperties
<1>3. ASSUME q # <<>>
      PROVE  /\ Head(q) = q[1] /\ q[1] \in S /\ Tail(q) \in Seq(S)
             /\ Len(Tail(q)) = Len(q) - 1
             /\ \A i \in 1 .. Len(q) - 1 : Tail(q)[i] = q[i + 1]
  <2>1. 1 \in 1 .. Len(q)
    BY <1>1, <1>3
  <2>2. /\ Tail(q) \in Seq(S) /\ Len(Tail(q)) = Len(q) - 1
        /\ \A i \in 1 .. Len(Tail(q)) : Tail(q)[i] = q[i + 1]
    BY <1>3, HeadTailProperties
  <2>3. Head(q) = q[1]
    BY <1>3
  <2> QED BY <1>1, <2>1, <2>2, <2>3
<1> QED BY <1>1, <1>2, <1>3

\* Bytes are a run.
LEMMA BytesRun ==
    ASSUME NEW first \in Nat, NEW size \in Nat, first + size <= MaxBytes
    PROVE  /\ Bytes(first, size) \in Seq(0 .. MaxBytes)
           /\ Len(Bytes(first, size)) = size
           /\ IsRun(Bytes(first, size), first)
<1>1. Bytes(first, size) \in Seq(0 .. MaxBytes) /\ Len(Bytes(first, size)) = size
  BY BytesAreBytes
<1>2. \A i \in 1 .. size : Bytes(first, size)[i] = first + i - 1
  BY DEF Bytes
<1> QED BY <1>1, <1>2 DEF IsRun

\* Elements of two sequences put together.
LEMMA Joined ==
    ASSUME NEW s \in Seq(0 .. MaxBytes), NEW t \in Seq(0 .. MaxBytes)
    PROVE  /\ s \o t \in Seq(0 .. MaxBytes)
           /\ Len(s \o t) = Len(s) + Len(t)
           /\ \A i \in 1 .. Len(s) : (s \o t)[i] = s[i]
           /\ \A i \in 1 .. Len(t) : (s \o t)[Len(s) + i] = t[i]
  OBVIOUS

\* A run that is continued is a run.
LEMMA RunsJoin ==
    ASSUME NEW s \in Seq(0 .. MaxBytes), NEW t \in Seq(0 .. MaxBytes),
           NEW o \in Nat, IsRun(s, o), IsRun(t, o + Len(s))
    PROVE  IsRun(s \o t, o)
<1> DEFINE u == s \o t
<1>1. /\ Len(s) \in Nat /\ Len(t) \in Nat /\ Len(u) = Len(s) + Len(t)
      /\ \A i \in 1 .. Len(s) : u[i] = s[i]
      /\ \A i \in 1 .. Len(t) : u[Len(s) + i] = t[i]
  BY Joined
<1> HIDE DEF u
<1>2. SUFFICES ASSUME NEW i \in 1 .. Len(u) PROVE u[i] = o + i - 1
  BY DEF IsRun, u
<1>3. CASE i <= Len(s)
  BY <1>1, <1>3 DEF IsRun
<1>4. CASE i > Len(s)
  <2>1. i - Len(s) \in 1 .. Len(t) /\ Len(s) + (i - Len(s)) = i
    BY <1>1, <1>4
  <2>2. u[i] = t[i - Len(s)]
    BY <2>1, <1>1
  <2>3. t[i - Len(s)] = (o + Len(s)) + (i - Len(s)) - 1
    BY <2>1 DEF IsRun
  <2> QED BY <1>1, <2>2, <2>3
<1> QED BY <1>1, <1>3, <1>4

\* A part of a run is a run.
LEMMA PartOfRun ==
    ASSUME NEW s \in Seq(0 .. MaxBytes), IsRun(s, 0),
           NEW m \in 0 .. Len(s), NEW n \in m + 1 .. Len(s)
    PROVE  /\ SubSeq(s, m + 1, n) \in Seq(0 .. MaxBytes)
           /\ Len(SubSeq(s, m + 1, n)) = n - m
           /\ IsRun(SubSeq(s, m + 1, n), m)
<1> DEFINE t == SubSeq(s, m + 1, n)
<1>1. /\ t \in Seq(0 .. MaxBytes) /\ Len(t) = n - m
      /\ \A i \in 1 .. n - m : t[i] = s[m + 1 + i - 1]
  <2> DEFINE k == m + 1
  <2>1. /\ k \in Int /\ n \in Int /\ k <= n /\ n - k + 1 = n - m
        /\ \A i \in k .. n : i \in 1 .. Len(s)
    BY Queues
  <2>2. \A i \in k .. n : s[i] \in 0 .. MaxBytes
    BY <2>1, ElementOfSeq
  <2>3. k = m + 1
    OBVIOUS
  <2> HIDE DEF k
  <2>4. /\ SubSeq(s, k, n) \in Seq(0 .. MaxBytes)
        /\ Len(SubSeq(s, k, n)) = IF k <= n THEN n - k + 1 ELSE 0
        /\ \A i \in 1 .. n - k + 1 : SubSeq(s, k, n)[i] = s[k + i - 1]
    BY <2>1, <2>2, SubSeqProperties
  <2> QED BY <2>1, <2>3, <2>4
<1> HIDE DEF t
<1>2. ASSUME NEW i \in 1 .. Len(t) PROVE t[i] = m + i - 1
  <2>1. m + i \in 1 .. Len(s) /\ m + 1 + i - 1 = m + i
    BY <1>1
  <2>2. s[m + i] = 0 + (m + i) - 1
    BY <2>1 DEF IsRun
  <2> QED BY <1>1, <2>1, <2>2
<1> QED BY <1>1, <1>2 DEF IsRun, t

\* A frame carries what it carried when more is produced, and its end is a
\* number.
LEMMA FrameEnds ==
    ASSUME NEW frame \in FrameType
    PROVE  /\ FrameEnd(frame) \in Nat /\ frame.offset \in Nat /\ Len(frame.bytes) \in Nat
           /\ frame.bytes \in Seq(0 .. MaxBytes)
           /\ \A p \in Nat : Carries(frame, p) =>
                /\ frame.offset < FrameEnd(frame) /\ FrameEnd(frame) <= p
                /\ \A q \in Nat : p <= q => Carries(frame, q)
<1>1. /\ frame.offset \in Nat /\ Len(frame.bytes) \in Nat
      /\ frame.bytes \in Seq(0 .. MaxBytes)
  BY Numbers DEF FrameType
<1>2. FrameEnd(frame) \in Nat
  BY <1>1 DEF FrameEnd
<1> QED BY <1>1, <1>2 DEF FrameEnd, Carries

\* Nothing on its way.
LEMMA ContinuesEmpty ==
    ASSUME NEW c, NEW p
    PROVE  Continues(<<>>, c, p) /\ Front(<<>>, c) = c
  BY DEF Continues, Front

\* More is produced.
LEMMA ContinuesGrows ==
    ASSUME NEW l \in Seq(FrameType), NEW c, NEW p \in Nat, NEW q \in Nat, p <= q,
           Continues(l, c, p)
    PROVE  Continues(l, c, q)
<1>1. \A i \in 1 .. Len(l) : l[i] \in FrameType
  BY Queues
<1>2. \A i \in 1 .. Len(l) : Carries(l[i], p) => Carries(l[i], q)
  BY <1>1, FrameEnds
<1> QED BY <1>2 DEF Continues

\* A frame is written to the link.
LEMMA ContinuesFrame ==
    ASSUME NEW l \in Seq(FrameType), NEW c \in {NoCursor} \cup Nat, NEW p \in Nat,
           NEW f \in FrameType, Continues(l, c, p),
           \A i \in 1 .. Len(l) : l[i].kind = "output",
           f.kind = "output", Carries(f, p),
           Front(l, c) \in {f.offset, NoCursor}
    PROVE  /\ Continues(Append(l, f), c, p)
           /\ Front(Append(l, f), c) = FrameEnd(f)
<1> DEFINE m == Append(l, f)
<1>1. /\ Len(l) \in Nat /\ (l = <<>> <=> Len(l) = 0)
      /\ \A i \in 1 .. Len(l) : l[i] \in FrameType
      /\ m # <<>> /\ Len(m) = Len(l) + 1 /\ m[Len(l) + 1] = f
      /\ \A i \in 1 .. Len(l) : m[i] = l[i]
  BY Queues
<1> HIDE DEF m
<1>2. Front(m, c) = FrameEnd(f)
  BY <1>1 DEF Front
<1>3. \A i \in 1 .. Len(m) : m[i].kind = "output" => Carries(m[i], p)
  BY <1>1 DEF Continues
<1>4. \A i \in 1 .. Len(m) - 1 : m[i].kind = "output"
  BY <1>1
<1>5. ASSUME NEW i \in 2 .. Len(m) PROVE m[i].offset = FrameEnd(m[i - 1])
  <2>1. i - 1 \in 1 .. Len(l) /\ m[i - 1] = l[i - 1]
    BY <1>1
  <2>2. CASE i = Len(l) + 1
    <3>1. l # <<>> /\ i - 1 = Len(l) /\ l[Len(l)] \in FrameType
      BY <1>1, <2>1, <2>2
    <3>2. Front(l, c) = FrameEnd(l[Len(l)])
      BY <3>1 DEF Front
    <3>3. Front(l, c) # NoCursor
      BY <3>1, <3>2, FrameEnds DEF NoCursor
    <3> QED BY <1>1, <2>1, <2>2, <3>1, <3>2, <3>3
  <2>3. CASE i \in 2 .. Len(l)
    BY <1>1, <2>1, <2>3 DEF Continues
  <2> QED BY <1>1, <2>2, <2>3
<1>6. c # NoCursor => m[1].offset = c
  <2>1. CASE l = <<>>
    BY <1>1, <2>1 DEF Front
  <2>2. CASE l # <<>>
    <3>1. 1 \in 1 .. Len(l) /\ m[1] = l[1] /\ l[1].kind = "output"
      BY <1>1, <2>2
    <3> QED BY <3>1, <2>2 DEF Continues
  <2> QED BY <2>1, <2>2
<1> QED BY <1>2, <1>3, <1>4, <1>5, <1>6 DEF Continues, m

\* The last word is written to the link.
LEMMA ContinuesWord ==
    ASSUME NEW l \in Seq(FrameType), NEW c, NEW p \in Nat,
           NEW f \in FrameType, Continues(l, c, p),
           \A i \in 1 .. Len(l) : l[i].kind = "output",
           f.kind # "output"
    PROVE  Continues(Append(l, f), c, p)
<1> DEFINE m == Append(l, f)
<1>1. /\ Len(l) \in Nat /\ (l = <<>> <=> Len(l) = 0)
      /\ m # <<>> /\ Len(m) = Len(l) + 1 /\ m[Len(l) + 1] = f
      /\ \A i \in 1 .. Len(l) : m[i] = l[i]
  BY Queues
<1> HIDE DEF m
<1>2. \A i \in 1 .. Len(m) : m[i].kind = "output" => i \in 1 .. Len(l) /\ m[i] = l[i]
  BY <1>1
<1>3. \A i \in 1 .. Len(m) : m[i].kind = "output" => Carries(m[i], p)
  BY <1>2 DEF Continues
<1>4. \A i \in 1 .. Len(m) - 1 : m[i].kind = "output"
  BY <1>1
<1>5. ASSUME NEW i \in 2 .. Len(m), m[i].kind = "output"
      PROVE  m[i].offset = FrameEnd(m[i - 1])
  <2>1. i \in 2 .. Len(l) /\ i - 1 \in 1 .. Len(l) /\ m[i] = l[i] /\ m[i - 1] = l[i - 1]
    BY <1>1, <1>2, <1>5
  <2> QED BY <1>5, <2>1 DEF Continues
<1>6. m[1].kind = "output" /\ c # NoCursor => m[1].offset = c
  BY <1>1, <1>2 DEF Continues
<1> QED BY <1>3, <1>4, <1>5, <1>6 DEF Continues, m

\* The first frame is shown.
LEMMA ContinuesTail ==
    ASSUME NEW l \in Seq(FrameType), NEW c, NEW p \in Nat,
           Continues(l, c, p), l # <<>>, l[1].kind = "output"
    PROVE  /\ Continues(Tail(l), FrameEnd(l[1]), p)
           /\ Front(Tail(l), FrameEnd(l[1])) = Front(l, c)
<1> DEFINE m == Tail(l)
<1>1. /\ Len(l) \in Nat \ {0}
      /\ m \in Seq(FrameType)
      /\ Len(m) = Len(l) - 1
      /\ \A i \in 1 .. Len(m) : m[i] = l[i + 1]
  BY Queues
<1>2. m = <<>> <=> Len(m) = 0
  BY <1>1, Queues
<1> HIDE DEF m
<1>3. \A i \in 1 .. Len(m) : i + 1 \in 2 .. Len(l) /\ i + 1 \in 1 .. Len(l)
  BY <1>1
<1>4. \A i \in 1 .. Len(m) : m[i].kind = "output" => Carries(m[i], p)
  BY <1>1, <1>3 DEF Continues
<1>5. \A i \in 1 .. Len(m) - 1 : m[i].kind = "output"
  <2> TAKE i \in 1 .. Len(m) - 1
  <2>1. i \in 1 .. Len(m) /\ i + 1 \in 1 .. Len(l) - 1
    BY <1>1
  <2> QED BY <1>1, <2>1 DEF Continues
<1>6. ASSUME NEW i \in 2 .. Len(m), m[i].kind = "output"
      PROVE  m[i].offset = FrameEnd(m[i - 1])
  <2>1. /\ i \in 1 .. Len(m) /\ i - 1 \in 1 .. Len(m) /\ i + 1 \in 2 .. Len(l)
        /\ (i - 1) + 1 = i /\ (i + 1) - 1 = i
    BY <1>1
  <2>2. m[i] = l[i + 1] /\ m[i - 1] = l[i]
    BY <1>1, <2>1
  <2> QED BY <1>6, <2>1, <2>2 DEF Continues
<1>7. m # <<>> /\ m[1].kind = "output" => m[1].offset = FrameEnd(l[1])
  <2> SUFFICES ASSUME m # <<>>, m[1].kind = "output" PROVE m[1].offset = FrameEnd(l[1])
    OBVIOUS
  <2>1. 1 \in 1 .. Len(m) /\ 2 \in 2 .. Len(l) /\ m[1] = l[2]
    BY <1>1, <1>2
  <2>2. l[2].offset = FrameEnd(l[2 - 1])
    BY <2>1 DEF Continues
  <2> QED BY <2>1, <2>2
<1>8. Front(m, FrameEnd(l[1])) = Front(l, c)
  <2>1. CASE m = <<>>
    <3>1. Len(l) = 1
      BY <1>1, <1>2, <2>1
    <3> QED BY <2>1, <3>1 DEF Front
  <2>2. CASE m # <<>>
    <3>1. Len(m) \in 1 .. Len(m) /\ Len(m) + 1 = Len(l)
      BY <1>1, <1>2, <2>2
    <3>2. m[Len(m)] = l[Len(l)]
      BY <1>1, <3>1
    <3> QED BY <2>2, <3>2 DEF Front
  <2> QED BY <2>1, <2>2
<1> QED BY <1>4, <1>5, <1>6, <1>7, <1>8 DEF Continues, m

\* No exit is told by an empty link.
LEMMA ToldEmpty ==
    ASSUME NEW c, NEW d, NEW open
    PROVE  Told(<<>>, c, d, open)
  BY DEF Told

\* What is not the exit is added.
LEMMA ToldMore ==
    ASSUME NEW l \in Seq(FrameType), NEW c, NEW d, NEW open, NEW f \in FrameType,
           Told(l, c, d, open), f.kind # "exit"
    PROVE  Told(Append(l, f), c, d, open)
<1> DEFINE m == Append(l, f)
<1>1. /\ Len(l) \in Nat /\ Len(m) = Len(l) + 1 /\ m[Len(l) + 1] = f
      /\ \A i \in 1 .. Len(l) : m[i] = l[i]
  BY Queues
<1> HIDE DEF m
<1>2. ASSUME NEW i \in 1 .. Len(m), m[i].kind = "exit"
      PROVE  Complete(IF i = 1 THEN c ELSE FrameEnd(m[i - 1]), d, open)
  <2>1. i \in 1 .. Len(l) /\ m[i] = l[i]
    BY <1>1, <1>2
  <2>2. i # 1 => m[i - 1] = l[i - 1]
    BY <1>1, <2>1
  <2>3. Complete(IF i = 1 THEN c ELSE FrameEnd(l[i - 1]), d, open)
    BY <1>2, <2>1 DEF Told
  <2> QED BY <2>2, <2>3
<1> QED BY <1>2 DEF Told, m

\* The exit is added to a display that will be complete.
LEMMA ToldExit ==
    ASSUME NEW l \in Seq(FrameType), NEW c, NEW d, NEW open, NEW f \in FrameType,
           \A i \in 1 .. Len(l) : l[i].kind = "output",
           Complete(Front(l, c), d, open)
    PROVE  Told(Append(l, f), c, d, open)
<1> DEFINE m == Append(l, f)
<1>1. /\ Len(l) \in Nat /\ Len(m) = Len(l) + 1 /\ m[Len(l) + 1] = f
      /\ \A i \in 1 .. Len(l) : m[i] = l[i]
      /\ l = <<>> <=> Len(l) = 0
  BY Queues
<1> HIDE DEF m
<1>2. ASSUME NEW i \in 1 .. Len(m), m[i].kind = "exit"
      PROVE  Complete(IF i = 1 THEN c ELSE FrameEnd(m[i - 1]), d, open)
  <2>1. i = Len(l) + 1
    BY <1>1, <1>2
  <2>2. (IF i = 1 THEN c ELSE FrameEnd(m[i - 1])) = Front(l, c)
    <3>1. CASE l = <<>>
      BY <1>1, <2>1, <3>1 DEF Front
    <3>2. CASE l # <<>>
      <4>1. i # 1 /\ i - 1 = Len(l) /\ Len(l) \in 1 .. Len(l)
        BY <1>1, <2>1, <3>2
      <4> QED BY <1>1, <3>2, <4>1 DEF Front
    <3> QED BY <3>1, <3>2
  <2> QED BY <2>2
<1> QED BY <1>2 DEF Told, m

\* An exit still on its way is told after the frame that was shown.
LEMMA ToldTail ==
    ASSUME NEW l \in Seq(FrameType), NEW c, NEW d, NEW open,
           Told(l, c, d, open), l # <<>>
    PROVE  Told(Tail(l), FrameEnd(l[1]), d, open)
<1> DEFINE m == Tail(l)
<1>1. /\ Len(l) \in Nat \ {0} /\ Len(m) = Len(l) - 1
      /\ \A i \in 1 .. Len(m) : m[i] = l[i + 1]
  BY Queues
<1> HIDE DEF m
<1>2. ASSUME NEW i \in 1 .. Len(m), m[i].kind = "exit"
      PROVE  Complete(IF i = 1 THEN FrameEnd(l[1]) ELSE FrameEnd(m[i - 1]), d, open)
  <2>1. i + 1 \in 1 .. Len(l) /\ m[i] = l[i + 1] /\ i + 1 # 1 /\ (i + 1) - 1 = i
    BY <1>1
  <2>2. Complete(FrameEnd(l[i]), d, open)
    BY <1>2, <2>1 DEF Told
  <2>3. i # 1 => m[i - 1] = l[i]
    <3> SUFFICES ASSUME i # 1 PROVE m[i - 1] = l[i]
      OBVIOUS
    <3>1. i - 1 \in 1 .. Len(m) /\ (i - 1) + 1 = i
      BY <1>1
    <3> QED BY <1>1, <3>1
  <2> QED BY <2>2, <2>3
<1> QED BY <1>2 DEF Told, m

\* A log that is closed asks for less.
LEMMA ToldLess ==
    ASSUME NEW l, NEW c, NEW d, NEW open \in BOOLEAN, NEW still \in BOOLEAN,
           Told(l, c, d, open), still => open
    PROVE  Told(l, c, d, still)
  BY DEF Told, Complete

\* The next chunk is queued.
LEMMA QueuedAppend ==
    ASSUME NEW q \in Seq(ChunkType), NEW p \in Nat, NEW n \in Nat \ {0}, Queued(q, p)
    PROVE  /\ Queued(Append(q, Chunk(p, p, n)), p + n)
           /\ \A c : GoesOnAt(q, c, p) => GoesOnAt(Append(q, Chunk(p, p, n)), c, p + n)
<1> DEFINE e == Chunk(p, p, n)
           m == Append(q, e)
<1>1. e \in ChunkType /\ e.offset = p /\ e.first = p /\ e.size = n
  BY DEF Chunk, ChunkType
<1> HIDE DEF e
<1>2. /\ Len(q) \in Nat /\ (q = <<>> <=> Len(q) = 0)
      /\ \A i \in 1 .. Len(q) : q[i] \in ChunkType
      /\ m # <<>> /\ Len(m) = Len(q) + 1 /\ m[Len(q) + 1] = e
      /\ \A i \in 1 .. Len(q) : m[i] = q[i]
  BY <1>1, Queues
<1> HIDE DEF m
<1>3. ASSUME NEW i \in 1 .. Len(m)
      PROVE  /\ m[i].offset = m[i].first /\ m[i].size > 0
             /\ m[i].first + m[i].size <= p + n
  <2>1. CASE i = Len(q) + 1
    BY <1>1, <1>2, <2>1
  <2>2. CASE i \in 1 .. Len(q)
    <3>1. m[i] = q[i] /\ q[i].first \in Nat /\ q[i].size \in Nat
      BY <1>2, <2>2 DEF ChunkType
    <3>2. /\ q[i].offset = q[i].first /\ q[i].size > 0
          /\ q[i].first + q[i].size <= p
      BY <2>2 DEF Queued
    <3> QED BY <3>1, <3>2
  <2> QED BY <1>2, <2>1, <2>2
<1>4. ASSUME NEW i \in 2 .. Len(m) PROVE m[i].first = m[i - 1].first + m[i - 1].size
  <2>1. i - 1 \in 1 .. Len(q) /\ m[i - 1] = q[i - 1]
    BY <1>2
  <2>2. CASE i = Len(q) + 1
    <3>1. q # <<>> /\ i - 1 = Len(q)
      BY <1>2, <2>1, <2>2
    <3>2. q[Len(q)].first + q[Len(q)].size = p
      BY <3>1 DEF Queued
    <3> QED BY <1>1, <1>2, <2>1, <2>2, <3>1, <3>2
  <2>3. CASE i \in 2 .. Len(q)
    BY <1>2, <2>1, <2>3 DEF Queued
  <2> QED BY <1>2, <2>2, <2>3
<1>5. m[Len(m)].first + m[Len(m)].size = p + n
  BY <1>1, <1>2
<1>6. Queued(m, p + n)
  BY <1>3, <1>4, <1>5 DEF Queued
<1>7. ASSUME NEW c, GoesOnAt(q, c, p) PROVE GoesOnAt(m, c, p + n)
  <2>1. CASE q = <<>>
    <3>1. m[1] = e
      BY <1>2, <2>1
    <3> QED BY <1>1, <1>2, <1>7, <2>1, <3>1 DEF GoesOnAt
  <2>2. CASE q # <<>>
    <3>1. m[1] = q[1]
      BY <1>2, <2>2
    <3> QED BY <1>2, <1>7, <2>2, <3>1 DEF GoesOnAt
  <2> QED BY <2>1, <2>2
<1> QED BY <1>6, <1>7 DEF m, e

\* The first chunk is taken.
LEMMA QueuedTail ==
    ASSUME NEW q \in Seq(ChunkType), NEW p \in Nat, Queued(q, p), q # <<>>
    PROVE  /\ Queued(Tail(q), p)
           /\ GoesOnAt(Tail(q), q[1].first + q[1].size, p)
<1> DEFINE m == Tail(q)
<1>1. /\ Len(q) \in Nat \ {0}
      /\ m \in Seq(ChunkType) /\ Len(m) = Len(q) - 1
      /\ \A i \in 1 .. Len(m) : m[i] = q[i + 1]
  BY Queues
<1>2. m = <<>> <=> Len(m) = 0
  BY <1>1, Queues
<1> HIDE DEF m
<1>3. \A i \in 1 .. Len(m) : i + 1 \in 2 .. Len(q) /\ i + 1 \in 1 .. Len(q)
  BY <1>1
<1>4. \A i \in 1 .. Len(m) : /\ m[i].offset = m[i].first /\ m[i].size > 0
                             /\ m[i].first + m[i].size <= p
  BY <1>1, <1>3 DEF Queued
<1>5. ASSUME NEW i \in 2 .. Len(m) PROVE m[i].first = m[i - 1].first + m[i - 1].size
  <2>1. /\ i \in 1 .. Len(m) /\ i - 1 \in 1 .. Len(m) /\ i + 1 \in 2 .. Len(q)
        /\ (i - 1) + 1 = i /\ (i + 1) - 1 = i
    BY <1>1
  <2>2. m[i] = q[i + 1] /\ m[i - 1] = q[i]
    BY <1>1, <2>1
  <2> QED BY <2>1, <2>2 DEF Queued
<1>6. m # <<>> => m[Len(m)].first + m[Len(m)].size = p
  <2> SUFFICES ASSUME m # <<>> PROVE m[Len(m)].first + m[Len(m)].size = p
    OBVIOUS
  <2>1. Len(m) \in 1 .. Len(m) /\ Len(m) + 1 = Len(q)
    BY <1>1, <1>2
  <2>2. m[Len(m)] = q[Len(q)]
    BY <1>1, <2>1
  <2> QED BY <2>2 DEF Queued
<1>7. GoesOnAt(m, q[1].first + q[1].size, p)
  <2>1. CASE m = <<>>
    <3>1. Len(q) = 1
      BY <1>1, <1>2, <2>1
    <3>2. q[Len(q)].first + q[Len(q)].size = p
      BY DEF Queued
    <3> QED BY <2>1, <3>1, <3>2 DEF GoesOnAt
  <2>2. CASE m # <<>>
    <3>1. 1 \in 1 .. Len(m) /\ 2 \in 2 .. Len(q) /\ m[1] = q[2]
      BY <1>1, <1>2, <2>2
    <3>2. q[2].first = q[2 - 1].first + q[2 - 1].size
      BY <3>1 DEF Queued
    <3> QED BY <2>2, <3>1, <3>2 DEF GoesOnAt
  <2> QED BY <2>1, <2>2
<1> QED BY <1>4, <1>5, <1>6, <1>7 DEF Queued, m

\* Nothing is queued.
LEMMA QueuedEmpty == ASSUME NEW p PROVE Queued(<<>>, p)
  BY DEF Queued

-----------------------------------------------------------------------------
(***************************************************************************)
(* The hub below the attach.                                               *)
(***************************************************************************)

\* What the types and the hub's part of the invariant say, as plain facts.
LEMMA HubFacts ==
    ASSUME TypeOK, HubInStep
    PROVE  /\ HubTypeOK /\ BacklogFits
           /\ produced \in Nat /\ Prior \in Nat /\ Prior <= produced
           /\ produced <= MaxBytes /\ MaxBytes \in Nat
           /\ log \in Seq(0 .. MaxBytes) /\ Len(log) \in Nat /\ Len(log) <= produced
           /\ spawns \in Nat /\ backlog \in Nat
           /\ capturing \in BOOLEAN /\ logError \in BOOLEAN
           /\ client \in [Clients -> ClientType] /\ inbox \in [Clients -> Seq(ChunkType)]
           /\ Registered \in ClientType /\ Sent \in Seq(ChunkType)
<1>1. HubTypeOK /\ BacklogFits
  BY DEF TypeOK, HubInStep, BacklogFits
<1>2. client \in [Clients -> ClientType] /\ inbox \in [Clients -> Seq(ChunkType)]
  BY <1>1 DEF HubTypeOK, ClientType, ChunkType
<1>3. Registered \in ClientType /\ Sent \in Seq(ChunkType)
  BY <1>2, Setting DEF Registered, Sent
<1>4. log \in Seq(0 .. MaxBytes) /\ Len(log) \in Nat
  BY <1>1 DEF HubTypeOK
<1>5. capturing \in BOOLEAN /\ logError \in BOOLEAN
  BY <1>1 DEF HubTypeOK
<1>6. /\ produced \in Nat /\ Prior \in Nat /\ Prior <= produced
      /\ produced <= MaxBytes /\ MaxBytes \in Nat /\ spawns \in Nat /\ backlog \in Nat
  BY <1>1, Numbers DEF HubTypeOK
<1> QED BY <1>1, <1>2, <1>3, <1>4, <1>5, <1>6 DEF HubInStep

\* The connection of the attach is forgotten at the worker.
LEMMA Forgotten ==
    ASSUME TypeOK, HubInStep,
           client' = [client EXCEPT ![viewer] = NoClient],
           inbox' = [inbox EXCEPT ![viewer] = <<>>],
           UNCHANGED hubSide
    PROVE  HubTypeOK' /\ HubInStep' /\ Registered' = NoClient /\ Sent' = <<>>
<1>1. UNCHANGED <<produced, files, spawns, hub>>
  BY DEF hubSide
<1>2. NoClient \in ClientType /\ <<>> \in Seq(ChunkType) /\ viewer \in Clients
  BY Setting DEF NoClient, ClientType
<1>3. HubTypeOK'
  BY <1>1, <1>2, HubFacts, SubscriptionTypes
<1>4. Registered' = NoClient /\ Sent' = <<>>
  BY <1>2, HubFacts DEF Registered, Sent
<1>5. HubInStep'
  BY <1>1 DEF HubInStep, files, hub
<1> QED BY <1>3, <1>4, <1>5

\* The log after a chunk.
LEMMA LogGoesOn ==
    ASSUME TypeOK, HubInStep, NEW size \in Sizes, Broadcast(size)
    PROVE  /\ IsRun(log', 0) /\ Len(log') \in Nat /\ Len(log') >= Len(log)
           /\ Len(log') <= produced'
           /\ capturing' => capturing /\ Len(log') = produced' /\ ~logError'
           /\ ~capturing' => capturing \/ logError'
           /\ capturing /\ ~capturing' => logError' /\ LogMayFail
           /\ ~capturing => logError' = logError
<1>1. /\ Capture(size) /\ size \in Nat \ {0} /\ produced' = produced + size
      /\ produced + size <= MaxBytes
  BY Numbers DEF Broadcast
<1>2. /\ Len(log') >= Len(log)
      /\ capturing' => capturing /\ Len(log') = Len(log) + size /\ logError' = logError
      /\ capturing /\ ~capturing' => logError'
      /\ ~capturing => logError' = logError
      /\ log' \in Seq(0 .. MaxBytes)
  BY <1>1, HubFacts, CaptureFacts
<1>3. capturing /\ ~capturing' => LogMayFail
  BY <1>1, HubFacts DEF Capture
<1>4. \/ log' = log
      \/ capturing /\ \E written \in 0 .. size : log' = log \o Bytes(produced, written)
  <2>1. size \in 0 .. size /\ 0 .. size - 1 \subseteq 0 .. size
    BY <1>1
  <2> QED BY <1>1, <2>1 DEF Capture, files
<1>5. IsRun(log', 0) /\ Len(log') <= produced'
  <2>1. CASE log' = log
    BY <2>1, <1>1, HubFacts DEF HubInStep
  <2>2. ASSUME capturing, NEW written \in 0 .. size, log' = log \o Bytes(produced, written)
        PROVE  IsRun(log', 0) /\ Len(log') <= produced'
    <3> DEFINE b == Bytes(produced, written)
    <3>1. written \in Nat /\ written <= size /\ produced + written <= MaxBytes
      BY <1>1, HubFacts
    <3>2. b \in Seq(0 .. MaxBytes) /\ Len(b) = written /\ IsRun(b, produced)
      BY <3>1, HubFacts, BytesRun
    <3>3. IsRun(log, 0) /\ Len(log) = produced /\ log \in Seq(0 .. MaxBytes)
      BY <2>2, HubFacts DEF HubInStep
    <3>4. log' = log \o b
      BY <2>2
    <3> HIDE DEF b
    <3>5. IsRun(b, 0 + Len(log))
      BY <3>2, <3>3, HubFacts
    <3>6. IsRun(log \o b, 0) /\ Len(log \o b) = Len(log) + Len(b)
      BY <3>2, <3>3, <3>5, RunsJoin, Joined
    <3>7. Len(log \o b) <= produced'
      BY <3>1, <3>2, <3>3, <3>6, <1>1, HubFacts
    <3> QED BY <3>4, <3>6, <3>7
  <2> QED BY <1>4, <2>1, <2>2
<1>6. capturing' => Len(log') = produced' /\ ~logError'
  BY <1>1, <1>2, HubFacts DEF HubInStep
<1>7. Len(log') \in Nat
  BY <1>2
<1>8. capturing' \in BOOLEAN
  BY <1>1, HubFacts, CaptureFacts
<1>9. ~capturing' => capturing \/ logError'
  <2>1. spawns > 0
    BY DEF Broadcast
  <2> QED BY <1>2, <2>1 DEF HubInStep
<1> QED BY <1>2, <1>3, <1>5, <1>6, <1>7, <1>9

\* The hub's part of the invariant, put together.
LEMMA HubTogether ==
    ASSUME IsRun(log', 0), Len(log') <= produced',
           capturing' => Len(log') = produced' /\ ~logError' /\ spawns' > 0,
           backlog' <= produced', backlog' = 0 <=> produced' = Prior,
           spawns' = 0 => produced' = Prior /\ Len(log') = produced',
           spawns' > 0 => /\ nextOffset' = produced'
                          /\ backlogStart' = produced' - backlog'
                          /\ capturing' \/ (logError' /\ LogMayFail)
    PROVE  HubInStep'
  BY Zenon DEF HubInStep

\* A command starts or writes output.
LEMMA HubGoesOn ==
    ASSUME OpenedOnce, TypeOK, HubInStep,
           Configure \/ \E size \in Sizes : Broadcast(size)
    PROVE  HubTypeOK' /\ HubInStep'
<1>1. HubTypeOK'
  BY HubFacts, HubTypeStep DEF HubNext
<1>2. CASE Configure
  <2>1. /\ spawns < MaxSpawns /\ spawns' = spawns + 1
        /\ produced' = produced /\ log' = log
    BY <1>2 DEF Configure
  <2>2. CASE capturing /\ UNCHANGED <<stamps, hub>>
    <3>1. /\ capturing' = capturing /\ logError' = logError /\ backlog' = backlog
          /\ nextOffset' = nextOffset /\ backlogStart' = backlogStart /\ capturing
      BY <2>2 DEF hub
    <3>2. spawns > 0 /\ spawns' > 0 /\ spawns' # 0
      BY <2>1, <3>1, HubFacts DEF HubInStep
    <3>3. UNCHANGED <<produced, log, backlog, capturing, logError, nextOffset, backlogStart>>
      BY <2>1, <3>1
    <3>4. IsRun(log, 0) /\ Len(log) <= produced
      BY DEF HubInStep
    <3>5. backlog <= produced /\ (backlog = 0 <=> produced = Prior)
      BY DEF HubInStep
    <3>6. Len(log) = produced /\ ~logError
      BY <3>1 DEF HubInStep
    <3>7. nextOffset = produced /\ backlogStart = produced - backlog
      BY <3>2 DEF HubInStep
    <3>8. IsRun(log', 0) /\ Len(log') <= produced'
      BY <3>3, <3>4
    <3>9. backlog' <= produced' /\ (backlog' = 0 <=> produced' = Prior)
      BY <3>3, <3>5
    <3>10. Len(log') = produced' /\ ~logError'
      BY <3>3, <3>6
    <3>11. nextOffset' = produced' /\ backlogStart' = produced' - backlog' /\ capturing'
      BY <3>1, <3>3, <3>7
    <3> QED BY <1>1, <3>2, <3>8, <3>9, <3>10, <3>11, HubTogether
  <2>3. CASE ~capturing /\ capturing' = TRUE /\ nextOffset' = Len(log)
             /\ backlogStart' = Len(log) /\ logError' = FALSE /\ UNCHANGED backlog
    <3>1. spawns = 0
      BY <2>1, <2>3, HubFacts, Numbers DEF HubInStep, OpenedOnce
    <3>2. produced = Prior /\ Len(log) = produced /\ backlog = 0
      BY <3>1 DEF HubInStep
    <3>3. spawns' > 0 /\ spawns' # 0
      BY <2>1, <3>1
    <3>4. backlogStart' = produced - backlog /\ nextOffset' = produced
      BY <2>3, <3>2, HubFacts
    <3>5. UNCHANGED <<produced, log, backlog>> /\ capturing' /\ ~logError'
      BY <2>1, <2>3
    <3>6. IsRun(log, 0) /\ Len(log) <= produced
      BY DEF HubInStep
    <3>7. backlog <= produced /\ (backlog = 0 <=> produced = Prior)
      BY DEF HubInStep
    <3>8. IsRun(log', 0) /\ Len(log') <= produced'
      BY <3>5, <3>6
    <3>9. backlog' <= produced' /\ (backlog' = 0 <=> produced' = Prior)
      BY <3>5, <3>7
    <3>10. Len(log') = produced' /\ backlogStart' = produced' - backlog'
           /\ nextOffset' = produced'
      BY <3>2, <3>4, <3>5
    <3> QED BY <1>1, <3>3, <3>5, <3>8, <3>9, <3>10, HubTogether
  <2> QED BY <1>2, <2>2, <2>3 DEF Configure
<1>3. ASSUME NEW size \in Sizes, Broadcast(size) PROVE HubInStep'
  <2>1. /\ spawns > 0 /\ spawns' = spawns /\ size \in Nat \ {0}
        /\ produced' = produced + size
        /\ nextOffset' = nextOffset + size
        /\ Retain(size)
    BY <1>3, Numbers DEF Broadcast
  <2>2. backlog' <= produced' /\ backlog' # 0 /\ backlogStart' = produced' - backlog'
    <3>1. /\ backlogStart = produced - backlog /\ backlog <= produced
          /\ backlog \in Nat /\ produced \in Nat /\ BacklogCap \in Nat \ {0}
      BY <2>1, HubFacts, Numbers DEF HubInStep
    <3>2. /\ backlog' = Least(backlog + size, BacklogCap)
          /\ backlogStart' = backlogStart + (backlog + size - backlog')
      BY <2>1 DEF Retain
    <3>3. backlog' \in Nat \ {0} /\ backlog' <= backlog + size
      BY <2>1, <3>1, <3>2 DEF Least
    <3> QED BY <2>1, <3>1, <3>2, <3>3
  <2>3. produced' # Prior /\ nextOffset' = produced' /\ spawns' # 0
    BY <2>1, HubFacts DEF HubInStep
  <2>4. capturing' \/ (logError' /\ LogMayFail)
    BY <1>3, <2>1, LogGoesOn, HubFacts DEF HubInStep
  <2>5. /\ IsRun(log', 0) /\ Len(log') <= produced'
        /\ capturing' => Len(log') = produced' /\ ~logError'
    BY <1>3, LogGoesOn
  <2>6. spawns' > 0
    BY <2>1
  <2>7. backlog' = 0 <=> produced' = Prior
    BY <2>2, <2>3
  <2> QED BY <2>2, <2>3, <2>4, <2>5, <2>6, <2>7, HubTogether
<1> QED BY <1>1, <1>2, <1>3

-----------------------------------------------------------------------------
(***************************************************************************)
(* The invariant is inductive: one lemma for each action.                  *)
(***************************************************************************)

Sessions == {"running", "announced", "gone"}
Servers == {"none", "hello", "replay", "stream", "quiet", "done"}
Places == {"connecting", "streaming", "exited", "failed", "detached"}

\* The types of the variables above the hub, put together.
LEMMA TypesTogether ==
    ASSUME HubTypeOK', session' \in Sessions, due' \in 0 .. MaxBytes, mode' \in Modes,
           racing' \in BOOLEAN,
           server' \in Servers, readPos' \in 0 .. MaxBytes, link' \in Seq(FrameType),
           cuts' \in 0 .. MaxCuts, place' \in Places, established' \in BOOLEAN,
           cursor' \in {NoCursor} \cup 0 .. MaxBytes, shown' \in Seq(0 .. MaxBytes)
    PROVE  TypeOK'
  BY DEF TypeOK, FrameType, Sessions, Servers, Places

\* What the types say, as plain facts.
LEMMA Facts ==
    ASSUME TypeOK
    PROVE  /\ session \in Sessions /\ due \in 0 .. MaxBytes /\ due \in Nat
           /\ racing \in BOOLEAN
           /\ mode \in Modes /\ server \in Servers /\ readPos \in 0 .. MaxBytes
           /\ link \in Seq(FrameType) /\ cuts \in 0 .. MaxCuts /\ place \in Places
           /\ established \in BOOLEAN
           /\ cursor \in {NoCursor} \cup 0 .. MaxBytes /\ cursor \in {NoCursor} \cup Nat
           /\ shown \in Seq(0 .. MaxBytes)
           /\ NoCursor = -1 /\ NoCursor \notin Nat
<1>1. /\ session \in Sessions /\ due \in 0 .. MaxBytes /\ racing \in BOOLEAN
      /\ mode \in Modes /\ server \in Servers /\ readPos \in 0 .. MaxBytes
      /\ link \in Seq(FrameType) /\ cuts \in 0 .. MaxCuts /\ place \in Places
      /\ established \in BOOLEAN
      /\ cursor \in {NoCursor} \cup 0 .. MaxBytes
      /\ shown \in Seq(0 .. MaxBytes)
  BY DEF TypeOK, FrameType, Sessions, Servers, Places
<1>2. due \in Nat /\ cursor \in {NoCursor} \cup Nat
  BY <1>1, Numbers
<1> QED BY <1>1, <1>2 DEF NoCursor

\* A display that is left alone while nothing is lost from the log.
LEMMA DisplayStays ==
    ASSUME Display, UNCHANGED <<cursor, shown>>, TypeOK, HubInStep,
           produced' \in Nat, produced' >= produced
    PROVE  Display'
<1>1. cursor' <= produced'
  BY Facts, HubFacts DEF Display
<1> QED BY <1>1 DEF Display, ShownOnce

\* A display that is begun again.
LEMMA DisplayBegins ==
    ASSUME cursor' = NoCursor, shown' = <<>>, produced' \in Nat
    PROVE  Display'
  BY DEF Display, ShownOnce, NoCursor

\* The types of a display that was left alone or begun again.
LEMMA DisplayTypes ==
    ASSUME TypeOK,
           UNCHANGED <<cursor, shown>> \/ (cursor' = NoCursor /\ shown' = <<>>)
    PROVE  cursor' \in {NoCursor} \cup 0 .. MaxBytes /\ shown' \in Seq(0 .. MaxBytes)
<1>1. CASE UNCHANGED <<cursor, shown>>
  BY <1>1, Facts
<1>2. CASE cursor' = NoCursor /\ shown' = <<>>
  <2>1. <<>> \in Seq(0 .. MaxBytes)
    OBVIOUS
  <2> QED BY <1>2, <2>1
<1> QED BY <1>1, <1>2

\* The invariant at the start.
LEMMA RemoteInit == Init => RemoteInv
<1> SUFFICES ASSUME Init PROVE RemoteInv
  OBVIOUS
<1>1. HubTypeOK /\ HubInit
  BY HubTypeInit DEF Init
<1>2. /\ session = "running" /\ due = 0 /\ racing = FALSE
      /\ mode \in Modes /\ server = "none"
      /\ readPos = 0 /\ link = <<>> /\ cuts = 0 /\ place = "connecting"
      /\ established = FALSE /\ cursor = NoCursor /\ shown = <<>>
  BY DEF Init
<1>3. TypeOK
  <2>1. link \in Seq(FrameType) /\ shown \in Seq(0 .. MaxBytes)
    BY <1>2
  <2>2. 0 \in 0 .. MaxBytes /\ 0 \in 0 .. MaxCuts
    BY Numbers, Setting
  <2> QED BY <1>1, <1>2, <2>1, <2>2 DEF TypeOK, FrameType
<1>4. HubInStep
  <2>1. log = Bytes(0, Prior) /\ IsRun(log, 0) /\ Len(log) = Prior
    BY <1>1, Numbers, BytesRun DEF HubInit
  <2> QED BY <1>1, <2>1, Numbers DEF HubInStep, HubInit
<1>5. Registered = NoClient /\ Sent = <<>>
  BY <1>1, Setting DEF Registered, Sent, HubInit
<1>6. Connection
  BY <1>2, <1>5 DEF Connection
<1>7. Delivery
  BY <1>2, ContinuesEmpty DEF Delivery
<1>8. Service
  BY <1>2, <1>5, QueuedEmpty DEF Service
<1>9. Display
  BY <1>2, <1>1, Numbers DEF Display, ShownOnce, HubInit, NoCursor
<1>10. Ending
  BY <1>2, <1>1, Numbers, ToldEmpty DEF Ending, HubInit
<1> QED BY <1>3, <1>4, <1>6, <1>7, <1>8, <1>9, <1>10 DEF RemoteInv

\* The terminal leaves its connection: cut, ended, finished or detached.
LEMMA Left ==
    ASSUME RemoteInv, Abandon, UNCHANGED <<hubSide, sessionVars>>,
           cuts' \in 0 .. MaxCuts, established' \in BOOLEAN,
           place' \in Places \ {"streaming"},
           place' = "exited" => session # "running"
                                /\ Complete(cursor', due, Owed),
           UNCHANGED <<cursor, shown>> \/ (cursor' = NoCursor /\ shown' = <<>>)
    PROVE  RemoteInv'
<1>1. TypeOK /\ HubInStep /\ Display /\ Ending
  BY DEF RemoteInv
<1>2. HubTypeOK' /\ HubInStep' /\ Registered' = NoClient /\ Sent' = <<>>
  BY <1>1, Forgotten DEF Abandon
<1>3. /\ server' = "none" /\ link' = <<>> /\ readPos' = readPos
      /\ session' = session /\ due' = due /\ mode' = mode /\ racing' = racing
      /\ produced' = produced /\ spawns' = spawns /\ capturing' = capturing
      /\ Owed' = Owed
  BY DEF Abandon, hubSide, sessionVars, hub, Owed
<1>4. cursor' \in {NoCursor} \cup 0 .. MaxBytes /\ shown' \in Seq(0 .. MaxBytes)
  BY <1>1, DisplayTypes
<1>5. TypeOK'
  <2>1. link' \in Seq(FrameType) /\ server' \in Servers /\ place' \in Places
    BY <1>3 DEF Servers
  <2> QED BY <1>1, <1>2, <1>3, <1>4, <2>1, Facts, TypesTogether
<1>6. Connection'
  BY <1>2, <1>3 DEF Connection
<1>7. Delivery'
  BY <1>3, ContinuesEmpty DEF Delivery
<1>8. Service'
  BY <1>2, <1>3, QueuedEmpty DEF Service
<1>9. Display'
  <2>1. produced' \in Nat /\ produced' >= produced
    BY <1>1, <1>3, HubFacts
  <2> QED BY <1>1, <2>1, DisplayStays, DisplayBegins
<1>10. Ending'
  BY <1>1, <1>3, ToldEmpty DEF Ending
<1> QED BY <1>2, <1>5, <1>6, <1>7, <1>8, <1>9, <1>10 DEF RemoteInv

\* What a loss does to the terminal.
LEMMA Lost ==
    ASSUME TypeOK, Reconnect
    PROVE  /\ established' \in BOOLEAN /\ place' \in {"connecting", "failed"}
           /\ UNCHANGED <<cursor, shown>> \/ (cursor' = NoCursor /\ shown' = <<>>)
  BY Facts DEF Reconnect

\* The transport breaks.
LEMMA CutStep == ASSUME RemoteInv, Cut PROVE RemoteInv'
<1>1. TypeOK
  BY DEF RemoteInv
<1>2. cuts' \in 0 .. MaxCuts
  BY <1>1, Facts, Setting DEF Cut
<1>3. Reconnect /\ Abandon /\ UNCHANGED <<hubSide, sessionVars>>
  BY DEF Cut
<1>4. place' \in Places \ {"streaming"} /\ place' # "exited"
  BY <1>1, <1>3, Lost DEF Places
<1> QED BY <1>1, <1>2, <1>3, <1>4, Lost, Left

\* The worker has closed the connection.
LEMMA EndStep == ASSUME RemoteInv, EndOfStream PROVE RemoteInv'
<1>1. TypeOK
  BY DEF RemoteInv
<1>2. cuts' \in 0 .. MaxCuts
  BY <1>1, Facts DEF EndOfStream
<1>3. Reconnect /\ Abandon /\ UNCHANGED <<hubSide, sessionVars>>
  BY DEF EndOfStream
<1>4. place' \in Places \ {"streaming"} /\ place' # "exited"
  BY <1>1, <1>3, Lost DEF Places
<1> QED BY <1>1, <1>2, <1>3, <1>4, Lost, Left

\* The user detaches.
LEMMA DetachStep == ASSUME RemoteInv, UserDetaches PROVE RemoteInv'
<1>1. TypeOK
  BY DEF RemoteInv
<1>2. /\ Abandon /\ UNCHANGED <<hubSide, sessionVars>> /\ UNCHANGED <<cursor, shown>>
      /\ place' = "detached" /\ cuts' = cuts /\ established' = established
  BY DEF UserDetaches
<1>3. place' \in Places \ {"streaming"} /\ place' # "exited"
  BY <1>2 DEF Places
<1> QED BY <1>1, <1>2, <1>3, Facts, Left

\* The exit or an error arrives, after everything before it was shown.
LEMMA FinalStep == ASSUME RemoteInv, ReceiveFinal PROVE RemoteInv'
<1>1. TypeOK /\ Ending
  BY DEF RemoteInv
<1>2. /\ Abandon /\ UNCHANGED <<hubSide, sessionVars>> /\ UNCHANGED <<cursor, shown>>
      /\ place' = IF Head(link).kind = "exit" THEN "exited" ELSE "failed"
      /\ cuts' = cuts /\ established' = established /\ link # <<>>
  BY DEF ReceiveFinal
<1>3. place' \in Places \ {"streaming"}
  BY <1>2 DEF Places
<1>4. place' = "exited" => session # "running" /\ Complete(cursor', due, Owed)
  <2> SUFFICES ASSUME place' = "exited"
               PROVE  session # "running" /\ Complete(cursor', due, Owed)
    OBVIOUS
  <2>1. 1 \in 1 .. Len(link) /\ link[1].kind = "exit"
    BY <1>1, <1>2, Facts, Queues
  <2>2. Complete(cursor, due, Owed)
    BY <1>1, <2>1 DEF Ending, Told
  <2>3. session # "running"
    BY <1>1, <2>1 DEF Ending
  <2> QED BY <1>2, <2>2, <2>3
<1> QED BY <1>1, <1>2, <1>3, <1>4, Facts, Left

\* A handshake fails: there was no connection.
LEMMA HandshakeStep == ASSUME RemoteInv, HandshakeFails PROVE RemoteInv'
<1>1. TypeOK /\ HubInStep /\ Connection /\ Delivery /\ Service /\ Display /\ Ending
  BY DEF RemoteInv
<1>2. /\ UNCHANGED <<hubVars, sessionVars, server, readPos, link>>
      /\ place = "connecting" /\ cuts' \in 0 .. MaxCuts /\ Reconnect
  BY <1>1, Facts, Setting DEF HandshakeFails
<1>3. /\ UNCHANGED <<produced, log, spawns, capturing, session, due, racing, mode>>
      /\ UNCHANGED <<client, inbox, server, readPos, link>>
      /\ UNCHANGED <<produced, files, spawns, hub, client, inbox>>
      /\ Owed' = Owed
  BY <1>2 DEF hubVars, sessionVars, files, hub, Owed
<1>4. server = "none" /\ link = <<>> /\ Registered = NoClient /\ Sent = <<>>
  BY <1>1, <1>2 DEF Connection
<1>5. /\ established' \in BOOLEAN /\ place' \in {"connecting", "failed"}
      /\ UNCHANGED <<cursor, shown>> \/ (cursor' = NoCursor /\ shown' = <<>>)
  BY <1>1, <1>2, Lost
<1>6. HubTypeOK' /\ HubInStep'
  BY <1>1, <1>3, HubFacts DEF HubTypeOK, HubInStep, files, hub
<1>7. TypeOK'
  <2>1. cursor' \in {NoCursor} \cup 0 .. MaxBytes /\ shown' \in Seq(0 .. MaxBytes)
    BY <1>1, <1>5, DisplayTypes
  <2>2. place' \in Places
    BY <1>5 DEF Places
  <2> QED BY <1>1, <1>2, <1>3, <1>5, <1>6, <2>1, <2>2, Facts, TypesTogether
<1>8. Registered' = NoClient /\ Sent' = <<>>
  BY <1>3, <1>4 DEF Registered, Sent
<1>9. Connection'
  BY <1>3, <1>4, <1>5, <1>8 DEF Connection
<1>10. Delivery'
  BY <1>3, <1>4, ContinuesEmpty DEF Delivery
<1>11. Service'
  BY <1>3, <1>4, <1>8, QueuedEmpty DEF Service
<1>12. Display'
  <2>1. produced' \in Nat /\ produced' >= produced
    BY <1>1, <1>3, HubFacts
  <2> QED BY <1>1, <1>5, <2>1, DisplayStays, DisplayBegins
<1>13. Ending'
  BY <1>1, <1>3, <1>4, <1>5, ToldEmpty DEF Ending
<1> QED BY <1>6, <1>7, <1>9, <1>10, <1>11, <1>12, <1>13 DEF RemoteInv

\* The worker closes the connection, with or without a last word.
LEMMA Closed ==
    ASSUME RemoteInv, Close, server # "none",
           UNCHANGED <<hubSide, due, racing, mode, cuts, viewerVars>>,
           session' \in Sessions, session' = "running" <=> session = "running",
           link' \in Seq(FrameType), Continues(link', cursor, produced),
           Told(link', cursor, due, Owed),
           session = "running" => \A i \in 1 .. Len(link') : link'[i].kind # "exit"
    PROVE  RemoteInv'
<1>1. TypeOK /\ HubInStep /\ Connection /\ Display /\ Ending
  BY DEF RemoteInv
<1>2. HubTypeOK' /\ HubInStep' /\ Registered' = NoClient /\ Sent' = <<>>
  BY <1>1, Forgotten DEF Close
<1>3. /\ server' = "done" /\ readPos' = readPos /\ due' = due /\ mode' = mode
      /\ cuts' = cuts /\ place' = place /\ established' = established
      /\ cursor' = cursor /\ shown' = shown
      /\ produced' = produced /\ spawns' = spawns /\ capturing' = capturing
      /\ racing' = racing /\ Owed' = Owed
  BY DEF Close, hubSide, viewerVars, hub, Owed
<1>4. TypeOK'
  <2>1. server' \in Servers
    BY <1>3 DEF Servers
  <2> QED BY <1>1, <1>2, <1>3, <2>1, Facts, TypesTogether
<1>5. Connection'
  BY <1>1, <1>2, <1>3 DEF Connection
<1>6. Delivery'
  BY <1>3 DEF Delivery
<1>7. Service'
  BY <1>2, <1>3, QueuedEmpty DEF Service
<1>8. Display'
  <2>1. produced' \in Nat /\ produced' >= produced
    BY <1>1, <1>3, HubFacts
  <2> QED BY <1>1, <1>3, <2>1, DisplayStays
<1>9. Ending'
  BY <1>1, <1>3 DEF Ending
<1> QED BY <1>2, <1>4, <1>5, <1>6, <1>7, <1>8, <1>9 DEF RemoteInv

\* The worker process ends.
LEMMA EndsStep == ASSUME RemoteInv, WorkerEnds PROVE RemoteInv'
<1>1. TypeOK /\ HubInStep /\ Connection /\ Delivery /\ Service /\ Display /\ Ending
  BY DEF RemoteInv
<1>2. /\ session = "announced" /\ session' = "gone"
      /\ UNCHANGED <<hubSide, due, racing, mode, link, cuts, viewerVars>>
  BY DEF WorkerEnds
<1>3. CASE server = "none"
  <2>1. UNCHANGED serverVars
    BY <1>3 DEF WorkerEnds
  <2>2. /\ UNCHANGED <<produced, files, spawns, hub, client, inbox>>
        /\ UNCHANGED <<log, capturing, due, racing, mode, link, cuts>>
        /\ UNCHANGED <<server, readPos, place, established, cursor, shown>>
        /\ Owed' = Owed
    BY <1>2, <2>1 DEF hubSide, serverVars, viewerVars, files, hub, Owed
  <2>3. HubTypeOK' /\ HubInStep'
    BY <1>1, <2>2, HubFacts DEF HubTypeOK, HubInStep, files, hub
  <2>4. TypeOK'
    <3>1. session' \in Sessions
      BY <1>2 DEF Sessions
    <3> QED BY <1>1, <2>2, <2>3, <3>1, Facts, TypesTogether
  <2>5. Registered' = Registered /\ Sent' = Sent
    BY <2>2 DEF Registered, Sent
  <2>6. Connection'
    BY <1>1, <1>2, <1>3, <2>2, <2>5 DEF Connection
  <2>7. Delivery'
    BY <1>1, <2>2 DEF Delivery
  <2>8. Service'
    BY <1>1, <1>3, <2>2, <2>5 DEF Service
  <2>9. Display'
    <3>1. produced' \in Nat /\ produced' >= produced
      BY <1>1, <2>2, HubFacts
    <3> QED BY <1>1, <2>2, <3>1, DisplayStays
  <2>10. Ending'
    BY <1>1, <1>2, <1>3, <2>2 DEF Ending
  <2> QED BY <2>3, <2>4, <2>6, <2>7, <2>8, <2>9, <2>10 DEF RemoteInv
<1>4. CASE server # "none"
  <2>1. Close
    BY <1>4 DEF WorkerEnds
  <2>2. session' \in Sessions /\ (session' = "running" <=> session = "running")
    BY <1>2 DEF Sessions
  <2>3. /\ link' \in Seq(FrameType) /\ Continues(link', cursor, produced)
        /\ Told(link', cursor, due, Owed)
    BY <1>1, <1>2, Facts DEF Delivery, Ending
  <2>4. session # "running"
    BY <1>2
  <2> QED BY <1>2, <1>4, <2>1, <2>2, <2>3, <2>4, Closed
<1> QED BY <1>3, <1>4

\* The last words.
LEMMA Finals ==
    ASSUME NEW kind \in {"exit", "error"}
    PROVE  /\ Final(kind) \in FrameType /\ Final(kind).kind = kind
           /\ Final(kind).kind # "output"
<1>1. 0 \in 0 .. MaxBytes /\ <<>> \in Seq(0 .. MaxBytes)
  BY Numbers
<1> QED BY <1>1 DEF Final, FrameType

\* The worker refuses to go on.
LEMMA RefuseStep == ASSUME RemoteInv, Refuse PROVE RemoteInv'
<1>1. TypeOK /\ HubInStep /\ Connection /\ Delivery /\ Ending
  BY DEF RemoteInv
<1>2. /\ server = "hello" /\ link' = Append(link, Final("error")) /\ Close
      /\ UNCHANGED <<hubSide, due, racing, mode, cuts, viewerVars>> /\ session' = session
  BY DEF Refuse, sessionVars
<1>3. link = <<>>
  BY <1>1, <1>2 DEF Connection
<1> DEFINE f == Final("error")
<1>4. f \in FrameType /\ f.kind = "error" /\ f.kind # "output" /\ f.kind # "exit"
  BY Finals
<1> HIDE DEF f
<1>5. link' = Append(link, f)
  BY <1>2 DEF f
<1>6. \A i \in 1 .. Len(link) : link[i].kind = "output"
  BY <1>3
<1>7. link' \in Seq(FrameType) /\ Continues(link', cursor, produced)
  BY <1>1, <1>4, <1>5, <1>6, Facts, HubFacts, Queues, ContinuesWord DEF Delivery
<1>8. Told(link', cursor, due, Owed)
  BY <1>1, <1>4, <1>5, Facts, ToldMore DEF Ending
<1>9. \A i \in 1 .. Len(link') : link'[i].kind # "exit"
  <2>1. Len(link') = 1 /\ link'[1] = f
    BY <1>3, <1>5
  <2> QED BY <2>1, <1>4
<1> QED BY <1>1, <1>2, <1>7, <1>8, <1>9, Facts, Closed

\* A connection that streams has nothing but output on its way.
LEMMA OnlyOutput ==
    ASSUME Delivery, TypeOK, server # "done"
    PROVE  \A i \in 1 .. Len(link) : link[i].kind = "output" /\ link[i].kind # "exit"
  BY DEF Delivery

\* A step that leaves the hub alone.
LEMMA HubStays ==
    ASSUME TypeOK, HubInStep, UNCHANGED hubVars
    PROVE  /\ HubTypeOK' /\ HubInStep' /\ Registered' = Registered /\ Sent' = Sent
           /\ UNCHANGED <<produced, log, spawns, capturing>>
<1>1. UNCHANGED <<produced, files, spawns, hub, client, inbox>>
  BY DEF hubVars
<1>2. UNCHANGED <<produced, log, spawns, capturing>>
  BY <1>1 DEF files, hub
<1>3. HubTypeOK' /\ HubInStep'
  BY <1>1, HubFacts DEF HubTypeOK, HubInStep, files, hub
<1>4. Registered' = Registered /\ Sent' = Sent
  BY <1>1 DEF Registered, Sent
<1> QED BY <1>2, <1>3, <1>4

\* handle_attach goes on to its next poll.
LEMMA Polled ==
    ASSUME RemoteInv,
           server \in {"stream", "quiet"}, server' \in {"stream", "quiet"},
           server' = "quiet" => Complete(Front(link, cursor), due, Owed),
           UNCHANGED hubVars, UNCHANGED <<session, due, racing, mode, readPos, link, cuts>>,
           UNCHANGED <<place, established, cursor, shown>>
    PROVE  RemoteInv'
<1>1. TypeOK /\ HubInStep /\ Connection /\ Delivery /\ Service /\ Display /\ Ending
  BY DEF RemoteInv
<1>2. /\ HubTypeOK' /\ HubInStep' /\ Registered' = Registered /\ Sent' = Sent
      /\ UNCHANGED <<produced, log, spawns, capturing>>
  BY <1>1, HubStays
<1>3. Owed' = Owed /\ Front(link, cursor)' = Front(link, cursor)
  BY <1>2 DEF Owed
<1>4. TypeOK'
  <2>1. server' \in Servers
    BY DEF Servers
  <2> QED BY <1>1, <1>2, <2>1, Facts, TypesTogether
<1>5. Connection'
  BY <1>1, <1>2 DEF Connection
<1>6. Delivery'
  BY <1>1, <1>2 DEF Delivery
<1>7. Service'
  BY <1>1, <1>2, <1>3 DEF Service
<1>8. Display'
  <2>1. produced' \in Nat /\ produced' >= produced
    BY <1>1, <1>2, HubFacts
  <2> QED BY <1>1, <2>1, DisplayStays
<1>9. Ending'
  BY <1>1, <1>2, <1>3 DEF Ending
<1> QED BY <1>2, <1>4, <1>5, <1>6, <1>7, <1>8, <1>9 DEF RemoteInv

\* A poll of the output that finds nothing: all that is due is on its way.
LEMMA PollOutputStep == ASSUME RemoteInv, PollOutput PROVE RemoteInv'
<1>1. TypeOK /\ HubInStep /\ Connection /\ Delivery /\ Service /\ Display /\ Ending
  BY DEF RemoteInv
<1>2. /\ server = "stream" /\ server' = "quiet" /\ Sent = <<>>
      /\ UNCHANGED hubVars /\ UNCHANGED <<session, due, racing, mode, readPos, link, cuts>>
      /\ UNCHANGED <<place, established, cursor, shown>>
  BY DEF PollOutput, sessionVars, viewerVars, Sent
<1>3. Complete(Front(link, cursor), due, Owed)
  <2>1. GoesOnAt(<<>>, Front(link, cursor), produced)
    BY <1>1, <1>2 DEF Service
  <2>2. due <= produced /\ due \in Nat /\ produced \in Nat /\ NoCursor \notin Nat
    BY <1>1, Facts, HubFacts DEF Ending
  <2> QED BY <2>1, <2>2 DEF GoesOnAt, Complete
<1> QED BY <1>1, <1>2, <1>3, Polled

\* A poll of the exit that finds none.
LEMMA PollExitStep == ASSUME RemoteInv, PollExit PROVE RemoteInv'
<1>1. /\ server = "quiet" /\ server' = "stream"
      /\ UNCHANGED hubVars /\ UNCHANGED <<session, due, racing, mode, readPos, link, cuts>>
      /\ UNCHANGED <<place, established, cursor, shown>>
  BY DEF PollExit, sessionVars, viewerVars
<1> QED BY <1>1, Polled

\* What is due has been sent: the exit follows.
LEMMA SendExitStep == ASSUME RemoteInv, SendExit PROVE RemoteInv'
<1>1. TypeOK /\ HubInStep /\ Connection /\ Delivery /\ Service /\ Ending
  BY DEF RemoteInv
<1>2. /\ server = "quiet" /\ session = "announced" /\ Close
      /\ link' = Append(link, Final("exit"))
      /\ UNCHANGED <<hubSide, due, racing, mode, cuts, viewerVars>> /\ session' = session
  BY DEF SendExit, sessionVars
<1> DEFINE f == Final("exit")
<1>3. f \in FrameType /\ f.kind # "output" /\ link' = Append(link, f)
  BY <1>2, Finals
<1> HIDE DEF f
<1>4. \A i \in 1 .. Len(link) : link[i].kind = "output"
  BY <1>1, <1>2, OnlyOutput
<1>5. link' \in Seq(FrameType) /\ Continues(link', cursor, produced)
  BY <1>1, <1>3, <1>4, Facts, HubFacts, Queues, ContinuesWord DEF Delivery
<1>6. Complete(Front(link, cursor), due, Owed)
  BY <1>1, <1>2 DEF Ending
<1>7. Told(link', cursor, due, Owed)
  BY <1>1, <1>3, <1>4, <1>6, Facts, ToldExit
<1>8. session # "running" /\ session' \in Sessions
  BY <1>1, <1>2, Facts
<1> QED BY <1>1, <1>2, <1>5, <1>7, <1>8, Closed

\* The exit of the command is announced.
LEMMA AnnounceStep == ASSUME RemoteInv, AnnounceExit PROVE RemoteInv'
<1>1. TypeOK /\ HubInStep /\ Connection /\ Delivery /\ Service /\ Display /\ Ending
  BY DEF RemoteInv
<1>2. /\ session = "running" /\ spawns > 0
      /\ session' = "announced" /\ due' = produced
      /\ UNCHANGED <<produced, files, spawns, hub, client, inbox>>
      /\ racing' = (server = "quiet")
      /\ UNCHANGED <<mode, server, readPos, link, cuts>>
      /\ UNCHANGED <<place, established, cursor, shown>>
      /\ UNCHANGED <<log, capturing>>
  BY DEF AnnounceExit, hubVars, viewerVars, files, hub
<1>3. HubTypeOK' /\ HubInStep'
  BY <1>1, <1>2, HubFacts DEF HubTypeOK, HubInStep, files, hub
<1>4. TypeOK'
  <2>1. session' \in Sessions /\ due' \in 0 .. MaxBytes
    BY <1>1, <1>2, HubFacts DEF Sessions
  <2> QED BY <1>1, <1>2, <1>3, <2>1, Facts, TypesTogether
<1>5. Registered' = Registered /\ Sent' = Sent
  BY <1>2 DEF Registered, Sent
<1>6. Connection'
  BY <1>1, <1>2, <1>5 DEF Connection
<1>7. Delivery'
  BY <1>1, <1>2 DEF Delivery
<1>8. Service'
  BY <1>1, <1>2, <1>5 DEF Service
<1>9. Display'
  <2>1. produced' \in Nat /\ produced' >= produced
    BY <1>1, <1>2, HubFacts
  <2> QED BY <1>1, <1>2, <2>1, DisplayStays
<1>10. Ending'
  <2>1. /\ place # "exited" /\ \A i \in 1 .. Len(link) : link[i].kind # "exit"
    BY <1>1, <1>2 DEF Ending
  <2>2. Told(link', cursor', due', Owed')
    BY <1>2, <2>1 DEF Told
  <2>3. due' <= produced'
    BY <1>1, <1>2, HubFacts
  <2>4. server' = "quiet" => Complete(Front(link', cursor'), due', Owed')
    BY <1>2 DEF Complete, Owed
  <2> QED BY <1>2, <2>1, <2>2, <2>3, <2>4 DEF Ending
<1> QED BY <1>3, <1>4, <1>6, <1>7, <1>8, <1>9, <1>10 DEF RemoteInv

\* A command starts or writes output.
LEMMA RunsStep == ASSUME OpenedOnce, RemoteInv, SessionRuns PROVE RemoteInv'
<1>1. TypeOK /\ HubInStep /\ Connection /\ Delivery /\ Service /\ Display /\ Ending
  BY DEF RemoteInv
<1>2. /\ session # "gone"
      /\ \/ session = "running" /\ Configure
         \/ \E size \in Sizes : Broadcast(size)
      /\ UNCHANGED <<session, due, racing, mode, server, readPos, link, cuts>>
      /\ UNCHANGED <<place, established, cursor, shown>>
  BY DEF SessionRuns, sessionVars, viewerVars
<1>3. HubTypeOK' /\ HubInStep'
  BY <1>1, <1>2, HubGoesOn
<1>4. TypeOK'
  BY <1>1, <1>2, <1>3, Facts, TypesTogether
<1>5. /\ produced' >= produced /\ produced' \in Nat /\ produced \in Nat
      /\ Len(log') >= Len(log) /\ Len(log') \in Nat /\ Len(log) \in Nat
      /\ client' = client /\ spawns' >= spawns /\ spawns \in Nat /\ spawns' \in Nat
  <2>1. produced' \in Nat /\ Len(log') \in Nat /\ spawns' \in Nat
    BY <1>3, Numbers DEF HubTypeOK
  <2>2. CASE Configure
    <3>1. /\ produced' = produced /\ log' = log /\ client' = client
          /\ spawns' = spawns + 1
      BY <2>2 DEF Configure
    <3> QED BY <1>1, <2>1, <3>1, HubFacts
  <2>3. ASSUME NEW size \in Sizes, Broadcast(size)
        PROVE  /\ produced' >= produced /\ Len(log') >= Len(log) /\ client' = client
               /\ spawns' = spawns
    <3>1. size \in Nat /\ produced' = produced + size /\ client' = client /\ spawns' = spawns
      BY <2>3, Numbers DEF Broadcast
    <3>2. Len(log') >= Len(log)
      BY <1>1, <2>3, LogGoesOn
    <3> QED BY <1>1, <3>1, <3>2, HubFacts
  <2> QED BY <1>1, <1>2, <2>1, <2>2, <2>3, HubFacts
<1>6. Registered' = Registered
  BY <1>5 DEF Registered
<1>7. /\ Queued(Sent', produced')
      /\ server \in {"replay", "stream", "quiet"} =>
            \A c : GoesOnAt(Sent, c, produced) => GoesOnAt(Sent', c, produced')
      /\ server \in {"none", "hello", "done"} => Sent' = <<>>
  <2>1. CASE Configure
    <3>1. Sent' = Sent /\ produced' = produced
      BY <2>1 DEF Configure, Sent
    <3> QED BY <1>1, <3>1 DEF Service, Connection
  <2>2. ASSUME NEW size \in Sizes, Broadcast(size)
        PROVE  /\ Queued(Sent', produced')
               /\ server \in {"replay", "stream", "quiet"} =>
                    \A c : GoesOnAt(Sent, c, produced) => GoesOnAt(Sent', c, produced')
               /\ server \in {"none", "hello", "done"} => Sent' = <<>>
    <3>1. /\ size \in Nat \ {0} /\ produced' = produced + size
          /\ spawns > 0
      BY <2>2, Numbers DEF Broadcast
    <3>2. Sent' = IF Registered.state = "live"
                  THEN Append(Sent, Chunk(nextOffset, produced, size)) ELSE Sent
      BY <2>2, Setting DEF Broadcast, Sent, Registered
    <3>3. nextOffset = produced
      BY <1>1, <3>1 DEF HubInStep
    <3>4. CASE server \in {"replay", "stream", "quiet"}
      <4>1. Sent' = Append(Sent, Chunk(produced, produced, size))
        BY <1>1, <3>2, <3>3, <3>4 DEF Connection
      <4>2. Queued(Sent, produced) /\ Sent \in Seq(ChunkType) /\ produced \in Nat
        BY <1>1, HubFacts DEF Service
      <4> QED BY <3>1, <3>4, <4>1, <4>2, QueuedAppend
    <3>5. CASE server \in {"none", "hello", "done"}
      <4>1. Registered = NoClient /\ Sent = <<>>
        BY <1>1, <3>5 DEF Connection
      <4>2. Sent' = <<>>
        BY <3>2, <4>1 DEF NoClient
      <4> QED BY <3>5, <4>2, QueuedEmpty
    <3> QED BY <1>1, <3>4, <3>5, Facts DEF Servers
  <2> QED BY <1>2, <2>1, <2>2
<1>8. Connection'
  <2>1. spawns > 0 => spawns' > 0
    BY <1>5
  <2> QED BY <1>1, <1>2, <1>6, <1>7, <2>1 DEF Connection
<1>9. Delivery'
  <2>1. Continues(link, cursor, produced')
    BY <1>1, <1>5, Facts, ContinuesGrows DEF Delivery
  <2> QED BY <1>1, <1>2, <2>1 DEF Delivery
<1>10. Service'
  <2>1. Front(link, cursor)' = Front(link, cursor)
    BY <1>2
  <2>2. server = "replay" => /\ Front(link, cursor) = readPos
                             /\ readPos < Registered.end /\ Registered.end <= Len(log)
                             /\ GoesOnAt(Sent', Registered.end, produced')
    BY <1>1, <1>7 DEF Service
  <2>3. server \in {"stream", "quiet"} => GoesOnAt(Sent', Front(link, cursor), produced')
    BY <1>1, <1>7 DEF Service
  <2>4. server = "replay" => Registered.end <= Len(log')
    BY <1>1, <1>5, <2>2, HubFacts DEF ClientType
  <2> QED BY <1>2, <1>6, <1>7, <2>1, <2>2, <2>3, <2>4 DEF Service
<1>11. Display'
  BY <1>1, <1>2, <1>5, DisplayStays
<1>12. Ending'
  <2>1. CASE session = "running"
    <3>1. due = 0 /\ place # "exited" /\ \A i \in 1 .. Len(link) : link[i].kind # "exit"
      BY <1>1, <2>1 DEF Ending
    <3>2. Told(link', cursor', due', Owed')
      BY <1>2, <3>1 DEF Told
    <3>3. due' <= produced'
      BY <1>2, <1>5, <3>1
    <3>4. session' # "announced"
      BY <1>2, <2>1
    <3> QED BY <1>2, <2>1, <3>1, <3>2, <3>3, <3>4 DEF Ending
  <2>2. CASE session # "running"
    <3>1. PICK size \in Sizes : Broadcast(size)
      BY <1>2, <2>2
    <3>2. capturing' => capturing
      BY <1>1, <3>1, LogGoesOn
    <3>3. Owed \in BOOLEAN /\ Owed' \in BOOLEAN /\ (Owed' => Owed)
      BY <1>2, <3>2 DEF Owed
    <3>4. Told(link, cursor, due, Owed')
      BY <1>1, <3>3, ToldLess DEF Ending
    <3>5. place = "exited" => Complete(cursor, due, Owed')
      BY <1>1, <3>3 DEF Ending, Complete
    <3>6. due <= produced' /\ spawns' > 0
      BY <1>1, <1>5, <2>2, Facts DEF Ending
    <3>7. server = "quiet" /\ session = "announced" =>
              Complete(Front(link, cursor), due, Owed')
      BY <1>1, <3>3 DEF Ending, Complete
    <3>8. Front(link, cursor)' = Front(link, cursor)
      BY <1>2
    <3> QED BY <1>2, <2>2, <3>4, <3>5, <3>6, <3>7, <3>8 DEF Ending
  <2> QED BY <2>1, <2>2
<1> QED BY <1>3, <1>4, <1>8, <1>9, <1>10, <1>11, <1>12 DEF RemoteInv

\* Nothing happens.
LEMMA StutterStep == ASSUME RemoteInv, UNCHANGED vars PROVE RemoteInv'
<1>1. /\ UNCHANGED hubVars /\ UNCHANGED <<session, due, racing, mode, server, readPos, link, cuts>>
      /\ UNCHANGED <<place, established, cursor, shown>>
  BY DEF vars, sessionVars, viewerVars
<1>2. TypeOK /\ HubInStep /\ Connection /\ Delivery /\ Service /\ Display /\ Ending
  BY DEF RemoteInv
<1>3. /\ HubTypeOK' /\ HubInStep' /\ Registered' = Registered /\ Sent' = Sent
      /\ UNCHANGED <<produced, log, spawns, capturing>>
  BY <1>1, <1>2, HubStays
<1>4. TypeOK'
  BY <1>1, <1>2, <1>3, Facts, TypesTogether
<1>5. Connection'
  BY <1>1, <1>2, <1>3 DEF Connection
<1>6. Delivery'
  BY <1>1, <1>2, <1>3 DEF Delivery
<1>7. Service'
  BY <1>1, <1>2, <1>3 DEF Service
<1>8. Display'
  <2>1. produced' \in Nat /\ produced' >= produced
    BY <1>2, <1>3, HubFacts
  <2> QED BY <1>1, <1>2, <2>1, DisplayStays
<1>9. Ending'
  <2>1. Owed' = Owed
    BY <1>1, <1>3 DEF Owed
  <2> QED BY <1>1, <1>2, <1>3, <2>1 DEF Ending
<1> QED BY <1>3, <1>4, <1>5, <1>6, <1>7, <1>8, <1>9 DEF RemoteInv

\* The bridge has answered the terminal, from the worker or from the files.
LEMMA Answered ==
    ASSUME RemoteInv, place = "connecting", place' = "streaming", established' = TRUE,
           UNCHANGED <<hubVars, session, due, mode, readPos, cuts, cursor, shown>>,
           racing' = FALSE,
           \/ server' = "hello" /\ spawns > 0 /\ session # "gone" /\ link' = <<>>
           \/ server' = "done" /\ session # "running",
           link' \in Seq(FrameType), Continues(link', cursor, produced),
           Told(link', cursor, due, capturing)
    PROVE  RemoteInv'
<1>1. TypeOK /\ HubInStep /\ Connection /\ Service /\ Display /\ Ending
  BY DEF RemoteInv
<1>2. /\ HubTypeOK' /\ HubInStep' /\ Registered' = Registered /\ Sent' = Sent
      /\ UNCHANGED <<produced, log, spawns, capturing>>
  BY <1>1, HubStays
<1>3. UNCHANGED <<session, due, mode, readPos, cuts, cursor, shown>> /\ UNCHANGED hubVars
  OBVIOUS
<1>4. Registered = NoClient /\ Sent = <<>>
  BY <1>1 DEF Connection
<1>5. server' \in Servers /\ place' \in Places
  BY DEF Servers, Places
<1>6. TypeOK'
  BY <1>1, <1>2, <1>3, <1>5, Facts, TypesTogether
<1>7. Connection'
  BY <1>1, <1>2, <1>3, <1>4 DEF Connection
<1>8. Delivery'
  BY <1>2, <1>3 DEF Delivery
<1>9. Service'
  BY <1>2, <1>4, QueuedEmpty DEF Service
<1>10. Display'
  <2>1. produced' \in Nat /\ produced' >= produced
    BY <1>1, <1>2, HubFacts
  <2> QED BY <1>1, <1>3, <2>1, DisplayStays
<1>11. Ending'
  <2>1. session = "running" => link' = <<>>
    OBVIOUS
  <2>2. Owed' = (capturing /\ TRUE)
    BY <1>2 DEF Owed
  <2>3. Told(link', cursor', due', Owed')
    BY <1>3, <2>2 DEF Told, Complete
  <2>4. place' # "exited" /\ server' # "quiet"
    OBVIOUS
  <2> QED BY <1>1, <1>2, <1>3, <2>1, <2>3, <2>4 DEF Ending
<1> QED BY <1>2, <1>6, <1>7, <1>8, <1>9, <1>10, <1>11 DEF RemoteInv

\* The bridge reaches the worker.
LEMMA ConnectStep == ASSUME RemoteInv, Connect PROVE RemoteInv'
<1>1. TypeOK /\ Connection
  BY DEF RemoteInv
<1>2. /\ place = "connecting" /\ place' = "streaming" /\ established' = TRUE
      /\ server' = "hello" /\ spawns > 0 /\ session # "gone" /\ link' = link
      /\ UNCHANGED <<hubVars, session, due, mode, readPos, cuts, cursor, shown>>
      /\ racing' = FALSE
  BY DEF Connect
<1>3. link = <<>>
  BY <1>1, <1>2 DEF Connection
<1>4. /\ link' \in Seq(FrameType) /\ Continues(link', cursor, produced)
      /\ Told(link', cursor, due, capturing)
  BY <1>1, <1>2, <1>3, Facts, ContinuesEmpty, ToldEmpty
<1> QED BY <1>2, <1>3, <1>4, Answered

\* A frame of consecutive bytes.
LEMMA OutputFrame ==
    ASSUME NEW o \in Nat, NEW b \in Seq(0 .. MaxBytes), NEW p \in Nat,
           Len(b) > 0, IsRun(b, o), o + Len(b) <= p, p <= MaxBytes
    PROVE  /\ Output(o, b) \in FrameType /\ Output(o, b).kind = "output"
           /\ Output(o, b).offset = o /\ FrameEnd(Output(o, b)) = o + Len(b)
           /\ Carries(Output(o, b), p)
<1>1. Len(b) \in Nat /\ o <= MaxBytes
  BY Queues, Numbers
<1>2. Output(o, b) \in FrameType
  BY <1>1 DEF Output, FrameType
<1>3. /\ Output(o, b).kind = "output" /\ Output(o, b).offset = o
      /\ Output(o, b).bytes = b
  BY DEF Output
<1>4. FrameEnd(Output(o, b)) = o + Len(b)
  BY <1>3 DEF FrameEnd
<1> QED BY <1>2, <1>3, <1>4 DEF Carries

\* The first and only frame of a link.
LEMMA FirstFrame ==
    ASSUME NEW f \in FrameType, NEW c, NEW p, f.kind = "output", Carries(f, p),
           c \in {f.offset, NoCursor}
    PROVE  /\ <<f>> \in Seq(FrameType) /\ Continues(<<f>>, c, p)
           /\ Front(<<f>>, c) = FrameEnd(f)
           /\ \A i \in 1 .. Len(<<f>>) : <<f>>[i].kind = "output"
<1>1. Len(<<f>>) = 1 /\ <<f>>[1] = f /\ <<f>> # <<>> /\ <<f>> \in Seq(FrameType)
  OBVIOUS
<1> DEFINE l == <<f>>
<1> HIDE DEF l
<1>2. Len(l) = 1 /\ l[1] = f /\ l # <<>>
  BY <1>1 DEF l
<1>3. Continues(l, c, p) /\ Front(l, c) = FrameEnd(f)
  BY <1>2 DEF Continues, Front
<1>4. \A i \in 1 .. Len(l) : l[i].kind = "output"
  BY <1>2
<1> QED BY <1>1, <1>3, <1>4 DEF l

\* A last word that is the only one.
LEMMA FirstWord ==
    ASSUME NEW f \in FrameType, NEW c, NEW p, NEW d, NEW open, f.kind # "output",
           f.kind # "exit" \/ Complete(c, d, open)
    PROVE  <<f>> \in Seq(FrameType) /\ Continues(<<f>>, c, p) /\ Told(<<f>>, c, d, open)
<1>1. Len(<<f>>) = 1 /\ <<f>>[1] = f /\ <<f>> \in Seq(FrameType)
  OBVIOUS
<1> DEFINE l == <<f>>
<1> HIDE DEF l
<1>2. Len(l) = 1 /\ l[1] = f
  BY <1>1 DEF l
<1>3. Continues(l, c, p)
  BY <1>2 DEF Continues
<1>4. Told(l, c, d, open)
  BY <1>2 DEF Told
<1> QED BY <1>1, <1>3, <1>4 DEF l

\* The session has finished: the answer is the rest of the log and the exit.
LEMMA ConnectFinishedStep == ASSUME RemoteInv, ConnectFinished PROVE RemoteInv'
<1>1. TypeOK /\ HubInStep /\ Connection /\ Display /\ Ending
  BY DEF RemoteInv
<1> DEFINE start == IF cursor = NoCursor THEN Tail0 ELSE cursor
           e == Final("exit")
           r == Final("error")
           bytes == SubSeq(log, start + 1, Len(log))
           f == Output(start, bytes)
<1>2. /\ place = "connecting" /\ session = "gone" /\ place' = "streaming"
      /\ established' = TRUE /\ server' = "done"
      /\ UNCHANGED <<hubVars, session, due, mode, readPos, cuts, cursor, shown>>
      /\ racing' = FALSE
      /\ link' = IF start > Len(log) THEN <<r>>
                 ELSE IF start = Len(log) THEN <<e>> ELSE <<f, e>>
  BY DEF ConnectFinished
<1>3. /\ Len(log) \in Nat /\ produced \in Nat /\ Len(log) <= produced
      /\ log \in Seq(0 .. MaxBytes) /\ IsRun(log, 0)
      /\ BacklogCap \in Nat \ {0} /\ Prior \in Nat /\ produced <= MaxBytes
      /\ capturing => Len(log) = produced
      /\ due <= produced /\ due \in Nat
      /\ NoCursor \notin Nat /\ cursor \in {NoCursor} \cup Nat
  BY <1>1, HubFacts, Facts, Numbers DEF HubInStep, Ending
<1>4. start \in Nat /\ (cursor # NoCursor => start = cursor)
  BY <1>3 DEF Tail0
<1>5. cursor = NoCursor /\ start = Len(log) => Len(log) = 0
  BY <1>3 DEF Tail0
<1>6. start = Len(log) => Complete(cursor, due, capturing)
  BY <1>3, <1>4, <1>5 DEF Complete
<1>7. Complete(Len(log), due, capturing)
  BY <1>3 DEF Complete
<1>8. /\ e \in FrameType /\ e.kind = "exit" /\ e.kind # "output"
      /\ r \in FrameType /\ r.kind = "error" /\ r.kind # "output" /\ r.kind # "exit"
  BY Finals
<1>9. start < Len(log) => /\ f \in FrameType /\ f.kind = "output" /\ f.offset = start
                          /\ FrameEnd(f) = Len(log) /\ Carries(f, produced)
  <2> SUFFICES ASSUME start < Len(log)
               PROVE  /\ f \in FrameType /\ f.kind = "output" /\ f.offset = start
                      /\ FrameEnd(f) = Len(log) /\ Carries(f, produced)
    OBVIOUS
  <2> HIDE DEF start
  <2>1. start \in 0 .. Len(log) /\ Len(log) \in start + 1 .. Len(log)
    BY <1>3, <1>4
  <2>2. /\ bytes \in Seq(0 .. MaxBytes) /\ Len(bytes) = Len(log) - start
        /\ IsRun(bytes, start)
    BY <1>3, <2>1, PartOfRun
  <2> HIDE DEF bytes
  <2>3. Len(bytes) > 0 /\ start + Len(bytes) = Len(log)
    BY <1>3, <1>4, <2>2
  <2> QED BY <1>3, <1>4, <2>2, <2>3, OutputFrame
<1> HIDE DEF start, e, r, f
<1>12. CASE start > Len(log)
  <2>1. link' = <<r>>
    BY <1>2, <1>12
  <2>2. /\ link' \in Seq(FrameType) /\ Continues(link', cursor, produced)
        /\ Told(link', cursor, due, capturing)
    BY <1>8, <2>1, FirstWord
  <2> QED BY <1>2, <2>2, Answered
<1>13. CASE start = Len(log)
  <2>1. link' = <<e>>
    BY <1>2, <1>3, <1>13
  <2>2. /\ link' \in Seq(FrameType) /\ Continues(link', cursor, produced)
        /\ Told(link', cursor, due, capturing)
    BY <1>6, <1>8, <1>13, <2>1, FirstWord
  <2> QED BY <1>2, <2>2, Answered
<1>14. CASE start < Len(log)
  <2>1. link' = <<f, e>>
    BY <1>2, <1>3, <1>4, <1>14
  <2>2. cursor \in {f.offset, NoCursor}
    BY <1>4, <1>9, <1>14
  <2>3. /\ <<f>> \in Seq(FrameType) /\ Continues(<<f>>, cursor, produced)
        /\ Front(<<f>>, cursor) = FrameEnd(f)
        /\ \A i \in 1 .. Len(<<f>>) : <<f>>[i].kind = "output"
    BY <1>9, <1>14, <2>2, FirstFrame
  <2>4. link' = Append(<<f>>, e)
    BY <2>1
  <2>5. link' \in Seq(FrameType)
    BY <1>8, <2>3, <2>4, Queues
  <2>6. Continues(link', cursor, produced)
    BY <1>3, <1>8, <2>3, <2>4, ContinuesWord
  <2>7. Complete(Front(<<f>>, cursor), due, capturing)
    BY <1>7, <1>9, <1>14, <2>3
  <2>8. Told(link', cursor, due, capturing)
    BY <1>8, <2>3, <2>4, <2>7, ToldExit
  <2> QED BY <1>2, <2>5, <2>6, <2>8, Answered
<1> QED BY <1>3, <1>4, <1>12, <1>13, <1>14

\* The subscription of a connection: the log is intact, and the client is sent
\* the backlog, or nothing with the rest to be replayed from the log.
LEMMA AcceptFacts ==
    ASSUME RemoteInv, Accept
    PROVE  /\ HubTypeOK' /\ HubInStep'
           /\ UNCHANGED <<produced, log, spawns, capturing>> /\ spawns > 0
           /\ server = "hello" /\ Len(log) = produced
           /\ Registered'.state = "live" /\ Registered'.end = produced
           /\ \/ /\ cursor = NoCursor /\ Sent' = Snapshot
                 /\ server' = "stream" /\ readPos' = readPos
              \/ /\ cursor # NoCursor /\ cursor < produced /\ Sent' = <<>>
                 /\ server' = "replay" /\ readPos' = cursor
              \/ /\ cursor # NoCursor /\ cursor = produced /\ Sent' = <<>>
                 /\ server' = "stream" /\ readPos' = readPos
<1>1. TypeOK /\ HubInStep /\ Connection /\ Display
  BY DEF RemoteInv
<1>2. /\ server = "hello" /\ Registered'.state = "live"
      /\ LET replays == cursor # NoCursor /\ cursor < Registered'.end
         IN  /\ server' = IF replays THEN "replay" ELSE "stream"
             /\ readPos' = IF replays THEN cursor ELSE readPos
      /\ IF cursor = NoCursor THEN ResumeFresh(viewer) ELSE Resume(viewer, cursor)
  BY DEF Accept, Registered
<1>3. spawns > 0 /\ UNCHANGED <<produced, files, spawns, hub>>
  BY <1>2 DEF ResumeFresh, Resume
<1>4. UNCHANGED <<produced, log, spawns, capturing>>
  BY <1>3 DEF files, hub
<1>5. HubInStep'
  BY <1>1, <1>3 DEF HubInStep, files, hub
<1>6. HubTypeOK'
  <2>1. HubNext
    BY <1>1, <1>2, Setting, Facts DEF HubNext
  <2> QED BY <1>1, <2>1, HubFacts, HubTypeStep
<1>7. nextOffset = produced /\ produced \in Nat /\ (~logError => capturing)
  BY <1>1, <1>3, HubFacts DEF HubInStep
<1>8. CASE cursor = NoCursor
  <2>1. /\ Registered' = [state |-> IF logError THEN "refused" ELSE "live",
                          since |-> nextOffset, end |-> nextOffset]
        /\ Sent' = IF logError THEN <<>> ELSE Snapshot
    BY <1>1, <1>2, <1>8, HubFacts, Setting DEF ResumeFresh, Registered, Sent
  <2>2. ~logError
    BY <1>2, <2>1
  <2>3. Len(log) = produced
    BY <1>1, <1>7, <2>2 DEF HubInStep
  <2> QED BY <1>2, <1>3, <1>4, <1>5, <1>6, <1>7, <1>8, <2>1, <2>2, <2>3
<1>9. CASE cursor # NoCursor
  <2>1. /\ Registered' = [state |-> IF Resumable(cursor) THEN "live" ELSE "refused",
                          since |-> cursor, end |-> nextOffset]
        /\ Sent' = <<>>
    BY <1>1, <1>2, <1>9, HubFacts, Setting DEF Resume, Registered, Sent
  <2>2. ~logError
    BY <1>2, <2>1 DEF Resumable
  <2>3. Len(log) = produced
    BY <1>1, <1>7, <2>2 DEF HubInStep
  <2>4. cursor \in Nat /\ cursor <= produced
    BY <1>1, <1>9, Facts DEF Display
  <2>5. Registered'.end = produced
    BY <1>7, <2>1
  <2>6. cursor < produced \/ cursor = produced
    BY <1>7, <2>4
  <2>7. cursor = produced => ~(cursor < produced)
    BY <1>7, <2>4
  <2> QED BY <1>2, <1>3, <1>4, <1>5, <1>6, <1>9, <2>1, <2>3, <2>5, <2>6, <2>7
<1> QED BY <1>8, <1>9

\* The backlog as it is sent: nothing was missed, or one chunk.
LEMMA SnapshotGoesOn ==
    ASSUME TypeOK, HubInStep, spawns > 0
    PROVE  Queued(Snapshot, produced) /\ GoesOnAt(Snapshot, NoCursor, produced)
<1>1. /\ backlogStart = produced - backlog /\ backlog <= produced
      /\ backlog \in Nat /\ produced \in Nat /\ (backlog = 0 => produced = Prior)
  BY HubFacts DEF HubInStep
<1>2. CASE backlog = 0
  BY <1>1, <1>2 DEF Snapshot, Queued, GoesOnAt
<1>3. CASE backlog # 0
  <2> DEFINE chunk == Chunk(backlogStart, produced - backlog, backlog)
  <2>1. /\ chunk.offset = chunk.first /\ chunk.size > 0
        /\ chunk.first + chunk.size = produced
    BY <1>1, <1>3 DEF Chunk
  <2>2. Snapshot = <<chunk>>
    BY <1>3 DEF Snapshot
  <2> HIDE DEF chunk
  <2>3. Len(Snapshot) = 1 /\ Snapshot[1] = chunk /\ Snapshot # <<>>
    BY <2>2
  <2> QED BY <1>1, <2>1, <2>3 DEF Queued, GoesOnAt
<1> QED BY <1>2, <1>3

\* The worker accepts the connection.
LEMMA AcceptStep == ASSUME RemoteInv, Accept PROVE RemoteInv'
<1>1. TypeOK /\ HubInStep /\ Connection /\ Delivery /\ Display /\ Ending
  BY DEF RemoteInv
<1>2. /\ UNCHANGED <<session, due, racing, mode, link, cuts>>
      /\ UNCHANGED <<place, established, cursor, shown>>
  BY DEF Accept, sessionVars, viewerVars
<1>3. /\ HubTypeOK' /\ HubInStep' /\ spawns > 0 /\ server = "hello"
      /\ UNCHANGED <<produced, log, spawns, capturing>>
      /\ Registered'.state = "live" /\ Registered'.end = produced
      /\ server' \in {"replay", "stream"} /\ Len(log) = produced
  BY AcceptFacts
<1>4. link = <<>> /\ place = "streaming" /\ session # "gone"
  <2>1. link = <<>> /\ place = "streaming"
    BY <1>1, <1>3 DEF Connection
  <2>2. session # "gone"
    BY <1>1, <1>3 DEF Connection
  <2> QED BY <2>1, <2>2
<1>5. TypeOK'
  <2>1. server' \in Servers /\ readPos' \in 0 .. MaxBytes
    BY <1>1, <1>3, AcceptFacts, Facts DEF Servers
  <2> QED BY <1>1, <1>2, <1>3, <2>1, Facts, TypesTogether
<1>6. Connection'
  BY <1>2, <1>3, <1>4 DEF Connection
<1>7. Delivery'
  BY <1>2, <1>4, ContinuesEmpty DEF Delivery
<1>8. Service'
  <2>1. Front(link, cursor)' = cursor
    BY <1>2, <1>4, ContinuesEmpty
  <2>2. produced' = produced /\ produced \in Nat /\ Len(log') = produced
    BY <1>1, <1>3, HubFacts
  <2>3. CASE /\ cursor = NoCursor /\ Sent' = Snapshot /\ server' = "stream"
    BY <1>1, <1>3, <2>1, <2>2, <2>3, SnapshotGoesOn DEF Service
  <2>4. CASE /\ cursor # NoCursor /\ cursor < produced /\ Sent' = <<>>
             /\ server' = "replay" /\ readPos' = cursor
    <3>1. GoesOnAt(<<>>, Registered'.end, produced)
      BY <1>3 DEF GoesOnAt
    <3>2. Registered'.end <= Len(log') /\ readPos' < Registered'.end
      BY <1>3, <2>2, <2>4
    <3> QED BY <2>1, <2>2, <2>4, <3>1, <3>2, QueuedEmpty DEF Service
  <2>5. CASE cursor = produced /\ Sent' = <<>> /\ server' = "stream"
    <3>1. GoesOnAt(<<>>, cursor, produced)
      BY <2>5 DEF GoesOnAt
    <3> QED BY <2>1, <2>2, <2>5, <3>1, QueuedEmpty DEF Service
  <2> QED BY <2>3, <2>4, <2>5, AcceptFacts
<1>9. Display'
  <2>1. produced' \in Nat /\ produced' >= produced
    BY <1>1, <1>3, HubFacts
  <2> QED BY <1>1, <1>2, <2>1, DisplayStays
<1>10. Ending'
  <2>1. Owed' = Owed /\ server' # "quiet"
    BY <1>2, <1>3 DEF Owed
  <2> QED BY <1>1, <1>2, <1>3, <2>1 DEF Ending
<1> QED BY <1>3, <1>5, <1>6, <1>7, <1>8, <1>9, <1>10 DEF RemoteInv

\* A frame of output is written to the link.
LEMMA Written ==
    ASSUME TypeOK, HubInStep, Delivery, Ending, Display,
           server \in {"replay", "stream"}, server' \in {"replay", "stream"},
           NEW f \in FrameType, f.kind = "output", Carries(f, produced),
           Front(link, cursor) \in {f.offset, NoCursor},
           link' = Append(link, f),
           UNCHANGED <<produced, spawns, capturing, session, due, racing, place, cursor, shown>>
    PROVE  /\ link' \in Seq(FrameType) /\ Front(link', cursor') = FrameEnd(f)
           /\ Delivery' /\ Ending' /\ Display'
<1>1. /\ link \in Seq(FrameType) /\ cursor \in {NoCursor} \cup Nat /\ produced \in Nat
      /\ Continues(link, cursor, produced) /\ Told(link, cursor, due, Owed)
  BY Facts, HubFacts DEF Delivery, Ending
<1>2. \A i \in 1 .. Len(link) : link[i].kind = "output"
  BY OnlyOutput
<1>3. Continues(link', cursor, produced) /\ Front(link', cursor) = FrameEnd(f)
  BY <1>1, <1>2, ContinuesFrame
<1>4. Told(link', cursor, due, Owed)
  BY <1>1, ToldMore
<1>5. link' \in Seq(FrameType)
  BY <1>1, Queues
<1>6. \A i \in 1 .. Len(link') : link'[i].kind = "output"
  <2>1. /\ Len(link') = Len(link) + 1 /\ link'[Len(link) + 1] = f /\ Len(link) \in Nat
        /\ \A i \in 1 .. Len(link) : link'[i] = link[i]
    BY <1>1, Queues
  <2> QED BY <1>2, <2>1
<1>7. Delivery'
  BY <1>3, <1>6 DEF Delivery
<1>8. Ending'
  <2>1. Owed' = Owed /\ server' # "quiet"
    BY DEF Owed
  <2> QED BY <1>4, <1>6, <2>1 DEF Ending
<1>9. Display'
  <2>1. produced' \in Nat /\ produced' >= produced
    BY <1>1
  <2> QED BY <2>1, DisplayStays
<1> QED BY <1>3, <1>5, <1>7, <1>8, <1>9

\* A piece of the log is replayed.
LEMMA ReplayStep == ASSUME RemoteInv, Replay PROVE RemoteInv'
<1>1. TypeOK /\ HubInStep /\ Connection /\ Delivery /\ Service /\ Display /\ Ending
  BY DEF RemoteInv
<1>2. PICK n \in 1 .. Registered.end - readPos :
        /\ link' = Append(link, Output(readPos, SubSeq(log, readPos + 1, readPos + n)))
        /\ readPos' = readPos + n
        /\ server' = IF readPos + n = Registered.end THEN "stream" ELSE "replay"
  BY DEF Replay, Registered
<1>3. /\ UNCHANGED hubVars /\ server = "replay" /\ UNCHANGED <<session, due, racing, mode, cuts>>
      /\ UNCHANGED <<place, established, cursor, shown>>
  BY DEF Replay, sessionVars, viewerVars
<1>4. /\ HubTypeOK' /\ HubInStep' /\ Registered' = Registered /\ Sent' = Sent
      /\ UNCHANGED <<produced, log, spawns, capturing>>
  BY <1>1, <1>3, HubStays
<1>5. /\ Front(link, cursor) = readPos /\ readPos \in Nat
      /\ Registered.end \in Nat /\ Registered.end <= Len(log)
      /\ GoesOnAt(Sent, Registered.end, produced)
      /\ Queued(Sent, produced)
      /\ produced \in Nat /\ produced <= MaxBytes /\ MaxBytes \in Nat
      /\ Len(log) \in Nat /\ Len(log) <= produced
      /\ log \in Seq(0 .. MaxBytes) /\ IsRun(log, 0)
  BY <1>1, <1>3, Facts, HubFacts DEF Service, ClientType, HubInStep
<1> DEFINE m == readPos + n
           b == SubSeq(log, readPos + 1, m)
           f == Output(readPos, b)
<1>6. /\ m \in Nat /\ m <= Registered.end /\ m <= MaxBytes /\ m <= produced
      /\ readPos \in 0 .. Len(log) /\ m \in readPos + 1 .. Len(log)
      /\ m - readPos > 0 /\ readPos + (m - readPos) = m
  BY <1>5
<1>7. /\ link' = Append(link, f) /\ readPos' = m
      /\ server' = IF m = Registered.end THEN "stream" ELSE "replay"
  BY <1>2
<1> HIDE DEF m
<1>8. b \in Seq(0 .. MaxBytes) /\ Len(b) = m - readPos /\ IsRun(b, readPos)
  BY <1>5, <1>6, PartOfRun
<1> HIDE DEF b
<1>9. /\ f \in FrameType /\ f.kind = "output" /\ f.offset = readPos
      /\ FrameEnd(f) = m /\ Carries(f, produced)
  BY <1>5, <1>6, <1>8, OutputFrame
<1> HIDE DEF f
<1>10. server' \in {"replay", "stream"}
  BY <1>7
<1>11. /\ link' \in Seq(FrameType) /\ Front(link', cursor') = m
       /\ Delivery' /\ Ending' /\ Display'
  BY <1>1, <1>3, <1>4, <1>5, <1>7, <1>9, <1>10, Written
<1>12. TypeOK'
  <2>1. server' \in Servers /\ readPos' \in 0 .. MaxBytes
    BY <1>6, <1>7, <1>10 DEF Servers
  <2> QED BY <1>1, <1>3, <1>4, <1>11, <2>1, Facts, TypesTogether
<1>13. Connection'
  BY <1>1, <1>3, <1>4, <1>10 DEF Connection
<1>14. Service'
  <2>1. CASE m = Registered.end
    BY <1>4, <1>5, <1>7, <1>11, <2>1 DEF Service
  <2>2. CASE m # Registered.end
    <3>1. m < Registered.end
      BY <1>5, <1>6, <2>2
    <3> QED BY <1>4, <1>5, <1>7, <1>11, <2>2, <3>1 DEF Service
  <2> QED BY <2>1, <2>2
<1> QED BY <1>4, <1>11, <1>12, <1>13, <1>14 DEF RemoteInv

\* A queued chunk is sent on.
LEMMA ForwardStep == ASSUME RemoteInv, Forward PROVE RemoteInv'
<1>1. TypeOK /\ HubInStep /\ Connection /\ Delivery /\ Service /\ Display /\ Ending
  BY DEF RemoteInv
<1> DEFINE chunk == Head(Sent)
           b == Bytes(chunk.first, chunk.size)
           f == Output(chunk.offset, b)
<1>2. /\ server = "stream" /\ server' = "stream" /\ readPos' = readPos
      /\ Sent # <<>> /\ link' = Append(link, f)
      /\ inbox' = [inbox EXCEPT ![viewer] = Tail(Sent)]
      /\ UNCHANGED <<produced, files, spawns, hub>> /\ client' = client
      /\ UNCHANGED <<session, due, racing, mode, cuts>>
      /\ UNCHANGED <<place, established, cursor, shown>>
  BY DEF Forward, hubSide, sessionVars, viewerVars, Sent
<1>3. UNCHANGED <<log, capturing>>
  BY <1>2 DEF files, hub
<1>4. /\ Sent \in Seq(ChunkType) /\ Head(Sent) = Sent[1] /\ Sent[1] \in ChunkType
      /\ Tail(Sent) \in Seq(ChunkType) /\ 1 \in 1 .. Len(Sent)
      /\ produced \in Nat /\ produced <= MaxBytes /\ MaxBytes \in Nat
      /\ Queued(Sent, produced)
  BY <1>1, <1>2, HubFacts, Queues DEF Service
<1>5. Registered' = Registered /\ Sent' = Tail(Sent)
  BY <1>1, <1>2, HubFacts, Setting DEF Registered, Sent
<1>6. HubTypeOK'
  <2>1. inbox' \in [Clients -> Seq(ChunkType)]
    BY <1>1, <1>2, <1>4, HubFacts
  <2>2. HubTypeOK
    BY <1>1, HubFacts
  <2> QED BY <1>2, <2>1, <2>2 DEF HubTypeOK, ChunkType, files, hub
<1>7. HubInStep'
  BY <1>1, <1>2 DEF HubInStep, files, hub
<1>8. /\ chunk.offset = chunk.first /\ chunk.size > 0
      /\ chunk.first + chunk.size <= produced
      /\ chunk.first \in Nat /\ chunk.size \in Nat /\ chunk = Sent[1]
  BY <1>4 DEF Queued, ChunkType
<1> HIDE DEF chunk
<1>9. b \in Seq(0 .. MaxBytes) /\ Len(b) = chunk.size /\ IsRun(b, chunk.first)
  <2>1. chunk.first + chunk.size <= MaxBytes
    BY <1>4, <1>8
  <2> QED BY <1>8, <2>1, BytesRun
<1> HIDE DEF b
<1>10. /\ f \in FrameType /\ f.kind = "output" /\ f.offset = chunk.first
       /\ FrameEnd(f) = chunk.first + chunk.size /\ Carries(f, produced)
  BY <1>4, <1>8, <1>9, OutputFrame
<1> HIDE DEF f
<1>11. Front(link, cursor) \in {f.offset, NoCursor}
  <2>1. GoesOnAt(Sent, Front(link, cursor), produced)
    BY <1>1, <1>2 DEF Service
  <2> QED BY <1>2, <1>8, <1>10, <2>1 DEF GoesOnAt
<1>12. /\ link' \in Seq(FrameType) /\ Front(link', cursor') = FrameEnd(f)
       /\ Delivery' /\ Ending' /\ Display'
  <2>1. /\ server \in {"replay", "stream"} /\ server' \in {"replay", "stream"}
        /\ UNCHANGED <<produced, spawns, capturing, session, due, racing, place>>
        /\ UNCHANGED <<cursor, shown>>
    BY <1>2, <1>3
  <2> QED BY <1>1, <1>2, <1>10, <1>11, <2>1, Written
<1>13. TypeOK'
  <2>1. server' \in Servers
    BY <1>2 DEF Servers
  <2> QED BY <1>1, <1>2, <1>6, <1>12, <2>1, Facts, TypesTogether
<1>14. Connection'
  BY <1>1, <1>2, <1>5 DEF Connection
<1>15. Service'
  <2>1. Queued(Tail(Sent), produced) /\ GoesOnAt(Tail(Sent), FrameEnd(f), produced)
    BY <1>2, <1>4, <1>8, <1>10, QueuedTail
  <2> QED BY <1>2, <1>5, <1>12, <2>1 DEF Service
<1> QED BY <1>7, <1>12, <1>13, <1>14, <1>15 DEF RemoteInv

\* A display that goes on with a frame.
LEMMA DisplayGoesOn ==
    ASSUME NEW s \in Seq(0 .. MaxBytes), NEW b \in Seq(0 .. MaxBytes), NEW o \in Nat,
           Len(b) > 0, IsRun(b, o),
           \A i \in 1 .. Len(s) - 1 : s[i + 1] = s[i] + 1,
           s # <<>> => s[Len(s)] + 1 = o
    PROVE  /\ s \o b \in Seq(0 .. MaxBytes) /\ s \o b # <<>>
           /\ \A i \in 1 .. Len(s \o b) - 1 : (s \o b)[i + 1] = (s \o b)[i] + 1
           /\ (s \o b)[Len(s \o b)] + 1 = o + Len(b)
<1> DEFINE u == s \o b
<1>1. /\ Len(s) \in Nat /\ Len(b) \in Nat \ {0} /\ Len(u) = Len(s) + Len(b)
      /\ u \in Seq(0 .. MaxBytes)
      /\ \A i \in 1 .. Len(s) : u[i] = s[i]
      /\ \A i \in 1 .. Len(b) : u[Len(s) + i] = b[i]
  BY Joined
<1>2. s = <<>> <=> Len(s) = 0
  BY Queues
<1>3. u # <<>>
  <2> HIDE DEF u
  <2> QED BY <1>1, Queues
<1> HIDE DEF u
<1>4. \A i \in 1 .. Len(b) : b[i] = o + i - 1
  BY DEF IsRun
<1>5. \A i \in 1 .. Len(u) : i > Len(s) => u[i] = o + (i - Len(s)) - 1
  <2> TAKE i \in 1 .. Len(u)
  <2> SUFFICES ASSUME i > Len(s) PROVE u[i] = o + (i - Len(s)) - 1
    OBVIOUS
  <2>1. i - Len(s) \in 1 .. Len(b) /\ Len(s) + (i - Len(s)) = i
    BY <1>1
  <2> QED BY <1>1, <1>4, <2>1
<1>6. ASSUME NEW i \in 1 .. Len(u) - 1 PROVE u[i + 1] = u[i] + 1
  <2>1. i \in 1 .. Len(u) /\ i + 1 \in 1 .. Len(u)
    BY <1>1
  <2>2. CASE i > Len(s)
    BY <1>1, <1>5, <2>1, <2>2
  <2>3. CASE i = Len(s)
    <3>1. s # <<>> /\ u[i] = s[Len(s)] /\ u[i + 1] = o + ((i + 1) - Len(s)) - 1
      BY <1>1, <1>2, <1>5, <2>1, <2>3
    <3> QED BY <1>1, <2>3, <3>1
  <2>4. CASE i < Len(s)
    <3>1. i \in 1 .. Len(s) - 1 /\ u[i] = s[i] /\ u[i + 1] = s[i + 1]
      BY <1>1, <2>4
    <3> QED BY <3>1
  <2> QED BY <1>1, <2>2, <2>3, <2>4
<1>7. u[Len(u)] + 1 = o + Len(b)
  <2>1. Len(u) \in 1 .. Len(u) /\ Len(u) > Len(s) /\ Len(u) - Len(s) = Len(b)
    BY <1>1
  <2>2. u[Len(u)] = o + (Len(u) - Len(s)) - 1
    BY <1>5, <2>1
  <2> QED BY <1>1, <2>1, <2>2
<1> QED BY <1>1, <1>3, <1>6, <1>7 DEF u

\* The terminal shows a frame.
LEMMA OutputStep == ASSUME RemoteInv, ReceiveOutput PROVE RemoteInv'
<1>1. TypeOK /\ HubInStep /\ Connection /\ Delivery /\ Service /\ Display /\ Ending
  BY DEF RemoteInv
<1> DEFINE f == link[1]
<1>2. /\ link \in Seq(FrameType) /\ link # <<>> /\ Head(link) = f /\ f \in FrameType
      /\ 1 \in 1 .. Len(link) /\ Tail(link) \in Seq(FrameType)
  BY <1>1, Facts, Queues DEF ReceiveOutput
<1>3. f.kind = "output" /\ place = "streaming" /\ UNCHANGED <<hubSide, sessionVars, cuts>>
  BY <1>2 DEF ReceiveOutput
<1>4. /\ Carries(f, produced) /\ (cursor # NoCursor => f.offset = cursor)
      /\ Continues(link, cursor, produced)
  BY <1>1, <1>2, <1>3 DEF Delivery, Continues
<1>5. /\ f.offset \in Nat /\ f.bytes \in Seq(0 .. MaxBytes) /\ Len(f.bytes) \in Nat
      /\ Len(f.bytes) > 0 /\ IsRun(f.bytes, f.offset)
      /\ FrameEnd(f) = f.offset + Len(f.bytes) /\ FrameEnd(f) \in Nat
      /\ FrameEnd(f) <= produced /\ produced \in Nat /\ produced <= MaxBytes
      /\ MaxBytes \in Nat
  BY <1>1, <1>2, <1>4, FrameEnds, HubFacts DEF Carries, FrameEnd
<1> HIDE DEF f
<1>6. ~(cursor # NoCursor /\ f.offset > cursor)
  BY <1>4, <1>5
<1>7. /\ Show(f.offset, f.bytes) /\ link' = Tail(link)
      /\ UNCHANGED <<place, established, server, readPos, client, inbox>>
  BY <1>2, <1>6 DEF ReceiveOutput, serverVars
<1>8. shown' = shown \o f.bytes /\ cursor' = FrameEnd(f)
  <2> DEFINE expected == IF cursor = NoCursor THEN f.offset ELSE cursor
             skip == Least(expected - f.offset, Len(f.bytes))
             end == f.offset + Len(f.bytes)
  <2>1. expected = f.offset
    BY <1>4
  <2>2. skip = 0 /\ end > expected
    BY <1>5, <2>1 DEF Least
  <2>3. /\ shown' = shown \o SubSeq(f.bytes, skip + 1, Len(f.bytes))
        /\ cursor' = IF end > expected THEN end ELSE expected
    BY <1>7 DEF Show
  <2>4. SubSeq(f.bytes, 1, Len(f.bytes)) = f.bytes
    BY <1>5
  <2>5. skip + 1 = 1 /\ cursor' = end
    BY <2>2, <2>3
  <2> HIDE DEF skip
  <2> QED BY <1>5, <2>3, <2>4, <2>5
<1>9. /\ UNCHANGED hubVars /\ UNCHANGED <<session, due, racing, mode, cuts>>
      /\ UNCHANGED <<place, established, server, readPos>>
  BY <1>3, <1>7 DEF hubSide, hubVars, sessionVars, files, hub
<1>10. /\ HubTypeOK' /\ HubInStep' /\ Registered' = Registered /\ Sent' = Sent
       /\ UNCHANGED <<produced, log, spawns, capturing>>
  BY <1>1, <1>9, HubStays
<1>11. /\ Continues(Tail(link), FrameEnd(f), produced)
       /\ Front(Tail(link), FrameEnd(f)) = Front(link, cursor)
  BY <1>2, <1>3, <1>4, <1>5, ContinuesTail DEF f
<1>12. Told(Tail(link), FrameEnd(f), due, Owed)
  BY <1>1, <1>2, ToldTail DEF f, Ending
<1>13. \A i \in 1 .. Len(Tail(link)) :
          \E j \in 1 .. Len(link) : Tail(link)[i] = link[j]
  <2> TAKE i \in 1 .. Len(Tail(link))
  <2>1. i + 1 \in 1 .. Len(link) /\ Tail(link)[i] = link[i + 1]
    BY <1>2, Queues
  <2> QED BY <2>1
<1>14. /\ shown' \in Seq(0 .. MaxBytes) /\ shown' # <<>>
       /\ \A i \in 1 .. Len(shown') - 1 : shown'[i + 1] = shown'[i] + 1
       /\ shown'[Len(shown')] + 1 = FrameEnd(f)
  <2>1. /\ \A i \in 1 .. Len(shown) - 1 : shown[i + 1] = shown[i] + 1
        /\ shown # <<>> => shown[Len(shown)] + 1 = f.offset
        /\ shown \in Seq(0 .. MaxBytes)
    BY <1>1, <1>4, Facts DEF Display, ShownOnce
  <2> DEFINE b == f.bytes
             o == f.offset
  <2>2. /\ b \in Seq(0 .. MaxBytes) /\ o \in Nat /\ Len(b) > 0 /\ IsRun(b, o)
        /\ (shown # <<>> => shown[Len(shown)] + 1 = o)
        /\ shown' = shown \o b /\ FrameEnd(f) = o + Len(b)
    BY <1>5, <1>8, <2>1
  <2> HIDE DEF b, o
  <2>3. /\ shown \o b \in Seq(0 .. MaxBytes) /\ shown \o b # <<>>
        /\ \A i \in 1 .. Len(shown \o b) - 1 : (shown \o b)[i + 1] = (shown \o b)[i] + 1
        /\ (shown \o b)[Len(shown \o b)] + 1 = o + Len(b)
    BY <2>1, <2>2, DisplayGoesOn
  <2> QED BY <2>2, <2>3, Zenon
<1>15. TypeOK'
  <2>1. cursor' \in {NoCursor} \cup 0 .. MaxBytes
    BY <1>5, <1>8
  <2>2. link' \in Seq(FrameType)
    BY <1>2, <1>7
  <2> QED BY <1>1, <1>9, <1>10, <1>14, <2>1, <2>2, Facts, TypesTogether
<1>16. Connection'
  <2>1. server \notin {"none", "hello"}
    BY <1>1, <1>2, <1>3 DEF Connection
  <2> QED BY <1>1, <1>9, <1>10, <2>1 DEF Connection
<1>17. Delivery'
  <2>1. \A i \in 1 .. Len(Tail(link)) : Tail(link)[i].kind # "output" => server = "done"
    BY <1>1, <1>13 DEF Delivery
  <2> QED BY <1>7, <1>8, <1>9, <1>10, <1>11, <2>1 DEF Delivery
<1>18. Service'
  <2>1. Front(link', cursor') = Front(link, cursor)
    BY <1>7, <1>8, <1>11
  <2> QED BY <1>1, <1>9, <1>10, <2>1 DEF Service
<1>19. Display'
  <2>1. cursor' <= produced' /\ cursor' # NoCursor
    BY <1>1, <1>5, <1>8, <1>10, Facts
  <2> QED BY <1>8, <1>14, <2>1 DEF Display, ShownOnce
<1>20. Ending'
  <2>1. place # "exited" /\ place' # "exited"
    BY <1>3, <1>9
  <2>2. session = "running" => \A i \in 1 .. Len(Tail(link)) : Tail(link)[i].kind # "exit"
    BY <1>1, <1>13 DEF Ending
  <2>3. Owed' = Owed /\ Front(link', cursor') = Front(link, cursor)
    BY <1>7, <1>8, <1>9, <1>10, <1>11 DEF Owed
  <2> QED BY <1>1, <1>7, <1>8, <1>9, <1>10, <1>12, <2>1, <2>2, <2>3 DEF Ending
<1> QED BY <1>10, <1>15, <1>16, <1>17, <1>18, <1>19, <1>20 DEF RemoteInv

-----------------------------------------------------------------------------
(***************************************************************************)
(* The theorems.                                                           *)
(***************************************************************************)

\* The invariant of the whole system, terminal, bridge, worker and hub.
THEOREM RemoteInvariance ==
    ASSUME OpenedOnce
    PROVE  Spec => []RemoteInv
<1>1. Init => RemoteInv
  BY RemoteInit
<1>2. RemoteInv /\ [Next]_vars => RemoteInv'
  <2> SUFFICES ASSUME RemoteInv, [Next]_vars PROVE RemoteInv'
    OBVIOUS
  <2>1. CASE SessionRuns \/ AnnounceExit \/ WorkerEnds
    BY <2>1, RunsStep, AnnounceStep, EndsStep
  <2>2. CASE Server
    BY <2>2, AcceptStep, RefuseStep, ReplayStep, ForwardStep, PollOutputStep,
       SendExitStep, PollExitStep DEF Server
  <2>3. CASE Bridge
    BY <2>3, ConnectStep, ConnectFinishedStep DEF Bridge
  <2>4. CASE Terminal
    BY <2>4, OutputStep, FinalStep, EndStep DEF Terminal
  <2>5. CASE HandshakeFails \/ Cut \/ UserDetaches
    BY <2>5, HandshakeStep, CutStep, DetachStep
  <2>6. CASE UNCHANGED vars
    BY <2>6, StutterStep
  <2> QED BY <2>1, <2>2, <2>3, <2>4, <2>5, <2>6 DEF Next, Ended
<1> QED BY <1>1, <1>2, PTL DEF Spec

\* Every variable keeps its type: cursors, offsets and frames stay within what
\* was produced (remote.rs, attach; control.rs, handle_attach).
THEOREM RemoteTypes ==
    ASSUME OpenedOnce
    PROVE  Spec => []TypeOK
<1>1. RemoteInv => TypeOK
  BY DEF RemoteInv
<1> QED BY <1>1, RemoteInvariance, PTL

\* Over any number of lost connections every byte is shown once and in order
\* (remote.rs, offset_frame_progress; control.rs, write_log_range_frames).
THEOREM EveryByteOnce ==
    ASSUME OpenedOnce
    PROVE  Spec => []ShownOnce
<1>1. RemoteInv => ShownOnce
  BY DEF RemoteInv, Display
<1> QED BY <1>1, RemoteInvariance, PTL

\* The offset an attach resumes from is where its display ends (remote.rs,
\* attach: cursor).
THEOREM CursorIsExact ==
    ASSUME OpenedOnce
    PROVE  Spec => []CursorIsTrue
<1>1. RemoteInv => CursorIsTrue
  BY DEF RemoteInv, Display, CursorIsTrue
<1> QED BY <1>1, RemoteInvariance, PTL

\* An attach that reports the exit has shown what was written before it, unless
\* the exit was announced between the poll of the output and that of the exit of
\* the connection that told it (control.rs, handle_attach; remote.rs, bridge on a
\* finished session).
THEOREM ExitAfterOutput ==
    ASSUME OpenedOnce
    PROVE  Spec => []ExitIsComplete
<1>1. RemoteInv => ExitIsComplete
  <2> SUFFICES ASSUME RemoteInv, place = "exited", capturing, ~racing
               PROVE  IF shown = <<>> THEN due <= Prior
                      ELSE shown[Len(shown)] + 1 >= due
    BY DEF ExitIsComplete
  <2>1. IF cursor = NoCursor THEN due <= Prior ELSE due <= cursor
    BY DEF RemoteInv, Ending, Complete, Owed
  <2>2. /\ shown = <<>> <=> cursor = NoCursor
        /\ shown # <<>> => shown[Len(shown)] + 1 = cursor
    BY DEF RemoteInv, Display
  <2>3. due \in Nat /\ cursor \in {NoCursor} \cup Nat
    BY Facts DEF RemoteInv
  <2> QED BY <2>1, <2>2, <2>3
<1> QED BY <1>1, RemoteInvariance, PTL

\* A log offset a client was sent is the place of the byte in the log; a log
\* that is opened again breaks it (pane.rs, configure_log and broadcast).
THEOREM OffsetsAreExact ==
    ASSUME OpenedOnce
    PROVE  Spec => []OffsetsAreTrue
<1>1. RemoteInv => OffsetsAreTrue
  <2> SUFFICES ASSUME RemoteInv, NEW i \in 1 .. Len(Sent),
                      NEW j \in 0 .. Sent[i].size - 1, Sent[i].offset + j < Len(log)
               PROVE  log[Sent[i].offset + j + 1] = Sent[i].first + j
    BY RemoteAssumption DEF OffsetsAreTrue, Sent
  <2>1. /\ Sent \in Seq(ChunkType) /\ Len(log) \in Nat /\ IsRun(log, 0)
        /\ Queued(Sent, produced)
    BY HubFacts DEF RemoteInv, Service, HubInStep
  <2>2. /\ Sent[i] \in ChunkType /\ Sent[i].offset = Sent[i].first
        /\ Sent[i].first \in Nat /\ Sent[i].size \in Nat /\ j \in Nat
    <3>1. Sent[i] \in ChunkType
      BY <2>1, Queues
    <3> QED BY <2>1, <3>1 DEF Queued, ChunkType
  <2>3. Sent[i].offset + j + 1 \in 1 .. Len(log)
    BY <2>1, <2>2
  <2>4. log[Sent[i].offset + j + 1] = 0 + (Sent[i].offset + j + 1) - 1
    BY <2>1, <2>3 DEF IsRun
  <2> QED BY <2>2, <2>4
<1> QED BY <1>1, RemoteInvariance, PTL
=============================================================================
