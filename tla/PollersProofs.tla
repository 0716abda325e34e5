---------------------------- MODULE PollersProofs ----------------------------
(***************************************************************************)
(* What Pollers guarantees for every set of commands, every log, every     *)
(* exit code, with a worker that may crash and a session that may be       *)
(* pruned: its type correctness, what each command answers, and that an    *)
(* incremental reader shows a log as one read of it would.                 *)
(***************************************************************************)
EXTENDS Pollers, Recursion

-----------------------------------------------------------------------------
(***************************************************************************)
(* The automaton of a terminal.                                            *)
(***************************************************************************)

Bytes == Seq(Byte)
Texts == Seq(Byte \cup {"char", "bad"})

\* In these states a byte is shown.
Plain(s) == s \in {"ground", "char"}

\* One step of the automaton stays in its states.
LEMMA AfterType ==
    ASSUME NEW s \in States, NEW byte \in Byte
    PROVE  NextState[<<s, byte>>] = After(s, byte) /\ After(s, byte) \in States
BY DEF NextState, After, Opens, Ignored, States

\* One step of the automaton shows a text.
LEMMA ShownType ==
    ASSUME NEW s \in States, NEW byte \in Byte
    PROVE  NextText[<<s, byte>>] = Shown(s, byte) /\ Shown(s, byte) \in Texts
<1>1. NextText[<<s, byte>>] = Shown(s, byte)
  BY DEF NextText
<1> DEFINE X == Byte \cup {"char", "bad"}
<1>2. <<>> \in Seq(X) /\ <<"bad">> \in Seq(X) /\ <<"char">> \in Seq(X) /\ <<byte>> \in Seq(X)
  <2>1. byte \in X /\ "bad" \in X /\ "char" \in X
    OBVIOUS
  <2> HIDE DEF X
  <2> QED BY <2>1
<1> HIDE DEF X
<1> DEFINE u == IF s = "char" THEN <<"bad">> ELSE <<>>
           v == IF byte \in {"esc", "lead", "bel"} THEN <<>> ELSE <<byte>>
<1>3. u \in Seq(X) /\ v \in Seq(X)
  BY <1>2
<1>4. Shown(s, byte) \in {<<>>, <<"char">>, <<"bad">>, u \o v}
  BY DEF Shown
<1> HIDE DEF u, v
<1>5. u \o v \in Seq(X)
  BY <1>3, ConcatProperties
<1>6. Shown(s, byte) \in Seq(X)
  BY <1>2, <1>4, <1>5
<1> QED BY <1>1, <1>6 DEF X, Texts

\* The state after each number of bytes.
LEMMA StateRun ==
    ASSUME NEW b \in Bytes
    PROVE  /\ StateAt(b) \in [0 .. Len(b) -> States]
           /\ StateAt(b)[0] = "ground"
           /\ \A n \in 1 .. Len(b) : StateAt(b)[n] = After(StateAt(b)[n - 1], b[n])
<1> DEFINE N == Len(b)
           step == [p \in States \X (1 .. N) |-> NextState[<<p[1], b[p[2]]>>]]
<1>1. N \in Nat /\ \A n \in 1 .. N : b[n] \in Byte
  BY DEF Bytes
<1> HIDE DEF N
<1>2. step \in [States \X (1 .. N) -> States]
  <2>1. ASSUME NEW p \in States \X (1 .. N) PROVE NextState[<<p[1], b[p[2]]>>] \in States
    <3>1. p[1] \in States /\ b[p[2]] \in Byte
      BY <1>1
    <3> QED BY <3>1, AfterType
  <2> QED BY <2>1
<1>3. "ground" \in States
  BY DEF States
<1> DEFINE F(g) == [n \in 0 .. N |->
                      IF n = 0 THEN "ground" ELSE NextState[<<g[n - 1], b[n]>>]]
<1>4. \E g : g = F(g)
  <2>1. PICK g : g \in [0 .. N -> States] /\ Follows(g, step, "ground", N)
    <3> HIDE DEF step, F
    <3>1. IsStep(step, States, N)
      BY <1>2 DEF IsStep
    <3> QED BY <1>1, <1>2, <1>3, <3>1, Iteration
  <2>2. \A n \in 1 .. N : step[<<g[n - 1], n>>] = NextState[<<g[n - 1], b[n]>>]
    <3>1. ASSUME NEW n \in 1 .. N PROVE <<g[n - 1], n>> \in States \X (1 .. N)
      BY <1>1, <2>1
    <3> QED BY <3>1
  <2>3. \A n \in 0 .. N : n # 0 => n \in 1 .. N
    BY <1>1
  <2> HIDE DEF step
  <2>4. g = [n \in 0 .. N |-> g[n]]
    BY <2>1
  <2>5. \A n \in 0 .. N : g[n] = IF n = 0 THEN "ground" ELSE NextState[<<g[n - 1], b[n]>>]
    BY <2>1, <2>2, <2>3 DEF Follows
  <2>6. g = F(g)
    BY <2>4, <2>5
  <2> HIDE DEF F
  <2> QED BY <2>6
<1> DEFINE G == CHOOSE g : g = F(g)
<1>5. StateAt(b) = G
  BY DEF StateAt, N
<1>6. G = F(G)
  <2> HIDE DEF F
  <2> QED BY <1>4
<1> HIDE DEF G
<1>7. G[0] = "ground" /\ \A n \in 1 .. N : G[n] = NextState[<<G[n - 1], b[n]>>]
  <2>1. 0 \in 0 .. N /\ \A n \in 1 .. N : n \in 0 .. N /\ n # 0
    BY <1>1
  <2> QED BY <1>6, <2>1
<1>8. \A n \in 0 .. N : G[n] \in States
  <2> DEFINE T == {n \in 0 .. N : G[n] \in States}
  <2>1. 0 \in T
    BY <1>7, <1>3, <1>1
  <2>2. \A n \in 0 .. N - 1 : n \in T => n + 1 \in T
    <3>1. ASSUME NEW n \in 0 .. N - 1, n \in T PROVE n + 1 \in T
      <4>1. n + 1 \in 1 .. N /\ (n + 1) - 1 = n /\ b[n + 1] \in Byte
        BY <1>1
      <4>2. G[n + 1] = NextState[<<G[n], b[n + 1]>>]
        BY <4>1, <1>7
      <4> QED BY <4>1, <4>2, <3>1, AfterType
    <3> QED BY <3>1
  <2> HIDE DEF T
  <2>3. 0 .. N \subseteq T
    BY <1>1, <2>1, <2>2, RangeInduction
  <2> QED BY <2>3 DEF T
<1>9. G \in [0 .. N -> States]
  <2>1. G = [n \in 0 .. N |-> G[n]]
    BY <1>6
  <2> QED BY <2>1, <1>8
<1>10. \A n \in 1 .. N : G[n] = After(G[n - 1], b[n])
  <2>1. ASSUME NEW n \in 1 .. N PROVE G[n - 1] \in States /\ b[n] \in Byte
    BY <1>1, <1>8
  <2> QED BY <2>1, <1>7, AfterType
<1> QED BY <1>5, <1>7, <1>9, <1>10 DEF N

\* What has been shown after each number of bytes.
LEMMA TextRun ==
    ASSUME NEW b \in Bytes
    PROVE  /\ TextAt(b) \in [0 .. Len(b) -> Texts]
           /\ TextAt(b)[0] = <<>>
           /\ \A n \in 1 .. Len(b) :
                 TextAt(b)[n] = TextAt(b)[n - 1] \o Shown(StateAt(b)[n - 1], b[n])
<1> DEFINE N == Len(b)
           show == [n \in 1 .. N |-> NextText[<<StateAt(b)[n - 1], b[n]>>]]
           step == [p \in Texts \X (1 .. N) |-> p[1] \o show[p[2]]]
<1>1. N \in Nat /\ \A n \in 1 .. N : b[n] \in Byte
  BY DEF Bytes
<1>2. \A n \in 1 .. N : StateAt(b)[n - 1] \in States
  BY <1>1, StateRun
<1> HIDE DEF N
<1>3. \A n \in 1 .. N : show[n] = Shown(StateAt(b)[n - 1], b[n]) /\ show[n] \in Texts
  BY <1>1, <1>2, ShownType
<1> HIDE DEF show
<1>4. <<>> \in Texts /\ \A s, t \in Texts : s \o t \in Texts
  BY ConcatProperties DEF Texts
<1>5. step \in [Texts \X (1 .. N) -> Texts]
  <2>1. ASSUME NEW p \in Texts \X (1 .. N) PROVE p[1] \o show[p[2]] \in Texts
    BY <1>3, <1>4
  <2> QED BY <2>1
<1> DEFINE F(g) == [n \in 0 .. N |-> IF n = 0 THEN <<>> ELSE g[n - 1] \o
                                     NextText[<<StateAt(b)[n - 1], b[n]>>]]
<1>6. \E g : g = F(g)
  <2>1. PICK g : g \in [0 .. N -> Texts] /\ Follows(g, step, <<>>, N)
    <3> HIDE DEF step, F
    <3>1. IsStep(step, Texts, N)
      BY <1>5 DEF IsStep
    <3> QED BY <1>1, <1>4, <1>5, <3>1, Iteration
  <2>2. \A n \in 1 .. N : step[<<g[n - 1], n>>] =
                          g[n - 1] \o NextText[<<StateAt(b)[n - 1], b[n]>>]
    <3>1. ASSUME NEW n \in 1 .. N
          PROVE <<g[n - 1], n>> \in Texts \X (1 .. N)
      BY <1>1, <2>1
    <3>2. \A n \in 1 .. N : step[<<g[n - 1], n>>] = g[n - 1] \o show[n]
      BY <3>1
    <3> QED BY <3>2 DEF show
  <2>3. \A n \in 0 .. N : n # 0 => n \in 1 .. N
    BY <1>1
  <2> HIDE DEF step
  <2>4. g = [n \in 0 .. N |-> g[n]]
    BY <2>1
  <2>5. \A n \in 0 .. N : g[n] = IF n = 0 THEN <<>> ELSE g[n - 1] \o
                                 NextText[<<StateAt(b)[n - 1], b[n]>>]
    BY <2>1, <2>2, <2>3 DEF Follows
  <2>6. g = F(g)
    BY <2>4, <2>5
  <2> HIDE DEF F
  <2> QED BY <2>6
<1> DEFINE G == CHOOSE g : g = F(g)
<1>7. TextAt(b) = G
  BY DEF TextAt, N
<1>8. G = F(G)
  <2> HIDE DEF F
  <2> QED BY <1>6
<1> HIDE DEF G
<1>9. G[0] = <<>> /\ \A n \in 1 .. N : G[n] = G[n - 1] \o show[n]
  BY <1>8, <1>1 DEF show
<1>10. \A n \in 0 .. N : G[n] \in Texts
  <2> DEFINE T == {n \in 0 .. N : G[n] \in Texts}
  <2>1. 0 \in T
    BY <1>9, <1>4, <1>1
  <2>2. \A n \in 0 .. N - 1 : n \in T => n + 1 \in T
    <3>1. ASSUME NEW n \in 0 .. N - 1, n \in T PROVE n + 1 \in T
      <4>1. n + 1 \in 1 .. N /\ (n + 1) - 1 = n
        BY <1>1
      <4>2. G[n + 1] = G[n] \o show[n + 1]
        BY <4>1, <1>9
      <4>3. G[n] \in Texts
        BY <3>1
      <4>4. show[n + 1] \in Texts
        BY <4>1, <1>3
      <4>5. G[n + 1] \in Texts
        BY <4>2, <4>3, <4>4, <1>4
      <4> QED BY <4>1, <4>5
    <3> QED BY <3>1
  <2> HIDE DEF T
  <2>3. 0 .. N \subseteq T
    BY <1>1, <2>1, <2>2, RangeInduction
  <2> QED BY <2>3 DEF T
<1>11. G \in [0 .. N -> Texts]
  <2>1. G = [n \in 0 .. N |-> G[n]]
    BY <1>8
  <2> QED BY <2>1, <1>10
<1> QED BY <1>3, <1>7, <1>9, <1>11 DEF N

\* The length of a log, and its bytes.
LEMMA BytesAre ==
    ASSUME NEW b \in Bytes
    PROVE  Len(b) \in Nat /\ DOMAIN b = 1 .. Len(b) /\ \A i \in 1 .. Len(b) : b[i] \in Byte
BY DEF Bytes

\* A run begins on the ground with nothing shown.
LEMMA RunBegins ==
    ASSUME NEW b \in Bytes
    PROVE  StateAt(b)[0] = "ground" /\ TextAt(b)[0] = <<>>
BY StateRun, TextRun

\* What a run is at any time.
LEMMA RunTypes ==
    ASSUME NEW b \in Bytes, NEW i \in Nat, i <= Len(b)
    PROVE  StateAt(b)[i] \in States /\ TextAt(b)[i] \in Texts
<1>1. i \in 0 .. Len(b)
  BY BytesAre
<1> QED BY <1>1, StateRun, TextRun

\* One step of a run.
LEMMA RunStep ==
    ASSUME NEW b \in Bytes, NEW i \in Nat, i < Len(b)
    PROVE  /\ b[i + 1] \in Byte
           /\ StateAt(b)[i + 1] = After(StateAt(b)[i], b[i + 1])
           /\ TextAt(b)[i + 1] = TextAt(b)[i] \o Shown(StateAt(b)[i], b[i + 1])
<1>1. i + 1 \in 1 .. Len(b) /\ (i + 1) - 1 = i
  BY BytesAre
<1>2. b[i + 1] \in Byte
  BY <1>1, BytesAre
<1>3. StateAt(b)[i + 1] = After(StateAt(b)[i], b[i + 1])
  BY <1>1, StateRun
<1>4. TextAt(b)[i + 1] = TextAt(b)[i] \o Shown(StateAt(b)[i], b[i + 1])
  BY <1>1, TextRun
<1> QED BY <1>2, <1>3, <1>4

\* Texts may be put together in any grouping.
LEMMA TextsAssociate ==
    \A u, v, w \in Texts : (u \o v) \o w = u \o (v \o w)
<1> DEFINE S == Byte \cup {"char", "bad"}
<1>1. \A u, v, w \in Seq(S) : (u \o v) \o w = u \o (v \o w)
  <2> HIDE DEF S
  <2> QED BY ConcatAssociative
<1>2. Texts = Seq(S)
  BY DEF Texts
<1> HIDE DEF S
<1> QED BY <1>1, <1>2, Zenon

\* Concatenation of texts.
LEMMA TextsConcat ==
    /\ <<>> \in Texts
    /\ \A s, t \in Texts : s \o t \in Texts
    /\ \A s \in Texts : s \o <<>> = s /\ <<>> \o s = s
<1>1. \A s, t \in Texts : s \o t \in Texts
  BY ConcatProperties DEF Texts
<1>2. \A s \in Texts : s \o <<>> = s /\ <<>> \o s = s
  BY ConcatEmptySeq DEF Texts
<1>3. <<>> \in Texts
  BY DEF Texts
<1> QED BY <1>1, <1>2, <1>3

\* The sign for half a character is a text.
LEMMA BadIsText == <<"bad">> \in Texts
<1> DEFINE X == Byte \cup {"char", "bad"}
<1>1. "bad" \in X
  OBVIOUS
<1>2. <<"bad">> \in Seq(X)
  <2> HIDE DEF X
  <2> QED BY <1>1
<1> QED BY <1>2 DEF Texts

\* Two logs that begin with the same bytes are read alike so far.
LEMMA PrefixRun ==
    ASSUME NEW b \in Bytes, NEW c \in Bytes, NEW k \in Nat,
           k <= Len(b), k <= Len(c), \A i \in 1 .. k : c[i] = b[i]
    PROVE  \A i \in 0 .. k : StateAt(c)[i] = StateAt(b)[i] /\ TextAt(c)[i] = TextAt(b)[i]
<1> DEFINE T == {i \in 0 .. k : StateAt(c)[i] = StateAt(b)[i] /\ TextAt(c)[i] = TextAt(b)[i]}
<1>1. 0 \in T
  BY RunBegins
<1>2. ASSUME NEW i \in 0 .. k - 1, i \in T PROVE i + 1 \in T
  <2>1. i \in Nat /\ i < Len(b) /\ i < Len(c) /\ i + 1 \in 0 .. k /\ c[i + 1] = b[i + 1]
    BY BytesAre
  <2>2. /\ StateAt(b)[i + 1] = After(StateAt(b)[i], b[i + 1])
        /\ StateAt(c)[i + 1] = After(StateAt(c)[i], c[i + 1])
    BY <2>1, RunStep
  <2>3. /\ TextAt(b)[i + 1] = TextAt(b)[i] \o Shown(StateAt(b)[i], b[i + 1])
        /\ TextAt(c)[i + 1] = TextAt(c)[i] \o Shown(StateAt(c)[i], c[i + 1])
    BY <2>1, RunStep
  <2>4. StateAt(c)[i] = StateAt(b)[i] /\ TextAt(c)[i] = TextAt(b)[i]
    BY <1>2
  <2>5. StateAt(c)[i + 1] = StateAt(b)[i + 1] /\ TextAt(c)[i + 1] = TextAt(b)[i + 1]
    BY <2>1, <2>2, <2>3, <2>4
  <2> QED BY <2>1, <2>5
<1>3. 0 .. k \subseteq T
  <2> HIDE DEF T
  <2> QED BY <1>1, <1>2, RangeInduction
<1> QED BY <1>3

\* An escape is read alike outside a character, and it shows nothing there.
LEMMA EscapeAnywhere ==
    ASSUME NEW s \in States
    PROVE  After(s, "esc") = "escape" /\ (s # "char" => Shown(s, "esc") = <<>>)
<1>1. After(s, "esc") = "escape"
  BY DEF After
<1>2. CASE s = "ground"
  <2>1. Shown(s, "esc") = <<>> \o <<>>
    BY <1>2 DEF Shown
  <2> QED BY <2>1, <1>1
<1>3. CASE s \notin {"ground", "char"}
  BY <1>1, <1>3 DEF Shown
<1> QED BY <1>1, <1>2, <1>3

\* A log may be read in two parts where no character is open and either no
\* escape is, or another escape begins.
Parted(s, q) == s = "ground" \/ (s # "char" /\ (Len(q) > 0 => q[1] = "esc"))

\* The second part is read as the end of the whole.
LEMMA SuffixRun ==
    ASSUME NEW b \in Bytes, NEW q \in Bytes, NEW k \in Nat, Len(b) = k + Len(q),
           \A i \in 1 .. Len(q) : q[i] = b[k + i], Parted(StateAt(b)[k], q)
    PROVE  /\ \A i \in 1 .. Len(q) : StateAt(b)[k + i] = StateAt(q)[i]
           /\ \A i \in 0 .. Len(q) : TextAt(b)[k + i] = TextAt(b)[k] \o TextAt(q)[i]
<1> DEFINE Good(i) == /\ i > 0 => StateAt(b)[k + i] = StateAt(q)[i]
                      /\ TextAt(b)[k + i] = TextAt(b)[k] \o TextAt(q)[i]
           T == {i \in 0 .. Len(q) : Good(i)}
<1>0. Len(q) \in Nat /\ k \in 0 .. Len(b) /\ TextAt(b)[k] \in Texts /\ StateAt(b)[k] \in States
  <2>1. Len(b) \in Nat /\ Len(q) \in Nat /\ k <= Len(b)
    BY BytesAre
  <2> QED BY <2>1, RunTypes
<1>1. 0 \in T
  <2>1. TextAt(b)[k] = TextAt(b)[k] \o TextAt(q)[0]
    BY <1>0, TextsConcat, RunBegins
  <2>2. k + 0 = k /\ 0 \in 0 .. Len(q)
    BY <1>0
  <2>3. TextAt(b)[k + 0] = TextAt(b)[k] \o TextAt(q)[0]
    BY <2>1, <2>2
  <2>4. Good(0)
    BY <2>3
  <2> HIDE DEF Good
  <2> QED BY <2>2, <2>4
<1>2. ASSUME NEW i \in 0 .. Len(q) - 1, i \in T PROVE i + 1 \in T
  <2> DEFINE s == StateAt(b)[k + i]
             t == StateAt(q)[i]
             byte == q[i + 1]
  <2>1. /\ k + i \in Nat /\ k + i < Len(b) /\ i \in Nat /\ i < Len(q)
        /\ (k + i) + 1 = k + (i + 1) /\ i + 1 \in 1 .. Len(q) /\ i + 1 \in 0 .. Len(q)
    BY <1>0
  <2>0. b[k + (i + 1)] = byte
    BY <2>1
  <2>9. /\ b[(k + i) + 1] \in Byte
        /\ StateAt(b)[(k + i) + 1] = After(s, b[(k + i) + 1])
        /\ TextAt(b)[(k + i) + 1] = TextAt(b)[k + i] \o Shown(s, b[(k + i) + 1])
    BY <2>1, RunStep
  <2>10. /\ StateAt(q)[i + 1] = After(t, byte)
         /\ TextAt(q)[i + 1] = TextAt(q)[i] \o Shown(t, byte)
    BY <2>1, RunStep
  <2>11. s \in States /\ TextAt(b)[k + i] \in Texts
    BY <2>1, RunTypes
  <2>12. t \in States /\ TextAt(q)[i] \in Texts
    BY <2>1, RunTypes
  <2>2. /\ StateAt(b)[k + (i + 1)] = After(s, byte)
        /\ StateAt(q)[i + 1] = After(t, byte)
    BY <2>0, <2>1, <2>9, <2>10
  <2>3. /\ TextAt(b)[k + (i + 1)] = TextAt(b)[k + i] \o Shown(s, byte)
        /\ TextAt(q)[i + 1] = TextAt(q)[i] \o Shown(t, byte)
    BY <2>0, <2>1, <2>9, <2>10
  <2>4. s \in States /\ t \in States /\ byte \in Byte
    BY <2>0, <2>1, <2>9, <2>11, <2>12
  <2>5. After(s, byte) = After(t, byte) /\ Shown(s, byte) = Shown(t, byte)
    <3>1. CASE i > 0
      <4>1. s = t
        BY <3>1, <1>2
      <4> QED BY <4>1
    <3>2. CASE i = 0
      <4>1. t = "ground"
        BY <3>2, RunBegins
      <4>2. s = StateAt(b)[k]
        BY <3>2
      <4>3. CASE s = "ground"
        BY <4>1, <4>3
      <4>4. CASE s # "char" /\ byte = "esc"
        BY <4>4, <4>1, <2>4, EscapeAnywhere
      <4>5. byte = q[1] /\ Len(q) > 0
        BY <3>2, <2>1
      <4> HIDE DEF s, t, byte
      <4> QED BY <4>2, <4>3, <4>4, <4>5 DEF Parted
    <3> QED BY <3>1, <3>2
  <2>6. TextAt(b)[k + i] = TextAt(b)[k] \o TextAt(q)[i]
    BY <1>2
  <2>7. TextAt(b)[k + (i + 1)] = TextAt(b)[k] \o TextAt(q)[i + 1]
    <3> DEFINE u == TextAt(b)[k]
               v == TextAt(q)[i]
               w == Shown(t, byte)
    <3>1. u \in Texts /\ v \in Texts /\ w \in Texts
      BY <1>0, <2>4, <2>12, ShownType
    <3>2. TextAt(b)[k + (i + 1)] = (u \o v) \o w
      BY <2>3, <2>5, <2>6
    <3>3. TextAt(q)[i + 1] = v \o w
      BY <2>3
    <3> HIDE DEF u, v, w
    <3>4. (u \o v) \o w = u \o (v \o w)
      BY <3>1, TextsAssociate, Zenon
    <3>5. TextAt(b)[k + (i + 1)] = u \o TextAt(q)[i + 1]
      BY <3>2, <3>3, <3>4
    <3> QED BY <3>5 DEF u
  <2>8. StateAt(b)[k + (i + 1)] = StateAt(q)[i + 1]
    BY <2>2, <2>5
  <2> HIDE DEF s, t, byte
  <2> QED BY <2>1, <2>7, <2>8
<1>3. 0 .. Len(q) \subseteq T
  <2> HIDE DEF T
  <2> QED BY <1>0, <1>1, <1>2, RangeInduction
<1>4. \A i \in 0 .. Len(q) : Good(i)
  BY <1>3
<1>5. \A i \in 1 .. Len(q) : i \in 0 .. Len(q) /\ i > 0
  BY <1>0
<1> QED BY <1>4, <1>5

\* What is visible is a text.
LEMMA VisibleType ==
    ASSUME NEW b \in Bytes
    PROVE  Visible(b) \in Texts
<1> DEFINE u == TextAt(b)[Len(b)]
           v == IF StateAt(b)[Len(b)] = "char" THEN <<"bad">> ELSE <<>>
<1>1. u \in Texts
  BY RunTypes, BytesAre
<1>2. <<"bad">> \in Texts /\ <<>> \in Texts
  BY BadIsText, TextsConcat
<1>3. v \in Texts
  BY <1>2
<1>4. Visible(b) = u \o v
  BY DEF Visible
<1> HIDE DEF u, v
<1> QED BY <1>1, <1>3, <1>4, ConcatProperties DEF Texts

\* Nothing is visible of an empty log.
LEMMA VisibleEmpty == Visible(<<>>) = <<>>
<1>1. <<>> \in Bytes /\ Len(<<>>) = 0
  BY DEF Bytes
<1>2. TextAt(<<>>)[0] = <<>> /\ StateAt(<<>>)[0] = "ground"
  BY <1>1, RunBegins
<1>3. Visible(<<>>) = <<>> \o <<>>
  BY <1>1, <1>2 DEF Visible
<1> QED BY <1>3

\* What two parts show is what the whole shows.
LEMMA VisibleConcat ==
    ASSUME NEW b \in Bytes, NEW c \in Bytes, NEW q \in Bytes, Len(b) = Len(c) + Len(q),
           \A i \in 1 .. Len(c) : c[i] = b[i],
           \A i \in 1 .. Len(q) : q[i] = b[Len(c) + i], Parted(StateAt(c)[Len(c)], q)
    PROVE  Visible(c) \o Visible(q) = Visible(b)
<1> DEFINE k == Len(c)
<1>1. k \in Nat /\ Len(q) \in Nat /\ k <= Len(b)
  BY BytesAre
<1>2. StateAt(c)[k] = StateAt(b)[k] /\ TextAt(c)[k] = TextAt(b)[k]
  <2>1. \A i \in 0 .. k : StateAt(c)[i] = StateAt(b)[i] /\ TextAt(c)[i] = TextAt(b)[i]
    <3>1. k <= Len(c) /\ \A i \in 1 .. k : c[i] = b[i]
      BY <1>1
    <3> HIDE DEF k
    <3> QED BY <1>1, <3>1, PrefixRun
  <2>2. k \in 0 .. k
    BY <1>1
  <2> QED BY <2>1, <2>2
<1>3. TextAt(c)[k] \in Texts /\ TextAt(q)[Len(q)] \in Texts
  BY <1>1, RunTypes
<1>4. Visible(c) = TextAt(c)[k]
  <2>1. StateAt(c)[k] # "char"
    BY <1>1 DEF Parted
  <2>2. Visible(c) = TextAt(c)[k] \o <<>>
    BY <2>1 DEF Visible
  <2> QED BY <2>2, <1>3, ConcatEmptySeq DEF Texts
<1> HIDE DEF k
<1>5. CASE Len(q) = 0
  <2>1. q = <<>>
    BY <1>5, EmptySeq DEF Bytes
  <2>2. b = c
    <3>1. Len(b) = Len(c)
      BY <1>5, <1>1 DEF k
    <3> QED BY <3>1, SeqEqual DEF Bytes
  <2>3. Visible(c) \o Visible(q) = Visible(c)
    BY <2>1, VisibleEmpty, VisibleType, ConcatEmptySeq DEF Texts
  <2> QED BY <2>2, <2>3
<1>6. CASE Len(q) > 0
  <2>1. /\ \A i \in 1 .. Len(q) : StateAt(b)[k + i] = StateAt(q)[i]
        /\ \A i \in 0 .. Len(q) : TextAt(b)[k + i] = TextAt(b)[k] \o TextAt(q)[i]
    BY <1>1, <1>2, SuffixRun DEF k
  <2>2. Len(b) = k + Len(q) /\ Len(q) \in 1 .. Len(q) /\ Len(q) \in 0 .. Len(q)
    BY <1>1, <1>6 DEF k
  <2>3. /\ StateAt(b)[Len(b)] = StateAt(q)[Len(q)]
        /\ TextAt(b)[Len(b)] = TextAt(c)[k] \o TextAt(q)[Len(q)]
    BY <2>1, <2>2, <1>2
  <2> DEFINE u == TextAt(c)[k]
             v == TextAt(q)[Len(q)]
             w == IF StateAt(q)[Len(q)] = "char" THEN <<"bad">> ELSE <<>>
  <2>4. w \in Texts
    BY BadIsText, TextsConcat
  <2>5. Visible(q) = v \o w /\ Visible(b) = (u \o v) \o w /\ Visible(c) = u
    BY <2>3, <1>4 DEF Visible
  <2>6. u \in Texts /\ v \in Texts
    BY <1>3
  <2> HIDE DEF u, v, w
  <2>7. (u \o v) \o w = u \o (v \o w)
    BY <2>4, <2>6, TextsAssociate, Zenon
  <2> QED BY <2>5, <2>7
<1> QED BY <1>1, <1>5, <1>6

-----------------------------------------------------------------------------
(***************************************************************************)
(* What may be read of a log that is being written.                        *)
(***************************************************************************)

NoEscape(b) == \A i \in 1 .. Len(b) : b[i] # "esc"
LastEscape(b, e) ==
    /\ e \in 1 .. Len(b) /\ b[e] = "esc"
    /\ \A i \in 1 .. Len(b) : b[i] = "esc" => i <= e

\* The escape at e is complete; a character begins at n that is not.
Complete(b, e) ==
    /\ e < Len(b)
    /\ b[e + 1] = "[" => \E i \in e + 2 .. Len(b) : b[i] \in Finals
    /\ b[e + 1] = "]" => \E i \in e + 2 .. Len(b) : b[i] = "bel"
    /\ b[e + 1] = "O" => e + 2 <= Len(b)
GoodChar(b, i) == b[i] = "cont" <=> (i > 1 /\ b[i - 1] = "lead")
Inside(b, n) == n > 0 /\ b[n] = "lead" /\ \A i \in 1 .. n : GoodChar(b, i)

\* Where the last escape lets a slice end.
Ends(b, end) ==
    \/ NoEscape(b) /\ end = Len(b)
    \/ \E e \in 1 .. Len(b) : LastEscape(b, e) /\ Complete(b, e) /\ end = Len(b)
    \/ \E e \in 1 .. Len(b) : LastEscape(b, e) /\ ~Complete(b, e) /\ end = e - 1

\* If there are escapes, one is the last.
LEMMA LastEscapeExists ==
    ASSUME NEW b \in Bytes, ~NoEscape(b)
    PROVE  \E e \in 1 .. Len(b) : LastEscape(b, e)
<1> DEFINE L(n, e) == e \in 1 .. n /\ b[e] = "esc" /\ \A i \in 1 .. n : b[i] = "esc" => i <= e
           T == {n \in 0 .. Len(b) :
                    (\E i \in 1 .. n : b[i] = "esc") => \E e \in 1 .. n : L(n, e)}
<1>1. Len(b) \in Nat
  BY BytesAre
<1>2. 0 \in T
  BY <1>1
<1>3. ASSUME NEW n \in 0 .. Len(b) - 1, n \in T PROVE n + 1 \in T
  <2>1. CASE b[n + 1] = "esc"
    <3>1. L(n + 1, n + 1)
      BY <2>1, <1>1
    <3> QED BY <3>1, <1>1
  <2>2. CASE b[n + 1] # "esc"
    <3>1. ASSUME NEW i \in 1 .. n + 1, b[i] = "esc" PROVE \E e \in 1 .. n + 1 : L(n + 1, e)
      <4>1. i \in 1 .. n
        BY <3>1, <2>2, <1>1
      <4>2. PICK e \in 1 .. n : L(n, e)
        BY <4>1, <3>1, <1>3
      <4>3. \A j \in 1 .. n + 1 : b[j] = "esc" => j \in 1 .. n
        BY <2>2, <1>1
      <4>4. L(n + 1, e)
        BY <4>2, <4>3, <1>1
      <4> QED BY <4>4, <1>1
    <3> QED BY <3>1, <1>1
  <2> QED BY <2>1, <2>2
<1>4. 0 .. Len(b) \subseteq T
  <2> HIDE DEF T
  <2> QED BY <1>1, <1>2, <1>3, RangeInduction
<1>5. Len(b) \in T
  <2>1. Len(b) \in 0 .. Len(b)
    BY <1>1
  <2> HIDE DEF T
  <2> QED BY <1>4, <2>1
<1> QED BY <1>5, <1>1 DEF NoEscape, LastEscape

\* escape_complete, without the copies of the log it is given.
LEMMA EscapeCompleteIs ==
    ASSUME NEW b \in Bytes, NEW e \in 1 .. Len(b)
    PROVE  EscapeComplete(SubSeq(b, e, Len(b))) <=> Complete(b, e)
<1> DEFINE n == Len(b)
           tail == SubSeq(b, e, n)
           rest == SubSeq(tail, 3, Len(tail))
<1>1. n \in Nat /\ \A i \in e .. n : b[i] \in Byte
  BY BytesAre
<1>2. tail \in Bytes /\ Len(tail) = n - e + 1 /\ \A i \in 1 .. n - e + 1 : tail[i] = b[e + i - 1]
  BY <1>1, SubSeqProperties DEF Bytes
<1> HIDE DEF tail
<1>3. rest \in Bytes /\ Len(rest) = (IF n - e + 1 < 3 THEN 0 ELSE n - e - 1)
  <2>1. \A i \in 3 .. Len(tail) : tail[i] \in Byte
    BY <1>2, BytesAre
  <2> HIDE DEF n
  <2> QED BY <1>1, <1>2, <2>1, SubSeqProperties DEF Bytes
<1>4. \A i \in 1 .. n - e - 1 : rest[i] = b[e + i + 1]
  <2>1. \A i \in 3 .. Len(tail) : tail[i] \in Byte
    BY <1>2, BytesAre
  <2>2. \A i \in 1 .. Len(tail) - 3 + 1 : rest[i] = tail[3 + i - 1]
    BY <1>1, <1>2, <2>1, SubSeqProperties
  <2> QED BY <1>1, <1>2, <2>2
<1>5. DOMAIN rest = 1 .. Len(rest)
  BY <1>3, BytesAre
<1> HIDE DEF rest
<1>7. (\E i \in DOMAIN rest : rest[i] \in Finals) <=> (\E i \in e + 2 .. n : b[i] \in Finals)
  <2>1. ASSUME NEW i \in DOMAIN rest PROVE e + i + 1 \in e + 2 .. n /\ rest[i] = b[e + i + 1]
    BY <1>1, <1>3, <1>4, <1>5
  <2>2. ASSUME NEW j \in e + 2 .. n PROVE j - e - 1 \in DOMAIN rest /\ rest[j - e - 1] = b[j]
    BY <1>1, <1>3, <1>4, <1>5
  <2> QED BY <2>1, <2>2
<1>8. "bel" \in ToSet(rest) <=> (\E i \in e + 2 .. n : b[i] = "bel")
  <2>1. ASSUME NEW i \in DOMAIN rest PROVE e + i + 1 \in e + 2 .. n /\ rest[i] = b[e + i + 1]
    BY <1>1, <1>3, <1>4, <1>5
  <2>2. ASSUME NEW j \in e + 2 .. n PROVE j - e - 1 \in DOMAIN rest /\ rest[j - e - 1] = b[j]
    BY <1>1, <1>3, <1>4, <1>5
  <2> QED BY <2>1, <2>2 DEF ToSet
<1>9. rest # <<>> <=> e + 2 <= n
  <2>1. rest # <<>> <=> Len(rest) # 0
    BY <1>3, EmptySeq DEF Bytes
  <2> QED BY <1>1, <1>3, <2>1
<1>10. Len(tail) >= 2 <=> e < n
  BY <1>1, <1>2
<1>11. e < n => tail[2] = b[e + 1]
  BY <1>1, <1>2
<1>12. EscapeComplete(tail) <=>
         /\ Len(tail) >= 2
         /\ tail[2] = "[" => \E i \in DOMAIN rest : rest[i] \in Finals
         /\ tail[2] = "]" => "bel" \in ToSet(rest)
         /\ tail[2] = "O" => rest # <<>>
  BY DEF EscapeComplete, rest
<1>13. EscapeComplete(tail) <=> Complete(b, e)
  BY <1>7, <1>8, <1>9, <1>10, <1>11, <1>12 DEF Complete
<1> QED BY <1>13 DEF tail

\* The same for a character.
LEMMA EndsInsideCharIs ==
    ASSUME NEW b \in Bytes, NEW n \in 0 .. Len(b)
    PROVE  /\ SubSeq(b, 1, n) \in Bytes /\ Len(SubSeq(b, 1, n)) = n
           /\ \A i \in 1 .. n : SubSeq(b, 1, n)[i] = b[i]
           /\ EndsInsideChar(SubSeq(b, 1, n)) <=> Inside(b, n)
<1> DEFINE s == SubSeq(b, 1, n)
<1>1. n \in Nat /\ n <= Len(b) /\ \A i \in 1 .. n : b[i] \in Byte
  BY BytesAre
<1>2. s \in Bytes /\ Len(s) = n /\ \A i \in 1 .. n : s[i] = b[i]
  <2>1. /\ s \in Seq(Byte) /\ Len(s) = (IF 1 <= n THEN n - 1 + 1 ELSE 0)
        /\ \A i \in 1 .. n - 1 + 1 : s[i] = b[1 + i - 1]
    BY <1>1, SubSeqProperties
  <2>2. n - 1 + 1 = n /\ \A i \in 1 .. n : 1 + i - 1 = i
    BY <1>1
  <2> HIDE DEF s
  <2> QED BY <1>1, <2>1, <2>2 DEF Bytes
<1> HIDE DEF s
<1>3. DOMAIN s = 1 .. n
  BY <1>2, BytesAre
<1>4. s # <<>> <=> n > 0
  BY <1>1, <1>2, EmptySeq DEF Bytes
<1>5. n > 0 => Last(s) = b[n]
  BY <1>1, <1>2 DEF Last
<1>6. \A i \in 1 .. n : (s[i] = "cont" <=> i > 1 /\ s[i - 1] = "lead") <=> GoodChar(b, i)
  <2>1. \A i \in 1 .. n : i > 1 => i - 1 \in 1 .. n
    BY <1>1
  <2> QED BY <1>2, <2>1 DEF GoodChar
<1>7. EndsInsideChar(s) <=> Inside(b, n)
  BY <1>3, <1>4, <1>5, <1>6 DEF EndsInsideChar, Inside
<1> QED BY <1>2, <1>7 DEF s

\* safe_prefix_len, without the copies.
LEMMA SafePrefixIs ==
    ASSUME NEW b \in Bytes
    PROVE  \E end \in 0 .. Len(b) :
              Ends(b, end) /\ SafePrefix(b) = IF Inside(b, end) THEN end - 1 ELSE end
<1> DEFINE n == Len(b)
           E == {i \in DOMAIN b : b[i] = "esc"}
           last == CHOOSE i \in E : \A j \in E : j <= i
           end == IF E = {} \/ EscapeComplete(SubSeq(b, last, Len(b))) THEN Len(b) ELSE last - 1
<1>1. n \in Nat /\ DOMAIN b = 1 .. n
  BY BytesAre
<1>2. SafePrefix(b) = IF EndsInsideChar(SubSeq(b, 1, end)) THEN end - 1 ELSE end
  BY DEF SafePrefix
<1>3. end \in 0 .. n /\ Ends(b, end)
  <2>1. CASE NoEscape(b)
    <3>1. E = {}
      BY <2>1, <1>1 DEF NoEscape
    <3>2. end = n
      BY <3>1
    <3> QED BY <2>1, <3>2, <1>1 DEF Ends
  <2>2. CASE ~NoEscape(b)
    <3>1. PICK e \in 1 .. n : LastEscape(b, e)
      BY <2>2, LastEscapeExists
    <3>2. e \in E /\ \A j \in E : j <= e
      BY <3>1, <1>1 DEF LastEscape
    <3>3. \A i \in E : (\A j \in E : j <= i) => i = e
      BY <3>2, <1>1
    <3>4. last = e
      BY <3>2, <3>3
    <3>5. E # {}
      BY <3>2
    <3>6. EscapeComplete(SubSeq(b, last, Len(b))) <=> Complete(b, e)
      BY <3>4, EscapeCompleteIs
    <3> HIDE DEF last, E
    <3>7. end = IF Complete(b, e) THEN n ELSE e - 1
      BY <3>4, <3>5, <3>6
    <3> HIDE DEF end
    <3> QED BY <3>1, <3>7, <1>1 DEF Ends
  <2> QED BY <2>1, <2>2
<1> HIDE DEF end
<1>4. EndsInsideChar(SubSeq(b, 1, end)) <=> Inside(b, end)
  BY <1>3, EndsInsideCharIs
<1> QED BY <1>2, <1>3, <1>4

\* A slice never ends behind what was read.
LEMMA SafePrefixBound ==
    ASSUME NEW b \in Bytes
    PROVE  SafePrefix(b) \in 0 .. Len(b)
<1>1. PICK end \in 0 .. Len(b) :
           Ends(b, end) /\ SafePrefix(b) = IF Inside(b, end) THEN end - 1 ELSE end
  BY SafePrefixIs
<1>2. Inside(b, end) => end > 0
  BY DEF Inside
<1> QED BY <1>1, <1>2, BytesAre

-----------------------------------------------------------------------------
(***************************************************************************)
(* A log that was read in slices shows at least what it shows as a whole.  *)
(***************************************************************************)

\* The byte at i is looked for, and it is shown.
Marked(b, i) == b[i] = "mark" /\ Plain(StateAt(b)[i - 1])

\* The members of two texts in a row.
LEMMA TextSets ==
    ASSUME NEW s \in Texts, NEW t \in Texts
    PROVE  ToSet(s \o t) = ToSet(s) \cup ToSet(t)
<1>1. /\ s \o t \in Texts /\ Len(s \o t) = Len(s) + Len(t)
      /\ \A i \in 1 .. Len(s) + Len(t) :
            (s \o t)[i] = IF i <= Len(s) THEN s[i] ELSE t[i - Len(s)]
  BY ConcatProperties DEF Texts
<1> DEFINE u == s \o t
<1>2. /\ DOMAIN s = 1 .. Len(s) /\ DOMAIN t = 1 .. Len(t) /\ DOMAIN u = 1 .. Len(u)
      /\ Len(s) \in Nat /\ Len(t) \in Nat
  BY <1>1, LenProperties DEF Texts
<1> HIDE DEF u
<1>3. Len(u) = Len(s) + Len(t) /\ \A i \in 1 .. Len(s) + Len(t) :
                                    u[i] = IF i <= Len(s) THEN s[i] ELSE t[i - Len(s)]
  BY <1>1 DEF u
<1>4. ASSUME NEW i \in DOMAIN u PROVE u[i] \in ToSet(s) \cup ToSet(t)
  <2>1. CASE i <= Len(s)
    <3>1. i \in DOMAIN s /\ u[i] = s[i]
      BY <1>2, <1>3, <2>1
    <3> QED BY <3>1 DEF ToSet
  <2>2. CASE i > Len(s)
    <3>1. i - Len(s) \in DOMAIN t /\ u[i] = t[i - Len(s)]
      BY <1>2, <1>3, <2>2
    <3> QED BY <3>1 DEF ToSet
  <2> QED BY <1>2, <2>1, <2>2
<1>5. ASSUME NEW i \in DOMAIN s PROVE s[i] \in ToSet(u)
  <2>1. i \in DOMAIN u /\ u[i] = s[i]
    BY <1>2, <1>3
  <2> QED BY <2>1 DEF ToSet
<1>6. ASSUME NEW i \in DOMAIN t PROVE t[i] \in ToSet(u)
  <2>1. Len(s) + i \in DOMAIN u /\ u[Len(s) + i] = t[i]
    BY <1>2, <1>3
  <2> QED BY <2>1 DEF ToSet
<1>7. ToSet(u) = ToSet(s) \cup ToSet(t)
  BY <1>4, <1>5, <1>6 DEF ToSet
<1> QED BY <1>7 DEF u

\* A step shows what is looked for if it is read where bytes are shown.
LEMMA ShownMark ==
    ASSUME NEW s \in States, NEW byte \in Byte
    PROVE  "mark" \in ToSet(Shown(s, byte)) <=> byte = "mark" /\ Plain(s)
<1>1. CASE ~Plain(s)
  <2>1. Shown(s, byte) = <<>>
    BY <1>1 DEF Shown, Plain
  <2>2. ToSet(<<>>) = {}
    BY DEF ToSet
  <2> QED BY <1>1, <2>1, <2>2
<1>2. CASE byte = "cont"
  <2>1. Shown(s, byte) \in {<<>>, <<"char">>, <<"bad">>}
    BY <1>2 DEF Shown
  <2>2. ToSet(<<>>) = {} /\ ToSet(<<"char">>) = {"char"} /\ ToSet(<<"bad">>) = {"bad"}
    BY DEF ToSet
  <2> QED BY <1>2, <2>1, <2>2
<1>3. CASE Plain(s) /\ byte # "cont"
  <2> DEFINE u == IF s = "char" THEN <<"bad">> ELSE <<>>
             v == IF byte \in {"esc", "lead", "bel"} THEN <<>> ELSE <<byte>>
  <2>1. Shown(s, byte) = u \o v
    BY <1>3 DEF Shown, Plain
  <2>2. u \in Texts /\ v \in Texts
    <3> DEFINE X == Byte \cup {"char", "bad"}
    <3>1. byte \in X /\ "bad" \in X
      OBVIOUS
    <3>2. <<byte>> \in Seq(X) /\ <<"bad">> \in Seq(X) /\ <<>> \in Seq(X)
      <4> HIDE DEF X
      <4> QED BY <3>1
    <3> QED BY <3>2 DEF Texts
  <2>3. ToSet(u) \subseteq {"bad"} /\ ToSet(v) = (IF byte \in {"esc", "lead", "bel"} THEN {} ELSE {byte})
    BY DEF ToSet
  <2> HIDE DEF u, v
  <2>4. ToSet(u \o v) = ToSet(u) \cup ToSet(v)
    BY <2>2, TextSets
  <2> QED BY <1>3, <2>1, <2>3, <2>4
<1> QED BY <1>1, <1>2, <1>3

\* What is looked for is visible if it is shown somewhere.
LEMMA MatchesIs ==
    ASSUME NEW b \in Bytes
    PROVE  Matches(Visible(b)) <=> \E i \in 1 .. Len(b) : Marked(b, i)
<1> DEFINE Good(n) == "mark" \in ToSet(TextAt(b)[n]) <=> \E i \in 1 .. n : Marked(b, i)
           T == {n \in 0 .. Len(b) : Good(n)}
<1>1. Len(b) \in Nat
  BY BytesAre
<1>2. 0 \in T
  <2>1. TextAt(b)[0] = <<>>
    BY RunBegins
  <2>2. ToSet(<<>>) = {}
    BY DEF ToSet
  <2>3. Good(0)
    BY <2>1, <2>2
  <2> HIDE DEF Good
  <2> QED BY <1>1, <2>3
<1>3. ASSUME NEW n \in 0 .. Len(b) - 1, n \in T PROVE n + 1 \in T
  <2>1. n \in Nat /\ n < Len(b) /\ n <= Len(b) /\ n + 1 \in 0 .. Len(b)
    BY <1>1
  <2>2. StateAt(b)[n] \in States /\ TextAt(b)[n] \in Texts
    BY <2>1, RunTypes
  <2>3. /\ b[n + 1] \in Byte
        /\ TextAt(b)[n + 1] = TextAt(b)[n] \o Shown(StateAt(b)[n], b[n + 1])
    BY <2>1, RunStep
  <2> DEFINE w == Shown(StateAt(b)[n], b[n + 1])
  <2>4. w \in Texts /\ ("mark" \in ToSet(w) <=> Marked(b, n + 1))
    <3>1. (n + 1) - 1 = n
      BY <2>1
    <3> QED BY <2>2, <2>3, <3>1, ShownType, ShownMark DEF Marked
  <2>5. TextAt(b)[n + 1] = TextAt(b)[n] \o w
    BY <2>3
  <2> HIDE DEF w
  <2>6. ToSet(TextAt(b)[n + 1]) = ToSet(TextAt(b)[n]) \cup ToSet(w)
    BY <2>2, <2>4, <2>5, TextSets
  <2>7. Good(n)
    BY <1>3
  <2>8. \A i \in 1 .. n + 1 : i \in 1 .. n \/ i = n + 1
    BY <2>1
  <2>9. \A i \in 1 .. n : i \in 1 .. n + 1
    BY <2>1
  <2>10. n + 1 \in 1 .. n + 1
    BY <2>1
  <2>11. Good(n + 1)
    BY <2>4, <2>6, <2>7, <2>8, <2>9, <2>10
  <2> HIDE DEF Good
  <2> QED BY <2>1, <2>11
<1>4. 0 .. Len(b) \subseteq T
  <2> HIDE DEF T
  <2> QED BY <1>1, <1>2, <1>3, RangeInduction
<1>5. Good(Len(b))
  <2>1. Len(b) \in 0 .. Len(b)
    BY <1>1
  <2> QED BY <1>4, <2>1
<1> DEFINE u == TextAt(b)[Len(b)]
           v == IF StateAt(b)[Len(b)] = "char" THEN <<"bad">> ELSE <<>>
<1>6. u \in Texts /\ v \in Texts
  BY <1>1, RunTypes, BadIsText, TextsConcat
<1>7. "mark" \notin ToSet(v)
  <2>1. ToSet(<<>>) = {} /\ ToSet(<<"bad">>) = {"bad"}
    BY DEF ToSet
  <2> QED BY <2>1
<1>8. Visible(b) = u \o v
  BY DEF Visible
<1>9. "mark" \in ToSet(u) <=> \E i \in 1 .. Len(b) : Marked(b, i)
  BY <1>5
<1> HIDE DEF u, v
<1>10. ToSet(u \o v) = ToSet(u) \cup ToSet(v)
  BY <1>6, TextSets
<1> QED BY <1>7, <1>8, <1>9, <1>10 DEF Matches

\* A reader that begins later knows the state, or takes every byte for plain.
LEMMA Synchronised ==
    ASSUME NEW b \in Bytes, NEW q \in Bytes, NEW k \in Nat, Len(b) = k + Len(q),
           \A i \in 1 .. Len(q) : q[i] = b[k + i]
    PROVE  \A i \in 0 .. Len(q) :
               StateAt(b)[k + i] = StateAt(q)[i] \/ Plain(StateAt(q)[i])
<1> DEFINE Good(i) == StateAt(b)[k + i] = StateAt(q)[i] \/ Plain(StateAt(q)[i])
           T == {i \in 0 .. Len(q) : Good(i)}
<1>1. Len(q) \in Nat
  BY BytesAre
<1>2. 0 \in T
  <2>1. Plain(StateAt(q)[0])
    BY RunBegins DEF Plain
  <2> QED BY <1>1, <2>1
<1>3. ASSUME NEW i \in 0 .. Len(q) - 1, i \in T PROVE i + 1 \in T
  <2> DEFINE s == StateAt(b)[k + i]
             t == StateAt(q)[i]
             byte == q[i + 1]
  <2>1. /\ k + i \in Nat /\ k + i < Len(b) /\ i \in Nat /\ i < Len(q)
        /\ (k + i) + 1 = k + (i + 1) /\ i + 1 \in 1 .. Len(q) /\ i + 1 \in 0 .. Len(q)
    BY <1>1
  <2>2. b[k + (i + 1)] = byte
    BY <2>1
  <2>3. StateAt(b)[(k + i) + 1] = After(s, b[(k + i) + 1])
    BY <2>1, RunStep
  <2>4. StateAt(q)[i + 1] = After(t, byte) /\ byte \in Byte
    BY <2>1, RunStep
  <2>5. s \in States
    BY <2>1, RunTypes
  <2>6. t \in States
    BY <2>1, RunTypes
  <2>7. StateAt(b)[k + (i + 1)] = After(s, byte)
    BY <2>1, <2>2, <2>3
  <2>8. Good(i)
    BY <1>3
  <2>9. CASE s = t
    BY <2>1, <2>4, <2>7, <2>9
  <2>10. CASE byte = "esc"
    <3>1. After(s, byte) = After(t, byte)
      BY <2>10 DEF After
    <3> QED BY <2>1, <2>4, <2>7, <3>1
  <2>11. CASE Plain(t) /\ byte # "esc"
    <3>1. Plain(After(t, byte))
      BY <2>11 DEF After, Plain
    <3> QED BY <2>1, <2>4, <3>1
  <2> HIDE DEF s, t, byte
  <2> QED BY <2>8, <2>9, <2>10, <2>11 DEF s, t
<1>4. 0 .. Len(q) \subseteq T
  <2> HIDE DEF T
  <2> QED BY <1>1, <1>2, <1>3, RangeInduction
<1> QED BY <1>4

\* What is shown in the whole is shown in every end of it.
LEMMA MarkedAgain ==
    ASSUME NEW b \in Bytes, NEW q \in Bytes, NEW k \in Nat, Len(b) = k + Len(q),
           \A i \in 1 .. Len(q) : q[i] = b[k + i]
    PROVE  \A i \in 1 .. Len(q) : Marked(b, k + i) => Marked(q, i)
<1> SUFFICES ASSUME NEW i \in 1 .. Len(q), Marked(b, k + i) PROVE Marked(q, i)
  OBVIOUS
<1>1. i - 1 \in 0 .. Len(q) /\ k + (i - 1) = (k + i) - 1
  BY BytesAre
<1>2. StateAt(b)[(k + i) - 1] = StateAt(q)[i - 1] \/ Plain(StateAt(q)[i - 1])
  BY <1>1, Synchronised
<1> QED BY <1>2 DEF Marked

\* What is shown does not depend on what follows.
LEMMA MarkedPrefix ==
    ASSUME NEW b \in Bytes, NEW c \in Bytes, NEW k \in Nat,
           k <= Len(b), k <= Len(c), \A i \in 1 .. k : c[i] = b[i]
    PROVE  \A i \in 1 .. k : Marked(b, i) <=> Marked(c, i)
<1>1. \A i \in 0 .. k : StateAt(c)[i] = StateAt(b)[i]
  BY PrefixRun
<1>2. \A i \in 1 .. k : i - 1 \in 0 .. k
  OBVIOUS
<1> QED BY <1>1, <1>2 DEF Marked

\* What is held back shows nothing that is looked for.
LEMMA HeldBackUnmarked ==
    ASSUME NEW b \in Bytes
    PROVE  \A i \in SafePrefix(b) + 1 .. Len(b) : ~Marked(b, i)
<1> DEFINE n == Len(b)
<1>1. n \in Nat
  BY BytesAre
<1>2. PICK end \in 0 .. n :
           Ends(b, end) /\ SafePrefix(b) = IF Inside(b, end) THEN end - 1 ELSE end
  BY SafePrefixIs
<1>3. ASSUME NEW i \in SafePrefix(b) + 1 .. n, i <= end PROVE b[i] = "lead"
  <2>1. i = end /\ Inside(b, end)
    BY <1>1, <1>2, <1>3
  <2> QED BY <2>1 DEF Inside
<1>4. ASSUME NEW i \in end + 1 .. n PROVE ~Marked(b, i)
  <2>1. PICK e \in 1 .. n : LastEscape(b, e) /\ ~Complete(b, e) /\ end = e - 1
    BY <1>1, <1>2, <1>4 DEF Ends
  <2>2. b[e] = "esc" /\ \A j \in e + 1 .. n : b[j] # "esc"
    BY <1>1, <2>1 DEF LastEscape
  <2>3. StateAt(b)[e] = "escape"
    <3>1. e - 1 \in Nat /\ e - 1 < n /\ (e - 1) + 1 = e
      BY <1>1
    <3>2. StateAt(b)[e] = After(StateAt(b)[e - 1], "esc")
      BY <3>1, <2>2, RunStep
    <3> QED BY <3>2 DEF After
  <2>4. i >= e
    BY <1>1, <2>1
  <2>5. CASE i = e
    BY <2>2, <2>5 DEF Marked
  <2>6. CASE i > e
    <3>0. e + 1 \in 1 .. n /\ e < n /\ e \in Nat
      BY <2>6, <1>1
    <3>1. CASE i = e + 1
      <4>1. i - 1 = e
        BY <3>1
      <4> QED BY <4>1, <2>3 DEF Marked, Plain
    <3>2. CASE b[e + 1] = "["
      <4>1. \A j \in e + 2 .. n : b[j] \notin Finals
        BY <2>1, <3>0, <3>2 DEF Complete
      <4> QED BY <4>1, <3>1, <2>6, <1>1 DEF Marked, Finals
    <3>3. CASE b[e + 1] = "]"
      <4>1. \A j \in e + 2 .. n : b[j] # "bel"
        BY <2>1, <3>0, <3>3 DEF Complete
      <4> DEFINE T == {j \in 0 .. n : j >= e + 1 => StateAt(b)[j] = "osc"}
      <4>2. StateAt(b)[e + 1] = "osc"
        <5>1. StateAt(b)[e + 1] = After(StateAt(b)[e], b[e + 1])
          <6>1. e \in Nat /\ e < Len(b)
            BY <3>0
          <6> QED BY <6>1, RunStep
        <5> QED BY <5>1, <2>3, <3>3 DEF After, Opens, Ignored
      <4>3. 0 \in T
        BY <1>1, <3>0
      <4>4. ASSUME NEW j \in 0 .. n - 1, j \in T PROVE j + 1 \in T
        <5>1. CASE j + 1 < e + 1
          BY <5>1, <1>1, <3>0
        <5>2. CASE j + 1 = e + 1
          BY <5>2, <4>2, <1>1
        <5>3. CASE j + 1 > e + 1
          <6>1. StateAt(b)[j] = "osc" /\ j + 1 \in e + 2 .. n /\ j + 1 \in e + 1 .. n
            BY <5>3, <4>4, <3>0, <1>1
          <6>2. StateAt(b)[j + 1] = After(StateAt(b)[j], b[j + 1])
            <7>1. j \in Nat /\ j < Len(b)
              BY <1>1
            <7> QED BY <7>1, RunStep
          <6>3. b[j + 1] # "esc" /\ b[j + 1] # "bel"
            BY <6>1, <4>1, <2>2
          <6>4. StateAt(b)[j + 1] = "osc"
            BY <6>1, <6>2, <6>3 DEF After
          <6> QED BY <6>4, <1>1
        <5> QED BY <5>1, <5>2, <5>3, <3>0, <1>1
      <4>5. 0 .. n \subseteq T
        <5> HIDE DEF T
        <5> QED BY <1>1, <4>3, <4>4, RangeInduction
      <4>6. i > e + 1 => StateAt(b)[i - 1] = "osc"
        <5>1. i > e + 1 => i - 1 \in 0 .. n /\ i - 1 >= e + 1
          BY <1>1, <3>0
        <5> QED BY <4>5, <5>1
      <4>7. i = e + 1 \/ i > e + 1
        BY <2>6, <1>1
      <4> QED BY <4>6, <4>7, <3>1 DEF Marked, Plain
    <3>4. CASE b[e + 1] = "O"
      <4>1. n = e + 1
        BY <2>1, <3>0, <3>4, <1>1 DEF Complete
      <4>2. i = e + 1
        BY <4>1, <2>6, <1>1
      <4> QED BY <3>1, <4>2
    <3>5. b[e + 1] \in {"[", "]", "O"}
      BY <2>1, <3>0 DEF Complete
    <3> QED BY <3>2, <3>3, <3>4, <3>5
  <2> QED BY <2>4, <2>5, <2>6, <1>1
<1> SUFFICES ASSUME NEW i \in SafePrefix(b) + 1 .. n PROVE ~Marked(b, i)
  OBVIOUS
<1>5. CASE i <= end
  BY <1>3, <1>5 DEF Marked
<1>6. CASE i > end
  <2>1. i \in end + 1 .. n
    BY <1>1, <1>2, <1>6, SafePrefixBound
  <2> QED BY <2>1, <1>4
<1> QED BY <1>1, <1>2, <1>5, <1>6, SafePrefixBound

-----------------------------------------------------------------------------
(***************************************************************************)
(* Slices of a log.                                                        *)
(***************************************************************************)

\* The bytes between two offsets.
LEMMA PartOf ==
    ASSUME NEW b \in Bytes, NEW m \in Nat, NEW n \in Nat, m <= n, n <= Len(b)
    PROVE  /\ SubSeq(b, m + 1, n) \in Bytes /\ Len(SubSeq(b, m + 1, n)) = n - m
           /\ \A i \in 1 .. n - m : SubSeq(b, m + 1, n)[i] = b[m + i]
<1>1. \A i \in m + 1 .. n : b[i] \in Byte
  BY BytesAre
<1>2. /\ SubSeq(b, m + 1, n) \in Seq(Byte)
      /\ Len(SubSeq(b, m + 1, n)) = (IF m + 1 <= n THEN n - (m + 1) + 1 ELSE 0)
      /\ \A i \in 1 .. n - (m + 1) + 1 : SubSeq(b, m + 1, n)[i] = b[(m + 1) + i - 1]
  BY <1>1, SubSeqProperties
<1> DEFINE s == SubSeq(b, m + 1, n)
<1> HIDE DEF s
<1>3. n - (m + 1) + 1 = n - m /\ \A i \in 1 .. n - m : (m + 1) + i - 1 = m + i
  OBVIOUS
<1> QED BY <1>2, <1>3 DEF Bytes

\* A reader at off that read b from a has not seen what it looks for, and does
\* not see it in the slice up to w: then it is not there.
LEMMA NotMissed ==
    ASSUME NEW b \in Bytes, NEW a \in Nat, NEW o \in Nat, NEW w \in Nat,
           a <= o, o <= w, w <= Len(b),
           ~Matches(Visible(SubSeq(b, a + 1, o))),
           LET unread == SubSeq(b, o + 1, w) IN
               ~Matches(Visible(SubSeq(unread, 1, SafePrefix(unread))))
    PROVE  ~Matches(Visible(SubSeq(b, a + 1, w)))
<1> DEFINE c == SubSeq(b, a + 1, o)
           q == SubSeq(b, o + 1, w)
           d == SubSeq(b, a + 1, w)
           p == SubSeq(q, 1, SafePrefix(q))
           k == o - a
<1>1. c \in Bytes /\ Len(c) = k /\ \A i \in 1 .. k : c[i] = b[a + i]
  BY PartOf, BytesAre
<1>2. q \in Bytes /\ Len(q) = w - o /\ \A i \in 1 .. w - o : q[i] = b[o + i]
  BY PartOf, BytesAre
<1>3. d \in Bytes /\ Len(d) = w - a /\ \A i \in 1 .. w - a : d[i] = b[a + i]
  <2>1. a <= w
    OBVIOUS
  <2> QED BY <2>1, PartOf, BytesAre
<1>4. ~Matches(Visible(c)) /\ ~Matches(Visible(p))
  OBVIOUS
<1> HIDE DEF c, q, d
<1>5. SafePrefix(q) \in 0 .. Len(q)
  BY <1>2, SafePrefixBound
<1>6. p \in Bytes /\ Len(p) = SafePrefix(q) /\ \A i \in 1 .. SafePrefix(q) : p[i] = q[i]
  BY <1>2, <1>5, EndsInsideCharIs
<1> HIDE DEF p
<1>7. k \in Nat /\ Len(d) = k + Len(q) /\ k <= Len(d) /\ Len(q) \in Nat
  BY <1>2, <1>3
<1>8. \A i \in 1 .. k : d[i] = c[i]
  BY <1>1, <1>3
<1>9. \A i \in 1 .. Len(q) : q[i] = d[k + i]
  <2>1. \A i \in 1 .. Len(q) : k + i \in 1 .. w - a /\ a + (k + i) = o + i
    BY <1>2
  <2> QED BY <1>2, <1>3, <2>1
<1> HIDE DEF k
<1>10. \A i \in 1 .. k : ~Marked(d, i)
  <2>1. \A i \in 1 .. k : ~Marked(c, i)
    BY <1>1, <1>4, MatchesIs
  <2>2. \A i \in 1 .. k : Marked(c, i) <=> Marked(d, i)
    <3>1. k \in Nat /\ k <= Len(c) /\ k <= Len(d) /\ \A i \in 1 .. k : d[i] = c[i]
      BY <1>1, <1>7, <1>8
    <3> QED BY <1>1, <1>3, <3>1, MarkedPrefix
  <2> QED BY <2>1, <2>2
<1>11. \A i \in 1 .. Len(q) : ~Marked(q, i)
  <2>1. \A i \in 1 .. SafePrefix(q) : ~Marked(p, i)
    BY <1>4, <1>6, MatchesIs
  <2>2. \A i \in 1 .. SafePrefix(q) : Marked(q, i) <=> Marked(p, i)
    <3> DEFINE m == SafePrefix(q)
    <3>1. m \in Nat /\ m <= Len(q) /\ m <= Len(p) /\ \A i \in 1 .. m : p[i] = q[i]
      BY <1>5, <1>6
    <3> HIDE DEF m
    <3>2. \A i \in 1 .. m : Marked(q, i) <=> Marked(p, i)
      BY <1>2, <1>6, <3>1, MarkedPrefix
    <3> QED BY <3>2 DEF m
  <2>3. \A i \in SafePrefix(q) + 1 .. Len(q) : ~Marked(q, i)
    BY <1>2, HeldBackUnmarked
  <2>4. \A i \in 1 .. Len(q) : i \in 1 .. SafePrefix(q) \/ i \in SafePrefix(q) + 1 .. Len(q)
    BY <1>5, <1>7
  <2> QED BY <2>1, <2>2, <2>3, <2>4
<1>12. \A i \in 1 .. Len(q) : ~Marked(d, k + i)
  BY <1>2, <1>3, <1>7, <1>9, <1>11, MarkedAgain
<1>13. ASSUME NEW i \in 1 .. Len(d) PROVE ~Marked(d, i)
  <2>1. CASE i <= k
    BY <2>1, <1>7, <1>10
  <2>2. CASE i > k
    <3>1. i - k \in 1 .. Len(q) /\ k + (i - k) = i
      BY <2>2, <1>7
    <3> QED BY <3>1, <1>12
  <2> QED BY <2>1, <2>2, <1>7
<1>14. ~Matches(Visible(d))
  BY <1>3, <1>13, MatchesIs
<1> QED BY <1>14 DEF d

\* Nothing that is looked for is in a part of a log where none is.
LEMMA NotMissedBefore ==
    ASSUME NEW b \in Bytes, NEW a \in Nat, NEW o \in Nat, NEW w \in Nat,
           o <= w, w <= Len(b), ~Matches(Visible(SubSeq(b, a + 1, w)))
    PROVE  ~Matches(Visible(SubSeq(b, a + 1, o)))
<1>1. CASE o < a
  <2>1. SubSeq(b, a + 1, o) = <<>>
    BY <1>1, SubSeqEmpty
  <2>2. "mark" \notin ToSet(<<>>)
    BY DEF ToSet
  <2> QED BY <2>1, <2>2, VisibleEmpty DEF Matches
<1>2. CASE a <= o
  <2> DEFINE c == SubSeq(b, a + 1, o)
             d == SubSeq(b, a + 1, w)
             k == o - a
  <2>1. c \in Bytes /\ Len(c) = k /\ \A i \in 1 .. k : c[i] = b[a + i]
    BY <1>2, PartOf, BytesAre
  <2>2. d \in Bytes /\ Len(d) = w - a /\ \A i \in 1 .. w - a : d[i] = b[a + i]
    <3>1. a <= w
      BY <1>2
    <3> QED BY <3>1, PartOf, BytesAre
  <2>3. ~Matches(Visible(d))
    OBVIOUS
  <2> HIDE DEF c, d
  <2>4. k \in Nat /\ k <= Len(d) /\ \A i \in 1 .. k : d[i] = c[i] /\ i \in 1 .. Len(d)
    BY <1>2, <2>1, <2>2
  <2> HIDE DEF k
  <2>5. \A i \in 1 .. k : ~Marked(d, i)
    BY <2>2, <2>3, <2>4, MatchesIs
  <2>6. \A i \in 1 .. k : Marked(c, i) <=> Marked(d, i)
    <3>1. k <= Len(c) /\ \A i \in 1 .. k : d[i] = c[i]
      BY <2>1, <2>4
    <3> QED BY <2>1, <2>2, <2>4, <3>1, MarkedPrefix
  <2>7. ~Matches(Visible(c))
    BY <2>1, <2>5, <2>6, MatchesIs
  <2> QED BY <2>7 DEF c
<1> QED BY <1>1, <1>2

\* What is held back of a log is held back of the beginning of that log.
LEMMA HeldBackBefore ==
    ASSUME NEW b \in Bytes, NEW c \in Bytes, Len(c) <= Len(b),
           \A i \in 1 .. Len(c) : c[i] = b[i], SafePrefix(b) = 0
    PROVE  SafePrefix(c) = 0
<1> DEFINE n == Len(c)
<1>1. n \in Nat /\ Len(b) \in Nat
  BY BytesAre
<1>2. PICK end \in 0 .. Len(b) :
           Ends(b, end) /\ SafePrefix(b) = IF Inside(b, end) THEN end - 1 ELSE end
  BY SafePrefixIs
<1>3. PICK last \in 0 .. n :
           Ends(c, last) /\ SafePrefix(c) = IF Inside(c, last) THEN last - 1 ELSE last
  BY SafePrefixIs
<1>4. end = 0 \/ (end = 1 /\ b[1] = "lead")
  BY <1>2 DEF Inside
<1>5. ASSUME n >= 1, b[1] = "lead" PROVE Inside(c, 1)
  <2>1. c[1] = "lead"
    BY <1>1, <1>5
  <2>2. GoodChar(c, 1)
    BY <2>1 DEF GoodChar
  <2> QED BY <2>1, <2>2 DEF Inside
<1>6. ASSUME NEW e \in 1 .. Len(b), LastEscape(b, e), Complete(b, e), end = Len(b)
      PROVE FALSE
  BY <1>1, <1>4, <1>6 DEF Complete
<1>7. ASSUME NEW f \in 1 .. n, LastEscape(c, f)
      PROVE f = end + 1 /\ LastEscape(b, f) /\ ~Complete(b, f)
  <2>1. b[f] = "esc" /\ f \in 1 .. Len(b)
    BY <1>1, <1>7 DEF LastEscape
  <2>2. PICK e \in 1 .. Len(b) : LastEscape(b, e) /\ ~Complete(b, e) /\ end = e - 1
    BY <1>2, <1>6, <2>1 DEF Ends, NoEscape
  <2>3. f <= e
    BY <2>1, <2>2 DEF LastEscape
  <2>4. f = e
    BY <1>1, <1>4, <2>1, <2>2, <2>3
  <2> QED BY <1>1, <2>2, <2>4
<1>8. CASE NoEscape(c) /\ last = n
  <2>1. CASE NoEscape(b) /\ end = Len(b)
    BY <1>1, <1>3, <1>4, <1>5, <1>8, <2>1 DEF Inside
  <2>2. CASE \E e \in 1 .. Len(b) : LastEscape(b, e) /\ ~Complete(b, e) /\ end = e - 1
    <3>1. PICK e \in 1 .. Len(b) : LastEscape(b, e) /\ end = e - 1
      BY <2>2
    <3>2. n < e
      <4>1. CASE e <= n
        <5>1. e \in 1 .. n /\ c[e] = "esc"
          BY <4>1, <3>1, <1>1 DEF LastEscape
        <5> QED BY <5>1, <1>8 DEF NoEscape
      <4> QED BY <4>1, <1>1
    <3>3. n = 0 \/ (n = 1 /\ b[1] = "lead")
      <4>1. e \in Nat /\ n \in Nat /\ e = end + 1
        BY <1>1, <1>2, <3>1
      <4> HIDE DEF n
      <4>2. CASE end = 0
        BY <4>1, <4>2, <3>2
      <4>3. CASE end = 1 /\ b[1] = "lead"
        BY <4>1, <4>3, <3>2
      <4> QED BY <1>4, <4>2, <4>3
    <3> QED BY <1>3, <1>5, <1>8, <3>3 DEF Inside
  <2> QED BY <1>2, <1>6, <2>1, <2>2 DEF Ends
<1>9. ASSUME NEW f \in 1 .. n, LastEscape(c, f), Complete(c, f) PROVE FALSE
  <2>1. ~Complete(b, f)
    BY <1>7, <1>9
  <2>2. f < n /\ f + 1 \in 1 .. n
    BY <1>1, <1>9 DEF Complete
  <2>3. c[f + 1] = b[f + 1] /\ \A i \in f + 2 .. n : c[i] = b[i] /\ i \in f + 2 .. Len(b)
    BY <1>1, <2>2
  <2>4. Complete(b, f)
    BY <1>1, <1>9, <2>2, <2>3 DEF Complete
  <2> QED BY <2>1, <2>4
<1>10. CASE \E f \in 1 .. n : LastEscape(c, f) /\ ~Complete(c, f) /\ last = f - 1
  <2>1. PICK f \in 1 .. n : LastEscape(c, f) /\ last = f - 1
    BY <1>10
  <2>2. last = end
    BY <1>7, <1>2, <2>1
  <2>3. last = 1 => Inside(c, 1)
    BY <1>1, <1>4, <1>5, <2>1, <2>2
  <2> QED BY <1>3, <1>4, <2>2, <2>3 DEF Inside
<1> QED BY <1>3, <1>8, <1>9, <1>10 DEF Ends

\* A character is open only behind its first byte.
LEMMA CharOpen ==
    ASSUME NEW b \in Bytes, NEW i \in Nat, i <= Len(b), StateAt(b)[i] = "char"
    PROVE  i > 0 /\ b[i] = "lead"
<1>1. i > 0
  BY RunBegins
<1>2. i - 1 \in Nat /\ i - 1 < Len(b) /\ (i - 1) + 1 = i
  BY <1>1, BytesAre
<1>3. StateAt(b)[i] = After(StateAt(b)[i - 1], b[i])
  BY <1>2, RunStep
<1>4. StateAt(b)[i - 1] \in States
  <2>1. i - 1 <= Len(b)
    BY <1>2, BytesAre
  <2> QED BY <1>2, <2>1, RunTypes
<1>5. b[i] = "lead"
  BY <1>3, <1>4 DEF After, Opens, Ignored, States
<1> QED BY <1>1, <1>5

\* Without another escape, one that has begun goes on or has ended.
LEMMA NoOtherEscape ==
    ASSUME NEW b \in Bytes, NEW f \in Nat, NEW s \in {"ground", "csi", "osc"},
           \A i \in f + 1 .. Len(b) : b[i] # "esc",
           Plain(StateAt(b)[f]) \/ StateAt(b)[f] = s
    PROVE  \A i \in f .. Len(b) : Plain(StateAt(b)[i]) \/ StateAt(b)[i] = s
<1> DEFINE n == Len(b)
           Good(i) == Plain(StateAt(b)[i]) \/ StateAt(b)[i] = s
           T == {i \in 0 .. n : i >= f => Good(i)}
<1>1. n \in Nat
  BY BytesAre
<1>2. 0 \in T
  BY <1>1
<1>3. ASSUME NEW i \in 0 .. n - 1, i \in T PROVE i + 1 \in T
  <2>1. CASE i + 1 < f
    BY <2>1, <1>1
  <2>2. CASE i + 1 = f
    BY <2>2, <1>1
  <2>3. CASE i + 1 > f
    <3>1. Good(i) /\ i + 1 \in f + 1 .. n /\ i \in Nat /\ i < n
      BY <1>1, <1>3, <2>3
    <3>2. StateAt(b)[i + 1] = After(StateAt(b)[i], b[i + 1])
      BY <3>1, RunStep
    <3>3. b[i + 1] # "esc"
      BY <3>1
    <3>4. Good(i + 1)
      BY <3>1, <3>2, <3>3 DEF After, Plain
    <3> HIDE DEF Good
    <3> QED BY <1>1, <3>4
  <2> QED BY <1>1, <2>1, <2>2, <2>3
<1>4. 0 .. n \subseteq T
  <2> HIDE DEF T
  <2> QED BY <1>1, <1>2, <1>3, RangeInduction
<1>5. \A i \in f .. n : i \in 0 .. n /\ i >= f
  BY <1>1
<1> QED BY <1>4, <1>5

\* Behind a complete last escape bytes are plain again.
LEMMA EscapeEnds ==
    ASSUME NEW b \in Bytes, WellFormed(b), NEW e \in 1 .. Len(b),
           LastEscape(b, e), Complete(b, e)
    PROVE  \E f \in e + 1 .. Len(b) :
              Plain(StateAt(b)[f]) /\ (b[Len(b)] = "lead" => f < Len(b))
<1> DEFINE n == Len(b)
           x == b[e + 1]
<1>1. n \in Nat /\ e \in Nat /\ e < n /\ DOMAIN b = 1 .. n
  BY BytesAre DEF Complete
<1>2. \A i \in e + 1 .. n : b[i] # "esc"
  BY <1>1 DEF LastEscape
<1>3. x \in {"[", "]", "O", "\\", "text", "mark", "digit"}
  <2>1. e + 1 \in 1 .. n /\ e + 1 > 1 /\ (e + 1) - 1 = e /\ e + 1 \in e + 1 .. n
    BY <1>1
  <2> QED BY <1>1, <1>2, <2>1 DEF WellFormed, LastEscape
<1>4. StateAt(b)[e] = "escape"
  <2>1. e - 1 \in Nat /\ e - 1 < n /\ (e - 1) + 1 = e
    BY <1>1
  <2>2. StateAt(b)[e] = After(StateAt(b)[e - 1], b[e])
    BY <2>1, RunStep
  <2> QED BY <2>2 DEF After, LastEscape
<1>5. StateAt(b)[e + 1] = Opens(x)
  <2>1. StateAt(b)[e + 1] = After(StateAt(b)[e], b[e + 1])
    BY <1>1, RunStep
  <2>2. x # "esc"
    BY <1>3
  <2> QED BY <1>4, <2>1, <2>2 DEF After
<1>6. CASE x \notin {"[", "]"}
  <2>1. Plain(StateAt(b)[e + 1])
    BY <1>3, <1>5, <1>6 DEF Opens, Ignored, Plain
  <2>2. b[n] = "lead" => e + 1 # n
    BY <1>3
  <2>3. e + 1 \in e + 1 .. n /\ (e + 1 # n => e + 1 < n)
    <3> HIDE DEF n
    <3> QED BY <1>1
  <2> HIDE DEF x
  <2> QED BY <2>1, <2>2, <2>3
<1>7. ASSUME NEW s \in {"csi", "osc"}, StateAt(b)[e + 1] = s,
             NEW i \in e + 2 .. n, b[i] # "lead", After(s, b[i]) = "ground"
      PROVE  Plain(StateAt(b)[i]) /\ i \in e + 1 .. n /\ (b[n] = "lead" => i < n)
  <2>1. e + 1 \in Nat /\ \A j \in (e + 1) + 1 .. n : j \in e + 1 .. n
    BY <1>1
  <2>2. \A j \in e + 1 .. n : Plain(StateAt(b)[j]) \/ StateAt(b)[j] = s
    BY <1>2, <1>7, <2>1, NoOtherEscape
  <2>3. i - 1 \in e + 1 .. n /\ i - 1 \in Nat /\ i - 1 < n /\ (i - 1) + 1 = i /\ i \in e + 1 .. n
    BY <1>1
  <2>4. StateAt(b)[i] = After(StateAt(b)[i - 1], b[i])
    BY <2>3, RunStep
  <2>5. b[i] # "esc"
    BY <1>2, <2>3
  <2>6. Plain(StateAt(b)[i])
    <3>1. CASE StateAt(b)[i - 1] = s
      BY <1>7, <2>4, <3>1 DEF Plain
    <3>2. CASE Plain(StateAt(b)[i - 1])
      BY <2>4, <2>5, <3>2 DEF After, Plain
    <3> QED BY <2>2, <2>3, <3>1, <3>2
  <2>7. b[n] = "lead" => i < n
    BY <1>1, <1>7
  <2> QED BY <2>3, <2>6, <2>7
<1>8. CASE x = "["
  <2>1. PICK i \in e + 2 .. n : b[i] \in Finals
    BY <1>8 DEF Complete
  <2>2. b[i] # "lead" /\ After("csi", b[i]) = "ground"
    BY <2>1 DEF Finals, After
  <2>3. StateAt(b)[e + 1] = "csi"
    BY <1>5, <1>8 DEF Opens, Ignored
  <2> QED BY <1>7, <2>2, <2>3
<1>9. CASE x = "]"
  <2>1. PICK i \in e + 2 .. n : b[i] = "bel"
    BY <1>9 DEF Complete
  <2>2. b[i] # "lead" /\ After("osc", b[i]) = "ground"
    BY <2>1 DEF After
  <2>3. StateAt(b)[e + 1] = "osc"
    BY <1>5, <1>9 DEF Opens, Ignored
  <2> QED BY <1>7, <2>2, <2>3
<1> QED BY <1>6, <1>8, <1>9

\* A slice ends where a log may be parted.
LEMMA SliceEnd ==
    ASSUME NEW b \in Bytes, WellFormed(b)
    PROVE  LET m == SafePrefix(b) IN
           /\ m > 0 => b[m] # "lead"
           /\ \/ StateAt(b)[m] = "ground"
              \/ StateAt(b)[m] # "char" /\ m < Len(b) /\ b[m + 1] = "esc"
<1> DEFINE n == Len(b)
           m == SafePrefix(b)
<1>1. n \in Nat /\ DOMAIN b = 1 .. n
  BY BytesAre
<1>2. PICK end \in 0 .. n :
           Ends(b, end) /\ m = IF Inside(b, end) THEN end - 1 ELSE end
  BY SafePrefixIs
<1> HIDE DEF m
<1>3. \A i \in 1 .. n : GoodChar(b, i)
  BY <1>1 DEF WellFormed, GoodChar
<1>4. \A i \in 1 .. n : i > 1 /\ b[i] # "cont" => b[i - 1] # "lead"
  BY <1>3 DEF GoodChar
<1>5. Inside(b, end) <=> end > 0 /\ b[end] = "lead"
  BY <1>1, <1>2, <1>3 DEF Inside
<1>6. ASSUME end = n, NEW f \in 0 .. n, Plain(StateAt(b)[f]),
             n > 0 /\ b[n] = "lead" => f < n, \A i \in f + 1 .. n : b[i] # "esc"
      PROVE  (m > 0 => b[m] # "lead") /\ StateAt(b)[m] = "ground"
  <2>1. \A i \in f .. n : Plain(StateAt(b)[i])
    BY <1>1, <1>6, NoOtherEscape DEF Plain
  <2>2. m \in f .. n /\ m \in Nat /\ m <= n
    <3>1. CASE Inside(b, end)
      <4>1. m = n - 1 /\ n > 0 /\ f < n
        BY <1>2, <1>5, <1>6, <3>1
      <4> QED BY <1>1, <1>6, <4>1
    <3>2. CASE ~Inside(b, end)
      <4>1. m = n
        BY <1>2, <1>6, <3>2
      <4> QED BY <1>1, <1>6, <4>1
    <3> QED BY <3>1, <3>2
  <2>3. m > 0 => b[m] # "lead"
    <3>1. CASE Inside(b, n)
      <4>1. m = n - 1 /\ n > 0 /\ b[n] = "lead"
        BY <1>2, <1>5, <1>6, <3>1
      <4> QED BY <1>1, <1>4, <4>1
    <3>2. CASE ~Inside(b, n)
      BY <1>2, <1>5, <1>6, <3>2
    <3> QED BY <3>1, <3>2
  <2>4. StateAt(b)[m] # "char"
    BY <2>2, <2>3, CharOpen
  <2> QED BY <2>1, <2>2, <2>3, <2>4 DEF Plain
<1>7. CASE NoEscape(b) /\ end = n
  <2>1. Plain(StateAt(b)[0]) /\ 0 \in 0 .. n
    BY <1>1, RunBegins DEF Plain
  <2>2. \A i \in 0 + 1 .. n : b[i] # "esc"
    BY <1>7 DEF NoEscape
  <2> QED BY <1>1, <1>6, <1>7, <2>1, <2>2 DEF m
<1>8. ASSUME NEW e \in 1 .. n, LastEscape(b, e), Complete(b, e), end = n
      PROVE  (m > 0 => b[m] # "lead") /\ StateAt(b)[m] = "ground"
  <2>1. PICK f \in e + 1 .. n : Plain(StateAt(b)[f]) /\ (b[n] = "lead" => f < n)
    BY <1>8, EscapeEnds
  <2>2. f \in 0 .. n /\ \A i \in f + 1 .. n : b[i] # "esc"
    BY <1>1, <1>8 DEF LastEscape
  <2> QED BY <1>6, <1>8, <2>1, <2>2
<1>9. ASSUME NEW e \in 1 .. n, LastEscape(b, e), end = e - 1
      PROVE  /\ m > 0 => b[m] # "lead"
             /\ StateAt(b)[m] # "char" /\ m < n /\ b[m + 1] = "esc"
  <2>1. b[e] = "esc"
    BY <1>9 DEF LastEscape
  <2>2. e > 1 => b[e - 1] # "lead"
    BY <1>4, <2>1
  <2>3. m = e - 1
    BY <1>1, <1>2, <1>5, <1>9, <2>2
  <2>4. m > 0 => b[m] # "lead"
    BY <1>1, <2>2, <2>3
  <2>5. m \in Nat /\ m < n /\ b[m + 1] = "esc"
    BY <1>1, <2>1, <2>3
  <2>6. StateAt(b)[m] # "char"
    BY <1>1, <2>4, <2>5, CharOpen
  <2> QED BY <2>4, <2>5, <2>6
<1> QED BY <1>2, <1>7, <1>8, <1>9 DEF Ends, m

\* Where a reader that began at a may stand.
Boundary(b, a, o) ==
    /\ o > 0 => b[o] # "lead"
    /\ \/ StateAt(SubSeq(b, a + 1, o))[o - a] = "ground"
       \/ /\ StateAt(SubSeq(b, a + 1, o))[o - a] # "char"
          /\ o < Len(b) /\ b[o + 1] = "esc"

\* A reader may begin behind a whole character.
LEMMA BoundaryFirst ==
    ASSUME NEW b \in Bytes, NEW a \in Nat, a <= Len(b), a > 0 => b[a] # "lead"
    PROVE  Boundary(b, a, a)
<1>1. SubSeq(b, a + 1, a) = <<>> /\ <<>> \in Bytes /\ a - a = 0
  BY SubSeqEmpty DEF Bytes
<1>2. StateAt(<<>>)[0] = "ground"
  BY <1>1, RunBegins
<1> QED BY <1>1, <1>2 DEF Boundary

\* Together with what was shown before, a slice shows what one read shows, and
\* the reader stands where it may again.
LEMMA SliceNext ==
    ASSUME NEW b \in Bytes, WellFormed(b), NEW a \in Nat, NEW o \in Nat, NEW w \in Nat,
           a <= o, o <= w, w <= Len(b), Boundary(b, a, o)
    PROVE  LET unread == SubSeq(b, o + 1, w)
               safe == SafePrefix(unread)
           IN  /\ Visible(SubSeq(b, a + 1, o)) \o Visible(SubSeq(unread, 1, safe)) =
                      Visible(SubSeq(b, a + 1, o + safe))
               /\ Boundary(b, a, o + safe)
<1> DEFINE q == SubSeq(b, o + 1, w)
           m == SafePrefix(q)
           c == SubSeq(b, a + 1, o)
           p == SubSeq(q, 1, m)
           d == SubSeq(b, a + 1, o + m)
           k == o - a
<1>1. c \in Bytes /\ Len(c) = k /\ \A i \in 1 .. k : c[i] = b[a + i]
  BY PartOf, BytesAre
<1>2. q \in Bytes /\ Len(q) = w - o /\ \A i \in 1 .. w - o : q[i] = b[o + i]
  BY PartOf, BytesAre
<1>3. /\ o > 0 => b[o] # "lead"
      /\ \/ StateAt(c)[k] = "ground"
         \/ StateAt(c)[k] # "char" /\ o < Len(b) /\ b[o + 1] = "esc"
  BY DEF Boundary
<1> HIDE DEF c, q
<1>4. m \in Nat /\ m <= w - o
  BY <1>2, SafePrefixBound
<1>5. p \in Bytes /\ Len(p) = m /\ \A i \in 1 .. m : p[i] = q[i]
  <2>1. m \in 0 .. Len(q)
    BY <1>2, SafePrefixBound
  <2> HIDE DEF m
  <2> QED BY <1>2, <2>1, EndsInsideCharIs
<1> HIDE DEF m, p
<1>6. d \in Bytes /\ Len(d) = k + m /\ \A i \in 1 .. k + m : d[i] = b[a + i]
  <2> DEFINE x == o + m
  <2>1. x \in Nat /\ a <= x /\ x <= Len(b) /\ x - a = k + m
    BY <1>4, BytesAre
  <2> HIDE DEF x, k
  <2>2. SubSeq(b, a + 1, x) \in Bytes /\ Len(SubSeq(b, a + 1, x)) = x - a
        /\ \A i \in 1 .. x - a : SubSeq(b, a + 1, x)[i] = b[a + i]
    BY <2>1, PartOf
  <2> QED BY <2>1, <2>2 DEF x
<1> HIDE DEF d
<1>7. \A i \in 1 .. m : p[i] = b[o + i]
  BY <1>2, <1>4, <1>5
<1>8. k \in Nat /\ \A i \in 1 .. k : c[i] = d[i]
  BY <1>1, <1>4, <1>6
<1>9. \A i \in 1 .. m : p[i] = d[k + i]
  <2>1. \A i \in 1 .. m : k + i \in 1 .. k + m /\ a + (k + i) = o + i
    BY <1>4
  <2> QED BY <1>6, <1>7, <2>1
<1> HIDE DEF k
<1>10. Parted(StateAt(c)[k], p)
  <2>1. m > 0 => p[1] = b[o + 1]
    BY <1>4, <1>7
  <2> QED BY <1>3, <1>5, <2>1 DEF Parted
<1>11. Visible(c) \o Visible(p) = Visible(d)
  BY <1>1, <1>5, <1>6, <1>8, <1>9, <1>10, VisibleConcat
<1>12. WellFormed(q)
  <2>1. DOMAIN q = 1 .. w - o /\ DOMAIN b = 1 .. Len(b) /\ Len(b) \in Nat
    BY <1>2, BytesAre
  <2> SUFFICES ASSUME NEW i \in 1 .. w - o
               PROVE /\ q[i] = "cont" <=> i > 1 /\ q[i - 1] = "lead"
                     /\ i > 1 /\ q[i - 1] = "esc" =>
                           q[i] \in {"esc", "[", "]", "O", "\\", "text", "mark", "digit"}
    BY <2>1 DEF WellFormed
  <2>2. o + i \in DOMAIN b /\ q[i] = b[o + i]
    BY <1>2, <2>1
  <2>3. /\ b[o + i] = "cont" <=> o + i > 1 /\ b[(o + i) - 1] = "lead"
        /\ o + i > 1 /\ b[(o + i) - 1] = "esc" =>
              b[o + i] \in {"esc", "[", "]", "O", "\\", "text", "mark", "digit"}
    BY <2>2 DEF WellFormed
  <2>4. CASE i = 1
    <3>1. (o + i) - 1 = o /\ (o + i > 1 <=> o > 0)
      BY <2>4
    <3> QED BY <1>3, <2>2, <2>3, <2>4, <3>1
  <2>5. CASE i > 1
    <3>1. i - 1 \in 1 .. w - o /\ o + (i - 1) = (o + i) - 1 /\ o + i > 1
      BY <2>5
    <3>2. q[i - 1] = b[(o + i) - 1]
      BY <1>2, <3>1
    <3> QED BY <2>2, <2>3, <2>5, <3>1, <3>2
  <2> QED BY <2>4, <2>5
<1>13. /\ m > 0 => q[m] # "lead"
       /\ \/ StateAt(q)[m] = "ground"
          \/ StateAt(q)[m] # "char" /\ m < Len(q) /\ q[m + 1] = "esc"
  BY <1>2, <1>12, SliceEnd DEF m
<1>14. StateAt(p)[m] = StateAt(q)[m]
  <2>1. m <= Len(q) /\ m <= Len(p) /\ m \in 0 .. m
    BY <1>2, <1>4, <1>5
  <2> QED BY <1>2, <1>4, <1>5, <2>1, PrefixRun
<1>15. CASE m = 0
  <2>1. o + m = o
    BY <1>15
  <2> QED BY <1>11, <2>1 DEF c, d, p, m, q
<1>16. CASE m > 0
  <2>1. StateAt(d)[k + m] = StateAt(p)[m]
    <3>1. StateAt(c)[k] = StateAt(d)[k]
      <4>1. k <= Len(c) /\ k <= Len(d) /\ k \in 0 .. k
        BY <1>1, <1>4, <1>6, <1>8
      <4> QED BY <1>1, <1>6, <1>8, <4>1, PrefixRun
    <3>2. Parted(StateAt(d)[k], p)
      BY <1>10, <3>1
    <3>3. Len(d) = k + Len(p) /\ m \in 1 .. Len(p) /\ \A i \in 1 .. Len(p) : p[i] = d[k + i]
      BY <1>4, <1>5, <1>6, <1>9, <1>16
    <3> QED BY <1>5, <1>6, <1>8, <3>2, <3>3, SuffixRun
  <2>2. b[o + m] # "lead"
    BY <1>2, <1>4, <1>13, <1>16
  <2>3. m < Len(q) /\ q[m + 1] = "esc" => o + m < Len(b) /\ b[(o + m) + 1] = "esc"
    <3>1. m < Len(q) => q[m + 1] = b[o + (m + 1)] /\ o + (m + 1) = (o + m) + 1
      BY <1>2, <1>4
    <3> QED BY <1>2, <1>4, <3>1, BytesAre
  <2>4. (o + m) - a = k + m
    BY <1>4 DEF k
  <2>5. Boundary(b, a, o + m)
    BY <1>13, <1>14, <2>1, <2>2, <2>3, <2>4 DEF Boundary, d
  <2> QED BY <1>11, <2>5 DEF c, d, p, m, q
<1> QED BY <1>4, <1>15, <1>16

-----------------------------------------------------------------------------
(***************************************************************************)
(* The capture times of a slice.                                           *)
(***************************************************************************)

Rows == Seq(Nat \X Nat)
Stop(row) == row[1] + row[2]

\* The rows are about the bytes from .. to - 1, in order, each byte once, and
\* none is behind e.
Clipped(s, from, to, e) ==
    /\ s \in Rows
    /\ \A i \in 1 .. Len(s) :
          /\ from <= s[i][1] /\ Stop(s[i]) <= to /\ Stop(s[i]) <= e
          /\ i > 1 => Stop(s[i - 1]) <= s[i][1]

\* What clip_capture_rows makes of one row, when the last one it kept ends at e.
Counts(row, e) == row[2] > 0 /\ row[1] >= e
NewEnd(row, e) == IF Counts(row, e) THEN Stop(row) ELSE e
Piece(row, e, from, to) ==
    LET first == Max({row[1], from})
        size == Min({Stop(row), to}) - first
    IN  IF Counts(row, e) /\ size > 0 THEN <<<<first, size>>>> ELSE <<>>

\* The greater and the smaller of two numbers.
LEMMA OfTwo ==
    ASSUME NEW x \in Int, NEW y \in Int
    PROVE  /\ Max({x, y}) = IF x >= y THEN x ELSE y
           /\ Min({x, y}) = IF x <= y THEN x ELSE y
<1>1. \A z \in {x, y} : (\A v \in {x, y} : z >= v) <=> z = (IF x >= y THEN x ELSE y)
  OBVIOUS
<1>2. \A z \in {x, y} : (\A v \in {x, y} : z <= v) <=> z = (IF x <= y THEN x ELSE y)
  OBVIOUS
<1> QED BY <1>1, <1>2 DEF Max, Min

\* One row leaves the others as they are and ends behind them.
LEMMA ClipOne ==
    ASSUME NEW from \in Nat, NEW to \in Nat, NEW e \in Nat, NEW row \in Nat \X Nat,
           NEW s, Clipped(s, from, to, e)
    PROVE  /\ NewEnd(row, e) \in Nat
           /\ Piece(row, e, from, to) \in Rows
           /\ Clipped(s \o Piece(row, e, from, to), from, to, NewEnd(row, e))
<1> DEFINE first == Max({row[1], from})
           size == Min({Stop(row), to}) - first
           new == NewEnd(row, e)
<1>1. row[1] \in Nat /\ row[2] \in Nat
  OBVIOUS
<1>2. new \in Nat /\ new >= e
  BY <1>1 DEF NewEnd, Counts, Stop
<1>3. /\ first \in Nat /\ first >= row[1] /\ first >= from
      /\ size \in Int /\ first + size <= Stop(row) /\ first + size <= to
  <2>1. first = IF row[1] >= from THEN row[1] ELSE from
    BY <1>1, OfTwo
  <2>2. Stop(row) \in Nat
    BY <1>1 DEF Stop
  <2>3. Min({Stop(row), to}) = IF Stop(row) <= to THEN Stop(row) ELSE to
    <3> DEFINE x == Stop(row)
    <3>1. x \in Int /\ to \in Int
      BY <2>2
    <3> HIDE DEF x
    <3>2. Min({x, to}) = IF x <= to THEN x ELSE to
      BY <3>1, OfTwo
    <3> QED BY <3>2 DEF x
  <2> QED BY <1>1, <2>1, <2>2, <2>3
<1> HIDE DEF first, size, new
<1>4. s \in Rows /\ Len(s) \in Nat
  BY DEF Clipped, Rows
<1>5. CASE Counts(row, e) /\ size > 0
  <2> DEFINE p == <<<<first, size>>>>
             t == s \o p
  <2>1. Piece(row, e, from, to) = p
    BY <1>5 DEF Piece, first, size
  <2>2. p \in Rows /\ Len(p) = 1 /\ p[1] = <<first, size>>
    <3>1. <<first, size>> \in Nat \X Nat
      BY <1>3, <1>5
    <3> QED BY <3>1 DEF Rows
  <2> HIDE DEF p
  <2>3. /\ t \in Rows /\ Len(t) = Len(s) + 1
        /\ \A i \in 1 .. Len(s) + 1 : t[i] = IF i <= Len(s) THEN s[i] ELSE p[i - Len(s)]
    <3>1. /\ t \in Rows /\ Len(t) = Len(s) + Len(p)
          /\ \A i \in 1 .. Len(s) + Len(p) :
                t[i] = IF i <= Len(s) THEN s[i] ELSE p[i - Len(s)]
      BY <1>4, <2>2, ConcatProperties DEF Rows
    <3> HIDE DEF t
    <3> QED BY <2>2, <3>1
  <2> HIDE DEF t
  <2>4. new = Stop(row) /\ first >= e
    BY <1>1, <1>3, <1>5 DEF new, NewEnd, Counts
  <2>5. ASSUME NEW i \in 1 .. Len(s) + 1
        PROVE  /\ from <= t[i][1] /\ Stop(t[i]) <= to /\ Stop(t[i]) <= new
               /\ i > 1 => Stop(t[i - 1]) <= t[i][1]
    <3>1. CASE i <= Len(s)
      <4>1. t[i] = s[i] /\ i \in 1 .. Len(s)
        BY <1>4, <2>3, <3>1
      <4>2. i > 1 => t[i - 1] = s[i - 1]
        BY <1>4, <2>3, <3>1
      <4>3. s[i] \in Nat \X Nat
        BY <1>4, <4>1 DEF Rows
      <4>4. Stop(s[i]) \in Nat
        BY <4>3 DEF Stop
      <4>5. /\ from <= s[i][1] /\ Stop(s[i]) <= to /\ Stop(s[i]) <= e
            /\ i > 1 => Stop(s[i - 1]) <= s[i][1]
        BY <4>1 DEF Clipped
      <4> QED BY <1>2, <4>1, <4>2, <4>4, <4>5
    <3>2. CASE i = Len(s) + 1
      <4>1. t[i] = <<first, size>>
        BY <1>4, <2>2, <2>3, <3>2
      <4>2. Stop(t[i]) = first + size /\ t[i][1] = first
        BY <4>1 DEF Stop
      <4>3. i > 1 => Stop(t[i - 1]) <= e
        <5>1. i > 1 => i - 1 \in 1 .. Len(s) /\ t[i - 1] = s[i - 1]
          BY <1>4, <2>3, <3>2
        <5> QED BY <5>1 DEF Clipped
      <4>4. i > 1 => Stop(t[i - 1]) \in Nat
        <5>1. i > 1 => i - 1 \in 1 .. Len(s) /\ t[i - 1] = s[i - 1]
          BY <1>4, <2>3, <3>2
        <5>2. i > 1 => s[i - 1] \in Nat \X Nat
          BY <1>4, <5>1 DEF Rows
        <5> QED BY <5>1, <5>2 DEF Stop
      <4>5. from <= first /\ first + size <= to /\ first + size <= new
        BY <1>3, <2>4
      <4>6. i > 1 => Stop(t[i - 1]) <= first
        BY <1>3, <2>4, <4>3, <4>4
      <4> QED BY <4>2, <4>5, <4>6
    <3> QED BY <1>4, <3>1, <3>2
  <2>6. Clipped(t, from, to, new)
    BY <2>3, <2>5 DEF Clipped
  <2> QED BY <1>2, <2>1, <2>2, <2>6 DEF t, new
<1>6. CASE ~(Counts(row, e) /\ size > 0)
  <2>1. Piece(row, e, from, to) = <<>>
    BY <1>6 DEF Piece, first, size
  <2>2. <<>> \in Rows /\ s \o <<>> = s
    BY <1>4, ConcatEmptySeq DEF Rows
  <2>3. ASSUME NEW i \in 1 .. Len(s) PROVE Stop(s[i]) <= new
    <3>1. s[i] \in Nat \X Nat
      BY <1>4 DEF Rows
    <3>2. Stop(s[i]) \in Nat /\ Stop(s[i]) <= e
      BY <3>1 DEF Clipped, Stop
    <3> QED BY <1>2, <3>2
  <2>4. Clipped(s, from, to, new)
    BY <2>3 DEF Clipped
  <2> QED BY <1>2, <2>1, <2>2, <2>4 DEF new
<1> QED BY <1>5, <1>6

\* clip_capture_rows gives rows about the bytes it is asked for.
LEMMA ClipRowsIs ==
    ASSUME NEW r \in Rows, NEW from \in Nat, NEW to \in Nat
    PROVE  \E e \in Nat : Clipped(ClipRows(r, from, to), from, to, e)
<1> DEFINE N == Len(r)
           stepE == [p \in Nat \X (1 .. N) |-> NewEnd(r[p[2]], p[1])]
           F(g) == [n \in 0 .. N |-> IF n = 0 THEN 0
                       ELSE IF r[n][2] > 0 /\ r[n][1] >= g[n - 1] THEN r[n][1] + r[n][2]
                            ELSE g[n - 1]]
           End == CHOOSE g : g = F(g)
<1>1. N \in Nat /\ \A n \in 1 .. N : r[n] \in Nat \X Nat
  BY DEF Rows
<1>2. Clipped(<<>>, from, to, 0) /\ <<>> \in Rows
  BY DEF Clipped, Rows
<1>3. \A n \in 1 .. N, e \in Nat : NewEnd(r[n], e) \in Nat
  BY <1>1 DEF NewEnd, Counts, Stop
<1> HIDE DEF N
<1>4. \E g : g = F(g)
  <2>1. PICK g : g \in [0 .. N -> Nat] /\ Follows(g, stepE, 0, N)
    <3>1. stepE \in [Nat \X (1 .. N) -> Nat]
      BY <1>3
    <3> HIDE DEF stepE, F
    <3>2. IsStep(stepE, Nat, N)
      BY <3>1 DEF IsStep
    <3> QED BY <1>1, <3>2, Iteration
  <2>2. \A n \in 1 .. N : stepE[<<g[n - 1], n>>] = NewEnd(r[n], g[n - 1])
    <3>1. ASSUME NEW n \in 1 .. N PROVE <<g[n - 1], n>> \in Nat \X (1 .. N)
      BY <1>1, <2>1
    <3> QED BY <3>1
  <2>3. \A n \in 0 .. N : n # 0 => n \in 1 .. N
    BY <1>1
  <2> HIDE DEF stepE
  <2>4. g = [n \in 0 .. N |-> g[n]]
    BY <2>1
  <2>5. \A n \in 0 .. N : g[n] = IF n = 0 THEN 0
                       ELSE IF r[n][2] > 0 /\ r[n][1] >= g[n - 1] THEN r[n][1] + r[n][2]
                            ELSE g[n - 1]
    BY <2>1, <2>2, <2>3 DEF Follows, NewEnd, Counts, Stop
  <2>6. g = F(g)
    BY <2>4, <2>5
  <2> HIDE DEF F
  <2> QED BY <2>6
<1>5. End = F(End)
  <2> HIDE DEF F
  <2> QED BY <1>4
<1> DEFINE first(row) == Max({row[1], from})
           size(row) == Min({row[1] + row[2], to}) - first(row)
           K(h) == [n \in 0 .. N |-> IF n = 0 THEN <<>>
                       ELSE h[n - 1] \o
                            IF (r[n][2] > 0 /\ r[n][1] >= End[n - 1]) /\ size(r[n]) > 0
                            THEN <<<<first(r[n]), size(r[n])>>>> ELSE <<>>]
           Kept == CHOOSE h : h = K(h)
<1>6. ClipRows(r, from, to) = Kept[N]
  BY DEF ClipRows, N
<1> HIDE DEF End
<1>7. End[0] = 0 /\ \A n \in 1 .. N : End[n] = NewEnd(r[n], End[n - 1])
  <2>1. 0 \in 0 .. N /\ \A n \in 1 .. N : n \in 0 .. N /\ n # 0
    BY <1>1
  <2> QED BY <1>5, <2>1 DEF NewEnd, Counts, Stop
<1> HIDE DEF F
<1>8. \A n \in 0 .. N : End[n] \in Nat
  <2> DEFINE T == {n \in 0 .. N : End[n] \in Nat}
  <2>1. 0 \in T
    BY <1>1, <1>7
  <2>2. ASSUME NEW n \in 0 .. N - 1, n \in T PROVE n + 1 \in T
    <3>1. n + 1 \in 1 .. N /\ (n + 1) - 1 = n
      BY <1>1
    <3>2. End[n + 1] = NewEnd(r[n + 1], End[n])
      BY <1>7, <3>1
    <3>3. End[n + 1] \in Nat
      BY <1>3, <2>2, <3>1, <3>2
    <3> QED BY <1>1, <3>3
  <2>3. 0 .. N \subseteq T
    <3> HIDE DEF T
    <3> QED BY <1>1, <2>1, <2>2, RangeInduction
  <2> QED BY <2>3
<1> DEFINE piece == [n \in 1 .. N |-> Piece(r[n], End[n - 1], from, to)]
           stepK == [p \in Rows \X (1 .. N) |-> p[1] \o piece[p[2]]]
<1>9. \A n \in 1 .. N : piece[n] = Piece(r[n], End[n - 1], from, to) /\ piece[n] \in Rows
  <2>1. ASSUME NEW n \in 1 .. N PROVE Piece(r[n], End[n - 1], from, to) \in Rows
    <3>1. End[n - 1] \in Nat /\ r[n] \in Nat \X Nat
      BY <1>1, <1>8
    <3>2. Clipped(<<>>, from, to, End[n - 1])
      BY DEF Clipped, Rows
    <3> QED BY <3>1, <3>2, ClipOne
  <2> QED BY <2>1
<1>10. \A n \in 1 .. N : piece[n] =
            IF (r[n][2] > 0 /\ r[n][1] >= End[n - 1]) /\ size(r[n]) > 0
            THEN <<<<first(r[n]), size(r[n])>>>> ELSE <<>>
  BY <1>9 DEF Piece, Counts, Stop
<1> HIDE DEF piece
<1>11. \A s, t \in Rows : s \o t \in Rows
  BY ConcatProperties DEF Rows
<1>12. \E h : h = K(h)
  <2>1. PICK h : h \in [0 .. N -> Rows] /\ Follows(h, stepK, <<>>, N)
    <3>1. stepK \in [Rows \X (1 .. N) -> Rows]
      <4>1. ASSUME NEW p \in Rows \X (1 .. N) PROVE p[1] \o piece[p[2]] \in Rows
        BY <1>9, <1>11
      <4> QED BY <4>1
    <3> HIDE DEF stepK, K
    <3>2. IsStep(stepK, Rows, N)
      BY <3>1 DEF IsStep
    <3> QED BY <1>1, <1>2, <3>2, Iteration
  <2>2. \A n \in 1 .. N : stepK[<<h[n - 1], n>>] = h[n - 1] \o piece[n]
    <3>1. ASSUME NEW n \in 1 .. N PROVE <<h[n - 1], n>> \in Rows \X (1 .. N)
      BY <1>1, <2>1
    <3> QED BY <3>1
  <2>3. \A n \in 0 .. N : n # 0 => n \in 1 .. N
    BY <1>1
  <2> HIDE DEF stepK
  <2>4. h = [n \in 0 .. N |-> h[n]]
    BY <2>1
  <2> HIDE DEF first, size
  <2>5. \A n \in 0 .. N : h[n] = IF n = 0 THEN <<>>
                       ELSE h[n - 1] \o
                            IF (r[n][2] > 0 /\ r[n][1] >= End[n - 1]) /\ size(r[n]) > 0
                            THEN <<<<first(r[n]), size(r[n])>>>> ELSE <<>>
    BY <1>10, <2>1, <2>2, <2>3 DEF Follows
  <2>6. h = K(h)
    BY <2>4, <2>5
  <2> HIDE DEF K
  <2> QED BY <2>6
<1>13. Kept = K(Kept)
  <2> HIDE DEF K
  <2> QED BY <1>12
<1> HIDE DEF Kept
<1>14. Kept[0] = <<>> /\ \A n \in 1 .. N : Kept[n] = Kept[n - 1] \o piece[n]
  <2>1. 0 \in 0 .. N /\ \A n \in 1 .. N : n \in 0 .. N /\ n # 0
    BY <1>1
  <2> HIDE DEF first, size
  <2> QED BY <1>10, <1>13, <2>1
<1> HIDE DEF K
<1> DEFINE T == {n \in 0 .. N : Clipped(Kept[n], from, to, End[n])}
<1>15. 0 \in T
  BY <1>1, <1>2, <1>7, <1>14
<1>16. ASSUME NEW n \in 0 .. N - 1, n \in T PROVE n + 1 \in T
  <2>1. n + 1 \in 1 .. N /\ (n + 1) - 1 = n /\ n + 1 \in 0 .. N
    BY <1>1
  <2>2. /\ Kept[n + 1] = Kept[n] \o Piece(r[n + 1], End[n], from, to)
        /\ End[n + 1] = NewEnd(r[n + 1], End[n])
    BY <1>7, <1>9, <1>14, <2>1
  <2>3. End[n] \in Nat /\ r[n + 1] \in Nat \X Nat /\ Clipped(Kept[n], from, to, End[n])
    BY <1>1, <1>8, <1>16, <2>1
  <2>4. Clipped(Kept[n + 1], from, to, End[n + 1])
    BY <2>2, <2>3, ClipOne
  <2> QED BY <2>1, <2>4
<1>17. 0 .. N \subseteq T
  <2> HIDE DEF T
  <2> QED BY <1>1, <1>15, <1>16, RangeInduction
<1>18. N \in 0 .. N
  BY <1>1
<1> QED BY <1>6, <1>8, <1>17, <1>18

-----------------------------------------------------------------------------
(***************************************************************************)
(* The inductive invariant.                                                *)
(***************************************************************************)

Types == TypeOK /\ text \in Texts

\* What the commands know: of a status that is final, and of their own place.
PlaceInv ==
    /\ Finished => due <= written
    /\ place \in {"open", "connect", "offset", "inject"} => text = <<>>
    /\ place = "tail" /\ kind # "log" => Finished
    /\ quiet >= 1 => Finished
    /\ place # "done" => quiet < 2
    /\ kind = "ask" /\ place \in {"poll", "check", "deadline", "tail"} => start <= asked
    /\ rows # <<>> => kind = "log" /\ place \in {"tail", "done"}

\* An expect has seen nothing up to where it is, and nothing up to the end when
\* it says so.
ExpectInv ==
    /\ kind \in {"expect", "ask"} /\ place # "done" =>
          ~Matches(text) /\ ~Matches(Visible(SubSeq(script, start + 1, off)))
    /\ answer.kind = "ended" => Finished
    /\ answer.kind = "ended" /\ files =>
          IF kind = "screen" THEN written = due => ~Matches(Screen)
          ELSE ~Matches(Visible(SubSeq(script, start + 1, due)))

\* A follower that found nothing after the end was recorded has nothing to find.
FollowInv ==
    /\ At({"follow"}, "check") /\ quiet = 1 /\ ~advanced /\ files =>
          SafePrefix(SubSeq(script, off + 1, due)) = 0
    /\ answer.kind = "stopped" => Finished /\ FollowComplete

\* The log can be sliced, and the reader began behind a whole character.
Sliceable == WellFormed(script) /\ (start > 0 => script[start] # "lead")
SliceInv == Sliceable => SliceExact /\ Boundary(script, start, off)

\* The code that wait answers is the recorded one; it calls a worker dead only
\* when it is gone.
WaitInv ==
    /\ answer.kind = "code" => Finished /\ answer.code = ExitCode
    /\ answer.kind = "dead" => owner = "gone"

PollInv ==
    Types /\ PlaceInv /\ ExpectInv /\ FollowInv /\ WaitInv /\ RowsAreTrue /\ SliceInv

\* What the types say of the numbers.
LEMMA Known ==
    ASSUME Types
    PROVE  /\ script \in Bytes /\ Len(script) \in Nat /\ kind \in Commands
           /\ written \in Nat /\ written <= Len(script)
           /\ start \in Nat /\ off \in Nat /\ start <= off /\ off <= written
           /\ due \in Nat /\ due <= Len(script)
           /\ lastSize \in Nat /\ lastSize <= written /\ asked \in Nat /\ asked <= written
           /\ files \in BOOLEAN /\ advanced \in BOOLEAN /\ quiet \in 0 .. 2
           /\ (place = "done" <=> answer # Nothing)
<1>1. kind \in Commands /\ script \in Bytes
  BY PollersAssumption DEF Types, TypeOK, Bytes
<1>2. Len(script) \in Nat
  BY <1>1, BytesAre
<1> QED BY <1>1, <1>2 DEF Types, TypeOK

\* What read_slice does.
LEMMA SliceRead ==
    ASSUME Types, ReadSlice
    PROVE  LET unread == SubSeq(script, off + 1, written)
               safe == SafePrefix(unread)
           IN  /\ ~files => off' = off /\ text' = text
               /\ files => off' = off + safe /\ text' = text \o Visible(SubSeq(unread, 1, safe))
               /\ unread \in Bytes /\ Len(unread) = written - off
               /\ safe \in Nat /\ safe <= written - off
               /\ Visible(SubSeq(unread, 1, safe)) \in Texts
               /\ text' \in Texts /\ off' \in Nat /\ off <= off' /\ off' <= written
<1> DEFINE unread == SubSeq(script, off + 1, written)
           safe == SafePrefix(unread)
           v == Visible(SubSeq(unread, 1, safe))
<1>1. unread \in Bytes /\ Len(unread) = written - off
  BY Known, PartOf
<1> HIDE DEF unread
<1>2. safe \in Nat /\ safe <= written - off /\ safe \in 0 .. Len(unread)
  BY <1>1, Known, SafePrefixBound
<1>3. v \in Texts
  <2> HIDE DEF safe
  <2>1. SubSeq(unread, 1, safe) \in Bytes
    BY <1>1, <1>2, EndsInsideCharIs
  <2> QED BY <2>1, VisibleType
<1>4. text \in Texts
  BY DEF Types
<1>5. CASE ~files
  <2>1. <<>> \in Bytes /\ Len(<<>>) = 0
    BY DEF Bytes
  <2>2. SafePrefix(<<>>) = 0
    BY <2>1, SafePrefixBound
  <2>3. SubSeq(<<>>, 1, 0) = <<>>
    BY SubSeqEmpty
  <2>4. off' = off + 0 /\ text' = text \o <<>>
    BY <1>5, <2>2, <2>3, VisibleEmpty DEF ReadSlice
  <2>5. off' = off /\ text' = text
    BY <1>4, <2>4, Known, TextsConcat
  <2> QED BY <1>1, <1>2, <1>3, <1>4, <1>5, <2>5, Known DEF unread, safe
<1>6. CASE files
  <2>1. off' = off + safe /\ text' = text \o v
    BY <1>6 DEF ReadSlice, unread
  <2>2. text' \in Texts
    BY <1>3, <1>4, <2>1, TextsConcat
  <2> HIDE DEF safe, v
  <2>3. off' \in Nat /\ off <= off' /\ off' <= written
    BY <1>2, <2>1, Known
  <2> QED BY <1>1, <1>2, <1>3, <1>6, <2>1, <2>2, <2>3 DEF unread, safe, v
<1> QED BY <1>5, <1>6, Known

\* The screen is a text.
LEMMA ScreenType ==
    ASSUME Types
    PROVE  Screen \in Texts
<1> DEFINE n == IF Serving \/ files THEN written ELSE 0
           v == Visible(SubSeq(script, 1, n))
<1>1. n \in 0 .. Len(script)
  BY Known
<1>2. v \in Texts
  <2> HIDE DEF n
  <2> QED BY <1>1, Known, EndsInsideCharIs, VisibleType
<1>3. Screen = IF v = <<>> THEN <<>> ELSE <<Last(v)>>
  BY DEF Screen
<1> HIDE DEF v
<1>4. CASE v # <<>>
  <2> DEFINE X == Byte \cup {"char", "bad"}
  <2>1. Len(v) \in 1 .. Len(v) /\ v \in Seq(X)
    BY <1>2, <1>4, EmptySeq DEF Texts
  <2> HIDE DEF X
  <2>2. Last(v) \in X
    BY <2>1 DEF Last
  <2>3. <<Last(v)>> \in Seq(X)
    BY <2>2
  <2> QED BY <1>3, <1>4, <2>3 DEF Texts, X
<1> QED BY <1>3, <1>4, TextsConcat

\* The invariant holds when a command starts.
LEMMA InitInv == Init => PollInv
<1> SUFFICES ASSUME Init PROVE PollInv
  OBVIOUS
<1>1. PICK case \in Cases : kind = case[1] /\ script = case[2]
  BY DEF Init
<1>2. case \in Commands \X Bytes /\ <<kind, script>> = case
  BY <1>1, PollersAssumption DEF Bytes
<1>3. <<kind, script>> \in Cases /\ script \in Bytes /\ Len(script) \in Nat
  BY <1>1, <1>2, BytesAre
<1>4. TypeOK
  <2>1. stamps \in Seq(Nat \X Nat) /\ rows \in Seq(Nat \X Nat)
    <3>1. <<>> \in Seq(Nat \X Nat)
      OBVIOUS
    <3> QED BY <3>1 DEF Init
  <2>2. /\ written \in 0 .. Len(script) /\ due \in 0 .. Len(script)
        /\ start \in 0 .. off /\ off \in 0 .. written
        /\ lastSize \in 0 .. written /\ asked \in 0 .. written /\ quiet \in 0 .. 2
    BY <1>3 DEF Init
  <2>3. status \in [state : {"none", "starting", "running", "exited", "killed"},
                   code : Codes \cup {NoCode}]
    BY DEF Init, Status
  <2>4. /\ owner \in {"alive", "gone"} /\ files \in BOOLEAN /\ advanced \in BOOLEAN
        /\ place \in {"open", "connect", "offset", "inject", "poll", "owner",
                      "check", "tail", "rows", "deadline", "done"}
        /\ place = "done" <=> answer # Nothing
    BY DEF Init
  <2> QED BY <1>3, <2>1, <2>2, <2>3, <2>4 DEF TypeOK
<1>5. Types
  BY <1>4, TextsConcat DEF Init, Types
<1>6. PlaceInv /\ WaitInv /\ RowsAreTrue /\ FollowInv
  BY DEF Init, PlaceInv, WaitInv, RowsAreTrue, FollowInv, Nothing, Finished, Status, At
<1>7. SubSeq(script, start + 1, off) = <<>> /\ text = <<>>
  <2>1. start + 1 = 1 /\ off = 0 /\ text = <<>>
    BY DEF Init
  <2> QED BY <2>1, SubSeqEmpty
<1>8. ExpectInv
  <2>1. ToSet(<<>>) = {}
    BY DEF ToSet
  <2> QED BY <1>7, <2>1, VisibleEmpty DEF Init, ExpectInv, Matches, Nothing
<1>9. SliceInv
  <2>1. SliceExact
    BY <1>7, VisibleEmpty DEF SliceExact
  <2>2. Boundary(script, start, off)
    BY <1>3, BoundaryFirst DEF Init
  <2> QED BY <2>1, <2>2 DEF SliceInv
<1> QED BY <1>5, <1>6, <1>8, <1>9 DEF PollInv

\* Every step keeps the types.
LEMMA TypesStep ==
    ASSUME Types, PlaceInv, [Next]_vars
    PROVE  Types'
<1> USE DEF NoCode
<1>0. TypeOK /\ text \in Texts
  BY DEF Types
<1>1. CASE Advance
  BY <1>0, <1>1 DEF Advance, Types, TypeOK, reader, taken, ticks, Status, Nothing
<1>2. CASE Write
  <2>1. PICK n \in written + 1 .. Len(script) :
          /\ written' = n
          /\ stamps' = IF kind = "log" /\ files
                       THEN Append(stamps, <<written, n - written>>) ELSE stamps
    BY <1>2 DEF Write
  <2>2. n \in Nat /\ written < n /\ n <= Len(script) /\ n - written \in Nat
    BY <2>1, Known
  <2>3. stamps \in Seq(Nat \X Nat)
    BY <1>0 DEF TypeOK
  <2>4. stamps' \in Seq(Nat \X Nat)
    <3>1. <<written, n - written>> \in Nat \X Nat
      BY <2>2, Known
    <3> HIDE <1>0
    <3> QED BY <2>1, <2>3, <3>1, AppendProperties
  <2> QED BY <1>0, <1>2, <2>1, <2>2, <2>4, Known
          DEF Write, Types, TypeOK, reader, taken, ticks, Nothing
<1>3. CASE RecordEnd
  BY <1>0, <1>3, Known DEF RecordEnd, Types, TypeOK, reader, taken, ticks, Status, Nothing
<1>4. CASE WorkerGoes
  BY <1>0, <1>4 DEF WorkerGoes, Types, TypeOK, reader, taken, ticks, Nothing
<1>5. CASE Prune
  BY <1>0, <1>5 DEF Prune, Types, TypeOK, reader, taken, ticks, Nothing
<1> USE DEF At, Answer, Continue, Nothing, session, taken, ticks
<1>6. CASE Open
  <2>1. start' \in Nat /\ off' \in Nat /\ start' <= off' /\ off' <= written
        /\ lastSize' \in Nat /\ lastSize' <= written
    <3>1. CASE ~files
      BY <1>6, <3>1, Known DEF Open
    <3>2. CASE files
      <4>1. start' \in {0, written} /\ off' = start' /\ lastSize' \in {0, written}
        BY <1>6, <3>2 DEF Open
      <4> QED BY <4>1, Known
    <3> QED BY <3>1, <3>2, Known
  <2> QED BY <1>0, <1>6, <2>1, Known DEF Open, Types, TypeOK
<1>7. CASE Deadline
  BY <1>0, <1>7 DEF Deadline, Types, TypeOK
<1>8. CASE WaitStatus
  BY <1>0, <1>8 DEF WaitStatus, Types, TypeOK
<1>9. CASE WaitOwner
  BY <1>0, <1>9 DEF WaitOwner, Types, TypeOK
<1>10. CASE Connect
  BY <1>0, <1>10 DEF Connect, Types, TypeOK
<1>11. CASE SendOffset
  BY <1>0, <1>11, Known DEF SendOffset, Types, TypeOK, LogLength
<1>12. CASE SendInput
  BY <1>0, <1>12, Known DEF SendInput, Types, TypeOK
<1>13. CASE ExpectScan
  <2>1. ReadSlice
    BY <1>13 DEF ExpectScan
  <2>2. text' \in Texts /\ off' \in Nat /\ off <= off' /\ off' <= written
    BY <2>1, SliceRead
  <2> QED BY <1>0, <1>13, <2>2, Known DEF ExpectScan, Types, TypeOK
<1>14. CASE ScreenLook
  <2>1. text' \in Texts
    BY <1>14, ScreenType DEF ScreenLook
  <2> QED BY <1>0, <1>14, <2>1 DEF ScreenLook, Types, TypeOK
<1>15. CASE ExpectCheck
  BY <1>0, <1>15 DEF ExpectCheck, Types, TypeOK
<1>16. CASE ExpectTail
  <2>1. text' \in Texts /\ off' \in Nat /\ off <= off' /\ off' <= written
    <3>1. CASE kind = "screen"
      BY <1>0, <1>16, <3>1, ScreenType, Known DEF ExpectTail
    <3>2. CASE kind # "screen"
      <4>1. ReadSlice
        BY <1>16, <3>2 DEF ExpectTail
      <4> QED BY <4>1, SliceRead
    <3> QED BY <3>1, <3>2
  <2> QED BY <1>0, <1>16, <2>1, Known DEF ExpectTail, Types, TypeOK
<1>17. CASE IdlePoll
  BY <1>0, <1>17, Known DEF IdlePoll, Types, TypeOK, LogLength
<1>18. CASE IdleCheck
  BY <1>0, <1>18 DEF IdleCheck, Types, TypeOK
<1>19. CASE FollowRead
  <2>1. ReadSlice
    BY <1>19 DEF FollowRead
  <2>2. text' \in Texts /\ off' \in Nat /\ off <= off' /\ off' <= written
    BY <2>1, SliceRead
  <2> QED BY <1>0, <1>19, <2>2, Known DEF FollowRead, Types, TypeOK
<1>20. CASE FollowCheck
  <2>1. quiet' \in 0 .. 2
    BY <1>20, Known DEF FollowCheck, PlaceInv
  <2> QED BY <1>0, <1>20, <2>1 DEF FollowCheck, Types, TypeOK
<1>21. CASE LogRead
  <2>1. ReadSlice
    BY <1>21 DEF LogRead
  <2>2. text' \in Texts /\ off' \in Nat /\ off <= off' /\ off' <= written
    BY <2>1, SliceRead
  <2> QED BY <1>0, <1>21, <2>2, Known DEF LogRead, Types, TypeOK
<1>22. CASE LogRows
  <2>1. rows' \in Seq(Nat \X Nat)
    <3>1. stamps \in Rows
      BY <1>0 DEF TypeOK, Rows
    <3>2. ClipRows(stamps, start, off) \in Rows
      BY <3>1, Known, ClipRowsIs DEF Clipped
    <3>3. <<>> \in Rows
      BY DEF Rows
    <3> QED BY <1>22, <3>2, <3>3 DEF LogRows, Rows
  <2> QED BY <1>0, <1>22, <2>1 DEF LogRows, Types, TypeOK
<1>23. CASE LogDone
  BY <1>0, <1>23 DEF LogDone, Types, TypeOK
<1>24. CASE UNCHANGED vars
  BY <1>0, <1>24 DEF vars, reader, Types, TypeOK
<1> QED BY <1>1, <1>2, <1>3, <1>4, <1>5, <1>6, <1>7, <1>8, <1>9, <1>10, <1>11, <1>12,
           <1>13, <1>14, <1>15, <1>16, <1>17, <1>18, <1>19, <1>20, <1>21, <1>22, <1>23,
           <1>24 DEF Next, Session, Reader

\* What every step does to the session.
LEMMA SessionFacts ==
    ASSUME Types, PlaceInv, [Next]_vars
    PROVE  /\ script' = script /\ kind' = kind
           /\ Finished => Finished' /\ status' = status /\ due' = due
           /\ owner = "gone" => owner' = "gone"
           /\ files' => files
           /\ written' \in Nat /\ written <= written' /\ written' <= Len(script)
<1> USE DEF Finished
<1>0. written \in Nat /\ written <= Len(script) /\ Len(script) \in Nat
  BY Known
<1>1. CASE Advance
  BY <1>0, <1>1 DEF Advance, reader, session, taken, ticks
<1>2. CASE Write
  <2>1. PICK n \in written + 1 .. Len(script) : written' = n
    BY <1>2 DEF Write
  <2>2. written' \in Nat /\ written <= written' /\ written' <= Len(script)
    BY <1>0, <2>1
  <2> QED BY <1>2, <2>2 DEF Write, reader
<1>3. CASE RecordEnd
  BY <1>0, <1>3 DEF RecordEnd, reader, session, taken, ticks
<1>4. CASE WorkerGoes
  BY <1>0, <1>4 DEF WorkerGoes, reader, session, taken, ticks
<1>5. CASE Prune
  BY <1>0, <1>5 DEF Prune, reader, session, taken, ticks
<1>6. CASE Open
  BY <1>0, <1>6 DEF Open, reader, session, taken, ticks
<1>7. CASE Deadline
  BY <1>0, <1>7 DEF Deadline, reader, session, taken, ticks
<1>8. CASE WaitStatus
  BY <1>0, <1>8 DEF WaitStatus, reader, session, taken, ticks
<1>9. CASE WaitOwner
  BY <1>0, <1>9 DEF WaitOwner, reader, session, taken, ticks
<1>10. CASE Connect
  BY <1>0, <1>10 DEF Connect, reader, session, taken, ticks
<1>11. CASE SendOffset
  BY <1>0, <1>11 DEF SendOffset, reader, session, taken, ticks
<1>12. CASE SendInput
  BY <1>0, <1>12 DEF SendInput, reader, session, taken, ticks
<1>13. CASE ExpectScan
  BY <1>0, <1>13 DEF ExpectScan, reader, session, taken, ticks
<1>14. CASE ScreenLook
  BY <1>0, <1>14 DEF ScreenLook, reader, session, taken, ticks
<1>15. CASE ExpectCheck
  BY <1>0, <1>15 DEF ExpectCheck, reader, session, taken, ticks
<1>16. CASE ExpectTail
  BY <1>0, <1>16 DEF ExpectTail, reader, session, taken, ticks
<1>17. CASE IdlePoll
  BY <1>0, <1>17 DEF IdlePoll, reader, session, taken, ticks
<1>18. CASE IdleCheck
  BY <1>0, <1>18 DEF IdleCheck, reader, session, taken, ticks
<1>19. CASE FollowRead
  BY <1>0, <1>19 DEF FollowRead, reader, session, taken, ticks
<1>20. CASE FollowCheck
  BY <1>0, <1>20 DEF FollowCheck, reader, session, taken, ticks
<1>21. CASE LogRead
  BY <1>0, <1>21 DEF LogRead, reader, session, taken, ticks
<1>22. CASE LogRows
  BY <1>0, <1>22 DEF LogRows, reader, session, taken, ticks
<1>23. CASE LogDone
  BY <1>0, <1>23 DEF LogDone, reader, session, taken, ticks
<1>24. CASE UNCHANGED vars
  BY <1>0, <1>24 DEF vars, reader, session, taken, ticks
<1> QED BY <1>1, <1>2, <1>3, <1>4, <1>5, <1>6, <1>7, <1>8, <1>9, <1>10, <1>11, <1>12,
           <1>13, <1>14, <1>15, <1>16, <1>17, <1>18, <1>19, <1>20, <1>21, <1>22, <1>23,
           <1>24 DEF Next, Session, Reader

\* Every step keeps what the commands know.
LEMMA PlaceStep ==
    ASSUME Types, PlaceInv, [Next]_vars
    PROVE  PlaceInv'
<1>0. /\ PlaceInv /\ quiet \in 0 .. 2 /\ written \in Nat /\ due \in Nat /\ start \in Nat
      /\ start <= written /\ off <= written /\ off \in Nat /\ asked \in Nat /\ start <= off
  BY Known
<1>1. CASE Advance
  BY <1>0, <1>1
     DEF Advance, Status, reader, session, taken, ticks, PlaceInv, Finished, At, Answer,
         Continue
<1>2. CASE Write
  <2>1. written' \in Nat /\ written <= written'
    BY <1>2, SessionFacts DEF Next, Session
  <2> QED BY <1>0, <1>2, <2>1
            DEF Write, reader, session, taken, ticks, PlaceInv, Finished, At, Answer,
                Continue
<1>3. CASE RecordEnd
  BY <1>0, <1>3
     DEF RecordEnd, Status, reader, session, taken, ticks, PlaceInv, Finished, At, Answer,
         Continue
<1>4. CASE WorkerGoes
  BY <1>0, <1>4
     DEF WorkerGoes, reader, session, taken, ticks, PlaceInv, Finished, At, Answer,
         Continue
<1>5. CASE Prune
  BY <1>0, <1>5
     DEF Prune, reader, session, taken, ticks, PlaceInv, Finished, At, Answer, Continue
<1>6. CASE Open
  BY <1>0, <1>6
     DEF Open, reader, session, taken, ticks, PlaceInv, Finished, At, Answer, Continue
<1>7. CASE Deadline
  BY <1>0, <1>7
     DEF Deadline, reader, session, taken, ticks, PlaceInv, Finished, At, Answer, Continue
<1>8. CASE WaitStatus
  BY <1>0, <1>8
     DEF WaitStatus, reader, session, taken, ticks, PlaceInv, Finished, At, Answer,
         Continue
<1>9. CASE WaitOwner
  BY <1>0, <1>9
     DEF WaitOwner, reader, session, taken, ticks, PlaceInv, Finished, At, Answer, Continue
<1>10. CASE Connect
  BY <1>0, <1>10
     DEF Connect, reader, session, taken, ticks, PlaceInv, Finished, At, Answer, Continue
<1>11. CASE SendOffset
  BY <1>0, <1>11
     DEF SendOffset, reader, session, taken, ticks, PlaceInv, Finished, At, Answer,
         Continue
<1>12. CASE SendInput
  BY <1>0, <1>12
     DEF SendInput, reader, session, taken, ticks, PlaceInv, Finished, At, Answer, Continue
<1>13. CASE ExpectScan
  BY <1>0, <1>13
     DEF ExpectScan, reader, session, taken, ticks, PlaceInv, Finished, At, Answer,
         Continue
<1>14. CASE ScreenLook
  BY <1>0, <1>14
     DEF ScreenLook, reader, session, taken, ticks, PlaceInv, Finished, At, Answer,
         Continue
<1>15. CASE ExpectCheck
  BY <1>0, <1>15
     DEF ExpectCheck, IsFinished, reader, session, taken, ticks, PlaceInv, Finished, At,
         Answer, Continue
<1>16. CASE ExpectTail
  BY <1>0, <1>16
     DEF ExpectTail, reader, session, taken, ticks, PlaceInv, Finished, At, Answer,
         Continue
<1>17. CASE IdlePoll
  BY <1>0, <1>17
     DEF IdlePoll, reader, session, taken, ticks, PlaceInv, Finished, At, Answer, Continue
<1>18. CASE IdleCheck
  BY <1>0, <1>18
     DEF IdleCheck, reader, session, taken, ticks, PlaceInv, Finished, At, Answer, Continue
<1>19. CASE FollowRead
  BY <1>0, <1>19
     DEF FollowRead, reader, session, taken, ticks, PlaceInv, Finished, At, Answer,
         Continue
<1>20. CASE FollowCheck
  BY <1>0, <1>20
     DEF FollowCheck, IsFinished, reader, session, taken, ticks, PlaceInv, Finished, At,
         Answer, Continue
<1>21. CASE LogRead
  BY <1>0, <1>21
     DEF LogRead, reader, session, taken, ticks, PlaceInv, Finished, At, Answer, Continue
<1>22. CASE LogRows
  BY <1>0, <1>22
     DEF LogRows, reader, session, taken, ticks, PlaceInv, Finished, At, Answer, Continue
<1>23. CASE LogDone
  BY <1>0, <1>23
     DEF LogDone, reader, session, taken, ticks, PlaceInv, Finished, At, Answer, Continue
<1>24. CASE UNCHANGED vars
  BY <1>0, <1>24
     DEF vars, reader, session, taken, ticks, PlaceInv, Finished, At, Answer, Continue
<1> QED BY <1>1, <1>2, <1>3, <1>4, <1>5, <1>6, <1>7, <1>8, <1>9, <1>10, <1>11, <1>12,
           <1>13, <1>14, <1>15, <1>16, <1>17, <1>18, <1>19, <1>20, <1>21, <1>22, <1>23,
           <1>24 DEF Next, Session, Reader

\* Every step keeps what wait reports.
LEMMA WaitStep ==
    ASSUME Types, PlaceInv, WaitInv, [Next]_vars
    PROVE  WaitInv'
<1>0. /\ WaitInv /\ (place = "done" <=> answer # Nothing)
      /\ Finished => Finished' /\ status' = status
      /\ owner = "gone" => owner' = "gone"
  BY Known, SessionFacts
<1>30. answer.kind \in {"code", "dead"} => place = "done"
  BY <1>0 DEF Nothing
<1>1. CASE Advance
  BY <1>0, <1>30, <1>1
     DEF Advance, reader, session, taken, ticks, WaitInv, ExitCode, At, Answer, Continue
<1>2. CASE Write
  BY <1>0, <1>30, <1>2
     DEF Write, reader, session, taken, ticks, WaitInv, ExitCode, At, Answer, Continue
<1>3. CASE RecordEnd
  BY <1>0, <1>30, <1>3
     DEF RecordEnd, reader, session, taken, ticks, WaitInv, ExitCode, At, Answer,
         Continue
<1>4. CASE WorkerGoes
  BY <1>0, <1>30, <1>4
     DEF WorkerGoes, reader, session, taken, ticks, WaitInv, ExitCode, At, Answer,
         Continue
<1>5. CASE Prune
  BY <1>0, <1>30, <1>5
     DEF Prune, reader, session, taken, ticks, WaitInv, ExitCode, At, Answer, Continue
<1>6. CASE Open
  BY <1>0, <1>30, <1>6
     DEF Open, reader, session, taken, ticks, WaitInv, ExitCode, At, Answer, Continue
<1>7. CASE Deadline
  BY <1>0, <1>30, <1>7
     DEF Deadline, reader, session, taken, ticks, WaitInv, ExitCode, At, Answer,
         Continue
<1>8. CASE WaitStatus
  BY <1>0, <1>30, <1>8
     DEF WaitStatus, IsFinished, reader, session, taken, ticks, WaitInv, ExitCode, At,
         Answer, Continue
<1>9. CASE WaitOwner
  BY <1>0, <1>30, <1>9
     DEF WaitOwner, reader, session, taken, ticks, WaitInv, ExitCode, At, Answer,
         Continue
<1>10. CASE Connect
  BY <1>0, <1>30, <1>10
     DEF Connect, reader, session, taken, ticks, WaitInv, ExitCode, At, Answer, Continue
<1>11. CASE SendOffset
  BY <1>0, <1>30, <1>11
     DEF SendOffset, reader, session, taken, ticks, WaitInv, ExitCode, At, Answer,
         Continue
<1>12. CASE SendInput
  BY <1>0, <1>30, <1>12
     DEF SendInput, reader, session, taken, ticks, WaitInv, ExitCode, At, Answer,
         Continue
<1>13. CASE ExpectScan
  BY <1>0, <1>30, <1>13
     DEF ExpectScan, reader, session, taken, ticks, WaitInv, ExitCode, At, Answer,
         Continue
<1>14. CASE ScreenLook
  BY <1>0, <1>30, <1>14
     DEF ScreenLook, reader, session, taken, ticks, WaitInv, ExitCode, At, Answer,
         Continue
<1>15. CASE ExpectCheck
  BY <1>0, <1>30, <1>15
     DEF ExpectCheck, reader, session, taken, ticks, WaitInv, ExitCode, At, Answer,
         Continue
<1>16. CASE ExpectTail
  BY <1>0, <1>30, <1>16
     DEF ExpectTail, reader, session, taken, ticks, WaitInv, ExitCode, At, Answer,
         Continue
<1>17. CASE IdlePoll
  BY <1>0, <1>30, <1>17
     DEF IdlePoll, reader, session, taken, ticks, WaitInv, ExitCode, At, Answer,
         Continue
<1>18. CASE IdleCheck
  BY <1>0, <1>30, <1>18
     DEF IdleCheck, reader, session, taken, ticks, WaitInv, ExitCode, At, Answer,
         Continue
<1>19. CASE FollowRead
  BY <1>0, <1>30, <1>19
     DEF FollowRead, reader, session, taken, ticks, WaitInv, ExitCode, At, Answer,
         Continue
<1>20. CASE FollowCheck
  BY <1>0, <1>30, <1>20
     DEF FollowCheck, reader, session, taken, ticks, WaitInv, ExitCode, At, Answer,
         Continue
<1>21. CASE LogRead
  BY <1>0, <1>30, <1>21
     DEF LogRead, reader, session, taken, ticks, WaitInv, ExitCode, At, Answer, Continue
<1>22. CASE LogRows
  BY <1>0, <1>30, <1>22
     DEF LogRows, reader, session, taken, ticks, WaitInv, ExitCode, At, Answer, Continue
<1>23. CASE LogDone
  BY <1>0, <1>30, <1>23
     DEF LogDone, reader, session, taken, ticks, WaitInv, ExitCode, At, Answer, Continue
<1>24. CASE UNCHANGED vars
  BY <1>0, <1>30, <1>24
     DEF vars, reader, session, taken, ticks, WaitInv, ExitCode, At, Answer, Continue
<1> QED BY <1>1, <1>2, <1>3, <1>4, <1>5, <1>6, <1>7, <1>8, <1>9, <1>10, <1>11, <1>12,
           <1>13, <1>14, <1>15, <1>16, <1>17, <1>18, <1>19, <1>20, <1>21, <1>22, <1>23,
           <1>24 DEF Next, Session, Reader

\* Every step keeps what the capture times say.
LEMMA RowsStep ==
    ASSUME Types, PlaceInv, RowsAreTrue, [Next]_vars
    PROVE  RowsAreTrue'
<1>0. RowsAreTrue /\ (rows # <<>> => kind = "log" /\ place \in {"tail", "done"})
  BY DEF PlaceInv
<1>30. ASSUME rows' = <<>> PROVE RowsAreTrue'
  BY <1>30 DEF RowsAreTrue
<1>1. CASE Advance
  BY <1>0, <1>1 DEF Advance, reader, session, taken, ticks, RowsAreTrue, At, Answer, Continue
<1>2. CASE Write
  BY <1>0, <1>2 DEF Write, reader, session, taken, ticks, RowsAreTrue, At, Answer, Continue
<1>3. CASE RecordEnd
  BY <1>0, <1>3 DEF RecordEnd, reader, session, taken, ticks, RowsAreTrue, At, Answer, Continue
<1>4. CASE WorkerGoes
  BY <1>0, <1>4
     DEF WorkerGoes, reader, session, taken, ticks, RowsAreTrue, At, Answer, Continue
<1>5. CASE Prune
  BY <1>0, <1>5 DEF Prune, reader, session, taken, ticks, RowsAreTrue, At, Answer, Continue
<1>6. CASE Open
  BY <1>0, <1>30, <1>6
     DEF Open, reader, session, taken, ticks, RowsAreTrue, At, Answer, Continue
<1>7. CASE Deadline
  BY <1>0, <1>7 DEF Deadline, reader, session, taken, ticks, RowsAreTrue, At, Answer, Continue
<1>8. CASE WaitStatus
  BY <1>0, <1>8
     DEF WaitStatus, reader, session, taken, ticks, RowsAreTrue, At, Answer, Continue
<1>9. CASE WaitOwner
  BY <1>0, <1>9 DEF WaitOwner, reader, session, taken, ticks, RowsAreTrue, At, Answer, Continue
<1>10. CASE Connect
  BY <1>0, <1>10 DEF Connect, reader, session, taken, ticks, RowsAreTrue, At, Answer, Continue
<1>11. CASE SendOffset
  BY <1>0, <1>30, <1>11
     DEF SendOffset, reader, session, taken, ticks, RowsAreTrue, At, Answer, Continue
<1>12. CASE SendInput
  BY <1>0, <1>12
     DEF SendInput, reader, session, taken, ticks, RowsAreTrue, At, Answer, Continue
<1>13. CASE ExpectScan
  BY <1>0, <1>30, <1>13
     DEF ExpectScan, reader, session, taken, ticks, RowsAreTrue, At, Answer, Continue
<1>14. CASE ScreenLook
  BY <1>0, <1>14
     DEF ScreenLook, reader, session, taken, ticks, RowsAreTrue, At, Answer, Continue
<1>15. CASE ExpectCheck
  BY <1>0, <1>15
     DEF ExpectCheck, reader, session, taken, ticks, RowsAreTrue, At, Answer, Continue
<1>16. CASE ExpectTail
  BY <1>0, <1>30, <1>16
     DEF ExpectTail, reader, session, taken, ticks, RowsAreTrue, At, Answer, Continue
<1>17. CASE IdlePoll
  BY <1>0, <1>17 DEF IdlePoll, reader, session, taken, ticks, RowsAreTrue, At, Answer, Continue
<1>18. CASE IdleCheck
  BY <1>0, <1>18
     DEF IdleCheck, reader, session, taken, ticks, RowsAreTrue, At, Answer, Continue
<1>19. CASE FollowRead
  BY <1>0, <1>30, <1>19
     DEF FollowRead, reader, session, taken, ticks, RowsAreTrue, At, Answer, Continue
<1>20. CASE FollowCheck
  BY <1>0, <1>20
     DEF FollowCheck, reader, session, taken, ticks, RowsAreTrue, At, Answer, Continue
<1>21. CASE LogRead
  BY <1>0, <1>30, <1>21
     DEF LogRead, reader, session, taken, ticks, RowsAreTrue, At, Answer, Continue
<1>22. CASE LogRows
  <2>1. CASE files
    <3>1. stamps \in Rows /\ start \in Nat /\ off \in Nat
      BY Known DEF Types, TypeOK, Rows
    <3>2. PICK e \in Nat : Clipped(ClipRows(stamps, start, off), start, off, e)
      BY <3>1, ClipRowsIs
    <3>3. rows' = ClipRows(stamps, start, off) /\ start' = start /\ off' = off
      BY <1>22, <2>1 DEF LogRows
    <3>4. Clipped(rows', start', off', e)
      BY <3>2, <3>3
    <3>5. DOMAIN rows' = 1 .. Len(rows')
      BY <3>4 DEF Clipped, Rows
    <3> QED BY <3>4, <3>5 DEF Clipped, RowsAreTrue, Stop
  <2>2. CASE ~files
    BY <1>22, <1>30, <2>2 DEF LogRows
  <2> QED BY <2>1, <2>2
<1>23. CASE LogDone
  BY <1>0, <1>23 DEF LogDone, reader, session, taken, ticks, RowsAreTrue, At, Answer, Continue
<1>24. CASE UNCHANGED vars
  BY <1>0, <1>24 DEF vars, reader, session, taken, ticks, RowsAreTrue, At, Answer, Continue
<1> QED BY <1>1, <1>2, <1>3, <1>4, <1>5, <1>6, <1>7, <1>8, <1>9, <1>10, <1>11, <1>12,
           <1>13, <1>14, <1>15, <1>16, <1>17, <1>18, <1>19, <1>20, <1>21, <1>22, <1>23,
           <1>24 DEF Next, Session, Reader

\* Every step keeps what a follower knows.
LEMMA FollowStep ==
    ASSUME Types, PlaceInv, FollowInv, [Next]_vars
    PROVE  FollowInv'
<1>0. /\ FollowInv /\ (quiet >= 1 => Finished) /\ (quiet = 1 => quiet >= 1)
      /\ place = "done" <=> answer # Nothing
  BY Known DEF PlaceInv
<1>30. /\ Finished => Finished' /\ due' = due
       /\ files' => files
       /\ script' = script
  BY SessionFacts
<1>31. answer.kind = "stopped" => place = "done"
  BY <1>0 DEF Nothing
<1>1. CASE Advance
  BY <1>0, <1>30, <1>31, <1>1
     DEF Advance, reader, session, taken, ticks, FollowInv, FollowComplete, At, Answer,
         Continue
<1>2. CASE Write
  BY <1>0, <1>30, <1>31, <1>2
     DEF Write, reader, session, taken, ticks, FollowInv, FollowComplete, At, Answer,
         Continue
<1>3. CASE RecordEnd
  BY <1>0, <1>30, <1>31, <1>3
     DEF RecordEnd, reader, session, taken, ticks, FollowInv, FollowComplete, At, Answer,
         Continue
<1>4. CASE WorkerGoes
  BY <1>0, <1>30, <1>31, <1>4
     DEF WorkerGoes, reader, session, taken, ticks, FollowInv, FollowComplete, At, Answer,
         Continue
<1>5. CASE Prune
  BY <1>0, <1>30, <1>31, <1>5
     DEF Prune, reader, session, taken, ticks, FollowInv, FollowComplete, At, Answer,
         Continue
<1>6. CASE Open
  BY <1>0, <1>30, <1>31, <1>6
     DEF Open, reader, session, taken, ticks, FollowInv, FollowComplete, At, Answer,
         Continue
<1>7. CASE Deadline
  BY <1>0, <1>30, <1>31, <1>7
     DEF Deadline, reader, session, taken, ticks, FollowInv, FollowComplete, At, Answer,
         Continue
<1>8. CASE WaitStatus
  BY <1>0, <1>30, <1>31, <1>8
     DEF WaitStatus, reader, session, taken, ticks, FollowInv, FollowComplete, At, Answer,
         Continue
<1>9. CASE WaitOwner
  BY <1>0, <1>30, <1>31, <1>9
     DEF WaitOwner, reader, session, taken, ticks, FollowInv, FollowComplete, At, Answer,
         Continue
<1>10. CASE Connect
  BY <1>0, <1>30, <1>31, <1>10
     DEF Connect, reader, session, taken, ticks, FollowInv, FollowComplete, At, Answer,
         Continue
<1>11. CASE SendOffset
  BY <1>0, <1>30, <1>31, <1>11
     DEF SendOffset, reader, session, taken, ticks, FollowInv, FollowComplete, At, Answer,
         Continue
<1>12. CASE SendInput
  BY <1>0, <1>30, <1>31, <1>12
     DEF SendInput, reader, session, taken, ticks, FollowInv, FollowComplete, At, Answer,
         Continue
<1>13. CASE ExpectScan
  BY <1>0, <1>30, <1>31, <1>13
     DEF ExpectScan, reader, session, taken, ticks, FollowInv, FollowComplete, At, Answer,
         Continue
<1>14. CASE ScreenLook
  BY <1>0, <1>30, <1>31, <1>14
     DEF ScreenLook, reader, session, taken, ticks, FollowInv, FollowComplete, At, Answer,
         Continue
<1>15. CASE ExpectCheck
  BY <1>0, <1>30, <1>31, <1>15
     DEF ExpectCheck, reader, session, taken, ticks, FollowInv, FollowComplete, At, Answer,
         Continue
<1>16. CASE ExpectTail
  BY <1>0, <1>30, <1>31, <1>16
     DEF ExpectTail, reader, session, taken, ticks, FollowInv, FollowComplete, At, Answer,
         Continue
<1>17. CASE IdlePoll
  BY <1>0, <1>30, <1>31, <1>17
     DEF IdlePoll, reader, session, taken, ticks, FollowInv, FollowComplete, At, Answer,
         Continue
<1>18. CASE IdleCheck
  BY <1>0, <1>30, <1>31, <1>18
     DEF IdleCheck, reader, session, taken, ticks, FollowInv, FollowComplete, At, Answer,
         Continue
<1>19. CASE FollowRead
  <2>1. ReadSlice /\ place' = "check" /\ answer' = answer /\ quiet' = quiet /\ files' = files
        /\ written' = written /\ status' = status /\ due' = due /\ place = "poll"
    BY <1>19 DEF FollowRead, At, Continue, session
  <2>2. ASSUME quiet = 1, ~advanced', files PROVE SafePrefix(SubSeq(script, off' + 1, due)) = 0
    <3> DEFINE b == SubSeq(script, off + 1, written)
               c == SubSeq(script, off + 1, due)
    <3>1. b \in Bytes /\ Len(b) = written - off /\ off' = off + SafePrefix(b)
          /\ SafePrefix(b) \in Nat
      BY <2>1, <2>2, SliceRead
    <3>2. advanced' = (off' > off) /\ off' >= off /\ off' \in Nat /\ off \in Nat
      BY <1>19, <2>1, SliceRead, Known DEF FollowRead
    <3>3. off' = off
      <4>1. ~(off' > off)
        BY <2>2, <3>2, Zenon
      <4> QED BY <3>2, <4>1
    <3>4. SafePrefix(b) = 0
      <4> HIDE DEF b
      <4> QED BY <3>1, <3>2, <3>3
    <3>5. due <= written
      BY <1>0, <2>2 DEF PlaceInv
    <3>6. CASE due < off
      <4>1. c = <<>> /\ <<>> \in Bytes /\ Len(<<>>) = 0
        BY <3>6, Known, SubSeqEmpty DEF Bytes
      <4>2. SafePrefix(<<>>) = 0
        BY <4>1, SafePrefixBound
      <4> QED BY <3>3, <4>1, <4>2
    <3>7. CASE off <= due
      <4>1. c \in Bytes /\ Len(c) = due - off /\ \A i \in 1 .. due - off : c[i] = script[off + i]
        BY <3>7, Known, PartOf
      <4>2. \A i \in 1 .. written - off : b[i] = script[off + i]
        BY Known, PartOf
      <4> HIDE DEF b, c
      <4>5. Len(c) <= Len(b) /\ Len(c) = due - off /\ due - off <= written - off
        BY <3>1, <3>5, <4>1, Known
      <4>6. \A i \in 1 .. due - off : i \in 1 .. written - off
        BY <4>5, Known
      <4>3. Len(c) <= Len(b) /\ \A i \in 1 .. Len(c) : c[i] = b[i]
        BY <4>1, <4>2, <4>5, <4>6
      <4>4. SafePrefix(c) = 0
        BY <3>1, <3>4, <4>1, <4>3, HeldBackBefore
      <4> QED BY <3>3, <4>4 DEF c
    <3> QED BY <3>6, <3>7, Known
  <2>3. answer.kind # "stopped"
    BY <1>31, <2>1
  <2> QED BY <1>30, <2>1, <2>2, <2>3 DEF FollowInv, At
<1>20. CASE FollowCheck
  <2>1. ASSUME quiet' = 2 PROVE Finished /\ SafePrefix(SubSeq(script, off + 1, due)) = 0
    <3>1. quiet \in 0 .. 2 /\ quiet < 2 /\ advanced \in BOOLEAN
      BY <1>20, Known DEF FollowCheck, At, PlaceInv
    <3>2. IsFinished /\ ~advanced /\ quiet = 1
      BY <1>20, <2>1, <3>1 DEF FollowCheck
    <3> QED BY <1>0, <1>20, <3>2 DEF FollowCheck, IsFinished, Readable, FollowInv, At
  <2>2. /\ place' # "check"
        /\ answer'.kind = "stopped" => quiet' = 2
        /\ off' = off
    BY <1>0, <1>31, <1>20 DEF FollowCheck, At, Answer, Continue, taken
  <2> QED BY <1>30, <2>1, <2>2 DEF FollowInv, FollowComplete, At
<1>21. CASE LogRead
  BY <1>0, <1>30, <1>31, <1>21
     DEF LogRead, reader, session, taken, ticks, FollowInv, FollowComplete, At, Answer,
         Continue
<1>22. CASE LogRows
  BY <1>0, <1>30, <1>31, <1>22
     DEF LogRows, reader, session, taken, ticks, FollowInv, FollowComplete, At, Answer,
         Continue
<1>23. CASE LogDone
  BY <1>0, <1>30, <1>31, <1>23
     DEF LogDone, reader, session, taken, ticks, FollowInv, FollowComplete, At, Answer,
         Continue
<1>24. CASE UNCHANGED vars
  BY <1>0, <1>30, <1>31, <1>24
     DEF vars, reader, session, taken, ticks, FollowInv, FollowComplete, At, Answer,
         Continue
<1> QED BY <1>1, <1>2, <1>3, <1>4, <1>5, <1>6, <1>7, <1>8, <1>9, <1>10, <1>11, <1>12,
           <1>13, <1>14, <1>15, <1>16, <1>17, <1>18, <1>19, <1>20, <1>21, <1>22, <1>23,
           <1>24 DEF Next, Session, Reader

\* Every step keeps what an expect knows.
LEMMA ExpectStep ==
    ASSUME Types, PlaceInv, ExpectInv, [Next]_vars
    PROVE  ExpectInv'
<1>0. /\ ExpectInv /\ (place = "done" <=> answer # Nothing)
      /\ written \in Nat /\ (Finished => due <= written) /\ due \in Nat
      /\ place = "tail" /\ kind # "log" => Finished
  BY Known DEF PlaceInv
<1>30. /\ script' = script /\ kind' = kind
       /\ Finished => Finished' /\ due' = due
       /\ files' => files
       /\ written' \in Nat /\ written <= written'
  BY SessionFacts
<1>31. answer.kind = "ended" => place = "done"
  BY <1>0 DEF Nothing
<1>32. ASSUME files, written' = written, files' PROVE Screen' = Screen
  BY <1>30, <1>32 DEF Screen
\* A slice without what is looked for, behind a part without it.
<1>33. ASSUME ReadSlice, ~Matches(Visible(SubSeq(script, start + 1, off))), files,
              LET unread == SubSeq(script, off + 1, written) IN
                  ~Matches(Visible(SubSeq(unread, 1, SafePrefix(unread))))
       PROVE  /\ ~Matches(Visible(SubSeq(script, start + 1, off')))
              /\ due <= written => ~Matches(Visible(SubSeq(script, start + 1, due)))
  <2>1. ~Matches(Visible(SubSeq(script, start + 1, written)))
    BY <1>33, Known, NotMissed
  <2>2. off' \in Nat /\ off' <= written
    BY <1>33, SliceRead
  <2> QED BY <2>1, <2>2, Known, NotMissedBefore
<1>34. ASSUME ReadSlice, ~Matches(text')
       PROVE LET unread == SubSeq(script, off + 1, written) IN
                 files => ~Matches(Visible(SubSeq(unread, 1, SafePrefix(unread))))
  <2> DEFINE unread == SubSeq(script, off + 1, written)
             v == Visible(SubSeq(unread, 1, SafePrefix(unread)))
  <2>1. v \in Texts /\ text \in Texts /\ (files => text' = text \o v)
    BY <1>34, SliceRead DEF Types
  <2> HIDE DEF v
  <2>2. files => ToSet(text') = ToSet(text) \cup ToSet(v)
    BY <2>1, TextSets
  <2>3. files => ~Matches(v)
    BY <1>34, <2>2 DEF Matches
  <2> QED BY <2>3 DEF v
\* A step that leaves the reader where it is keeps what it has seen.
<1>35. SubSeq(script, 1, 0) = <<>> /\ ~Matches(<<>>)
  <2>1. ToSet(<<>>) = {}
    BY DEF ToSet
  <2> QED BY <2>1, SubSeqEmpty DEF Matches
<1>36. ASSUME NEW n \in Nat PROVE ~Matches(Visible(SubSeq(script, n + 1, n)))
  <2>1. SubSeq(script, n + 1, n) = <<>>
    BY SubSeqEmpty
  <2> QED BY <2>1, <1>35, VisibleEmpty
<1>1. CASE Advance
  BY <1>0, <1>30, <1>31, <1>32, <1>1
     DEF Advance, reader, session, taken, ticks, ExpectInv, At, Answer, Continue
<1>2. CASE Write
  <2>1. written < written'
    <3>1. PICK n \in written + 1 .. Len(script) : written' = n
      BY <1>2 DEF Write
    <3> QED BY <3>1, Known
  <2>2. answer.kind = "ended" => written' # due
    BY <1>0, <1>30, <2>1 DEF ExpectInv
  <2> QED BY <1>0, <1>30, <1>31, <2>2, <1>2
            DEF Write, reader, session, taken, ticks, ExpectInv, At, Answer, Continue
<1>3. CASE RecordEnd
  BY <1>0, <1>30, <1>31, <1>32, <1>3
     DEF RecordEnd, reader, session, taken, ticks, ExpectInv, At, Answer, Continue
<1>4. CASE WorkerGoes
  BY <1>0, <1>30, <1>31, <1>32, <1>4
     DEF WorkerGoes, reader, session, taken, ticks, ExpectInv, At, Answer, Continue
<1>5. CASE Prune
  BY <1>0, <1>30, <1>31, <1>32, <1>5
     DEF Prune, reader, session, taken, ticks, ExpectInv, At, Answer, Continue
<1>6. CASE Open
  <2>1. answer'.kind # "ended"
    BY <1>31, <1>6 DEF Open, At, Answer, Continue
  <2>2. place' # "done" => start' = off' /\ start' \in Nat
    BY <1>6, Known DEF Open, Answer, Continue
  <2>3. text' = <<>>
    BY <1>6 DEF Open, PlaceInv
  <2>4. place' # "done" => ~Matches(Visible(SubSeq(script, start' + 1, off')))
    BY <1>36, <2>2
  <2> QED BY <1>30, <1>35, <2>1, <2>3, <2>4 DEF ExpectInv
<1>7. CASE Deadline
  <2>1. /\ place # "done" /\ answer'.kind # "ended" /\ start' = start /\ off' = off /\ text' = text
    BY <1>31, <1>7 DEF Deadline, At, Answer, Continue, taken
  <2> QED BY <1>0, <1>30, <2>1 DEF ExpectInv
<1>8. CASE WaitStatus
  <2>1. /\ kind = "wait" /\ answer'.kind # "ended"
    BY <1>31, <1>8 DEF WaitStatus, At, Answer, Continue
  <2> QED BY <1>30, <2>1 DEF ExpectInv
<1>9. CASE WaitOwner
  <2>1. /\ kind = "wait" /\ answer'.kind # "ended"
    BY <1>31, <1>9 DEF WaitOwner, At, Answer, Continue
  <2> QED BY <1>30, <2>1 DEF ExpectInv
<1>10. CASE Connect
  <2>1. /\ place # "done" /\ answer'.kind # "ended" /\ start' = start /\ off' = off /\ text' = text
    BY <1>31, <1>10 DEF Connect, At, Answer, Continue, taken
  <2> QED BY <1>0, <1>30, <2>1 DEF ExpectInv
<1>11. CASE SendOffset
  <2>1. answer'.kind # "ended"
    BY <1>31, <1>11 DEF SendOffset, At, Answer, Continue
  <2>2. place' # "done" => start' = off' /\ start' \in Nat
    BY <1>11, Known DEF SendOffset, Answer, Continue, LogLength
  <2>3. text' = <<>>
    BY <1>11 DEF SendOffset, PlaceInv, At
  <2>4. place' # "done" => ~Matches(Visible(SubSeq(script, start' + 1, off')))
    BY <1>36, <2>2
  <2> QED BY <1>30, <1>35, <2>1, <2>3, <2>4 DEF ExpectInv
<1>12. CASE SendInput
  <2>1. /\ place # "done" /\ answer'.kind # "ended" /\ start' = start /\ off' = off /\ text' = text
    BY <1>31, <1>12 DEF SendInput, At, Answer, Continue, taken
  <2> QED BY <1>0, <1>30, <2>1 DEF ExpectInv
<1>13. CASE ExpectScan
  <2>1. /\ ReadSlice /\ start' = start /\ place = "poll" /\ kind \in {"expect", "ask"}
        /\ \/ place' = "check" /\ answer' = answer
           \/ place' = "done" /\ answer'.kind = "match"
    BY <1>13 DEF ExpectScan, At, Answer, Continue
  <2>2. ~Matches(text) /\ ~Matches(Visible(SubSeq(script, start + 1, off)))
    BY <1>0, <2>1 DEF ExpectInv
  <2>3. place' = "check" => ~Matches(text')
    BY <1>13, <2>2 DEF ExpectScan, Answer
  <2>4. CASE place' = "check" /\ files
    BY <1>30, <1>31, <1>33, <1>34, <2>1, <2>2, <2>3, <2>4 DEF ExpectInv
  <2>5. CASE place' = "check" /\ ~files
    <3>1. off' = off
      BY <2>1, <2>5, SliceRead
    <3> QED BY <1>30, <1>31, <2>1, <2>2, <2>3, <2>5, <3>1 DEF ExpectInv
  <2>6. CASE place' = "done"
    BY <2>1, <2>6 DEF ExpectInv
  <2> QED BY <2>1, <2>4, <2>5, <2>6
<1>14. CASE ScreenLook
  <2>1. /\ kind = "screen" /\ answer'.kind # "ended"
    BY <1>31, <1>14 DEF ScreenLook, At, Answer, Continue
  <2> QED BY <1>30, <2>1 DEF ExpectInv
<1>15. CASE ExpectCheck
  <2>1. /\ place # "done" /\ answer'.kind # "ended" /\ start' = start /\ off' = off /\ text' = text
    BY <1>31, <1>15 DEF ExpectCheck, At, Answer, Continue, taken
  <2> QED BY <1>0, <1>30, <2>1 DEF ExpectInv
<1>16. CASE ExpectTail
  <2>1. /\ place = "tail" /\ kind \in {"expect", "ask", "screen"} /\ place' = "done"
        /\ start' = start /\ files' = files /\ written' = written
        /\ answer'.kind = "ended" => ~Matches(text')
    BY <1>16 DEF ExpectTail, At, Answer, session
  <2>2. Finished /\ due <= written /\ Finished' /\ due' = due
    BY <1>0, <1>30, <2>1
  <2>3. CASE kind = "screen"
    <3>1. text' = Screen
      BY <1>16, <2>3 DEF ExpectTail
    <3> QED BY <1>30, <1>32, <2>1, <2>2, <2>3, <3>1 DEF ExpectInv
  <2>4. CASE kind # "screen"
    <3>1. ReadSlice
      BY <1>16, <2>4 DEF ExpectTail
    <3>2. ~Matches(Visible(SubSeq(script, start + 1, off)))
      BY <1>0, <2>1, <2>4 DEF ExpectInv
    <3>3. answer'.kind = "ended" /\ files => ~Matches(Visible(SubSeq(script, start + 1, due)))
      BY <1>33, <1>34, <2>1, <2>2, <3>1, <3>2
    <3> QED BY <1>30, <2>1, <2>2, <2>4, <3>3 DEF ExpectInv
  <2> QED BY <2>3, <2>4
<1>17. CASE IdlePoll
  <2>1. /\ kind = "idle" /\ answer'.kind # "ended"
    BY <1>31, <1>17 DEF IdlePoll, At, Answer, Continue
  <2> QED BY <1>30, <2>1 DEF ExpectInv
<1>18. CASE IdleCheck
  <2>1. /\ kind = "idle" /\ answer'.kind # "ended"
    BY <1>31, <1>18 DEF IdleCheck, At, Answer, Continue
  <2> QED BY <1>30, <2>1 DEF ExpectInv
<1>19. CASE FollowRead
  <2>1. /\ kind = "follow" /\ answer'.kind # "ended"
    BY <1>31, <1>19 DEF FollowRead, At, Answer, Continue
  <2> QED BY <1>30, <2>1 DEF ExpectInv
<1>20. CASE FollowCheck
  <2>1. /\ kind = "follow" /\ answer'.kind # "ended"
    BY <1>31, <1>20 DEF FollowCheck, At, Answer, Continue
  <2> QED BY <1>30, <2>1 DEF ExpectInv
<1>21. CASE LogRead
  <2>1. /\ kind = "log" /\ answer'.kind # "ended"
    BY <1>31, <1>21 DEF LogRead, At, Answer, Continue
  <2> QED BY <1>30, <2>1 DEF ExpectInv
<1>22. CASE LogRows
  <2>1. /\ kind = "log" /\ answer'.kind # "ended"
    BY <1>31, <1>22 DEF LogRows, At, Answer, Continue
  <2> QED BY <1>30, <2>1 DEF ExpectInv
<1>23. CASE LogDone
  <2>1. /\ kind = "log" /\ answer'.kind # "ended"
    BY <1>31, <1>23 DEF LogDone, At, Answer, Continue
  <2> QED BY <1>30, <2>1 DEF ExpectInv
<1>24. CASE UNCHANGED vars
  BY <1>0, <1>30, <1>31, <1>32, <1>24
     DEF vars, reader, session, taken, ticks, ExpectInv, At, Answer, Continue
<1> QED BY <1>1, <1>2, <1>3, <1>4, <1>5, <1>6, <1>7, <1>8, <1>9, <1>10, <1>11, <1>12,
           <1>13, <1>14, <1>15, <1>16, <1>17, <1>18, <1>19, <1>20, <1>21, <1>22, <1>23,
           <1>24 DEF Next, Session, Reader

\* Every step keeps what an incremental reader has shown.
LEMMA SliceStep ==
    ASSUME Types, PlaceInv, SliceInv, [Next]_vars
    PROVE  SliceInv'
<1>0. script' = script /\ kind' = kind
  BY SessionFacts
<1>30. ASSUME start' = start, off' = off, text' = text PROVE SliceInv'
  BY <1>0, <1>30 DEF SliceInv, Sliceable, SliceExact
<1>31. ASSUME start' = start, off' = off, kind = "screen" PROVE SliceInv'
  BY <1>0, <1>31 DEF SliceInv, Sliceable, SliceExact
\* A slice is shown.
<1>32. ASSUME start' = start, ReadSlice, kind \in {"expect", "ask", "follow", "log"}
       PROVE  SliceInv'
  <2>1. CASE ~files
    <3>1. off' = off /\ text' = text
      BY <1>32, <2>1, SliceRead
    <3> QED BY <1>30, <1>32, <3>1
  <2>2. CASE files
    <3> SUFFICES ASSUME Sliceable'
                 PROVE  SliceExact' /\ Boundary(script, start, off')
      BY <1>0, <1>32 DEF SliceInv
    <3>1. WellFormed(script) /\ SliceExact /\ Boundary(script, start, off)
      BY <1>0, <1>32 DEF Sliceable, SliceInv
    <3> DEFINE unread == SubSeq(script, off + 1, written)
               safe == SafePrefix(unread)
    <3>2. off' = off + safe /\ text' = text \o Visible(SubSeq(unread, 1, safe))
      BY <1>32, <2>2, SliceRead
    <3>3. text = Visible(SubSeq(script, start + 1, off))
      BY <1>32, <3>1 DEF SliceExact
    <3>4. /\ Visible(SubSeq(script, start + 1, off)) \o Visible(SubSeq(unread, 1, safe)) =
                 Visible(SubSeq(script, start + 1, off + safe))
          /\ Boundary(script, start, off + safe)
      BY <3>1, Known, SliceNext
    <3> HIDE DEF safe, unread
    <3>5. text' = Visible(SubSeq(script, start + 1, off'))
      BY <3>2, <3>3, <3>4
    <3> QED BY <1>0, <1>32, <3>2, <3>4, <3>5 DEF SliceExact
  <2> QED BY <2>1, <2>2
\* A reader begins.
<1>33. ASSUME text' = <<>>, off' = start', start' \in Nat, start' <= written
       PROVE  SliceInv'
  <2>1. SubSeq(script, start' + 1, off') = <<>>
    <3> DEFINE x == start'
    <3>1. x \in Nat /\ off' = x
      BY <1>33
    <3> HIDE DEF x
    <3>2. x + 1 \in Int /\ x \in Int /\ x + 1 > x
      BY <3>1
    <3>3. SubSeq(script, x + 1, x) = <<>>
      BY <3>2, SubSeqEmpty
    <3> QED BY <3>1, <3>3 DEF x
  <2>2. SliceExact'
    BY <1>0, <1>33, <2>1, VisibleEmpty DEF SliceExact
  <2>3. start' <= Len(script)
    BY <1>33, Known
  <2>4. Sliceable' => Boundary(script, start', off')
    BY <1>0, <1>33, <2>3, Known, BoundaryFirst DEF Sliceable
  <2> QED BY <1>0, <2>2, <2>4 DEF SliceInv
<1>1. CASE Advance
  BY <1>30, <1>1 DEF Advance, reader, session, taken, ticks, At
<1>2. CASE Write
  BY <1>30, <1>2 DEF Write, reader, session, taken, ticks, At
<1>3. CASE RecordEnd
  BY <1>30, <1>3 DEF RecordEnd, reader, session, taken, ticks, At
<1>4. CASE WorkerGoes
  BY <1>30, <1>4 DEF WorkerGoes, reader, session, taken, ticks, At
<1>5. CASE Prune
  BY <1>30, <1>5 DEF Prune, reader, session, taken, ticks, At
<1>6. CASE Open
  <2>1. text' = <<>> /\ text = <<>>
    BY <1>6 DEF Open, PlaceInv
  <2>2. CASE ~files
    BY <1>30, <1>6, <2>1, <2>2 DEF Open
  <2>3. CASE files
    <3>1. start' \in {0, written} /\ off' = start'
      BY <1>6, <2>3 DEF Open
    <3> QED BY <1>33, <2>1, <3>1, Known
  <2> QED BY <2>2, <2>3
<1>7. CASE Deadline
  BY <1>30, <1>7 DEF Deadline, reader, session, taken, ticks, At
<1>8. CASE WaitStatus
  BY <1>30, <1>8 DEF WaitStatus, reader, session, taken, ticks, At
<1>9. CASE WaitOwner
  BY <1>30, <1>9 DEF WaitOwner, reader, session, taken, ticks, At
<1>10. CASE Connect
  BY <1>30, <1>10 DEF Connect, reader, session, taken, ticks, At
<1>11. CASE SendOffset
  <2>1. text' = <<>> /\ text = <<>>
    BY <1>11 DEF SendOffset, At, PlaceInv
  <2>2. CASE ~Serving
    BY <1>30, <1>11, <2>1, <2>2 DEF SendOffset
  <2>3. CASE Serving
    <3>1. start' \in {0, written} /\ off' = start'
      BY <1>11, <2>3 DEF SendOffset, LogLength
    <3> QED BY <1>33, <2>1, <3>1, Known
  <2> QED BY <2>2, <2>3
<1>12. CASE SendInput
  BY <1>30, <1>12 DEF SendInput, reader, session, taken, ticks, At
<1>13. CASE ExpectScan
  BY <1>32, <1>13 DEF ExpectScan, At
<1>14. CASE ScreenLook
  BY <1>31, <1>14 DEF ScreenLook, At
<1>15. CASE ExpectCheck
  BY <1>30, <1>15 DEF ExpectCheck, reader, session, taken, ticks, At
<1>16. CASE ExpectTail
  BY <1>31, <1>32, <1>16 DEF ExpectTail, At
<1>17. CASE IdlePoll
  BY <1>30, <1>17 DEF IdlePoll, reader, session, taken, ticks, At
<1>18. CASE IdleCheck
  BY <1>30, <1>18 DEF IdleCheck, reader, session, taken, ticks, At
<1>19. CASE FollowRead
  BY <1>32, <1>19 DEF FollowRead, At
<1>20. CASE FollowCheck
  BY <1>30, <1>20 DEF FollowCheck, reader, session, taken, ticks, At
<1>21. CASE LogRead
  BY <1>32, <1>21 DEF LogRead, At
<1>22. CASE LogRows
  BY <1>30, <1>22 DEF LogRows, reader, session, taken, ticks, At
<1>23. CASE LogDone
  BY <1>30, <1>23 DEF LogDone, reader, session, taken, ticks, At
<1>24. CASE UNCHANGED vars
  BY <1>30, <1>24 DEF vars, reader, session, taken, ticks, At
<1> QED BY <1>1, <1>2, <1>3, <1>4, <1>5, <1>6, <1>7, <1>8, <1>9, <1>10, <1>11, <1>12,
           <1>13, <1>14, <1>15, <1>16, <1>17, <1>18, <1>19, <1>20, <1>21, <1>22, <1>23,
           <1>24 DEF Next, Session, Reader

\* The invariant holds in every state.
THEOREM PollInvariant == Spec => []PollInv
<1>1. PollInv /\ [Next]_vars => PollInv'
  <2> SUFFICES ASSUME PollInv, [Next]_vars PROVE PollInv'
    OBVIOUS
  <2>1. Types /\ PlaceInv /\ ExpectInv /\ FollowInv /\ WaitInv /\ RowsAreTrue /\ SliceInv
    BY DEF PollInv
  <2> QED BY <2>1, TypesStep, PlaceStep, ExpectStep, FollowStep, WaitStep, RowsStep, SliceStep
          DEF PollInv
<1> QED BY <1>1, InitInv, PTL DEF Spec

\* Every variable stays in its type: no reader is behind what it began at or
\* ahead of what is logged.
THEOREM PollersTypes == Spec => []TypeOK
<1>1. PollInv => TypeOK
  BY DEF PollInv, Types
<1> QED BY <1>1, PollInvariant, PTL

\* A wait that is told of the end: it is not between its two reads, and what it
\* answers is the recorded code or that its time is up.
Told ==
    answer \in {[kind |-> "code", code |-> ExitCode], [kind |-> "timeout", code |-> 124]}
Waits ==
    /\ kind = "wait" /\ Finished /\ place # "owner"
    /\ answer # Nothing /\ files => Told

\* It remains so in every step.
LEMMA WaitsStep ==
    ASSUME PollInv, Waits, [Next]_vars
    PROVE  Waits'
<1>0. /\ Types /\ PlaceInv /\ kind = "wait" /\ Finished /\ place # "owner"
      /\ (answer # Nothing /\ files => Told) /\ (place = "done" <=> answer # Nothing)
  BY Known DEF PollInv, Waits
<1>1. kind' = kind /\ Finished' /\ status' = status /\ (files' => files)
  BY <1>0, SessionFacts
<1>2. ExitCode' = ExitCode
  BY <1>1 DEF ExitCode
<1>3. ASSUME UNCHANGED <<place, answer>> PROVE Waits'
  BY <1>0, <1>1, <1>2, <1>3 DEF Waits, Told, Nothing
<1>4. CASE Session
  <2>1. UNCHANGED <<place, answer>>
    BY <1>4 DEF Session, Advance, Write, RecordEnd, WorkerGoes, Prune, reader, session
  <2> QED BY <2>1, <1>3
<1>5. CASE Open
  <2>1. place' \in {"done", "poll"} /\ (files => place' = "poll" /\ answer' = answer)
    BY <1>0, <1>5 DEF Open, Answer, Continue
  <2>2. answer = Nothing
    BY <1>0, <1>5 DEF Open
  <2> QED BY <1>0, <1>1, <2>1, <2>2 DEF Waits, Nothing
<1>6. CASE Deadline
  <2>1. place' \in {"done", "poll"} /\ answer = Nothing
    BY <1>0, <1>6 DEF Deadline, Answer, Continue
  <2>2. answer' = [kind |-> "timeout", code |-> 124] \/ answer' = answer
    BY <1>6 DEF Deadline, Answer, Continue
  <2> QED BY <1>0, <1>1, <2>1, <2>2 DEF Waits, Told, Nothing
<1>7. CASE WaitStatus
  <2>1. answer = Nothing
    BY <1>0, <1>7 DEF WaitStatus, At
  <2>2. CASE IsFinished
    <3>1. place' = "done" /\ answer' = [kind |-> "code", code |-> ExitCode]
      BY <1>7, <2>2 DEF WaitStatus, Answer
    <3> QED BY <1>0, <1>1, <1>2, <3>1 DEF Waits, Told
  <2>3. CASE ~IsFinished
    <3>1. ~Readable
      BY <1>0, <2>3 DEF IsFinished
    <3>2. place' = "deadline" /\ answer' = answer
      BY <1>7, <2>3, <3>1 DEF WaitStatus, Continue
    <3> QED BY <1>0, <1>1, <2>1, <3>2 DEF Waits, Nothing
  <2> QED BY <2>2, <2>3
<1>8. ~WaitOwner
  BY <1>0 DEF WaitOwner, At
<1>9. ~(Connect \/ SendOffset \/ SendInput \/ ExpectScan \/ ScreenLook \/ ExpectCheck
         \/ ExpectTail)
  BY <1>0 DEF Connect, SendOffset, SendInput, ExpectScan, ScreenLook, ExpectCheck,
              ExpectTail, At
<1>10. ~(IdlePoll \/ IdleCheck \/ FollowRead \/ FollowCheck \/ LogRead \/ LogRows
          \/ LogDone)
  BY <1>0 DEF IdlePoll, IdleCheck, FollowRead, FollowCheck, LogRead, LogRows, LogDone, At
<1>11. CASE UNCHANGED vars
  <2>1. UNCHANGED <<place, answer>>
    BY <1>11 DEF vars, reader
  <2> QED BY <2>1, <1>3
<1> QED BY <1>4, <1>5, <1>6, <1>7, <1>8, <1>9, <1>10, <1>11 DEF Next, Reader

\* From the moment the end is recorded a wait answers the recorded code or that
\* its time is up, unless it is between its two reads at that moment or the
\* session is pruned.
THEOREM WaitIsTold == Spec => WaitIsTrue
<1> DEFINE P == kind = "wait" /\ place \notin {"owner", "done"} /\ Finished
           Q == answer # Nothing /\ files => Told
<1>1. PollInv /\ P => Waits
  <2>1. PollInv => (place = "done" <=> answer # Nothing)
    BY Known DEF PollInv
  <2> QED BY <2>1 DEF Waits
<1>2. PollInv /\ Waits /\ [Next]_vars => Waits'
  BY WaitsStep
<1>3. Waits => Q
  BY DEF Waits
<1>4. []PollInv /\ [][Next]_vars => [](P => []Q)
  <2> HIDE DEF P, Q
  <2> QED BY <1>1, <1>2, <1>3, PTL
<1>5. Spec => [](P => []Q)
  <2> HIDE DEF P, Q
  <2> QED BY <1>4, PollInvariant, PTL DEF Spec
<1> QED BY <1>5 DEF WaitIsTrue, Told

\* An expect that answers 1 has not missed anything that was logged before the
\* end was recorded, and one that follows a send begins before the input.
THEOREM ExpectIsTold == Spec => []ExpectIsTrue
<1>1. PollInv => ExpectIsTrue
  BY DEF PollInv, ExpectInv, PlaceInv, ExpectIsTrue, At
<1> QED BY <1>1, PollInvariant, PTL

\* A follower stops only when there is nothing left that was logged before the
\* end was recorded and can be shown.
THEOREM FollowIsComplete == Spec => []FollowComplete
<1>1. PollInv => FollowComplete
  BY DEF PollInv, FollowInv, FollowComplete
<1> QED BY <1>1, PollInvariant, PTL

\* The capture times of a slice are about its bytes, each byte once.
THEOREM RowsAreExact == Spec => []RowsAreTrue
<1>1. PollInv => RowsAreTrue
  BY DEF PollInv
<1> QED BY <1>1, PollInvariant, PTL

\* Of a log that can be sliced, an incremental reader shows what one read of
\* the same bytes shows.
THEOREM SlicesAreExact == Spec => [](Sliceable => SliceExact)
<1>1. PollInv => (Sliceable => SliceExact)
  BY DEF PollInv, SliceInv
<1> QED BY <1>1, PollInvariant, PTL
=============================================================================
