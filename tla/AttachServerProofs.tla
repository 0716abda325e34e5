-------------------------- MODULE AttachServerProofs --------------------------
(***************************************************************************)
(* What AttachServer guarantees for every script, every number of chunks   *)
(* and of detaches, crash and view command: its type correctness, that a   *)
(* terminal is told how its session went and has been shown it, and that   *)
(* the command gets what was typed.                                        *)
(***************************************************************************)
EXTENDS AttachServer, Recursion

-----------------------------------------------------------------------------
(***************************************************************************)
(* The detach filter: no byte is lost, repeated or reordered by it.        *)
(***************************************************************************)

Keys == Seq(Key)
Filters == [withheld : Keys, escape : Keys, out : Keys, hit : Keys]

\* Concatenation, by a name that the provers leave alone.
Cat(s, t) == s \o t

\* Everything a filter has been given and has not forwarded, after what it has.
Given(f) == Cat(f.out, Cat(f.withheld, Cat(f.escape, f.hit)))

\* n releases of the detach key.
Release == <<"esc", "[", "release", "u">>
Again(n) == [i \in 1 .. n * 4 |-> Release[1 + ((i - 1) % 4)]]

\* What a filter may hold back.
Pressed(s) == \E first \in Presses, n \in Nat : s = Cat(first, Again(n))
FilterInv(f) ==
    /\ f \in Filters
    /\ f.withheld = <<>> \/ Pressed(f.withheld)
    /\ f.hit # <<>> => f.hit \in Presses /\ f.escape = <<>> /\ f.withheld # <<>>

\* Concatenation of keys.
LEMMA KeysConcat ==
    /\ <<>> \in Keys
    /\ \A k \in Key : <<k>> \in Keys
    /\ \A s, t \in Keys : Cat(s, t) \in Keys
    /\ \A s \in Keys : Cat(s, <<>>) = s /\ Cat(<<>>, s) = s
<1>1. \A s, t \in Keys : s \o t \in Keys
  BY ConcatProperties DEF Keys
<1>2. \A s \in Keys : s \o <<>> = s /\ <<>> \o s = s
  BY ConcatEmptySeq DEF Keys
<1>3. <<>> \in Keys /\ \A k \in Key : <<k>> \in Keys
  BY DEF Keys
<1> QED BY <1>1, <1>2, <1>3 DEF Cat

\* Concatenation of keys is associative.
LEMMA KeysAssoc ==
    ASSUME NEW s \in Keys, NEW t \in Keys, NEW u \in Keys
    PROVE  Cat(Cat(s, t), u) = Cat(s, Cat(t, u))
BY ConcatAssociative DEF Keys, Cat

\* Two ways to put four runs of keys together.
LEMMA FourRuns ==
    ASSUME NEW s \in Keys, NEW t \in Keys, NEW u \in Keys, NEW v \in Keys
    PROVE  /\ Cat(Cat(s, t), Cat(u, v)) = Cat(Cat(s, Cat(t, u)), v)
           /\ Cat(s, Cat(t, Cat(u, v))) = Cat(Cat(s, Cat(t, u)), v)
<1>1. Cat(s, t) \in Keys /\ Cat(t, u) \in Keys /\ Cat(u, v) \in Keys
  BY KeysConcat
<1> QED BY <1>1, KeysAssoc

\* The presses are keys.
LEMMA PressesAreKeys == Presses \subseteq Keys /\ Release \in Keys
<1>1. <<"fs">> \in Seq(Key)
  BY DEF Key
<1>2. \A f \in {"u", "~"} : <<"esc", "[", "press", f>> \in Seq(Key)
  BY DEF Key
<1>3. <<"esc", "[", "release", "u">> \in Seq(Key)
  BY DEF Key
<1> QED BY <1>1, <1>2, <1>3 DEF Presses, Keys, Release

\* One more release.
LEMMA OnceMore ==
    /\ Again(0) = <<>>
    /\ \A n \in Nat : Again(n) \in Keys /\ Cat(Again(n), Release) = Again(n + 1)
<1>1. Again(0) = <<>>
  BY DEF Again
<1>2. ASSUME NEW n \in Nat PROVE Again(n) \in Keys /\ Cat(Again(n), Release) = Again(n + 1)
  <2>1. \A i \in 1 .. (n + 1) * 4 : 1 + ((i - 1) % 4) \in 1 .. 4
    OBVIOUS
  <2>2. Release \in Keys /\ Len(Release) = 4
    BY PressesAreKeys DEF Release
  <2>3. \A i \in 1 .. 4 : Release[i] \in Key
    BY DEF Release, Key
  <2>4. Again(n) \in Keys /\ Len(Again(n)) = n * 4
    BY <2>1, <2>3 DEF Again, Keys
  <2>5. Again(n + 1) \in Keys /\ Len(Again(n + 1)) = (n + 1) * 4
    BY <2>1, <2>3 DEF Again, Keys
  <2> DEFINE both == Again(n) \o Release
  <2>6. both \in Keys /\ Len(both) = (n + 1) * 4
    <3>1. Again(n) \in Seq(Key) /\ Release \in Seq(Key)
      BY <2>2, <2>4 DEF Keys
    <3>2. both \in Seq(Key) /\ Len(both) = Len(Again(n)) + Len(Release)
      BY <3>1, ConcatProperties
    <3> QED BY <3>2, <2>2, <2>4 DEF Keys
  <2>7. ASSUME NEW i \in 1 .. (n + 1) * 4 PROVE both[i] = Again(n + 1)[i]
    <3>1. Again(n + 1)[i] = Release[1 + ((i - 1) % 4)]
      BY DEF Again
    <3> HIDE DEF both
    <3>0. both[i] = IF i <= Len(Again(n)) THEN Again(n)[i] ELSE Release[i - Len(Again(n))]
      <4>1. Again(n) \in Seq(Key) /\ Release \in Seq(Key)
        BY <2>2, <2>4 DEF Keys
      <4>2. i \in 1 .. Len(Again(n)) + Len(Release)
        BY <2>2, <2>4
      <4> QED BY <4>1, <4>2, ConcatProperties DEF both
    <3>2. CASE i <= n * 4
      <4>1. both[i] = Again(n)[i]
        BY <3>0, <3>2, <2>4
      <4> QED BY <3>1, <3>2, <4>1 DEF Again
    <3>3. CASE i > n * 4
      <4>1. both[i] = Release[i - n * 4]
        BY <3>0, <3>3, <2>4
      <4>2. 1 + ((i - 1) % 4) = i - n * 4
        BY <3>3
      <4> QED BY <3>1, <4>1, <4>2
    <3> QED BY <3>2, <3>3
  <2> HIDE DEF both
  <2>8. both = Again(n + 1)
    BY <2>5, <2>6, <2>7, SeqEqual DEF Keys
  <2> QED BY <2>4, <2>8 DEF both, Cat
<1> QED BY <1>1, <1>2

\* The second press ends the search.
LEMMA TokenHit ==
    ASSUME NEW f, NEW token, token \in Presses, f.withheld # <<>>
    PROVE  Token(f, token) = [f EXCEPT !.hit = token]
<1>1. token \notin Releases
  BY DEF Presses, Releases
<1> QED BY <1>1 DEF Token

\* A complete token goes where its bytes still count, once.
LEMMA TokenExact ==
    ASSUME NEW f, FilterInv(f), f.hit = <<>>, f.escape = <<>>, NEW token \in Keys
    PROVE  FilterInv(Token(f, token)) /\ Given(Token(f, token)) = Cat(Given(f), token)
<1> DEFINE g == Token(f, token)
<1>1. f \in Filters /\ f.withheld \in Keys /\ f.out \in Keys /\ f.escape \in Keys /\ f.hit \in Keys
  BY DEF FilterInv, Filters
<1>2. Given(f) = Cat(f.out, f.withheld)
  BY <1>1, KeysConcat DEF Given
<1>3. <<>> \notin Presses
  BY DEF Presses
<1>4. CASE token \in Presses /\ f.withheld # <<>>
  <2>1. g = [f EXCEPT !.hit = token]
    BY <1>4, TokenHit
  <2>2. g \in Filters /\ g.hit = token /\ g.out = f.out /\ g.withheld = f.withheld /\ g.escape = <<>>
    BY <1>1, <2>1 DEF Filters
  <2>3. FilterInv(g)
    BY <1>4, <2>2 DEF FilterInv
  <2>4. Given(g) = Cat(f.out, Cat(f.withheld, token))
    BY <1>1, <2>2, KeysConcat DEF Given
  <2>5. Given(g) = Cat(Given(f), token)
    BY <1>1, <1>2, <2>4, KeysAssoc
  <2> QED BY <2>3, <2>5
<1>5. CASE token \in Presses /\ f.withheld = <<>>
  <2>1. g = [f EXCEPT !.withheld = token]
    BY <1>5 DEF Token
  <2>2. g \in Filters /\ g.hit = <<>> /\ g.out = f.out /\ g.withheld = token /\ g.escape = <<>>
    BY <1>1, <2>1 DEF Filters
  <2>3. Pressed(token)
    <3>1. token = Cat(token, Again(0))
      BY OnceMore, KeysConcat
    <3> QED BY <1>5, <3>1 DEF Pressed
  <2>4. FilterInv(g)
    BY <2>2, <2>3 DEF FilterInv
  <2>5. Given(g) = Cat(f.out, token)
    BY <1>1, <2>2, KeysConcat DEF Given
  <2>6. Cat(Given(f), token) = Cat(f.out, token)
    BY <1>1, <1>2, <1>5, KeysConcat
  <2> QED BY <2>4, <2>5, <2>6
<1>6. CASE token \notin Presses /\ token \in Releases /\ f.withheld # <<>>
           /\ Len(f.withheld) + Len(token) <= MaxWithheld
  <2>1. g = [f EXCEPT !.withheld = Cat(f.withheld, token)]
    BY <1>6 DEF Token, Cat
  <2>2. Cat(f.withheld, token) \in Keys
    BY <1>1, KeysConcat
  <2>3. g \in Filters /\ g.hit = <<>> /\ g.out = f.out /\ g.withheld = Cat(f.withheld, token)
        /\ g.escape = <<>>
    BY <1>1, <2>1, <2>2 DEF Filters
  <2>4. Pressed(g.withheld)
    <3>1. PICK first \in Presses, n \in Nat : f.withheld = Cat(first, Again(n))
      BY <1>6 DEF FilterInv, Pressed
    <3>2. token = Release
      BY <1>6 DEF Releases, Release
    <3>3. first \in Keys /\ Release \in Keys
      BY PressesAreKeys
    <3>4. Cat(Cat(first, Again(n)), Release) = Cat(first, Again(n + 1))
      BY <3>3, OnceMore, KeysAssoc
    <3>5. g.withheld = Cat(first, Again(n + 1))
      BY <2>3, <3>1, <3>2, <3>4
    <3> QED BY <3>5 DEF Pressed
  <2>5. FilterInv(g)
    BY <2>3, <2>4 DEF FilterInv
  <2>6. Given(g) = Cat(f.out, Cat(f.withheld, token))
    BY <1>1, <2>2, <2>3, KeysConcat DEF Given
  <2>7. Given(g) = Cat(Given(f), token)
    BY <1>1, <1>2, <2>6, KeysAssoc
  <2> QED BY <2>5, <2>7
<1>7. CASE token \notin Presses /\ ~(token \in Releases /\ f.withheld # <<>>
           /\ Len(f.withheld) + Len(token) <= MaxWithheld)
  <2>1. g = Other(f, token)
    BY <1>7 DEF Token
  <2>2. g = [f EXCEPT !.out = Cat(Cat(f.out, f.withheld), token), !.withheld = <<>>]
    BY <2>1 DEF Other, Cat
  <2>3. Cat(f.out, f.withheld) \in Keys /\ Cat(Cat(f.out, f.withheld), token) \in Keys
    BY <1>1, KeysConcat
  <2>4. g \in Filters /\ g.hit = <<>> /\ g.out = Cat(Cat(f.out, f.withheld), token)
        /\ g.withheld = <<>> /\ g.escape = <<>>
    BY <1>1, <2>2, <2>3, KeysConcat DEF Filters
  <2>5. FilterInv(g)
    BY <2>4 DEF FilterInv
  <2>6. Given(g) = Cat(Cat(f.out, f.withheld), token)
    BY <2>3, <2>4, KeysConcat DEF Given
  <2> QED BY <1>2, <2>5, <2>6
<1> QED BY <1>4, <1>5, <1>6, <1>7

\* One more byte is one more byte, unless the sequence is complete.
LEMMA FeedExact ==
    ASSUME NEW f, FilterInv(f), NEW byte \in Key
    PROVE  /\ FilterInv(Feed(f, byte))
           /\ f.hit = <<>> => Given(Feed(f, byte)) = Cat(Given(f), <<byte>>)
           /\ f.hit # <<>> => Feed(f, byte) = f
<1> DEFINE g == Feed(f, byte)
           seq == Append(f.escape, byte)
           bare == [f EXCEPT !.escape = <<>>]
<1>1. f \in Filters /\ f.withheld \in Keys /\ f.out \in Keys /\ f.escape \in Keys /\ f.hit \in Keys
  BY DEF FilterInv, Filters
<1>2. seq = Cat(f.escape, <<byte>>) /\ seq \in Keys /\ <<byte>> \in Keys
  BY <1>1, AppendIsConcat, AppendProperties, KeysConcat DEF Keys, Cat
<1>3. CASE f.hit # <<>>
  BY <1>3 DEF Feed
<1>4. CASE f.hit = <<>> /\ f.escape # <<>> /\ EscapeEnds(seq)
  <2>1. g = Token(bare, seq)
    BY <1>4 DEF Feed
  <2>2. bare \in Filters /\ bare.hit = <<>> /\ bare.escape = <<>> /\ bare.out = f.out
        /\ bare.withheld = f.withheld
    BY <1>1, <1>4, KeysConcat DEF Filters
  <2>3. FilterInv(bare)
    BY <2>2 DEF FilterInv
  <2> HIDE DEF bare, seq
  <2>4. FilterInv(g) /\ Given(g) = Cat(Given(bare), seq)
    BY <1>2, <2>1, <2>2, <2>3, TokenExact
  <2>5. Given(bare) = Cat(f.out, f.withheld)
    BY <1>1, <2>2, KeysConcat DEF Given
  <2>6. Given(f) = Cat(f.out, Cat(f.withheld, f.escape))
    BY <1>1, <1>4, KeysConcat DEF Given
  <2>7. Cat(Cat(f.out, f.withheld), Cat(f.escape, <<byte>>))
        = Cat(Cat(f.out, Cat(f.withheld, f.escape)), <<byte>>)
    <3> DEFINE o == f.out
               w == f.withheld
               e == f.escape
               b == <<byte>>
    <3>1. o \in Keys /\ w \in Keys /\ e \in Keys /\ b \in Keys
      BY <1>1, <1>2
    <3> HIDE DEF o, w, e, b
    <3>2. Cat(Cat(o, w), Cat(e, b)) = Cat(Cat(o, Cat(w, e)), b)
          /\ Cat(o, Cat(w, Cat(e, b))) = Cat(Cat(o, Cat(w, e)), b)
      BY <3>1, FourRuns
    <3> QED BY <3>2 DEF o, w, e, b
  <2> QED BY <1>2, <1>4, <2>4, <2>5, <2>6, <2>7
<1>5. CASE f.hit = <<>> /\ ~(f.escape # <<>> /\ EscapeEnds(seq))
           /\ (f.escape # <<>> \/ byte = "esc")
  <2>1. g = [f EXCEPT !.escape = seq]
    BY <1>5 DEF Feed
  <2>2. g \in Filters /\ g.hit = <<>> /\ g.escape = seq /\ g.out = f.out
        /\ g.withheld = f.withheld
    BY <1>1, <1>2, <1>5, <2>1 DEF Filters
  <2>3. FilterInv(g)
    BY <2>2 DEF FilterInv
  <2>4. Given(g) = Cat(f.out, Cat(f.withheld, Cat(f.escape, <<byte>>)))
    BY <1>1, <1>2, <2>2, KeysConcat DEF Given
  <2>5. Given(f) = Cat(f.out, Cat(f.withheld, f.escape))
    BY <1>1, <1>5, KeysConcat DEF Given
  <2>6. Cat(f.out, Cat(f.withheld, Cat(f.escape, <<byte>>)))
        = Cat(Cat(f.out, Cat(f.withheld, f.escape)), <<byte>>)
    <3> DEFINE o == f.out
               w == f.withheld
               e == f.escape
               b == <<byte>>
    <3>1. o \in Keys /\ w \in Keys /\ e \in Keys /\ b \in Keys
      BY <1>1, <1>2
    <3> HIDE DEF o, w, e, b
    <3>2. Cat(Cat(o, w), Cat(e, b)) = Cat(Cat(o, Cat(w, e)), b)
          /\ Cat(o, Cat(w, Cat(e, b))) = Cat(Cat(o, Cat(w, e)), b)
      BY <3>1, FourRuns
    <3> QED BY <3>2 DEF o, w, e, b
  <2> QED BY <1>5, <2>3, <2>4, <2>5, <2>6
<1>6. CASE f.hit = <<>> /\ f.escape = <<>> /\ byte # "esc"
  <2>1. g = Token(f, <<byte>>)
    BY <1>6 DEF Feed
  <2> QED BY <1>2, <1>6, <2>1, TokenExact
<1> QED BY <1>3, <1>4, <1>5, <1>6

\* Feeding byte after byte: FoldLeft visits what its recursion says it visits.
LEMMA FoldFeed ==
    ASSUME NEW b, NEW s \in Seq(Key)
    PROVE  \E g : /\ g[0] = b
                  /\ \A m \in 1 .. Len(s) : g[m] = Feed(g[m - 1], s[m])
                  /\ FoldLeft(Feed, b, s) = g[Len(s)]
<1> DEFINE Step(h, t) == IF t = {} THEN b ELSE Feed(h[t \ {Max(t)}], s[Max(t)])
           Rec(D, h) == h = [t \in SUBSET D |-> Step(h, t)]
           S == {n \in Nat : \E h : Rec(1 .. n, h)}
<1>1. FoldLeft(Feed, b, s) = (CHOOSE h : Rec(DOMAIN s, h))[DOMAIN s]
  BY DEF FoldLeft, MapThenFoldSet
<1>2. 0 \in S
  <2>1. Rec(1 .. 0, [t \in SUBSET (1 .. 0) |-> b])
    <3>1. \A t \in SUBSET (1 .. 0) : t = {} OBVIOUS
    <3> QED BY <3>1
  <2> QED BY <2>1
<1>3. \A n \in Nat : n \in S => n + 1 \in S
  <2> SUFFICES ASSUME NEW n \in Nat, NEW h, Rec(1 .. n, h)
               PROVE  \E k : Rec(1 .. n + 1, k)
    <3> HIDE DEF Rec
    <3> QED OBVIOUS
  <2> DEFINE k == [t \in SUBSET (1 .. n + 1) |->
                     IF n + 1 \in t THEN Feed(h[t \ {n + 1}], s[n + 1]) ELSE h[t]]
  <2>1. ASSUME NEW t \in SUBSET (1 .. n + 1)
        PROVE  k[t] = Step(k, t)
    <3>1. CASE n + 1 \in t
      <4>1. Max(t) = n + 1
        <5>1. t \in SUBSET Int /\ \A y \in t : y <= n + 1
          OBVIOUS
        <5> QED BY <3>1, <5>1, MaxTop
      <4>2. t \ {n + 1} \in SUBSET (1 .. n + 1) /\ n + 1 \notin t \ {n + 1}
        OBVIOUS
      <4>3. k[t \ {n + 1}] = h[t \ {n + 1}]
        BY <4>2
      <4>4. k[t] = Feed(h[t \ {n + 1}], s[n + 1])
        BY <3>1
      <4> HIDE DEF k
      <4> QED BY <3>1, <4>1, <4>3, <4>4
    <3>2. CASE n + 1 \notin t
      <4>1. t \in SUBSET (1 .. n)
        BY <3>2
      <4>2. h[t] = Step(h, t)
        <5> HIDE DEF Step
        <5> QED BY <4>1
      <4>3. t \ {Max(t)} \in SUBSET (1 .. n)
        BY <4>1
      <4>4. k[t \ {Max(t)}] = h[t \ {Max(t)}]
        BY <4>3
      <4>5. k[t] = h[t]
        BY <3>2
      <4> HIDE DEF k
      <4> QED BY <4>2, <4>4, <4>5
    <3> QED BY <3>1, <3>2
  <2>2. k = [t \in SUBSET (1 .. n + 1) |-> Step(k, t)]
    <3>1. k = [t \in SUBSET (1 .. n + 1) |-> k[t]]
      OBVIOUS
    <3> HIDE DEF k, Step
    <3> QED BY <2>1, <3>1
  <2> HIDE DEF k, Step
  <2> QED BY <2>2
<1>4. Len(s) \in S
  <2> HIDE DEF S
  <2> QED BY <1>2, <1>3, NatSetInduction, LenProperties
<1> DEFINE H == CHOOSE h : Rec(DOMAIN s, h)
           g == [m \in 0 .. Len(s) |-> H[1 .. m]]
<1>5. DOMAIN s = 1 .. Len(s) /\ Len(s) \in Nat
  OBVIOUS
<1>6. Rec(DOMAIN s, H)
  <2> HIDE DEF Rec
  <2> QED BY <1>4, <1>5
<1>7. \A t \in SUBSET (1 .. Len(s)) : H[t] = Step(H, t)
  <2> HIDE DEF Step, H
  <2> QED BY <1>5, <1>6
<1>8. g[0] = b
  <2> HIDE DEF H
  <2>1. 1 .. 0 = {} /\ {} \in SUBSET (1 .. Len(s))
    BY <1>5
  <2>2. H[{}] = b
    BY <1>7, <2>1
  <2> QED BY <1>5, <2>1, <2>2
<1>9. ASSUME NEW m \in 1 .. Len(s)
      PROVE  g[m] = Feed(g[m - 1], s[m])
  <2> HIDE DEF H
  <2>0. m \in Int /\ 1 <= m /\ m <= Len(s)
    BY <1>5
  <2>1. 1 .. m \in SUBSET (1 .. Len(s)) /\ 1 \in 1 .. m /\ m - 1 \in 0 .. Len(s)
    BY <1>5, <2>0
  <2>2. Max(1 .. m) = m
    <3>1. 1 .. m \in SUBSET Int /\ m \in 1 .. m /\ \A y \in 1 .. m : y <= m
      OBVIOUS
    <3> QED BY <3>1, MaxTop
  <2>3. (1 .. m) \ {m} = 1 .. m - 1
    OBVIOUS
  <2>4. H[1 .. m] = Feed(H[1 .. m - 1], s[m])
    BY <1>7, <2>1, <2>2, <2>3
  <2> QED BY <1>5, <2>1, <2>4
<1>10. FoldLeft(Feed, b, s) = g[Len(s)]
  <2> HIDE DEF H, Rec
  <2>1. FoldLeft(Feed, b, s) = H[DOMAIN s]
    BY <1>1 DEF H
  <2> QED BY <1>5, <2>1
<1> QED
  <2> HIDE DEF g
  <2> QED BY <1>8, <1>9, <1>10

\* A chunk is given to the filter byte after byte, up to the second press.
LEMMA PushExact ==
    ASSUME NEW f, FilterInv(f), f.hit = <<>>, NEW chunk \in Keys
    PROVE  /\ FilterInv(Push(f, chunk))
           /\ \E j \in 0 .. Len(chunk) :
                /\ Given(Push(f, chunk))
                   = Cat(Cat(f.withheld, f.escape), SubSeq(chunk, 1, j))
                /\ Push(f, chunk).hit = <<>> => j = Len(chunk)
<1> DEFINE b == [f EXCEPT !.out = <<>>]
           held == Cat(f.withheld, f.escape)
<1>1. f \in Filters /\ f.withheld \in Keys /\ f.escape \in Keys
  BY DEF FilterInv, Filters
<1>2. b \in Filters /\ b.out = <<>> /\ b.hit = <<>> /\ b.withheld = f.withheld
      /\ b.escape = f.escape
  BY <1>1, KeysConcat DEF Filters
<1>3. FilterInv(b)
  BY <1>2 DEF FilterInv
<1>4. held \in Keys /\ Given(b) = held
  BY <1>1, <1>2, KeysConcat DEF Given
<1>5. chunk \in Seq(Key) /\ Len(chunk) \in Nat
  BY DEF Keys
<1> HIDE DEF b, held
<1>6. PICK g : /\ g[0] = b
               /\ \A m \in 1 .. Len(chunk) : g[m] = Feed(g[m - 1], chunk[m])
               /\ FoldLeft(Feed, b, chunk) = g[Len(chunk)]
  BY <1>5, FoldFeed
<1> DEFINE Exact(m, j) == /\ Given(g[m]) = Cat(held, SubSeq(chunk, 1, j))
                          /\ g[m].hit = <<>> => j = m
           S == {m \in 0 .. Len(chunk) :
                   FilterInv(g[m]) /\ \E j \in 0 .. m : Exact(m, j)}
<1>7. 0 \in S
  <2>1. SubSeq(chunk, 1, 0) = <<>>
    BY SubSeqEmpty
  <2>2. Exact(0, 0)
    BY <1>4, <1>6, <2>1, KeysConcat
  <2> QED BY <1>3, <1>5, <1>6, <2>2
<1>8. ASSUME NEW m \in 0 .. Len(chunk) - 1, m \in S
      PROVE  m + 1 \in S
  <2>1. PICK j \in 0 .. m : Exact(m, j)
    BY <1>8
  <2>2. FilterInv(g[m])
    BY <1>8
  <2>3. g[m + 1] = Feed(g[m], chunk[m + 1]) /\ chunk[m + 1] \in Key
    BY <1>5, <1>6
  <2>4. FilterInv(g[m + 1])
    BY <2>2, <2>3, FeedExact
  <2>5. CASE g[m].hit # <<>>
    <3>1. g[m + 1] = g[m]
      BY <2>2, <2>3, <2>5, FeedExact
    <3>2. Exact(m + 1, j)
      BY <2>1, <2>5, <3>1
    <3> QED BY <1>5, <2>4, <3>2
  <2>6. CASE g[m].hit = <<>>
    <3>1. Given(g[m + 1]) = Cat(Given(g[m]), <<chunk[m + 1]>>)
      BY <2>2, <2>3, <2>6, FeedExact
    <3>2. j = m
      BY <2>1, <2>6
    <3>3. SubSeq(chunk, 1, m + 1) = Cat(SubSeq(chunk, 1, m), <<chunk[m + 1]>>)
      <4>1. 1 \in 1 .. Len(chunk) /\ m + 1 \in 1 .. Len(chunk) /\ m + 1 - 1 = m
        BY <1>5
      <4>2. SubSeq(chunk, 1, m + 1) = SubSeq(chunk, 1, (m + 1) - 1) \o <<chunk[m + 1]>>
        BY <1>5, <4>1, SubSeqRecursiveSecond
      <4> QED BY <4>1, <4>2 DEF Cat
    <3>4. SubSeq(chunk, 1, m) \in Keys /\ <<chunk[m + 1]>> \in Keys
      <4>1. \A i \in 1 .. m : chunk[i] \in Key
        BY <1>5
      <4>2. SubSeq(chunk, 1, m) \in Seq(Key)
        BY <4>1, SubSeqProperties
      <4> QED BY <2>3, <4>2, KeysConcat DEF Keys
    <3>5. Given(g[m + 1]) = Cat(held, SubSeq(chunk, 1, m + 1))
      <4>1. Given(g[m]) = Cat(held, SubSeq(chunk, 1, m))
        BY <2>1, <3>2
      <4>2. \A s, k \in Keys : Cat(Cat(held, s), k) = Cat(held, Cat(s, k))
        BY <1>4, KeysAssoc
      <4>3. Cat(Cat(held, SubSeq(chunk, 1, m)), <<chunk[m + 1]>>)
            = Cat(held, Cat(SubSeq(chunk, 1, m), <<chunk[m + 1]>>))
        BY <3>4, <4>2, Zenon
      <4> QED BY <3>1, <3>3, <4>1, <4>3
    <3>6. Exact(m + 1, m + 1)
      BY <3>5
    <3> QED BY <1>5, <2>4, <3>6
  <2> QED BY <2>5, <2>6
<1>9. Len(chunk) \in S
  <2>1. 0 .. Len(chunk) \subseteq S
    <3> HIDE DEF S
    <3> QED BY <1>5, <1>7, <1>8, RangeInduction
  <2> QED BY <1>5, <2>1
<1>10. Push(f, chunk) = g[Len(chunk)]
  BY <1>6 DEF Push, b
<1> QED BY <1>9, <1>10 DEF held

\* What is held of a sequence that was not completed in time is forwarded.
LEMMA FlushExact ==
    ASSUME NEW f, FilterInv(f), f.hit = <<>>
    PROVE  /\ FilterInv(Flush(f)) /\ Flush(f).hit = <<>>
           /\ Given(Flush(f)) = Cat(f.withheld, f.escape)
           /\ Given(Flush(f)) = Flush(f).out
<1> DEFINE g == Flush(f)
<1>1. f \in Filters /\ f.withheld \in Keys /\ f.escape \in Keys
  BY DEF FilterInv, Filters
<1>2. Cat(f.withheld, f.escape) \in Keys /\ Cat(<<>>, f.withheld) = f.withheld
  BY <1>1, KeysConcat
<1>3. g \in Filters /\ g.hit = <<>> /\ g.withheld = <<>> /\ g.escape = <<>>
      /\ g.out = Cat(Cat(<<>>, f.withheld), f.escape)
  BY <1>1, <1>2, KeysConcat DEF Flush, Other, Filters, Cat
<1>4. Given(g) = g.out
  BY <1>2, <1>3, KeysConcat DEF Given
<1>5. FilterInv(g)
  BY <1>3 DEF FilterInv
<1> QED BY <1>2, <1>3, <1>4, <1>5

-----------------------------------------------------------------------------
(***************************************************************************)
(* The inductive invariant.                                                *)
(***************************************************************************)

\* The types, but for the sequences of keys.
Types ==
    /\ worker \in {"starting", "serving", "ended", "killed"}
    /\ produced \in 0 .. MaxChunks[keys] /\ due \in 0 .. produced
    /\ end \in Endings \cup {NoEnd} /\ {announced, racing, flood} \subseteq BOOLEAN
    /\ detaches \in 0 .. MaxDetaches[keys] /\ slow \in BOOLEAN
    /\ srv \in {"none", "counted", "checked", "piped", "loop", "exit", "detach", "gone",
                "closed"}
    /\ attached = IF srv \in {"none", "closed"} THEN 0 ELSE 1
    /\ already \in BOOLEAN /\ {viewCmd, view, eof} \subseteq BOOLEAN
    /\ seen \in 0 .. detaches
    /\ last \in {"none", "exit", "detached"}
    /\ sent \in 0 .. (IF view THEN formatted ELSE produced)
    /\ shown \in 0 .. produced
    /\ fed \in 0 .. produced /\ formatted \in 0 .. fed
    /\ viewer \in {"none", "runs", "exited"}
    /\ place \in {"connect", "stream", "done"}
    /\ keys \in Scripts /\ typed \in 0 .. Len(keys)
    /\ answer.kind \in {"none", "exit", "eof", "detached", "keys", "log", "error"}
    /\ answer # Nothing <=> place = "done"

\* What handle_attach has done tells what it has seen: nothing is sent before
\* the loop, the exit follows the output unless it raced the poll of the output,
\* and who closes without a last frame knows that the client has left.
HandlerInv ==
    /\ srv \in {"none", "counted", "checked"} => sent = 0 /\ ~view
    /\ srv # "closed" => last = "none"
    /\ srv # "none" => place # "connect"
    /\ srv = "closed" /\ last = "none" => place = "done"
    /\ already => announced
    /\ announced => end.over
    /\ srv = "exit" /\ announced => view \/ racing \/ due <= sent
    /\ last = "exit" => announced /\ (view \/ racing \/ due <= sent)
    /\ last = "detached" => detaches > 0 \/ viewer = "exited"
    /\ worker = "ended" => slow \/ flood \/ srv \in {"none", "closed"}

\* What the terminal has been told is what it was sent last.
ToldInv ==
    /\ place # "done" => shown <= sent
    /\ answer.kind = "exit" => last = "exit" /\ shown = sent
    /\ answer.kind = "detached" => last = "detached"
    /\ answer.kind = "eof" => Down /\ (srv = "none" \/ slow \/ flood \/ worker = "killed")
    /\ answer.kind \in {"exit", "log"} => end.over /\ answer.code = ExitCode

\* What was typed is with the command, on its way, or held by the filter.
InputInv ==
    /\ FilterInv(filter) /\ wireIn \in Keys /\ pty \in Keys
    /\ place = "connect" => typed = 0 /\ filter = NoKeys
    /\ place # "done" =>
        /\ filter.hit = <<>>
        /\ Cat(Cat(pty, wireIn), Cat(filter.withheld, filter.escape)) = SubSeq(keys, 1, typed)
    /\ answer.kind = "keys" =>
        /\ filter.hit # <<>>
        /\ \E j \in 0 .. Len(keys) :
            Cat(Cat(pty, wireIn), Cat(filter.withheld, Cat(filter.escape, filter.hit)))
            = SubSeq(keys, 1, j)

AttachInv == Types /\ HandlerInv /\ ToldInv /\ InputInv

\* The constants are what they are assumed to be.
LEMMA Bounds ==
    /\ \A k \in Scripts : k \in Keys /\ MaxChunks[k] \in Nat /\ MaxDetaches[k] \in Nat
    /\ Codes \subseteq Nat
    /\ NoEnd.over = FALSE /\ \A e \in Endings : e.over = TRUE
<1>1. NoEnd.over = FALSE
  BY DEF NoEnd
<1>2. ASSUME NEW e \in Endings
      PROVE  e.over = TRUE
  <2>1. CASE e \in [code : Codes, killed : BOOLEAN, over : {TRUE}]
    BY <2>1
  <2>2. CASE e = [code |-> NoCode, killed |-> TRUE, over |-> TRUE]
    BY <2>2
  <2> QED BY <2>1, <2>2 DEF Endings
<1> QED BY <1>1, <1>2, AttachAssumption DEF Keys

\* Every step keeps the types.
LEMMA TypesNext ==
    ASSUME Types, HandlerInv, ToldInv, Next \/ UNCHANGED vars
    PROVE  Types'
<1>1. CASE Bind
  BY <1>1, Bounds DEF Bind, session, handler, pipe, client, attach, input, Types,
       HandlerInv, ToldInv, Nothing
<1>2. CASE Produce
  BY <1>2, Bounds DEF Produce, Down, session, handler, pipe, client, attach, input,
       Types, HandlerInv, ToldInv, Nothing
<1>3. CASE RecordEnd
  BY <1>3, Bounds DEF RecordEnd, session, handler, pipe, client, attach, input, Types,
       HandlerInv, ToldInv, Nothing
<1>4. CASE AnnounceExit
  BY <1>4, Bounds DEF AnnounceExit, session, handler, pipe, client, attach, input,
       Types, HandlerInv, ToldInv, Nothing
<1>5. CASE WorkerEnds
  BY <1>5, Bounds DEF WorkerEnds, session, handler, pipe, client, attach, input, Types,
       HandlerInv, ToldInv, Nothing
<1>6. CASE Crash
  BY <1>6, Bounds DEF Crash, Down, session, handler, pipe, client, attach, input, Types,
       HandlerInv, ToldInv, Nothing
<1>7. CASE Detach
  BY <1>7, Bounds DEF Detach, session, handler, pipe, client, attach, input, Types,
       HandlerInv, ToldInv, Nothing
<1>8. CASE Flood
  BY <1>8, Bounds DEF Flood, session, handler, pipe, client, attach, input, Types,
       HandlerInv, ToldInv, Nothing
<1>9. CASE Count
  BY <1>9, Bounds DEF Count, Goes, session, handler, pipe, client, attach, input, Types,
       HandlerInv, ToldInv, Nothing
<1>10. CASE LookAtExit
  BY <1>10, Bounds DEF LookAtExit, Goes, session, handler, pipe, client, attach, input,
       Types, HandlerInv, ToldInv, Nothing
<1>11. CASE Subscribe
  <2>1. view' \in BOOLEAN /\ viewCmd' = viewCmd /\ viewer' \in {"runs", "none"}
    BY <1>11 DEF Subscribe, Goes, Types
  <2>2. sent = 0 /\ formatted \in Nat /\ produced \in Nat
    BY <1>11, Bounds DEF Subscribe, Goes, Types, HandlerInv
  <2>3. sent' \in 0 .. (IF view' THEN formatted' ELSE produced')
    BY <1>11, <2>1, <2>2 DEF Subscribe, Goes, session
  <2> QED
    BY <1>11, <2>1, <2>3 DEF Subscribe, Goes, session, client, attach, input, Types
<1>12. CASE EnterLoop
  <2>1. CASE Leave("piped", "none")
    BY <1>12, <2>1, Bounds DEF Leave, Goes, session, client, attach, input, Types
  <2>2. CASE Goes("piped", "loop") /\ seen' = detaches
             /\ UNCHANGED <<attached, already, view, last, pipe>>
    BY <1>12, <2>2, Bounds DEF Goes, session, client, attach, input, pipe, Types
  <2> QED BY <1>12, <2>1, <2>2 DEF EnterLoop
<1>13. CASE LoopOutput
  BY <1>13, Bounds DEF LoopOutput, Pending, session, handler, pipe, client, attach,
       input, Types, HandlerInv, ToldInv, Nothing
<1>14. CASE LoopBroken
  BY <1>14, Bounds DEF LoopBroken, Leave, Goes, Gone, session, handler, pipe, client,
       attach, input, Types, HandlerInv, ToldInv, Nothing
<1>15. CASE LoopClosed
  BY <1>15, Bounds DEF LoopClosed, Leave, Goes, OutputClosed, Ready, session, handler,
       pipe, client, attach, input, Types, HandlerInv, ToldInv, Nothing
<1>16. CASE LoopQuiet
  BY <1>16, Bounds DEF LoopQuiet, Polls, Goes, Quiet, OutputClosed, Ready, Pending,
       session, handler, pipe, client, attach, input, Types, HandlerInv, ToldInv,
       Nothing
<1>17. CASE LoopExit
  <2>1. CASE Leave("exit", "exit")
    BY <2>1, Bounds DEF Leave, Goes, session, client, input, Types
  <2>2. CASE Polls("exit", "detach")
    BY <2>2, Bounds DEF Polls, Goes, session, client, input, pipe, Types
  <2> QED BY <1>17, <2>1, <2>2 DEF LoopExit
<1>18. CASE LoopDetach
  <2>1. CASE Leave("detach", "detached")
    BY <2>1, Bounds DEF Leave, Goes, session, client, input, Types
  <2>2. CASE Polls("detach", "gone")
    BY <2>2, Bounds DEF Polls, Goes, session, client, input, pipe, Types
  <2> QED BY <1>18, <2>1, <2>2 DEF LoopDetach
<1>19. CASE LoopGone
  <2>1. CASE Leave("gone", "none")
    BY <2>1, Bounds DEF Leave, Goes, session, client, input, Types
  <2>2. CASE Polls("gone", "loop")
    BY <2>2, Bounds DEF Polls, Goes, session, client, input, pipe, Types
  <2> QED BY <1>19, <2>1, <2>2 DEF LoopGone
<1>20. CASE FeedView
  BY <1>20, Bounds DEF FeedView, Piped, session, handler, pipe, client, attach, input,
       Types, HandlerInv, ToldInv, Nothing
<1>21. CASE CloseView
  BY <1>21, Bounds DEF CloseView, Piped, session, handler, pipe, client, attach, input,
       Types, HandlerInv, ToldInv, Nothing
<1>22. CASE Format
  BY <1>22, Bounds DEF Format, Piped, session, handler, pipe, client, attach, input,
       Types, HandlerInv, ToldInv, Nothing
<1>23. CASE ViewEnds
  BY <1>23, Bounds DEF ViewEnds, Piped, session, handler, pipe, client, attach, input,
       Types, HandlerInv, ToldInv, Nothing
<1>24. CASE ReadInput
  BY <1>24, Bounds DEF ReadInput, session, handler, pipe, client, attach, input, Types,
       HandlerInv, ToldInv, Nothing
<1>25. CASE Connect
  BY <1>25, Bounds DEF Connect, session, handler, pipe, client, attach, input, Types,
       HandlerInv, ToldInv, Nothing
<1>26. CASE ConnectFinished
  BY <1>26, Bounds DEF ConnectFinished, Ends, session, handler, pipe, client, attach,
       input, Types, HandlerInv, ToldInv, Nothing
<1>27. CASE ConnectGivesUp
  BY <1>27, Bounds DEF ConnectGivesUp, Ends, session, handler, pipe, client, attach,
       input, Types, HandlerInv, ToldInv, Nothing
<1>28. CASE ShowOutput
  BY <1>28, Bounds DEF ShowOutput, Streaming, session, handler, pipe, client, attach,
       input, Types, HandlerInv, ToldInv, Nothing
<1>29. CASE ReadLast
  BY <1>29, Bounds DEF ReadLast, Ends, Streaming, session, handler, pipe, client,
       attach, input, Types, HandlerInv, ToldInv, Nothing
<1>30. CASE ReadEof
  BY <1>30, Bounds DEF ReadEof, Ends, Streaming, Broken, Down, session, handler, pipe,
       client, attach, input, Types, HandlerInv, ToldInv, Nothing
<1>31. CASE ReadKeys
  BY <1>31, Bounds DEF ReadKeys, Streaming, Forward, Ends, Continues, session, handler,
       pipe, client, attach, input, Types, HandlerInv, ToldInv, Nothing
<1>32. CASE EscapeTimeout
  BY <1>32, Bounds DEF EscapeTimeout, Streaming, Forward, Ends, Continues, session,
       handler, pipe, client, attach, input, Types, HandlerInv, ToldInv, Nothing
<1>33. CASE UNCHANGED vars
  BY <1>33 DEF vars, session, handler, pipe, client, attach, input, Types, HandlerInv,
       ToldInv, Nothing
<1> QED
  BY <1>1, <1>2, <1>3, <1>4, <1>5, <1>6, <1>7, <1>8, <1>9, <1>10, <1>11, <1>12, <1>13,
       <1>14, <1>15, <1>16, <1>17, <1>18, <1>19, <1>20, <1>21, <1>22, <1>23, <1>24,
       <1>25, <1>26, <1>27, <1>28, <1>29, <1>30, <1>31, <1>32, <1>33
     DEF Next, Ending, Handler, Viewer, Reading, Over

\* Every step keeps what is known of handle_attach.
LEMMA HandlerNext ==
    ASSUME Types, HandlerInv, Next \/ UNCHANGED vars
    PROVE  HandlerInv'
<1>1. CASE Bind
  BY <1>1, Bounds DEF Bind, session, handler, pipe, client, attach, input, Types,
       HandlerInv
<1>2. CASE Produce
  BY <1>2, Bounds DEF Produce, Down, session, handler, pipe, client, attach, input,
       Types, HandlerInv
<1>3. CASE RecordEnd
  BY <1>3, Bounds DEF RecordEnd, session, handler, pipe, client, attach, input, Types,
       HandlerInv
<1>4. CASE AnnounceExit
  BY <1>4, Bounds DEF AnnounceExit, session, handler, pipe, client, attach, input,
       Types, HandlerInv
<1>5. CASE WorkerEnds
  BY <1>5, Bounds DEF WorkerEnds, session, handler, pipe, client, attach, input, Types,
       HandlerInv
<1>6. CASE Crash
  BY <1>6, Bounds DEF Crash, Down, session, handler, pipe, client, attach, input, Types,
       HandlerInv
<1>7. CASE Detach
  BY <1>7, Bounds DEF Detach, session, handler, pipe, client, attach, input, Types,
       HandlerInv
<1>8. CASE Flood
  BY <1>8, Bounds DEF Flood, Down, session, handler, pipe, client, attach, input,
       Types, HandlerInv
<1>9. CASE Count
  BY <1>9, Bounds DEF Count, Goes, session, handler, pipe, client, attach, input, Types,
       HandlerInv
<1>10. CASE LookAtExit
  BY <1>10, Bounds DEF LookAtExit, Goes, session, handler, pipe, client, attach, input,
       Types, HandlerInv
<1>11. CASE Subscribe
  BY <1>11, Bounds DEF Subscribe, Goes, session, handler, pipe, client, attach, input,
       Types, HandlerInv
<1>12. CASE EnterLoop
  BY <1>12, Bounds DEF EnterLoop, Leave, Goes, Gone, session, handler, pipe, client,
       attach, input, Types, HandlerInv
<1>13. CASE LoopOutput
  BY <1>13, Bounds DEF LoopOutput, Pending, session, handler, pipe, client, attach,
       input, Types, HandlerInv
<1>14. CASE LoopBroken
  BY <1>14, Bounds DEF LoopBroken, Leave, Goes, Gone, session, handler, pipe, client,
       attach, input, Types, HandlerInv
<1>15. CASE LoopClosed
  BY <1>15, Bounds DEF LoopClosed, Leave, Goes, OutputClosed, Ready, session, handler,
       pipe, client, attach, input, Types, HandlerInv
<1>16. CASE LoopQuiet
  BY <1>16, Bounds DEF LoopQuiet, Polls, Goes, Quiet, OutputClosed, Ready, Pending,
       session, handler, pipe, client, attach, input, Types, HandlerInv
<1>17. CASE LoopExit
  BY <1>17, Bounds DEF LoopExit, Leave, Polls, Goes, session, handler, pipe, client,
       attach, input, Types, HandlerInv
<1>18. CASE LoopDetach
  BY <1>18, Bounds DEF LoopDetach, Leave, Polls, Goes, session, handler, pipe, client,
       attach, input, Types, HandlerInv
<1>19. CASE LoopGone
  BY <1>19, Bounds DEF LoopGone, Leave, Polls, Goes, Gone, session, handler, pipe,
       client, attach, input, Types, HandlerInv
<1>20. CASE FeedView
  BY <1>20, Bounds DEF FeedView, Piped, session, handler, pipe, client, attach, input,
       Types, HandlerInv
<1>21. CASE CloseView
  BY <1>21, Bounds DEF CloseView, Piped, session, handler, pipe, client, attach, input,
       Types, HandlerInv
<1>22. CASE Format
  BY <1>22, Bounds DEF Format, Piped, session, handler, pipe, client, attach, input,
       Types, HandlerInv
<1>23. CASE ViewEnds
  BY <1>23, Bounds DEF ViewEnds, Piped, session, handler, pipe, client, attach, input,
       Types, HandlerInv
<1>24. CASE ReadInput
  BY <1>24, Bounds DEF ReadInput, session, handler, pipe, client, attach, input, Types,
       HandlerInv
<1>25. CASE Connect
  BY <1>25, Bounds DEF Connect, session, handler, pipe, client, attach, input, Types,
       HandlerInv
<1>26. CASE ConnectFinished
  BY <1>26, Bounds DEF ConnectFinished, Ends, session, handler, pipe, client, attach,
       input, Types, HandlerInv
<1>27. CASE ConnectGivesUp
  BY <1>27, Bounds DEF ConnectGivesUp, Ends, session, handler, pipe, client, attach,
       input, Types, HandlerInv
<1>28. CASE ShowOutput
  BY <1>28, Bounds DEF ShowOutput, Streaming, session, handler, pipe, client, attach,
       input, Types, HandlerInv
<1>29. CASE ReadLast
  BY <1>29, Bounds DEF ReadLast, Ends, Streaming, session, handler, pipe, client,
       attach, input, Types, HandlerInv
<1>30. CASE ReadEof
  BY <1>30, Bounds DEF ReadEof, Ends, Streaming, Broken, Down, session, handler, pipe,
       client, attach, input, Types, HandlerInv
<1>31. CASE ReadKeys
  BY <1>31, Bounds DEF ReadKeys, Streaming, Forward, Ends, Continues, session, handler,
       pipe, client, attach, input, Types, HandlerInv
<1>32. CASE EscapeTimeout
  BY <1>32, Bounds DEF EscapeTimeout, Streaming, Forward, Ends, Continues, session,
       handler, pipe, client, attach, input, Types, HandlerInv
<1>33. CASE UNCHANGED vars
  BY <1>33 DEF vars, session, handler, pipe, client, attach, input, Types, HandlerInv
<1> QED
  BY <1>1, <1>2, <1>3, <1>4, <1>5, <1>6, <1>7, <1>8, <1>9, <1>10, <1>11, <1>12, <1>13,
       <1>14, <1>15, <1>16, <1>17, <1>18, <1>19, <1>20, <1>21, <1>22, <1>23, <1>24,
       <1>25, <1>26, <1>27, <1>28, <1>29, <1>30, <1>31, <1>32, <1>33
     DEF Next, Ending, Handler, Viewer, Reading, Over

\* Every step keeps what is known of the terminal.
LEMMA ToldNext ==
    ASSUME Types, HandlerInv, ToldInv, Next \/ UNCHANGED vars
    PROVE  ToldInv'
<1>1. CASE Bind
  BY <1>1, Bounds DEF Bind, session, handler, pipe, client, attach, input, Types,
       HandlerInv, ToldInv, Nothing, Down, ExitCode
<1>2. CASE Produce
  BY <1>2, Bounds DEF Produce, Down, session, handler, pipe, client, attach, input,
       Types, HandlerInv, ToldInv, Nothing, Down, ExitCode
<1>3. CASE RecordEnd
  BY <1>3, Bounds DEF RecordEnd, session, handler, pipe, client, attach, input, Types,
       HandlerInv, ToldInv, Nothing, Down, ExitCode
<1>4. CASE AnnounceExit
  BY <1>4, Bounds DEF AnnounceExit, session, handler, pipe, client, attach, input,
       Types, HandlerInv, ToldInv, Nothing, Down, ExitCode
<1>5. CASE WorkerEnds
  BY <1>5, Bounds DEF WorkerEnds, session, handler, pipe, client, attach, input, Types,
       HandlerInv, ToldInv, Nothing, Down, ExitCode
<1>6. CASE Crash
  BY <1>6, Bounds DEF Crash, Down, session, handler, pipe, client, attach, input, Types,
       HandlerInv, ToldInv, Nothing, Down, ExitCode
<1>7. CASE Detach
  BY <1>7, Bounds DEF Detach, session, handler, pipe, client, attach, input, Types,
       HandlerInv, ToldInv, Nothing, Down, ExitCode
<1>8. CASE Flood
  BY <1>8, Bounds DEF Flood, session, handler, pipe, client, attach, input, Types,
       HandlerInv, ToldInv, Nothing, Down, ExitCode
<1>9. CASE Count
  BY <1>9, Bounds DEF Count, Goes, session, handler, pipe, client, attach, input, Types,
       HandlerInv, ToldInv, Nothing, Down, ExitCode
<1>10. CASE LookAtExit
  BY <1>10, Bounds DEF LookAtExit, Goes, session, handler, pipe, client, attach, input,
       Types, HandlerInv, ToldInv, Nothing, Down, ExitCode
<1>11. CASE Subscribe
  BY <1>11, Bounds DEF Subscribe, Goes, session, handler, pipe, client, attach, input,
       Types, HandlerInv, ToldInv, Nothing, Down, ExitCode
<1>12. CASE EnterLoop
  BY <1>12, Bounds DEF EnterLoop, Leave, Goes, Gone, session, handler, pipe, client,
       attach, input, Types, HandlerInv, ToldInv, Nothing, Down, ExitCode
<1>13. CASE LoopOutput
  BY <1>13, Bounds DEF LoopOutput, Pending, session, handler, pipe, client, attach,
       input, Types, HandlerInv, ToldInv, Nothing, Down, ExitCode
<1>14. CASE LoopBroken
  BY <1>14, Bounds DEF LoopBroken, Leave, Goes, Gone, session, handler, pipe, client,
       attach, input, Types, HandlerInv, ToldInv, Nothing, Down, ExitCode
<1>15. CASE LoopClosed
  BY <1>15, Bounds DEF LoopClosed, Leave, Goes, OutputClosed, Ready, session, handler,
       pipe, client, attach, input, Types, HandlerInv, ToldInv, Nothing, Down, ExitCode
<1>16. CASE LoopQuiet
  BY <1>16, Bounds DEF LoopQuiet, Polls, Goes, Quiet, OutputClosed, Ready, Pending,
       session, handler, pipe, client, attach, input, Types, HandlerInv, ToldInv,
       Nothing, Down, ExitCode
<1>17. CASE LoopExit
  BY <1>17, Bounds DEF LoopExit, Leave, Polls, Goes, session, handler, pipe, client,
       attach, input, Types, HandlerInv, ToldInv, Nothing, Down, ExitCode
<1>18. CASE LoopDetach
  BY <1>18, Bounds DEF LoopDetach, Leave, Polls, Goes, session, handler, pipe, client,
       attach, input, Types, HandlerInv, ToldInv, Nothing, Down, ExitCode
<1>19. CASE LoopGone
  BY <1>19, Bounds DEF LoopGone, Leave, Polls, Goes, Gone, session, handler, pipe,
       client, attach, input, Types, HandlerInv, ToldInv, Nothing, Down, ExitCode
<1>20. CASE FeedView
  BY <1>20, Bounds DEF FeedView, Piped, session, handler, pipe, client, attach, input,
       Types, HandlerInv, ToldInv, Nothing, Down, ExitCode
<1>21. CASE CloseView
  BY <1>21, Bounds DEF CloseView, Piped, session, handler, pipe, client, attach, input,
       Types, HandlerInv, ToldInv, Nothing, Down, ExitCode
<1>22. CASE Format
  BY <1>22, Bounds DEF Format, Piped, session, handler, pipe, client, attach, input,
       Types, HandlerInv, ToldInv, Nothing, Down, ExitCode
<1>23. CASE ViewEnds
  BY <1>23, Bounds DEF ViewEnds, Piped, session, handler, pipe, client, attach, input,
       Types, HandlerInv, ToldInv, Nothing, Down, ExitCode
<1>24. CASE ReadInput
  BY <1>24, Bounds DEF ReadInput, session, handler, pipe, client, attach, input, Types,
       HandlerInv, ToldInv, Nothing, Down, ExitCode
<1>25. CASE Connect
  BY <1>25, Bounds DEF Connect, session, handler, pipe, client, attach, input, Types,
       HandlerInv, ToldInv, Nothing, Down, ExitCode
<1>26. CASE ConnectFinished
  BY <1>26, Bounds DEF ConnectFinished, Ends, session, handler, pipe, client, attach,
       input, Types, HandlerInv, ToldInv, Nothing, Down, ExitCode
<1>27. CASE ConnectGivesUp
  BY <1>27, Bounds DEF ConnectGivesUp, Ends, session, handler, pipe, client, attach,
       input, Types, HandlerInv, ToldInv, Nothing, Down, ExitCode
<1>28. CASE ShowOutput
  BY <1>28, Bounds DEF ShowOutput, Streaming, session, handler, pipe, client, attach,
       input, Types, HandlerInv, ToldInv, Nothing, Down, ExitCode
<1>29. CASE ReadLast
  BY <1>29, Bounds DEF ReadLast, Ends, Streaming, session, handler, pipe, client,
       attach, input, Types, HandlerInv, ToldInv, Nothing, Down, ExitCode
<1>30. CASE ReadEof
  BY <1>30, Bounds DEF ReadEof, Ends, Streaming, Broken, Down, session, handler, pipe,
       client, attach, input, Types, HandlerInv, ToldInv, Nothing, Down, ExitCode
<1>31. CASE ReadKeys
  BY <1>31, Bounds DEF ReadKeys, Streaming, Forward, Ends, Continues, session, handler,
       pipe, client, attach, input, Types, HandlerInv, ToldInv, Nothing, Down, ExitCode
<1>32. CASE EscapeTimeout
  BY <1>32, Bounds DEF EscapeTimeout, Streaming, Forward, Ends, Continues, session,
       handler, pipe, client, attach, input, Types, HandlerInv, ToldInv, Nothing, Down,
       ExitCode
<1>33. CASE UNCHANGED vars
  BY <1>33 DEF vars, session, handler, pipe, client, attach, input, Types, HandlerInv,
       ToldInv, Nothing, Down, ExitCode
<1> QED
  BY <1>1, <1>2, <1>3, <1>4, <1>5, <1>6, <1>7, <1>8, <1>9, <1>10, <1>11, <1>12, <1>13,
       <1>14, <1>15, <1>16, <1>17, <1>18, <1>19, <1>20, <1>21, <1>22, <1>23, <1>24,
       <1>25, <1>26, <1>27, <1>28, <1>29, <1>30, <1>31, <1>32, <1>33
     DEF Next, Ending, Handler, Viewer, Reading, Over

\* What is typed and the filter made of it.
LEMMA KeysRead ==
    ASSUME Types, InputInv, ReadKeys
    PROVE  InputInv'
<1> DEFINE passed == Cat(pty, wireIn)
           held == Cat(filter.withheld, filter.escape)
<1>1. PICK n \in typed + 1 .. Len(keys) :
           typed' = n /\ filter' = Push(filter, SubSeq(keys, typed + 1, n))
  BY DEF ReadKeys
<1> DEFINE chunk == SubSeq(keys, typed + 1, n)
           out == filter'.out
           rest == Cat(filter'.withheld, Cat(filter'.escape, filter'.hit))
<1>2. /\ keys \in Keys /\ Len(keys) \in Nat /\ typed \in 0 .. Len(keys) /\ n \in 1 .. Len(keys)
      /\ \A i \in 1 .. Len(keys) : keys[i] \in Key
  BY <1>1, Bounds DEF Types, Keys
<1>3. chunk \in Keys /\ Len(chunk) = n - typed
  <2>1. \A i \in typed + 1 .. n : keys[i] \in Key
    BY <1>1, <1>2
  <2> QED BY <1>1, <1>2, <2>1, SubSeqProperties DEF Keys
<1>4. /\ place = "stream" /\ FilterInv(filter) /\ filter.hit = <<>>
      /\ Cat(passed, held) = SubSeq(keys, 1, typed)
      /\ pty \in Keys /\ wireIn \in Keys
  BY DEF ReadKeys, Streaming, InputInv
<1> HIDE DEF chunk
<1>5. PICK j \in 0 .. Len(chunk) :
           /\ Given(filter') = Cat(held, SubSeq(chunk, 1, j))
           /\ filter'.hit = <<>> => j = Len(chunk)
  BY <1>1, <1>3, <1>4, PushExact DEF chunk
<1>6. FilterInv(filter')
  BY <1>1, <1>3, <1>4, PushExact DEF chunk
<1>7. /\ passed \in Keys /\ held \in Keys /\ out \in Keys /\ rest \in Keys
      /\ Given(filter') = Cat(out, rest) /\ SubSeq(chunk, 1, j) \in Keys
  <2>1. filter.withheld \in Keys /\ filter.escape \in Keys
    BY <1>4 DEF FilterInv, Filters
  <2>2. /\ filter'.withheld \in Keys /\ filter'.escape \in Keys /\ filter'.out \in Keys
        /\ filter'.hit \in Keys
    BY <1>6 DEF FilterInv, Filters
  <2>3. SubSeq(chunk, 1, j) \in Keys
    <3>1. \A i \in 1 .. j : chunk[i] \in Key
      BY <1>3, <1>5 DEF Keys
    <3> QED BY <1>5, <3>1, SubSeqProperties DEF Keys
  <2> QED BY <1>4, <2>1, <2>2, <2>3, KeysConcat DEF Given
<1>8. UNCHANGED <<pty, keys>>
  BY DEF ReadKeys, handler
<1>9. Cat(SubSeq(keys, 1, typed), SubSeq(chunk, 1, j)) = SubSeq(keys, 1, typed + j)
  <2>1. j \in Nat /\ j <= n - typed
    BY <1>3, <1>5
  <2>2. CASE j = 0
    <3>1. SubSeq(chunk, 1, 0) = <<>> /\ SubSeq(keys, 1, typed) \in Keys
      <4>1. \A i \in 1 .. typed : keys[i] \in Key
        BY <1>2
      <4> QED BY <1>2, <4>1, SubSeqEmpty, SubSeqProperties DEF Keys
    <3>2. Cat(SubSeq(keys, 1, typed), <<>>) = SubSeq(keys, 1, typed)
      BY <3>1, KeysConcat
    <3>3. typed + j = typed
      BY <1>2, <2>2
    <3> QED BY <2>2, <3>1, <3>2, <3>3
  <2>3. CASE j > 0
    <3>1. SubSeq(chunk, 1, j) = SubSeq(keys, typed + 1, typed + j)
      <4>1. /\ typed + 1 \in 1 .. Len(keys) /\ 1 \in 1 .. n - (typed + 1) + 1
            /\ j \in 1 .. n - (typed + 1) + 1
        BY <1>1, <1>2, <2>1, <2>3
      <4>2. SubSeq(chunk, 1, j) = SubSeq(keys, typed + 1 + 1 - 1, typed + 1 + j - 1)
        BY <1>2, <1>3, <4>1, SubSeqOfSubSeq DEF chunk, Keys
      <4> QED BY <1>2, <2>1, <4>2
    <3>2. /\ 1 \in 1 .. Len(keys) + 1 /\ typed \in 1 - 1 .. Len(keys)
          /\ typed + j \in typed .. Len(keys)
      BY <1>1, <1>2, <2>1
    <3>3. SubSeq(keys, 1, typed) \o SubSeq(keys, typed + 1, typed + j)
          = SubSeq(keys, 1, typed + j)
      BY <1>2, <3>2, ConcatAdjacentSubSeq DEF Keys
    <3> QED BY <3>1, <3>3 DEF Cat
  <2> QED BY <2>1, <2>2, <2>3
<1>10. Cat(Cat(passed, out), rest) = SubSeq(keys, 1, typed + j)
  <2> HIDE DEF passed, held, out, rest
  <2>1. Cat(Cat(passed, out), rest) = Cat(passed, Cat(out, rest))
    BY <1>7, KeysAssoc
  <2>2. Cat(out, rest) = Cat(held, SubSeq(chunk, 1, j))
    BY <1>5, <1>7
  <2>3. Cat(passed, Cat(held, SubSeq(chunk, 1, j))) = Cat(Cat(passed, held), SubSeq(chunk, 1, j))
    BY <1>7, KeysAssoc
  <2> QED BY <1>4, <1>9, <2>1, <2>2, <2>3
<1>11. CASE UNCHANGED wireIn /\ Ends("error", NoCode)
  BY <1>4, <1>6, <1>8, <1>11 DEF InputInv, Ends
<1>12. CASE wireIn' = Cat(wireIn, out)
           /\ IF filter'.hit # <<>> THEN Ends("keys", 0) ELSE Continues
  <2>1. wireIn' \in Keys /\ Cat(pty', wireIn') = Cat(passed, out)
    BY <1>4, <1>7, <1>8, <1>12, KeysAssoc, KeysConcat
  <2>2. CASE filter'.hit # <<>>
    <3>1. typed + j \in 0 .. Len(keys')
      BY <1>1, <1>2, <1>3, <1>5, <1>8
    <3>2. Cat(Cat(pty', wireIn'), rest) = SubSeq(keys', 1, typed + j)
      BY <1>8, <1>10, <2>1
    <3> QED BY <1>4, <1>6, <1>8, <1>12, <2>1, <2>2, <3>1, <3>2 DEF InputInv, Ends
  <2>3. CASE filter'.hit = <<>>
    <3>1. rest = Cat(filter'.withheld, filter'.escape)
      <4>1. filter'.escape \in Keys
        BY <1>6 DEF FilterInv, Filters
      <4> QED BY <2>3, <4>1, KeysConcat
    <3>2. typed + j = typed'
      BY <1>1, <1>2, <1>3, <1>5, <2>3
    <3>3. Cat(Cat(pty', wireIn'), Cat(filter'.withheld, filter'.escape))
          = SubSeq(keys', 1, typed')
      BY <1>8, <1>10, <2>1, <3>1, <3>2
    <3>4. place' = "stream" /\ answer' = answer
      BY <1>4, <1>12, <2>3 DEF Continues
    <3>5. answer.kind # "keys"
      BY <1>4 DEF InputInv
    <3> QED BY <1>4, <1>6, <1>8, <2>1, <2>3, <3>3, <3>4, <3>5 DEF InputInv
  <2> QED BY <2>2, <2>3
<1> QED BY <1>11, <1>12 DEF ReadKeys, Forward, Cat

\* A sequence that was not completed is forwarded.
LEMMA EscapeFlushed ==
    ASSUME Types, InputInv, EscapeTimeout
    PROVE  InputInv'
<1> DEFINE passed == Cat(pty, wireIn)
           held == Cat(filter.withheld, filter.escape)
           out == filter'.out
<1>1. /\ place = "stream" /\ FilterInv(filter) /\ filter.hit = <<>>
      /\ Cat(passed, held) = SubSeq(keys, 1, typed)
      /\ pty \in Keys /\ wireIn \in Keys /\ answer.kind # "keys"
      /\ filter' = Flush(filter) /\ UNCHANGED <<pty, keys, typed>>
  BY DEF EscapeTimeout, Streaming, InputInv, handler
<1>2. /\ FilterInv(filter') /\ filter'.hit = <<>>
      /\ Given(filter') = held /\ Given(filter') = out
  BY <1>1, FlushExact
<1>3. /\ filter'.withheld \in Keys /\ filter'.escape \in Keys /\ out \in Keys
      /\ filter.withheld \in Keys /\ filter.escape \in Keys
  BY <1>1, <1>2 DEF FilterInv, Filters
<1>4. passed \in Keys /\ held \in Keys /\ Cat(filter'.withheld, filter'.escape) \in Keys
  BY <1>1, <1>3, KeysConcat
<1>5. CASE UNCHANGED wireIn /\ Ends("error", NoCode)
  BY <1>1, <1>2, <1>5 DEF InputInv, Ends
<1>6. CASE wireIn' = Cat(wireIn, out) /\ Continues
  <2>1. wireIn' \in Keys /\ Cat(pty', wireIn') = Cat(passed, out)
    <3>1. \A k \in Keys : Cat(wireIn, k) \in Keys /\ Cat(pty, Cat(wireIn, k)) = Cat(passed, k)
      BY <1>1, KeysAssoc, KeysConcat
    <3> QED BY <1>1, <1>3, <1>6, <3>1
  <2>2. Given(filter') = Cat(out, Cat(filter'.withheld, filter'.escape))
    BY <1>2, <1>3, KeysConcat DEF Given
  <2>3. Cat(Cat(passed, out), Cat(filter'.withheld, filter'.escape))
        = Cat(passed, Given(filter'))
    BY <1>3, <1>4, <2>2, KeysAssoc
  <2>4. place' = place /\ answer' = answer
    BY <1>6 DEF Continues
  <2> QED BY <1>1, <1>2, <2>1, <2>3, <2>4 DEF InputInv
<1> QED BY <1>5, <1>6 DEF EscapeTimeout, Forward, Cat

\* Every step keeps what is known of the input.
LEMMA InputNext ==
    ASSUME Types, InputInv, Next \/ UNCHANGED vars
    PROVE  InputInv'
<1>1. CASE Bind
  BY <1>1 DEF Bind, session, handler, pipe, client, attach, input, InputInv
<1>2. CASE Produce
  BY <1>2 DEF Produce, Down, session, handler, pipe, client, attach, input, InputInv
<1>3. CASE RecordEnd
  BY <1>3 DEF RecordEnd, session, handler, pipe, client, attach, input, InputInv
<1>4. CASE AnnounceExit
  BY <1>4 DEF AnnounceExit, session, handler, pipe, client, attach, input, InputInv
<1>5. CASE WorkerEnds
  BY <1>5 DEF WorkerEnds, session, handler, pipe, client, attach, input, InputInv
<1>6. CASE Crash
  BY <1>6 DEF Crash, Down, session, handler, pipe, client, attach, input, InputInv
<1>7. CASE Detach
  BY <1>7 DEF Detach, session, handler, pipe, client, attach, input, InputInv
<1>8. CASE Flood
  BY <1>8 DEF Flood, session, handler, pipe, client, attach, input, InputInv
<1>9. CASE Count
  BY <1>9 DEF Count, Goes, session, handler, pipe, client, attach, input, InputInv
<1>10. CASE LookAtExit
  BY <1>10 DEF LookAtExit, Goes, session, handler, pipe, client, attach, input, InputInv
<1>11. CASE Subscribe
  BY <1>11 DEF Subscribe, Goes, session, handler, pipe, client, attach, input, InputInv
<1>12. CASE EnterLoop
  BY <1>12 DEF EnterLoop, Leave, Goes, Gone, session, handler, pipe, client, attach,
       input, InputInv
<1>13. CASE LoopOutput
  BY <1>13 DEF LoopOutput, Pending, session, handler, pipe, client, attach, input,
       InputInv
<1>14. CASE LoopBroken
  BY <1>14 DEF LoopBroken, Leave, Goes, Gone, session, handler, pipe, client, attach,
       input, InputInv
<1>15. CASE LoopClosed
  BY <1>15 DEF LoopClosed, Leave, Goes, OutputClosed, Ready, session, handler, pipe,
       client, attach, input, InputInv
<1>16. CASE LoopQuiet
  BY <1>16 DEF LoopQuiet, Polls, Goes, Quiet, OutputClosed, Ready, Pending, session,
       handler, pipe, client, attach, input, InputInv
<1>17. CASE LoopExit
  BY <1>17 DEF LoopExit, Leave, Polls, Goes, session, handler, pipe, client, attach,
       input, InputInv
<1>18. CASE LoopDetach
  BY <1>18 DEF LoopDetach, Leave, Polls, Goes, session, handler, pipe, client, attach,
       input, InputInv
<1>19. CASE LoopGone
  BY <1>19 DEF LoopGone, Leave, Polls, Goes, Gone, session, handler, pipe, client,
       attach, input, InputInv
<1>20. CASE FeedView
  BY <1>20 DEF FeedView, Piped, session, handler, pipe, client, attach, input, InputInv
<1>21. CASE CloseView
  BY <1>21 DEF CloseView, Piped, session, handler, pipe, client, attach, input, InputInv
<1>22. CASE Format
  BY <1>22 DEF Format, Piped, session, handler, pipe, client, attach, input, InputInv
<1>23. CASE ViewEnds
  BY <1>23 DEF ViewEnds, Piped, session, handler, pipe, client, attach, input, InputInv
<1>24. CASE ReadInput
  <2>1. pty' = Cat(pty, wireIn) /\ wireIn' = <<>> /\ UNCHANGED <<place, keys, typed,
       filter, answer>>
    BY <1>24 DEF ReadInput, Cat
  <2>2. pty' \in Keys /\ wireIn' \in Keys /\ Cat(pty', wireIn') = Cat(pty, wireIn)
    BY <2>1, KeysConcat DEF InputInv
  <2> QED BY <2>1, <2>2 DEF InputInv
<1>25. CASE Connect
  BY <1>25 DEF Connect, session, handler, pipe, client, attach, input, InputInv
<1>26. CASE ConnectFinished
  BY <1>26 DEF ConnectFinished, Ends, session, handler, pipe, client, attach, input,
       InputInv
<1>27. CASE ConnectGivesUp
  BY <1>27 DEF ConnectGivesUp, Ends, session, handler, pipe, client, attach, input,
       InputInv
<1>28. CASE ShowOutput
  BY <1>28 DEF ShowOutput, Streaming, session, handler, pipe, client, attach, input,
       InputInv
<1>29. CASE ReadLast
  BY <1>29 DEF ReadLast, Ends, Streaming, session, handler, pipe, client, attach, input,
       InputInv
<1>30. CASE ReadEof
  BY <1>30 DEF ReadEof, Ends, Streaming, Broken, Down, session, handler, pipe, client,
       attach, input, InputInv
<1>31. CASE ReadKeys
  BY <1>31, KeysRead
<1>32. CASE EscapeTimeout
  BY <1>32, EscapeFlushed
<1>33. CASE UNCHANGED vars
  BY <1>33 DEF vars, session, handler, pipe, client, attach, input, InputInv
<1> QED
  BY <1>1, <1>2, <1>3, <1>4, <1>5, <1>6, <1>7, <1>8, <1>9, <1>10, <1>11, <1>12, <1>13,
       <1>14, <1>15, <1>16, <1>17, <1>18, <1>19, <1>20, <1>21, <1>22, <1>23, <1>24,
       <1>25, <1>26, <1>27, <1>28, <1>29, <1>30, <1>31, <1>32, <1>33
     DEF Next, Ending, Handler, Viewer, Reading, Over

-----------------------------------------------------------------------------
(***************************************************************************)
(* The theorems.                                                           *)
(***************************************************************************)

\* The invariant holds at first.
LEMMA InitInv == Init => AttachInv
<1> SUFFICES ASSUME Init PROVE AttachInv
  OBVIOUS
<1>1. Types
  <2>1. keys \in Scripts /\ MaxChunks[keys] \in Nat /\ MaxDetaches[keys] \in Nat
    BY Bounds DEF Init
  <2>2. Len(keys) \in Nat
    BY <2>1, Bounds DEF Keys
  <2>3. 0 \in 0 .. (IF view THEN formatted ELSE produced)
    BY DEF Init
  <2>4. /\ attached = IF srv \in {"none", "closed"} THEN 0 ELSE 1
        /\ {viewCmd, view, eof} \subseteq BOOLEAN
        /\ answer.kind = "none" /\ (answer # Nothing <=> place = "done")
    BY DEF Init, Nothing
  <2>5. /\ produced \in 0 .. MaxChunks[keys] /\ due \in 0 .. produced
        /\ detaches \in 0 .. MaxDetaches[keys] /\ seen \in 0 .. detaches
        /\ sent \in 0 .. (IF view THEN formatted ELSE produced)
        /\ shown \in 0 .. produced /\ fed \in 0 .. produced /\ formatted \in 0 .. fed
        /\ typed \in 0 .. Len(keys)
    BY <2>1, <2>2, <2>3 DEF Init
  <2>6. end \in Endings \cup {NoEnd}
    BY DEF Init
  <2> QED BY <2>1, <2>4, <2>5, <2>6 DEF Init, Types
<1>2. HandlerInv
  BY Bounds DEF Init, HandlerInv
<1>3. ToldInv
  BY DEF Init, ToldInv, Nothing
<1>4. InputInv
  <2>1. NoKeys \in Filters /\ NoKeys.withheld = <<>> /\ NoKeys.escape = <<>> /\ NoKeys.hit = <<>>
    BY KeysConcat DEF NoKeys, Filters
  <2>2. FilterInv(NoKeys)
    BY <2>1 DEF FilterInv
  <2>3. Cat(Cat(<<>>, <<>>), Cat(<<>>, <<>>)) = <<>>
    BY KeysConcat
  <2>4. SubSeq(keys, 1, 0) = <<>>
    BY SubSeqEmpty
  <2> QED BY <2>1, <2>2, <2>3, <2>4, KeysConcat DEF Init, InputInv, Nothing
<1> QED BY <1>1, <1>2, <1>3, <1>4 DEF AttachInv

\* The invariant holds in every reachable state.
THEOREM AttachInvariant == Spec => []AttachInv
<1>1. AttachInv /\ [Next]_vars => AttachInv'
  BY TypesNext, HandlerNext, ToldNext, InputNext DEF AttachInv
<1> QED BY InitInv, <1>1, PTL DEF Spec

\* Every variable of the worker, the view command and the terminal keeps its type
\* (control.rs, handle_attach; attach.rs, attach_to).
THEOREM AttachTypes == Spec => []AttachTypeOK
<1>1. AttachInv => AttachTypeOK
  BY DEF AttachInv, Types, InputInv, FilterInv, Filters, Keys, AttachTypeOK
<1> QED BY AttachInvariant, <1>1, PTL

\* A client that is told the exit has been shown all that was written before it,
\* unless the exit was announced between the polls of the output and of the exit;
\* and nobody who was counted is left behind by a worker that waits for its
\* clients, unless 2 s are too short for what he is sent (control.rs,
\* handle_attach; run.rs, serve_worker).
THEOREM ExitIsWhole == Spec => []ExitWhole
<1>1. AttachInv => ExitWhole
  <2> SUFFICES ASSUME AttachInv, ~view, shown < due
               PROVE  /\ answer.kind = "exit" => racing
                      /\ answer.kind = "eof" /\ srv # "none" =>
                            slow \/ flood \/ worker = "killed"
    BY DEF ExitWhole
  <2>1. answer.kind = "exit" => racing
    <3>1. /\ answer.kind = "exit" => last = "exit" /\ shown = sent
          /\ last = "exit" => view \/ racing \/ due <= sent
      BY DEF AttachInv, HandlerInv, ToldInv
    <3>2. shown \in Int /\ sent \in Int /\ due \in Int
      BY Bounds DEF AttachInv, Types
    <3> QED BY <3>1, <3>2
  <2>2. answer.kind = "eof" /\ srv # "none" => slow \/ flood \/ worker = "killed"
    BY DEF AttachInv, ToldInv
  <2> QED BY <2>1, <2>2
<1> QED BY AttachInvariant, <1>1, PTL

\* What a terminal is told of the end of its session is what was recorded
\* (attach.rs, attach_to; control.rs, handle_attach).
THEOREM ClientIsToldTheTruth == Spec => []ClientTruth
<1>1. AttachInv => ClientTruth
  BY DEF AttachInv, HandlerInv, ToldInv, ClientTruth
<1> QED BY AttachInvariant, <1>1, PTL

\* The command gets the keys that were typed, once and in order, whatever was
\* read at a time and whenever the filter gave up waiting; what ends a client is
\* the detach sequence (attach.rs, DetachFilter and attach_to).
THEOREM InputIsExact == Spec => []InputExact
<1>1. AttachInv => InputExact
  <2> SUFFICES ASSUME AttachInv PROVE InputExact
    OBVIOUS
  <2> DEFINE passed == pty \o wireIn
             held == filter.withheld \o filter.escape
             release == CHOOSE r \in Releases : TRUE
             again(n) == [i \in 1 .. n * Len(release) |-> release[1 + ((i - 1) % Len(release))]]
  <2>1. /\ filter.withheld \in Keys /\ filter.escape \in Keys /\ filter.hit \in Keys
        /\ filter.out \in Keys /\ wireIn \in Keys /\ pty \in Keys
    BY DEF AttachInv, InputInv, FilterInv, Filters
  <2>2. Streaming => passed \o held = SubSeq(keys, 1, typed)
    BY DEF AttachInv, InputInv, Streaming, Cat
  <2>3. ASSUME answer.kind = "keys"
        PROVE  IsPrefix(passed \o held \o filter.hit, keys)
    <3>1. PICK j \in 0 .. Len(keys) :
              Cat(Cat(pty, wireIn), Cat(filter.withheld, Cat(filter.escape, filter.hit)))
              = SubSeq(keys, 1, j)
      BY <2>3 DEF AttachInv, InputInv
    <3>2. Cat(Cat(Cat(pty, wireIn), Cat(filter.withheld, filter.escape)), filter.hit)
          = SubSeq(keys, 1, j)
      <4>1. Cat(pty, wireIn) \in Keys /\ Cat(filter.withheld, filter.escape) \in Keys
        BY <2>1, KeysConcat
      <4>2. Cat(Cat(filter.withheld, filter.escape), filter.hit)
            = Cat(filter.withheld, Cat(filter.escape, filter.hit))
        BY <2>1, KeysAssoc
      <4>3. Cat(Cat(Cat(pty, wireIn), Cat(filter.withheld, filter.escape)), filter.hit)
            = Cat(Cat(pty, wireIn), Cat(Cat(filter.withheld, filter.escape), filter.hit))
        BY <2>1, <4>1, KeysAssoc
      <4> QED BY <3>1, <4>2, <4>3
    <3>3. passed \o held \o filter.hit = SubSeq(keys, 1, j)
      BY <3>2 DEF Cat
    <3> HIDE DEF passed, held
    <3>4. keys \in Seq(Key) /\ Len(keys) \in Nat
      BY Bounds DEF AttachInv, Types, Keys
    <3>5. /\ Len(SubSeq(keys, 1, j)) = j
          /\ SubSeq(SubSeq(keys, 1, j), 1, j) = SubSeq(keys, 1, j)
      <4>1. SubSeq(keys, 1, j) \in Seq(Key) /\ Len(SubSeq(keys, 1, j)) = j
        <5>1. \A i \in 1 .. j : keys[i] \in Key
          BY <3>4
        <5> QED BY <5>1, SubSeqProperties
      <4> QED BY <4>1, SubSeqFull
    <3> QED BY <3>3, <3>4, <3>5 DEF IsPrefix
  <2>4. ASSUME answer.kind = "keys"
        PROVE  \E first \in Presses, n \in 0 .. Len(held) : held = first \o again(n)
    <3>1. filter.escape = <<>> /\ Pressed(filter.withheld)
      BY <2>4 DEF AttachInv, InputInv, FilterInv
    <3>2. PICK first \in Presses, n \in Nat : filter.withheld = Cat(first, Again(n))
      BY <3>1 DEF Pressed
    <3>3. release = Release /\ Len(Release) = 4
      <4>1. Releases = {Release} /\ Len(Release) = 4
        BY DEF Releases, Release
      <4> QED BY <4>1
    <3>4. again(n) = Again(n)
      <4> HIDE DEF release
      <4> QED BY <3>3 DEF Again
    <3>5. held = filter.withheld
      BY <2>1, <3>1, KeysConcat DEF Cat
    <3>6. n \in 0 .. Len(held)
      <4>1. first \in Seq(Key) /\ Again(n) \in Seq(Key)
        BY PressesAreKeys, OnceMore DEF Keys
      <4>2. Len(first \o Again(n)) = Len(first) + Len(Again(n))
        BY <4>1, ConcatProperties
      <4>3. Len(Again(n)) = n * 4 /\ Len(first) \in Nat
        BY <4>1 DEF Again
      <4> QED BY <3>2, <3>5, <4>2, <4>3 DEF Cat
    <3>7. held = first \o again(n)
      BY <3>2, <3>4, <3>5 DEF Cat
    <3> QED BY <3>6, <3>7
  <2> QED BY <2>2, <2>3, <2>4 DEF InputExact
<1> QED BY AttachInvariant, <1>1, PTL
=============================================================================
