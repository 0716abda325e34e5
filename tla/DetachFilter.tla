---------------------------- MODULE DetachFilter ----------------------------
(***************************************************************************)
(* What an attached terminal makes of the keys typed at it: they are       *)
(* forwarded, but for the detach sequence, Ctrl-\ pressed twice, in the    *)
(* legacy form of one byte or as an enhanced key event (attach.rs).        *)
(*                                                                         *)
(* A byte is known by its class.  "fs" is the legacy Ctrl-\; "press" and   *)
(* "release" stand for the parameters that follow ESC [ in an enhanced     *)
(* Ctrl-\, "key" for any other letter.                                     *)
(***************************************************************************)
EXTENDS Integers, Sequences, SequencesExt

CONSTANTS
    MaxEscape,      \* 128: a longer escape sequence is not waited for
    MaxWithheld     \* MAX_WITHHELD_INPUT

ASSUME FilterAssumption == MaxEscape \in Nat /\ MaxWithheld \in Nat

Key == {"fs", "esc", "[", "press", "release", "u", "~", "key"}
EndsCsi == {"u", "~", "key", "["}

Presses == {<<"fs">>} \cup {<<"esc", "[", "press", f>> : f \in {"u", "~"}}
Releases == {<<"esc", "[", "release", "u">>}

\* The filter: the first press and what belongs to it, a sequence that is not
\* complete, what is forwarded of the present chunk, and the second press.
NoKeys == [withheld |-> <<>>, escape |-> <<>>, out |-> <<>>, hit |-> <<>>]

\* handle_other: it was no detach sequence after all.
Other(f, token) == [f EXCEPT !.out = @ \o f.withheld \o token, !.withheld = <<>>]

\* Mutant: what was withheld is forgotten.
Token_Swallow(f, token) ==
    CASE token \in Presses /\ f.withheld # <<>> -> [f EXCEPT !.hit = token]
      [] token \in Presses /\ f.withheld = <<>> -> [f EXCEPT !.withheld = token]
      [] token \in Releases /\ f.withheld # <<>> -> [f EXCEPT !.withheld = @ \o token]
      [] OTHER -> [f EXCEPT !.out = @ \o token, !.withheld = <<>>]

\* handle_token and enhanced_detach_event.
Token(f, token) ==
    CASE token \in Presses /\ f.withheld # <<>> -> [f EXCEPT !.hit = token]
      [] token \in Presses /\ f.withheld = <<>> -> [f EXCEPT !.withheld = token]
      [] /\ token \in Releases /\ f.withheld # <<>>
         /\ Len(f.withheld) + Len(token) <= MaxWithheld
            -> [f EXCEPT !.withheld = @ \o token]
      [] OTHER -> Other(f, token)

\* An escape sequence ends if it is no CSI, with its final byte, or too long.
EscapeEnds(seq) ==
    \/ Len(seq) = 2 /\ Last(seq) # "["
    \/ Len(seq) >= 3 /\ Last(seq) \in EndsCsi
    \/ Len(seq) > MaxEscape

\* One byte of what is read.
Feed(f, byte) ==
    LET seq == Append(f.escape, byte)
        inside == f.escape # <<>> IN
    IF f.hit # <<>> THEN f
    ELSE IF inside /\ EscapeEnds(seq) THEN Token([f EXCEPT !.escape = <<>>], seq)
    ELSE IF inside \/ byte = "esc" THEN [f EXCEPT !.escape = seq]
    ELSE Token(f, <<byte>>)

\* push: byte after byte, and nothing after the second press.
Push(f, chunk) == FoldLeft(Feed, [f EXCEPT !.out = <<>>], chunk)

\* flush_partial_escape.
Flush(f) == Other([f EXCEPT !.out = <<>>, !.escape = <<>>], f.escape)
=============================================================================
