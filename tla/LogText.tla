------------------------------- MODULE LogText -------------------------------
(***************************************************************************)
(* What the readers of output.log make of its bytes: how much of a log     *)
(* that is still being written may be shown, what is visible of it, and    *)
(* the capture times of a part of it (sub.rs).                             *)
(*                                                                         *)
(* A byte is known by its class.  "mark" stands for what a reader looks    *)
(* for; like "text" it also ends an escape sequence.  "lead" and "cont"    *)
(* are the two bytes of one character.                                     *)
(***************************************************************************)
EXTENDS Integers, Sequences, SequencesExt

Byte == {"text", "mark", "digit", "esc", "[", "]", "(", "bel", "O", "\\", "lead", "cont"}
Finals == {"text", "mark", "[", "]", "O", "\\"}     \* 0x40 ..= 0x7e

\* Mutant: an escape sequence ends with its introducer.
EscapeComplete_Short(tail) == Len(tail) >= 2

\* escape_complete: does the run that begins with ESC hold its terminator?
EscapeComplete(tail) ==
    LET rest == SubSeq(tail, 3, Len(tail)) IN
    /\ Len(tail) >= 2
    /\ tail[2] = "[" => \E i \in DOMAIN rest : rest[i] \in Finals
    /\ tail[2] = "]" => "bel" \in ToSet(rest)
    /\ tail[2] = "O" => rest # <<>>

\* The bytes are good but for the last, which begins a character that has not
\* been written completely; after a bad byte it is taken for another bad byte.
EndsInsideChar(bytes) ==
    /\ bytes # <<>> /\ Last(bytes) = "lead"
    /\ \A i \in DOMAIN bytes :
          bytes[i] = "cont" <=> i > 1 /\ bytes[i - 1] = "lead"

\* safe_prefix_len: an unterminated escape and a truncated character are held
\* back.
SafePrefix(bytes) ==
    LET escapes == {i \in DOMAIN bytes : bytes[i] = "esc"}
        last == CHOOSE i \in escapes : \A j \in escapes : j <= i
        end == IF escapes = {} \/ EscapeComplete(SubSeq(bytes, last, Len(bytes)))
               THEN Len(bytes) ELSE last - 1
    IN  IF EndsInsideChar(SubSeq(bytes, 1, end)) THEN end - 1 ELSE end

\* Characters are whole, and an escape that has begun goes on as one of the
\* forms that escape_complete tells apart.  On other logs it may take for
\* complete what is not.
WellFormed(bytes) ==
    \A i \in DOMAIN bytes :
        /\ bytes[i] = "cont" <=> i > 1 /\ bytes[i - 1] = "lead"
        /\ i > 1 /\ bytes[i - 1] = "esc" =>
              bytes[i] \in {"esc", "[", "]", "O", "\\", "text", "mark", "digit"}

-----------------------------------------------------------------------------
\* What is left of bytes without escape sequences, characters decoded: the
\* automaton of a terminal.  Half a character is shown as "bad".
States == {"ground", "char", "escape", "csi", "osc", "charset"}
Ignored == {"lead", "cont", "bel"}      \* in an escape that has just begun

Opens(byte) ==
    CASE byte = "["       -> "csi"
      [] byte = "]"       -> "osc"
      [] byte = "("       -> "charset"
      [] byte \in Ignored -> "escape"
      [] OTHER            -> "ground"

After(s, byte) ==
    IF byte = "esc" THEN "escape"
    ELSE CASE s = "escape"  -> Opens(byte)
           [] s = "csi"     -> IF byte \in Finals THEN "ground" ELSE "csi"
           [] s = "osc"     -> IF byte = "bel" THEN "ground" ELSE "osc"
           [] s = "charset" -> IF byte \in Ignored \cup {"("} THEN "charset" ELSE "ground"
           [] OTHER         -> IF byte = "lead" THEN "char" ELSE "ground"

Shown(s, byte) ==
    CASE s \notin {"ground", "char"}   -> <<>>
      [] s = "char" /\ byte = "cont"   -> <<"char">>
      [] s = "ground" /\ byte = "cont" -> <<"bad">>
      [] OTHER -> (IF s = "char" THEN <<"bad">> ELSE <<>>) \o
                  (IF byte \in {"esc", "lead", "bel"} THEN <<>> ELSE <<byte>>)

\* The state after each number of bytes, and what has been shown by then.
NextState == [p \in States \X Byte |-> After(p[1], p[2])]
NextText == [p \in States \X Byte |-> Shown(p[1], p[2])]

StateAt(bytes) ==
    LET state[n \in 0 .. Len(bytes)] ==
            IF n = 0 THEN "ground" ELSE NextState[<<state[n - 1], bytes[n]>>]
    IN  state

TextAt(bytes) ==
    LET text[n \in 0 .. Len(bytes)] ==
            IF n = 0 THEN <<>>
            ELSE text[n - 1] \o NextText[<<StateAt(bytes)[n - 1], bytes[n]>>]
    IN  text

Visible(bytes) ==
    TextAt(bytes)[Len(bytes)] \o
    (IF StateAt(bytes)[Len(bytes)] = "char" THEN <<"bad">> ELSE <<>>)

-----------------------------------------------------------------------------
\* Mutant: a row that bears on the range is given whole.
ClipRows_Whole(rows, from, to) ==
    SelectSeq(rows, LAMBDA row : row[1] < to /\ row[1] + row[2] > from)

\* clip_capture_rows: of the rows <<start, length>> those that bear on the
\* bytes from .. to - 1, cut to that range; a row that is empty or overlaps
\* the one before is skipped.
ClipRows(rows, from, to) ==
    LET Stop(row) == row[1] + row[2]
        Good(row, end) == row[2] > 0 /\ row[1] >= end
        end[n \in 0 .. Len(rows)] ==
            IF n = 0 THEN 0
            ELSE IF Good(rows[n], end[n - 1]) THEN Stop(rows[n]) ELSE end[n - 1]
        first(row) == Max({row[1], from})
        size(row) == Min({Stop(row), to}) - first(row)
        kept[n \in 0 .. Len(rows)] ==
            IF n = 0 THEN <<>>
            ELSE kept[n - 1] \o
                 IF Good(rows[n], end[n - 1]) /\ size(rows[n]) > 0
                 THEN <<<<first(rows[n]), size(rows[n])>>>> ELSE <<>>
    IN  kept[Len(rows)]
=============================================================================
