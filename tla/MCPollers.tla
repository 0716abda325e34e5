----------------------------- MODULE MCPollers -----------------------------
(***************************************************************************)
(* Pollers on small logs: plain text, what is looked for, a character of   *)
(* two bytes and an escape sequence of each kind the slicing tells apart.  *)
(***************************************************************************)
EXTENDS Pollers

Plain == {<<"text", "mark">>, <<"mark", "text">>}
Csi == <<"esc", "[", "digit", "mark">>
Osc == <<"esc", "]", "mark", "bel">>
OscSt == <<"esc", "]", "mark", "esc", "\\">>
Ss3 == <<"esc", "O", "text">>
Char == <<"lead", "cont">>

MCCases ==
    ({"wait", "idle"} \X {<<"text">>})
        \cup ({"screen", "ask"} \X Plain)
        \cup ({"expect"} \X {Csi \o Char, Osc \o <<"mark">>})
        \cup ({"follow"} \X {OscSt \o <<"text">>, Ss3 \o <<"mark">>, Char \o <<"mark">>})
        \cup ({"ask", "log"} \X {Csi, <<"mark">> \o Char})

\* The logs above can be sliced.
ASSUME \A case \in MCCases : WellFormed(case[2])

\* Logs that cannot: an escape sequence that names a character set, and one
\* that a reader may begin to read inside a character.  With these SliceExact
\* does not hold.
MCCharset == {"follow"} \X {<<"esc", "(", "text", "mark">>}
MCBegin == {"expect"} \X {Char \o Char}
=============================================================================
