--------------------------- MODULE MCAttachServer ---------------------------
(***************************************************************************)
(* AttachServer with little output and few keys: the detach sequence in    *)
(* its two forms, with what almost is one.                                 *)
(***************************************************************************)
EXTENDS AttachServer

Enhanced(event) == <<"esc", "[", event, "u">>
MCScripts == {
    <<>>,
    <<"fs", "key", "fs", "fs">>,
    <<"fs">> \o Enhanced("release") \o <<"fs">>,
    Enhanced("press") \o Enhanced("release") \o <<"key">>,
    <<"fs", "esc", "key", "fs">>,
    <<"esc", "[", "release", "release", "release", "key">> }

MCNoKeys == {<<>>}

MCChunks == [s \in MCScripts |-> IF s = <<>> THEN 2 ELSE 1]
MCDetaches == [s \in MCScripts |-> IF s = <<>> THEN 1 ELSE 0]
MCFloods == [s \in MCScripts |-> s = <<>>]
MCOne == [s \in MCNoKeys |-> 1]
MCNone == [s \in MCNoKeys |-> 0]
MCNoFlood == [s \in MCNoKeys |-> FALSE]

\* What is typed and what a view command shows do not meet.
MCInit == Init /\ (keys # <<>> => ~viewCmd /\ ~slow)
MCSpec == MCInit /\ [][Next]_vars
            /\ WF_vars(Handler) /\ WF_vars(Ending) /\ WF_vars(Reading)
=============================================================================
