--------------------------- MODULE MCSessionStore ---------------------------
(***************************************************************************)
(* SessionStore with a run that is given an id, one that is not or that is *)
(* given the same, and one on the other side of a connection.              *)
(***************************************************************************)
EXTENDS SessionStore

CONSTANTS r1, r2, a, long, p1, p2, f1

MCRuns == {r1, r2}
MCRemote == {r2}
MCPruners == {p1, p2}
MCIds == {a, long}
MCShort == {a}
\* One prune, and a second one, a flag or a listing: the others do not meet.
MCInit ==
    /\ Init
    /\ prune[p1].at = "idle"
    /\ LET given == <<prune[p2].at, flag[f1].at, ls.at>> IN
       Cardinality({n \in 1 .. 3 : given[n] = "idle"}) = 1
    /\ wanted[r1] = NoId => ls.at = "idle"
    /\ ls.at = "idle" => NoId \in {wanted[r1], wanted[r2]}
    /\ prune[p2].at = "idle" => wanted = [r \in Runs |-> a]
MCSpec == MCInit /\ [][Next]_vars

MCWanted == {w \in [MCRuns -> {a, NoId}] : NoId \notin {w[r1]} \cap {w[r2]}}
=============================================================================
