------------------------------ MODULE MCWorker ------------------------------
(***************************************************************************)
(* Worker on a small instance: two commands (one restart), two kill        *)
(* requests, every kind of process the run admits.                         *)
(***************************************************************************)
EXTENDS Worker, TLC

CONSTANTS k1, k2, r1

MCKillers == {k1, k2}
OneKiller == {k1}
MCRestarters == {r1}

\* Kill requests are interchangeable (safety runs only).
KillersAlike == Permutations(MCKillers)
=============================================================================
