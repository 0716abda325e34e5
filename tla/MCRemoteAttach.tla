--------------------------- MODULE MCRemoteAttach ---------------------------
(***************************************************************************)
(* RemoteAttach with chunks of one and two bytes, a backlog that overflows *)
(* and a bounded number of lost connections.                               *)
(***************************************************************************)
EXTENDS RemoteAttach

MCResuming == {viewer}
=============================================================================
