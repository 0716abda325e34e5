----------------------------- MODULE MCOutputHub -----------------------------
(***************************************************************************)
(* OutputHub with one client of each kind, chunks of one and two bytes and *)
(* a backlog of two bytes, so that it overflows.                           *)
(***************************************************************************)
EXTENDS OutputHub

CONSTANTS c1, c2

MCLegacy == {c1}
MCResuming == {c2}
=============================================================================
