----------------------------- MODULE MCStartup -----------------------------
(***************************************************************************)
(* Startup for TLC: two examples, of two stages and of one.                *)
(***************************************************************************)
EXTENDS Startup

MCStages == <<2, 1>>
=============================================================================
