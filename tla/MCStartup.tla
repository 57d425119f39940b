----------------------------- MODULE MCStartup -----------------------------
(***************************************************************************)
(* An instance of Startup for TLC: four migrations, 003, 004, 006 and a    *)
(* last one.                                                               *)
(***************************************************************************)
EXTENDS Startup
=============================================================================
