------------------------------ MODULE MCRouter ------------------------------
(***************************************************************************)
(* An instance of Router for TLC: a Gemini model on the simple lane; on    *)
(* the complex lane an HTTP model, and as its fallback the Gemini model    *)
(* once more with another effort.                                          *)
(***************************************************************************)
EXTENDS Router

CONSTANT t1

ModelRef(model, lane, effort) == [model |-> model, lane |-> lane, effort |-> effort]

McSimple  == <<ModelRef("flash", "simple", "none")>>
McComplex == <<ModelRef("chat", "complex", "high"),
               ModelRef("flash", "complex", "high")>>
=============================================================================
