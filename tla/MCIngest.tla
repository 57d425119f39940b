------------------------------ MODULE MCIngest ------------------------------
(***************************************************************************)
(* Instances of Ingest for TLC.  e1 and e2 announce the same URL, as two   *)
(* feeds that carry one story do, and e3 another one; c1 and c2 belong to  *)
(* w1, d1 belongs to w2.                                                   *)
(***************************************************************************)
EXTENDS Ingest, TLC

CONSTANTS e1, e2, e3, u1, u2, w1, w2, c1, c2, d1

OneUrl     == (e1 :> u1) @@ (e2 :> u1)
TwoUrls    == (e1 :> u1) @@ (e3 :> u2)
TwoWorkers == (c1 :> w1) @@ (c2 :> w1) @@ (d1 :> w2)
OneEach    == (c1 :> w1) @@ (d1 :> w2)
FirstOnly  == (c1 :> w1) @@ (c2 :> w1)
Twins      == Permutations({e1, e2}) \cup Permutations({c1, c2})
=============================================================================
