------------------------------ MODULE MCReader ------------------------------
(***************************************************************************)
(* Instances of Reader and its history for TLC: one country, with articles *)
(* of two dates and pages of one article; and the same beside a second     *)
(* country.                                                                *)
(***************************************************************************)
EXTENDS ReaderHistory

McOneCountry   == [i \in Id |-> "IT"]
McTwoCountries == 1 :> "IT" @@ 2 :> "IT" @@ 3 :> "FR"
=============================================================================
