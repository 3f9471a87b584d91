------------------------- MODULE MCCountryEvidence -------------------------
(***************************************************************************)
(* CountryEvidence with three interchangeable country codes: the least     *)
(* number with a country, a candidate and a third code between them.       *)
(***************************************************************************)
EXTENDS CountryEvidence, TLC

Symmetry == Permutations(Codes)
=============================================================================
