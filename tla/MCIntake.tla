------------------------------ MODULE MCIntake ------------------------------
(***************************************************************************)
(* Intake with two sources that share a proxy: the first has it twice, and *)
(* the second has it in another spelling of its host, with a line that is  *)
(* no link and a record the name filter drops.                             *)
(***************************************************************************)
EXTENDS Intake

Line(key, id, host, valid, name) ==
  [Key |-> key, Id |-> id, Host |-> host, Valid |-> valid, Name |-> name]

A == Line("a", "a", "h", TRUE, TRUE)
OtherA == Line("A", "a", "H", TRUE, TRUE)
Dropped == Line("c", "c", "h", TRUE, FALSE)
Comment == Line("", "", "", FALSE, FALSE)

MCFeeds == << {<<>>, <<A, A>>}, {<<>>, <<Comment, A, OtherA, Dropped>>} >>
=============================================================================
