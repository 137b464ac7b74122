------------------------------ MODULE MCArmLink ------------------------------
(* The robot link on small instances.                                      *)
EXTENDS ArmLink

(* A request repeated around a word the program does not know, and a       *)
(* completion with the next request behind it.                             *)
RobotBatches == {<<"data", "ok", "data">>, <<"1", "data">>}
OneBatch == {<<"data">>}
=============================================================================
