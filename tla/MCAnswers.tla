------------------------------ MODULE MCAnswers ------------------------------
(* Small instance of Answers for TLC.                                      *)
EXTENDS Answers
=============================================================================
