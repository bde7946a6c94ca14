------------------------------- MODULE Absent -------------------------------
(* What stands for a file, a value or an answer that is not there. *)
CONSTANT None
=============================================================================
