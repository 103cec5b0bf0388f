---- MODULE Diag ----
(***************************************************************************)
(* exl::diag (lib/diag/abort.cpp): a failed EXL_ASSERT or R_ABORT_UNLESS,  *)
(* on whichever thread, ends the process.                                  *)
(***************************************************************************)

VARIABLE aborted    \* what the process was ended by, "no" while it runs

Running == aborted = "no"

Abort(why) == aborted' = why
====
