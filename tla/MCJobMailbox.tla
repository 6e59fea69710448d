---------------------------- MODULE MCJobMailbox ----------------------------
(* Model values for JobMailbox: two callers contend for g_job_lock.        *)
EXTENDS JobMailbox, TLC

CallerSymmetry == Permutations(Callers)
=============================================================================
