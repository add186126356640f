------------------------------- MODULE MCJobs -------------------------------
(* Small instances of Jobs: jobs 1 and 2, where they are imports, bring files *)
(* of one and two batches that share a code.                                 *)
EXTENDS Jobs, TLC

MCCodes == [j \in Job |-> IF j \in ImportJob THEN {"code"} ELSE {}]
MCBatches == [j \in Job |-> IF j \in ImportJob THEN j ELSE 0]
Symmetry == Permutations(Worker) \cup Permutations(Caller)
=============================================================================
