---------------------------- MODULE MCConnection ----------------------------
(* Small journals for TLC.                                                 *)
EXTENDS Connection, TLC

CONSTANTS orch_a, orch_b, orch_c, journal_a, journal_b

\* Two threads of one process on one Journal, and a process of its own.
TwoHandles == (orch_a :> journal_a) @@ (orch_b :> journal_a) @@ (orch_c :> journal_b)

\* Two threads of one process.
OneHandle == (orch_a :> journal_a) @@ (orch_b :> journal_a)
=============================================================================
