----------------------------- MODULE MCOverlap -----------------------------
(***************************************************************************)
(* Instances of overlapping leaders for TLC.                               *)
(***************************************************************************)
EXTENDS MCOrchestrator, Overlap

\* An undo is, or is about to be, at work.
Undoing == {"undo"}
=============================================================================
