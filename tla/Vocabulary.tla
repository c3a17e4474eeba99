----------------------------- MODULE Vocabulary -----------------------------
(***************************************************************************)
(* The shared vocabulary of the engine: tools with their effect types and  *)
(* the scripted trace (palimpsest/tools.py), statuses and idempotency keys *)
(* (palimpsest/types.py).                                                  *)
(*                                                                         *)
(* One workflow is modelled.  A branch is the rank of its row in the       *)
(* branches table, a record the rank of its row in the records table, a    *)
(* step the rank of a tool in the trace; 0 stands for "no such row".       *)
(***************************************************************************)
EXTENDS Naturals, Sequences

CONSTANT Trace   \* the tools a branch runs, in order: a Seq of tools

Pure          == {"fetch_alerts", "fetch_service_context", "classify"}
Idempotent    == {"write_dedupe_marker"}
Compensatable == {"create_ticket", "post_to_channel", "update_status_page"}
Irreversible  == {"page_oncall"}
Unobservable  == {"page_oncall"}
Tools         == Pure \cup Idempotent \cup Compensatable \cup Irreversible

ASSUME TraceAssumption == Trace \in Seq(Tools)

STEP_LABELS == << "fetch_alerts", "fetch_service_context", "classify",
                  "write_dedupe_marker", "create_ticket", "post_to_channel",
                  "page_oncall", "update_status_page" >>

\* ROTA_FOR_SEVERITY is one to one, so a severity also names the rota paged.
ALTERNATIVES == << "P1", "P2", "P3" >>
Severities   == {"P1", "P2", "P3"}

\* A record or request that carries no severity has "none".
NoSeverity == "none"
Sev == Severities \cup {NoSeverity}

Steps == 1 .. Len(Trace)

\* effect_key hashes (workflow_id, branch_id, seq); a hash collision is the
\* only way two slots could share a key, and is left out.
Key == Nat \X Steps
effect_key(b, s) == <<b, s>>
ToolOf(k) == Trace[k[2]]

ResultStatus   == {"ok", "failed", "unknown"}
NoStatus       == "none"
BranchStatus   == {"active", "abandoned", "compensated", "abandoned_with_residue"}
DEAD_BRANCH_STATUSES == {"abandoned", "abandoned_with_residue"}

RecordKind == {"INTENT", "RESULT", "COMP_INTENT", "COMP_RESULT", "BRANCH_FORKED",
               "BRANCH_ABANDONED", "BRANCH_COMPENSATED", "BARRIER_BLOCKED",
               "BARRIER_RELEASED", "ESCALATED", "LATE_DELIVERY_SUPPRESSED"}
=============================================================================
