------------------------------ MODULE Journal ------------------------------
(***************************************************************************)
(* The journal (palimpsest/journal.py): an append-only table of records    *)
(* and the branch tree, shared by every orchestrator process.  SQLite runs *)
(* in autocommit, so each write below is one durable, atomic statement and *)
(* every query is a function of the two tables.                            *)
(*                                                                         *)
(* A query that returns records returns their ids; record_id order is the  *)
(* order of the ids.                                                       *)
(***************************************************************************)
EXTENDS Vocabulary

VARIABLES
    journal,    \* the records table
    branches    \* the branches table

journalVars == << journal, branches >>

\* sev: the severity in a step's args or in a fork's detail; sup: the record
\* the args' supersede annotation names; keys: the effects an escalation or a
\* blocked barrier lists; attempt: the pass a compensation belongs to.
Record == [kind : RecordKind, br : Nat, seq : Nat,
           status : ResultStatus \cup {NoStatus},
           sev : Sev, sup : Nat, keys : SUBSET Key, attempt : Nat]
Branch == [parent : Nat, depth : Nat, status : BranchStatus]

JournalTypeOK == journal \in Seq(Record) /\ branches \in Seq(Branch)
JournalInit   == journal = << >> /\ branches = << >>

------------------------------------------------------------------------------
(* Writes                                                                  *)

append(rec) == journal' = Append(journal, rec)

create_branch(parent, depth) ==
    branches' = Append(branches,
                       [parent |-> parent, depth |-> depth, status |-> "active"])

\* A status nobody else knows.
Bug_status_dead(b, status) ==
    branches' = [branches EXCEPT ![b].status =
                    IF status = "abandoned" THEN "dead" ELSE status]

set_branch_status(b, status) == branches' = [branches EXCEPT ![b].status = status]

------------------------------------------------------------------------------
(* Queries                                                                 *)

KeyOf(r) == effect_key(journal[r].br, journal[r].seq)

Rows(kind) == {r \in DOMAIN journal : journal[r].kind = kind}

IsActive(b) == branches[b].status = "active"

\* The newest active branch, if there is one.
active_branch(b) == /\ b \in DOMAIN branches
                    /\ IsActive(b)
                    /\ \A c \in DOMAIN branches : IsActive(c) => c <= b

NoActiveBranch == \A b \in DOMAIN branches : ~ IsActive(b)

\* The scope slips from the dead branches to the whole workflow.
Bug_dead_is_any == DOMAIN branches

dead_branches ==
    {b \in DOMAIN branches : branches[b].status \in DEAD_BRANCH_STATUSES}

\* r is the latest RESULT of step s on branch b.
last_result(b, s, r) ==
    LET slot == {q \in Rows("RESULT") : journal[q].br = b /\ journal[q].seq = s}
    IN  r \in slot /\ \A q \in slot : q <= r

\* The steps branch b may skip on replay: those whose latest result is ok.
completed_results(b) ==
    {s \in Steps : \E r \in DOMAIN journal :
                      last_result(b, s, r) /\ journal[r].status = "ok"}

\* RESULT records of dead branches, one for each key: the first.
DeadResults(types, statuses) ==
    LET found == {r \in Rows("RESULT") : /\ journal[r].br \in dead_branches
                                         /\ journal[r].seq \in Steps
                                         /\ ToolOf(KeyOf(r)) \in types
                                         /\ journal[r].status \in statuses}
    IN  {r \in found : \A q \in found : KeyOf(q) = KeyOf(r) => r <= q}

\* Done compensations are looked up under the wrong kind.
Bug_compensations_lost == {KeyOf(r) : r \in Rows("BRANCH_COMPENSATED")}

compensations ==
    {KeyOf(r) : r \in {q \in Rows("COMP_RESULT") : journal[q].status = "ok"}}

\* The barrier predicate, at workflow scope.
uncompensated ==
    {r \in DeadResults(Compensatable, {"ok"}) : KeyOf(r) \notin compensations}

\* Irreversible effects stranded on dead branches.
residue == DeadResults(Irreversible, {"ok", "unknown"})
=============================================================================
