---------------------------- MODULE ExactlyOnce ----------------------------
(***************************************************************************)
(* Effect-Exactly-Once, the correctness claim of the engine, stated of the *)
(* ground-truth ledger and of the effects the services hold wherever the   *)
(* claim is about the world, and of the journal where it is about what the *)
(* system knows of itself.                                                 *)
(***************************************************************************)
EXTENDS Orchestrator, FiniteSets

Entries(kind) == {i \in DOMAIN ledger : ledger[i].kind = kind}
ToolOfEntry(i) == ToolOf(ledger[i].key)
Pages == {i \in Entries("effect") : ToolOfEntry(i) \in Irreversible}

\* Something happened in the world to a key, or the journal announced it would.
Happened(kind, k)  == \E i \in Entries(kind) : ledger[i].key = k
Announced(kind, k) == \E r \in Rows(kind) : KeyOf(r) = k
Done(k) == ToolOf(k) \in Pure \/ Happened("effect", k)

\* Entries of this kind that the step at hand adds to the ledger.
Added(kind) == {i \in DOMAIN ledger' \ DOMAIN ledger : ledger'[i].kind = kind}

\* Compensatable effects that are in force on branches nobody works on.
Stranded == {k \in applied : /\ ToolOf(k) \in Compensatable
                             /\ ~ IsActive(k[1])}

EscalatedKeys == UNION {journal[r].keys : r \in Rows("ESCALATED")}

------------------------------------------------------------------------------
(* Clause 1: no duplication                                                *)

\* No effect of any tool takes hold twice under one idempotency key, whatever
\* is retried, replayed, reconciled or delivered late.
EffectOnce == \A i, j \in Entries("effect") : ledger[i].key = ledger[j].key => i = j

\* A page after the first carries a supersede annotation, and the annotation
\* names a page that really went out before it.
PagesExplained ==
    \A i, j \in Pages :
        i < j => /\ ledger[j].sup \in DOMAIN journal
                 /\ \E k \in Pages : k < j /\ ledger[k].key = KeyOf(ledger[j].sup)

------------------------------------------------------------------------------
(* Clause 2: no loss                                                       *)

Settled == \/ Rows("ESCALATED") # {}
           \/ \E b \in DOMAIN branches : IsActive(b) /\ completed_results(b) = Steps

\* The alert is acknowledged only after a live branch ran to its end, or a
\* human was told.  Pinned replay gives up on a livelock, and is excepted.
AckedIsSettled == (acked /\ Diverges) => Settled

\* Every delivery of the alert is acknowledged in the end.
NoLoss == ~ acked ~> acked

------------------------------------------------------------------------------
(* Clause 3: clean abandonment                                             *)

\* Once the alert is acknowledged, an effect in force on a dead branch is one
\* that an escalation names.  Only the palimpsest mode compensates.
CleanAbandonment == (acked /\ Barrier) => Stranded \subseteq EscalatedKeys

\* The irreversible barrier, of the world rather than of the journal: nobody
\* is paged while an abandoned branch has a compensatable effect in force.
NoBlindPage ==
    [][\A i \in Added("effect") :
          (Barrier /\ ToolOf(ledger'[i].key) \in Irreversible) => Stranded = {}]_vars

\* No effect of a branch still being worked on is ever compensated.
CompensateOnlyDead ==
    \A i \in Entries("compensation") :
        LET b == ledger[i].key[1] IN b \in DOMAIN branches /\ ~ IsActive(b)

\* Reverse order: an effect is undone only when no later effect of its branch
\* is still in force.
UndoneInReverse ==
    [][\A i \in Added("compensation") :
          \A k \in applied' :
             (k[1] = ledger'[i].key[1] /\ ToolOf(k) \in Compensatable)
                => k[2] < ledger'[i].key[2]]_vars

\* No effect is undone more often than it was done.
UndoneOnce ==
    \A i, j \in Entries("compensation") : ledger[i].key = ledger[j].key => i = j

\* Whatever is retried, replayed or delivered late, the world is changed once for each
\* key and changed back once.
NoDuplication == EffectOnce /\ UndoneOnce

------------------------------------------------------------------------------
(* Bounded ambiguity                                                       *)

UnknownPages ==
    {r \in Rows("RESULT") : /\ ToolOf(KeyOf(r)) \in Unobservable
                            /\ journal[r].status = "unknown"
                            /\ last_result(journal[r].br, journal[r].seq, r)}

\* At most one page is in unknown state, and while the alert rests it has been
\* surfaced after it was journaled.
BoundedAmbiguity ==
    /\ Cardinality(UnknownPages) <= 1
    /\ acked => \A r \in UnknownPages : \E e \in Rows("ESCALATED") : e > r

------------------------------------------------------------------------------
(* What the journal says of the world                                      *)

\* Write-ahead: what happened in the world was announced in the journal
\* before, so a crash at any point leaves a trace of it.
IntentBeforeEffect ==
    /\ \A i \in Entries("effect") : Announced("INTENT", ledger[i].key)
    /\ \A i \in Entries("compensation") : Announced("COMP_INTENT", ledger[i].key)

\* The journal claims no effect and no compensation that did not happen.
JournalTruthful ==
    /\ \A r \in Rows("RESULT") :
           journal[r].status = "ok" => Done(KeyOf(r))
    /\ \A r \in Rows("COMP_RESULT") :
           journal[r].status = "ok" => Happened("compensation", KeyOf(r))

------------------------------------------------------------------------------
(* The branch tree                                                         *)

\* No severity is tried on two branches.
SeveritiesOf(b) == {journal[r].sev : r \in {q \in Classifications : journal[q].br = b}}
TriedOnce == \A b, c \in DOMAIN branches :
                b # c => SeveritiesOf(b) \cap SeveritiesOf(c) = {}

\* A page that went out on a branch now dead is remembered by that branch's
\* status, or is about to be: later pages find it there.
ResidueMarked ==
    \A i \in Pages :
        LET b == ledger[i].key[1] IN
        \/ branches[b].status \in {"active", "abandoned_with_residue"}
        \/ \E o \in Orchestrators : At(o, "residue") /\ orch[o].br = b

\* When the alert rests without an escalation, every branch that was drained
\* has graduated: no branch is left looking as if its cleanup were pending.
AllGraduated ==
    (acked /\ Rows("ESCALATED") = {})
        => \A b \in DOMAIN branches : branches[b].status # "abandoned"

\* The tree is true: no severity has two branches, a page that went out is on its
\* branch's status, and what was cleaned up does not look as if it were not.
BranchesTrue == TriedOnce /\ ResidueMarked /\ AllGraduated

------------------------------------------------------------------------------
(* Several leaders                                                         *)

\* The lease as the engine uses it is a leadership: growing epochs, and no
\* change of owner before the lease has lapsed.
Leads == INSTANCE Leadership WITH Owners <- Orchestrators, leader <- lease
LeadershipHolds == Leads!Spec

\* Processes that lead, from their grant to the end of their run, have different
\* epochs, none beyond the lease's.
Leading(o) == orch[o].pc \notin {"idle", "returned", "recheck", "rechecked", "matched"}
EpochsDistinct ==
    \A o, p \in Orchestrators :
        Leading(o) => /\ orch[o].epoch \in 1 .. lease.epoch
                      /\ (o # p /\ Leading(p)) => orch[o].epoch # orch[p].epoch

------------------------------------------------------------------------------
(* The inductive invariant behind the clauses that hold with any number of *)
(* processes and crashes                                                   *)

Working == {"intent", "call", "called", "ambiguous", "drain", "comp", "undo",
            "undone", "graduate", "graduated"}
Branchless == {"idle", "select", "returned", "recheck", "rechecked", "matched"}

\* What a process holds in memory: a step of the trace while it works on one,
\* a branch of the tree from the time it chose one, for compensation only
\* results of compensatable steps of dead branches, for reconciliation results.
Undoable(r) == /\ r \in DOMAIN journal
               /\ journal[r].seq \in Steps
               /\ ToolOf(KeyOf(r)) \in Compensatable
               /\ journal[r].br \in DOMAIN branches
               /\ ~ IsActive(journal[r].br)

Sound(l) ==
    /\ l.pc \in Working => l.seq \in Steps
    /\ l.pc \notin Branchless => l.br \in DOMAIN branches
    /\ \A r \in l.todo : Undoable(r)
    /\ l.grads \subseteq DOMAIN branches
    /\ \A r \in l.redo : r \in DOMAIN journal /\ journal[r].seq \in Steps
    /\ l.pc = "forked" => l.chosen \in Severities

LocalOK == \A o \in Orchestrators : Sound(orch[o])

\* Only what a service holds has reached the ledger, and a page stays held.
LedgerOK ==
    /\ \A i \in Pages : ledger[i].key \in applied
    /\ \A k \in applied : Done(k)

\* A call under way was announced, and an ok about to be journaled is an ok the
\* world gave.
Latest(l, r)   == r \in l.todo /\ \A q \in l.todo : q <= r
Earliest(l, r) == r \in l.redo /\ \A q \in l.redo : r <= q
Backed(l) ==
    LET k == effect_key(l.br, l.seq) IN
    /\ l.pc \in {"call", "called", "ambiguous"} => Announced("INTENT", k)
    /\ (l.pc = "called" /\ l.res = "ok") => Done(k)
    /\ l.pc = "undo" => \A r \in l.todo : Latest(l, r) => Announced("COMP_INTENT", KeyOf(r))
    /\ (l.pc = "undone" /\ l.res = "ok") =>
          \A r \in l.todo : Latest(l, r) => Happened("compensation", KeyOf(r))
    /\ \A r \in l.redo : Announced("INTENT", KeyOf(r))
    /\ (l.pc = "rechecked" /\ l.res = "ok") \/ l.pc = "matched" =>
          \A r \in l.redo : Earliest(l, r) => Done(KeyOf(r))

CallsBacked == /\ \A req \in BagToSet(late) : Announced("INTENT", req.key)
               /\ \A r \in Rows("RESULT") : Announced("INTENT", KeyOf(r))
               /\ \A o \in Orchestrators : Backed(orch[o])

Inv == /\ TypeOK /\ LocalOK /\ LedgerOK /\ CallsBacked
       /\ CompensateOnlyDead /\ IntentBeforeEffect /\ JournalTruthful
=============================================================================
