---------------------------- MODULE Orchestrator ----------------------------
(***************************************************************************)
(* The orchestrator processes (palimpsest/engine.py) driving one workflow  *)
(* through the shared journal and the effect services.                     *)
(*                                                                         *)
(* An action is what a process does between two points at which it may be  *)
(* killed or overtaken: some reads of the journal and at most one durable  *)
(* statement or one call to a service.  Everything a process keeps between *)
(* two actions is in its local record, and is what a crash loses.          *)
(***************************************************************************)
EXTENDS Journal, World

CONSTANTS
    Orchestrators,     \* owner ids
    NoOwner,           \* the owner of a lease nobody took yet
    Scenarios,         \* the settings to start from: [config, faults]
    FirstSeverity,     \* the caller's severity, for a branch never classified
    MaxForkDepth,      \* max_fork_depth
    MaxCompAttempts,   \* max_comp_attempts
    MaxAttempts,       \* recover's max_attempts
    CrashAt,           \* the points at which a process may die
    MaxCrash,          \* bounds on what the environment does:  deaths,
    MaxExpire,         \*   leases that lapse under a working leader,
    MaxRedeliver,      \*   redeliveries of an acknowledged alert,
    MaxReconcile       \*   reconciliations of what was left unknown

VARIABLES
    config,    \* the engine's settings, the same for every process
    orch,      \* owner -> what its process holds in memory
    lease,     \* the workflow's row of the leases table
    acked,     \* the alert is acknowledged and no longer pending
    spent      \* how much of each environment bound is used up

settings == << config, faults >>
vars == << settings, journalVars, worldVars, orch, lease, acked, spent >>

Config == [mode : {"pinned", "naive", "palimpsest"},
           diverge_after_seq : Nat]    \* 0 for None

\* MODES: the capability matrix.
Replays  == config.mode # "naive"
Diverges == config.mode # "pinned"
Barrier  == config.mode = "palimpsest"

PC == {"idle", "select", "step", "intent", "call", "called", "ambiguous",
       "drain", "comp", "undo", "undone", "graduate", "graduated", "escalate",
       "diverge", "residue", "mark", "fork", "forked", "returned",
       "recheck", "rechecked", "matched"}

Local == [pc : PC, epoch : Nat, tries : Nat, armed : BOOLEAN,
          br : Nat, sev : Severities, sup : Nat, done : SUBSET Steps, seq : Nat,
          prior : BOOLEAN, res : ResultStatus \cup {NoStatus},
          attempt : Nat, todo : SUBSET Nat, grads : SUBSET Nat, chosen : Sev,
          redo : SUBSET Nat]

ASSUME EngineAssumption ==
    /\ NoOwner \notin Orchestrators
    /\ Scenarios \subseteq [config : Config, faults : FaultConfig]
    /\ FirstSeverity \in Severities
    /\ {MaxForkDepth, MaxCompAttempts, MaxAttempts} \subseteq Nat
    /\ CrashAt \subseteq PC \ {"idle"}
    /\ {MaxCrash, MaxExpire, MaxRedeliver, MaxReconcile} \subseteq Nat

Idle == [pc |-> "idle", epoch |-> 0, tries |-> 0, armed |-> FALSE,
         br |-> 0, sev |-> FirstSeverity, sup |-> 0, done |-> {}, seq |-> 0,
         prior |-> FALSE, res |-> NoStatus,
         attempt |-> 0, todo |-> {}, grads |-> {}, chosen |-> NoSeverity,
         redo |-> {}]

TypeOK ==
    /\ JournalTypeOK
    /\ WorldTypeOK
    /\ config \in Config
    /\ orch \in [Orchestrators -> Local]
    /\ lease \in [owner : Orchestrators \cup {NoOwner}, epoch : Nat, live : BOOLEAN]
    /\ acked \in BOOLEAN
    /\ spent \in [crash : Nat, expire : Nat, redeliver : Nat, reconcile : Nat]

Init ==
    /\ JournalInit
    /\ WorldInit
    /\ \E s \in Scenarios : config = s.config /\ faults = s.faults
    /\ orch = [o \in Orchestrators |-> Idle]
    /\ lease = [owner |-> NoOwner, epoch |-> 0, live |-> FALSE]
    /\ acked = FALSE
    /\ spent = [crash |-> 0, expire |-> 0, redeliver |-> 0, reconcile |-> 0]

------------------------------------------------------------------------------
(* What the engine reads from the journal                                  *)

\* Records that tell a branch's classification: its fork and its classify.
Classifications ==
    Rows("BRANCH_FORKED") \cup
    {r \in Rows("RESULT") : /\ journal[r].seq \in Steps
                            /\ ToolOf(KeyOf(r)) = "classify"
                            /\ journal[r].status = "ok"}

_tried_alternatives == {journal[r].sev : r \in Classifications}

\* A branch that is taken up again runs under the caller's severity.
Bug_severity_of_caller(b, sev) == sev = FirstSeverity

_severity_for_branch(b, sev) ==
    LET own == {r \in Classifications : journal[r].br = b} IN
    \/ own = {} /\ sev = FirstSeverity
    \/ \E r \in own : sev = journal[r].sev /\ \A q \in own : q <= r

\* No page ever explains another.
Bug_NoAnnotation(r) == r = 0

\* The record that a page issued now supersedes, 0 when there is no residue.
_supersede_for(r) ==
    \/ r = 0 /\ (residue = {} \/ ~ Barrier)
    \/ Barrier /\ r \in residue /\ \A q \in residue : q <= r

\* The highest-ranked alternative that is not tried yet.
NextAlternative(sev) ==
    \E i \in DOMAIN ALTERNATIVES :
        /\ sev = ALTERNATIVES[i]
        /\ sev \notin _tried_alternatives
        /\ \A j \in 1 .. (i - 1) : ALTERNATIVES[j] \in _tried_alternatives

Exhausted == \A i \in DOMAIN ALTERNATIVES : ALTERNATIVES[i] \in _tried_alternatives

------------------------------------------------------------------------------
(* Rows the engine writes                                                  *)

ToolAt(o) == Trace[orch[o].seq]

Call(o) == [key |-> effect_key(orch[o].br, orch[o].seq), sev |-> orch[o].sev,
            sup |-> IF ToolAt(o) \in Irreversible THEN orch[o].sup ELSE 0]

StepRow(o, kind, status) ==
    [kind |-> kind, br |-> orch[o].br, seq |-> orch[o].seq, status |-> status,
     sev |-> orch[o].sev, sup |-> Call(o).sup, keys |-> {}, attempt |-> 0]

\* A row about the same slot as record r.
SlotRow(kind, r, status) == [journal[r] EXCEPT !.kind = kind, !.status = status]

\* A row about the undo of record r, with the pass it is made in.
CompRow(o, kind, r, status) ==
    [SlotRow(kind, r, status) EXCEPT !.attempt = orch[o].attempt]

TreeRow(kind, b, sev, keys) ==
    [kind |-> kind, br |-> b, seq |-> 0, status |-> NoStatus,
     sev |-> sev, sup |-> 0, keys |-> keys, attempt |-> 0]

\* The escalation is a bare alarm.
Bug_BareEscalation(o) == TreeRow("ESCALATED", orch[o].br, NoSeverity, {})

\* The escalation names what is left uncompensated at the time of writing, and
\* so does the barrier that blocks.
Owed == {KeyOf(r) : r \in uncompensated}
EscalationRow(o) == TreeRow("ESCALATED", orch[o].br, NoSeverity, Owed)
BlockRow(o) == [StepRow(o, "BARRIER_BLOCKED", NoStatus) EXCEPT !.keys = Owed]

------------------------------------------------------------------------------
(* Control of one process                                                  *)

At(o, pc)   == orch[o].pc = pc
Goto(o, pc) == orch' = [orch EXCEPT ![o].pc = pc]
EngineVars  == << lease, acked, spent, settings >>
ReadOnly    == UNCHANGED << journalVars, worldVars, EngineVars >>
WritesRecord == UNCHANGED << branches, worldVars, EngineVars >>
WritesTree   == UNCHANGED << journal, worldVars, EngineVars >>
CallsWorld   == UNCHANGED << journalVars, EngineVars >>

\* _run_branch reads the annotation and the finished steps once, at its start.
_run_branch(o, b, sev) ==
    \E sup \in residue \cup {0} :
        /\ _supersede_for(sup)
        /\ orch' = [orch EXCEPT ![o] =
               [@ EXCEPT !.pc = "step", !.br = b, !.sev = sev, !.sup = sup,
                         !.done = IF Replays THEN completed_results(b) ELSE {},
                         !.seq = 1, !.chosen = NoSeverity]]

------------------------------------------------------------------------------
(* Taking the alert                                                        *)

\* Whoever asks leads.
Bug_AnyoneLeads(o) == TRUE

\* acquire_lease: the owner itself, or anyone once the lease has lapsed.
MayLead(o) == lease.owner = o \/ ~ lease.live

Start(o) ==
    /\ At(o, "idle") /\ ~ acked /\ MayLead(o)
    /\ lease' = [owner |-> o, epoch |-> lease.epoch + 1, live |-> TRUE]
    /\ orch' = [orch EXCEPT ![o] =
           [Idle EXCEPT !.pc = "select", !.epoch = lease.epoch + 1,
                        !.tries = orch[o].tries, !.armed = config.diverge_after_seq # 0]]
    /\ UNCHANGED << journalVars, worldVars, settings, acked, spent >>

\* LeaseUnavailable: not_leader, and the message stays pending.
NotLeader(o) ==
    /\ At(o, "idle") /\ ~ acked /\ ~ MayLead(o)
    /\ orch' = [orch EXCEPT ![o] = Idle]
    /\ ReadOnly

\* Resume the newest active branch.
SelectActive(o) ==
    /\ At(o, "select") /\ Replays
    /\ \E b \in DOMAIN branches, sev \in Severities :
           /\ active_branch(b)
           /\ _severity_for_branch(b, sev)
           /\ _run_branch(o, b, sev)
    /\ ReadOnly

SelectFresh(o) ==
    /\ At(o, "select") /\ NoActiveBranch
    /\ create_branch(0, 0)
    /\ _run_branch(o, Len(branches) + 1, FirstSeverity)
    /\ WritesTree

\* Without replay the fresh run abandons what it does not know about.
SelectNaive(o) ==
    /\ At(o, "select") /\ ~ Replays
    /\ \E b \in DOMAIN branches :
           /\ active_branch(b)
           /\ set_branch_status(b, "abandoned")
           /\ orch' = [orch EXCEPT ![o] = [@ EXCEPT !.pc = "residue", !.br = b]]
    /\ WritesTree

------------------------------------------------------------------------------
(* The step machine                                                        *)

Replay(o) ==
    /\ At(o, "step") /\ orch[o].seq \in orch[o].done
    /\ orch' = [orch EXCEPT ![o].seq = @ + 1]
    /\ ReadOnly

Complete(o) ==
    /\ At(o, "step") /\ orch[o].seq > Len(Trace)
    /\ Goto(o, "returned")
    /\ ReadOnly

ToExecute(o) == At(o, "step") /\ orch[o].seq \in Steps \ orch[o].done

PriorUnknown(o) ==
    /\ Replays
    /\ \E r \in DOMAIN journal : /\ last_result(orch[o].br, orch[o].seq, r)
                                 /\ journal[r].status = "unknown"

Gated(o) == Barrier /\ ToolAt(o) \in Irreversible

\* barrier_check holds, or the step is not behind the barrier.
Pass(o) ==
    /\ ToExecute(o)
    /\ Gated(o) => uncompensated = {}
    /\ orch' = [orch EXCEPT ![o] = [@ EXCEPT !.pc = "intent", !.prior = PriorUnknown(o)]]
    /\ ReadOnly

Block(o) ==
    /\ ToExecute(o)
    /\ Gated(o) /\ uncompensated # {}
    /\ append(BlockRow(o))
    /\ orch' = [orch EXCEPT ![o] = [@ EXCEPT !.pc = "drain", !.attempt = 0,
                                             !.prior = PriorUnknown(o)]]
    /\ WritesRecord

\* The effect is executed before its intent is journaled.
Bug_NoIntent(o) == At(o, "intent") /\ Goto(o, "call") /\ ReadOnly

Intent(o) ==
    /\ At(o, "intent")
    /\ append(StepRow(o, "INTENT", NoStatus))
    /\ Goto(o, "call")
    /\ WritesRecord

Execute(o) ==
    /\ At(o, "call")
    /\ \E res \in ResultStatus :
           /\ execute(Call(o), orch[o].epoch, res)
           /\ orch' = [orch EXCEPT ![o] = [@ EXCEPT !.pc = "called", !.res = res]]
    /\ CallsWorld

\* _resolve_unknown: a timeout is not a failure until the probe says so.
Probe(o) ==
    /\ At(o, "called") /\ orch[o].res = "unknown"
    /\ \E ans \in {"done", "not_done", "unknown"} :
           /\ probe(Call(o).key, ans)
           /\ orch' = [orch EXCEPT ![o] =
                  CASE ans = "done"     -> [@ EXCEPT !.res = "ok"]
                    [] ans = "not_done" -> [@ EXCEPT !.res = "failed"]
                    [] ans = "unknown"  -> [@ EXCEPT !.pc = "ambiguous"]]
    /\ ReadOnly

\* The unknown page is journaled, and nobody is told.
Bug_AmbiguousSilent(o) ==
    /\ At(o, "ambiguous")
    /\ append(StepRow(o, "RESULT", "unknown"))
    /\ Goto(o, "returned")
    /\ WritesRecord

\* Unknown and unprobeable: the result is journaled as unknown and surfaced.
Ambiguous(o) ==
    /\ At(o, "ambiguous")
    /\ append(StepRow(o, "RESULT", "unknown"))
    /\ Goto(o, "escalate")
    /\ WritesRecord

LateDelivery(o) == orch[o].prior /\ orch[o].res = "ok"

\* An earlier attempt was given up as unknown; the key says it landed.
Suppress(o) ==
    /\ At(o, "called") /\ LateDelivery(o)
    /\ append(StepRow(o, "LATE_DELIVERY_SUPPRESSED", "ok"))
    /\ orch' = [orch EXCEPT ![o].prior = FALSE]
    /\ WritesRecord

\* The result is journaled, and decides between the next step, a divergence
\* (a failed irreversible step, or the injected one) and an escalation.
RecordResult(o) ==
    /\ At(o, "called") /\ orch[o].res # "unknown" /\ ~ LateDelivery(o)
    /\ append(StepRow(o, "RESULT", orch[o].res))
    /\ LET failed   == orch[o].res = "failed"
           injected == orch[o].armed /\ orch[o].seq = config.diverge_after_seq
           settled  == [orch[o] EXCEPT !.prior = FALSE, !.res = NoStatus]
       IN  orch' = [orch EXCEPT ![o] =
             CASE failed /\ ToolAt(o) \in Irreversible -> [settled EXCEPT !.pc = "diverge"]
               [] failed /\ ToolAt(o) \notin Irreversible -> [settled EXCEPT !.pc = "escalate"]
               [] ~ failed /\ injected -> [settled EXCEPT !.pc = "diverge", !.armed = FALSE]
               [] ~ failed /\ ~ injected -> [settled EXCEPT !.pc = "step", !.seq = @ + 1]]
    /\ WritesRecord

------------------------------------------------------------------------------
(* The barrier: drain the dead branches before an irreversible effect      *)

\* compensate_abandoned: nothing left, so the barrier lets the step through.
Drained(o) ==
    /\ At(o, "drain") /\ uncompensated = {}
    /\ orch' = [orch EXCEPT ![o] =
           [@ EXCEPT !.pc = "graduate", !.attempt = 0,
                     !.grads = {b \in DOMAIN branches : branches[b].status = "abandoned"}]]
    /\ ReadOnly

BeginPass(o) ==
    /\ At(o, "drain") /\ uncompensated # {} /\ orch[o].attempt < MaxCompAttempts
    /\ orch' = [orch EXCEPT ![o] = [@ EXCEPT !.pc = "comp", !.attempt = orch[o].attempt + 1,
                                             !.todo = uncompensated]]
    /\ ReadOnly

\* Out of attempts, the barrier acts blind.
Bug_GiveUpBlind(o) ==
    /\ At(o, "drain") /\ uncompensated # {} /\ orch[o].attempt > 0
    /\ orch' = [orch EXCEPT ![o] = [@ EXCEPT !.pc = "intent", !.attempt = 0, !.todo = {}]]
    /\ ReadOnly

\* Out of attempts, the run ends without a word.
Bug_GiveUpSilent(o) ==
    /\ At(o, "drain") /\ uncompensated # {} /\ orch[o].attempt > 0
    /\ orch' = [orch EXCEPT ![o] = [@ EXCEPT !.pc = "returned", !.attempt = 0, !.todo = {}]]
    /\ ReadOnly

\* The deadline is only looked at between two compensations.
Bug_GiveUpLate(o) ==
    /\ At(o, "comp")
    /\ orch' = [orch EXCEPT ![o] = [@ EXCEPT !.pc = "escalate", !.attempt = 0, !.todo = {}]]
    /\ ReadOnly

\* The deadline passed between two compensations or after a pass, which is
\* also where the attempts run out.
GiveUp(o) ==
    /\ \/ At(o, "comp")
       \/ /\ At(o, "drain") /\ uncompensated # {}
          /\ orch[o].attempt > 0 \/ MaxCompAttempts = 0
    /\ orch' = [orch EXCEPT ![o] = [@ EXCEPT !.pc = "escalate", !.attempt = 0, !.todo = {}]]
    /\ ReadOnly

\* Earliest record first.
Bug_NextUndoForward(o, r) == r \in orch[o].todo /\ \A q \in orch[o].todo : r <= q

\* Latest record first.
NextUndo(o, r) == r \in orch[o].todo /\ \A q \in orch[o].todo : q <= r

CompIntent(o) ==
    /\ At(o, "comp")
    /\ \E r \in DOMAIN journal :
           NextUndo(o, r) /\ append(CompRow(o, "COMP_INTENT", r, NoStatus))
    /\ Goto(o, "undo")
    /\ WritesRecord

Undo(o) ==
    /\ At(o, "undo")
    /\ \E r \in DOMAIN journal, res \in ResultStatus :
           /\ NextUndo(o, r)
           /\ compensate([key |-> KeyOf(r), sev |-> journal[r].sev, sup |-> 0],
                         orch[o].epoch, res)
           /\ orch' = [orch EXCEPT ![o] = [@ EXCEPT !.pc = "undone", !.res = res]]
    /\ CallsWorld

CompResult(o) ==
    /\ At(o, "undone")
    /\ \E r \in DOMAIN journal :
           /\ NextUndo(o, r)
           /\ append(CompRow(o, "COMP_RESULT", r, orch[o].res))
           /\ orch' = [orch EXCEPT ![o] =
                  [@ EXCEPT !.pc = IF orch[o].todo = {r} THEN "drain" ELSE "comp",
                            !.todo = orch[o].todo \ {r}, !.res = NoStatus]]
    /\ WritesRecord

\* Drained branches graduate, oldest first: the status, then the record.
NextGraduate(o, b) == b \in orch[o].grads /\ \A c \in orch[o].grads : b <= c

Graduate(o) ==
    /\ At(o, "graduate")
    /\ \E b \in DOMAIN branches :
           NextGraduate(o, b) /\ set_branch_status(b, "compensated")
    /\ Goto(o, "graduated")
    /\ WritesTree

Graduated(o) ==
    /\ At(o, "graduated")
    /\ \E b \in DOMAIN branches :
           /\ NextGraduate(o, b)
           /\ append(TreeRow("BRANCH_COMPENSATED", b, NoSeverity, {}))
           /\ orch' = [orch EXCEPT ![o] = [@ EXCEPT !.pc = "graduate", !.grads = orch[o].grads \ {b}]]
    /\ WritesRecord

Release(o) ==
    /\ At(o, "graduate") /\ orch[o].grads = {}
    /\ append(StepRow(o, "BARRIER_RELEASED", NoStatus))
    /\ Goto(o, "intent")
    /\ WritesRecord

------------------------------------------------------------------------------
(* Divergence, escalation and the end of a run                             *)

CannotFork(o) == branches[orch[o].br].depth + 1 > MaxForkDepth \/ Exhausted

\* Pinned to the journaled decision: recover tries again, then gives up.
ReplayFailed(o) ==
    /\ At(o, "diverge") /\ ~ Diverges
    /\ orch' = [orch EXCEPT ![o] =
           IF orch[o].tries + 1 < MaxAttempts
           THEN [Idle EXCEPT !.tries = orch[o].tries + 1]
           ELSE [Idle EXCEPT !.pc = "returned"]]
    /\ ReadOnly

\* An Escalation raised by a step, or _escalate_now at a fork that cannot be.
Escalate(o) ==
    /\ At(o, "escalate") \/ (At(o, "diverge") /\ Diverges /\ CannotFork(o))
    /\ append(EscalationRow(o))
    /\ Goto(o, "returned")
    /\ WritesRecord

\* _abandon: dead first, then the residue, then the record.
Abandon(o) ==
    /\ At(o, "diverge") /\ Diverges /\ ~ CannotFork(o)
    /\ \E sev \in Severities :
           /\ NextAlternative(sev)
           /\ orch' = [orch EXCEPT ![o] = [@ EXCEPT !.pc = "residue", !.chosen = sev]]
    /\ set_branch_status(orch[o].br, "abandoned")
    /\ WritesTree

\* The residue is computed before the branch is dead, and so comes out empty.
Bug_ResidueTooEarly(b) ==
    \E r \in residue : journal[r].br = b /\ IsActive(b)

HasResidue(b) == \E r \in residue : journal[r].br = b

AbandonWithResidue(o) ==
    /\ At(o, "residue") /\ HasResidue(orch[o].br)
    /\ set_branch_status(orch[o].br, "abandoned_with_residue")
    /\ Goto(o, "mark")
    /\ WritesTree

RecordAbandoned(o) ==
    /\ At(o, "mark") \/ (At(o, "residue") /\ ~ HasResidue(orch[o].br))
    /\ append(TreeRow("BRANCH_ABANDONED", orch[o].br, NoSeverity, {}))
    /\ Goto(o, "fork")
    /\ WritesRecord

Fork(o) ==
    /\ At(o, "fork") /\ orch[o].chosen # NoSeverity
    /\ create_branch(orch[o].br, branches[orch[o].br].depth + 1)
    /\ orch' = [orch EXCEPT ![o] = [@ EXCEPT !.pc = "forked", !.br = Len(branches) + 1]]
    /\ WritesTree

RecordFork(o) ==
    /\ At(o, "forked")
    /\ append(TreeRow("BRANCH_FORKED", orch[o].br, orch[o].chosen, {}))
    /\ _run_branch(o, orch[o].br, orch[o].chosen)
    /\ WritesRecord

\* The naive run starts over on a root branch.
ForkNaive(o) ==
    /\ At(o, "fork") /\ orch[o].chosen = NoSeverity
    /\ create_branch(0, 0)
    /\ _run_branch(o, Len(branches) + 1, FirstSeverity)
    /\ WritesTree

\* The main loop acknowledges whatever is not not_leader.
Ack(o) ==
    /\ At(o, "returned")
    /\ acked' = TRUE
    /\ orch' = [orch EXCEPT ![o] = Idle]
    /\ UNCHANGED << journalVars, worldVars, settings, lease, spent >>

------------------------------------------------------------------------------
(* reconcile_unknowns: when the workflow rests, drive what was left unknown *)
(* through its key once more, under the last leader's epoch                *)

UnknownResults ==
    {r \in Rows("RESULT") : /\ last_result(journal[r].br, journal[r].seq, r)
                            /\ journal[r].seq \in Steps
                            /\ journal[r].status = "unknown"}

Reconcile(o) ==
    /\ At(o, "idle") /\ acked /\ lease.owner = o /\ spent.reconcile < MaxReconcile
    /\ orch' = [orch EXCEPT ![o] =
           [Idle EXCEPT !.pc = "recheck", !.epoch = lease.epoch, !.redo = UnknownResults]]
    /\ spent' = [spent EXCEPT !.reconcile = @ + 1]
    /\ UNCHANGED << journalVars, worldVars, settings, lease, acked >>

NextRedo(o, r) == r \in orch[o].redo /\ \A q \in orch[o].redo : r <= q

Recheck(o) ==
    /\ At(o, "recheck")
    /\ \E r \in DOMAIN journal, res \in ResultStatus :
           /\ NextRedo(o, r)
           /\ execute([key |-> KeyOf(r), sev |-> journal[r].sev, sup |-> journal[r].sup],
                      orch[o].epoch, res)
           /\ orch' = [orch EXCEPT ![o] = [@ EXCEPT !.pc = "rechecked", !.res = res]]
    /\ CallsWorld

\* Done with this one: what it is now is in the journal, or still unknown.
DropRedo(o, r) ==
    orch' = [orch EXCEPT ![o] =
        [@ EXCEPT !.pc = "recheck", !.redo = orch[o].redo \ {r}, !.res = NoStatus]]

\* Only a probe that says done settles it; a failure leaves it unknown.
Reprobe(o) ==
    /\ At(o, "rechecked")
    /\ \E r \in DOMAIN journal, ans \in {"done", "not_done", "unknown"} :
           /\ NextRedo(o, r)
           /\ \/ orch[o].res = "failed" /\ DropRedo(o, r)
              \/ /\ orch[o].res = "unknown" /\ probe(KeyOf(r), ans)
                 /\ IF ans = "done" THEN orch' = [orch EXCEPT ![o].res = "ok"]
                                    ELSE DropRedo(o, r)
    /\ ReadOnly

Rematch(o) ==
    /\ At(o, "rechecked") /\ orch[o].res = "ok"
    /\ \E r \in DOMAIN journal :
           NextRedo(o, r) /\ append(SlotRow("LATE_DELIVERY_SUPPRESSED", r, "ok"))
    /\ Goto(o, "matched")
    /\ WritesRecord

Resettle(o) ==
    /\ At(o, "matched")
    /\ \E r \in DOMAIN journal :
           NextRedo(o, r) /\ append(SlotRow("RESULT", r, "ok")) /\ DropRedo(o, r)
    /\ WritesRecord

Reconciled(o) ==
    /\ At(o, "recheck") /\ orch[o].redo = {}
    /\ orch' = [orch EXCEPT ![o] = Idle]
    /\ ReadOnly

------------------------------------------------------------------------------
(* The environment                                                         *)

\* kill -9, or an injected ProcessCrash: the memory is gone, the tables stay.
Crash(o) ==
    /\ orch[o].pc \in CrashAt /\ spent.crash < MaxCrash
    /\ orch' = [orch EXCEPT ![o] = Idle]
    /\ spent' = [spent EXCEPT !.crash = @ + 1]
    /\ UNCHANGED << journalVars, worldVars, settings, lease, acked >>

\* The TTL runs out: nothing renews a lease while its owner works.
Lapse ==
    /\ lease.live /\ lease.owner \in Orchestrators
    /\ \/ orch[lease.owner] = Idle /\ UNCHANGED spent
       \/ /\ orch[lease.owner] # Idle /\ spent.expire < MaxExpire
          /\ spent' = [spent EXCEPT !.expire = @ + 1]
    /\ lease' = [lease EXCEPT !.live = FALSE]
    /\ UNCHANGED << journalVars, worldVars, settings, orch, acked >>

\* At-least-once delivery: the same alert again.
Redeliver ==
    /\ acked /\ spent.redeliver < MaxRedeliver
    /\ acked' = FALSE
    /\ spent' = [spent EXCEPT !.redeliver = @ + 1]
    /\ UNCHANGED << journalVars, worldVars, settings, orch, lease >>

Land == /\ \E req \in BagToSet(late) : land(req)
        /\ UNCHANGED << journalVars, orch, EngineVars >>

------------------------------------------------------------------------------
Lead(o)   == Start(o) \/ NotLeader(o) \/ SelectActive(o) \/ SelectFresh(o) \/ SelectNaive(o)
Walk(o)   == Replay(o) \/ Complete(o) \/ Pass(o) \/ Block(o) \/ Intent(o) \/ Execute(o)
Settle(o) == Probe(o) \/ Ambiguous(o) \/ Suppress(o) \/ RecordResult(o)
Drain(o)  == Drained(o) \/ BeginPass(o) \/ GiveUp(o) \/ CompIntent(o) \/ Undo(o)
             \/ CompResult(o) \/ Graduate(o) \/ Graduated(o) \/ Release(o)
Finish(o) == ReplayFailed(o) \/ Escalate(o) \/ Abandon(o) \/ AbandonWithResidue(o)
             \/ RecordAbandoned(o) \/ Fork(o) \/ RecordFork(o) \/ ForkNaive(o) \/ Ack(o)

Revisit(o) == Reconcile(o) \/ Recheck(o) \/ Reprobe(o) \/ Rematch(o)
              \/ Resettle(o) \/ Reconciled(o)

Run(o) == Lead(o) \/ Walk(o) \/ Settle(o) \/ Drain(o) \/ Finish(o) \/ Revisit(o)

Next == \/ \E o \in Orchestrators : Run(o) \/ Crash(o)
        \/ Lapse \/ Redeliver \/ Land

Spec == Init /\ [][Next]_vars

\* A process that can take its next step takes it, a lease lapses in the end,
\* and a timer fires.
Fairness == /\ \A o \in Orchestrators : WF_vars(Run(o))
            /\ WF_vars(Lapse) /\ WF_vars(Land)

FairSpec == Spec /\ Fairness
=============================================================================
