------------------------- MODULE OrchestratorProofs -------------------------
(***************************************************************************)
(* The clauses of Effect-Exactly-Once that hold for every trace, any       *)
(* number of orchestrators and any faults, crashes and redeliveries, also  *)
(* when leaders overlap in the services: CompensateOnlyDead,               *)
(* IntentBeforeEffect and JournalTruthful; what holds of the leases they   *)
(* work under; and what the fences leave a deposed leader.                 *)
(*                                                                         *)
(* Both tables and the ledger only grow.  So a step is looked at twice: as *)
(* what it does to the world (nothing, one effect, one compensation) and   *)
(* as what it adds to the journal (nothing, or one row).                   *)
(***************************************************************************)
EXTENDS Overlap, TLAPS

------------------------------------------------------------------------------
(* The types, and what a process holds in memory (LocalOK): proved        *)
(* together, since the type of a row depends on the step and the branch    *)
(* at hand.                                                                *)

\* The journal and the tree only grow, and a dead branch stays dead.
Grows ==
    /\ \/ UNCHANGED journal
       \/ \E rec \in Record : append(rec)
    /\ \/ UNCHANGED branches
       \/ \E p, d \in Nat : create_branch(p, d)
       \/ \E b \in DOMAIN branches, st \in BranchStatus \ {"active"} :
             set_branch_status(b, st)

\* Appending keeps the rows there are and adds one.
LEMMA AppendKeeps ==
    ASSUME NEW S, NEW s \in Seq(S), NEW x \in S
    PROVE  /\ Append(s, x) \in Seq(S)
           /\ Len(Append(s, x)) = Len(s) + 1
           /\ \A i \in DOMAIN s : i \in DOMAIN Append(s, x) /\ Append(s, x)[i] = s[i]
           /\ \A i \in DOMAIN Append(s, x) :
                 i \in DOMAIN s \/ (i = Len(s) + 1 /\ Append(s, x)[i] = x)
  OBVIOUS

\* Growth keeps the tables' types, their rows and the deadness of branches.
LEMMA GrowthKeeps ==
    ASSUME JournalTypeOK, Grows
    PROVE  /\ JournalTypeOK'
           /\ \A r \in DOMAIN journal : r \in DOMAIN journal' /\ journal'[r] = journal[r]
           /\ \A b \in DOMAIN branches :
                 /\ b \in DOMAIN branches'
                 /\ ~ IsActive(b) => ~ IsActive(b)'
  <1> USE DEF JournalTypeOK
  <1>1. /\ journal' \in Seq(Record)
        /\ \A r \in DOMAIN journal : r \in DOMAIN journal' /\ journal'[r] = journal[r]
    <2>1. CASE UNCHANGED journal
      BY <2>1
    <2>2. CASE \E rec \in Record : append(rec)
      BY <2>2, AppendKeeps DEF append
    <2> QED BY <2>1, <2>2 DEF Grows
  <1>2. /\ branches' \in Seq(Branch)
        /\ \A b \in DOMAIN branches : /\ b \in DOMAIN branches'
                                      /\ ~ IsActive(b) => ~ IsActive(b)'
    <2>1. CASE UNCHANGED branches
      BY <2>1 DEF IsActive
    <2>2. CASE \E p, d \in Nat : create_branch(p, d)
      <3>1. PICK p, d \in Nat : create_branch(p, d)
        BY <2>2
      <3>2. [parent |-> p, depth |-> d, status |-> "active"] \in Branch
        BY DEF Branch, BranchStatus
      <3> QED BY <3>1, <3>2, AppendKeeps DEF create_branch, IsActive
    <2>3. CASE \E b \in DOMAIN branches, st \in BranchStatus \ {"active"} :
                  set_branch_status(b, st)
      <3>1. PICK b \in DOMAIN branches, st \in BranchStatus \ {"active"} :
               branches' = [branches EXCEPT ![b].status = st]
        BY <2>3 DEF set_branch_status
      <3>2. branches[b] \in Branch
        OBVIOUS
      <3>3. [branches[b] EXCEPT !.status = st] \in Branch
        BY <3>2 DEF Branch
      <3> QED BY <3>1, <3>2, <3>3 DEF IsActive, Branch
    <2> QED BY <2>1, <2>2, <2>3 DEF Grows
  <1> QED BY <1>1, <1>2

\* What can be undone can be undone later.
LEMMA UndoableKept ==
    ASSUME JournalTypeOK, Grows, NEW r, Undoable(r)
    PROVE  Undoable(r)'
  <1>1. /\ r \in DOMAIN journal' /\ journal'[r] = journal[r]
        /\ journal[r].br \in DOMAIN branches' /\ ~ IsActive(journal[r].br)'
    BY GrowthKeeps DEF Undoable
  <1> QED BY <1>1 DEF Undoable, KeyOf, effect_key, ToolOf, IsActive

\* Rows of every kind the engine writes are records.
LEMMA StepRowType ==
    ASSUME TypeOK, NEW o \in Orchestrators, NEW kind \in RecordKind,
           NEW st \in ResultStatus \cup {NoStatus}
    PROVE  StepRow(o, kind, st) \in Record
  BY DEF TypeOK, StepRow, Call, Record, Local, Sev

LEMMA TreeRowType ==
    ASSUME NEW kind \in RecordKind, NEW b \in Nat, NEW sev \in Sev,
           NEW keys \in SUBSET Key
    PROVE  TreeRow(kind, b, sev, keys) \in Record
  BY DEF TreeRow, Record, NoStatus

LEMMA SlotRowType ==
    ASSUME TypeOK, NEW r \in DOMAIN journal, NEW kind \in RecordKind,
           NEW st \in ResultStatus \cup {NoStatus}
    PROVE  SlotRow(kind, r, st) \in Record
  <1>1. journal[r] \in Record
    BY DEF TypeOK, JournalTypeOK
  <1> QED BY <1>1 DEF SlotRow, Record

LEMMA CompRowType ==
    ASSUME TypeOK, NEW o \in Orchestrators, NEW r \in DOMAIN journal,
           NEW kind \in RecordKind, NEW st \in ResultStatus \cup {NoStatus}
    PROVE  /\ CompRow(o, kind, r, st) \in Record
           /\ CompRow(o, kind, r, st).kind = kind
           /\ CompRow(o, kind, r, st).status = st
           /\ CompRow(o, kind, r, st).br = journal[r].br
           /\ CompRow(o, kind, r, st).seq = journal[r].seq
  <1>1. journal[r] \in Record /\ orch[o].attempt \in Nat
    BY DEF TypeOK, JournalTypeOK, Local
  <1> QED BY <1>1 DEF CompRow, SlotRow, Record

\* What the barrier still owes is undoable, and has keys of steps.
LEMMA OwedIsUndoable ==
    ASSUME JournalTypeOK
    PROVE  \A r \in uncompensated : Undoable(r) /\ KeyOf(r) \in Key
  <1> SUFFICES ASSUME NEW r \in uncompensated
               PROVE  Undoable(r) /\ KeyOf(r) \in Key
    OBVIOUS
  <1>1. r \in DeadResults(Compensatable, {"ok"})
    BY DEF uncompensated
  <1>2. /\ r \in DOMAIN journal /\ journal[r].br \in dead_branches
        /\ journal[r].seq \in Steps /\ ToolOf(KeyOf(r)) \in Compensatable
    BY <1>1 DEF DeadResults, Rows
  <1>3. journal[r].br \in DOMAIN branches /\ ~ IsActive(journal[r].br)
    BY <1>2 DEF dead_branches, DEAD_BRANCH_STATUSES, IsActive
  <1>4. KeyOf(r) \in Key
    <2>1. journal[r] \in Record
      BY <1>2 DEF JournalTypeOK
    <2> QED BY <1>2, <2>1 DEF KeyOf, effect_key, Key, Record
  <1> QED BY <1>2, <1>3, <1>4 DEF Undoable

LEMMA OwedRowsType ==
    ASSUME TypeOK, NEW o \in Orchestrators
    PROVE  /\ EscalationRow(o) \in Record
           /\ BlockRow(o) \in Record /\ BlockRow(o).kind = "BARRIER_BLOCKED"
  <1>1. Owed \subseteq Key
    BY OwedIsUndoable DEF Owed, TypeOK
  <1>2. orch[o].br \in Nat
    BY DEF TypeOK, Local
  <1>3. EscalationRow(o) \in Record
    BY <1>1, <1>2, TreeRowType DEF EscalationRow, RecordKind, Sev
  <1>4. StepRow(o, "BARRIER_BLOCKED", NoStatus) \in Record
    BY StepRowType DEF RecordKind
  <1>5. BlockRow(o) \in Record
    BY <1>1, <1>4 DEF BlockRow, Record
  <1>6. BlockRow(o).kind = "BARRIER_BLOCKED"
    BY DEF BlockRow, StepRow
  <1> QED BY <1>3, <1>5, <1>6

------------------------------------------------------------------------------
(* Calls of the services                                                   *)

LEMMA CallType ==
    ASSUME TypeOK, NEW o \in Orchestrators, orch[o].seq \in Steps
    PROVE  Call(o) \in Request /\ Call(o).key = <<orch[o].br, orch[o].seq>>
  BY DEF TypeOK, Local, Call, Request, Key, effect_key, Sev

\* Entries, fences and the bag of late deliveries.
LEMMA RecordType ==
    ASSUME WorldTypeOK, NEW req \in Request, NEW epoch \in Nat,
           NEW kind \in {"effect", "compensation"}, record(kind, req, epoch)
    PROVE  ledger' \in Seq(Entry)
  BY DEF WorldTypeOK, record, Entry, Request

LEMMA FenceType ==
    ASSUME WorldTypeOK, NEW tool, NEW epoch \in Nat, _fence(tool, epoch)
    PROVE  epochSeen' \in [Fences -> Nat]
  BY DEF WorldTypeOK, _fence

LEMMA HoldLater ==
    ASSUME WorldTypeOK, NEW req \in Request, late' = late (+) SetToBag({req})
    PROVE  /\ IsABag(late') /\ BagToSet(late') \subseteq Request
           /\ BagToSet(late') \subseteq BagToSet(late) \cup {req}
  BY DEF WorldTypeOK, IsABag, BagToSet, SetToBag, (+), BagIn

LEMMA TakeLate ==
    ASSUME WorldTypeOK, NEW req, late' = late (-) SetToBag({req})
    PROVE  /\ IsABag(late') /\ BagToSet(late') \subseteq Request
           /\ BagToSet(late') \subseteq BagToSet(late)
  BY DEF WorldTypeOK, IsABag, BagToSet, SetToBag, (-), BagIn

\* The second moment of a call, whatever the fences are by then.
LEMMA TakeEffectType ==
    ASSUME WorldTypeOK, NEW req \in Request, NEW epoch \in Nat, NEW res,
           take_effect(req, epoch, res), epochSeen' \in [Fences -> Nat], UNCHANGED faults
    PROVE  WorldTypeOK'
  <1>1. req.key \in Key
    BY DEF Request
  <1>2. CASE UNCHANGED << applied, ledger, late >>
    BY <1>2 DEF WorldTypeOK
  <1>3. CASE UNCHANGED << applied, ledger >> /\ late' = late (+) SetToBag({req})
    BY <1>3, HoldLater DEF WorldTypeOK
  <1>4. CASE Hold(req) /\ UNCHANGED late /\ (UNCHANGED ledger \/ record("effect", req, epoch))
    BY <1>1, <1>4, RecordType DEF WorldTypeOK, Hold
  <1> QED BY <1>2, <1>3, <1>4 DEF take_effect

LEMMA UndoEffectType ==
    ASSUME WorldTypeOK, NEW req \in Request, NEW epoch \in Nat, NEW res,
           undo_effect(req, epoch, res), epochSeen' \in [Fences -> Nat], UNCHANGED faults
    PROVE  WorldTypeOK'
  <1>1. CASE UNCHANGED << applied, ledger, late >>
    BY <1>1 DEF WorldTypeOK
  <1>2. CASE /\ applied' = applied \ {req.key} /\ UNCHANGED late
             /\ record("compensation", req, epoch)
    BY <1>2, RecordType DEF WorldTypeOK
  <1> QED BY <1>1, <1>2 DEF undo_effect

LEMMA ExecuteType ==
    ASSUME WorldTypeOK, NEW req \in Request, NEW epoch \in Nat, NEW res,
           execute(req, epoch, res), UNCHANGED faults
    PROVE  WorldTypeOK'
  <1> DEFINE tool == ToolOf(req.key)
  <1>1. CASE UNCHANGED worldVars
    BY <1>1 DEF worldVars, WorldTypeOK
  <1>2. CASE _fence(tool, epoch) /\ UNCHANGED << applied, ledger, late >>
    BY <1>2, FenceType DEF WorldTypeOK
  <1>3. CASE _fence(tool, epoch) /\ take_effect(req, epoch, res)
    BY <1>3, FenceType, TakeEffectType
  <1> QED BY <1>1, <1>2, <1>3 DEF execute, let_in

LEMMA CompensateType ==
    ASSUME WorldTypeOK, NEW req \in Request, NEW epoch \in Nat, NEW res,
           compensate(req, epoch, res), UNCHANGED faults
    PROVE  WorldTypeOK'
  <1>1. CASE UNCHANGED worldVars
    BY <1>1 DEF worldVars, WorldTypeOK
  <1>2. CASE _fence(ToolOf(req.key), epoch) /\ undo_effect(req, epoch, res)
    BY <1>2, FenceType, UndoEffectType
  <1> QED BY <1>1, <1>2 DEF compensate

LEMMA LandType ==
    ASSUME WorldTypeOK, NEW req \in Request, land(req), UNCHANGED faults
    PROVE  WorldTypeOK'
  <1>1. req.key \in Key
    BY DEF Request
  <1>2. ledger' \in Seq(Entry) /\ applied' \subseteq Key
    BY <1>1, RecordType DEF land, Hold, WorldTypeOK
  <1> QED BY <1>2, TakeLate DEF land, WorldTypeOK

------------------------------------------------------------------------------
(* One process steps                                                       *)

\* The processes that do not move keep what they hold.
LEMMA OneMoves ==
    ASSUME TypeOK, LocalOK, Grows, NEW o \in Orchestrators, NEW l \in Local,
           orch' = [orch EXCEPT ![o] = l], Sound(l)'
    PROVE  orch' \in [Orchestrators -> Local] /\ LocalOK'
  <1>1. orch' \in [Orchestrators -> Local]
    BY DEF TypeOK
  <1>2. ASSUME NEW p \in Orchestrators PROVE Sound(orch[p])'
    <2>1. CASE p = o
      BY <2>1 DEF TypeOK, Sound
    <2>2. CASE p # o
      <3>1. orch'[p] = orch[p] /\ Sound(orch[p])
        BY <2>2 DEF TypeOK, LocalOK
      <3>2. /\ \A b \in DOMAIN branches : b \in DOMAIN branches'
            /\ \A r \in orch[p].todo : Undoable(r)'
            /\ \A r \in orch[p].redo : r \in DOMAIN journal' /\ journal'[r].seq \in Steps
        BY <3>1, GrowthKeeps, UndoableKept DEF TypeOK, Sound
      <3> QED BY <3>1, <3>2 DEF Sound
    <2> QED BY <2>1, <2>2
  <1> QED BY <1>1, <1>2 DEF LocalOK

LEMMA SoundKept ==
    ASSUME JournalTypeOK, Grows, NEW l, Sound(l)
    PROVE  Sound(l)'
  BY GrowthKeeps, UndoableKept DEF Sound

\* What is left to prove of an action of one process.
LEMMA Moves ==
    ASSUME TypeOK, LocalOK, Grows, NEW o \in Orchestrators, NEW l \in Local,
           orch' = [orch EXCEPT ![o] = l], Sound(l) \/ Sound(l)',
           UNCHANGED EngineVars, UNCHANGED worldVars \/ WorldTypeOK'
    PROVE  TypeOK' /\ LocalOK'
  <1>1. Sound(l)'
    BY SoundKept DEF TypeOK
  <1>2. orch' \in [Orchestrators -> Local] /\ LocalOK'
    BY <1>1, OneMoves
  <1>3. WorldTypeOK'
    BY DEF TypeOK, WorldTypeOK, EngineVars, settings, worldVars
  <1> QED BY <1>2, <1>3, GrowthKeeps DEF TypeOK, EngineVars, settings

LEMMA IdleOK == Idle \in Local /\ Sound(Idle)
  BY EngineAssumption DEF Idle, Local, PC, Sev, NoStatus, Sound, Working, Branchless

\* Entering a branch, new or old.
LEMMA RunBranch ==
    ASSUME TypeOK, LocalOK, Grows, NEW o \in Orchestrators, NEW b \in Nat,
           NEW sev \in Severities, _run_branch(o, b, sev), b \in DOMAIN branches',
           UNCHANGED << worldVars, EngineVars >>
    PROVE  TypeOK' /\ LocalOK'
  <1>1. PICK sup \in residue \cup {0} :
           orch' = [orch EXCEPT ![o] =
               [@ EXCEPT !.pc = "step", !.br = b, !.sev = sev, !.sup = sup,
                         !.done = IF Replays THEN completed_results(b) ELSE {},
                         !.seq = 1, !.chosen = NoSeverity]]
    BY DEF _run_branch
  <1> DEFINE d == IF Replays THEN completed_results(b) ELSE {}
  <1>2. orch[o] \in Local /\ Sound(orch[o])
    BY DEF TypeOK, LocalOK
  <1>3. sup \in Nat
    BY DEF TypeOK, JournalTypeOK, residue, DeadResults, Rows
  <1>4. d \subseteq Steps
    BY DEF completed_results
  <1>5. PICK l \in Local :
           l = [orch[o] EXCEPT !.pc = "step", !.br = b, !.sev = sev, !.sup = sup,
                               !.done = d, !.seq = 1, !.chosen = NoSeverity]
    BY <1>2, <1>3, <1>4 DEF Local, PC, Sev
  <1>6. Sound(l)'
    <2>1. /\ \A r \in orch[o].todo : Undoable(r)'
          /\ orch[o].grads \subseteq DOMAIN branches'
          /\ \A r \in orch[o].redo : r \in DOMAIN journal' /\ journal'[r].seq \in Steps
      BY <1>2, GrowthKeeps, UndoableKept DEF TypeOK, Sound
    <2>2. /\ l.pc = "step" /\ l.br = b /\ l.todo = orch[o].todo
          /\ l.grads = orch[o].grads /\ l.redo = orch[o].redo
      BY <1>2, <1>5 DEF Local
    <2> QED BY <2>1, <2>2 DEF Sound, Working, Branchless
  <1>7. orch' = [orch EXCEPT ![o] = l]
    BY <1>1, <1>5
  <1> QED BY <1>6, <1>7, Moves

------------------------------------------------------------------------------
(* Every action, by the groups of Run                                      *)

\* An action that only reads: what is left is the memory of the process.
LEMMA Reads ==
    ASSUME TypeOK, LocalOK, ReadOnly, NEW o \in Orchestrators, NEW l \in Local,
           orch' = [orch EXCEPT ![o] = l], Sound(l)
    PROVE  TypeOK' /\ LocalOK' /\ Grows
  <1>1. Grows /\ UNCHANGED worldVars /\ UNCHANGED EngineVars
    BY DEF ReadOnly, Grows, journalVars
  <1> QED BY <1>1, Moves

\* An action that writes one record.
LEMMA Records ==
    ASSUME TypeOK, LocalOK, WritesRecord, NEW rec \in Record, append(rec),
           NEW o \in Orchestrators, NEW l \in Local,
           orch' = [orch EXCEPT ![o] = l], Sound(l)
    PROVE  TypeOK' /\ LocalOK' /\ Grows
  <1>1. Grows /\ UNCHANGED worldVars /\ UNCHANGED EngineVars
    BY DEF WritesRecord, Grows
  <1> QED BY <1>1, Moves

\* An action that calls a service.
LEMMA Calls ==
    ASSUME TypeOK, LocalOK, CallsWorld, WorldTypeOK', NEW o \in Orchestrators,
           NEW l \in Local, orch' = [orch EXCEPT ![o] = l], Sound(l)
    PROVE  TypeOK' /\ LocalOK' /\ Grows
  <1>1. Grows /\ UNCHANGED EngineVars
    BY DEF CallsWorld, Grows, journalVars
  <1> QED BY <1>1, Moves

LEMMA LeadOK ==
    ASSUME TypeOK, LocalOK, NEW o \in Orchestrators, Lead(o)
    PROVE  TypeOK' /\ LocalOK' /\ Grows
  <1>1. CASE Start(o)
    <2>1. PICK l \in Local :
             l = [Idle EXCEPT !.pc = "select", !.epoch = lease.epoch + 1,
                              !.tries = orch[o].tries,
                              !.armed = config.diverge_after_seq # 0]
      <3>1. /\ lease.epoch + 1 \in Nat /\ orch[o].tries \in Nat
            /\ (config.diverge_after_seq # 0) \in BOOLEAN
        BY DEF TypeOK, Local
      <3> QED BY <3>1, IdleOK DEF Local, PC
    <2>2. Sound(l)
      BY <2>1 DEF Sound, Idle, Working, Branchless
    <2>3. Grows
      BY <1>1 DEF Start, Grows, journalVars
    <2>4. orch' = [orch EXCEPT ![o] = l] /\ WorldTypeOK'
      BY <1>1, <2>1 DEF Start, TypeOK, WorldTypeOK, worldVars, settings
    <2>5. orch' \in [Orchestrators -> Local] /\ LocalOK'
      BY <2>2, <2>3, <2>4, OneMoves, SoundKept DEF TypeOK
    <2>6. lease' \in [owner : Orchestrators \cup {NoOwner}, epoch : Nat, live : BOOLEAN]
      BY <1>1 DEF Start, TypeOK
    <2> QED BY <1>1, <2>3, <2>4, <2>5, <2>6 DEF Start, TypeOK, journalVars, settings, JournalTypeOK
  <1>2. CASE NotLeader(o)
    BY <1>2, IdleOK, Reads DEF NotLeader
  <1>3. CASE SelectActive(o)
    <2>1. PICK b \in DOMAIN branches, sev \in Severities : _run_branch(o, b, sev)
      BY <1>3 DEF SelectActive
    <2>2. Grows /\ b \in Nat /\ b \in DOMAIN branches' /\ UNCHANGED << worldVars, EngineVars >>
      BY <1>3 DEF SelectActive, ReadOnly, Grows, journalVars, TypeOK, JournalTypeOK
    <2> QED BY <2>1, <2>2, RunBranch
  <1>4. CASE SelectFresh(o)
    <2>1. /\ create_branch(0, 0) /\ _run_branch(o, Len(branches) + 1, FirstSeverity)
          /\ FirstSeverity \in Severities
      BY <1>4, EngineAssumption DEF SelectFresh
    <2>2. Grows /\ UNCHANGED << worldVars, EngineVars >>
      BY <1>4 DEF SelectFresh, WritesTree, Grows
    <2>3. Len(branches) + 1 \in Nat /\ Len(branches) + 1 \in DOMAIN branches'
      BY <2>1 DEF create_branch, TypeOK, JournalTypeOK
    <2> QED BY <2>1, <2>2, <2>3, RunBranch
  <1>5. CASE SelectNaive(o)
    <2>1. PICK b \in DOMAIN branches :
             /\ set_branch_status(b, "abandoned")
             /\ orch' = [orch EXCEPT ![o] = [@ EXCEPT !.pc = "residue", !.br = b]]
      BY <1>5 DEF SelectNaive
    <2>2. Grows /\ UNCHANGED worldVars /\ UNCHANGED EngineVars
      BY <1>5, <2>1 DEF SelectNaive, WritesTree, Grows, BranchStatus
    <2>3. orch[o] \in Local /\ Sound(orch[o]) /\ b \in Nat
      BY DEF TypeOK, LocalOK, JournalTypeOK
    <2>4. PICK l \in Local : l = [orch[o] EXCEPT !.pc = "residue", !.br = b]
      BY <2>3 DEF Local, PC
    <2>5. Sound(l)
      BY <2>3, <2>4 DEF Sound, Local, Working, Branchless
    <2> QED BY <2>1, <2>2, <2>4, <2>5, Moves
  <1> QED BY <1>1, <1>2, <1>3, <1>4, <1>5 DEF Lead

LEMMA WalkOK ==
    ASSUME TypeOK, LocalOK, NEW o \in Orchestrators, Walk(o)
    PROVE  TypeOK' /\ LocalOK' /\ Grows
  <1>0. orch[o] \in Local /\ Sound(orch[o])
    BY DEF TypeOK, LocalOK
  <1>1. CASE Replay(o)
    <2>1. PICK l \in Local : l = [orch[o] EXCEPT !.seq = @ + 1]
      <3>1. PICK n \in Nat : n = orch[o].seq + 1
        BY <1>0 DEF Local
      <3> QED BY <1>0, <3>1 DEF Local
    <2>2. Sound(l)
      BY <1>0, <1>1, <2>1 DEF Replay, At, Sound, Local, Working, Branchless
    <2> QED BY <1>1, <2>1, <2>2, Reads DEF Replay
  <1>2. CASE Complete(o)
    <2>1. PICK l \in Local : l = [orch[o] EXCEPT !.pc = "returned"]
      BY <1>0 DEF Local, PC
    <2>2. Sound(l)
      BY <1>0, <2>1 DEF Sound, Local, Working, Branchless
    <2> QED BY <1>2, <2>1, <2>2, Reads DEF Complete, Goto
  <1>3. CASE Pass(o)
    <2>1. PICK prior \in BOOLEAN : prior = PriorUnknown(o)
      BY DEF PriorUnknown
    <2>2. PICK l \in Local : l = [orch[o] EXCEPT !.pc = "intent", !.prior = prior]
      BY <1>0 DEF Local, PC
    <2>3. Sound(l)
      BY <1>0, <1>3, <2>2 DEF Pass, ToExecute, At, Sound, Local, Working, Branchless
    <2> QED BY <1>3, <2>1, <2>2, <2>3, Reads DEF Pass
  <1>4. CASE Block(o)
    <2>1. PICK prior \in BOOLEAN : prior = PriorUnknown(o)
      BY DEF PriorUnknown
    <2>2. PICK l \in Local : l = [orch[o] EXCEPT !.pc = "drain", !.attempt = 0,
                                                  !.prior = prior]
      BY <1>0 DEF Local, PC
    <2>3. Sound(l)
      BY <1>0, <1>4, <2>2 DEF Block, ToExecute, At, Sound, Local, Working, Branchless
    <2>4. BlockRow(o) \in Record
      BY OwedRowsType
    <2> QED BY <1>4, <2>1, <2>2, <2>3, <2>4, Records DEF Block
  <1>5. CASE Intent(o)
    <2>1. PICK l \in Local : l = [orch[o] EXCEPT !.pc = "call"]
      BY <1>0 DEF Local, PC
    <2>2. Sound(l)
      BY <1>0, <1>5, <2>1 DEF Intent, At, Sound, Local, Working, Branchless
    <2>3. StepRow(o, "INTENT", NoStatus) \in Record
      BY StepRowType DEF RecordKind
    <2> QED BY <1>5, <2>1, <2>2, <2>3, Records DEF Intent, Goto
  <1>6. CASE Execute(o)
    <2>1. PICK res \in ResultStatus :
             /\ execute(Call(o), orch[o].epoch, res)
             /\ orch' = [orch EXCEPT ![o] = [@ EXCEPT !.pc = "called", !.res = res]]
      BY <1>6 DEF Execute
    <2>2. PICK l \in Local : l = [orch[o] EXCEPT !.pc = "called", !.res = res]
      BY <1>0 DEF Local, PC
    <2>3. Sound(l) /\ orch[o].seq \in Steps /\ orch[o].epoch \in Nat
      BY <1>0, <1>6, <2>2 DEF Execute, At, Sound, Local, Working, Branchless
    <2>4. WorldTypeOK'
      BY <1>6, <2>1, <2>3, CallType, ExecuteType
         DEF Execute, CallsWorld, EngineVars, settings, TypeOK
    <2> QED BY <1>6, <2>1, <2>2, <2>3, <2>4, Calls DEF Execute
  <1> QED BY <1>1, <1>2, <1>3, <1>4, <1>5, <1>6 DEF Walk

LEMMA SettleOK ==
    ASSUME TypeOK, LocalOK, NEW o \in Orchestrators, Settle(o)
    PROVE  TypeOK' /\ LocalOK' /\ Grows
  <1>0. orch[o] \in Local /\ Sound(orch[o])
    BY DEF TypeOK, LocalOK
  <1>1. CASE Probe(o)
    <2>1. PICK ans \in {"done", "not_done", "unknown"} :
             orch' = [orch EXCEPT ![o] =
                  CASE ans = "done"     -> [@ EXCEPT !.res = "ok"]
                    [] ans = "not_done" -> [@ EXCEPT !.res = "failed"]
                    [] ans = "unknown"  -> [@ EXCEPT !.pc = "ambiguous"]]
      BY <1>1 DEF Probe
    <2>2. PICK l \in Local :
             l = CASE ans = "done"     -> [orch[o] EXCEPT !.res = "ok"]
                   [] ans = "not_done" -> [orch[o] EXCEPT !.res = "failed"]
                   [] ans = "unknown"  -> [orch[o] EXCEPT !.pc = "ambiguous"]
      <3>1. CASE ans = "done"
        BY <1>0, <3>1 DEF Local, ResultStatus
      <3>2. CASE ans = "not_done"
        BY <1>0, <3>2 DEF Local, ResultStatus
      <3>3. CASE ans = "unknown"
        BY <1>0, <3>3 DEF Local, PC
      <3> QED BY <3>1, <3>2, <3>3
    <2>3. Sound(l)
      <3>1. l \in {[orch[o] EXCEPT !.res = "ok"], [orch[o] EXCEPT !.res = "failed"],
                   [orch[o] EXCEPT !.pc = "ambiguous"]}
        BY <2>2
      <3> QED BY <1>0, <1>1, <3>1 DEF Probe, At, Sound, Local, Working, Branchless
    <2> QED BY <1>1, <2>1, <2>2, <2>3, Reads DEF Probe
  <1>2. CASE Ambiguous(o)
    <2>1. PICK l \in Local : l = [orch[o] EXCEPT !.pc = "escalate"]
      BY <1>0 DEF Local, PC
    <2>2. Sound(l)
      BY <1>0, <1>2, <2>1 DEF Ambiguous, At, Sound, Local, Working, Branchless
    <2>3. StepRow(o, "RESULT", "unknown") \in Record
      BY StepRowType DEF RecordKind, ResultStatus
    <2> QED BY <1>2, <2>1, <2>2, <2>3, Records DEF Ambiguous, Goto
  <1>3. CASE Suppress(o)
    <2>1. PICK l \in Local : l = [orch[o] EXCEPT !.prior = FALSE]
      BY <1>0 DEF Local
    <2>2. Sound(l)
      BY <1>0, <1>3, <2>1 DEF Suppress, At, Sound, Local, Working, Branchless
    <2>3. StepRow(o, "LATE_DELIVERY_SUPPRESSED", "ok") \in Record
      BY StepRowType DEF RecordKind, ResultStatus
    <2> QED BY <1>3, <2>1, <2>2, <2>3, Records DEF Suppress
  <1>4. CASE RecordResult(o)
    <2> DEFINE settled == [orch[o] EXCEPT !.prior = FALSE, !.res = NoStatus]
    <2>1. /\ settled \in Local /\ settled.br = orch[o].br /\ settled.seq = orch[o].seq
          /\ settled.todo = orch[o].todo /\ settled.grads = orch[o].grads
          /\ settled.redo = orch[o].redo
      BY <1>0 DEF Local
    <2>2. \E l \in {[settled EXCEPT !.pc = "diverge"], [settled EXCEPT !.pc = "escalate"],
                    [settled EXCEPT !.pc = "diverge", !.armed = FALSE],
                    [settled EXCEPT !.pc = "step", !.seq = @ + 1]} :
             orch' = [orch EXCEPT ![o] = l]
      BY <1>4 DEF RecordResult
    <2> HIDE DEF settled
    <2>3. PICK l : /\ l \in {[settled EXCEPT !.pc = "diverge"],
                             [settled EXCEPT !.pc = "escalate"],
                             [settled EXCEPT !.pc = "diverge", !.armed = FALSE],
                             [settled EXCEPT !.pc = "step", !.seq = @ + 1]}
                   /\ orch' = [orch EXCEPT ![o] = l]
      BY <2>2
    <2>4. l \in Local
      <3>1. [settled EXCEPT !.pc = "diverge"] \in Local
        BY <2>1 DEF Local, PC
      <3>2. [settled EXCEPT !.pc = "escalate"] \in Local
        BY <2>1 DEF Local, PC
      <3>3. [settled EXCEPT !.pc = "diverge", !.armed = FALSE] \in Local
        BY <2>1 DEF Local, PC
      <3>4. [settled EXCEPT !.pc = "step", !.seq = @ + 1] \in Local
        <4>1. PICK n \in Nat : n = settled.seq + 1
          BY <2>1 DEF Local
        <4> QED BY <2>1, <4>1 DEF Local, PC
      <3> QED BY <2>3, <3>1, <3>2, <3>3, <3>4
    <2>5. Sound(l)
      <3>1. /\ l.pc \in {"diverge", "escalate", "step"} /\ l.br = orch[o].br
            /\ l.todo = orch[o].todo /\ l.grads = orch[o].grads /\ l.redo = orch[o].redo
        BY <2>1, <2>3 DEF Local
      <3>2. orch[o].pc = "called"
        BY <1>4 DEF RecordResult, At
      <3> QED BY <1>0, <3>1, <3>2 DEF Sound, Working, Branchless
    <2>6. StepRow(o, "RESULT", orch[o].res) \in Record
      BY <1>0, StepRowType DEF RecordKind, Local
    <2> QED BY <1>4, <2>3, <2>4, <2>5, <2>6, Records DEF RecordResult
  <1> QED BY <1>1, <1>2, <1>3, <1>4 DEF Settle

LEMMA DrainOK ==
    ASSUME TypeOK, LocalOK, NEW o \in Orchestrators, Drain(o)
    PROVE  TypeOK' /\ LocalOK' /\ Grows
  <1>0. orch[o] \in Local /\ Sound(orch[o])
    BY DEF TypeOK, LocalOK
  <1>1. CASE Drained(o)
    <2>1. PICK g \in SUBSET DOMAIN branches :
             orch' = [orch EXCEPT ![o] = [@ EXCEPT !.pc = "graduate", !.attempt = 0,
                                                   !.grads = g]]
      BY <1>1 DEF Drained
    <2>2. g \subseteq Nat
      BY DEF TypeOK, JournalTypeOK
    <2>3. PICK l \in Local : l = [orch[o] EXCEPT !.pc = "graduate", !.attempt = 0,
                                                 !.grads = g]
      BY <1>0, <2>2 DEF Local, PC
    <2>4. Sound(l)
      BY <1>0, <1>1, <2>3 DEF Drained, At, Sound, Local, Working, Branchless
    <2> QED BY <1>1, <2>1, <2>3, <2>4, Reads DEF Drained
  <1>2. CASE BeginPass(o)
    <2>1. PICK n \in Nat : n = orch[o].attempt + 1
      BY <1>0 DEF Local
    <2>2. PICK t \in SUBSET Nat : t = uncompensated
      <3>1. uncompensated \subseteq DOMAIN journal
        BY OwedIsUndoable DEF TypeOK, Undoable
      <3> QED BY <3>1 DEF TypeOK, JournalTypeOK
    <2>3. \A r \in t : Undoable(r)
      BY <2>2, OwedIsUndoable DEF TypeOK
    <2>4. PICK l \in Local : l = [orch[o] EXCEPT !.pc = "comp", !.attempt = n, !.todo = t]
      BY <1>0 DEF Local, PC
    <2>5. Sound(l)
      BY <1>0, <1>2, <2>3, <2>4 DEF BeginPass, At, Sound, Local, Working, Branchless
    <2>6. orch' = [orch EXCEPT ![o] = l]
      BY <1>2, <2>1, <2>2, <2>4 DEF BeginPass
    <2> QED BY <1>2, <2>5, <2>6, Reads DEF BeginPass
  <1>3. CASE GiveUp(o)
    <2>1. PICK l \in Local : l = [orch[o] EXCEPT !.pc = "escalate", !.attempt = 0,
                                                 !.todo = {}]
      BY <1>0 DEF Local, PC
    <2>2. Sound(l)
      BY <1>0, <1>3, <2>1 DEF GiveUp, At, Sound, Local, Working, Branchless
    <2> QED BY <1>3, <2>1, <2>2, Reads DEF GiveUp
  <1>4. CASE CompIntent(o)
    <2>1. PICK r \in DOMAIN journal : append(CompRow(o, "COMP_INTENT", r, NoStatus))
      BY <1>4 DEF CompIntent
    <2>2. CompRow(o, "COMP_INTENT", r, NoStatus) \in Record
      BY CompRowType DEF RecordKind
    <2>3. PICK l \in Local : l = [orch[o] EXCEPT !.pc = "undo"]
      BY <1>0 DEF Local, PC
    <2>4. Sound(l)
      BY <1>0, <1>4, <2>3 DEF CompIntent, At, Sound, Local, Working, Branchless
    <2> QED BY <1>4, <2>1, <2>2, <2>3, <2>4, Records DEF CompIntent, Goto
  <1>5. CASE Undo(o)
    <2>1. PICK r \in DOMAIN journal, res \in ResultStatus :
             /\ NextUndo(o, r)
             /\ compensate([key |-> KeyOf(r), sev |-> journal[r].sev, sup |-> 0],
                           orch[o].epoch, res)
             /\ orch' = [orch EXCEPT ![o] = [@ EXCEPT !.pc = "undone", !.res = res]]
      BY <1>5 DEF Undo
    <2>2. [key |-> KeyOf(r), sev |-> journal[r].sev, sup |-> 0] \in Request
      <3>1. journal[r] \in Record /\ journal[r].seq \in Steps
        BY <1>0, <2>1 DEF NextUndo, Sound, Undoable, TypeOK, JournalTypeOK
      <3> QED BY <3>1 DEF Record, Request, KeyOf, effect_key, Key
    <2>3. WorldTypeOK' /\ orch[o].epoch \in Nat
      BY <1>0, <1>5, <2>1, <2>2, CompensateType
         DEF Undo, CallsWorld, EngineVars, settings, TypeOK, Local
    <2>4. PICK l \in Local : l = [orch[o] EXCEPT !.pc = "undone", !.res = res]
      BY <1>0 DEF Local, PC
    <2>5. Sound(l)
      BY <1>0, <1>5, <2>4 DEF Undo, At, Sound, Local, Working, Branchless
    <2> QED BY <1>5, <2>1, <2>3, <2>4, <2>5, Calls DEF Undo
  <1>6. CASE CompResult(o)
    <2>1. PICK r \in DOMAIN journal, pc \in {"drain", "comp"} :
             /\ append(CompRow(o, "COMP_RESULT", r, orch[o].res))
             /\ orch' = [orch EXCEPT ![o] =
                    [@ EXCEPT !.pc = pc, !.todo = orch[o].todo \ {r}, !.res = NoStatus]]
      BY <1>6 DEF CompResult
    <2>2. CompRow(o, "COMP_RESULT", r, orch[o].res) \in Record
      BY <1>0, CompRowType DEF RecordKind, Local
    <2>3. PICK t \in SUBSET Nat : t = orch[o].todo \ {r}
      BY <1>0 DEF Local
    <2>4. PICK l \in Local : l = [orch[o] EXCEPT !.pc = pc, !.todo = t, !.res = NoStatus]
      BY <1>0 DEF Local, PC
    <2>5. Sound(l)
      BY <1>0, <1>6, <2>3, <2>4 DEF CompResult, At, Sound, Local, Working, Branchless
    <2>6. orch' = [orch EXCEPT ![o] = l]
      BY <2>1, <2>3, <2>4
    <2> QED BY <1>6, <2>1, <2>2, <2>5, <2>6, Records DEF CompResult
  <1>7. CASE Graduate(o)
    <2>1. PICK b \in DOMAIN branches : set_branch_status(b, "compensated")
      BY <1>7 DEF Graduate
    <2>2. Grows /\ UNCHANGED worldVars /\ UNCHANGED EngineVars
      BY <1>7, <2>1 DEF Graduate, WritesTree, Grows, BranchStatus
    <2>3. PICK l \in Local : l = [orch[o] EXCEPT !.pc = "graduated"]
      BY <1>0 DEF Local, PC
    <2>4. Sound(l)
      BY <1>0, <1>7, <2>3 DEF Graduate, At, Sound, Local, Working, Branchless
    <2> QED BY <1>7, <2>2, <2>3, <2>4, Moves DEF Graduate, Goto
  <1>8. CASE Graduated(o)
    <2>1. PICK b \in DOMAIN branches :
             /\ append(TreeRow("BRANCH_COMPENSATED", b, NoSeverity, {}))
             /\ orch' = [orch EXCEPT ![o] =
                    [@ EXCEPT !.pc = "graduate", !.grads = orch[o].grads \ {b}]]
      BY <1>8 DEF Graduated
    <2>2. TreeRow("BRANCH_COMPENSATED", b, NoSeverity, {}) \in Record
      <3>1. b \in Nat /\ NoSeverity \in Sev /\ "BRANCH_COMPENSATED" \in RecordKind
        BY DEF TypeOK, JournalTypeOK, RecordKind, Sev
      <3> QED BY <3>1, TreeRowType
    <2>3. PICK g \in SUBSET Nat : g = orch[o].grads \ {b}
      BY <1>0 DEF Local
    <2>4. PICK l \in Local : l = [orch[o] EXCEPT !.pc = "graduate", !.grads = g]
      BY <1>0 DEF Local, PC
    <2>5. Sound(l)
      BY <1>0, <1>8, <2>3, <2>4 DEF Graduated, At, Sound, Local, Working, Branchless
    <2>6. orch' = [orch EXCEPT ![o] = l]
      BY <2>1, <2>3, <2>4
    <2> QED BY <1>8, <2>1, <2>2, <2>5, <2>6, Records DEF Graduated
  <1>9. CASE Release(o)
    <2>1. PICK l \in Local : l = [orch[o] EXCEPT !.pc = "intent"]
      BY <1>0 DEF Local, PC
    <2>2. Sound(l)
      BY <1>0, <1>9, <2>1 DEF Release, At, Sound, Local, Working, Branchless
    <2>3. StepRow(o, "BARRIER_RELEASED", NoStatus) \in Record
      BY StepRowType DEF RecordKind
    <2> QED BY <1>9, <2>1, <2>2, <2>3, Records DEF Release, Goto
  <1> QED BY <1>1, <1>2, <1>3, <1>4, <1>5, <1>6, <1>7, <1>8, <1>9 DEF Drain

LEMMA FinishOK ==
    ASSUME TypeOK, LocalOK, NEW o \in Orchestrators, Finish(o)
    PROVE  TypeOK' /\ LocalOK' /\ Grows
  <1>0. orch[o] \in Local /\ Sound(orch[o])
    BY DEF TypeOK, LocalOK
  <1>1. CASE ReplayFailed(o)
    <2>1. PICK n \in Nat : n = orch[o].tries + 1
      BY <1>0 DEF Local
    <2>2. PICK l \in {[Idle EXCEPT !.tries = n], [Idle EXCEPT !.pc = "returned"]} :
             orch' = [orch EXCEPT ![o] = l]
      BY <1>1, <2>1 DEF ReplayFailed
    <2>3. l \in Local
      BY <2>2, IdleOK DEF Local, PC
    <2>4. Sound(l)
      BY <2>2 DEF Idle, Sound, Working, Branchless
    <2> QED BY <1>1, <2>2, <2>3, <2>4, Reads DEF ReplayFailed
  <1>2. CASE Escalate(o)
    <2>1. PICK l \in Local : l = [orch[o] EXCEPT !.pc = "returned"]
      BY <1>0 DEF Local, PC
    <2>2. Sound(l)
      BY <1>0, <2>1 DEF Sound, Local, Working, Branchless
    <2> QED BY <1>2, <2>1, <2>2, OwedRowsType, Records DEF Escalate, Goto
  <1>3. CASE Abandon(o)
    <2>1. PICK sev \in Severities :
             orch' = [orch EXCEPT ![o] = [@ EXCEPT !.pc = "residue", !.chosen = sev]]
      BY <1>3 DEF Abandon
    <2>2. orch[o].br \in DOMAIN branches
      BY <1>0, <1>3 DEF Abandon, At, Sound, Branchless
    <2>3. Grows /\ UNCHANGED worldVars /\ UNCHANGED EngineVars
      BY <1>3, <2>2 DEF Abandon, WritesTree, Grows, BranchStatus
    <2>4. PICK l \in Local : l = [orch[o] EXCEPT !.pc = "residue", !.chosen = sev]
      BY <1>0 DEF Local, PC, Sev
    <2>5. Sound(l)
      BY <1>0, <2>2, <2>4 DEF Sound, Local, Working, Branchless
    <2> QED BY <2>1, <2>3, <2>4, <2>5, Moves
  <1>4. CASE AbandonWithResidue(o)
    <2>1. orch[o].br \in DOMAIN branches
      BY <1>0, <1>4 DEF AbandonWithResidue, At, Sound, Branchless
    <2>2. Grows /\ UNCHANGED worldVars /\ UNCHANGED EngineVars
      BY <1>4, <2>1 DEF AbandonWithResidue, WritesTree, Grows, BranchStatus
    <2>3. PICK l \in Local : l = [orch[o] EXCEPT !.pc = "mark"]
      BY <1>0 DEF Local, PC
    <2>4. Sound(l)
      BY <1>0, <2>1, <2>3 DEF Sound, Local, Working, Branchless
    <2> QED BY <1>4, <2>2, <2>3, <2>4, Moves DEF AbandonWithResidue, Goto
  <1>5. CASE RecordAbandoned(o)
    <2>1. orch[o].br \in DOMAIN branches /\ orch[o].br \in Nat
      BY <1>0, <1>5 DEF RecordAbandoned, At, Sound, Local, Branchless
    <2>2. TreeRow("BRANCH_ABANDONED", orch[o].br, NoSeverity, {}) \in Record
      BY <2>1, TreeRowType DEF RecordKind, Sev
    <2>3. PICK l \in Local : l = [orch[o] EXCEPT !.pc = "fork"]
      BY <1>0 DEF Local, PC
    <2>4. Sound(l)
      BY <1>0, <2>1, <2>3 DEF Sound, Local, Working, Branchless
    <2> QED BY <1>5, <2>2, <2>3, <2>4, Records DEF RecordAbandoned, Goto
  <1>6. CASE Fork(o)
    <2>1. orch[o].br \in DOMAIN branches /\ orch[o].br \in Nat
      BY <1>0, <1>6 DEF Fork, At, Sound, Local, Branchless
    <2>2. branches[orch[o].br] \in Branch
      BY <2>1 DEF TypeOK, JournalTypeOK
    <2>3. /\ create_branch(orch[o].br, branches[orch[o].br].depth + 1)
          /\ branches[orch[o].br].depth + 1 \in Nat
      BY <1>6, <2>2 DEF Fork, Branch
    <2>4. Grows /\ UNCHANGED worldVars /\ UNCHANGED EngineVars
      BY <1>6, <2>1, <2>3 DEF Fork, WritesTree, Grows
    <2>5. PICK n \in Nat : n = Len(branches) + 1
      BY DEF TypeOK, JournalTypeOK
    <2>6. n \in DOMAIN branches'
      BY <2>3, <2>5 DEF create_branch, TypeOK, JournalTypeOK
    <2>7. PICK l \in Local : l = [orch[o] EXCEPT !.pc = "forked", !.br = n]
      BY <1>0 DEF Local, PC
    <2>8. Sound(l)'
      <3>1. /\ \A r \in orch[o].todo : Undoable(r)'
            /\ orch[o].grads \subseteq DOMAIN branches'
            /\ \A r \in orch[o].redo : r \in DOMAIN journal' /\ journal'[r].seq \in Steps
        BY <1>0, <2>4, GrowthKeeps, UndoableKept DEF TypeOK, Sound
      <3>2. /\ l.pc = "forked" /\ l.br = n /\ l.todo = orch[o].todo
            /\ l.grads = orch[o].grads /\ l.redo = orch[o].redo
        BY <1>0, <2>7 DEF Local
      <3>3. l.chosen \in Severities
        BY <1>0, <1>6, <2>7 DEF Fork, Local, Sev
      <3> QED BY <2>6, <3>1, <3>2, <3>3 DEF Sound, Working, Branchless
    <2>9. orch' = [orch EXCEPT ![o] = l]
      BY <1>6, <2>5, <2>7 DEF Fork
    <2> QED BY <2>4, <2>8, <2>9, Moves
  <1>7. CASE RecordFork(o)
    <2>1. /\ orch[o].br \in DOMAIN branches /\ orch[o].br \in Nat
          /\ orch[o].chosen \in Sev
      BY <1>0, <1>7 DEF RecordFork, At, Sound, Local, Branchless
    <2>2. TreeRow("BRANCH_FORKED", orch[o].br, orch[o].chosen, {}) \in Record
      BY <2>1, TreeRowType DEF RecordKind
    <2>3. Grows /\ UNCHANGED << worldVars, EngineVars >>
      BY <1>7, <2>2 DEF RecordFork, WritesRecord, Grows
    <2>4. orch[o].br \in DOMAIN branches'
      BY <1>7, <2>1 DEF RecordFork, WritesRecord
    <2>5. orch[o].chosen \in Severities
      BY <1>0, <1>7 DEF RecordFork, At, Sound, Branchless
    <2> QED BY <1>7, <2>1, <2>3, <2>4, <2>5, RunBranch DEF RecordFork
  <1>8. CASE ForkNaive(o)
    <2>1. /\ create_branch(0, 0) /\ _run_branch(o, Len(branches) + 1, FirstSeverity)
          /\ FirstSeverity \in Severities
      BY <1>8, EngineAssumption DEF ForkNaive
    <2>2. Grows /\ UNCHANGED << worldVars, EngineVars >>
      BY <1>8, <2>1 DEF ForkNaive, WritesTree, Grows
    <2>3. Len(branches) + 1 \in Nat /\ Len(branches) + 1 \in DOMAIN branches'
      BY <2>1 DEF create_branch, TypeOK, JournalTypeOK
    <2> QED BY <2>1, <2>2, <2>3, RunBranch
  <1>9. CASE Ack(o)
    <2>1. Grows
      BY <1>9 DEF Ack, Grows, journalVars
    <2>2. orch' \in [Orchestrators -> Local] /\ LocalOK'
      BY <1>9, <2>1, IdleOK, SoundKept, OneMoves DEF Ack, TypeOK
    <2> QED BY <1>9, <2>1, <2>2
         DEF Ack, TypeOK, JournalTypeOK, WorldTypeOK, journalVars, worldVars, settings
  <1> QED BY <1>1, <1>2, <1>3, <1>4, <1>5, <1>6, <1>7, <1>8, <1>9 DEF Finish

LEMMA RevisitOK ==
    ASSUME TypeOK, LocalOK, NEW o \in Orchestrators, Revisit(o)
    PROVE  TypeOK' /\ LocalOK' /\ Grows
  <1>0. orch[o] \in Local /\ Sound(orch[o])
    BY DEF TypeOK, LocalOK
  <1>1. CASE Reconcile(o)
    <2>1. PICK d \in SUBSET Nat : d = UnknownResults
      <3>1. UnknownResults \subseteq DOMAIN journal
        BY DEF UnknownResults, Rows
      <3> QED BY <3>1 DEF TypeOK, JournalTypeOK
    <2>2. PICK l \in Local : l = [Idle EXCEPT !.pc = "recheck", !.epoch = lease.epoch,
                                             !.redo = d]
      BY IdleOK DEF TypeOK, Local, PC
    <2>3. Sound(l)
      <3>1. \A r \in d : r \in DOMAIN journal /\ journal[r].seq \in Steps
        BY <2>1 DEF UnknownResults, Rows
      <3>2. l.pc = "recheck" /\ l.todo = {} /\ l.grads = {} /\ l.redo = d
        BY <2>2 DEF Idle
      <3> QED BY <3>1, <3>2 DEF Sound, Working, Branchless
    <2>4. Grows
      BY <1>1 DEF Reconcile, Grows, journalVars
    <2>5. orch' = [orch EXCEPT ![o] = l]
      BY <1>1, <2>1, <2>2 DEF Reconcile
    <2>6. orch' \in [Orchestrators -> Local] /\ LocalOK'
      BY <2>3, <2>4, <2>5, OneMoves, SoundKept DEF TypeOK
    <2>7. spent' \in [crash : Nat, expire : Nat, redeliver : Nat, reconcile : Nat]
      BY <1>1 DEF Reconcile, TypeOK
    <2> QED BY <1>1, <2>4, <2>6, <2>7
         DEF Reconcile, TypeOK, JournalTypeOK, WorldTypeOK, journalVars, worldVars, settings
  <1>2. CASE Recheck(o)
    <2>1. PICK r \in DOMAIN journal, res \in ResultStatus :
             /\ NextRedo(o, r)
             /\ execute([key |-> KeyOf(r), sev |-> journal[r].sev, sup |-> journal[r].sup],
                        orch[o].epoch, res)
             /\ orch' = [orch EXCEPT ![o] = [@ EXCEPT !.pc = "rechecked", !.res = res]]
      BY <1>2 DEF Recheck
    <2>2. /\ [key |-> KeyOf(r), sev |-> journal[r].sev, sup |-> journal[r].sup] \in Request
          /\ orch[o].epoch \in Nat
      <3>1. journal[r] \in Record /\ journal[r].seq \in Steps
        BY <1>0, <2>1 DEF NextRedo, Sound, TypeOK, JournalTypeOK
      <3> QED BY <1>0, <3>1 DEF Record, Request, KeyOf, effect_key, Key, Local
    <2>3. WorldTypeOK'
      BY <1>2, <2>1, <2>2, ExecuteType
         DEF Recheck, CallsWorld, EngineVars, settings, TypeOK
    <2>4. PICK l \in Local : l = [orch[o] EXCEPT !.pc = "rechecked", !.res = res]
      BY <1>0 DEF Local, PC
    <2>5. Sound(l)
      BY <1>0, <1>2, <2>4 DEF Recheck, At, Sound, Local, Working, Branchless
    <2> QED BY <1>2, <2>1, <2>3, <2>4, <2>5, Calls DEF Recheck
  <1>3. ASSUME NEW r, DropRedo(o, r)
        PROVE  \E l \in Local : orch' = [orch EXCEPT ![o] = l] /\ Sound(l)
    <2>1. PICK d \in SUBSET Nat : d = orch[o].redo \ {r}
      BY <1>0 DEF Local
    <2>2. PICK l \in Local : l = [orch[o] EXCEPT !.pc = "recheck", !.redo = d, !.res = NoStatus]
      BY <1>0 DEF Local, PC
    <2>3. /\ d \subseteq orch[o].redo /\ l.pc = "recheck" /\ l.redo = d
          /\ l.todo = orch[o].todo /\ l.grads = orch[o].grads /\ l.br = orch[o].br
      BY <1>0, <2>1, <2>2 DEF Local
    <2>4. Sound(l)
      BY <1>0, <2>3 DEF Sound, Working, Branchless
    <2>5. orch' = [orch EXCEPT ![o] = l]
      BY <1>3, <2>1, <2>2 DEF DropRedo
    <2> QED BY <2>4, <2>5
  <1>4. CASE Reprobe(o)
    <2>1. CASE \E r : DropRedo(o, r)
      BY <1>3, <1>4, <2>1, Reads DEF Reprobe
    <2>2. CASE orch' = [orch EXCEPT ![o].res = "ok"]
      <3>1. PICK l \in Local : l = [orch[o] EXCEPT !.res = "ok"]
        BY <1>0 DEF Local, ResultStatus
      <3>2. Sound(l)
        BY <1>0, <1>4, <3>1 DEF Reprobe, At, Sound, Local, Working, Branchless
      <3> QED BY <1>4, <2>2, <3>1, <3>2, Reads DEF Reprobe
    <2> QED BY <1>4, <2>1, <2>2 DEF Reprobe
  <1>5. CASE Rematch(o)
    <2>1. PICK r \in DOMAIN journal : append(SlotRow("LATE_DELIVERY_SUPPRESSED", r, "ok"))
      BY <1>5 DEF Rematch
    <2>2. SlotRow("LATE_DELIVERY_SUPPRESSED", r, "ok") \in Record
      BY SlotRowType DEF RecordKind, ResultStatus
    <2>3. PICK l \in Local : l = [orch[o] EXCEPT !.pc = "matched"]
      BY <1>0 DEF Local, PC
    <2>4. Sound(l)
      BY <1>0, <1>5, <2>3 DEF Rematch, At, Sound, Local, Working, Branchless
    <2> QED BY <1>5, <2>1, <2>2, <2>3, <2>4, Records DEF Rematch, Goto
  <1>6. CASE Resettle(o)
    <2>1. PICK r \in DOMAIN journal : append(SlotRow("RESULT", r, "ok")) /\ DropRedo(o, r)
      BY <1>6 DEF Resettle
    <2>2. SlotRow("RESULT", r, "ok") \in Record
      BY SlotRowType DEF RecordKind, ResultStatus
    <2> QED BY <1>3, <1>6, <2>1, <2>2, Records DEF Resettle
  <1>7. CASE Reconciled(o)
    BY <1>7, IdleOK, Reads DEF Reconciled
  <1> QED BY <1>1, <1>2, <1>4, <1>5, <1>6, <1>7 DEF Revisit

LEMMA CrashOK ==
    ASSUME TypeOK, LocalOK, NEW o \in Orchestrators, Crash(o)
    PROVE  TypeOK' /\ LocalOK' /\ Grows
  <1>1. Grows
    BY DEF Crash, Grows, journalVars
  <1>2. orch' \in [Orchestrators -> Local] /\ LocalOK'
    BY <1>1, IdleOK, SoundKept, OneMoves DEF Crash, TypeOK
  <1>3. spent' \in [crash : Nat, expire : Nat, redeliver : Nat, reconcile : Nat]
    BY DEF Crash, TypeOK
  <1> QED BY <1>1, <1>2, <1>3
       DEF Crash, TypeOK, JournalTypeOK, WorldTypeOK, journalVars, worldVars, settings

LEMMA EnvironmentOK ==
    ASSUME TypeOK, LocalOK, Lapse \/ Redeliver \/ Land
    PROVE  TypeOK' /\ LocalOK' /\ Grows
  <1>1. Grows /\ UNCHANGED << journalVars, orch >>
    BY DEF Lapse, Redeliver, Land, Grows, journalVars
  <1>2. LocalOK'
    BY <1>1, SoundKept DEF LocalOK, TypeOK
  <1>3. WorldTypeOK'
    <2>1. CASE Lapse \/ Redeliver
      BY <2>1 DEF Lapse, Redeliver, TypeOK, WorldTypeOK, worldVars, settings
    <2>2. CASE Land
      <3>1. PICK req \in BagToSet(late) : land(req)
        BY <2>2 DEF Land
      <3> QED BY <2>2, <3>1, LandType DEF Land, EngineVars, settings, TypeOK, WorldTypeOK
    <2> QED BY <2>1, <2>2
  <1>4. /\ lease' \in [owner : Orchestrators \cup {NoOwner}, epoch : Nat, live : BOOLEAN]
        /\ spent' \in [crash : Nat, expire : Nat, redeliver : Nat, reconcile : Nat]
        /\ acked' \in BOOLEAN /\ config' \in Config
    <2>1. CASE Lapse
      <3>1. lease' \in [owner : Orchestrators \cup {NoOwner}, epoch : Nat, live : BOOLEAN]
        BY <2>1 DEF Lapse, TypeOK
      <3>2. spent' \in [crash : Nat, expire : Nat, redeliver : Nat, reconcile : Nat]
        BY <2>1 DEF Lapse, TypeOK
      <3> QED BY <2>1, <3>1, <3>2 DEF Lapse, TypeOK, settings
    <2>2. CASE Redeliver
      <3>1. spent' \in [crash : Nat, expire : Nat, redeliver : Nat, reconcile : Nat]
        BY <2>2 DEF Redeliver, TypeOK
      <3>2. acked' \in BOOLEAN /\ UNCHANGED << lease, config >>
        BY <2>2 DEF Redeliver, settings
      <3> QED BY <3>1, <3>2 DEF TypeOK
    <2>3. CASE Land
      BY <2>3 DEF Land, TypeOK, EngineVars, settings
    <2> QED BY <2>1, <2>2, <2>3
  <1> QED BY <1>1, <1>2, <1>3, <1>4 DEF TypeOK, JournalTypeOK, journalVars

------------------------------------------------------------------------------
LEMMA TypesInit == Init => TypeOK /\ LocalOK
  <1> SUFFICES ASSUME Init PROVE TypeOK /\ LocalOK
    OBVIOUS
  <1>1. JournalTypeOK
    BY DEF Init, JournalInit, JournalTypeOK
  <1>2. WorldTypeOK /\ config \in Config
    BY EngineAssumption DEF Init, WorldInit, WorldTypeOK, IsABag, BagToSet, EmptyBag, SetToBag
  <1>3. orch \in [Orchestrators -> Local] /\ LocalOK
    BY IdleOK DEF Init, LocalOK
  <1> QED BY <1>1, <1>2, <1>3 DEF Init, TypeOK

LEMMA TypesNext ==
    ASSUME TypeOK, LocalOK, [Next]_vars
    PROVE  TypeOK' /\ LocalOK' /\ Grows
  <1>1. CASE UNCHANGED vars
    <2>1. Grows /\ UNCHANGED << journalVars, orch >>
      BY <1>1 DEF vars, Grows, journalVars
    <2>2. LocalOK'
      BY <2>1, SoundKept DEF LocalOK, TypeOK
    <2> QED BY <1>1, <2>1, <2>2
         DEF vars, TypeOK, JournalTypeOK, WorldTypeOK, journalVars, worldVars, settings
  <1>2. ASSUME NEW o \in Orchestrators, Run(o) \/ Crash(o)
        PROVE  TypeOK' /\ LocalOK' /\ Grows
    BY <1>2, LeadOK, WalkOK, SettleOK, DrainOK, FinishOK, RevisitOK, CrashOK DEF Run
  <1>3. CASE Lapse \/ Redeliver \/ Land
    BY <1>3, EnvironmentOK
  <1> QED BY <1>1, <1>2, <1>3 DEF Next

\* Every reachable state is well typed, and what a process holds in memory is
\* about branches that exist and effects it may undo: the reads the engine
\* makes before a write are still good when the write is made.
THEOREM TypeCorrect == Spec => [](TypeOK /\ LocalOK)
  <1> QED BY TypesInit, TypesNext, PTL DEF Spec

\* The journal is append-only, branches are never removed, and a branch that
\* was abandoned never becomes active again (journal.append, create_branch,
\* set_branch_status, whoever calls them).
THEOREM JournalGrows == Spec => [][Grows]_vars
  <1>1. TypeOK /\ LocalOK /\ [Next]_vars => [Grows]_vars
    BY TypesNext
  <1> QED BY <1>1, TypeCorrect, PTL DEF Spec

------------------------------------------------------------------------------
(* The world                                                               *)

\* What a step does to the world, and to the calls that are yet to land.
Still == UNCHANGED << applied, ledger >>
Effect(k) ==
    /\ k \notin applied /\ applied' = applied \cup {k}
    /\ \/ UNCHANGED ledger /\ ToolOf(k) \in Pure
       \/ \E e \in Entry : /\ e.kind = "effect" /\ e.key = k
                           /\ ledger' = Append(ledger, e)
\* Two requests that were let in together both take effect.
Again(k) ==
    /\ k \in applied /\ UNCHANGED applied
    /\ \E e \in Entry : e.kind = "effect" /\ e.key = k /\ ledger' = Append(ledger, e)
Compensation(k) ==
    /\ applied' = applied \ {k}
    /\ \E e \in Entry : /\ e.kind = "compensation" /\ e.key = k
                        /\ ledger' = Append(ledger, e)

\* Every change of the world there is.
WorldStep(announced, undoable) ==
    \/ Still
    \/ \E k \in announced : Effect(k) \/ Again(k)
    \/ \E k \in undoable : Compensation(k)

LateKeys == {req.key : req \in BagToSet(late)}

------------------------------------------------------------------------------
(* The services                                                            *)

LEMMA TakeEffectStep ==
    ASSUME WorldTypeOK, NEW req \in Request, NEW epoch \in Nat, NEW res,
           take_effect(req, epoch, res)
    PROVE  /\ Still \/ Effect(req.key) \/ Again(req.key)
           /\ BagToSet(late') \subseteq BagToSet(late) \cup {req}
           /\ res = "ok" => req.key \in applied'
  <1> DEFINE tool == ToolOf(req.key)
  <1>1. CASE Reply(tool, "failed", res) /\ UNCHANGED << applied, ledger, late >>
    BY <1>1 DEF Still, Reply
  <1>2. CASE /\ res = "unknown" /\ UNCHANGED << applied, ledger >>
             /\ late' = late \/ late' = late (+) SetToBag({req})
    BY <1>2, HoldLater DEF Still
  <1>3. CASE /\ Hold(req) /\ UNCHANGED late
             /\ IF tool \in Pure THEN UNCHANGED ledger ELSE record("effect", req, epoch)
    <2>1. CASE tool \in Pure
      BY <1>3, <2>1 DEF Still, Effect, Hold
    <2>2. CASE tool \notin Pure
      <3>1. PICK e \in Entry : /\ e.kind = "effect" /\ e.key = req.key
                               /\ ledger' = Append(ledger, e)
        BY <1>3, <2>2 DEF record, Entry, Request
      <3> QED BY <1>3, <3>1 DEF Effect, Again, Hold
    <2> QED BY <2>1, <2>2
  <1> QED BY <1>1, <1>2, <1>3 DEF take_effect

LEMMA UndoEffectStep ==
    ASSUME WorldTypeOK, NEW req \in Request, NEW epoch \in Nat, NEW res,
           undo_effect(req, epoch, res)
    PROVE  /\ \/ Still /\ res # "ok"
              \/ Compensation(req.key)
           /\ UNCHANGED late
  <1>1. CASE /\ applied' = applied \ {req.key} /\ record("compensation", req, epoch)
             /\ UNCHANGED late
    <2>1. PICK e \in Entry : /\ e.kind = "compensation" /\ e.key = req.key
                             /\ ledger' = Append(ledger, e)
      BY <1>1 DEF record, Entry, Request
    <2> QED BY <1>1, <2>1 DEF Compensation
  <1>2. CASE /\ Reply(ToolOf(req.key), "failed", res)
             /\ UNCHANGED << applied, ledger, late >>
    BY <1>2 DEF Still, Reply
  <1> QED BY <1>1, <1>2 DEF undo_effect

LEMMA ExecuteStep ==
    ASSUME WorldTypeOK, NEW req \in Request, NEW epoch \in Nat, NEW res,
           execute(req, epoch, res)
    PROVE  /\ Still \/ Effect(req.key)
           /\ BagToSet(late') \subseteq BagToSet(late) \cup {req}
           /\ res = "ok" => req.key \in applied'
  <1> DEFINE tool == ToolOf(req.key)
  <1>1. CASE TurnedAway(tool, epoch, res) /\ UNCHANGED worldVars
    BY <1>1 DEF worldVars, Still, TurnedAway, Reply, Unreachable
  <1>2. CASE /\ req.key \in applied /\ Reply(tool, "ok", res)
             /\ UNCHANGED << applied, ledger, late >>
    BY <1>2 DEF Still, Reply
  <1>3. CASE req.key \notin applied /\ take_effect(req, epoch, res)
    BY <1>3, TakeEffectStep DEF Again
  <1> QED BY <1>1, <1>2, <1>3 DEF execute, let_in

LEMMA CompensateStep ==
    ASSUME WorldTypeOK, NEW req \in Request, NEW epoch \in Nat, NEW res,
           compensate(req, epoch, res)
    PROVE  /\ \/ Still /\ res # "ok"
              \/ Compensation(req.key)
           /\ UNCHANGED late
  <1>1. CASE TurnedAway(ToolOf(req.key), epoch, res) /\ UNCHANGED worldVars
    BY <1>1 DEF worldVars, Still, TurnedAway, Reply, Unreachable
  <1>2. CASE undo_effect(req, epoch, res)
    BY <1>2, UndoEffectStep
  <1> QED BY <1>1, <1>2 DEF compensate

LEMMA LandStep ==
    ASSUME WorldTypeOK, NEW req \in Request, land(req)
    PROVE  /\ Still \/ Effect(req.key)
           /\ BagToSet(late') \subseteq BagToSet(late)
  <1>1. BagToSet(late') \subseteq BagToSet(late)
    BY TakeLate DEF land
  <1>2. CASE req.key \in applied
    BY <1>1, <1>2 DEF land, Still
  <1>3. CASE req.key \notin applied
    <2>1. PICK e \in Entry : /\ e.kind = "effect" /\ e.key = req.key
                             /\ ledger' = Append(ledger, e)
      BY <1>3 DEF land, record, Entry, Request
    <2> QED BY <1>1, <1>3, <2>1 DEF land, Effect, Hold
  <1> QED BY <1>2, <1>3

------------------------------------------------------------------------------
(* What stays true as the tables grow                                      *)

LEMMA LedgerGrows ==
    ASSUME ledger \in Seq(Entry), NEW A, NEW U, WorldStep(A, U)
    PROVE  /\ ledger' \in Seq(Entry)
           /\ \A i \in DOMAIN ledger : i \in DOMAIN ledger' /\ ledger'[i] = ledger[i]
           /\ \/ ledger' = ledger
              \/ \E e \in Entry : ledger' = Append(ledger, e)
  <1>1. CASE ledger' = ledger
    BY <1>1
  <1>2. CASE \E e \in Entry : ledger' = Append(ledger, e)
    BY <1>2, AppendKeeps
  <1> QED BY <1>1, <1>2 DEF WorldStep, Still, Effect, Again, Compensation

LEMMA StaysHappened ==
    ASSUME ledger \in Seq(Entry), NEW A, NEW U, WorldStep(A, U),
           NEW kind, NEW k, Happened(kind, k)
    PROVE  Happened(kind, k)'
  BY LedgerGrows DEF Happened, Entries

LEMMA StaysAnnounced ==
    ASSUME JournalTypeOK, Grows, NEW kind, NEW k, Announced(kind, k)
    PROVE  Announced(kind, k)'
  BY GrowthKeeps DEF Announced, Rows, KeyOf, effect_key

LEMMA StaysBacked ==
    ASSUME TypeOK, Grows, NEW A, NEW U, WorldStep(A, U),
           NEW l, Sound(l), Backed(l)
    PROVE  Backed(l)'
  <1>1. /\ \A r \in l.todo \cup l.redo : KeyOf(r)' = KeyOf(r)
        /\ \A r \in DOMAIN journal : r \in DOMAIN journal' /\ journal'[r] = journal[r]
        /\ \A i \in DOMAIN ledger : i \in DOMAIN ledger' /\ ledger'[i] = ledger[i]
    BY GrowthKeeps, LedgerGrows DEF TypeOK, WorldTypeOK, Sound, Undoable, KeyOf
  <1> DEFINE k == effect_key(l.br, l.seq)
  <1>2. /\ l.pc \in {"call", "called", "ambiguous"} => Announced("INTENT", k)'
        /\ (l.pc = "called" /\ l.res = "ok") => Done(k)'
    BY StaysAnnounced, StaysHappened DEF Backed, Done, TypeOK, WorldTypeOK
  <1>3. ASSUME NEW kind, NEW r \in l.todo \cup l.redo
        PROVE  /\ Announced(kind, KeyOf(r)) => Announced(kind, KeyOf(r))'
               /\ Happened(kind, KeyOf(r)) => Happened(kind, KeyOf(r))'
    BY <1>1 DEF Announced, Rows, KeyOf, Happened, Entries
  <1>4. ASSUME l.pc = "undo", NEW r \in l.todo, Latest(l, r)
        PROVE  Announced("COMP_INTENT", KeyOf(r))'
    BY <1>3, <1>4 DEF Backed
  <1>5. ASSUME l.pc = "undone", l.res = "ok", NEW r \in l.todo, Latest(l, r)
        PROVE  Happened("compensation", KeyOf(r))'
    BY <1>3, <1>5 DEF Backed
  <1>6. ASSUME NEW r \in l.redo
        PROVE  Announced("INTENT", KeyOf(r))'
    BY <1>3 DEF Backed
  <1>7. ASSUME (l.pc = "rechecked" /\ l.res = "ok") \/ l.pc = "matched",
               NEW r \in l.redo, Earliest(l, r)
        PROVE  Done(KeyOf(r))'
    <2>1. Done(KeyOf(r))
      BY <1>7 DEF Backed
    <2>2. KeyOf(r)' = KeyOf(r)
      BY <1>1
    <2> QED BY <1>3, <2>1, <2>2 DEF Done
  <1> QED BY <1>2, <1>4, <1>5, <1>6, <1>7 DEF Backed, Latest, Earliest

\* What a process has to reconcile stays announced.
LEMMA RedoKept ==
    ASSUME Inv, Grows, NEW o \in Orchestrators, NEW r \in orch[o].redo
    PROVE  /\ Announced("INTENT", KeyOf(r))'
           /\ KeyOf(r)' = KeyOf(r) /\ r \in DOMAIN journal /\ Announced("INTENT", KeyOf(r))
  <1>1. r \in DOMAIN journal /\ Announced("INTENT", KeyOf(r))
    BY DEF Inv, LocalOK, Sound, CallsBacked, Backed
  <1>2. \A q \in DOMAIN journal : q \in DOMAIN journal' /\ journal'[q] = journal[q]
    BY GrowthKeeps DEF Inv, TypeOK
  <1> QED BY <1>1, <1>2 DEF Announced, Rows, KeyOf

------------------------------------------------------------------------------
(* The world's half of the invariant                                       *)

WorldInv == LedgerOK /\ CompensateOnlyDead /\ IntentBeforeEffect

\* A key that may be undone.
DeadKey(k) == ToolOf(k) \in Compensatable /\ k[1] \in DOMAIN branches /\ ~ IsActive(k[1])

LEMMA WorldKeeps ==
    ASSUME TypeOK, WorldInv, Grows, NEW A, NEW U, WorldStep(A, U),
           \A k \in A : Announced("INTENT", k),
           \A k \in U : Announced("COMP_INTENT", k) /\ DeadKey(k)
    PROVE  WorldInv'
  <1>0. /\ ledger \in Seq(Entry)
        /\ \A i \in DOMAIN ledger : i \in DOMAIN ledger' /\ ledger'[i] = ledger[i]
    BY LedgerGrows DEF TypeOK, WorldTypeOK
  <1>1. \A kind, k : Announced(kind, k) => Announced(kind, k)'
    BY StaysAnnounced DEF TypeOK
  <1>2. \A b \in DOMAIN branches : b \in DOMAIN branches' /\ (~ IsActive(b) => ~ IsActive(b)')
    BY GrowthKeeps DEF TypeOK
  <1>3. CASE UNCHANGED ledger
    <2>1. CompensateOnlyDead' /\ IntentBeforeEffect'
      BY <1>0, <1>1, <1>2, <1>3
         DEF WorldInv, CompensateOnlyDead, IntentBeforeEffect, Entries
    <2>2. \A kind, k : Happened(kind, k)' <=> Happened(kind, k)
      BY <1>3 DEF Happened, Entries
    <2>3. LedgerOK'
      <3>1. applied \subseteq applied' /\ \A k \in applied' \ applied : ToolOf(k) \in Pure
        <4>1. \A e : Append(ledger, e) # ledger
          BY <1>0
        <4> QED BY <1>3, <4>1 DEF WorldStep, Still, Effect, Again, Compensation
      <3> QED BY <1>3, <2>2, <3>1 DEF WorldInv, LedgerOK, Done, Pages, Entries, ToolOfEntry
    <2> QED BY <2>1, <2>3 DEF WorldInv
  <1>4. ASSUME NEW k \in A, Effect(k) \/ Again(k), ledger' # ledger PROVE WorldInv'
    <2>1. PICK e \in Entry : /\ e.kind = "effect" /\ e.key = k
                             /\ ledger' = Append(ledger, e)
      BY <1>4 DEF Effect, Again
    <2>2. \A i \in DOMAIN ledger' :
             i \in DOMAIN ledger \/ (i = Len(ledger) + 1 /\ ledger'[i] = e)
      BY <1>0, <2>1, AppendKeeps
    <2>3. Len(ledger) + 1 \in DOMAIN ledger' /\ ledger'[Len(ledger) + 1] = e
      BY <1>0, <2>1
    <2>4. LedgerOK'
      <3>1. applied' = applied \cup {k}
        BY <1>4 DEF Effect, Again
      <3> QED BY <1>0, <2>1, <2>2, <2>3, <3>1
           DEF WorldInv, LedgerOK, Done, Pages, Entries, ToolOfEntry, Happened
    <2>5. CompensateOnlyDead'
      BY <1>0, <1>2, <2>1, <2>2 DEF WorldInv, CompensateOnlyDead, Entries
    <2>6. IntentBeforeEffect'
      BY <1>0, <1>1, <2>1, <2>2 DEF WorldInv, IntentBeforeEffect, Entries
    <2> QED BY <2>4, <2>5, <2>6 DEF WorldInv
  <1>5. ASSUME NEW k \in U, Compensation(k) PROVE WorldInv'
    <2>1. PICK e \in Entry : /\ e.kind = "compensation" /\ e.key = k
                             /\ ledger' = Append(ledger, e)
      BY <1>5 DEF Compensation
    <2>2. \A i \in DOMAIN ledger' :
             i \in DOMAIN ledger \/ (i = Len(ledger) + 1 /\ ledger'[i] = e)
      BY <1>0, <2>1, AppendKeeps
    <2>3. ToolOf(k) \notin Irreversible
      BY DEF DeadKey, Compensatable, Irreversible
    <2>4. LedgerOK'
      BY <1>0, <1>5, <2>1, <2>2, <2>3
         DEF WorldInv, LedgerOK, Done, Pages, Entries, ToolOfEntry, Compensation, Happened
    <2>5. CompensateOnlyDead'
      BY <1>0, <1>2, <2>1, <2>2 DEF WorldInv, CompensateOnlyDead, Entries, DeadKey
    <2>6. IntentBeforeEffect'
      BY <1>0, <1>1, <2>1, <2>2 DEF WorldInv, IntentBeforeEffect, Entries
    <2> QED BY <2>4, <2>5, <2>6 DEF WorldInv
  <1> QED BY <1>3, <1>4, <1>5 DEF WorldStep, Still

------------------------------------------------------------------------------
(* The journal's half                                                      *)

\* A row that may be added: a claim is made only of what happened.
Honest(rec) ==
    LET k == effect_key(rec.br, rec.seq) IN
    /\ rec.kind = "RESULT" => Announced("INTENT", k) /\ (rec.status = "ok" => Done(k))
    /\ (rec.kind = "COMP_RESULT" /\ rec.status = "ok") => Happened("compensation", k)

LEMMA JournalKeeps ==
    ASSUME TypeOK, JournalTruthful, NEW A, NEW U, WorldStep(A, U),
           \/ UNCHANGED journal
           \/ \E rec \in Record : Honest(rec) /\ append(rec)
    PROVE  JournalTruthful'
  <1>1. \A kind, k : Happened(kind, k) => Happened(kind, k)'
    BY StaysHappened DEF TypeOK, WorldTypeOK
  <1>2. CASE UNCHANGED journal
    BY <1>1, <1>2 DEF JournalTruthful, Rows, KeyOf, Done
  <1>3. CASE \E rec \in Record : Honest(rec) /\ append(rec)
    <2>1. PICK rec \in Record : Honest(rec) /\ append(rec)
      BY <1>3
    <2>2. \A r \in DOMAIN journal' :
             \/ r \in DOMAIN journal /\ journal'[r] = journal[r]
             \/ journal'[r] = rec
      BY <2>1, AppendKeeps DEF append, TypeOK, JournalTypeOK
    <2> QED BY <1>1, <2>1, <2>2 DEF JournalTruthful, Rows, KeyOf, Honest, Done
  <1> QED BY <1>2, <1>3

------------------------------------------------------------------------------
(* One process steps                                                       *)

LEMMA SafeMoves ==
    ASSUME Inv, TypeOK', LocalOK', Grows, NEW o \in Orchestrators,
           \A p \in Orchestrators \ {o} : orch'[p] = orch[p],
           Backed(orch[o])',
           NEW A, NEW U, WorldStep(A, U),
           \A k \in A : Announced("INTENT", k),
           \A k \in U : Announced("COMP_INTENT", k) /\ DeadKey(k),
           \A req \in BagToSet(late') : Announced("INTENT", req.key),
           \/ UNCHANGED journal
           \/ \E rec \in Record : Honest(rec) /\ append(rec)
    PROVE  Inv'
  <1>1. WorldInv'
    BY WorldKeeps DEF Inv, WorldInv
  <1>2. JournalTruthful'
    BY JournalKeeps DEF Inv
  <1>3. \A p \in Orchestrators : Backed(orch[p])'
    <2> SUFFICES ASSUME NEW p \in Orchestrators, p # o PROVE Backed(orch[p])'
      OBVIOUS
    <2>1. PICK l : l = orch[p] /\ l = orch'[p]
      OBVIOUS
    <2>2. Sound(l) /\ Backed(l)
      BY <2>1 DEF Inv, LocalOK, CallsBacked
    <2>3. Backed(l)'
      BY <2>2, StaysBacked DEF Inv
    <2> QED BY <2>1, <2>3 DEF Backed, Latest, Earliest
  <1>4. \A req \in BagToSet(late') : Announced("INTENT", req.key)'
    BY StaysAnnounced DEF Inv, TypeOK
  <1>5. \A r \in Rows("RESULT")' : Announced("INTENT", KeyOf(r))'
    <2>1. \A k : Announced("INTENT", k) => Announced("INTENT", k)'
      BY StaysAnnounced DEF Inv, TypeOK
    <2>2. \A r \in Rows("RESULT") : Announced("INTENT", KeyOf(r))
      BY DEF Inv, CallsBacked
    <2>3. CASE UNCHANGED journal
      BY <2>1, <2>2, <2>3 DEF Rows, KeyOf
    <2>4. CASE \E rec \in Record : Honest(rec) /\ append(rec)
      <3>1. PICK rec \in Record : Honest(rec) /\ append(rec)
        BY <2>4
      <3>2. \A r \in DOMAIN journal' :
               \/ r \in DOMAIN journal /\ journal'[r] = journal[r]
               \/ journal'[r] = rec
        BY <3>1, AppendKeeps DEF append, Inv, TypeOK, JournalTypeOK
      <3> QED BY <2>1, <2>2, <3>1, <3>2 DEF Rows, KeyOf, Honest
    <2> QED BY <2>3, <2>4
  <1>6. CallsBacked'
    BY <1>3, <1>4, <1>5 DEF CallsBacked
  <1> QED BY <1>1, <1>2, <1>6 DEF Inv, WorldInv

\* A step that leaves the world alone, claims nothing and begins no call.
CallPC == {"call", "called", "ambiguous", "undo", "undone", "rechecked", "matched"}
Modest == \/ UNCHANGED journal
          \/ \E rec \in Record : append(rec) /\ rec.kind \notin {"RESULT", "COMP_RESULT"}
Quiet(o) == /\ UNCHANGED worldVars
            /\ \A p \in Orchestrators \ {o} : orch'[p] = orch[p]
            /\ orch'[o].pc \notin CallPC /\ orch'[o].redo \subseteq orch[o].redo
            /\ Modest

LEMMA QuietIsSafe ==
    ASSUME Inv, TypeOK', LocalOK', Grows, NEW o \in Orchestrators, Quiet(o)
    PROVE  Inv'
  <1>1. WorldStep({}, {})
    BY DEF Quiet, worldVars, WorldStep, Still
  <1>2. \A req \in BagToSet(late') : Announced("INTENT", req.key)
    BY DEF Quiet, worldVars, Inv, CallsBacked
  <1>3. Backed(orch[o])'
    <2>1. \A r \in orch'[o].redo : Announced("INTENT", KeyOf(r))'
      BY RedoKept DEF Quiet
    <2> QED BY <2>1 DEF Quiet, CallPC, Backed
  <1>4. \/ UNCHANGED journal
        \/ \E rec \in Record : Honest(rec) /\ append(rec)
    BY DEF Quiet, Modest, Honest
  <1>5. \A p \in Orchestrators \ {o} : orch'[p] = orch[p]
    BY DEF Quiet
  <1> QED BY <1>1, <1>2, <1>3, <1>4, <1>5, SafeMoves

LEMMA LeadQuiet ==
    ASSUME TypeOK, NEW o \in Orchestrators, Lead(o)
    PROVE  Quiet(o)
  <1>0. orch \in [Orchestrators -> Local] /\ orch[o] \in Local /\ Idle \in Local
    BY IdleOK DEF TypeOK
  <1>1. CASE Start(o)
    BY <1>0, <1>1 DEF Start, Quiet, Modest, CallPC, Local, journalVars, Idle
  <1>2. CASE NotLeader(o)
    BY <1>0, <1>2 DEF NotLeader, ReadOnly, Quiet, Modest, CallPC, journalVars, Idle
  <1>3. CASE SelectActive(o)
    BY <1>0, <1>3 DEF SelectActive, _run_branch, ReadOnly, Quiet, Modest, CallPC, Local, journalVars
  <1>4. CASE SelectFresh(o)
    BY <1>0, <1>4 DEF SelectFresh, _run_branch, WritesTree, Quiet, Modest, CallPC, Local
  <1>5. CASE SelectNaive(o)
    BY <1>0, <1>5 DEF SelectNaive, WritesTree, Quiet, Modest, CallPC, Local
  <1> QED BY <1>1, <1>2, <1>3, <1>4, <1>5 DEF Lead

LEMMA WalkQuiet ==
    ASSUME TypeOK, NEW o \in Orchestrators,
           Replay(o) \/ Complete(o) \/ Pass(o) \/ Block(o)
    PROVE  Quiet(o)
  <1>0. orch \in [Orchestrators -> Local] /\ orch[o] \in Local
    BY DEF TypeOK
  <1>1. CASE Replay(o)
    BY <1>0, <1>1 DEF Replay, At, ReadOnly, Quiet, Modest, CallPC, Local, journalVars
  <1>2. CASE Complete(o)
    BY <1>0, <1>2 DEF Complete, Goto, ReadOnly, Quiet, Modest, CallPC, Local, journalVars
  <1>3. CASE Pass(o)
    BY <1>0, <1>3 DEF Pass, ReadOnly, Quiet, Modest, CallPC, Local, journalVars
  <1>4. CASE Block(o)
    <2>1. BlockRow(o) \in Record /\ BlockRow(o).kind = "BARRIER_BLOCKED"
      BY OwedRowsType
    <2>2. Modest
      BY <1>4, <2>1 DEF Block, Modest
    <2> QED BY <1>0, <1>4, <2>2 DEF Block, WritesRecord, Quiet, CallPC, Local
  <1> QED BY <1>1, <1>2, <1>3, <1>4

LEMMA DrainQuiet ==
    ASSUME TypeOK, NEW o \in Orchestrators,
           Drained(o) \/ BeginPass(o) \/ GiveUp(o) \/ Graduate(o) \/ Graduated(o) \/ Release(o)
    PROVE  Quiet(o)
  <1>0. orch \in [Orchestrators -> Local] /\ orch[o] \in Local
    BY DEF TypeOK
  <1>1. CASE Drained(o)
    BY <1>0, <1>1 DEF Drained, ReadOnly, Quiet, Modest, CallPC, Local, journalVars
  <1>2. CASE BeginPass(o)
    BY <1>0, <1>2 DEF BeginPass, ReadOnly, Quiet, Modest, CallPC, Local, journalVars
  <1>3. CASE GiveUp(o)
    BY <1>0, <1>3 DEF GiveUp, ReadOnly, Quiet, Modest, CallPC, Local, journalVars
  <1>4. CASE Graduate(o)
    BY <1>0, <1>4 DEF Graduate, Goto, WritesTree, Quiet, Modest, CallPC, Local
  <1>5. CASE Graduated(o)
    <2>1. PICK b \in DOMAIN branches :
             /\ append(TreeRow("BRANCH_COMPENSATED", b, NoSeverity, {}))
             /\ orch' = [orch EXCEPT ![o] =
                    [@ EXCEPT !.pc = "graduate", !.grads = orch[o].grads \ {b}]]
      BY <1>5 DEF Graduated
    <2>2. TreeRow("BRANCH_COMPENSATED", b, NoSeverity, {}) \in Record
      <3>1. b \in Nat /\ NoSeverity \in Sev /\ "BRANCH_COMPENSATED" \in RecordKind
        BY DEF TypeOK, JournalTypeOK, RecordKind, Sev
      <3> QED BY <3>1, TreeRowType
    <2>3. Modest
      BY <2>1, <2>2 DEF Modest, TreeRow
    <2> QED BY <1>0, <1>5, <2>1, <2>3 DEF Graduated, WritesRecord, Quiet, CallPC, Local
  <1>6. CASE Release(o)
    <2>1. StepRow(o, "BARRIER_RELEASED", NoStatus) \in Record
      BY StepRowType DEF RecordKind
    <2>2. Modest
      BY <1>6, <2>1 DEF Release, Modest, StepRow
    <2> QED BY <1>0, <1>6, <2>2 DEF Release, Goto, WritesRecord, Quiet, CallPC, Local
  <1> QED BY <1>1, <1>2, <1>3, <1>4, <1>5, <1>6

LEMMA FinishQuiet ==
    ASSUME TypeOK, LocalOK, NEW o \in Orchestrators, Finish(o) \/ Crash(o)
    PROVE  Quiet(o)
  <1>0. /\ orch \in [Orchestrators -> Local] /\ orch[o] \in Local /\ Idle \in Local
        /\ Sound(orch[o])
    BY IdleOK DEF TypeOK, LocalOK
  <1>1. CASE ReplayFailed(o)
    BY <1>0, <1>1 DEF ReplayFailed, ReadOnly, Quiet, Modest, CallPC, Local, journalVars, Idle
  <1>2. CASE Escalate(o)
    <2>1. Modest
      BY <1>2, OwedRowsType DEF Escalate, Modest, EscalationRow, TreeRow
    <2> QED BY <1>0, <1>2, <2>1 DEF Escalate, Goto, WritesRecord, Quiet, CallPC, Local
  <1>3. CASE Abandon(o)
    BY <1>0, <1>3 DEF Abandon, WritesTree, Quiet, Modest, CallPC, Local
  <1>4. CASE AbandonWithResidue(o)
    BY <1>0, <1>4 DEF AbandonWithResidue, Goto, WritesTree, Quiet, Modest, CallPC, Local
  <1>5. CASE RecordAbandoned(o)
    <2>1. TreeRow("BRANCH_ABANDONED", orch[o].br, NoSeverity, {}) \in Record
      BY <1>0, TreeRowType DEF RecordKind, Sev, Local
    <2>2. Modest
      BY <1>5, <2>1 DEF RecordAbandoned, Modest, TreeRow
    <2> QED BY <1>0, <1>5, <2>2 DEF RecordAbandoned, Goto, WritesRecord, Quiet, CallPC, Local
  <1>6. CASE Fork(o)
    BY <1>0, <1>6 DEF Fork, WritesTree, Quiet, Modest, CallPC, Local
  <1>7. CASE RecordFork(o)
    <2>1. TreeRow("BRANCH_FORKED", orch[o].br, orch[o].chosen, {}) \in Record
      BY <1>0, TreeRowType DEF RecordKind, Local
    <2>2. Modest
      BY <1>7, <2>1 DEF RecordFork, Modest, TreeRow
    <2> QED BY <1>0, <1>7, <2>2 DEF RecordFork, _run_branch, WritesRecord, Quiet, CallPC, Local
  <1>8. CASE ForkNaive(o)
    BY <1>0, <1>8 DEF ForkNaive, _run_branch, WritesTree, Quiet, Modest, CallPC, Local
  <1>9. CASE Ack(o)
    BY <1>0, <1>9 DEF Ack, Quiet, Modest, CallPC, journalVars, worldVars, Idle
  <1>10. CASE Crash(o)
    BY <1>0, <1>10 DEF Crash, Quiet, Modest, CallPC, journalVars, worldVars, Idle
  <1> QED BY <1>1, <1>2, <1>3, <1>4, <1>5, <1>6, <1>7, <1>8, <1>9, <1>10 DEF Finish

------------------------------------------------------------------------------
(* The steps that announce, call and report                                *)

LEMMA CallSafe ==
    ASSUME Inv, TypeOK', LocalOK', Grows, NEW o \in Orchestrators,
           \/ Intent(o) \/ Execute(o) \/ Probe(o) \/ Suppress(o) \/ RecordResult(o)
           \/ Ambiguous(o)
    PROVE  Inv'
  <1> DEFINE k == effect_key(orch[o].br, orch[o].seq)
  <1>0. /\ TypeOK /\ orch \in [Orchestrators -> Local] /\ orch[o] \in Local
        /\ Sound(orch[o]) /\ Backed(orch[o])
        /\ \A req \in BagToSet(late) : Announced("INTENT", req.key)
        /\ \A r \in orch[o].redo : Announced("INTENT", KeyOf(r))'
    BY RedoKept DEF Inv, TypeOK, LocalOK, CallsBacked
  <1>1. CASE Intent(o)
    <2>1. StepRow(o, "INTENT", NoStatus) \in Record
      BY <1>0, StepRowType DEF RecordKind
    <2>2. append(StepRow(o, "INTENT", NoStatus)) /\ UNCHANGED worldVars
      BY <1>1 DEF Intent, WritesRecord
    <2>3. /\ orch'[o].pc = "call" /\ orch'[o].redo = orch[o].redo
          /\ orch'[o].br = orch[o].br /\ orch'[o].seq = orch[o].seq
          /\ \A p \in Orchestrators \ {o} : orch'[p] = orch[p]
      BY <1>0, <1>1 DEF Intent, Goto, Local
    <2>4. Backed(orch[o])'
      <3>1. Len(journal) + 1 \in DOMAIN journal'
            /\ journal'[Len(journal) + 1] = StepRow(o, "INTENT", NoStatus)
        BY <1>0, <2>1, <2>2 DEF append, TypeOK, JournalTypeOK
      <3>2. Announced("INTENT", k)'
        BY <2>3, <3>1 DEF Announced, Rows, KeyOf, StepRow, effect_key
      <3> QED BY <1>0, <2>3, <3>2 DEF Backed
    <2>5. Honest(StepRow(o, "INTENT", NoStatus))
      BY DEF Honest, StepRow
    <2>6. WorldStep({}, {}) /\ late' = late
      BY <2>2 DEF worldVars, WorldStep, Still
    <2> QED BY <1>0, <2>1, <2>2, <2>3, <2>4, <2>5, <2>6, SafeMoves
  <1>2. CASE Execute(o)
    <2>1. PICK res \in ResultStatus :
             /\ execute(Call(o), orch[o].epoch, res)
             /\ orch' = [orch EXCEPT ![o] = [@ EXCEPT !.pc = "called", !.res = res]]
      BY <1>2 DEF Execute
    <2>2. /\ orch[o].seq \in Steps /\ orch[o].pc = "call" /\ UNCHANGED journal
      BY <1>0, <1>2 DEF Execute, At, Sound, Working, CallsWorld, journalVars
    <2>3. Call(o) \in Request /\ Call(o).key = k /\ orch[o].epoch \in Nat
      BY <1>0, <2>2, CallType DEF effect_key, Local
    <2>4. /\ Still \/ Effect(k)
          /\ BagToSet(late') \subseteq BagToSet(late) \cup {Call(o)}
          /\ res = "ok" => k \in applied'
      BY <1>0, <2>1, <2>3, ExecuteStep DEF TypeOK
    <2>5. Announced("INTENT", k)
      BY <1>0, <2>2 DEF Backed
    <2>6. WorldStep({k}, {})
      BY <2>4 DEF WorldStep
    <2>7. LedgerOK'
      BY <2>5, <2>6, WorldKeeps DEF Inv, WorldInv
    <2>8. /\ orch'[o].pc = "called" /\ orch'[o].res = res /\ orch'[o].redo = orch[o].redo
          /\ orch'[o].br = orch[o].br /\ orch'[o].seq = orch[o].seq
          /\ \A p \in Orchestrators \ {o} : orch'[p] = orch[p]
      BY <1>0, <2>1 DEF Local
    <2>9. Backed(orch[o])'
      <3>1. res = "ok" => ToolOf(k) \in Pure \/ \E i \in Entries("effect")' : ledger'[i].key = k
        BY <2>4, <2>7 DEF LedgerOK, Done, Happened
      <3>2. \E r \in Rows("INTENT")' : KeyOf(r)' = k
        BY <2>2, <2>5 DEF Announced, Rows, KeyOf
      <3> QED BY <1>0, <2>8, <3>1, <3>2 DEF Backed, Done, Happened, Announced
    <2>10. \A req \in BagToSet(late') : Announced("INTENT", req.key)
      BY <1>0, <2>3, <2>4, <2>5
    <2> QED BY <2>2, <2>5, <2>6, <2>8, <2>9, <2>10, SafeMoves
  <1>3. CASE Probe(o)
    <2>1. PICK ans \in {"done", "not_done", "unknown"} :
             /\ probe(Call(o).key, ans)
             /\ orch' = [orch EXCEPT ![o] =
                  CASE ans = "done"     -> [@ EXCEPT !.res = "ok"]
                    [] ans = "not_done" -> [@ EXCEPT !.res = "failed"]
                    [] ans = "unknown"  -> [@ EXCEPT !.pc = "ambiguous"]]
      BY <1>3 DEF Probe
    <2>2. /\ orch[o].seq \in Steps /\ orch[o].pc = "called"
          /\ UNCHANGED journal /\ UNCHANGED worldVars /\ Call(o).key = k
      BY <1>0, <1>3, CallType
         DEF Probe, At, Sound, Working, ReadOnly, journalVars, effect_key
    <2>3. WorldStep({}, {}) /\ late' = late /\ ledger' = ledger
      BY <2>2 DEF worldVars, WorldStep, Still
    <2>4. \A p \in Orchestrators \ {o} : orch'[p] = orch[p]
      BY <2>1
    <2>5. \E r \in Rows("INTENT")' : KeyOf(r)' = k
      BY <1>0, <2>2 DEF Backed, Announced, Rows, KeyOf
    <2>6. Backed(orch[o])'
      <3>1. CASE ans = "done"
        <4>1. orch'[o] = [orch[o] EXCEPT !.res = "ok"]
          BY <1>0, <2>1, <3>1
        <4>2. /\ orch'[o].pc = "called" /\ orch'[o].br = orch[o].br
              /\ orch'[o].seq = orch[o].seq /\ orch'[o].redo = orch[o].redo
          BY <1>0, <2>2, <4>1 DEF Local
        <4>3. k \in applied
          BY <2>1, <2>2, <3>1 DEF probe
        <4>4. ToolOf(k) \in Pure \/ \E i \in Entries("effect")' : ledger'[i].key = k
          BY <2>3, <4>3 DEF Inv, LedgerOK, Done, Happened, Entries
        <4> QED BY <1>0, <2>5, <4>2, <4>4 DEF Backed, Done, Happened, Announced
      <3>2. CASE ans = "not_done"
        <4>1. orch'[o] = [orch[o] EXCEPT !.res = "failed"]
          BY <1>0, <2>1, <3>2
        <4>2. /\ orch'[o].pc = "called" /\ orch'[o].res = "failed"
              /\ orch'[o].br = orch[o].br /\ orch'[o].seq = orch[o].seq
              /\ orch'[o].redo = orch[o].redo
          BY <1>0, <2>2, <4>1 DEF Local
        <4> QED BY <1>0, <2>5, <4>2 DEF Backed, Announced
      <3>3. CASE ans = "unknown"
        <4>1. orch'[o] = [orch[o] EXCEPT !.pc = "ambiguous"]
          BY <1>0, <2>1, <3>3
        <4>2. /\ orch'[o].pc = "ambiguous"
              /\ orch'[o].br = orch[o].br /\ orch'[o].seq = orch[o].seq
              /\ orch'[o].redo = orch[o].redo
          BY <1>0, <4>1 DEF Local
        <4> QED BY <1>0, <2>5, <4>2 DEF Backed, Announced
      <3> QED BY <3>1, <3>2, <3>3
    <2> QED BY <1>0, <2>2, <2>3, <2>4, <2>6, SafeMoves
  <1>4. CASE Suppress(o)
    <2>1. StepRow(o, "LATE_DELIVERY_SUPPRESSED", "ok") \in Record
      BY <1>0, StepRowType DEF RecordKind, ResultStatus
    <2>2. append(StepRow(o, "LATE_DELIVERY_SUPPRESSED", "ok")) /\ UNCHANGED worldVars
      BY <1>4 DEF Suppress, WritesRecord
    <2>3. Honest(StepRow(o, "LATE_DELIVERY_SUPPRESSED", "ok"))
      BY DEF Honest, StepRow
    <2>4. WorldStep({}, {}) /\ late' = late
      BY <2>2 DEF worldVars, WorldStep, Still
    <2>5. /\ orch'[o].pc = "called" /\ orch[o].pc = "called" /\ orch'[o].res = orch[o].res
          /\ orch'[o].redo = orch[o].redo
          /\ orch'[o].br = orch[o].br /\ orch'[o].seq = orch[o].seq
          /\ \A p \in Orchestrators \ {o} : orch'[p] = orch[p]
      BY <1>0, <1>4 DEF Suppress, At, Local
    <2>6. Backed(orch[o])'
      <3>1. (orch[o].res = "ok") =>
               ToolOf(k) \in Pure \/ \E i \in Entries("effect")' : ledger'[i].key = k
        BY <1>0, <2>2, <2>5 DEF Backed, Done, Happened, Entries, worldVars
      <3>2. Announced("INTENT", k)'
        BY <1>0, <2>5, StaysAnnounced DEF Backed, TypeOK
      <3> QED BY <1>0, <2>5, <3>1, <3>2 DEF Backed, Done, Happened
    <2> QED BY <1>0, <2>1, <2>2, <2>3, <2>4, <2>5, <2>6, SafeMoves
  <1>5. CASE RecordResult(o)
    <2>1. StepRow(o, "RESULT", orch[o].res) \in Record
      BY <1>0, StepRowType DEF RecordKind, Local
    <2>2. /\ append(StepRow(o, "RESULT", orch[o].res)) /\ UNCHANGED worldVars
          /\ orch[o].pc = "called"
      BY <1>5 DEF RecordResult, WritesRecord, At
    <2>3. Honest(StepRow(o, "RESULT", orch[o].res))
      BY <1>0, <2>2 DEF Honest, StepRow, Backed
    <2>4. WorldStep({}, {}) /\ late' = late
      BY <2>2 DEF worldVars, WorldStep, Still
    <2>5. \A p \in Orchestrators \ {o} : orch'[p] = orch[p]
      BY <1>5 DEF RecordResult
    <2>6. orch'[o].pc \notin CallPC /\ orch'[o].redo = orch[o].redo
      <3> DEFINE settled == [orch[o] EXCEPT !.prior = FALSE, !.res = NoStatus]
      <3>1. settled \in Local /\ settled.redo = orch[o].redo
        BY <1>0 DEF Local
      <3>2. \/ orch'[o] = [settled EXCEPT !.pc = "diverge"]
            \/ orch'[o] = [settled EXCEPT !.pc = "escalate"]
            \/ orch'[o] = [settled EXCEPT !.pc = "diverge", !.armed = FALSE]
            \/ orch'[o] = [settled EXCEPT !.pc = "step", !.seq = @ + 1]
        BY <1>0, <1>5 DEF RecordResult
      <3> HIDE DEF settled
      <3>3. CASE \/ orch'[o] = [settled EXCEPT !.pc = "diverge"]
                 \/ orch'[o] = [settled EXCEPT !.pc = "escalate"]
        BY <3>1, <3>3 DEF CallPC, Local
      <3>4. CASE orch'[o] = [settled EXCEPT !.pc = "diverge", !.armed = FALSE]
        BY <3>1, <3>4 DEF CallPC, Local
      <3>5. CASE orch'[o] = [settled EXCEPT !.pc = "step", !.seq = @ + 1]
        BY <3>1, <3>5 DEF CallPC, Local
      <3> QED BY <3>2, <3>3, <3>4, <3>5
    <2>7. Backed(orch[o])'
      BY <1>0, <2>6 DEF Backed, CallPC
    <2> QED BY <1>0, <2>1, <2>2, <2>3, <2>4, <2>5, <2>7, SafeMoves
  <1>6. CASE Ambiguous(o)
    <2>1. StepRow(o, "RESULT", "unknown") \in Record
      BY <1>0, StepRowType DEF RecordKind, ResultStatus
    <2>2. /\ append(StepRow(o, "RESULT", "unknown")) /\ UNCHANGED worldVars
          /\ orch[o].pc = "ambiguous"
      BY <1>6 DEF Ambiguous, WritesRecord, At
    <2>3. Honest(StepRow(o, "RESULT", "unknown"))
      BY <1>0, <2>2 DEF Honest, StepRow, Backed
    <2>4. WorldStep({}, {}) /\ late' = late
      BY <2>2 DEF worldVars, WorldStep, Still
    <2>5. /\ orch'[o].pc = "escalate" /\ orch'[o].redo = orch[o].redo
          /\ \A p \in Orchestrators \ {o} : orch'[p] = orch[p]
      BY <1>0, <1>6 DEF Ambiguous, Goto, Local
    <2>6. Backed(orch[o])'
      BY <1>0, <2>5 DEF Backed
    <2> QED BY <1>0, <2>1, <2>2, <2>3, <2>4, <2>5, <2>6, SafeMoves
  <1> QED BY <1>1, <1>2, <1>3, <1>4, <1>5, <1>6

LEMMA UndoSafe ==
    ASSUME Inv, TypeOK', LocalOK', Grows, NEW o \in Orchestrators,
           CompIntent(o) \/ Undo(o) \/ CompResult(o)
    PROVE  Inv'
  <1>0. /\ TypeOK /\ orch \in [Orchestrators -> Local] /\ orch[o] \in Local
        /\ Sound(orch[o]) /\ Backed(orch[o])
        /\ \A req \in BagToSet(late) : Announced("INTENT", req.key)
        /\ \A r \in orch[o].redo : Announced("INTENT", KeyOf(r))'
    BY RedoKept DEF Inv, TypeOK, LocalOK, CallsBacked
  \* The record to undo next is the only latest one, and its row stays.
  <1>1. ASSUME NEW r \in DOMAIN journal, NextUndo(o, r)
        PROVE  /\ Latest(orch[o], r) /\ DeadKey(KeyOf(r)) /\ KeyOf(r)' = KeyOf(r)
               /\ r \in DOMAIN journal' /\ journal[r] \in Record
               /\ \A q : Latest(orch[o], q) => q = r
               /\ KeyOf(r) = <<journal[r].br, journal[r].seq>>
               /\ journal[r].seq \in Steps
    <2>1. r \in orch[o].todo /\ Undoable(r)
      BY <1>0, <1>1 DEF NextUndo, Sound
    <2>2. journal'[r] = journal[r] /\ r \in DOMAIN journal'
      BY <1>0, GrowthKeeps DEF TypeOK
    <2>3. journal[r] \in Record /\ orch[o].todo \subseteq Nat
      <3>1. journal[r] \in Record
        BY <1>0 DEF TypeOK, JournalTypeOK
      <3>2. orch[o].todo \subseteq Nat
        BY <1>0 DEF Local
      <3> QED BY <3>1, <3>2
    <2>4. DeadKey(KeyOf(r)) /\ KeyOf(r) = <<journal[r].br, journal[r].seq>>
      BY <2>1 DEF Undoable, DeadKey, KeyOf, effect_key
    <2>5. Latest(orch[o], r) /\ \A q : Latest(orch[o], q) => q = r
      BY <1>1, <2>3 DEF NextUndo, Latest
    <2> QED BY <2>1, <2>2, <2>3, <2>4, <2>5 DEF KeyOf, Undoable
  <1>2. CASE CompIntent(o)
    <2>1. PICK r \in DOMAIN journal : NextUndo(o, r) /\ append(CompRow(o, "COMP_INTENT", r, NoStatus))
      BY <1>2 DEF CompIntent
    <2> DEFINE row == CompRow(o, "COMP_INTENT", r, NoStatus)
    <2>2. row \in Record
      BY <1>0, CompRowType DEF RecordKind
    <2>3. row.kind = "COMP_INTENT" /\ row.br = journal[r].br /\ row.seq = journal[r].seq
      BY <1>0, CompRowType DEF RecordKind
    <2> HIDE DEF row
    <2>4. UNCHANGED worldVars
      BY <1>2 DEF CompIntent, WritesRecord
    <2>5. WorldStep({}, {}) /\ late' = late
      BY <2>4 DEF worldVars, WorldStep, Still
    <2>6. /\ orch'[o].pc = "undo" /\ orch'[o].todo = orch[o].todo
          /\ orch'[o].redo = orch[o].redo
          /\ \A p \in Orchestrators \ {o} : orch'[p] = orch[p]
      BY <1>0, <1>2 DEF CompIntent, Goto, Local
    <2>7. Backed(orch[o])'
      <3>1. append(row)
        BY <2>1 DEF row
      <3>2. Len(journal) + 1 \in DOMAIN journal' /\ journal'[Len(journal) + 1] = row
        BY <1>0, <2>2, <3>1 DEF append, TypeOK, JournalTypeOK
      <3>3. \A q \in orch'[o].todo : Latest(orch[o], q)' => q = r
        BY <1>1, <2>1, <2>6 DEF Latest
      <3>4. Announced("COMP_INTENT", KeyOf(r))'
        BY <1>1, <2>1, <2>3, <3>2 DEF Announced, Rows, KeyOf, effect_key
      <3> QED BY <1>0, <2>6, <3>3, <3>4 DEF Backed
    <2>8. Honest(row)
      BY <2>3 DEF Honest
    <2> QED BY <1>0, <2>1, <2>2, <2>5, <2>6, <2>7, <2>8, SafeMoves DEF row
  <1>3. CASE Undo(o)
    <2>1. PICK r \in DOMAIN journal, res \in ResultStatus :
             /\ NextUndo(o, r)
             /\ compensate([key |-> KeyOf(r), sev |-> journal[r].sev, sup |-> 0],
                           orch[o].epoch, res)
             /\ orch' = [orch EXCEPT ![o] = [@ EXCEPT !.pc = "undone", !.res = res]]
      BY <1>3 DEF Undo
    <2>2. PICK k : k = KeyOf(r) /\ DeadKey(k) /\ Announced("COMP_INTENT", k)
      <3>1. Latest(orch[o], r) /\ r \in orch[o].todo /\ orch[o].pc = "undo"
        BY <1>1, <1>3, <2>1 DEF Latest, Undo, At
      <3> QED BY <1>0, <1>1, <2>1, <3>1 DEF Backed
    <2>3. [key |-> k, sev |-> journal[r].sev, sup |-> 0] \in Request /\ orch[o].epoch \in Nat
      BY <1>0, <1>1, <2>1, <2>2 DEF Record, Request, Key, Local
    <2>4. ((Still /\ res # "ok") \/ Compensation(k)) /\ UNCHANGED late
      BY <1>0, <2>1, <2>2, <2>3, CompensateStep DEF TypeOK
    <2>5. WorldStep({}, {k}) /\ UNCHANGED journal
      BY <1>3, <2>4 DEF WorldStep, Undo, CallsWorld, journalVars
    <2>6. /\ orch'[o].pc = "undone" /\ orch'[o].todo = orch[o].todo /\ orch'[o].res = res
          /\ orch'[o].redo = orch[o].redo
          /\ \A p \in Orchestrators \ {o} : orch'[p] = orch[p]
      BY <1>0, <2>1 DEF Local
    <2>7. Backed(orch[o])'
      <3>1. res = "ok" => \E i \in Entries("compensation")' : ledger'[i].key = k
        <4>1. ASSUME Compensation(k)
              PROVE  \E i \in Entries("compensation")' : ledger'[i].key = k
          <5>1. PICK e \in Entry : /\ e.kind = "compensation" /\ e.key = k
                                   /\ ledger' = Append(ledger, e)
            BY <4>1 DEF Compensation
          <5>2. Len(ledger) + 1 \in DOMAIN ledger' /\ ledger'[Len(ledger) + 1] = e
            BY <1>0, <5>1 DEF TypeOK, WorldTypeOK
          <5> QED BY <5>1, <5>2 DEF Entries
        <4> QED BY <2>4, <4>1
      <3>2. \A q \in orch'[o].todo : Latest(orch[o], q)' => q = r
        BY <1>1, <2>1, <2>6 DEF Latest
      <3>3. res = "ok" => Happened("compensation", KeyOf(r))'
        BY <1>1, <2>1, <2>2, <3>1 DEF Happened
      <3> QED BY <1>0, <2>6, <3>2, <3>3 DEF Backed
    <2> QED BY <1>0, <2>2, <2>4, <2>5, <2>6, <2>7, SafeMoves
  <1>4. CASE CompResult(o)
    <2>1. PICK r \in DOMAIN journal, pc \in {"drain", "comp"} :
             /\ NextUndo(o, r)
             /\ append(CompRow(o, "COMP_RESULT", r, orch[o].res))
             /\ orch' = [orch EXCEPT ![o] =
                    [@ EXCEPT !.pc = pc, !.todo = orch[o].todo \ {r}, !.res = NoStatus]]
      BY <1>4 DEF CompResult
    <2> DEFINE row == CompRow(o, "COMP_RESULT", r, orch[o].res)
    <2>2. row \in Record
      BY <1>0, CompRowType DEF RecordKind, Local
    <2>3. /\ row.kind = "COMP_RESULT" /\ row.status = orch[o].res
          /\ row.br = journal[r].br /\ row.seq = journal[r].seq
      BY <1>0, CompRowType DEF RecordKind, Local
    <2>4. append(row)
      BY <2>1
    <2> HIDE DEF row
    <2>5. Honest(row)
      <3>1. row.status = "ok" => Happened("compensation", KeyOf(r))
        BY <1>0, <1>1, <1>4, <2>1, <2>3 DEF CompResult, At, Backed, Latest
      <3> QED BY <2>3, <3>1 DEF Honest, KeyOf
    <2>6. WorldStep({}, {}) /\ late' = late
      BY <1>4 DEF CompResult, WritesRecord, worldVars, WorldStep, Still
    <2>7. /\ orch'[o].pc \in {"drain", "comp"} /\ orch'[o].redo = orch[o].redo
          /\ \A p \in Orchestrators \ {o} : orch'[p] = orch[p]
      BY <1>0, <2>1 DEF Local
    <2>8. Backed(orch[o])'
      BY <1>0, <2>7 DEF Backed
    <2> QED BY <1>0, <2>2, <2>4, <2>5, <2>6, <2>7, <2>8, SafeMoves
  <1> QED BY <1>2, <1>3, <1>4

LEMMA RevisitSafe ==
    ASSUME Inv, TypeOK', LocalOK', Grows, NEW o \in Orchestrators, Revisit(o)
    PROVE  Inv'
  <1>0. /\ TypeOK /\ orch \in [Orchestrators -> Local] /\ orch[o] \in Local
        /\ Sound(orch[o]) /\ Backed(orch[o]) /\ Idle \in Local
        /\ \A req \in BagToSet(late) : Announced("INTENT", req.key)
    BY IdleOK DEF Inv, TypeOK, LocalOK, CallsBacked
  \* The result to look at next is the only earliest one.
  <1>1. ASSUME NEW r, NextRedo(o, r)
        PROVE  /\ r \in orch[o].redo /\ r \in DOMAIN journal /\ r \in DOMAIN journal'
               /\ Earliest(orch[o], r) /\ \A q : Earliest(orch[o], q) => q = r
               /\ KeyOf(r)' = KeyOf(r) /\ Announced("INTENT", KeyOf(r))
               /\ journal[r] \in Record /\ journal[r].seq \in Steps
               /\ KeyOf(r) = <<journal[r].br, journal[r].seq>> /\ KeyOf(r) \in Key
    <2>1. r \in orch[o].redo /\ orch[o].redo \subseteq Nat
      BY <1>0, <1>1 DEF NextRedo, Local
    <2>2. Earliest(orch[o], r) /\ \A q : Earliest(orch[o], q) => q = r
      BY <1>1, <2>1 DEF NextRedo, Earliest
    <2>3. /\ r \in DOMAIN journal /\ KeyOf(r)' = KeyOf(r) /\ Announced("INTENT", KeyOf(r))
          /\ r \in DOMAIN journal'
      BY <2>1, RedoKept, GrowthKeeps DEF Inv, TypeOK
    <2>4. journal[r] \in Record
      BY <1>0, <2>3 DEF TypeOK, JournalTypeOK
    <2>5. journal[r].seq \in Steps
      BY <1>0, <2>1 DEF Sound
    <2>6. KeyOf(r) = <<journal[r].br, journal[r].seq>> /\ KeyOf(r) \in Key
      BY <2>4, <2>5 DEF KeyOf, effect_key, Key, Record
    <2> QED BY <2>1, <2>2, <2>3, <2>4, <2>5, <2>6
  <1>2. CASE Reconcile(o)
    <2>1. /\ UNCHANGED worldVars /\ UNCHANGED journal
          /\ orch'[o].pc = "recheck" /\ orch'[o].redo = UnknownResults
          /\ \A p \in Orchestrators \ {o} : orch'[p] = orch[p]
      BY <1>0, <1>2 DEF Reconcile, journalVars, Idle
    <2>2. WorldStep({}, {}) /\ late' = late
      BY <2>1 DEF worldVars, WorldStep, Still
    <2>3. \A r \in orch'[o].redo : Announced("INTENT", KeyOf(r))'
      BY <2>1 DEF UnknownResults, Inv, CallsBacked, Announced, Rows, KeyOf
    <2>4. Backed(orch[o])'
      BY <2>1, <2>3 DEF Backed
    <2> QED BY <1>0, <2>1, <2>2, <2>4, SafeMoves
  <1>3. CASE Recheck(o)
    <2>1. PICK r \in DOMAIN journal, res \in ResultStatus :
             /\ NextRedo(o, r)
             /\ execute([key |-> KeyOf(r), sev |-> journal[r].sev, sup |-> journal[r].sup],
                        orch[o].epoch, res)
             /\ orch' = [orch EXCEPT ![o] = [@ EXCEPT !.pc = "rechecked", !.res = res]]
      BY <1>3 DEF Recheck
    <2>2. PICK k : k = KeyOf(r)
      OBVIOUS
    <2>3. PICK req \in Request : req = [key |-> k, sev |-> journal[r].sev, sup |-> journal[r].sup]
      BY <1>1, <2>1, <2>2 DEF Record, Request
    <2>4. /\ Still \/ Effect(k)
          /\ BagToSet(late') \subseteq BagToSet(late) \cup {req}
          /\ res = "ok" => k \in applied'
      BY <1>0, <2>1, <2>2, <2>3, ExecuteStep DEF TypeOK, Local
    <2>5. WorldStep({k}, {}) /\ UNCHANGED journal /\ Announced("INTENT", k)
      BY <1>1, <1>3, <2>1, <2>2, <2>4 DEF WorldStep, Recheck, CallsWorld, journalVars
    <2>6. LedgerOK'
      BY <2>5, WorldKeeps DEF Inv, WorldInv
    <2>7. /\ orch'[o].pc = "rechecked" /\ orch'[o].res = res /\ orch'[o].redo = orch[o].redo
          /\ \A p \in Orchestrators \ {o} : orch'[p] = orch[p]
      BY <1>0, <2>1 DEF Local
    <2>8. Backed(orch[o])'
      <3>1. res = "ok" => Done(KeyOf(r))'
        BY <1>1, <2>1, <2>2, <2>4, <2>6 DEF LedgerOK, Done
      <3>2. \A q \in orch'[o].redo : Earliest(orch[o], q)' => q = r
        BY <1>1, <2>1, <2>7 DEF Earliest
      <3>3. \A q \in orch'[o].redo : Announced("INTENT", KeyOf(q))'
        BY <2>7, RedoKept
      <3> QED BY <2>7, <3>1, <3>2, <3>3 DEF Backed
    <2>9. \A q \in BagToSet(late') : Announced("INTENT", q.key)
      BY <1>0, <2>3, <2>4, <2>5
    <2> QED BY <2>5, <2>7, <2>8, <2>9, SafeMoves
  <1>4. ASSUME NEW r, DropRedo(o, r)
        PROVE  /\ orch'[o].pc = "recheck" /\ orch'[o].redo \subseteq orch[o].redo
               /\ \A p \in Orchestrators \ {o} : orch'[p] = orch[p]
    BY <1>0, <1>4 DEF DropRedo, Local
  <1>5. CASE Reprobe(o)
    <2>1. PICK r \in DOMAIN journal :
             /\ NextRedo(o, r)
             /\ \/ DropRedo(o, r)
                \/ probe(KeyOf(r), "done") /\ orch' = [orch EXCEPT ![o].res = "ok"]
      BY <1>5 DEF Reprobe
    <2>2. /\ UNCHANGED worldVars /\ UNCHANGED journal /\ orch[o].pc = "rechecked"
      BY <1>5 DEF Reprobe, ReadOnly, journalVars, At
    <2>3. CASE DropRedo(o, r)
      BY <1>4, <2>2, <2>3, QuietIsSafe DEF Quiet, Modest, CallPC
    <2>4. CASE probe(KeyOf(r), "done") /\ orch' = [orch EXCEPT ![o].res = "ok"]
      <3>1. /\ orch'[o].pc = "rechecked" /\ orch'[o].redo = orch[o].redo
            /\ \A p \in Orchestrators \ {o} : orch'[p] = orch[p]
        BY <1>0, <2>2, <2>4 DEF Local
      <3>2. KeyOf(r) \in applied
        BY <2>4 DEF probe
      <3>3. Done(KeyOf(r))'
        BY <1>1, <2>1, <2>2, <3>2 DEF Inv, LedgerOK, Done, Happened, Entries, worldVars
      <3>4. Backed(orch[o])'
        <4>1. \A q \in orch'[o].redo : Earliest(orch[o], q)' => q = r
          BY <1>1, <2>1, <3>1 DEF Earliest
        <4>2. \A q \in orch'[o].redo : Announced("INTENT", KeyOf(q))'
          BY <3>1, RedoKept
        <4> QED BY <3>1, <3>3, <4>1, <4>2 DEF Backed
      <3>5. WorldStep({}, {}) /\ late' = late
        BY <2>2 DEF worldVars, WorldStep, Still
      <3> QED BY <1>0, <2>2, <3>1, <3>4, <3>5, SafeMoves
    <2> QED BY <2>1, <2>3, <2>4
  <1>6. CASE Rematch(o)
    <2>1. PICK r \in DOMAIN journal :
             NextRedo(o, r) /\ append(SlotRow("LATE_DELIVERY_SUPPRESSED", r, "ok"))
      BY <1>6 DEF Rematch
    <2> DEFINE row == SlotRow("LATE_DELIVERY_SUPPRESSED", r, "ok")
    <2>2. row \in Record
      BY <1>0, SlotRowType DEF RecordKind, ResultStatus
    <2>3. row.kind = "LATE_DELIVERY_SUPPRESSED"
      BY <1>1, <2>1 DEF SlotRow, Record
    <2>4. append(row)
      BY <2>1
    <2> HIDE DEF row
    <2>5. Honest(row)
      BY <2>3 DEF Honest
    <2>6. WorldStep({}, {}) /\ late' = late /\ ledger' = ledger
      BY <1>6 DEF Rematch, WritesRecord, worldVars, WorldStep, Still
    <2>7. /\ orch'[o].pc = "matched" /\ orch'[o].redo = orch[o].redo
          /\ \A p \in Orchestrators \ {o} : orch'[p] = orch[p]
      BY <1>0, <1>6 DEF Rematch, Goto, Local
    <2>8. Backed(orch[o])'
      <3>1. Done(KeyOf(r))
        BY <1>0, <1>1, <1>6, <2>1 DEF Rematch, At, Backed
      <3>2. Done(KeyOf(r))'
        BY <1>1, <2>1, <2>6, <3>1 DEF Done, Happened, Entries
      <3>3. \A q \in orch'[o].redo : Earliest(orch[o], q)' => q = r
        BY <1>1, <2>1, <2>7 DEF Earliest
      <3>4. \A q \in orch'[o].redo : Announced("INTENT", KeyOf(q))'
        BY <2>7, RedoKept
      <3> QED BY <2>7, <3>2, <3>3, <3>4 DEF Backed
    <2> QED BY <1>0, <2>2, <2>4, <2>5, <2>6, <2>7, <2>8, SafeMoves
  <1>7. CASE Resettle(o)
    <2>1. PICK r \in DOMAIN journal :
             NextRedo(o, r) /\ append(SlotRow("RESULT", r, "ok")) /\ DropRedo(o, r)
      BY <1>7 DEF Resettle
    <2> DEFINE row == SlotRow("RESULT", r, "ok")
    <2>2. row \in Record
      BY <1>0, SlotRowType DEF RecordKind, ResultStatus
    <2>3. row.kind = "RESULT" /\ effect_key(row.br, row.seq) = KeyOf(r)
      BY <1>1, <2>1 DEF SlotRow, Record, KeyOf, effect_key
    <2>4. append(row)
      BY <2>1
    <2> HIDE DEF row
    <2>5. Honest(row)
      <3>1. Done(KeyOf(r))
        BY <1>0, <1>1, <1>7, <2>1 DEF Resettle, At, Backed
      <3> QED BY <1>1, <2>1, <2>3, <3>1 DEF Honest
    <2>6. WorldStep({}, {}) /\ late' = late
      BY <1>7 DEF Resettle, WritesRecord, worldVars, WorldStep, Still
    <2>7. Backed(orch[o])'
      <3>1. orch'[o].pc = "recheck" /\ orch'[o].redo \subseteq orch[o].redo
        BY <1>4, <2>1
      <3>2. \A q \in orch'[o].redo : Announced("INTENT", KeyOf(q))'
        BY <3>1, RedoKept
      <3> QED BY <3>1, <3>2 DEF Backed
    <2> QED BY <1>0, <1>4, <2>1, <2>2, <2>4, <2>5, <2>6, <2>7, SafeMoves
  <1>8. CASE Reconciled(o)
    <2>1. Quiet(o)
      BY <1>0, <1>8 DEF Reconciled, ReadOnly, Quiet, Modest, CallPC, journalVars, Idle
    <2> QED BY <2>1, QuietIsSafe
  <1> QED BY <1>2, <1>3, <1>5, <1>6, <1>7, <1>8 DEF Revisit

LEMMA EnvironmentSafe ==
    ASSUME Inv, TypeOK', LocalOK', Grows, Lapse \/ Redeliver \/ Land \/ UNCHANGED vars
    PROVE  Inv'
  <1>1. /\ UNCHANGED << journal, orch >>
        /\ \A p \in Orchestrators : Backed(orch[p])
        /\ \A req \in BagToSet(late) : Announced("INTENT", req.key)
    BY DEF Lapse, Redeliver, Land, vars, journalVars, Inv, CallsBacked
  <1>2. PICK A \in SUBSET LateKeys : WorldStep(A, {}) /\ BagToSet(late') \subseteq BagToSet(late)
    <2>1. CASE Land
      <3>1. PICK req \in BagToSet(late) : land(req)
        BY <2>1 DEF Land
      <3>2. req \in Request
        BY DEF Inv, TypeOK, WorldTypeOK
      <3>3. WorldStep({req.key}, {}) /\ BagToSet(late') \subseteq BagToSet(late)
        BY <3>1, <3>2, LandStep DEF WorldStep, Inv, TypeOK
      <3> QED BY <3>3 DEF LateKeys
    <2>2. CASE Lapse \/ Redeliver \/ UNCHANGED vars
      BY <2>2 DEF Lapse, Redeliver, vars, worldVars, WorldStep, Still
    <2> QED BY <2>1, <2>2
  <1>3. \A k \in A : Announced("INTENT", k)
    BY <1>1 DEF LateKeys
  <1>4. WorldInv'
    BY <1>2, <1>3, WorldKeeps DEF Inv, WorldInv
  <1>5. JournalTruthful'
    BY <1>1, <1>2, JournalKeeps DEF Inv
  <1>6. CallsBacked'
    <2>1. ASSUME NEW p \in Orchestrators PROVE Backed(orch[p])'
      <3>1. PICK l : l = orch[p] /\ l = orch'[p]
        BY <1>1
      <3>2. Sound(l) /\ Backed(l)
        BY <1>1, <3>1 DEF Inv, LocalOK
      <3>3. Backed(l)'
        BY <1>2, <3>2, StaysBacked DEF Inv
      <3> QED BY <3>1, <3>3 DEF Backed, Latest, Earliest
    <2>2. \A req \in BagToSet(late') : Announced("INTENT", req.key)'
      BY <1>1, <1>2, StaysAnnounced DEF Inv, TypeOK
    <2>3. \A r \in Rows("RESULT")' : Announced("INTENT", KeyOf(r))'
      BY <1>1 DEF Inv, CallsBacked, Announced, Rows, KeyOf
    <2> QED BY <2>1, <2>2, <2>3 DEF CallsBacked
  <1> QED BY <1>4, <1>5, <1>6 DEF Inv, WorldInv

------------------------------------------------------------------------------
LEMMA InvInit == Init => Inv
  <1> SUFFICES ASSUME Init PROVE Inv
    OBVIOUS
  <1>1. TypeOK /\ LocalOK
    BY TypesInit
  <1>2. /\ journal = << >> /\ ledger = << >> /\ applied = {} /\ BagToSet(late) = {}
        /\ orch = [o \in Orchestrators |-> Idle]
    BY DEF Init, JournalInit, WorldInit, EmptyBag, SetToBag, BagToSet
  <1>3. CallsBacked
    BY <1>2 DEF CallsBacked, Backed, Idle, Rows
  <1> QED BY <1>1, <1>2, <1>3
       DEF Inv, LedgerOK, CompensateOnlyDead, IntentBeforeEffect,
           JournalTruthful, Pages, Entries, Rows

LEMMA InvNext ==
    ASSUME Inv, [Next]_vars
    PROVE  Inv'
  <1>1. TypeOK' /\ LocalOK' /\ Grows /\ TypeOK /\ LocalOK
    BY TypesNext DEF Inv
  <1>2. ASSUME NEW o \in Orchestrators, Run(o) \/ Crash(o) PROVE Inv'
    <2>1. CASE \/ Lead(o) \/ Replay(o) \/ Complete(o) \/ Pass(o) \/ Block(o)
               \/ Drained(o) \/ BeginPass(o) \/ GiveUp(o)
               \/ Graduate(o) \/ Graduated(o) \/ Release(o) \/ Finish(o) \/ Crash(o)
      BY <1>1, <2>1, LeadQuiet, WalkQuiet, DrainQuiet, FinishQuiet, QuietIsSafe
    <2>2. CASE \/ Intent(o) \/ Execute(o) \/ Probe(o) \/ Suppress(o) \/ RecordResult(o)
               \/ Ambiguous(o)
      BY <1>1, <2>2, CallSafe
    <2>3. CASE CompIntent(o) \/ Undo(o) \/ CompResult(o)
      BY <1>1, <2>3, UndoSafe
    <2>4. CASE Revisit(o)
      BY <1>1, <2>4, RevisitSafe
    <2> QED BY <1>2, <2>1, <2>2, <2>3, <2>4 DEF Run, Walk, Settle, Drain
  <1>3. CASE Lapse \/ Redeliver \/ Land \/ UNCHANGED vars
    BY <1>1, <1>3, EnvironmentSafe
  <1> QED BY <1>2, <1>3 DEF Next

------------------------------------------------------------------------------
(* Several leaders: any number of processes may take one another for dead. *)
(* Their epochs are still distinct, the lease is a leadership, and behind  *)
(* its fence a deposed leader has one request left.                        *)

------------------------------------------------------------------------------
(* What a step does to the lease and to the epochs                         *)

\* One process moves: it leads on under its epoch, or no longer leads.
Moved(o) ==
    /\ UNCHANGED lease
    /\ \A p \in Orchestrators \ {o} : orch'[p] = orch[p]
    /\ Leading(o)' => Leading(o) /\ orch'[o].epoch = orch[o].epoch

LEMMA Jumps ==
    ASSUME TypeOK, NEW o \in Orchestrators, NEW l, orch' = [orch EXCEPT ![o] = l],
           UNCHANGED lease,
           \/ l.pc \in {"idle", "returned", "recheck", "rechecked", "matched"}
           \/ Leading(o) /\ l.epoch = orch[o].epoch
    PROVE  Moved(o)
  <1>1. orch'[o] = l /\ \A p \in Orchestrators \ {o} : orch'[p] = orch[p]
    BY DEF TypeOK
  <1> QED BY <1>1 DEF Moved, Leading

LEMMA RunBranchMoves ==
    ASSUME TypeOK, NEW o \in Orchestrators, NEW b, NEW sev, _run_branch(o, b, sev),
           UNCHANGED lease, Leading(o)
    PROVE  Moved(o)
  <1>1. orch[o] \in Local
    BY DEF TypeOK
  <1>2. PICK sup \in residue \cup {0} :
           orch' = [orch EXCEPT ![o] =
               [@ EXCEPT !.pc = "step", !.br = b, !.sev = sev, !.sup = sup,
                         !.done = IF Replays THEN completed_results(b) ELSE {},
                         !.seq = 1, !.chosen = NoSeverity]]
    BY DEF _run_branch
  <1> QED BY <1>1, <1>2, Jumps DEF Local

\* Where a process goes on, its epoch stays.
LEMMA RunMoves ==
    ASSUME TypeOK, NEW o \in Orchestrators, Run(o), ~ Start(o)
    PROVE  Moved(o)
  <1>0. orch[o] \in Local
    BY DEF TypeOK
  <1> USE DEF At, Goto, ReadOnly, WritesRecord, WritesTree, CallsWorld, EngineVars
  <1>1. CASE NotLeader(o)     BY <1>1, Jumps DEF NotLeader, Idle
  <1>2. CASE SelectActive(o)  BY <1>2, RunBranchMoves DEF SelectActive, Leading
  <1>3. CASE SelectFresh(o)   BY <1>3, RunBranchMoves DEF SelectFresh, Leading
  <1>4. CASE SelectNaive(o)   BY <1>0, <1>4, Jumps DEF SelectNaive, Leading, Local
  <1>5. CASE Replay(o)        BY <1>0, <1>5, Jumps DEF Replay, Leading, Local
  <1>6. CASE Complete(o)      BY <1>0, <1>6, Jumps DEF Complete, Leading, Local
  <1>7. CASE Pass(o)          BY <1>0, <1>7, Jumps DEF Pass, ToExecute, Leading, Local
  <1>8. CASE Block(o)         BY <1>0, <1>8, Jumps DEF Block, ToExecute, Leading, Local
  <1>9. CASE Intent(o)        BY <1>0, <1>9, Jumps DEF Intent, Leading, Local
  <1>10. CASE Execute(o)      BY <1>0, <1>10, Jumps DEF Execute, Leading, Local
  <1>11. CASE Probe(o)        BY <1>0, <1>11, Jumps DEF Probe, Leading, Local
  <1>12. CASE Ambiguous(o)    BY <1>0, <1>12, Jumps DEF Ambiguous, Leading, Local
  <1>13. CASE Suppress(o)     BY <1>0, <1>13, Jumps DEF Suppress, Leading, Local
  <1>14. CASE RecordResult(o) BY <1>0, <1>14, Jumps DEF RecordResult, Leading, Local
  <1>15. CASE Drained(o)      BY <1>0, <1>15, Jumps DEF Drained, Leading, Local
  <1>16. CASE BeginPass(o)    BY <1>0, <1>16, Jumps DEF BeginPass, Leading, Local
  <1>17. CASE GiveUp(o)       BY <1>0, <1>17, Jumps DEF GiveUp, Leading, Local
  <1>18. CASE CompIntent(o)   BY <1>0, <1>18, Jumps DEF CompIntent, Leading, Local
  <1>19. CASE Undo(o)         BY <1>0, <1>19, Jumps DEF Undo, Leading, Local
  <1>20. CASE CompResult(o)   BY <1>0, <1>20, Jumps DEF CompResult, Leading, Local
  <1>21. CASE Graduate(o)     BY <1>0, <1>21, Jumps DEF Graduate, Leading, Local
  <1>22. CASE Graduated(o)    BY <1>0, <1>22, Jumps DEF Graduated, Leading, Local
  <1>23. CASE Release(o)      BY <1>0, <1>23, Jumps DEF Release, Leading, Local
  <1>24. CASE ReplayFailed(o)
    <2>1. PICK l : /\ orch' = [orch EXCEPT ![o] = l]
                   /\ \/ l = [Idle EXCEPT !.tries = orch[o].tries + 1]
                      \/ l = [Idle EXCEPT !.pc = "returned"]
      BY <1>24 DEF ReplayFailed
    <2>2. l.pc \in {"idle", "returned"}
      BY <2>1 DEF Idle
    <2> QED BY <1>24, <2>1, <2>2, Jumps DEF ReplayFailed
  <1>25. CASE Escalate(o)     BY <1>0, <1>25, Jumps DEF Escalate, Leading, Local
  <1>26. CASE Abandon(o)      BY <1>0, <1>26, Jumps DEF Abandon, Leading, Local
  <1>27. CASE AbandonWithResidue(o)
    BY <1>0, <1>27, Jumps DEF AbandonWithResidue, Leading, Local
  <1>28. CASE RecordAbandoned(o)
    BY <1>0, <1>28, Jumps DEF RecordAbandoned, Leading, Local
  <1>29. CASE Fork(o)         BY <1>0, <1>29, Jumps DEF Fork, Leading, Local
  <1>30. CASE RecordFork(o)   BY <1>30, RunBranchMoves DEF RecordFork, Leading
  <1>31. CASE ForkNaive(o)    BY <1>31, RunBranchMoves DEF ForkNaive, Leading
  <1>32. CASE Ack(o)          BY <1>32, Jumps DEF Ack, Idle
  <1>33. CASE Reconcile(o)    BY <1>33, Jumps DEF Reconcile, Idle
  <1>34. CASE Recheck(o)      BY <1>0, <1>34, Jumps DEF Recheck, Local
  <1>35. CASE Reprobe(o)      BY <1>0, <1>35, Jumps DEF Reprobe, DropRedo, Local
  <1>36. CASE Rematch(o)      BY <1>0, <1>36, Jumps DEF Rematch, Local
  <1>37. CASE Resettle(o)     BY <1>0, <1>37, Jumps DEF Resettle, DropRedo, Local
  <1>38. CASE Reconciled(o)   BY <1>38, Jumps DEF Reconciled, Idle
  <1> QED BY <1>1, <1>2, <1>3, <1>4, <1>5, <1>6, <1>7, <1>8, <1>9, <1>10, <1>11, <1>12,
             <1>13, <1>14, <1>15, <1>16, <1>17, <1>18, <1>19, <1>20, <1>21, <1>22, <1>23,
             <1>24, <1>25, <1>26, <1>27, <1>28, <1>29, <1>30, <1>31, <1>32, <1>33, <1>34,
             <1>35, <1>36, <1>37, <1>38
          DEF Run, Lead, Walk, Settle, Drain, Finish, Revisit

------------------------------------------------------------------------------
(* The lease and the epochs                                                *)

LEMMA EpochsInit == Init => EpochsDistinct
  BY DEF Init, Idle, EpochsDistinct, Leading

LEMMA EpochsNext ==
    ASSUME TypeOK, EpochsDistinct, [Next]_vars
    PROVE  EpochsDistinct'
  <1>0. /\ lease.epoch \in Nat
        /\ \A o \in Orchestrators : Leading(o) => orch[o].epoch \in 1 .. lease.epoch
    BY DEF TypeOK, EpochsDistinct
  <1>1. ASSUME NEW o \in Orchestrators, Start(o) PROVE EpochsDistinct'
    <2>1. lease'.epoch = lease.epoch + 1
      BY <1>1 DEF Start
    <2>2. orch'[o].epoch = lease.epoch + 1 /\ \A p \in Orchestrators \ {o} : orch'[p] = orch[p]
      BY <1>1 DEF Start, TypeOK, Idle
    <2> QED BY <1>0, <2>1, <2>2 DEF EpochsDistinct, Leading
  <1>2. ASSUME NEW o \in Orchestrators, Moved(o) PROVE EpochsDistinct'
    BY <1>2 DEF Moved, EpochsDistinct, Leading
  <1>3. ASSUME NEW o \in Orchestrators, Crash(o) PROVE Moved(o)
    BY <1>3, Jumps DEF Crash, Idle
  <1>4. CASE Lapse \/ Redeliver \/ Land \/ UNCHANGED vars
    <2>1. UNCHANGED orch /\ lease'.epoch = lease.epoch
      BY <1>4 DEF Lapse, Redeliver, Land, EngineVars, vars, TypeOK
    <2> QED BY <2>1 DEF EpochsDistinct, Leading
  <1> QED BY <1>1, <1>2, <1>3, <1>4, RunMoves DEF Next

LEMMA LeaseStep ==
    ASSUME TypeOK, [Next]_vars
    PROVE  [Leads!Next]_lease
  <1>1. ASSUME NEW o \in Orchestrators, Start(o) PROVE Leads!Grant(o)
    BY <1>1 DEF Start, MayLead, Leads!Grant
  <1>2. ASSUME NEW o \in Orchestrators, Run(o), ~ Start(o) PROVE UNCHANGED lease
    BY <1>2, RunMoves DEF Moved
  <1>3. ASSUME NEW o \in Orchestrators, Crash(o) PROVE UNCHANGED lease
    BY <1>3 DEF Crash
  <1>4. CASE Lapse
    BY <1>4 DEF Lapse, Leads!Lapse, Leads!Next
  <1>5. CASE Redeliver \/ Land \/ UNCHANGED vars
    BY <1>5 DEF Redeliver, Land, EngineVars, vars
  <1> QED BY <1>1, <1>2, <1>3, <1>4, <1>5 DEF Next, Leads!Next

------------------------------------------------------------------------------
(* The fences                                                              *)

\* No entry of the ledger is from an epoch its service has not heard of.
FenceBound ==
    \A i \in DOMAIN ledger : ledger[i].epoch <= epochSeen[FenceOf[ToolOfEntry(i)]]

\* A step of the world: fences only rise, and what is entered was let in last.
Served ==
    /\ \A f \in Fences : epochSeen'[f] >= epochSeen[f]
    /\ \/ ledger' = ledger
       \/ \E e \in Entry : /\ ledger' = Append(ledger, e)
                           /\ \/ e.epoch = 0
                              \/ e.epoch = epochSeen'[FenceOf[ToolOf(e.key)]]

LEMMA ToolHasFence ==
    ASSUME NEW k \in Key
    PROVE  ToolOf(k) \in Tools /\ FenceOf[ToolOf(k)] \in Fences
  BY TraceAssumption DEF Key, Steps, ToolOf, Fences

LEMMA FenceServes ==
    ASSUME WorldTypeOK, NEW tool \in Tools, NEW epoch \in Nat, _fence(tool, epoch)
    PROVE  /\ \A f \in Fences : epochSeen'[f] >= epochSeen[f]
           /\ epochSeen'[FenceOf[tool]] = epoch
  BY DEF WorldTypeOK, _fence, Fences

LEMMA StillServed ==
    ASSUME WorldTypeOK, UNCHANGED << epochSeen, ledger >>
    PROVE  Served
  BY DEF WorldTypeOK, Served

LEMMA RecordServed ==
    ASSUME WorldTypeOK, NEW req \in Request, NEW epoch \in Nat,
           NEW kind \in {"effect", "compensation"}, record(kind, req, epoch),
           _fence(ToolOf(req.key), epoch)
    PROVE  Served
  <1>1. req.key \in Key
    BY DEF Request
  <1>2. PICK e \in Entry : /\ ledger' = Append(ledger, e)
                           /\ e.key = req.key /\ e.epoch = epoch
    BY DEF record, Entry, Request
  <1> QED BY <1>1, <1>2, ToolHasFence, FenceServes DEF Served

LEMMA ExecuteServed ==
    ASSUME WorldTypeOK, NEW req \in Request, NEW epoch \in Nat, NEW res,
           execute(req, epoch, res)
    PROVE  Served
  <1>1. req.key \in Key
    BY DEF Request
  <1>2. CASE UNCHANGED worldVars
    BY <1>2, StillServed DEF worldVars
  <1>3. CASE _fence(ToolOf(req.key), epoch) /\ UNCHANGED ledger
    BY <1>1, <1>3, ToolHasFence, FenceServes DEF Served
  <1>4. CASE _fence(ToolOf(req.key), epoch) /\ record("effect", req, epoch)
    BY <1>4, RecordServed
  <1> QED BY <1>2, <1>3, <1>4 DEF execute, let_in, take_effect

LEMMA CompensateServed ==
    ASSUME WorldTypeOK, NEW req \in Request, NEW epoch \in Nat, NEW res,
           compensate(req, epoch, res)
    PROVE  Served
  <1>1. req.key \in Key
    BY DEF Request
  <1>2. CASE UNCHANGED worldVars
    BY <1>2, StillServed DEF worldVars
  <1>3. CASE _fence(ToolOf(req.key), epoch) /\ UNCHANGED ledger
    BY <1>1, <1>3, ToolHasFence, FenceServes DEF Served
  <1>4. CASE _fence(ToolOf(req.key), epoch) /\ record("compensation", req, epoch)
    BY <1>4, RecordServed
  <1> QED BY <1>2, <1>3, <1>4 DEF compensate, undo_effect

\* A late delivery asks no fence; its entry carries no epoch.
LEMMA LandServed ==
    ASSUME WorldTypeOK, NEW req \in Request, land(req)
    PROVE  Served
  <1>1. CASE UNCHANGED ledger
    BY <1>1, StillServed DEF land
  <1>2. CASE record("effect", req, 0)
    <2>1. PICK e \in Entry : ledger' = Append(ledger, e) /\ e.epoch = 0
      BY <1>2 DEF record, Entry, Request
    <2>2. UNCHANGED epochSeen
      BY DEF land
    <2> QED BY <2>1, <2>2 DEF Served, WorldTypeOK
  <1> QED BY <1>1, <1>2 DEF land

\* The three calls a process makes.
LEMMA CallsServed ==
    ASSUME TypeOK, LocalOK, NEW o \in Orchestrators, Execute(o) \/ Undo(o) \/ Recheck(o)
    PROVE  Served
  <1>0. orch[o] \in Local /\ Sound(orch[o]) /\ WorldTypeOK
    BY DEF TypeOK, LocalOK
  <1>1. CASE Execute(o)
    <2>1. PICK res \in ResultStatus : execute(Call(o), orch[o].epoch, res)
      BY <1>1 DEF Execute
    <2>2. orch[o].seq \in Steps /\ orch[o].epoch \in Nat
      BY <1>0, <1>1 DEF Execute, At, Sound, Local, Working, Branchless
    <2> QED BY <1>0, <2>1, <2>2, CallType, ExecuteServed
  <1>2. CASE Undo(o)
    <2>1. PICK r \in DOMAIN journal, res \in ResultStatus :
             /\ NextUndo(o, r)
             /\ compensate([key |-> KeyOf(r), sev |-> journal[r].sev, sup |-> 0],
                           orch[o].epoch, res)
      BY <1>2 DEF Undo
    <2>2. journal[r] \in Record /\ orch[o].epoch \in Nat
      BY <1>0, <2>1 DEF TypeOK, JournalTypeOK, Local
    <2>4. journal[r].seq \in Steps
      BY <1>0, <2>1 DEF NextUndo, Sound, Undoable
    <2>3. [key |-> KeyOf(r), sev |-> journal[r].sev, sup |-> 0] \in Request
      BY <2>2, <2>4 DEF Record, Request, KeyOf, effect_key, Key
    <2> QED BY <1>0, <2>1, <2>2, <2>3, CompensateServed
  <1>3. CASE Recheck(o)
    <2>1. PICK r \in DOMAIN journal, res \in ResultStatus :
             /\ NextRedo(o, r)
             /\ execute([key |-> KeyOf(r), sev |-> journal[r].sev, sup |-> journal[r].sup],
                        orch[o].epoch, res)
      BY <1>3 DEF Recheck
    <2>2. journal[r] \in Record /\ orch[o].epoch \in Nat
      BY <1>0, <2>1 DEF TypeOK, JournalTypeOK, Local
    <2>4. journal[r].seq \in Steps
      BY <1>0, <2>1 DEF NextRedo, Sound
    <2>3. [key |-> KeyOf(r), sev |-> journal[r].sev, sup |-> journal[r].sup] \in Request
      BY <2>2, <2>4 DEF Record, Request, KeyOf, effect_key, Key
    <2> QED BY <1>0, <2>1, <2>2, <2>3, ExecuteServed
  <1> QED BY <1>1, <1>2, <1>3

LEMMA RunServed ==
    ASSUME TypeOK, LocalOK, NEW o \in Orchestrators, Run(o) \/ Crash(o)
    PROVE  Served
  <1>1. CASE Execute(o) \/ Undo(o) \/ Recheck(o)
    BY <1>1, CallsServed
  <1> USE StillServed DEF TypeOK, worldVars, ReadOnly, WritesRecord, WritesTree
  <1>2. CASE Lead(o) \/ Ack(o) \/ Reconcile(o) \/ Crash(o)
    BY <1>2 DEF Lead, Start, NotLeader, SelectActive, SelectFresh, SelectNaive,
                Ack, Reconcile, Crash
  <1>3. CASE \/ Replay(o) \/ Complete(o) \/ Pass(o) \/ Block(o) \/ Intent(o)
             \/ Settle(o)
    BY <1>3 DEF Replay, Complete, Pass, Block, Intent, Settle, Probe, Ambiguous,
                Suppress, RecordResult
  <1>4. CASE \/ Drained(o) \/ BeginPass(o) \/ GiveUp(o) \/ CompIntent(o)
             \/ CompResult(o) \/ Graduate(o) \/ Graduated(o) \/ Release(o)
    BY <1>4 DEF Drained, BeginPass, GiveUp, CompIntent, CompResult, Graduate,
                Graduated, Release
  <1>5. CASE \/ ReplayFailed(o) \/ Escalate(o) \/ Abandon(o) \/ AbandonWithResidue(o)
             \/ RecordAbandoned(o) \/ Fork(o) \/ RecordFork(o) \/ ForkNaive(o)
    BY <1>5 DEF ReplayFailed, Escalate, Abandon, AbandonWithResidue, RecordAbandoned,
                Fork, RecordFork, ForkNaive
  <1>6. CASE Reprobe(o) \/ Rematch(o) \/ Resettle(o) \/ Reconciled(o)
    BY <1>6 DEF Reprobe, Rematch, Resettle, Reconciled
  <1> QED BY <1>1, <1>2, <1>3, <1>4, <1>5, <1>6 DEF Run, Walk, Drain, Finish, Revisit

LEMMA NextServed ==
    ASSUME TypeOK, LocalOK, [Next]_vars
    PROVE  Served
  <1>0. WorldTypeOK
    BY DEF TypeOK
  <1>1. CASE Lapse \/ Redeliver \/ UNCHANGED vars
    BY <1>0, <1>1, StillServed DEF Lapse, Redeliver, vars, worldVars
  <1>2. CASE Land
    <2>1. PICK req \in BagToSet(late) : land(req)
      BY <1>2 DEF Land
    <2>2. req \in Request
      BY <1>0 DEF WorldTypeOK
    <2> QED BY <1>0, <2>1, <2>2, LandServed
  <1> QED BY <1>1, <1>2, RunServed DEF Next

\* What is entered was let in, so the bound stands.
LEMMA BoundNext ==
    ASSUME WorldTypeOK, FenceBound, Served, WorldTypeOK'
    PROVE  FenceBound'
  <1>1. \A i \in DOMAIN ledger : /\ ledger[i].epoch \in Nat /\ ledger[i].key \in Key
                                 /\ FenceOf[ToolOfEntry(i)] \in Fences
    <2>1. \A i \in DOMAIN ledger : ledger[i] \in Entry
      BY DEF WorldTypeOK
    <2>2. \A e \in Entry : e.epoch \in Nat /\ e.key \in Key
      BY DEF Entry
    <2> QED BY <2>1, <2>2, ToolHasFence DEF ToolOfEntry
  <1>2. \A f \in Fences : /\ epochSeen[f] \in Nat /\ epochSeen'[f] \in Nat
                          /\ epochSeen'[f] >= epochSeen[f]
    BY DEF WorldTypeOK, Served
  <1>3. CASE ledger' = ledger
    BY <1>1, <1>2, <1>3 DEF FenceBound, ToolOfEntry
  <1>4. ASSUME NEW e \in Entry, ledger' = Append(ledger, e),
               e.epoch <= epochSeen'[FenceOf[ToolOf(e.key)]]
        PROVE  FenceBound'
    <2> DEFINE n == Len(ledger) + 1
    <2>1. /\ DOMAIN ledger' = DOMAIN ledger \cup {n} /\ ledger'[n] = e
          /\ \A i \in DOMAIN ledger : i < n /\ ledger'[i] = ledger[i]
      BY <1>4 DEF WorldTypeOK
    <2>3. \A i \in DOMAIN ledger :
             ledger[i].epoch <= epochSeen'[FenceOf[ToolOfEntry(i)]]
      BY <1>1, <1>2 DEF FenceBound
    <2> HIDE DEF n
    <2> QED BY <1>2, <1>4, <2>1, <2>3 DEF FenceBound, ToolOfEntry
  <1>5. \A e \in Entry : FenceOf[ToolOf(e.key)] \in Fences
    BY ToolHasFence DEF Entry
  <1> QED BY <1>2, <1>3, <1>4, <1>5 DEF Served

------------------------------------------------------------------------------
(* Requests at work                                                        *)

\* What a request at work will do was announced, whoever waits for it; and it
\* is what its caller, if there is one, is waiting for.
Promised(w) ==
    /\ w.op = "execute" => Announced("INTENT", w.req.key)
    /\ w.op = "compensate" => Announced("COMP_INTENT", w.req.key) /\ DeadKey(w.req.key)

Awaited(w) ==
    w.by \in Orchestrators =>
        /\ w.epoch = orch[w.by].epoch
        /\ w.op = "execute" =>
              At(w.by, "call") /\ w.req.key = effect_key(orch[w.by].br, orch[w.by].seq)
        /\ w.op = "compensate" =>
              /\ At(w.by, "undo")
              /\ \E r \in DOMAIN journal : NextUndo(w.by, r) /\ w.req.key = KeyOf(r)

AtWorkOK ==
    /\ atWork \subseteq Work
    /\ \A w \in atWork : Promised(w) /\ Awaited(w)
    /\ \A v, w \in atWork : (v.by = w.by /\ v.by # NoOwner) => v = w

LEMMA WorkType ==
    ASSUME NEW w \in Work
    PROVE  /\ w.req \in Request /\ w.req.key \in Key /\ w.epoch \in Nat
           /\ w.op \in {"execute", "compensate"} /\ w.by \in Orchestrators \cup {NoOwner}
           /\ [w EXCEPT !.by = NoOwner] \in Work
           /\ LET v == [w EXCEPT !.by = NoOwner] IN
              v.by = NoOwner /\ v.op = w.op /\ v.req = w.req /\ v.epoch = w.epoch
  BY DEF Work, Request

\* A promise stands while the journal and the tree grow, and a caller waits on
\* while it does not move.
LEMMA PromiseKept ==
    ASSUME JournalTypeOK, Grows, NEW w, Promised(w)
    PROVE  Promised(w)'
  <1>1. \A kind, k : Announced(kind, k) => Announced(kind, k)'
    BY StaysAnnounced
  <1>2. \A k : DeadKey(k) => DeadKey(k)'
    BY GrowthKeeps DEF DeadKey
  <1> QED BY <1>1, <1>2 DEF Promised

LEMMA WaitKept ==
    ASSUME JournalTypeOK, Grows, NEW w, Awaited(w),
           w.by \in Orchestrators => orch'[w.by] = orch[w.by]
    PROVE  Awaited(w)'
  <1>1. \A r \in DOMAIN journal : r \in DOMAIN journal' /\ KeyOf(r)' = KeyOf(r)
    BY GrowthKeeps DEF KeyOf, effect_key
  <1> QED BY <1>1 DEF Awaited, At, NextUndo, effect_key

LEMMA WorkKept ==
    ASSUME AtWorkOK, JournalTypeOK, Grows, atWork' \subseteq atWork,
           \A w \in atWork' : w.by \in Orchestrators => orch'[w.by] = orch[w.by]
    PROVE  AtWorkOK'
  <1>1. \A w \in atWork' : Promised(w)' /\ Awaited(w)'
    BY PromiseKept, WaitKept DEF AtWorkOK
  <1> QED BY <1>1 DEF AtWorkOK

\* The caller is gone, or has gone on; the request stays.
LEMMA OrphansKept ==
    ASSUME AtWorkOK, JournalTypeOK, UNCHANGED journalVars, NEW o \in Orchestrators,
           atWork' = Orphaned(o), \A p \in Orchestrators \ {o} : orch'[p] = orch[p]
    PROVE  AtWorkOK'
  <1>0. Grows
    BY DEF Grows, journalVars
  <1>1. ASSUME NEW w \in atWork' PROVE w \in Work /\ Promised(w)' /\ Awaited(w)'
    <2>1. PICK v \in atWork : w = IF v.by = o THEN [v EXCEPT !.by = NoOwner] ELSE v
      BY <1>1 DEF Orphaned
    <2>2. v \in Work /\ Promised(v)' /\ Awaited(v)
      BY <1>0, PromiseKept DEF AtWorkOK
    <2>3. CASE v.by = o
      <3>1. w \in Work /\ w.by = NoOwner /\ w.op = v.op /\ w.req = v.req
        BY <2>1, <2>2, <2>3, WorkType
      <3>2. w.by \notin Orchestrators
        BY <3>1, EngineAssumption
      <3> QED BY <2>2, <3>1, <3>2 DEF Promised, Awaited
    <2>4. CASE v.by # o
      BY <1>0, <2>1, <2>2, <2>4, WaitKept
    <2> QED BY <2>3, <2>4
  <1>2. \A v, w \in atWork' : (v.by = w.by /\ v.by # NoOwner) => v = w
    <2>1. ASSUME NEW w \in atWork', w.by # NoOwner PROVE w \in atWork
      <3>1. PICK v \in atWork : w = IF v.by = o THEN [v EXCEPT !.by = NoOwner] ELSE v
        BY <2>1 DEF Orphaned
      <3>2. [v EXCEPT !.by = NoOwner].by = NoOwner
        BY WorkType DEF AtWorkOK
      <3> QED BY <2>1, <3>1, <3>2
    <2> QED BY <2>1 DEF AtWorkOK
  <1> QED BY <1>1, <1>2 DEF AtWorkOK

------------------------------------------------------------------------------
(* The first moment                                                        *)

LEMMA FenceOnly ==
    ASSUME Inv, epochSeen' \in [Fences -> Nat],
           UNCHANGED << applied, ledger, late, journalVars, EngineVars, orch >>
    PROVE  Inv' /\ Grows
  <1>0. Grows /\ UNCHANGED << journal, branches, faults, config, lease, acked, spent >>
    BY DEF Grows, journalVars, EngineVars, settings
  <1>1. TypeOK'
    BY <1>0 DEF Inv, TypeOK, JournalTypeOK, WorldTypeOK
  <1>2. LocalOK' /\ LedgerOK'
    BY <1>0 DEF Inv, LocalOK, Sound, Undoable, IsActive, LedgerOK, Done, Happened, Pages,
                Entries, ToolOfEntry, KeyOf
  <1>3. CallsBacked'
    <2>1. \A l : Backed(l) => Backed(l)'
      BY <1>0 DEF Backed, Latest, Earliest, Announced, Happened, Entries, Done, Rows, KeyOf
    <2> QED BY <1>0, <2>1 DEF Inv, CallsBacked, Announced, Rows, KeyOf
  <1>4. CompensateOnlyDead' /\ IntentBeforeEffect' /\ JournalTruthful'
    BY <1>0 DEF Inv, CompensateOnlyDead, IntentBeforeEffect, JournalTruthful, IsActive,
                Announced, Happened, Entries, Done, Rows, KeyOf
  <1> QED BY <1>0, <1>1, <1>2, <1>3, <1>4 DEF Inv

\* What joins is well typed, and nothing else moves.
LEMMA JoinsOK ==
    ASSUME Inv, AtWorkOK, NEW o \in Orchestrators, NEW op \in {"execute", "compensate"},
           NEW req \in Request, _fence(ToolOf(req.key), orch[o].epoch), Joins(o, op, req),
           \A t \in Threads :
               LET w == [thread |-> t, by |-> o, op |-> op, req |-> req,
                         epoch |-> orch[o].epoch] IN Promised(w) /\ Awaited(w)
    PROVE  Inv' /\ AtWorkOK'
  <1>0. orch[o].epoch \in Nat /\ WorldTypeOK /\ JournalTypeOK
    BY DEF Inv, TypeOK, Local
  <1>1. Inv' /\ Grows /\ orch' = orch
    BY <1>0, FenceType, FenceOnly DEF Joins
  <1>2. PICK t \in Threads : atWork' = atWork \cup
           {[thread |-> t, by |-> o, op |-> op, req |-> req, epoch |-> orch[o].epoch]}
    BY DEF Joins
  <1> DEFINE w == [thread |-> t, by |-> o, op |-> op, req |-> req, epoch |-> orch[o].epoch]
  <1>3. w \in Work /\ w.by = o /\ Promised(w) /\ Awaited(w)
    BY <1>0 DEF Work
  <1> HIDE DEF w
  <1>4. \A v \in atWork' : v \in Work /\ Promised(v) /\ Awaited(v)
    BY <1>2, <1>3 DEF AtWorkOK, w
  <1>5. \A v \in atWork' : Promised(v)' /\ Awaited(v)'
    BY <1>0, <1>1, <1>4, PromiseKept, WaitKept
  <1>6. \A u, v \in atWork' : (u.by = v.by /\ u.by # NoOwner) => u = v
    BY <1>2, <1>3 DEF AtWorkOK, Joins, Waiting, w
  <1> QED BY <1>1, <1>4, <1>5, <1>6 DEF AtWorkOK

LEMMA LetInOK ==
    ASSUME Inv, AtWorkOK, NEW o \in Orchestrators, LetIn(o) \/ LetInUndo(o)
    PROVE  Inv' /\ AtWorkOK'
  <1>0. Sound(orch[o]) /\ Backed(orch[o]) /\ TypeOK /\ orch[o] \in Local
    BY DEF Inv, TypeOK, LocalOK, CallsBacked
  <1>1. CASE LetIn(o)
    <2> DEFINE k == effect_key(orch[o].br, orch[o].seq)
    <2>1. At(o, "call") /\ orch[o].seq \in Steps
      BY <1>0, <1>1 DEF LetIn, At, Sound, Working
    <2>2. Call(o) \in Request /\ Call(o).key = k /\ Announced("INTENT", k)
      BY <1>0, <2>1, CallType DEF effect_key, Backed, At
    <2>3. ASSUME NEW t \in Threads
          PROVE  LET w == [thread |-> t, by |-> o, op |-> "execute", req |-> Call(o),
                           epoch |-> orch[o].epoch] IN Promised(w) /\ Awaited(w)
      BY <2>1, <2>2 DEF Promised, Awaited
    <2> QED BY <1>1, <2>2, <2>3, JoinsOK DEF LetIn, let_in
  <1>2. CASE LetInUndo(o)
    <2>1. PICK r \in DOMAIN journal :
             /\ NextUndo(o, r)
             /\ _fence(ToolOf(KeyOf(r)), orch[o].epoch)
             /\ Joins(o, "compensate", UndoRequest(r))
      BY <1>2 DEF LetInUndo
    <2>2. At(o, "undo") /\ r \in orch[o].todo /\ Latest(orch[o], r)
      BY <1>2, <2>1 DEF LetInUndo, NextUndo, Latest
    <2>3. Undoable(r) /\ Announced("COMP_INTENT", KeyOf(r)) /\ journal[r] \in Record
      BY <1>0, <2>2 DEF Sound, Backed, At, TypeOK, JournalTypeOK
    <2>4. DeadKey(KeyOf(r)) /\ KeyOf(r) \in Key
      BY <2>3 DEF Undoable, DeadKey, KeyOf, effect_key, Key, Record
    <2>5. UndoRequest(r) \in Request /\ UndoRequest(r).key = KeyOf(r)
      BY <2>3, <2>4 DEF UndoRequest, Request, Record
    <2>6. ASSUME NEW t \in Threads
          PROVE  LET w == [thread |-> t, by |-> o, op |-> "compensate", req |-> UndoRequest(r),
                           epoch |-> orch[o].epoch] IN Promised(w) /\ Awaited(w)
      BY <2>1, <2>2, <2>3, <2>4, <2>5 DEF Promised, Awaited
    <2> QED BY <2>1, <2>5, <2>6, JoinsOK
  <1> QED BY <1>1, <1>2

------------------------------------------------------------------------------
(* The second moment                                                       *)

\* What a request at work does to the world, with the result it leads to.
Does(w, res) ==
    LET k == w.req.key IN
    /\ WorldTypeOK'
    /\ w.op = "execute" => /\ WorldStep({k}, {})
                           /\ BagToSet(late') \subseteq BagToSet(late) \cup {w.req}
                           /\ res = "ok" => k \in applied'
    /\ w.op = "compensate" => /\ WorldStep({}, {k})
                              /\ UNCHANGED late
                              /\ res = "ok" => Happened("compensation", k)'

LEMMA PerformsDoes ==
    ASSUME Inv, AtWorkOK, NEW w \in atWork, NEW res, Performs(w, res), UNCHANGED faults
    PROVE  Does(w, res)
  <1> DEFINE k == w.req.key
  <1>1. w \in Work /\ w.req \in Request /\ w.epoch \in Nat
    BY WorkType DEF AtWorkOK
  <1>2. WorldTypeOK /\ epochSeen' \in [Fences -> Nat]
    BY DEF Inv, TypeOK, WorldTypeOK, Performs
  <1>3. CASE w.op = "execute" /\ take_effect(w.req, w.epoch, res)
    BY <1>1, <1>2, <1>3, TakeEffectType, TakeEffectStep DEF Does, WorldStep
  <1>4. CASE w.op = "compensate" /\ undo_effect(w.req, w.epoch, res)
    <2>1. WorldTypeOK' /\ ((Still /\ res # "ok") \/ Compensation(k)) /\ UNCHANGED late
      BY <1>1, <1>2, <1>4, UndoEffectType, UndoEffectStep
    <2>2. ASSUME Compensation(k) PROVE Happened("compensation", k)'
      <3>1. PICK e \in Entry : /\ e.kind = "compensation" /\ e.key = k
                               /\ ledger' = Append(ledger, e)
        BY <2>2 DEF Compensation
      <3>2. Len(ledger) + 1 \in DOMAIN ledger' /\ ledger'[Len(ledger) + 1] = e
        BY <1>2, <3>1 DEF WorldTypeOK
      <3> QED BY <3>1, <3>2 DEF Happened, Entries
    <2>3. WorldStep({}, {k})
      BY <2>1 DEF WorldStep
    <2> QED BY <1>4, <2>1, <2>2, <2>3 DEF Does
  <1>5. CASE Found(w, res)
    BY <1>2, <1>5 DEF Found, Does, WorldStep, Still, WorldTypeOK
  <1> QED BY <1>3, <1>4, <1>5 DEF Performs

\* What was let in was announced, and so is what lands of it.
LEMMA DoesSafely ==
    ASSUME Inv, AtWorkOK, NEW w \in atWork, NEW res, Does(w, res), CallsWorld
    PROVE  /\ Grows /\ UNCHANGED journal
           /\ \E A, U : /\ WorldStep(A, U)
                        /\ \A k \in A : Announced("INTENT", k)
                        /\ \A k \in U : Announced("COMP_INTENT", k) /\ DeadKey(k)
           /\ \A req \in BagToSet(late') : Announced("INTENT", req.key)
           /\ LedgerOK'
  <1> DEFINE k == w.req.key
  <1>1. Grows /\ UNCHANGED journal
    BY DEF CallsWorld, journalVars, Grows
  <1>2. Promised(w) /\ w.op \in {"execute", "compensate"}
    BY WorkType DEF AtWorkOK
  <1>3. \A req \in BagToSet(late) : Announced("INTENT", req.key)
    BY DEF Inv, CallsBacked
  <1>4. CASE w.op = "execute"
    <2>1. Announced("INTENT", k) /\ WorldStep({k}, {})
      BY <1>2, <1>4 DEF Promised, Does
    <2>2. \A req \in BagToSet(late') : Announced("INTENT", req.key)
      BY <1>3, <1>4, <2>1 DEF Does
    <2>3. LedgerOK'
      BY <1>1, <2>1, WorldKeeps DEF Inv, WorldInv
    <2> QED BY <1>1, <2>1, <2>2, <2>3
  <1>5. CASE w.op = "compensate"
    <2>1. Announced("COMP_INTENT", k) /\ DeadKey(k) /\ WorldStep({}, {k}) /\ late' = late
      BY <1>2, <1>5 DEF Promised, Does
    <2>2. LedgerOK'
      BY <1>1, <2>1, WorldKeeps DEF Inv, WorldInv
    <2> QED BY <1>1, <1>3, <2>1, <2>2
  <1> QED BY <1>2, <1>4, <1>5

\* The caller goes on with a result that is no claim the world does not back.
LEMMA HearsSafe ==
    ASSUME Inv, AtWorkOK, NEW w \in atWork, w.by \in Orchestrators,
           NEW res \in ResultStatus, Does(w, res), Hears(w.by, w.op, res), CallsWorld
    PROVE  Inv'
  <1> DEFINE o == w.by
             k == w.req.key
             pc == IF w.op = "execute" THEN "called" ELSE "undone"
  <1>1. /\ TypeOK /\ LocalOK /\ orch[o] \in Local /\ Sound(orch[o]) /\ Backed(orch[o])
        /\ Promised(w) /\ Awaited(w) /\ w.op \in {"execute", "compensate"}
    BY WorkType DEF Inv, TypeOK, LocalOK, CallsBacked, AtWorkOK
  <1>2. PICK l \in Local : l = [orch[o] EXCEPT !.pc = pc, !.res = res]
    BY <1>1 DEF Local, PC
  <1>3. orch' = [orch EXCEPT ![o] = l]
    BY <1>2 DEF Hears
  <1>4. /\ l.pc = pc /\ l.res = res /\ l.br = orch[o].br /\ l.seq = orch[o].seq
        /\ l.todo = orch[o].todo /\ l.redo = orch[o].redo /\ l.grads = orch[o].grads
    BY <1>1, <1>2 DEF Local
  <1>5. Sound(l)
    <2>1. orch[o].pc \in {"call", "undo"}
      BY <1>1 DEF Awaited, At
    <2> QED BY <1>1, <1>4, <2>1 DEF Sound, Working, Branchless
  <1>6. TypeOK' /\ LocalOK'
    BY <1>1, <1>3, <1>5, Calls DEF Does
  <1>7. /\ Grows /\ UNCHANGED journal /\ LedgerOK'
        /\ \A req \in BagToSet(late') : Announced("INTENT", req.key)
    BY DoesSafely
  <1>8. PICK A, U : /\ WorldStep(A, U)
                    /\ \A x \in A : Announced("INTENT", x)
                    /\ \A x \in U : Announced("COMP_INTENT", x) /\ DeadKey(x)
    BY DoesSafely
  <1>9. orch'[o] = l /\ \A p \in Orchestrators \ {o} : orch'[p] = orch[p]
    BY <1>1, <1>3 DEF TypeOK
  <1>10. \A r \in l.redo : Announced("INTENT", KeyOf(r))'
    BY <1>4, <1>7, RedoKept
  <1>11. Backed(orch[o])'
    <2>1. CASE w.op = "execute"
      <3>1. k = effect_key(l.br, l.seq) /\ l.pc = "called"
        BY <1>1, <1>4, <2>1 DEF Awaited
      <3>2. \E r \in Rows("INTENT")' : KeyOf(r)' = k
        BY <1>1, <1>7, <2>1 DEF Promised, Announced, Rows, KeyOf
      <3>3. res = "ok" => ToolOf(k) \in Pure \/ \E i \in Entries("effect")' : ledger'[i].key = k
        BY <1>7, <2>1 DEF Does, LedgerOK, Done, Happened
      <3> QED BY <1>4, <1>9, <1>10, <3>1, <3>2, <3>3 DEF Backed, Done, Happened, Announced
    <2>2. CASE w.op = "compensate"
      <3>1. PICK r \in DOMAIN journal : NextUndo(o, r) /\ k = KeyOf(r)
        BY <1>1, <2>2 DEF Awaited
      <3>2. \A q \in l.todo : Latest(l, q) => q = r
        <4>1. l.todo \subseteq Nat /\ r \in l.todo /\ \A q \in l.todo : q <= r
          BY <1>4, <3>1 DEF Local, NextUndo
        <4> QED BY <4>1 DEF Latest
      <3>3. res = "ok" => Happened("compensation", KeyOf(r))'
        BY <1>7, <2>2, <3>1 DEF Does, Happened, KeyOf
      <3>4. l.pc = "undone"
        BY <1>4, <2>2
      <3>5. \A q \in l.todo : Latest(l, q)' <=> Latest(l, q)
        BY DEF Latest
      <3> QED BY <1>4, <1>9, <1>10, <3>2, <3>3, <3>4, <3>5 DEF Backed, Latest
    <2> QED BY <1>1, <2>1, <2>2
  <1> QED BY <1>1, <1>6, <1>7, <1>8, <1>9, <1>11, SafeMoves

LEMMA AnsweredOK ==
    ASSUME Inv, AtWorkOK, NEW w \in atWork, Answered(w)
    PROVE  Inv' /\ AtWorkOK'
  <1>1. PICK res \in ResultStatus : Performs(w, res) /\ Hears(w.by, w.op, res)
    BY DEF Answered
  <1>2. w.by \in Orchestrators /\ CallsWorld /\ UNCHANGED faults
    BY DEF Answered, CallsWorld, EngineVars, settings
  <1>3. Inv'
    BY <1>1, <1>2, PerformsDoes, HearsSafe
  <1>4. atWork' = atWork \ {w} /\ \A p \in Orchestrators \ {w.by} : orch'[p] = orch[p]
    BY <1>1 DEF Performs, Hears, Inv, TypeOK
  <1>5. \A v \in atWork' : v.by \in Orchestrators => orch'[v.by] = orch[v.by]
    BY <1>2, <1>4, EngineAssumption DEF AtWorkOK
  <1>6. Grows /\ JournalTypeOK
    BY <1>2 DEF CallsWorld, Grows, journalVars, Inv, TypeOK
  <1> QED BY <1>3, <1>4, <1>5, <1>6, WorkKept

LEMMA StrayOK ==
    ASSUME Inv, AtWorkOK, NEW w \in atWork, Stray(w)
    PROVE  Inv' /\ AtWorkOK'
  <1>1. PICK res \in ResultStatus : Performs(w, res)
    BY DEF Stray
  <1>2. CallsWorld /\ UNCHANGED orch /\ UNCHANGED faults
    BY DEF Stray, CallsWorld, EngineVars, settings
  <1>3. Does(w, res)
    BY <1>1, <1>2, PerformsDoes
  <1>4. /\ Grows /\ UNCHANGED journal
        /\ \A req \in BagToSet(late') : Announced("INTENT", req.key)
    BY <1>2, <1>3, DoesSafely
  <1>5. PICK A, U : /\ WorldStep(A, U)
                    /\ \A x \in A : Announced("INTENT", x)
                    /\ \A x \in U : Announced("COMP_INTENT", x) /\ DeadKey(x)
    BY <1>2, <1>3, DoesSafely
  <1>6. TypeOK' /\ LocalOK'
    <2>1. TypeOK'
      BY <1>2, <1>3
         DEF Does, CallsWorld, journalVars, EngineVars, settings, Inv, TypeOK, JournalTypeOK
    <2>2. LocalOK'
      BY <1>2, <1>4, SoundKept DEF Inv, TypeOK, LocalOK
    <2> QED BY <2>1, <2>2
  <1>7. WorldInv' /\ JournalTruthful'
    BY <1>4, <1>5, WorldKeeps, JournalKeeps DEF Inv, WorldInv
  <1>8. CallsBacked'
    <2>1. ASSUME NEW p \in Orchestrators PROVE Backed(orch[p])'
      <3>1. PICK l : l = orch[p] /\ l = orch'[p]
        BY <1>2
      <3>2. Sound(l) /\ Backed(l)
        BY <3>1 DEF Inv, LocalOK, CallsBacked
      <3>3. Backed(l)'
        BY <1>4, <1>5, <3>2, StaysBacked DEF Inv
      <3> QED BY <3>1, <3>3 DEF Backed, Latest, Earliest
    <2>2. \A req \in BagToSet(late') : Announced("INTENT", req.key)'
      BY <1>4, StaysAnnounced DEF Inv, TypeOK
    <2>3. \A r \in Rows("RESULT")' : Announced("INTENT", KeyOf(r))'
      BY <1>4 DEF Inv, CallsBacked, Announced, Rows, KeyOf
    <2> QED BY <2>1, <2>2, <2>3 DEF CallsBacked
  <1>9. AtWorkOK'
    BY <1>1, <1>2, <1>4, WorkKept DEF Performs, Inv, TypeOK
  <1> QED BY <1>6, <1>7, <1>8, <1>9 DEF Inv, WorldInv

LEMMA LeaveOK ==
    ASSUME Inv, AtWorkOK, NEW w \in atWork, Leave(w)
    PROVE  Inv' /\ AtWorkOK'
  <1>1. /\ w.by \in Orchestrators /\ CallsWorld /\ UNCHANGED worldVars /\ UNCHANGED faults
        /\ Hears(w.by, w.op, "unknown") /\ atWork' = Orphaned(w.by)
    BY DEF Leave, CallsWorld, EngineVars, settings
  <1>2. Does(w, "unknown")
    BY <1>1 DEF Does, worldVars, WorldStep, Still, Inv, TypeOK, WorldTypeOK
  <1>3. Inv'
    BY <1>1, <1>2, HearsSafe DEF ResultStatus
  <1>4. \A p \in Orchestrators \ {w.by} : orch'[p] = orch[p]
    BY <1>1 DEF Hears, Inv, TypeOK
  <1> QED BY <1>1, <1>3, <1>4, OrphansKept DEF CallsWorld, Inv, TypeOK

LEMMA KilledOK ==
    ASSUME Inv, AtWorkOK, NEW o \in Orchestrators, Killed(o)
    PROVE  Inv' /\ AtWorkOK'
  <1>1. Crash(o) /\ atWork' = Orphaned(o)
    BY DEF Killed
  <1>2. Inv'
    BY <1>1, InvNext DEF Next
  <1>3. UNCHANGED journalVars /\ \A p \in Orchestrators \ {o} : orch'[p] = orch[p]
    BY <1>1 DEF Crash, Inv, TypeOK
  <1> QED BY <1>1, <1>2, <1>3, OrphansKept DEF Inv, TypeOK

------------------------------------------------------------------------------
(* Every step                                                              *)

\* A process that waits for nothing makes a step of Orchestrator.
LEMMA DeliverOK ==
    ASSUME Inv, AtWorkOK, UNCHANGED atWork,
           \/ \E o \in Orchestrators : ~ Waiting(o) /\ Deliver(o)
           \/ Lapse \/ Redeliver \/ Land
    PROVE  [Next]_vars /\ Inv' /\ AtWorkOK'
  <1>1. [Next]_vars
    BY DEF Next, Run, Deliver
  <1>2. Inv' /\ Grows
    BY <1>1, InvNext, TypesNext DEF Inv
  <1>3. \A w \in atWork : w.by \in Orchestrators => orch'[w.by] = orch[w.by]
    <2>1. CASE Lapse \/ Redeliver \/ Land
      BY <2>1 DEF Lapse, Redeliver, Land
    <2>2. ASSUME NEW o \in Orchestrators, ~ Waiting(o), Deliver(o)
          PROVE  \A w \in atWork : w.by \in Orchestrators => orch'[w.by] = orch[w.by]
      <3>1. \A p \in Orchestrators \ {o} : orch'[p] = orch[p]
        <4>1. CASE Start(o)
          BY <4>1 DEF Start, Inv, TypeOK
        <4>2. CASE ~ Start(o)
          BY <2>2, <4>2, RunMoves DEF Run, Deliver, Moved, Inv
        <4> QED BY <4>1, <4>2
      <3> QED BY <2>2, <3>1 DEF Waiting
    <2> QED BY <2>1, <2>2
  <1> QED BY <1>1, <1>2, <1>3, WorkKept DEF Inv, TypeOK

LEMMA OverlapStep ==
    ASSUME Inv, AtWorkOK, [OverlapNext]_overlapVars
    PROVE  Inv' /\ AtWorkOK'
  <1>1. CASE UNCHANGED overlapVars
    <2>1. Inv' /\ Grows /\ UNCHANGED << atWork, orch >>
      BY <1>1, InvNext, TypesNext DEF overlapVars, vars, Inv
    <2> QED BY <2>1, WorkKept DEF Inv, TypeOK
  <1> QED BY <1>1, LetInOK, KilledOK, AnsweredOK, StrayOK, LeaveOK, DeliverOK DEF OverlapNext

------------------------------------------------------------------------------
(* The fences, when leaders overlap.  A request let in is behind its fence *)
(* no more: what bounds it is that its leader waits for one at a time.     *)

Door(w) == FenceOf[ToolOf(w.req.key)]

\* No process that leads has the epoch of this request.
Forsaken(w) == \A p \in Orchestrators : Leading(p) => orch[p].epoch # w.epoch

\* Nothing of this request's leader was overtaken behind its fence so far.
Foremost(w) ==
    \A j \in DOMAIN ledger :
        Overtaken(j) => \/ ledger[j].epoch # w.epoch
                        \/ FenceOf[ToolOfEntry(j)] # Door(w)

DoorsOK ==
    /\ FenceBound
    /\ \A w \in atWork : w.epoch <= epochSeen[Door(w)] /\ w.epoch <= lease.epoch
    /\ \A v, w \in atWork : v.epoch = w.epoch => v = w \/ w.epoch \in impatient
    /\ \A w \in atWork : w.epoch \in impatient
                             \/ (Foremost(w) /\ (w.by = NoOwner => Forsaken(w)))
    /\ DeposedOnce

\* Who leads after a step led before it under the same epoch, or was granted one
\* beyond the lease's.
LeadsOn ==
    /\ lease'.epoch >= lease.epoch
    /\ \A p \in Orchestrators :
          Leading(p)' => \/ Leading(p) /\ orch'[p].epoch = orch[p].epoch
                         \/ orch'[p].epoch > lease.epoch

LEMMA CallerLeads ==
    ASSUME NEW w \in Work, Awaited(w), w.by \in Orchestrators
    PROVE  Leading(w.by) /\ w.epoch = orch[w.by].epoch
  BY WorkType DEF Awaited, At, Leading

LEMMA MovedLeadsOn ==
    ASSUME TypeOK, EpochsDistinct, NEW o \in Orchestrators, Moved(o)
    PROVE  LeadsOn /\ EpochsDistinct'
  <1>1. lease'.epoch >= lease.epoch
    BY DEF Moved, TypeOK
  <1>2. \A p \in Orchestrators : Leading(p)' => Leading(p) /\ orch'[p].epoch = orch[p].epoch
    BY DEF Moved, Leading
  <1> QED BY <1>1, <1>2 DEF LeadsOn, EpochsDistinct, Moved

LEMMA SameLeadsOn ==
    ASSUME TypeOK, EpochsDistinct, UNCHANGED << orch, lease >>
    PROVE  LeadsOn /\ EpochsDistinct'
  BY DEF TypeOK, LeadsOn, EpochsDistinct, Leading

LEMMA StartLeadsOn ==
    ASSUME TypeOK, NEW o \in Orchestrators, Start(o)
    PROVE  LeadsOn
  <1>1. lease'.epoch = lease.epoch + 1 /\ lease.epoch \in Nat
    BY DEF Start, TypeOK
  <1>2. orch'[o].epoch = lease.epoch + 1 /\ \A p \in Orchestrators \ {o} : orch'[p] = orch[p]
    BY DEF Start, TypeOK, Idle
  <1> QED BY <1>1, <1>2 DEF LeadsOn, Leading

\* Every step hands the lease on as a leadership does, and keeps the epochs apart.
LEMMA OverlapLeads ==
    ASSUME TypeOK, EpochsDistinct, AtWorkOK, [OverlapNext]_overlapVars
    PROVE  LeadsOn /\ EpochsDistinct' /\ [Leads!Next]_lease
  <1>1. CASE [Next]_vars
    <2>1. EpochsDistinct' /\ [Leads!Next]_lease
      BY <1>1, EpochsNext, LeaseStep
    <2>2. ASSUME NEW o \in Orchestrators, Run(o) PROVE LeadsOn
      BY <2>2, StartLeadsOn, RunMoves, MovedLeadsOn
    <2>3. ASSUME NEW o \in Orchestrators, Crash(o) PROVE LeadsOn
      BY <2>3, Jumps, MovedLeadsOn DEF Crash, Idle
    <2>4. ASSUME Lapse \/ Redeliver \/ Land \/ UNCHANGED vars PROVE LeadsOn
      <3>1. UNCHANGED orch /\ lease'.epoch = lease.epoch
        BY <2>4 DEF Lapse, Redeliver, Land, EngineVars, vars, TypeOK
      <3>2. lease'.epoch >= lease.epoch
        BY <3>1 DEF TypeOK
      <3>3. \A p \in Orchestrators : Leading(p)' => Leading(p) /\ orch'[p].epoch = orch[p].epoch
        BY <3>1 DEF Leading
      <3> QED BY <3>2, <3>3 DEF LeadsOn
    <2> QED BY <1>1, <2>1, <2>2, <2>3, <2>4 DEF Next
  <1>2. ASSUME NEW o \in Orchestrators, LetIn(o) \/ LetInUndo(o)
        PROVE  LeadsOn /\ EpochsDistinct' /\ UNCHANGED lease
    BY <1>2, SameLeadsOn DEF LetIn, LetInUndo, Joins, EngineVars
  <1>3. ASSUME NEW w \in atWork, Stray(w) PROVE LeadsOn /\ EpochsDistinct' /\ UNCHANGED lease
    BY <1>3, SameLeadsOn DEF Stray, CallsWorld, EngineVars
  <1>4. ASSUME NEW w \in atWork, Answered(w) \/ Leave(w)
        PROVE  LeadsOn /\ EpochsDistinct' /\ UNCHANGED lease
    <2>1. PICK res \in ResultStatus : Hears(w.by, w.op, res)
      BY <1>4 DEF Answered, Leave, ResultStatus
    <2>2. w.by \in Orchestrators /\ UNCHANGED lease
      BY <1>4 DEF Answered, Leave, CallsWorld, EngineVars
    <2>3. Leading(w.by)
      BY <2>2, CallerLeads DEF AtWorkOK
    <2>4. orch[w.by] \in Local
      BY <2>2 DEF TypeOK
    <2>5. PICK l : /\ l = [orch[w.by] EXCEPT !.pc = IF w.op = "execute" THEN "called" ELSE "undone",
                                             !.res = res]
                   /\ orch' = [orch EXCEPT ![w.by] = l]
      BY <2>1 DEF Hears
    <2>6. l.epoch = orch[w.by].epoch
      BY <2>4, <2>5 DEF Local
    <2>7. Moved(w.by)
      BY <2>2, <2>3, <2>5, <2>6, Jumps
    <2> QED BY <2>2, <2>7, MovedLeadsOn
  <1>5. ASSUME NEW o \in Orchestrators, Killed(o) PROVE [Next]_vars
    BY <1>5 DEF Killed, Next
  <1>6. CASE \/ \E o \in Orchestrators : ~ Waiting(o) /\ Deliver(o)
             \/ Lapse \/ Redeliver \/ Land
    BY <1>1, <1>6 DEF Next, Run, Deliver
  <1>7. CASE UNCHANGED overlapVars
    BY <1>1, <1>7 DEF overlapVars, vars
  <1> QED BY <1>1, <1>2, <1>3, <1>4, <1>5, <1>6, <1>7 DEF OverlapNext

\* What an entry at the end of the ledger changes about those before it: nothing.
LEMMA Entered ==
    ASSUME WorldTypeOK, NEW e \in Entry, ledger' = Append(ledger, e),
           NEW n, n = Len(ledger) + 1
    PROVE  /\ DOMAIN ledger' = DOMAIN ledger \cup {n} /\ ledger'[n] = e /\ n \notin DOMAIN ledger
           /\ ToolOfEntry(n)' = ToolOf(e.key)
           /\ \A j \in DOMAIN ledger : /\ ledger'[j] = ledger[j]
                                       /\ ToolOfEntry(j)' = ToolOfEntry(j)
                                       /\ Overtaken(j)' <=> Overtaken(j)
           /\ Overtaken(n)' => \E i \in DOMAIN ledger :
                                  /\ ledger[i].epoch > e.epoch /\ e.epoch # 0
                                  /\ FenceOf[ToolOfEntry(i)] = FenceOf[ToolOf(e.key)]
  <1>1. /\ DOMAIN ledger' = DOMAIN ledger \cup {n} /\ ledger'[n] = e /\ n \notin DOMAIN ledger
        /\ n \in Nat
        /\ \A j \in DOMAIN ledger : j \in Nat /\ j < n /\ ledger'[j] = ledger[j]
    BY DEF WorldTypeOK
  <1>2. /\ ToolOfEntry(n)' = ToolOf(e.key)
        /\ \A j \in DOMAIN ledger : ToolOfEntry(j)' = ToolOfEntry(j)
    BY <1>1 DEF ToolOfEntry
  <1>3. \A j \in DOMAIN ledger : Overtaken(j)' <=> Overtaken(j)
    BY <1>1, <1>2 DEF Overtaken
  <1>4. Overtaken(n)' => \E i \in DOMAIN ledger :
                            /\ ledger[i].epoch > e.epoch /\ e.epoch # 0
                            /\ FenceOf[ToolOfEntry(i)] = FenceOf[ToolOf(e.key)]
    BY <1>1, <1>2 DEF Overtaken
  <1> QED BY <1>1, <1>2, <1>3, <1>4

LEMMA LedgerTypes ==
    ASSUME WorldTypeOK
    PROVE  /\ \A i \in DOMAIN ledger : /\ ledger[i].epoch \in Nat
                                       /\ FenceOf[ToolOfEntry(i)] \in Fences
           /\ \A f \in Fences : epochSeen[f] \in Nat
  <1>1. \A e \in Entry : e.epoch \in Nat /\ e.key \in Key
    BY DEF Entry
  <1> QED BY <1>1, ToolHasFence DEF WorldTypeOK, ToolOfEntry

\* A step that neither lets in nor finishes a request: what it enters passed the
\* fence at once, so it is not overtaken.
LEMMA DoorsServed ==
    ASSUME Inv, TypeOK', AtWorkOK, DoorsOK, LeadsOn, Served, UNCHANGED << atWork, impatient >>
    PROVE  DoorsOK'
  <1>0. WorldTypeOK /\ WorldTypeOK' /\ lease.epoch \in Nat /\ lease'.epoch \in Nat
    BY DEF Inv, TypeOK
  <1>1. FenceBound'
    BY <1>0, BoundNext DEF DoorsOK
  <1>2. \A w \in atWork : w.epoch \in Nat /\ w.req.key \in Key /\ Door(w) \in Fences
    BY WorkType, ToolHasFence DEF AtWorkOK, Door
  <1>3. \A w \in atWork : w.epoch <= epochSeen'[Door(w)] /\ w.epoch <= lease'.epoch
    <2>1. \A f \in Fences : epochSeen'[f] >= epochSeen[f] /\ epochSeen[f] \in Nat /\ epochSeen'[f] \in Nat
      BY <1>0 DEF Served, WorldTypeOK
    <2> QED BY <1>0, <1>2, <2>1 DEF DoorsOK, LeadsOn
  <1>4. \A w \in atWork : (w.epoch \notin impatient /\ w.by = NoOwner) => Forsaken(w)'
    <2>1. \A p \in Orchestrators : orch'[p].epoch \in Nat
      BY DEF TypeOK, Local
    <2> QED BY <1>0, <1>2, <2>1 DEF DoorsOK, Forsaken, LeadsOn, Leading
  <1>5. CASE ledger' = ledger
    <2>1. DeposedOnce' /\ \A w \in atWork : Foremost(w) => Foremost(w)'
      BY <1>5 DEF DoorsOK, DeposedOnce, Foremost, Overtaken, ToolOfEntry, Door
    <2> QED BY <1>1, <1>3, <1>4, <2>1 DEF DoorsOK, Door
  <1>6. ASSUME NEW e \in Entry, ledger' = Append(ledger, e),
               e.epoch = 0 \/ e.epoch = epochSeen'[FenceOf[ToolOf(e.key)]]
        PROVE  DoorsOK'
    <2>0. PICK n : n = Len(ledger) + 1
      OBVIOUS
    <2>1. ~ Overtaken(n)'
      <3>1. FenceOf[ToolOf(e.key)] \in Fences /\ e.epoch \in Nat
        BY ToolHasFence DEF Entry
      <3>2. \A i \in DOMAIN ledger : FenceOf[ToolOfEntry(i)] = FenceOf[ToolOf(e.key)] =>
               ledger[i].epoch <= epochSeen'[FenceOf[ToolOf(e.key)]]
        BY <1>0, <3>1, LedgerTypes DEF DoorsOK, FenceBound, Served, WorldTypeOK
      <3> QED BY <1>0, <1>6, <2>0, <3>1, <3>2, Entered, LedgerTypes DEF WorldTypeOK
    <2>2. \A j \in DOMAIN ledger' : Overtaken(j)' =>
             j \in DOMAIN ledger /\ Overtaken(j) /\ ledger'[j] = ledger[j]
             /\ ToolOfEntry(j)' = ToolOfEntry(j)
      BY <1>0, <1>6, <2>0, <2>1, Entered
    <2>3. DeposedOnce' /\ \A w \in atWork : Foremost(w) => Foremost(w)'
      BY <2>2 DEF DoorsOK, DeposedOnce, Foremost, Door
    <2> QED BY <1>1, <1>3, <1>4, <2>3 DEF DoorsOK, Door
  <1> QED BY <1>5, <1>6 DEF Served

\* A request that joins was let in under an epoch no entry of its fence exceeds.
LEMMA DoorsJoin ==
    ASSUME Inv, AtWorkOK, DoorsOK, EpochsDistinct, NEW o \in Orchestrators, Leading(o),
           NEW op \in {"execute", "compensate"}, NEW req \in Request,
           _fence(ToolOf(req.key), orch[o].epoch), Joins(o, op, req)
    PROVE  DoorsOK'
  <1> DEFINE e == orch[o].epoch
             f == FenceOf[ToolOf(req.key)]
  <1>0. /\ WorldTypeOK /\ e \in Nat /\ e <= lease.epoch /\ req.key \in Key
        /\ UNCHANGED << ledger, orch, lease, impatient >> /\ ~ Waiting(o)
    BY DEF Inv, TypeOK, Local, EpochsDistinct, Joins, EngineVars, Request
  <1>1. /\ \A g \in Fences : epochSeen'[g] >= epochSeen[g]
        /\ epochSeen'[f] = e /\ e >= epochSeen[f] /\ f \in Fences
    BY <1>0, ToolHasFence, FenceServes DEF _fence
  <1>2. /\ \A g \in Fences : epochSeen[g] \in Nat /\ epochSeen'[g] \in Nat
        /\ \A w \in atWork : w.epoch \in Nat /\ Door(w) \in Fences
    BY <1>0, WorkType, ToolHasFence, FenceType DEF WorldTypeOK, AtWorkOK, Door
  <1>3. PICK w : /\ atWork' = atWork \cup {w} /\ w.by = o /\ w.epoch = e /\ w.req = req
    <2>1. PICK t \in Threads : atWork' = atWork \cup
             {[thread |-> t, by |-> o, op |-> op, req |-> req, epoch |-> e]}
      BY DEF Joins
    <2>2. PICK w : w = [thread |-> t, by |-> o, op |-> op, req |-> req, epoch |-> e]
      OBVIOUS
    <2> QED BY <2>1, <2>2
  <1>4. FenceBound'
    BY <1>0, <1>1, <1>2, LedgerTypes DEF DoorsOK, FenceBound, ToolOfEntry
  <1>5. \A v \in atWork' : v.epoch <= epochSeen'[Door(v)] /\ v.epoch <= lease'.epoch
    BY <1>0, <1>1, <1>2, <1>3 DEF DoorsOK, Door
  <1>6. ASSUME NEW v \in atWork, v.epoch = e PROVE e \in impatient
    <2>1. v.by \in Orchestrators \cup {NoOwner} /\ v \in Work /\ Awaited(v)
      BY WorkType DEF AtWorkOK
    <2>2. CASE v.by \in Orchestrators
      BY <1>0, <1>6, <2>1, <2>2, CallerLeads DEF EpochsDistinct, Waiting
    <2>3. CASE v.by = NoOwner
      BY <1>6, <2>3 DEF DoorsOK, Forsaken
    <2> QED BY <2>1, <2>2, <2>3
  <1>7. Foremost(w)
    <2>1. \A i \in DOMAIN ledger : FenceOf[ToolOfEntry(i)] = f => ledger[i].epoch <= e
      BY <1>0, <1>1, <1>2, LedgerTypes DEF DoorsOK, FenceBound
    <2>2. Door(w) = f
      BY <1>3 DEF Door
    <2>3. ASSUME NEW j \in DOMAIN ledger, Overtaken(j), ledger[j].epoch = e,
                 FenceOf[ToolOfEntry(j)] = f
          PROVE  FALSE
      <3>1. PICK i \in DOMAIN ledger : /\ ledger[i].epoch > ledger[j].epoch
                                       /\ FenceOf[ToolOfEntry(i)] = FenceOf[ToolOfEntry(j)]
        BY <2>3 DEF Overtaken
      <3> QED BY <1>0, <2>1, <2>3, <3>1, LedgerTypes
    <2> QED BY <1>3, <2>2, <2>3 DEF Foremost
  <1>8. /\ DeposedOnce'
        /\ \A v : Foremost(v) => Foremost(v)'
        /\ \A v : Forsaken(v) => Forsaken(v)'
    BY <1>0 DEF DoorsOK, DeposedOnce, Foremost, Forsaken, Overtaken, ToolOfEntry, Door, Leading
  <1>9. \A v, u \in atWork' : v.epoch = u.epoch => v = u \/ u.epoch \in impatient'
    BY <1>0, <1>3, <1>6 DEF DoorsOK
  <1>10. \A v \in atWork' : v.epoch \in impatient'
                                \/ (Foremost(v)' /\ (v.by = NoOwner => Forsaken(v)'))
    BY <1>0, <1>3, <1>7, <1>8, EngineAssumption DEF DoorsOK
  <1> QED BY <1>4, <1>5, <1>8, <1>9, <1>10 DEF DoorsOK, Door

\* A request that ends enters at most one entry, under its own epoch; and it was
\* the last at work of that epoch, unless its leader had stopped waiting.
LEMMA DoorsPerform ==
    ASSUME Inv, TypeOK', AtWorkOK, DoorsOK, LeadsOn, NEW w \in atWork, NEW res,
           Performs(w, res), UNCHANGED impatient
    PROVE  DoorsOK'
  <1>0. /\ WorldTypeOK /\ lease.epoch \in Nat /\ lease'.epoch \in Nat
        /\ epochSeen' = epochSeen /\ atWork' = atWork \ {w} /\ w \in Work
    BY DEF Inv, TypeOK, Performs, AtWorkOK
  <1>1. \A v \in atWork : v.epoch \in Nat /\ Door(v) \in Fences
    BY WorkType, ToolHasFence DEF AtWorkOK, Door
  <1>2. \A v \in atWork' : v.epoch <= epochSeen'[Door(v)] /\ v.epoch <= lease'.epoch
    BY <1>0, <1>1 DEF DoorsOK, LeadsOn
  <1>3. \A v \in atWork : (v.epoch \notin impatient /\ v.by = NoOwner) => Forsaken(v)'
    <2>1. \A p \in Orchestrators : orch'[p].epoch \in Nat
      BY DEF TypeOK, Local
    <2> QED BY <1>0, <1>1, <2>1 DEF DoorsOK, Forsaken, LeadsOn, Leading
  <1>4. CASE ledger' = ledger
    <2>1. FenceBound' /\ DeposedOnce' /\ \A v \in atWork : Foremost(v) => Foremost(v)'
      BY <1>0, <1>4 DEF DoorsOK, FenceBound, DeposedOnce, Foremost, Overtaken, ToolOfEntry, Door
    <2> QED BY <1>0, <1>2, <1>3, <2>1 DEF DoorsOK, Door
  <1>5. ASSUME NEW e \in Entry, ledger' = Append(ledger, e),
               e.epoch = w.epoch, e.key = w.req.key
        PROVE  DoorsOK'
    <2>0. PICK n : n = Len(ledger) + 1
      OBVIOUS
    <2>1. /\ DOMAIN ledger' = DOMAIN ledger \cup {n} /\ ledger'[n] = e /\ n \notin DOMAIN ledger
          /\ FenceOf[ToolOfEntry(n)'] = Door(w)
          /\ \A j \in DOMAIN ledger : /\ ledger'[j] = ledger[j]
                                      /\ ToolOfEntry(j)' = ToolOfEntry(j)
                                      /\ Overtaken(j)' <=> Overtaken(j)
      BY <1>0, <1>5, <2>0, Entered DEF Door
    <2>2. FenceBound'
      <3>1. ledger'[n].epoch <= epochSeen'[FenceOf[ToolOfEntry(n)']]
        BY <1>0, <1>5, <2>1 DEF DoorsOK
      <3> QED BY <1>0, <2>1, <3>1 DEF DoorsOK, FenceBound
    <2>3. DeposedOnce'
      <3>1. ASSUME NEW j \in DOMAIN ledger, Overtaken(j), ledger[j].epoch = w.epoch,
                   w.epoch \notin impatient, FenceOf[ToolOfEntry(j)] = Door(w)
            PROVE  FALSE
        BY <3>1 DEF DoorsOK, Foremost
      <3>2. ASSUME NEW i \in DOMAIN ledger', NEW j \in DOMAIN ledger',
                   Overtaken(i)', Overtaken(j)', ledger'[i].epoch = ledger'[j].epoch,
                   ledger'[i].epoch \notin impatient',
                   FenceOf[ToolOfEntry(i)'] = FenceOf[ToolOfEntry(j)']
            PROVE  i = j
        <4>1. CASE i \in DOMAIN ledger /\ j \in DOMAIN ledger
          BY <2>1, <3>2, <4>1 DEF DoorsOK, DeposedOnce
        <4>2. CASE i \in DOMAIN ledger /\ j = n
          BY <1>5, <2>1, <3>1, <3>2, <4>2
        <4>3. CASE i = n /\ j \in DOMAIN ledger
          BY <1>5, <2>1, <3>1, <3>2, <4>3
        <4> QED BY <2>1, <4>1, <4>2, <4>3
      <3> QED BY <3>2 DEF DeposedOnce
    <2>4. ASSUME NEW v \in atWork', v.epoch \notin impatient PROVE Foremost(v)'
      <3>1. v \in atWork /\ v.epoch # w.epoch /\ Foremost(v)
        BY <1>0, <2>4 DEF DoorsOK
      <3> QED BY <1>5, <2>1, <3>1 DEF Foremost, Door
    <2> QED BY <1>0, <1>2, <1>3, <2>2, <2>3, <2>4 DEF DoorsOK, Door
  <1>6. \/ ledger' = ledger
        \/ \E e \in Entry : /\ ledger' = Append(ledger, e)
                            /\ e.epoch = w.epoch /\ e.key = w.req.key
    <2>1. ASSUME NEW kind \in {"effect", "compensation"}, record(kind, w.req, w.epoch)
          PROVE  \E e \in Entry : /\ ledger' = Append(ledger, e)
                                  /\ e.epoch = w.epoch /\ e.key = w.req.key
      <3>1. w.req \in Request /\ w.epoch \in Nat
        BY <1>0, WorkType
      <3>2. PICK e : /\ ledger' = Append(ledger, e)
                     /\ e = [kind |-> kind, key |-> w.req.key, sev |-> w.req.sev,
                             sup |-> w.req.sup, epoch |-> w.epoch]
        BY <2>1 DEF record
      <3> QED BY <3>1, <3>2 DEF Entry, Request
    <2> QED BY <2>1 DEF Performs, take_effect, undo_effect, Found
  <1> QED BY <1>4, <1>5, <1>6

\* The requests of a caller that is gone are forsaken; those of one that stopped
\* waiting are an impatient leader's.
LEMMA DoorsOrphan ==
    ASSUME Inv, TypeOK', AtWorkOK, DoorsOK, EpochsDistinct, LeadsOn, NEW o \in Orchestrators,
           UNCHANGED worldVars, atWork' = Orphaned(o), impatient \subseteq impatient',
           \A w \in atWork : w.by = o => w.epoch \in impatient' \/ Forsaken(w)'
    PROVE  DoorsOK'
  <1>0. /\ lease.epoch \in Nat /\ lease'.epoch \in Nat
        /\ UNCHANGED << ledger, epochSeen >>
    BY DEF Inv, TypeOK, worldVars
  <1>1. \A w \in atWork : w \in Work /\ w.epoch \in Nat
    BY WorkType DEF AtWorkOK
  <1>2. ASSUME NEW w \in atWork'
        PROVE  \E v \in atWork :
                  /\ w.epoch = v.epoch /\ Door(w) = Door(v)
                  /\ (v.by = o /\ w.by = NoOwner) \/ (v.by # o /\ w = v)
    <2>1. PICK v \in atWork : w = IF v.by = o THEN [v EXCEPT !.by = NoOwner] ELSE v
      BY <1>2 DEF Orphaned
    <2> QED BY <1>1, <2>1, WorkType DEF Door
  <1>3. FenceBound' /\ DeposedOnce'
    BY <1>0 DEF DoorsOK, FenceBound, DeposedOnce, Overtaken, ToolOfEntry
  <1>4. \A w \in atWork' : w.epoch <= epochSeen'[Door(w)] /\ w.epoch <= lease'.epoch
    BY <1>0, <1>1, <1>2 DEF DoorsOK, LeadsOn
  <1>5. ASSUME NEW x \in atWork', NEW y \in atWork', x.epoch = y.epoch
        PROVE  x = y \/ y.epoch \in impatient'
    <2>1. PICK v \in atWork : v = x \/ (v.by = o /\ x = [v EXCEPT !.by = NoOwner])
      BY DEF Orphaned
    <2>2. PICK u \in atWork : u = y \/ (u.by = o /\ y = [u EXCEPT !.by = NoOwner])
      BY DEF Orphaned
    <2>3. v.epoch = x.epoch /\ u.epoch = y.epoch
      BY <1>1, <2>1, <2>2, WorkType
    <2>4. v = u \/ y.epoch \in impatient'
      BY <1>5, <2>3 DEF DoorsOK
    <2>5. ASSUME v = u PROVE x = y
      <3>1. \A z \in atWork' : z.by # o
        BY <1>1, WorkType, EngineAssumption DEF Orphaned
      <3> QED BY <2>1, <2>2, <2>5, <3>1
    <2> QED BY <2>4, <2>5
  <1>6. ASSUME NEW w \in atWork', w.epoch \notin impatient'
        PROVE  Foremost(w)' /\ (w.by = NoOwner => Forsaken(w)')
    <2>1. PICK v \in atWork :
             /\ w.epoch = v.epoch /\ Door(w) = Door(v)
             /\ (v.by = o /\ w.by = NoOwner) \/ (v.by # o /\ w = v)
      BY <1>2
    <2>2. Foremost(v) /\ (v.by = NoOwner => Forsaken(v)) /\ v.epoch \notin impatient
      BY <1>6, <2>1 DEF DoorsOK
    <2>3. Foremost(w)'
      BY <1>0, <2>1, <2>2 DEF Foremost, Overtaken, ToolOfEntry, Door
    <2>4. Forsaken(v) => Forsaken(v)'
      <3>1. v.epoch <= lease.epoch /\ \A p \in Orchestrators : orch'[p].epoch \in Nat
        BY DEF DoorsOK, TypeOK, Local
      <3> QED BY <1>0, <1>1, <3>1 DEF Forsaken, LeadsOn
    <2>5. (Forsaken(v)' => Forsaken(w)') /\ (v.by = o => Forsaken(v)')
      BY <1>6, <2>1 DEF Forsaken
    <2> QED BY <2>1, <2>2, <2>3, <2>4, <2>5
  <1> QED BY <1>3, <1>4, <1>5, <1>6 DEF DoorsOK, Door

LEMMA DoorsStep ==
    ASSUME Inv, Inv', AtWorkOK, DoorsOK, EpochsDistinct, [OverlapNext]_overlapVars
    PROVE  DoorsOK'
  <1>0. /\ TypeOK /\ LocalOK /\ TypeOK' /\ LeadsOn /\ EpochsDistinct'
        /\ \A o \in Orchestrators : orch[o] \in Local /\ Sound(orch[o])
    BY OverlapLeads DEF Inv, TypeOK, LocalOK
  <1>1. ASSUME NEW o \in Orchestrators, LetIn(o) PROVE DoorsOK'
    <2>1. Leading(o) /\ orch[o].seq \in Steps
      BY <1>0, <1>1 DEF LetIn, At, Leading, Sound, Working
    <2> QED BY <1>0, <1>1, <2>1, CallType, DoorsJoin DEF LetIn, let_in
  <1>2. ASSUME NEW o \in Orchestrators, LetInUndo(o) PROVE DoorsOK'
    <2>1. PICK r \in DOMAIN journal :
             /\ NextUndo(o, r)
             /\ _fence(ToolOf(KeyOf(r)), orch[o].epoch)
             /\ Joins(o, "compensate", UndoRequest(r))
      BY <1>2 DEF LetInUndo
    <2>2. Undoable(r) /\ journal[r] \in Record
      BY <1>0, <2>1 DEF NextUndo, Sound, TypeOK, JournalTypeOK
    <2>3. UndoRequest(r) \in Request /\ UndoRequest(r).key = KeyOf(r)
      BY <2>2 DEF UndoRequest, Request, Record, Undoable, KeyOf, effect_key, Key
    <2>4. Leading(o)
      BY <1>2 DEF LetInUndo, At, Leading
    <2> QED BY <2>1, <2>3, <2>4, DoorsJoin
  <1>3. ASSUME NEW w \in atWork, Answered(w) \/ Stray(w) PROVE DoorsOK'
    <2>1. PICK res : Performs(w, res)
      BY <1>3 DEF Answered, Stray
    <2>2. UNCHANGED impatient
      BY <1>3 DEF Answered, Stray
    <2> QED BY <1>0, <2>1, <2>2, DoorsPerform
  <1>4. ASSUME NEW w \in atWork, Leave(w) PROVE DoorsOK'
    <2>1. \A v \in atWork : v.by = w.by => v.epoch \in impatient'
      BY <1>4, EngineAssumption DEF Leave, AtWorkOK
    <2> QED BY <1>0, <1>4, <2>1, DoorsOrphan DEF Leave
  <1>5. ASSUME NEW o \in Orchestrators, Killed(o) PROVE DoorsOK'
    <2>1. Crash(o) /\ atWork' = Orphaned(o) /\ UNCHANGED impatient
      BY <1>5 DEF Killed
    <2>2. /\ ~ Leading(o)' /\ \A p \in Orchestrators \ {o} : orch'[p] = orch[p]
          /\ UNCHANGED worldVars
      BY <1>0, <2>1 DEF Crash, Leading, Idle, TypeOK
    <2>3. ASSUME NEW w \in atWork, w.by = o PROVE Forsaken(w)'
      <3>1. Leading(o) /\ w.epoch = orch[o].epoch
        BY <2>3, CallerLeads DEF AtWorkOK
      <3>2. \A p \in Orchestrators \ {o} : Leading(p)' => orch'[p].epoch # w.epoch
        BY <2>2, <3>1 DEF EpochsDistinct, Leading
      <3> QED BY <2>2, <3>2 DEF Forsaken
    <2> QED BY <1>0, <2>1, <2>2, <2>3, DoorsOrphan
  <1>6. CASE /\ UNCHANGED << atWork, impatient >>
             /\ \/ \E o \in Orchestrators : ~ Waiting(o) /\ Deliver(o)
                \/ Lapse \/ Redeliver \/ Land \/ UNCHANGED vars
    <2>1. [Next]_vars
      BY <1>6 DEF Next, Run, Deliver
    <2> QED BY <1>0, <1>6, <2>1, NextServed, DoorsServed
  <1> QED BY <1>1, <1>2, <1>3, <1>4, <1>5, <1>6 DEF OverlapNext, overlapVars

OverlapInv == Inv /\ AtWorkOK /\ EpochsDistinct /\ DoorsOK

LEMMA OverlapInvInit == OverlapInit => OverlapInv
  <1> SUFFICES ASSUME OverlapInit PROVE OverlapInv
    OBVIOUS
  <1>1. Inv /\ EpochsDistinct
    BY InvInit, EpochsInit DEF OverlapInit
  <1>2. AtWorkOK
    BY DEF OverlapInit, AtWorkOK
  <1>3. DoorsOK
    BY DEF OverlapInit, Init, WorldInit, DoorsOK, FenceBound, DeposedOnce
  <1> QED BY <1>1, <1>2, <1>3 DEF OverlapInv

LEMMA OverlapInvNext == OverlapInv /\ [OverlapNext]_overlapVars => OverlapInv'
  BY OverlapStep, OverlapLeads, DoorsStep DEF OverlapInv, Inv

------------------------------------------------------------------------------
(* Theorems.  Each holds of the processes alone, reconciler included, with *)
(* calls that no other comes between (Spec), and of leaders whose calls    *)
(* overlap in the services (OverlapSpec).                                  *)

\* What the clauses below are read off from: what reached the ledger was announced,
\* what a process holds in memory is about branches that exist and effects it may
\* undo, and a result it is about to journal as ok is one the world gave.
THEOREM Invariance == Spec \/ OverlapSpec => []Inv
  <1>1. Spec => []Inv
    BY InvInit, InvNext, PTL DEF Spec
  <1>2. OverlapSpec => []OverlapInv
    BY OverlapInvInit, OverlapInvNext, PTL DEF OverlapSpec
  <1>3. OverlapInv => Inv
    BY DEF OverlapInv
  <1> QED BY <1>1, <1>2, <1>3, PTL

\* compensate_abandoned never undoes an effect of a branch still worked on: the
\* set it read at the start of a pass stays dead while it walks it, whatever the
\* other processes do to the tree, and however late a service gets to it.
THEOREM CompensateOnlyDeadHolds == Spec \/ OverlapSpec => []CompensateOnlyDead
  <1>1. Inv => CompensateOnlyDead
    BY DEF Inv
  <1> QED BY <1>1, Invariance, PTL

\* Write-ahead journaling: the INTENT of _run_branch and the COMP_INTENT of
\* compensate_abandoned precede what they announce, late deliveries included, and
\* requests that outlive their caller.
THEOREM IntentBeforeEffectHolds == Spec \/ OverlapSpec => []IntentBeforeEffect
  <1>1. Inv => IntentBeforeEffect
    BY DEF Inv
  <1> QED BY <1>1, Invariance, PTL

\* No RESULT or COMP_RESULT of the journal says ok of what did not happen: lost
\* replies and probes, refused epochs, callers that stop waiting and races with
\* other leaders included.
THEOREM JournalTruthfulHolds == Spec \/ OverlapSpec => []JournalTruthful
  <1>1. Inv => JournalTruthful
    BY DEF Inv
  <1> QED BY <1>1, Invariance, PTL

\* Two processes that lead at once lead under different epochs, and the lease
\* carries the highest (acquire_lease, whoever lapsed, crashed or returned).
THEOREM EpochsDistinctHolds == Spec \/ OverlapSpec => []EpochsDistinct
  <1>1. EpochsDistinct /\ TypeOK /\ [Next]_vars => EpochsDistinct'
    BY EpochsNext
  <1>2. Spec => []EpochsDistinct
    BY <1>1, EpochsInit, TypeCorrect, PTL DEF Spec
  <1>3. OverlapSpec => []OverlapInv
    BY OverlapInvInit, OverlapInvNext, PTL DEF OverlapSpec
  <1>4. OverlapInv => EpochsDistinct
    BY DEF OverlapInv
  <1> QED BY <1>2, <1>3, <1>4, PTL

\* Behind a fence a deposed leader changes the world at most once more, by the
\* request it waits for: the fence of world._fence and services._fence is asked at
\* the door only, and the engine makes one call at a time.
THEOREM DeposedOnceHolds == OverlapSpec => []DeposedOnce
  <1>1. OverlapSpec => []OverlapInv
    BY OverlapInvInit, OverlapInvNext, PTL DEF OverlapSpec
  <1>2. OverlapInv => DeposedOnce
    BY DEF OverlapInv, DoorsOK
  <1> QED BY <1>1, <1>2, PTL

\* The lease implements the abstract leadership: its epochs grow by one, and it
\* changes hands only when it has lapsed (acquire_lease, expire_lease).
THEOREM LeadershipRefined == Spec \/ OverlapSpec => LeadershipHolds
  <1>1. Init => Leads!Init
    BY DEF Init, Leads!Init, Leads!Free
  <1>2. TypeOK /\ [Next]_vars => [Leads!Next]_lease
    BY LeaseStep
  <1>3. Spec => Leads!Spec
    BY <1>1, <1>2, TypeCorrect, PTL DEF Spec, Leads!Spec
  <1>4. OverlapInv /\ [OverlapNext]_overlapVars => [Leads!Next]_lease
    BY OverlapLeads DEF OverlapInv, Inv
  <1>5. OverlapInit => Leads!Init
    BY <1>1 DEF OverlapInit
  <1>6. OverlapSpec => []OverlapInv
    BY OverlapInvInit, OverlapInvNext, PTL DEF OverlapSpec
  <1>7. OverlapSpec => Leads!Spec
    BY <1>4, <1>5, <1>6, PTL DEF OverlapSpec, Leads!Spec
  <1> QED BY <1>3, <1>7 DEF LeadershipHolds
=============================================================================
