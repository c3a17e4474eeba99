--------------------------- MODULE OversightProofs ---------------------------
(***************************************************************************)
(* What people are told is true: the scoreboard and the timer of a pane,   *)
(* the branch tree, the annotations of the pages, the post-mortem.  It     *)
(* holds for any trace, any number of processes and any faults, crashes    *)
(* and redeliveries the assumptions leave, which are named by each theorem *)
(* and say where the engine's promise ends.                                *)
(*                                                                         *)
(* The invariants build on those of ExactlyOnceProofs and come in this     *)
(* order: Paid, what is still owed; Fated, what a failed page means;       *)
(* Marked and Named, how a page that went out is remembered and named;     *)
(* Severed, why a dead branch is dead; Backwards, that the world is        *)
(* unwound from the top; Sourced, that what a page cites is a result of an *)
(* earlier page; Agreed, that a page and what is said of it cite the same; *)
(* Trodden and Marching, that the journal is in the order of the steps;    *)
(* Barred, what a closed gate stops and counts; Rested, what is known of   *)
(* the steps of the live branch when somebody stops.                       *)
(***************************************************************************)
EXTENDS Oversight, ExactlyOnceProofs

------------------------------------------------------------------------------
(* The scoreboard and the timer                                            *)

\* The latest result of a step is the latest of its key.
LEMMA LatestIsLast ==
    ASSUME JournalTypeOK, NEW r, NEW st
    PROVE  /\ (r \in _latest_results /\ journal[r].status = st) =>
                 KeyOf(r) \in Last(st)
           /\ \A k \in Last(st) : \E q \in _latest_results :
                 KeyOf(q) = k /\ journal[q].status = st
  <1>1. \A q, p : KeyOf(q) = KeyOf(p) <=> journal[q].br = journal[p].br
                                          /\ journal[q].seq = journal[p].seq
    BY DEF KeyOf, effect_key
  <1>2. \A q \in Rows("RESULT") :
           q \in _latest_results <=> last_result(journal[q].br, journal[q].seq, q)
    BY <1>1 DEF _latest_results, last_result
  <1>3. _latest_results \subseteq Rows("RESULT")
    BY DEF _latest_results
  <1> QED BY <1>2, <1>3 DEF Last

LEMMA ShownIs ==
    ASSUME JournalTypeOK, NEW st
    PROVE  shown(st) = Last(st) \ compensations
  <1>1. {KeyOf(r) : r \in {q \in _latest_results : journal[q].status = st}} = Last(st)
    BY LatestIsLast
  <1> QED BY <1>1 DEF shown

\* An undo is never of a live branch.
LEMMA UndoneIsDead ==
    ASSUME JournalTypeOK, JournalTruthful, CompensateOnlyDead, NEW k \in compensations
    PROVE  k[1] \in DOMAIN branches /\ ~ IsActive(k[1])
  <1>1. PICK r \in Rows("COMP_RESULT") : journal[r].status = "ok" /\ KeyOf(r) = k
    BY DEF compensations
  <1>2. Happened("compensation", k)
    BY <1>1 DEF JournalTruthful
  <1>3. PICK i \in Entries("compensation") : ledger[i].key = k
    BY <1>2 DEF Happened
  <1> QED BY <1>3 DEF CompensateOnlyDead

LEMMA BoardIsTree ==
    ASSUME JournalTypeOK, Ground
    PROVE  BoardAgrees
  <1>1. Okay = Last("ok")
    BY LastTold DEF Ground
  <1>2. net = {k \in Okay : Effectful(k)} \ compensations
    BY DEF net, Okay
  <1>3. Shown = {k \in Last("ok") : Effectful(k)} \ compensations
    BY ShownIs DEF Shown
  <1> QED BY <1>1, <1>2, <1>3 DEF BoardAgrees

LEMMA SettledIsShown ==
    ASSUME SomebodyIsPaged, JournalTypeOK, JournalTruthful, CompensateOnlyDead, Settled
    PROVE  ~ running
  <1>1. CASE Rows("ESCALATED") # {}
    BY <1>1 DEF running
  <1>2. ASSUME NEW b \in DOMAIN branches, IsActive(b), completed_results(b) = Steps
        PROVE  ~ running
    <2>1. PICK s \in Steps : Trace[s] \in Irreversible
      BY DEF SomebodyIsPaged
    <2>7. PICK k : k = <<b, s>>
      OBVIOUS
    <2>2. k = <<b, s>> /\ k[1] = b /\ k[2] = s
      BY <2>7
    <2>3. k \in Okay
      BY <1>2, <2>1, <2>2, CompletedIs, LastTold
    <2>4. k \notin compensations
      BY <1>2, <2>2, UndoneIsDead
    <2>5. ToolOf(k) = "page_oncall" /\ Effectful(k)
      BY <2>1, <2>2 DEF ToolOf, Irreversible, Effectful, Pure
    <2>6. k \in net
      <3>1. PICK r \in Rows("RESULT") : journal[r].status = "ok" /\ KeyOf(r) = k
        BY <2>3 DEF Okay
      <3> QED BY <2>4, <2>5, <3>1 DEF net
    <2> QED BY <2>5, <2>6 DEF running, board
  <1> QED BY <1>1, <1>2 DEF Settled

\* The scoreboard always agrees with the tree, and the timer of an acknowledged incident
\* has stopped, in every mode that does not give up on a livelock: an ok result is the
\* last word on its step, a run ends on a branch walked to its end or with an escalation,
\* and no page is ever undone (view.scoreboard, branch_view and derive_state).
THEOREM TimersAndBoardsHold ==
    ASSUME NoTakeover, Apart, SomebodyIsPaged
    PROVE  Spec => [](BoardAgrees /\ TimerStops)
  <1>1. TypeOK /\ Path /\ Tree /\ Inv => BoardAgrees /\ TimerStops
    BY BoardIsTree, SettledIsShown DEF TypeOK, Path, Tree, Inv, TimerStops
  <1> QED BY <1>1, OneTree, Invariance, PTL

------------------------------------------------------------------------------
(* What a step is, once there is one leader                                *)

\* What the theorems of ExactlyOnceProofs establish of every reachable state.
Steady == TypeOK /\ LocalOK /\ Sole /\ Path /\ Calm /\ Tree /\ Listed

LEMMA OneMover ==
    ASSUME TypeOK, [Next]_vars
    PROVE  \/ (Lapse \/ Redeliver \/ Land \/ UNCHANGED vars) /\ UNCHANGED orch
           \/ \E o \in Orchestrators : /\ Run(o) \/ Crash(o)
                                       /\ \A p \in Orchestrators \ {o} : orch'[p] = orch[p]
  <1>0. orch \in [Orchestrators -> Local]
    BY DEF TypeOK
  <1>1. ASSUME NEW o \in Orchestrators, Run(o) \/ Crash(o)
        PROVE  \A p \in Orchestrators \ {o} : orch'[p] = orch[p]
    <2>1. CASE Start(o) \/ Crash(o)
      BY <1>0, <2>1 DEF Start, Crash
    <2>2. CASE Run(o) /\ ~ Start(o)
      BY <2>2, RunMoves DEF Moved
    <2> QED BY <1>1, <2>1, <2>2
  <1>2. CASE Lapse \/ Redeliver \/ Land \/ UNCHANGED vars
    BY <1>2 DEF Lapse, Redeliver, Land, vars, EngineVars
  <1> QED BY <1>1, <1>2 DEF Next

LEMMA AmbiguousTells ==
    ASSUME TypeOK, LocalOK, NEW o \in Orchestrators, Ambiguous(o)
    PROVE  \E k \in Key : /\ k[1] = orch[o].br /\ k[2] = orch[o].seq
                          /\ orch[o].pc = "ambiguous" /\ ResultOf(k, "unknown")
  <1>1. /\ orch[o].br \in Nat /\ orch[o].seq \in Steps /\ orch[o].pc = "ambiguous"
        /\ append(StepRow(o, "RESULT", "unknown"))
    BY DEF Ambiguous, At, TypeOK, LocalOK, Sound, Working, Local
  <1>2. PICK k \in Key : k[1] = orch[o].br /\ k[2] = orch[o].seq
    <2>1. <<orch[o].br, orch[o].seq>> \in Key
      BY <1>1 DEF Key
    <2> QED BY <2>1
  <1>3. /\ StepRow(o, "RESULT", "unknown") \in Record
        /\ StepRow(o, "RESULT", "unknown").kind = "RESULT"
        /\ StepRow(o, "RESULT", "unknown").br = k[1]
        /\ StepRow(o, "RESULT", "unknown").seq = k[2]
        /\ StepRow(o, "RESULT", "unknown").status = "unknown"
    BY <1>2, StepRowType DEF StepRow, RecordKind, ResultStatus
  <1> QED BY <1>1, <1>2, <1>3 DEF ResultOf

LEMMA ResultSteps ==
    ASSUME Steady, [Next]_vars
    PROVE  \/ NoResult
           \/ \E o \in Orchestrators : RecordResult(o) \/ Ambiguous(o) \/ Resettle(o)
  <1>0. TypeOK /\ LocalOK /\ Path /\ Tree /\ Ground /\ JournalTypeOK
    BY DEF Steady, Tree, TypeOK
  <1>1. ASSUME NEW o \in Orchestrators, Run(o) \/ Crash(o),
               ~ (RecordResult(o) \/ Ambiguous(o) \/ Resettle(o))
        PROVE  NoResult
    <2>1. CASE \/ Start(o) \/ NotLeader(o) \/ Ack(o) \/ Crash(o) \/ SelectActive(o)
               \/ Replay(o) \/ Complete(o) \/ Pass(o) \/ Block(o) \/ Intent(o) \/ Probe(o)
               \/ Suppress(o) \/ ReplayFailed(o) \/ Escalate(o) \/ RecordAbandoned(o)
               \/ RecordFork(o)
      BY <1>0, <2>1, LeadMute, WalkMute, FinishMute DEF Mute
    <2>2. CASE Execute(o)
      BY <2>2 DEF Execute, CallsWorld, journalVars, NoResult
    <2>3. CASE Drain(o) /\ ~ Graduate(o)
      BY <1>0, <2>3, DrainMute DEF Mute
    <2>4. CASE Revisit(o)
      BY <1>0, <1>1, <2>4, RevisitMute DEF Mute, Tree
    <2>5. CASE \/ SelectFresh(o) \/ ForkNaive(o) \/ Fork(o) \/ AbandonWithResidue(o)
               \/ Graduate(o) \/ SelectNaive(o) \/ Abandon(o)
      <3>1. CASE SelectFresh(o) \/ ForkNaive(o) \/ Fork(o) \/ AbandonWithResidue(o)
        BY <3>1 DEF SelectFresh, ForkNaive, Fork, AbandonWithResidue, WritesTree, NoResult
      <3>2. CASE Graduate(o) \/ SelectNaive(o)
        BY <3>2 DEF Graduate, SelectNaive, WritesTree, NoResult
      <3>3. CASE Abandon(o)
        BY <3>3 DEF Abandon, WritesTree, NoResult
      <3> QED BY <2>5, <3>1, <3>2, <3>3
    <2> QED BY <1>1, <2>1, <2>2, <2>3, <2>4, <2>5
            DEF Run, Lead, Walk, Settle, Finish
  <1>2. CASE Lapse \/ Redeliver \/ Land \/ UNCHANGED vars
    BY <1>0, <1>2, EnvironmentMute DEF Mute
  <1> QED BY <1>1, <1>2 DEF Next

\* A result is only ever written of a live branch, and leaves the tree alone.
LEMMA ResultsBy ==
    ASSUME Steady, Replays, [Next]_vars
    PROVE  \/ NoResult
           \/ /\ UNCHANGED branches
              /\ \E k \in Key, st \in ResultStatus :
                    /\ ResultOf(k, st) /\ k[1] \in DOMAIN branches /\ IsActive(k[1])
                    /\ k \notin Last("ok") /\ Behind(k)
                    /\ \/ \E o \in Orchestrators :
                             /\ RecordResult(o) \/ Ambiguous(o)
                             /\ k = effect_key(orch[o].br, orch[o].seq)
                             /\ RecordResult(o) => orch[o].pc = "called" /\ orch[o].res = st
                             /\ Ambiguous(o) => orch[o].pc = "ambiguous" /\ st = "unknown"
                       \/ st = "ok" /\ k \in Last("unknown")
  <1>0. TypeOK /\ LocalOK /\ Path /\ Tree /\ Ground /\ JournalTypeOK
    BY DEF Steady, Tree, TypeOK
  <1>1. ASSUME NEW o \in Orchestrators, RecordResult(o) \/ Ambiguous(o)
        PROVE  /\ UNCHANGED branches
               /\ \E k \in Key, st \in ResultStatus :
                    /\ ResultOf(k, st) /\ k[1] \in DOMAIN branches /\ IsActive(k[1])
                    /\ k \notin Last("ok") /\ Behind(k)
                    /\ k = effect_key(orch[o].br, orch[o].seq)
                    /\ RecordResult(o) => orch[o].pc = "called" /\ orch[o].res = st
                    /\ Ambiguous(o) => orch[o].pc = "ambiguous" /\ st = "unknown"
    <2>1. PICK k \in Key, st \in ResultStatus :
                    /\ k[1] = orch[o].br /\ k[2] = orch[o].seq /\ ResultOf(k, st)
                    /\ orch[o].pc \in {"called", "ambiguous"}
                    /\ RecordResult(o) => orch[o].pc = "called" /\ orch[o].res = st
                    /\ Ambiguous(o) => orch[o].pc = "ambiguous" /\ st = "unknown"
      <3>1. CASE RecordResult(o)
        <4>1. orch[o].pc = "called"
          BY <3>1 DEF RecordResult, At
        <4>2. ~ Ambiguous(o)
          BY <4>1 DEF Ambiguous, At
        <4> QED BY <1>0, <3>1, <4>1, <4>2, TellsOfCall DEF ResultStatus
      <3>2. CASE Ambiguous(o)
        <4>1. ~ RecordResult(o)
          BY <3>2 DEF RecordResult, Ambiguous, At
        <4> QED BY <1>0, <3>2, <4>1, AmbiguousTells DEF ResultStatus
      <3> QED BY <1>1, <3>1, <3>2
    <2>2. k = effect_key(orch[o].br, orch[o].seq)
      BY <2>1, KeyIs DEF effect_key
    <2>3. orch[o].pc \in Working
      BY <2>1 DEF Working
    <2>4. /\ k[1] \in DOMAIN branches /\ IsActive(k[1]) /\ Behind(k) /\ k \notin Last("ok")
      BY <1>0, <2>2, <2>3, NotYet
    <2>5. UNCHANGED branches
      BY <1>1 DEF RecordResult, Ambiguous, WritesRecord
    <2> QED BY <2>1, <2>2, <2>4, <2>5
  <1>2. ASSUME NEW o \in Orchestrators, Resettle(o)
        PROVE  /\ UNCHANGED branches
               /\ \E k \in Key, st \in ResultStatus :
                    /\ ResultOf(k, st) /\ k[1] \in DOMAIN branches /\ IsActive(k[1])
                    /\ k \notin Last("ok") /\ Behind(k)
                    /\ st = "ok" /\ k \in Last("unknown")
    <2>1. PICK k \in Key : /\ ResultOf(k, "ok") /\ k \in Last("unknown") /\ k \notin Last("ok")
                           /\ k \in Told /\ UNCHANGED branches
      BY <1>0, <1>2, ResettleDoes
    <2>2. k \notin Closed
      BY <1>0, <2>1, LastTold DEF Closed
    <2>3. k[1] \in DOMAIN branches /\ IsActive(k[1]) /\ Behind(k)
      BY <1>0, <2>1, <2>2 DEF Ground, Touched
    <2> QED BY <2>1, <2>3 DEF ResultStatus
  <1>3. \/ NoResult \/ \E o \in Orchestrators : RecordResult(o) \/ Ambiguous(o) \/ Resettle(o)
    BY ResultSteps
  <1> QED BY <1>1, <1>2, <1>3

\* What becomes of the status of a branch.
LEMMA StatusBy ==
    ASSUME Steady, Replays, [Next]_vars, NEW b \in DOMAIN branches
    PROVE  /\ b \in DOMAIN branches'
           /\ \/ branches'[b].status = branches[b].status
              \/ \E o \in Orchestrators :
                    \/ /\ Abandon(o) /\ b = orch[o].br /\ branches'[b].status = "abandoned"
                    \/ /\ AbandonWithResidue(o) /\ b = orch[o].br /\ ~ IsActive(b)
                       /\ branches'[b].status = "abandoned_with_residue"
                    \/ /\ Graduate(o) /\ b \in orch[o].grads /\ ~ IsActive(b)
                       /\ branches'[b].status = "compensated"
  <1> DEFINE P == \E o \in Orchestrators :
                    \/ /\ Abandon(o) /\ b = orch[o].br /\ branches'[b].status = "abandoned"
                    \/ /\ AbandonWithResidue(o) /\ b = orch[o].br /\ ~ IsActive(b)
                       /\ branches'[b].status = "abandoned_with_residue"
                    \/ /\ Graduate(o) /\ b \in orch[o].grads /\ ~ IsActive(b)
                       /\ branches'[b].status = "compensated"
  <1>0. TypeOK /\ LocalOK /\ Path /\ Tree /\ JournalTypeOK /\ Grows
    BY TypesNext DEF Steady, TypeOK
  <1>1. b \in DOMAIN branches'
    BY <1>0, GrowthKeeps
  <1>2. CASE UNCHANGED branches
    BY <1>1, <1>2
  <1>3. CASE \E p, d \in Nat : create_branch(p, d)
    <2>1. branches'[b] = branches[b]
      BY <1>0, <1>3, NewBranch
    <2> QED BY <1>1, <2>1
  <1>4. ASSUME NEW o \in Orchestrators, Abandon(o)
        PROVE  P \/ branches'[b].status = branches[b].status
    <2>1. orch[o].br \in DOMAIN branches /\ set_branch_status(orch[o].br, "abandoned")
      BY <1>0, <1>4 DEF Abandon, At, LocalOK, Sound, Branchless
    <2> QED BY <1>0, <1>4, <2>1, MarkedBranch
  <1>5. ASSUME NEW o \in Orchestrators, AbandonWithResidue(o)
        PROVE  P \/ branches'[b].status = branches[b].status
    <2>1. /\ orch[o].br \in DOMAIN branches
          /\ set_branch_status(orch[o].br, "abandoned_with_residue")
      BY <1>0, <1>5 DEF AbandonWithResidue, At, LocalOK, Sound, Branchless
    <2>2. ~ IsActive(b)
      BY <1>0, <1>5 DEF AbandonWithResidue, At, Tree, Placed, NoActiveBranch
    <2> QED BY <1>0, <1>5, <2>1, <2>2, MarkedBranch
  <1>6. ASSUME NEW o \in Orchestrators, Graduate(o)
        PROVE  P \/ branches'[b].status = branches[b].status
    <2>1. PICK c \in DOMAIN branches : c \in orch[o].grads /\ set_branch_status(c, "compensated")
      BY <1>6 DEF Graduate, NextGraduate
    <2>2. ~ IsActive(c)
      BY <1>0, <2>1 DEF Path, PathOK
    <2> QED BY <1>0, <1>6, <2>1, <2>2, MarkedBranch
  <1>7. \/ UNCHANGED branches \/ \E p, d \in Nat : create_branch(p, d)
        \/ \E o \in Orchestrators : Abandon(o) \/ AbandonWithResidue(o) \/ Graduate(o)
    <2>1. ASSUME NEW o \in Orchestrators, Run(o) \/ Crash(o),
                 ~ (Abandon(o) \/ AbandonWithResidue(o) \/ Graduate(o))
          PROVE  \/ UNCHANGED branches \/ \E p, d \in Nat : create_branch(p, d)
      <3>1. CASE \/ Start(o) \/ NotLeader(o) \/ Ack(o) \/ Crash(o) \/ SelectActive(o)
                 \/ Replay(o) \/ Complete(o) \/ Pass(o) \/ Block(o) \/ Intent(o) \/ Probe(o)
                 \/ Suppress(o) \/ ReplayFailed(o) \/ Escalate(o) \/ RecordAbandoned(o)
                 \/ RecordFork(o)
        BY <1>0, <3>1, LeadMute, WalkMute, FinishMute DEF Mute
      <3>2. CASE Execute(o) \/ RecordResult(o) \/ Ambiguous(o)
        <4>1. Execute(o) => UNCHANGED branches
          BY DEF Execute, CallsWorld, journalVars
        <4>2. RecordResult(o) => UNCHANGED branches
          BY DEF RecordResult, WritesRecord
        <4>3. Ambiguous(o) => UNCHANGED branches
          BY DEF Ambiguous, WritesRecord
        <4> QED BY <3>2, <4>1, <4>2, <4>3
      <3>3. CASE Drain(o)
        BY <1>0, <2>1, <3>3, DrainMute DEF Mute
      <3>4. CASE Revisit(o)
        BY <1>0, <3>4, RevisitMute, ResettleDoes DEF Mute, Tree
      <3>5. CASE SelectFresh(o) \/ ForkNaive(o)
        BY <3>5 DEF SelectFresh, ForkNaive
      <3>6. CASE Fork(o)
        <4>1. orch[o].br \in DOMAIN branches /\ orch[o].br \in Nat
          BY <1>0, <3>6 DEF LocalOK, Sound, Branchless, Fork, At, TypeOK, Local
        <4>2. branches[orch[o].br] \in Branch
          BY <1>0, <4>1 DEF JournalTypeOK
        <4>3. branches[orch[o].br].depth + 1 \in Nat
          BY <4>2 DEF Branch
        <4> QED BY <3>6, <4>1, <4>3 DEF Fork
      <3>7. ~ SelectNaive(o)
        BY DEF SelectNaive
      <3> QED BY <2>1, <3>1, <3>2, <3>3, <3>4, <3>5, <3>6, <3>7
              DEF Run, Lead, Walk, Settle, Finish
    <2>2. CASE Lapse \/ Redeliver \/ Land \/ UNCHANGED vars
      BY <1>0, <2>2, EnvironmentMute DEF Mute
    <2> QED BY <2>1, <2>2 DEF Next
  <1> QED BY <1>1, <1>2, <1>3, <1>4, <1>5, <1>6, <1>7

------------------------------------------------------------------------------
(* What is still owed                                                      *)

\* What the barrier waits for, seen from the keys.
LEMMA OwedIs ==
    ASSUME JournalTypeOK, NEW k
    PROVE  k \in Owed <=> /\ k \in Key /\ ToolOf(k) \in Compensatable
                          /\ k[1] \in dead_branches
                          /\ k \in Okay /\ k \notin compensations
  <1>1. ASSUME k \in Owed
        PROVE  /\ k \in Key /\ ToolOf(k) \in Compensatable /\ k[1] \in dead_branches
               /\ k \in Okay /\ k \notin compensations
    <2>1. PICK r \in uncompensated : KeyOf(r) = k
      BY <1>1 DEF Owed
    <2>2. /\ r \in Rows("RESULT") /\ journal[r].br \in dead_branches
          /\ ToolOf(KeyOf(r)) \in Compensatable /\ journal[r].status = "ok"
          /\ KeyOf(r) \notin compensations
      BY <2>1 DEF uncompensated, DeadResults
    <2>3. k \in Key
      BY <2>1, OwedIsUndoable
    <2>4. k[1] = journal[r].br
      BY <2>1 DEF KeyOf, effect_key
    <2> QED BY <2>1, <2>2, <2>3, <2>4 DEF Okay
  <1>2. ASSUME k \in Key, ToolOf(k) \in Compensatable, k[1] \in dead_branches,
               k \in Okay, k \notin compensations
        PROVE  k \in Owed
    <2> DEFINE found == {r \in Rows("RESULT") : /\ journal[r].br \in dead_branches
                                                /\ journal[r].seq \in Steps
                                                /\ ToolOf(KeyOf(r)) \in Compensatable
                                                /\ journal[r].status \in {"ok"}}
               mine  == {r \in found : KeyOf(r) = k}
    <2>1. PICK r \in Rows("RESULT") : KeyOf(r) = k /\ journal[r].status = "ok"
      BY <1>2 DEF Okay
    <2>2. journal[r].br = k[1] /\ journal[r].seq = k[2] /\ k[2] \in Steps
      BY <1>2, <2>1, KeyIs DEF KeyOf, effect_key
    <2>3. r \in mine
      BY <1>2, <2>1, <2>2
    <2>4. mine \in SUBSET Nat
      BY DEF Rows, JournalTypeOK
    <2>5. PICK i \in mine : \A j \in mine : i <= j
      BY <2>3, <2>4, FirstRow
    <2>6. i \in DeadResults(Compensatable, {"ok"})
      BY <2>5 DEF DeadResults
    <2> QED BY <1>2, <2>5, <2>6 DEF uncompensated, Owed
  <1> QED BY <1>1, <1>2

LEMMA NoneOwed == uncompensated = {} <=> Owed = {}
  BY DEF Owed

\* A branch is dead to the barrier unless it is live or graduated.
LEMMA DeadIs ==
    ASSUME JournalTypeOK, NEW b
    PROVE  b \in dead_branches <=> /\ b \in DOMAIN branches /\ ~ IsActive(b)
                                   /\ branches[b].status # "compensated"
  <1>1. b \in DOMAIN branches => branches[b].status \in BranchStatus
    <2>1. \A c \in DOMAIN branches : branches[c] \in Branch
      BY DEF JournalTypeOK
    <2> QED BY <2>1 DEF Branch
  <1> QED BY <1>1 DEF dead_branches, DEAD_BRANCH_STATUSES, BranchStatus, IsActive

\* A graduated branch owes nothing; nobody pages, nothing was paged on a live branch and
\* no branch graduates while anything is owed; and at the end of a run what is owed is
\* what an escalation names.
Squared(l) ==
    /\ Paging(l) \/ l.pc \in {"graduate", "graduated"} => Owed = {}
    /\ l.pc = "returned" => Owed \subseteq EscalatedKeys
Paid ==
    /\ \A k \in Okay : (/\ ToolOf(k) \in Compensatable /\ k[1] \in DOMAIN branches
                        /\ branches[k[1]].status = "compensated") => k \in compensations
    /\ \A k \in Touched : IsActive(k[1]) /\ ToolOf(k) \in Irreversible => Owed = {}
    /\ acked => Owed \subseteq EscalatedKeys
    /\ \A o \in Orchestrators : Squared(orch[o])

\* What an action leaves of the dead branches' results.
LEMMA OkayBy ==
    ASSUME Steady, Replays, [Next]_vars, NEW k \in Okay'
    PROVE  \/ k \in Okay
           \/ k \in Key /\ k[1] \in DOMAIN branches /\ IsActive(k[1]) /\ IsActive(k[1])'
  <1>0. JournalTypeOK
    BY DEF Steady, TypeOK
  <1>1. CASE NoResult
    BY <1>0, <1>1, NothingTold
  <1>2. ASSUME UNCHANGED branches, NEW q \in Key, NEW st, ResultOf(q, st),
               q[1] \in DOMAIN branches, IsActive(q[1]), k \notin Okay
        PROVE  k \in Key /\ k[1] \in DOMAIN branches /\ IsActive(k[1]) /\ IsActive(k[1])'
    <2>1. k = q
      BY <1>0, <1>2, ResultTold
    <2> QED BY <1>2, <2>1 DEF IsActive
  <1> QED BY <1>1, <1>2, ResultsBy

LEMMA OkayPlace ==
    ASSUME Steady
    PROVE  /\ \A k \in Touched : k \in Key /\ k[1] \in DOMAIN branches
           /\ Okay \subseteq Told /\ Okay \subseteq Touched /\ Told \subseteq Touched
           /\ Okay \subseteq Last("ok")
  BY LastTold DEF Steady, TypeOK, Tree, Ground, Touched

LEMMA CompensationsStay ==
    ASSUME JournalTypeOK, Grows
    PROVE  compensations \subseteq compensations'
  <1> SUFFICES ASSUME NEW k \in compensations PROVE k \in compensations'
    OBVIOUS
  <1>1. PICK r \in DOMAIN journal :
           journal[r].kind = "COMP_RESULT" /\ journal[r].status = "ok" /\ KeyOf(r) = k
    BY DEF compensations, Rows
  <1>2. r \in DOMAIN journal' /\ journal'[r] = journal[r]
    BY <1>1, GrowthKeeps
  <1> QED BY <1>1, <1>2 DEF compensations, Rows, KeyOf

LEMMA OwedShrinks ==
    ASSUME Steady, Replays, [Next]_vars, Paid, \A o \in Orchestrators : ~ Abandon(o)
    PROVE  Owed' \subseteq Owed
  <1>0. /\ TypeOK /\ LocalOK /\ Path /\ Tree /\ JournalTypeOK /\ Grows /\ JournalTypeOK'
    BY TypesNext DEF Steady, TypeOK
  <1> SUFFICES ASSUME NEW k \in Owed' PROVE k \in Owed
    OBVIOUS
  <1>1. /\ k \in Key /\ ToolOf(k) \in Compensatable /\ k[1] \in dead_branches'
        /\ k \in Okay' /\ k \notin compensations'
    <2>1. PICK r \in uncompensated' : KeyOf(r)' = k
      BY DEF Owed
    <2>2. /\ r \in Rows("RESULT")' /\ journal'[r].br \in dead_branches'
          /\ journal'[r].seq \in Steps /\ ToolOf(KeyOf(r)') \in Compensatable
          /\ journal'[r].status = "ok" /\ KeyOf(r)' \notin compensations'
      BY <2>1 DEF uncompensated, DeadResults, ToolOf
    <2>3. journal'[r] \in Record
      BY <1>0, <2>2 DEF Rows, JournalTypeOK
    <2>4. k = <<journal'[r].br, journal'[r].seq>>
      BY <2>1 DEF KeyOf, effect_key
    <2>5. k \in Key /\ k[1] = journal'[r].br
      BY <2>2, <2>3, <2>4 DEF Key, Record
    <2> QED BY <2>1, <2>2, <2>5 DEF Okay
  <1>2. k \notin compensations
    BY <1>0, <1>1, CompensationsStay
  <1>3. ~ IsActive(k[1])' /\ branches'[k[1]].status # "compensated"
    BY <1>1 DEF dead_branches, IsActive, DEAD_BRANCH_STATUSES
  <1>4. k \in Okay
    BY <1>1, <1>3, OkayBy
  <1>5. k[1] \in DOMAIN branches /\ ~ IsActive(k[1])
    BY <1>0, <1>3, <1>4, OkayPlace, AliveStays
  <1>6. branches[k[1]].status # "compensated"
    BY <1>1, <1>2, <1>4, <1>5 DEF Paid
  <1>7. k[1] \in dead_branches
    BY <1>0, <1>5, <1>6, DeadIs
  <1> QED BY <1>0, <1>1, <1>2, <1>4, <1>7, OwedIs

LEMMA SquaredOf ==
    ASSUME NEW o \in Orchestrators, NEW m, m = orch'[o], Squared(m)'
    PROVE  Squared(orch[o])'
  BY DEF Squared, Paging, Owed, EscalatedKeys, KeyOf, Rows

LEMMA SquaredMoves ==
    ASSUME SomebodyIsPaged, Steady, Barrier, Paid, [Next]_vars,
           \A p \in Orchestrators : ~ Abandon(p), NEW o \in Orchestrators, Run(o) \/ Crash(o)
    PROVE  Squared(orch[o])'
  <1>0. /\ TypeOK /\ LocalOK /\ JournalTypeOK /\ Grows /\ Replays /\ Diverges
        /\ Owed' \subseteq Owed /\ EscalatedKeys \subseteq EscalatedKeys'
        /\ orch[o] \in Local /\ orch \in [Orchestrators -> Local]
    <2>1. Replays /\ Diverges
      BY DEF Barrier, Replays, Diverges
    <2> QED BY <2>1, TypesNext, OwedShrinks, EscalatedGrows DEF Steady, TypeOK
  <1>1. PICK m : m = orch'[o]
    OBVIOUS
  <1>2. ASSUME Paging(m) \/ m.pc \in {"graduate", "graduated"} PROVE Owed' = {}
    <2>1. \/ Paging(orch[o]) \/ orch[o].pc \in {"graduate", "graduated"}
          \/ uncompensated = {}
      BY <1>0, <1>1, <1>2, PagesBy
    <2>2. Owed = {}
      BY <2>1, NoneOwed DEF Paid, Squared
    <2> QED BY <1>0, <2>2
  <1>3. ASSUME m.pc = "returned" PROVE Owed' \subseteq EscalatedKeys'
    <2>1. CASE Complete(o)
      <3>1. /\ orch[o].pc = "step" /\ orch[o].seq > Len(Trace) /\ orch[o].seq \in Nat
            /\ orch[o].br \in DOMAIN branches /\ orch[o].br \in Nat
        BY <1>0, <2>1 DEF Complete, At, Local, LocalOK, Sound, Branchless
      <3>2. /\ IsActive(orch[o].br)
            /\ \A s \in Steps : s < orch[o].seq => s \in completed_results(orch[o].br)
        BY <3>1 DEF Steady, Path, PathOK, OnPath
      <3>3. PICK s \in Steps : Trace[s] \in Irreversible
        BY DEF SomebodyIsPaged
      <3>4. s \in completed_results(orch[o].br)
        BY <3>1, <3>2, <3>3, TraceAssumption DEF Steps
      <3>5. PICK k : k = <<orch[o].br, s>>
        OBVIOUS
      <3>6. k[1] = orch[o].br /\ k[2] = s
        BY <3>5
      <3>7. k \in Told
        BY <1>0, <3>4, <3>5, CompletedIs, LastTold
      <3>8. k \in Touched /\ IsActive(k[1]) /\ ToolOf(k) \in Irreversible
        BY <3>2, <3>3, <3>6, <3>7 DEF Touched, ToolOf
      <3> QED BY <1>0, <3>8 DEF Paid
    <2>2. CASE Escalate(o)
      <3>1. append(EscalationRow(o)) /\ EscalationRow(o).kind = "ESCALATED"
            /\ EscalationRow(o).keys = Owed
        BY <2>2 DEF Escalate, EscalationRow, TreeRow
      <3>2. /\ Len(journal) + 1 \in DOMAIN journal'
            /\ journal'[Len(journal) + 1] = EscalationRow(o)
        BY <1>0, <3>1 DEF append, JournalTypeOK
      <3>3. PICK n : n \in DOMAIN journal' /\ journal'[n] = EscalationRow(o)
        BY <3>2
      <3>4. n \in Rows("ESCALATED")' /\ journal'[n].keys = Owed
        BY <3>1, <3>3 DEF Rows
      <3> QED BY <1>0, <3>4 DEF EscalatedKeys
    <2>3. ~ ReplayFailed(o)
      BY <1>0 DEF ReplayFailed
    <2> QED BY <1>0, <1>1, <1>3, <2>1, <2>2, <2>3, ReturnsBy
  <1>4. Squared(m)'
    BY <1>2, <1>3 DEF Squared, Paging
  <1> QED BY <1>1, <1>4, SquaredOf

LEMMA PaidNext ==
    ASSUME SomebodyIsPaged, Steady, Barrier, Paid, [Next]_vars
    PROVE  Paid'
  <1>0. /\ TypeOK /\ LocalOK /\ Path /\ Tree /\ JournalTypeOK /\ Grows /\ Replays /\ Ground
        /\ orch \in [Orchestrators -> Local] /\ Steady
    <2>1. Replays
      BY DEF Barrier, Replays
    <2> QED BY <2>1, TypesNext DEF Steady, TypeOK, Tree
  <1>1. ASSUME NEW k \in Okay', ToolOf(k)' \in Compensatable, k[1] \in DOMAIN branches',
               branches'[k[1]].status = "compensated"
        PROVE  k \in compensations'
    <2>1. ~ IsActive(k[1])'
      BY <1>1 DEF IsActive
    <2>2. k \in Okay
      BY <1>0, <2>1, OkayBy
    <2>3. k \in Key /\ k[1] \in DOMAIN branches /\ ToolOf(k) \in Compensatable
      BY <1>0, <1>1, <2>2, OkayPlace DEF ToolOf
    <2>4. CASE branches[k[1]].status = "compensated"
      BY <1>0, <2>2, <2>3, <2>4, CompensationsStay DEF Paid
    <2>5. ASSUME NEW o \in Orchestrators, Graduate(o), k[1] \in orch[o].grads,
                 ~ IsActive(k[1]), branches[k[1]].status # "compensated"
          PROVE  k \in compensations
      <3>1. Owed = {}
        BY <2>5 DEF Graduate, At, Paid, Squared
      <3>2. k[1] \in dead_branches
        BY <1>0, <2>3, <2>5, DeadIs
      <3> QED BY <1>0, <2>2, <2>3, <3>1, <3>2, OwedIs
    <2>6. branches[k[1]].status = "compensated" \/
          \E o \in Orchestrators : /\ Graduate(o) /\ k[1] \in orch[o].grads
                                   /\ ~ IsActive(k[1])
      BY <1>0, <1>1, <2>3, StatusBy
    <2> QED BY <1>0, <2>4, <2>5, <2>6, CompensationsStay
  <1>2. ASSUME NEW a \in Orchestrators, Abandon(a) PROVE Paid'
    <2>1. /\ orch[a].pc = "diverge" /\ orch'[a].pc = "residue"
          /\ \A p \in Orchestrators \ {a} : orch'[p] = orch[p]
          /\ UNCHANGED acked
      <3>1. /\ orch[a].pc = "diverge"
            /\ \A p \in Orchestrators \ {a} : orch'[p] = orch[p]
            /\ UNCHANGED acked
        BY <1>0, <1>2 DEF Abandon, At, WritesTree, EngineVars
      <3>2. orch'[a].pc = "residue"
        BY <1>0, <1>2, OtherMoves
      <3> QED BY <3>1, <3>2
    <2>2. ~ acked' /\ \A p \in Orchestrators \ {a} : orch'[p].pc = "idle"
      <3>1. Busy(a)
        BY <2>1 DEF Busy
      <3> QED BY <2>1, <3>1, Alone DEF Sole, Steady
    <2>3. Tree'
      BY TreeNext DEF Steady
    <2>4. NoActiveBranch'
      <3>1. Placed(orch[a])'
        BY <2>3 DEF Tree
      <3> QED BY <2>1, <3>1 DEF Placed, NoActiveBranch, IsActive
    <2>5. \A k \in Touched' : ~ IsActive(k[1])'
      <3>1. Ground'
        BY <2>3 DEF Tree
      <3> QED BY <2>4, <3>1 DEF Ground, NoActiveBranch, IsActive
    <2>6. \A p \in Orchestrators : Squared(orch[p])'
      <3> SUFFICES ASSUME NEW p \in Orchestrators PROVE Squared(orch[p])'
        OBVIOUS
      <3>1. PICK m : m = orch'[p]
        OBVIOUS
      <3>2. m.pc \in {"residue", "idle"}
        BY <2>1, <2>2, <3>1
      <3>3. Squared(m)'
        BY <3>2 DEF Squared, Paging
      <3> QED BY <3>1, <3>3, SquaredOf
    <2> QED BY <1>1, <2>2, <2>5, <2>6 DEF Paid
  <1>3. ASSUME \A a \in Orchestrators : ~ Abandon(a) PROVE Paid'
    <2>1. Owed' \subseteq Owed /\ EscalatedKeys \subseteq EscalatedKeys'
      BY <1>0, <1>3, OwedShrinks, EscalatedGrows
    <2>3. ASSUME NEW k \in Touched', IsActive(k[1])', ToolOf(k)' \in Irreversible
          PROVE  Owed' = {}
      <3>1. ToolOf(k) \in Irreversible
        BY <2>3 DEF ToolOf
      <3>2. CASE k \in Touched
        <4>1. k[1] \in DOMAIN branches
          BY <1>0, <3>2 DEF Ground
        <4>2. IsActive(k[1])
          BY <1>0, <1>3, <2>3, <4>1, AliveStays
        <4> QED BY <2>1, <3>1, <3>2, <4>2 DEF Paid
      <3>3. ASSUME NEW o \in Orchestrators, orch[o].pc \in {"call", "called", "ambiguous"},
                   k = effect_key(orch[o].br, orch[o].seq)
            PROVE  Owed = {}
        <4>1. Paging(orch[o])
          BY <3>1, <3>3 DEF Paging, ToolOf, effect_key
        <4> QED BY <4>1 DEF Paid, Squared
      <3> QED BY <1>0, <2>1, <2>3, <3>2, <3>3, NewKey
    <2>4. ASSUME acked' PROVE Owed' \subseteq EscalatedKeys'
      <3>1. CASE acked
        BY <2>1, <3>1 DEF Paid
      <3>2. ASSUME NEW o \in Orchestrators, Ack(o) PROVE Owed' \subseteq EscalatedKeys'
        BY <2>1, <3>2 DEF Ack, At, Paid, Squared
      <3>3. ASSUME NEW o \in Orchestrators, Run(o) \/ Crash(o), ~ Ack(o) PROVE acked
        <4>1. Start(o) \/ Crash(o) => UNCHANGED acked
          BY DEF Start, Crash
        <4>2. Run(o) /\ ~ Start(o) => Ack(o) \/ UNCHANGED acked
          BY <1>0, BusyBefore
        <4> QED BY <2>4, <3>3, <4>1, <4>2
      <3>4. ASSUME Lapse \/ Redeliver \/ Land \/ UNCHANGED vars PROVE acked
        BY <2>4, <3>4 DEF Lapse, Redeliver, Land, vars, EngineVars
      <3> QED BY <3>1, <3>2, <3>3, <3>4 DEF Next
    <2>5. \A o \in Orchestrators : Squared(orch[o])'
      <3> SUFFICES ASSUME NEW o \in Orchestrators PROVE Squared(orch[o])'
        OBVIOUS
      <3>1. CASE Run(o) \/ Crash(o)
        BY <1>3, <3>1, SquaredMoves
      <3>2. ASSUME orch'[o] = orch[o] PROVE Squared(orch[o])'
        <4>1. PICK m : m = orch'[o]
          OBVIOUS
        <4>2. Squared(m)
          BY <3>2, <4>1 DEF Paid
        <4>3. Squared(m)'
          BY <2>1, <4>2 DEF Squared, Paging
        <4> QED BY <4>1, <4>3, SquaredOf
      <3> QED BY <1>0, <3>1, <3>2, OneMover
    <2> QED BY <1>1, <2>3, <2>4, <2>5 DEF Paid
  <1> QED BY <1>2, <1>3

LEMMA SteadyAlways == ASSUME NoTakeover, Apart PROVE Spec => []Steady
  BY OneList, PTL DEF Steady

LEMMA InitNothing ==
    ASSUME Init
    PROVE  /\ \A kind : Rows(kind) = {}
           /\ Okay = {} /\ Touched = {} /\ branches = << >> /\ ledger = << >>
           /\ \A st : Last(st) = {}
           /\ BagToSet(late) = {} /\ ~ acked
           /\ \A o \in Orchestrators : orch[o].pc = "idle" /\ orch[o].grads = {}
  <1>1. journal = << >> /\ branches = << >> /\ applied = {} /\ late = EmptyBag /\ ledger = << >>
    BY DEF Init, JournalInit, WorldInit
  <1>2. \A kind : Rows(kind) = {}
    BY <1>1 DEF Rows
  <1>3. BagToSet(late) = {}
    BY <1>1 DEF BagToSet, EmptyBag, SetToBag
  <1>4. \A o \in Orchestrators : orch[o].pc = "idle" /\ orch[o].grads = {}
    BY DEF Init, Idle
  <1> QED BY <1>1, <1>2, <1>3, <1>4 DEF Init, Okay, Touched, Told, LateKeys, Last

LEMMA PaidAlways ==
    ASSUME NoTakeover, Apart, SomebodyIsPaged
    PROVE  Spec => [](Barrier => Paid)
  <1>1. Init => Paid
    BY InitNothing DEF Paid, Squared, Paging
  <1>2. Steady /\ (Barrier => Paid) /\ [Next]_vars => (Barrier => Paid)'
    <2> SUFFICES ASSUME Steady, Barrier => Paid, [Next]_vars, Barrier' PROVE Paid'
      OBVIOUS
    <2>1. Barrier
      BY SettingsStay DEF settings, Barrier, Steady
    <2> QED BY <2>1, PaidNext
  <1> QED BY <1>1, <1>2, SteadyAlways, PTL DEF Spec

------------------------------------------------------------------------------
(* Where a step comes from                                                 *)

LEMMA StartsAt ==
    ASSUME NEW o \in Orchestrators
    PROVE  /\ Start(o) \/ NotLeader(o) \/ Reconcile(o) => orch[o].pc = "idle"
           /\ SelectActive(o) \/ SelectFresh(o) \/ SelectNaive(o) => orch[o].pc = "select"
           /\ Replay(o) \/ Complete(o) \/ Pass(o) \/ Block(o) => orch[o].pc = "step"
           /\ Intent(o) => orch[o].pc = "intent"
           /\ Execute(o) => orch[o].pc = "call"
           /\ Probe(o) \/ Suppress(o) \/ RecordResult(o) => orch[o].pc = "called"
           /\ Ambiguous(o) => orch[o].pc = "ambiguous"
           /\ Drained(o) \/ BeginPass(o) => orch[o].pc = "drain"
           /\ GiveUp(o) => orch[o].pc \in {"comp", "drain"}
           /\ CompIntent(o) => orch[o].pc = "comp"
           /\ Undo(o) => orch[o].pc = "undo"
           /\ CompResult(o) => orch[o].pc = "undone"
           /\ Graduate(o) \/ Release(o) => orch[o].pc = "graduate"
           /\ Graduated(o) => orch[o].pc = "graduated"
           /\ ReplayFailed(o) \/ Abandon(o) => orch[o].pc = "diverge"
           /\ Escalate(o) => orch[o].pc \in {"escalate", "diverge"}
           /\ AbandonWithResidue(o) => orch[o].pc = "residue"
           /\ RecordAbandoned(o) => orch[o].pc \in {"mark", "residue"}
           /\ Fork(o) \/ ForkNaive(o) => orch[o].pc = "fork"
           /\ RecordFork(o) => orch[o].pc = "forked"
           /\ Ack(o) => orch[o].pc = "returned"
           /\ Recheck(o) \/ Reconciled(o) => orch[o].pc = "recheck"
           /\ Reprobe(o) \/ Rematch(o) => orch[o].pc = "rechecked"
           /\ Resettle(o) => orch[o].pc = "matched"
           /\ Crash(o) => orch[o].pc \in CrashAt /\ orch[o].pc # "idle"
  <1>1. Start(o) => orch[o].pc = "idle"
    BY DEF Start, At
  <1>2. NotLeader(o) => orch[o].pc = "idle"
    BY DEF NotLeader, At
  <1>3. Reconcile(o) => orch[o].pc = "idle"
    BY DEF Reconcile, At
  <1>4. SelectActive(o) => orch[o].pc = "select"
    BY DEF SelectActive, At
  <1>5. SelectFresh(o) => orch[o].pc = "select"
    BY DEF SelectFresh, At
  <1>6. SelectNaive(o) => orch[o].pc = "select"
    BY DEF SelectNaive, At
  <1>7. Replay(o) => orch[o].pc = "step"
    BY DEF Replay, At
  <1>8. Complete(o) => orch[o].pc = "step"
    BY DEF Complete, At
  <1>9. Pass(o) => orch[o].pc = "step"
    BY DEF Pass, ToExecute, At
  <1>10. Block(o) => orch[o].pc = "step"
    BY DEF Block, ToExecute, At
  <1>11. Intent(o) => orch[o].pc = "intent"
    BY DEF Intent, At
  <1>12. Execute(o) => orch[o].pc = "call"
    BY DEF Execute, At
  <1>13. Probe(o) => orch[o].pc = "called"
    BY DEF Probe, At
  <1>14. Suppress(o) => orch[o].pc = "called"
    BY DEF Suppress, At
  <1>15. RecordResult(o) => orch[o].pc = "called"
    BY DEF RecordResult, At
  <1>16. Ambiguous(o) => orch[o].pc = "ambiguous"
    BY DEF Ambiguous, At
  <1>17. Drained(o) => orch[o].pc = "drain"
    BY DEF Drained, At
  <1>18. BeginPass(o) => orch[o].pc = "drain"
    BY DEF BeginPass, At
  <1>19. GiveUp(o) => orch[o].pc \in {"comp", "drain"}
    BY DEF GiveUp, At
  <1>20. CompIntent(o) => orch[o].pc = "comp"
    BY DEF CompIntent, At
  <1>21. Undo(o) => orch[o].pc = "undo"
    BY DEF Undo, At
  <1>22. CompResult(o) => orch[o].pc = "undone"
    BY DEF CompResult, At
  <1>23. Graduate(o) => orch[o].pc = "graduate"
    BY DEF Graduate, At
  <1>24. Release(o) => orch[o].pc = "graduate"
    BY DEF Release, At
  <1>25. Graduated(o) => orch[o].pc = "graduated"
    BY DEF Graduated, At
  <1>26. ReplayFailed(o) => orch[o].pc = "diverge"
    BY DEF ReplayFailed, At
  <1>27. Abandon(o) => orch[o].pc = "diverge"
    BY DEF Abandon, At
  <1>28. Escalate(o) => orch[o].pc \in {"escalate", "diverge"}
    BY DEF Escalate, At
  <1>29. AbandonWithResidue(o) => orch[o].pc = "residue"
    BY DEF AbandonWithResidue, At
  <1>30. RecordAbandoned(o) => orch[o].pc \in {"mark", "residue"}
    BY DEF RecordAbandoned, At
  <1>31. Fork(o) => orch[o].pc = "fork"
    BY DEF Fork, At
  <1>32. ForkNaive(o) => orch[o].pc = "fork"
    BY DEF ForkNaive, At
  <1>33. RecordFork(o) => orch[o].pc = "forked"
    BY DEF RecordFork, At
  <1>34. Ack(o) => orch[o].pc = "returned"
    BY DEF Ack, At
  <1>35. Recheck(o) => orch[o].pc = "recheck"
    BY DEF Recheck, At
  <1>36. Reconciled(o) => orch[o].pc = "recheck"
    BY DEF Reconciled, At
  <1>37. Reprobe(o) => orch[o].pc = "rechecked"
    BY DEF Reprobe, At
  <1>38. Rematch(o) => orch[o].pc = "rechecked"
    BY DEF Rematch, At
  <1>39. Resettle(o) => orch[o].pc = "matched"
    BY DEF Resettle, At
  <1>40. Crash(o) => orch[o].pc \in CrashAt /\ orch[o].pc # "idle"
    BY EngineAssumption DEF Crash
  <1> QED BY <1>1, <1>2, <1>3, <1>4, <1>5, <1>6, <1>7, <1>8, <1>9, <1>10, <1>11, <1>12,
             <1>13, <1>14, <1>15, <1>16, <1>17, <1>18, <1>19, <1>20, <1>21, <1>22, <1>23,
             <1>24, <1>25, <1>26, <1>27, <1>28, <1>29, <1>30, <1>31, <1>32, <1>33, <1>34,
             <1>35, <1>36, <1>37, <1>38, <1>39, <1>40

LEMMA FromIdle ==
    ASSUME NEW o \in Orchestrators, Run(o) \/ Crash(o), orch[o].pc = "idle"
    PROVE  Start(o) \/ NotLeader(o) \/ Reconcile(o)
  BY StartsAt DEF Run, Lead, Walk, Settle, Drain, Finish, Revisit

\* While somebody is busy, what others do changes nothing he looks at, but for a late
\* call that arrives.
LEMMA StepFor ==
    ASSUME Steady, [Next]_vars, NEW p \in Orchestrators
    PROVE  \/ /\ Run(p) \/ Crash(p)
              /\ \A q \in Orchestrators \ {p} : orch'[q] = orch[q]
           \/ /\ orch'[p] = orch[p] /\ UNCHANGED journalVars
              /\ UNCHANGED worldVars \/ Land
           \/ orch'[p] = orch[p] /\ ~ Busy(p)
  <1>1. TypeOK /\ Sole /\ Calm
    BY DEF Steady
  <1>2. ASSUME NEW o \in Orchestrators, Run(o) \/ Crash(o), o # p, Busy(p)
        PROVE  UNCHANGED << journalVars, worldVars >>
    <2>1. orch[o].pc = "idle"
      BY <1>1, <1>2, Alone
    <2>2. Start(o) => UNCHANGED << journalVars, worldVars >>
      BY DEF Start
    <2>3. NotLeader(o) => UNCHANGED << journalVars, worldVars >>
      BY DEF NotLeader, ReadOnly
    <2>4. Reconcile(o) => UNCHANGED << journalVars, worldVars >>
      BY DEF Reconcile
    <2> QED BY <1>2, <2>1, <2>2, <2>3, <2>4, FromIdle
  <1>3. Lapse \/ Redeliver \/ Land \/ UNCHANGED vars
        => UNCHANGED journalVars /\ (UNCHANGED worldVars \/ Land)
    BY DEF Lapse, Redeliver, Land, vars, EngineVars
  <1>4. \/ (Lapse \/ Redeliver \/ Land \/ UNCHANGED vars) /\ UNCHANGED orch
        \/ \E o \in Orchestrators : /\ Run(o) \/ Crash(o)
                                    /\ \A q \in Orchestrators \ {o} : orch'[q] = orch[q]
    BY <1>1, OneMover
  <1> QED BY <1>2, <1>3, <1>4

\* Where a new effect comes from.
LEMMA AppliedBy ==
    ASSUME Steady, [Next]_vars, NEW k \in applied'
    PROVE  \/ k \in applied
           \/ k \in LateKeys /\ Land
           \/ \E o \in Orchestrators : Execute(o) /\ k = effect_key(orch[o].br, orch[o].seq)
           \/ \E o \in Orchestrators : Recheck(o) /\ k \in Last("unknown")
  <1>0. TypeOK /\ LocalOK /\ Path /\ Tree /\ WorldTypeOK /\ JournalTypeOK
    BY DEF Steady, TypeOK
  <1>1. ASSUME NEW o \in Orchestrators, Execute(o), k \notin applied
        PROVE  k = effect_key(orch[o].br, orch[o].seq)
    <2>1. PICK q : q = effect_key(orch[o].br, orch[o].seq)
      OBVIOUS
    <2>2. Still \/ Effect(q)
      BY <1>0, <1>1, <2>1, ExecuteDoes
    <2> QED BY <1>1, <2>1, <2>2 DEF Still, Effect
  <1>2. ASSUME NEW o \in Orchestrators, Undo(o), k \notin applied PROVE FALSE
    <2>1. PICK r \in orch[o].todo, res \in ResultStatus :
             \/ Still /\ res # "ok"
             \/ /\ Compensation(KeyOf(r))
                /\ res = "ok" \/ ToolOf(KeyOf(r)) \in faults.lost_replies
      BY <1>0, <1>2, UndoDoes, Zenon
    <2> QED BY <1>2, <2>1 DEF Still, Compensation
  <1>3. ASSUME NEW o \in Orchestrators, Recheck(o), k \notin applied
        PROVE  k \in Last("unknown")
    <2>1. PICK r \in orch[o].redo : Still \/ Effect(KeyOf(r))
      BY <1>0, <1>3, RecheckDoes
    <2>2. k = KeyOf(r)
      BY <1>3, <2>1 DEF Still, Effect
    <2>3. r \in UnknownResults
      BY <1>0, <1>3, StartsAt DEF Tree, Reviewed, Resting
    <2> QED BY <2>2, <2>3 DEF UnknownResults, Last
  <1>4. ASSUME Land, k \notin applied PROVE k \in LateKeys
    <2>1. PICK req \in BagToSet(late) : land(req)
      BY <1>4 DEF Land
    <2>2. req \in Request
      BY <1>0, <2>1 DEF WorldTypeOK
    <2>3. Still \/ Effect(req.key)
      BY <1>0, <2>1, <2>2, LandStep
    <2> QED BY <1>4, <2>1, <2>3 DEF Still, Effect, LateKeys
  <1>5. \/ UNCHANGED worldVars \/ Land
        \/ \E o \in Orchestrators : Execute(o) \/ Undo(o) \/ Recheck(o)
    BY CallsOnly DEF Next, Lapse, Redeliver, EngineVars, vars
  <1> QED BY <1>1, <1>2, <1>3, <1>4, <1>5 DEF worldVars

------------------------------------------------------------------------------
(* What an answer of the pager means                                       *)

\* A pager which may leave a page in doubt, by timing out or by losing replies, rejects
\* none, and one that cannot be connected to is not among the settings.
PagerAnswers ==
    \A s \in Scenarios :
        /\ s.faults.unreachable \cap Irreversible = {}
        /\ (s.faults.timeout_tools \cup s.faults.lost_replies) \cap Irreversible # {} =>
              s.faults.fail_tools \cap Irreversible = {} /\ s.faults.empty_rotas = {}

Doubtful  == (faults.timeout_tools \cup faults.lost_replies) \cap Irreversible # {}
Rejecting == faults.fail_tools \cap Irreversible # {} \/ faults.empty_rotas # {}

\* A page that a process calls is rejected or left in doubt as the settings have it, and
\* one that was rejected is not in force.
Judged(l) ==
    (l.pc \in {"called", "ambiguous"} /\ Trace[l.seq] \in Irreversible) =>
        /\ l.pc = "ambiguous" \/ l.res = "unknown" => Doubtful
        /\ (l.pc = "called" /\ l.res = "failed") =>
              Rejecting /\ effect_key(l.br, l.seq) \notin applied

\* A rejected page stays out of force once its branch is to be abandoned.
Rejected(l) ==
    l.pc = "diverge" =>
        \A k \in Last("failed") :
            k[1] = l.br /\ ToolOf(k) \in Irreversible => k \notin applied
Fated ==
    /\ \A r \in Rows("RESULT") : ToolOf(KeyOf(r)) \in Irreversible =>
          /\ journal[r].status = "unknown" => Doubtful
          /\ journal[r].status = "failed" => Rejecting
    /\ \A k \in Last("failed") :
          ToolOf(k) \in Irreversible /\ ~ IsActive(k[1]) => k \notin applied
    /\ \A o \in Orchestrators : Judged(orch[o]) /\ Rejected(orch[o])

LEMMA NotBoth == ASSUME PagerAnswers, Calm PROVE ~ (Doubtful /\ Rejecting)
  BY DEF PagerAnswers, Calm, Doubtful, Rejecting

\* What Execute gets from the pager.
LEMMA PagerSays ==
    ASSUME PagerAnswers, Steady, OneEpoch, NEW o \in Orchestrators, Execute(o)
    PROVE  /\ orch'[o].pc = "called" /\ orch'[o].br = orch[o].br /\ orch'[o].seq = orch[o].seq
           /\ orch'[o].sev = orch[o].sev /\ orch'[o].sup = orch[o].sup
           /\ ToolAt(o) \in Irreversible =>
                 /\ orch'[o].res = "unknown" => Doubtful
                 /\ orch'[o].res = "failed" =>
                       Rejecting /\ effect_key(orch[o].br, orch[o].seq) \notin applied'
  <1>0. /\ orch[o] \in Local /\ orch \in [Orchestrators -> Local]
        /\ TypeOK /\ LocalOK /\ Calm /\ WorldTypeOK
    BY DEF TypeOK, Steady
  <1>1. PICK res \in ResultStatus :
           /\ execute(Call(o), orch[o].epoch, res)
           /\ orch' = [orch EXCEPT ![o] = [@ EXCEPT !.pc = "called", !.res = res]]
    BY Zenon DEF Execute
  <1>2. orch'[o] = [orch[o] EXCEPT !.pc = "called", !.res = res]
    BY <1>0, <1>1
  <1>3. /\ orch'[o].pc = "called" /\ orch'[o].br = orch[o].br /\ orch'[o].seq = orch[o].seq
        /\ orch'[o].sev = orch[o].sev /\ orch'[o].sup = orch[o].sup /\ orch'[o].res = res
    BY <1>0, <1>2 DEF Local
  <1>4. orch[o].pc = "call"
    BY DEF Execute, At
  <1>5. /\ orch[o].seq \in Steps /\ orch[o].br \in Nat /\ orch[o].epoch = lease.epoch
        /\ lease.epoch \in Nat
    BY <1>0, <1>4 DEF LocalOK, Sound, Working, Local, OneEpoch, Leading, TypeOK
  <1>6. ASSUME ToolAt(o) \in Irreversible
        PROVE  /\ res = "unknown" => Doubtful
               /\ res = "failed" =>
                     Rejecting /\ effect_key(orch[o].br, orch[o].seq) \notin applied'
    <2>1. PICK t : t = ToolAt(o)
      OBVIOUS
    <2>2. /\ t = ToolOf(Call(o).key) /\ t \in Tools /\ t \in Irreversible
          /\ Call(o).key = effect_key(orch[o].br, orch[o].seq)
      <3>1. Call(o).key = effect_key(orch[o].br, orch[o].seq) /\ Call(o).key[2] = orch[o].seq
        BY DEF Call, effect_key
      <3>2. Trace[orch[o].seq] \in Tools
        BY <1>5, TraceAssumption DEF Steps
      <3> QED BY <1>6, <2>1, <3>1, <3>2 DEF ToolAt, ToolOf
    <2>3. ~ Refused(t, orch[o].epoch)
      <3>1. FenceOf[t] \in Fences
        BY <2>2 DEF Fences
      <3>2. epochSeen[FenceOf[t]] <= lease.epoch /\ epochSeen[FenceOf[t]] \in Nat
        BY <1>0, <3>1 DEF OneEpoch, WorldTypeOK
      <3> QED BY <1>5, <3>2 DEF Refused
    <2>4. t \notin faults.unreachable
      BY <1>0, <2>2 DEF Calm, PagerAnswers
    <2>5. \A req : NoResponder(req) => faults.empty_rotas # {}
      BY DEF NoResponder
    <2>6. t \in Irreversible \cap faults.fail_tools => Rejecting
      BY DEF Rejecting
    <2>7. t \in faults.timeout_tools \/ t \in faults.lost_replies => Doubtful
      BY <2>2 DEF Doubtful
    <2>8. faults.empty_rotas # {} => Rejecting
      BY DEF Rejecting
    <2>9. PICK req : req = Call(o)
      OBVIOUS
    <2>10. /\ execute(req, orch[o].epoch, res) /\ ToolOf(req.key) = t
      BY <1>1, <2>2, <2>9
    <2>11. /\ res = "unknown" => t \in faults.timeout_tools \/ t \in faults.lost_replies
           /\ res = "failed" => /\ t \in faults.fail_tools \/ NoResponder(req)
                                /\ req.key \notin applied /\ applied' = applied
      <3> HIDE DEF NoResponder, Refused
      <3> QED BY <2>3, <2>4, <2>10 DEF execute, TurnedAway, let_in, take_effect, Unreachable, Reply
    <2> QED BY <2>2, <2>5, <2>6, <2>7, <2>8, <2>9, <2>11
  <1> QED BY <1>3, <1>6

\* What a process waits for an answer to, it called, or has probed or announced since.
LEMMA AnswersBy ==
    ASSUME TypeOK, NEW o \in Orchestrators, Run(o) \/ Crash(o),
           orch'[o].pc \in {"called", "ambiguous"}
    PROVE  \/ Execute(o)
           \/ /\ UNCHANGED worldVars
              /\ orch[o].pc = "called" /\ orch'[o].br = orch[o].br /\ orch'[o].seq = orch[o].seq
              /\ orch'[o].sev = orch[o].sev /\ orch'[o].sup = orch[o].sup
              /\ \/ orch'[o].pc = "called" /\ orch'[o].res = orch[o].res
                 \/ orch'[o].pc = "ambiguous" /\ orch[o].res = "unknown"
                 \/ /\ orch'[o].pc = "called" /\ orch[o].res = "unknown"
                    /\ ToolAt(o) \notin Unobservable
                    /\ orch'[o].res = "failed" => effect_key(orch[o].br, orch[o].seq) \notin applied
  <1>0. orch[o] \in Local /\ orch \in [Orchestrators -> Local]
    BY DEF TypeOK
  <1>1. Execute(o) \/ Probe(o) \/ Suppress(o)
    BY <1>0, OtherMoves, StepsTo DEF Run, Lead, Walk, Settle, Drain, Finish
  <1>2. CASE Suppress(o)
    <2>1. orch'[o] = [orch[o] EXCEPT !.prior = FALSE]
      BY <1>0, <1>2 DEF Suppress
    <2>2. orch[o].pc = "called" /\ UNCHANGED worldVars
      BY <1>2 DEF Suppress, At, WritesRecord
    <2> QED BY <1>0, <2>1, <2>2 DEF Local
  <1>3. CASE Probe(o)
    <2>1. /\ orch[o].pc = "called" /\ orch[o].res = "unknown" /\ UNCHANGED worldVars
      BY <1>3 DEF Probe, At, ReadOnly
    <2>2. PICK ans \in {"done", "not_done", "unknown"} :
             /\ probe(Call(o).key, ans)
             /\ orch' = [orch EXCEPT ![o] =
                    CASE ans = "done"     -> [@ EXCEPT !.res = "ok"]
                      [] ans = "not_done" -> [@ EXCEPT !.res = "failed"]
                      [] ans = "unknown"  -> [@ EXCEPT !.pc = "ambiguous"]]
      BY <1>3 DEF Probe
    <2>3. /\ Call(o).key = effect_key(orch[o].br, orch[o].seq) /\ ToolOf(Call(o).key) = ToolAt(o)
      BY DEF Call, effect_key, ToolOf, ToolAt
    <2>4. CASE ans = "done"
      <3>1. orch'[o] = [orch[o] EXCEPT !.res = "ok"]
        BY <1>0, <2>2, <2>4
      <3>2. ToolAt(o) \notin Unobservable
        BY <2>2, <2>3, <2>4 DEF probe
      <3> QED BY <1>0, <2>1, <3>1, <3>2 DEF Local
    <2>5. CASE ans = "not_done"
      <3>1. orch'[o] = [orch[o] EXCEPT !.res = "failed"]
        BY <1>0, <2>2, <2>5
      <3>2. ToolAt(o) \notin Unobservable /\ Call(o).key \notin applied
        BY <2>2, <2>3, <2>5 DEF probe
      <3> QED BY <1>0, <2>1, <2>3, <3>1, <3>2 DEF Local
    <2>6. CASE ans = "unknown"
      <3>1. orch'[o] = [orch[o] EXCEPT !.pc = "ambiguous"]
        BY <1>0, <2>2, <2>6
      <3> QED BY <1>0, <2>1, <3>1 DEF Local
    <2> QED BY <2>2, <2>4, <2>5, <2>6
  <1> QED BY <1>1, <1>2, <1>3

LEMMA DivergesBy ==
    ASSUME TypeOK, NEW o \in Orchestrators, Run(o) \/ Crash(o), orch'[o].pc = "diverge"
    PROVE  RecordResult(o) /\ orch'[o].br = orch[o].br /\ UNCHANGED << branches, worldVars >>
  <1>1. RecordResult(o)
    BY OtherMoves, StepsTo DEF Run, Lead, Walk, Settle, Drain, Finish
  <1>2. UNCHANGED << branches, worldVars >>
    BY <1>1 DEF RecordResult, WritesRecord
  <1>3. orch[o] \in Local /\ orch \in [Orchestrators -> Local]
    BY DEF TypeOK
  <1>4. \E l : orch'[o] = l /\ l.br = orch[o].br
    <2> DEFINE failed   == orch[o].res = "failed"
               injected == orch[o].armed /\ orch[o].seq = config.diverge_after_seq
               settled  == [orch[o] EXCEPT !.prior = FALSE, !.res = NoStatus]
    <2>1. orch'[o] =
             CASE failed /\ ToolAt(o) \in Irreversible -> [settled EXCEPT !.pc = "diverge"]
               [] failed /\ ToolAt(o) \notin Irreversible -> [settled EXCEPT !.pc = "escalate"]
               [] ~ failed /\ injected -> [settled EXCEPT !.pc = "diverge", !.armed = FALSE]
               [] ~ failed /\ ~ injected -> [settled EXCEPT !.pc = "step", !.seq = @ + 1]
      BY <1>1, <1>3 DEF RecordResult
    <2>2. settled.br = orch[o].br /\ settled \in Local
      BY <1>3 DEF Local, NoStatus
    <2> HIDE DEF settled
    <2> QED BY <2>1, <2>2 DEF Local
  <1> QED BY <1>1, <1>2, <1>4

\* On a live branch one step at most is under way.
LEMMA OpenKey ==
    ASSUME Steady, NEW j \in Key, NEW k \in Key, j[1] = k[1],
           Behind(j), Behind(k), j \notin Last("ok"), k \notin Last("ok")
    PROVE  j = k
  <1>1. j = <<j[1], j[2]>> /\ k = <<k[1], k[2]>> /\ j[2] \in Steps /\ k[2] \in Steps
    BY KeyIs
  <1>2. ~ (j[2] < k[2]) /\ ~ (k[2] < j[2])
    BY <1>1 DEF Behind
  <1> QED BY <1>1, <1>2, TraceAssumption DEF Steps

\* A rejected page can only take hold by being asked for again.
LEMMA FailedStays ==
    ASSUME Steady, LateUndecided, [Next]_vars, NEW k \in Last("failed"),
           ToolOf(k) \in Irreversible, k \notin applied, k \in applied'
    PROVE  \E o \in Orchestrators : Execute(o) /\ k = effect_key(orch[o].br, orch[o].seq)
  <1>1. k \notin LateKeys
    BY DEF LateUndecided, Steady, Calm, Irreversible, Unobservable
  <1>2. k \notin Last("unknown")
    BY LastTold DEF Steady, TypeOK
  <1> QED BY <1>1, <1>2, AppliedBy

LEMMA AnsweredOf ==
    ASSUME NEW o \in Orchestrators, NEW m, m = orch'[o], Judged(m)', Rejected(m)'
    PROVE  Judged(orch[o])' /\ Rejected(orch[o])'
  <1>1. Judged(orch[o])'
    BY DEF Judged, Doubtful, Rejecting
  <1>2. Rejected(orch[o])'
    BY DEF Rejected, Last, Rows, last_result, ToolOf, KeyOf
  <1> QED BY <1>1, <1>2

LEMMA FatedMoves ==
    ASSUME PagerAnswers, Steady, OneEpoch, LateUndecided, Replays, Fated, [Next]_vars,
           NEW o \in Orchestrators, Run(o) \/ Crash(o)
    PROVE  Judged(orch[o])' /\ Rejected(orch[o])'
  <1>0. /\ TypeOK /\ LocalOK /\ Path /\ Tree /\ Ground /\ JournalTypeOK /\ faults' = faults
        /\ Judged(orch[o])
    BY SettingsStay DEF Steady, TypeOK, Tree, settings, Fated
  <1>1. PICK m : m = orch'[o]
    OBVIOUS
  <1>2. ASSUME m.pc \in {"called", "ambiguous"}, Trace[m.seq] \in Irreversible
        PROVE  /\ m.pc = "ambiguous" \/ m.res = "unknown" => Doubtful
               /\ (m.pc = "called" /\ m.res = "failed") =>
                     Rejecting /\ effect_key(m.br, m.seq) \notin applied'
    <2>1. CASE Execute(o)
      BY <1>1, <1>2, <2>1, PagerSays DEF ToolAt
    <2>2. CASE ~ Execute(o)
      <3>1. /\ UNCHANGED worldVars
            /\ orch[o].pc = "called" /\ m.br = orch[o].br /\ m.seq = orch[o].seq
            /\ \/ m.pc = "called" /\ m.res = orch[o].res
               \/ m.pc = "ambiguous" /\ orch[o].res = "unknown"
               \/ m.pc = "called" /\ orch[o].res = "unknown" /\ ToolAt(o) \notin Unobservable
        BY <1>0, <1>1, <1>2, <2>2, AnswersBy
      <3>2. ToolAt(o) \in Irreversible /\ ToolAt(o) \in Unobservable /\ Trace[orch[o].seq] \in Irreversible
        BY <1>2, <3>1 DEF ToolAt, Irreversible, Unobservable
      <3>3. applied' = applied
        BY <3>1 DEF worldVars
      <3> QED BY <1>0, <3>1, <3>2, <3>3 DEF Judged
    <2> QED BY <2>1, <2>2
  <1>3. Judged(m)'
    <2>1. Doubtful' = Doubtful /\ Rejecting' = Rejecting
      BY <1>0 DEF Doubtful, Rejecting
    <2> QED BY <1>2, <2>1 DEF Judged
  <1>4. ASSUME m.pc = "diverge", NEW k \in Last("failed")', k[1] = m.br, ToolOf(k) \in Irreversible
        PROVE  k \notin applied'
    <2>1. RecordResult(o) /\ m.br = orch[o].br /\ applied' = applied
      BY <1>0, <1>1, <1>4, DivergesBy DEF worldVars
    <2>2. PICK q \in Key, st \in {"ok", "failed"} :
              /\ orch[o].pc = "called" /\ orch[o].res = st
              /\ q[1] = orch[o].br /\ q[2] = orch[o].seq
              /\ ResultOf(q, st)
      BY <1>0, <2>1, TellsOfCall
    <2>3. q = effect_key(orch[o].br, orch[o].seq)
      BY <2>2, KeyIs DEF effect_key
    <2>4. Behind(q) /\ q \notin Last("ok") /\ IsActive(q[1])
      BY <1>0, <2>2, <2>3, NotYet DEF Working
    <2>5. CASE k = q
      <3>1. st = "failed"
        BY <1>0, <2>2, <2>5, ResultTold, <1>4
      <3>2. Trace[orch[o].seq] \in Irreversible
        BY <1>4, <2>2, <2>5 DEF ToolOf
      <3> QED BY <1>0, <2>1, <2>2, <2>3, <2>5, <3>1, <3>2 DEF Judged
    <2>6. CASE k # q
      <3>1. k \in Last("failed")
        BY <1>0, <1>4, <2>2, <2>6, ResultTold
      <3>2. k \in Touched /\ k \notin Last("ok")
        BY <1>0, <3>1, LastTold DEF Touched
      <3>3. k \in Key /\ Behind(k)
        BY <1>0, <1>4, <2>1, <2>2, <2>4, <3>2 DEF Ground
      <3> QED BY <1>4, <2>1, <2>2, <2>4, <2>6, <3>2, <3>3, OpenKey
    <2> QED BY <2>5, <2>6
  <1>5. Rejected(m)'
    BY <1>4 DEF Rejected, ToolOf
  <1> QED BY <1>1, <1>3, <1>5, AnsweredOf

LEMMA FatedNext ==
    ASSUME PagerAnswers, Steady, OneEpoch, LateUndecided, Replays, Fated, [Next]_vars
    PROVE  Fated'
  <1>0. /\ TypeOK /\ LocalOK /\ Path /\ Tree /\ Ground /\ JournalTypeOK /\ faults' = faults
        /\ Calm
    BY SettingsStay DEF Steady, TypeOK, Tree, settings
  <1>1. Doubtful' = Doubtful /\ Rejecting' = Rejecting
    BY <1>0 DEF Doubtful, Rejecting
  <1>2. ASSUME NEW r \in Rows("RESULT")', ToolOf(KeyOf(r)') \in Irreversible
        PROVE  /\ journal'[r].status = "unknown" => Doubtful
               /\ journal'[r].status = "failed" => Rejecting
    <2>1. ASSUME r \in Rows("RESULT"), journal'[r] = journal[r], KeyOf(r)' = KeyOf(r)
          PROVE  /\ journal'[r].status = "unknown" => Doubtful
                 /\ journal'[r].status = "failed" => Rejecting
      BY <1>2, <2>1 DEF Fated
    <2>2. CASE NoResult
      BY <1>0, <1>2, <2>1, <2>2, NothingTold
    <2>3. ASSUME NEW k \in Key, NEW st \in ResultStatus, ResultOf(k, st),
                 \/ \E o \in Orchestrators :
                       /\ RecordResult(o) \/ Ambiguous(o)
                       /\ k = effect_key(orch[o].br, orch[o].seq)
                       /\ RecordResult(o) => orch[o].pc = "called" /\ orch[o].res = st
                       /\ Ambiguous(o) => orch[o].pc = "ambiguous" /\ st = "unknown"
                 \/ st = "ok"
          PROVE  /\ journal'[r].status = "unknown" => Doubtful
                 /\ journal'[r].status = "failed" => Rejecting
      <3>1. PICK n \in Nat : /\ Rows("RESULT")' = Rows("RESULT") \cup {n} /\ KeyOf(n)' = k
                             /\ journal'[n].status = st
        BY <1>0, <2>3, ResultTold
      <3>2. r \in Rows("RESULT") => journal'[r] = journal[r] /\ KeyOf(r)' = KeyOf(r)
        BY <1>0, <2>3, ResultTold
      <3>3. ASSUME r = n, NEW o \in Orchestrators, k = effect_key(orch[o].br, orch[o].seq),
                   \/ orch[o].pc = "called" /\ orch[o].res = st
                   \/ orch[o].pc = "ambiguous" /\ st = "unknown"
            PROVE  /\ journal'[r].status = "unknown" => Doubtful
                   /\ journal'[r].status = "failed" => Rejecting
        <4>1. Trace[orch[o].seq] \in Irreversible
          BY <1>2, <3>1, <3>3 DEF ToolOf, effect_key
        <4>2. Judged(orch[o])
          BY DEF Fated
        <4> QED BY <3>1, <3>3, <4>1, <4>2 DEF Judged
      <3> QED BY <1>2, <2>1, <2>3, <3>1, <3>2, <3>3
    <2> QED BY <2>2, <2>3, ResultsBy
  <1>3. ASSUME NEW k \in Last("failed")', ToolOf(k) \in Irreversible, ~ IsActive(k[1])'
        PROVE  k \notin applied'
    <2>1. k \in Last("failed")
      <3>1. CASE NoResult
        BY <1>0, <1>3, <3>1, NothingTold
      <3>2. ASSUME UNCHANGED branches, NEW q \in Key, NEW st, ResultOf(q, st), IsActive(q[1])
            PROVE  k \in Last("failed")
        <4>1. k # q
          BY <1>3, <3>2 DEF IsActive
        <4> QED BY <1>0, <1>3, <3>2, <4>1, ResultTold
      <3> QED BY <3>1, <3>2, ResultsBy
    <2>2. k \in Touched /\ k \in Key /\ k[1] \in DOMAIN branches
      BY <1>0, <2>1, LastTold DEF Touched, Ground
    <2>3. CASE ~ IsActive(k[1])
      <3>1. k \notin applied
        BY <1>3, <2>1, <2>3 DEF Fated
      <3>2. ASSUME NEW o \in Orchestrators, Execute(o), k = effect_key(orch[o].br, orch[o].seq)
            PROVE  FALSE
        <4>1. k[1] = orch[o].br
          BY <3>2 DEF effect_key
        <4>2. IsActive(orch[o].br)
          BY <1>0, <3>2, ExecuteDoes
        <4> QED BY <2>3, <4>1, <4>2
      <3> QED BY <1>3, <2>1, <3>1, <3>2, FailedStays
    <2>4. CASE IsActive(k[1])
      <3>1. PICK o \in Orchestrators : Abandon(o)
        BY <1>0, <1>3, <2>2, <2>4, AliveStays
      <3>2. k[1] = orch[o].br
        <4>1. orch[o].br \in DOMAIN branches /\ set_branch_status(orch[o].br, "abandoned")
          BY <1>0, <3>1 DEF Abandon, At, LocalOK, Sound, Branchless
        <4> QED BY <1>0, <1>3, <2>2, <2>4, <4>1, MarkedBranch DEF IsActive
      <3>3. orch[o].pc = "diverge" /\ applied' = applied
        BY <3>1 DEF Abandon, At, WritesTree, worldVars
      <3> QED BY <1>3, <2>1, <3>2, <3>3 DEF Fated, Rejected
    <2> QED BY <2>3, <2>4
  <1>4. ASSUME NEW o \in Orchestrators PROVE Judged(orch[o])' /\ Rejected(orch[o])'
    <2>1. CASE Run(o) \/ Crash(o)
      BY <2>1, FatedMoves
    <2>2. ASSUME orch'[o] = orch[o], UNCHANGED journalVars, UNCHANGED worldVars \/ Land
          PROVE  Judged(orch[o])' /\ Rejected(orch[o])'
      <3>1. PICK m : m = orch'[o]
        OBVIOUS
      <3>2. Judged(m) /\ Rejected(m)
        BY <2>2, <3>1 DEF Fated
      <3>3. ASSUME NEW k, k \in applied', k \notin applied PROVE k \in LateKeys
        <4>1. CASE UNCHANGED worldVars
          BY <3>3, <4>1 DEF worldVars
        <4>2. CASE Land
          <5>1. \A p \in Orchestrators : ~ Execute(p) /\ ~ Recheck(p)
            <6>1. UNCHANGED orch /\ orch \in [Orchestrators -> Local]
              BY <1>0, <4>2 DEF Land, TypeOK
            <6>2. ASSUME NEW p \in Orchestrators, Execute(p) PROVE FALSE
              BY <1>0, <6>1, <6>2, StepsTo, StartsAt
            <6>3. ASSUME NEW p \in Orchestrators, Recheck(p) PROVE FALSE
              <7>1. PICK res : orch' = [orch EXCEPT ![p] = [@ EXCEPT !.pc = "rechecked", !.res = res]]
                BY <6>3, Zenon DEF Recheck
              <7>2. orch'[p].pc = "rechecked"
                BY <6>1, <7>1 DEF Local
              <7> QED BY <6>1, <6>3, <7>2, StartsAt
            <6> QED BY <6>2, <6>3
          <5> QED BY <3>3, <5>1, AppliedBy
        <4> QED BY <2>2, <4>1, <4>2
      <3>4. Judged(m)'
        <4>1. ASSUME m.pc = "called", m.res = "failed", Trace[m.seq] \in Irreversible
              PROVE  effect_key(m.br, m.seq) \notin LateKeys
          <5>1. ToolAt(o) \notin faults.late_delivery_tools
            BY <2>2, <3>1, <4>1 DEF LateUndecided, Undecided, ToolAt, Irreversible, Unobservable
          <5>2. ToolOf(effect_key(m.br, m.seq)) = ToolAt(o)
            BY <2>2, <3>1 DEF ToolOf, effect_key, ToolAt
          <5> QED BY <1>0, <5>1, <5>2 DEF Calm
        <4> QED BY <1>1, <3>2, <3>3, <4>1 DEF Judged
      <3>5. Rejected(m)'
        <4>1. Last("failed")' = Last("failed")
          BY <2>2 DEF Last, Rows, last_result, KeyOf, journalVars
        <4>2. ASSUME NEW k \in Last("failed"), ToolOf(k) \in Irreversible PROVE k \notin LateKeys
          BY <1>0, <4>2 DEF LateUndecided, Calm, Irreversible, Unobservable
        <4> QED BY <3>2, <3>3, <4>1, <4>2 DEF Rejected, ToolOf
      <3> QED BY <3>1, <3>4, <3>5, AnsweredOf
    <2>3. ASSUME orch'[o] = orch[o], ~ Busy(o) PROVE Judged(orch[o])' /\ Rejected(orch[o])'
      <3>1. PICK m : m = orch'[o]
        OBVIOUS
      <3>2. m.pc \in {"idle", "recheck", "rechecked", "matched"}
        BY <2>3, <3>1 DEF Busy
      <3>3. Judged(m)' /\ Rejected(m)'
        BY <3>2 DEF Judged, Rejected
      <3> QED BY <3>1, <3>3, AnsweredOf
    <2> QED BY <2>1, <2>2, <2>3, StepFor
  <1> QED BY <1>1, <1>2, <1>3, <1>4 DEF Fated, ToolOf

LEMMA FatedAlways ==
    ASSUME NoTakeover, Apart, LateAnswers, PagerAnswers
    PROVE  Spec => [](Replays => Fated)
  <1>1. Init => Fated
    BY InitNothing DEF Fated, Judged, Rejected
  <1>2. Steady /\ OneEpoch /\ LateUndecided /\ (Replays => Fated) /\ [Next]_vars => (Replays => Fated)'
    <2> SUFFICES ASSUME Steady, OneEpoch, LateUndecided, Replays => Fated, [Next]_vars, Replays'
                 PROVE  Fated'
      OBVIOUS
    <2>1. Replays
      BY SettingsStay DEF settings, Replays, Steady
    <2> QED BY <2>1, FatedNext
  <1> QED BY <1>1, <1>2, SteadyAlways, OneEpochAlways, LateUndecidedAlways, PTL DEF Spec

------------------------------------------------------------------------------
(* Severities and annotations on their way into the journal and the world  *)

\* A late call or a result of key k carries this severity and annotation, and so does
\* the call that a process makes.
Said(k, sev, sup) ==
    \/ \E req \in BagToSet(late) : req.key = k /\ req.sev = sev /\ req.sup = sup
    \/ \E r \in Rows("RESULT") : KeyOf(r) = k /\ journal[r].sev = sev /\ journal[r].sup = sup
Calling(o, k, sev, sup) ==
    /\ orch[o].pc \in {"call", "called", "ambiguous"}
    /\ k = effect_key(orch[o].br, orch[o].seq)
    /\ sev = orch[o].sev /\ sup = Call(o).sup

LEMMA RowBy ==
    ASSUME Steady, [Next]_vars, NEW r \in Rows("RESULT")'
    PROVE  \/ r \in Rows("RESULT") /\ journal'[r] = journal[r] /\ KeyOf(r)' = KeyOf(r)
           \/ \E o \in Orchestrators : Calling(o, KeyOf(r)', journal'[r].sev, journal'[r].sup)
           \/ \E q \in UnknownResults : /\ KeyOf(r)' = KeyOf(q) /\ journal'[r].sev = journal[q].sev
                                        /\ journal'[r].sup = journal[q].sup
  <1>0. TypeOK /\ LocalOK /\ Tree /\ JournalTypeOK /\ orch \in [Orchestrators -> Local]
    BY DEF Steady, TypeOK
  <1>1. ASSUME NEW rec \in Record, append(rec)
        PROVE  \/ r \in Rows("RESULT") /\ journal'[r] = journal[r] /\ KeyOf(r)' = KeyOf(r)
               \/ journal'[r] = rec
    BY <1>0, <1>1, AppendKeeps DEF append, JournalTypeOK, Rows, KeyOf
  <1>2. CASE NoResult
    BY <1>0, <1>2, NothingTold
  <1>3. ASSUME NEW o \in Orchestrators, NEW st \in ResultStatus,
               append(StepRow(o, "RESULT", st)), orch[o].pc \in {"called", "ambiguous"},
               journal'[r] = StepRow(o, "RESULT", st)
        PROVE  Calling(o, KeyOf(r)', journal'[r].sev, journal'[r].sup)
    <2>1. /\ journal'[r].br = orch[o].br /\ journal'[r].seq = orch[o].seq
          /\ journal'[r].sev = orch[o].sev /\ journal'[r].sup = Call(o).sup
      BY <1>3 DEF StepRow
    <2> QED BY <1>3, <2>1 DEF Calling, KeyOf, effect_key
  <1>4. ASSUME NEW o \in Orchestrators, RecordResult(o) \/ Ambiguous(o)
        PROVE  \E st \in ResultStatus : append(StepRow(o, "RESULT", st))
                                        /\ orch[o].pc \in {"called", "ambiguous"}
    <2>1. CASE RecordResult(o)
      <3>1. append(StepRow(o, "RESULT", orch[o].res)) /\ orch[o].pc = "called"
        BY <2>1 DEF RecordResult, At
      <3>2. orch[o].res \in ResultStatus
        BY <3>1 DEF Steady, Path, PathOK
      <3> QED BY <3>1, <3>2
    <2>2. CASE Ambiguous(o)
      BY <2>2 DEF Ambiguous, At, ResultStatus
    <2> QED BY <1>4, <2>1, <2>2
  <1>5. ASSUME NEW o \in Orchestrators, Resettle(o)
        PROVE  \E q \in UnknownResults : append(SlotRow("RESULT", q, "ok"))
    <2>1. PICK q \in DOMAIN journal : NextRedo(o, q) /\ append(SlotRow("RESULT", q, "ok"))
      BY <1>5, Zenon DEF Resettle
    <2>2. orch[o].pc = "matched"
      BY <1>5, StartsAt
    <2>3. q \in UnknownResults
      BY <1>0, <2>1, <2>2 DEF NextRedo, Tree, Reviewed, Resting
    <2> QED BY <2>1, <2>3
  <1>6. ASSUME NEW q \in UnknownResults, append(SlotRow("RESULT", q, "ok")),
               journal'[r] = SlotRow("RESULT", q, "ok")
        PROVE  /\ KeyOf(r)' = KeyOf(q) /\ journal'[r].sev = journal[q].sev
               /\ journal'[r].sup = journal[q].sup
    <2>1. journal[q] \in Record
      BY <1>0 DEF UnknownResults, Rows, JournalTypeOK
    <2>2. /\ journal'[r].br = journal[q].br /\ journal'[r].seq = journal[q].seq
          /\ journal'[r].sev = journal[q].sev /\ journal'[r].sup = journal[q].sup
      BY <1>6, <2>1 DEF SlotRow, Record
    <2> QED BY <2>2 DEF KeyOf
  <1>7. \A o \in Orchestrators, st \in ResultStatus : orch[o].pc \in {"called", "ambiguous"}
           => StepRow(o, "RESULT", st) \in Record
    BY <1>0, StepRowType DEF RecordKind
  <1>8. \A q \in UnknownResults : SlotRow("RESULT", q, "ok") \in Record
    BY <1>0, SlotRowType DEF RecordKind, ResultStatus, UnknownResults, Rows
  <1> QED BY <1>1, <1>2, <1>3, <1>4, <1>5, <1>6, <1>7, <1>8, ResultSteps

LEMMA RecordIs ==
    ASSUME ledger \in Seq(Entry), NEW req \in Request, NEW epoch \in Nat,
           NEW kind \in {"effect", "compensation"}, record(kind, req, epoch)
    PROVE  \E n : /\ n = Len(ledger) + 1 /\ n \notin DOMAIN ledger
                  /\ DOMAIN ledger' = DOMAIN ledger \cup {n}
                  /\ ledger'[n].kind = kind /\ ledger'[n].key = req.key
                  /\ ledger'[n].sev = req.sev /\ ledger'[n].sup = req.sup
                  /\ \A i \in DOMAIN ledger : ledger'[i] = ledger[i]
  <1>1. PICK e : e = [kind |-> kind, key |-> req.key, sev |-> req.sev, sup |-> req.sup,
                      epoch |-> epoch]
    OBVIOUS
  <1>2. /\ e \in Entry /\ e.kind = kind /\ e.key = req.key /\ e.sev = req.sev /\ e.sup = req.sup
    BY <1>1 DEF Entry, Request
  <1>3. ledger' = Append(ledger, e)
    BY <1>1 DEF record
  <1> QED BY <1>2, <1>3, AppendKeeps

\* What a call or a late delivery enters.
LEMMA CallEnters ==
    ASSUME WorldTypeOK, NEW req \in Request
    PROVE  /\ \A epoch \in Nat, res \in ResultStatus : execute(req, epoch, res) =>
                 \/ UNCHANGED ledger
                 \/ req.key \notin applied /\ record("effect", req, epoch)
           /\ land(req) => \/ UNCHANGED ledger
                           \/ req.key \notin applied /\ record("effect", req, 0)
  <1>1. ASSUME NEW epoch \in Nat, NEW res \in ResultStatus, execute(req, epoch, res)
        PROVE  \/ UNCHANGED ledger
               \/ req.key \notin applied /\ record("effect", req, epoch)
    BY <1>1 DEF execute, TurnedAway, let_in, take_effect, worldVars
  <1>2. ASSUME land(req)
        PROVE  \/ UNCHANGED ledger
               \/ req.key \notin applied /\ record("effect", req, 0)
    BY <1>2 DEF land
  <1> QED BY <1>1, <1>2

LEMMA RecheckCalls ==
    ASSUME Steady, NEW o \in Orchestrators, Recheck(o)
    PROVE  \E q \in UnknownResults, req \in Request, epoch \in Nat, res \in ResultStatus :
              /\ execute(req, epoch, res) /\ req.key = KeyOf(q)
              /\ req.sev = journal[q].sev /\ req.sup = journal[q].sup
  <1>0. TypeOK /\ Tree /\ JournalTypeOK /\ orch[o] \in Local
    BY DEF Steady, TypeOK
  <1>1. PICK q \in DOMAIN journal, res \in ResultStatus :
           /\ NextRedo(o, q)
           /\ execute([key |-> KeyOf(q), sev |-> journal[q].sev, sup |-> journal[q].sup],
                      orch[o].epoch, res)
    BY Zenon DEF Recheck
  <1>2. orch[o].pc = "recheck"
    BY StartsAt
  <1>3. q \in UnknownResults
    BY <1>0, <1>1, <1>2 DEF NextRedo, Tree, Reviewed, Resting
  <1>4. journal[q] \in Record /\ KeyOf(q) \in Key
    <2>1. journal[q] \in Record /\ journal[q].seq \in Steps
      BY <1>0, <1>3 DEF UnknownResults, Rows, JournalTypeOK
    <2>2. journal[q].br \in Nat
      BY <2>1 DEF Record
    <2> QED BY <2>1, <2>2 DEF KeyOf, effect_key, Key
  <1>5. [key |-> KeyOf(q), sev |-> journal[q].sev, sup |-> journal[q].sup] \in Request
    BY <1>4 DEF Request, Record
  <1>6. orch[o].epoch \in Nat
    BY <1>0 DEF Local
  <1> QED BY <1>1, <1>3, <1>5, <1>6

LEMMA ExecuteCalls ==
    ASSUME Steady, NEW o \in Orchestrators, Execute(o)
    PROVE  \E req \in Request, epoch \in Nat, res \in ResultStatus :
              /\ execute(req, epoch, res) /\ req.key = effect_key(orch[o].br, orch[o].seq)
              /\ req.sev = orch[o].sev /\ req.sup = Call(o).sup
              /\ Calling(o, req.key, req.sev, req.sup)
  <1>0. TypeOK /\ orch[o] \in Local
    BY DEF Steady, TypeOK
  <1>1. PICK res \in ResultStatus : execute(Call(o), orch[o].epoch, res)
    BY Zenon DEF Execute
  <1>2. orch[o].pc = "call" /\ orch[o].seq \in Steps
    BY StartsAt DEF Steady, LocalOK, Sound, Working
  <1>3. Call(o) \in Request
    BY <1>0, <1>2, CallType
  <1>4. Call(o).key = effect_key(orch[o].br, orch[o].seq) /\ Call(o).sev = orch[o].sev
    BY DEF Call
  <1>5. orch[o].epoch \in Nat
    BY <1>0 DEF Local
  <1>6. PICK req : req = Call(o)
    OBVIOUS
  <1>7. Calling(o, req.key, req.sev, req.sup)
    BY <1>2, <1>4, <1>6 DEF Calling
  <1> QED BY <1>1, <1>3, <1>4, <1>5, <1>6, <1>7

LEMMA RowSaid ==
    ASSUME NEW q \in UnknownResults
    PROVE  Said(KeyOf(q), journal[q].sev, journal[q].sup)
  BY DEF Said, UnknownResults

LEMMA SaidBy ==
    ASSUME Steady, [Next]_vars, NEW k, NEW sev, NEW sup, Said(k, sev, sup)'
    PROVE  Said(k, sev, sup) \/ \E o \in Orchestrators : Calling(o, k, sev, sup)
  <1>0. TypeOK /\ LocalOK /\ WorldTypeOK
    BY DEF Steady, TypeOK
  <1>1. ASSUME NEW r \in Rows("RESULT")', KeyOf(r)' = k, journal'[r].sev = sev,
               journal'[r].sup = sup
        PROVE  Said(k, sev, sup) \/ \E o \in Orchestrators : Calling(o, k, sev, sup)
    <2>1. CASE r \in Rows("RESULT") /\ journal'[r] = journal[r] /\ KeyOf(r)' = KeyOf(r)
      BY <1>1, <2>1 DEF Said
    <2>2. CASE \E o \in Orchestrators : Calling(o, KeyOf(r)', journal'[r].sev, journal'[r].sup)
      BY <1>1, <2>2
    <2>3. CASE \E q \in UnknownResults : /\ KeyOf(r)' = KeyOf(q) /\ journal'[r].sev = journal[q].sev
                                         /\ journal'[r].sup = journal[q].sup
      BY <1>1, <2>3, RowSaid
    <2> QED BY <2>1, <2>2, <2>3, RowBy
  <1>2. ASSUME NEW req \in BagToSet(late'), req.key = k, req.sev = sev, req.sup = sup
        PROVE  Said(k, sev, sup) \/ \E o \in Orchestrators : Calling(o, k, sev, sup)
    <2>1. CASE req \in BagToSet(late)
      BY <1>2, <2>1 DEF Said
    <2>2. ASSUME NEW o \in Orchestrators, Execute(o), req \notin BagToSet(late)
          PROVE  Calling(o, k, sev, sup)
      <3>1. PICK call \in Request, epoch \in Nat, res \in ResultStatus :
               execute(call, epoch, res) /\ Calling(o, call.key, call.sev, call.sup)
        BY <2>2, ExecuteCalls
      <3>2. req = call
        BY <1>0, <1>2, <2>2, <3>1, ExecuteStep
      <3> QED BY <1>2, <3>1, <3>2
    <2>3. ASSUME NEW o \in Orchestrators, Recheck(o), req \notin BagToSet(late)
          PROVE  Said(k, sev, sup)
      <3>1. PICK q \in UnknownResults, call \in Request, epoch \in Nat, res \in ResultStatus :
               /\ execute(call, epoch, res) /\ call.key = KeyOf(q)
               /\ call.sev = journal[q].sev /\ call.sup = journal[q].sup
        BY <2>3, RecheckCalls
      <3>2. req = call
        BY <1>0, <1>2, <2>3, <3>1, ExecuteStep
      <3> QED BY <1>2, <3>1, <3>2, RowSaid
    <2>4. ASSUME NEW o \in Orchestrators, Undo(o) PROVE late' = late
      BY <1>0, <2>4, UndoDoes
    <2>5. ASSUME Land PROVE req \in BagToSet(late)
      <3>1. PICK call \in BagToSet(late) : land(call)
        BY <2>5 DEF Land
      <3>2. call \in Request
        BY <1>0, <3>1 DEF WorldTypeOK
      <3> QED BY <1>0, <1>2, <3>1, <3>2, LandStep
    <2>6. \/ UNCHANGED worldVars \/ Land
          \/ \E o \in Orchestrators : Execute(o) \/ Undo(o) \/ Recheck(o)
      BY CallsOnly DEF Next, Lapse, Redeliver, EngineVars, vars
    <2> QED BY <1>2, <2>1, <2>2, <2>3, <2>4, <2>5, <2>6 DEF worldVars
  <1> QED BY <1>1, <1>2 DEF Said

SameEntries == /\ Entries("effect")' = Entries("effect")
               /\ \A i \in Entries("effect") : ledger'[i] = ledger[i]
NewEntry(n, k, sev, sup) ==
    /\ n \notin DOMAIN ledger /\ Entries("effect")' = Entries("effect") \cup {n}
    /\ \A i \in Entries("effect") : ledger'[i] = ledger[i] /\ i < n
    /\ ledger'[n].key = k /\ ledger'[n].sev = sev /\ ledger'[n].sup = sup
    /\ k \notin applied /\ k \in applied'

LEMMA RecordEnters ==
    ASSUME WorldTypeOK, NEW req \in Request, NEW epoch \in Nat, record("effect", req, epoch),
           req.key \notin applied, req.key \in applied'
    PROVE  \E n \in Nat : NewEntry(n, req.key, req.sev, req.sup)
  <1>0. ledger \in Seq(Entry)
    BY DEF WorldTypeOK
  <1>1. PICK n : /\ n = Len(ledger) + 1 /\ n \notin DOMAIN ledger
                 /\ DOMAIN ledger' = DOMAIN ledger \cup {n}
                 /\ ledger'[n].kind = "effect" /\ ledger'[n].key = req.key
                 /\ ledger'[n].sev = req.sev /\ ledger'[n].sup = req.sup
                 /\ \A i \in DOMAIN ledger : ledger'[i] = ledger[i]
    BY <1>0, RecordIs
  <1>2. Entries("effect")' = Entries("effect") \cup {n}
    BY <1>1 DEF Entries
  <1>3. \A i \in Entries("effect") : ledger'[i] = ledger[i] /\ i < n
    BY <1>0, <1>1 DEF Entries
  <1>4. n \in Nat
    BY <1>0, <1>1
  <1> QED BY <1>1, <1>2, <1>3, <1>4 DEF NewEntry

LEMMA EntersBy ==
    ASSUME Steady, [Next]_vars
    PROVE  \/ SameEntries
           \/ \E n \in Nat, k \in Key : \E sev, sup :
                 /\ NewEntry(n, k, sev, sup)
                 /\ Said(k, sev, sup) \/ \E o \in Orchestrators : Calling(o, k, sev, sup)
  <1>0. TypeOK /\ LocalOK /\ WorldTypeOK /\ ledger \in Seq(Entry)
    BY DEF Steady, TypeOK, WorldTypeOK
  <1>1. ASSUME UNCHANGED ledger PROVE SameEntries
    BY <1>1 DEF SameEntries, Entries
  <1>2. ASSUME NEW req \in Request, NEW epoch \in Nat, NEW res \in ResultStatus,
               execute(req, epoch, res)
        PROVE  SameEntries \/ \E n \in Nat : NewEntry(n, req.key, req.sev, req.sup)
    <2>1. CASE UNCHANGED ledger
      BY <1>1, <2>1
    <2>2. CASE req.key \notin applied /\ record("effect", req, epoch)
      <3>1. req.key \in applied'
        <4>1. Still \/ Effect(req.key)
          BY <1>0, <1>2, ExecuteStep
        <4>2. ~ Still
          <5>1. PICK n : n \notin DOMAIN ledger /\ DOMAIN ledger' = DOMAIN ledger \cup {n}
            BY <1>0, <2>2, RecordIs
          <5> QED BY <5>1 DEF Still
        <4> QED BY <4>1, <4>2 DEF Effect
      <3> QED BY <1>0, <2>2, <3>1, RecordEnters
    <2> QED BY <1>0, <1>2, <2>1, <2>2, CallEnters
  <1>3. ASSUME NEW o \in Orchestrators, Execute(o)
        PROVE  SameEntries \/ \E n \in Nat, k \in Key : \E sev, sup :
                                 NewEntry(n, k, sev, sup) /\ Calling(o, k, sev, sup)
    <2>1. PICK req \in Request, epoch \in Nat, res \in ResultStatus :
             execute(req, epoch, res) /\ Calling(o, req.key, req.sev, req.sup)
      BY <1>3, ExecuteCalls
    <2>2. req.key \in Key
      BY DEF Request
    <2> QED BY <1>2, <2>1, <2>2
  <1>4. ASSUME NEW o \in Orchestrators, Recheck(o)
        PROVE  SameEntries \/ \E n \in Nat, k \in Key : \E sev, sup :
                                 NewEntry(n, k, sev, sup) /\ Said(k, sev, sup)
    <2>1. PICK q \in UnknownResults, req \in Request, epoch \in Nat, res \in ResultStatus :
             /\ execute(req, epoch, res) /\ req.key = KeyOf(q)
             /\ req.sev = journal[q].sev /\ req.sup = journal[q].sup
      BY <1>4, RecheckCalls
    <2>2. req.key \in Key
      BY DEF Request
    <2>3. Said(req.key, req.sev, req.sup)
      BY <2>1, RowSaid
    <2> QED BY <1>2, <2>1, <2>2, <2>3
  <1>5. ASSUME Land
        PROVE  SameEntries \/ \E n \in Nat, k \in Key : \E sev, sup :
                                 NewEntry(n, k, sev, sup) /\ Said(k, sev, sup)
    <2>1. PICK req \in BagToSet(late) : land(req)
      BY <1>5 DEF Land
    <2>2. req \in Request /\ req.key \in Key
      BY <1>0, <2>1 DEF WorldTypeOK, Request
    <2>3. Said(req.key, req.sev, req.sup)
      BY <2>1 DEF Said
    <2>4. CASE UNCHANGED ledger
      BY <1>1, <2>4
    <2>5. CASE req.key \notin applied /\ record("effect", req, 0)
      <3>1. req.key \in applied'
        BY <2>1, <2>5 DEF land, Hold
      <3>2. \E n \in Nat : NewEntry(n, req.key, req.sev, req.sup)
        BY <1>0, <2>2, <2>5, <3>1, RecordEnters
      <3> QED BY <2>2, <2>3, <3>2
    <2> QED BY <1>0, <2>1, <2>2, <2>4, <2>5, CallEnters
  <1>6. ASSUME NEW o \in Orchestrators, Undo(o) PROVE SameEntries
    <2>1. PICK r \in orch[o].todo : Still \/ Compensation(KeyOf(r))
      <3>1. PICK r \in orch[o].todo, res \in ResultStatus :
               \/ Still /\ res # "ok"
               \/ /\ Compensation(KeyOf(r))
                  /\ res = "ok" \/ ToolOf(KeyOf(r)) \in faults.lost_replies
        BY <1>0, <1>6, UndoDoes, Zenon
      <3> QED BY <3>1
    <2>2. CASE Still
      BY <1>1, <2>2 DEF Still
    <2>3. CASE Compensation(KeyOf(r))
      <3>1. PICK e \in Entry : e.kind = "compensation" /\ ledger' = Append(ledger, e)
        BY <2>3 DEF Compensation
      <3>2. PICK n : /\ n \notin DOMAIN ledger /\ ledger'[n] = e
                     /\ \A i \in DOMAIN ledger : ledger'[i] = ledger[i]
                     /\ \A kind : Entries(kind)' = IF e.kind = kind THEN Entries(kind) \cup {n}
                                                                    ELSE Entries(kind)
        BY <1>0, <3>1, EntriesAfter
      <3> QED BY <3>1, <3>2 DEF SameEntries, Entries
    <2> QED BY <2>1, <2>2, <2>3
  <1>7. \/ UNCHANGED worldVars \/ Land
        \/ \E o \in Orchestrators : Execute(o) \/ Undo(o) \/ Recheck(o)
    BY CallsOnly DEF Next, Lapse, Redeliver, EngineVars, vars
  <1> QED BY <1>1, <1>3, <1>4, <1>5, <1>6, <1>7 DEF worldVars

------------------------------------------------------------------------------
(* How a page that went out is remembered and named                        *)

\* On its branch a process keeps its branch, its severity and its annotation.
TagsKept(o) == orch'[o].pc \in OnPath =>
                  /\ orch[o].pc \in OnPath /\ orch'[o].br = orch[o].br
                  /\ orch'[o].sev = orch[o].sev /\ orch'[o].sup = orch[o].sup

LEMMA TagsJump ==
    ASSUME TypeOK, NEW o \in Orchestrators, NEW l, orch' = [orch EXCEPT ![o] = l],
           orch[o].pc \in OnPath, l.br = orch[o].br, l.sev = orch[o].sev, l.sup = orch[o].sup
    PROVE  TagsKept(o)
  <1>1. orch'[o] = l
    BY DEF TypeOK
  <1> QED BY <1>1 DEF TagsKept

LEMMA TagsStay ==
    ASSUME TypeOK, NEW o \in Orchestrators, Run(o) \/ Crash(o)
    PROVE  SelectActive(o) \/ SelectFresh(o) \/ RecordFork(o) \/ ForkNaive(o) \/ TagsKept(o)
  <1>0. orch[o] \in Local /\ orch \in [Orchestrators -> Local]
    BY DEF TypeOK
  <1>1. ASSUME \/ Lead(o) /\ ~ SelectActive(o) /\ ~ SelectFresh(o)
               \/ Finish(o) /\ ~ RecordFork(o) /\ ~ ForkNaive(o)
               \/ Complete(o) \/ Ambiguous(o) \/ GiveUp(o) \/ Revisit(o) \/ Crash(o)
        PROVE  TagsKept(o)
    <2>1. orch'[o].pc \notin OnPath
      BY <1>1, OtherMoves, StepsTo DEF Lead, Finish, OnPath
    <2> QED BY <2>1 DEF TagsKept
  <1> USE DEF At, Goto, OnPath
  <1>2. CASE Replay(o)        BY <1>0, <1>2, TagsJump DEF Replay, Local
  <1>3. CASE Pass(o)          BY <1>0, <1>3, TagsJump DEF Pass, ToExecute, Local
  <1>4. CASE Block(o)         BY <1>0, <1>4, TagsJump DEF Block, ToExecute, Local
  <1>5. CASE Intent(o)        BY <1>0, <1>5, TagsJump DEF Intent, Local
  <1>6. CASE Execute(o)       BY <1>0, <1>6, TagsJump DEF Execute, Local
  <1>7. CASE Probe(o)         BY <1>0, <1>7, TagsJump DEF Probe, Local
  <1>8. CASE Suppress(o)      BY <1>0, <1>8, TagsJump DEF Suppress, Local
  <1>9. CASE Drained(o)       BY <1>0, <1>9, TagsJump DEF Drained, Local
  <1>10. CASE BeginPass(o)    BY <1>0, <1>10, TagsJump DEF BeginPass, Local
  <1>11. CASE CompIntent(o)   BY <1>0, <1>11, TagsJump DEF CompIntent, Local
  <1>12. CASE Undo(o)         BY <1>0, <1>12, TagsJump DEF Undo, Local
  <1>13. CASE CompResult(o)   BY <1>0, <1>13, TagsJump DEF CompResult, Local
  <1>14. CASE Graduate(o)     BY <1>0, <1>14, TagsJump DEF Graduate, Local
  <1>15. CASE Graduated(o)    BY <1>0, <1>15, TagsJump DEF Graduated, Local
  <1>16. CASE Release(o)      BY <1>0, <1>16, TagsJump DEF Release, Local
  <1>17. CASE RecordResult(o)
    <2> DEFINE failed   == orch[o].res = "failed"
               injected == orch[o].armed /\ orch[o].seq = config.diverge_after_seq
               settled  == [orch[o] EXCEPT !.prior = FALSE, !.res = NoStatus]
    <2>1. orch'[o] =
             CASE failed /\ ToolAt(o) \in Irreversible -> [settled EXCEPT !.pc = "diverge"]
               [] failed /\ ToolAt(o) \notin Irreversible -> [settled EXCEPT !.pc = "escalate"]
               [] ~ failed /\ injected -> [settled EXCEPT !.pc = "diverge", !.armed = FALSE]
               [] ~ failed /\ ~ injected -> [settled EXCEPT !.pc = "step", !.seq = @ + 1]
      BY <1>0, <1>17 DEF RecordResult
    <2>2. /\ settled.br = orch[o].br /\ settled.sev = orch[o].sev /\ settled.sup = orch[o].sup
          /\ settled \in Local
      BY <1>0 DEF Local, NoStatus
    <2>3. orch[o].pc = "called"
      BY <1>17 DEF RecordResult
    <2> HIDE DEF settled
    <2>4. orch'[o].br = settled.br /\ orch'[o].sev = settled.sev /\ orch'[o].sup = settled.sup
      BY <2>1, <2>2 DEF Local
    <2> QED BY <2>2, <2>3, <2>4 DEF TagsKept
  <1> QED BY <1>1, <1>2, <1>3, <1>4, <1>5, <1>6, <1>7, <1>8, <1>9, <1>10, <1>11, <1>12,
             <1>13, <1>14, <1>15, <1>16, <1>17 DEF Run, Lead, Walk, Settle, Drain, Finish

\* Which branches are to graduate is read when nothing is owed, and then only worked off.
LEMMA GradsBy ==
    ASSUME TypeOK, NEW o \in Orchestrators, Run(o) \/ Crash(o),
           orch'[o].pc \in {"graduate", "graduated"}
    PROVE  \/ /\ Drained(o) /\ UNCHANGED branches
              /\ orch'[o].grads = {b \in DOMAIN branches : branches[b].status = "abandoned"}
           \/ /\ orch[o].pc \in {"graduate", "graduated"} /\ orch'[o].grads \subseteq orch[o].grads
              /\ Graduate(o) \/ UNCHANGED branches
  <1>0. orch[o] \in Local /\ orch \in [Orchestrators -> Local]
    BY DEF TypeOK
  <1>1. Drained(o) \/ Graduate(o) \/ Graduated(o)
    BY OtherMoves, StepsTo DEF Run, Lead, Walk, Settle, Drain, Finish
  <1>2. CASE Drained(o)
    BY <1>0, <1>2 DEF Drained, Local, ReadOnly, journalVars
  <1>3. CASE Graduate(o)
    BY <1>0, <1>3 DEF Graduate, Goto, At, Local
  <1>4. CASE Graduated(o)
    BY <1>0, <1>4 DEF Graduated, At, Local, WritesRecord
  <1> QED BY <1>1, <1>2, <1>3, <1>4

\* A branch is dying in the hands of who abandoned it.
LEMMA ResidueBy ==
    ASSUME TypeOK, Barrier, NEW o \in Orchestrators, Run(o) \/ Crash(o), orch'[o].pc = "residue"
    PROVE  Abandon(o) /\ orch'[o].br = orch[o].br
  <1>0. orch[o] \in Local /\ orch \in [Orchestrators -> Local]
    BY DEF TypeOK
  <1>1. ~ SelectNaive(o)
    BY DEF SelectNaive, Barrier, Replays
  <1>2. Abandon(o)
    BY <1>1, OtherMoves, StepsTo DEF Run, Lead, Walk, Settle, Drain, Finish
  <1> QED BY <1>0, <1>2 DEF Abandon, Local

\* A page takes hold on a live branch only, and while the tree stays as it is.
LEMMA PageLands ==
    ASSUME Steady, JournalTruthful, LedgerOK, LateUndecided, Replays, [Next]_vars,
           NEW k \in applied', k \notin applied, ToolOf(k) \in Irreversible
    PROVE  k[1] \in DOMAIN branches /\ IsActive(k[1]) /\ UNCHANGED branches
  <1>0. /\ TypeOK /\ LocalOK /\ Path /\ Tree /\ JournalTypeOK
        /\ ToolOf(k) \notin Pure
    BY DEF Steady, TypeOK, Irreversible, Pure
  <1>1. UNCHANGED branches
    <2>1. Land \/ \E o \in Orchestrators : Execute(o) \/ Recheck(o)
      BY AppliedBy
    <2> QED BY <2>1 DEF Land, Execute, Recheck, CallsWorld, journalVars
  <1>2. ASSUME NEW o \in Orchestrators, Execute(o), k = effect_key(orch[o].br, orch[o].seq)
        PROVE  k[1] \in DOMAIN branches /\ IsActive(k[1])
    BY <1>0, <1>2, ExecuteDoes
  <1>3. ASSUME k \in LateKeys \/ k \in Last("unknown"), ~ IsActive(k[1]),
               \A o \in Orchestrators : ~ (Execute(o) /\ k = effect_key(orch[o].br, orch[o].seq))
        PROVE  FALSE
    <2>1. k \in Touched
      BY <1>0, <1>3, LastTold DEF Touched
    <2>2. k \in Closed
      BY <1>0, <1>3, <2>1 DEF Tree, Ground
    <2>3. k \notin Last("failed")
      BY <1>3, FailedStays
    <2>4. k \in Last("ok")
      BY <2>2, <2>3 DEF Closed
    <2>5. PICK r \in Rows("RESULT") : journal[r].status = "ok" /\ KeyOf(r) = k
      BY <1>0, <2>4, LastTold DEF Okay
    <2>6. Happened("effect", k)
      BY <1>0, <2>5 DEF JournalTruthful, Done
    <2> QED BY <2>6 DEF Happened, LedgerOK, Pages, ToolOfEntry
  <1>4. k \in LateKeys \/ k \in Last("unknown") => k[1] \in DOMAIN branches
    BY <1>0, LastTold, OkayPlace DEF Touched
  <1> QED BY <1>1, <1>2, <1>3, <1>4, AppliedBy

\* A page on a dead branch has an ok result, ...
LEMMA DeadPage ==
    ASSUME Steady, Replays, Fated, NEW k \in applied, ToolOf(k) \in Irreversible,
           ~ IsActive(k[1])
    PROVE  k \in Okay
  <1>1. k \in Closed
    BY DEF Steady, Tree, Ground, Touched
  <1>2. k \notin Last("failed")
    BY DEF Fated
  <1> QED BY <1>1, <1>2, LastTold DEF Closed, Steady, TypeOK

\* ... which is found as residue until the branch graduates, ...
Leftover(r) == /\ r \in Rows("RESULT") /\ journal[r].br \in dead_branches
               /\ journal[r].seq \in Steps /\ ToolOf(KeyOf(r)) \in Irreversible
               /\ journal[r].status \in {"ok", "unknown"}

LEMMA ResidueIs ==
    ASSUME NEW r
    PROVE  r \in residue <=> /\ Leftover(r)
                             /\ \A q \in Rows("RESULT") : Leftover(q) /\ KeyOf(q) = KeyOf(r) => r <= q
  BY DEF residue, DeadResults, Leftover

LEMMA ResidueHas ==
    ASSUME JournalTypeOK, NEW k \in Key, k \in Okay, ToolOf(k) \in Irreversible,
           k[1] \in dead_branches
    PROVE  \E r \in residue : KeyOf(r) = k /\ journal[r].br = k[1]
  <1>1. PICK q \in Rows("RESULT") : KeyOf(q) = k /\ journal[q].status = "ok"
    BY DEF Okay
  <1> DEFINE mine == {r \in Rows("RESULT") : Leftover(r) /\ KeyOf(r) = k}
  <1>2. journal[q].br = k[1] /\ journal[q].seq = k[2] /\ k[2] \in Steps
    BY <1>1, KeyIs DEF KeyOf, effect_key
  <1>3. q \in mine
    BY <1>1, <1>2 DEF Leftover
  <1>4. mine \in SUBSET Nat
    BY DEF Rows, JournalTypeOK
  <1>5. PICK r \in mine : \A j \in mine : r <= j
    BY <1>3, <1>4, FirstRow
  <1>6. r \in residue
    BY <1>5, ResidueIs
  <1>7. journal[r].br = k[1]
    BY <1>5 DEF KeyOf, effect_key
  <1> QED BY <1>5, <1>6, <1>7

\* ... and what is found as residue was paged.
LEMMA LeftoverPaged ==
    ASSUME PagerAnswers, Steady, Replays, JournalTruthful, Fated, NEW r, Leftover(r)
    PROVE  KeyOf(r) \in Key /\ \E i \in Pages : ledger[i].key = KeyOf(r)
  <1>0. JournalTypeOK /\ Ground /\ Calm
    BY DEF Steady, TypeOK, Tree
  <1>1. PICK k : k = KeyOf(r)
    OBVIOUS
  <1>2. k \in Told /\ k \in Touched /\ ToolOf(k) \in Irreversible
    BY <1>1 DEF Leftover, Told, Touched
  <1>3. k \in Key /\ k[1] \in DOMAIN branches
    BY <1>0, <1>2 DEF Ground
  <1>4. k[1] = journal[r].br
    BY <1>1 DEF KeyOf, effect_key
  <1>5. ~ IsActive(k[1])
    BY <1>4 DEF Leftover, dead_branches, DEAD_BRANCH_STATUSES, IsActive
  <1>6. k \in Closed
    BY <1>0, <1>2, <1>5 DEF Ground
  <1>7. k \in Okay
    <2>1. CASE journal[r].status = "ok"
      BY <1>1, <2>1 DEF Leftover, Okay
    <2>2. CASE journal[r].status = "unknown"
      <3>1. Doubtful
        BY <1>1, <1>2, <2>2 DEF Fated, Leftover
      <3>2. ASSUME k \in Last("failed") PROVE Rejecting
        <4>1. PICK q \in Rows("RESULT") : KeyOf(q) = k /\ journal[q].status = "failed"
          BY <3>2 DEF Last
        <4> QED BY <1>2, <4>1 DEF Fated
      <3>3. k \notin Last("failed")
        BY <1>0, <3>1, <3>2, NotBoth
      <3> QED BY <1>0, <1>6, <3>3, LastTold DEF Closed
    <2> QED BY <2>1, <2>2 DEF Leftover
  <1>8. Done(k) /\ ToolOf(k) \notin Pure
    BY <1>2, <1>7 DEF Okay, JournalTruthful, Irreversible, Pure
  <1>9. PICK i \in Entries("effect") : ledger[i].key = k
    BY <1>8 DEF Done, Happened
  <1> QED BY <1>1, <1>2, <1>3, <1>9 DEF Pages, ToolOfEntry

\* A page that went out is on the status of its branch, or about to be; branches that
\* are to graduate were cleaned up and have no page.
Marking(l) ==
    /\ l.pc = "residue" => branches[l.br].status = "abandoned"
    /\ l.pc \in {"graduate", "graduated"} =>
          \A b \in l.grads : branches[b].status \in {"abandoned", "compensated"}
Marked == ResidueMarked /\ \A o \in Orchestrators : Marking(orch[o])

\* Whoever abandons a branch marks it before he can die.
MarksWhole == "residue" \notin CrashAt

LEMMA MarkingOf ==
    ASSUME NEW o \in Orchestrators, NEW m, m = orch'[o], Marking(m)'
    PROVE  Marking(orch[o])'
  BY DEF Marking

\* What is known of a page.
LEMMA PageIs ==
    ASSUME Steady, LedgerOK, NEW i \in Pages
    PROVE  /\ ledger[i].key \in applied /\ ToolOf(ledger[i].key) \in Irreversible
           /\ ledger[i].key \in Key /\ ledger[i].key[1] \in DOMAIN branches
  BY OkayPlace DEF LedgerOK, Pages, ToolOfEntry, Touched

\* The branch of a page that is neither live nor graduated has residue.
LEMMA PageIsResidue ==
    ASSUME Steady, Replays, LedgerOK, Fated, NEW i \in Pages,
           ledger[i].key[1] \in dead_branches
    PROVE  HasResidue(ledger[i].key[1])
  <1>1. PICK k : k = ledger[i].key
    OBVIOUS
  <1>2. k \in applied /\ ToolOf(k) \in Irreversible /\ k \in Key
    BY <1>1, PageIs
  <1>3. ~ IsActive(k[1])
    BY <1>1 DEF dead_branches, DEAD_BRANCH_STATUSES, IsActive
  <1>4. k \in Okay
    BY <1>2, <1>3, DeadPage
  <1> QED BY <1>1, <1>2, <1>4, ResidueHas DEF HasResidue, Steady, TypeOK

LEMMA OldPages ==
    ASSUME SameEntries
    PROVE  Pages' = Pages /\ \A i \in Pages : ledger'[i] = ledger[i]
  BY DEF Pages, SameEntries, ToolOfEntry, ToolOf

LEMMA NewPages ==
    ASSUME NEW n, NEW k, NEW sev, NEW sup, NewEntry(n, k, sev, sup)
    PROVE  /\ Pages' = IF ToolOf(k) \in Irreversible THEN Pages \cup {n} ELSE Pages
           /\ n \notin Pages
           /\ \A i \in Pages : ledger'[i] = ledger[i] /\ i < n
  BY DEF Pages, NewEntry, ToolOfEntry, ToolOf, Entries

LEMMA MarkingIs ==
    ASSUME NEW m, m.pc = "residue" => branches'[m.br].status = "abandoned",
           \A b : m.pc \in {"graduate", "graduated"} /\ b \in m.grads
                     => branches'[b].status \in {"abandoned", "compensated"}
    PROVE  Marking(m)'
  BY DEF Marking

\* The processes' half ...
LEMMA MarkingNext ==
    ASSUME Steady, Barrier, Marked, [Next]_vars, NEW p \in Orchestrators
    PROVE  Marking(orch[p])'
  <1>0. TypeOK /\ JournalTypeOK /\ Sole /\ Calm /\ Replays
    BY DEF Steady, TypeOK, Barrier, Replays
  <1>1. PICK m : m = orch'[p]
    OBVIOUS
  <1>2. ASSUME orch'[p] = orch[p], UNCHANGED branches PROVE Marking(m)'
    <2>1. Marking(m)
      BY <1>1, <1>2 DEF Marked
    <2> QED BY <1>2, <2>1 DEF Marking
  <1>3. ASSUME orch'[p] = orch[p], ~ Busy(p) PROVE Marking(m)'
    BY <1>1, <1>3 DEF Marking, Busy
  <1>4. ASSUME Run(p) \/ Crash(p), m.pc = "residue"
        PROVE  branches'[m.br].status = "abandoned"
    <2>1. Abandon(p) /\ m.br = orch[p].br
      BY <1>0, <1>1, <1>4, ResidueBy
    <2>2. orch[p].br \in DOMAIN branches /\ set_branch_status(orch[p].br, "abandoned")
      BY <2>1, StartsAt DEF Abandon, Steady, LocalOK, Sound, Branchless
    <2> QED BY <1>0, <2>1, <2>2, MarkedBranch DEF BranchStatus
  <1>5. ASSUME Run(p) \/ Crash(p), m.pc \in {"graduate", "graduated"}, NEW b \in m.grads
        PROVE  branches'[b].status \in {"abandoned", "compensated"}
    <2>1. CASE /\ Drained(p) /\ UNCHANGED branches
               /\ m.grads = {c \in DOMAIN branches : branches[c].status = "abandoned"}
      BY <1>5, <2>1
    <2>2. CASE /\ orch[p].pc \in {"graduate", "graduated"} /\ m.grads \subseteq orch[p].grads
               /\ Graduate(p) \/ UNCHANGED branches
      <3>1. branches[b].status \in {"abandoned", "compensated"} /\ b \in DOMAIN branches
        BY <1>5, <2>2 DEF Marked, Marking, Steady, LocalOK, Sound
      <3>2. CASE Graduate(p)
        <4>1. PICK c \in DOMAIN branches : set_branch_status(c, "compensated")
          BY <3>2 DEF Graduate
        <4>2. branches'[b] = branches[b] \/ branches'[b].status = "compensated"
          BY <1>0, <3>1, <4>1, MarkedBranch DEF BranchStatus
        <4> QED BY <3>1, <4>2
      <3> QED BY <2>2, <3>1, <3>2
    <2> QED BY <1>0, <1>1, <1>5, <2>1, <2>2, GradsBy
  <1>6. ASSUME Run(p) \/ Crash(p) PROVE Marking(m)'
    <2>1. m.pc = "residue" => branches'[m.br].status = "abandoned"
      BY <1>4, <1>6
    <2>2. \A b : m.pc \in {"graduate", "graduated"} /\ b \in m.grads
                    => branches'[b].status \in {"abandoned", "compensated"}
      BY <1>5, <1>6
    <2> QED BY <2>1, <2>2, MarkingIs
  <1>7. Marking(m)'
    <2>1. \/ Run(p) \/ Crash(p)
          \/ orch'[p] = orch[p] /\ UNCHANGED branches
          \/ orch'[p] = orch[p] /\ ~ Busy(p)
      BY StepFor DEF journalVars
    <2> QED BY <1>2, <1>3, <1>6, <2>1
  <1> QED BY <1>1, <1>7, MarkingOf

\* ... and the pages'.
LEMMA MarkedNext ==
    ASSUME MarksWhole, Steady, Barrier, JournalTruthful, LedgerOK, LateUndecided, Fated, Marked,
           [Next]_vars
    PROVE  Marked'
  <1>0. TypeOK /\ JournalTypeOK /\ Sole /\ Calm /\ Replays /\ LocalOK
    BY DEF Steady, TypeOK, Barrier, Replays
  <1>1. ASSUME NEW b \in DOMAIN branches, branches[b].status \in {"active", "abandoned_with_residue"}
        PROVE  \/ branches'[b].status \in {"active", "abandoned_with_residue"}
               \/ \E o \in Orchestrators : orch'[o].pc = "residue" /\ orch'[o].br = b
    <2>1. ASSUME NEW o \in Orchestrators, Abandon(o), b = orch[o].br
          PROVE  orch'[o].pc = "residue" /\ orch'[o].br = b
      <3>1. orch'[o].pc = "residue"
        BY <1>0, <2>1, OtherMoves
      <3>2. Run(o)
        BY <2>1 DEF Run, Finish
      <3> QED BY <1>0, <2>1, <3>1, <3>2, ResidueBy
    <2>2. ASSUME NEW o \in Orchestrators, Graduate(o), b \in orch[o].grads PROVE FALSE
      BY <1>1, <2>2, StartsAt DEF Marked, Marking
    <2> QED BY <1>0, <1>1, <2>1, <2>2, StatusBy
  <1>2. ASSUME NEW i \in Pages, NEW o \in Orchestrators, orch[o].pc = "residue",
               orch[o].br = ledger[i].key[1]
        PROVE  LET b == ledger[i].key[1] IN
               \/ branches'[b].status \in {"active", "abandoned_with_residue"}
               \/ orch'[o].pc = "residue" /\ orch'[o].br = b
    <2>1. PICK b : b = ledger[i].key[1]
      OBVIOUS
    <2>2. b \in DOMAIN branches /\ b \in dead_branches
      <3>1. branches[b].status = "abandoned"
        BY <1>2, <2>1 DEF Marked, Marking
      <3> QED BY <2>1, <3>1, PageIs DEF dead_branches, DEAD_BRANCH_STATUSES
    <2>3. ASSUME Run(o) \/ Crash(o)
          PROVE  branches'[b].status = "abandoned_with_residue"
      <3>1. ~ Crash(o)
        BY <1>2, StartsAt DEF MarksWhole
      <3>2. AbandonWithResidue(o) \/ RecordAbandoned(o)
        BY <1>2, <2>3, <3>1, StartsAt DEF Run, Lead, Walk, Settle, Drain, Finish, Revisit
      <3>3. HasResidue(b)
        BY <1>0, <2>1, <2>2, PageIsResidue
      <3>4. AbandonWithResidue(o)
        BY <1>2, <2>1, <3>2, <3>3 DEF RecordAbandoned, At
      <3>5. set_branch_status(b, "abandoned_with_residue")
        BY <1>2, <2>1, <3>4 DEF AbandonWithResidue
      <3> QED BY <1>0, <2>2, <3>5, MarkedBranch DEF BranchStatus
    <2>4. Busy(o)
      BY <1>2 DEF Busy
    <2>5. \/ Run(o) \/ Crash(o)
          \/ orch'[o] = orch[o]
      BY StepFor
    <2> QED BY <1>2, <2>1, <2>3, <2>5
  <1>3. ASSUME NEW i \in Pages
        PROVE  LET b == ledger[i].key[1] IN
               \/ branches'[b].status \in {"active", "abandoned_with_residue"}
               \/ \E o \in Orchestrators : orch'[o].pc = "residue" /\ orch'[o].br = b
    BY <1>1, <1>2, PageIs DEF Marked, ResidueMarked, At
  <1>4. ASSUME NEW n, NEW k \in Key, NEW sev, NEW sup, NewEntry(n, k, sev, sup),
               ToolOf(k) \in Irreversible
        PROVE  branches'[ledger'[n].key[1]].status = "active"
    <2>1. k \in applied' /\ k \notin applied /\ ledger'[n].key = k
      BY <1>4 DEF NewEntry
    <2>2. k[1] \in DOMAIN branches /\ IsActive(k[1]) /\ UNCHANGED branches
      BY <1>0, <1>4, <2>1, PageLands
    <2> QED BY <2>1, <2>2 DEF IsActive
  <1>5. ASSUME NEW i \in Pages'
        PROVE  \/ i \in Pages /\ ledger'[i] = ledger[i]
               \/ branches'[ledger'[i].key[1]].status = "active"
    <2>1. CASE SameEntries
      BY <1>5, <2>1, OldPages
    <2>2. ASSUME NEW n, NEW k \in Key, NEW sev, NEW sup, NewEntry(n, k, sev, sup)
          PROVE  \/ i \in Pages /\ ledger'[i] = ledger[i]
                 \/ branches'[ledger'[i].key[1]].status = "active"
      <3>1. i \in Pages \/ (i = n /\ ToolOf(k) \in Irreversible)
        BY <1>5, <2>2, NewPages
      <3> QED BY <1>4, <2>2, <3>1, NewPages
    <2> QED BY <2>1, <2>2, EntersBy
  <1>6. ResidueMarked'
    <2> SUFFICES ASSUME NEW i \in Pages'
                 PROVE  LET b == ledger'[i].key[1] IN
                        \/ branches'[b].status \in {"active", "abandoned_with_residue"}
                        \/ \E o \in Orchestrators : orch'[o].pc = "residue" /\ orch'[o].br = b
      BY DEF ResidueMarked, At
    <2> QED BY <1>3, <1>5
  <1> QED BY <1>0, <1>6, MarkingNext DEF Marked

LEMMA MarkedAlways ==
    ASSUME NoTakeover, Apart, LateAnswers, PagerAnswers, MarksWhole
    PROVE  Spec => [](Barrier => Marked)
  <1>1. Init => Marked
    <2> SUFFICES ASSUME Init PROVE Marked
      OBVIOUS
    <2>1. Pages = {}
      BY InitNothing DEF Pages, Entries
    <2> QED BY <2>1, InitNothing DEF Marked, Marking, ResidueMarked
  <1>2. /\ Steady /\ Inv /\ LateUndecided /\ (Replays => Fated) /\ [Next]_vars
        /\ (Barrier => Marked)
        => (Barrier => Marked)'
    <2> SUFFICES ASSUME Steady, Inv, LateUndecided, Replays => Fated, [Next]_vars,
                        Barrier => Marked, Barrier'
                 PROVE  Marked'
      OBVIOUS
    <2>1. Barrier /\ Replays
      BY SettingsStay DEF settings, Barrier, Replays, Steady
    <2> QED BY <2>1, MarkedNext DEF Inv
  <1> QED BY <1>1, <1>2, SteadyAlways, Invariance, LateUndecidedAlways, FatedAlways, PTL DEF Spec

\* The branch of residue is dead for good: it is not one that graduates.
LEMMA LeftoverStaysDead ==
    ASSUME PagerAnswers, Steady, Barrier, JournalTruthful, LedgerOK, Fated, Marked, [Next]_vars,
           \A o \in Orchestrators : ~ Abandon(o), NEW b \in DOMAIN branches
    PROVE  /\ b \in dead_branches' => b \in dead_branches
           /\ \A r : Leftover(r) /\ journal[r].br = b => b \in dead_branches'
  <1>0. Replays /\ TypeOK /\ Sole /\ Calm /\ JournalTypeOK
    BY DEF Barrier, Replays, Steady, TypeOK
  <1>1. ASSUME NEW o \in Orchestrators, AbandonWithResidue(o), b = orch[o].br
        PROVE  branches[b].status = "abandoned"
    BY <1>1, StartsAt DEF Marked, Marking
  <1>2. ASSUME NEW o \in Orchestrators, Graduate(o), b \in orch[o].grads,
               NEW r, Leftover(r), journal[r].br = b
        PROVE  FALSE
    <2>1. orch[o].pc = "graduate" /\ branches[b].status \in {"abandoned", "compensated"}
      BY <1>2, StartsAt DEF Marked, Marking
    <2>2. PICK i \in Pages : ledger[i].key = KeyOf(r)
      BY <1>0, <1>2, LeftoverPaged
    <2>3. ledger[i].key[1] = b
      BY <1>2, <2>2 DEF KeyOf, effect_key
    <2>4. PICK p \in Orchestrators : orch[p].pc = "residue"
      BY <2>1, <2>3 DEF Marked, ResidueMarked, At
    <2>5. Busy(o)
      BY <2>1 DEF Busy
    <2> QED BY <1>0, <2>1, <2>4, <2>5, Alone
  <1>3. b \in dead_branches <=> branches[b].status \in {"abandoned", "abandoned_with_residue"}
    BY DEF dead_branches, DEAD_BRANCH_STATUSES
  <1>4. b \in dead_branches' <=> branches'[b].status \in {"abandoned", "abandoned_with_residue"}
    <2>1. b \in DOMAIN branches'
      BY <1>0, StatusBy
    <2> QED BY <2>1 DEF dead_branches, DEAD_BRANCH_STATUSES
  <1>5. \/ branches'[b].status = branches[b].status
        \/ branches[b].status = "abandoned" /\ branches'[b].status = "abandoned_with_residue"
        \/ branches'[b].status = "compensated" /\ \A r : ~ (Leftover(r) /\ journal[r].br = b)
    BY <1>0, <1>1, <1>2, StatusBy
  <1>6. \A r : Leftover(r) /\ journal[r].br = b => b \in dead_branches
    BY DEF Leftover
  <1> QED BY <1>3, <1>4, <1>5, <1>6

LEMMA LeftoverStays ==
    ASSUME PagerAnswers, Steady, Barrier, JournalTruthful, LedgerOK, Fated, Marked, [Next]_vars,
           \A o \in Orchestrators : ~ Abandon(o), NEW r
    PROVE  /\ Leftover(r)' <=> Leftover(r)
           /\ Leftover(r) => KeyOf(r)' = KeyOf(r)
  <1>0. Replays /\ TypeOK /\ JournalTypeOK
    BY DEF Barrier, Replays, Steady, TypeOK
  <1>1. ASSUME r \in Rows("RESULT"), r \in Rows("RESULT")', journal'[r] = journal[r]
        PROVE  Leftover(r)' <=> Leftover(r)
    <2>1. PICK b : b = journal[r].br
      OBVIOUS
    <2>2. KeyOf(r) \in Touched /\ KeyOf(r)[1] = b
      BY <1>1, <2>1 DEF Touched, Told, KeyOf, effect_key
    <2>3. b \in DOMAIN branches
      BY <2>2, OkayPlace
    <2>4. ToolOf(KeyOf(r)') = ToolOf(KeyOf(r)) /\ journal'[r].br = b
      BY <1>1, <2>1 DEF KeyOf
    <2>5. b \in dead_branches' => b \in dead_branches
      BY <2>3, LeftoverStaysDead
    <2>6. Leftover(r) => b \in dead_branches'
      BY <2>1, <2>3, LeftoverStaysDead
    <2>7. Leftover(r)' <=> /\ b \in dead_branches' /\ journal[r].seq \in Steps
                           /\ ToolOf(KeyOf(r)) \in Irreversible
                           /\ journal[r].status \in {"ok", "unknown"}
      BY <1>1, <2>4 DEF Leftover
    <2>8. Leftover(r) <=> /\ b \in dead_branches /\ journal[r].seq \in Steps
                          /\ ToolOf(KeyOf(r)) \in Irreversible
                          /\ journal[r].status \in {"ok", "unknown"}
      BY <1>1, <2>1 DEF Leftover
    <2> QED BY <2>5, <2>6, <2>7, <2>8
  <1>2. CASE NoResult
    <2>1. /\ Rows("RESULT")' = Rows("RESULT")
          /\ \A q \in Rows("RESULT") : journal'[q] = journal[q] /\ KeyOf(q)' = KeyOf(q)
      BY <1>0, <1>2, NothingTold
    <2>2. r \notin Rows("RESULT") => ~ Leftover(r) /\ ~ Leftover(r)'
      BY <2>1 DEF Leftover
    <2> QED BY <1>1, <2>1, <2>2 DEF Leftover
  <1>3. ASSUME NEW k \in Key, NEW st \in ResultStatus, ResultOf(k, st), IsActive(k[1]),
               UNCHANGED branches
        PROVE  /\ Leftover(r)' <=> Leftover(r)
               /\ Leftover(r) => KeyOf(r)' = KeyOf(r)
    <2>1. PICK n \in Nat : /\ n = Len(journal) + 1
                           /\ Rows("RESULT")' = Rows("RESULT") \cup {n} /\ KeyOf(n)' = k
                           /\ journal'[n].status = st
      BY <1>0, <1>3, ResultTold
    <2>2. \A q \in Rows("RESULT") : journal'[q] = journal[q] /\ KeyOf(q)' = KeyOf(q)
      BY <1>0, <1>3, ResultTold
    <2>3. n \notin Rows("RESULT")
      BY <1>0, <2>1 DEF Rows, JournalTypeOK
    <2>4. ~ Leftover(n)'
      <3>1. journal'[n].br = k[1]
        BY <2>1 DEF KeyOf, effect_key
      <3>2. k[1] \notin dead_branches'
        BY <1>3 DEF dead_branches, DEAD_BRANCH_STATUSES, IsActive
      <3> QED BY <3>1, <3>2 DEF Leftover
    <2>5. r \notin Rows("RESULT") => ~ Leftover(r) /\ ~ Leftover(r)'
      BY <2>1, <2>4 DEF Leftover
    <2> QED BY <1>1, <2>1, <2>2, <2>5 DEF Leftover
  <1> QED BY <1>0, <1>2, <1>3, ResultsBy

LEMMA ResidueStays ==
    ASSUME PagerAnswers, Steady, Barrier, JournalTruthful, LedgerOK, Fated, Marked, [Next]_vars,
           \A o \in Orchestrators : ~ Abandon(o)
    PROVE  /\ residue' = residue /\ \A r \in residue : KeyOf(r)' = KeyOf(r)
           /\ \A x : _supersede_for(x)' <=> _supersede_for(x)
  <1>1. \A r : Leftover(r)' <=> Leftover(r)
    BY LeftoverStays
  <1>2. \A r : Leftover(r) => KeyOf(r)' = KeyOf(r)
    BY LeftoverStays
  <1>3. ASSUME NEW r
        PROVE  r \in residue' <=> /\ Leftover(r)'
                                  /\ \A q : Leftover(q)' /\ KeyOf(q)' = KeyOf(r)' => r <= q
    BY DEF residue, DeadResults, Leftover
  <1>4. ASSUME NEW r
        PROVE  r \in residue <=> /\ Leftover(r)
                                 /\ \A q : Leftover(q) /\ KeyOf(q) = KeyOf(r) => r <= q
    BY DEF residue, DeadResults, Leftover
  <1>5. residue' = residue
    BY <1>1, <1>2, <1>3, <1>4
  <1>6. \A r \in residue : KeyOf(r)' = KeyOf(r)
    BY <1>2, <1>4
  <1>7. Barrier' <=> Barrier
    BY SettingsStay DEF settings, Barrier, Steady
  <1> QED BY <1>5, <1>6, <1>7 DEF _supersede_for

\* On the live branch every page carries the annotation that the residue asks for: in
\* memory, in a late call, in a result and in the ledger.  While a branch lives the
\* residue stays what it is.
Named ==
    /\ \A o \in Orchestrators : orch[o].pc \in OnPath => _supersede_for(orch[o].sup)
    /\ \A k, sev, sup : Said(k, sev, sup) /\ ToolOf(k) \in Irreversible /\ IsActive(k[1])
                           => _supersede_for(sup)
    /\ \A i \in Pages : IsActive(ledger[i].key[1]) => _supersede_for(ledger[i].sup)
    /\ PagesExplained

\* The trace pages once.
PagesOnce == \A s, t \in Steps : Trace[s] \in Irreversible /\ Trace[t] \in Irreversible => s = t

LEMMA SaidTouched ==
    ASSUME NEW k, NEW sev, NEW sup, Said(k, sev, sup)
    PROVE  k \in Touched
  BY DEF Said, Touched, Told, LateKeys

\* What is called is called from a live branch, a page under the annotation held in memory.
LEMMA CallingIs ==
    ASSUME Steady, NEW o \in Orchestrators, NEW k, NEW sev, NEW sup, Calling(o, k, sev, sup)
    PROVE  /\ orch[o].pc \in OnPath /\ orch[o].pc \in Working
           /\ k \in Key /\ k[1] = orch[o].br /\ k[1] \in DOMAIN branches /\ IsActive(k[1])
           /\ sev = orch[o].sev
           /\ ToolOf(k) \in Irreversible => sup = orch[o].sup
           /\ ~ \E p \in Orchestrators : Abandon(p)
  <1>0. TypeOK /\ LocalOK /\ Path /\ Tree /\ Sole /\ Calm
    BY DEF Steady
  <1>1. orch[o].pc \in OnPath /\ orch[o].pc \in Working
    BY DEF Calling, OnPath, Working
  <1>2. k \in Key /\ k[1] = orch[o].br /\ k[1] \in DOMAIN branches /\ IsActive(k[1])
    BY <1>0, <1>1, NotYet DEF Calling
  <1>3. ToolOf(k) = ToolAt(o)
    BY DEF Calling, ToolOf, ToolAt, effect_key
  <1>4. ToolOf(k) \in Irreversible => sup = orch[o].sup
    BY <1>3 DEF Calling, Call
  <1>5. ASSUME NEW p \in Orchestrators, Abandon(p) PROVE FALSE
    <2>1. orch[p].pc = "diverge" /\ Busy(o)
      BY <1>1, <1>5, StartsAt DEF Busy, OnPath
    <2>2. p = o
      BY <1>0, <2>1, Alone
    <2> QED BY <1>1, <2>1, <2>2 DEF OnPath
  <1> QED BY <1>1, <1>2, <1>4, <1>5 DEF Calling

\* When a branch dies there is no live one left, and nobody is on one.
LEMMA AbandonLeavesNone ==
    ASSUME Steady, [Next]_vars, NEW a \in Orchestrators, Abandon(a)
    PROVE  /\ NoActiveBranch' /\ SameEntries /\ UNCHANGED << journal, ledger, applied, late >>
           /\ \A k \in Touched' : ~ IsActive(k[1])'
           /\ \A p \in Orchestrators : orch'[p].pc \in {"idle", "residue"}
  <1>0. TypeOK /\ Sole /\ Calm
    BY DEF Steady
  <1>1. orch[a].pc = "diverge" /\ \A p \in Orchestrators \ {a} : orch'[p] = orch[p]
    BY <1>0 DEF Abandon, At, TypeOK
  <1>2. orch'[a].pc = "residue"
    BY <1>0, OtherMoves
  <1>3. Tree'
    BY TreeNext DEF Steady
  <1>4. NoActiveBranch'
    <2>1. Placed(orch[a])'
      BY <1>3 DEF Tree
    <2> QED BY <1>2, <2>1 DEF Placed, NoActiveBranch, IsActive
  <1>5. \A k \in Touched' : ~ IsActive(k[1])'
    <2>1. Ground'
      BY <1>3 DEF Tree
    <2> QED BY <1>4, <2>1 DEF Ground, NoActiveBranch, IsActive
  <1>6. \A p \in Orchestrators : orch'[p].pc \in {"idle", "residue"}
    <2>1. Busy(a)
      BY <1>1 DEF Busy
    <2> QED BY <1>0, <1>1, <1>2, <2>1, Alone
  <1>7. UNCHANGED << journal, ledger, applied, late >>
    BY DEF Abandon, WritesTree, worldVars
  <1>8. SameEntries
    BY <1>7 DEF SameEntries, Entries
  <1> QED BY <1>4, <1>5, <1>6, <1>7, <1>8

\* An annotation of a page that rings after another names one that rang.
LEMMA Explains ==
    ASSUME PagesOnce, PagerAnswers, Steady, Barrier, JournalTruthful, LedgerOK, Fated, Marked,
           NEW k \in Key, k \notin applied, ToolOf(k) \in Irreversible, k[1] \in DOMAIN branches,
           IsActive(k[1]), NEW sup, _supersede_for(sup), NEW i \in Pages
    PROVE  /\ sup \in DOMAIN journal
           /\ \E j \in Pages : ledger[j].key = KeyOf(sup)
  <1>0. Replays /\ TypeOK /\ JournalTypeOK
    BY DEF Barrier, Replays, Steady, TypeOK
  <1>1. PICK j : j = ledger[i].key
    OBVIOUS
  <1>2. /\ j \in applied /\ ToolOf(j) \in Irreversible /\ j \in Key /\ j[1] \in DOMAIN branches
    BY <1>1, PageIs
  <1>3. ASSUME IsActive(j[1]) PROVE FALSE
    <2>1. j[1] = k[1]
      BY <1>2, <1>3 DEF Steady, Tree, Ground
    <2>2. j[2] = k[2]
      BY <1>2, KeyIs DEF PagesOnce, ToolOf
    <2> QED BY <1>2, <2>1, <2>2, KeyIs
  <1>4. j[1] \in dead_branches
    <2>1. \A p \in Orchestrators : orch[p].pc # "residue"
      BY DEF Steady, Tree, Placed, NoActiveBranch, IsActive
    <2>2. branches[j[1]].status = "abandoned_with_residue"
      BY <1>1, <1>3, <2>1 DEF Marked, ResidueMarked, At, IsActive
    <2> QED BY <1>2, <2>2 DEF dead_branches, DEAD_BRANCH_STATUSES
  <1>5. HasResidue(j[1])
    BY <1>0, <1>1, <1>4, PageIsResidue
  <1>6. sup \in residue
    BY <1>5 DEF HasResidue, _supersede_for
  <1>7. Leftover(sup)
    BY <1>6, ResidueIs
  <1> QED BY <1>0, <1>7, LeftoverPaged DEF Leftover, Rows

Explained(j) == /\ ledger[j].sup \in DOMAIN journal
                /\ \E k \in Pages : k < j /\ ledger[k].key = KeyOf(ledger[j].sup)
OnLive(i) == IsActive(ledger[i].key[1])

LEMMA ExplainedNext ==
    ASSUME JournalTypeOK, Grows, NEW j, NEW x \in DOMAIN journal, ledger'[j].sup = x,
           NEW m \in Pages', m < j, ledger'[m].key = KeyOf(x)
    PROVE  Explained(j)'
  <1>1. x \in DOMAIN journal' /\ journal'[x] = journal[x]
    BY GrowthKeeps
  <1> QED BY <1>1 DEF Explained, KeyOf

LEMMA NamedNext ==
    ASSUME PagesOnce, PagerAnswers, Steady, Barrier, JournalTruthful, LedgerOK, LateUndecided,
           Fated, Marked, Named, [Next]_vars
    PROVE  Named'
  <1>0. Replays /\ TypeOK /\ JournalTypeOK /\ LocalOK /\ Path /\ Tree
    BY DEF Barrier, Replays, Steady, TypeOK
  <1>g. Grows
    BY <1>0, TypesNext
  <1>s. ASSUME SameEntries PROVE PagesExplained'
    <2> SUFFICES ASSUME NEW i \in Pages', NEW j \in Pages', i < j
                 PROVE  Explained(j)'
      BY DEF PagesExplained, Explained
    <2>1. Pages' = Pages /\ \A n \in Pages : ledger'[n] = ledger[n]
      BY <1>s, OldPages
    <2>2. PICK sup : sup = ledger[j].sup
      OBVIOUS
    <2>3. /\ sup \in DOMAIN journal
          /\ \E n \in Pages : n < j /\ ledger[n].key = KeyOf(sup)
      BY <2>1, <2>2 DEF Named, PagesExplained
    <2> QED BY <1>0, <1>g, <2>1, <2>2, <2>3, ExplainedNext
  <1>1. ASSUME NEW a \in Orchestrators, Abandon(a) PROVE Named'
    <2>1. /\ SameEntries /\ \A k \in Touched' : ~ IsActive(k[1])'
          /\ \A p \in Orchestrators : orch'[p].pc \in {"idle", "residue"}
          /\ UNCHANGED applied
      BY <1>1, AbandonLeavesNone
    <2>2. PagesExplained'
      BY <1>s, <2>1
    <2>3. \A p \in Orchestrators : orch'[p].pc \notin OnPath
      BY <2>1 DEF OnPath
    <2>4. ASSUME NEW k, NEW sev, NEW sup, Said(k, sev, sup)' PROVE ~ IsActive(k[1])'
      <3>1. k \in Touched'
        BY <2>4 DEF Said, Touched, Told, LateKeys
      <3> QED BY <2>1, <3>1
    <2>5. ASSUME NEW i \in Pages' PROVE ~ OnLive(i)'
      <3>1. i \in Pages /\ ledger'[i] = ledger[i]
        BY <2>1, <2>5, OldPages
      <3>2. PICK k : k = ledger[i].key
        OBVIOUS
      <3>3. k \in applied'
        BY <2>1, <3>1, <3>2, PageIs
      <3>4. ~ IsActive(k[1])'
        BY <2>1, <3>3 DEF Touched
      <3> QED BY <3>1, <3>2, <3>4 DEF OnLive, IsActive
    <2> QED BY <2>2, <2>3, <2>4, <2>5 DEF Named, OnLive
  <1>2. ASSUME \A a \in Orchestrators : ~ Abandon(a) PROVE Named'
    <2>1. residue' = residue /\ \A x : _supersede_for(x)' <=> _supersede_for(x)
      BY <1>2, ResidueStays
    <2>2. ASSUME NEW k \in Touched, IsActive(k[1])' PROVE IsActive(k[1])
      BY <1>0, <1>2, <2>2, AliveStays, OkayPlace
    <2>3. ASSUME NEW o \in Orchestrators, orch'[o].pc \in OnPath
          PROVE  _supersede_for(orch'[o].sup)
      <3>1. CASE orch'[o] = orch[o]
        BY <2>3, <3>1 DEF Named
      <3>2. ASSUME NEW b, NEW sev, _run_branch(o, b, sev)
            PROVE  _supersede_for(orch'[o].sup)
        <4>1. orch[o] \in Local /\ orch \in [Orchestrators -> Local]
          BY <1>0 DEF TypeOK
        <4> QED BY <3>2, <4>1 DEF _run_branch, Local
      <3>3. CASE TagsKept(o)
        BY <2>3, <3>3 DEF TagsKept, Named
      <3>4. SelectActive(o) \/ SelectFresh(o) \/ RecordFork(o) \/ ForkNaive(o)
            => \E b, sev : _run_branch(o, b, sev)
        BY DEF SelectActive, SelectFresh, RecordFork, ForkNaive
      <3>5. Run(o) \/ Crash(o) \/ orch'[o] = orch[o]
        BY StepFor
      <3> QED BY <1>0, <3>1, <3>2, <3>3, <3>4, <3>5, TagsStay
    <2>4. ASSUME NEW o \in Orchestrators, NEW k, NEW sev, NEW sup, Calling(o, k, sev, sup),
                 ToolOf(k) \in Irreversible
          PROVE  _supersede_for(sup)
      BY <2>4, CallingIs DEF Named
    <2>5. ASSUME NEW k, NEW sev, NEW sup, Said(k, sev, sup)', ToolOf(k) \in Irreversible,
                 IsActive(k[1])'
          PROVE  _supersede_for(sup)
      <3>1. CASE Said(k, sev, sup)
        <4>1. IsActive(k[1])
          BY <2>2, <2>5, <3>1, SaidTouched
        <4> QED BY <2>5, <3>1, <4>1 DEF Named
      <3> QED BY <2>4, <2>5, <3>1, SaidBy
    <2>6. ASSUME NEW n, NEW k \in Key, NEW sev, NEW sup, NewEntry(n, k, sev, sup),
                 Said(k, sev, sup) \/ \E o \in Orchestrators : Calling(o, k, sev, sup),
                 ToolOf(k) \in Irreversible
          PROVE  k[1] \in DOMAIN branches /\ IsActive(k[1]) /\ _supersede_for(sup)
      <3>1. k[1] \in DOMAIN branches /\ IsActive(k[1])
        BY <1>0, <2>6, PageLands DEF NewEntry
      <3> QED BY <2>4, <2>6, <3>1 DEF Named
    <2>7. ASSUME NEW i \in Pages', OnLive(i)'
          PROVE  _supersede_for(ledger'[i].sup)
      <3>1. ASSUME i \in Pages, ledger'[i] = ledger[i] PROVE _supersede_for(ledger'[i].sup)
        <4>1. PICK k : k = ledger[i].key
          OBVIOUS
        <4>2. k \in Touched
          BY <3>1, <4>1, PageIs DEF Touched
        <4>3. IsActive(k[1])'
          BY <2>7, <3>1, <4>1 DEF OnLive, IsActive
        <4>4. IsActive(k[1])
          BY <2>2, <4>2, <4>3
        <4> QED BY <3>1, <4>1, <4>4 DEF Named
      <3>2. CASE SameEntries
        BY <2>7, <3>1, <3>2, OldPages
      <3>3. ASSUME NEW n \in Nat, NEW k \in Key, NEW sev, NEW sup, NewEntry(n, k, sev, sup),
                   Said(k, sev, sup) \/ \E o \in Orchestrators : Calling(o, k, sev, sup)
            PROVE  _supersede_for(ledger'[i].sup)
        <4>1. CASE i \in Pages
          BY <3>1, <3>3, <4>1, NewPages
        <4>2. CASE i = n /\ ToolOf(k) \in Irreversible
          BY <2>6, <3>3, <4>2 DEF NewEntry
        <4> QED BY <2>7, <3>3, <4>1, <4>2, NewPages
      <3> QED BY <3>2, <3>3, EntersBy
    <2>8. ASSUME NEW n \in Nat, NEW k \in Key, NEW sev, NEW sup, NewEntry(n, k, sev, sup),
                 Said(k, sev, sup) \/ \E o \in Orchestrators : Calling(o, k, sev, sup)
          PROVE  PagesExplained'
      <3> SUFFICES ASSUME NEW i \in Pages', NEW j \in Pages', i < j
                   PROVE  Explained(j)'
        BY DEF PagesExplained, Explained
      <3>1. /\ Pages' = IF ToolOf(k) \in Irreversible THEN Pages \cup {n} ELSE Pages
            /\ \A m \in Pages : ledger'[m] = ledger[m] /\ m < n
        BY <2>8, NewPages
      <3>2. i \in Pages
        <4>1. Pages \subseteq Nat
          BY <1>0 DEF TypeOK, WorldTypeOK, Pages, Entries
        <4> QED BY <3>1, <4>1
      <3>3. CASE j \in Pages
        <4>1. PICK x : x = ledger[j].sup
          OBVIOUS
        <4>2. x \in DOMAIN journal /\ \E m \in Pages : m < j /\ ledger[m].key = KeyOf(x)
          BY <3>2, <3>3, <4>1 DEF Named, PagesExplained
        <4> QED BY <1>0, <1>g, <3>1, <3>3, <4>1, <4>2, ExplainedNext
      <3>4. CASE j = n /\ ToolOf(k) \in Irreversible
        <4>1. ledger'[j].sup = sup /\ k \notin applied
          BY <2>8, <3>4 DEF NewEntry
        <4>2. k[1] \in DOMAIN branches /\ IsActive(k[1]) /\ _supersede_for(sup)
          BY <2>6, <2>8, <3>4
        <4>3. sup \in DOMAIN journal /\ \E m \in Pages : ledger[m].key = KeyOf(sup)
          BY <3>2, <3>4, <4>1, <4>2, Explains
        <4> QED BY <1>0, <1>g, <3>1, <3>4, <4>1, <4>3, ExplainedNext
      <3> QED BY <3>1, <3>3, <3>4
    <2>9. PagesExplained'
      BY <1>s, <2>8, EntersBy
    <2> QED BY <2>1, <2>3, <2>5, <2>7, <2>9 DEF Named, OnLive
  <1> QED BY <1>1, <1>2

LEMMA NamedAlways ==
    ASSUME NoTakeover, Apart, LateAnswers, PagerAnswers, MarksWhole, PagesOnce
    PROVE  Spec => [](Barrier => Named)
  <1>1. Init => Named
    <2> SUFFICES ASSUME Init PROVE Named
      OBVIOUS
    <2>1. Pages = {}
      BY InitNothing DEF Pages, Entries
    <2>2. \A k, sev, sup : ~ Said(k, sev, sup)
      BY InitNothing DEF Said
    <2> QED BY <2>1, <2>2, InitNothing DEF Named, PagesExplained, OnPath
  <1>2. /\ Steady /\ Inv /\ LateUndecided /\ (Replays => Fated) /\ (Barrier => Marked)
        /\ [Next]_vars /\ (Barrier => Named)
        => (Barrier => Named)'
    <2> SUFFICES ASSUME Steady, Inv, LateUndecided, Replays => Fated, Barrier => Marked,
                        [Next]_vars, Barrier => Named, Barrier'
                 PROVE  Named'
      OBVIOUS
    <2>1. Barrier /\ Replays
      BY SettingsStay DEF settings, Barrier, Replays, Steady
    <2> QED BY <2>1, NamedNext DEF Inv
  <1> QED BY <1>1, <1>2, SteadyAlways, Invariance, LateUndecidedAlways, FatedAlways,
             MarkedAlways, PTL DEF Spec

\* Nobody is rung a second time without being told why, and the reason given is a page
\* that really went out: the annotation is read once, when a run starts on its branch,
\* and is still right when the page goes out, when it lands late and when a later process
\* asks for it again.  It rests on a kill never coming between the two writes of _abandon
\* (MarksWhole), after which a dead branch's page is forgotten, and on a pager that rejects
\* no page it may already have sent (PagerAnswers) (engine._run_branch, _supersede_for,
\* _abandon, _reconcile_unknowns, services._late_delivery).
THEOREM PagesExplainedHolds ==
    ASSUME NoTakeover, Apart, LateAnswers, PagerAnswers, MarksWhole, PagesOnce
    PROVE  Spec => [](Barrier => PagesExplained)
  <1>1. Named => PagesExplained
    BY DEF Named
  <1> QED BY <1>1, NamedAlways, PTL

------------------------------------------------------------------------------
(* The post-mortem                                                         *)

LEMMA AuditIsTrue ==
    ASSUME Steady, Barrier, LedgerOK, Fated, Marked, Clean, acked
    PROVE  \A k \in applied :
              (ToolOf(k) \in Compensatable \cup Irreversible /\ ~ IsActive(k[1]))
                 => k \in post_mortem
  <1>0. Replays /\ JournalTypeOK /\ TypeOK
    BY DEF Barrier, Replays, Steady, TypeOK
  <1>1. ASSUME NEW k \in applied, ToolOf(k) \in Compensatable, ~ IsActive(k[1])
        PROVE  k \in post_mortem
    <2>1. k \in Stranded
      BY <1>1 DEF Stranded
    <2> QED BY <2>1 DEF Clean, post_mortem
  <1>2. ASSUME NEW k \in applied, ToolOf(k) \in Irreversible, ~ IsActive(k[1])
        PROVE  k \in post_mortem
    <2>1. k \in Key /\ k[1] \in DOMAIN branches
      BY OkayPlace DEF Touched
    <2>2. PICK i \in Pages : ledger[i].key = k
      <3>1. Happened("effect", k)
        BY <1>2 DEF LedgerOK, Done, Irreversible, Pure
      <3> QED BY <1>2, <3>1 DEF Happened, Pages, ToolOfEntry
    <2>3. \A o \in Orchestrators : orch[o].pc # "residue"
      BY DEF Steady, Sole, Busy
    <2>4. branches[k[1]].status = "abandoned_with_residue"
      BY <1>2, <2>2, <2>3 DEF Marked, ResidueMarked, At, IsActive
    <2>5. k[1] \in dead_branches
      BY <2>1, <2>4 DEF dead_branches, DEAD_BRANCH_STATUSES
    <2>6. k \in Okay
      BY <1>0, <1>2, DeadPage
    <2> QED BY <1>0, <1>2, <2>1, <2>5, <2>6, ResidueHas DEF post_mortem
  <1> QED BY <1>1, <1>2

\* At rest the post-mortem lists whatever a dead branch left in force, the pages
\* included, although it reads nothing but statuses and results, unless a kill tore the
\* two writes of _abandon apart (MarksWhole) (audit.post_mortem).
THEOREM AuditTellsAllHolds ==
    ASSUME NoTakeover, Apart, UndoableInTime, SomebodyIsPaged, LateAnswers, PagerAnswers,
           MarksWhole
    PROVE  Spec => [](Barrier => AuditTellsAll)
  <1>1. /\ Steady /\ Inv /\ (Replays => Fated) /\ (Barrier => Marked) /\ (Barrier => Clean)
        => (Barrier => AuditTellsAll)
    <2> SUFFICES ASSUME Steady, Inv, Replays => Fated, Barrier => Marked, Barrier => Clean,
                        Barrier, acked
                 PROVE  AuditTellsAll
      BY DEF AuditTellsAll
    <2>1. Replays
      BY DEF Barrier, Replays
    <2> QED BY <2>1, AuditIsTrue DEF AuditTellsAll, Inv
  <1> QED BY <1>1, SteadyAlways, Invariance, FatedAlways, MarkedAlways, CleanAlways, PTL

------------------------------------------------------------------------------
(* One severity, one branch                                                *)

\* What a branch was forked under, if it was forked.
Forks(b) == {f \in Rows("BRANCH_FORKED") : journal[f].br = b}

NoFork == \/ UNCHANGED journal
          \/ \E rec \in Record : append(rec) /\ rec.kind # "BRANCH_FORKED"

LEMMA OnlyForks ==
    ASSUME TypeOK, LocalOK, NEW o \in Orchestrators, Run(o) \/ Crash(o), ~ RecordFork(o)
    PROVE  NoFork
  <1>0. JournalTypeOK /\ orch[o] \in Local
    BY DEF TypeOK
  <1> USE DEF NoFork
  <1>1. CASE Lead(o) \/ Replay(o) \/ Complete(o) \/ Pass(o)
    BY <1>1 DEF Lead, Start, NotLeader, SelectActive, SelectFresh, SelectNaive, Replay, Complete,
                Pass, ReadOnly, WritesTree, journalVars
  <1>2. CASE Execute(o) \/ Undo(o) \/ Probe(o) \/ Drained(o) \/ BeginPass(o) \/ GiveUp(o)
             \/ Graduate(o)
    BY <1>2 DEF Execute, Undo, Probe, Drained, BeginPass, GiveUp, Graduate, CallsWorld,
                ReadOnly, WritesTree, journalVars
  <1>3. CASE ReplayFailed(o) \/ Abandon(o) \/ AbandonWithResidue(o) \/ Fork(o) \/ ForkNaive(o)
             \/ Ack(o) \/ Crash(o)
    BY <1>3 DEF ReplayFailed, Abandon, AbandonWithResidue, Fork, ForkNaive, Ack, Crash,
                ReadOnly, WritesTree, journalVars
  <1>4. CASE Reconcile(o) \/ Recheck(o) \/ Reprobe(o) \/ Reconciled(o)
    BY <1>4 DEF Reconcile, Recheck, Reprobe, Reconciled, CallsWorld, ReadOnly, journalVars
  <1>5. CASE Intent(o) \/ Ambiguous(o) \/ Suppress(o) \/ Release(o)
    <2>1. /\ StepRow(o, "INTENT", NoStatus) \in Record
          /\ StepRow(o, "RESULT", "unknown") \in Record
          /\ StepRow(o, "LATE_DELIVERY_SUPPRESSED", "ok") \in Record
          /\ StepRow(o, "BARRIER_RELEASED", NoStatus) \in Record
      BY StepRowType DEF RecordKind, ResultStatus
    <2> QED BY <1>5, <2>1 DEF Intent, Ambiguous, Suppress, Release, StepRow
  <1>6. CASE RecordResult(o)
    <2>1. StepRow(o, "RESULT", orch[o].res) \in Record
      BY <1>0, StepRowType DEF RecordKind, Local
    <2> QED BY <1>6, <2>1 DEF RecordResult, StepRow
  <1>7. CASE Block(o) \/ Escalate(o)
    <2>1. /\ EscalationRow(o) \in Record /\ EscalationRow(o).kind = "ESCALATED"
          /\ BlockRow(o) \in Record /\ BlockRow(o).kind = "BARRIER_BLOCKED"
      BY OwedRowsType DEF EscalationRow, TreeRow, BlockRow, StepRow
    <2> QED BY <1>7, <2>1 DEF Block, Escalate
  <1>8. CASE CompIntent(o) \/ CompResult(o)
    <2>1. PICK r \in DOMAIN journal, kind \in {"COMP_INTENT", "COMP_RESULT"},
               st \in ResultStatus \cup {NoStatus} : append(CompRow(o, kind, r, st))
      BY <1>0, <1>8 DEF CompIntent, CompResult, Local
    <2>2. CompRow(o, kind, r, st) \in Record /\ CompRow(o, kind, r, st).kind = kind
      BY CompRowType DEF RecordKind
    <2> QED BY <2>1, <2>2
  <1>9. CASE Graduated(o) \/ RecordAbandoned(o)
    <2>1. ASSUME NEW kind \in {"BRANCH_COMPENSATED", "BRANCH_ABANDONED"}, NEW b \in Nat,
                 append(TreeRow(kind, b, NoSeverity, {}))
          PROVE  NoFork
      <3>1. /\ TreeRow(kind, b, NoSeverity, {}) \in Record
            /\ TreeRow(kind, b, NoSeverity, {}).kind = kind
        BY TreeRowType DEF RecordKind, Sev, TreeRow
      <3> QED BY <2>1, <3>1
    <2>2. Graduated(o) => \E b \in Nat : append(TreeRow("BRANCH_COMPENSATED", b, NoSeverity, {}))
      BY <1>0 DEF Graduated, JournalTypeOK
    <2>3. RecordAbandoned(o) => append(TreeRow("BRANCH_ABANDONED", orch[o].br, NoSeverity, {}))
      BY DEF RecordAbandoned
    <2>4. orch[o].br \in Nat
      BY <1>0 DEF Local
    <2> QED BY <1>9, <2>1, <2>2, <2>3, <2>4
  <1>10. ASSUME NEW kind \in RecordKind, kind # "BRANCH_FORKED", NEW r \in DOMAIN journal,
                append(SlotRow(kind, r, "ok"))
         PROVE  NoFork
    BY <1>0, <1>10, SlotRowFields, SlotRowType DEF ResultStatus
  <1>11. CASE Rematch(o) \/ Resettle(o)
    BY <1>10, <1>11 DEF Rematch, Resettle, RecordKind
  <1> QED BY <1>1, <1>2, <1>3, <1>4, <1>5, <1>6, <1>7, <1>8, <1>9, <1>11
          DEF Run, Walk, Settle, Drain, Finish, Revisit

\* What appending a row does to the table.
LEMMA AppendedRow ==
    ASSUME JournalTypeOK, NEW rec \in Record, append(rec)
    PROVE  \E n : /\ n = Len(journal) + 1 /\ n \notin DOMAIN journal
                  /\ DOMAIN journal' = DOMAIN journal \cup {n} /\ journal'[n] = rec
                  /\ \A q \in DOMAIN journal : journal'[q] = journal[q]
  <1>1. journal \in Seq(Record) /\ journal' = Append(journal, rec)
    BY DEF append, JournalTypeOK
  <1> QED BY <1>1

LEMMA NothingForked ==
    ASSUME JournalTypeOK, NoFork
    PROVE  /\ Rows("BRANCH_FORKED")' = Rows("BRANCH_FORKED")
           /\ \A f \in Rows("BRANCH_FORKED") : journal'[f] = journal[f]
           /\ \A b : Forks(b)' = Forks(b)
  <1>1. /\ Rows("BRANCH_FORKED")' = Rows("BRANCH_FORKED")
        /\ \A f \in Rows("BRANCH_FORKED") : journal'[f] = journal[f]
    <2>1. CASE UNCHANGED journal
      BY <2>1 DEF Rows
    <2>2. ASSUME NEW rec \in Record, append(rec), rec.kind # "BRANCH_FORKED"
          PROVE  /\ Rows("BRANCH_FORKED")' = Rows("BRANCH_FORKED")
                 /\ \A f \in Rows("BRANCH_FORKED") : journal'[f] = journal[f]
      <3>1. PICK n : /\ n = Len(journal) + 1 /\ n \notin DOMAIN journal
                     /\ DOMAIN journal' = DOMAIN journal \cup {n} /\ journal'[n] = rec
                     /\ \A q \in DOMAIN journal : journal'[q] = journal[q]
        BY <2>2, AppendedRow
      <3> QED BY <2>2, <3>1 DEF Rows
    <2> QED BY <2>1, <2>2 DEF NoFork
  <1> QED BY <1>1 DEF Forks

\* A process that forks names the branch it made and the severity it chose.
LEMMA ForkRow ==
    ASSUME TypeOK, NEW o \in Orchestrators, RecordFork(o)
    PROVE  \E n : /\ n \notin DOMAIN journal
                  /\ Rows("BRANCH_FORKED")' = Rows("BRANCH_FORKED") \cup {n}
                  /\ journal'[n].br = orch[o].br /\ journal'[n].sev = orch[o].chosen
                  /\ \A q \in DOMAIN journal : journal'[q] = journal[q]
                  /\ orch'[o].br = orch[o].br /\ orch'[o].sev = orch[o].chosen
                  /\ NoResult /\ UNCHANGED << branches, worldVars >>
  <1>0. JournalTypeOK /\ orch[o] \in Local /\ orch \in [Orchestrators -> Local]
    BY DEF TypeOK
  <1>1. PICK rec : rec = TreeRow("BRANCH_FORKED", orch[o].br, orch[o].chosen, {})
    OBVIOUS
  <1>2. rec \in Record
    BY <1>0, <1>1, TreeRowType DEF RecordKind, Local
  <1>3. rec.kind = "BRANCH_FORKED" /\ rec.br = orch[o].br /\ rec.sev = orch[o].chosen
    BY <1>1 DEF TreeRow
  <1>4. append(rec) /\ UNCHANGED << branches, worldVars >>
    BY <1>1 DEF RecordFork, WritesRecord
  <1>5. PICK n : /\ n = Len(journal) + 1 /\ n \notin DOMAIN journal
                 /\ DOMAIN journal' = DOMAIN journal \cup {n} /\ journal'[n] = rec
                 /\ \A q \in DOMAIN journal : journal'[q] = journal[q]
    BY <1>0, <1>2, <1>4, AppendedRow
  <1>6. Rows("BRANCH_FORKED")' = Rows("BRANCH_FORKED") \cup {n}
    BY <1>3, <1>5 DEF Rows
  <1>7. orch'[o].br = orch[o].br /\ orch'[o].sev = orch[o].chosen
    BY <1>0 DEF RecordFork, _run_branch, Local
  <1>8. NoResult
    BY <1>2, <1>3, <1>4 DEF NoResult
  <1> QED BY <1>3, <1>4, <1>5, <1>6, <1>7, <1>8

\* Who abandons a branch has chosen what the next one tries.
Dying == {"residue", "mark", "fork"}

LEMMA ChosenStays ==
    ASSUME TypeOK, LocalOK, Barrier, NEW o \in Orchestrators, Run(o) \/ Crash(o),
           orch'[o].pc \in Dying \cup {"forked"}
    PROVE  \/ /\ Abandon(o) /\ orch'[o].pc = "residue" /\ UNCHANGED journal
              /\ orch'[o].chosen \in Severities /\ NextAlternative(orch'[o].chosen)
           \/ /\ AbandonWithResidue(o) \/ RecordAbandoned(o) \/ Fork(o)
              /\ orch[o].pc \in Dying /\ orch'[o].chosen = orch[o].chosen
              /\ NoResult /\ NoFork
  <1>0. orch[o] \in Local /\ orch \in [Orchestrators -> Local] /\ JournalTypeOK
    BY DEF TypeOK
  <1>1. ~ SelectNaive(o)
    BY DEF SelectNaive, Barrier, Replays
  <1>2. Abandon(o) \/ AbandonWithResidue(o) \/ RecordAbandoned(o) \/ Fork(o)
    BY <1>1, OtherMoves, StepsTo DEF Run, Lead, Walk, Settle, Drain, Finish, Dying
  <1>3. CASE Abandon(o)
    <2>1. PICK sev \in Severities :
             /\ NextAlternative(sev)
             /\ orch' = [orch EXCEPT ![o] = [@ EXCEPT !.pc = "residue", !.chosen = sev]]
      BY <1>3 DEF Abandon
    <2>2. orch'[o].chosen = sev /\ orch'[o].pc = "residue"
      BY <1>0, <2>1 DEF Local
    <2>3. UNCHANGED journal
      BY <1>3 DEF Abandon, WritesTree
    <2> QED BY <1>3, <2>1, <2>2, <2>3
  <1>4. CASE AbandonWithResidue(o)
    <2>1. orch'[o].chosen = orch[o].chosen /\ orch[o].pc \in Dying
      BY <1>0, <1>4 DEF AbandonWithResidue, Goto, At, Local, Dying
    <2>2. UNCHANGED journal
      BY <1>4 DEF AbandonWithResidue, WritesTree
    <2> QED BY <1>4, <2>1, <2>2 DEF NoResult, NoFork
  <1>5. CASE RecordAbandoned(o)
    <2>1. orch'[o].chosen = orch[o].chosen /\ orch[o].pc \in Dying
      BY <1>0, <1>5 DEF RecordAbandoned, Goto, At, Local, Dying
    <2>2. ~ RecordFork(o)
      BY <1>5, StartsAt
    <2>3. NoFork
      BY <2>2, OnlyForks
    <2>4. NoResult
      BY <1>0, <1>5, FinishMute DEF Mute
    <2> QED BY <1>5, <2>1, <2>3, <2>4
  <1>6. CASE Fork(o)
    <2>1. orch'[o].chosen = orch[o].chosen /\ orch[o].pc \in Dying
      BY <1>0, <1>6 DEF Fork, At, Local, Dying
    <2>2. UNCHANGED journal
      BY <1>6 DEF Fork, WritesTree
    <2> QED BY <1>6, <2>1, <2>2 DEF NoResult, NoFork
  <1> QED BY <1>2, <1>3, <1>4, <1>5, <1>6

\* Where a new branch comes from.
LEMMA CreatedBy ==
    ASSUME Steady, Barrier, [Next]_vars, \A o \in Orchestrators : orch[o].chosen \in Severities
                                                                  \/ orch[o].pc # "fork"
    PROVE  \/ DOMAIN branches' = DOMAIN branches
           \/ /\ \E o \in Orchestrators : SelectFresh(o) \/ Fork(o)
              /\ NoActiveBranch
              /\ \E n : /\ n = Len(branches) + 1 /\ n \notin DOMAIN branches
                        /\ DOMAIN branches' = DOMAIN branches \cup {n} /\ IsActive(n)'
                        /\ \A c \in DOMAIN branches : branches'[c] = branches[c] /\ c < n
  <1>0. TypeOK /\ LocalOK /\ Path /\ Tree /\ JournalTypeOK /\ Replays
    BY DEF Steady, TypeOK, Barrier, Replays
  <1>1. ASSUME NEW o \in Orchestrators, SelectFresh(o) \/ Fork(o)
        PROVE  /\ NoActiveBranch
               /\ \E n : /\ n = Len(branches) + 1 /\ n \notin DOMAIN branches
                         /\ DOMAIN branches' = DOMAIN branches \cup {n} /\ IsActive(n)'
                         /\ \A c \in DOMAIN branches : branches'[c] = branches[c] /\ c < n
    <2>1. \E p, d \in Nat : create_branch(p, d)
      <3>1. CASE SelectFresh(o)
        BY <3>1 DEF SelectFresh
      <3>2. CASE Fork(o)
        <4>1. orch[o].br \in DOMAIN branches /\ orch[o].br \in Nat
          BY <1>0, <3>2 DEF LocalOK, Sound, Branchless, Fork, At, TypeOK, Local
        <4>2. branches[orch[o].br] \in Branch
          BY <1>0, <4>1 DEF JournalTypeOK
        <4>3. branches[orch[o].br].depth + 1 \in Nat
          BY <4>2 DEF Branch
        <4> QED BY <3>2, <4>1, <4>3 DEF Fork
      <3> QED BY <1>1, <3>1, <3>2
    <2>2. NoActiveBranch
      BY <1>0, <1>1 DEF SelectFresh, Fork, At, Tree, Placed
    <2>3. PICK n \in Nat : /\ n = Len(branches) + 1 /\ n \notin DOMAIN branches
                           /\ DOMAIN branches' = DOMAIN branches \cup {n} /\ IsActive(n)'
                           /\ \A c \in DOMAIN branches : branches'[c] = branches[c]
      BY <1>0, <2>1, NewBranch
    <2>4. \A c \in DOMAIN branches : c < n
      BY <1>0, <2>3 DEF JournalTypeOK
    <2> QED BY <2>2, <2>3, <2>4
  <1>2. ASSUME NEW o \in Orchestrators, Run(o) \/ Crash(o), ~ SelectFresh(o), ~ Fork(o)
        PROVE  DOMAIN branches' = DOMAIN branches
    <2>1. ~ ForkNaive(o) /\ ~ SelectNaive(o)
      BY <1>0 DEF ForkNaive, SelectNaive, At, NoSeverity, Severities
    <2>2. CASE \/ Start(o) \/ NotLeader(o) \/ Ack(o) \/ Crash(o) \/ SelectActive(o)
               \/ Replay(o) \/ Complete(o) \/ Pass(o) \/ Block(o) \/ Intent(o) \/ Probe(o)
               \/ Suppress(o) \/ ReplayFailed(o) \/ Escalate(o) \/ RecordAbandoned(o)
               \/ RecordFork(o)
      BY <1>0, <2>2, LeadMute, WalkMute, FinishMute DEF Mute
    <2>3. CASE Execute(o) \/ RecordResult(o) \/ Ambiguous(o)
      BY <2>3 DEF Execute, RecordResult, Ambiguous, WritesRecord, CallsWorld, journalVars
    <2>4. CASE Drain(o) /\ ~ Graduate(o)
      BY <1>0, <2>4, DrainMute DEF Mute
    <2>5. CASE Revisit(o) /\ ~ Resettle(o)
      BY <1>0, <2>5, RevisitMute DEF Mute, Tree
    <2>6. CASE Resettle(o)
      BY <1>0, <2>6, ResettleDoes
    <2>7. CASE Abandon(o) \/ AbandonWithResidue(o)
      <3>1. orch[o].br \in DOMAIN branches
        BY <1>0, <2>7, StartsAt DEF LocalOK, Sound, Branchless
      <3> QED BY <1>0, <2>7, <3>1, MarkedBranch DEF Abandon, AbandonWithResidue
    <2>8. CASE Graduate(o)
      BY <1>0, <2>8, MarkedBranch DEF Graduate
    <2> QED BY <1>2, <2>1, <2>2, <2>3, <2>4, <2>5, <2>6, <2>7, <2>8
            DEF Run, Lead, Walk, Settle, Finish
  <1>3. CASE Lapse \/ Redeliver \/ Land \/ UNCHANGED vars
    BY <1>0, <1>3, EnvironmentMute DEF Mute
  <1> QED BY <1>1, <1>2, <1>3 DEF Next

\* A branch runs under the severity it was forked for, the first one under the caller's.
RightSev(b, s) == \/ \E f \in Forks(b) : journal[f].sev = s
                  \/ Forks(b) = {} /\ s = FirstSeverity

\* Everything told or to be told of a branch carries its severity; whoever abandoned a
\* branch holds a severity; a branch has one fork at most, and none yet while the process
\* that made it is about to record it; and the live branch is the newest.
Choosing(l) ==
    /\ l.pc \in OnPath => RightSev(l.br, l.sev)
    /\ l.pc \in Dying \cup {"forked"} => l.chosen \in Severities
    /\ l.pc = "forked" => Forks(l.br) = {} /\ \A k \in Touched : k[1] # l.br
Forked ==
    /\ \A f \in Rows("BRANCH_FORKED") : journal[f].br \in DOMAIN branches
    /\ \A f, g \in Rows("BRANCH_FORKED") : journal[f].br = journal[g].br => f = g
    /\ \A b, c \in DOMAIN branches : IsActive(b) => c <= b
RightPage(i) == RightSev(ledger[i].key[1], ledger[i].sev)
Severed ==
    /\ Forked
    /\ \A o \in Orchestrators : Choosing(orch[o])
    /\ \A k, sev, sup : Said(k, sev, sup) => RightSev(k[1], sev)
    /\ \A i \in Pages : RightPage(i)

LEMMA ChoosingOf ==
    ASSUME NEW o \in Orchestrators, NEW m, m = orch'[o], Choosing(m)'
    PROVE  Choosing(orch[o])'
  BY DEF Choosing

LEMMA ForkBy ==
    ASSUME Steady, [Next]_vars
    PROVE  NoFork \/ \E o \in Orchestrators : RecordFork(o)
  <1>0. TypeOK /\ LocalOK
    BY DEF Steady
  <1>1. ASSUME NEW o \in Orchestrators, Run(o) \/ Crash(o)
        PROVE  NoFork \/ \E p \in Orchestrators : RecordFork(p)
    BY <1>0, <1>1, OnlyForks
  <1>2. CASE Lapse \/ Redeliver \/ Land \/ UNCHANGED vars
    BY <1>2 DEF Lapse, Redeliver, Land, vars, journalVars, NoFork
  <1> QED BY <1>1, <1>2 DEF Next

\* While a branch is made nobody is on one.
LEMMA MakingAlone ==
    ASSUME Steady, NEW o \in Orchestrators, orch[o].pc \in Dying \cup {"forked", "select"},
           NEW p \in Orchestrators, orch[p].pc # "idle"
    PROVE  p = o
  <1>1. Busy(o)
    BY DEF Busy, Dying
  <1> QED BY <1>1, Alone DEF Steady

\* A branch keeps its severity, and gets it at its fork.
LEMMA RightKept ==
    ASSUME Steady, [Next]_vars, NEW b, NEW s, RightSev(b, s),
           \A o \in Orchestrators : RecordFork(o) => b # orch[o].br
    PROVE  RightSev(b, s)'
  <1>0. TypeOK /\ JournalTypeOK
    BY DEF Steady, TypeOK
  <1>1. Forks(b)' = Forks(b) /\ \A f \in Forks(b) : journal'[f] = journal[f]
    <2>1. CASE NoFork
      BY <1>0, <2>1, NothingForked DEF Forks
    <2>2. ASSUME NEW o \in Orchestrators, RecordFork(o)
          PROVE  Forks(b)' = Forks(b) /\ \A f \in Forks(b) : journal'[f] = journal[f]
      <3>1. PICK n : /\ n \notin DOMAIN journal
                     /\ Rows("BRANCH_FORKED")' = Rows("BRANCH_FORKED") \cup {n}
                     /\ journal'[n].br = orch[o].br
                     /\ \A q \in DOMAIN journal : journal'[q] = journal[q]
        BY <1>0, <2>2, ForkRow
      <3>2. b # orch[o].br
        BY <2>2
      <3>3. \A f \in Rows("BRANCH_FORKED") : journal'[f] = journal[f]
        BY <3>1 DEF Rows
      <3> QED BY <3>1, <3>2, <3>3 DEF Forks
    <2> QED BY <2>1, <2>2, ForkBy
  <1> QED BY <1>1 DEF RightSev

LEMMA RightGiven ==
    ASSUME TypeOK, NEW o \in Orchestrators, RecordFork(o),
           NEW b, NEW s, b = orch[o].br, s = orch[o].chosen
    PROVE  RightSev(b, s)'
  <1>1. PICK n : /\ Rows("BRANCH_FORKED")' = Rows("BRANCH_FORKED") \cup {n}
                 /\ journal'[n].br = orch[o].br /\ journal'[n].sev = orch[o].chosen
    BY ForkRow
  <1>2. n \in Forks(b)' /\ journal'[n].sev = s
    BY <1>1 DEF Forks
  <1> QED BY <1>2 DEF RightSev

\* What is called, said and entered of a branch has its severity ...
LEMMA CallingRight ==
    ASSUME Steady, Severed, [Next]_vars, NEW k, NEW sev, NEW sup,
           Said(k, sev, sup) \/ \E o \in Orchestrators : Calling(o, k, sev, sup)
    PROVE  RightSev(k[1], sev) /\ RightSev(k[1], sev)'
  <1>0. TypeOK
    BY DEF Steady
  <1>1. ASSUME NEW o \in Orchestrators, Calling(o, k, sev, sup)
        PROVE  /\ RightSev(k[1], sev)
               /\ \A p \in Orchestrators : ~ RecordFork(p)
    <2>1. orch[o].pc \in OnPath /\ k[1] = orch[o].br /\ sev = orch[o].sev
      BY <1>1, CallingIs
    <2>2. RightSev(orch[o].br, orch[o].sev)
      BY <2>1 DEF Severed, Choosing
    <2>3. ASSUME NEW p \in Orchestrators, RecordFork(p) PROVE FALSE
      <3>1. orch[p].pc = "forked"
        BY <2>3, StartsAt
      <3>2. o = p
        BY <2>1, <3>1, MakingAlone DEF OnPath
      <3> QED BY <2>1, <3>1, <3>2 DEF OnPath
    <2> QED BY <2>1, <2>2, <2>3
  <1>2. ASSUME Said(k, sev, sup)
        PROVE  /\ RightSev(k[1], sev)
               /\ \A p \in Orchestrators : RecordFork(p) => k[1] # orch[p].br
    <2>1. RightSev(k[1], sev)
      BY <1>2 DEF Severed
    <2>2. k \in Touched
      BY <1>2, SaidTouched
    <2>3. ASSUME NEW p \in Orchestrators, RecordFork(p) PROVE k[1] # orch[p].br
      <3>1. orch[p].pc = "forked"
        BY <2>3, StartsAt
      <3> QED BY <2>2, <3>1 DEF Severed, Choosing
    <2> QED BY <2>1, <2>3
  <1> QED BY <1>1, <1>2, RightKept

\* ... and keeps it.
LEMMA PageRight ==
    ASSUME NEW i, NEW b, NEW s, ledger'[i].key[1] = b, ledger'[i].sev = s, RightSev(b, s)'
    PROVE  RightPage(i)'
  BY DEF RightPage, RightSev, Forks

LEMMA SaidRight ==
    ASSUME Steady, LedgerOK, Severed, [Next]_vars
    PROVE  /\ \A k, sev, sup : Said(k, sev, sup)' => RightSev(k[1], sev)'
           /\ \A i \in Pages' : RightPage(i)'
  <1>1. ASSUME NEW k, NEW sev, NEW sup, Said(k, sev, sup)'
        PROVE  RightSev(k[1], sev)'
    BY <1>1, SaidBy, CallingRight
  <1>2. ASSUME NEW i \in Pages, ledger'[i] = ledger[i]
        PROVE  RightPage(i)'
    <2>1. PICK b : b = ledger[i].key[1]
      OBVIOUS
    <2>2. PICK s : s = ledger[i].sev
      OBVIOUS
    <2>3. RightSev(b, s)
      BY <2>1, <2>2 DEF Severed, RightPage
    <2>4. ASSUME NEW p \in Orchestrators, RecordFork(p) PROVE b # orch[p].br
      <3>1. orch[p].pc = "forked"
        BY <2>4, StartsAt
      <3>2. ledger[i].key \in Touched
        BY PageIs DEF Touched
      <3> QED BY <2>1, <3>1, <3>2 DEF Severed, Choosing
    <2>5. RightSev(b, s)'
      BY <2>3, <2>4, RightKept
    <2> QED BY <1>2, <2>1, <2>2, <2>5, PageRight
  <1>3. ASSUME NEW n, NEW k, NEW sev, NEW sup, NewEntry(n, k, sev, sup),
               Said(k, sev, sup) \/ \E o \in Orchestrators : Calling(o, k, sev, sup),
               NEW i \in Pages'
        PROVE  RightPage(i)'
    <2>1. CASE i \in Pages
      BY <1>2, <1>3, <2>1, NewPages
    <2>2. CASE i = n
      <3>1. ledger'[i].key = k /\ ledger'[i].sev = sev
        BY <1>3, <2>2 DEF NewEntry
      <3>2. RightSev(k[1], sev)'
        BY <1>3, CallingRight
      <3>3. PICK b : b = k[1]
        OBVIOUS
      <3>4. RightSev(b, sev)'
        BY <3>2, <3>3
      <3> QED BY <3>1, <3>3, <3>4, PageRight
    <2> QED BY <1>3, <2>1, <2>2, NewPages
  <1>4. ASSUME SameEntries, NEW i \in Pages' PROVE RightPage(i)'
    BY <1>2, <1>4, OldPages
  <1>5. \A i \in Pages' : RightPage(i)'
    BY <1>3, <1>4, EntersBy
  <1> QED BY <1>1, <1>5

\* A branch that is taken up again runs under its severity.
LEMMA SelectedRight ==
    ASSUME Severed, NEW b, NEW sev, _severity_for_branch(b, sev)
    PROVE  RightSev(b, sev)
  <1> DEFINE own == {r \in Classifications : journal[r].br = b}
  <1>1. CASE own = {} /\ sev = FirstSeverity
    <2>1. Forks(b) = {}
      BY <1>1 DEF Forks, Classifications
    <2> QED BY <1>1, <2>1 DEF RightSev
  <1>2. ASSUME NEW r \in own, sev = journal[r].sev PROVE RightSev(b, sev)
    <2>1. CASE r \in Rows("BRANCH_FORKED")
      BY <1>2, <2>1 DEF RightSev, Forks
    <2>2. CASE r \in Rows("RESULT")
      <3>1. PICK k : k = KeyOf(r)
        OBVIOUS
      <3>2. Said(k, sev, journal[r].sup) /\ k[1] = b
        BY <1>2, <2>2, <3>1 DEF Said, KeyOf, effect_key
      <3> QED BY <3>2 DEF Severed
    <2> QED BY <2>1, <2>2 DEF Classifications
  <1> QED BY <1>1, <1>2 DEF _severity_for_branch

LEMMA ChoosingKept ==
    ASSUME Steady, [Next]_vars, NEW p \in Orchestrators, Choosing(orch[p]),
           orch'[p] = orch[p], UNCHANGED journal
    PROVE  Choosing(orch[p])'
  <1>0. TypeOK /\ LocalOK /\ Path /\ Tree
    BY DEF Steady
  <1>1. PICK m : m = orch[p]
    OBVIOUS
  <1>2. Choosing(m)
    BY <1>1
  <1>3. m.pc \in OnPath => RightSev(m.br, m.sev)'
    BY <1>2 DEF Choosing, RightSev, Forks, Rows
  <1>4. m.pc \in Dying \cup {"forked"} => m.chosen \in Severities
    BY <1>2 DEF Choosing
  <1>5. ASSUME m.pc = "forked", NEW k \in Touched' PROVE k[1] # m.br
    <2>1. k \in Touched \/ \E o \in Orchestrators : orch[o].pc \in {"call", "called", "ambiguous"}
      BY <1>0, NewKey
    <2>2. ASSUME NEW o \in Orchestrators, orch[o].pc \in {"call", "called", "ambiguous"} PROVE FALSE
      <3>1. o = p
        BY <1>1, <1>5, <2>2, MakingAlone
      <3> QED BY <1>1, <1>5, <2>2, <3>1
    <2> QED BY <1>2, <1>5, <2>1, <2>2 DEF Choosing
  <1>6. m.pc = "forked" => Forks(m.br)' = {}
    BY <1>2 DEF Choosing, Forks, Rows
  <1>7. Choosing(m)'
    BY <1>3, <1>4, <1>5, <1>6 DEF Choosing
  <1> QED BY <1>1, <1>7, ChoosingOf

LEMMA ChoosingMoves ==
    ASSUME Steady, Barrier, LedgerOK, Severed, [Next]_vars, NEW p \in Orchestrators,
           Run(p) \/ Crash(p)
    PROVE  Choosing(orch[p])'
  <1>0. TypeOK /\ LocalOK /\ Path /\ Tree /\ JournalTypeOK /\ Replays
    BY DEF Steady, TypeOK, Barrier, Replays
  <1>o. orch[p] \in Local /\ orch \in [Orchestrators -> Local]
    BY <1>0 DEF TypeOK
  <1>1. PICK m : m = orch'[p]
    OBVIOUS
  <1>c. Choosing(orch[p])
    BY DEF Severed
  <1>2. ASSUME m.pc \in OnPath PROVE RightSev(m.br, m.sev)'
    <2>1. ASSUME NEW b, NEW s, m.br = b, m.sev = s, RightSev(b, s)' PROVE RightSev(m.br, m.sev)'
      BY <2>1 DEF RightSev, Forks
    <2>2. ASSUME NEW b, NEW s, m.br = b, m.sev = s, RightSev(b, s), orch[p].pc # "forked",
                 orch[p].pc # "idle"
          PROVE  RightSev(m.br, m.sev)'
      <3>1. ASSUME NEW o \in Orchestrators, RecordFork(o) PROVE FALSE
        <4>1. orch[o].pc = "forked"
          BY <3>1, StartsAt
        <4> QED BY <2>2, <4>1, MakingAlone
      <3>2. RightSev(b, s)'
        BY <2>2, <3>1, RightKept
      <3> QED BY <2>1, <2>2, <3>2
    <2>3. CASE TagsKept(p)
      BY <1>1, <1>2, <1>c, <2>2, <2>3 DEF TagsKept, Choosing, OnPath
    <2>4. CASE SelectActive(p)
      <3>1. PICK b \in DOMAIN branches, sev \in Severities :
               _severity_for_branch(b, sev) /\ _run_branch(p, b, sev)
        BY <2>4 DEF SelectActive
      <3>2. m.br = b /\ m.sev = sev
        BY <1>o, <1>1, <3>1 DEF _run_branch, Local
      <3> QED BY <2>2, <2>4, <3>1, <3>2, SelectedRight, StartsAt
    <2>5. CASE SelectFresh(p)
      <3>1. m.br = Len(branches) + 1 /\ m.sev = FirstSeverity
        BY <1>o, <1>1, <2>5 DEF SelectFresh, _run_branch, Local
      <3>2. PICK b : b = Len(branches) + 1
        OBVIOUS
      <3>3. b \notin DOMAIN branches
        BY <1>0, <3>2 DEF JournalTypeOK
      <3>4. RightSev(b, FirstSeverity)
        BY <3>3 DEF Severed, Forked, RightSev, Forks
      <3> QED BY <2>2, <2>5, <3>1, <3>2, <3>4, StartsAt
    <2>6. CASE RecordFork(p)
      <3>1. PICK b : b = orch[p].br
        OBVIOUS
      <3>2. PICK s : s = orch[p].chosen
        OBVIOUS
      <3>3. m.br = b /\ m.sev = s
        BY <1>0, <1>1, <2>6, <3>1, <3>2, ForkRow
      <3>4. RightSev(b, s)'
        BY <1>0, <2>6, <3>1, <3>2, RightGiven
      <3> QED BY <2>1, <3>3, <3>4
    <2>7. ~ ForkNaive(p)
      BY <1>c DEF ForkNaive, At, Choosing, Dying, NoSeverity, Severities
    <2> QED BY <1>0, <2>3, <2>4, <2>5, <2>6, <2>7, TagsStay
  <1>3. ASSUME m.pc \in Dying \cup {"forked"}
        PROVE  m.chosen \in Severities
    BY <1>0, <1>1, <1>3, <1>c, ChosenStays DEF Choosing
  <1>4. ASSUME m.pc = "forked"
        PROVE  Forks(m.br)' = {} /\ \A k \in Touched' : k[1] # m.br
    <2>1. Fork(p)
      <3>1. AbandonWithResidue(p) \/ RecordAbandoned(p) \/ Fork(p)
        BY <1>0, <1>1, <1>4, ChosenStays
      <3> QED BY <1>0, <1>1, <1>4, <3>1, OtherMoves
    <2>2. m.br = Len(branches) + 1
      BY <1>o, <1>1, <2>1 DEF Fork, Local
    <2>3. m.br \notin DOMAIN branches
      BY <1>0, <2>2 DEF JournalTypeOK
    <2>4. UNCHANGED << journal, worldVars >>
      BY <2>1 DEF Fork, WritesTree
    <2>5. Touched' = Touched
      BY <2>4 DEF Touched, worldVars, LateKeys, Told, Rows, KeyOf
    <2>6. \A k \in Touched' : k[1] # m.br
      BY <2>3, <2>5, OkayPlace
    <2>7. Forks(m.br)' = {}
      BY <2>3, <2>4 DEF Forks, Rows, Severed, Forked
    <2> QED BY <2>6, <2>7
  <1>5. Choosing(m)'
    BY <1>2, <1>3, <1>4 DEF Choosing
  <1> QED BY <1>1, <1>5, ChoosingOf

LEMMA ChoosingNext ==
    ASSUME Steady, Barrier, LedgerOK, Severed, [Next]_vars, NEW p \in Orchestrators
    PROVE  Choosing(orch[p])'
  <1>1. CASE orch'[p] = orch[p] /\ UNCHANGED journalVars
    BY <1>1, ChoosingKept DEF Severed, journalVars
  <1>2. ASSUME orch'[p] = orch[p], ~ Busy(p) PROVE Choosing(orch[p])'
    BY <1>2 DEF Choosing, Busy, OnPath, Dying
  <1> QED BY <1>1, <1>2, ChoosingMoves, StepFor

LEMMA ForkedNext ==
    ASSUME Steady, Barrier, Severed, [Next]_vars
    PROVE  Forked'
  <1>0. TypeOK /\ LocalOK /\ Path /\ Tree /\ JournalTypeOK /\ Replays /\ Forked
    BY DEF Steady, TypeOK, Barrier, Replays, Severed
  <1>g. Grows
    BY <1>0, TypesNext
  <1>k. /\ \A r \in DOMAIN journal : r \in DOMAIN journal' /\ journal'[r] = journal[r]
        /\ \A b \in DOMAIN branches : b \in DOMAIN branches'
    BY <1>0, <1>g, GrowthKeeps
  <1>c. \/ DOMAIN branches' = DOMAIN branches
        \/ /\ \E o \in Orchestrators : SelectFresh(o) \/ Fork(o)
           /\ NoActiveBranch
           /\ \E n : /\ n = Len(branches) + 1 /\ n \notin DOMAIN branches
                     /\ DOMAIN branches' = DOMAIN branches \cup {n} /\ IsActive(n)'
                     /\ \A c \in DOMAIN branches : branches'[c] = branches[c] /\ c < n
    <2>1. \A o \in Orchestrators : orch[o].chosen \in Severities \/ orch[o].pc # "fork"
      BY DEF Severed, Choosing, Dying
    <2> QED BY <2>1, CreatedBy
  <1>1. /\ \A f \in Rows("BRANCH_FORKED")' : journal'[f].br \in DOMAIN branches'
        /\ \A f, g \in Rows("BRANCH_FORKED")' : journal'[f].br = journal'[g].br => f = g
    <2>1. CASE NoFork
      <3>1. /\ Rows("BRANCH_FORKED")' = Rows("BRANCH_FORKED")
            /\ \A f \in Rows("BRANCH_FORKED") : journal'[f] = journal[f]
        BY <1>0, <2>1, NothingForked
      <3> QED BY <1>0, <1>k, <3>1 DEF Forked
    <2>2. ASSUME NEW o \in Orchestrators, RecordFork(o)
          PROVE  /\ \A f \in Rows("BRANCH_FORKED")' : journal'[f].br \in DOMAIN branches'
                 /\ \A f, g \in Rows("BRANCH_FORKED")' : journal'[f].br = journal'[g].br => f = g
      <3>1. PICK n : /\ n \notin DOMAIN journal
                     /\ Rows("BRANCH_FORKED")' = Rows("BRANCH_FORKED") \cup {n}
                     /\ journal'[n].br = orch[o].br
                     /\ \A q \in DOMAIN journal : journal'[q] = journal[q]
        BY <1>0, <2>2, ForkRow
      <3>2. orch[o].br \in DOMAIN branches /\ Forks(orch[o].br) = {}
        BY <1>0, <2>2, StartsAt DEF LocalOK, Sound, Branchless, Severed, Choosing
      <3>3. \A f \in Rows("BRANCH_FORKED") : /\ journal'[f] = journal[f]
                                             /\ journal[f].br # orch[o].br
                                             /\ journal[f].br \in DOMAIN branches
        BY <1>0, <3>1, <3>2 DEF Rows, Forks, Forked
      <3> QED BY <1>0, <1>k, <3>1, <3>2, <3>3 DEF Forked
    <2> QED BY <2>1, <2>2, ForkBy
  <1>2. ASSUME NEW b \in DOMAIN branches', NEW c \in DOMAIN branches', IsActive(b)'
        PROVE  c <= b
    <2>1. CASE DOMAIN branches' = DOMAIN branches
      <3>1. IsActive(b)
        BY <1>0, <1>2, <1>g, <2>1, GrowthKeeps
      <3> QED BY <1>0, <1>2, <2>1, <3>1 DEF Forked
    <2>2. ASSUME NoActiveBranch, NEW n, DOMAIN branches' = DOMAIN branches \cup {n},
                 \A d \in DOMAIN branches : branches'[d] = branches[d] /\ d < n, n = Len(branches) + 1
          PROVE  c <= b
      <3>1. b = n
        BY <1>2, <2>2 DEF NoActiveBranch, IsActive
      <3>2. n \in Nat /\ DOMAIN branches \subseteq Nat
        BY <1>0, <2>2 DEF JournalTypeOK
      <3> QED BY <1>2, <2>2, <3>1, <3>2
    <2> QED BY <1>c, <2>1, <2>2
  <1> QED BY <1>1, <1>2 DEF Forked

LEMMA SeveredAlways ==
    ASSUME NoTakeover, Apart
    PROVE  Spec => [](Barrier => Severed)
  <1>1. Init => Severed
    <2> SUFFICES ASSUME Init PROVE Severed
      OBVIOUS
    <2>1. Pages = {}
      BY InitNothing DEF Pages, Entries
    <2>2. \A k, sev, sup : ~ Said(k, sev, sup)
      BY InitNothing DEF Said
    <2>3. \A o \in Orchestrators : orch[o].pc = "idle"
      BY DEF Init, Idle
    <2>4. \A o \in Orchestrators : Choosing(orch[o])
      BY <2>3 DEF Choosing, OnPath, Dying
    <2>5. DOMAIN branches = {} /\ branches = << >>
      BY InitNothing
    <2>6. Forked
      BY <2>5, InitNothing DEF Forked
    <2> QED BY <2>1, <2>2, <2>4, <2>6 DEF Severed
  <1>2. Steady /\ Inv /\ [Next]_vars /\ (Barrier => Severed) => (Barrier => Severed)'
    <2> SUFFICES ASSUME Steady, Inv, [Next]_vars, Barrier => Severed, Barrier'
                 PROVE  Severed'
      OBVIOUS
    <2>1. Barrier /\ LedgerOK
      BY SettingsStay DEF settings, Barrier, Steady, Inv
    <2>2. Forked'
      BY <2>1, ForkedNext
    <2>3. \A o \in Orchestrators : Choosing(orch[o])'
      BY <2>1, ChoosingNext
    <2>4. /\ \A k, sev, sup : Said(k, sev, sup)' => RightSev(k[1], sev)'
          /\ \A i \in Pages' : RightPage(i)'
      BY <2>1, SaidRight
    <2> QED BY <2>2, <2>3, <2>4 DEF Severed
  <1> QED BY <1>1, <1>2, SteadyAlways, Invariance, PTL DEF Spec

------------------------------------------------------------------------------
(* What stays owed                                                         *)

\* The undo of what is owed and done is owed.
LEMMA OwesNext ==
    ASSUME JournalTypeOK', NEW k \in Key, ToolOf(k) \in Compensatable, k[1] \in dead_branches',
           k \in Okay', k \notin compensations'
    PROVE  k \in Owed'
  <1> DEFINE found == {r \in Rows("RESULT")' : /\ journal'[r].br \in dead_branches'
                                               /\ journal'[r].seq \in Steps
                                               /\ ToolOf(KeyOf(r)') \in Compensatable
                                               /\ journal'[r].status \in {"ok"}}
             mine  == {r \in found : KeyOf(r)' = k}
  <1>1. PICK r \in Rows("RESULT")' : KeyOf(r)' = k /\ journal'[r].status = "ok"
    BY DEF Okay
  <1>2. journal'[r].br = k[1] /\ journal'[r].seq = k[2] /\ k[2] \in Steps
    BY <1>1, KeyIs DEF KeyOf, effect_key
  <1>3. r \in mine
    BY <1>1, <1>2
  <1>4. mine \in SUBSET Nat
    BY DEF Rows, JournalTypeOK
  <1>5. PICK i \in mine : \A j \in mine : i <= j
    BY <1>3, <1>4, FirstRow
  <1>6. DeadResults(Compensatable, {"ok"})' = {p \in found : \A q \in found : KeyOf(q)' = KeyOf(p)' => p <= q}
    BY DEF DeadResults, ToolOf
  <1>7. i \in DeadResults(Compensatable, {"ok"})'
    BY <1>5, <1>6
  <1>8. i \in uncompensated'
    BY <1>5, <1>7 DEF uncompensated
  <1> QED BY <1>5, <1>8 DEF Owed

\* What is owed stays so until its undo is reported.
LEMMA OwedStays ==
    ASSUME Steady, Barrier, Paid, [Next]_vars, NEW k \in Owed, k \notin Owed'
    PROVE  \E o \in Orchestrators : CompResult(o) /\ k \in compensations'
  <1>0. TypeOK /\ LocalOK /\ JournalTypeOK /\ Grows /\ Replays /\ JournalTypeOK'
    BY TypesNext DEF Steady, TypeOK, Barrier, Replays
  <1>1. /\ k \in Key /\ ToolOf(k) \in Compensatable /\ k[1] \in dead_branches
        /\ k \in Okay /\ k \notin compensations
    BY <1>0, OwedIs
  <1>2. k \in Okay'
    BY <1>0, <1>1, OkayStays
  <1>3. k[1] \in DOMAIN branches /\ branches[k[1]].status \in DEAD_BRANCH_STATUSES
    BY <1>1 DEF dead_branches
  <1>4. ASSUME NEW o \in Orchestrators, Graduate(o) PROVE FALSE
    <2>1. orch[o].pc = "graduate"
      BY <1>4, StartsAt
    <2> QED BY <2>1 DEF Paid, Squared
  <1>5. k[1] \in DOMAIN branches' /\ branches'[k[1]].status \in DEAD_BRANCH_STATUSES
    BY <1>0, <1>3, <1>4, StatusBy DEF DEAD_BRANCH_STATUSES
  <1>6. k[1] \in dead_branches'
    BY <1>5 DEF dead_branches
  <1>7. k \in compensations'
    BY <1>0, <1>1, <1>2, <1>6, OwesNext
  <1>8. ASSUME \A o \in Orchestrators : ~ CompResult(o) PROVE FALSE
    <2>1. NoUndo
      <3>1. CASE Lapse \/ Redeliver \/ Land \/ UNCHANGED vars
        BY <3>1 DEF Lapse, Redeliver, Land, vars, EngineVars, journalVars, NoUndo
      <3>2. ASSUME NEW o \in Orchestrators, Run(o) \/ Crash(o) PROVE NoUndo
        BY <1>0, <1>8, <3>2, OnlyCompResult
      <3> QED BY <3>1, <3>2 DEF Next
    <2> QED BY <1>0, <1>1, <1>7, <2>1, NothingUndone
  <1> QED BY <1>7, <1>8

\* What is on the list is owed.
LEMMA ListOwed ==
    ASSUME Steady, Paid, NEW o \in Orchestrators, NEW r \in orch[o].todo
    PROVE  KeyOf(r) \in Owed
  <1>0. JournalTypeOK
    BY DEF Steady, TypeOK
  <1>1. /\ r \in Rows("RESULT") /\ journal[r].status = "ok" /\ KeyOf(r) \notin compensations
        /\ Undoable(r)
    BY DEF Steady, Listed, OnList, LocalOK, Sound
  <1>2. KeyOf(r) \in Okay /\ KeyOf(r)[1] = journal[r].br
    BY <1>1 DEF Okay, KeyOf, effect_key
  <1>3. KeyOf(r) \in Key
    BY <1>2, OkayPlace
  <1>4. KeyOf(r)[1] \in dead_branches
    <2>1. branches[KeyOf(r)[1]].status # "compensated"
      BY <1>1, <1>2 DEF Paid, Undoable
    <2> QED BY <1>0, <1>1, <1>2, <2>1, DeadIs DEF Undoable
  <1> QED BY <1>0, <1>1, <1>2, <1>3, <1>4, OwedIs DEF Undoable

\* The last debt is paid by who then looks whether he is done.
LEMMA LastPaid ==
    ASSUME Steady, Barrier, Paid, [Next]_vars, Owed # {}, Owed' = {}
    PROVE  \E o \in Orchestrators : orch'[o].pc = "drain"
  <1>0. TypeOK /\ JournalTypeOK /\ Grows
    BY TypesNext DEF Steady, TypeOK
  <1>1. PICK o \in Orchestrators : CompResult(o)
    BY OwedStays
  <1>2. PICK r \in orch[o].todo :
              /\ orch'[o].pc \in {"drain", "comp"}
              /\ Latest(orch[o], r)
              /\ compensations' = compensations \cup (IF orch[o].res = "ok" THEN {KeyOf(r)} ELSE {})
    BY <1>0, <1>1, CompResultDoes
  <1>3. orch[o].todo = {r}
    <2>1. ASSUME NEW q \in orch[o].todo, q # r PROVE FALSE
      <3>1. KeyOf(q) # KeyOf(r) /\ KeyOf(q) \notin compensations
        BY <1>2, <2>1 DEF Steady, Listed, OnList
      <3>2. KeyOf(q) \in Owed
        BY ListOwed
      <3>3. KeyOf(q) \in compensations'
        BY <3>2, OwedStays
      <3> QED BY <1>2, <3>1, <3>3
    <2> QED BY <2>1, <1>2 DEF Latest
  <1>4. orch'[o].pc = "drain"
    <2>1. orch[o] \in Local /\ orch \in [Orchestrators -> Local]
      BY <1>0 DEF TypeOK
    <2>2. PICK q \in DOMAIN journal :
             /\ NextUndo(o, q)
             /\ orch' = [orch EXCEPT ![o] =
                  [@ EXCEPT !.pc = IF orch[o].todo = {q} THEN "drain" ELSE "comp",
                            !.todo = orch[o].todo \ {q}, !.res = NoStatus]]
      BY <1>1 DEF CompResult
    <2>3. q = r
      BY <1>3, <2>2 DEF NextUndo
    <2> QED BY <1>3, <2>1, <2>2, <2>3 DEF Local
  <1> QED BY <1>4

------------------------------------------------------------------------------
(* The undos of a branch go backwards, in the world and in the journal     *)

\* The journal's half of a doubt about a page, and of the order of the steps, from
\* ExactlyOnceProofs.
LEMMA ConfessedAlways == ASSUME NoTakeover, Apart PROVE Spec => []Confessed
  <1>1. Init => Confessed
    BY DEF Init, Confessed, Idle
  <1>2. Steady /\ Confessed /\ [Next]_vars => Confessed'
    BY ConfessedNext DEF Steady
  <1> QED BY <1>1, <1>2, SteadyAlways, PTL DEF Spec

LEMMA OrderedAlways == ASSUME NoTakeover, Apart PROVE Spec => [](Replays => Ordered)
  <1>1. Init => Ordered
    BY InitNothing DEF Ordered
  <1>2. Steady /\ (Replays => Ordered) /\ [Next]_vars => (Replays => Ordered)'
    BY OrderedNext DEF Steady
  <1> QED BY <1>1, <1>2, SteadyAlways, PTL DEF Spec

\* Only the undo that comes last in its branch's turn may lose its answer.
UndosAnswered ==
    \A c \in Scenarios, k \in Key :
        ToolOf(k) \in Compensatable \cap c.faults.lost_replies => First(k)

\* The keys below this one: what is in force on its branch, or undone there later.
Below(K, k) == \A j \in K : (j[1] = k[1] /\ ToolOf(j) \in Compensatable) => j[2] < k[2]

\* What took hold is in force or was undone; where something was undone, only earlier
\* effects of its branch are still in force; an undo that is not reported, since its leader
\* died or its answer was lost, is the last of its branch so far; and later undos are of
\* earlier effects.
Met(i)    == ledger[i].key \in applied \/ Happened("compensation", ledger[i].key)
Under(i)  == Below(applied, ledger[i].key)
Lowest(k) == \A i \in Entries("compensation") : ledger[i].key[1] = k[1] => k[2] <= ledger[i].key[2]
Reverted(i) ==
    /\ ledger[i].key \in Okay /\ ToolOf(ledger[i].key) \in Compensatable
    /\ ledger[i].key \in compensations \/ Lowest(ledger[i].key)
Unwinding ==
    /\ \A i \in Entries("effect") : Met(i)
    /\ \A i \in Entries("compensation") : Under(i) /\ Reverted(i)
    /\ UndosOrdered

\* ... and they are reported in that order.
Backwards ==
    /\ Unwinding
    /\ compensations \subseteq Okay
    /\ \A q, r \in Undone : q < r => Below({KeyOf(r)}, KeyOf(q))
    /\ \A k : (\E o \in Orchestrators : Reporting(orch[o], k)) =>
          /\ k \in Okay
          /\ \A q \in Undone : Below({k}, KeyOf(q))

\* A leader that undoes has on its list whatever is owed, but for what comes first on its
\* branch, and what it is about to report is undone, or comes first.
Pursued(l) ==
    /\ l.pc \in Undoing \cup {"drain"} => Barrier
    /\ l.pc \in Undoing => \A k \in Owed : First(k) \/ \E r \in l.todo : KeyOf(r) = k
    /\ l.pc = "undone" => \A r \in l.todo : Latest(l, r) => l.res = "ok" \/ First(KeyOf(r))

LEMMA PursuedOf ==
    ASSUME NEW o \in Orchestrators, NEW m, m = orch'[o], Pursued(m)'
    PROVE  Pursued(orch[o])'
  BY DEF Pursued, Barrier, Owed, Latest, KeyOf, First

\* An undo that is not answered with an ok is of a tool that fails or loses its answer.
LEMMA UndoUntold ==
    ASSUME UndoFailsFirst, UndosAnswered, TypeOK, LocalOK, Calm, OneEpoch,
           NEW o \in Orchestrators, Undo(o), NEW r \in orch[o].todo, Latest(orch[o], r),
           orch'[o].res # "ok"
    PROVE  First(KeyOf(r))
  <1>1. PICK q \in DOMAIN journal, res \in ResultStatus :
           /\ NextUndo(o, q)
           /\ compensate([key |-> KeyOf(q), sev |-> journal[q].sev, sup |-> 0],
                         orch[o].epoch, res)
           /\ orch' = [orch EXCEPT ![o] = [@ EXCEPT !.pc = "undone", !.res = res]]
    BY DEF Undo
  <1>2. q = r
    <2>1. q <= r /\ r <= q /\ orch[o].todo \subseteq Nat
      BY <1>1 DEF NextUndo, Latest, TypeOK, Local
    <2> QED BY <1>1, <2>1 DEF NextUndo
  <1>3. PICK k : k = KeyOf(r)
    OBVIOUS
  <1>4. k \in Key /\ ToolOf(k) \in Compensatable /\ ToolOf(k) \in Tools
    <2>1. Undoable(r) /\ journal[r] \in Record
      BY DEF LocalOK, Sound, Undoable, TypeOK, JournalTypeOK
    <2> QED BY <1>3, <2>1 DEF Undoable, KeyOf, effect_key, Key, Record, Tools
  <1>5. /\ FenceOf[ToolOf(k)] \in Fences /\ epochSeen \in [Fences -> Nat]
        /\ orch[o].epoch = lease.epoch /\ lease.epoch \in Nat
    BY <1>4 DEF Fences, TypeOK, WorldTypeOK, OneEpoch, Leading, Undo, At
  <1>6. ~ Refused(ToolOf(k), orch[o].epoch)
    BY <1>5 DEF Refused, OneEpoch
  <1>7. res # "ok"
    <2>1. orch'[o].res = res
      BY <1>1 DEF TypeOK, Local
    <2> QED BY <2>1
  <1>8. ToolOf(k) \in faults.fail_tools \cup faults.fail_compensation_tools
                         \cup faults.unreachable \cup faults.lost_replies
    BY <1>1, <1>2, <1>3, <1>6, <1>7 DEF compensate, TurnedAway, undo_effect, Unreachable, Reply
  <1>9. PICK c \in Scenarios : faults = c.faults
    BY DEF Calm
  <1> QED BY <1>3, <1>4, <1>8, <1>9 DEF UndoFailsFirst, UndosAnswered

LEMMA PursuedKept ==
    ASSUME Steady, Paid, [Next]_vars, \A p \in Orchestrators : ~ Abandon(p),
           NEW o \in Orchestrators, orch'[o] = orch[o], Pursued(orch[o])
    PROVE  Pursued(orch[o])'
  <1>0. JournalTypeOK /\ Grows /\ LocalOK /\ config' = config
    BY TypesNext, SettingsStay DEF Steady, TypeOK, settings
  <1>1. PICK m : m = orch'[o] /\ m = orch[o]
    OBVIOUS
  <1>2. CASE m.pc \notin Undoing \cup {"drain"}
    <2>1. Pursued(m)'
      BY <1>2 DEF Pursued, Undoing
    <2> QED BY <1>1, <2>1, PursuedOf
  <1>3. CASE m.pc \in Undoing \cup {"drain"}
    <2>1. Barrier /\ Barrier' /\ Replays
      BY <1>0, <1>1, <1>3 DEF Pursued, Barrier, Replays
    <2>2. Owed' \subseteq Owed
      BY <2>1, OwedShrinks
    <2>3. \A r \in m.todo : KeyOf(r)' = KeyOf(r)
      BY <1>0, <1>1, GrowthKeeps DEF LocalOK, Sound, Undoable, KeyOf
    <2>4. ASSUME m.pc \in Undoing
          PROVE  \A k \in Owed' : First(k) \/ \E r \in m.todo : KeyOf(r)' = k
      BY <1>1, <2>2, <2>3, <2>4 DEF Pursued
    <2>5. ASSUME m.pc = "undone", NEW r \in m.todo, Latest(m, r)
          PROVE  m.res = "ok" \/ First(KeyOf(r)')
      BY <1>1, <2>3, <2>5 DEF Pursued
    <2>6. Pursued(m)'
      BY <2>1, <2>4, <2>5 DEF Pursued, Latest, First
    <2> QED BY <1>1, <2>6, PursuedOf
  <1> QED BY <1>2, <1>3

LEMMA PursuedMoves ==
    ASSUME UndoFailsFirst, UndosAnswered, Steady, OneEpoch, Paid, [Next]_vars,
           \A p \in Orchestrators : ~ Abandon(p),
           NEW o \in Orchestrators, Run(o) \/ Crash(o), Pursued(orch[o])
    PROVE  Pursued(orch[o])'
  <1>0. /\ TypeOK /\ LocalOK /\ Calm /\ Listed /\ JournalTypeOK /\ Grows /\ orch[o] \in Local
        /\ orch \in [Orchestrators -> Local] /\ (Barrier => Barrier')
    <2>1. Barrier => Barrier'
      BY SettingsStay DEF settings, Barrier, Steady
    <2> QED BY <2>1, TypesNext DEF Steady, TypeOK
  <1>1. PICK m : m = orch'[o]
    OBVIOUS
  <1>2. CASE m.pc \notin Undoing \cup {"drain"}
    <2>1. Pursued(m)'
      BY <1>2 DEF Pursued, Undoing
    <2> QED BY <1>1, <2>1, PursuedOf
  <1>3. CASE m.pc = "drain"
    <2>1. Barrier
      <3>1. Block(o) => Barrier
        BY DEF Block, Gated
      <3>2. CompResult(o) => Barrier
        BY <1>0, CompResultDoes DEF Pursued, Undoing
      <3> QED BY <1>0, <1>1, <1>3, <3>1, <3>2, DrainBy
    <2>2. Pursued(m)'
      BY <1>0, <1>3, <2>1 DEF Pursued, Undoing
    <2> QED BY <1>1, <2>2, PursuedOf
  <1>4. CASE m.pc \in Undoing
    <2>1. BeginPass(o) \/ CompIntent(o) \/ Undo(o) \/ CompResult(o)
      BY <1>0, <1>1, <1>4, OffList DEF Listed, OnList
    <2>2. orch[o].pc \in Undoing \cup {"drain"}
      <3>1. BeginPass(o) \/ CompIntent(o) => orch[o].pc \in {"drain", "comp"}
        BY DEF BeginPass, CompIntent, At
      <3>2. Undo(o) => orch[o].pc = "undo"
        BY DEF Undo, At
      <3>3. CompResult(o) => orch[o].pc = "undone"
        BY DEF CompResult, At
      <3> QED BY <2>1, <3>1, <3>2, <3>3 DEF Undoing
    <2>3. Barrier /\ Barrier' /\ Replays
      BY <1>0, <2>2 DEF Pursued, Barrier, Replays
    <2>4. Owed' \subseteq Owed
      BY <2>3, OwedShrinks
    <2>5. \A r \in orch[o].todo : KeyOf(r)' = KeyOf(r)
      BY <1>0, GrowthKeeps DEF LocalOK, Sound, Undoable, KeyOf
    <2>6. CASE BeginPass(o)
      <3>1. m.pc = "comp" /\ m.todo = uncompensated /\ UNCHANGED journal
        BY <1>0, <1>1, <2>6 DEF BeginPass, Local, ReadOnly, journalVars
      <3>2. \A k \in Owed' : \E r \in m.todo : KeyOf(r)' = k
        BY <2>4, <3>1 DEF Owed, KeyOf
      <3>3. Pursued(m)'
        BY <2>3, <3>1, <3>2 DEF Pursued
      <3> QED BY <1>1, <3>3, PursuedOf
    <2>7. CASE CompIntent(o)
      <3>1. m.pc = "undo" /\ m.todo = orch[o].todo /\ orch[o].pc = "comp"
        BY <1>0, <1>1, <2>7 DEF CompIntent, Goto, At, Local
      <3>2. \A k \in Owed' : First(k) \/ \E r \in m.todo : KeyOf(r)' = k
        BY <2>4, <2>5, <3>1 DEF Pursued, Undoing
      <3>3. Pursued(m)'
        BY <2>3, <3>1, <3>2 DEF Pursued, First
      <3> QED BY <1>1, <3>3, PursuedOf
    <2>8. CASE Undo(o)
      <3>1. m.pc = "undone" /\ m.todo = orch[o].todo /\ orch[o].pc = "undo"
        BY <1>0, <1>1, <2>8 DEF Undo, At, Local
      <3>2. \A k \in Owed' : First(k) \/ \E r \in m.todo : KeyOf(r)' = k
        BY <2>4, <2>5, <3>1 DEF Pursued, Undoing
      <3>3. ASSUME NEW r \in m.todo, Latest(m, r)
            PROVE  m.res = "ok" \/ First(KeyOf(r)')
        <4>1. Latest(orch[o], r)
          BY <3>1, <3>3 DEF Latest
        <4>2. m.res = "ok" \/ First(KeyOf(r))
          BY <1>0, <1>1, <2>8, <3>1, <4>1, UndoUntold
        <4> QED BY <2>5, <3>1, <4>2
      <3>4. Pursued(m)'
        BY <2>3, <3>2, <3>3 DEF Pursued, Latest, First
      <3> QED BY <1>1, <3>4, PursuedOf
    <2>9. CASE CompResult(o)
      <3>1. PICK r \in orch[o].todo :
               /\ Latest(orch[o], r) /\ orch[o].pc = "undone"
               /\ m.todo = orch[o].todo \ {r} /\ m.pc \in {"drain", "comp"}
               /\ compensations' = compensations \cup (IF orch[o].res = "ok" THEN {KeyOf(r)} ELSE {})
        BY <1>0, <1>1, <2>9, CompResultDoes
      <3>2. ASSUME NEW k \in Owed', ~ First(k) PROVE \E q \in m.todo : KeyOf(q)' = k
        <4>1. PICK q \in orch[o].todo : KeyOf(q) = k
          BY <2>4, <3>1, <3>2 DEF Pursued, Undoing
        <4>2. k \notin compensations'
          <5>1. PICK x \in uncompensated' : KeyOf(x)' = k
            BY <3>2 DEF Owed
          <5> QED BY <5>1 DEF uncompensated
        <4>3. q # r
          BY <3>1, <3>2, <4>1, <4>2 DEF Pursued
        <4> QED BY <2>5, <3>1, <4>1, <4>3
      <3>3. Pursued(m)'
        BY <2>3, <3>1, <3>2 DEF Pursued, First
      <3> QED BY <1>1, <3>3, PursuedOf
    <2> QED BY <2>1, <2>6, <2>7, <2>8, <2>9
  <1> QED BY <1>2, <1>3, <1>4

LEMMA PursuedNext ==
    ASSUME UndoFailsFirst, UndosAnswered, Steady, OneEpoch, Paid, [Next]_vars,
           \A o \in Orchestrators : Pursued(orch[o])
    PROVE  \A o \in Orchestrators : Pursued(orch[o])'
  <1>0. TypeOK /\ Sole /\ orch \in [Orchestrators -> Local]
    BY DEF Steady, TypeOK
  <1> SUFFICES ASSUME NEW o \in Orchestrators PROVE Pursued(orch[o])'
    OBVIOUS
  <1>1. ASSUME NEW a \in Orchestrators, Abandon(a) PROVE Pursued(orch[o])'
    <2>1. PICK m : m = orch'[o]
      OBVIOUS
    <2>2. m.pc \notin Undoing \cup {"drain"}
      BY <1>1, <2>1, AbandonLeavesNone DEF Undoing
    <2>3. Pursued(m)'
      BY <2>2 DEF Pursued, Undoing
    <2> QED BY <2>1, <2>3, PursuedOf
  <1>2. ASSUME \A a \in Orchestrators : ~ Abandon(a) PROVE Pursued(orch[o])'
    <2>1. CASE Run(o) \/ Crash(o)
      BY <1>2, <2>1, PursuedMoves
    <2>2. CASE orch'[o] = orch[o]
      BY <1>2, <2>2, PursuedKept
    <2> QED BY <2>1, <2>2, StepFor
  <1> QED BY <1>1, <1>2

\* What was undone and is not reported is owed.
LEMMA UnreportedIsOwed ==
    ASSUME Steady, Paid, CompensateOnlyDead, Backwards, NEW i \in Entries("compensation"),
           ledger[i].key \notin compensations
    PROVE  ledger[i].key \in Owed /\ ledger[i].key \in Key
  <1>0. JournalTypeOK
    BY DEF Steady, TypeOK
  <1>1. PICK k : k = ledger[i].key
    OBVIOUS
  <1>2. /\ k \in Okay /\ ToolOf(k) \in Compensatable
        /\ k[1] \in DOMAIN branches /\ ~ IsActive(k[1])
    BY <1>1 DEF Backwards, Unwinding, Reverted, CompensateOnlyDead
  <1>3. k \in Key
    BY <1>2, OkayPlace
  <1>4. branches[k[1]].status # "compensated"
    BY <1>1, <1>2 DEF Paid
  <1> QED BY <1>0, <1>1, <1>2, <1>3, <1>4, DeadIs, OwedIs

\* What a leader undoes while a later effect of the branch is undone and not reported was
\* undone before.
LEMMA UndoneAgain ==
    ASSUME Steady, Ordered, Paid, CompensateOnlyDead, Backwards,
           NEW o \in Orchestrators, Pursued(orch[o]), orch[o].pc \in Undoing,
           NEW r \in orch[o].todo, Latest(orch[o], r), KeyOf(r) \in applied,
           NEW i \in Entries("compensation"), ledger[i].key[1] = KeyOf(r)[1]
    PROVE  ledger[i].key \in compensations
  <1>0. JournalTypeOK /\ Listed /\ LocalOK
    BY DEF Steady, TypeOK
  <1> SUFFICES ASSUME ledger[i].key \notin compensations PROVE FALSE
    OBVIOUS
  <1>1. PICK j, k : j = KeyOf(r) /\ k = ledger[i].key
    OBVIOUS
  <1>2. k \in Owed /\ k \in Key
    BY <1>1, UnreportedIsOwed
  <1>3. r \in Rows("RESULT") /\ journal[r].status = "ok" /\ ToolOf(j) \in Compensatable
    BY <1>0, <1>1 DEF Listed, OnList, LocalOK, Sound, Undoable
  <1>4. j \in Okay /\ j \in Key
    BY <1>1, <1>3, OkayPlace DEF Okay
  <1>5. j[2] \in Nat /\ k[2] \in Nat /\ j[2] \in Steps
    BY <1>2, <1>4, KeyIs DEF Steps
  <1>6. j[2] < k[2]
    <2>1. Below(applied, k)
      BY <1>1 DEF Backwards, Unwinding, Under
    <2> QED BY <1>1, <1>3, <2>1 DEF Below
  <1>7. ~ First(k)
    <2>1. Trace[j[2]] \in Compensatable
      BY <1>3 DEF ToolOf
    <2> QED BY <1>5, <1>6, <2>1 DEF First
  <1>8. PICK q \in orch[o].todo : KeyOf(q) = k
    BY <1>2, <1>7 DEF Pursued
  <1>9. /\ q \in Rows("RESULT") /\ journal[q].status = "ok" /\ q <= r
        /\ q \in Nat /\ r \in Nat
    BY <1>0, <1>3, <1>8 DEF Listed, OnList, Latest, Rows, JournalTypeOK
  <1>10. /\ journal[q].br = k[1] /\ journal[q].seq = k[2]
         /\ journal[r].br = j[1] /\ journal[r].seq = j[2]
    BY <1>1, <1>8 DEF KeyOf, effect_key
  <1>11. q # r
    BY <1>1, <1>5, <1>6, <1>8
  <1>12. q < r
    BY <1>9, <1>11
  <1> QED BY <1>1, <1>3, <1>5, <1>6, <1>9, <1>10, <1>12 DEF Ordered

LEMMA UnwindingNext ==
    ASSUME UndoableInTime, Steady, Replays, Ordered, Paid, JournalTruthful, CompensateOnlyDead,
           \A o \in Orchestrators : Pursued(orch[o]), Backwards, [Next]_vars,
           \A i \in Added("compensation") : Below(applied', ledger'[i].key)
    PROVE  Unwinding'
  <1>0. ledger \in Seq(Entry) /\ JournalTypeOK /\ applied \subseteq Key
    BY DEF Steady, TypeOK, WorldTypeOK
  <1>i. Unwinding
    BY DEF Backwards, Unwinding
  <1>o. Okay \subseteq Okay' /\ compensations \subseteq compensations'
    <2>1. Grows
      BY TypesNext DEF Steady, TypeOK
    <2> QED BY <1>0, <2>1, OkayStays
  <1>k. ASSUME Entries("compensation")' = Entries("compensation"),
               \A i \in Entries("compensation") : ledger'[i] = ledger[i]
        PROVE  \A i \in Entries("compensation")' : Reverted(i)'
    <2> SUFFICES ASSUME NEW i \in Entries("compensation") PROVE Reverted(i)'
      BY <1>k
    <2>1. PICK k : k = ledger[i].key
      OBVIOUS
    <2>2. /\ k \in Okay' /\ ToolOf(k) \in Compensatable
          /\ k \in compensations' \/ Lowest(k)
      BY <1>i, <1>o, <2>1 DEF Unwinding, Reverted
    <2>3. Lowest(k) => Lowest(k)'
      BY <1>k DEF Lowest
    <2>4. ledger'[i].key = k
      BY <1>k, <2>1
    <2> QED BY <2>2, <2>3, <2>4 DEF Reverted, ToolOf, Lowest
  <1>1. ASSUME Still PROVE Unwinding'
    <2>1. UNCHANGED << ledger, applied >>
      BY <1>1 DEF Still
    <2>2. \A i \in Entries("compensation")' : Reverted(i)'
      BY <1>k, <2>1 DEF Entries
    <2>3. /\ \A i \in Entries("effect")' : Met(i)'
          /\ \A i \in Entries("compensation")' : Under(i)'
          /\ UndosOrdered'
      BY <1>i, <2>1 DEF Unwinding, Met, Under, Happened, Entries, UndosOrdered, Below, ToolOf
    <2> QED BY <2>2, <2>3 DEF Unwinding
  <1>2. ASSUME NEW k \in Key, Takes(k) PROVE Unwinding'
    <2>1. /\ applied' = applied \cup {k} /\ k \notin applied
          /\ k[1] \in DOMAIN branches /\ ~ DeadKey(k)
      BY <1>2 DEF Takes, Effect
    <2>2. ASSUME NEW i \in Entries("compensation") PROVE Below(applied', ledger[i].key)
      <3>1. Below(applied, ledger[i].key)
        BY <1>i DEF Unwinding, Under
      <3>2. ledger[i].key[1] \in DOMAIN branches /\ ~ IsActive(ledger[i].key[1])
        BY DEF CompensateOnlyDead
      <3>3. ToolOf(k) \in Compensatable => k[1] # ledger[i].key[1]
        BY <2>1, <3>2 DEF DeadKey
      <3> QED BY <2>1, <3>1, <3>3 DEF Below
    <2>3. CASE UNCHANGED ledger
      <3>1. \A i \in Entries("compensation")' : Reverted(i)'
        BY <1>k, <2>3 DEF Entries
      <3>2. /\ \A i \in Entries("effect")' : Met(i)'
            /\ \A i \in Entries("compensation")' : Under(i)'
            /\ UndosOrdered'
        BY <1>i, <2>1, <2>2, <2>3
           DEF Unwinding, Met, Under, Happened, Entries, UndosOrdered, Below, ToolOf
      <3> QED BY <3>1, <3>2 DEF Unwinding
    <2>4. ASSUME NEW e \in Entry, e.kind = "effect", e.key = k, ledger' = Append(ledger, e)
          PROVE  Unwinding'
      <3>1. PICK n : /\ n \notin DOMAIN ledger /\ ledger'[n] = e
                     /\ \A i \in DOMAIN ledger : ledger'[i] = ledger[i]
                     /\ \A kind : Entries(kind)' = IF e.kind = kind THEN Entries(kind) \cup {n}
                                                                    ELSE Entries(kind)
        BY <1>0, <2>4, EntriesAfter
      <3>2. /\ Entries("effect")' = Entries("effect") \cup {n}
            /\ Entries("compensation")' = Entries("compensation")
        BY <2>4, <3>1
      <3>3. \A i \in DOMAIN ledger : ledger'[i] = ledger[i]
        BY <3>1
      <3>4. Entries("effect") \subseteq DOMAIN ledger /\ Entries("compensation") \subseteq DOMAIN ledger
        BY DEF Entries
      <3>5. \A c : Happened("compensation", c) => Happened("compensation", c)'
        BY <3>2, <3>3, <3>4 DEF Happened
      <3>6. \A i \in Entries("effect")' : Met(i)'
        <4> SUFFICES ASSUME NEW i \in Entries("effect")' PROVE Met(i)'
          OBVIOUS
        <4>1. CASE i = n
          BY <2>1, <2>4, <3>1, <4>1 DEF Met
        <4>2. CASE i \in Entries("effect")
          <5>1. PICK c : c = ledger[i].key
            OBVIOUS
          <5>2. c \in applied \/ Happened("compensation", c)
            BY <1>i, <4>2, <5>1 DEF Unwinding, Met
          <5>3. ledger'[i].key = c
            BY <3>3, <3>4, <4>2, <5>1
          <5>4. c \in applied' \/ Happened("compensation", c)'
            BY <2>1, <3>5, <5>2
          <5> QED BY <5>3, <5>4 DEF Met, Happened
        <4> QED BY <3>2, <4>1, <4>2
      <3>7. \A i \in Entries("compensation")' : Under(i)'
        BY <2>2, <3>2, <3>3, <3>4 DEF Under, Below, ToolOf
      <3>8. UndosOrdered'
        BY <1>i, <3>2, <3>3, <3>4 DEF Unwinding, UndosOrdered
      <3>9. \A i \in Entries("compensation")' : Reverted(i)'
        BY <1>k, <3>2, <3>3, <3>4
      <3> QED BY <3>6, <3>7, <3>8, <3>9 DEF Unwinding
    <2> QED BY <1>2, <2>3, <2>4 DEF Takes, Effect
  <1>3. ASSUME NEW o \in Orchestrators, NEW r \in DOMAIN journal, NEW res \in ResultStatus,
               Undoes(o, r, res)
        PROVE  Unwinding'
    <2>1. PICK k \in Key : k = KeyOf(r)
      BY <1>3 DEF Undoes
    <2>2. /\ DeadKey(k) /\ k \in Okay /\ k \notin compensations /\ orch[o].pc = "undo"
          /\ Compensation(k)
      BY <1>3, <2>1 DEF Undoes
    <2>3. PICK e \in Entry : /\ e.kind = "compensation" /\ e.key = k
                             /\ ledger' = Append(ledger, e)
      BY <2>2 DEF Compensation
    <2>4. applied' = applied \ {k}
      BY <2>2 DEF Compensation
    <2>5. PICK n : /\ n = Len(ledger) + 1 /\ n \notin DOMAIN ledger /\ ledger'[n] = e
                   /\ DOMAIN ledger' = DOMAIN ledger \cup {n}
                   /\ \A i \in DOMAIN ledger : ledger'[i] = ledger[i] /\ i < n
      BY <1>0, <2>3
    <2>6. /\ Entries("effect")' = Entries("effect")
          /\ Entries("compensation")' = Entries("compensation") \cup {n}
      BY <2>3, <2>5 DEF Entries
    <2>7. Entries("effect") \subseteq DOMAIN ledger /\ Entries("compensation") \subseteq DOMAIN ledger
      BY DEF Entries
    <2>8. /\ k[2] \in Nat /\ ToolOf(k) \in Compensatable
          /\ \A i \in Entries("compensation") : ledger[i].key[2] \in Nat
      <3>1. \A i \in Entries("compensation") : ledger[i] \in Entry
        BY <1>0, <2>7
      <3>2. \A i \in Entries("compensation") : ledger[i].key \in Key
        BY <3>1 DEF Entry, Request
      <3> QED BY <2>2, <3>2, KeyIs DEF Steps, DeadKey
    <2>l. ASSUME NEW i \in Entries("compensation"), ledger[i].key[1] = k[1]
          PROVE  /\ k[2] <= ledger[i].key[2]
                 /\ ledger[i].key \in compensations \/ ledger[i].key[2] <= k[2]
      <3>1. PICK c : c = ledger[i].key
        OBVIOUS
      <3>2. CASE k \in applied
        <4>1. Below(applied, c)
          BY <1>i, <3>1 DEF Unwinding, Under
        <4>2. k[2] < c[2]
          BY <2>8, <2>l, <3>1, <3>2, <4>1 DEF Below
        <4>3. orch[o].pc \in Undoing /\ r \in orch[o].todo /\ Latest(orch[o], r)
          BY <1>3 DEF Undoes, Undoing
        <4>4. c \in compensations
          BY <2>1, <2>l, <3>1, <3>2, <4>3, UndoneAgain
        <4> QED BY <2>8, <3>1, <4>2, <4>4
      <3>3. CASE k \notin applied
        <4>1. Happened("compensation", k)
          <5>1. Done(k) /\ ToolOf(k) \notin Pure
            BY <2>2, <2>8 DEF Okay, JournalTruthful, Compensatable, Pure
          <5>2. PICK e1 \in Entries("effect") : ledger[e1].key = k
            BY <5>1 DEF Done, Happened
          <5>3. Met(e1)
            BY <1>i, <5>2 DEF Unwinding
          <5> QED BY <3>3, <5>2, <5>3 DEF Met, Happened
        <4>2. PICK e2 \in Entries("compensation") : ledger[e2].key = k
          BY <4>1 DEF Happened
        <4>3. Reverted(e2) /\ Reverted(i)
          BY <1>i DEF Unwinding
        <4>4. Lowest(k)
          BY <2>2, <4>2, <4>3 DEF Reverted
        <4>5. k[2] <= c[2]
          BY <2>l, <3>1, <4>4 DEF Lowest
        <4>6. c \in compensations \/ Lowest(c)
          BY <3>1, <4>3 DEF Reverted
        <4>7. Lowest(c) => c[2] <= k[2]
          BY <2>l, <3>1, <4>2 DEF Lowest
        <4> QED BY <3>1, <4>5, <4>6, <4>7
      <3> QED BY <3>2, <3>3
    <2>9. Below(applied', k)
      <3>1. n \in Added("compensation")
        BY <2>3, <2>5 DEF Added
      <3>2. ledger'[n].key = k
        BY <2>3, <2>5
      <3> QED BY <3>1, <3>2
    <2>10. \A c : Happened("compensation", c) => Happened("compensation", c)'
      BY <2>5, <2>6, <2>7 DEF Happened
    <2>11. Happened("compensation", k)'
      BY <2>3, <2>5, <2>6 DEF Happened
    <2>12. \A i \in Entries("effect")' : Met(i)'
      <3> SUFFICES ASSUME NEW i \in Entries("effect") PROVE Met(i)'
        BY <2>6
      <3>1. PICK c : c = ledger[i].key
        OBVIOUS
      <3>2. c \in applied \/ Happened("compensation", c)
        BY <1>i, <3>1 DEF Unwinding, Met
      <3>3. ledger'[i].key = c
        BY <2>5, <2>7, <3>1
      <3>4. c \in applied' \/ Happened("compensation", c)'
        BY <2>4, <2>10, <2>11, <3>2
      <3> QED BY <3>3, <3>4 DEF Met, Happened
    <2>13. \A i \in Entries("compensation")' : Under(i)'
      <3>1. \A i \in Entries("compensation") : Below(applied', ledger[i].key)
        BY <1>i, <2>4 DEF Unwinding, Under, Below
      <3> QED BY <2>3, <2>5, <2>6, <2>7, <2>9, <3>1 DEF Under, Below, ToolOf
    <2>14. UndosOrdered'
      <3> SUFFICES ASSUME NEW i \in Entries("compensation")', NEW j \in Entries("compensation")',
                          i < j, ledger'[i].key[1] = ledger'[j].key[1]
                   PROVE  ledger'[i].key[2] >= ledger'[j].key[2]
        BY DEF UndosOrdered
      <3>1. CASE i \in Entries("compensation") /\ j \in Entries("compensation")
        BY <1>i, <2>5, <2>7, <3>1 DEF Unwinding, UndosOrdered
      <3>2. CASE i \in Entries("compensation") /\ j = n
        <4>1. PICK c : c = ledger[i].key
          OBVIOUS
        <4>2. k[1] = c[1]
          BY <2>3, <2>5, <2>7, <3>2, <4>1
        <4>3. k[2] <= c[2]
          BY <2>l, <3>2, <4>1, <4>2
        <4>4. c[2] \in Nat
          BY <2>8, <3>2, <4>1
        <4>5. c[2] >= k[2]
          BY <2>8, <4>3, <4>4
        <4> QED BY <2>3, <2>5, <2>7, <3>2, <4>1, <4>5
      <3>3. CASE i = n
        <4>1. j \in DOMAIN ledger \cup {n}
          BY <2>6, <2>7
        <4>2. DOMAIN ledger \subseteq Nat /\ n \in Nat
          BY <1>0, <2>5
        <4> QED BY <2>5, <3>3, <4>1, <4>2
      <3> QED BY <2>6, <3>1, <3>2, <3>3
    <2>15. \A i \in Entries("compensation")' : Reverted(i)'
      <3>1. ASSUME NEW c, NEW i \in Entries("compensation"), ledger[i].key = c,
                   c \in compensations \/ Lowest(c)
            PROVE  c \in compensations' \/ Lowest(c)'
        <4>1. CASE c \in compensations
          BY <1>o, <4>1
        <4>2. CASE Lowest(c) /\ c \notin compensations
          <5>1. c[1] = k[1] => c[2] <= k[2]
            BY <2>l, <3>1, <4>2
          <5>2. \A j \in Entries("compensation") : c[1] = ledger[j].key[1] => c[2] <= ledger[j].key[2]
            BY <4>2 DEF Lowest
          <5>3. \A j \in Entries("compensation")' : c[1] = ledger'[j].key[1] => c[2] <= ledger'[j].key[2]
            BY <2>3, <2>5, <2>6, <2>7, <5>1, <5>2
          <5> QED BY <5>3 DEF Lowest
        <4> QED BY <3>1, <4>1, <4>2
      <3>2. Lowest(k)'
        <4>1. \A j \in Entries("compensation") : ledger[j].key[1] = k[1] => k[2] <= ledger[j].key[2]
          BY <2>l
        <4>2. k[2] <= k[2]
          BY <2>8
        <4>3. \A j \in Entries("compensation")' : ledger'[j].key[1] = k[1] => k[2] <= ledger'[j].key[2]
          BY <2>3, <2>5, <2>6, <2>7, <4>1, <4>2
        <4> QED BY <4>3 DEF Lowest
      <3>3. ASSUME NEW i \in Entries("compensation") PROVE Reverted(i)'
        <4>1. PICK c : c = ledger[i].key
          OBVIOUS
        <4>2. /\ c \in Okay' /\ ToolOf(c) \in Compensatable
              /\ c \in compensations' \/ Lowest(c)'
          BY <1>i, <1>o, <3>1, <4>1 DEF Unwinding, Reverted
        <4>3. ledger'[i].key = c
          BY <2>5, <2>7, <4>1
        <4> QED BY <4>2, <4>3 DEF Reverted, Lowest, ToolOf
      <3>4. Reverted(n)'
        <4>1. k \in Okay'
          BY <1>o, <2>2
        <4>2. ledger'[n].key = k
          BY <2>3, <2>5
        <4> QED BY <2>8, <3>2, <4>1, <4>2 DEF Reverted, Lowest, ToolOf
      <3> QED BY <2>6, <3>3, <3>4
    <2> QED BY <2>12, <2>13, <2>14, <2>15 DEF Unwinding
  <1> QED BY <1>1, <1>2, <1>3, WorldMoves DEF Steady

\* What a step adds to the undos the journal reports ...
LEMMA UndoneMoves ==
    ASSUME Steady, [Next]_vars
    PROVE  \/ Undone' = Undone /\ compensations' = compensations
           \/ \E o \in Orchestrators, n \in Nat : \E k :
                 /\ Reporting(orch[o], k) /\ orch'[o].pc # "undone"
                 /\ Undone' = Undone \cup {n} /\ KeyOf(n)' = k
                 /\ compensations' = compensations \cup {k}
                 /\ \A q \in Undone : q < n
  <1>0. TypeOK /\ LocalOK /\ JournalTypeOK
    BY DEF Steady, TypeOK
  <1>a. ASSUME NoUndo PROVE Undone' = Undone /\ compensations' = compensations
    <2>1. Undone' = Undone
      <3>1. CASE UNCHANGED journal
        BY <3>1 DEF Undone, Rows
      <3>2. ASSUME NEW rec \in Record, append(rec), rec.kind # "COMP_RESULT"
            PROVE  Undone' = Undone
        <4>1. journal' = Append(journal, rec) /\ journal \in Seq(Record)
          BY <1>0, <3>2 DEF append, JournalTypeOK
        <4> QED BY <3>2, <4>1 DEF Undone, Rows
      <3> QED BY <1>a, <3>1, <3>2 DEF NoUndo
    <2> QED BY <1>0, <1>a, <2>1, NothingUndone
  <1>1. ASSUME NEW o \in Orchestrators, CompResult(o)
        PROVE  \/ Undone' = Undone /\ compensations' = compensations
               \/ \E n \in Nat : \E k :
                     /\ Reporting(orch[o], k) /\ orch'[o].pc # "undone"
                     /\ Undone' = Undone \cup {n} /\ KeyOf(n)' = k
                     /\ compensations' = compensations \cup {k}
                     /\ \A q \in Undone : q < n
    <2>0. orch[o] \in Local /\ orch \in [Orchestrators -> Local]
      BY <1>0 DEF TypeOK
    <2>1. PICK r \in DOMAIN journal :
             /\ NextUndo(o, r)
             /\ append(CompRow(o, "COMP_RESULT", r, orch[o].res))
             /\ orch' = [orch EXCEPT ![o] =
                    [@ EXCEPT !.pc = IF orch[o].todo = {r} THEN "drain" ELSE "comp",
                              !.todo = orch[o].todo \ {r}, !.res = NoStatus]]
      BY <1>1 DEF CompResult
    <2>2. PICK rec \in Record : /\ append(rec) /\ rec.kind = "COMP_RESULT"
                                /\ rec.status = orch[o].res
                                /\ effect_key(rec.br, rec.seq) = KeyOf(r)
      <3>1. /\ CompRow(o, "COMP_RESULT", r, orch[o].res) \in Record
            /\ CompRow(o, "COMP_RESULT", r, orch[o].res).kind = "COMP_RESULT"
            /\ CompRow(o, "COMP_RESULT", r, orch[o].res).status = orch[o].res
            /\ CompRow(o, "COMP_RESULT", r, orch[o].res).br = journal[r].br
            /\ CompRow(o, "COMP_RESULT", r, orch[o].res).seq = journal[r].seq
        BY <1>0, <2>0, CompRowType DEF RecordKind, Local
      <3> QED BY <2>1, <3>1 DEF KeyOf
    <2>3. orch'[o].pc # "undone"
      BY <2>0, <2>1 DEF Local
    <2>4. r \in orch[o].todo /\ Latest(orch[o], r) /\ orch[o].pc = "undone"
      BY <1>1, <2>1 DEF NextUndo, Latest, At, CompResult
    <2>5. journal' = Append(journal, rec) /\ journal \in Seq(Record)
      BY <1>0, <2>2 DEF append, JournalTypeOK
    <2>6. CASE orch[o].res = "ok"
      <3>1. PICK n \in Nat : n = Len(journal) + 1
        BY <2>5
      <3>2. Undone' = Undone \cup {n}
        BY <2>2, <2>5, <2>6, <3>1 DEF Undone, Rows
      <3>3. KeyOf(n)' = KeyOf(r)
        BY <2>2, <2>5, <3>1 DEF KeyOf
      <3>4. compensations' = compensations \cup {KeyOf(r)}
        BY <1>0, <2>2, <2>6, CompensationsAfter
      <3>5. \A q \in Undone : q < n
        BY <2>5, <3>1 DEF Undone, Rows
      <3>6. Reporting(orch[o], KeyOf(r))
        BY <2>4, <2>6 DEF Reporting
      <3> QED BY <2>3, <3>2, <3>3, <3>4, <3>5, <3>6
    <2>7. CASE orch[o].res # "ok"
      <3>1. Undone' = Undone
        BY <2>2, <2>5, <2>7 DEF Undone, Rows
      <3>2. compensations' = compensations
        BY <1>0, <2>2, <2>7, CompensationsAfter
      <3> QED BY <3>1, <3>2
    <2> QED BY <2>6, <2>7
  <1>2. ASSUME NEW o \in Orchestrators, Run(o) \/ Crash(o), ~ CompResult(o)
        PROVE  NoUndo
    BY <1>0, <1>2, OnlyCompResult
  <1>3. CASE Lapse \/ Redeliver \/ Land \/ UNCHANGED vars
    BY <1>3, <1>a DEF Lapse, Redeliver, Land, vars, journalVars, NoUndo
  <1> QED BY <1>1, <1>2, <1>3, <1>a DEF Next

\* ... and who is about to report one.
LEMMA ReportingBy ==
    ASSUME Steady, [Next]_vars, NEW o \in Orchestrators, NEW k, Reporting(orch[o], k)'
    PROVE  \/ Reporting(orch[o], k)
           \/ /\ orch[o].pc = "undo" /\ UNCHANGED journal
              /\ k \in Okay /\ k \notin compensations /\ DeadKey(k)
  <1>0. TypeOK /\ LocalOK /\ JournalTypeOK /\ Listed /\ Grows
    BY TypesNext DEF Steady, TypeOK
  <1>1. PICK r \in orch'[o].todo :
           /\ orch'[o].pc = "undone" /\ orch'[o].res = "ok"
           /\ \A q \in orch'[o].todo : q <= r
           /\ KeyOf(r)' = k
    BY DEF Reporting, Latest
  <1>2. CASE orch'[o] = orch[o]
    <2>1. r \in DOMAIN journal
      BY <1>0, <1>1, <1>2 DEF LocalOK, Sound, Undoable
    <2>2. KeyOf(r)' = KeyOf(r)
      BY <1>0, <2>1, GrowthKeeps DEF KeyOf
    <2> QED BY <1>1, <1>2, <2>2 DEF Reporting, Latest
  <1>3. ASSUME Run(o) \/ Crash(o)
        PROVE  /\ orch[o].pc = "undo" /\ UNCHANGED journal
               /\ k \in Okay /\ k \notin compensations /\ DeadKey(k)
    <2>1. Undo(o)
      BY <1>0, <1>1, <1>3, UndoneBy
    <2>2. orch[o].pc = "undo" /\ UNCHANGED journal
      BY <1>0, <2>1, UndoDoes DEF Undo, At
    <2>3. PICK s \in orch[o].todo, res \in ResultStatus :
             /\ Latest(orch[o], s) /\ DeadKey(KeyOf(s))
             /\ orch'[o] = [orch[o] EXCEPT !.pc = "undone", !.res = res]
      BY <1>0, <2>1, UndoDoes
    <2>4. orch'[o].todo = orch[o].todo
      BY <1>0, <2>3 DEF TypeOK, Local
    <2>5. s = r
      <3>1. s \in Nat /\ r \in Nat /\ s <= r /\ r <= s
        BY <1>0, <1>1, <2>3, <2>4 DEF Latest, TypeOK, Local
      <3> QED BY <3>1
    <2>6. KeyOf(s) = k
      BY <1>1, <2>2, <2>5 DEF KeyOf
    <2>7. k \in Okay /\ k \notin compensations
      BY <1>0, <2>3, <2>6, OnListOkay DEF Listed
    <2> QED BY <2>2, <2>3, <2>6, <2>7
  <1> QED BY <1>2, <1>3, StepFor

LEMMA BackwardsNext ==
    ASSUME UndoableInTime, Steady, Replays, Ordered, Paid, JournalTruthful, CompensateOnlyDead,
           \A o \in Orchestrators : Pursued(orch[o]), Backwards, [Next]_vars,
           \A i \in Added("compensation") : Below(applied', ledger'[i].key)
    PROVE  Backwards'
  <1>0. TypeOK /\ LocalOK /\ JournalTypeOK /\ Grows
    BY TypesNext DEF Steady, TypeOK
  <1>1. Unwinding'
    BY UnwindingNext
  <1>2. Okay \subseteq Okay'
    BY <1>0, OkayStays
  <1>3. \A q \in Undone : KeyOf(q)' = KeyOf(q)
    BY <1>0, GrowthKeeps DEF KeyOf, Undone, Rows
  <1>4. ASSUME NEW o \in Orchestrators, NEW k, Reporting(orch[o], k)'
        PROVE  /\ k \in Okay' /\ Undone' = Undone
               /\ \A q \in Undone : Below({k}, KeyOf(q))
    <2>1. CASE Reporting(orch[o], k)
      <3>1. k \in Okay /\ \A q \in Undone : Below({k}, KeyOf(q))
        BY <2>1 DEF Backwards
      <3>2. ASSUME NEW p \in Orchestrators, NEW j, Reporting(orch[p], j), orch'[p].pc # "undone"
            PROVE  FALSE
        <4>1. orch[p].pc = "undone" /\ orch[o].pc = "undone" /\ orch'[o].pc = "undone"
          BY <1>4, <2>1, <3>2 DEF Reporting
        <4>2. p = o
          BY <4>1, Alone DEF Steady, Busy
        <4> QED BY <3>2, <4>1, <4>2
      <3>3. Undone' = Undone
        BY <3>2, UndoneMoves
      <3> QED BY <1>2, <3>1, <3>3
    <2>2. CASE /\ orch[o].pc = "undo" /\ UNCHANGED journal
               /\ k \in Okay /\ k \notin compensations /\ DeadKey(k)
      <3>1. Undone' = Undone
        BY <2>2 DEF Undone, Rows
      <3>3. ASSUME NEW q \in Undone PROVE Below({k}, KeyOf(q))
        <4>0. PICK c : c = KeyOf(q)
          OBVIOUS
        <4>1. Happened("compensation", c) /\ c \in compensations
          BY <4>0 DEF Undone, JournalTruthful, compensations
        <4>2. PICK i \in Entries("compensation") : ledger[i].key = c
          BY <4>1 DEF Happened
        <4>3. CASE k \in applied
          <5>1. Below(applied, c)
            BY <4>2 DEF Backwards, Unwinding, Under
          <5> QED BY <4>0, <4>3, <5>1 DEF Below
        <4>4. CASE k \notin applied
          <5>1. Done(k) /\ ToolOf(k) \notin Pure
            BY <2>2 DEF Okay, JournalTruthful, DeadKey, Compensatable, Pure
          <5>2. PICK e1 \in Entries("effect") : ledger[e1].key = k
            BY <5>1 DEF Done, Happened
          <5>3. Met(e1)
            BY <5>2 DEF Backwards, Unwinding
          <5>4. Happened("compensation", k)
            BY <4>4, <5>2, <5>3 DEF Met, Happened
          <5>5. PICK e2 \in Entries("compensation") : ledger[e2].key = k
            BY <5>4 DEF Happened
          <5>6. Lowest(k)
            BY <2>2, <5>5 DEF Backwards, Unwinding, Reverted
          <5>7. c \in Okay
            BY <4>1 DEF Backwards
          <5>8. c \in Key /\ k \in Key
            BY <2>2, <5>7, OkayPlace
          <5>9. k # c
            BY <2>2, <4>1
          <5>10. k[1] = c[1] => k[2] <= c[2]
            BY <4>2, <5>6 DEF Lowest
          <5>11. k[1] = c[1] => k[2] # c[2]
            BY <5>8, <5>9, KeyIs
          <5>12. k[2] \in Nat /\ c[2] \in Nat
            BY <5>8, KeyIs DEF Steps
          <5>13. k[1] = c[1] => k[2] < c[2]
            BY <5>10, <5>11, <5>12
          <5> QED BY <4>0, <5>13 DEF Below
        <4> QED BY <4>3, <4>4
      <3> QED BY <1>2, <2>2, <3>1, <3>3
    <2> QED BY <1>4, <2>1, <2>2, ReportingBy
  <1>5. \A k : (\E o \in Orchestrators : Reporting(orch[o], k)') =>
          /\ k \in Okay'
          /\ \A q \in Undone' : Below({k}, KeyOf(q))'
    <2> SUFFICES ASSUME NEW o \in Orchestrators, NEW k, Reporting(orch[o], k)', NEW q \in Undone'
                 PROVE  k \in Okay' /\ Below({k}, KeyOf(q))'
      BY <1>4
    <2>1. k \in Okay' /\ q \in Undone /\ Below({k}, KeyOf(q))
      BY <1>4
    <2>2. KeyOf(q)' = KeyOf(q)
      BY <1>3, <2>1
    <2> QED BY <2>1, <2>2 DEF Below, ToolOf
  <1>6. /\ compensations' \subseteq Okay'
        /\ \A q, r \in Undone' : q < r => Below({KeyOf(r)}, KeyOf(q))'
    <2>1. CASE Undone' = Undone /\ compensations' = compensations
      <3>1. compensations' \subseteq Okay'
        BY <1>2, <2>1 DEF Backwards
      <3>2. ASSUME NEW q \in Undone', NEW r \in Undone', q < r
            PROVE  Below({KeyOf(r)}, KeyOf(q))'
        <4>1. Below({KeyOf(r)}, KeyOf(q)) /\ KeyOf(r)' = KeyOf(r) /\ KeyOf(q)' = KeyOf(q)
          BY <1>3, <2>1, <3>2 DEF Backwards
        <4> QED BY <4>1 DEF Below, ToolOf
      <3> QED BY <3>1, <3>2
    <2>2. ASSUME NEW o \in Orchestrators, NEW n \in Nat, NEW k,
                 Reporting(orch[o], k), Undone' = Undone \cup {n}, KeyOf(n)' = k,
                 compensations' = compensations \cup {k}, \A q \in Undone : q < n
          PROVE  /\ compensations' \subseteq Okay'
                 /\ \A q, r \in Undone' : q < r => Below({KeyOf(r)}, KeyOf(q))'
      <3>1. k \in Okay /\ \A q \in Undone : Below({k}, KeyOf(q))
        BY <2>2 DEF Backwards
      <3>2. compensations' \subseteq Okay'
        BY <1>2, <2>2, <3>1 DEF Backwards
      <3>3. ASSUME NEW q \in Undone', NEW r \in Undone', q < r
            PROVE  Below({KeyOf(r)}, KeyOf(q))'
        <4>1. CASE q \in Undone /\ r \in Undone
          <5>1. Below({KeyOf(r)}, KeyOf(q)) /\ KeyOf(r)' = KeyOf(r) /\ KeyOf(q)' = KeyOf(q)
            BY <1>3, <3>3, <4>1 DEF Backwards
          <5> QED BY <5>1 DEF Below, ToolOf
        <4>2. CASE q \in Undone /\ r = n
          <5>1. Below({k}, KeyOf(q)) /\ KeyOf(r)' = k /\ KeyOf(q)' = KeyOf(q)
            BY <1>3, <2>2, <3>1, <4>2
          <5> QED BY <5>1 DEF Below, ToolOf
        <4>3. CASE q = n
          <5>1. Undone \subseteq Nat
            BY <1>0 DEF Undone, Rows, JournalTypeOK
          <5> QED BY <2>2, <3>3, <4>3, <5>1
        <4> QED BY <2>2, <4>1, <4>2, <4>3
      <3> QED BY <3>2, <3>3
    <2> QED BY <2>1, <2>2, UndoneMoves
  <1> QED BY <1>1, <1>5, <1>6 DEF Backwards

LEMMA BackwardsAlways ==
    ASSUME NoTakeover, Apart, UndoableInTime, SomebodyIsPaged, UndoFailsFirst, UndosAnswered
    PROVE  Spec => [](Barrier => Backwards)
  <1>1. Init => Backwards
    <2> SUFFICES ASSUME Init PROVE Backwards
      OBVIOUS
    <2>1. \A kind : Entries(kind) = {}
      BY InitNothing DEF Entries
    <2>2. Undone = {} /\ compensations = {}
      BY InitNothing DEF Undone, compensations
    <2>4. \A o \in Orchestrators : orch[o].pc = "idle"
      BY InitNothing
    <2> QED BY <2>1, <2>2, <2>4 DEF Backwards, Unwinding, UndosOrdered, Reporting
  <1>3. Init => \A o \in Orchestrators : Pursued(orch[o])
    BY InitNothing DEF Pursued, Undoing
  <1>4. /\ Steady /\ OneEpoch /\ (Barrier => Paid) /\ [Next]_vars
        /\ (Barrier => \A o \in Orchestrators : Pursued(orch[o]))
        => (Barrier => \A o \in Orchestrators : Pursued(orch[o]))'
    <2> SUFFICES ASSUME Steady, OneEpoch, Barrier => Paid, [Next]_vars,
                        Barrier => \A o \in Orchestrators : Pursued(orch[o]), Barrier'
                 PROVE  \A o \in Orchestrators : Pursued(orch[o])'
      OBVIOUS
    <2>1. Barrier
      BY SettingsStay DEF settings, Barrier, Steady
    <2> QED BY <2>1, PursuedNext
  <1>5. Spec => [](Barrier => \A o \in Orchestrators : Pursued(orch[o]))
    BY <1>3, <1>4, SteadyAlways, OneEpochAlways, PaidAlways, PTL DEF Spec
  <1>6. /\ Steady /\ Inv /\ (Replays => Ordered) /\ (Barrier => Paid) /\ [Next]_vars
        /\ (Barrier => \A o \in Orchestrators : Pursued(orch[o])) /\ (Barrier => Backwards)
        /\ [\A i \in Added("compensation") :
               \A k \in applied' :
                  (k[1] = ledger'[i].key[1] /\ ToolOf(k) \in Compensatable)
                     => k[2] < ledger'[i].key[2]]_vars
        => (Barrier => Backwards)'
    <2> SUFFICES ASSUME Steady, Inv, Replays => Ordered, Barrier => Paid, [Next]_vars,
                        Barrier => \A o \in Orchestrators : Pursued(orch[o]),
                        Barrier => Backwards, Barrier',
                        \/ \A i \in Added("compensation") : Below(applied', ledger'[i].key)
                        \/ UNCHANGED vars
                 PROVE  Backwards'
      BY DEF Below
    <2>1. Barrier /\ Replays
      BY SettingsStay DEF settings, Barrier, Replays, Steady
    <2>2. ASSUME UNCHANGED vars PROVE Added("compensation") = {}
      BY <2>2 DEF Added, vars, worldVars
    <2> QED BY <2>1, <2>2, BackwardsNext DEF Inv
  <1> QED BY <1>1, <1>5, <1>6, SteadyAlways, Invariance, OrderedAlways, PaidAlways,
             UndoneInReverseHolds, PTL DEF Spec, UndoneInReverse

------------------------------------------------------------------------------
(* The verdict at the end of a run                                         *)

\* An annotation that is held in memory, said or on a page is none or a result of an
\* earlier page.
Grounds(sup) == sup = 0 \/ /\ sup \in Rows("RESULT")
                           /\ \E j \in Pages : ledger[j].key = KeyOf(sup)
Cites(i) == \/ ledger[i].sup = 0
            \/ /\ ledger[i].sup \in Rows("RESULT")
               /\ \E j \in Pages : j < i /\ ledger[j].key = KeyOf(ledger[i].sup)
Grounded(o) == orch[o].pc \in OnPath => Grounds(orch[o].sup)
Sourced == /\ \A o \in Orchestrators : Grounded(o)
           /\ \A k, sev, sup : Said(k, sev, sup) => Grounds(sup)
           /\ \A i \in Pages : Cites(i)

LEMMA RowsStay ==
    ASSUME Steady, [Next]_vars, NEW r \in Rows("RESULT")
    PROVE  r \in Rows("RESULT")' /\ KeyOf(r)' = KeyOf(r)
  <1>1. JournalTypeOK /\ Grows
    BY TypesNext DEF Steady, TypeOK
  <1> QED BY <1>1, GrowthKeeps DEF Rows, KeyOf

LEMMA PagesStay ==
    ASSUME Steady, [Next]_vars
    PROVE  \A i \in Pages : i \in Pages' /\ ledger'[i] = ledger[i]
  <1>1. CASE SameEntries
    BY <1>1, OldPages
  <1>2. ASSUME NEW n, NEW k, NEW sev, NEW sup, NewEntry(n, k, sev, sup)
        PROVE  \A i \in Pages : i \in Pages' /\ ledger'[i] = ledger[i]
    BY <1>2, NewPages
  <1> QED BY <1>1, <1>2, EntersBy

LEMMA GroundsStay ==
    ASSUME Steady, [Next]_vars, NEW sup, Grounds(sup)
    PROVE  Grounds(sup)'
  <1>1. CASE sup = 0
    BY <1>1 DEF Grounds
  <1>2. ASSUME sup \in Rows("RESULT"), NEW j \in Pages, ledger[j].key = KeyOf(sup)
        PROVE  Grounds(sup)'
    <2>1. sup \in Rows("RESULT")' /\ KeyOf(sup)' = KeyOf(sup)
      BY <1>2, RowsStay
    <2>2. j \in Pages' /\ ledger'[j] = ledger[j]
      BY <1>2, PagesStay
    <2> QED BY <1>2, <2>1, <2>2 DEF Grounds
  <1> QED BY <1>1, <1>2 DEF Grounds

\* The annotation a run starts with is grounded.
LEMMA SupersedesPage ==
    ASSUME PagerAnswers, Steady, Replays, JournalTruthful, Fated, NEW sup, _supersede_for(sup)
    PROVE  Grounds(sup)
  <1>1. ASSUME sup \in residue PROVE Grounds(sup)
    <2>1. Leftover(sup)
      BY <1>1, ResidueIs
    <2>2. sup \in Rows("RESULT") /\ \E j \in Pages : ledger[j].key = KeyOf(sup)
      BY <2>1, LeftoverPaged DEF Leftover
    <2> QED BY <2>2 DEF Grounds
  <1> QED BY <1>1 DEF _supersede_for, Grounds

LEMMA SourcedNext ==
    ASSUME PagerAnswers, Steady, Replays, JournalTruthful, Fated, Sourced, [Next]_vars
    PROVE  Sourced'
  <1>0. TypeOK /\ JournalTypeOK /\ WorldTypeOK
    BY DEF Steady, TypeOK
  <1>1. ASSUME NEW o \in Orchestrators, orch'[o].pc \in OnPath
        PROVE  Grounds(orch'[o].sup)
    <2>1. CASE orch'[o] = orch[o]
      BY <1>1, <2>1 DEF Sourced, Grounded
    <2>2. ASSUME NEW b, NEW sev, _run_branch(o, b, sev) PROVE Grounds(orch'[o].sup)
      <3>1. orch[o] \in Local /\ orch \in [Orchestrators -> Local]
        BY <1>0 DEF TypeOK
      <3>2. _supersede_for(orch'[o].sup)
        BY <2>2, <3>1 DEF _run_branch, Local
      <3> QED BY <3>2, SupersedesPage
    <2>3. CASE TagsKept(o)
      BY <1>1, <2>3 DEF TagsKept, Sourced, Grounded
    <2>4. SelectActive(o) \/ SelectFresh(o) \/ RecordFork(o) \/ ForkNaive(o)
          => \E b, sev : _run_branch(o, b, sev)
      BY DEF SelectActive, SelectFresh, RecordFork, ForkNaive
    <2>5. Run(o) \/ Crash(o) \/ orch'[o] = orch[o]
      BY StepFor
    <2> QED BY <1>0, <2>1, <2>2, <2>3, <2>4, <2>5, TagsStay
  <1>2. ASSUME NEW o \in Orchestrators, NEW k, NEW sev, NEW sup, Calling(o, k, sev, sup)
        PROVE  Grounds(sup)
    <2>1. orch[o].pc \in OnPath
      BY <1>2, CallingIs
    <2>2. sup = 0 \/ sup = orch[o].sup
      BY <1>2 DEF Calling, Call
    <2>3. Grounds(orch[o].sup)
      BY <2>1 DEF Sourced, Grounded
    <2> QED BY <2>2, <2>3 DEF Grounds
  <1>3. ASSUME NEW k, NEW sev, NEW sup,
               Said(k, sev, sup) \/ \E o \in Orchestrators : Calling(o, k, sev, sup)
        PROVE  Grounds(sup)
    BY <1>2, <1>3 DEF Sourced
  <1>4. ASSUME NEW k, NEW sev, NEW sup, Said(k, sev, sup)' PROVE Grounds(sup)'
    BY <1>3, <1>4, SaidBy, GroundsStay
  <1>5. ASSUME NEW i \in Pages, ledger'[i] = ledger[i] PROVE Cites(i)'
    <2>1. PICK sup : sup = ledger[i].sup
      OBVIOUS
    <2>2. CASE sup = 0
      BY <1>5, <2>1, <2>2 DEF Cites
    <2>3. ASSUME sup \in Rows("RESULT"), NEW j \in Pages, j < i, ledger[j].key = KeyOf(sup)
          PROVE  Cites(i)'
      <3>1. sup \in Rows("RESULT")' /\ KeyOf(sup)' = KeyOf(sup)
        BY <2>3, RowsStay
      <3>2. j \in Pages' /\ ledger'[j] = ledger[j]
        BY PagesStay
      <3> QED BY <1>5, <2>1, <2>3, <3>1, <3>2 DEF Cites
    <2> QED BY <2>1, <2>2, <2>3 DEF Sourced, Cites
  <1>6. ASSUME NEW n \in Nat, NEW k \in Key, NEW sev, NEW sup, NewEntry(n, k, sev, sup),
               Said(k, sev, sup) \/ \E o \in Orchestrators : Calling(o, k, sev, sup)
        PROVE  Cites(n)'
    <2>1. Grounds(sup) /\ ledger'[n].sup = sup
      BY <1>3, <1>6 DEF NewEntry
    <2>2. CASE sup = 0
      BY <2>1, <2>2 DEF Cites
    <2>3. ASSUME sup \in Rows("RESULT"), NEW j \in Pages, ledger[j].key = KeyOf(sup)
          PROVE  Cites(n)'
      <3>1. sup \in Rows("RESULT")' /\ KeyOf(sup)' = KeyOf(sup)
        BY <2>3, RowsStay
      <3>2. j \in Pages' /\ ledger'[j] = ledger[j] /\ j < n
        BY <1>6, PagesStay, NewPages
      <3> QED BY <2>1, <2>3, <3>1, <3>2 DEF Cites
    <2> QED BY <2>1, <2>2, <2>3 DEF Grounds
  <1>7. ASSUME NEW i \in Pages' PROVE Cites(i)'
    <2>1. CASE SameEntries
      BY <1>5, <1>7, <2>1, OldPages
    <2>2. ASSUME NEW n \in Nat, NEW k \in Key, NEW sev, NEW sup, NewEntry(n, k, sev, sup),
                 Said(k, sev, sup) \/ \E o \in Orchestrators : Calling(o, k, sev, sup)
          PROVE  Cites(i)'
      <3>1. (i \in Pages /\ ledger'[i] = ledger[i]) \/ i = n
        BY <1>7, <2>2, NewPages
      <3> QED BY <1>5, <1>6, <2>2, <3>1
    <2> QED BY <2>1, <2>2, EntersBy
  <1>8. ASSUME NEW o \in Orchestrators, orch'[o].pc \in OnPath PROVE Grounded(o)'
    <2>1. PICK sup : sup = orch'[o].sup
      OBVIOUS
    <2>2. Grounds(sup)'
      BY <1>1, <1>8, <2>1, GroundsStay
    <2> QED BY <2>1, <2>2 DEF Grounded, Grounds, KeyOf
  <1>9. \A o \in Orchestrators : Grounded(o)'
    BY <1>8 DEF Grounded
  <1> QED BY <1>4, <1>7, <1>9 DEF Sourced

LEMMA SourcedAlways ==
    ASSUME NoTakeover, Apart, LateAnswers, PagerAnswers
    PROVE  Spec => [](Replays => Sourced)
  <1>1. Init => Sourced
    <2> SUFFICES ASSUME Init PROVE Sourced
      OBVIOUS
    <2>1. Pages = {}
      BY InitNothing DEF Pages, Entries
    <2>2. \A k, sev, sup : ~ Said(k, sev, sup)
      BY InitNothing DEF Said
    <2> QED BY <2>1, <2>2, InitNothing DEF Sourced, Grounded, OnPath
  <1>2. Steady /\ Inv /\ (Replays => Fated) /\ [Next]_vars /\ (Replays => Sourced)
        => (Replays => Sourced)'
    <2> SUFFICES ASSUME Steady, Inv, Replays => Fated, [Next]_vars, Replays => Sourced, Replays'
                 PROVE  Sourced'
      OBVIOUS
    <2>1. Replays
      BY SettingsStay DEF settings, Replays, Steady
    <2> QED BY <2>1, SourcedNext DEF Inv
  <1> QED BY <1>1, <1>2, SteadyAlways, Invariance, FatedAlways, PTL DEF Spec

\* A page after the first that carries an annotation explains itself.
LEMMA AnnotatedExplains ==
    ASSUME Sourced, \A i, j \in Pages : i < j => ledger[j].sup # 0
    PROVE  PagesExplained
  BY DEF Sourced, Cites, PagesExplained, Rows

\* What the world is like at the end of a run.
LEMMA OrderAtEnd ==
    ASSUME Steady, Barrier, EffectOnce, Sourced, _clause_1_no_duplication, Clean, Backwards,
           NEW o \in Orchestrators, orch[o].pc = "returned"
    PROVE  WorldInOrder
  <1>0. Replays /\ Diverges /\ JournalTypeOK /\ Ground
    BY DEF Barrier, Replays, Diverges, Steady, TypeOK, Tree
  <1>1. Settled
    BY <1>0 DEF Steady, Path, PathOK
  <1>2. Stranded \subseteq EscalatedKeys
    BY DEF Clean, Swept
  <1>3. UndosOrdered
    BY DEF Backwards, Unwinding
  <1>4. Cardinality(UnknownPages) <= 1
    BY <1>0, AtMostOnePage
  <1>5. PagesExplained
    BY AnnotatedExplains DEF _clause_1_no_duplication
  <1> QED BY <1>1, <1>2, <1>3, <1>4, <1>5 DEF WorldInOrder

\* A verdict of PASS is true although the checker reads no more of the world than its
\* ledger: a kill at any point, a lost reply and a late page leave nothing in force that
\* no escalation names, no page out of turn, no second doubt.  It rests on a pager that
\* rejects no page while it may lose one (PagerAnswers) and on every undo but the last of
\* a branch being carried out and answered (UndoFailsFirst, UndosAnswered)
\* (checker.check_eeo, called when run_orchestrator.handle returns).
THEOREM PassIsTrueHolds ==
    ASSUME NoTakeover, Apart, UndoableInTime, SomebodyIsPaged, LateAnswers, PagerAnswers,
           UndosAnswered, UndoFailsFirst
    PROVE  Spec => [](Barrier => PassIsTrue)
  <1>1. /\ Steady /\ (EffectOnce /\ Held) /\ (Replays => Sourced) /\ (Barrier => Clean)
        /\ (Barrier => Backwards)
        => (Barrier => PassIsTrue)
    <2> SUFFICES ASSUME Steady, EffectOnce, Replays => Sourced, Clean, Backwards,
                        Barrier, NEW o \in Orchestrators, orch[o].pc = "returned", check_eeo(o)
                 PROVE  WorldInOrder
      BY DEF PassIsTrue, At
    <2>1. Replays
      BY DEF Barrier, Replays
    <2>2. _clause_1_no_duplication
      BY DEF check_eeo
    <2> QED BY <2>1, <2>2, OrderAtEnd
  <1> QED BY <1>1, SteadyAlways, EffectOnceAlways, SourcedAlways, CleanAlways,
             BackwardsAlways, PTL

\* A page that explains itself names a page of the severity its annotation speaks of.
LEMMA DuplicationClear ==
    ASSUME JournalTypeOK, EffectOnce, PagesExplained, Sourced, Severed
    PROVE  _clause_1_no_duplication
  <1>1. ASSUME NEW j \in Pages, NEW i \in Pages, i < j
        PROVE  /\ ledger[j].sup # 0
               /\ \E k \in Pages : k < j /\ ledger[k].sev = journal[ledger[j].sup].sev
    <2>1. PICK r : r = ledger[j].sup
      OBVIOUS
    <2>2. PICK k \in Pages : k < j /\ ledger[k].key = KeyOf(r)
      BY <1>1, <2>1 DEF PagesExplained
    <2>3. r \in DOMAIN journal /\ r # 0
      <3>1. r \in DOMAIN journal
        BY <1>1, <2>1 DEF PagesExplained
      <3> QED BY <3>1 DEF JournalTypeOK
    <2>4. r \in Rows("RESULT")
      BY <2>1, <2>3 DEF Sourced, Cites
    <2>5. PICK b, s, t : b = KeyOf(r)[1] /\ s = ledger[k].sev /\ t = journal[r].sev
      OBVIOUS
    <2>6. RightSev(b, t)
      <3>1. Said(KeyOf(r), t, journal[r].sup)
        BY <2>4, <2>5 DEF Said
      <3> QED BY <2>5, <3>1 DEF Severed
    <2>7. RightSev(b, s)
      BY <2>2, <2>5 DEF Severed, RightPage
    <2>8. s = t
      BY <2>6, <2>7 DEF RightSev, Severed, Forked, Forks
    <2> QED BY <2>1, <2>2, <2>3, <2>5, <2>8
  <1> QED BY <1>1 DEF _clause_1_no_duplication, EffectOnce

LEMMA LossClear ==
    ASSUME SomebodyIsPaged, JournalTypeOK, JournalTruthful, Settled, NEW o \in Orchestrators
    PROVE  _clause_2_no_loss(o)
  <1>1. CASE Rows("ESCALATED") # {}
    BY <1>1 DEF _clause_2_no_loss
  <1>2. ASSUME NEW b \in DOMAIN branches, completed_results(b) = Steps
        PROVE  Pages # {}
    <2>1. PICK s \in Steps : Trace[s] \in Irreversible
      BY DEF SomebodyIsPaged
    <2>0. PICK k : k = <<b, s>>
      OBVIOUS
    <2>2. k = <<b, s>> /\ k[1] = b /\ k[2] = s
      BY <2>0
    <2>3. k \in Okay
      BY <1>2, <2>1, <2>2, CompletedIs, LastTold
    <2>4. ToolOf(k) \in Irreversible
      BY <2>1, <2>2 DEF ToolOf
    <2>5. Happened("effect", k)
      <3>1. PICK r \in Rows("RESULT") : journal[r].status = "ok" /\ KeyOf(r) = k
        BY <2>3 DEF Okay
      <3>2. Done(k)
        BY <3>1 DEF JournalTruthful
      <3> QED BY <2>4, <3>2 DEF Done, Irreversible, Pure
    <2> QED BY <2>4, <2>5 DEF Happened, Pages, ToolOfEntry
  <1> QED BY <1>1, <1>2 DEF Settled, _clause_2_no_loss

\* An ok result of a step has an origin, the last one; of two on a branch the later one
\* is of a later step.
LEMMA OriginIs ==
    ASSUME Steady, NEW k \in Okay
    PROVE  \E r \in Rows("RESULT") : origin(k, r) /\ KeyOf(r) = k /\ journal[r].status = "ok"
  <1>1. k \in Last("ok")
    BY OkayPlace
  <1>2. PICK r \in Rows("RESULT") : /\ last_result(journal[r].br, journal[r].seq, r)
                                    /\ journal[r].status = "ok" /\ KeyOf(r) = k
    BY <1>1 DEF Last
  <1>3. \A q \in Rows("RESULT") : KeyOf(q) = k => q <= r
    BY <1>2 DEF last_result, KeyOf, effect_key
  <1> QED BY <1>2, <1>3 DEF origin

LEMMA AbandonmentClear ==
    ASSUME Steady, Ordered, JournalTruthful, CompensateOnlyDead, Clean, Backwards,
           Owed \subseteq EscalatedKeys
    PROVE  _clause_3_clean_abandonment
  <1>0. JournalTypeOK
    BY DEF Steady, TypeOK
  <1>1. ASSUME NEW r \in Undone
        PROVE  KeyOf(r) \in compensations /\ KeyOf(r) \in Okay
    <2>1. KeyOf(r) \in compensations
      BY DEF Undone, compensations
    <2> QED BY <2>1 DEF Backwards
  <1>2. ASSUME NEW r \in Undone, NEW a \in DOMAIN journal, origin(KeyOf(r), a)
        PROVE  ~ IsActive(journal[a].br)
    <2>1. KeyOf(a) = KeyOf(r)
      BY <1>2 DEF origin
    <2>2. journal[a].br = KeyOf(r)[1]
      BY <2>1 DEF KeyOf, effect_key
    <2>3. ~ IsActive(KeyOf(r)[1])
      BY <1>0, <1>1, UndoneIsDead
    <2> QED BY <2>2, <2>3
  <1>3. ASSUME NEW q \in Undone, NEW r \in Undone, q < r, SamePass(q, r)
        PROVE  \E a, b \in DOMAIN journal : origin(KeyOf(q), a) /\ origin(KeyOf(r), b) /\ a > b
    <2>1. PICK k, l : k = KeyOf(q) /\ l = KeyOf(r)
      OBVIOUS
    <2>2. k \in Okay /\ l \in Okay
      BY <1>1, <2>1
    <2>3. PICK a \in Rows("RESULT") : origin(k, a) /\ KeyOf(a) = k /\ journal[a].status = "ok"
      BY <2>2, OriginIs
    <2>4. PICK b \in Rows("RESULT") : origin(l, b) /\ KeyOf(b) = l /\ journal[b].status = "ok"
      BY <2>2, OriginIs
    <2>5. k[1] = l[1]
      BY <1>3, <2>1 DEF SamePass, KeyOf, effect_key
    <2>6. ToolOf(l) \in Compensatable
      BY <1>1, <2>1 DEF Clean, DeadKey
    <2>7. l[2] < k[2]
      BY <1>3, <2>1, <2>5, <2>6 DEF Backwards, Below
    <2>8. /\ journal[a].br = k[1] /\ journal[a].seq = k[2]
          /\ journal[b].br = l[1] /\ journal[b].seq = l[2]
      BY <2>3, <2>4 DEF KeyOf, effect_key
    <2>9. a \in Nat /\ b \in Nat /\ k[2] \in Nat /\ l[2] \in Nat
      <3>1. a \in Nat /\ b \in Nat
        BY <1>0, <2>3, <2>4 DEF Rows, JournalTypeOK
      <3>2. k \in Key /\ l \in Key
        BY <2>2, OkayPlace
      <3> QED BY <3>1, <3>2, KeyIs DEF Steps
    <2>10. a # b
      BY <2>3, <2>4, <2>7, <2>9
    <2>11. ~ (a < b)
      BY <2>3, <2>4, <2>5, <2>7, <2>8, <2>9 DEF Ordered
    <2> QED BY <2>1, <2>3, <2>4, <2>9, <2>10, <2>11 DEF Rows
  <1> QED BY <1>2, <1>3 DEF _clause_3_clean_abandonment

LEMMA AmbiguityClear ==
    ASSUME JournalTypeOK, Ground, Replays, Surfaced
    PROVE  _bounded_ambiguity
  <1>1. ASSUME NEW k \in unknown_now PROVE \E r \in UnknownPages : KeyOf(r) = k
    <2>1. PICK r \in Rows("RESULT") :
             /\ KeyOf(r) = k /\ journal[r].status = "unknown"
             /\ ToolOf(KeyOf(r)) \in Irreversible \cap Unobservable
             /\ \A p \in Rows("RESULT") \cup Rows("LATE_DELIVERY_SUPPRESSED") :
                   KeyOf(p) = KeyOf(r) => p <= r
      BY <1>1 DEF unknown_now
    <2>2. last_result(journal[r].br, journal[r].seq, r)
      BY <2>1 DEF last_result, KeyOf
    <2> QED BY <2>1, <2>2 DEF UnknownPages
  <1>2. CASE unknown_now = {}
    BY <1>2, FS_EmptySet DEF _bounded_ambiguity
  <1>3. CASE unknown_now # {}
    <2>1. PICK k : k \in unknown_now
      BY <1>3
    <2>2. unknown_now = {k}
      BY <1>1, <2>1, OnePage
    <2>3. Cardinality({k}) = 1
      BY FS_Singleton
    <2>4. Rows("ESCALATED") # {}
      BY <1>1, <2>1 DEF Surfaced
    <2>5. Cardinality(unknown_now) <= 1
      BY <2>2, <2>3
    <2> QED BY <2>4, <2>5 DEF _bounded_ambiguity
  <1> QED BY <1>2, <1>3

\* A verdict of FAIL is no false alarm: when a run ends and the world is in order, the
\* checker is content with the keys and the order it reads from the journal, whoever was
\* killed on the way and at whatever point.  It rests on what PassIsTrueHolds rests on
\* (checker._clause_1_no_duplication to _bounded_ambiguity).
THEOREM FailIsTrueHolds ==
    ASSUME NoTakeover, Apart, UndoableInTime, SomebodyIsPaged, LateAnswers, PagerAnswers,
           UndosAnswered, UndoFailsFirst
    PROVE  Spec => [](Barrier => FailIsTrue)
  <1>1. /\ Steady /\ Inv /\ (Replays => Sourced) /\ (Barrier => Severed) /\ (Barrier => Paid)
        /\ (Barrier => Clean) /\ (Replays => Ordered) /\ (Barrier => Backwards) /\ Confessed
        => (Barrier => FailIsTrue)
    <2> SUFFICES ASSUME Steady, Inv, Replays => Sourced, Severed, Paid, Clean,
                        Replays => Ordered, Backwards, Confessed, WorldInOrder,
                        Barrier, NEW o \in Orchestrators, orch[o].pc = "returned"
                 PROVE  check_eeo(o)
      BY DEF FailIsTrue, At
    <2>0. Replays /\ Diverges /\ JournalTypeOK /\ Ground
      BY DEF Barrier, Replays, Diverges, Steady, TypeOK, Tree
    <2>1. _clause_1_no_duplication
      BY <2>0, DuplicationClear DEF WorldInOrder
    <2>2. _clause_2_no_loss(o)
      BY <2>0, LossClear DEF Steady, Path, PathOK, Inv
    <2>3. _clause_3_clean_abandonment
      <3>1. Owed \subseteq EscalatedKeys
        BY DEF Paid, Squared
      <3> QED BY <2>0, <3>1, AbandonmentClear DEF Inv
    <2>4. _bounded_ambiguity
      BY <2>0, AmbiguityClear DEF Confessed
    <2> QED BY <2>1, <2>2, <2>3, <2>4 DEF check_eeo
  <1> QED BY <1>1, SteadyAlways, Invariance, SourcedAlways,
             SeveredAlways, PaidAlways, CleanAlways, OrderedAlways, BackwardsAlways,
             ConfessedAlways, PTL

------------------------------------------------------------------------------
(* The phones                                                              *)

\* There is one annotation to give at a time.
LEMMA SupersedeOnce ==
    ASSUME JournalTypeOK, Barrier, NEW x, NEW y, _supersede_for(x), _supersede_for(y)
    PROVE  x = y
  <1>1. residue \subseteq Nat
    <2>1. \A r \in residue : r \in DOMAIN journal
      BY ResidueIs DEF Leftover, Rows
    <2> QED BY <2>1 DEF JournalTypeOK
  <1>2. CASE x = 0 /\ y = 0
    BY <1>2
  <1>3. CASE x \in residue /\ y \in residue
    <2>2. residue # {}
      BY <1>3
    <2>3. x <= y /\ y <= x
      BY <1>3, <2>2 DEF _supersede_for
    <2>4. x \in Nat /\ y \in Nat
      BY <1>1, <1>3
    <2> QED BY <2>3, <2>4
  <1>4. (x = 0 /\ residue = {}) \/ x \in residue
    BY DEF _supersede_for
  <1>5. (y = 0 /\ residue = {}) \/ y \in residue
    BY DEF _supersede_for
  <1> QED BY <1>2, <1>3, <1>4, <1>5

\* A page and whatever is said of it, at once or by a later process, agree on the
\* annotation.
Agreed == \A i \in Pages : \A k, sev, sup :
             (Said(k, sev, sup) /\ ledger[i].key = k) => ledger[i].sup = sup
Rightly(i) == _supersede_for(ledger[i].sup)

LEMMA AgreedNext ==
    ASSUME PagesOnce, PagerAnswers, Steady, Barrier, JournalTruthful, LedgerOK, LateUndecided,
           Fated, Marked, Named, Agreed, [Next]_vars
    PROVE  Agreed'
  <1>0. Replays /\ TypeOK /\ JournalTypeOK /\ LocalOK /\ Path /\ Tree
    BY DEF Barrier, Replays, Steady, TypeOK
  <1>n. Named'
    BY NamedNext
  <1> SUFFICES ASSUME NEW i \in Pages', NEW k, NEW sev, NEW sup, Said(k, sev, sup)',
                      ledger'[i].key = k
               PROVE  ledger'[i].sup = sup
    BY DEF Agreed
  <1>1. ToolOf(k) \in Irreversible
    BY DEF Pages, ToolOfEntry
  <1>2. CASE IsActive(k[1])'
    <2>1. k \in Touched'
      BY DEF Said, Touched, Told, LateKeys
    <2>2. \A a \in Orchestrators : ~ Abandon(a)
      BY <1>2, <2>1, AbandonLeavesNone
    <2>3. \A x : _supersede_for(x)' <=> _supersede_for(x)
      BY <2>2, ResidueStays
    <2>4. _supersede_for(sup)'
      BY <1>n, <1>1, <1>2 DEF Named
    <2>5. OnLive(i)'
      BY <1>2 DEF OnLive, IsActive
    <2>6. Rightly(i)'
      BY <1>n, <2>5 DEF Named, OnLive, Rightly
    <2>7. PICK x : x = ledger'[i].sup
      OBVIOUS
    <2>8. _supersede_for(x)'
      BY <2>6, <2>7 DEF Rightly, _supersede_for
    <2>9. _supersede_for(x) /\ _supersede_for(sup)
      BY <2>3, <2>4, <2>8
    <2> QED BY <1>0, <2>7, <2>9, SupersedeOnce
  <1>3. CASE ~ IsActive(k[1])'
    <2>1. ASSUME NEW o \in Orchestrators, Calling(o, k, sev, sup) PROVE FALSE
      <3>1. k[1] \in DOMAIN branches /\ IsActive(k[1]) /\ ~ \E p \in Orchestrators : Abandon(p)
        BY <2>1, CallingIs
      <3> QED BY <1>0, <1>3, <3>1, AliveStays
    <2>2. Said(k, sev, sup)
      BY <2>1, SaidBy
    <2>3. ASSUME NEW n \in Nat, NEW j \in Key, NEW t, NEW u, NewEntry(n, j, t, u), i \notin Pages
          PROVE  FALSE
      <3>1. i = n /\ ToolOf(j) \in Irreversible
        BY <2>3, NewPages
      <3>2. j = k /\ k \notin applied /\ k \in applied'
        BY <2>3, <3>1 DEF NewEntry
      <3>3. IsActive(k[1]) /\ UNCHANGED branches
        BY <1>0, <1>1, <3>2, PageLands
      <3> QED BY <1>3, <3>3 DEF IsActive
    <2>4. i \in Pages
      BY <2>3, EntersBy, OldPages
    <2>5. ledger'[i] = ledger[i]
      BY <2>4, EntersBy, OldPages, NewPages
    <2> QED BY <2>2, <2>4, <2>5 DEF Agreed
  <1> QED BY <1>2, <1>3

LEMMA AgreedAlways ==
    ASSUME NoTakeover, Apart, LateAnswers, PagerAnswers, MarksWhole, PagesOnce
    PROVE  Spec => [](Barrier => Agreed)
  <1>1. Init => Agreed
    BY InitNothing DEF Agreed, Pages, Entries
  <1>2. /\ Steady /\ Inv /\ LateUndecided /\ (Replays => Fated) /\ (Barrier => Marked)
        /\ (Barrier => Named) /\ [Next]_vars /\ (Barrier => Agreed)
        => (Barrier => Agreed)'
    <2> SUFFICES ASSUME Steady, Inv, LateUndecided, Replays => Fated, Barrier => Marked,
                        Barrier => Named, [Next]_vars, Barrier => Agreed, Barrier'
                 PROVE  Agreed'
      OBVIOUS
    <2>1. Barrier /\ Replays
      BY SettingsStay DEF settings, Barrier, Replays, Steady
    <2> QED BY <2>1, AgreedNext DEF Inv
  <1> QED BY <1>1, <1>2, SteadyAlways, Invariance, LateUndecidedAlways, FatedAlways,
             MarkedAlways, NamedAlways, PTL DEF Spec

\* Whatever is said of a key, the steps before it went through first, on dead branches too.
Trodden == \A k \in Touched : \A s \in Steps : s < k[2] => <<k[1], s>> \in Okay

LEMMA TroddenNext ==
    ASSUME Steady, Trodden, [Next]_vars
    PROVE  Trodden'
  <1>0. TypeOK /\ JournalTypeOK /\ LocalOK /\ Path /\ Tree /\ Grows
    BY TypesNext DEF Steady, TypeOK
  <1> SUFFICES ASSUME NEW k \in Touched', NEW s \in Steps, s < k[2]
               PROVE  <<k[1], s>> \in Okay'
    BY DEF Trodden
  <1>1. <<k[1], s>> \in Okay
    <2>1. CASE k \in Touched
      BY <2>1 DEF Trodden
    <2>2. ASSUME NEW o \in Orchestrators, orch[o].pc \in {"call", "called", "ambiguous"},
                 k = effect_key(orch[o].br, orch[o].seq)
          PROVE  <<k[1], s>> \in Okay
      <3>1. orch[o].pc \in Working
        BY <2>2 DEF Working
      <3>2. Behind(k)
        BY <1>0, <2>2, <3>1, NotYet
      <3> QED BY <1>0, <3>2, LastTold DEF Behind
    <2> QED BY <1>0, <2>1, <2>2, NewKey
  <1> QED BY <1>0, <1>1, OkayStays

\* Branches are taken one after the other, in the journal and by the pager; and a fork
\* says which severity it is for.
Marching ==
    /\ \A q, r \in Rows("RESULT") : q < r => journal[q].br <= journal[r].br
    /\ \A i, j \in Pages : i < j => ledger[i].key[1] <= ledger[j].key[1]
    /\ \A f \in Rows("BRANCH_FORKED") : journal[f].sev \in Severities
InTurn(i, j) == ledger[i].key[1] <= ledger[j].key[1]

LEMMA MarchingNext ==
    ASSUME Steady, Barrier, JournalTruthful, LedgerOK, LateUndecided, Severed, Marching,
           [Next]_vars
    PROVE  Marching'
  <1>0. Replays /\ TypeOK /\ JournalTypeOK /\ LocalOK /\ Path /\ Tree /\ Ground
    BY DEF Barrier, Replays, Steady, TypeOK, Tree
  <1>n. \A k \in Touched, b \in DOMAIN branches : IsActive(b) => k[1] <= b
    BY <1>0 DEF Severed, Forked, Ground
  <1>1. ASSUME NEW q \in Rows("RESULT")', NEW r \in Rows("RESULT")', q < r
        PROVE  journal'[q].br <= journal'[r].br
    <2>1. CASE NoResult
      BY <1>0, <1>1, <2>1, NothingTold DEF Marching
    <2>2. ASSUME NEW k \in Key, NEW st, ResultOf(k, st), k[1] \in DOMAIN branches, IsActive(k[1])
          PROVE  journal'[q].br <= journal'[r].br
      <3>1. PICK n \in Nat : /\ n = Len(journal) + 1
                             /\ Rows("RESULT")' = Rows("RESULT") \cup {n} /\ KeyOf(n)' = k
        BY <1>0, <2>2, ResultTold
      <3>2. \A p \in Rows("RESULT") : journal'[p] = journal[p]
        BY <1>0, <2>2, ResultTold
      <3>3. \A p \in Rows("RESULT") : p \in Nat /\ p < n
        BY <1>0, <3>1 DEF JournalTypeOK, Rows
      <3>4. q \in Rows("RESULT")
        BY <1>1, <3>1, <3>3
      <3>5. CASE r \in Rows("RESULT")
        BY <1>1, <3>2, <3>4, <3>5 DEF Marching
      <3>6. CASE r = n
        <4>1. journal'[r].br = k[1]
          BY <3>1, <3>6 DEF KeyOf, effect_key
        <4>2. PICK j : j = KeyOf(q)
          OBVIOUS
        <4>3. j \in Touched /\ j[1] = journal[q].br
          BY <3>4, <4>2 DEF Touched, Told, KeyOf, effect_key
        <4> QED BY <1>n, <2>2, <3>2, <3>4, <4>1, <4>3
      <3> QED BY <3>1, <3>5, <3>6
    <2> QED BY <1>0, <2>1, <2>2, ResultsBy
  <1>2. ASSUME NEW i \in Pages', NEW j \in Pages', i < j
        PROVE  InTurn(i, j)'
    <2>1. ASSUME i \in Pages, j \in Pages, ledger'[i] = ledger[i], ledger'[j] = ledger[j]
          PROVE  InTurn(i, j)'
      BY <1>2, <2>1 DEF Marching, InTurn
    <2>2. CASE SameEntries
      BY <2>1, <2>2, OldPages
    <2>3. ASSUME NEW n \in Nat, NEW k \in Key, NEW sev, NEW sup, NewEntry(n, k, sev, sup)
          PROVE  InTurn(i, j)'
      <3>1. /\ Pages' = IF ToolOf(k) \in Irreversible THEN Pages \cup {n} ELSE Pages
            /\ \A m \in Pages : ledger'[m] = ledger[m] /\ m < n
        BY <2>3, NewPages
      <3>2. Pages \subseteq Nat
        BY <1>0 DEF TypeOK, WorldTypeOK, Pages, Entries
      <3>3. i \in Pages
        BY <1>2, <3>1, <3>2
      <3>4. CASE j \in Pages
        BY <2>1, <3>1, <3>3, <3>4
      <3>5. CASE j = n /\ ToolOf(k) \in Irreversible
        <4>1. k[1] \in DOMAIN branches /\ IsActive(k[1]) /\ ledger'[j].key = k
          BY <1>0, <2>3, <3>5, PageLands DEF NewEntry
        <4>2. PICK h : h = ledger[i].key
          OBVIOUS
        <4>3. h \in Touched /\ ledger'[i].key = h
          BY <3>1, <3>3, <4>2, PageIs DEF Touched
        <4>4. h[1] <= k[1]
          BY <1>n, <4>1, <4>3
        <4> QED BY <4>1, <4>3, <4>4 DEF InTurn
      <3> QED BY <3>1, <3>4, <3>5
    <2> QED BY <2>2, <2>3, EntersBy
  <1>3. ASSUME NEW f \in Rows("BRANCH_FORKED")' PROVE journal'[f].sev \in Severities
    <2>1. CASE NoFork
      BY <1>0, <2>1, NothingForked DEF Marching
    <2>2. ASSUME NEW o \in Orchestrators, RecordFork(o) PROVE journal'[f].sev \in Severities
      <3>1. PICK n : /\ n \notin DOMAIN journal
                     /\ Rows("BRANCH_FORKED")' = Rows("BRANCH_FORKED") \cup {n}
                     /\ journal'[n].sev = orch[o].chosen
                     /\ \A q \in DOMAIN journal : journal'[q] = journal[q]
        BY <1>0, <2>2, ForkRow
      <3>2. orch[o].chosen \in Severities
        BY <2>2 DEF RecordFork, At, Severed, Choosing
      <3> QED BY <3>1, <3>2 DEF Marching, Rows
    <2> QED BY <2>1, <2>2, ForkBy
  <1> QED BY <1>1, <1>2, <1>3 DEF Marching, InTurn

LEMMA MarchingAlways ==
    ASSUME NoTakeover, Apart, LateAnswers
    PROVE  Spec => [](Barrier => Marching /\ Trodden)
  <1>1. Init => Marching /\ Trodden
    BY InitNothing DEF Marching, Trodden, Pages, Entries
  <1>2. /\ Steady /\ Inv /\ LateUndecided /\ (Barrier => Severed) /\ [Next]_vars
        /\ (Barrier => Marching /\ Trodden)
        => (Barrier => Marching /\ Trodden)'
    <2> SUFFICES ASSUME Steady, Inv, LateUndecided, Barrier => Severed, [Next]_vars,
                        Barrier => Marching /\ Trodden, Barrier'
                 PROVE  Marching' /\ Trodden'
      OBVIOUS
    <2>1. Barrier
      BY SettingsStay DEF settings, Barrier, Steady
    <2> QED BY <2>1, MarchingNext, TroddenNext DEF Inv
  <1> QED BY <1>1, <1>2, SteadyAlways, Invariance, LateUndecidedAlways, SeveredAlways, PTL DEF Spec

\* Every page is behind a classification.
ClassifiedFirst == \A s \in Steps : Trace[s] \in Irreversible =>
                      \E t \in Steps : t < s /\ Trace[t] = "classify"

LEMMA RightOnce ==
    ASSUME Forked, NEW b, NEW s, NEW t, RightSev(b, s), RightSev(b, t)
    PROVE  s = t
  <1>1. \A f, g \in Forks(b) : f = g
    BY DEF Forked, Forks
  <1> QED BY <1>1 DEF RightSev

LEMMA LastRowIs ==
    ASSUME JournalTypeOK, NEW S \in SUBSET (DOMAIN journal), S # {}
    PROVE  \E i \in S : \A j \in S : j <= i
  <1>1. PICK n \in Nat : n = Len(journal)
    BY DEF JournalTypeOK
  <1>2. \A i \in S : i \in 1 .. n
    BY <1>1 DEF JournalTypeOK
  <1>3. PICK T : T = {n - i : i \in S}
    OBVIOUS
  <1>4. T \in SUBSET Nat /\ T # {}
    BY <1>2, <1>3
  <1>5. PICK t \in T : \A u \in T : t <= u
    BY <1>4, FirstRow
  <1>6. PICK i \in S : t = n - i
    BY <1>3, <1>5
  <1>7. ASSUME NEW j \in S PROVE j <= i
    <2>1. n - j \in T
      BY <1>3
    <2>2. n - i <= n - j
      BY <1>5, <1>6, <2>1
    <2> QED BY <1>2, <2>2
  <1> QED BY <1>7

\* What the dashboard rings is an ok result of a page.
LEMMA PhoneIs ==
    ASSUME Steady, NEW r \in phones
    PROVE  /\ r \in Rows("RESULT") /\ journal[r].status = "ok"
           /\ KeyOf(r) \in Okay /\ KeyOf(r) \in Touched /\ KeyOf(r) \in Key
           /\ KeyOf(r)[1] = journal[r].br /\ ToolOf(KeyOf(r)) \in Irreversible
           /\ Said(KeyOf(r), journal[r].sev, journal[r].sup)
           /\ \A q \in phones : KeyOf(q) = KeyOf(r) => r = q
  <1>1. r \in Rows("RESULT") /\ journal[r].status = "ok" /\ ToolOf(KeyOf(r)) = "page_oncall"
    BY DEF phones
  <1>2. KeyOf(r) \in Okay /\ KeyOf(r) \in Touched /\ KeyOf(r) \in Key
    BY <1>1, OkayPlace DEF Okay
  <1>3. Said(KeyOf(r), journal[r].sev, journal[r].sup)
    BY <1>1 DEF Said
  <1>4. KeyOf(r)[1] = journal[r].br
    BY DEF KeyOf, effect_key
  <1>5. ASSUME NEW q \in phones, KeyOf(q) = KeyOf(r) PROVE r = q
    <2>1. r <= q /\ q <= r
      BY <1>5 DEF phones
    <2>2. r \in Nat /\ q \in Nat
      BY DEF phones, Rows, Steady, TypeOK, JournalTypeOK
    <2> QED BY <2>1, <2>2
  <1> QED BY <1>1, <1>2, <1>3, <1>4, <1>5 DEF Irreversible

LEMMA PhoneRang ==
    ASSUME Steady, JournalTruthful, Severed, Agreed, NEW r \in phones
    PROVE  \E i \in Pages : /\ ledger[i].key = KeyOf(r)
                            /\ ledger[i].sev = journal[r].sev
                            /\ ledger[i].sup = journal[r].sup
  <1>1. PICK k : k = KeyOf(r)
    OBVIOUS
  <1>2. /\ r \in Rows("RESULT") /\ journal[r].status = "ok" /\ ToolOf(k) \in Irreversible
        /\ Said(k, journal[r].sev, journal[r].sup)
    BY <1>1, PhoneIs
  <1>3. Done(k)
    BY <1>1, <1>2 DEF JournalTruthful
  <1>4. PICK i \in Entries("effect") : ledger[i].key = k
    BY <1>2, <1>3 DEF Done, Happened, Pure, Irreversible
  <1>5. i \in Pages
    BY <1>2, <1>4 DEF Pages, ToolOfEntry
  <1>6. RightSev(k[1], ledger[i].sev) /\ RightSev(k[1], journal[r].sev)
    BY <1>2, <1>4, <1>5 DEF Severed, RightPage
  <1>7. ledger[i].sev = journal[r].sev
    BY <1>6, RightOnce DEF Severed
  <1>8. ledger[i].sup = journal[r].sup
    BY <1>2, <1>4, <1>5 DEF Agreed
  <1> QED BY <1>1, <1>4, <1>5, <1>7, <1>8

LEMMA PhoneShown ==
    ASSUME ClassifiedFirst, Steady, Severed, Trodden, Marching, NEW r \in phones
    PROVE  _branch_severity(journal[r].br, journal[r].sev)
  <1>0. JournalTypeOK
    BY DEF Steady, TypeOK
  <1>1. PICK k, b, sev : k = KeyOf(r) /\ b = journal[r].br /\ sev = journal[r].sev
    OBVIOUS
  <1>2. /\ k \in Touched /\ k \in Key /\ k[1] = b /\ ToolOf(k) \in Irreversible
        /\ RightSev(b, sev)
    BY <1>1, PhoneIs DEF Severed
  <1> DEFINE T == {q \in Rows("BRANCH_FORKED") \cup Rows("RESULT") :
                      /\ journal[q].br = b /\ journal[q].sev # NoSeverity
                      /\ journal[q].kind = "RESULT" => ToolOf(KeyOf(q)) = "classify"}
  <1>3. ASSUME NEW q \in T PROVE journal[q].sev = sev
    <2>1. CASE q \in Rows("BRANCH_FORKED")
      <3>1. q \in Forks(b)
        BY <2>1 DEF Forks
      <3>2. RightSev(b, journal[q].sev)
        BY <3>1 DEF RightSev
      <3> QED BY <1>2, <3>2, RightOnce DEF Severed
    <2>2. CASE q \in Rows("RESULT")
      <3>1. Said(KeyOf(q), journal[q].sev, journal[q].sup) /\ KeyOf(q)[1] = b
        BY <2>2 DEF Said, KeyOf, effect_key
      <3>2. RightSev(b, journal[q].sev)
        BY <3>1 DEF Severed
      <3> QED BY <1>2, <3>2, RightOnce DEF Severed
    <2> QED BY <2>1, <2>2
  <1>4. T # {}
    <2>0. \A s \in Severities : s # NoSeverity
      BY DEF Severities, NoSeverity
    <2>1. ASSUME NEW f \in Forks(b) PROVE T # {}
      <3>1. f \in Rows("BRANCH_FORKED") /\ journal[f].br = b
        BY DEF Forks
      <3>2. journal[f].sev # NoSeverity
        BY <2>0, <3>1 DEF Marching
      <3>3. journal[f].kind # "RESULT"
        BY <3>1 DEF Rows
      <3> QED BY <3>1, <3>2, <3>3
    <2>2. CASE Forks(b) = {}
      <3>1. k[2] \in Steps
        BY <1>2 DEF Key
      <3>2. PICK t \in Steps : t < k[2] /\ Trace[t] = "classify"
        BY <1>2, <3>1 DEF ClassifiedFirst, ToolOf
      <3>3. <<b, t>> \in Okay
        BY <1>2, <3>2 DEF Trodden
      <3>4. PICK q \in Rows("RESULT") : KeyOf(q) = <<b, t>>
        BY <3>3 DEF Okay
      <3>5. Said(KeyOf(q), journal[q].sev, journal[q].sup) /\ KeyOf(q)[1] = b
        BY <3>4 DEF Said
      <3>6. RightSev(b, journal[q].sev)
        BY <3>5 DEF Severed
      <3>7. journal[q].sev = FirstSeverity
        BY <2>2, <3>6 DEF RightSev
      <3>8. journal[q].sev # NoSeverity
        BY <2>0, <3>7, EngineAssumption
      <3>9. journal[q].br = b /\ ToolOf(KeyOf(q)) = "classify"
        BY <3>2, <3>4 DEF KeyOf, effect_key, ToolOf
      <3> QED BY <3>4, <3>8, <3>9
    <2> QED BY <2>1, <2>2
  <1>5. T \in SUBSET (DOMAIN journal)
    BY DEF Rows
  <1>6. PICK q \in T : \A p \in T : p <= q
    BY <1>0, <1>4, <1>5, LastRowIs
  <1>7. journal[q].sev = sev
    BY <1>3
  <1> HIDE DEF T
  <1>8. \E p \in T : sev = journal[p].sev /\ \A u \in T : u <= p
    BY <1>6, <1>7
  <1> QED BY <1>1, <1>8 DEF _branch_severity, T

------------------------------------------------------------------------------
(* The line above a pane                                                   *)

LEMMA LineSays ==
    /\ verdictLine = "cleaned up" => board("page_oncall") # {} /\ residue = {}
    /\ verdictLine = "livelocked" => board("page_oncall") = {} /\ Rows("ESCALATED") = {}
    /\ verdictLine = "duplicate page" => unexplained # {}
  <1>1. CASE board("page_oncall") = {}
    BY <1>1 DEF verdictLine
  <1>2. CASE board("page_oncall") # {} /\ unexplained # {}
    BY <1>2 DEF verdictLine
  <1>3. CASE board("page_oncall") # {} /\ unexplained = {}
    BY <1>3 DEF verdictLine
  <1> QED BY <1>1, <1>2, <1>3

\* Nobody's phone rings after another without a word: the page of a later branch went out
\* later.
LEMMA NoneUnexplained ==
    ASSUME PagesOnce, Steady, JournalTruthful, Severed, Agreed, Marching, PagesExplained
    PROVE  unexplained = {}
  <1> SUFFICES ASSUME NEW r \in phones, journal[r].sup = 0, NEW q \in phones, q < r
               PROVE  FALSE
    BY DEF unexplained
  <1>1. PICK i \in Pages : ledger[i].key = KeyOf(r) /\ ledger[i].sup = journal[r].sup
    BY PhoneRang
  <1>2. PICK j \in Pages : ledger[j].key = KeyOf(q)
    BY PhoneRang
  <1>3. i \in Nat /\ j \in Nat /\ 0 \notin DOMAIN journal
    BY DEF Pages, Entries, Steady, TypeOK, WorldTypeOK, JournalTypeOK
  <1>4. KeyOf(q) # KeyOf(r) /\ q \in Nat /\ r \in Nat
    <2>1. q \in Nat /\ r \in Nat
      BY DEF phones, Rows, Steady, TypeOK, JournalTypeOK
    <2>2. q # r
      BY <2>1
    <2> QED BY <2>1, <2>2, PhoneIs
  <1>5. ~ (j < i)
    BY <1>1, <1>3 DEF PagesExplained
  <1>6. i # j
    BY <1>1, <1>2, <1>4
  <1>7. ledger[i].key[1] <= ledger[j].key[1]
    BY <1>3, <1>5, <1>6 DEF Marching
  <1>8. journal[q].br <= journal[r].br
    BY PhoneIs DEF Marching
  <1>9. KeyOf(r)[1] <= KeyOf(q)[1] /\ KeyOf(q)[1] <= KeyOf(r)[1]
    BY <1>1, <1>2, <1>7, <1>8, PhoneIs
  <1>10. KeyOf(q) \in Key /\ KeyOf(r) \in Key
         /\ ToolOf(KeyOf(q)) \in Irreversible /\ ToolOf(KeyOf(r)) \in Irreversible
    BY PhoneIs
  <1>11. KeyOf(q)[1] = KeyOf(r)[1]
    BY <1>9, <1>10 DEF Key
  <1>12. KeyOf(q)[2] = KeyOf(r)[2]
    BY <1>10 DEF PagesOnce, ToolOf, Key
  <1> QED BY <1>4, <1>10, <1>11, <1>12 DEF Key

\* With nothing left over there was one page, on the branch that lives.
LEMMA CleanedUp ==
    ASSUME PagesOnce, Steady, Barrier, LedgerOK, JournalTruthful, EffectOnce, Fated, Marked,
           Clean, acked, board("page_oncall") # {}, residue = {}
    PROVE  Cardinality(Pages) = 1 /\ Stranded = {}
  <1>0. Replays /\ Ground /\ JournalTypeOK
    BY DEF Barrier, Replays, Steady, Tree, TypeOK
  <1>1. ASSUME NEW i \in Pages PROVE IsActive(ledger[i].key[1])
    <2>1. ledger[i].key[1] \in DOMAIN branches
      BY PageIs
    <2>2. \A o \in Orchestrators : orch[o].pc # "residue"
      BY DEF Steady, Sole, Busy
    <2>3. ~ IsActive(ledger[i].key[1]) =>
             branches[ledger[i].key[1]].status = "abandoned_with_residue"
      BY <2>2 DEF Marked, ResidueMarked, At, IsActive
    <2>4. ~ IsActive(ledger[i].key[1]) => ledger[i].key[1] \in dead_branches
      BY <2>1, <2>3 DEF dead_branches, DEAD_BRANCH_STATUSES
    <2>5. ~ HasResidue(ledger[i].key[1])
      BY DEF HasResidue
    <2> QED BY <1>0, <2>4, <2>5, PageIsResidue
  <1>2. PICK k \in net : ToolOf(k) = "page_oncall"
    BY DEF board
  <1>3. PICK r \in Rows("RESULT") : journal[r].status = "ok" /\ KeyOf(r) = k
    BY DEF net
  <1>4. Done(k)
    BY <1>3 DEF JournalTruthful
  <1>5. PICK i \in Entries("effect") : ledger[i].key = k
    BY <1>2, <1>4 DEF Done, Happened, Pure
  <1>6. i \in Pages
    BY <1>2, <1>5 DEF Pages, ToolOfEntry, Irreversible
  <1>7. ASSUME NEW j \in Pages PROVE j = i
    <2>1. PICK h : h = ledger[j].key
      OBVIOUS
    <2>2. /\ h \in Key /\ h[1] \in DOMAIN branches /\ IsActive(h[1])
          /\ ToolOf(h) \in Irreversible
      BY <1>1, <2>1, PageIs
    <2>3. /\ k \in Key /\ k[1] \in DOMAIN branches /\ IsActive(k[1])
          /\ ToolOf(k) \in Irreversible
      BY <1>1, <1>5, <1>6, PageIs
    <2>4. h[1] = k[1]
      BY <1>0, <2>2, <2>3 DEF Ground
    <2>5. h[2] = k[2]
      BY <2>2, <2>3 DEF PagesOnce, ToolOf, Key
    <2>6. h = k
      BY <2>2, <2>3, <2>4, <2>5 DEF Key
    <2> QED BY <1>5, <1>6, <2>1, <2>6 DEF EffectOnce, Pages
  <1>8. Pages = {i}
    BY <1>6, <1>7
  <1>9. Cardinality(Pages) = 1
    BY <1>8, FS_Singleton
  <1>10. k \in Touched /\ IsActive(k[1]) /\ ToolOf(k) \in Irreversible
    BY <1>1, <1>5, <1>6, PageIs DEF Touched
  <1> QED BY <1>9, <1>10 DEF Clean

LEMMA HeadlineIs ==
    ASSUME PagesOnce, Steady, Barrier, LedgerOK, JournalTruthful, EffectOnce, Fated, Marked,
           Clean, Severed, Agreed, Marching, PagesExplained, TimerStops
    PROVE  HeadlineTrue
  <1> SUFFICES ASSUME acked
               PROVE  /\ verdictLine = "cleaned up" => Cardinality(Pages) = 1 /\ Stranded = {}
                      /\ verdictLine = "livelocked" => Pages = {}
                      /\ verdictLine = "duplicate page" => ~ PagesExplained
    BY DEF HeadlineTrue
  <1>1. verdictLine = "cleaned up" => Cardinality(Pages) = 1 /\ Stranded = {}
    BY LineSays, CleanedUp
  <1>2. verdictLine # "livelocked"
    BY LineSays DEF TimerStops, running, Barrier, Diverges
  <1>3. verdictLine # "duplicate page"
    BY LineSays, NoneUnexplained
  <1> QED BY <1>1, <1>2, <1>3

\* What a pane shows is true all the time: the scoreboard agrees with the tree, a phone
\* rang as it is shown, with the severity and the annotation the pager got, the timer
\* has stopped and the headline is right when the alert is at rest, unless a kill tore the
\* two writes of _abandon apart (MarksWhole) (view.scoreboard, branch_view, phones,
\* derive_state, dashboard.html verdictLine).
THEOREM PaneTrueHolds ==
    ASSUME NoTakeover, Apart, UndoableInTime, SomebodyIsPaged, LateAnswers, PagerAnswers,
           MarksWhole, PagesOnce, ClassifiedFirst
    PROVE  Spec => [](Barrier => PaneTrue)
  <1>1. /\ Steady /\ Inv /\ (EffectOnce /\ Held) /\ (Replays => Fated) /\ (Barrier => Marked)
        /\ (Barrier => Named) /\ (Barrier => Severed) /\ (Barrier => Agreed)
        /\ (Barrier => Marching /\ Trodden) /\ (Barrier => Clean) /\ (BoardAgrees /\ TimerStops)
        => (Barrier => PaneTrue)
    <2> SUFFICES ASSUME Steady, Inv, EffectOnce, Replays => Fated, Marked, Named, Severed, Agreed,
                        Marching, Trodden, Clean, BoardAgrees, TimerStops, Barrier
                 PROVE  PaneTrue
      OBVIOUS
    <2>1. Replays /\ PagesExplained /\ LedgerOK /\ JournalTruthful
      BY DEF Barrier, Replays, Named, Inv
    <2>2. Fated
      BY <2>1
    <2>3. PhonesTrue
      BY <2>1, PhoneRang, PhoneShown DEF PhonesTrue
    <2>4. HeadlineTrue
      BY <2>1, <2>2, HeadlineIs
    <2> QED BY <2>3, <2>4 DEF PaneTrue
  <1> QED BY <1>1, SteadyAlways, Invariance, EffectOnceAlways, FatedAlways, MarkedAlways,
             NamedAlways, SeveredAlways, AgreedAlways, MarchingAlways, CleanAlways, TimersAndBoardsHold, PTL

------------------------------------------------------------------------------
(* The closed gate                                                         *)

Graduating == {"graduate", "graduated"}

\* Whoever drains gets the gate open before he can die.
DrainsWhole == CrashAt \cap {"drain", "graduate", "graduated"} = {}

\* A page is stopped: nobody has come further than it since, its branch is alive, and the
\* gate opens again if nothing is owed.
GatePC == {"idle", "select", "step", "escalate", "drain"} \cup Undoing \cup Graduating
Stopped(k) ==
    /\ ~ acked
    /\ k \in Key /\ ToolOf(k) \in Irreversible
    /\ k[1] \in DOMAIN branches /\ IsActive(k[1])
    /\ k \notin Last("ok") /\ Behind(k)
    /\ Owed # {} \/ \E o \in Orchestrators : orch[o].pc \in Graduating \cup {"drain"}
    /\ \A o \in Orchestrators : orch[o].pc \in GatePC

\* What the gate said was owed is what is owed now and what was undone since.
Counting(r) ==
    /\ IsFiniteSet(Owed) /\ IsFiniteSet(undone_since(r))
    /\ Cardinality(undone_since(r)) + Cardinality(Owed) = Cardinality(journal[r].keys)
Barred == \A r \in Rows("BARRIER_BLOCKED") : blocked(r) => Stopped(KeyOf(r)) /\ Counting(r)

NoGate == \/ UNCHANGED journal
          \/ \E rec \in Record :
                append(rec) /\ rec.kind \notin {"BARRIER_BLOCKED", "BARRIER_RELEASED", "ESCALATED"}

\* The gate is closed by the record that closed it, or by a new one.
LEMMA BlockedBy ==
    ASSUME JournalTypeOK, Grows, NEW r \in Rows("BARRIER_BLOCKED")', blocked(r)'
    PROVE  \/ /\ r \in Rows("BARRIER_BLOCKED") /\ blocked(r) /\ NoGate
              /\ journal'[r] = journal[r] /\ KeyOf(r)' = KeyOf(r)
           \/ \E rec \in Record : /\ append(rec) /\ rec.kind = "BARRIER_BLOCKED"
                                  /\ r = Len(journal) + 1 /\ journal'[r] = rec
  <1>1. CASE UNCHANGED journal
    BY <1>1 DEF Rows, blocked, GateRows, NoGate, KeyOf
  <1>2. ASSUME NEW rec \in Record, append(rec)
        PROVE  \/ /\ r \in Rows("BARRIER_BLOCKED") /\ blocked(r) /\ NoGate
                  /\ journal'[r] = journal[r] /\ KeyOf(r)' = KeyOf(r)
               \/ /\ rec.kind = "BARRIER_BLOCKED"
                  /\ r = Len(journal) + 1 /\ journal'[r] = rec
    <2>1. PICK n : n = Len(journal) + 1
      OBVIOUS
    <2>2. /\ n \in Nat /\ DOMAIN journal' = DOMAIN journal \cup {n}
          /\ journal'[n] = rec /\ \A i \in DOMAIN journal : journal'[i] = journal[i] /\ i < n
      BY <1>2, <2>1, AppendKeeps DEF append, JournalTypeOK
    <2>3. CASE r = n
      BY <2>1, <2>2, <2>3 DEF Rows
    <2>4. CASE r # n
      <3>1. r \in DOMAIN journal /\ r < n /\ journal'[r] = journal[r]
        BY <2>2, <2>4 DEF Rows
      <3>2. r \in Nat
        BY <3>1 DEF JournalTypeOK
      <3>3. n \notin GateRows'
        BY <2>2, <3>1, <3>2 DEF blocked
      <3>4. rec.kind \notin {"BARRIER_BLOCKED", "BARRIER_RELEASED", "ESCALATED"}
        BY <2>2, <3>3 DEF GateRows, Rows
      <3>5. NoGate
        BY <1>2, <3>4 DEF NoGate
      <3>6. r \in Rows("BARRIER_BLOCKED") /\ blocked(r)
        BY <2>2, <3>1 DEF Rows, blocked, GateRows
      <3> QED BY <3>1, <3>5, <3>6 DEF KeyOf
    <2> QED BY <2>1, <2>3, <2>4
  <1> QED BY <1>1, <1>2 DEF Grows

\* Only a block says so.
LEMMA OnlyBlock ==
    ASSUME TypeOK, LocalOK, NEW o \in Orchestrators, Run(o) \/ Crash(o), ~ Block(o),
           NEW rec \in Record, append(rec)
    PROVE  rec.kind # "BARRIER_BLOCKED"
  <1>0. JournalTypeOK /\ orch[o] \in Local /\ journal'[Len(journal) + 1] = rec
    BY AppendKeeps DEF TypeOK, append, JournalTypeOK
  <1>00. journal' # journal
    BY <1>0, AppendKeeps DEF append, JournalTypeOK
  <1>1. ASSUME NEW row \in Record, append(row) PROVE rec = row
    BY <1>0, <1>1, AppendKeeps DEF append, JournalTypeOK
  <1>2. ASSUME NEW row, append(row), row \in Record, row.kind # "BARRIER_BLOCKED"
        PROVE  rec.kind # "BARRIER_BLOCKED"
    BY <1>1, <1>2
  <1>3. CASE Lead(o) \/ Replay(o) \/ Complete(o) \/ Pass(o)
    BY <1>00, <1>3 DEF Lead, Start, NotLeader, SelectActive, SelectFresh, SelectNaive,
                  Replay, Complete, Pass, ReadOnly, WritesTree, journalVars
  <1>4. CASE Execute(o) \/ Undo(o) \/ Probe(o) \/ Drained(o) \/ BeginPass(o) \/ GiveUp(o)
             \/ Graduate(o) \/ Crash(o)
    BY <1>00, <1>4 DEF Execute, Undo, Probe, Drained, BeginPass, GiveUp, Graduate, Crash,
                  CallsWorld, ReadOnly, WritesTree, journalVars
  <1>5. CASE Intent(o) \/ Ambiguous(o) \/ Suppress(o) \/ Release(o) \/ RecordResult(o)
    <2>1. /\ \A kind \in {"INTENT", "LATE_DELIVERY_SUPPRESSED", "BARRIER_RELEASED", "RESULT"},
                st \in {NoStatus, "ok", "unknown", orch[o].res} :
                StepRow(o, kind, st) \in Record /\ StepRow(o, kind, st).kind = kind
      BY <1>0, StepRowType DEF RecordKind, ResultStatus, StepRow, Local
    <2> QED BY <1>2, <1>5, <2>1 DEF Intent, Ambiguous, Suppress, Release, RecordResult
  <1>6. CASE CompIntent(o) \/ CompResult(o)
    <2>1. PICK r \in DOMAIN journal, kind \in {"COMP_INTENT", "COMP_RESULT"},
               st \in {NoStatus, orch[o].res} : append(CompRow(o, kind, r, st))
      BY <1>6 DEF CompIntent, CompResult
    <2>2. CompRow(o, kind, r, st) \in Record /\ CompRow(o, kind, r, st).kind = kind
      BY <1>0, CompRowType DEF RecordKind, Local
    <2> QED BY <1>2, <2>1, <2>2
  <1>7. CASE Graduated(o) \/ RecordAbandoned(o) \/ RecordFork(o)
    <2>1. PICK kind \in {"BRANCH_COMPENSATED", "BRANCH_ABANDONED", "BRANCH_FORKED"} :
               \E b, sev : append(TreeRow(kind, b, sev, {}))
      BY <1>7 DEF Graduated, RecordAbandoned, RecordFork
    <2>2. rec.kind = kind
      BY <1>0, <2>1, AppendKeeps DEF append, JournalTypeOK, TreeRow
    <2> QED BY <2>2
  <1>8. CASE Escalate(o)
    BY <1>2, <1>8, OwedRowsType DEF Escalate, EscalationRow, TreeRow
  <1>9. CASE ReplayFailed(o) \/ Abandon(o) \/ AbandonWithResidue(o) \/ Fork(o) \/ ForkNaive(o) \/ Ack(o)
    BY <1>00, <1>9 DEF ReplayFailed, Abandon, AbandonWithResidue, Fork, ForkNaive, Ack,
                  ReadOnly, WritesTree, journalVars
  <1>10. CASE Reconcile(o) \/ Recheck(o) \/ Reprobe(o) \/ Reconciled(o)
    BY <1>00, <1>10 DEF Reconcile, Recheck, Reprobe, Reconciled, CallsWorld, ReadOnly, journalVars
  <1>11. CASE Rematch(o) \/ Resettle(o)
    <2>1. PICK r \in DOMAIN journal, kind \in {"LATE_DELIVERY_SUPPRESSED", "RESULT"} :
               append(SlotRow(kind, r, "ok"))
      BY <1>11 DEF Rematch, Resettle
    <2>2. SlotRow(kind, r, "ok") \in Record /\ SlotRow(kind, r, "ok").kind = kind
      BY SlotRowType, SlotRowFields DEF RecordKind, ResultStatus
    <2> QED BY <1>2, <2>1, <2>2
  <1> QED BY <1>3, <1>4, <1>5, <1>6, <1>7, <1>8, <1>9, <1>10, <1>11
          DEF Run, Walk, Settle, Drain, Finish, Revisit

\* While it is closed, the leader who was stopped drains, and whoever follows him comes
\* back to the same page and finds the gate closed again.
LEMMA StoppedMoves ==
    ASSUME DrainsWhole, Steady, Barrier, NEW k, Stopped(k), NoGate,
           NEW o \in Orchestrators, Run(o) \/ Crash(o)
    PROVE  \/ Start(o) \/ NotLeader(o) \/ SelectActive(o) \/ Replay(o)
           \/ BeginPass(o) \/ Drained(o) \/ GiveUp(o) \/ CompIntent(o) \/ Undo(o) \/ CompResult(o)
           \/ Graduate(o) \/ Graduated(o) \/ Crash(o)
  <1>0. /\ TypeOK /\ LocalOK /\ JournalTypeOK /\ orch[o] \in Local /\ Replays
        /\ orch[o].pc \in GatePC
    BY DEF Steady, TypeOK, Stopped, Barrier, Replays
  <1>1. k = <<k[1], k[2]>> /\ k[1] \in Nat /\ k[2] \in Steps
    BY KeyIs DEF Stopped
  <1>2. ASSUME NEW rec \in Record, append(rec),
               rec.kind \in {"BARRIER_BLOCKED", "BARRIER_RELEASED", "ESCALATED"}
        PROVE  FALSE
    <2>1. journal' # journal /\ journal'[Len(journal) + 1] = rec
      BY <1>0, <1>2, AppendKeeps DEF append, JournalTypeOK
    <2>2. ASSUME NEW row \in Record, append(row) PROVE row = rec
      BY <1>0, <2>1, <2>2, AppendKeeps DEF append, JournalTypeOK
    <2> QED BY <1>2, <2>1, <2>2 DEF NoGate
  <1>3. ~ Block(o) /\ ~ Escalate(o) /\ ~ Release(o)
    <2>1. BlockRow(o) \in Record /\ BlockRow(o).kind = "BARRIER_BLOCKED"
      BY <1>0, OwedRowsType
    <2>2. EscalationRow(o) \in Record /\ EscalationRow(o).kind = "ESCALATED"
      BY <1>0, OwedRowsType DEF EscalationRow, TreeRow
    <2>3. /\ StepRow(o, "BARRIER_RELEASED", NoStatus) \in Record
          /\ StepRow(o, "BARRIER_RELEASED", NoStatus).kind = "BARRIER_RELEASED"
      BY <1>0, StepRowType DEF RecordKind, StepRow
    <2> QED BY <1>2, <2>1, <2>2, <2>3 DEF Block, Escalate, Release
  <1>4. ASSUME orch[o].pc = "step"
        PROVE  ~ Complete(o) /\ ~ Pass(o)
    <2>1. /\ orch[o].br = k[1] /\ orch[o].seq \in Nat
          /\ orch[o].done \subseteq completed_results(orch[o].br)
          /\ \A s \in Steps : s < orch[o].seq => s \in completed_results(orch[o].br)
          /\ \A s \in completed_results(orch[o].br) : s \in orch[o].done \/ s < orch[o].seq
      <3>1. /\ orch[o].br \in DOMAIN branches /\ IsActive(orch[o].br)
        BY <1>0, <1>4 DEF Steady, Path, PathOK, OnPath, LocalOK, Sound, Branchless
      <3> QED BY <1>0, <1>4, <3>1 DEF Steady, Path, PathOK, OnPath, Tree, Ground, Placed, Stopped, Local
    <2>2. k[2] \notin completed_results(k[1])
      BY <1>1, CompletedIs DEF Stopped
    <2>3. ~ k[2] < orch[o].seq
      BY <1>1, <2>1, <2>2
    <2>4. ~ Complete(o)
      BY <1>1, <2>1, <2>3, TraceAssumption DEF Complete, Steps
    <2>5. ASSUME Pass(o) PROVE FALSE
      <3>1. orch[o].seq \in Steps /\ orch[o].seq \notin orch[o].done
        BY <2>5 DEF Pass, ToExecute
      <3>2. ~ orch[o].seq < k[2]
        <4>1. ASSUME orch[o].seq < k[2] PROVE FALSE
          <5>1. orch[o].seq \in completed_results(k[1])
            BY <3>1, <4>1, CompletedIs DEF Stopped, Behind
          <5> QED BY <2>1, <3>1, <5>1
        <4> QED BY <4>1
      <3>3. orch[o].seq = k[2]
        BY <1>1, <2>1, <2>3, <3>2 DEF Steps
      <3>4. Gated(o)
        BY <3>3 DEF Gated, ToolAt, ToolOf, Stopped
      <3>5. Owed = {}
        BY <2>5, <3>4, NoneOwed DEF Pass
      <3>6. PICK p \in Orchestrators : orch[p].pc \in Graduating \cup {"drain"}
        BY <3>5 DEF Stopped
      <3>7. p # o /\ Busy(o)
        BY <1>4, <3>6 DEF Graduating, Busy
      <3>8. orch[p].pc = "idle"
        BY <1>0, <3>7, Alone DEF Steady
      <3> QED BY <3>6, <3>8 DEF Graduating
    <2> QED BY <2>4, <2>5
  <1>5. ~ SelectFresh(o) /\ ~ SelectNaive(o) /\ ~ Reconcile(o)
    BY <1>0 DEF SelectFresh, SelectNaive, NoActiveBranch, Reconcile, Stopped
  <1>6. ~ Crash(o) => Run(o)
    OBVIOUS
  <1>7. CASE orch[o].pc \in {"idle", "select", "step", "escalate"}
    BY <1>3, <1>4, <1>5, <1>6, <1>7, StartsAt DEF Run, Lead, Walk, Settle, Drain, Finish, Revisit
  <1>8. CASE orch[o].pc \in {"drain", "comp", "undo", "undone", "graduate", "graduated"}
    BY <1>3, <1>6, <1>8, StartsAt DEF Run, Lead, Walk, Settle, Drain, Finish, Revisit
  <1> QED BY <1>0, <1>7, <1>8 DEF GatePC, Undoing, Graduating

LEMMA StoppedNext ==
    ASSUME DrainsWhole, Steady, Barrier, Paid, NEW k, Stopped(k), NoGate, [Next]_vars
    PROVE  Stopped(k)'
  <1>0. TypeOK /\ LocalOK /\ JournalTypeOK /\ Grows /\ Replays /\ Path /\ Tree
    BY TypesNext DEF Steady, TypeOK, Barrier, Replays
  <1>1. ASSUME NEW a \in Orchestrators, Abandon(a) PROVE FALSE
    <2>1. orch[a].pc = "diverge"
      BY <1>1, StartsAt
    <2> QED BY <2>1 DEF Stopped, GatePC, Undoing, Graduating
  <1>2. k[1] \in DOMAIN branches' /\ IsActive(k[1])'
    BY <1>0, <1>1, AliveStays DEF Stopped
  <1>3. ASSUME Lapse \/ Redeliver \/ Land \/ UNCHANGED vars
        PROVE  NoResult /\ ~ acked' /\ UNCHANGED orch
    BY <1>3 DEF Lapse, Redeliver, Land, vars, EngineVars, journalVars, NoResult, Stopped
  <1>4. ASSUME NEW o \in Orchestrators, Run(o) \/ Crash(o)
        PROVE  NoResult /\ ~ acked' /\ orch'[o].pc \in GatePC
    <2>1. \/ Start(o) \/ NotLeader(o) \/ SelectActive(o) \/ Replay(o)
          \/ BeginPass(o) \/ Drained(o) \/ GiveUp(o) \/ CompIntent(o) \/ Undo(o) \/ CompResult(o)
          \/ Graduate(o) \/ Graduated(o) \/ Crash(o)
      BY <1>4, StoppedMoves
    <2>2. NoResult
      <3>1. CASE Start(o) \/ NotLeader(o) \/ SelectActive(o) \/ Crash(o)
        BY <1>0, <3>1, LeadMute DEF Mute
      <3>2. CASE Replay(o)
        BY <1>0, <3>2, WalkMute DEF Mute
      <3>3. CASE Graduate(o)
        BY <3>3 DEF Graduate, WritesTree, NoResult
      <3>4. CASE \/ BeginPass(o) \/ Drained(o) \/ GiveUp(o) \/ CompIntent(o) \/ Undo(o)
                 \/ CompResult(o) \/ (Graduated(o) /\ ~ Graduate(o))
        <4>1. Drain(o) /\ ~ Graduate(o)
          BY <3>4, StartsAt DEF Drain
        <4> QED BY <1>0, <4>1, DrainMute DEF Mute
      <3> QED BY <2>1, <3>1, <3>2, <3>3, <3>4
    <2>3. ~ acked'
      <3>1. ~ Ack(o)
        <4>1. orch[o].pc # "returned"
          BY DEF Stopped, GatePC, Undoing, Graduating
        <4> QED BY <4>1, StartsAt
      <3>2. Start(o) \/ Crash(o) => UNCHANGED acked
        BY DEF Start, Crash
      <3> QED BY <1>0, <1>4, <3>1, <3>2, BusyBefore DEF Stopped
    <2>4. orch'[o].pc \in {"select", "idle", "step", "comp", "graduate", "escalate", "undo", "undone",
                           "drain", "graduated"}
      <3>1. CASE Start(o) \/ NotLeader(o) \/ SelectActive(o) \/ Replay(o) \/ Crash(o)
        BY <1>0, <3>1, StepsTo, OtherMoves
      <3>2. CASE \/ BeginPass(o) \/ Drained(o) \/ GiveUp(o) \/ CompIntent(o) \/ Undo(o) \/ CompResult(o)
                 \/ Graduate(o) \/ Graduated(o)
        BY <1>0, <3>2, StepsTo
      <3> QED BY <2>1, <3>1, <3>2
    <2> QED BY <2>2, <2>3, <2>4 DEF GatePC, Undoing, Graduating
  <1>5. NoResult /\ ~ acked' /\ \A o \in Orchestrators : orch'[o].pc \in GatePC
    <2>1. CASE (Lapse \/ Redeliver \/ Land \/ UNCHANGED vars) /\ UNCHANGED orch
      BY <1>3, <2>1 DEF Stopped
    <2>2. ASSUME NEW o \in Orchestrators, Run(o) \/ Crash(o),
                 \A p \in Orchestrators \ {o} : orch'[p] = orch[p]
          PROVE  NoResult /\ ~ acked' /\ \A p \in Orchestrators : orch'[p].pc \in GatePC
      BY <1>4, <2>2 DEF Stopped
    <2> QED BY <1>0, <2>1, <2>2, OneMover
  <1>6. k \notin Last("ok")' /\ Behind(k)'
    BY <1>0, <1>5, NothingTold DEF Stopped, Behind
  <1>7. ASSUME Owed' = {}
        PROVE  \E o \in Orchestrators : orch'[o].pc \in Graduating \cup {"drain"}
    <2>1. CASE Owed # {}
      BY <1>7, <2>1, LastPaid
    <2>2. CASE Owed = {}
      <3>1. PICK o \in Orchestrators : orch[o].pc \in Graduating \cup {"drain"}
        BY <2>2 DEF Stopped
      <3>2. CASE orch'[o] = orch[o]
        BY <3>1, <3>2
      <3>3. CASE Run(o) \/ Crash(o)
        <4>1. ~ Crash(o) /\ ~ BeginPass(o) /\ ~ GiveUp(o)
          BY <2>2, <3>1, NoneOwed DEF Crash, DrainsWhole, BeginPass, GiveUp, At, Graduating
        <4>2. Drained(o) \/ Graduate(o) \/ Graduated(o)
          BY <3>1, <3>3, <4>1, StoppedMoves, StartsAt DEF Graduating
        <4> QED BY <1>0, <4>2, StepsTo DEF Graduating
      <3>4. Busy(o)
        BY <3>1 DEF Busy, Graduating
      <3> QED BY <3>2, <3>3, <3>4, StepFor
    <2> QED BY <2>1, <2>2
  <1> QED BY <1>2, <1>5, <1>6, <1>7 DEF Stopped

\* Only so much can be owed as was journaled.
LEMMA OwedFinite ==
    ASSUME JournalTypeOK
    PROVE  IsFiniteSet(Owed)
  <1>1. Len(journal) \in Int /\ DOMAIN journal = 1 .. Len(journal) /\ 1 \in Int
    BY DEF JournalTypeOK
  <1>2. IsFiniteSet(DOMAIN journal)
    BY <1>1, FS_Interval
  <1>3. uncompensated \in SUBSET (DOMAIN journal)
    BY DEF uncompensated, DeadResults, Rows
  <1>4. IsFiniteSet(uncompensated)
    BY <1>2, <1>3, FS_Subset
  <1> DEFINE f == [r \in uncompensated |-> KeyOf(r)]
  <1>5. f \in Surjection(uncompensated, Owed)
    BY DEF Owed, Surjection
  <1> QED BY <1>4, <1>5, FS_Surjection

\* What is paid is counted once, and leaves what is owed.
LEMMA CountingNext ==
    ASSUME Steady, Barrier, Paid, [Next]_vars, NEW r \in DOMAIN journal, Counting(r),
           \A o \in Orchestrators : ~ Abandon(o)
    PROVE  Counting(r)'
  <1>0. /\ TypeOK /\ LocalOK /\ JournalTypeOK /\ Grows /\ Replays /\ JournalTypeOK'
    BY TypesNext DEF Steady, TypeOK, Barrier, Replays
  <1>1. /\ DOMAIN journal \subseteq Nat /\ journal'[r] = journal[r]
        /\ \A q \in DOMAIN journal : q \in DOMAIN journal' /\ journal'[q] = journal[q]
    BY <1>0, GrowthKeeps DEF JournalTypeOK
  <1>2. Owed' \subseteq Owed
    BY <1>0, OwedShrinks
  <1>3. \A k \in Owed : k \notin compensations
    BY <1>0, OwedIs
  <1>4. \A k \in Owed' : k \notin compensations'
    BY DEF Owed, uncompensated
  <1>5. \A k \in Owed : k \in Owed' \/ k \in compensations'
    BY OwedStays
  <1>6. CASE Undone' = Undone /\ compensations' = compensations
    <2>1. Owed' = Owed
      BY <1>2, <1>3, <1>5, <1>6
    <2>2. undone_since(r)' = undone_since(r)
      BY <1>6 DEF undone_since
    <2> QED BY <1>1, <2>1, <2>2 DEF Counting
  <1>7. ASSUME NEW o \in Orchestrators, NEW n \in Nat, NEW k, Reporting(orch[o], k),
               Undone' = Undone \cup {n}, compensations' = compensations \cup {k},
               \A q \in Undone : q < n
        PROVE  Counting(r)'
    <2>1. k \in Owed
      BY <1>7, ListOwed DEF Reporting
    <2>2. Owed' = Owed \ {k}
      BY <1>2, <1>3, <1>4, <1>5, <1>7
    <2>3. n \notin Undone
      BY <1>7
    <2>4. n \in DOMAIN journal' /\ journal'[n].kind = "COMP_RESULT" /\ journal'[n].status = "ok"
      BY <1>7 DEF Undone, Rows
    <2>5. n \notin DOMAIN journal
      BY <1>1, <2>3, <2>4 DEF Undone, Rows
    <2>6. r < n
      <3>1. /\ journal \in Seq(Record) /\ journal' \in Seq(Record)
        BY <1>0 DEF JournalTypeOK
      <3> QED BY <2>4, <2>5, <3>1
    <2>7. undone_since(r)' = undone_since(r) \cup {n}
      BY <1>7, <2>6 DEF undone_since
    <2>8. n \notin undone_since(r)
      BY <2>3 DEF undone_since
    <2> DEFINE U == undone_since(r)
    <2>9. IsFiniteSet(U) /\ IsFiniteSet(Owed)
      BY DEF Counting
    <2>10. Cardinality(U) \in Nat /\ Cardinality(Owed) \in Nat
      BY <2>9, FS_CardinalityType
    <2>11. IsFiniteSet(U \cup {n}) /\ Cardinality(U \cup {n}) = Cardinality(U) + 1
      BY <2>8, <2>9, FS_AddElement
    <2>12. IsFiniteSet(Owed \ {k}) /\ Cardinality(Owed \ {k}) = Cardinality(Owed) - 1
      BY <2>1, <2>9, FS_RemoveElement
    <2>13. Cardinality(U) + Cardinality(Owed) = Cardinality(journal[r].keys)
      BY DEF Counting
    <2>14. Cardinality(U \cup {n}) + Cardinality(Owed \ {k}) = Cardinality(journal[r].keys)
      BY <2>10, <2>11, <2>12, <2>13
    <2> QED BY <1>1, <2>2, <2>7, <2>11, <2>12, <2>14 DEF Counting
  <1> QED BY <1>6, <1>7, UndoneMoves

LEMMA StoppedOf ==
    ASSUME NEW r, NEW k, k = KeyOf(r)', Stopped(k)'
    PROVE  Stopped(KeyOf(r))'
  BY DEF Stopped, Behind

\* The gate closes on a page that may not go out yet, and says what is owed.
LEMMA BlockStops ==
    ASSUME Steady, Barrier, Paid, [Next]_vars, NEW o \in Orchestrators, Block(o),
           NEW k, k = effect_key(orch[o].br, orch[o].seq)
    PROVE  Stopped(k)'
  <1>0. /\ TypeOK /\ LocalOK /\ JournalTypeOK /\ Sole /\ Path /\ Tree /\ Calm
        /\ orch[o] \in Local /\ orch[o].pc = "step"
    BY StartsAt DEF Steady, TypeOK
  <1>1. /\ orch[o].seq \in Steps /\ orch[o].seq \notin orch[o].done
        /\ ToolAt(o) \in Irreversible /\ append(BlockRow(o)) /\ orch'[o].pc = "drain"
        /\ \A p \in Orchestrators \ {o} : orch'[p] = orch[p]
        /\ UNCHANGED << branches, acked >>
    <2>1. orch'[o].pc = "drain"
      BY <1>0, StepsTo
    <2>2. ToExecute(o) /\ Gated(o) /\ append(BlockRow(o)) /\ UNCHANGED << branches, acked >>
      BY DEF Block, WritesRecord, EngineVars
    <2>3. \A p \in Orchestrators \ {o} : orch'[p] = orch[p]
      BY <1>0 DEF Block, TypeOK
    <2> QED BY <2>1, <2>2, <2>3 DEF ToExecute, Gated
  <1>2. ~ acked /\ \A p \in Orchestrators \ {o} : orch[p].pc = "idle"
    <2>1. Busy(o)
      BY <1>0 DEF Busy
    <2> QED BY <1>0, <2>1, Alone DEF Sole
  <1>3. orch[o].br \in DOMAIN branches /\ IsActive(orch[o].br)
    BY <1>0 DEF Path, PathOK, OnPath, LocalOK, Sound, Branchless
  <1>4. k \in Key /\ k[1] = orch[o].br /\ k[2] = orch[o].seq /\ k = <<orch[o].br, orch[o].seq>>
    BY <1>0, <1>1 DEF effect_key, Key, Local
  <1>5. k \notin Last("ok")
    <2>1. \A s \in completed_results(orch[o].br) : s \in orch[o].done \/ s < orch[o].seq
      BY <1>0 DEF Tree, Placed, OnPath
    <2>2. orch[o].seq \notin completed_results(orch[o].br)
      BY <1>0, <1>1, <2>1 DEF Local
    <2> QED BY <1>1, <1>4, <2>2, CompletedIs
  <1>6. Behind(k)
    <2>1. \A s \in Steps : s < orch[o].seq => s \in completed_results(orch[o].br)
      BY <1>0 DEF Path, PathOK, OnPath
    <2> QED BY <1>4, <2>1, CompletedIs DEF Behind
  <1>7. NoResult
    BY <1>0, WalkMute DEF Mute
  <1>8. k \notin Last("ok")' /\ Behind(k)'
    BY <1>0, <1>5, <1>6, <1>7, NothingTold DEF Behind
  <1>9. \A p \in Orchestrators : orch'[p].pc \in {"drain", "idle"}
    BY <1>1, <1>2
  <1>10. ToolOf(k) \in Irreversible
    BY <1>1, <1>4 DEF ToolAt, ToolOf
  <1> QED BY <1>1, <1>2, <1>3, <1>4, <1>8, <1>9, <1>10 DEF Stopped, GatePC, Graduating, IsActive

LEMMA BlockCounts ==
    ASSUME Steady, Barrier, Paid, [Next]_vars, NEW o \in Orchestrators, Block(o),
           NEW r, r = Len(journal) + 1
    PROVE  Counting(r)'
  <1>0. /\ TypeOK /\ LocalOK /\ JournalTypeOK /\ JournalTypeOK' /\ Sole /\ Calm /\ Replays
        /\ orch[o] \in Local /\ orch[o].pc = "step"
    BY StartsAt, TypesNext DEF Steady, TypeOK, Barrier, Replays
  <1>1. \A p \in Orchestrators : orch[p].pc \in {"step", "idle"}
    <2>1. Busy(o)
      BY <1>0 DEF Busy
    <2> QED BY <1>0, <2>1, Alone
  <1>2. \A p \in Orchestrators : ~ Abandon(p) /\ ~ CompResult(p)
    BY <1>1, StartsAt
  <1>3. Owed' = Owed
    BY <1>0, <1>2, OwedShrinks, OwedStays
  <1>4. BlockRow(o) \in Record /\ BlockRow(o).keys = Owed /\ append(BlockRow(o))
    BY <1>0, OwedRowsType DEF BlockRow, StepRow, Block
  <1>5. journal \in Seq(Record) /\ journal' = Append(journal, BlockRow(o))
    BY <1>0, <1>4 DEF append, JournalTypeOK
  <1>6. journal'[r].keys = Owed
    BY <1>4, <1>5
  <1>7. undone_since(r)' = {}
    <2>1. \A q \in DOMAIN journal' : ~ q > r
      BY <1>4, <1>5
    <2> QED BY <2>1 DEF undone_since, Undone, Rows
  <1>8. IsFiniteSet(Owed)
    BY <1>0, OwedFinite
  <1>9. Cardinality(Owed) \in Nat
    BY <1>8, FS_CardinalityType
  <1>10. IsFiniteSet({}) /\ Cardinality({}) = 0
    BY FS_EmptySet
  <1>11. Cardinality({}) + Cardinality(Owed) = Cardinality(Owed)
    BY <1>9, <1>10
  <1> QED BY <1>3, <1>6, <1>7, <1>8, <1>10, <1>11 DEF Counting

LEMMA BarredNext ==
    ASSUME DrainsWhole, Steady, Barrier, Paid, Barred, [Next]_vars
    PROVE  Barred'
  <1>0. TypeOK /\ LocalOK /\ JournalTypeOK /\ Grows
    BY TypesNext DEF Steady, TypeOK
  <1> SUFFICES ASSUME NEW r \in Rows("BARRIER_BLOCKED")', blocked(r)'
               PROVE  Stopped(KeyOf(r))' /\ Counting(r)'
    BY DEF Barred
  <1>1. CASE /\ r \in Rows("BARRIER_BLOCKED") /\ blocked(r) /\ NoGate
             /\ journal'[r] = journal[r] /\ KeyOf(r)' = KeyOf(r)
    <2>1. PICK k : k = KeyOf(r)
      OBVIOUS
    <2>2. Stopped(k) /\ Counting(r)
      BY <1>1, <2>1 DEF Barred
    <2>3. Stopped(k)'
      BY <1>1, <2>2, StoppedNext
    <2>4. \A o \in Orchestrators : ~ Abandon(o)
      <3>1. \A o \in Orchestrators : orch[o].pc # "diverge"
        BY <2>2 DEF Stopped, GatePC, Undoing, Graduating
      <3> QED BY <3>1, StartsAt
    <2>5. r \in DOMAIN journal
      BY <1>1 DEF Rows
    <2>6. Counting(r)'
      BY <2>2, <2>4, <2>5, CountingNext
    <2> QED BY <1>1, <2>1, <2>3, <2>6, StoppedOf
  <1>2. ASSUME NEW rec \in Record, append(rec), rec.kind = "BARRIER_BLOCKED",
               r = Len(journal) + 1, journal'[r] = rec
        PROVE  Stopped(KeyOf(r))' /\ Counting(r)'
    <2>1. journal' # journal
      BY <1>0, <1>2 DEF JournalTypeOK, append
    <2>2. PICK o \in Orchestrators : Run(o) \/ Crash(o)
      BY <2>1 DEF Next, Lapse, Redeliver, Land, vars, EngineVars, journalVars
    <2>3. Block(o)
      BY <1>0, <1>2, <2>2, OnlyBlock
    <2>4. PICK k : k = effect_key(orch[o].br, orch[o].seq)
      OBVIOUS
    <2>5. KeyOf(r)' = k
      <3>1. journal' = Append(journal, BlockRow(o)) /\ journal \in Seq(Record)
        BY <1>0, <2>3 DEF Block, append, JournalTypeOK
      <3>2. BlockRow(o) \in Record
        BY <1>0, OwedRowsType
      <3>3. journal'[r] = BlockRow(o)
        BY <1>2, <3>1, <3>2
      <3> QED BY <2>4, <3>3 DEF KeyOf, BlockRow, StepRow
    <2>6. Stopped(k)' /\ Counting(r)'
      BY <1>2, <2>3, <2>4, BlockStops, BlockCounts
    <2> QED BY <2>5, <2>6, StoppedOf
  <1> QED BY <1>0, <1>1, <1>2, BlockedBy

LEMMA BarredAlways ==
    ASSUME NoTakeover, Apart, SomebodyIsPaged, DrainsWhole
    PROVE  Spec => [](Barrier => Barred)
  <1>1. Init => (Barrier => Barred)
    BY InitNothing DEF Barred
  <1>2. ASSUME Steady, Barrier => Paid, Barrier => Barred, [Next]_vars
        PROVE  (Barrier => Barred)'
    <2>1. TypeOK /\ UNCHANGED settings
      BY <1>2, SettingsStay DEF Steady
    <2>2. Barrier' <=> Barrier
      BY <2>1 DEF Barrier, settings
    <2> QED BY <1>2, <2>2, BarredNext
  <1>3. Spec => []Steady
    BY SteadyAlways
  <1>4. Spec => [](Barrier => Paid)
    BY PaidAlways
  <1> QED BY <1>1, <1>2, <1>3, <1>4, PTL DEF Spec

\* The gate counts down to what is owed: what was undone since it closed is what is no
\* longer owed, however often its owner dies, and nothing else is owed meanwhile.
LEMMA GateIsTrue ==
    ASSUME JournalTypeOK, Barred
    PROVE  GateTrue
  <1> SUFFICES ASSUME NEW r \in Rows("BARRIER_BLOCKED"), blocked(r)
               PROVE  count(r) = Cardinality(Owed)
    BY DEF GateTrue
  <1>1. Counting(r)
    BY DEF Barred
  <1>2. Cardinality(undone_since(r)) \in Nat /\ Cardinality(Owed) \in Nat
    BY <1>1, FS_CardinalityType DEF Counting
  <1> DEFINE d == Cardinality(undone_since(r))
             w == Cardinality(journal[r].keys)
  <1>3. d \in Nat /\ Cardinality(Owed) \in Nat /\ d + Cardinality(Owed) = w
    BY <1>1, <1>2 DEF Counting
  <1>4. count(r) = IF d < w THEN w - d ELSE 0
    BY DEF count
  <1> HIDE DEF d, w
  <1>5. (IF d < w THEN w - d ELSE 0) = Cardinality(Owed)
    BY <1>3
  <1> QED BY <1>4, <1>5

\* While the gate is closed it counts down to the effects that are still owed, where no
\* process is killed between its last undo and opening the gate: its successor finds
\* nothing to drain and leaves the row that closed it standing (view.barrier_state).
THEOREM GateTrueHolds ==
    ASSUME NoTakeover, Apart, SomebodyIsPaged, DrainsWhole
    PROVE  Spec => [](Barrier => GateTrue)
  <1>1. Steady /\ (Barrier => Barred) => (Barrier => GateTrue)
    BY GateIsTrue DEF Steady, TypeOK
  <1> QED BY <1>1, SteadyAlways, BarredAlways, PTL

------------------------------------------------------------------------------
(* The tree at rest                                                        *)

\* A step that can be repeated is not delivered late, and its service is there.
StepsAnswer ==
    \A s \in Scenarios :
        (s.faults.late_delivery_tools \cup s.faults.unreachable)
            \cap (Idempotent \cup Compensatable) = {}

\* A step that can be repeated and failed has no effect, and a process drains for a page.
Denied(l) ==
    (l.pc = "called" /\ l.res = "failed" /\ Trace[l.seq] \in Idempotent \cup Compensatable)
        => effect_key(l.br, l.seq) \notin applied
Draining(l) ==
    l.pc \in Undoing \cup {"drain"} => /\ Trace[l.seq] \in Irreversible
                                       /\ l.pc \in Undoing => l.todo # {}

\* What is or may yet be in force on the live branch has a result that says so.
Heard == \A k \in applied \cup LateKeys :
            (Effectful(k) /\ IsActive(k[1])) => k \in Last("ok") \cup Last("unknown")
Stops == {"escalate", "diverge", "returned"}
Rested ==
    /\ \A o \in Orchestrators : Denied(orch[o]) /\ Draining(orch[o])
    /\ (acked \/ \E o \in Orchestrators : orch[o].pc \in Stops) => Heard

LEMMA StepsInTime == ASSUME StepsAnswer PROVE UndoableInTime
  BY DEF StepsAnswer, UndoableInTime

\* A call comes into force, or may, when it is made or made again.
LEMMA ForceBy ==
    ASSUME Steady, [Next]_vars, NEW k \in (applied \cup LateKeys)'
    PROVE  \/ k \in applied \cup LateKeys
           \/ \E o \in Orchestrators : Execute(o)
           \/ \E o \in Orchestrators : Recheck(o) /\ k \in Last("unknown")
  <1>0. TypeOK /\ LocalOK /\ Path /\ Tree /\ WorldTypeOK
    BY DEF Steady, TypeOK
  <1>1. CASE k \in applied'
    BY <1>1, AppliedBy
  <1>2. CASE k \in LateKeys'
    <2>1. CASE Land
      <3>1. PICK req \in BagToSet(late) : land(req)
        BY <2>1 DEF Land
      <3>2. req \in Request
        BY <1>0, <3>1 DEF WorldTypeOK
      <3>3. BagToSet(late') \subseteq BagToSet(late)
        BY <1>0, <3>1, <3>2, LandStep
      <3> QED BY <1>2, <3>3 DEF LateKeys
    <2>2. ASSUME NEW o \in Orchestrators, Undo(o) PROVE k \in LateKeys
      <3>1. UNCHANGED late
        BY <1>0, <2>2, UndoDoes
      <3> QED BY <1>2, <3>1 DEF LateKeys
    <2>3. ASSUME NEW o \in Orchestrators, Recheck(o), k \notin LateKeys
          PROVE  k \in Last("unknown")
      <3>1. PICK r \in orch[o].redo : \A q \in LateKeys' : q \in LateKeys \/ q = KeyOf(r)
        BY <1>0, <2>3, RecheckDoes
      <3>2. k = KeyOf(r)
        BY <1>2, <2>3, <3>1
      <3>3. r \in UnknownResults
        BY <1>0, <2>3, StartsAt DEF Tree, Reviewed, Resting
      <3> QED BY <3>2, <3>3 DEF UnknownResults, Last
    <2>4. CASE UNCHANGED worldVars
      BY <1>2, <2>4 DEF LateKeys, worldVars
    <2>5. \/ UNCHANGED worldVars \/ Land
          \/ \E o \in Orchestrators : Execute(o) \/ Undo(o) \/ Recheck(o)
      BY CallsOnly DEF Next, Lapse, Redeliver, EngineVars, vars
    <2> QED BY <2>1, <2>2, <2>3, <2>4, <2>5
  <1> QED BY <1>1, <1>2

\* A step that can be repeated and is answered with a failure has no effect.
LEMMA StepSays ==
    ASSUME StepsAnswer, Steady, OneEpoch, NEW o \in Orchestrators, Execute(o)
    PROVE  /\ orch'[o].pc = "called" /\ orch'[o].br = orch[o].br /\ orch'[o].seq = orch[o].seq
           /\ (ToolAt(o) \in Idempotent \cup Compensatable /\ orch'[o].res = "failed") =>
                 effect_key(orch[o].br, orch[o].seq) \notin applied'
  <1>0. /\ orch[o] \in Local /\ orch \in [Orchestrators -> Local]
        /\ TypeOK /\ LocalOK /\ Calm /\ WorldTypeOK
    BY DEF TypeOK, Steady
  <1>1. PICK res \in ResultStatus :
           /\ execute(Call(o), orch[o].epoch, res)
           /\ orch' = [orch EXCEPT ![o] = [@ EXCEPT !.pc = "called", !.res = res]]
    BY Zenon DEF Execute
  <1>2. orch'[o] = [orch[o] EXCEPT !.pc = "called", !.res = res]
    BY <1>0, <1>1
  <1>3. /\ orch'[o].pc = "called" /\ orch'[o].br = orch[o].br /\ orch'[o].seq = orch[o].seq
        /\ orch'[o].res = res
    BY <1>0, <1>2 DEF Local
  <1>4. orch[o].pc = "call"
    BY DEF Execute, At
  <1>5. /\ orch[o].seq \in Steps /\ orch[o].br \in Nat /\ orch[o].epoch = lease.epoch
        /\ lease.epoch \in Nat
    BY <1>0, <1>4 DEF LocalOK, Sound, Working, Local, OneEpoch, Leading, TypeOK
  <1>6. ASSUME ToolAt(o) \in Idempotent \cup Compensatable, res = "failed"
        PROVE  effect_key(orch[o].br, orch[o].seq) \notin applied'
    <2>1. PICK t : t = ToolAt(o)
      OBVIOUS
    <2>2. /\ t = ToolOf(Call(o).key) /\ t \in Tools
          /\ Call(o).key = effect_key(orch[o].br, orch[o].seq)
      <3>1. Call(o).key = effect_key(orch[o].br, orch[o].seq) /\ Call(o).key[2] = orch[o].seq
        BY DEF Call, effect_key
      <3>2. Trace[orch[o].seq] \in Tools
        BY <1>5, TraceAssumption DEF Steps
      <3> QED BY <2>1, <3>1, <3>2 DEF ToolAt, ToolOf
    <2>3. ~ Refused(t, orch[o].epoch)
      <3>1. FenceOf[t] \in Fences
        BY <2>2 DEF Fences
      <3>2. epochSeen[FenceOf[t]] <= lease.epoch /\ epochSeen[FenceOf[t]] \in Nat
        BY <1>0, <3>1 DEF OneEpoch, WorldTypeOK
      <3> QED BY <1>5, <3>2 DEF Refused
    <2>4. t \notin faults.unreachable
      BY <1>0, <1>6, <2>1 DEF Calm, StepsAnswer
    <2>5. PICK req : req = Call(o)
      OBVIOUS
    <2>6. /\ execute(req, orch[o].epoch, res) /\ ToolOf(req.key) = t
      BY <1>1, <2>2, <2>5
    <2>7. req.key \notin applied /\ applied' = applied
      <3> HIDE DEF NoResponder, Refused
      <3> QED BY <1>6, <2>3, <2>4, <2>6
         DEF execute, TurnedAway, let_in, take_effect, Unreachable, Reply
    <2> QED BY <2>2, <2>5, <2>7
  <1> QED BY <1>3, <1>6

LEMMA DeniedOf ==
    ASSUME NEW o \in Orchestrators, NEW m, m = orch'[o], Denied(m)', Draining(m)'
    PROVE  Denied(orch[o])' /\ Draining(orch[o])'
  BY DEF Denied, Draining

LEMMA DeniedNext ==
    ASSUME StepsAnswer, Steady, OneEpoch, Rested, [Next]_vars, NEW p \in Orchestrators,
           NEW m, m = orch'[p]
    PROVE  Denied(m)'
  <1>0. TypeOK /\ LocalOK /\ Sole /\ Calm /\ Denied(orch[p])
    BY DEF Steady, Rested
  <1> SUFFICES ASSUME m.pc = "called", m.res = "failed",
                      Trace[m.seq] \in Idempotent \cup Compensatable
               PROVE  effect_key(m.br, m.seq) \notin applied'
    BY DEF Denied
  <1>1. CASE Execute(p)
    BY <1>1, StepSays DEF ToolAt
  <1>2. CASE (Run(p) \/ Crash(p)) /\ ~ Execute(p)
    <2>1. /\ UNCHANGED worldVars
          /\ orch[p].pc = "called" /\ m.br = orch[p].br /\ m.seq = orch[p].seq
          /\ \/ m.res = orch[p].res
             \/ effect_key(orch[p].br, orch[p].seq) \notin applied
      BY <1>0, <1>2, AnswersBy
    <2> QED BY <1>0, <2>1 DEF Denied, worldVars
  <1>3. CASE orch'[p] = orch[p] /\ (UNCHANGED worldVars \/ Land)
    <2>1. PICK k : k = effect_key(m.br, m.seq)
      OBVIOUS
    <2>2. k \notin applied
      BY <1>0, <1>3, <2>1 DEF Denied
    <2>3. ToolOf(k) \in Idempotent \cup Compensatable
      BY <2>1 DEF ToolOf, effect_key
    <2>4. k \notin LateKeys
      BY <1>0, <2>3 DEF Calm, StepsAnswer
    <2>5. CASE UNCHANGED worldVars
      BY <2>1, <2>2, <2>5 DEF worldVars
    <2>6. CASE Land
      <3>1. PICK req \in BagToSet(late) : land(req)
        BY <2>6 DEF Land
      <3>2. req \in Request /\ WorldTypeOK
        BY <1>0, <3>1 DEF WorldTypeOK, TypeOK
      <3>3. Still \/ Effect(req.key)
        BY <3>1, <3>2, LandStep
      <3> QED BY <2>1, <2>2, <2>4, <3>1, <3>3 DEF Still, Effect, LateKeys
    <2> QED BY <1>3, <2>5, <2>6
  <1>4. CASE orch'[p] = orch[p] /\ ~ Busy(p)
    BY <1>4 DEF Busy
  <1> QED BY <1>1, <1>2, <1>3, <1>4, StepFor

LEMMA DrainingNext ==
    ASSUME Steady, Rested, [Next]_vars, NEW p \in Orchestrators, NEW m, m = orch'[p]
    PROVE  Draining(m)'
  <1>0. /\ TypeOK /\ orch[p] \in Local /\ orch \in [Orchestrators -> Local] /\ Draining(orch[p])
    BY DEF Steady, TypeOK, Rested
  <1> SUFFICES ASSUME m.pc \in Undoing \cup {"drain"}
               PROVE  Trace[m.seq] \in Irreversible /\ (m.pc \in Undoing => m.todo # {})
    BY DEF Draining
  <1>1. ASSUME Run(p) \/ Crash(p)
        PROVE  Trace[m.seq] \in Irreversible /\ (m.pc \in Undoing => m.todo # {})
    <2>1. Block(p) \/ BeginPass(p) \/ CompIntent(p) \/ Undo(p) \/ CompResult(p)
      <3>1. orch[p].pc \notin Undoing => orch[p].todo = {}
        BY DEF Steady, Listed, OnList
      <3>2. CASE m.pc = "drain"
        BY <1>0, <1>1, <3>2, DrainBy
      <3>3. CASE m.pc \in Undoing
        BY <1>0, <1>1, <3>1, <3>3, OffList
      <3> QED BY <3>2, <3>3
    <2>2. CASE Block(p)
      BY <1>0, <2>2 DEF Block, Gated, ToolAt, Local, Undoing
    <2>3. CASE BeginPass(p)
      <3>1. m.seq = orch[p].seq /\ m.todo = uncompensated /\ orch[p].pc = "drain"
        BY <1>0, <2>3 DEF BeginPass, At, Local
      <3> QED BY <1>0, <2>3, <3>1 DEF Draining, BeginPass
    <2>4. CASE CompIntent(p)
      <3>1. m.seq = orch[p].seq /\ m.todo = orch[p].todo /\ orch[p].pc = "comp"
        BY <1>0, <2>4 DEF CompIntent, Goto, At, Local
      <3> QED BY <1>0, <3>1 DEF Draining, Undoing
    <2>5. CASE Undo(p)
      <3>1. m.seq = orch[p].seq /\ m.todo = orch[p].todo /\ orch[p].pc = "undo"
        BY <1>0, <2>5 DEF Undo, At, Local
      <3> QED BY <1>0, <3>1 DEF Draining, Undoing
    <2>6. CASE CompResult(p)
      <3>1. PICK r \in DOMAIN journal :
               /\ NextUndo(p, r)
               /\ orch' = [orch EXCEPT ![p] =
                    [@ EXCEPT !.pc = IF orch[p].todo = {r} THEN "drain" ELSE "comp",
                              !.todo = orch[p].todo \ {r}, !.res = NoStatus]]
        BY <2>6 DEF CompResult
      <3>2. /\ m.todo = orch[p].todo \ {r} /\ m.seq = orch[p].seq
            /\ m.pc = IF orch[p].todo = {r} THEN "drain" ELSE "comp"
        BY <1>0, <3>1 DEF Local
      <3>3. r \in orch[p].todo /\ orch[p].pc = "undone"
        BY <2>6, <3>1, StartsAt DEF NextUndo
      <3> QED BY <1>0, <3>2, <3>3 DEF Undoing, Draining
    <2> QED BY <2>1, <2>2, <2>3, <2>4, <2>5, <2>6
  <1>2. CASE orch'[p] = orch[p]
    BY <1>0, <1>2 DEF Draining
  <1> QED BY <1>1, <1>2, StepFor

\* What has been heard of stays heard of, while nobody works on a step.
LEMMA HeardStays ==
    ASSUME Steady, Replays, Heard, [Next]_vars,
           \A o \in Orchestrators : ~ Execute(o) /\ ~ RecordResult(o) /\ ~ Ambiguous(o)
    PROVE  Heard'
  <1>0. TypeOK /\ LocalOK /\ JournalTypeOK /\ Grows /\ Ground
    BY TypesNext DEF Steady, TypeOK, Tree
  <1> SUFFICES ASSUME NEW k \in (applied \cup LateKeys)', Effectful(k), IsActive(k[1])'
               PROVE  k \in Last("ok")' \cup Last("unknown")'
    BY DEF Heard, Effectful, ToolOf
  <1>1. k \in applied \cup LateKeys \/ k \in Last("unknown")
    BY ForceBy
  <1>2. k \in Touched /\ k[1] \in DOMAIN branches
    BY <1>0, <1>1, LastTold DEF Touched, Ground
  <1>3. IsActive(k[1])
    BY <1>0, <1>2, GrowthKeeps
  <1>4. k \in Last("ok") \cup Last("unknown")
    BY <1>1, <1>3 DEF Heard
  <1>5. CASE NoResult
    BY <1>0, <1>4, <1>5, NothingTold
  <1>6. ASSUME NEW j \in Key, j \in Last("unknown"), ResultOf(j, "ok")
        PROVE  k \in Last("ok")' \cup Last("unknown")'
    BY <1>0, <1>4, <1>6, ResultTold
  <1>7. \/ NoResult
        \/ \E j \in Key : j \in Last("unknown") /\ ResultOf(j, "ok")
    BY ResultsBy
  <1> QED BY <1>5, <1>6, <1>7

LEMMA EscalatesBy ==
    ASSUME TypeOK, NEW o \in Orchestrators, Run(o) \/ Crash(o), orch'[o].pc = "escalate"
    PROVE  RecordResult(o) \/ Ambiguous(o) \/ GiveUp(o)
  <1>1. ~ Lead(o) /\ ~ Crash(o) /\ ~ Revisit(o)
    BY StepsTo, OtherMoves DEF Lead
  <1>2. ~ Walk(o)
    BY StepsTo, OtherMoves DEF Walk
  <1>3. Settle(o) => RecordResult(o) \/ Ambiguous(o)
    BY StepsTo, OtherMoves DEF Settle
  <1>4. Drain(o) => GiveUp(o)
    BY StepsTo, OtherMoves DEF Drain
  <1>5. ~ Finish(o)
    BY StepsTo, OtherMoves DEF Finish
  <1> QED BY <1>1, <1>2, <1>3, <1>4, <1>5 DEF Run

\* The four ways to stop.
LEMMA StopsBy ==
    ASSUME Steady, Barrier, [Next]_vars, ~ acked, \A o \in Orchestrators : orch[o].pc \notin Stops,
           acked' \/ \E o \in Orchestrators : orch'[o].pc \in Stops
    PROVE  \E o \in Orchestrators : RecordResult(o) \/ Ambiguous(o) \/ GiveUp(o) \/ Complete(o)
  <1>0. TypeOK
    BY DEF Steady
  <1>1. ~ acked'
    <2>1. CASE Lapse \/ Redeliver \/ Land \/ UNCHANGED vars
      BY <2>1 DEF Lapse, Redeliver, Land, vars, EngineVars
    <2>2. ASSUME NEW o \in Orchestrators, Run(o) \/ Crash(o) PROVE ~ acked'
      <3>1. ~ Ack(o)
        BY StartsAt DEF Stops
      <3>2. Start(o) \/ Crash(o) => UNCHANGED acked
        BY DEF Start, Crash
      <3> QED BY <1>0, <2>2, <3>1, <3>2, BusyBefore
    <2> QED BY <2>1, <2>2 DEF Next
  <1>2. PICK o \in Orchestrators : orch'[o].pc \in Stops
    BY <1>1
  <1>3. Run(o) \/ Crash(o)
    BY <1>2, StepFor
  <1>4. CASE orch'[o].pc = "escalate"
    BY <1>0, <1>3, <1>4, EscalatesBy
  <1>5. CASE orch'[o].pc = "diverge"
    BY <1>0, <1>3, <1>5, DivergesBy
  <1>6. CASE orch'[o].pc = "returned"
    <2>1. Complete(o) \/ Escalate(o) \/ ReplayFailed(o)
      BY <1>0, <1>3, <1>6, ReturnsBy
    <2> QED BY <2>1, StartsAt DEF Stops
  <1> QED BY <1>2, <1>4, <1>5, <1>6 DEF Stops

\* Whoever stops has told what he knows: the step at hand is the only one not done, and
\* it is told of, has no effect, or was never called.
LEMMA StopsHeard ==
    ASSUME StepsAnswer, Steady, Barrier, LateUndecided, Paid, Fated, Rested, [Next]_vars,
           NEW o \in Orchestrators, RecordResult(o) \/ Ambiguous(o) \/ GiveUp(o) \/ Complete(o)
    PROVE  Heard'
  <1>0. /\ TypeOK /\ LocalOK /\ JournalTypeOK /\ Path /\ Tree /\ Ground /\ Calm
        /\ orch[o] \in Local /\ Denied(orch[o]) /\ Draining(orch[o])
    BY DEF Steady, TypeOK, Tree, Rested
  <1>1. UNCHANGED << branches, applied, late >>
    <2>1. CASE RecordResult(o)
      BY <2>1 DEF RecordResult, WritesRecord, worldVars
    <2>2. CASE Ambiguous(o) \/ GiveUp(o)
      BY <2>2 DEF Ambiguous, GiveUp, WritesRecord, ReadOnly, worldVars, journalVars
    <2>3. CASE Complete(o)
      BY <2>3 DEF Complete, ReadOnly, worldVars, journalVars
    <2> QED BY <2>1, <2>2, <2>3
  <1> SUFFICES ASSUME NEW k \in applied \cup LateKeys, Effectful(k), IsActive(k[1])
               PROVE  k \in Last("ok")' \cup Last("unknown")'
    BY <1>1 DEF Heard, Effectful, ToolOf, LateKeys, IsActive
  <1>2. k \in Touched /\ k \in Key /\ k[1] \in DOMAIN branches /\ Behind(k)
    BY <1>0 DEF Touched, Ground
  <1>3. orch[o].pc \in OnPath \cap {"called", "ambiguous", "comp", "drain", "step"}
    BY StartsAt DEF OnPath
  <1>4. /\ orch[o].br \in DOMAIN branches /\ IsActive(orch[o].br)
        /\ \A s \in Steps : s < orch[o].seq => s \in completed_results(orch[o].br)
    BY <1>0, <1>3 DEF LocalOK, Sound, Branchless, Path, PathOK
  <1>5. k[1] = orch[o].br
    BY <1>0, <1>2, <1>4 DEF Ground
  <1>6. CASE Complete(o)
    <2>1. NoResult
      BY <1>0, <1>6, WalkMute DEF Mute
    <2>2. orch[o].seq \in Nat /\ orch[o].seq > Len(Trace)
      BY <1>0, <1>6 DEF Complete, Local
    <2>3. k[2] \in Steps /\ k[2] < orch[o].seq /\ k = <<k[1], k[2]>>
      BY <1>2, <2>2, KeyIs, TraceAssumption DEF Steps
    <2>4. k \in Last("ok")
      BY <1>4, <1>5, <2>3, CompletedIs
    <2> QED BY <1>0, <2>1, <2>4, NothingTold
  <1>7. CASE ~ Complete(o)
    <2>1. PICK q : q = effect_key(orch[o].br, orch[o].seq)
      OBVIOUS
    <2>2. orch[o].pc \in Working \cap {"called", "ambiguous", "comp", "drain"}
      BY <1>7, StartsAt DEF Working
    <2>3. /\ q \in Key /\ q[1] = orch[o].br /\ q[2] = orch[o].seq
          /\ Behind(q) /\ q \notin Last("ok")
      BY <1>0, <2>1, <2>2, NotYet
    <2>4. k = q \/ k \in Last("ok")
      BY <1>2, <1>5, <2>3, OpenKey
    <2>5. CASE GiveUp(o)
      <3>1. Owed # {}
        <4>1. CASE orch[o].pc = "drain"
          BY <2>5, <4>1, NoneOwed DEF GiveUp, At
        <4>2. CASE orch[o].pc = "comp"
          <5>1. PICK r : r \in orch[o].todo
            BY <1>0, <4>2 DEF Draining, Undoing
          <5> QED BY <5>1, ListOwed
        <4> QED BY <2>5, <4>1, <4>2, StartsAt
      <3>2. Trace[orch[o].seq] \in Irreversible
        BY <1>0, <2>5, StartsAt DEF Draining, Undoing
      <3>3. k # q
        <4>1. ASSUME k = q PROVE FALSE
          <5>1. ToolOf(k) \in Irreversible
            BY <2>3, <3>2, <4>1 DEF ToolOf
          <5> QED BY <1>2, <3>1, <5>1 DEF Paid
        <4> QED BY <4>1
      <3>4. NoResult
        <4>1. Drain(o) /\ ~ Graduate(o)
          BY <2>5, StartsAt DEF Drain
        <4> QED BY <1>0, <4>1, DrainMute DEF Mute
      <3> QED BY <1>0, <2>4, <3>3, <3>4, NothingTold
    <2>6. CASE Ambiguous(o)
      <3>1. PICK j \in Key : j[1] = orch[o].br /\ j[2] = orch[o].seq /\ ResultOf(j, "unknown")
        BY <1>0, <2>6, AmbiguousTells
      <3>2. j = q
        BY <2>1, <3>1, KeyIs DEF effect_key
      <3> QED BY <1>0, <2>4, <3>1, <3>2, ResultTold
    <2>7. CASE RecordResult(o)
      <3>1. PICK j \in Key, st \in {"ok", "failed"} :
                /\ orch[o].pc = "called" /\ orch[o].res = st
                /\ j[1] = orch[o].br /\ j[2] = orch[o].seq
                /\ ResultOf(j, st)
        BY <1>0, <2>7, TellsOfCall
      <3>2. j = q
        BY <2>1, <3>1, KeyIs DEF effect_key
      <3>3. CASE k # q
        BY <1>0, <2>4, <3>1, <3>2, <3>3, ResultTold
      <3>4. CASE k = q /\ st = "ok"
        BY <1>0, <3>1, <3>2, <3>4, ResultTold
      <3>5. CASE k = q /\ st = "failed"
        <4>1. PICK t : t = Trace[orch[o].seq]
          OBVIOUS
        <4>2. t = ToolOf(k) /\ t \in Tools \ Pure /\ t = ToolAt(o)
          <5>1. orch[o].seq \in Steps
            BY <2>3, KeyIs
          <5> QED BY <2>3, <3>5, <4>1, <5>1, TraceAssumption DEF ToolOf, ToolAt, Effectful, Steps
        <4>3. CASE t \in Irreversible
          <5>1. k \notin applied
            BY <1>0, <2>1, <3>1, <3>5, <4>1, <4>3 DEF Fated, Judged
          <5>2. t \notin faults.late_delivery_tools
            BY <3>1, <3>5, <4>2, <4>3 DEF LateUndecided, Undecided, Irreversible, Unobservable
          <5> QED BY <1>0, <4>2, <5>1, <5>2 DEF Calm
        <4>4. CASE t \in Idempotent \cup Compensatable
          <5>1. k \notin applied
            BY <1>0, <2>1, <3>1, <3>5, <4>1, <4>4 DEF Denied
          <5>2. t \notin faults.late_delivery_tools
            BY <1>0, <4>4 DEF Calm, StepsAnswer
          <5> QED BY <1>0, <4>2, <5>1, <5>2 DEF Calm
        <4> QED BY <4>2, <4>3, <4>4 DEF Tools
      <3> QED BY <3>1, <3>3, <3>4, <3>5
    <2> QED BY <1>7, <2>5, <2>6, <2>7
  <1> QED BY <1>6, <1>7

LEMMA RestedNext ==
    ASSUME StepsAnswer, Steady, Barrier, OneEpoch, LateUndecided, Paid, Fated, Rested, [Next]_vars
    PROVE  Rested'
  <1>0. TypeOK /\ Sole /\ Calm /\ Replays
    BY DEF Steady, Barrier, Replays
  <1>1. ASSUME NEW p \in Orchestrators PROVE Denied(orch[p])' /\ Draining(orch[p])'
    <2>1. PICK m : m = orch'[p]
      OBVIOUS
    <2> QED BY <2>1, DeniedNext, DrainingNext, DeniedOf
  <1>2. ASSUME (acked \/ \E o \in Orchestrators : orch[o].pc \in Stops)' PROVE Heard'
    <2>1. CASE ~ acked /\ \A o \in Orchestrators : orch[o].pc \notin Stops
      <3>1. \E o \in Orchestrators : RecordResult(o) \/ Ambiguous(o) \/ GiveUp(o) \/ Complete(o)
        BY <1>2, <2>1, StopsBy
      <3> QED BY <3>1, StopsHeard
    <2>2. CASE acked \/ \E o \in Orchestrators : orch[o].pc \in Stops
      <3>1. Heard
        BY <2>2 DEF Rested
      <3>2. \A o \in Orchestrators : orch[o].pc \notin {"call", "called", "ambiguous"}
        <4>1. CASE acked
          BY <1>0, <4>1 DEF Sole, Busy
        <4>2. ASSUME NEW p \in Orchestrators, orch[p].pc \in Stops
              PROVE  \A o \in Orchestrators : orch[o].pc \notin {"call", "called", "ambiguous"}
          <5>1. Busy(p)
            BY <4>2 DEF Stops, Busy
          <5>2. \A o \in Orchestrators \ {p} : orch[o].pc = "idle"
            BY <1>0, <5>1, Alone
          <5> QED BY <4>2, <5>2 DEF Stops
        <4> QED BY <2>2, <4>1, <4>2
      <3>3. \A o \in Orchestrators : ~ Execute(o) /\ ~ RecordResult(o) /\ ~ Ambiguous(o)
        BY <3>2, StartsAt
      <3> QED BY <1>0, <3>1, <3>3, HeardStays
    <2> QED BY <2>1, <2>2
  <1> QED BY <1>1, <1>2 DEF Rested

LEMMA RestedAlways ==
    ASSUME NoTakeover, Apart, SomebodyIsPaged, LateAnswers, PagerAnswers, StepsAnswer
    PROVE  Spec => [](Barrier => Rested)
  <1>1. Init => Rested
    BY InitNothing DEF Rested, Denied, Draining, Undoing, Stops
  <1>2. ASSUME Steady, OneEpoch, LateUndecided, Barrier => Paid, Replays => Fated,
               Barrier => Rested, [Next]_vars
        PROVE  (Barrier => Rested)'
    <2>1. TypeOK /\ UNCHANGED settings
      BY <1>2, SettingsStay DEF Steady
    <2>2. (Barrier' <=> Barrier) /\ (Barrier => Replays)
      BY <2>1 DEF Barrier, Replays, settings
    <2> QED BY <1>2, <2>2, RestedNext
  <1>3. Spec => [](Barrier => Paid)
    BY PaidAlways
  <1>4. Spec => [](Replays => Fated)
    BY FatedAlways
  <1>5. Spec => []Steady /\ []OneEpoch /\ []LateUndecided
    BY SteadyAlways, OneEpochAlways, LateUndecidedAlways, PTL
  <1> QED BY <1>1, <1>2, <1>3, <1>4, <1>5, PTL DEF Spec

\* What the tree shows as done was done, and was not taken back but by an undo whose reply
\* was lost; what is in force was heard of.
LEMMA TreeIsTrue ==
    ASSUME Steady, Barrier, JournalTruthful, Held, Clean, Paid, Fated, Rested
    PROVE  TreeTrue
  <1>0. /\ TypeOK /\ JournalTypeOK /\ Ground /\ Replays
    BY DEF Steady, TypeOK, Tree, Barrier, Replays
  <1> SUFFICES ASSUME acked
               PROVE  /\ Shown \subseteq Standing \cup EscalatedKeys
                      /\ Standing \subseteq Shown \cup shown("unknown")
    BY DEF TreeTrue
  <1>1. ASSUME NEW k \in Shown, k \notin Standing PROVE k \in EscalatedKeys
    <2>1. k \in Last("ok") /\ k \notin compensations /\ Effectful(k)
      BY <1>0, <1>1, ShownIs DEF Shown
    <2>2. k \in Okay /\ k \in Told /\ k \in Touched /\ k \in Key /\ k[1] \in DOMAIN branches
      BY <1>0, <2>1, LastTold DEF Touched, Ground
    <2>3. Happened("effect", k)
      BY <2>1, <2>2 DEF Okay, JournalTruthful, Done, Effectful
    <2>4. k \in applied \/ DeadKey(k)
      BY <2>3 DEF Happened, Held
    <2>5. DeadKey(k)
      BY <1>1, <2>1, <2>4 DEF Standing
    <2>6. branches[k[1]].status # "compensated"
      BY <2>1, <2>2, <2>5 DEF Paid, DeadKey
    <2>7. k[1] \in dead_branches
      BY <1>0, <2>2, <2>5, <2>6, DeadIs DEF DeadKey
    <2>8. k \in Owed
      BY <1>0, <2>1, <2>2, <2>5, <2>7, OwedIs DEF DeadKey
    <2> QED BY <2>8 DEF Paid
  <1>2. ASSUME NEW k \in Standing PROVE k \in Shown \cup shown("unknown")
    <2>1. k \in applied /\ Effectful(k) /\ k \in Touched
      BY <1>2 DEF Standing, Touched
    <2>2. k \notin compensations
      BY <2>1 DEF Clean
    <2>3. k \in Last("ok") \cup Last("unknown")
      <3>1. CASE IsActive(k[1])
        BY <2>1, <3>1 DEF Rested, Heard
      <3>2. CASE ~ IsActive(k[1])
        <4>1. k \in Closed
          BY <1>0, <2>1, <3>2 DEF Ground
        <4> QED BY <2>1, <3>2, <4>1 DEF Closed, Fated
      <3> QED BY <3>1, <3>2
    <2> QED BY <1>0, <2>1, <2>2, <2>3, ShownIs DEF Shown
  <1> QED BY <1>1, <1>2

\* When the alert rests the tree is right about the world, whoever was killed on the way
\* and at whatever point: a step it shows as ok is in force or named by an escalation, and
\* nothing is in force at a step that has no result, a failed one or an undone one.  It
\* rests on tools that answer: a step that may be left in doubt is a page
\* (view.branch_view).
THEOREM TreeTrueHolds ==
    ASSUME NoTakeover, Apart, SomebodyIsPaged, LateAnswers, PagerAnswers, StepsAnswer
    PROVE  Spec => [](Barrier => TreeTrue)
  <1>0. UndoableInTime
    BY StepsInTime
  <1>1. Spec => [](Barrier => Rested)
    BY RestedAlways
  <1>2. Spec => []Steady /\ [](Barrier => Paid) /\ [](Replays => Fated)
    BY SteadyAlways, PaidAlways, FatedAlways, PTL
  <1>3. Spec => []JournalTruthful /\ [](EffectOnce /\ Held) /\ [](Barrier => Clean)
    BY <1>0, JournalTruthfulHolds, EffectOnceAlways, CleanAlways, PTL
  <1>4. /\ Steady /\ JournalTruthful /\ EffectOnce /\ Held
        /\ Barrier => Paid /\ Clean /\ Rested
        /\ Replays => Fated
        => (Barrier => TreeTrue)
    <2> SUFFICES ASSUME Steady, JournalTruthful, Held, Barrier, Paid, Clean, Rested,
                        Replays => Fated
                 PROVE  TreeTrue
      OBVIOUS
    <2>1. JournalTypeOK /\ Fated
      BY DEF Steady, TypeOK, Barrier, Replays
    <2> QED BY <2>1, TreeIsTrue
  <1> QED BY <1>1, <1>2, <1>3, <1>4, PTL
=============================================================================
