-------------------------- MODULE ExactlyOnceProofs --------------------------
(***************************************************************************)
(* The clauses of Effect-Exactly-Once that need one leader at a time: no   *)
(* loss, no duplication, bounded ambiguity, clean abandonment, the order   *)
(* of the undoing and the barrier.  They hold for any trace, any number of *)
(* processes and any crashes, faults and redeliveries, as long as no lease *)
(* lapses under a working leader; each theorem names what else it takes of *)
(* the settings.                                                           *)
(*                                                                         *)
(* The invariants come in this order: Sole and Path say who works and what *)
(* a leader has done on its way; Tree, what the journal tells of a key and *)
(* where; Listed, what is to be undone.  The clauses follow from them.     *)
(***************************************************************************)
EXTENDS OrchestratorProofs, FiniteSetTheorems, WellFoundedInduction

------------------------------------------------------------------------------
(* While no lease lapses under a working leader                            *)

\* The time-to-live outlasts every run: a lease lapses only when its owner is
\* dead or at rest (engine.recover takes the lease once and never renews it, so
\* this is what DEFAULT_TTL has to be chosen for).
NoTakeover == MaxExpire = 0

\* A process on a delivery of the alert, from the lease to the acknowledgement.
Busy(o) == orch[o].pc \notin {"idle", "recheck", "rechecked", "matched"}

\* There is one, it owns the live lease, and there is none while the alert rests.
Sole == \A o \in Orchestrators : Busy(o) => /\ lease.owner = o /\ lease.live
                                            /\ ~ acked

\* Stepping on a branch.
OnPath == {"step", "intent", "call", "called", "ambiguous", "drain", "comp", "undo",
           "undone", "graduate", "graduated"}

\* The branch a leader steps on is alive, what it skips and what it has behind it
\* is done there, and it returns with the alert settled.
PathOK(l) ==
    /\ l.pc \in OnPath =>
          /\ IsActive(l.br)
          /\ l.done \subseteq completed_results(l.br)
          /\ \A s \in Steps : s < l.seq => s \in completed_results(l.br)
    /\ l.pc \in Working => l.seq \notin l.done
    /\ l.pc = "forked" => IsActive(l.br)
    /\ l.pc = "called" => l.res \in ResultStatus
    /\ (l.pc = "returned" /\ Diverges) => Settled
    /\ \A b \in l.grads : ~ IsActive(b)

Path == /\ \A o \in Orchestrators : PathOK(orch[o])
        /\ acked /\ Diverges => Settled

------------------------------------------------------------------------------
(* What a new row changes of what the journal tells of a step              *)

\* The row is the last result of its slot, and of no other.
LEMMA LastAfter ==
    ASSUME JournalTypeOK, NEW rec \in Record, append(rec), NEW b, NEW s, NEW r
    PROVE  last_result(b, s, r)' <=>
              IF rec.kind = "RESULT" /\ rec.br = b /\ rec.seq = s
              THEN r = Len(journal) + 1
              ELSE last_result(b, s, r)
  <1> DEFINE n == Len(journal) + 1
  <1>1. /\ \A q \in DOMAIN journal : q \in Nat /\ q < n /\ journal'[q] = journal[q]
        /\ DOMAIN journal' = DOMAIN journal \cup {n} /\ journal'[n] = rec
        /\ n \in Nat
    BY DEF append, JournalTypeOK
  <1> HIDE DEF n
  <1>2. /\ \A q \in DOMAIN journal : q \in Rows("RESULT")' <=> q \in Rows("RESULT")
        /\ n \in Rows("RESULT")' <=> rec.kind = "RESULT"
        /\ Rows("RESULT") \subseteq DOMAIN journal
        /\ Rows("RESULT")' \subseteq DOMAIN journal \cup {n}
    BY <1>1 DEF Rows
  <1>3. CASE rec.kind = "RESULT" /\ rec.br = b /\ rec.seq = s
    BY <1>1, <1>2, <1>3 DEF last_result, n
  <1>4. CASE ~ (rec.kind = "RESULT" /\ rec.br = b /\ rec.seq = s)
    BY <1>1, <1>2, <1>4 DEF last_result
  <1> QED BY <1>3, <1>4 DEF n

\* A result of a step settles whether the step is completed; nothing else does.
LEMMA CompletedAfter ==
    ASSUME JournalTypeOK, NEW rec \in Record, append(rec), NEW b
    PROVE  completed_results(b)' =
              IF rec.kind = "RESULT" /\ rec.br = b /\ rec.seq \in Steps
              THEN IF rec.status = "ok" THEN completed_results(b) \cup {rec.seq}
                                        ELSE completed_results(b) \ {rec.seq}
              ELSE completed_results(b)
  <1> DEFINE n == Len(journal) + 1
  <1>1. /\ \A q \in DOMAIN journal : journal'[q] = journal[q] /\ q # n
        /\ DOMAIN journal' = DOMAIN journal \cup {n} /\ journal'[n] = rec
    BY DEF append, JournalTypeOK
  <1>2. \A s, r : last_result(b, s, r) => r \in DOMAIN journal
    BY DEF last_result, Rows
  <1> HIDE DEF n
  <1>3. ASSUME NEW s \in Steps
        PROVE  s \in completed_results(b)' <=>
                  IF rec.kind = "RESULT" /\ rec.br = b /\ rec.seq = s
                  THEN rec.status = "ok" ELSE s \in completed_results(b)
    <2>1. CASE rec.kind = "RESULT" /\ rec.br = b /\ rec.seq = s
      <3>1. \A r : last_result(b, s, r)' <=> r = n
        BY <2>1, LastAfter DEF n
      <3> QED BY <1>1, <2>1, <3>1 DEF completed_results
    <2>2. CASE ~ (rec.kind = "RESULT" /\ rec.br = b /\ rec.seq = s)
      <3>1. \A r : last_result(b, s, r)' <=> last_result(b, s, r)
        BY <2>2, LastAfter
      <3> QED BY <1>1, <1>2, <2>2, <3>1 DEF completed_results
    <2> QED BY <2>1, <2>2
  <1>4. completed_results(b) \subseteq Steps /\ completed_results(b)' \subseteq Steps
    BY DEF completed_results
  <1> QED BY <1>3, <1>4

------------------------------------------------------------------------------
(* There is one leader                                                     *)

\* Only Start makes a process busy, and only Start and Ack look at or change
\* whether the alert rests.
LEMMA BusyBefore ==
    ASSUME TypeOK, NEW o \in Orchestrators, Run(o), ~ Start(o)
    PROVE  /\ Busy(o)' => Busy(o)
           /\ Ack(o) \/ UNCHANGED acked
           /\ UNCHANGED settings
  <1>0. orch[o] \in Local
    BY DEF TypeOK
  <1> USE DEF At, Busy, ReadOnly, WritesRecord, WritesTree, CallsWorld, EngineVars
  <1>1. CASE NotLeader(o)
    BY <1>0, <1>1 DEF NotLeader, Idle, TypeOK
  <1>2. CASE SelectActive(o) \/ SelectFresh(o) \/ SelectNaive(o)
    BY <1>2 DEF SelectActive, SelectFresh, SelectNaive
  <1>3. CASE Walk(o)
    BY <1>3 DEF Walk, Replay, Complete, Pass, Block, Intent, Execute, ToExecute
  <1>4. CASE Settle(o)
    BY <1>4 DEF Settle, Probe, Ambiguous, Suppress, RecordResult
  <1>5. CASE Drain(o)
    BY <1>5 DEF Drain, Drained, BeginPass, GiveUp, CompIntent, Undo, CompResult,
                Graduate, Graduated, Release
  <1>6. CASE Finish(o)
    BY <1>6 DEF Finish, ReplayFailed, Escalate, Abandon, AbandonWithResidue,
                RecordAbandoned, Fork, RecordFork, ForkNaive, Ack
  <1>7. CASE Revisit(o)
    <2>1. orch'[o].pc \in {"idle", "recheck", "rechecked", "matched"}
      <3>1. CASE Reconcile(o)  BY <3>1 DEF Reconcile, Idle, TypeOK
      <3>2. CASE Recheck(o)    BY <1>0, <3>2 DEF Recheck, Local, TypeOK
      <3>3. CASE Reprobe(o)
        <4>1. \/ \E r : DropRedo(o, r)
              \/ orch' = [orch EXCEPT ![o].res = "ok"]
          BY <3>3 DEF Reprobe
        <4>2. orch[o].pc = "rechecked"
          BY <3>3 DEF Reprobe
        <4>3. ASSUME NEW r, DropRedo(o, r) PROVE orch'[o].pc = "recheck"
          BY <1>0, <4>3 DEF DropRedo, Local, TypeOK
        <4>4. orch' = [orch EXCEPT ![o].res = "ok"] => orch'[o].pc = "rechecked"
          BY <1>0, <4>2 DEF Local, TypeOK
        <4> QED BY <4>1, <4>3, <4>4
      <3>4. CASE Rematch(o)    BY <1>0, <3>4 DEF Rematch, Goto, Local, TypeOK
      <3>5. CASE Resettle(o)   BY <1>0, <3>5 DEF Resettle, DropRedo, Local, TypeOK
      <3>6. CASE Reconciled(o) BY <3>6 DEF Reconciled, Idle, TypeOK
      <3> QED BY <1>7, <3>1, <3>2, <3>3, <3>4, <3>5, <3>6 DEF Revisit
    <2>2. UNCHANGED acked /\ UNCHANGED settings
      BY <1>7 DEF Revisit, Reconcile, Recheck, Reprobe, Rematch, Resettle, Reconciled
    <2> QED BY <2>1, <2>2
  <1> QED BY <1>1, <1>2, <1>3, <1>4, <1>5, <1>6, <1>7 DEF Run, Lead

LEMMA SettingsStay ==
    ASSUME TypeOK, [Next]_vars
    PROVE  UNCHANGED settings
  <1>1. ASSUME NEW o \in Orchestrators, Run(o) \/ Crash(o) PROVE UNCHANGED settings
    BY <1>1, BusyBefore DEF Start, Crash
  <1> QED BY <1>1 DEF Next, Lapse, Redeliver, Land, EngineVars, vars

LEMMA SoleInit == Init => Sole
  BY DEF Init, Idle, Sole, Busy

LEMMA SoleNext ==
    ASSUME NoTakeover, TypeOK, Sole, [Next]_vars
    PROVE  Sole'
  <1>1. ASSUME NEW o \in Orchestrators, Start(o) PROVE Sole'
    <2>1. \A p \in Orchestrators \ {o} : ~ Busy(p) /\ orch'[p] = orch[p]
      BY <1>1 DEF Start, MayLead, Sole, TypeOK
    <2> QED BY <1>1, <2>1 DEF Start, Sole, Busy
  <1>2. ASSUME NEW o \in Orchestrators, Run(o), ~ Start(o) PROVE Sole'
    <2>1. Moved(o) /\ (Busy(o)' => Busy(o)) /\ (Ack(o) \/ UNCHANGED acked)
      BY <1>2, RunMoves, BusyBefore
    <2>2. CASE UNCHANGED acked
      BY <2>1, <2>2 DEF Moved, Sole, Busy
    <2>3. CASE Ack(o)
      <3>1. Busy(o) /\ ~ Busy(o)'
        BY <2>3 DEF Ack, At, Busy, Idle, TypeOK
      <3>2. \A p \in Orchestrators \ {o} : ~ Busy(p)
        BY <3>1 DEF Sole
      <3> QED BY <2>1, <3>1, <3>2 DEF Moved, Sole, Busy
    <2> QED BY <2>1, <2>2, <2>3
  <1>3. ASSUME NEW o \in Orchestrators, Crash(o) PROVE Sole'
    <2>1. ~ Busy(o)' /\ \A p \in Orchestrators \ {o} : orch'[p] = orch[p]
      BY <1>3 DEF Crash, Idle, Busy, TypeOK
    <2> QED BY <1>3, <2>1 DEF Crash, Sole, Busy
  <1>4. CASE Lapse
    <2>1. lease.owner \in Orchestrators /\ orch[lease.owner] = Idle
      BY <1>4 DEF Lapse, NoTakeover, TypeOK
    <2>2. \A p \in Orchestrators : ~ Busy(p)
      BY <2>1 DEF Sole, Busy, Idle
    <2> QED BY <1>4, <2>2 DEF Lapse, Sole, Busy
  <1>5. CASE Redeliver
    BY <1>5 DEF Redeliver, Sole, Busy
  <1>6. CASE Land \/ UNCHANGED vars
    BY <1>6 DEF Land, EngineVars, vars, Sole, Busy
  <1> QED BY <1>1, <1>2, <1>3, <1>4, <1>5, <1>6 DEF Next

------------------------------------------------------------------------------
(* The leader is on a live branch, and leaves it settled                   *)

\* A step that writes no result but an ok and leaves the tree alone.
Mild == /\ UNCHANGED << branches, settings >>
        /\ \A b : completed_results(b) \subseteq completed_results(b)'

LEMMA SettledStays ==
    ASSUME JournalTypeOK, Grows, Mild, Settled
    PROVE  Settled'
  <1>1. CASE Rows("ESCALATED") # {}
    <2>1. Rows("ESCALATED")' # {}
      BY <1>1, GrowthKeeps DEF Rows
    <2> QED BY <2>1 DEF Settled
  <1>2. CASE \E b \in DOMAIN branches : IsActive(b) /\ completed_results(b) = Steps
    <2>1. PICK b \in DOMAIN branches : IsActive(b) /\ completed_results(b) = Steps
      BY <1>2
    <2>2. completed_results(b)' = Steps
      BY <2>1 DEF Mild, completed_results
    <2> QED BY <2>1, <2>2 DEF Settled, Mild, IsActive
  <1> QED BY <1>1, <1>2 DEF Settled

LEMMA PathKept ==
    ASSUME JournalTypeOK, Grows, Mild, NEW l, PathOK(l)
    PROVE  PathOK(l)'
  <1>1. Settled => Settled'
    BY SettledStays
  <1>2. \A b : IsActive(b)' <=> IsActive(b)
    BY DEF Mild, IsActive
  <1>3. /\ completed_results(l.br) \subseteq completed_results(l.br)'
        /\ Diverges' <=> Diverges
    BY DEF Mild, Diverges, settings
  <1> QED BY <1>1, <1>2, <1>3 DEF PathOK

\* Off the branch there is nothing to keep but what was found dead.
LEMMA OffPath ==
    ASSUME NEW m, m.pc \notin OnPath, m.pc \notin {"forked", "returned"},
           \A b \in m.grads : ~ IsActive(b)
    PROVE  PathOK(m)
  BY DEF PathOK, OnPath, Working

\* A step ahead on the same branch, at the same place of the trace.
LEMMA Ahead ==
    ASSUME JournalTypeOK, Grows, Mild, NEW l, NEW m, PathOK(l),
           l.pc \in OnPath, m.pc \in OnPath,
           m.br = l.br, m.seq = l.seq, m.done = l.done,
           \A b \in m.grads : b \in l.grads \/ ~ IsActive(b),
           m.pc \in Working => l.pc \in Working \/ l.seq \notin l.done,
           m.pc = "called" => m.res \in ResultStatus
    PROVE  PathOK(m)'
  <1>1. \A b : IsActive(b)' <=> IsActive(b)
    BY DEF Mild, IsActive
  <1>2. completed_results(l.br) \subseteq completed_results(l.br)'
    BY DEF Mild
  <1> QED BY <1>1, <1>2 DEF PathOK, OnPath

\* A row that is no result leaves what is completed.
LEMMA ModestIsMild ==
    ASSUME JournalTypeOK, Modest, UNCHANGED << branches, settings >>
    PROVE  Mild /\ \A b : completed_results(b)' = completed_results(b)
  <1>1. CASE UNCHANGED journal
    BY <1>1 DEF Mild, completed_results, last_result, Rows
  <1>2. CASE \E rec \in Record : append(rec) /\ rec.kind \notin {"RESULT", "COMP_RESULT"}
    <2>1. PICK rec \in Record : append(rec) /\ rec.kind # "RESULT"
      BY <1>2
    <2> QED BY <2>1, CompletedAfter DEF Mild
  <1> QED BY <1>1, <1>2 DEF Modest

\* A new branch is active and the others are as they were.
LEMMA NewBranch ==
    ASSUME JournalTypeOK, NEW p \in Nat, NEW d \in Nat, create_branch(p, d)
    PROVE  \E n \in Nat : /\ n = Len(branches) + 1 /\ n \notin DOMAIN branches
                          /\ DOMAIN branches' = DOMAIN branches \cup {n}
                          /\ IsActive(n)' /\ branches'[n].depth = d
                          /\ \A c \in DOMAIN branches : branches'[c] = branches[c]
  <1>1. PICK rec : rec = [parent |-> p, depth |-> d, status |-> "active"]
    OBVIOUS
  <1>2. branches' = Append(branches, rec) /\ branches \in Seq(Branch)
    BY <1>1 DEF create_branch, JournalTypeOK
  <1>3. PICK n \in Nat : n = Len(branches) + 1 /\ DOMAIN branches = 1 .. (n - 1)
    BY <1>2
  <1>4. /\ DOMAIN branches' = 1 .. n /\ branches'[n] = rec
        /\ \A c \in 1 .. (n - 1) : branches'[c] = branches[c]
    BY <1>2, <1>3
  <1>5. rec.status = "active" /\ rec.depth = d
    BY <1>1
  <1>6. 1 .. n = (1 .. (n - 1)) \cup {n} /\ n \notin 1 .. (n - 1)
    BY <1>3
  <1> QED BY <1>3, <1>4, <1>5, <1>6 DEF IsActive

\* A branch that is marked dead is the only one that changes.
LEMMA MarkedBranch ==
    ASSUME JournalTypeOK, NEW b \in DOMAIN branches, NEW st, set_branch_status(b, st)
    PROVE  /\ DOMAIN branches' = DOMAIN branches /\ branches'[b].status = st
           /\ \A c \in DOMAIN branches : branches'[c].depth = branches[c].depth
           /\ \A c \in DOMAIN branches \ {b} : branches'[c] = branches[c]
  <1>1. \A c \in DOMAIN branches : branches[c] \in Branch
    BY DEF JournalTypeOK
  <1> QED BY <1>1 DEF set_branch_status, Branch

\* What is true of what a process holds next is true of the process.
LEMMA PathOf ==
    ASSUME NEW o \in Orchestrators, NEW m, m = orch'[o], PathOK(m)'
    PROVE  PathOK(orch[o])'
  BY DEF PathOK, completed_results, last_result, Rows, IsActive

\* Entering a branch.
LEMMA EntersPath ==
    ASSUME TypeOK, NEW o \in Orchestrators, NEW b, NEW sev, _run_branch(o, b, sev),
           UNCHANGED journal, IsActive(b)', \A c \in orch[o].grads : ~ IsActive(c)'
    PROVE  PathOK(orch[o])'
  <1>0. orch[o] \in Local
    BY DEF TypeOK
  <1>1. PICK sup \in residue \cup {0} :
           orch' = [orch EXCEPT ![o] =
               [@ EXCEPT !.pc = "step", !.br = b, !.sev = sev, !.sup = sup,
                         !.done = IF Replays THEN completed_results(b) ELSE {},
                         !.seq = 1, !.chosen = NoSeverity]]
    BY DEF _run_branch
  <1> DEFINE d == IF Replays THEN completed_results(b) ELSE {}
  <1>2. PICK m : m = orch'[o]
    OBVIOUS
  <1>3. /\ m.pc = "step" /\ m.br = b /\ m.seq = 1 /\ m.done = d
        /\ m.grads = orch[o].grads
    BY <1>0, <1>1, <1>2 DEF TypeOK, Local
  <1>4. completed_results(b)' = completed_results(b)
    BY DEF completed_results, last_result, Rows
  <1>5. PathOK(m)'
    <2>1. \A s \in Steps : ~ (s < 1)
      BY DEF Steps
    <2>2. m.done \subseteq completed_results(m.br)' /\ IsActive(m.br)'
      BY <1>3, <1>4
    <2>3. \A c \in m.grads : ~ IsActive(c)'
      BY <1>3
    <2> QED BY <1>3, <2>1, <2>2, <2>3 DEF PathOK, Working
  <1> QED BY <1>2, <1>5, PathOf

LEMMA LeadPath ==
    ASSUME TypeOK, LocalOK, Grows, Path, NEW o \in Orchestrators, Lead(o)
    PROVE  PathOK(orch[o])'
  <1>0. /\ orch[o] \in Local /\ PathOK(orch[o])
        /\ \A c \in orch[o].grads : c \in DOMAIN branches /\ ~ IsActive(c)
    BY DEF TypeOK, LocalOK, Sound, Path, PathOK
  <1>1. CASE Start(o) \/ NotLeader(o)
    <2>1. PICK m : m = orch'[o]
      OBVIOUS
    <2>2. m.pc \in {"idle", "select"} /\ m.grads = {}
      <3>1. CASE Start(o)      BY <2>1, <3>1 DEF Start, TypeOK, Idle
      <3>2. CASE NotLeader(o)  BY <2>1, <3>2 DEF NotLeader, TypeOK, Idle
      <3> QED BY <1>1, <3>1, <3>2
    <2>3. PathOK(m)'
      BY <2>2 DEF PathOK, OnPath, Working
    <2> QED BY <2>1, <2>3, PathOf
  <1>2. CASE SelectActive(o)
    <2>1. PICK b \in DOMAIN branches, sev \in Severities :
             active_branch(b) /\ _run_branch(o, b, sev)
      BY <1>2 DEF SelectActive
    <2>2. UNCHANGED << journal, branches >>
      BY <1>2 DEF SelectActive, ReadOnly, journalVars
    <2>3. IsActive(b)' /\ \A c \in orch[o].grads : ~ IsActive(c)'
      BY <1>0, <2>1, <2>2 DEF active_branch, IsActive
    <2> QED BY <2>1, <2>2, <2>3, EntersPath
  <1>3. CASE SelectFresh(o)
    <2>1. PICK n \in Nat : /\ n = Len(branches) + 1 /\ IsActive(n)'
                           /\ \A c \in DOMAIN branches : branches'[c] = branches[c]
      BY <1>3, NewBranch DEF SelectFresh, TypeOK
    <2>2. UNCHANGED journal /\ _run_branch(o, n, FirstSeverity)
      BY <1>3, <2>1 DEF SelectFresh, WritesTree
    <2>3. \A c \in orch[o].grads : ~ IsActive(c)'
      BY <1>0, <2>1 DEF IsActive
    <2> QED BY <2>1, <2>2, <2>3, EntersPath
  <1>4. CASE SelectNaive(o)
    <2>1. PICK m : m = orch'[o]
      OBVIOUS
    <2>2. m.pc = "residue" /\ m.grads = orch[o].grads
      BY <1>0, <1>4, <2>1 DEF SelectNaive, TypeOK, Local
    <2>3. \A c \in m.grads : ~ IsActive(c)'
      BY <1>0, <2>2, GrowthKeeps DEF TypeOK
    <2>4. PathOK(m)'
      BY <2>2, <2>3 DEF PathOK, OnPath, Working
    <2> QED BY <2>1, <2>4, PathOf
  <1> QED BY <1>1, <1>2, <1>3, <1>4 DEF Lead

LEMMA AheadOf ==
    ASSUME JournalTypeOK, Grows, Mild, NEW o \in Orchestrators, PathOK(orch[o]),
           orch[o].pc \in OnPath, orch'[o].pc \in OnPath,
           orch'[o].br = orch[o].br, orch'[o].seq = orch[o].seq,
           orch'[o].done = orch[o].done,
           \A b \in orch'[o].grads : b \in orch[o].grads \/ ~ IsActive(b),
           orch'[o].pc \in Working => orch[o].pc \in Working \/ orch[o].seq \notin orch[o].done,
           orch'[o].pc = "called" => orch'[o].res \in ResultStatus
    PROVE  PathOK(orch[o])'
  <1>1. PICK l, m : l = orch[o] /\ m = orch'[o]
    OBVIOUS
  <1>2. PathOK(m)'
    BY <1>1, Ahead
  <1> QED BY <1>1, <1>2, PathOf

\* Leaving the path without a row, or with one that is no result.
LEMMA LeavesPath ==
    ASSUME TypeOK, LocalOK, Grows, NEW o \in Orchestrators, PathOK(orch[o]),
           orch'[o].pc \notin OnPath \cup {"forked", "returned"},
           orch'[o].grads \subseteq orch[o].grads
    PROVE  PathOK(orch[o])'
  <1>1. PICK m : m = orch'[o]
    OBVIOUS
  <1>2. \A c \in m.grads : ~ IsActive(c)'
    BY <1>1, GrowthKeeps DEF TypeOK, LocalOK, Sound, PathOK
  <1>3. PathOK(m)'
    BY <1>1, <1>2 DEF PathOK, OnPath, Working
  <1> QED BY <1>1, <1>3, PathOf

\* The run is over, and settled.
LEMMA ReturnsPath ==
    ASSUME TypeOK, LocalOK, Grows, NEW o \in Orchestrators, PathOK(orch[o]),
           orch'[o].pc = "returned", orch'[o].grads \subseteq orch[o].grads,
           Diverges' => Settled'
    PROVE  PathOK(orch[o])'
  <1>1. PICK m : m = orch'[o]
    OBVIOUS
  <1>2. \A c \in m.grads : ~ IsActive(c)'
    BY <1>1, GrowthKeeps DEF TypeOK, LocalOK, Sound, PathOK
  <1>3. PathOK(m)'
    BY <1>1, <1>2 DEF PathOK, OnPath, Working
  <1> QED BY <1>1, <1>3, PathOf

LEMMA ReadsMild == ASSUME JournalTypeOK, ReadOnly PROVE Mild
  <1>1. Modest /\ UNCHANGED << branches, settings >>
    BY DEF ReadOnly, journalVars, EngineVars, Modest
  <1> QED BY <1>1, ModestIsMild

LEMMA WalkPath ==
    ASSUME TypeOK, LocalOK, Grows, Path, NEW o \in Orchestrators, Walk(o)
    PROVE  PathOK(orch[o])'
  <1>0. /\ orch[o] \in Local /\ PathOK(orch[o]) /\ JournalTypeOK
        /\ orch \in [Orchestrators -> Local]
    BY DEF TypeOK, Path
  <1>1. CASE Replay(o)
    <2>1. Mild
      BY <1>0, <1>1, ReadsMild DEF Replay
    <2>2. PICK m : m = orch'[o]
      OBVIOUS
    <2>3. /\ m.pc = "step" /\ m.br = orch[o].br /\ m.seq = orch[o].seq + 1
          /\ m.done = orch[o].done /\ m.grads = orch[o].grads
          /\ orch[o].pc = "step" /\ orch[o].seq \in orch[o].done
      BY <1>0, <1>1, <2>2 DEF Replay, At, Local
    <2>4. /\ completed_results(m.br) \subseteq completed_results(m.br)'
          /\ \A b : IsActive(b)' <=> IsActive(b)
      BY <2>1 DEF Mild, IsActive
    <2>5. ASSUME NEW s \in Steps, s < m.seq PROVE s \in completed_results(m.br)'
      <3>1. s < orch[o].seq \/ s = orch[o].seq
        BY <1>0, <2>3, <2>5 DEF Steps, Local
      <3> QED BY <1>0, <2>3, <2>4, <3>1 DEF PathOK, OnPath
    <2>6. PathOK(m)'
      BY <1>0, <2>3, <2>4, <2>5 DEF PathOK, OnPath, Working
    <2> QED BY <2>2, <2>6, PathOf
  <1>2. CASE Complete(o)
    <2>1. /\ orch'[o].pc = "returned" /\ orch'[o].grads = orch[o].grads
          /\ orch[o].pc = "step" /\ orch[o].seq > Len(Trace)
      BY <1>0, <1>2 DEF Complete, At, Goto, Local
    <2>2. IsActive(orch[o].br) /\ completed_results(orch[o].br) = Steps
      <3>1. \A s \in Steps : s < orch[o].seq
        BY <1>0, <2>1, TraceAssumption DEF Steps, Local
      <3>2. \A s \in Steps : s \in completed_results(orch[o].br)
        BY <1>0, <2>1, <3>1 DEF PathOK, OnPath
      <3> QED BY <1>0, <2>1, <3>2 DEF PathOK, OnPath, completed_results
    <2>3. Settled
      <3>1. orch[o].br \in DOMAIN branches
        BY <2>1 DEF LocalOK, Sound, Branchless
      <3> QED BY <2>2, <3>1 DEF Settled
    <2>4. Settled'
      BY <1>0, <1>2, <2>3, ReadsMild, SettledStays DEF Complete
    <2> QED BY <1>0, <2>1, <2>4, ReturnsPath
  <1>3. CASE Pass(o)
    <2>1. Mild
      BY <1>0, <1>3, ReadsMild DEF Pass
    <2>2. /\ orch'[o].pc = "intent" /\ orch'[o].br = orch[o].br
          /\ orch'[o].seq = orch[o].seq /\ orch'[o].done = orch[o].done
          /\ orch'[o].grads = orch[o].grads
          /\ orch[o].pc = "step" /\ orch[o].seq \notin orch[o].done
      BY <1>0, <1>3 DEF Pass, ToExecute, At, Local
    <2> QED BY <1>0, <2>1, <2>2, AheadOf DEF OnPath
  <1>4. CASE Block(o)
    <2>1. Mild
      BY <1>0, <1>4, ModestIsMild, OwedRowsType DEF Block, WritesRecord, EngineVars, Modest
    <2>2. /\ orch'[o].pc = "drain" /\ orch'[o].br = orch[o].br
          /\ orch'[o].seq = orch[o].seq /\ orch'[o].done = orch[o].done
          /\ orch'[o].grads = orch[o].grads
          /\ orch[o].pc = "step" /\ orch[o].seq \notin orch[o].done
      BY <1>0, <1>4 DEF Block, ToExecute, At, Local
    <2> QED BY <1>0, <2>1, <2>2, AheadOf DEF OnPath
  <1>5. CASE Intent(o)
    <2>1. StepRow(o, "INTENT", NoStatus) \in Record
      BY StepRowType DEF RecordKind
    <2>2. Mild
      BY <1>0, <1>5, <2>1, ModestIsMild DEF Intent, WritesRecord, EngineVars, Modest, StepRow
    <2>3. /\ orch'[o].pc = "call" /\ orch'[o].br = orch[o].br
          /\ orch'[o].seq = orch[o].seq /\ orch'[o].done = orch[o].done
          /\ orch'[o].grads = orch[o].grads /\ orch[o].pc = "intent"
      BY <1>0, <1>5 DEF Intent, At, Goto, Local
    <2> QED BY <1>0, <2>2, <2>3, AheadOf DEF OnPath, Working
  <1>6. CASE Execute(o)
    <2>1. Mild
      BY <1>0, <1>6, ModestIsMild DEF Execute, CallsWorld, EngineVars, Modest, journalVars
    <2>2. /\ orch'[o].pc = "called" /\ orch'[o].br = orch[o].br
          /\ orch'[o].seq = orch[o].seq /\ orch'[o].done = orch[o].done
          /\ orch'[o].grads = orch[o].grads /\ orch[o].pc = "call"
          /\ orch'[o].res \in ResultStatus
      BY <1>0, <1>6 DEF Execute, At, Local
    <2> QED BY <1>0, <2>1, <2>2, AheadOf DEF OnPath, Working
  <1> QED BY <1>1, <1>2, <1>3, <1>4, <1>5, <1>6 DEF Walk

LEMMA SettlePath ==
    ASSUME TypeOK, LocalOK, Grows, Path, NEW o \in Orchestrators, Settle(o)
    PROVE  PathOK(orch[o])'
  <1>0. /\ orch[o] \in Local /\ PathOK(orch[o]) /\ JournalTypeOK
        /\ orch \in [Orchestrators -> Local]
    BY DEF TypeOK, Path
  <1>1. CASE Probe(o)
    <2>1. Mild
      BY <1>0, <1>1, ReadsMild DEF Probe
    <2>2. PICK ans \in {"done", "not_done", "unknown"} :
             orch' = [orch EXCEPT ![o] =
                  CASE ans = "done"     -> [@ EXCEPT !.res = "ok"]
                    [] ans = "not_done" -> [@ EXCEPT !.res = "failed"]
                    [] ans = "unknown"  -> [@ EXCEPT !.pc = "ambiguous"]]
      BY <1>1 DEF Probe
    <2>3. orch[o].pc = "called"
      BY <1>1 DEF Probe, At
    <2>4. \E m \in {[orch[o] EXCEPT !.res = "ok"], [orch[o] EXCEPT !.res = "failed"],
                    [orch[o] EXCEPT !.pc = "ambiguous"]} : orch'[o] = m
      BY <1>0, <2>2
    <2>5. /\ orch'[o].pc \in {"called", "ambiguous"} /\ orch'[o].br = orch[o].br
          /\ orch'[o].seq = orch[o].seq /\ orch'[o].done = orch[o].done
          /\ orch'[o].grads = orch[o].grads
          /\ orch'[o].pc = "called" => orch'[o].res \in ResultStatus
      BY <1>0, <2>3, <2>4 DEF Local, ResultStatus
    <2> QED BY <1>0, <2>1, <2>3, <2>5, AheadOf DEF OnPath, Working
  <1>2. CASE Ambiguous(o)
    <2>1. orch'[o].pc = "escalate" /\ orch'[o].grads = orch[o].grads
      BY <1>0, <1>2 DEF Ambiguous, Goto, Local
    <2> QED BY <1>0, <2>1, LeavesPath DEF OnPath
  <1>3. CASE Suppress(o)
    <2>1. StepRow(o, "LATE_DELIVERY_SUPPRESSED", "ok") \in Record
      BY StepRowType DEF RecordKind, ResultStatus
    <2>2. Mild
      BY <1>0, <1>3, <2>1, ModestIsMild
         DEF Suppress, WritesRecord, EngineVars, Modest, StepRow
    <2>3. /\ orch'[o].pc = "called" /\ orch'[o].br = orch[o].br
          /\ orch'[o].seq = orch[o].seq /\ orch'[o].done = orch[o].done
          /\ orch'[o].grads = orch[o].grads /\ orch[o].pc = "called"
          /\ orch'[o].res = orch[o].res
      BY <1>0, <1>3 DEF Suppress, At, Local
    <2>4. orch'[o].res \in ResultStatus
      BY <1>0, <2>3 DEF PathOK
    <2> QED BY <1>0, <2>2, <2>3, <2>4, AheadOf DEF OnPath, Working
  <1>4. CASE RecordResult(o)
    <2> DEFINE settled == [orch[o] EXCEPT !.prior = FALSE, !.res = NoStatus]
    <2>1. settled \in Local /\ settled.grads = orch[o].grads /\ settled.br = orch[o].br
          /\ settled.done = orch[o].done /\ settled.seq = orch[o].seq
      BY <1>0 DEF Local
    <2>2. \/ orch'[o] = [settled EXCEPT !.pc = "diverge"]
          \/ orch'[o] = [settled EXCEPT !.pc = "escalate"]
          \/ orch'[o] = [settled EXCEPT !.pc = "diverge", !.armed = FALSE]
          \/ /\ orch'[o] = [settled EXCEPT !.pc = "step", !.seq = @ + 1]
             /\ orch[o].res # "failed"
      BY <1>0, <1>4 DEF RecordResult
    <2>3. \/ orch'[o].pc \in {"diverge", "escalate"} /\ orch'[o].grads = orch[o].grads
          \/ /\ orch'[o].pc = "step" /\ orch'[o].seq = orch[o].seq + 1
             /\ orch'[o].br = orch[o].br /\ orch'[o].done = orch[o].done
             /\ orch'[o].grads = orch[o].grads /\ orch[o].res # "failed"
      BY <2>1, <2>2 DEF Local
    <2>4. CASE orch'[o].pc \in {"diverge", "escalate"}
      BY <1>0, <2>3, <2>4, LeavesPath DEF OnPath
    <2>5. CASE orch'[o].pc = "step"
      <3>1. orch[o].pc = "called" /\ orch[o].res = "ok"
        BY <1>0, <1>4, <2>3, <2>5 DEF RecordResult, At, PathOK, ResultStatus
      <3>2. StepRow(o, "RESULT", "ok") \in Record /\ orch[o].seq \in Steps
        BY <3>1, StepRowType DEF RecordKind, ResultStatus, LocalOK, Sound, Working
      <3>3. /\ append(StepRow(o, "RESULT", "ok")) /\ UNCHANGED branches
        BY <1>4, <3>1 DEF RecordResult, WritesRecord
      <3>4. PICK m : m = orch'[o]
        OBVIOUS
      <3>5. m.br = orch[o].br
        BY <2>3, <2>5, <3>4
      <3>6. completed_results(m.br)' = completed_results(m.br) \cup {orch[o].seq}
        <4>1. PICK rec \in Record : /\ append(rec) /\ rec.kind = "RESULT" /\ rec.status = "ok"
                                    /\ rec.br = m.br /\ rec.seq = orch[o].seq
          BY <3>2, <3>3, <3>5 DEF StepRow
        <4> QED BY <1>0, <3>2, <4>1, CompletedAfter
      <3>7. ASSUME NEW s \in Steps, s < m.seq PROVE s \in completed_results(m.br)'
        <4>1. s < orch[o].seq \/ s = orch[o].seq
          BY <1>0, <2>3, <2>5, <3>4, <3>7 DEF Steps, Local
        <4> QED BY <1>0, <3>1, <3>5, <3>6, <4>1 DEF PathOK, OnPath
      <3>8. m.done \subseteq completed_results(m.br)' /\ IsActive(m.br)'
        BY <1>0, <2>3, <2>5, <3>1, <3>3, <3>4, <3>5, <3>6 DEF PathOK, OnPath, IsActive
      <3>9. m.pc = "step" /\ \A b \in m.grads : ~ IsActive(b)'
        BY <1>0, <2>3, <2>5, <3>3, <3>4 DEF PathOK, IsActive
      <3>10. PathOK(m)'
        BY <3>7, <3>8, <3>9 DEF PathOK, Working
      <3> QED BY <3>4, <3>10, PathOf
    <2> QED BY <2>3, <2>4, <2>5
  <1> QED BY <1>1, <1>2, <1>3, <1>4 DEF Settle

LEMMA DrainPath ==
    ASSUME TypeOK, LocalOK, Grows, Path, NEW o \in Orchestrators, Drain(o)
    PROVE  PathOK(orch[o])'
  <1>0. /\ orch[o] \in Local /\ PathOK(orch[o]) /\ JournalTypeOK
        /\ orch \in [Orchestrators -> Local]
    BY DEF TypeOK, Path
  <1>1. CASE Drained(o)
    <2>1. Mild
      BY <1>0, <1>1, ReadsMild DEF Drained
    <2>2. /\ orch'[o].pc = "graduate" /\ orch'[o].br = orch[o].br
          /\ orch'[o].seq = orch[o].seq /\ orch'[o].done = orch[o].done
          /\ orch'[o].grads = {b \in DOMAIN branches : branches[b].status = "abandoned"}
          /\ orch[o].pc = "drain"
      BY <1>0, <1>1 DEF Drained, At, Local
    <2>3. \A b \in orch'[o].grads : ~ IsActive(b)
      BY <2>2 DEF IsActive
    <2> QED BY <1>0, <2>1, <2>2, <2>3, AheadOf DEF OnPath, Working
  <1>2. CASE BeginPass(o)
    <2>1. Mild
      BY <1>0, <1>2, ReadsMild DEF BeginPass
    <2>2. /\ orch'[o].pc = "comp" /\ orch'[o].br = orch[o].br
          /\ orch'[o].seq = orch[o].seq /\ orch'[o].done = orch[o].done
          /\ orch'[o].grads = orch[o].grads /\ orch[o].pc = "drain"
      BY <1>0, <1>2 DEF BeginPass, At, Local
    <2> QED BY <1>0, <2>1, <2>2, AheadOf DEF OnPath, Working
  <1>3. CASE GiveUp(o)
    <2>1. orch'[o].pc = "escalate" /\ orch'[o].grads = orch[o].grads
      BY <1>0, <1>3 DEF GiveUp, Local
    <2> QED BY <1>0, <2>1, LeavesPath DEF OnPath
  <1>4. CASE CompIntent(o)
    <2>1. PICK r \in DOMAIN journal : append(CompRow(o, "COMP_INTENT", r, NoStatus))
      BY <1>4 DEF CompIntent
    <2>2. CompRow(o, "COMP_INTENT", r, NoStatus) \in Record
          /\ CompRow(o, "COMP_INTENT", r, NoStatus).kind = "COMP_INTENT"
      BY CompRowType DEF RecordKind
    <2>3. Mild
      BY <1>0, <1>4, <2>1, <2>2, ModestIsMild DEF CompIntent, WritesRecord, EngineVars, Modest
    <2>4. /\ orch'[o].pc = "undo" /\ orch'[o].br = orch[o].br
          /\ orch'[o].seq = orch[o].seq /\ orch'[o].done = orch[o].done
          /\ orch'[o].grads = orch[o].grads /\ orch[o].pc = "comp"
      BY <1>0, <1>4 DEF CompIntent, Goto, At, Local
    <2> QED BY <1>0, <2>3, <2>4, AheadOf DEF OnPath, Working
  <1>5. CASE Undo(o)
    <2>1. Mild
      BY <1>0, <1>5, ModestIsMild DEF Undo, CallsWorld, EngineVars, Modest, journalVars
    <2>2. /\ orch'[o].pc = "undone" /\ orch'[o].br = orch[o].br
          /\ orch'[o].seq = orch[o].seq /\ orch'[o].done = orch[o].done
          /\ orch'[o].grads = orch[o].grads /\ orch[o].pc = "undo"
      BY <1>0, <1>5 DEF Undo, At, Local
    <2> QED BY <1>0, <2>1, <2>2, AheadOf DEF OnPath, Working
  <1>6. CASE CompResult(o)
    <2>1. PICK r \in DOMAIN journal :
             /\ append(CompRow(o, "COMP_RESULT", r, orch[o].res))
             /\ orch' = [orch EXCEPT ![o] =
                  [@ EXCEPT !.pc = IF orch[o].todo = {r} THEN "drain" ELSE "comp",
                            !.todo = orch[o].todo \ {r}, !.res = NoStatus]]
      BY <1>6 DEF CompResult
    <2>2. PICK rec \in Record : append(rec) /\ rec.kind = "COMP_RESULT"
      BY <1>0, <2>1, CompRowType DEF RecordKind, Local
    <2>3. Mild
      BY <1>0, <1>6, <2>2, CompletedAfter DEF CompResult, WritesRecord, EngineVars, Mild
    <2>4. /\ orch'[o].pc \in {"drain", "comp"} /\ orch'[o].br = orch[o].br
          /\ orch'[o].seq = orch[o].seq /\ orch'[o].done = orch[o].done
          /\ orch'[o].grads = orch[o].grads /\ orch[o].pc = "undone"
      BY <1>0, <1>6, <2>1 DEF CompResult, At, Local
    <2> QED BY <1>0, <2>3, <2>4, AheadOf DEF OnPath, Working
  <1>7. CASE Graduate(o)
    <2>1. PICK b \in orch[o].grads : set_branch_status(b, "compensated")
      BY <1>7 DEF Graduate, NextGraduate
    <2>2. /\ orch'[o].pc = "graduated" /\ orch'[o].br = orch[o].br
          /\ orch'[o].seq = orch[o].seq /\ orch'[o].done = orch[o].done
          /\ orch'[o].grads = orch[o].grads /\ orch[o].pc = "graduate"
          /\ UNCHANGED journal
      BY <1>0, <1>7 DEF Graduate, Goto, At, Local, WritesTree
    <2>3. b \in DOMAIN branches /\ ~ IsActive(b) /\ IsActive(orch[o].br)
          /\ orch[o].br \in DOMAIN branches
      BY <1>0, <2>1, <2>2 DEF PathOK, LocalOK, Sound, OnPath, Branchless
    <2>4. PICK m : m = orch'[o]
      OBVIOUS
    <2>5. IsActive(m.br)'
      BY <1>0, <2>1, <2>2, <2>3, <2>4, MarkedBranch DEF IsActive
    <2>6. \A c \in m.grads : ~ IsActive(c)'
      BY <1>0, <2>2, <2>4, GrowthKeeps DEF PathOK, LocalOK, Sound
    <2>7. completed_results(m.br)' = completed_results(orch[o].br)
      BY <2>2, <2>4 DEF completed_results, last_result, Rows
    <2>8. PathOK(m)'
      BY <1>0, <2>2, <2>4, <2>5, <2>6, <2>7 DEF PathOK, OnPath, Working
    <2> QED BY <2>4, <2>8, PathOf
  <1>8. CASE Graduated(o)
    <2>1. PICK b \in DOMAIN branches :
             /\ append(TreeRow("BRANCH_COMPENSATED", b, NoSeverity, {}))
             /\ orch' = [orch EXCEPT ![o] =
                    [@ EXCEPT !.pc = "graduate", !.grads = orch[o].grads \ {b}]]
      BY <1>8 DEF Graduated
    <2>2. TreeRow("BRANCH_COMPENSATED", b, NoSeverity, {}) \in Record
      <3>1. b \in Nat /\ NoSeverity \in Sev /\ "BRANCH_COMPENSATED" \in RecordKind
        BY <1>0 DEF JournalTypeOK, RecordKind, Sev
      <3> QED BY <3>1, TreeRowType
    <2>3. Mild
      BY <1>0, <1>8, <2>1, <2>2, ModestIsMild
         DEF Graduated, WritesRecord, EngineVars, Modest, TreeRow
    <2>4. /\ orch'[o].pc = "graduate" /\ orch'[o].br = orch[o].br
          /\ orch'[o].seq = orch[o].seq /\ orch'[o].done = orch[o].done
          /\ orch'[o].grads \subseteq orch[o].grads /\ orch[o].pc = "graduated"
      BY <1>0, <1>8, <2>1 DEF Graduated, At, Local
    <2> QED BY <1>0, <2>3, <2>4, AheadOf DEF OnPath, Working
  <1>9. CASE Release(o)
    <2>1. StepRow(o, "BARRIER_RELEASED", NoStatus) \in Record
      BY StepRowType DEF RecordKind
    <2>2. Mild
      BY <1>0, <1>9, <2>1, ModestIsMild
         DEF Release, WritesRecord, EngineVars, Modest, StepRow
    <2>3. /\ orch'[o].pc = "intent" /\ orch'[o].br = orch[o].br
          /\ orch'[o].seq = orch[o].seq /\ orch'[o].done = orch[o].done
          /\ orch'[o].grads = orch[o].grads /\ orch[o].pc = "graduate"
      BY <1>0, <1>9 DEF Release, At, Goto, Local
    <2> QED BY <1>0, <2>2, <2>3, AheadOf DEF OnPath, Working
  <1> QED BY <1>1, <1>2, <1>3, <1>4, <1>5, <1>6, <1>7, <1>8, <1>9 DEF Drain

LEMMA FinishPath ==
    ASSUME TypeOK, LocalOK, Grows, Path, NEW o \in Orchestrators, Finish(o)
    PROVE  PathOK(orch[o])'
  <1>0. /\ orch[o] \in Local /\ PathOK(orch[o]) /\ JournalTypeOK
        /\ orch \in [Orchestrators -> Local] /\ Idle.grads = {}
    BY DEF TypeOK, Path, Idle
  <1>1. CASE ReplayFailed(o)
    <2>1. PICK l : /\ orch' = [orch EXCEPT ![o] = l]
                   /\ \/ l = [Idle EXCEPT !.tries = orch[o].tries + 1]
                      \/ l = [Idle EXCEPT !.pc = "returned"]
      BY <1>1 DEF ReplayFailed
    <2>2. l.pc \in {"idle", "returned"} /\ l.grads = {}
      BY <2>1 DEF Idle
    <2>3. orch'[o] = l /\ ~ Diverges'
      BY <1>0, <1>1, <2>1 DEF ReplayFailed, ReadOnly, EngineVars, settings, Diverges
    <2> QED BY <1>0, <2>2, <2>3, LeavesPath, ReturnsPath DEF OnPath
  <1>2. CASE Escalate(o)
    <2>1. orch'[o].pc = "returned" /\ orch'[o].grads = orch[o].grads
      BY <1>0, <1>2 DEF Escalate, Goto, Local
    <2>2. append(EscalationRow(o)) /\ EscalationRow(o) \in Record
          /\ EscalationRow(o).kind = "ESCALATED"
      BY <1>2, OwedRowsType DEF Escalate, EscalationRow, TreeRow
    <2>3. Len(journal) + 1 \in DOMAIN journal'
          /\ journal'[Len(journal) + 1] = EscalationRow(o)
      BY <1>0, <2>2 DEF append, JournalTypeOK
    <2>4. Settled'
      BY <2>2, <2>3 DEF Settled, Rows
    <2> QED BY <1>0, <2>1, <2>4, ReturnsPath
  <1>3. CASE Abandon(o)
    <2>1. orch'[o].pc = "residue" /\ orch'[o].grads = orch[o].grads
      BY <1>0, <1>3 DEF Abandon, Local
    <2> QED BY <1>0, <2>1, LeavesPath DEF OnPath
  <1>4. CASE AbandonWithResidue(o)
    <2>1. orch'[o].pc = "mark" /\ orch'[o].grads = orch[o].grads
      BY <1>0, <1>4 DEF AbandonWithResidue, Goto, Local
    <2> QED BY <1>0, <2>1, LeavesPath DEF OnPath
  <1>5. CASE RecordAbandoned(o)
    <2>1. orch'[o].pc = "fork" /\ orch'[o].grads = orch[o].grads
      BY <1>0, <1>5 DEF RecordAbandoned, Goto, Local
    <2> QED BY <1>0, <2>1, LeavesPath DEF OnPath
  <1>6. CASE Fork(o)
    <2>1. PICK n \in Nat : n = Len(branches) + 1 /\ IsActive(n)'
      <3>1. orch[o].br \in DOMAIN branches /\ orch[o].br \in Nat
        BY <1>0, <1>6 DEF Fork, At, LocalOK, Sound, Local, Branchless
      <3>2. branches[orch[o].br].depth + 1 \in Nat
        <4>1. branches[orch[o].br] \in Branch
          BY <1>0, <3>1 DEF JournalTypeOK
        <4> QED BY <4>1 DEF Branch
      <3>3. PICK p \in Nat, d \in Nat : create_branch(p, d)
        BY <1>6, <3>1, <3>2 DEF Fork
      <3> QED BY <1>0, <3>3, NewBranch
    <2>2. PICK m : m = orch'[o]
      OBVIOUS
    <2>3. m.pc = "forked" /\ m.br = n /\ m.grads = orch[o].grads
      BY <1>0, <1>6, <2>1, <2>2 DEF Fork, Local
    <2>4. \A c \in m.grads : ~ IsActive(c)'
      BY <1>0, <2>3, GrowthKeeps DEF LocalOK, Sound, PathOK
    <2>5. PathOK(m)'
      BY <2>1, <2>3, <2>4 DEF PathOK, OnPath, Working
    <2> QED BY <2>2, <2>5, PathOf
  <1>7. CASE RecordFork(o)
    <2>1. UNCHANGED branches /\ orch[o].pc = "forked"
      BY <1>7 DEF RecordFork, WritesRecord, At
    <2>2. PICK b : b = orch[o].br
      OBVIOUS
    <2>3. TreeRow("BRANCH_FORKED", b, orch[o].chosen, {}) \in Record
      BY <1>0, <2>2, TreeRowType DEF RecordKind, Local
    <2>4. completed_results(b)' = completed_results(b)
      BY <1>0, <1>7, <2>2, <2>3, CompletedAfter DEF RecordFork, TreeRow
    <2>5. PICK sup \in residue \cup {0} :
             orch' = [orch EXCEPT ![o] =
                 [@ EXCEPT !.pc = "step", !.br = b, !.sev = orch[o].chosen, !.sup = sup,
                           !.done = IF Replays THEN completed_results(b) ELSE {},
                           !.seq = 1, !.chosen = NoSeverity]]
      BY <1>7, <2>2 DEF RecordFork, _run_branch
    <2>6. PICK m : m = orch'[o]
      OBVIOUS
    <2>7. /\ m.pc = "step" /\ m.br = b /\ m.seq = 1 /\ m.grads = orch[o].grads
          /\ m.done = IF Replays THEN completed_results(b) ELSE {}
      BY <1>0, <2>5, <2>6 DEF Local
    <2>8. m.done \subseteq completed_results(m.br)'
      BY <2>4, <2>7
    <2>9. IsActive(m.br)' /\ \A c \in m.grads : ~ IsActive(c)'
      BY <1>0, <2>1, <2>2, <2>7 DEF PathOK, IsActive
    <2>10. \A s \in Steps : ~ (s < m.seq)
      BY <2>7 DEF Steps
    <2>11. PathOK(m)'
      BY <2>7, <2>8, <2>9, <2>10 DEF PathOK, Working
    <2> QED BY <2>6, <2>11, PathOf
  <1>8. CASE ForkNaive(o)
    <2>1. PICK n \in Nat : /\ n = Len(branches) + 1 /\ IsActive(n)'
                           /\ \A c \in DOMAIN branches : branches'[c] = branches[c]
      BY <1>0, <1>8, NewBranch DEF ForkNaive
    <2>2. UNCHANGED journal /\ _run_branch(o, n, FirstSeverity)
      BY <1>8, <2>1 DEF ForkNaive, WritesTree
    <2>3. \A c \in orch[o].grads : ~ IsActive(c)'
      BY <1>0, GrowthKeeps DEF LocalOK, Sound, PathOK
    <2> QED BY <2>1, <2>2, <2>3, EntersPath
  <1>9. CASE Ack(o)
    <2>1. orch'[o].pc = "idle" /\ orch'[o].grads = {}
      BY <1>0, <1>9 DEF Ack, Idle
    <2> QED BY <1>0, <2>1, LeavesPath DEF OnPath
  <1> QED BY <1>1, <1>2, <1>3, <1>4, <1>5, <1>6, <1>7, <1>8, <1>9 DEF Finish

------------------------------------------------------------------------------
(* The others, and the environment                                         *)

LEMMA SlotRowFields ==
    ASSUME TypeOK, NEW r \in DOMAIN journal, NEW kind, NEW st
    PROVE  /\ SlotRow(kind, r, st).kind = kind /\ SlotRow(kind, r, st).status = st
           /\ SlotRow(kind, r, st).br = journal[r].br
           /\ SlotRow(kind, r, st).seq = journal[r].seq
  <1>1. journal[r] \in Record
    BY DEF TypeOK, JournalTypeOK
  <1> QED BY <1>1 DEF SlotRow, Record

\* What is not done by the leader: it settles results, and completes steps only.
LEMMA RevisitMild ==
    ASSUME TypeOK, LocalOK, NEW o \in Orchestrators, Revisit(o)
    PROVE  Mild
  <1>1. CASE Resettle(o)
    <2>1. PICK r \in DOMAIN journal : append(SlotRow("RESULT", r, "ok"))
      BY <1>1 DEF Resettle
    <2>2. SlotRow("RESULT", r, "ok") \in Record /\ SlotRow("RESULT", r, "ok").status = "ok"
      BY SlotRowFields, SlotRowType DEF RecordKind, ResultStatus
    <2>3. \A b : completed_results(b) \subseteq completed_results(b)'
      BY <2>1, <2>2, CompletedAfter DEF TypeOK
    <2> QED BY <1>1, <2>3 DEF Resettle, WritesRecord, EngineVars, Mild
  <1>2. CASE Rematch(o)
    <2>1. PICK r \in DOMAIN journal : append(SlotRow("LATE_DELIVERY_SUPPRESSED", r, "ok"))
      BY <1>2 DEF Rematch
    <2>2. /\ SlotRow("LATE_DELIVERY_SUPPRESSED", r, "ok") \in Record
          /\ SlotRow("LATE_DELIVERY_SUPPRESSED", r, "ok").kind = "LATE_DELIVERY_SUPPRESSED"
      BY SlotRowFields, SlotRowType DEF RecordKind, ResultStatus
    <2> QED BY <1>2, <2>1, <2>2, ModestIsMild
            DEF Rematch, WritesRecord, EngineVars, Modest, TypeOK
  <1>3. CASE Reconcile(o) \/ Recheck(o) \/ Reprobe(o) \/ Reconciled(o)
    BY <1>3, ModestIsMild DEF Reconcile, Recheck, Reprobe, Reconciled, ReadOnly, CallsWorld,
                              EngineVars, Modest, TypeOK, journalVars
  <1> QED BY <1>1, <1>2, <1>3 DEF Revisit

LEMMA EnvironmentMild ==
    ASSUME TypeOK, \/ Lapse \/ Redeliver \/ Land \/ UNCHANGED vars
                   \/ \E o \in Orchestrators : Start(o) \/ NotLeader(o) \/ Crash(o)
    PROVE  Mild
  BY ModestIsMild DEF Lapse, Redeliver, Land, Start, NotLeader, Crash, ReadOnly, vars,
                      EngineVars, Modest, TypeOK, journalVars

LEMMA PathInit == Init => Path
  <1> SUFFICES ASSUME Init PROVE Path
    OBVIOUS
  <1>1. ~ acked /\ \A o \in Orchestrators : orch[o] = Idle
    BY DEF Init
  <1>2. PathOK(Idle)
    BY OffPath DEF Idle, OnPath
  <1> QED BY <1>1, <1>2 DEF Path

LEMMA PathNext ==
    ASSUME TypeOK, LocalOK, Grows, Sole, Sole', Path, [Next]_vars
    PROVE  Path'
  <1>0. JournalTypeOK /\ \A o \in Orchestrators : PathOK(orch[o])
    BY DEF TypeOK, Path
  <1>1. ASSUME Mild, NEW p \in Orchestrators, orch'[p] = orch[p]
        PROVE  PathOK(orch[p])'
    <2>1. PICK m : m = orch[p] /\ m = orch'[p]
      BY <1>1
    <2>2. PathOK(m)'
      BY <1>0, <1>1, <2>1, PathKept
    <2> QED BY <2>1, <2>2, PathOf
  \* A step of the leader: the others are on no branch.
  <1>2. ASSUME NEW o \in Orchestrators, NEW p \in Orchestrators \ {o},
               Busy(o), orch'[p] = orch[p]
        PROVE  PathOK(orch[p])'
    <2>1. ~ Busy(p)
      BY <1>2 DEF Sole
    <2>2. PICK m : m = orch[p] /\ m = orch'[p]
      BY <1>2
    <2>3. \A c \in m.grads : ~ IsActive(c)'
      BY <1>0, <2>2, GrowthKeeps DEF LocalOK, Sound, PathOK
    <2>4. PathOK(m)'
      BY <2>1, <2>2, <2>3 DEF Busy, PathOK, OnPath, Working
    <2> QED BY <2>2, <2>4, PathOf
  <1>3. ASSUME NEW o \in Orchestrators, Mild, PathOK(orch[o])',
               \A p \in Orchestrators \ {o} : orch'[p] = orch[p],
               acked' => acked
        PROVE  Path'
    <2>1. acked /\ Diverges => Settled'
      BY <1>0, <1>3, SettledStays DEF Path
    <2>2. Diverges' <=> Diverges
      BY <1>3 DEF Mild, settings, Diverges
    <2> QED BY <1>1, <1>3, <2>1, <2>2 DEF Path
  <1>4. ASSUME NEW o \in Orchestrators, Busy(o), PathOK(orch[o])',
               \A p \in Orchestrators \ {o} : orch'[p] = orch[p],
               ~ acked'
        PROVE  Path'
    BY <1>2, <1>4 DEF Path
  <1>5. ASSUME NEW o \in Orchestrators, Start(o) \/ NotLeader(o) PROVE Path'
    <2>1. PathOK(orch[o])'
      BY <1>5, LeadPath DEF Lead
    <2>2. \A p \in Orchestrators \ {o} : orch'[p] = orch[p]
      BY <1>5 DEF Start, NotLeader, TypeOK
    <2>3. acked' => acked
      BY <1>5 DEF Start, NotLeader, ReadOnly, EngineVars
    <2>4. Mild
      BY <1>5, EnvironmentMild
    <2> QED BY <1>3, <2>1, <2>2, <2>3, <2>4
  <1>6. ASSUME NEW o \in Orchestrators,
               \/ SelectActive(o) \/ SelectFresh(o) \/ SelectNaive(o)
               \/ Walk(o) \/ Settle(o) \/ Drain(o) \/ (Finish(o) /\ ~ Ack(o))
        PROVE  Path'
    <2>1. PathOK(orch[o])'
      BY <1>6, LeadPath, WalkPath, SettlePath, DrainPath, FinishPath DEF Lead
    <2>2. Run(o)
      BY <1>6 DEF Run, Lead
    <2>3. Busy(o)
      <3>1. CASE SelectActive(o) \/ SelectFresh(o) \/ SelectNaive(o)
        BY <3>1 DEF SelectActive, SelectFresh, SelectNaive, At, Busy
      <3>2. CASE Walk(o)
        BY <3>2 DEF Walk, Replay, Complete, Pass, Block, Intent, Execute, ToExecute, At, Busy
      <3>3. CASE Settle(o)
        BY <3>3 DEF Settle, Probe, Ambiguous, Suppress, RecordResult, At, Busy
      <3>4. CASE Drain(o)
        BY <3>4 DEF Drain, Drained, BeginPass, GiveUp, CompIntent, Undo, CompResult,
                    Graduate, Graduated, Release, At, Busy
      <3>5. CASE Finish(o)
        BY <3>5 DEF Finish, ReplayFailed, Escalate, Abandon, AbandonWithResidue,
                    RecordAbandoned, Fork, RecordFork, ForkNaive, Ack, At, Busy
      <3> QED BY <1>6, <3>1, <3>2, <3>3, <3>4, <3>5
    <2>4. ~ Start(o)
      BY <2>3 DEF Start, At, Busy
    <2>5. ~ Ack(o)
      <3>1. ASSUME Ack(o) PROVE FALSE
        <4>1. orch[o].pc = "returned"
          BY <3>1 DEF Ack, At
        <4> QED BY <1>6, <3>1, <4>1
                DEF SelectActive, SelectFresh, SelectNaive, Walk, Replay, Complete, Pass,
                    Block, Intent, Execute, ToExecute, Settle, Probe, Ambiguous, Suppress,
                    RecordResult, Drain, Drained, BeginPass, GiveUp, CompIntent, Undo,
                    CompResult, Graduate, Graduated, Release, At
      <3> QED BY <3>1
    <2>6. ~ acked /\ UNCHANGED acked /\ Moved(o)
      BY <2>2, <2>3, <2>4, <2>5, BusyBefore, RunMoves DEF Sole
    <2> QED BY <1>4, <2>1, <2>3, <2>6 DEF Moved
  <1>7. ASSUME NEW o \in Orchestrators, Ack(o) PROVE Path'
    <2>1. PathOK(orch[o])'
      BY <1>7, FinishPath DEF Finish
    <2>2. orch[o].pc = "returned" /\ \A p \in Orchestrators \ {o} : orch'[p] = orch[p]
      BY <1>7 DEF Ack, At, TypeOK
    <2>3. Busy(o)
      BY <2>2 DEF Busy
    <2>4. Diverges => Settled
      BY <1>0, <2>2 DEF PathOK
    <2>5. Modest /\ UNCHANGED << branches, settings >>
      BY <1>7 DEF Ack, journalVars, Modest
    <2>6. Mild
      BY <1>0, <2>5, ModestIsMild
    <2>7. Diverges' => Settled'
      BY <1>0, <2>4, <2>5, <2>6, SettledStays DEF settings, Diverges
    <2> QED BY <1>2, <2>1, <2>2, <2>3, <2>7 DEF Path
  <1>8. ASSUME NEW o \in Orchestrators, Revisit(o) PROVE Path'
    <2>1. Mild /\ Moved(o) /\ UNCHANGED acked
      <3>1. Run(o)
        BY <1>8 DEF Run
      <3>2. orch[o].pc \in {"idle", "recheck", "rechecked", "matched"}
        BY <1>8 DEF Revisit, Reconcile, Recheck, Reprobe, Rematch, Resettle, Reconciled, At
      <3>3. ~ Ack(o)
        BY <3>2 DEF Ack, At
      <3>4. ~ Start(o)
        BY <1>8, <3>2 DEF Start, At, Revisit, Reconcile, Recheck, Reprobe, Rematch,
                          Resettle, Reconciled
      <3> QED BY <1>8, <3>1, <3>3, <3>4, RunMoves, BusyBefore, RevisitMild
    <2>2. orch'[o].grads \subseteq orch[o].grads
      <3>1. orch[o] \in Local
        BY DEF TypeOK
      <3>2. CASE Reconcile(o) \/ Reconciled(o)
        <4>1. CASE Reconcile(o)  BY <4>1 DEF Reconcile, Idle, TypeOK
        <4>2. CASE Reconciled(o) BY <4>2 DEF Reconciled, Idle, TypeOK
        <4> QED BY <3>2, <4>1, <4>2
      <3>3. CASE Recheck(o)   BY <3>1, <3>3 DEF Recheck, TypeOK, Local
      <3>4. CASE Rematch(o)   BY <3>1, <3>4 DEF Rematch, Goto, TypeOK, Local
      <3>5. ASSUME NEW r, DropRedo(o, r) PROVE orch'[o].grads = orch[o].grads
        BY <3>1, <3>5 DEF DropRedo, TypeOK, Local
      <3>6. CASE Resettle(o)  BY <3>5, <3>6 DEF Resettle
      <3>7. CASE Reprobe(o)
        <4>1. orch' = [orch EXCEPT ![o].res = "ok"] => orch'[o].grads = orch[o].grads
          BY <3>1 DEF TypeOK, Local
        <4> QED BY <3>5, <3>7, <4>1 DEF Reprobe
      <3> QED BY <1>8, <3>2, <3>3, <3>4, <3>6, <3>7 DEF Revisit
    <2>3. ~ Busy(o)'
      <3>1. ~ Busy(o)
        BY <1>8 DEF Revisit, Reconcile, Recheck, Reprobe, Rematch, Resettle, Reconciled,
                    At, Busy
      <3>2. Run(o) /\ ~ Start(o)
        <4>1. Run(o)
          BY <1>8 DEF Run
        <4>2. Start(o) => FALSE
          BY <1>8 DEF Start, At, Revisit, Reconcile, Recheck, Reprobe, Rematch,
                      Resettle, Reconciled
        <4> QED BY <4>1, <4>2
      <3> QED BY <3>1, <3>2, BusyBefore
    <2>4. PathOK(orch[o])'
      BY <1>0, <2>2, <2>3, LeavesPath DEF Busy, OnPath
    <2> QED BY <1>3, <2>1, <2>4 DEF Moved
  <1>9. ASSUME NEW o \in Orchestrators, Crash(o) PROVE Path'
    <2>1. /\ orch'[o].pc = "idle" /\ orch'[o].grads = {}
          /\ \A p \in Orchestrators \ {o} : orch'[p] = orch[p]
      BY <1>9 DEF Crash, Idle, TypeOK
    <2>2. PathOK(orch[o])'
      BY <1>0, <2>1, LeavesPath DEF OnPath
    <2> QED BY <1>3, <1>9, <2>1, <2>2, EnvironmentMild DEF Crash
  <1>10. CASE Lapse \/ Redeliver \/ Land \/ UNCHANGED vars
    <2>1. Mild /\ UNCHANGED orch /\ (acked' => acked)
      <3>1. Mild
        BY <1>10, EnvironmentMild
      <3>2. UNCHANGED orch /\ (acked' => acked)
        BY <1>10 DEF Lapse, Redeliver, Land, vars, EngineVars
      <3> QED BY <3>1, <3>2
    <2>2. acked /\ Diverges => Settled'
      BY <1>0, <2>1, SettledStays DEF Path
    <2>3. Diverges' <=> Diverges
      BY <2>1 DEF Mild, settings, Diverges
    <2> QED BY <1>1, <2>1, <2>2, <2>3 DEF Path
  <1> QED BY <1>5, <1>6, <1>7, <1>8, <1>9, <1>10 DEF Next, Run, Lead

\* While no lease lapses under a working leader there is one leader, the branch it
\* steps on is alive, and everything before its step is done there.
LEMMA OneLeader == ASSUME NoTakeover PROVE Spec => [](Sole /\ Path)
  <1>1. Sole /\ TypeOK /\ [Next]_vars => Sole'
    BY SoleNext
  <1>2. Spec => []Sole
    BY <1>1, SoleInit, TypeCorrect, PTL DEF Spec
  <1>3. Path /\ TypeOK /\ LocalOK /\ Sole /\ Sole' /\ [Next]_vars => Path'
    BY PathNext, TypesNext
  <1> QED BY <1>2, <1>3, PathInit, TypeCorrect, PTL DEF Spec

\* The alert is acknowledged only after a live branch ran to its end or an
\* escalation was journaled, through any crashes, faults, redeliveries and
\* reconciliations, provided that no lease lapses under a working leader (engine.recover
\* returns only then, and main's loop acknowledges only what it returned).
THEOREM AckedIsSettledHolds == ASSUME NoTakeover PROVE Spec => []AckedIsSettled
  <1>1. Path => AckedIsSettled
    BY DEF Path, AckedIsSettled
  <1> QED BY <1>1, OneLeader, PTL

------------------------------------------------------------------------------
(* ... and no reconciliation overlaps a delivery                           *)

\* Whoever reconciles does so while nobody is on a delivery: there is no request to
\* (main runs reconcile_unknowns on request only), or the alert is not delivered
\* again, or the process that would take it is the one that reconciles.
Apart == \/ MaxReconcile = 0
         \/ MaxRedeliver = 0
         \/ \A o, p \in Orchestrators : o = p

\* What the system undoes is never delivered late: the pager is the one service
\* scenarios.py lets time out and deliver afterwards.
UndoableInTime ==
    \A s \in Scenarios : s.faults.late_delivery_tools \cap Compensatable = {}

Resting == {"recheck", "rechecked", "matched"}

\* The settings are a scenario's, what is late is a tool's that may be late, and who
\* reconciles is the last leader, while the alert rests if others could take it.
Calm ==
    /\ \E s \in Scenarios : config = s.config /\ faults = s.faults
    /\ \A k \in LateKeys : ToolOf(k) \in faults.late_delivery_tools
    /\ \A o \in Orchestrators : orch[o].pc \in Resting =>
          /\ lease.owner = o /\ MaxReconcile # 0
          /\ MaxRedeliver = 0 => acked

LEMMA RestAlone ==
    ASSUME Sole, Calm, NEW o \in Orchestrators, orch[o].pc \in Resting
    PROVE  \A p \in Orchestrators : ~ Busy(p)
  BY DEF Sole, Calm, Busy, Resting

LEMMA CallsOnly ==
    ASSUME NEW o \in Orchestrators, Run(o) \/ Crash(o)
    PROVE  UNCHANGED worldVars \/ Execute(o) \/ Undo(o) \/ Recheck(o)
  <1> USE DEF worldVars, ReadOnly, WritesRecord, WritesTree
  <1>1. CASE Lead(o) \/ Crash(o)
    BY <1>1 DEF Lead, Start, NotLeader, SelectActive, SelectFresh, SelectNaive, Crash
  <1>2. CASE Walk(o) \/ Settle(o)
    BY <1>2 DEF Walk, Replay, Complete, Pass, Block, Intent, Settle, Probe, Ambiguous,
                Suppress, RecordResult
  <1>3. CASE Drain(o)
    BY <1>3 DEF Drain, Drained, BeginPass, GiveUp, CompIntent, CompResult, Graduate,
                Graduated, Release
  <1>4. CASE Finish(o)
    BY <1>4 DEF Finish, ReplayFailed, Escalate, Abandon, AbandonWithResidue,
                RecordAbandoned, Fork, RecordFork, ForkNaive, Ack
  <1>5. CASE Revisit(o)
    BY <1>5 DEF Revisit, Reconcile, Reprobe, Rematch, Resettle, Reconciled
  <1> QED BY <1>1, <1>2, <1>3, <1>4, <1>5 DEF Run

\* What a leader executes is of its live branch, what it undoes of a dead one.
LEMMA ExecuteDoes ==
    ASSUME TypeOK, LocalOK, Path, NEW o \in Orchestrators, Execute(o)
    PROVE  LET k == effect_key(orch[o].br, orch[o].seq) IN
           /\ k \in Key /\ k[1] = orch[o].br /\ k[2] = orch[o].seq
           /\ k[1] \in DOMAIN branches /\ IsActive(k[1])
           /\ Still \/ Effect(k)
           /\ \A q \in LateKeys' : q \in LateKeys \/ (q = k /\ ToolOf(k) \in faults.late_delivery_tools)
           /\ UNCHANGED << journal, branches, settings >>
  <1> DEFINE k == effect_key(orch[o].br, orch[o].seq)
  <1>1. PICK res \in ResultStatus : execute(Call(o), orch[o].epoch, res)
    BY DEF Execute
  <1>2. /\ orch[o].pc = "call" /\ orch[o].seq \in Steps /\ orch[o].br \in DOMAIN branches
        /\ orch[o].epoch \in Nat /\ orch[o].br \in Nat /\ WorldTypeOK
        /\ UNCHANGED << journal, branches, settings >>
    BY DEF Execute, At, TypeOK, LocalOK, Sound, Working, Branchless, Local, CallsWorld,
           journalVars, EngineVars
  <1>3. Call(o) \in Request /\ Call(o).key = k
    BY <1>2, CallType DEF effect_key
  <1>4. k \in Key /\ k[1] = orch[o].br /\ k[2] = orch[o].seq
    BY <1>2 DEF effect_key, Key
  <1>5. IsActive(k[1])
    BY <1>2, <1>4 DEF Path, PathOK, OnPath
  <1>6. (Still \/ Effect(k)) /\ BagToSet(late') \subseteq BagToSet(late) \cup {Call(o)}
    BY <1>1, <1>2, <1>3, ExecuteStep
  <1>7. late' # late => ToolOf(k) \in faults.late_delivery_tools
    BY <1>1, <1>3 DEF execute, TurnedAway, let_in, take_effect, worldVars
  <1>8. \A q \in LateKeys' : q \in LateKeys \/ (q = k /\ ToolOf(k) \in faults.late_delivery_tools)
    BY <1>3, <1>6, <1>7 DEF LateKeys
  <1> QED BY <1>2, <1>4, <1>5, <1>6, <1>8

LEMMA UndoDoes ==
    ASSUME TypeOK, LocalOK, NEW o \in Orchestrators, Undo(o)
    PROVE  /\ UNCHANGED << journal, branches, settings, late >>
           /\ \E r \in orch[o].todo, res \in ResultStatus :
                 /\ Latest(orch[o], r) /\ DeadKey(KeyOf(r)) /\ KeyOf(r) \in Key
                 /\ orch'[o] = [orch[o] EXCEPT !.pc = "undone", !.res = res]
                 /\ \/ Still /\ res # "ok"
                    \/ /\ Compensation(KeyOf(r))
                       /\ res = "ok" \/ ToolOf(KeyOf(r)) \in faults.lost_replies
  <1>1. PICK r \in DOMAIN journal, res \in ResultStatus :
           /\ NextUndo(o, r)
           /\ compensate([key |-> KeyOf(r), sev |-> journal[r].sev, sup |-> 0],
                         orch[o].epoch, res)
           /\ orch' = [orch EXCEPT ![o] = [@ EXCEPT !.pc = "undone", !.res = res]]
    BY DEF Undo
  <1>2. /\ Latest(orch[o], r) /\ Undoable(r) /\ r \in orch[o].todo
        /\ orch[o].epoch \in Nat /\ WorldTypeOK /\ journal[r] \in Record
        /\ orch'[o] = [orch[o] EXCEPT !.pc = "undone", !.res = res]
    BY <1>1 DEF NextUndo, Latest, TypeOK, JournalTypeOK, LocalOK, Sound, Local
  <1>3. DeadKey(KeyOf(r)) /\ KeyOf(r) \in Key
    BY <1>2 DEF Undoable, DeadKey, KeyOf, effect_key, Key, Record
  <1> DEFINE req == [key |-> KeyOf(r), sev |-> journal[r].sev, sup |-> 0]
  <1>4. req \in Request /\ req.key = KeyOf(r)
    BY <1>2, <1>3 DEF Record, Request
  <1>5. /\ (Still /\ res # "ok") \/ Compensation(req.key)
        /\ UNCHANGED late
    BY <1>1, <1>2, <1>4, CompensateStep
  <1>6. \/ Still /\ res # "ok"
        \/ res = "ok" \/ ToolOf(req.key) \in faults.lost_replies
    <2>1. ledger' # ledger =>
             /\ record("compensation", req, orch[o].epoch)
             /\ Reply(ToolOf(req.key), "ok", res)
      BY <1>1 DEF compensate, TurnedAway, undo_effect, worldVars
    <2>2. CASE ledger' # ledger
      BY <2>1, <2>2 DEF Reply
    <2>3. CASE ledger' = ledger
      <3>1. Still
        <4>1. ~ Compensation(req.key)
          BY <1>2, <2>3 DEF Compensation, WorldTypeOK
        <4> QED BY <1>5, <4>1
      <3>2. res # "ok"
        <4>1. ~ Compensation(req.key)
          BY <1>2, <2>3 DEF Compensation, WorldTypeOK
        <4> QED BY <1>5, <4>1
      <3> QED BY <3>1, <3>2
    <2> QED BY <2>2, <2>3
  <1>7. UNCHANGED << journal, branches, settings >>
    BY DEF Undo, CallsWorld, journalVars, EngineVars
  <1> QED BY <1>2, <1>3, <1>4, <1>5, <1>6, <1>7

LEMMA CalmInit == Init => Calm
  <1> SUFFICES ASSUME Init PROVE Calm
    OBVIOUS
  <1>1. LateKeys = {}
    BY DEF Init, WorldInit, LateKeys, BagToSet, EmptyBag, SetToBag
  <1>2. \A o \in Orchestrators : orch[o].pc = "idle"
    BY DEF Init, Idle
  <1> QED BY <1>1, <1>2 DEF Init, Calm, Resting

\* What a reconciler drives once more is a result it remembers.
LEMMA RecheckDoes ==
    ASSUME TypeOK, LocalOK, NEW o \in Orchestrators, Recheck(o)
    PROVE  /\ UNCHANGED << journal, branches, settings >>
           /\ \E r \in orch[o].redo :
                 /\ KeyOf(r) \in Key
                 /\ Still \/ Effect(KeyOf(r))
                 /\ \A q \in LateKeys' :
                       \/ q \in LateKeys
                       \/ q = KeyOf(r) /\ ToolOf(q) \in faults.late_delivery_tools
  <1>1. PICK r \in DOMAIN journal, res \in ResultStatus :
           /\ NextRedo(o, r)
           /\ execute([key |-> KeyOf(r), sev |-> journal[r].sev, sup |-> journal[r].sup],
                      orch[o].epoch, res)
    BY DEF Recheck
  <1>2. /\ r \in orch[o].redo /\ journal[r].seq \in Steps
        /\ orch[o].epoch \in Nat /\ WorldTypeOK /\ journal[r] \in Record
    BY <1>1 DEF NextRedo, TypeOK, JournalTypeOK, LocalOK, Sound, Local
  <1>3. KeyOf(r) \in Key
    BY <1>2 DEF KeyOf, effect_key, Key, Record
  <1> DEFINE req == [key |-> KeyOf(r), sev |-> journal[r].sev, sup |-> journal[r].sup]
  <1>4. req \in Request /\ req.key = KeyOf(r)
    BY <1>2, <1>3 DEF Record, Request
  <1>5. (Still \/ Effect(req.key)) /\ BagToSet(late') \subseteq BagToSet(late) \cup {req}
    BY <1>1, <1>2, <1>4, ExecuteStep
  <1>6. late' # late => ToolOf(req.key) \in faults.late_delivery_tools
    BY <1>1 DEF execute, TurnedAway, let_in, take_effect, worldVars
  <1>7. \A q \in LateKeys' : \/ q \in LateKeys
                             \/ q = KeyOf(r) /\ ToolOf(q) \in faults.late_delivery_tools
    BY <1>4, <1>5, <1>6 DEF LateKeys
  <1>8. UNCHANGED << journal, branches, settings >>
    BY DEF Recheck, CallsWorld, journalVars, EngineVars
  <1> QED BY <1>2, <1>3, <1>4, <1>5, <1>7, <1>8

------------------------------------------------------------------------------
(* Where a step leads                                                      *)

\* A process that is on a branch after the step was there before, at the same place
\* of the trace; nothing diverges, dies or forks.
Plain(o) ==
    /\ \A p \in Orchestrators \ {o} : orch'[p] = orch[p]
    /\ orch'[o].pc \notin {"diverge", "residue", "mark", "fork", "forked"}
    /\ orch'[o].pc \in OnPath => /\ orch[o].pc \in OnPath
                                 /\ orch'[o].br = orch[o].br
                                 /\ orch'[o].seq = orch[o].seq
                                 /\ orch'[o].done = orch[o].done
    /\ orch'[o].pc \in Resting => orch[o].pc \in Resting \/ Reconcile(o)

LEMMA PlainJump ==
    ASSUME TypeOK, NEW o \in Orchestrators, NEW l, orch' = [orch EXCEPT ![o] = l],
           l.pc \notin {"diverge", "residue", "mark", "fork", "forked"},
           \/ l.pc \notin OnPath
           \/ /\ orch[o].pc \in OnPath
              /\ l.br = orch[o].br /\ l.seq = orch[o].seq /\ l.done = orch[o].done,
           l.pc \in Resting => orch[o].pc \in Resting \/ Reconcile(o)
    PROVE  Plain(o)
  <1>1. orch'[o] = l /\ \A p \in Orchestrators \ {o} : orch'[p] = orch[p]
    BY DEF TypeOK
  <1> QED BY <1>1 DEF Plain

LEMMA PlainMoves ==
    ASSUME TypeOK, NEW o \in Orchestrators,
           \/ Start(o) \/ NotLeader(o) \/ Complete(o) \/ Pass(o) \/ Block(o)
           \/ Intent(o) \/ Execute(o) \/ Probe(o) \/ Ambiguous(o) \/ Suppress(o)
           \/ Drain(o) \/ ReplayFailed(o) \/ Escalate(o) \/ Ack(o) \/ Crash(o)
           \/ Revisit(o)
    PROVE  Plain(o)
  <1>0. orch[o] \in Local
    BY DEF TypeOK
  <1> USE DEF At, Goto, OnPath, Resting
  <1>1. CASE Start(o)         BY <1>1, PlainJump DEF Start, Idle
  <1>2. CASE NotLeader(o)     BY <1>2, PlainJump DEF NotLeader, Idle
  <1>3. CASE Complete(o)      BY <1>0, <1>3, PlainJump DEF Complete, Local
  <1>4. CASE Pass(o)          BY <1>0, <1>4, PlainJump DEF Pass, ToExecute, Local
  <1>5. CASE Block(o)         BY <1>0, <1>5, PlainJump DEF Block, ToExecute, Local
  <1>6. CASE Intent(o)        BY <1>0, <1>6, PlainJump DEF Intent, Local
  <1>7. CASE Execute(o)       BY <1>0, <1>7, PlainJump DEF Execute, Local
  <1>8. CASE Probe(o)         BY <1>0, <1>8, PlainJump DEF Probe, Local
  <1>9. CASE Ambiguous(o)     BY <1>0, <1>9, PlainJump DEF Ambiguous, Local
  <1>10. CASE Suppress(o)     BY <1>0, <1>10, PlainJump DEF Suppress, Local
  <1>11. CASE Drained(o)      BY <1>0, <1>11, PlainJump DEF Drained, Local
  <1>12. CASE BeginPass(o)    BY <1>0, <1>12, PlainJump DEF BeginPass, Local
  <1>13. CASE GiveUp(o)       BY <1>0, <1>13, PlainJump DEF GiveUp, Local
  <1>14. CASE CompIntent(o)   BY <1>0, <1>14, PlainJump DEF CompIntent, Local
  <1>15. CASE Undo(o)         BY <1>0, <1>15, PlainJump DEF Undo, Local
  <1>16. CASE CompResult(o)   BY <1>0, <1>16, PlainJump DEF CompResult, Local
  <1>17. CASE Graduate(o)     BY <1>0, <1>17, PlainJump DEF Graduate, Local
  <1>18. CASE Graduated(o)    BY <1>0, <1>18, PlainJump DEF Graduated, Local
  <1>19. CASE Release(o)      BY <1>0, <1>19, PlainJump DEF Release, Local
  <1>20. CASE ReplayFailed(o)
    <2>1. PICK l : /\ orch' = [orch EXCEPT ![o] = l]
                   /\ \/ l = [Idle EXCEPT !.tries = orch[o].tries + 1]
                      \/ l = [Idle EXCEPT !.pc = "returned"]
      BY <1>20 DEF ReplayFailed
    <2>2. l.pc \in {"idle", "returned"}
      BY <2>1 DEF Idle
    <2> QED BY <2>1, <2>2, PlainJump
  <1>21. CASE Escalate(o)     BY <1>0, <1>21, PlainJump DEF Escalate, Local
  <1>22. CASE Ack(o)          BY <1>22, PlainJump DEF Ack, Idle
  <1>23. CASE Crash(o)        BY <1>23, PlainJump DEF Crash, Idle
  <1>24. CASE Reconcile(o)    BY <1>24, PlainJump DEF Reconcile, Idle
  <1>25. CASE Recheck(o)      BY <1>0, <1>25, PlainJump DEF Recheck, Local
  <1>26. CASE Rematch(o)      BY <1>0, <1>26, PlainJump DEF Rematch, Local
  <1>27. ASSUME NEW r, DropRedo(o, r), orch[o].pc \in Resting PROVE Plain(o)
    BY <1>0, <1>27, PlainJump DEF DropRedo, Local
  <1>28. CASE Resettle(o)     BY <1>27, <1>28 DEF Resettle
  <1>29. CASE Reprobe(o)
    <2>1. orch[o].pc = "rechecked"
      BY <1>29 DEF Reprobe
    <2>2. ASSUME orch' = [orch EXCEPT ![o].res = "ok"] PROVE Plain(o)
      BY <1>0, <2>1, <2>2, PlainJump DEF Local
    <2> QED BY <1>27, <1>29, <2>1, <2>2 DEF Reprobe
  <1>30. CASE Reconciled(o)   BY <1>30, PlainJump DEF Reconciled, Idle
  <1> QED BY <1>1, <1>2, <1>3, <1>4, <1>5, <1>6, <1>7, <1>8, <1>9, <1>10, <1>11, <1>12,
             <1>13, <1>14, <1>15, <1>16, <1>17, <1>18, <1>19, <1>20, <1>21, <1>22, <1>23,
             <1>24, <1>25, <1>26, <1>28, <1>29, <1>30 DEF Drain, Revisit

\* The other steps, by where they lead.
LEMMA OtherMoves ==
    ASSUME TypeOK, NEW o \in Orchestrators
    PROVE  /\ SelectActive(o) \/ SelectFresh(o) \/ RecordFork(o) \/ ForkNaive(o) \/ Replay(o)
              => orch'[o].pc = "step"
           /\ SelectNaive(o) \/ Abandon(o) => orch'[o].pc = "residue"
           /\ AbandonWithResidue(o) => orch'[o].pc = "mark"
           /\ RecordAbandoned(o) => orch'[o].pc = "fork"
           /\ Fork(o) => orch'[o].pc = "forked"
           /\ RecordResult(o) => orch'[o].pc \in {"step", "diverge", "escalate"}
  <1>0. orch[o] \in Local /\ orch \in [Orchestrators -> Local]
    BY DEF TypeOK
  <1>1. SelectActive(o) \/ SelectFresh(o) \/ RecordFork(o) \/ ForkNaive(o)
        => orch'[o].pc = "step"
    <2>1. ASSUME NEW b, NEW sev, _run_branch(o, b, sev) PROVE orch'[o].pc = "step"
      BY <1>0, <2>1 DEF _run_branch, Local
    <2> QED BY <2>1 DEF SelectActive, SelectFresh, RecordFork, ForkNaive
  <1>2. Replay(o) => orch'[o].pc = "step"
    BY <1>0 DEF Replay, At, Local
  <1>3. SelectNaive(o) \/ Abandon(o) => orch'[o].pc = "residue"
    BY <1>0 DEF SelectNaive, Abandon, Local
  <1>4. /\ AbandonWithResidue(o) => orch'[o].pc = "mark"
        /\ RecordAbandoned(o) => orch'[o].pc = "fork"
        /\ Fork(o) => orch'[o].pc = "forked"
    BY <1>0 DEF AbandonWithResidue, RecordAbandoned, Fork, Goto, Local
  <1>5. ASSUME RecordResult(o) PROVE orch'[o].pc \in {"step", "diverge", "escalate"}
    <2> DEFINE settled == [orch[o] EXCEPT !.prior = FALSE, !.res = NoStatus]
    <2>1. settled \in Local
      BY <1>0 DEF Local
    <2>2. \/ orch'[o] = [settled EXCEPT !.pc = "diverge"]
          \/ orch'[o] = [settled EXCEPT !.pc = "escalate"]
          \/ orch'[o] = [settled EXCEPT !.pc = "diverge", !.armed = FALSE]
          \/ orch'[o] = [settled EXCEPT !.pc = "step", !.seq = @ + 1]
      BY <1>0, <1>5 DEF RecordResult
    <2> QED BY <2>1, <2>2 DEF Local
  <1> QED BY <1>1, <1>2, <1>3, <1>4, <1>5

\* ... and the plain ones.
LEMMA StepsTo ==
    ASSUME TypeOK, NEW o \in Orchestrators
    PROVE  /\ Start(o) => orch'[o].pc = "select"
           /\ NotLeader(o) \/ Ack(o) \/ Crash(o) => orch'[o].pc = "idle"
           /\ ReplayFailed(o) => orch'[o].pc \in {"idle", "returned"}
           /\ Complete(o) \/ Escalate(o) => orch'[o].pc = "returned"
           /\ Pass(o) \/ Release(o) => orch'[o].pc = "intent"
           /\ Block(o) => orch'[o].pc = "drain"
           /\ Intent(o) => orch'[o].pc = "call"
           /\ Execute(o) \/ Suppress(o) => orch'[o].pc = "called"
           /\ Probe(o) => orch'[o].pc \in {"called", "ambiguous"}
           /\ Ambiguous(o) \/ GiveUp(o) => orch'[o].pc = "escalate"
           /\ Drained(o) \/ Graduated(o) => orch'[o].pc = "graduate"
           /\ Graduate(o) => orch'[o].pc = "graduated"
           /\ BeginPass(o) => orch'[o].pc = "comp"
           /\ CompIntent(o) => orch'[o].pc = "undo"
           /\ Undo(o) => orch'[o].pc = "undone"
           /\ CompResult(o) => orch'[o].pc \in {"drain", "comp"}
           /\ Revisit(o) => orch'[o].pc \in {"idle", "recheck", "rechecked", "matched"}
  <1>0. orch[o] \in Local /\ orch \in [Orchestrators -> Local]
    BY DEF TypeOK
  <1> USE DEF At, Goto
  <1>1. Start(o) => orch'[o].pc = "select"
    BY <1>0 DEF Start, Idle
  <1>2. NotLeader(o) => orch'[o].pc = "idle"
    BY <1>0 DEF NotLeader, Idle
  <1>3. Ack(o) => orch'[o].pc = "idle"
    BY <1>0 DEF Ack, Idle
  <1>4. Crash(o) => orch'[o].pc = "idle"
    BY <1>0 DEF Crash, Idle
  <1>5. ASSUME ReplayFailed(o) PROVE orch'[o].pc \in {"idle", "returned"}
    <2>1. PICK l : /\ orch' = [orch EXCEPT ![o] = l]
                   /\ \/ l = [Idle EXCEPT !.tries = orch[o].tries + 1]
                      \/ l = [Idle EXCEPT !.pc = "returned"]
      BY <1>5 DEF ReplayFailed
    <2>2. l.pc \in {"idle", "returned"}
      BY <2>1 DEF Idle
    <2> QED BY <1>0, <2>1, <2>2
  <1>6. Complete(o) => orch'[o].pc = "returned"
    BY <1>0 DEF Complete, Local
  <1>7. Escalate(o) => orch'[o].pc = "returned"
    BY <1>0 DEF Escalate, Local
  <1>8. Pass(o) => orch'[o].pc = "intent"
    BY <1>0 DEF Pass, Local
  <1>9. Release(o) => orch'[o].pc = "intent"
    BY <1>0 DEF Release, Local
  <1>10. Block(o) => orch'[o].pc = "drain"
    BY <1>0 DEF Block, Local
  <1>11. Intent(o) => orch'[o].pc = "call"
    BY <1>0 DEF Intent, Local
  <1>12. Execute(o) => orch'[o].pc = "called"
    BY <1>0 DEF Execute, Local
  <1>13. ASSUME Suppress(o) PROVE orch'[o].pc = "called"
    <2>1. orch[o].pc = "called" /\ orch' = [orch EXCEPT ![o].prior = FALSE]
      BY <1>13 DEF Suppress
    <2> QED BY <1>0, <2>1 DEF Local
  <1>14. ASSUME Probe(o) PROVE orch'[o].pc \in {"called", "ambiguous"}
    <2>1. /\ orch[o].pc = "called"
          /\ \/ orch'[o] = [orch[o] EXCEPT !.res = "ok"]
             \/ orch'[o] = [orch[o] EXCEPT !.res = "failed"]
             \/ orch'[o] = [orch[o] EXCEPT !.pc = "ambiguous"]
      BY <1>0, <1>14 DEF Probe
    <2> QED BY <1>0, <2>1 DEF Local
  <1>15. Ambiguous(o) => orch'[o].pc = "escalate"
    BY <1>0 DEF Ambiguous, Local
  <1>16. GiveUp(o) => orch'[o].pc = "escalate"
    BY <1>0 DEF GiveUp, Local
  <1>17. Drained(o) => orch'[o].pc = "graduate"
    BY <1>0 DEF Drained, Local
  <1>18. Graduated(o) => orch'[o].pc = "graduate"
    BY <1>0 DEF Graduated, Local
  <1>19. Graduate(o) => orch'[o].pc = "graduated"
    BY <1>0 DEF Graduate, Local
  <1>20. BeginPass(o) => orch'[o].pc = "comp"
    BY <1>0 DEF BeginPass, Local
  <1>21. CompIntent(o) => orch'[o].pc = "undo"
    BY <1>0 DEF CompIntent, Local
  <1>22. Undo(o) => orch'[o].pc = "undone"
    BY <1>0 DEF Undo, Local
  <1>23. CompResult(o) => orch'[o].pc \in {"drain", "comp"}
    BY <1>0 DEF CompResult, Local
  <1>24. ASSUME Revisit(o) PROVE orch'[o].pc \in {"idle", "recheck", "rechecked", "matched"}
    <2>1. Reconcile(o) => orch'[o].pc = "recheck"
      BY <1>0 DEF Reconcile, Idle
    <2>2. Recheck(o) => orch'[o].pc = "rechecked"
      BY <1>0 DEF Recheck, Local
    <2>3. ASSUME NEW r, DropRedo(o, r) PROVE orch'[o].pc = "recheck"
      BY <1>0, <2>3 DEF DropRedo, Local
    <2>4. ASSUME Reprobe(o) PROVE orch'[o].pc \in {"recheck", "rechecked"}
      <3>1. orch[o].pc = "rechecked"
            /\ (orch' = [orch EXCEPT ![o].res = "ok"] \/ \E r : DropRedo(o, r))
        BY <2>4 DEF Reprobe
      <3>2. orch' = [orch EXCEPT ![o].res = "ok"] => orch'[o].pc = "rechecked"
        BY <1>0, <3>1 DEF Local
      <3> QED BY <2>3, <3>1, <3>2
    <2>5. Rematch(o) => orch'[o].pc = "matched"
      BY <1>0 DEF Rematch, Local
    <2>6. Resettle(o) => orch'[o].pc = "recheck"
      BY <2>3 DEF Resettle
    <2>7. Reconciled(o) => orch'[o].pc = "idle"
      BY <1>0 DEF Reconciled, Idle
    <2> QED BY <1>24, <2>1, <2>2, <2>4, <2>5, <2>6, <2>7 DEF Revisit
  <1> QED BY <1>1, <1>2, <1>3, <1>4, <1>5, <1>6, <1>7, <1>8, <1>9, <1>10, <1>11, <1>12,
             <1>13, <1>14, <1>15, <1>16, <1>17, <1>18, <1>19, <1>20, <1>21, <1>22, <1>23, <1>24

\* Who rests after a step rested before, or begins to reconcile.
LEMMA RestsStill ==
    ASSUME TypeOK, NEW o \in Orchestrators, Run(o) \/ Crash(o), orch'[o].pc \in Resting
    PROVE  orch[o].pc \in Resting \/ Reconcile(o)
  <1>1. ~ (\/ SelectActive(o) \/ SelectFresh(o) \/ RecordFork(o) \/ ForkNaive(o)
           \/ Replay(o) \/ SelectNaive(o) \/ Abandon(o) \/ AbandonWithResidue(o)
           \/ RecordAbandoned(o) \/ Fork(o) \/ RecordResult(o))
    BY OtherMoves DEF Resting
  <1>2. Plain(o)
    BY <1>1, PlainMoves DEF Run, Lead, Walk, Settle, Finish
  <1> QED BY <1>2 DEF Plain

LEMMA CalmNext ==
    ASSUME Apart, TypeOK, LocalOK, Path, Calm, [Next]_vars
    PROVE  Calm'
  <1>1. UNCHANGED settings
    BY SettingsStay
  <1>2. ASSUME NEW q \in Orchestrators, orch'[q].pc \in Resting
        PROVE  lease'.owner = q /\ MaxReconcile # 0 /\ (MaxRedeliver = 0 => acked')
    <2>0. /\ {MaxReconcile, MaxRedeliver} \subseteq Nat
          /\ spent.reconcile \in Nat /\ spent.redeliver \in Nat
      BY EngineAssumption DEF TypeOK
    <2>1. ASSUME NEW o \in Orchestrators, Start(o) PROVE FALSE
      <3>1. orch'[o].pc = "select" /\ \A p \in Orchestrators \ {o} : orch'[p] = orch[p]
        BY <2>1 DEF Start, TypeOK, Idle
      <3>2. q # o /\ orch[q].pc \in Resting
        BY <1>2, <3>1 DEF Resting
      <3>3. MaxReconcile # 0 /\ (MaxRedeliver = 0 => acked)
        BY <3>2 DEF Calm
      <3> QED BY <2>1, <3>2, <3>3 DEF Start, Apart
    <2>2. ASSUME NEW o \in Orchestrators, Run(o) \/ Crash(o), ~ Start(o)
          PROVE  lease'.owner = q /\ MaxReconcile # 0 /\ (MaxRedeliver = 0 => acked')
      <3>1. UNCHANGED lease /\ \A p \in Orchestrators \ {o} : orch'[p] = orch[p]
        <4>1. CASE Run(o)
          BY <2>2, <4>1, RunMoves DEF Moved
        <4>2. CASE Crash(o)
          BY <4>2 DEF Crash, TypeOK
        <4> QED BY <2>2, <4>1, <4>2
      <3>2. acked => acked'
        <4>1. CASE Run(o)
          BY <2>2, <4>1, BusyBefore DEF Ack
        <4>2. CASE Crash(o)
          BY <4>2 DEF Crash
        <4> QED BY <2>2, <4>1, <4>2
      <3>3. CASE orch[q].pc \in Resting
        BY <3>1, <3>2, <3>3 DEF Calm
      <3>4. CASE orch[q].pc \notin Resting
        <4>1. q = o
          BY <1>2, <3>1, <3>4
        <4>2. Reconcile(o)
          BY <1>2, <2>2, <3>4, <4>1, RestsStill
        <4> QED BY <2>0, <4>1, <4>2 DEF Reconcile
      <3> QED BY <3>3, <3>4
    <2>3. CASE Lapse \/ Redeliver \/ Land \/ UNCHANGED vars
      <3>1. UNCHANGED orch /\ lease'.owner = lease.owner
        BY <2>3 DEF Lapse, Redeliver, Land, EngineVars, vars, TypeOK
      <3>2. MaxRedeliver = 0 /\ acked => acked'
        <4>1. CASE Redeliver
          BY <2>0, <4>1 DEF Redeliver
        <4>2. CASE Lapse \/ Land \/ UNCHANGED vars
          BY <4>2 DEF Lapse, Land, EngineVars, vars
        <4> QED BY <2>3, <4>1, <4>2
      <3>3. orch[q].pc \in Resting
        BY <1>2, <3>1
      <3> QED BY <3>1, <3>2, <3>3 DEF Calm
    <2> QED BY <2>1, <2>2, <2>3 DEF Next
  <1>3. \A k \in LateKeys' : ToolOf(k) \in faults.late_delivery_tools
    <2> DEFINE P == \A k \in LateKeys' : ToolOf(k) \in faults.late_delivery_tools
    <2>1. CASE UNCHANGED worldVars
      BY <2>1 DEF worldVars, Calm, LateKeys
    <2>2. ASSUME NEW o \in Orchestrators, Execute(o) PROVE P
      BY <2>2, ExecuteDoes DEF Calm
    <2>3. ASSUME NEW o \in Orchestrators, Undo(o) PROVE P
      BY <2>3, UndoDoes DEF Calm, LateKeys
    <2>4. ASSUME NEW o \in Orchestrators, Recheck(o) PROVE P
      BY <2>4, RecheckDoes DEF Calm
    <2>5. CASE Land
      <3>1. BagToSet(late') \subseteq BagToSet(late)
        BY <2>5, LandStep DEF Land, TypeOK, WorldTypeOK
      <3> QED BY <3>1 DEF Calm, LateKeys
    <2>6. CASE Lapse \/ Redeliver \/ UNCHANGED vars
      BY <2>1, <2>6 DEF Lapse, Redeliver, vars
    <2> QED BY <2>1, <2>2, <2>3, <2>4, <2>5, <2>6, CallsOnly DEF Next
  <1>4. \E s \in Scenarios : config' = s.config /\ faults' = s.faults
    BY <1>1 DEF Calm, settings
  <1>5. \A k \in LateKeys' : ToolOf(k) \in faults'.late_delivery_tools
    BY <1>1, <1>3 DEF settings
  <1> QED BY <1>2, <1>4, <1>5 DEF Calm

------------------------------------------------------------------------------
(* What the journal tells of a key                                         *)

\* The keys it has a result of, an ok of, and those whose last result is this one.
Told == {KeyOf(r) : r \in Rows("RESULT")}
Okay == {KeyOf(r) : r \in {q \in Rows("RESULT") : journal[q].status = "ok"}}
Last(st) == {KeyOf(r) : r \in {q \in Rows("RESULT") :
                                  /\ last_result(journal[q].br, journal[q].seq, q)
                                  /\ journal[q].status = st}}

\* A step that writes no result, and one that writes this one.
NoResult == \/ UNCHANGED journal
            \/ \E rec \in Record : append(rec) /\ rec.kind # "RESULT"
ResultOf(k, st) == \E rec \in Record : /\ append(rec) /\ rec.kind = "RESULT"
                                       /\ rec.br = k[1] /\ rec.seq = k[2]
                                       /\ rec.status = st

LEMMA LastIs ==
    ASSUME NEW b, NEW s, NEW st
    PROVE  <<b, s>> \in Last(st) <=>
              \E r \in DOMAIN journal : last_result(b, s, r) /\ journal[r].status = st
  <1>1. \A r : KeyOf(r) = <<b, s>> <=> journal[r].br = b /\ journal[r].seq = s
    BY DEF KeyOf, effect_key
  <1>2. \A r : last_result(b, s, r) => /\ r \in Rows("RESULT")
                                       /\ journal[r].br = b /\ journal[r].seq = s
    BY DEF last_result
  <1> QED BY <1>1, <1>2 DEF Last, Rows

LEMMA LastIsNext ==
    ASSUME NEW b, NEW s, NEW st
    PROVE  <<b, s>> \in Last(st)' <=>
              \E r \in DOMAIN journal' : last_result(b, s, r)' /\ journal'[r].status = st
  <1>1. Last(st)' = {KeyOf(r)' : r \in {q \in Rows("RESULT")' :
                                          /\ last_result(journal[q].br, journal[q].seq, q)'
                                          /\ journal'[q].status = st}}
    BY DEF Last
  <1>2. \A r : KeyOf(r)' = <<b, s>> <=> journal'[r].br = b /\ journal'[r].seq = s
    BY DEF KeyOf, effect_key
  <1>3. \A r : last_result(b, s, r)' => /\ r \in Rows("RESULT")'
                                        /\ journal'[r].br = b /\ journal'[r].seq = s
    BY DEF last_result
  <1>4. \A r : journal'[r].br = b /\ journal'[r].seq = s
               => (last_result(journal[r].br, journal[r].seq, r)' <=> last_result(b, s, r)')
    BY DEF last_result
  <1>5. Rows("RESULT")' \subseteq DOMAIN journal'
    BY DEF Rows
  <1> QED BY <1>1, <1>2, <1>3, <1>4, <1>5

LEMMA CompletedIs ==
    ASSUME NEW b, NEW s
    PROVE  s \in completed_results(b) <=> s \in Steps /\ <<b, s>> \in Last("ok")
  BY LastIs DEF completed_results

LEMMA KeyIs ==
    ASSUME NEW k \in Key
    PROVE  k = <<k[1], k[2]>> /\ k[1] \in Nat /\ k[2] \in Steps
  BY DEF Key

\* The last result of a key is one of its results.
LEMMA LastTold ==
    ASSUME JournalTypeOK
    PROVE  /\ \A st : Last(st) \subseteq Told
           /\ Last("ok") \subseteq Okay /\ Okay \subseteq Told
           /\ \A st, tt : st # tt => Last(st) \cap Last(tt) = {}
  <1>1. \A q, r : /\ q \in Rows("RESULT") /\ last_result(journal[q].br, journal[q].seq, q)
                  /\ r \in Rows("RESULT") /\ last_result(journal[r].br, journal[r].seq, r)
                  /\ KeyOf(q) = KeyOf(r)
                  => q = r
    <2> TAKE q, r
    <2> HAVE /\ q \in Rows("RESULT") /\ last_result(journal[q].br, journal[q].seq, q)
             /\ r \in Rows("RESULT") /\ last_result(journal[r].br, journal[r].seq, r)
             /\ KeyOf(q) = KeyOf(r)
    <2>1. q <= r /\ r <= q
      BY DEF last_result, KeyOf, effect_key
    <2>2. q \in Nat /\ r \in Nat
      BY DEF Rows, JournalTypeOK
    <2> QED BY <2>1, <2>2
  <1> QED BY <1>1 DEF Last, Told, Okay

LEMMA NothingTold ==
    ASSUME JournalTypeOK, NoResult
    PROVE  /\ Told' = Told /\ Okay' = Okay /\ \A st : Last(st)' = Last(st)
           /\ \A b : completed_results(b)' = completed_results(b)
           /\ Rows("RESULT")' = Rows("RESULT")
           /\ \A r \in Rows("RESULT") : journal'[r] = journal[r] /\ KeyOf(r)' = KeyOf(r)
           /\ \A b, s, r : last_result(b, s, r)' <=> last_result(b, s, r)
  <1>1. CASE UNCHANGED journal
    BY <1>1 DEF Told, Okay, Last, completed_results, last_result, Rows, KeyOf
  <1>2. ASSUME NEW rec \in Record, append(rec), rec.kind # "RESULT"
        PROVE  /\ Told' = Told /\ Okay' = Okay /\ \A st : Last(st)' = Last(st)
               /\ \A b : completed_results(b)' = completed_results(b)
               /\ Rows("RESULT")' = Rows("RESULT")
               /\ \A r \in Rows("RESULT") : journal'[r] = journal[r] /\ KeyOf(r)' = KeyOf(r)
               /\ \A b, s, r : last_result(b, s, r)' <=> last_result(b, s, r)
    <2> DEFINE n == Len(journal) + 1
    <2>1. /\ \A q \in DOMAIN journal : journal'[q] = journal[q] /\ q # n
          /\ DOMAIN journal' = DOMAIN journal \cup {n} /\ journal'[n] = rec
      BY <1>2 DEF append, JournalTypeOK
    <2> HIDE DEF n
    <2>2. /\ Rows("RESULT")' = Rows("RESULT")
          /\ \A r \in Rows("RESULT") : journal'[r] = journal[r]
      BY <1>2, <2>1 DEF Rows
    <2>3. \A r \in Rows("RESULT") : KeyOf(r)' = KeyOf(r)
      BY <2>2 DEF KeyOf
    <2>4. \A b, s, r : last_result(b, s, r)' <=> last_result(b, s, r)
      BY <1>2, LastAfter
    <2>5. \A b : completed_results(b)' = completed_results(b)
      BY <1>2, CompletedAfter
    <2>6. Told' = Told
      BY <2>2, <2>3 DEF Told
    <2>7. Okay' = Okay
      BY <2>2, <2>3 DEF Okay
    <2>8. ASSUME NEW st PROVE Last(st)' = Last(st)
      BY <2>2, <2>3, <2>4 DEF Last
    <2> QED BY <2>2, <2>3, <2>4, <2>5, <2>6, <2>7, <2>8
  <1> QED BY <1>1, <1>2 DEF NoResult

LEMMA ResultTold ==
    ASSUME JournalTypeOK, NEW k \in Key, NEW st, ResultOf(k, st)
    PROVE  /\ Told' = Told \cup {k}
           /\ Okay' = IF st = "ok" THEN Okay \cup {k} ELSE Okay
           /\ \A tt : Last(tt)' = IF st = tt THEN Last(tt) \cup {k} ELSE Last(tt) \ {k}
           /\ \A b : b # k[1] => completed_results(b)' = completed_results(b)
           /\ \E n \in Nat : /\ n = Len(journal) + 1
                             /\ Rows("RESULT")' = Rows("RESULT") \cup {n} /\ KeyOf(n)' = k
                             /\ journal'[n].status = st
           /\ \A r \in Rows("RESULT") : journal'[r] = journal[r] /\ KeyOf(r)' = KeyOf(r)
           /\ \A b, s, r : <<b, s>> # k => (last_result(b, s, r)' <=> last_result(b, s, r))
  <1>1. PICK rec \in Record : /\ append(rec) /\ rec.kind = "RESULT"
                              /\ rec.br = k[1] /\ rec.seq = k[2] /\ rec.status = st
    BY DEF ResultOf
  <1>2. PICK n \in Nat :
           /\ n = Len(journal) + 1
           /\ \A q \in DOMAIN journal : journal'[q] = journal[q] /\ q # n
           /\ DOMAIN journal' = DOMAIN journal \cup {n} /\ journal'[n] = rec
    <2>1. Len(journal) + 1 \in Nat
      BY DEF JournalTypeOK
    <2> QED BY <1>1, <2>1 DEF append, JournalTypeOK
  <1>3. /\ Rows("RESULT")' = Rows("RESULT") \cup {n}
        /\ \A r \in Rows("RESULT") : journal'[r] = journal[r] /\ r # n
    BY <1>1, <1>2 DEF Rows
  <1>4. /\ \A r \in Rows("RESULT") : KeyOf(r)' = KeyOf(r)
        /\ KeyOf(n)' = k
    BY <1>1, <1>2, <1>3, KeyIs DEF KeyOf, effect_key
  <1>5. \A b, s, r : last_result(b, s, r)' <=>
                        IF <<b, s>> = k THEN r = n ELSE last_result(b, s, r)
    <2>1. \A b, s : <<b, s>> = k <=> rec.br = b /\ rec.seq = s
      BY <1>1, KeyIs
    <2> QED BY <1>1, <1>2, <2>1, LastAfter
  <1>6. \A b : b # k[1] => completed_results(b)' = completed_results(b)
    BY <1>1, CompletedAfter
  <1>7. Told' = Told \cup {k}
    BY <1>3, <1>4 DEF Told
  <1>8. Okay' = IF st = "ok" THEN Okay \cup {k} ELSE Okay
    BY <1>1, <1>2, <1>3, <1>4 DEF Okay
  <1>9. ASSUME NEW tt
        PROVE  Last(tt)' = IF st = tt THEN Last(tt) \cup {k} ELSE Last(tt) \ {k}
    <2>1. /\ \A q \in Last(tt) : \E b, s : q = <<b, s>>
          /\ \A q \in Last(tt)' : \E b, s : q = <<b, s>>
      BY DEF Last, KeyOf, effect_key
    <2>2. ASSUME NEW b, NEW s
          PROVE  <<b, s>> \in Last(tt)' <=>
                    IF <<b, s>> = k THEN st = tt ELSE <<b, s>> \in Last(tt)
      <3>1. <<b, s>> \in Last(tt)' <=>
               \E r \in DOMAIN journal' : last_result(b, s, r)' /\ journal'[r].status = tt
        BY LastIsNext
      <3>2. <<b, s>> \in Last(tt) <=>
               \E r \in DOMAIN journal : last_result(b, s, r) /\ journal[r].status = tt
        BY LastIs
      <3>3. CASE <<b, s>> = k
        BY <1>1, <1>2, <1>5, <3>1, <3>3
      <3>4. CASE <<b, s>> # k
        <4>1. \A r : last_result(b, s, r) => r \in DOMAIN journal
          BY DEF last_result, Rows
        <4> QED BY <1>2, <1>5, <3>1, <3>2, <3>4, <4>1
      <3> QED BY <3>3, <3>4
    <2> QED BY <2>1, <2>2, KeyIs
  <1> QED BY <1>1, <1>2, <1>3, <1>4, <1>5, <1>6, <1>7, <1>8, <1>9

------------------------------------------------------------------------------
(* What a key leaves behind, and where                                     *)

\* The keys the world or the journal knows of, and those whose step is over: an ok, or
\* a failure that made the branch diverge.
Touched == applied \cup LateKeys \cup Told
Closed  == Last("ok") \cup {k \in Last("failed") : ToolOf(k) \in Irreversible}

\* The steps of key k's branch before its own are done.
Behind(k) == \A s \in Steps : s < k[2] => <<k[1], s>> \in Last("ok")

\* What is known is known of a branch of the tree; one branch is alive, and what
\* was done on it was done in the order of the trace; an ok is never taken back; a
\* branch dies with its steps closed.
Ground ==
    /\ \A k \in Touched : k \in Key /\ k[1] \in DOMAIN branches
    /\ \A b, c \in DOMAIN branches : IsActive(b) /\ IsActive(c) => b = c
    /\ \A k \in Touched : IsActive(k[1]) => Behind(k)
    /\ Okay \subseteq Last("ok")
    /\ Replays => \A k \in Touched : IsActive(k[1]) \/ k \in Closed

\* A leader knows of every step that is done on its branch; it diverges on a closed
\* branch, and forks when no branch is alive.
Placed(l) ==
    /\ l.pc \in OnPath => \A s \in completed_results(l.br) : s \in l.done \/ s < l.seq
    /\ l.pc = "diverge" => /\ IsActive(l.br)
                           /\ \A k \in Touched : k[1] = l.br => k \in Closed
    /\ l.pc \in {"residue", "mark", "fork"} => NoActiveBranch
    /\ l.pc = "forked" => completed_results(l.br) = {}

\* What is to be reconciled is still unknown.
Reviewed(l) == l.pc \in Resting => l.redo \subseteq UnknownResults

Tree == Ground /\ \A o \in Orchestrators : Placed(orch[o]) /\ Reviewed(orch[o])

\* A step that tells of no result, and of no key that was not known.
Mute == NoResult /\ UNCHANGED << branches, settings >> /\ Touched' \subseteq Touched

LEMMA SameTree ==
    ASSUME UNCHANGED << branches, settings >>
    PROVE  /\ DOMAIN branches' = DOMAIN branches /\ \A b : IsActive(b)' <=> IsActive(b)
           /\ Replays' <=> Replays
           /\ NoActiveBranch' <=> NoActiveBranch
  BY DEF IsActive, settings, Replays, NoActiveBranch

\* A key that is new is on the live branch, and everything before it is done.
LEMMA GroundTouched ==
    ASSUME JournalTypeOK, Ground, NoResult, UNCHANGED << branches, settings >>,
           NEW K, Touched' \subseteq Touched \cup K,
           \A k \in K : k \in Key /\ k[1] \in DOMAIN branches /\ IsActive(k[1]) /\ Behind(k)
    PROVE  Ground'
  <1>1. /\ Okay' = Okay /\ \A st : Last(st)' = Last(st)
    BY NothingTold
  <1>2. Closed' = Closed
    BY <1>1 DEF Closed, ToolOf
  <1>3. \A k : Behind(k)' <=> Behind(k)
    BY <1>1 DEF Behind
  <1> QED BY <1>1, <1>2, <1>3, SameTree DEF Ground

LEMMA GroundResult ==
    ASSUME JournalTypeOK, Ground, UNCHANGED << branches, settings, worldVars >>,
           NEW k \in Key, NEW st, ResultOf(k, st),
           k \notin Last("ok"), k[1] \in DOMAIN branches,
           IsActive(k[1]) => Behind(k), IsActive(k[1]) \/ st = "ok"
    PROVE  Ground'
  <1>1. /\ Told' = Told \cup {k}
        /\ Okay' = IF st = "ok" THEN Okay \cup {k} ELSE Okay
        /\ \A tt : Last(tt)' = IF st = tt THEN Last(tt) \cup {k} ELSE Last(tt) \ {k}
    BY ResultTold
  <1>2. Touched' = Touched \cup {k}
    BY <1>1 DEF Touched, worldVars, LateKeys
  <1>3. Last("ok") \subseteq Last("ok")' /\ (st = "ok" => k \in Last("ok")')
    BY <1>1
  <1>4. \A q : Behind(q) => Behind(q)'
    BY <1>3 DEF Behind
  <1>5. ASSUME NEW q \in Closed, q # k PROVE q \in Closed'
    BY <1>1, <1>5 DEF Closed
  <1>6. st = "ok" => k \in Closed'
    BY <1>3 DEF Closed
  <1>7. Okay' \subseteq Last("ok")'
    BY <1>1 DEF Ground
  <1> QED BY <1>2, <1>4, <1>5, <1>6, <1>7, SameTree DEF Ground

LEMMA GroundGrown ==
    ASSUME JournalTypeOK, Ground, UNCHANGED << journal, settings, worldVars >>,
           NoActiveBranch, NEW p \in Nat, NEW d \in Nat, create_branch(p, d)
    PROVE  /\ Ground'
           /\ \E n \in Nat : /\ n = Len(branches) + 1 /\ IsActive(n)' /\ n \in DOMAIN branches'
                             /\ completed_results(n)' = {}
  <1>1. PICK n \in Nat : /\ n = Len(branches) + 1 /\ n \notin DOMAIN branches
                         /\ DOMAIN branches' = DOMAIN branches \cup {n}
                         /\ IsActive(n)'
                         /\ \A c \in DOMAIN branches : branches'[c] = branches[c]
    BY NewBranch
  <1>2. \A c \in DOMAIN branches : ~ IsActive(c)' /\ ~ IsActive(c)
    BY <1>1 DEF NoActiveBranch, IsActive
  <1>3. NoResult
    BY DEF NoResult
  <1>4. /\ Told' = Told /\ Okay' = Okay /\ \A st : Last(st)' = Last(st)
        /\ completed_results(n)' = completed_results(n)
    BY <1>3, NothingTold
  <1>5. Touched' = Touched /\ Closed' = Closed
    BY <1>4 DEF Touched, worldVars, LateKeys, Closed
  <1>6. completed_results(n) = {}
    <2>1. ASSUME NEW s \in completed_results(n) PROVE FALSE
      <3>1. <<n, s>> \in Touched
        BY <2>1, CompletedIs, LastTold DEF Touched
      <3>2. <<n, s>>[1] = n
        OBVIOUS
      <3>3. \A k \in Touched : k[1] \in DOMAIN branches
        BY DEF Ground
      <3> QED BY <1>1, <3>1, <3>2, <3>3
    <2> QED BY <2>1
  <1>7. Replays' <=> Replays
    BY DEF settings, Replays
  <1>8. Ground'
    BY <1>1, <1>2, <1>4, <1>5, <1>7 DEF Ground
  <1> QED BY <1>1, <1>4, <1>6, <1>8

LEMMA GroundMarked ==
    ASSUME JournalTypeOK, Ground, UNCHANGED << journal, settings, worldVars >>,
           NEW b \in DOMAIN branches, NEW st, st # "active", set_branch_status(b, st),
           Replays /\ IsActive(b) => \A k \in Touched : k[1] = b => k \in Closed
    PROVE  /\ Ground'
           /\ IsActive(b) \/ NoActiveBranch => NoActiveBranch'
  <1>1. /\ DOMAIN branches' = DOMAIN branches /\ branches'[b].status = st
        /\ \A c \in DOMAIN branches \ {b} : branches'[c] = branches[c]
    BY MarkedBranch
  <1>2. /\ ~ IsActive(b)'
        /\ \A c \in DOMAIN branches \ {b} : IsActive(c)' <=> IsActive(c)
    BY <1>1 DEF IsActive
  <1>3. NoResult
    BY DEF NoResult
  <1>4. /\ Told' = Told /\ Okay' = Okay /\ \A tt : Last(tt)' = Last(tt)
    BY <1>3, NothingTold
  <1>5. Touched' = Touched /\ Closed' = Closed /\ \A k : Behind(k)' <=> Behind(k)
    BY <1>4 DEF Touched, worldVars, LateKeys, Closed, Behind
  <1>6. Replays' <=> Replays
    BY DEF settings, Replays
  <1>7. Ground'
    <2>1. \A k \in Touched' : k \in Key /\ k[1] \in DOMAIN branches'
      BY <1>1, <1>5 DEF Ground
    <2>2. \A c, d \in DOMAIN branches' : IsActive(c)' /\ IsActive(d)' => c = d
      BY <1>1, <1>2 DEF Ground
    <2>3. \A k \in Touched' : IsActive(k[1])' => Behind(k)'
      BY <1>1, <1>2, <1>5, <2>1 DEF Ground
    <2>4. Okay' \subseteq Last("ok")'
      BY <1>4 DEF Ground
    <2>5. Replays => \A k \in Touched' : IsActive(k[1])' \/ k \in Closed'
      BY <1>1, <1>2, <1>5, <2>1 DEF Ground
    <2> QED BY <1>6, <2>1, <2>2, <2>3, <2>4, <2>5 DEF Ground
  <1>8. IsActive(b) \/ NoActiveBranch => NoActiveBranch'
    BY <1>1, <1>2 DEF NoActiveBranch, Ground
  <1> QED BY <1>7, <1>8

------------------------------------------------------------------------------
(* The steps that tell nothing new                                         *)

LEMMA StillMute ==
    ASSUME JournalTypeOK, NoResult, UNCHANGED << branches, settings, worldVars >>
    PROVE  Mute
  BY NothingTold DEF Mute, Touched, worldVars, LateKeys

LEMMA ReadsMute ==
    ASSUME JournalTypeOK, ReadOnly
    PROVE  Mute
  BY StillMute DEF ReadOnly, journalVars, EngineVars, NoResult

LEMMA RowsMute ==
    ASSUME JournalTypeOK, NEW rec \in Record, append(rec), rec.kind # "RESULT", WritesRecord
    PROVE  Mute
  BY StillMute DEF WritesRecord, EngineVars, NoResult

LEMMA LeadMute ==
    ASSUME TypeOK, NEW o \in Orchestrators,
           Start(o) \/ NotLeader(o) \/ SelectActive(o) \/ Ack(o) \/ Crash(o)
    PROVE  Mute
  <1> USE DEF TypeOK
  <1>1. CASE NotLeader(o) \/ SelectActive(o)
    BY <1>1, ReadsMute DEF NotLeader, SelectActive
  <1>2. CASE Start(o) \/ Ack(o) \/ Crash(o)
    BY <1>2, StillMute DEF Start, Ack, Crash, journalVars, NoResult
  <1> QED BY <1>1, <1>2

LEMMA WalkMute ==
    ASSUME TypeOK, NEW o \in Orchestrators,
           \/ Replay(o) \/ Complete(o) \/ Pass(o) \/ Block(o) \/ Intent(o)
           \/ Probe(o) \/ Suppress(o)
    PROVE  Mute
  <1>0. JournalTypeOK
    BY DEF TypeOK
  <1>1. CASE Replay(o) \/ Complete(o) \/ Pass(o) \/ Probe(o)
    BY <1>0, <1>1, ReadsMute DEF Replay, Complete, Pass, Probe
  <1>2. CASE Block(o)
    BY <1>0, <1>2, OwedRowsType, RowsMute DEF Block
  <1>3. CASE Intent(o)
    <2>1. StepRow(o, "INTENT", NoStatus) \in Record
      BY StepRowType DEF RecordKind
    <2> QED BY <1>0, <1>3, <2>1, RowsMute DEF Intent, StepRow
  <1>4. CASE Suppress(o)
    <2>1. StepRow(o, "LATE_DELIVERY_SUPPRESSED", "ok") \in Record
      BY StepRowType DEF RecordKind, ResultStatus
    <2> QED BY <1>0, <1>4, <2>1, RowsMute DEF Suppress, StepRow
  <1> QED BY <1>1, <1>2, <1>3, <1>4

LEMMA UndoMute ==
    ASSUME TypeOK, LocalOK, NEW o \in Orchestrators, Undo(o)
    PROVE  Mute
  <1>1. /\ UNCHANGED << journal, branches, settings, late >>
        /\ \E k : Still \/ Compensation(k)
    BY UndoDoes
  <1>2. applied' \subseteq applied
    BY <1>1 DEF Still, Compensation
  <1>3. NoResult
    BY <1>1 DEF NoResult
  <1>4. Told' = Told
    BY <1>3, NothingTold DEF TypeOK
  <1> QED BY <1>1, <1>2, <1>3, <1>4 DEF Mute, Touched, LateKeys

LEMMA DrainMute ==
    ASSUME TypeOK, LocalOK, NEW o \in Orchestrators, Drain(o), ~ Graduate(o)
    PROVE  Mute
  <1>0. JournalTypeOK /\ orch[o] \in Local
    BY DEF TypeOK
  <1>1. CASE Drained(o) \/ BeginPass(o) \/ GiveUp(o)
    BY <1>0, <1>1, ReadsMute DEF Drained, BeginPass, GiveUp
  <1>2. CASE CompIntent(o)
    <2>1. PICK r \in DOMAIN journal : append(CompRow(o, "COMP_INTENT", r, NoStatus))
      BY <1>2 DEF CompIntent
    <2>2. CompRow(o, "COMP_INTENT", r, NoStatus) \in Record
          /\ CompRow(o, "COMP_INTENT", r, NoStatus).kind = "COMP_INTENT"
      BY CompRowType DEF RecordKind
    <2> QED BY <1>0, <1>2, <2>1, <2>2, RowsMute DEF CompIntent
  <1>3. CASE CompResult(o)
    <2>1. PICK r \in DOMAIN journal : append(CompRow(o, "COMP_RESULT", r, orch[o].res))
      BY <1>3 DEF CompResult
    <2>2. CompRow(o, "COMP_RESULT", r, orch[o].res) \in Record
          /\ CompRow(o, "COMP_RESULT", r, orch[o].res).kind = "COMP_RESULT"
      BY <1>0, CompRowType DEF RecordKind, Local
    <2> QED BY <1>0, <1>3, <2>1, <2>2, RowsMute DEF CompResult
  <1>4. CASE Graduated(o)
    <2>1. PICK b \in DOMAIN branches : append(TreeRow("BRANCH_COMPENSATED", b, NoSeverity, {}))
      BY <1>4 DEF Graduated
    <2>2. TreeRow("BRANCH_COMPENSATED", b, NoSeverity, {}) \in Record
      <3>1. b \in Nat /\ NoSeverity \in Sev /\ "BRANCH_COMPENSATED" \in RecordKind
        BY <1>0 DEF JournalTypeOK, RecordKind, Sev
      <3> QED BY <3>1, TreeRowType
    <2> QED BY <1>0, <1>4, <2>1, <2>2, RowsMute DEF Graduated, TreeRow
  <1>5. CASE Release(o)
    <2>1. StepRow(o, "BARRIER_RELEASED", NoStatus) \in Record
      BY StepRowType DEF RecordKind
    <2> QED BY <1>0, <1>5, <2>1, RowsMute DEF Release, StepRow
  <1>6. CASE Undo(o)
    BY <1>6, UndoMute
  <1> QED BY <1>1, <1>2, <1>3, <1>4, <1>5, <1>6 DEF Drain

LEMMA FinishMute ==
    ASSUME TypeOK, LocalOK, NEW o \in Orchestrators,
           ReplayFailed(o) \/ Escalate(o) \/ RecordAbandoned(o) \/ RecordFork(o)
    PROVE  Mute
  <1>0. JournalTypeOK /\ orch[o] \in Local
    BY DEF TypeOK
  <1>1. CASE ReplayFailed(o)
    BY <1>0, <1>1, ReadsMute DEF ReplayFailed
  <1>2. CASE Escalate(o)
    BY <1>0, <1>2, OwedRowsType, RowsMute DEF Escalate, EscalationRow, TreeRow
  <1>3. CASE RecordAbandoned(o)
    <2>1. TreeRow("BRANCH_ABANDONED", orch[o].br, NoSeverity, {}) \in Record
      BY <1>0, TreeRowType DEF RecordKind, Local, Sev
    <2> QED BY <1>0, <1>3, <2>1, RowsMute DEF RecordAbandoned, TreeRow
  <1>4. CASE RecordFork(o)
    <2>1. TreeRow("BRANCH_FORKED", orch[o].br, orch[o].chosen, {}) \in Record
      BY <1>0, TreeRowType DEF RecordKind, Local
    <2> QED BY <1>0, <1>4, <2>1, RowsMute DEF RecordFork, TreeRow
  <1> QED BY <1>1, <1>2, <1>3, <1>4

\* Only settling a result tells of one; what is driven once more was known.
LEMMA RevisitMute ==
    ASSUME TypeOK, LocalOK, NEW o \in Orchestrators, Reviewed(orch[o]),
           Revisit(o), ~ Resettle(o)
    PROVE  Mute
  <1>0. JournalTypeOK
    BY DEF TypeOK
  <1>1. CASE Reprobe(o) \/ Reconciled(o)
    BY <1>0, <1>1, ReadsMute DEF Reprobe, Reconciled
  <1>2. CASE Reconcile(o)
    BY <1>0, <1>2, StillMute DEF Reconcile, journalVars, NoResult
  <1>3. CASE Rematch(o)
    <2>1. PICK r \in DOMAIN journal : append(SlotRow("LATE_DELIVERY_SUPPRESSED", r, "ok"))
      BY <1>3 DEF Rematch
    <2>2. /\ SlotRow("LATE_DELIVERY_SUPPRESSED", r, "ok") \in Record
          /\ SlotRow("LATE_DELIVERY_SUPPRESSED", r, "ok").kind = "LATE_DELIVERY_SUPPRESSED"
      BY SlotRowFields, SlotRowType DEF RecordKind, ResultStatus
    <2> QED BY <1>0, <1>3, <2>1, <2>2, RowsMute DEF Rematch
  <1>4. CASE Recheck(o)
    <2>1. PICK r \in orch[o].redo :
             /\ Still \/ Effect(KeyOf(r))
             /\ \A q \in LateKeys' : q \in LateKeys \/ q = KeyOf(r)
      BY <1>4, RecheckDoes
    <2>2. r \in UnknownResults
      BY <1>4, <2>1 DEF Recheck, At, Reviewed, Resting
    <2>3. KeyOf(r) \in Told
      BY <2>2 DEF UnknownResults, Told
    <2>4. UNCHANGED << journal, branches, settings >>
      BY <1>4, RecheckDoes
    <2>5. NoResult
      BY <2>4 DEF NoResult
    <2>6. Told' = Told
      BY <1>0, <2>5, NothingTold
    <2>7. applied' \subseteq applied \cup {KeyOf(r)}
      BY <2>1 DEF Still, Effect
    <2> QED BY <2>1, <2>3, <2>4, <2>5, <2>6, <2>7 DEF Mute, Touched
  <1> QED BY <1>1, <1>2, <1>3, <1>4 DEF Revisit

LEMMA EnvironmentMute ==
    ASSUME TypeOK, Lapse \/ Redeliver \/ Land \/ UNCHANGED vars
    PROVE  Mute
  <1>0. JournalTypeOK /\ WorldTypeOK
    BY DEF TypeOK
  <1>1. CASE Lapse \/ Redeliver \/ UNCHANGED vars
    BY <1>0, <1>1, StillMute DEF Lapse, Redeliver, vars, journalVars, NoResult
  <1>2. CASE Land
    <2>1. PICK req \in BagToSet(late) : land(req)
      BY <1>2 DEF Land
    <2>2. req \in Request
      BY <1>0 DEF WorldTypeOK
    <2>3. (Still \/ Effect(req.key)) /\ BagToSet(late') \subseteq BagToSet(late)
      BY <1>0, <2>1, <2>2, LandStep
    <2>4. applied' \subseteq applied \cup LateKeys /\ LateKeys' \subseteq LateKeys
      BY <2>3 DEF Still, Effect, LateKeys
    <2>5. UNCHANGED << journal, branches, settings >>
      BY <1>2 DEF Land, journalVars, EngineVars
    <2>6. NoResult
      BY <2>5 DEF NoResult
    <2>7. Told' = Told
      BY <1>0, <2>6, NothingTold
    <2> QED BY <2>4, <2>5, <2>6, <2>7 DEF Mute, Touched
  <1> QED BY <1>1, <1>2

------------------------------------------------------------------------------
(* The leader knows its place in the tree                                  *)

\* One row is the last result of a key.
LEMMA LastOnce ==
    ASSUME JournalTypeOK, NEW q, NEW r,
           q \in Rows("RESULT"), last_result(journal[q].br, journal[q].seq, q),
           r \in Rows("RESULT"), last_result(journal[r].br, journal[r].seq, r),
           KeyOf(q) = KeyOf(r)
    PROVE  q = r
  <1>1. q <= r /\ r <= q
    BY DEF last_result, KeyOf, effect_key
  <1>2. q \in Nat /\ r \in Nat
    BY DEF Rows, JournalTypeOK
  <1> QED BY <1>1, <1>2

LEMMA MuteKeeps ==
    ASSUME JournalTypeOK, Mute
    PROVE  /\ UnknownResults' = UnknownResults
           /\ NoActiveBranch' <=> NoActiveBranch
           /\ \A b : completed_results(b)' = completed_results(b)
           /\ Closed' = Closed
  <1>1. /\ Told' = Told /\ Okay' = Okay /\ \A st : Last(st)' = Last(st)
        /\ \A b : completed_results(b)' = completed_results(b)
        /\ Rows("RESULT")' = Rows("RESULT")
        /\ \A r \in Rows("RESULT") : journal'[r] = journal[r]
        /\ \A b, s, r : last_result(b, s, r)' <=> last_result(b, s, r)
    BY NothingTold DEF Mute
  <1>2. Closed' = Closed
    BY <1>1 DEF Closed
  <1>3. UnknownResults' = UnknownResults
    BY <1>1 DEF UnknownResults
  <1>4. NoActiveBranch' <=> NoActiveBranch
    BY SameTree DEF Mute
  <1> QED BY <1>1, <1>2, <1>3, <1>4

LEMMA PlacedKept ==
    ASSUME JournalTypeOK, Mute, NEW l
    PROVE  /\ Placed(l) => Placed(l)'
           /\ Reviewed(l) => Reviewed(l)'
  <1>1. /\ UnknownResults' = UnknownResults
        /\ NoActiveBranch' <=> NoActiveBranch
        /\ completed_results(l.br)' = completed_results(l.br)
        /\ Closed' = Closed
    BY MuteKeeps
  <1>2. (IsActive(l.br)' <=> IsActive(l.br)) /\ Touched' \subseteq Touched
    BY DEF Mute, IsActive
  <1> QED BY <1>1, <1>2 DEF Placed, Reviewed

\* What is true of what a process holds next is true of the process.
LEMMA PlacedOf ==
    ASSUME NEW o \in Orchestrators, NEW m, m = orch'[o], Placed(m)', Reviewed(m)'
    PROVE  Placed(orch[o])' /\ Reviewed(orch[o])'
  BY DEF Placed, Reviewed, Resting, completed_results, last_result, Rows, IsActive

LEMMA MuteGround ==
    ASSUME JournalTypeOK, Ground, Mute
    PROVE  Ground'
  <1>1. PICK K : K = {}
    OBVIOUS
  <1>2. NoResult /\ UNCHANGED << branches, settings >>
    BY DEF Mute
  <1>3. Touched' \subseteq Touched \cup K
    BY DEF Mute
  <1>4. \A k \in K : k \in Key /\ k[1] \in DOMAIN branches /\ IsActive(k[1]) /\ Behind(k)
    BY <1>1
  <1> QED BY <1>2, <1>3, <1>4, GroundTouched

\* A step that tells nothing leaves every other process in its place.
LEMMA MuteTree ==
    ASSUME TypeOK, Tree, Mute, NEW o \in Orchestrators,
           \A p \in Orchestrators \ {o} : orch'[p] = orch[p],
           NEW m, m = orch'[o], Placed(m)', Reviewed(m)'
    PROVE  Tree'
  <1>0. JournalTypeOK /\ Ground
    BY DEF TypeOK, Tree
  <1>1. Ground'
    BY <1>0, MuteGround
  <1>2. ASSUME NEW p \in Orchestrators PROVE Placed(orch[p])' /\ Reviewed(orch[p])'
    <2>1. CASE p = o
      BY <2>1, PlacedOf
    <2>2. CASE p # o
      <3>1. PICK l : l = orch[p]
        OBVIOUS
      <3>2. l = orch'[p] /\ Placed(l) /\ Reviewed(l)
        BY <2>2, <3>1 DEF Tree
      <3>3. Placed(l)' /\ Reviewed(l)'
        BY <1>0, <3>2, PlacedKept
      <3> QED BY <3>2, <3>3, PlacedOf
    <2> QED BY <2>1, <2>2
  <1> QED BY <1>1, <1>2 DEF Tree

\* Who is at work is alone.
LEMMA Alone ==
    ASSUME TypeOK, Sole, Calm, NEW o \in Orchestrators, Busy(o) \/ orch[o].pc \in Resting
    PROVE  \A p \in Orchestrators \ {o} : orch[p].pc = "idle"
  <1> SUFFICES ASSUME NEW p \in Orchestrators \ {o} PROVE orch[p].pc = "idle"
    OBVIOUS
  <1>1. CASE Busy(o)
    <2>1. ~ Busy(p)
      BY <1>1 DEF Sole
    <2>2. orch[p].pc \notin Resting
      BY <1>1, RestAlone
    <2> QED BY <2>1, <2>2 DEF Busy, Resting
  <1>2. CASE orch[o].pc \in Resting
    <2>1. ~ Busy(p)
      BY <1>2, RestAlone
    <2>2. orch[p].pc \notin Resting
      BY <1>2 DEF Calm
    <2> QED BY <2>1, <2>2 DEF Busy, Resting
  <1> QED BY <1>1, <1>2

\* Only its own place matters then.
LEMMA AloneTree ==
    ASSUME TypeOK, Sole, Calm, NEW o \in Orchestrators, Busy(o) \/ orch[o].pc \in Resting,
           \A p \in Orchestrators \ {o} : orch'[p] = orch[p],
           Ground', NEW m, m = orch'[o], Placed(m)', Reviewed(m)'
    PROVE  Tree'
  <1>1. ASSUME NEW p \in Orchestrators PROVE Placed(orch[p])' /\ Reviewed(orch[p])'
    <2>1. CASE p = o
      BY <2>1, PlacedOf
    <2>2. CASE p # o
      <3>1. PICK l : l = orch'[p]
        OBVIOUS
      <3>2. l.pc = "idle"
        BY <2>2, <3>1, Alone
      <3>3. Placed(l)' /\ Reviewed(l)'
        BY <3>2 DEF Placed, Reviewed, OnPath, Resting
      <3> QED BY <3>1, <3>3, PlacedOf
    <2> QED BY <2>1, <2>2
  <1> QED BY <1>1 DEF Tree

\* Who has something to reconcile after a step had it before, or looks it up now.
LEMMA RedoMoves ==
    ASSUME TypeOK, NEW o \in Orchestrators, Run(o) \/ Crash(o), orch'[o].pc \in Resting
    PROVE  \/ orch[o].pc \in Resting /\ orch'[o].redo \subseteq orch[o].redo
           \/ UNCHANGED journal /\ orch'[o].redo = UnknownResults
  <1>0. orch[o] \in Local /\ orch \in [Orchestrators -> Local]
    BY DEF TypeOK
  <1>1. CASE Reconcile(o)
    BY <1>0, <1>1 DEF Reconcile, Idle, journalVars
  <1>2. CASE ~ Reconcile(o)
    <2>1. orch[o].pc \in Resting
      BY <1>2, RestsStill
    <2>2. ~ Crash(o)
      BY <1>0 DEF Crash, Idle, Resting
    <2>3. Revisit(o)
      <3>1. ~ Lead(o)
        BY <2>1 DEF Resting, Lead, Start, NotLeader, SelectActive, SelectFresh, SelectNaive, At
      <3>2. ~ Walk(o)
        BY <2>1 DEF Resting, Walk, Replay, Complete, Pass, Block, Intent, Execute, ToExecute, At
      <3>3. ~ Settle(o)
        BY <2>1 DEF Resting, Settle, Probe, Ambiguous, Suppress, RecordResult, At
      <3>4. ~ Drain(o)
        BY <2>1 DEF Resting, Drain, Drained, BeginPass, GiveUp, CompIntent, Undo, CompResult,
                    Graduate, Graduated, Release, At
      <3>5. ~ Finish(o)
        BY <2>1 DEF Resting, Finish, ReplayFailed, Escalate, Abandon, AbandonWithResidue,
                    RecordAbandoned, Fork, RecordFork, ForkNaive, Ack, At
      <3> QED BY <2>2, <3>1, <3>2, <3>3, <3>4, <3>5 DEF Run
    <2>4. ASSUME NEW r, DropRedo(o, r) PROVE orch'[o].redo \subseteq orch[o].redo
      BY <1>0, <2>4 DEF DropRedo, Local
    <2>5. orch'[o].redo \subseteq orch[o].redo
      <3>1. CASE Recheck(o)    BY <1>0, <3>1 DEF Recheck, Local
      <3>2. CASE Reprobe(o)
        <4>1. orch' = [orch EXCEPT ![o].res = "ok"] => orch'[o].redo = orch[o].redo
          BY <1>0 DEF Local
        <4> QED BY <2>4, <3>2, <4>1 DEF Reprobe
      <3>3. CASE Rematch(o)    BY <1>0, <3>3 DEF Rematch, Goto, Local
      <3>4. CASE Resettle(o)   BY <2>4, <3>4 DEF Resettle
      <3>5. CASE Reconciled(o) BY <1>0, <3>5 DEF Reconciled, Idle, Resting
      <3> QED BY <1>2, <2>3, <3>1, <3>2, <3>3, <3>4, <3>5 DEF Revisit
    <2> QED BY <2>1, <2>5
  <1> QED BY <1>1, <1>2

\* Where it was before is where it is.
LEMMA PlainPlaced ==
    ASSUME JournalTypeOK, NoResult, NEW o \in Orchestrators, Plain(o), Placed(orch[o]),
           NEW m, m = orch'[o]
    PROVE  Placed(m)'
  <1>1. m.pc \notin {"diverge", "residue", "mark", "fork", "forked"}
    BY DEF Plain
  <1>2. m.pc \in OnPath => \A s \in completed_results(m.br) : s \in m.done \/ s < m.seq
    BY DEF Plain, Placed
  <1>3. completed_results(m.br)' = completed_results(m.br)
    BY NothingTold
  <1> QED BY <1>1, <1>2, <1>3 DEF Placed

LEMMA PlainTree ==
    ASSUME TypeOK, Tree, NEW o \in Orchestrators, Run(o) \/ Crash(o), Mute, Plain(o)
    PROVE  Tree'
  <1>0. JournalTypeOK /\ NoResult /\ Placed(orch[o]) /\ Reviewed(orch[o])
    BY DEF TypeOK, Mute, Tree
  <1>1. PICK m : m = orch'[o]
    OBVIOUS
  <1>2. Placed(m)'
    BY <1>0, <1>1, PlainPlaced
  <1>3. UnknownResults' = UnknownResults
    BY <1>0, MuteKeeps
  <1>4. Reviewed(m)'
    BY <1>0, <1>1, <1>3, RedoMoves DEF Reviewed
  <1> QED BY <1>1, <1>2, <1>4, MuteTree DEF Plain

\* Nobody moves.
LEMMA EnvironmentTree ==
    ASSUME TypeOK, Tree, Lapse \/ Redeliver \/ Land \/ UNCHANGED vars
    PROVE  Tree'
  <1>0. JournalTypeOK /\ Ground /\ Mute
    BY EnvironmentMute DEF TypeOK, Tree
  <1>1. UNCHANGED orch
    BY DEF Lapse, Redeliver, Land, vars, EngineVars
  <1>2. ASSUME NEW p \in Orchestrators PROVE Placed(orch[p])' /\ Reviewed(orch[p])'
    <2>1. PICK l : l = orch[p]
      OBVIOUS
    <2>2. l = orch'[p] /\ Placed(l) /\ Reviewed(l)
      BY <1>1, <2>1 DEF Tree
    <2>3. Placed(l)' /\ Reviewed(l)'
      BY <1>0, <2>2, PlacedKept
    <2> QED BY <2>2, <2>3, PlacedOf
  <1> QED BY <1>0, <1>2, MuteGround DEF Tree

\* The steps that take their place by what they read.
LEMMA EntersTree ==
    ASSUME TypeOK, Tree, NEW o \in Orchestrators, Mute, NEW b, NEW sev, _run_branch(o, b, sev),
           Replays \/ completed_results(b) = {}
    PROVE  Tree'
  <1>0. orch[o] \in Local /\ orch \in [Orchestrators -> Local] /\ JournalTypeOK
    BY DEF TypeOK
  <1>1. PICK sup \in residue \cup {0} :
           orch' = [orch EXCEPT ![o] =
               [@ EXCEPT !.pc = "step", !.br = b, !.sev = sev, !.sup = sup,
                         !.done = IF Replays THEN completed_results(b) ELSE {},
                         !.seq = 1, !.chosen = NoSeverity]]
    BY DEF _run_branch
  <1>2. PICK m : m = orch'[o]
    OBVIOUS
  <1>3. m.pc = "step" /\ m.br = b /\ completed_results(b) \subseteq m.done
    BY <1>0, <1>1, <1>2 DEF Local
  <1>4. completed_results(b)' = completed_results(b)
    BY <1>0, MuteKeeps
  <1>5. Placed(m)' /\ Reviewed(m)'
    BY <1>3, <1>4 DEF Placed, Reviewed, Resting
  <1>6. \A p \in Orchestrators \ {o} : orch'[p] = orch[p]
    BY <1>0, <1>1
  <1> QED BY <1>2, <1>5, <1>6, MuteTree

LEMMA ReadsTree ==
    ASSUME TypeOK, LocalOK, Tree, NEW o \in Orchestrators,
           SelectActive(o) \/ Replay(o) \/ RecordAbandoned(o) \/ RecordFork(o)
    PROVE  Tree'
  <1>0. /\ orch[o] \in Local /\ orch \in [Orchestrators -> Local] /\ Placed(orch[o])
        /\ JournalTypeOK
    BY DEF TypeOK, Tree
  <1>1. Mute
    BY LeadMute, WalkMute, FinishMute
  <1>2. CASE SelectActive(o)
    BY <1>1, <1>2, EntersTree DEF SelectActive
  <1>3. CASE RecordFork(o)
    BY <1>0, <1>1, <1>3, EntersTree DEF RecordFork, At, Placed
  <1>4. CASE Replay(o)
    <2>1. PICK m : m = orch'[o]
      OBVIOUS
    <2>2. /\ m.pc = "step" /\ m.seq = orch[o].seq + 1 /\ m.done = orch[o].done
          /\ m.br = orch[o].br /\ orch[o].seq \in m.done /\ orch[o].pc = "step"
          /\ \A p \in Orchestrators \ {o} : orch'[p] = orch[p]
      BY <1>0, <1>4, <2>1 DEF Replay, At, Local
    <2>3. completed_results(m.br)' = completed_results(orch[o].br)
      BY <1>0, <1>1, <2>2, MuteKeeps
    <2>4. ASSUME NEW s \in completed_results(orch[o].br) PROVE s \in m.done \/ s < m.seq
      <3>1. s \in orch[o].done \/ s < orch[o].seq
        BY <1>0, <2>2 DEF Placed, OnPath
      <3>2. s \in Nat /\ orch[o].seq \in Nat
        BY <1>0 DEF completed_results, Steps, Local
      <3> QED BY <2>2, <3>1, <3>2
    <2>5. Placed(m)' /\ Reviewed(m)'
      BY <2>2, <2>3, <2>4 DEF Placed, Reviewed, Resting
    <2> QED BY <1>1, <2>1, <2>2, <2>5, MuteTree
  <1>5. CASE RecordAbandoned(o)
    <2>1. PICK m : m = orch'[o]
      OBVIOUS
    <2>2. m.pc = "fork" /\ \A p \in Orchestrators \ {o} : orch'[p] = orch[p]
      BY <1>0, <1>5, <2>1 DEF RecordAbandoned, Goto, Local
    <2>3. NoActiveBranch'
      BY <1>0, <1>1, <1>5, MuteKeeps DEF RecordAbandoned, At, Placed
    <2>4. Placed(m)' /\ Reviewed(m)'
      BY <2>2, <2>3 DEF Placed, Reviewed, Resting, OnPath
    <2> QED BY <1>1, <2>1, <2>2, <2>4, MuteTree
  <1> QED BY <1>2, <1>3, <1>4, <1>5

------------------------------------------------------------------------------
(* The steps that tell something new keep it                               *)

\* What a leader is at work on is not done.
LEMMA NotYet ==
    ASSUME TypeOK, LocalOK, Path, Tree, NEW o \in Orchestrators,
           orch[o].pc \in Working
    PROVE  LET k == effect_key(orch[o].br, orch[o].seq) IN
           /\ k \in Key /\ k[1] = orch[o].br /\ k[2] = orch[o].seq
           /\ k[1] \in DOMAIN branches /\ IsActive(k[1])
           /\ Behind(k) /\ k \notin Last("ok")
  <1> DEFINE k == effect_key(orch[o].br, orch[o].seq)
  <1>0. orch[o].br \in Nat /\ orch[o].seq \in Steps /\ orch[o].br \in DOMAIN branches
    BY DEF TypeOK, LocalOK, Sound, Local, Working, Branchless
  <1>1. k \in Key /\ k[1] = orch[o].br /\ k[2] = orch[o].seq /\ k = <<orch[o].br, orch[o].seq>>
    BY <1>0 DEF effect_key, Key
  <1>2. orch[o].pc \in OnPath
    BY DEF Working, OnPath
  <1>3. /\ IsActive(orch[o].br) /\ orch[o].seq \notin orch[o].done
        /\ \A s \in Steps : s < orch[o].seq => s \in completed_results(orch[o].br)
    BY <1>2 DEF Path, PathOK
  <1>4. Behind(k)
    BY <1>1, <1>3, CompletedIs DEF Behind
  <1>5. k \notin Last("ok")
    <2>1. SUFFICES ASSUME k \in Last("ok") PROVE FALSE
      OBVIOUS
    <2>2. orch[o].seq \in completed_results(orch[o].br)
      BY <1>0, <1>1, <2>1, CompletedIs
    <2>3. orch[o].seq < orch[o].seq
      BY <1>2, <1>3, <2>2 DEF Tree, Placed
    <2> QED BY <1>0, <2>3 DEF Steps
  <1> QED BY <1>0, <1>1, <1>3, <1>4, <1>5

LEMMA ExecuteTree ==
    ASSUME TypeOK, LocalOK, Sole, Path, Calm, Tree, NEW o \in Orchestrators, Execute(o)
    PROVE  Tree'
  <1> DEFINE k == effect_key(orch[o].br, orch[o].seq)
  <1>0. JournalTypeOK /\ Ground /\ Placed(orch[o]) /\ orch[o].pc = "call"
    BY DEF TypeOK, Tree, Execute, At
  <1>1. /\ k \in Key /\ k[1] \in DOMAIN branches /\ IsActive(k[1]) /\ Behind(k)
    BY <1>0, NotYet DEF Working
  <1>2. /\ Still \/ Effect(k)
        /\ \A q \in LateKeys' : q \in LateKeys \/ q = k
        /\ UNCHANGED << journal, branches, settings >>
    BY ExecuteDoes
  <1>3. PICK K : K = {k}
    OBVIOUS
  <1>4. NoResult /\ Told' = Told
    BY <1>0, <1>2, NothingTold DEF NoResult
  <1>5. applied' \subseteq applied \cup {k}
    BY <1>2 DEF Still, Effect
  <1>6. Touched' \subseteq Touched \cup K
    BY <1>2, <1>3, <1>4, <1>5 DEF Touched
  <1>7. \A q \in K : q \in Key /\ q[1] \in DOMAIN branches /\ IsActive(q[1]) /\ Behind(q)
    BY <1>1, <1>3
  <1>8. Ground'
    BY <1>0, <1>2, <1>4, <1>6, <1>7, GroundTouched
  <1>9. Plain(o)
    BY PlainMoves
  <1>10. PICK m : m = orch'[o]
    OBVIOUS
  <1>11. Placed(m)'
    BY <1>0, <1>4, <1>9, <1>10, PlainPlaced
  <1>12. Reviewed(m)'
    BY <1>0, <1>9, <1>10 DEF Reviewed, Plain, Resting, Reconcile, At
  <1> QED BY <1>0, <1>8, <1>9, <1>10, <1>11, <1>12, AloneTree DEF Busy, Plain

LEMMA AmbiguousTree ==
    ASSUME TypeOK, LocalOK, Sole, Path, Calm, Tree, NEW o \in Orchestrators, Ambiguous(o)
    PROVE  Tree'
  <1>0. /\ JournalTypeOK /\ Ground /\ orch[o].pc = "ambiguous" /\ orch[o] \in Local
        /\ orch \in [Orchestrators -> Local]
        /\ UNCHANGED << branches, settings, worldVars >>
    BY DEF TypeOK, Tree, Ambiguous, At, WritesRecord, EngineVars
  <1>1. PICK k : k = effect_key(orch[o].br, orch[o].seq)
    OBVIOUS
  <1>2. /\ k \in Key /\ k[1] = orch[o].br /\ k[2] = orch[o].seq
        /\ k[1] \in DOMAIN branches /\ IsActive(k[1]) /\ Behind(k) /\ k \notin Last("ok")
    BY <1>0, <1>1, NotYet DEF Working
  <1>3. ResultOf(k, "unknown")
    <2>1. StepRow(o, "RESULT", "unknown") \in Record
      BY <1>0, StepRowType DEF RecordKind, ResultStatus
    <2> QED BY <1>2, <2>1 DEF ResultOf, Ambiguous, StepRow
  <1>4. Ground'
    BY <1>0, <1>2, <1>3, GroundResult
  <1>5. PICK m : m = orch'[o]
    OBVIOUS
  <1>6. m.pc = "escalate" /\ \A p \in Orchestrators \ {o} : orch'[p] = orch[p]
    BY <1>0, <1>5 DEF Ambiguous, Goto, Local
  <1>7. Placed(m)' /\ Reviewed(m)'
    BY <1>6 DEF Placed, Reviewed, OnPath, Resting
  <1> QED BY <1>0, <1>4, <1>5, <1>6, <1>7, AloneTree DEF Busy

LEMMA RecordResultTree ==
    ASSUME TypeOK, LocalOK, Sole, Path, Calm, Tree, NEW o \in Orchestrators, RecordResult(o)
    PROVE  Tree'
  <1>0. /\ JournalTypeOK /\ Ground /\ orch[o].pc = "called" /\ orch[o] \in Local
        /\ orch \in [Orchestrators -> Local] /\ Placed(orch[o]) /\ PathOK(orch[o])
        /\ UNCHANGED << branches, settings, worldVars >>
    BY DEF TypeOK, Tree, Path, RecordResult, At, WritesRecord, EngineVars
  <1>1. PICK k : k = effect_key(orch[o].br, orch[o].seq)
    OBVIOUS
  <1>2. /\ k \in Key /\ k[1] = orch[o].br /\ k[2] = orch[o].seq
        /\ k[1] \in DOMAIN branches /\ IsActive(k[1]) /\ Behind(k) /\ k \notin Last("ok")
    BY <1>0, <1>1, NotYet DEF Working
  <1>3. PICK st \in {"ok", "failed"} : st = orch[o].res
    BY <1>0 DEF RecordResult, PathOK, ResultStatus
  <1>4. ResultOf(k, st)
    <2>1. StepRow(o, "RESULT", st) \in Record
      BY <1>0, StepRowType DEF RecordKind, ResultStatus
    <2> QED BY <1>2, <1>3, <2>1 DEF ResultOf, RecordResult, StepRow
  <1>5. Ground'
    BY <1>0, <1>2, <1>4, GroundResult
  <1>6. PICK m : m = orch'[o]
    OBVIOUS
  <1>7. \A p \in Orchestrators \ {o} : orch'[p] = orch[p]
    BY <1>0 DEF RecordResult
  <1>8. /\ m.pc \in {"diverge", "escalate", "step"} /\ m.br = orch[o].br
        /\ m.pc = "step" => m.seq = orch[o].seq + 1 /\ m.done = orch[o].done
        /\ m.pc = "diverge" => st = "ok" \/ ToolAt(o) \in Irreversible
    <2> DEFINE settled == [orch[o] EXCEPT !.prior = FALSE, !.res = NoStatus]
    <2>1. settled \in Local /\ settled.br = orch[o].br
          /\ settled.done = orch[o].done /\ settled.seq = orch[o].seq
      BY <1>0 DEF Local
    <2>2. \/ /\ m = [settled EXCEPT !.pc = "diverge"]
             /\ ToolAt(o) \in Irreversible
          \/ m = [settled EXCEPT !.pc = "escalate"]
          \/ /\ m = [settled EXCEPT !.pc = "diverge", !.armed = FALSE]
             /\ orch[o].res # "failed"
          \/ m = [settled EXCEPT !.pc = "step", !.seq = @ + 1]
      <3> DEFINE failed   == orch[o].res = "failed"
                 injected == orch[o].armed /\ orch[o].seq = config.diverge_after_seq
      <3>1. m = CASE failed /\ ToolAt(o) \in Irreversible -> [settled EXCEPT !.pc = "diverge"]
                  [] failed /\ ToolAt(o) \notin Irreversible -> [settled EXCEPT !.pc = "escalate"]
                  [] ~ failed /\ injected -> [settled EXCEPT !.pc = "diverge", !.armed = FALSE]
                  [] ~ failed /\ ~ injected -> [settled EXCEPT !.pc = "step", !.seq = @ + 1]
        BY <1>0, <1>6 DEF RecordResult
      <3> HIDE DEF settled, injected
      <3> QED BY <3>1
    <2> HIDE DEF settled
    <2>3. CASE m = [settled EXCEPT !.pc = "diverge"] /\ ToolAt(o) \in Irreversible
      BY <2>1, <2>3 DEF Local
    <2>4. CASE m = [settled EXCEPT !.pc = "escalate"]
      BY <2>1, <2>4 DEF Local
    <2>5. CASE m = [settled EXCEPT !.pc = "diverge", !.armed = FALSE] /\ orch[o].res # "failed"
      BY <1>3, <2>1, <2>5 DEF Local
    <2>6. CASE m = [settled EXCEPT !.pc = "step", !.seq = @ + 1]
      BY <2>1, <2>6 DEF Local
    <2> QED BY <2>2, <2>3, <2>4, <2>5, <2>6
  <1>9. /\ Told' = Told \cup {k}
        /\ \A tt : Last(tt)' = IF st = tt THEN Last(tt) \cup {k} ELSE Last(tt) \ {k}
    BY <1>0, <1>2, <1>4, ResultTold
  <1>10. Last("ok") \subseteq Last("ok")'
    BY <1>2, <1>9
  <1>11. CASE m.pc = "escalate"
    <2>1. Placed(m)' /\ Reviewed(m)'
      BY <1>11 DEF Placed, Reviewed, OnPath, Resting
    <2> QED BY <1>0, <1>5, <1>6, <1>7, <2>1, AloneTree DEF Busy
  <1>12. CASE m.pc = "step"
    <2>1. ASSUME NEW s \in completed_results(m.br)' PROVE s \in m.done \/ s < m.seq
      <3>1. s \in Steps /\ <<m.br, s>> \in Last("ok")'
        BY <2>1, CompletedIs DEF completed_results, Last, last_result, Rows, KeyOf, effect_key
      <3>2. <<m.br, s>> \in Last("ok") \/ <<m.br, s>> = k
        BY <1>9, <3>1
      <3>3. CASE <<m.br, s>> = k
        <4>1. s = orch[o].seq
          BY <1>2, <3>3
        <4> QED BY <1>0, <1>8, <1>12, <4>1 DEF Local
      <3>4. CASE <<m.br, s>> \in Last("ok")
        <4>1. s \in completed_results(orch[o].br)
          BY <1>8, <3>1, <3>4, CompletedIs
        <4>2. s \in orch[o].done \/ s < orch[o].seq
          BY <1>0, <4>1 DEF Placed, OnPath
        <4>3. s \in Nat /\ orch[o].seq \in Nat
          BY <1>0, <3>1 DEF Local, Steps
        <4> QED BY <1>8, <1>12, <4>2, <4>3
      <3> QED BY <3>2, <3>3, <3>4
    <2>2. Placed(m)' /\ Reviewed(m)'
      BY <1>12, <2>1 DEF Placed, Reviewed, Resting
    <2> QED BY <1>0, <1>5, <1>6, <1>7, <2>2, AloneTree DEF Busy
  <1>13. CASE m.pc = "diverge"
    <2>1. IsActive(m.br)'
      BY <1>0, <1>2, <1>8 DEF IsActive
    <2>2. ASSUME NEW q \in Touched', q[1] = m.br PROVE q \in Closed'
      <3>1. q \in Touched \cup {k}
        BY <1>0, <1>9 DEF Touched, worldVars, LateKeys
      <3>2. CASE q = k
        <4>1. CASE st = "ok"
          BY <1>9, <3>2, <4>1 DEF Closed
        <4>2. CASE st = "failed"
          <5>1. ToolOf(k) \in Irreversible
            BY <1>2, <1>8, <1>13, <4>2 DEF ToolAt, ToolOf
          <5> QED BY <1>9, <3>2, <4>2, <5>1 DEF Closed
        <4> QED BY <4>1, <4>2
      <3>3. CASE q # k
        <4>1. q \in Touched /\ q \in Key
          BY <1>0, <3>1, <3>3 DEF Ground
        <4>2. q = <<q[1], q[2]>> /\ q[2] \in Steps /\ k = <<k[1], k[2]>> /\ k[2] \in Steps
          BY <1>2, <4>1, KeyIs
        <4>3. q[1] = k[1] /\ IsActive(q[1])
          BY <1>2, <1>8, <2>2
        <4>4. q[2] # k[2]
          BY <3>3, <4>2, <4>3
        <4>5. q[2] < k[2] \/ k[2] < q[2]
          BY <4>2, <4>4 DEF Steps
        <4>6. CASE q[2] < k[2]
          <5>1. q \in Last("ok")
            BY <1>2, <4>2, <4>3, <4>6 DEF Behind
          <5> QED BY <1>10, <5>1 DEF Closed
        <4>7. CASE k[2] < q[2]
          <5>1. Behind(q)
            BY <1>0, <4>1, <4>3 DEF Ground
          <5>2. k \in Last("ok")
            BY <4>2, <4>3, <4>7, <5>1 DEF Behind
          <5> QED BY <1>2, <5>2
        <4> QED BY <4>5, <4>6, <4>7
      <3> QED BY <3>1, <3>2, <3>3
    <2>3. Placed(m)' /\ Reviewed(m)'
      BY <1>13, <2>1, <2>2 DEF Placed, Reviewed, Resting, OnPath
    <2> QED BY <1>0, <1>5, <1>6, <1>7, <2>3, AloneTree DEF Busy
  <1> QED BY <1>8, <1>11, <1>12, <1>13

LEMMA GrowTree ==
    ASSUME TypeOK, LocalOK, Sole, Calm, Tree, NEW o \in Orchestrators,
           SelectFresh(o) \/ ForkNaive(o) \/ Fork(o)
    PROVE  Tree'
  <1>0. /\ JournalTypeOK /\ Ground /\ orch[o] \in Local /\ orch \in [Orchestrators -> Local]
        /\ Placed(orch[o]) /\ orch[o].pc \in {"select", "fork"}
        /\ UNCHANGED << journal, settings, worldVars >>
    BY DEF TypeOK, Tree, SelectFresh, ForkNaive, Fork, At, WritesTree, EngineVars
  <1>1. NoActiveBranch
    BY <1>0 DEF Placed, SelectFresh, ForkNaive, Fork, At
  <1>2. \E p \in Nat, d \in Nat : create_branch(p, d)
    <2>1. CASE SelectFresh(o) \/ ForkNaive(o)
      BY <2>1 DEF SelectFresh, ForkNaive
    <2>2. CASE Fork(o)
      <3>1. orch[o].br \in DOMAIN branches /\ orch[o].br \in Nat
        BY <1>0, <2>2 DEF LocalOK, Sound, Branchless, Fork, At, Local
      <3>2. branches[orch[o].br] \in Branch
        BY <1>0, <3>1 DEF JournalTypeOK
      <3>3. branches[orch[o].br].depth + 1 \in Nat
        BY <3>2 DEF Branch
      <3> QED BY <2>2, <3>1, <3>3 DEF Fork
    <2> QED BY <2>1, <2>2
  <1>3. PICK n \in Nat : n = Len(branches) + 1 /\ completed_results(n)' = {} /\ Ground'
    BY <1>0, <1>1, <1>2, GroundGrown
  <1>4. PICK m : m = orch'[o]
    OBVIOUS
  <1>5. m.pc \in {"step", "forked"} /\ m.br = n /\ \A p \in Orchestrators \ {o} : orch'[p] = orch[p]
    <2>1. ASSUME NEW sev, _run_branch(o, n, sev)
          PROVE  orch'[o].pc = "step" /\ orch'[o].br = n /\ \A p \in Orchestrators \ {o} : orch'[p] = orch[p]
      BY <1>0, <2>1 DEF _run_branch, Local
    <2>2. CASE SelectFresh(o) \/ ForkNaive(o)
      BY <1>3, <1>4, <2>1, <2>2 DEF SelectFresh, ForkNaive
    <2>3. CASE Fork(o)
      BY <1>0, <1>3, <1>4, <2>3 DEF Fork, Local
    <2> QED BY <2>2, <2>3
  <1>6. completed_results(m.br)' = {}
    BY <1>3, <1>5
  <1>7. Placed(m)' /\ Reviewed(m)'
    BY <1>5, <1>6 DEF Placed, Reviewed, Resting
  <1>8. Busy(o)
    BY <1>0 DEF Busy
  <1> QED BY <1>3, <1>4, <1>5, <1>7, <1>8, AloneTree

LEMMA MarkTree ==
    ASSUME TypeOK, LocalOK, Sole, Path, Calm, Tree, NEW o \in Orchestrators,
           SelectNaive(o) \/ Abandon(o) \/ AbandonWithResidue(o) \/ Graduate(o)
    PROVE  Tree'
  <1>0. /\ JournalTypeOK /\ Ground /\ orch[o] \in Local /\ orch \in [Orchestrators -> Local]
        /\ Placed(orch[o]) /\ orch[o].pc \in {"select", "diverge", "residue", "graduate"}
        /\ UNCHANGED << journal, settings, worldVars >>
    BY DEF TypeOK, Tree, SelectNaive, Abandon, AbandonWithResidue, Graduate, At, WritesTree,
           EngineVars
  <1>1. Busy(o)
    BY <1>0 DEF Busy
  <1>2. PICK m : m = orch'[o]
    OBVIOUS
  <1>3. \A p \in Orchestrators \ {o} : orch'[p] = orch[p]
    BY <1>0 DEF SelectNaive, Abandon, AbandonWithResidue, Graduate, Goto
  <1>4. CASE SelectNaive(o)
    <2>1. PICK b \in DOMAIN branches : IsActive(b) /\ set_branch_status(b, "abandoned")
      BY <1>4 DEF SelectNaive, active_branch
    <2>2. ~ Replays
      BY <1>4 DEF SelectNaive
    <2>3. Ground' /\ NoActiveBranch'
      BY <1>0, <2>1, <2>2, GroundMarked
    <2>4. m.pc = "residue"
      BY <1>2, <1>4, OtherMoves
    <2>5. Placed(m)' /\ Reviewed(m)'
      BY <2>3, <2>4 DEF Placed, Reviewed, OnPath, Resting
    <2> QED BY <1>1, <1>2, <1>3, <2>3, <2>5, AloneTree
  <1>5. CASE Abandon(o)
    <2>1. PICK b \in DOMAIN branches : b = orch[o].br /\ set_branch_status(b, "abandoned")
      BY <1>5 DEF Abandon, LocalOK, Sound, Branchless, At
    <2>2. IsActive(b) /\ \A k \in Touched : k[1] = b => k \in Closed
      BY <1>0, <1>5, <2>1 DEF Abandon, At, Placed
    <2>3. Ground' /\ NoActiveBranch'
      BY <1>0, <2>1, <2>2, GroundMarked
    <2>4. m.pc = "residue"
      BY <1>2, <1>5, OtherMoves
    <2>5. Placed(m)' /\ Reviewed(m)'
      BY <2>3, <2>4 DEF Placed, Reviewed, OnPath, Resting
    <2> QED BY <1>1, <1>2, <1>3, <2>3, <2>5, AloneTree
  <1>6. CASE AbandonWithResidue(o)
    <2>1. PICK b \in DOMAIN branches :
             b = orch[o].br /\ set_branch_status(b, "abandoned_with_residue")
      BY <1>6 DEF AbandonWithResidue, LocalOK, Sound, Branchless, At
    <2>2. NoActiveBranch
      BY <1>0, <1>6 DEF AbandonWithResidue, At, Placed
    <2>3. Ground' /\ NoActiveBranch'
      BY <1>0, <2>1, <2>2, GroundMarked DEF NoActiveBranch
    <2>4. m.pc = "mark"
      BY <1>2, <1>6, OtherMoves
    <2>5. Placed(m)' /\ Reviewed(m)'
      BY <2>3, <2>4 DEF Placed, Reviewed, OnPath, Resting
    <2> QED BY <1>1, <1>2, <1>3, <2>3, <2>5, AloneTree
  <1>7. CASE Graduate(o)
    <2>1. PICK b \in DOMAIN branches : b \in orch[o].grads /\ set_branch_status(b, "compensated")
      BY <1>7 DEF Graduate, NextGraduate
    <2>2. ~ IsActive(b)
      BY <2>1 DEF Path, PathOK
    <2>3. Ground'
      BY <1>0, <2>1, <2>2, GroundMarked
    <2>4. Plain(o) /\ NoResult
      BY <1>0, <1>7, PlainMoves DEF Drain, NoResult
    <2>5. Placed(m)'
      BY <1>0, <1>2, <2>4, PlainPlaced
    <2>6. Reviewed(m)'
      BY <1>0, <1>2, <2>4 DEF Reviewed, Plain, Resting, Reconcile, At
    <2> QED BY <1>1, <1>2, <1>3, <2>3, <2>5, <2>6, AloneTree
  <1> QED BY <1>4, <1>5, <1>6, <1>7

\* A result that was unknown is settled, for its key and no other.
LEMMA ResettleDoes ==
    ASSUME TypeOK, Tree, NEW o \in Orchestrators, Resettle(o)
    PROVE  \E r \in UnknownResults, k \in Key :
              /\ r \in orch[o].redo /\ k = KeyOf(r) /\ ResultOf(k, "ok")
              /\ k \in Last("unknown") /\ k \notin Last("ok") /\ k \in Told
              /\ orch'[o].pc = "recheck" /\ orch'[o].redo = orch[o].redo \ {r}
              /\ \A q \in UnknownResults : q # r => q \in UnknownResults'
              /\ \A p \in Orchestrators \ {o} : orch'[p] = orch[p]
              /\ UNCHANGED << branches, settings, worldVars >>
  <1>0. /\ JournalTypeOK /\ Ground /\ orch[o] \in Local /\ orch \in [Orchestrators -> Local]
        /\ orch[o].pc = "matched" /\ UNCHANGED << branches, settings, worldVars >>
        /\ Reviewed(orch[o])
    BY DEF TypeOK, Tree, Resettle, At, WritesRecord, EngineVars
  <1>1. PICK r \in DOMAIN journal :
           NextRedo(o, r) /\ append(SlotRow("RESULT", r, "ok")) /\ DropRedo(o, r)
    BY DEF Resettle
  <1>2. r \in orch[o].redo /\ r \in UnknownResults
    BY <1>0, <1>1 DEF NextRedo, Reviewed, Resting
  <1>3. PICK k : k = KeyOf(r)
    OBVIOUS
  <1>4. /\ r \in Rows("RESULT") /\ last_result(journal[r].br, journal[r].seq, r)
        /\ journal[r].status = "unknown" /\ journal[r] \in Record
    BY <1>0, <1>1, <1>2 DEF UnknownResults, JournalTypeOK
  <1>5. k \in Last("unknown") /\ k \in Told /\ k \notin Last("ok")
    BY <1>0, <1>3, <1>4, LastTold DEF Last, Told
  <1>6. k \in Key /\ k[1] = journal[r].br /\ k[2] = journal[r].seq
    BY <1>0, <1>3, <1>5 DEF Ground, Touched, KeyOf, effect_key
  <1>7. ResultOf(k, "ok")
    <2>1. /\ SlotRow("RESULT", r, "ok") \in Record
          /\ SlotRow("RESULT", r, "ok").kind = "RESULT"
          /\ SlotRow("RESULT", r, "ok").br = journal[r].br
          /\ SlotRow("RESULT", r, "ok").seq = journal[r].seq
          /\ SlotRow("RESULT", r, "ok").status = "ok"
      BY <1>0, <1>1, SlotRowFields, SlotRowType DEF RecordKind, ResultStatus
    <2> QED BY <1>1, <1>6, <2>1 DEF ResultOf
  <1>8. orch'[o].pc = "recheck" /\ orch'[o].redo = orch[o].redo \ {r}
        /\ \A p \in Orchestrators \ {o} : orch'[p] = orch[p]
    BY <1>0, <1>1 DEF DropRedo, Local
  <1>9. ASSUME NEW q \in UnknownResults, q # r PROVE q \in UnknownResults'
    <2>1. /\ q \in Rows("RESULT") /\ last_result(journal[q].br, journal[q].seq, q)
          /\ journal[q].seq \in Steps /\ journal[q].status = "unknown"
      BY <1>9 DEF UnknownResults
    <2>2. KeyOf(q) # k
      BY <1>0, <1>3, <1>4, <1>9, <2>1, LastOnce
    <2>3. q \in Rows("RESULT")' /\ journal'[q] = journal[q]
      BY <1>0, <1>6, <1>7, <2>1, ResultTold
    <2>4. <<journal[q].br, journal[q].seq>> # k
      BY <2>2 DEF KeyOf, effect_key
    <2>5. last_result(journal[q].br, journal[q].seq, q)'
      <3>1. PICK b, s : b = journal[q].br /\ s = journal[q].seq
        OBVIOUS
      <3>2. last_result(b, s, q)'
        BY <1>0, <1>6, <1>7, <2>1, <2>4, <3>1, ResultTold
      <3> QED BY <2>3, <3>1, <3>2 DEF last_result
    <2> QED BY <2>1, <2>3, <2>5 DEF UnknownResults
  <1> QED BY <1>0, <1>2, <1>3, <1>5, <1>6, <1>7, <1>8, <1>9

LEMMA ResettleTree ==
    ASSUME TypeOK, Sole, Calm, Tree, NEW o \in Orchestrators, Resettle(o)
    PROVE  Tree'
  <1>0. JournalTypeOK /\ Ground /\ orch[o].pc \in Resting /\ Reviewed(orch[o])
    BY DEF TypeOK, Tree, Resettle, At, Resting
  <1>1. PICK r \in UnknownResults, k \in Key :
              /\ r \in orch[o].redo /\ k = KeyOf(r) /\ ResultOf(k, "ok")
              /\ k \in Last("unknown") /\ k \notin Last("ok") /\ k \in Told
              /\ orch'[o].pc = "recheck" /\ orch'[o].redo = orch[o].redo \ {r}
              /\ \A q \in UnknownResults : q # r => q \in UnknownResults'
              /\ \A p \in Orchestrators \ {o} : orch'[p] = orch[p]
              /\ UNCHANGED << branches, settings, worldVars >>
    BY ResettleDoes
  <1>2. k[1] \in DOMAIN branches /\ (IsActive(k[1]) => Behind(k))
    BY <1>0, <1>1 DEF Ground, Touched
  <1>3. Ground'
    BY <1>0, <1>1, <1>2, GroundResult
  <1>4. PICK m : m = orch'[o]
    OBVIOUS
  <1>5. Placed(m)' /\ Reviewed(m)'
    BY <1>0, <1>1, <1>4 DEF Placed, Reviewed, OnPath, Resting
  <1> QED BY <1>0, <1>1, <1>3, <1>4, <1>5, AloneTree

LEMMA TreeInit == Init => Tree
  <1> SUFFICES ASSUME Init PROVE Tree
    OBVIOUS
  <1>1. journal = << >> /\ branches = << >> /\ applied = {} /\ LateKeys = {}
    BY DEF Init, JournalInit, WorldInit, LateKeys, BagToSet, EmptyBag, SetToBag
  <1>2. Rows("RESULT") = {}
    BY <1>1 DEF Rows
  <1>3. Told = {} /\ Okay = {}
    BY <1>2 DEF Told, Okay
  <1>4. Ground
    BY <1>1, <1>3 DEF Ground, Touched
  <1>5. \A o \in Orchestrators : orch[o].pc = "idle"
    BY DEF Init, Idle
  <1> QED BY <1>4, <1>5 DEF Tree, Placed, Reviewed, OnPath, Resting

LEMMA TreeNext ==
    ASSUME TypeOK, LocalOK, Sole, Path, Calm, Tree, [Next]_vars
    PROVE  Tree'
  <1>1. ASSUME NEW o \in Orchestrators, Run(o) \/ Crash(o) PROVE Tree'
    <2>1. CASE Start(o) \/ NotLeader(o) \/ Ack(o) \/ Crash(o)
      BY <1>1, <2>1, LeadMute, PlainMoves, PlainTree
    <2>2. CASE Complete(o) \/ Pass(o) \/ Block(o) \/ Intent(o) \/ Probe(o) \/ Suppress(o)
      BY <1>1, <2>2, WalkMute, PlainMoves, PlainTree
    <2>3. CASE Drain(o) /\ ~ Graduate(o)
      BY <1>1, <2>3, DrainMute, PlainMoves, PlainTree
    <2>4. CASE ReplayFailed(o) \/ Escalate(o)
      BY <1>1, <2>4, FinishMute, PlainMoves, PlainTree
    <2>5. CASE Revisit(o) /\ ~ Resettle(o)
      BY <1>1, <2>5, RevisitMute, PlainMoves, PlainTree DEF Tree
    <2>6. CASE SelectActive(o) \/ Replay(o) \/ RecordAbandoned(o) \/ RecordFork(o)
      BY <2>6, ReadsTree
    <2>7. CASE Execute(o) \/ Ambiguous(o) \/ RecordResult(o)
      BY <2>7, ExecuteTree, AmbiguousTree, RecordResultTree
    <2>8. CASE SelectFresh(o) \/ ForkNaive(o) \/ Fork(o)
      BY <2>8, GrowTree
    <2>9. CASE SelectNaive(o) \/ Abandon(o) \/ AbandonWithResidue(o) \/ Graduate(o)
      BY <2>9, MarkTree
    <2>10. CASE Resettle(o)
      BY <2>10, ResettleTree
    <2> QED BY <1>1, <2>1, <2>2, <2>3, <2>4, <2>5, <2>6, <2>7, <2>8, <2>9, <2>10
            DEF Run, Lead, Walk, Settle, Finish
  <1> QED BY <1>1, EnvironmentTree DEF Next

\* While no lease lapses under a working leader and no reconciliation overlaps a
\* delivery, one branch is alive, what was done on it was done in the order of the
\* trace, a branch dies with its steps closed, and an ok is never taken back.
LEMMA OneTree ==
    ASSUME NoTakeover, Apart
    PROVE  Spec => [](TypeOK /\ LocalOK /\ Sole /\ Path /\ Calm /\ Tree)
  <1>1. Spec => [](TypeOK /\ LocalOK /\ Sole /\ Path)
    BY TypeCorrect, OneLeader, PTL
  <1>2. Calm /\ TypeOK /\ LocalOK /\ Path /\ [Next]_vars => Calm'
    BY CalmNext
  <1>3. Spec => []Calm
    BY <1>1, <1>2, CalmInit, PTL DEF Spec
  <1>4. Tree /\ TypeOK /\ LocalOK /\ Sole /\ Path /\ Calm /\ [Next]_vars => Tree'
    BY TreeNext
  <1> QED BY <1>1, <1>3, <1>4, TreeInit, PTL DEF Spec

------------------------------------------------------------------------------
(* What a leader has on its list to undo                                   *)

Undoing == {"comp", "undo", "undone"}

\* Only a leader that undoes has a list; on it are oks that are not undone, one for
\* each key.
OnList(l) ==
    /\ l.pc \notin Undoing => l.todo = {}
    /\ \A r \in l.todo : /\ r \in Rows("RESULT") /\ journal[r].status = "ok"
                         /\ KeyOf(r) \notin compensations
    /\ \A q, r \in l.todo : KeyOf(q) = KeyOf(r) => q = r

Listed == \A o \in Orchestrators : OnList(orch[o])

\* A step that reports nothing undone.
NoUndo == \/ UNCHANGED journal
          \/ \E rec \in Record : append(rec) /\ rec.kind # "COMP_RESULT"

LEMMA CompensationsAfter ==
    ASSUME JournalTypeOK, NEW rec \in Record, append(rec)
    PROVE  compensations' = IF rec.kind = "COMP_RESULT" /\ rec.status = "ok"
                            THEN compensations \cup {effect_key(rec.br, rec.seq)}
                            ELSE compensations
  <1>1. PICK n \in Nat : /\ \A q \in DOMAIN journal : journal'[q] = journal[q] /\ q # n
                         /\ DOMAIN journal' = DOMAIN journal \cup {n} /\ journal'[n] = rec
    <2>1. Len(journal) + 1 \in Nat
      BY DEF JournalTypeOK
    <2> QED BY <2>1 DEF append, JournalTypeOK
  <1>2. /\ Rows("COMP_RESULT")' = IF rec.kind = "COMP_RESULT" THEN Rows("COMP_RESULT") \cup {n}
                                                              ELSE Rows("COMP_RESULT")
        /\ \A r \in Rows("COMP_RESULT") : journal'[r] = journal[r] /\ r # n
    BY <1>1 DEF Rows
  <1>3. \A r \in Rows("COMP_RESULT") : KeyOf(r)' = KeyOf(r)
    BY <1>2 DEF KeyOf
  <1>4. KeyOf(n)' = effect_key(rec.br, rec.seq)
    BY <1>1 DEF KeyOf, effect_key
  <1>5. \A k : k \in compensations <=>
                 \E r \in Rows("COMP_RESULT") : journal[r].status = "ok" /\ KeyOf(r) = k
    BY DEF compensations
  <1>6. \A k : k \in compensations' <=>
                 \E r \in Rows("COMP_RESULT")' : journal'[r].status = "ok" /\ KeyOf(r)' = k
    BY DEF compensations
  <1>7. ASSUME NEW k
        PROVE  k \in compensations' <=>
                  \/ k \in compensations
                  \/ rec.kind = "COMP_RESULT" /\ rec.status = "ok" /\ k = effect_key(rec.br, rec.seq)
    <2>1. \A r \in Rows("COMP_RESULT") : r \in Rows("COMP_RESULT")'
      BY <1>2
    <2> QED BY <1>1, <1>2, <1>3, <1>4, <1>5, <1>6, <2>1
  <1>8. CASE rec.kind = "COMP_RESULT" /\ rec.status = "ok"
    BY <1>7, <1>8
  <1>9. CASE ~ (rec.kind = "COMP_RESULT" /\ rec.status = "ok")
    BY <1>7, <1>9
  <1> QED BY <1>8, <1>9

LEMMA NothingUndone ==
    ASSUME JournalTypeOK, NoUndo
    PROVE  compensations' = compensations
  BY CompensationsAfter DEF NoUndo, compensations, Rows, KeyOf

LEMMA OnlyCompResult ==
    ASSUME TypeOK, LocalOK, NEW o \in Orchestrators, Run(o) \/ Crash(o), ~ CompResult(o)
    PROVE  NoUndo
  <1>0. JournalTypeOK /\ orch[o] \in Local
    BY DEF TypeOK
  <1>1. CASE \/ Lead(o) \/ Replay(o) \/ Complete(o) \/ Pass(o) \/ Block(o)
             \/ Drained(o) \/ BeginPass(o) \/ GiveUp(o) \/ Graduate(o) \/ Graduated(o)
             \/ Release(o) \/ Finish(o) \/ Crash(o)
    <2>1. Modest
      BY <1>1, LeadQuiet, WalkQuiet, DrainQuiet, FinishQuiet DEF Quiet
    <2> QED BY <2>1 DEF Modest, NoUndo
  <1>2. CASE Execute(o) \/ Undo(o) \/ Probe(o)
    BY <1>2 DEF Execute, Undo, Probe, CallsWorld, ReadOnly, journalVars, NoUndo
  <1>3. CASE Intent(o) \/ Ambiguous(o) \/ Suppress(o)
    <2>1. /\ StepRow(o, "INTENT", NoStatus) \in Record
          /\ StepRow(o, "RESULT", "unknown") \in Record
          /\ StepRow(o, "LATE_DELIVERY_SUPPRESSED", "ok") \in Record
      BY StepRowType DEF RecordKind, ResultStatus
    <2> QED BY <1>3, <2>1 DEF Intent, Ambiguous, Suppress, StepRow, NoUndo
  <1>4. CASE RecordResult(o)
    <2>1. StepRow(o, "RESULT", orch[o].res) \in Record
      BY <1>0, StepRowType DEF RecordKind, Local
    <2> QED BY <1>4, <2>1 DEF RecordResult, StepRow, NoUndo
  <1>5. CASE CompIntent(o)
    <2>1. PICK r \in DOMAIN journal : append(CompRow(o, "COMP_INTENT", r, NoStatus))
      BY <1>5 DEF CompIntent
    <2>2. CompRow(o, "COMP_INTENT", r, NoStatus) \in Record
          /\ CompRow(o, "COMP_INTENT", r, NoStatus).kind = "COMP_INTENT"
      BY CompRowType DEF RecordKind
    <2> QED BY <2>1, <2>2 DEF NoUndo
  <1>6. CASE Reconcile(o) \/ Recheck(o) \/ Reprobe(o) \/ Reconciled(o)
    BY <1>6 DEF Reconcile, Recheck, Reprobe, Reconciled, CallsWorld, ReadOnly, journalVars, NoUndo
  <1>7. ASSUME NEW kind \in RecordKind, kind # "COMP_RESULT", NEW r \in DOMAIN journal,
               append(SlotRow(kind, r, "ok"))
        PROVE  NoUndo
    BY <1>0, <1>7, SlotRowFields, SlotRowType DEF ResultStatus, NoUndo
  <1>8. CASE Rematch(o) \/ Resettle(o)
    BY <1>7, <1>8 DEF Rematch, Resettle, RecordKind
  <1> QED BY <1>1, <1>2, <1>3, <1>4, <1>5, <1>6, <1>8 DEF Run, Walk, Settle, Drain, Revisit

\* What a report tells is of the latest on the list, which is then off it.
LEMMA CompResultDoes ==
    ASSUME TypeOK, NEW o \in Orchestrators, CompResult(o)
    PROVE  \E r \in orch[o].todo :
              /\ Latest(orch[o], r) /\ orch[o].pc = "undone"
              /\ orch'[o].todo = orch[o].todo \ {r}
              /\ orch'[o].pc \in {"drain", "comp"}
              /\ orch'[o].pc = "drain" => orch[o].todo = {r}
              /\ compensations' = compensations \cup (IF orch[o].res = "ok" THEN {KeyOf(r)} ELSE {})
              /\ \A p \in Orchestrators \ {o} : orch'[p] = orch[p]
  <1>0. JournalTypeOK /\ orch[o] \in Local /\ orch \in [Orchestrators -> Local]
    BY DEF TypeOK
  <1>1. PICK r \in DOMAIN journal :
           /\ NextUndo(o, r)
           /\ append(CompRow(o, "COMP_RESULT", r, orch[o].res))
           /\ orch' = [orch EXCEPT ![o] =
                  [@ EXCEPT !.pc = IF orch[o].todo = {r} THEN "drain" ELSE "comp",
                            !.todo = orch[o].todo \ {r}, !.res = NoStatus]]
    BY DEF CompResult
  <1>2. PICK rec \in Record : /\ append(rec) /\ rec.kind = "COMP_RESULT"
                              /\ rec.status = orch[o].res
                              /\ effect_key(rec.br, rec.seq) = KeyOf(r)
    <2>1. /\ CompRow(o, "COMP_RESULT", r, orch[o].res) \in Record
          /\ CompRow(o, "COMP_RESULT", r, orch[o].res).kind = "COMP_RESULT"
          /\ CompRow(o, "COMP_RESULT", r, orch[o].res).status = orch[o].res
          /\ CompRow(o, "COMP_RESULT", r, orch[o].res).br = journal[r].br
          /\ CompRow(o, "COMP_RESULT", r, orch[o].res).seq = journal[r].seq
      BY <1>0, CompRowType DEF RecordKind, Local
    <2> QED BY <1>1, <2>1 DEF KeyOf
  <1>3. compensations' = compensations \cup (IF orch[o].res = "ok" THEN {KeyOf(r)} ELSE {})
    BY <1>0, <1>2, CompensationsAfter
  <1>4. r \in orch[o].todo /\ Latest(orch[o], r) /\ orch[o].pc = "undone"
    BY <1>1 DEF NextUndo, Latest, CompResult, At
  <1>5. /\ orch'[o].pc = IF orch[o].todo = {r} THEN "drain" ELSE "comp"
        /\ orch'[o].todo = orch[o].todo \ {r}
        /\ \A p \in Orchestrators \ {o} : orch'[p] = orch[p]
    BY <1>0, <1>1 DEF Local
  <1> QED BY <1>3, <1>4, <1>5

\* Only undoing needs a list.
LEMMA OffList ==
    ASSUME TypeOK, NEW o \in Orchestrators, Run(o) \/ Crash(o),
           ~ BeginPass(o), ~ CompIntent(o), ~ Undo(o), ~ CompResult(o),
           orch[o].pc \notin Undoing => orch[o].todo = {}
    PROVE  orch'[o].pc \notin Undoing /\ orch'[o].todo = {}
  <1>0. orch[o] \in Local /\ orch \in [Orchestrators -> Local]
    BY DEF TypeOK
  <1> USE DEF At, Goto, Undoing
  <1>1. ASSUME NEW b, NEW sev, _run_branch(o, b, sev), orch[o].todo = {}
        PROVE  orch'[o].pc \notin Undoing /\ orch'[o].todo = {}
    BY <1>0, <1>1 DEF _run_branch, Local
  <1>2. CASE Lead(o)
    <2>1. CASE Start(o)       BY <1>0, <2>1 DEF Start, Idle
    <2>2. CASE NotLeader(o)   BY <1>0, <2>2 DEF NotLeader, Idle
    <2>3. CASE SelectActive(o) \/ SelectFresh(o)
      BY <1>1, <2>3 DEF SelectActive, SelectFresh
    <2>4. CASE SelectNaive(o) BY <1>0, <2>4 DEF SelectNaive, Local
    <2> QED BY <1>2, <2>1, <2>2, <2>3, <2>4 DEF Lead
  <1>3. CASE Walk(o)
    <2>1. CASE Replay(o)      BY <1>0, <2>1 DEF Replay, Local
    <2>2. CASE Complete(o)    BY <1>0, <2>2 DEF Complete, Local
    <2>3. CASE Pass(o)        BY <1>0, <2>3 DEF Pass, ToExecute, Local
    <2>4. CASE Block(o)       BY <1>0, <2>4 DEF Block, ToExecute, Local
    <2>5. CASE Intent(o)      BY <1>0, <2>5 DEF Intent, Local
    <2>6. CASE Execute(o)     BY <1>0, <2>6 DEF Execute, Local
    <2> QED BY <1>3, <2>1, <2>2, <2>3, <2>4, <2>5, <2>6 DEF Walk
  <1>4. CASE Settle(o)
    <2>1. CASE Probe(o)
      <3>1. /\ orch[o].pc = "called"
            /\ \/ orch'[o] = [orch[o] EXCEPT !.res = "ok"]
               \/ orch'[o] = [orch[o] EXCEPT !.res = "failed"]
               \/ orch'[o] = [orch[o] EXCEPT !.pc = "ambiguous"]
        BY <1>0, <2>1 DEF Probe
      <3> QED BY <1>0, <3>1 DEF Local
    <2>2. CASE Ambiguous(o)   BY <1>0, <2>2 DEF Ambiguous, Local
    <2>3. CASE Suppress(o)    BY <1>0, <2>3 DEF Suppress, Local
    <2>4. CASE RecordResult(o)
      <3>1. orch'[o].pc \in {"step", "diverge", "escalate"}
        BY <2>4, OtherMoves
      <3> DEFINE settled == [orch[o] EXCEPT !.prior = FALSE, !.res = NoStatus]
      <3>2. settled \in Local /\ settled.todo = orch[o].todo
        BY <1>0 DEF Local
      <3>3. \/ orch'[o] = [settled EXCEPT !.pc = "diverge"]
            \/ orch'[o] = [settled EXCEPT !.pc = "escalate"]
            \/ orch'[o] = [settled EXCEPT !.pc = "diverge", !.armed = FALSE]
            \/ orch'[o] = [settled EXCEPT !.pc = "step", !.seq = @ + 1]
        BY <1>0, <2>4 DEF RecordResult
      <3>4. orch'[o].todo = orch[o].todo
        BY <3>2, <3>3 DEF Local
      <3> QED BY <2>4, <3>1, <3>4 DEF RecordResult
    <2> QED BY <1>4, <2>1, <2>2, <2>3, <2>4 DEF Settle
  <1>5. CASE Drain(o)
    <2>1. CASE Drained(o)     BY <1>0, <2>1 DEF Drained, Local
    <2>2. CASE GiveUp(o)      BY <1>0, <2>2 DEF GiveUp, Local
    <2>3. CASE Graduate(o)    BY <1>0, <2>3 DEF Graduate, Local
    <2>4. CASE Graduated(o)   BY <1>0, <2>4 DEF Graduated, Local
    <2>5. CASE Release(o)     BY <1>0, <2>5 DEF Release, Local
    <2> QED BY <1>5, <2>1, <2>2, <2>3, <2>4, <2>5 DEF Drain
  <1>6. CASE Finish(o)
    <2>1. CASE ReplayFailed(o)
      <3>1. \/ orch'[o] = [Idle EXCEPT !.tries = orch[o].tries + 1]
            \/ orch'[o] = [Idle EXCEPT !.pc = "returned"]
        BY <1>0, <2>1 DEF ReplayFailed
      <3> QED BY <3>1 DEF Idle
    <2>2. CASE Escalate(o)    BY <1>0, <2>2 DEF Escalate, Local
    <2>3. CASE Abandon(o)     BY <1>0, <2>3 DEF Abandon, Local
    <2>4. CASE AbandonWithResidue(o) BY <1>0, <2>4 DEF AbandonWithResidue, Local
    <2>5. CASE RecordAbandoned(o)    BY <1>0, <2>5 DEF RecordAbandoned, Local
    <2>6. CASE Fork(o)        BY <1>0, <2>6 DEF Fork, Local
    <2>7. CASE RecordFork(o) \/ ForkNaive(o)
      BY <1>1, <2>7 DEF RecordFork, ForkNaive
    <2>8. CASE Ack(o)         BY <1>0, <2>8 DEF Ack, Idle
    <2> QED BY <1>6, <2>1, <2>2, <2>3, <2>4, <2>5, <2>6, <2>7, <2>8 DEF Finish
  <1>7. CASE Revisit(o)
    <2>0. CASE Reconciled(o)  BY <1>0, <2>0 DEF Reconciled, Idle
    <2>1. CASE Reconcile(o)
      <3>1. orch'[o] = [Idle EXCEPT !.pc = "recheck", !.epoch = lease.epoch,
                                    !.redo = UnknownResults]
        BY <1>0, <2>1 DEF Reconcile
      <3> QED BY <3>1 DEF Idle
    <2>2. CASE Recheck(o)     BY <1>0, <2>2 DEF Recheck, Local
    <2>3. CASE Rematch(o)     BY <1>0, <2>3 DEF Rematch, Local
    <2>4. ASSUME NEW r, DropRedo(o, r), orch[o].todo = {}
          PROVE  orch'[o].pc \notin Undoing /\ orch'[o].todo = {}
      BY <1>0, <2>4 DEF DropRedo, Local
    <2>5. CASE Resettle(o)    BY <2>4, <2>5 DEF Resettle
    <2>6. CASE Reprobe(o)
      <3>1. orch[o].pc = "rechecked" /\ orch[o].todo = {}
        BY <2>6 DEF Reprobe
      <3>2. orch' = [orch EXCEPT ![o].res = "ok"]
            => orch'[o].pc = "rechecked" /\ orch'[o].todo = {}
        BY <1>0, <3>1 DEF Local
      <3> QED BY <2>4, <2>6, <3>1, <3>2 DEF Reprobe
    <2> QED BY <1>7, <2>0, <2>1, <2>2, <2>3, <2>5, <2>6 DEF Revisit
  <1>8. CASE Crash(o)
    BY <1>0, <1>8 DEF Crash, Idle
  <1> QED BY <1>2, <1>3, <1>4, <1>5, <1>6, <1>7, <1>8 DEF Run

LEMMA OnListKept ==
    ASSUME JournalTypeOK, Grows, NEW l, OnList(l), compensations' = compensations
    PROVE  OnList(l)'
  <1>1. \A r \in l.todo : /\ r \in Rows("RESULT")' /\ journal'[r] = journal[r]
                          /\ KeyOf(r)' = KeyOf(r)
    BY GrowthKeeps DEF OnList, Rows, KeyOf
  <1>2. \A r \in l.todo : /\ r \in Rows("RESULT")' /\ journal'[r].status = "ok"
                          /\ KeyOf(r)' \notin compensations'
    BY <1>1 DEF OnList
  <1>3. \A q, r \in l.todo : KeyOf(q)' = KeyOf(r)' => q = r
    BY <1>1 DEF OnList
  <1> QED BY <1>2, <1>3 DEF OnList

LEMMA OnListOf ==
    ASSUME NEW o \in Orchestrators, NEW m, m = orch'[o], OnList(m)'
    PROVE  OnList(orch[o])'
  BY DEF OnList, Rows, KeyOf, compensations

\* What is left to undo makes a list.
LEMMA UncompensatedIsList ==
    ASSUME JournalTypeOK, NEW r \in uncompensated
    PROVE  /\ r \in Rows("RESULT") /\ journal[r].status = "ok" /\ KeyOf(r) \notin compensations
           /\ \A q \in uncompensated : KeyOf(q) = KeyOf(r) => q = r
  <1>1. r \in Rows("RESULT") /\ journal[r].status = "ok" /\ KeyOf(r) \notin compensations
    BY DEF uncompensated, DeadResults
  <1>2. ASSUME NEW q \in uncompensated, KeyOf(q) = KeyOf(r) PROVE q = r
    <2>1. q <= r /\ r <= q
      BY <1>2 DEF uncompensated, DeadResults
    <2>2. q \in Nat /\ r \in Nat
      BY DEF uncompensated, DeadResults, Rows, JournalTypeOK
    <2> QED BY <2>1, <2>2
  <1> QED BY <1>1, <1>2

LEMMA ListedInit == Init => Listed
  BY DEF Init, Listed, OnList, Idle

LEMMA ListedNext ==
    ASSUME TypeOK, LocalOK, Sole, Calm, Listed, [Next]_vars
    PROVE  Listed'
  <1>0. Grows /\ JournalTypeOK /\ orch \in [Orchestrators -> Local]
    BY TypesNext DEF TypeOK
  <1>1. ASSUME NEW p \in Orchestrators, orch'[p] = orch[p], compensations' = compensations
        PROVE  OnList(orch[p])'
    <2>1. PICK l : l = orch[p]
      OBVIOUS
    <2>2. l = orch'[p] /\ OnList(l)
      BY <1>1, <2>1 DEF Listed
    <2>3. OnList(l)'
      BY <1>0, <1>1, <2>2, OnListKept
    <2> QED BY <2>2, <2>3, OnListOf
  <1>2. ASSUME NEW o \in Orchestrators, Run(o) \/ Crash(o), ~ CompResult(o) PROVE Listed'
    <2>1. compensations' = compensations
      BY <1>0, <1>2, OnlyCompResult, NothingUndone
    <2>2. \A p \in Orchestrators \ {o} : orch'[p] = orch[p]
      <3>1. CASE Start(o) \/ Crash(o)
        BY <1>0, <3>1 DEF Start, Crash
      <3>2. CASE Run(o) /\ ~ Start(o)
        BY <3>2, RunMoves DEF Moved
      <3> QED BY <1>2, <3>1, <3>2
    <2>3. PICK m : m = orch'[o]
      OBVIOUS
    <2>4. OnList(m)'
      <3>1. CASE BeginPass(o)
        <4>1. m.pc = "comp" /\ m.todo = uncompensated /\ UNCHANGED << journal, branches >>
          BY <1>0, <2>3, <3>1 DEF BeginPass, ReadOnly, journalVars, Local
        <4>2. OnList(m)
          BY <1>0, <4>1, UncompensatedIsList DEF OnList, Undoing
        <4> QED BY <1>0, <2>1, <4>2, OnListKept
      <3>2. CASE CompIntent(o) \/ Undo(o)
        <4>1. m.pc \in Undoing /\ m.todo = orch[o].todo
          <5>1. CASE CompIntent(o)
            BY <1>0, <2>3, <5>1 DEF CompIntent, Goto, Undoing, Local
          <5>2. CASE Undo(o)
            BY <1>0, <2>3, <5>2 DEF Undo, Undoing, Local
          <5> QED BY <3>2, <5>1, <5>2
        <4>2. OnList(m)
          BY <4>1 DEF Listed, OnList
        <4> QED BY <1>0, <2>1, <4>2, OnListKept
      <3>3. CASE ~ BeginPass(o) /\ ~ CompIntent(o) /\ ~ Undo(o)
        <4>1. m.pc \notin Undoing /\ m.todo = {}
          BY <1>2, <2>3, <3>3, OffList DEF Listed, OnList
        <4> QED BY <4>1 DEF OnList
      <3> QED BY <3>1, <3>2, <3>3
    <2>5. OnList(orch[o])'
      BY <2>3, <2>4, OnListOf
    <2> QED BY <1>1, <2>1, <2>2, <2>5 DEF Listed
  <1>3. ASSUME NEW o \in Orchestrators, CompResult(o) PROVE Listed'
    <2>1. PICK r \in orch[o].todo :
              /\ Latest(orch[o], r) /\ orch[o].pc = "undone"
              /\ orch'[o].todo = orch[o].todo \ {r}
              /\ orch'[o].pc \in {"drain", "comp"}
              /\ orch'[o].pc = "drain" => orch[o].todo = {r}
              /\ compensations' = compensations \cup (IF orch[o].res = "ok" THEN {KeyOf(r)} ELSE {})
              /\ \A p \in Orchestrators \ {o} : orch'[p] = orch[p]
      BY <1>3, CompResultDoes
    <2>2. PICK m : m = orch'[o]
      OBVIOUS
    <2>3. OnList(m)'
      <3>1. \A q \in m.todo : /\ q \in orch[o].todo /\ q \in Rows("RESULT")'
                              /\ journal'[q] = journal[q] /\ KeyOf(q)' = KeyOf(q)
        BY <1>0, <2>1, <2>2, GrowthKeeps DEF Listed, OnList, Rows, KeyOf
      <3>2. \A q \in m.todo : KeyOf(q) \notin compensations'
        BY <2>1, <2>2 DEF Listed, OnList
      <3>3. \A q \in m.todo : /\ q \in Rows("RESULT")' /\ journal'[q].status = "ok"
                              /\ KeyOf(q)' \notin compensations'
        BY <3>1, <3>2 DEF Listed, OnList
      <3>4. \A p, q \in m.todo : KeyOf(p)' = KeyOf(q)' => p = q
        BY <3>1 DEF Listed, OnList
      <3>5. m.pc \notin Undoing => m.todo = {}
        BY <2>1, <2>2 DEF Undoing
      <3> QED BY <3>3, <3>4, <3>5 DEF OnList
    <2>4. ASSUME NEW p \in Orchestrators, p # o PROVE OnList(orch[p])'
      <3>1. orch[p].pc = "idle"
        BY <2>1, <2>4, Alone DEF Busy
      <3>2. orch[p].todo = {}
        BY <3>1 DEF Listed, OnList, Undoing
      <3>3. PICK l : l = orch'[p]
        OBVIOUS
      <3>4. OnList(l)'
        BY <2>1, <2>4, <3>2, <3>3 DEF OnList
      <3> QED BY <3>3, <3>4, OnListOf
    <2> QED BY <2>2, <2>3, <2>4, OnListOf DEF Listed
  <1>4. CASE Lapse \/ Redeliver \/ Land \/ UNCHANGED vars
    <2>1. UNCHANGED << journal, orch >>
      BY <1>4 DEF Lapse, Redeliver, Land, vars, EngineVars, journalVars
    <2>2. compensations' = compensations
      BY <1>0, <2>1, NothingUndone DEF NoUndo
    <2> QED BY <1>1, <2>1, <2>2 DEF Listed
  <1> QED BY <1>2, <1>3, <1>4 DEF Next

\* Whose list it is stays that of a leader that undoes.
LEMMA OneList ==
    ASSUME NoTakeover, Apart
    PROVE  Spec => [](TypeOK /\ LocalOK /\ Sole /\ Path /\ Calm /\ Tree /\ Listed)
  <1>1. Listed /\ TypeOK /\ LocalOK /\ Sole /\ Calm /\ [Next]_vars => Listed'
    BY ListedNext
  <1> QED BY <1>1, OneTree, ListedInit, PTL DEF Spec

------------------------------------------------------------------------------
(* What a step does to the world, given all that                           *)

\* What takes hold is of a live branch, is late, or is retried as unknown.  Nothing that
\* is or was done on a dead branch takes hold again, and with replay nothing
\* compensatable does there at all.
Takes(k) == /\ Effect(k) /\ k[1] \in DOMAIN branches
            /\ IsActive(k[1]) \/ k \in LateKeys \/ k \in Last("unknown")
            /\ ~ (DeadKey(k) /\ (Replays \/ k \in Okay))

\* What is undone is an ok of a dead branch, the latest on the list of a leader that
\* then reports how it went.
Undoes(o, r, res) ==
    /\ r \in orch[o].todo /\ Latest(orch[o], r) /\ orch[o].pc = "undo"
    /\ DeadKey(KeyOf(r)) /\ KeyOf(r) \in Key /\ KeyOf(r) \in Okay
    /\ KeyOf(r) \notin compensations
    /\ orch'[o] = [orch[o] EXCEPT !.pc = "undone", !.res = res]
    /\ Compensation(KeyOf(r))
    /\ res = "ok" \/ ToolOf(KeyOf(r)) \in faults.lost_replies
    /\ UNCHANGED << journal, branches, settings, late >>

LEMMA OnListOkay ==
    ASSUME NEW l, OnList(l), NEW r \in l.todo
    PROVE  KeyOf(r) \in Okay /\ KeyOf(r) \notin compensations
  BY DEF OnList, Okay

LEMMA WorldMoves ==
    ASSUME UndoableInTime, TypeOK, LocalOK, Path, Calm, Tree, Listed, [Next]_vars
    PROVE  \/ Still
           \/ \E k \in Key : Takes(k)
           \/ \E o \in Orchestrators, r \in DOMAIN journal, res \in ResultStatus : Undoes(o, r, res)
  <1>1. ASSUME NEW o \in Orchestrators, Execute(o) PROVE Still \/ \E k \in Key : Takes(k)
    BY <1>1, ExecuteDoes DEF Takes, DeadKey
  <1>2. ASSUME NEW o \in Orchestrators, Recheck(o) PROVE Still \/ \E k \in Key : Takes(k)
    <2>1. PICK r \in orch[o].redo : KeyOf(r) \in Key /\ (Still \/ Effect(KeyOf(r)))
      BY <1>2, RecheckDoes
    <2>2. PICK k : k = KeyOf(r)
      OBVIOUS
    <2>3. r \in UnknownResults
      BY <1>2 DEF Recheck, At, Tree, Reviewed, Resting
    <2>4. k \in Last("unknown") /\ JournalTypeOK
      BY <2>2, <2>3 DEF UnknownResults, Last, TypeOK
    <2>5. k \in Told /\ k \notin Last("ok") /\ k \notin Closed
      BY <2>4, LastTold DEF Closed
    <2>6. k[1] \in DOMAIN branches /\ ~ (DeadKey(k) /\ (Replays \/ k \in Okay))
      BY <2>5 DEF Tree, Ground, Touched, DeadKey
    <2> QED BY <2>1, <2>2, <2>4, <2>6 DEF Takes
  <1>3. ASSUME NEW o \in Orchestrators, Undo(o)
        PROVE  Still \/ \E r \in DOMAIN journal, res \in ResultStatus : Undoes(o, r, res)
    <2>1. PICK r \in orch[o].todo, res \in ResultStatus :
                 /\ Latest(orch[o], r) /\ DeadKey(KeyOf(r)) /\ KeyOf(r) \in Key
                 /\ orch'[o] = [orch[o] EXCEPT !.pc = "undone", !.res = res]
                 /\ \/ Still /\ res # "ok"
                    \/ /\ Compensation(KeyOf(r))
                       /\ res = "ok" \/ ToolOf(KeyOf(r)) \in faults.lost_replies
      BY <1>3, UndoDoes
    <2>2. UNCHANGED << journal, branches, settings, late >>
      BY <1>3, UndoDoes
    <2>3. KeyOf(r) \in Okay /\ KeyOf(r) \notin compensations
      BY OnListOkay DEF Listed
    <2>4. r \in DOMAIN journal
      BY DEF LocalOK, Sound, Undoable
    <2> QED BY <1>3, <2>1, <2>2, <2>3, <2>4 DEF Undoes, Undo, At
  <1>4. CASE Land
    <2>1. PICK req \in BagToSet(late) : land(req)
      BY <1>4 DEF Land
    <2>2. req \in Request /\ req.key \in LateKeys /\ req.key \in Key
      BY <2>1 DEF TypeOK, WorldTypeOK, LateKeys, Request
    <2>3. Still \/ Effect(req.key)
      BY <2>1, <2>2, LandStep DEF TypeOK
    <2>4. ~ DeadKey(req.key) /\ req.key[1] \in DOMAIN branches
      BY <2>2 DEF UndoableInTime, Calm, DeadKey, Tree, Ground, Touched
    <2> QED BY <2>2, <2>3, <2>4 DEF Takes
  <1>5. CASE UNCHANGED worldVars
    BY <1>5 DEF worldVars, Still
  <1>6. CASE Lapse \/ Redeliver \/ UNCHANGED vars
    BY <1>5, <1>6 DEF Lapse, Redeliver, vars
  <1> QED BY <1>1, <1>2, <1>3, <1>4, <1>5, <1>6, CallsOnly DEF Next

\* An ok stays told, and the dead stay dead.
LEMMA OkayStays ==
    ASSUME JournalTypeOK, Grows, NEW k
    PROVE  /\ k \in Okay => k \in Okay'
           /\ DeadKey(k) => DeadKey(k)'
           /\ k \in compensations => k \in compensations'
  <1>1. /\ \A r \in DOMAIN journal : /\ r \in DOMAIN journal' /\ journal'[r] = journal[r]
                                     /\ KeyOf(r)' = KeyOf(r)
        /\ \A b \in DOMAIN branches : /\ b \in DOMAIN branches'
                                      /\ ~ IsActive(b) => ~ IsActive(b)'
    BY GrowthKeeps DEF KeyOf
  <1>2. ASSUME k \in Okay PROVE k \in Okay'
    <2>1. PICK r \in DOMAIN journal : /\ journal[r].kind = "RESULT" /\ journal[r].status = "ok"
                                      /\ KeyOf(r) = k
      BY <1>2 DEF Okay, Rows
    <2>2. /\ r \in DOMAIN journal' /\ journal'[r].kind = "RESULT" /\ journal'[r].status = "ok"
          /\ KeyOf(r)' = k
      BY <1>1, <2>1
    <2> QED BY <2>2 DEF Okay, Rows
  <1>3. ASSUME k \in compensations PROVE k \in compensations'
    <2>1. PICK r \in DOMAIN journal : /\ journal[r].kind = "COMP_RESULT"
                                      /\ journal[r].status = "ok" /\ KeyOf(r) = k
      BY <1>3 DEF compensations, Rows
    <2>2. /\ r \in DOMAIN journal' /\ journal'[r].kind = "COMP_RESULT"
          /\ journal'[r].status = "ok" /\ KeyOf(r)' = k
      BY <1>1, <2>1
    <2> QED BY <2>2 DEF compensations, Rows
  <1>4. PICK b : b = k[1]
    OBVIOUS
  <1>5. DeadKey(k) => DeadKey(k)'
    BY <1>1, <1>4 DEF DeadKey, IsActive
  <1> QED BY <1>2, <1>3, <1>5

------------------------------------------------------------------------------
(* Clause 1: no duplication                                                *)

LEMMA EntriesAfter ==
    ASSUME ledger \in Seq(Entry), NEW e \in Entry, ledger' = Append(ledger, e)
    PROVE  \E n : /\ n \notin DOMAIN ledger /\ ledger'[n] = e
                  /\ \A i \in DOMAIN ledger : ledger'[i] = ledger[i]
                  /\ \A kind : Entries(kind)' = IF e.kind = kind THEN Entries(kind) \cup {n}
                                                                 ELSE Entries(kind)
  <1>1. PICK n : /\ n \notin DOMAIN ledger /\ ledger'[n] = e
                 /\ DOMAIN ledger' = DOMAIN ledger \cup {n}
                 /\ \A i \in DOMAIN ledger : ledger'[i] = ledger[i]
    <2>1. Len(ledger) + 1 \notin DOMAIN ledger
      OBVIOUS
    <2>2. /\ ledger'[Len(ledger) + 1] = e
          /\ DOMAIN ledger' = DOMAIN ledger \cup {Len(ledger) + 1}
          /\ \A i \in DOMAIN ledger : ledger'[i] = ledger[i]
      OBVIOUS
    <2> QED BY <2>1, <2>2
  <1>2. ASSUME NEW kind
        PROVE  Entries(kind)' = IF e.kind = kind THEN Entries(kind) \cup {n} ELSE Entries(kind)
    BY <1>1 DEF Entries
  <1> QED BY <1>1, <1>2

\* What took hold is held, or was undone on a dead branch and is told of.
Held == \A i \in Entries("effect") :
           \/ ledger[i].key \in applied
           \/ DeadKey(ledger[i].key) /\ ledger[i].key \in Okay

LEMMA OnceNext ==
    ASSUME JournalTypeOK, Grows, WorldTypeOK, EffectOnce, Held,
           \/ Still
           \/ \E k \in Key : Takes(k)
           \/ \E o \in Orchestrators, r \in DOMAIN journal, res \in ResultStatus : Undoes(o, r, res)
    PROVE  EffectOnce' /\ Held'
  <1>0. ledger \in Seq(Entry)
    BY DEF WorldTypeOK
  <1>1. CASE Still
    <2>1. Entries("effect")' = Entries("effect") /\ ledger' = ledger /\ applied' = applied
      BY <1>1 DEF Still, Entries
    <2> QED BY <2>1, OkayStays DEF EffectOnce, Held
  <1>2. ASSUME NEW k \in Key, Takes(k) PROVE EffectOnce' /\ Held'
    <2>1. applied' = applied \cup {k} /\ k \notin applied
      BY <1>2 DEF Takes, Effect
    <2>2. CASE UNCHANGED ledger
      <3>1. Entries("effect")' = Entries("effect") /\ ledger' = ledger
        BY <2>2 DEF Entries
      <3> QED BY <2>1, <3>1, OkayStays DEF EffectOnce, Held
    <2>3. CASE \E e \in Entry : e.kind = "effect" /\ e.key = k /\ ledger' = Append(ledger, e)
      <3>1. PICK e \in Entry : e.kind = "effect" /\ e.key = k /\ ledger' = Append(ledger, e)
        BY <2>3
      <3>2. PICK n : /\ n \notin DOMAIN ledger /\ ledger'[n] = e
                     /\ \A i \in DOMAIN ledger : ledger'[i] = ledger[i]
                     /\ \A kind : Entries(kind)' = IF e.kind = kind THEN Entries(kind) \cup {n}
                                                                    ELSE Entries(kind)
        BY <1>0, <3>1, EntriesAfter
      <3>3. Entries("effect")' = Entries("effect") \cup {n}
        BY <3>1, <3>2
      <3>4. \A i \in Entries("effect") : ledger'[i] = ledger[i] /\ ledger[i].key # k
        <4> SUFFICES ASSUME NEW i \in Entries("effect")
                     PROVE  ledger'[i] = ledger[i] /\ ledger[i].key # k
          OBVIOUS
        <4>1. ledger'[i] = ledger[i]
          BY <3>2 DEF Entries
        <4>2. ledger[i].key # k
          BY <1>2, <2>1 DEF Held, Takes
        <4> QED BY <4>1, <4>2
      <3>5. EffectOnce'
        <4>1. \A i \in Entries("effect") : /\ ledger'[i].key # ledger'[n].key
                                         /\ \A j \in Entries("effect") :
                                               ledger'[i].key = ledger'[j].key => i = j
          BY <3>1, <3>2, <3>4 DEF EffectOnce
        <4> QED BY <3>3, <4>1 DEF EffectOnce
      <3>6. Held'
        BY <2>1, <3>1, <3>2, <3>3, <3>4, OkayStays DEF Held
      <3> QED BY <3>5, <3>6
    <2> QED BY <1>2, <2>2, <2>3 DEF Takes, Effect
  <1>3. ASSUME NEW o \in Orchestrators, NEW r \in DOMAIN journal, NEW res \in ResultStatus,
               Undoes(o, r, res)
        PROVE  EffectOnce' /\ Held'
    <2>1. PICK k : k = KeyOf(r)
      OBVIOUS
    <2>2. /\ DeadKey(k) /\ k \in Okay /\ applied' = applied \ {k}
          /\ \E e \in Entry : e.kind = "compensation" /\ ledger' = Append(ledger, e)
      BY <1>3, <2>1 DEF Undoes, Compensation
    <2>3. /\ Entries("effect")' = Entries("effect")
          /\ \A i \in Entries("effect") : ledger'[i] = ledger[i]
      BY <1>0, <2>2, EntriesAfter DEF Entries
    <2>4. EffectOnce'
      BY <2>3 DEF EffectOnce
    <2>5. Held'
      BY <2>2, <2>3, OkayStays DEF Held
    <2> QED BY <2>4, <2>5
  <1> QED BY <1>1, <1>2, <1>3

LEMMA EffectOnceAlways ==
    ASSUME NoTakeover, Apart, UndoableInTime
    PROVE  Spec => [](EffectOnce /\ Held)
  <1>1. Init => EffectOnce /\ Held
    BY DEF Init, WorldInit, EffectOnce, Held, Entries
  <1>2. /\ TypeOK /\ LocalOK /\ Sole /\ Path /\ Calm /\ Tree /\ Listed
        /\ EffectOnce /\ Held /\ [Next]_vars
        => (EffectOnce /\ Held)'
    <2> SUFFICES ASSUME TypeOK, LocalOK, Sole, Path, Calm, Tree, Listed, EffectOnce, Held,
                        [Next]_vars
                 PROVE  (EffectOnce /\ Held)'
      OBVIOUS
    <2>1. Grows /\ JournalTypeOK /\ WorldTypeOK
      BY TypesNext DEF TypeOK
    <2> QED BY <2>1, WorldMoves, OnceNext
  <1> QED BY <1>1, <1>2, OneList, PTL DEF Spec

\* An undo that was made is reported before anything else happens: the in-process
\* world loses no reply, and CRASH_PHASES has no point between the two (no service
\* holds a key for an undo, so who asks once more undoes once more).
UndoReported ==
    /\ "undone" \notin CrashAt
    /\ \A s \in Scenarios : s.faults.lost_replies \cap Compensatable = {}

\* This process is about to report the undo of k.
Reporting(l, k) == /\ l.pc = "undone" /\ l.res = "ok"
                   /\ \E r \in l.todo : Latest(l, r) /\ KeyOf(r) = k

Reported == \A i \in Entries("compensation") :
               \/ ledger[i].key \in compensations
               \/ \E o \in Orchestrators : Reporting(orch[o], ledger[i].key)

LEMMA ReportsNext ==
    ASSUME NEW o \in Orchestrators, Run(o), orch[o].pc = "undone"
    PROVE  CompResult(o)
  <1> USE DEF At
  <1>1. ~ Lead(o) /\ ~ Walk(o) /\ ~ Settle(o)
    BY DEF Lead, Start, NotLeader, SelectActive, SelectFresh, SelectNaive, Walk, Replay,
           Complete, Pass, Block, ToExecute, Intent, Execute, Settle, Probe, Ambiguous,
           Suppress, RecordResult
  <1>2. ~ Finish(o) /\ ~ Revisit(o)
    BY DEF Finish, ReplayFailed, Escalate, Abandon, AbandonWithResidue, RecordAbandoned,
           Fork, RecordFork, ForkNaive, Ack, Revisit, Reconcile, Recheck, Reprobe, Rematch,
           Resettle, Reconciled
  <1>3. Drain(o) => CompResult(o)
    BY DEF Drain, Drained, BeginPass, GiveUp, CompIntent, Undo, Graduate, Graduated, Release
  <1> QED BY <1>1, <1>2, <1>3 DEF Run

LEMMA ReportingKept ==
    ASSUME JournalTypeOK, LocalOK, Grows, NEW o \in Orchestrators, orch'[o] = orch[o],
           NEW k, Reporting(orch[o], k)
    PROVE  Reporting(orch[o], k)'
  <1>1. PICK r \in orch[o].todo : Latest(orch[o], r) /\ KeyOf(r) = k
    BY DEF Reporting
  <1>2. KeyOf(r)' = KeyOf(r)
    BY GrowthKeeps DEF LocalOK, Sound, Undoable, KeyOf
  <1> QED BY <1>1, <1>2 DEF Reporting, Latest

\* Whoever is not at the report of an undo keeps what is reported.
LEMMA ReportedKept ==
    ASSUME UndoReported, TypeOK, LocalOK, Sole, Calm, Grows, [Next]_vars,
           NEW k, k \in compensations \/ \E o \in Orchestrators : Reporting(orch[o], k)
    PROVE  k \in compensations' \/ \E o \in Orchestrators : Reporting(orch[o], k)'
  <1>0. JournalTypeOK
    BY DEF TypeOK
  <1>1. CASE k \in compensations
    BY <1>0, <1>1, OkayStays
  <1>2. ASSUME NEW o \in Orchestrators, Reporting(orch[o], k)
        PROVE  k \in compensations' \/ \E p \in Orchestrators : Reporting(orch[p], k)'
    <2>1. /\ orch[o].pc = "undone" /\ orch[o].res = "ok"
          /\ \E r \in orch[o].todo : Latest(orch[o], r) /\ KeyOf(r) = k
      BY <1>2 DEF Reporting
    <2>2. CASE orch'[o] = orch[o]
      BY <1>0, <1>2, <2>2, ReportingKept
    <2>3. CASE CompResult(o)
      <3>1. PICK r \in orch[o].todo :
               /\ Latest(orch[o], r)
               /\ compensations' = compensations \cup (IF orch[o].res = "ok" THEN {KeyOf(r)} ELSE {})
        BY <2>3, CompResultDoes
      <3>2. PICK q \in orch[o].todo : Latest(orch[o], q) /\ KeyOf(q) = k
        BY <2>1
      <3>3. q = r
        <4>1. q \in Nat /\ r \in Nat /\ q <= r /\ r <= q
          BY <3>1, <3>2 DEF Latest, TypeOK, Local
        <4> QED BY <4>1
      <3> QED BY <2>1, <3>1, <3>2, <3>3
    <2>4. ASSUME NEW p \in Orchestrators, Run(p) \/ Crash(p)
          PROVE  orch'[o] = orch[o] \/ CompResult(o)
      <3>1. CASE p = o
        <4>1. ~ Crash(o)
          BY <2>1 DEF UndoReported, Crash
        <4> QED BY <2>1, <2>4, <3>1, <4>1, ReportsNext
      <3>2. CASE p # o
        <4>1. CASE Start(p) \/ Crash(p)
          BY <3>2, <4>1 DEF Start, Crash, TypeOK
        <4>2. CASE Run(p) /\ ~ Start(p)
          BY <3>2, <4>2, RunMoves DEF Moved
        <4> QED BY <2>4, <4>1, <4>2
      <3> QED BY <3>1, <3>2
    <2>5. ASSUME Lapse \/ Redeliver \/ Land \/ UNCHANGED vars PROVE orch'[o] = orch[o]
      BY <2>5 DEF Lapse, Redeliver, Land, EngineVars, vars
    <2> QED BY <2>2, <2>3, <2>4, <2>5 DEF Next
  <1> QED BY <1>1, <1>2

LEMMA UndoneOnceNext ==
    ASSUME UndoReported, TypeOK, LocalOK, Sole, Calm, Listed, Grows, [Next]_vars,
           UndoneOnce, Reported,
           \/ Still
           \/ \E k \in Key : Takes(k)
           \/ \E o \in Orchestrators, r \in DOMAIN journal, res \in ResultStatus : Undoes(o, r, res)
    PROVE  UndoneOnce' /\ Reported'
  <1>0. ledger \in Seq(Entry) /\ JournalTypeOK
    BY DEF TypeOK, WorldTypeOK
  <1>1. ASSUME /\ Entries("compensation")' = Entries("compensation")
               /\ \A i \in Entries("compensation") : ledger'[i] = ledger[i]
        PROVE  UndoneOnce' /\ Reported'
    <2>1. UndoneOnce'
      BY <1>1 DEF UndoneOnce
    <2>2. Reported'
      BY <1>1, ReportedKept DEF Reported
    <2> QED BY <2>1, <2>2
  <1>2. CASE Still
    BY <1>1, <1>2 DEF Still, Entries
  <1>3. ASSUME NEW k \in Key, Takes(k) PROVE UndoneOnce' /\ Reported'
    <2>1. \/ ledger' = ledger
          \/ \E e \in Entry : e.kind = "effect" /\ ledger' = Append(ledger, e)
      BY <1>3 DEF Takes, Effect
    <2>2. /\ Entries("compensation")' = Entries("compensation")
          /\ \A i \in Entries("compensation") : ledger'[i] = ledger[i]
      BY <1>0, <2>1, EntriesAfter DEF Entries
    <2> QED BY <1>1, <2>2
  <1>4. ASSUME NEW o \in Orchestrators, NEW r \in DOMAIN journal, NEW res \in ResultStatus,
               Undoes(o, r, res)
        PROVE  UndoneOnce' /\ Reported'
    <2>1. PICK k : k = KeyOf(r)
      OBVIOUS
    <2>2. /\ r \in orch[o].todo /\ Latest(orch[o], r) /\ orch[o].pc = "undo"
          /\ DeadKey(k) /\ k \notin compensations
          /\ orch'[o] = [orch[o] EXCEPT !.pc = "undone", !.res = res]
          /\ res = "ok" \/ ToolOf(k) \in faults.lost_replies
          /\ UNCHANGED << journal, branches >>
      BY <1>4, <2>1 DEF Undoes
    <2>3. res = "ok"
      BY <2>2 DEF UndoReported, Calm, DeadKey
    <2>4. \A i \in Entries("compensation") : ledger[i].key \in compensations
      <3>1. \A p \in Orchestrators : orch[p].pc # "undone"
        BY <2>2, Alone DEF Busy
      <3> QED BY <3>1 DEF Reported, Reporting
    <2>5. PICK e \in Entry : /\ e.kind = "compensation" /\ e.key = k
                             /\ ledger' = Append(ledger, e)
      BY <1>4, <2>1 DEF Undoes, Compensation
    <2>6. PICK n : /\ n \notin DOMAIN ledger /\ ledger'[n] = e
                   /\ \A i \in DOMAIN ledger : ledger'[i] = ledger[i]
                   /\ \A kind : Entries(kind)' = IF e.kind = kind THEN Entries(kind) \cup {n}
                                                                  ELSE Entries(kind)
      BY <1>0, <2>5, EntriesAfter
    <2>7. Entries("compensation")' = Entries("compensation") \cup {n}
      BY <2>5, <2>6
    <2>8. \A i \in Entries("compensation") : ledger'[i] = ledger[i] /\ ledger[i].key # k
      BY <2>2, <2>4, <2>6 DEF Entries
    <2>9. UndoneOnce'
      <3>1. \A i \in Entries("compensation") : /\ ledger'[i].key # ledger'[n].key
                                             /\ \A j \in Entries("compensation") :
                                                   ledger'[i].key = ledger'[j].key => i = j
        BY <2>5, <2>6, <2>8 DEF UndoneOnce
      <3> QED BY <2>7, <3>1 DEF UndoneOnce
    <2>10. Reporting(orch[o], k)'
      <3>1. KeyOf(r)' = k
        BY <2>1, <2>2 DEF KeyOf
      <3>2. orch'[o].pc = "undone" /\ orch'[o].res = "ok" /\ orch'[o].todo = orch[o].todo
        BY <2>2, <2>3 DEF TypeOK, Local
      <3> QED BY <2>2, <3>1, <3>2 DEF Reporting, Latest
    <2>11. Reported'
      BY <1>0, <2>4, <2>5, <2>6, <2>7, <2>8, <2>10, OkayStays DEF Reported
    <2> QED BY <2>9, <2>11
  <1> QED BY <1>2, <1>3, <1>4

\* Whatever is retried, replayed, reconciled or delivered late, and wherever a process
\* dies, the world is changed once for each key and changed back once: EffectOnce of
\* the keyed services and recover's replay, UndoneOnce of compensate_abandoned, which
\* leans on the journal alone.
THEOREM NoDuplicationHolds ==
    ASSUME NoTakeover, Apart, UndoableInTime, UndoReported
    PROVE  Spec => []NoDuplication
  <1>1. Init => UndoneOnce /\ Reported
    BY DEF Init, WorldInit, UndoneOnce, Reported, Entries
  <1>2. /\ TypeOK /\ LocalOK /\ Sole /\ Path /\ Calm /\ Tree /\ Listed
        /\ UndoneOnce /\ Reported /\ [Next]_vars
        => (UndoneOnce /\ Reported)'
    BY TypesNext, WorldMoves, UndoneOnceNext
  <1>3. Spec => [](UndoneOnce /\ Reported)
    BY <1>1, <1>2, OneList, PTL DEF Spec
  <1>4. EffectOnce /\ UndoneOnce => NoDuplication
    BY DEF NoDuplication
  <1> QED BY <1>3, <1>4, EffectOnceAlways, PTL

------------------------------------------------------------------------------
(* Bounded ambiguity                                                       *)

\* An unknown page was told to be surfaced, after it was journaled.
Surfaced == \A r \in UnknownPages : \E e \in Rows("ESCALATED") : e > r

\* So it is once the leader returns, and while the alert rests.
Confessed == (Replays /\ (acked \/ \E o \in Orchestrators : orch[o].pc = "returned"))
             => Surfaced

\* A page that is unknown is the step at hand of the branch that is alive.
LEMMA PageOpen ==
    ASSUME JournalTypeOK, Ground, Replays, NEW r \in UnknownPages, NEW k, k = KeyOf(r)
    PROVE  /\ k \in Key /\ k[1] \in DOMAIN branches /\ IsActive(k[1]) /\ Behind(k)
           /\ k \in Last("unknown") /\ k \notin Last("ok") /\ k \notin Closed
  <1>1. k \in Last("unknown")
    BY DEF UnknownPages, Last
  <1>2. k \in Told /\ k \notin Last("ok") /\ k \notin Closed
    BY <1>1, LastTold DEF Closed
  <1> QED BY <1>1, <1>2 DEF Ground, Touched

LEMMA OnePage ==
    ASSUME JournalTypeOK, Ground, Replays, NEW q \in UnknownPages, NEW r \in UnknownPages
    PROVE  q = r
  <1>1. PICK k, l : k = KeyOf(q) /\ l = KeyOf(r)
    OBVIOUS
  <1>2. /\ k \in Key /\ k[1] \in DOMAIN branches /\ IsActive(k[1]) /\ Behind(k) /\ k \notin Last("ok")
        /\ l \in Key /\ l[1] \in DOMAIN branches /\ IsActive(l[1]) /\ Behind(l) /\ l \notin Last("ok")
    BY <1>1, PageOpen
  <1>3. k[1] = l[1]
    BY <1>2 DEF Ground
  <1>4. /\ k = <<k[1], k[2]>> /\ l = <<l[1], l[2]>> /\ k[2] \in Steps /\ l[2] \in Steps
    BY <1>2, KeyIs
  <1>5. ~ (k[2] < l[2]) /\ ~ (l[2] < k[2])
    BY <1>2, <1>3, <1>4 DEF Behind
  <1>6. k = l
    BY <1>3, <1>4, <1>5 DEF Steps
  <1> QED BY <1>1, <1>6, LastOnce DEF UnknownPages

LEMMA AtMostOnePage ==
    ASSUME JournalTypeOK, Ground, Replays
    PROVE  Cardinality(UnknownPages) <= 1
  <1>1. CASE UnknownPages = {}
    BY <1>1, FS_EmptySet
  <1>2. CASE UnknownPages # {}
    <2>1. PICK r : r \in UnknownPages
      BY <1>2
    <2>2. UnknownPages = {r}
      BY <2>1, OnePage
    <2>3. Cardinality({r}) = 1
      BY FS_Singleton
    <2> QED BY <2>2, <2>3
  <1> QED BY <1>1, <1>2

\* What a leader records of its call, and what other steps tell.
LEMMA TellsOfCall ==
    ASSUME TypeOK, LocalOK, Path, NEW o \in Orchestrators, RecordResult(o)
    PROVE  \E k \in Key, st \in {"ok", "failed"} :
              /\ orch[o].pc = "called" /\ orch[o].res = st
              /\ k[1] = orch[o].br /\ k[2] = orch[o].seq
              /\ ResultOf(k, st)
  <1>1. /\ orch[o].pc = "called" /\ orch[o].br \in Nat /\ orch[o].seq \in Steps
        /\ orch[o].res # "unknown" /\ append(StepRow(o, "RESULT", orch[o].res))
    BY DEF RecordResult, At, TypeOK, LocalOK, Sound, Working, Local
  <1>2. PICK st \in {"ok", "failed"} : st = orch[o].res
    BY <1>1 DEF Path, PathOK, ResultStatus
  <1>3. PICK k \in Key : k[1] = orch[o].br /\ k[2] = orch[o].seq
    <2>1. <<orch[o].br, orch[o].seq>> \in Key
      BY <1>1 DEF Key
    <2> QED BY <2>1
  <1>4. /\ StepRow(o, "RESULT", orch[o].res) \in Record
        /\ StepRow(o, "RESULT", orch[o].res).kind = "RESULT"
        /\ StepRow(o, "RESULT", orch[o].res).br = k[1]
        /\ StepRow(o, "RESULT", orch[o].res).seq = k[2]
        /\ StepRow(o, "RESULT", orch[o].res).status = st
    BY <1>2, <1>3, StepRowType DEF StepRow, RecordKind, ResultStatus
  <1>5. ResultOf(k, st)
    BY <1>1, <1>4 DEF ResultOf
  <1> QED BY <1>1, <1>2, <1>3, <1>5

LEMMA Tells ==
    ASSUME TypeOK, LocalOK, Path, Tree, [Next]_vars
    PROVE  \/ NoResult
           \/ \E k \in Key : k \in Last("unknown") /\ ResultOf(k, "ok")
           \/ \E o \in Orchestrators : RecordResult(o) \/ Ambiguous(o)
  <1>2. ASSUME NEW o \in Orchestrators, Run(o) \/ Crash(o)
        PROVE  \/ NoResult
               \/ \E k \in Key : k \in Last("unknown") /\ ResultOf(k, "ok")
               \/ RecordResult(o) \/ Ambiguous(o)
    <2>1. CASE \/ Start(o) \/ NotLeader(o) \/ Ack(o) \/ Crash(o) \/ SelectActive(o)
               \/ Replay(o) \/ Complete(o) \/ Pass(o) \/ Block(o) \/ Intent(o) \/ Probe(o)
               \/ Suppress(o) \/ ReplayFailed(o) \/ Escalate(o) \/ RecordAbandoned(o)
               \/ RecordFork(o)
      BY <2>1, LeadMute, WalkMute, FinishMute DEF Mute
    <2>2. CASE \/ SelectFresh(o) \/ SelectNaive(o) \/ Execute(o) \/ Graduate(o) \/ Fork(o)
               \/ ForkNaive(o) \/ Abandon(o) \/ AbandonWithResidue(o)
      BY <2>2 DEF SelectFresh, SelectNaive, Execute, Graduate, Fork, ForkNaive, Abandon,
                  AbandonWithResidue, WritesTree, CallsWorld, journalVars, NoResult
    <2>3. CASE Drain(o) /\ ~ Graduate(o)
      BY <2>3, DrainMute DEF Mute
    <2>4. CASE Revisit(o) /\ ~ Resettle(o)
      BY <2>4, RevisitMute DEF Mute, Tree
    <2>5. CASE Resettle(o)
      BY <2>5, ResettleDoes
    <2> QED BY <1>2, <2>1, <2>2, <2>3, <2>4, <2>5 DEF Run, Lead, Walk, Settle, Finish
  <1>3. CASE Lapse \/ Redeliver \/ Land \/ UNCHANGED vars
    BY <1>3, EnvironmentMute DEF Mute
  <1> QED BY <1>2, <1>3 DEF Next

LEMMA SurfacedStays ==
    ASSUME JournalTypeOK, Grows, Surfaced,
           NoResult \/ \E k \in Key, st \in {"ok", "failed"} : ResultOf(k, st)
    PROVE  Surfaced' /\ (UnknownPages = {} => UnknownPages' = {})
  <1>1. UnknownPages' \subseteq UnknownPages
    <2>1. CASE NoResult
      BY <2>1, NothingTold DEF UnknownPages
    <2>2. ASSUME NEW k \in Key, NEW st \in {"ok", "failed"}, ResultOf(k, st)
          PROVE  UnknownPages' \subseteq UnknownPages
      <3>1. /\ Last("unknown")' = Last("unknown") \ {k}
            /\ \E n \in Nat : /\ Rows("RESULT")' = Rows("RESULT") \cup {n}
                              /\ journal'[n].status = st
            /\ \A r \in Rows("RESULT") : journal'[r] = journal[r] /\ KeyOf(r)' = KeyOf(r)
            /\ \A b, s, r : <<b, s>> # k => (last_result(b, s, r)' <=> last_result(b, s, r))
        BY <2>2, ResultTold
      <3>2. ASSUME NEW r \in UnknownPages' PROVE r \in UnknownPages
        <4>1. /\ r \in Rows("RESULT")' /\ ToolOf(KeyOf(r))' \in Unobservable
              /\ journal'[r].status = "unknown"
              /\ last_result(journal[r].br, journal[r].seq, r)'
          BY DEF UnknownPages
        <4>2. r \in Rows("RESULT") /\ journal'[r] = journal[r] /\ KeyOf(r)' = KeyOf(r)
          BY <3>1, <4>1
        <4>3. KeyOf(r)' \in Last("unknown")'
          BY <4>1 DEF Last
        <4>4. <<journal[r].br, journal[r].seq>> # k
          BY <3>1, <4>2, <4>3 DEF KeyOf, effect_key
        <4>5. PICK b, s : b = journal[r].br /\ s = journal[r].seq
          OBVIOUS
        <4>6. last_result(b, s, r)'
          BY <4>1, <4>2, <4>5 DEF last_result
        <4>7. last_result(journal[r].br, journal[r].seq, r)
          BY <3>1, <4>4, <4>5, <4>6
        <4>8. ToolOf(KeyOf(r)) \in Unobservable
          BY <4>1, <4>2 DEF ToolOf
        <4> QED BY <4>1, <4>2, <4>7, <4>8 DEF UnknownPages
      <3> QED BY <3>2
    <2> QED BY <2>1, <2>2
  <1>2. Rows("ESCALATED") \subseteq Rows("ESCALATED")'
    BY GrowthKeeps DEF Rows
  <1> QED BY <1>1, <1>2 DEF Surfaced

LEMMA ReturnsBy ==
    ASSUME TypeOK, NEW o \in Orchestrators, Run(o) \/ Crash(o), orch'[o].pc = "returned"
    PROVE  Complete(o) \/ Escalate(o) \/ ReplayFailed(o)
  <1>1. ~ (\/ SelectActive(o) \/ SelectFresh(o) \/ RecordFork(o) \/ ForkNaive(o)
           \/ Replay(o) \/ SelectNaive(o) \/ Abandon(o) \/ AbandonWithResidue(o)
           \/ RecordAbandoned(o) \/ Fork(o) \/ RecordResult(o))
    BY OtherMoves
  <1>2. ~ (\/ Start(o) \/ NotLeader(o) \/ Ack(o) \/ Crash(o) \/ Pass(o) \/ Release(o)
           \/ Block(o) \/ Intent(o) \/ Execute(o) \/ Suppress(o) \/ Probe(o) \/ Ambiguous(o)
           \/ GiveUp(o) \/ Drained(o) \/ Graduated(o) \/ Graduate(o) \/ BeginPass(o)
           \/ CompIntent(o) \/ Undo(o) \/ CompResult(o) \/ Revisit(o))
    BY StepsTo
  <1> QED BY <1>1, <1>2 DEF Run, Lead, Walk, Settle, Drain, Finish

LEMMA ConfessedNext ==
    ASSUME TypeOK, LocalOK, Sole, Path, Calm, Tree, Confessed, [Next]_vars
    PROVE  Confessed'
  <1>0. JournalTypeOK /\ Grows /\ Ground
    BY TypesNext DEF TypeOK, Tree
  <1> SUFFICES ASSUME Replays, (acked \/ \E o \in Orchestrators : orch[o].pc = "returned")'
               PROVE  Surfaced'
    <2>1. Replays' <=> Replays
      BY SettingsStay DEF settings, Replays
    <2> QED BY <2>1 DEF Confessed
  <1>1. ASSUME NEW o \in Orchestrators, Ambiguous(o) PROVE FALSE
    <2>1. /\ orch[o].pc = "ambiguous" /\ orch'[o].pc = "escalate"
          /\ UNCHANGED acked /\ \A p \in Orchestrators \ {o} : orch'[p] = orch[p]
      BY <1>1 DEF Ambiguous, At, Goto, TypeOK, Local, WritesRecord, EngineVars
    <2>2. ~ acked /\ \A p \in Orchestrators \ {o} : orch[p].pc = "idle"
      BY <2>1, Alone DEF Busy, Sole
    <2> QED BY <2>1, <2>2
  <1>2. NoResult \/ \E k \in Key, st \in {"ok", "failed"} : ResultOf(k, st)
    <2>1. ASSUME NEW o \in Orchestrators, RecordResult(o)
          PROVE  \E k \in Key, st \in {"ok", "failed"} : ResultOf(k, st)
      BY <2>1, TellsOfCall
    <2> QED BY <1>1, <2>1, Tells
  <1>3. CASE acked \/ \E o \in Orchestrators : orch[o].pc = "returned"
    BY <1>0, <1>2, <1>3, SurfacedStays DEF Confessed
  <1>4. ASSUME UnknownPages = {} PROVE Surfaced'
    BY <1>0, <1>2, <1>4, SurfacedStays DEF Surfaced
  <1>5. ASSUME NEW o \in Orchestrators, Complete(o) PROVE UnknownPages = {}
    <2>1. SUFFICES ASSUME NEW r \in UnknownPages PROVE FALSE
      OBVIOUS
    <2>2. PICK k : k = KeyOf(r)
      OBVIOUS
    <2>3. /\ k \in Key /\ k[1] \in DOMAIN branches /\ IsActive(k[1]) /\ k \notin Last("ok")
      BY <1>0, <2>2, PageOpen
    <2>4. /\ orch[o].pc = "step" /\ orch[o].seq > Len(Trace) /\ orch[o].seq \in Nat
          /\ orch[o].br \in DOMAIN branches
      BY <1>5 DEF Complete, At, TypeOK, Local, LocalOK, Sound, Branchless
    <2>5. /\ IsActive(orch[o].br)
          /\ \A s \in Steps : s < orch[o].seq => s \in completed_results(orch[o].br)
      BY <2>4 DEF Path, PathOK, OnPath
    <2>6. k[1] = orch[o].br /\ k[2] \in Steps /\ k = <<k[1], k[2]>>
      BY <1>0, <2>3, <2>4, <2>5, KeyIs DEF Ground
    <2>7. k[2] < orch[o].seq
      BY <2>4, <2>6, TraceAssumption DEF Steps
    <2> QED BY <2>3, <2>5, <2>6, <2>7, CompletedIs
  <1>6. ASSUME NEW o \in Orchestrators, ReplayFailed(o) PROVE UnknownPages = {}
    <2>1. SUFFICES ASSUME NEW r \in UnknownPages PROVE FALSE
      OBVIOUS
    <2>2. PICK k : k = KeyOf(r)
      OBVIOUS
    <2>3. /\ k[1] \in DOMAIN branches /\ IsActive(k[1]) /\ k \notin Closed
          /\ k \in Last("unknown")
      BY <1>0, <2>2, PageOpen
    <2>4. orch[o].pc = "diverge" /\ orch[o].br \in DOMAIN branches
      BY <1>6 DEF ReplayFailed, At, LocalOK, Sound, Branchless
    <2>5. /\ IsActive(orch[o].br)
          /\ \A q \in Touched : q[1] = orch[o].br => q \in Closed
      BY <2>4 DEF Tree, Placed
    <2>6. k \in Touched
      BY <1>0, <2>3, LastTold DEF Touched
    <2> QED BY <1>0, <2>3, <2>4, <2>5, <2>6 DEF Ground
  <1>7. ASSUME NEW o \in Orchestrators, Escalate(o) PROVE Surfaced'
    <2>1. append(EscalationRow(o)) /\ EscalationRow(o).kind = "ESCALATED"
      BY <1>7 DEF Escalate, EscalationRow, TreeRow
    <2>2. PICK n \in Nat : /\ n \in Rows("ESCALATED")' /\ n \notin Rows("RESULT")'
                           /\ \A r \in DOMAIN journal' : r \in Nat /\ (r = n \/ n > r)
      <3>1. /\ Len(journal) + 1 \in DOMAIN journal' /\ Len(journal) + 1 \in Nat
            /\ journal'[Len(journal) + 1] = EscalationRow(o)
            /\ \A r \in DOMAIN journal' : r \in Nat /\ (r = Len(journal) + 1 \/ Len(journal) + 1 > r)
        BY <1>0, <2>1 DEF append, JournalTypeOK
      <3> QED BY <2>1, <3>1 DEF Rows
    <2>3. \A r \in UnknownPages' : n > r
      BY <2>2 DEF UnknownPages, Rows
    <2> QED BY <2>2, <2>3 DEF Surfaced
  <1>8. ASSUME NEW o \in Orchestrators, Run(o) \/ Crash(o),
               ~ acked, \A p \in Orchestrators : orch[p].pc # "returned"
        PROVE  Complete(o) \/ Escalate(o) \/ ReplayFailed(o)
    <2>1. \A p \in Orchestrators \ {o} : orch'[p] = orch[p]
      <3>1. CASE Start(o) \/ Crash(o)
        BY <3>1 DEF Start, Crash, TypeOK
      <3>2. CASE Run(o) /\ ~ Start(o)
        BY <3>2, RunMoves DEF Moved
      <3> QED BY <1>8, <3>1, <3>2
    <2>2. ~ acked'
      <3>1. ~ Ack(o)
        BY <1>8 DEF Ack, At
      <3>2. CASE Run(o) /\ ~ Start(o)
        BY <1>8, <3>1, <3>2, BusyBefore
      <3>3. CASE Start(o) \/ Crash(o)
        BY <1>8, <3>3 DEF Start, Crash
      <3> QED BY <1>8, <3>2, <3>3
    <2>3. orch'[o].pc = "returned"
      BY <1>8, <2>1, <2>2
    <2> QED BY <1>8, <2>3, ReturnsBy
  <1>9. ASSUME Lapse \/ Redeliver \/ Land \/ UNCHANGED vars,
               ~ acked, \A p \in Orchestrators : orch[p].pc # "returned"
        PROVE  FALSE
    <2>1. UNCHANGED orch /\ (acked' => acked)
      BY <1>9 DEF Lapse, Redeliver, Land, vars, EngineVars
    <2> QED BY <1>9, <2>1
  <1> QED BY <1>3, <1>4, <1>5, <1>6, <1>7, <1>8, <1>9 DEF Next

\* In the modes that replay, at most one page is in unknown state, and while the alert
\* rests an escalation journaled after it names it to a human: _resolve_unknown gives
\* up only on a page, recover returns only after Escalation or on a finished branch, and
\* replay drives the unknown step again before any other (engine._resolve_unknown,
\* _run_branch, recover).
THEOREM BoundedAmbiguityHolds ==
    ASSUME NoTakeover, Apart
    PROVE  Spec => [](Replays => BoundedAmbiguity)
  <1>1. Init => Confessed
    BY DEF Init, Confessed, Idle
  <1>2. TypeOK /\ LocalOK /\ Sole /\ Path /\ Calm /\ Tree /\ Confessed /\ [Next]_vars => Confessed'
    BY ConfessedNext
  <1>3. TypeOK /\ Tree /\ Confessed => (Replays => BoundedAmbiguity)
    BY AtMostOnePage DEF TypeOK, Tree, Confessed, Surfaced, BoundedAmbiguity
  <1> QED BY <1>1, <1>2, <1>3, OneTree, PTL DEF Spec

------------------------------------------------------------------------------
(* Clause 3: clean abandonment                                             *)

\* A place of the trace pages: the steps before it are undone on the dead branches
\* before it is passed.
SomebodyIsPaged == \E s \in Steps : Trace[s] \in Irreversible

\* A process about to page, or calling.
Paging(l) == /\ l.pc \in {"intent", "call", "called", "ambiguous"}
             /\ Trace[l.seq] \in Irreversible

\* It passed the barrier; it returns with what is stranded escalated; and what it
\* reports undone is undone.
Swept(l) ==
    /\ Paging(l) \/ l.pc \in {"graduate", "graduated"} => Stranded = {}
    /\ l.pc = "returned" => Stranded \subseteq EscalatedKeys
    /\ (l.pc = "undone" /\ l.res = "ok") =>
          \A r \in l.todo : Latest(l, r) => KeyOf(r) \notin applied

\* What is compensated is dead and gone, a graduated branch is clean, a branch that
\* paged did so with nothing stranded, and the alert rests with it escalated.
Clean ==
    /\ \A k \in compensations : k \notin applied /\ DeadKey(k)
    /\ \A k \in Stranded : branches[k[1]].status # "compensated"
    /\ \A k \in Touched : IsActive(k[1]) /\ ToolOf(k) \in Irreversible => Stranded = {}
    /\ acked => Stranded \subseteq EscalatedKeys
    /\ \A o \in Orchestrators : Swept(orch[o])

\* A set of record ids that is not empty has a first.
LEMMA FirstRow ==
    ASSUME NEW S \in SUBSET Nat, S # {}
    PROVE  \E i \in S : \A j \in S : i <= j
  <1>1. PICK i \in S : \A j \in S : ~ (<< j, i >> \in OpToRel(<, Nat))
    BY NatLessThanWellFounded, WFMin, Zenon
  <1>2. \A j \in S : j \in Nat
    OBVIOUS
  <1>3. \A j \in S : ~ (j < i)
    BY <1>1, <1>2, Zenon DEF OpToRel
  <1> QED BY <1>2, <1>3

\* The journal knows of everything that is stranded, and the barrier owes it.
LEMMA StrandedIsOwed ==
    ASSUME JournalTypeOK, Ground, Clean, Replays
    PROVE  /\ Stranded \subseteq Owed
           /\ uncompensated = {} => Stranded = {}
  <1>1. ASSUME NEW k \in Stranded PROVE \E r \in uncompensated : KeyOf(r) = k
    <2>1. /\ k \in applied /\ ToolOf(k) \in Compensatable /\ ~ IsActive(k[1])
          /\ k \in Key /\ k[1] \in DOMAIN branches /\ k \in Closed
      BY DEF Stranded, Ground, Touched
    <2>2. k \in Last("ok") /\ k \notin compensations
      <3>1. ToolOf(k) \notin Irreversible
        BY <2>1 DEF Compensatable, Irreversible
      <3>2. k \in Last("ok")
        BY <2>1, <3>1 DEF Closed
      <3>3. k \notin compensations
        BY <2>1 DEF Clean
      <3> QED BY <3>2, <3>3
    <2>3. k[1] \in dead_branches
      <3>1. branches[k[1]].status \in BranchStatus
        <4>1. \A b \in DOMAIN branches : branches[b] \in Branch
          BY DEF JournalTypeOK
        <4> QED BY <2>1, <4>1 DEF Branch
      <3>2. branches[k[1]].status \notin {"active", "compensated"}
        BY <2>1 DEF IsActive, Clean
      <3> QED BY <2>1, <3>1, <3>2 DEF dead_branches, DEAD_BRANCH_STATUSES, BranchStatus
    <2> DEFINE found == {r \in Rows("RESULT") : /\ journal[r].br \in dead_branches
                                                /\ journal[r].seq \in Steps
                                                /\ ToolOf(KeyOf(r)) \in Compensatable
                                                /\ journal[r].status \in {"ok"}}
               mine  == {r \in found : KeyOf(r) = k}
    <2>4. PICK r \in Rows("RESULT") : KeyOf(r) = k /\ journal[r].status = "ok"
      BY <2>2 DEF Last
    <2>5. journal[r].br = k[1] /\ journal[r].seq = k[2] /\ k[2] \in Steps
      BY <2>1, <2>4, KeyIs DEF KeyOf, effect_key
    <2>6. r \in mine
      BY <2>1, <2>3, <2>4, <2>5
    <2>7. mine \in SUBSET Nat
      BY DEF Rows, JournalTypeOK
    <2>8. PICK i \in mine : \A j \in mine : i <= j
      BY <2>6, <2>7, FirstRow
    <2>9. i \in DeadResults(Compensatable, {"ok"})
      BY <2>8 DEF DeadResults
    <2> QED BY <2>2, <2>8, <2>9 DEF uncompensated
  <1> QED BY <1>1 DEF Owed

\* What a step does to the tree.
LEMMA TreeMoves ==
    ASSUME TypeOK, LocalOK, Path, Tree, Replays, [Next]_vars
    PROVE  \/ UNCHANGED branches
           \/ \E p, d \in Nat : create_branch(p, d)
           \/ \E o \in Orchestrators : Abandon(o)
           \/ \E o \in Orchestrators, b \in DOMAIN branches, st \in BranchStatus :
                 /\ ~ IsActive(b) /\ set_branch_status(b, st)
                 /\ \/ st = "abandoned_with_residue"
                    \/ st = "compensated" /\ orch[o].pc = "graduate"
  <1> DEFINE P == \/ UNCHANGED branches
                  \/ \E p, d \in Nat : create_branch(p, d)
                  \/ \E o \in Orchestrators : Abandon(o)
                  \/ \E o \in Orchestrators, b \in DOMAIN branches, st \in BranchStatus :
                        /\ ~ IsActive(b) /\ set_branch_status(b, st)
                        /\ \/ st = "abandoned_with_residue"
                           \/ st = "compensated" /\ orch[o].pc = "graduate"
  <1>1. ASSUME NEW o \in Orchestrators, Run(o) \/ Crash(o) PROVE P
    <2>1. CASE \/ Start(o) \/ NotLeader(o) \/ Ack(o) \/ Crash(o) \/ SelectActive(o)
               \/ Replay(o) \/ Complete(o) \/ Pass(o) \/ Block(o) \/ Intent(o) \/ Probe(o)
               \/ Suppress(o) \/ ReplayFailed(o) \/ Escalate(o) \/ RecordAbandoned(o)
               \/ RecordFork(o)
      BY <2>1, LeadMute, WalkMute, FinishMute DEF Mute
    <2>2. CASE Execute(o) \/ RecordResult(o) \/ Ambiguous(o)
      BY <2>2 DEF Execute, RecordResult, Ambiguous, WritesRecord, CallsWorld, journalVars
    <2>3. CASE Drain(o) /\ ~ Graduate(o)
      BY <2>3, DrainMute DEF Mute
    <2>4. CASE Revisit(o) /\ ~ Resettle(o)
      BY <2>4, RevisitMute DEF Mute, Tree
    <2>5. CASE Resettle(o)
      BY <2>5, ResettleDoes
    <2>6. CASE SelectFresh(o) \/ ForkNaive(o)
      BY <2>6 DEF SelectFresh, ForkNaive
    <2>7. CASE Fork(o)
      <3>1. orch[o].br \in DOMAIN branches /\ orch[o].br \in Nat
        BY <2>7 DEF LocalOK, Sound, Branchless, Fork, At, TypeOK, Local
      <3>2. branches[orch[o].br] \in Branch
        BY <3>1 DEF TypeOK, JournalTypeOK
      <3>3. branches[orch[o].br].depth + 1 \in Nat
        BY <3>2 DEF Branch
      <3> QED BY <2>7, <3>1, <3>3 DEF Fork
    <2>8. CASE AbandonWithResidue(o)
      <3>1. PICK b \in DOMAIN branches :
               b = orch[o].br /\ set_branch_status(b, "abandoned_with_residue")
        BY <2>8 DEF AbandonWithResidue, LocalOK, Sound, Branchless, At
      <3>2. ~ IsActive(b)
        BY <2>8 DEF AbandonWithResidue, At, Tree, Placed, NoActiveBranch
      <3> QED BY <3>1, <3>2 DEF BranchStatus
    <2>9. CASE Graduate(o)
      <3>1. PICK b \in DOMAIN branches : b \in orch[o].grads /\ set_branch_status(b, "compensated")
        BY <2>9 DEF Graduate, NextGraduate
      <3>2. ~ IsActive(b) /\ orch[o].pc = "graduate"
        BY <2>9, <3>1 DEF Path, PathOK, Graduate, At
      <3> QED BY <3>1, <3>2 DEF BranchStatus
    <2>10. ~ SelectNaive(o)
      BY DEF SelectNaive
    <2> QED BY <1>1, <2>1, <2>2, <2>3, <2>4, <2>5, <2>6, <2>7, <2>8, <2>9, <2>10
            DEF Run, Lead, Walk, Settle, Finish
  <1>2. CASE Lapse \/ Redeliver \/ Land \/ UNCHANGED vars
    BY <1>2, EnvironmentMute DEF Mute
  <1> QED BY <1>1, <1>2 DEF Next

\* A key that is new is the one whose call is under way.
LEMMA NewKey ==
    ASSUME TypeOK, LocalOK, Path, Tree, [Next]_vars
    PROVE  \A k \in Touched' : \/ k \in Touched
                               \/ \E o \in Orchestrators :
                                     /\ orch[o].pc \in {"call", "called", "ambiguous"}
                                     /\ k = effect_key(orch[o].br, orch[o].seq)
  <1> DEFINE P == \A k \in Touched' : \/ k \in Touched
                                      \/ \E o \in Orchestrators :
                                            /\ orch[o].pc \in {"call", "called", "ambiguous"}
                                            /\ k = effect_key(orch[o].br, orch[o].seq)
  <1>0. JournalTypeOK
    BY DEF TypeOK
  <1>1. ASSUME NEW o \in Orchestrators, Run(o) \/ Crash(o) PROVE P
    <2>1. CASE \/ Start(o) \/ NotLeader(o) \/ Ack(o) \/ Crash(o) \/ SelectActive(o)
               \/ Replay(o) \/ Complete(o) \/ Pass(o) \/ Block(o) \/ Intent(o) \/ Probe(o)
               \/ Suppress(o) \/ ReplayFailed(o) \/ Escalate(o) \/ RecordAbandoned(o)
               \/ RecordFork(o)
      BY <2>1, LeadMute, WalkMute, FinishMute DEF Mute
    <2>2. CASE Drain(o) /\ ~ Graduate(o)
      BY <2>2, DrainMute DEF Mute
    <2>3. CASE Revisit(o) /\ ~ Resettle(o)
      BY <2>3, RevisitMute DEF Mute, Tree
    <2>4. CASE Resettle(o)
      <3>1. PICK k \in Key : ResultOf(k, "ok") /\ k \in Told /\ UNCHANGED worldVars
        BY <2>4, ResettleDoes
      <3>2. Told' = Told \cup {k}
        BY <1>0, <3>1, ResultTold
      <3> QED BY <3>1, <3>2 DEF Touched, worldVars, LateKeys
    <2>5. CASE \/ SelectFresh(o) \/ SelectNaive(o) \/ Graduate(o) \/ Fork(o)
               \/ ForkNaive(o) \/ Abandon(o) \/ AbandonWithResidue(o)
      <3>1. UNCHANGED journal /\ UNCHANGED worldVars
        BY <2>5 DEF SelectFresh, SelectNaive, Graduate, Fork, ForkNaive, Abandon,
                    AbandonWithResidue, WritesTree
      <3>2. Told' = Told
        BY <1>0, <3>1, NothingTold DEF NoResult
      <3> QED BY <3>1, <3>2 DEF Touched, worldVars, LateKeys
    <2>6. CASE Execute(o)
      <3>1. PICK k : k = effect_key(orch[o].br, orch[o].seq)
        OBVIOUS
      <3>2. /\ Still \/ Effect(k)
            /\ \A q \in LateKeys' : q \in LateKeys \/ q = k
            /\ UNCHANGED journal
        BY <2>6, <3>1, ExecuteDoes
      <3>3. Told' = Told
        BY <1>0, <3>2, NothingTold DEF NoResult
      <3>4. applied' \subseteq applied \cup {k}
        BY <3>2 DEF Still, Effect
      <3> QED BY <2>6, <3>1, <3>2, <3>3, <3>4 DEF Touched, Execute, At
    <2>7. CASE RecordResult(o) \/ Ambiguous(o)
      <3>1. /\ orch[o].pc \in {"called", "ambiguous"} /\ orch[o] \in Local /\ orch[o].seq \in Steps
            /\ UNCHANGED worldVars
        BY <2>7 DEF RecordResult, Ambiguous, At, TypeOK, LocalOK, Sound, Working, WritesRecord
      <3>2. PICK st \in ResultStatus : append(StepRow(o, "RESULT", st))
        BY <2>7, <3>1 DEF RecordResult, Ambiguous, At, Path, PathOK, ResultStatus
      <3>3. PICK k \in Key : k = effect_key(orch[o].br, orch[o].seq)
        BY <3>1 DEF effect_key, Key, Local
      <3>4. /\ StepRow(o, "RESULT", st) \in Record
            /\ StepRow(o, "RESULT", st).kind = "RESULT"
            /\ StepRow(o, "RESULT", st).br = k[1] /\ StepRow(o, "RESULT", st).seq = k[2]
            /\ StepRow(o, "RESULT", st).status = st
        BY <3>3, StepRowType DEF StepRow, RecordKind, effect_key
      <3>5. ResultOf(k, st)
        BY <3>2, <3>4 DEF ResultOf
      <3>6. Told' = Told \cup {k}
        BY <1>0, <3>5, ResultTold
      <3> QED BY <3>1, <3>3, <3>6 DEF Touched, worldVars, LateKeys
    <2> QED BY <1>1, <2>1, <2>2, <2>3, <2>4, <2>5, <2>6, <2>7
            DEF Run, Lead, Walk, Settle, Finish
  <1>2. CASE Lapse \/ Redeliver \/ Land \/ UNCHANGED vars
    BY <1>2, EnvironmentMute DEF Mute
  <1> QED BY <1>1, <1>2 DEF Next

\* Only _abandon kills the branch that is alive.
LEMMA AliveStays ==
    ASSUME TypeOK, LocalOK, Path, Tree, Replays, [Next]_vars,
           \A o \in Orchestrators : ~ Abandon(o)
    PROVE  \A b \in DOMAIN branches : b \in DOMAIN branches' /\ (IsActive(b)' <=> IsActive(b))
  <1> SUFFICES ASSUME NEW b \in DOMAIN branches
               PROVE  b \in DOMAIN branches' /\ (IsActive(b)' <=> IsActive(b))
    OBVIOUS
  <1>0. branches \in Seq(Branch)
    BY DEF TypeOK, JournalTypeOK
  <1>1. CASE UNCHANGED branches
    BY <1>1 DEF IsActive
  <1>2. CASE \E p, d \in Nat : create_branch(p, d)
    <2>1. b \in DOMAIN branches' /\ branches'[b] = branches[b]
      BY <1>0, <1>2 DEF create_branch
    <2> QED BY <2>1 DEF IsActive
  <1>3. ASSUME NEW c \in DOMAIN branches, NEW st \in {"abandoned_with_residue", "compensated"},
               ~ IsActive(c), set_branch_status(c, st)
        PROVE  b \in DOMAIN branches' /\ (IsActive(b)' <=> IsActive(b))
    <2>1. /\ b \in DOMAIN branches'
          /\ b # c => branches'[b] = branches[b]
          /\ b = c => branches'[b].status = st
      <3>1. branches[b] \in Branch
        BY <1>0
      <3>2. /\ DOMAIN branches' = DOMAIN branches
            /\ b # c => branches'[b] = branches[b]
            /\ b = c => branches'[b] = [branches[b] EXCEPT !.status = st]
        BY <1>0, <1>3 DEF set_branch_status
      <3> QED BY <3>1, <3>2 DEF Branch
    <2> QED BY <1>3, <2>1 DEF IsActive
  <1> QED BY <1>1, <1>2, <1>3, TreeMoves

\* Nothing is stranded but by a death.
LEMMA StrandedShrinks ==
    ASSUME UndoableInTime, TypeOK, LocalOK, Path, Calm, Tree, Listed, Replays, [Next]_vars,
           \A o \in Orchestrators : ~ Abandon(o)
    PROVE  Stranded' \subseteq Stranded
  <1> SUFFICES ASSUME NEW k \in Stranded' PROVE k \in Stranded
    OBVIOUS
  <1>1. k \in applied' /\ ToolOf(k) \in Compensatable /\ ~ IsActive(k[1])'
    BY DEF Stranded, ToolOf
  <1>2. k \in applied
    <2>1. CASE Still
      BY <1>1, <2>1 DEF Still
    <2>2. ASSUME NEW j \in Key, Takes(j), k = j PROVE FALSE
      <3>1. j[1] \in DOMAIN branches /\ IsActive(j[1])
        BY <1>1, <2>2 DEF Takes, DeadKey
      <3> QED BY <1>1, <2>2, <3>1, AliveStays
    <2>3. ASSUME NEW j \in Key, Takes(j) PROVE k \in applied
      BY <1>1, <2>2, <2>3 DEF Takes, Effect
    <2>4. ASSUME NEW o \in Orchestrators, NEW r \in DOMAIN journal, NEW res \in ResultStatus,
                 Undoes(o, r, res)
          PROVE  k \in applied
      BY <1>1, <2>4 DEF Undoes, Compensation
    <2> QED BY <2>1, <2>3, <2>4, WorldMoves
  <1>3. k[1] \in DOMAIN branches
    BY <1>2 DEF Tree, Ground, Touched
  <1>4. ~ IsActive(k[1])
    BY <1>1, <1>3, AliveStays
  <1> QED BY <1>1, <1>2, <1>4 DEF Stranded

\* What is undone stays undone.
LEMMA GoneStays ==
    ASSUME UndoableInTime, TypeOK, LocalOK, Path, Calm, Tree, Listed, Replays, [Next]_vars,
           NEW k, DeadKey(k), k \notin applied
    PROVE  k \notin applied'
  <1>1. CASE Still
    BY <1>1 DEF Still
  <1>2. ASSUME NEW j \in Key, Takes(j) PROVE k \notin applied'
    BY <1>2 DEF Takes, Effect
  <1>3. ASSUME NEW o \in Orchestrators, NEW r \in DOMAIN journal, NEW res \in ResultStatus,
               Undoes(o, r, res)
        PROVE  k \notin applied'
    BY <1>3 DEF Undoes, Compensation
  <1> QED BY <1>1, <1>2, <1>3, WorldMoves

LEMMA EscalatedGrows ==
    ASSUME JournalTypeOK, Grows
    PROVE  EscalatedKeys \subseteq EscalatedKeys'
  <1> SUFFICES ASSUME NEW k \in EscalatedKeys PROVE k \in EscalatedKeys'
    OBVIOUS
  <1>1. PICK r \in DOMAIN journal : journal[r].kind = "ESCALATED" /\ k \in journal[r].keys
    BY DEF EscalatedKeys, Rows
  <1>2. r \in DOMAIN journal' /\ journal'[r] = journal[r]
    BY <1>1, GrowthKeeps
  <1>3. r \in Rows("ESCALATED")' /\ k \in journal'[r].keys
    BY <1>1, <1>2 DEF Rows
  <1> QED BY <1>3 DEF EscalatedKeys

LEMMA UndoableIsDead ==
    ASSUME JournalTypeOK, NEW r, Undoable(r)
    PROVE  DeadKey(KeyOf(r))
  BY DEF Undoable, DeadKey, KeyOf, effect_key

\* What is compensated is dead and gone, whatever the step.
LEMMA CompensatedStaysGone ==
    ASSUME UndoableInTime, TypeOK, LocalOK, Path, Calm, Tree, Listed, Replays, Clean, [Next]_vars
    PROVE  \A k \in compensations' : k \notin applied' /\ DeadKey(k)'
  <1>0. JournalTypeOK /\ Grows
    BY TypesNext DEF TypeOK
  <1> SUFFICES ASSUME NEW k \in compensations' PROVE k \notin applied' /\ DeadKey(k)'
    OBVIOUS
  <1>1. ASSUME DeadKey(k), k \notin applied PROVE k \notin applied' /\ DeadKey(k)'
    BY <1>0, <1>1, GoneStays, OkayStays
  <1>2. CASE k \in compensations
    BY <1>1, <1>2 DEF Clean
  <1>3. ASSUME NEW o \in Orchestrators, CompResult(o), k \notin compensations
        PROVE  k \notin applied' /\ DeadKey(k)'
    <2>1. PICK r \in orch[o].todo :
              /\ Latest(orch[o], r) /\ orch[o].pc = "undone"
              /\ compensations' = compensations \cup (IF orch[o].res = "ok" THEN {KeyOf(r)} ELSE {})
      BY <1>3, CompResultDoes
    <2>2. k = KeyOf(r) /\ orch[o].res = "ok"
      BY <1>3, <2>1
    <2>3. k \notin applied
      BY <2>1, <2>2 DEF Clean, Swept
    <2>4. DeadKey(k)
      BY <1>0, <2>2, UndoableIsDead DEF LocalOK, Sound
    <2> QED BY <1>1, <2>3, <2>4
  <1>4. ASSUME NoUndo PROVE k \in compensations
    BY <1>0, <1>4, NothingUndone
  <1>5. CASE Lapse \/ Redeliver \/ Land \/ UNCHANGED vars
    <2>1. UNCHANGED journal
      BY <1>5 DEF Lapse, Redeliver, Land, vars, journalVars
    <2> QED BY <1>2, <1>4, <2>1 DEF NoUndo
  <1> QED BY <1>2, <1>3, <1>4, <1>5, OnlyCompResult DEF Next

LEMMA SweptOf ==
    ASSUME NEW o \in Orchestrators, NEW m, m = orch'[o], Swept(m)'
    PROVE  Swept(orch[o])'
  BY DEF Swept, Paging, Stranded, EscalatedKeys, Latest, KeyOf, Rows, IsActive

\* Who does not move has swept what it had.
LEMMA SweptKept ==
    ASSUME UndoableInTime, TypeOK, LocalOK, Path, Calm, Tree, Listed, Replays, [Next]_vars,
           \A p \in Orchestrators : ~ Abandon(p),
           NEW o \in Orchestrators, orch'[o] = orch[o], Swept(orch[o])
    PROVE  Swept(orch[o])'
  <1>0. JournalTypeOK /\ Grows
    BY TypesNext DEF TypeOK
  <1>1. PICK m : m = orch'[o] /\ m = orch[o]
    OBVIOUS
  <1>2. Stranded' \subseteq Stranded /\ EscalatedKeys \subseteq EscalatedKeys'
    BY <1>0, StrandedShrinks, EscalatedGrows
  <1>3. Paging(m) \/ m.pc \in {"graduate", "graduated"} => Stranded' = {}
    BY <1>1, <1>2 DEF Swept
  <1>4. m.pc = "returned" => Stranded' \subseteq EscalatedKeys'
    BY <1>1, <1>2 DEF Swept
  <1>5. ASSUME m.pc = "undone", m.res = "ok", NEW r \in m.todo, Latest(m, r)
        PROVE  KeyOf(r)' \notin applied'
    <2>1. Undoable(r) /\ DeadKey(KeyOf(r))
      BY <1>0, <1>1, UndoableIsDead DEF LocalOK, Sound
    <2>2. KeyOf(r)' = KeyOf(r)
      BY <1>0, <2>1, GrowthKeeps DEF Undoable, KeyOf
    <2>3. KeyOf(r) \notin applied
      BY <1>1, <1>5 DEF Swept
    <2>4. PICK k : k = KeyOf(r)
      OBVIOUS
    <2> QED BY <2>1, <2>2, <2>3, <2>4, GoneStays
  <1>6. Swept(m)'
    BY <1>3, <1>4, <1>5 DEF Swept, Paging, Latest
  <1> QED BY <1>1, <1>6, SweptOf

\* A process gets to page, or to graduate branches, from there or past the barrier.
LEMMA PagesBy ==
    ASSUME TypeOK, LocalOK, Barrier, NEW o \in Orchestrators, Run(o) \/ Crash(o),
           NEW m, m = orch'[o], Paging(m) \/ m.pc \in {"graduate", "graduated"}
    PROVE  \/ Paging(orch[o]) \/ orch[o].pc \in {"graduate", "graduated"}
           \/ uncompensated = {}
  <1>0. orch[o] \in Local /\ orch \in [Orchestrators -> Local]
    BY DEF TypeOK
  <1>1. m.pc \in {"intent", "call", "called", "ambiguous", "graduate", "graduated"}
    BY DEF Paging
  <1>2. ~ (\/ SelectActive(o) \/ SelectFresh(o) \/ RecordFork(o) \/ ForkNaive(o)
           \/ Replay(o) \/ SelectNaive(o) \/ Abandon(o) \/ AbandonWithResidue(o)
           \/ RecordAbandoned(o) \/ Fork(o) \/ RecordResult(o))
    BY <1>1, OtherMoves
  <1>3. Plain(o)
    BY <1>2, PlainMoves DEF Run, Lead, Walk, Settle, Finish
  <1>4. orch[o].pc \in OnPath /\ m.seq = orch[o].seq
    BY <1>1, <1>3 DEF Plain, OnPath
  <1>5. ASSUME orch[o].pc \notin {"intent", "call", "called", "ambiguous"},
               orch[o].pc \notin {"graduate", "graduated"}
        PROVE  uncompensated = {}
    <2> USE DEF At, Goto
    <2>1. orch[o].pc \in {"step", "drain", "comp", "undo", "undone"}
      BY <1>4, <1>5 DEF OnPath
    <2>2. ~ (Intent(o) \/ Execute(o) \/ Probe(o) \/ Ambiguous(o) \/ Suppress(o))
      <3>1. Intent(o) => orch[o].pc = "intent"
        BY DEF Intent
      <3>2. Execute(o) => orch[o].pc = "call"
        BY DEF Execute
      <3>3. Ambiguous(o) => orch[o].pc = "ambiguous"
        BY DEF Ambiguous
      <3>4. Probe(o) => orch[o].pc = "called"
        BY DEF Probe
      <3>5. Suppress(o) => orch[o].pc = "called"
        BY DEF Suppress
      <3> QED BY <2>1, <3>1, <3>2, <3>3, <3>4, <3>5
    <2>3. ~ (Graduate(o) \/ Graduated(o) \/ Release(o))
      <3>1. Graduate(o) \/ Release(o) => orch[o].pc = "graduate"
        BY DEF Graduate, Release
      <3>2. Graduated(o) => orch[o].pc = "graduated"
        BY DEF Graduated
      <3> QED BY <2>1, <3>1, <3>2
    <2>4. ~ (\/ Start(o) \/ NotLeader(o) \/ Ack(o) \/ Crash(o) \/ ReplayFailed(o)
             \/ Complete(o) \/ Escalate(o) \/ Block(o) \/ GiveUp(o) \/ BeginPass(o)
             \/ CompIntent(o) \/ Undo(o) \/ CompResult(o) \/ Revisit(o))
      BY <1>1, StepsTo
    <2>6. CASE Drained(o)
      BY <2>6 DEF Drained
    <2>7. CASE Pass(o)
      <3>1. m.pc = "intent"
        BY <2>7, StepsTo
      <3>2. ToolAt(o) \in Irreversible
        BY <1>4, <3>1 DEF Paging, ToolAt
      <3> QED BY <2>7, <3>2 DEF Pass, Gated
    <2> QED BY <1>2, <2>2, <2>3, <2>4, <2>6, <2>7
            DEF Run, Lead, Walk, Settle, Drain, Finish
  <1>6. CASE orch[o].pc \in {"graduate", "graduated"}
    BY <1>6
  <1>7. CASE orch[o].pc \in {"intent", "call", "called", "ambiguous"}
    <2>1. ASSUME m.pc \in {"graduate", "graduated"} PROVE FALSE
      <3>1. Drained(o) \/ Graduated(o) \/ Graduate(o)
        <4>1. ~ (\/ Start(o) \/ NotLeader(o) \/ Ack(o) \/ Crash(o) \/ ReplayFailed(o)
                 \/ Complete(o) \/ Escalate(o) \/ Pass(o) \/ Release(o) \/ Block(o)
                 \/ Intent(o) \/ Execute(o) \/ Suppress(o) \/ Probe(o) \/ Ambiguous(o)
                 \/ GiveUp(o) \/ BeginPass(o) \/ CompIntent(o) \/ Undo(o) \/ CompResult(o)
                 \/ Revisit(o))
          BY <2>1, StepsTo
        <4> QED BY <1>2, <4>1 DEF Run, Lead, Walk, Settle, Drain, Finish
      <3>2. Drained(o) => orch[o].pc = "drain"
        BY DEF Drained, At
      <3>3. Graduated(o) => orch[o].pc = "graduated"
        BY DEF Graduated, At
      <3>4. Graduate(o) => orch[o].pc = "graduate"
        BY DEF Graduate, At
      <3> QED BY <1>7, <3>1, <3>2, <3>3, <3>4
    <2>2. Trace[m.seq] \in Irreversible
      BY <2>1 DEF Paging
    <2> QED BY <1>4, <1>7, <2>2 DEF Paging
  <1> QED BY <1>5, <1>6, <1>7

\* Only undoing gets to a report.
LEMMA UndoneBy ==
    ASSUME TypeOK, NEW o \in Orchestrators, Run(o) \/ Crash(o), orch'[o].pc = "undone"
    PROVE  Undo(o)
  <1>1. ~ (\/ SelectActive(o) \/ SelectFresh(o) \/ RecordFork(o) \/ ForkNaive(o)
           \/ Replay(o) \/ SelectNaive(o) \/ Abandon(o) \/ AbandonWithResidue(o)
           \/ RecordAbandoned(o) \/ Fork(o) \/ RecordResult(o))
    BY OtherMoves
  <1>2. ~ (\/ Start(o) \/ NotLeader(o) \/ Ack(o) \/ Crash(o) \/ ReplayFailed(o)
           \/ Complete(o) \/ Escalate(o) \/ Pass(o) \/ Release(o) \/ Block(o) \/ Intent(o)
           \/ Execute(o) \/ Suppress(o) \/ Probe(o) \/ Ambiguous(o) \/ GiveUp(o)
           \/ Drained(o) \/ Graduated(o) \/ Graduate(o) \/ BeginPass(o) \/ CompIntent(o)
           \/ CompResult(o) \/ Revisit(o))
    BY StepsTo
  <1> QED BY <1>1, <1>2 DEF Run, Lead, Walk, Settle, Drain, Finish

\* Who moves sweeps as it goes.
LEMMA SweptMoves ==
    ASSUME SomebodyIsPaged, UndoableInTime, TypeOK, LocalOK, Path, Calm, Tree, Listed, Barrier,
           Clean, [Next]_vars, \A p \in Orchestrators : ~ Abandon(p),
           NEW o \in Orchestrators, Run(o) \/ Crash(o)
    PROVE  Swept(orch[o])'
  <1>0. /\ JournalTypeOK /\ Grows /\ Ground /\ Replays /\ Diverges
        /\ Stranded' \subseteq Stranded
        /\ orch[o] \in Local /\ orch \in [Orchestrators -> Local]
    <2>1. Replays /\ Diverges
      BY DEF Barrier, Replays, Diverges
    <2> QED BY <2>1, TypesNext, StrandedShrinks DEF TypeOK, Tree
  <1>1. PICK m : m = orch'[o]
    OBVIOUS
  <1>2. ASSUME Paging(m) \/ m.pc \in {"graduate", "graduated"} PROVE Stranded' = {}
    <2>1. \/ Paging(orch[o]) \/ orch[o].pc \in {"graduate", "graduated"}
          \/ uncompensated = {}
      BY <1>1, <1>2, PagesBy
    <2>2. Stranded = {}
      <3>1. CASE Paging(orch[o]) \/ orch[o].pc \in {"graduate", "graduated"}
        BY <3>1 DEF Clean, Swept
      <3>2. CASE uncompensated = {}
        BY <1>0, <3>2, StrandedIsOwed
      <3> QED BY <2>1, <3>1, <3>2
    <2> QED BY <1>0, <2>2
  <1>3. ASSUME m.pc = "returned" PROVE Stranded' \subseteq EscalatedKeys'
    <2>1. CASE Complete(o)
      <3>1. /\ orch[o].pc = "step" /\ orch[o].seq > Len(Trace) /\ orch[o].seq \in Nat
            /\ orch[o].br \in DOMAIN branches /\ orch[o].br \in Nat
        BY <1>0, <2>1 DEF Complete, At, Local, LocalOK, Sound, Branchless
      <3>2. /\ IsActive(orch[o].br)
            /\ \A s \in Steps : s < orch[o].seq => s \in completed_results(orch[o].br)
        BY <3>1 DEF Path, PathOK, OnPath
      <3>3. PICK s \in Steps : Trace[s] \in Irreversible
        BY DEF SomebodyIsPaged
      <3>4. s \in completed_results(orch[o].br)
        BY <3>1, <3>2, <3>3, TraceAssumption DEF Steps
      <3>5. PICK k : k = <<orch[o].br, s>>
        OBVIOUS
      <3>6. k[1] = orch[o].br /\ k[2] = s
        BY <3>5
      <3>7. k \in Told
        BY <1>0, <3>4, <3>5, CompletedIs, LastTold
      <3>8. k \in Touched /\ IsActive(k[1]) /\ ToolOf(k) \in Irreversible
        BY <3>2, <3>3, <3>6, <3>7 DEF Touched, ToolOf
      <3>9. Stranded = {}
        BY <3>8 DEF Clean
      <3> QED BY <1>0, <3>9
    <2>2. CASE Escalate(o)
      <3>1. append(EscalationRow(o)) /\ EscalationRow(o).kind = "ESCALATED"
            /\ EscalationRow(o).keys = Owed
        BY <2>2 DEF Escalate, EscalationRow, TreeRow
      <3>2. /\ Len(journal) + 1 \in DOMAIN journal'
            /\ journal'[Len(journal) + 1] = EscalationRow(o)
        BY <1>0, <3>1 DEF append, JournalTypeOK
      <3>3. PICK n : n \in DOMAIN journal' /\ journal'[n] = EscalationRow(o)
        BY <3>2
      <3>4. n \in Rows("ESCALATED")' /\ journal'[n].keys = Owed
        BY <3>1, <3>3 DEF Rows
      <3>5. Owed \subseteq EscalatedKeys'
        BY <3>4 DEF EscalatedKeys
      <3>6. Stranded \subseteq Owed
        BY <1>0, StrandedIsOwed
      <3> QED BY <1>0, <3>5, <3>6
    <2>3. ~ ReplayFailed(o)
      BY <1>0 DEF ReplayFailed
    <2> QED BY <1>1, <1>3, <2>1, <2>2, <2>3, ReturnsBy
  <1>4. ASSUME m.pc = "undone", m.res = "ok", NEW r \in m.todo, Latest(m, r)
        PROVE  KeyOf(r)' \notin applied'
    <2>1. Undo(o)
      BY <1>1, <1>4, UndoneBy
    <2>2. UNCHANGED journal
      BY <2>1, UndoDoes
    <2>3. PICK q \in orch[o].todo, res \in ResultStatus :
                 /\ Latest(orch[o], q)
                 /\ orch'[o] = [orch[o] EXCEPT !.pc = "undone", !.res = res]
                 /\ \/ Still /\ res # "ok"
                    \/ Compensation(KeyOf(q))
      BY <2>1, UndoDoes
    <2>4. m.res = res /\ m.todo = orch[o].todo
      BY <1>0, <1>1, <2>3 DEF Local
    <2>5. q = r
      <3>1. \A x \in orch[o].todo : x \in Nat
        BY <1>0 DEF Local
      <3>2. q <= r /\ r <= q
        BY <1>4, <2>3, <2>4 DEF Latest
      <3> QED BY <1>4, <2>3, <2>4, <3>1, <3>2
    <2>6. Compensation(KeyOf(r))
      BY <1>4, <2>3, <2>4, <2>5
    <2>7. KeyOf(r)' = KeyOf(r)
      BY <2>2 DEF KeyOf
    <2> QED BY <2>6, <2>7 DEF Compensation
  <1>5. Swept(m)'
    BY <1>2, <1>3, <1>4 DEF Swept, Paging, Latest
  <1> QED BY <1>1, <1>5, SweptOf

LEMMA CleanNext ==
    ASSUME SomebodyIsPaged, UndoableInTime, TypeOK, LocalOK, Sole, Path, Calm, Tree, Listed,
           Barrier, Clean, [Next]_vars
    PROVE  Clean'
  <1>0. /\ JournalTypeOK /\ Grows /\ Replays /\ Ground
        /\ orch \in [Orchestrators -> Local] /\ branches \in Seq(Branch)
    <2>1. Replays
      BY DEF Barrier, Replays
    <2> QED BY <2>1, TypesNext DEF TypeOK, JournalTypeOK, Tree
  <1>1. \A k \in compensations' : k \notin applied' /\ DeadKey(k)'
    BY <1>0, CompensatedStaysGone
  <1>2. ASSUME NEW a \in Orchestrators, Abandon(a) PROVE Clean'
    <2>1. /\ orch[a].pc = "diverge" /\ orch'[a].pc = "residue"
          /\ \A p \in Orchestrators \ {a} : orch'[p] = orch[p]
          /\ set_branch_status(orch[a].br, "abandoned") /\ orch[a].br \in DOMAIN branches
          /\ UNCHANGED << applied, acked >>
      <3>1. /\ orch[a].pc = "diverge" /\ set_branch_status(orch[a].br, "abandoned")
            /\ \A p \in Orchestrators \ {a} : orch'[p] = orch[p]
            /\ UNCHANGED << applied, acked >>
        BY <1>0, <1>2 DEF Abandon, At, WritesTree, worldVars, EngineVars
      <3>2. orch'[a].pc = "residue"
        BY <1>2, OtherMoves
      <3>3. orch[a].br \in DOMAIN branches
        BY <3>1 DEF LocalOK, Sound, Branchless
      <3> QED BY <3>1, <3>2, <3>3
    <2>2. ~ acked' /\ \A p \in Orchestrators \ {a} : orch'[p].pc = "idle"
      <3>1. Busy(a)
        BY <2>1 DEF Busy
      <3> QED BY <2>1, <3>1, Alone DEF Sole
    <2>3. NoActiveBranch'
      <3>1. PICK m : m = orch'[a]
        OBVIOUS
      <3>2. Placed(orch[a])'
        BY <1>2, TreeNext DEF Tree
      <3> QED BY <2>1, <3>2 DEF Placed, NoActiveBranch, IsActive
    <2>4. \A k \in Touched' : ~ IsActive(k[1])'
      <3>1. Ground'
        BY TreeNext DEF Tree
      <3> QED BY <2>3, <3>1 DEF Ground, NoActiveBranch, IsActive
    <2>5. ASSUME NEW k \in Stranded' PROVE branches'[k[1]].status # "compensated"
      <3>1. k \in applied /\ ToolOf(k) \in Compensatable
        BY <2>1, <2>5 DEF Stranded, ToolOf
      <3>2. k[1] \in DOMAIN branches
        BY <1>0, <3>1 DEF Ground, Touched
      <3>3. CASE k[1] = orch[a].br
        <4>1. branches[k[1]] \in Branch
          BY <1>0, <3>2
        <4>2. branches'[k[1]] = [branches[k[1]] EXCEPT !.status = "abandoned"]
          BY <1>0, <2>1, <3>2, <3>3 DEF set_branch_status
        <4> QED BY <4>1, <4>2 DEF Branch
      <3>4. CASE k[1] # orch[a].br
        <4>1. branches'[k[1]] = branches[k[1]]
          BY <1>0, <2>1, <3>2, <3>4 DEF set_branch_status
        <4>2. k \in Stranded
          BY <2>5, <3>1, <4>1 DEF Stranded, IsActive
        <4> QED BY <4>1, <4>2 DEF Clean
      <3> QED BY <3>3, <3>4
    <2>6. \A p \in Orchestrators : Swept(orch[p])'
      <3> SUFFICES ASSUME NEW p \in Orchestrators PROVE Swept(orch[p])'
        OBVIOUS
      <3>1. PICK m : m = orch'[p]
        OBVIOUS
      <3>2. m.pc \in {"residue", "idle"}
        BY <2>1, <2>2, <3>1
      <3>3. Swept(m)'
        BY <3>2 DEF Swept, Paging
      <3> QED BY <3>1, <3>3, SweptOf
    <2> QED BY <1>1, <2>2, <2>4, <2>5, <2>6 DEF Clean
  <1>3. ASSUME \A a \in Orchestrators : ~ Abandon(a) PROVE Clean'
    <2>1. Stranded' \subseteq Stranded /\ EscalatedKeys \subseteq EscalatedKeys'
      BY <1>0, <1>3, StrandedShrinks, EscalatedGrows
    <2>2. ASSUME NEW k \in Stranded' PROVE branches'[k[1]].status # "compensated"
      <3>1. k \in Stranded /\ branches[k[1]].status # "compensated" /\ k[1] \in DOMAIN branches
        BY <1>0, <2>1, <2>2 DEF Clean, Stranded, Ground, Touched
      <3>2. CASE UNCHANGED branches
        BY <3>1, <3>2
      <3>3. CASE \E p, d \in Nat : create_branch(p, d)
        BY <1>0, <3>1, <3>3 DEF create_branch
      <3>4. ASSUME NEW c \in DOMAIN branches, set_branch_status(c, "abandoned_with_residue")
            PROVE  branches'[k[1]].status # "compensated"
        <4>1. branches[k[1]] \in Branch
          BY <1>0, <3>1
        <4>2. \/ branches'[k[1]] = branches[k[1]]
              \/ branches'[k[1]] = [branches[k[1]] EXCEPT !.status = "abandoned_with_residue"]
          BY <1>0, <3>1, <3>4 DEF set_branch_status
        <4> QED BY <3>1, <4>1, <4>2 DEF Branch
      <3>5. ASSUME NEW o \in Orchestrators, orch[o].pc = "graduate" PROVE FALSE
        BY <3>1, <3>5 DEF Clean, Swept
      <3> QED BY <1>0, <1>3, <3>2, <3>3, <3>4, <3>5, TreeMoves
    <2>3. ASSUME NEW k \in Touched', IsActive(k[1])', ToolOf(k)' \in Irreversible
          PROVE  Stranded' = {}
      <3>1. ToolOf(k) \in Irreversible
        BY <2>3 DEF ToolOf
      <3>2. CASE k \in Touched
        <4>1. k[1] \in DOMAIN branches
          BY <1>0, <3>2 DEF Ground
        <4>2. IsActive(k[1])
          BY <1>0, <1>3, <2>3, <4>1, AliveStays
        <4> QED BY <2>1, <3>1, <3>2, <4>2 DEF Clean
      <3>3. ASSUME NEW o \in Orchestrators, orch[o].pc \in {"call", "called", "ambiguous"},
                   k = effect_key(orch[o].br, orch[o].seq)
            PROVE  Stranded = {}
        <4>1. Paging(orch[o])
          BY <3>1, <3>3 DEF Paging, ToolOf, effect_key
        <4> QED BY <4>1 DEF Clean, Swept
      <3> QED BY <2>1, <2>3, <3>2, <3>3, NewKey
    <2>4. ASSUME acked' PROVE Stranded' \subseteq EscalatedKeys'
      <3>1. CASE acked
        BY <2>1, <3>1 DEF Clean
      <3>2. ASSUME NEW o \in Orchestrators, Ack(o) PROVE Stranded' \subseteq EscalatedKeys'
        BY <2>1, <3>2 DEF Ack, At, Clean, Swept
      <3>3. ASSUME NEW o \in Orchestrators, Run(o) \/ Crash(o), ~ Ack(o) PROVE acked
        BY <2>4, <3>3, BusyBefore DEF Start, Crash
      <3>4. ASSUME Lapse \/ Redeliver \/ Land \/ UNCHANGED vars PROVE acked
        BY <2>4, <3>4 DEF Lapse, Redeliver, Land, vars, EngineVars
      <3> QED BY <3>1, <3>2, <3>3, <3>4 DEF Next
    <2>5. \A o \in Orchestrators : Swept(orch[o])'
      <3> SUFFICES ASSUME NEW o \in Orchestrators PROVE Swept(orch[o])'
        OBVIOUS
      <3>1. CASE Run(o) \/ Crash(o)
        BY <1>3, <3>1, SweptMoves
      <3>2. ASSUME orch'[o] = orch[o] PROVE Swept(orch[o])'
        BY <1>0, <1>3, <3>2, SweptKept DEF Clean
      <3>3. ASSUME NEW p \in Orchestrators \ {o}, Run(p) \/ Crash(p) PROVE orch'[o] = orch[o]
        <4>1. CASE Start(p) \/ Crash(p)
          BY <1>0, <4>1 DEF Start, Crash
        <4>2. CASE Run(p) /\ ~ Start(p)
          BY <4>2, RunMoves DEF Moved
        <4> QED BY <3>3, <4>1, <4>2
      <3>4. CASE Lapse \/ Redeliver \/ Land \/ UNCHANGED vars
        BY <3>2, <3>4 DEF Lapse, Redeliver, Land, vars, EngineVars
      <3> QED BY <3>1, <3>2, <3>3, <3>4 DEF Next
    <2> QED BY <1>1, <2>2, <2>3, <2>4, <2>5 DEF Clean
  <1> QED BY <1>2, <1>3

LEMMA CleanAlways ==
    ASSUME NoTakeover, Apart, UndoableInTime, SomebodyIsPaged
    PROVE  Spec => [](Barrier => Clean)
  <1>1. Init => Clean
    BY DEF Init, JournalInit, WorldInit, Clean, Swept, Paging, Idle, compensations, Rows,
           Stranded, Touched, Told, LateKeys, EmptyBag, BagToSet
  <1>2. /\ TypeOK /\ LocalOK /\ Sole /\ Path /\ Calm /\ Tree /\ Listed
        /\ (Barrier => Clean) /\ [Next]_vars
        => (Barrier => Clean)'
    <2> SUFFICES ASSUME TypeOK, LocalOK, Sole, Path, Calm, Tree, Listed, Barrier => Clean,
                        [Next]_vars, Barrier'
                 PROVE  Clean'
      OBVIOUS
    <2>1. Barrier
      BY SettingsStay DEF settings, Barrier
    <2> QED BY <2>1, CleanNext
  <1> QED BY <1>1, <1>2, OneList, PTL DEF Spec

\* Once the alert is acknowledged, an effect in force on a dead branch is one that an
\* escalation names: the barrier lets nobody page before the dead branches are undone,
\* a branch that ran to its end paged, and every other end of a run names what is still
\* owed (engine._drive_barrier, compensate_abandoned, _escalation_detail).
THEOREM CleanAbandonmentHolds ==
    ASSUME NoTakeover, Apart, UndoableInTime, SomebodyIsPaged
    PROVE  Spec => []CleanAbandonment
  <1>1. (Barrier => Clean) => CleanAbandonment
    BY DEF Clean, CleanAbandonment
  <1> QED BY <1>1, CleanAlways, PTL

------------------------------------------------------------------------------
(* The barrier, of the world                                               *)

\* A service that is late is up, and somebody is on call: the zombie scenario of
\* scenarios.py sets no other fault.
LateAnswers ==
    \A s \in Scenarios :
        s.faults.late_delivery_tools # {} =>
           /\ s.faults.late_delivery_tools \cap (s.faults.fail_tools \cup s.faults.unreachable) = {}
           /\ s.faults.empty_rotas = {}

\* A leader's epoch is the lease's, and no service has heard of a later one.
OneEpoch ==
    /\ \A f \in Fences : epochSeen[f] <= lease.epoch
    /\ \A o \in Orchestrators : Leading(o) => orch[o].epoch = lease.epoch
    /\ \A o \in Orchestrators : orch[o].pc \in Resting => orch[o].epoch <= lease.epoch

LEMMA FenceWithin ==
    ASSUME WorldTypeOK, NEW tool, NEW epoch \in Nat, NEW n \in Nat, epoch <= n,
           \A f \in Fences : epochSeen[f] <= n,
           _fence(tool, epoch) \/ UNCHANGED epochSeen
    PROVE  \A f \in Fences : epochSeen'[f] <= n
  <1>1. epochSeen \in [Fences -> Nat]
    BY DEF WorldTypeOK
  <1>2. CASE UNCHANGED epochSeen
    BY <1>2
  <1>3. CASE _fence(tool, epoch)
    <2> SUFFICES ASSUME NEW f \in Fences PROVE epochSeen'[f] <= n
      OBVIOUS
    <2>1. epochSeen'[f] = epochSeen[f] \/ epochSeen'[f] = epoch
      BY <1>1, <1>3 DEF _fence
    <2> QED BY <2>1
  <1> QED BY <1>2, <1>3

LEMMA OneEpochInit == Init => OneEpoch
  BY DEF Init, WorldInit, Idle, OneEpoch, Leading, Resting

LEMMA OneEpochNext ==
    ASSUME TypeOK, LocalOK, Sole, OneEpoch, [Next]_vars
    PROVE  OneEpoch'
  <1>0. /\ orch \in [Orchestrators -> Local] /\ WorldTypeOK /\ lease.epoch \in Nat
        /\ epochSeen \in [Fences -> Nat]
    BY DEF TypeOK, WorldTypeOK
  <1>1. ASSUME NEW o \in Orchestrators, Start(o) PROVE OneEpoch'
    <2>1. /\ lease'.epoch = lease.epoch + 1 /\ UNCHANGED epochSeen
          /\ orch'[o].epoch = lease.epoch + 1 /\ orch'[o].pc = "select"
          /\ \A p \in Orchestrators \ {o} : orch'[p] = orch[p]
      BY <1>0, <1>1 DEF Start, Idle, worldVars
    <2>2. \A p \in Orchestrators \ {o} : ~ Leading(p)
      BY <1>1 DEF Start, MayLead, Sole, Busy, Leading
    <2>3. \A f \in Fences : epochSeen'[f] <= lease'.epoch
      BY <1>0, <2>1 DEF OneEpoch
    <2>4. \A p \in Orchestrators : Leading(p)' => orch'[p].epoch = lease'.epoch
      BY <2>1, <2>2 DEF Leading
    <2>5. ASSUME NEW p \in Orchestrators, orch'[p].pc \in Resting
          PROVE  orch'[p].epoch <= lease'.epoch
      <3>1. p # o /\ orch[p].pc \in Resting /\ orch'[p].epoch = orch[p].epoch
        BY <2>1, <2>5 DEF Resting
      <3>2. orch[p].epoch \in Nat /\ orch[p].epoch <= lease.epoch
        BY <1>0, <3>1 DEF Local, OneEpoch
      <3> QED BY <1>0, <2>1, <3>1, <3>2
    <2> QED BY <2>3, <2>4, <2>5 DEF OneEpoch
  <1>2. ASSUME NEW o \in Orchestrators, Run(o) \/ Crash(o), ~ Start(o) PROVE OneEpoch'
    <2>1. Moved(o)
      BY <1>2, RunMoves, Jumps DEF Crash, Idle
    <2>2. \A f \in Fences : epochSeen'[f] <= lease'.epoch
      <3>1. CASE UNCHANGED worldVars
        BY <2>1, <3>1 DEF worldVars, Moved, OneEpoch
      <3>2. CASE Execute(o) \/ Undo(o) \/ Recheck(o)
        <4>1. orch[o].epoch \in Nat /\ orch[o].epoch <= lease.epoch
          <5>1. Leading(o) \/ orch[o].pc \in Resting
            BY <3>2 DEF Execute, Undo, Recheck, At, Leading, Resting
          <5>2. orch[o].epoch \in Nat
            BY <1>0 DEF Local
          <5> QED BY <1>0, <5>1, <5>2 DEF OneEpoch
        <4>2. \E tool : _fence(tool, orch[o].epoch) \/ UNCHANGED epochSeen
          <5>1. CASE Execute(o)
            BY <5>1 DEF Execute, execute, TurnedAway, let_in, take_effect, worldVars
          <5>2. CASE Undo(o)
            BY <5>2 DEF Undo, compensate, TurnedAway, undo_effect, worldVars
          <5>3. CASE Recheck(o)
            BY <5>3 DEF Recheck, execute, TurnedAway, let_in, take_effect, worldVars
          <5> QED BY <3>2, <5>1, <5>2, <5>3
        <4>3. \A f \in Fences : epochSeen'[f] <= lease.epoch
          BY <1>0, <4>1, <4>2, FenceWithin DEF OneEpoch
        <4> QED BY <2>1, <4>3 DEF Moved
      <3> QED BY <1>2, <3>1, <3>2, CallsOnly
    <2>3. \A p \in Orchestrators : Leading(p)' => orch'[p].epoch = lease'.epoch
      BY <2>1 DEF Moved, Leading, OneEpoch
    <2>4. ASSUME NEW p \in Orchestrators, orch'[p].pc \in Resting
          PROVE  orch'[p].epoch <= lease'.epoch
      <3>1. CASE p # o
        BY <2>1, <2>4, <3>1 DEF Moved, OneEpoch
      <3>2. CASE p = o /\ Reconcile(o)
        <4>1. orch'[o].epoch = lease.epoch /\ lease' = lease
          BY <1>0, <3>2 DEF Reconcile, Idle
        <4> QED BY <1>0, <3>2, <4>1
      <3>3. CASE p = o /\ ~ Reconcile(o)
        <4>1. orch[o].pc \in Resting
          BY <1>2, <2>4, <3>3, RestsStill
        <4>2. Revisit(o)
          <5>1. ~ (\/ SelectActive(o) \/ SelectFresh(o) \/ RecordFork(o) \/ ForkNaive(o)
                   \/ Replay(o) \/ SelectNaive(o) \/ Abandon(o) \/ AbandonWithResidue(o)
                   \/ RecordAbandoned(o) \/ Fork(o) \/ RecordResult(o))
            BY <2>4, <3>3, OtherMoves DEF Resting
          <5>2. ~ (\/ Start(o) \/ NotLeader(o) \/ Ack(o) \/ Crash(o) \/ ReplayFailed(o)
                   \/ Complete(o) \/ Escalate(o) \/ Pass(o) \/ Release(o) \/ Block(o)
                   \/ Intent(o) \/ Execute(o) \/ Suppress(o) \/ Probe(o) \/ Ambiguous(o)
                   \/ GiveUp(o) \/ Drained(o) \/ Graduated(o) \/ Graduate(o) \/ BeginPass(o)
                   \/ CompIntent(o) \/ Undo(o) \/ CompResult(o))
            BY <2>4, <3>3, StepsTo DEF Resting
          <5> QED BY <1>2, <5>1, <5>2 DEF Run, Lead, Walk, Settle, Drain, Finish
        <4>3. orch'[o].epoch = orch[o].epoch
          <5>1. orch[o] \in Local
            BY <1>0
          <5>2. ~ Reconciled(o)
            BY <1>0, <2>4, <3>3 DEF Reconciled, Idle, Resting
          <5>3. ASSUME NEW r, DropRedo(o, r) PROVE orch'[o].epoch = orch[o].epoch
            BY <1>0, <5>1, <5>3 DEF DropRedo, Local
          <5>4. CASE Recheck(o)   BY <1>0, <5>1, <5>4 DEF Recheck, Local
          <5>5. CASE Rematch(o)   BY <1>0, <5>1, <5>5 DEF Rematch, Goto, Local
          <5>6. CASE Resettle(o)  BY <5>3, <5>6 DEF Resettle
          <5>7. CASE Reprobe(o)
            <6>1. orch' = [orch EXCEPT ![o].res = "ok"] => orch'[o].epoch = orch[o].epoch
              BY <1>0, <5>1 DEF Local
            <6> QED BY <5>3, <5>7, <6>1 DEF Reprobe
          <5> QED BY <3>3, <4>2, <5>2, <5>4, <5>5, <5>6, <5>7 DEF Revisit
        <4> QED BY <2>1, <3>3, <4>1, <4>3 DEF Moved, OneEpoch
      <3> QED BY <3>1, <3>2, <3>3
    <2> QED BY <2>2, <2>3, <2>4 DEF OneEpoch
  <1>3. CASE Lapse \/ Redeliver \/ Land \/ UNCHANGED vars
    <2>1. UNCHANGED << orch, epochSeen >> /\ lease'.epoch = lease.epoch
      BY <1>3 DEF Lapse, Redeliver, Land, land, vars, worldVars, EngineVars, TypeOK
    <2> QED BY <2>1 DEF OneEpoch, Leading
  <1> QED BY <1>1, <1>2, <1>3 DEF Next

\* Of a page that may be late nobody says that it failed.
Undecided(o) ==
    (orch[o].pc = "called" /\ orch[o].res = "failed" /\ ToolAt(o) \in Unobservable)
        => ToolAt(o) \notin faults.late_delivery_tools
LateUndecided ==
    /\ \A k \in Last("failed") :
          ToolOf(k) \in Unobservable => ToolOf(k) \notin faults.late_delivery_tools
    /\ \A o \in Orchestrators : Undecided(o)

LEMMA CalledBy ==
    ASSUME TypeOK, NEW o \in Orchestrators, Run(o) \/ Crash(o), orch'[o].pc = "called"
    PROVE  Execute(o) \/ Probe(o) \/ Suppress(o)
  <1>1. ~ (\/ SelectActive(o) \/ SelectFresh(o) \/ RecordFork(o) \/ ForkNaive(o)
           \/ Replay(o) \/ SelectNaive(o) \/ Abandon(o) \/ AbandonWithResidue(o)
           \/ RecordAbandoned(o) \/ Fork(o) \/ RecordResult(o))
    BY OtherMoves
  <1>2. ~ (\/ Start(o) \/ NotLeader(o) \/ Ack(o) \/ Crash(o) \/ ReplayFailed(o)
           \/ Complete(o) \/ Escalate(o) \/ Pass(o) \/ Release(o) \/ Block(o) \/ Intent(o)
           \/ Ambiguous(o) \/ GiveUp(o) \/ Drained(o) \/ Graduated(o) \/ Graduate(o)
           \/ BeginPass(o) \/ CompIntent(o) \/ Undo(o) \/ CompResult(o) \/ Revisit(o))
    BY StepsTo
  <1> QED BY <1>1, <1>2 DEF Run, Lead, Walk, Settle, Drain, Finish

LEMMA UndecidedNext ==
    ASSUME LateAnswers, TypeOK, LocalOK, Calm, OneEpoch, LateUndecided, [Next]_vars,
           NEW o \in Orchestrators
    PROVE  Undecided(o)'
  <1>0. orch[o] \in Local /\ orch \in [Orchestrators -> Local] /\ faults' = faults
    BY SettingsStay DEF TypeOK, settings
  <1>1. CASE orch'[o] = orch[o]
    BY <1>0, <1>1 DEF LateUndecided, Undecided, ToolAt
  <1>2. SUFFICES ASSUME Run(o) \/ Crash(o), orch'[o].pc = "called", orch'[o].res = "failed",
                        ToolAt(o)' \in Unobservable
                 PROVE  ToolAt(o)' \notin faults.late_delivery_tools
    <2>1. ASSUME NEW p \in Orchestrators \ {o}, Run(p) \/ Crash(p) PROVE orch'[o] = orch[o]
      <3>1. CASE Start(p) \/ Crash(p)
        BY <1>0, <3>1 DEF Start, Crash
      <3>2. CASE Run(p) /\ ~ Start(p)
        BY <3>2, RunMoves DEF Moved
      <3> QED BY <2>1, <3>1, <3>2
    <2>2. Lapse \/ Redeliver \/ Land \/ UNCHANGED vars => orch'[o] = orch[o]
      BY DEF Lapse, Redeliver, Land, vars, EngineVars
    <2>3. Run(o) \/ Crash(o) => Undecided(o)'
      BY <1>0, <1>2 DEF Undecided
    <2> QED BY <1>1, <2>1, <2>2, <2>3 DEF Next
  <1>3. CASE Execute(o)
    <2>1. /\ orch[o].pc = "call" /\ execute(Call(o), orch[o].epoch, "failed")
          /\ orch'[o].seq = orch[o].seq
      <3>1. PICK res \in ResultStatus :
               /\ execute(Call(o), orch[o].epoch, res)
               /\ orch' = [orch EXCEPT ![o] = [@ EXCEPT !.pc = "called", !.res = res]]
        BY <1>3 DEF Execute
      <3>2. orch'[o] = [orch[o] EXCEPT !.pc = "called", !.res = res]
        BY <1>0, <3>1
      <3>3. res = "failed" /\ orch'[o].seq = orch[o].seq
        BY <1>0, <1>2, <3>2 DEF Local
      <3> QED BY <1>3, <3>1, <3>3 DEF Execute, At
    <2>2. /\ orch[o].seq \in Steps /\ orch[o].br \in Nat /\ orch[o].epoch = lease.epoch
          /\ lease.epoch \in Nat
      BY <1>0, <2>1 DEF LocalOK, Sound, Working, Local, OneEpoch, Leading, TypeOK
    <2>3. PICK t : t = ToolAt(o)
      OBVIOUS
    <2>4. t = ToolOf(Call(o).key) /\ t \in Tools /\ t = ToolAt(o)'
      <3>1. Call(o).key[2] = orch[o].seq
        BY DEF Call, effect_key
      <3>2. Trace[orch[o].seq] \in Tools
        BY <2>2, TraceAssumption DEF Steps
      <3> QED BY <2>1, <2>3, <3>1, <3>2 DEF ToolAt, ToolOf
    <2>5. SUFFICES ASSUME t \in faults.late_delivery_tools PROVE FALSE
      BY <2>4
    <2>6. /\ t \notin faults.fail_tools /\ t \notin faults.unreachable
          /\ \A req : ~ NoResponder(req)
      BY <2>5 DEF Calm, LateAnswers, NoResponder
    <2>7. ~ Refused(t, orch[o].epoch)
      <3>1. FenceOf[t] \in Fences
        BY <2>4 DEF Fences
      <3>2. epochSeen[FenceOf[t]] <= lease.epoch /\ epochSeen[FenceOf[t]] \in Nat
        BY <3>1 DEF OneEpoch, TypeOK, WorldTypeOK
      <3> QED BY <2>2, <3>2 DEF Refused
    <2> QED BY <2>1, <2>4, <2>6, <2>7
       DEF execute, TurnedAway, let_in, take_effect, Reply, Unreachable
  <1>4. CASE Probe(o)
    <2>1. PICK ans \in {"done", "not_done", "unknown"} :
             /\ probe(Call(o).key, ans)
             /\ orch' = [orch EXCEPT ![o] =
                    CASE ans = "done"     -> [@ EXCEPT !.res = "ok"]
                      [] ans = "not_done" -> [@ EXCEPT !.res = "failed"]
                      [] ans = "unknown"  -> [@ EXCEPT !.pc = "ambiguous"]]
      BY <1>4 DEF Probe
    <2>2. ans = "not_done" /\ orch'[o].seq = orch[o].seq
      <3>1. CASE ans = "done"
        <4>1. orch'[o] = [orch[o] EXCEPT !.res = "ok"]
          BY <1>0, <2>1, <3>1
        <4> QED BY <1>0, <1>2, <4>1 DEF Local
      <3>2. CASE ans = "unknown"
        <4>1. orch'[o] = [orch[o] EXCEPT !.pc = "ambiguous"]
          BY <1>0, <2>1, <3>2
        <4> QED BY <1>0, <1>2, <4>1 DEF Local
      <3>3. CASE ans = "not_done"
        <4>1. orch'[o] = [orch[o] EXCEPT !.res = "failed"]
          BY <1>0, <2>1, <3>3
        <4> QED BY <1>0, <3>3, <4>1 DEF Local
      <3> QED BY <3>1, <3>2, <3>3
    <2>3. ToolOf(Call(o).key) \notin Unobservable
      BY <2>1, <2>2 DEF probe
    <2>4. ToolOf(Call(o).key) = ToolAt(o)'
      BY <2>2 DEF Call, effect_key, ToolOf, ToolAt
    <2> QED BY <1>2, <2>3, <2>4
  <1>5. CASE Suppress(o)
    <2>1. orch[o].res = "ok" /\ orch'[o] = [orch[o] EXCEPT !.prior = FALSE]
      BY <1>0, <1>5 DEF Suppress, LateDelivery
    <2>2. orch'[o].res = "ok"
      BY <1>0, <2>1 DEF Local
    <2> QED BY <1>2, <2>2
  <1> QED BY <1>2, <1>3, <1>4, <1>5, CalledBy

LEMMA LateUndecidedNext ==
    ASSUME LateAnswers, TypeOK, LocalOK, Sole, Path, Calm, Tree, OneEpoch, LateUndecided,
           [Next]_vars
    PROVE  LateUndecided'
  <1>0. JournalTypeOK /\ faults' = faults
    BY SettingsStay DEF TypeOK, settings
  <1>1. ASSUME NEW k \in Last("failed")', ToolOf(k)' \in Unobservable
        PROVE  ToolOf(k)' \notin faults'.late_delivery_tools
    <2>1. CASE k \in Last("failed")
      BY <1>0, <1>1, <2>1 DEF LateUndecided, ToolOf
    <2>2. CASE NoResult
      BY <1>0, <2>1, <2>2, NothingTold
    <2>3. ASSUME NEW q \in Key, ResultOf(q, "ok") PROVE k \in Last("failed")
      BY <1>0, <2>3, ResultTold
    <2>4. ASSUME NEW o \in Orchestrators, RecordResult(o), k \notin Last("failed")
          PROVE  ToolOf(k)' \notin faults'.late_delivery_tools
      <3>1. PICK q \in Key, st \in {"ok", "failed"} :
               /\ orch[o].pc = "called" /\ orch[o].res = st
               /\ q[1] = orch[o].br /\ q[2] = orch[o].seq
               /\ ResultOf(q, st)
        BY <2>4, TellsOfCall
      <3>2. Last("failed")' = IF st = "failed" THEN Last("failed") \cup {q}
                                               ELSE Last("failed") \ {q}
        BY <1>0, <3>1, ResultTold
      <3>3. k = q /\ st = "failed"
        BY <2>4, <3>2
      <3>4. ToolOf(k) = ToolAt(o)
        BY <3>1, <3>3 DEF ToolOf, ToolAt
      <3> QED BY <1>0, <1>1, <3>1, <3>3, <3>4 DEF LateUndecided, Undecided, ToolOf
    <2>5. ASSUME NEW o \in Orchestrators, Ambiguous(o) PROVE k \in Last("failed")
      <3>1. /\ orch[o].br \in Nat /\ orch[o].seq \in Steps
            /\ append(StepRow(o, "RESULT", "unknown"))
        BY <2>5 DEF Ambiguous, At, TypeOK, LocalOK, Sound, Working, Local
      <3>2. PICK q \in Key : q[1] = orch[o].br /\ q[2] = orch[o].seq
        <4>1. <<orch[o].br, orch[o].seq>> \in Key
          BY <3>1 DEF Key
        <4> QED BY <4>1
      <3>3. /\ StepRow(o, "RESULT", "unknown") \in Record
            /\ StepRow(o, "RESULT", "unknown").kind = "RESULT"
            /\ StepRow(o, "RESULT", "unknown").br = q[1]
            /\ StepRow(o, "RESULT", "unknown").seq = q[2]
            /\ StepRow(o, "RESULT", "unknown").status = "unknown"
        BY <3>2, StepRowType DEF StepRow, RecordKind, ResultStatus
      <3>4. ResultOf(q, "unknown")
        BY <3>1, <3>3 DEF ResultOf
      <3>5. Last("failed")' = Last("failed") \ {q}
        BY <1>0, <3>4, ResultTold
      <3> QED BY <3>5
    <2> QED BY <2>1, <2>2, <2>3, <2>4, <2>5, Tells
  <1> QED BY <1>1, UndecidedNext DEF LateUndecided

LEMMA LateUndecidedInit == Init => LateUndecided
  BY DEF Init, JournalInit, Idle, LateUndecided, Undecided, Last, Rows

LEMMA OneEpochAlways == ASSUME NoTakeover, Apart PROVE Spec => []OneEpoch
  <1>1. TypeOK /\ LocalOK /\ Sole /\ OneEpoch /\ [Next]_vars => OneEpoch'
    BY OneEpochNext
  <1> QED BY <1>1, OneTree, OneEpochInit, PTL DEF Spec

LEMMA LateUndecidedAlways ==
    ASSUME NoTakeover, Apart, LateAnswers
    PROVE  Spec => []LateUndecided
  <1>1. /\ TypeOK /\ LocalOK /\ Sole /\ Path /\ Calm /\ Tree /\ OneEpoch
        /\ LateUndecided /\ [Next]_vars
        => LateUndecided'
    BY LateUndecidedNext
  <1> QED BY <1>1, OneEpochAlways, OneTree, LateUndecidedInit, PTL DEF Spec

\* A page that takes hold does so on a branch that is past the barrier.
LEMMA PagesClean ==
    ASSUME TypeOK, LocalOK, JournalTruthful, LedgerOK, Path, Calm, Tree, LateUndecided,
           Clean, Replays, [Next]_vars,
           NEW k \in Key, Takes(k), ToolOf(k) \in Irreversible
    PROVE  Stranded = {}
  <1>0. JournalTypeOK /\ ToolOf(k) \in Unobservable /\ ToolOf(k) \notin Pure
    BY DEF TypeOK, Irreversible, Unobservable, Pure
  <1>1. k \in Touched' /\ k \notin applied
    BY DEF Takes, Effect, Touched
  <1>2. CASE k \in Touched
    <2>1. CASE IsActive(k[1])
      BY <1>2, <2>1 DEF Clean
    <2>2. CASE ~ IsActive(k[1])
      <3>1. k \in Closed
        BY <1>2, <2>2 DEF Tree, Ground
      <3>2. ASSUME k \in Last("ok") PROVE FALSE
        <4>1. PICK r \in Rows("RESULT") : journal[r].status = "ok" /\ KeyOf(r) = k
          BY <1>0, <3>2, LastTold DEF Okay
        <4>2. Happened("effect", k)
          BY <1>0, <4>1 DEF JournalTruthful, Done
        <4> QED BY <1>1, <4>2 DEF Happened, LedgerOK, Pages, ToolOfEntry
      <3>3. k \in Last("failed")
        BY <3>1, <3>2 DEF Closed
      <3>4. k \notin LateKeys
        BY <1>0, <3>3 DEF LateUndecided, Calm
      <3>5. k \notin Last("unknown")
        BY <1>0, <3>3, LastTold
      <3> QED BY <2>2, <3>4, <3>5 DEF Takes
    <2> QED BY <2>1, <2>2
  <1>3. ASSUME NEW o \in Orchestrators, orch[o].pc \in {"call", "called", "ambiguous"},
               k = effect_key(orch[o].br, orch[o].seq)
        PROVE  Stranded = {}
    <2>1. Paging(orch[o])
      BY <1>3 DEF Paging, ToolOf, effect_key
    <2> QED BY <2>1 DEF Clean, Swept
  <1> QED BY <1>1, <1>2, <1>3, NewKey

\* Nobody is paged while a compensatable effect is in force on a dead branch: the drive
\* looks at the journal before every call that cannot be undone, the journal knows of
\* all that is in force there, and what reaches a service after its branch died is no
\* page (engine._drive_barrier, _reconcile_unknowns, services._late_delivery).
THEOREM NoBlindPageHolds ==
    ASSUME NoTakeover, Apart, UndoableInTime, SomebodyIsPaged, LateAnswers
    PROVE  Spec => NoBlindPage
  <1>1. /\ Inv /\ Path /\ Calm /\ Tree /\ Listed /\ LateUndecided
        /\ (Barrier => Clean) /\ [Next]_vars
        => [\A i \in Added("effect") :
               (Barrier /\ ToolOf(ledger'[i].key) \in Irreversible) => Stranded = {}]_vars
    <2> SUFFICES ASSUME Inv, Path, Calm, Tree, Listed, LateUndecided, Barrier, Clean,
                        [Next]_vars, NEW i \in Added("effect"),
                        ToolOf(ledger'[i].key) \in Irreversible
                 PROVE  Stranded = {}
      OBVIOUS
    <2>0. /\ TypeOK /\ LocalOK /\ JournalTruthful /\ LedgerOK /\ Replays
          /\ ledger \in Seq(Entry)
      BY DEF Inv, Barrier, Replays, TypeOK, WorldTypeOK
    <2>1. CASE Still
      BY <2>1 DEF Still, Added
    <2>2. ASSUME NEW k \in Key, Takes(k) PROVE Stranded = {}
      <3>1. PICK e \in Entry : e.key = k /\ ledger' = Append(ledger, e)
        BY <2>2 DEF Takes, Effect, Added
      <3>2. i = Len(ledger) + 1 /\ ledger'[i] = e
        BY <2>0, <3>1 DEF Added
      <3> QED BY <2>0, <2>2, <3>1, <3>2, PagesClean
    <2>3. ASSUME NEW o \in Orchestrators, NEW r \in DOMAIN journal, NEW res \in ResultStatus,
                 Undoes(o, r, res)
          PROVE  FALSE
      <3>1. PICK e \in Entry : e.kind = "compensation" /\ ledger' = Append(ledger, e)
        BY <2>3 DEF Undoes, Compensation
      <3>2. ledger'[i] = e /\ ledger'[i].kind = "effect"
        BY <2>0, <3>1 DEF Added
      <3> QED BY <3>1, <3>2
    <2> QED BY <2>0, <2>1, <2>2, <2>3, WorldMoves
  <1> QED BY <1>1, Invariance, OneList, LateUndecidedAlways, CleanAlways, PTL
          DEF Spec, NoBlindPage

------------------------------------------------------------------------------
(* Reverse order                                                           *)

\* Of one branch, the journal has the ok results in the order of the trace (an undo
\* goes by record ids, not by steps).
Ordered ==
    \A q, r \in Rows("RESULT") :
        /\ journal[q].status = "ok" /\ journal[r].status = "ok"
        /\ journal[q].br = journal[r].br /\ q < r
        => journal[q].seq <= journal[r].seq

LEMMA OrderedAfter ==
    ASSUME JournalTypeOK, Ordered, NEW k \in Key, ResultOf(k, "ok"),
           \A j \in Okay : j[1] = k[1] => j[2] <= k[2]
    PROVE  Ordered'
  <1>1. PICK rec \in Record : /\ append(rec) /\ rec.kind = "RESULT"
                              /\ rec.br = k[1] /\ rec.seq = k[2] /\ rec.status = "ok"
    BY DEF ResultOf
  <1>2. PICK n \in Nat : /\ \A q \in DOMAIN journal : /\ journal'[q] = journal[q]
                                                      /\ q < n /\ q \in Nat
                         /\ DOMAIN journal' = DOMAIN journal \cup {n} /\ journal'[n] = rec
    <2>1. Len(journal) + 1 \in Nat
      BY DEF JournalTypeOK
    <2> QED BY <1>1, <2>1 DEF append, JournalTypeOK
  <1>3. ASSUME NEW q \in Rows("RESULT"), journal[q].status = "ok", journal[q].br = k[1]
        PROVE  journal[q].seq <= k[2]
    <2>1. PICK j : j = KeyOf(q)
      OBVIOUS
    <2>2. j \in Okay /\ j[1] = journal[q].br /\ j[2] = journal[q].seq
      BY <1>3, <2>1 DEF Okay, KeyOf, effect_key
    <2> QED BY <1>3, <2>2
  <1>4. k[2] \in Nat
    BY DEF Key, Steps
  <1> SUFFICES ASSUME NEW q \in Rows("RESULT")', NEW r \in Rows("RESULT")',
                      journal'[q].status = "ok", journal'[r].status = "ok",
                      journal'[q].br = journal'[r].br, q < r
               PROVE  journal'[q].seq <= journal'[r].seq
    BY DEF Ordered
  <1>5. q \in DOMAIN journal \cup {n} /\ r \in DOMAIN journal \cup {n}
    BY <1>2 DEF Rows
  <1>6. q \in DOMAIN journal
    BY <1>2, <1>5
  <1>7. q \in Rows("RESULT") /\ journal'[q] = journal[q]
    BY <1>2, <1>6 DEF Rows
  <1>8. CASE r = n
    <2>1. journal'[r].br = k[1] /\ journal'[r].seq = k[2]
      BY <1>1, <1>2, <1>8
    <2> QED BY <1>3, <1>7, <2>1
  <1>9. CASE r \in DOMAIN journal
    <2>1. r \in Rows("RESULT") /\ journal'[r] = journal[r]
      BY <1>2, <1>9 DEF Rows
    <2> QED BY <1>7, <2>1 DEF Ordered
  <1> QED BY <1>5, <1>8, <1>9

\* A row that is no ok result leaves the others in their order.
LEMMA OrderedKept ==
    ASSUME JournalTypeOK, Ordered,
           \/ NoResult
           \/ \E rec \in Record : append(rec) /\ rec.status # "ok"
    PROVE  Ordered'
  <1>1. CASE UNCHANGED journal
    BY <1>1 DEF Ordered, Rows
  <1>2. CASE \E rec \in Record : append(rec) /\ (rec.kind # "RESULT" \/ rec.status # "ok")
    <2>1. PICK rec \in Record : append(rec) /\ (rec.kind # "RESULT" \/ rec.status # "ok")
      BY <1>2
    <2>2. PICK n : /\ \A q \in DOMAIN journal : journal'[q] = journal[q]
                   /\ DOMAIN journal' = DOMAIN journal \cup {n} /\ journal'[n] = rec
      <3>1. /\ \A q \in DOMAIN journal : journal'[q] = journal[q]
            /\ DOMAIN journal' = DOMAIN journal \cup {Len(journal) + 1}
            /\ journal'[Len(journal) + 1] = rec
        BY <2>1 DEF append, JournalTypeOK
      <3> QED BY <3>1
    <2>3. ASSUME NEW q \in Rows("RESULT")', journal'[q].status = "ok"
          PROVE  q \in Rows("RESULT") /\ journal'[q] = journal[q]
      BY <2>1, <2>2, <2>3 DEF Rows
    <2> QED BY <2>3 DEF Ordered
  <1> QED BY <1>1, <1>2 DEF NoResult

LEMMA OrderedNext ==
    ASSUME TypeOK, LocalOK, Path, Tree, Replays => Ordered, [Next]_vars
    PROVE  Replays' => Ordered'
  <1> SUFFICES ASSUME Replays' PROVE Ordered'
    OBVIOUS
  <1>0. JournalTypeOK /\ Ground /\ Replays /\ Ordered
    BY SettingsStay DEF TypeOK, Tree, settings, Replays
  <1>1. CASE NoResult
    BY <1>0, <1>1, OrderedKept
  <1>2. ASSUME NEW k \in Key, k \in Last("unknown"), ResultOf(k, "ok") PROVE Ordered'
    <2>1. k \in Touched /\ k \notin Closed /\ k \notin Last("ok")
      BY <1>0, <1>2, LastTold DEF Touched, Closed
    <2>2. IsActive(k[1])
      BY <1>0, <2>1 DEF Ground
    <2>3. ASSUME NEW j \in Okay, j[1] = k[1] PROVE j[2] <= k[2]
      <3>1. j \in Touched /\ j \in Key
        BY <1>0, <2>3, LastTold DEF Touched, Ground
      <3>2. Behind(j)
        BY <1>0, <2>2, <2>3, <3>1 DEF Ground
      <3>3. k = <<j[1], k[2]>> /\ k[2] \in Steps /\ j[2] \in Steps
        BY <2>3, <3>1 DEF Key
      <3>4. ~ (k[2] < j[2])
        BY <2>1, <3>2, <3>3 DEF Behind
      <3> QED BY <3>3, <3>4 DEF Steps
    <2> QED BY <1>0, <1>2, <2>3, OrderedAfter
  <1>3. ASSUME NEW o \in Orchestrators, RecordResult(o) PROVE Ordered'
    <2>1. PICK k \in Key, st \in {"ok", "failed"} :
             /\ orch[o].pc = "called" /\ orch[o].res = st
             /\ k[1] = orch[o].br /\ k[2] = orch[o].seq
             /\ ResultOf(k, st)
      BY <1>3, TellsOfCall
    <2>2. CASE st = "failed"
      BY <1>0, <2>1, <2>2, OrderedKept DEF ResultOf
    <2>3. CASE st = "ok"
      <3>1. /\ IsActive(k[1]) /\ k[2] \notin orch[o].done
            /\ \A s \in completed_results(k[1]) : s \in orch[o].done \/ s < k[2]
        BY <2>1 DEF Path, PathOK, OnPath, Working, Tree, Placed
      <3>2. ASSUME NEW j \in Okay, j[1] = k[1] PROVE j[2] <= k[2]
        <4>1. j \in Touched /\ j \in Key
          BY <1>0, <3>2, LastTold DEF Touched, Ground
        <4>2. Behind(j)
          BY <1>0, <3>1, <3>2, <4>1 DEF Ground
        <4>3. k[2] \in Steps /\ j[2] \in Steps
          BY <4>1 DEF Key
        <4>4. ASSUME k[2] < j[2] PROVE FALSE
          <5>1. <<k[1], k[2]>> \in Last("ok")
            BY <3>2, <4>2, <4>3, <4>4 DEF Behind
          <5>2. k[2] \in completed_results(k[1])
            BY <4>3, <5>1, CompletedIs
          <5> QED BY <3>1, <4>3, <5>2 DEF Steps
        <4> QED BY <4>3, <4>4 DEF Steps
      <3> QED BY <1>0, <2>1, <2>3, <3>2, OrderedAfter
    <2> QED BY <2>2, <2>3
  <1>4. ASSUME NEW o \in Orchestrators, Ambiguous(o) PROVE Ordered'
    <2>1. /\ append(StepRow(o, "RESULT", "unknown"))
          /\ StepRow(o, "RESULT", "unknown").status = "unknown"
      BY <1>4 DEF Ambiguous, StepRow
    <2>2. StepRow(o, "RESULT", "unknown") \in Record
      <3>1. /\ orch[o].br \in Nat /\ orch[o].seq \in Steps
        BY <1>4 DEF Ambiguous, At, TypeOK, LocalOK, Sound, Working, Local
      <3> QED BY <3>1, StepRowType DEF RecordKind, ResultStatus
    <2> QED BY <1>0, <2>1, <2>2, OrderedKept
  <1> QED BY <1>1, <1>2, <1>3, <1>4, Tells

LEMMA DrainBy ==
    ASSUME TypeOK, NEW o \in Orchestrators, Run(o) \/ Crash(o), orch'[o].pc = "drain"
    PROVE  Block(o) \/ CompResult(o)
  <1>1. ~ (\/ SelectActive(o) \/ SelectFresh(o) \/ RecordFork(o) \/ ForkNaive(o)
           \/ Replay(o) \/ SelectNaive(o) \/ Abandon(o) \/ AbandonWithResidue(o)
           \/ RecordAbandoned(o) \/ Fork(o) \/ RecordResult(o))
    BY OtherMoves
  <1>2. ~ (\/ Start(o) \/ NotLeader(o) \/ Ack(o) \/ Crash(o) \/ ReplayFailed(o)
           \/ Complete(o) \/ Escalate(o) \/ Pass(o) \/ Release(o) \/ Intent(o) \/ Execute(o)
           \/ Suppress(o) \/ Probe(o) \/ Ambiguous(o) \/ GiveUp(o) \/ Drained(o)
           \/ Graduated(o) \/ Graduate(o) \/ BeginPass(o) \/ CompIntent(o) \/ Undo(o)
           \/ Revisit(o))
    BY StepsTo
  <1> QED BY <1>1, <1>2 DEF Run, Lead, Walk, Settle, Drain, Finish

\* The undo of a step can only fail where no compensatable step comes before it: compfail
\* of scenarios.py takes down the ticket service.  A rejected undo does not stop its pass.
First(k) == \A s \in Steps : Trace[s] \in Compensatable => k[2] <= s
UndoFailsFirst ==
    \A c \in Scenarios, k \in Key :
        /\ ToolOf(k) \in Compensatable
        /\ ToolOf(k) \in c.faults.fail_tools \cup c.faults.fail_compensation_tools
                            \cup c.faults.unreachable
        => First(k)

\* A leader that undoes has on its list whatever is stranded, but for what comes first
\* on its branch, and what it is about to report is undone, or comes first.
Facing(l) ==
    /\ l.pc \in Undoing \cup {"drain"} => Barrier
    /\ l.pc \in Undoing => \A k \in Stranded : First(k) \/ \E r \in l.todo : KeyOf(r) = k
    /\ l.pc = "undone" =>
          \A r \in l.todo : Latest(l, r) => First(KeyOf(r)) \/ KeyOf(r) \notin applied

LEMMA FacingOf ==
    ASSUME NEW o \in Orchestrators, NEW m, m = orch'[o], Facing(m)'
    PROVE  Facing(orch[o])'
  BY DEF Facing, Barrier, Stranded, Latest, KeyOf, IsActive, First

\* An undo that does nothing is one of a tool that fails.
LEMMA UndoFails ==
    ASSUME UndoFailsFirst, TypeOK, LocalOK, Calm, OneEpoch,
           NEW o \in Orchestrators, Undo(o), NEW r \in orch[o].todo, Latest(orch[o], r),
           KeyOf(r) \in applied'
    PROVE  First(KeyOf(r))
  <1>1. PICK q \in DOMAIN journal, res \in ResultStatus :
           /\ NextUndo(o, q)
           /\ compensate([key |-> KeyOf(q), sev |-> journal[q].sev, sup |-> 0],
                         orch[o].epoch, res)
    BY DEF Undo
  <1>2. q = r
    <2>1. q <= r /\ r <= q /\ orch[o].todo \subseteq Nat
      BY <1>1 DEF NextUndo, Latest, TypeOK, Local
    <2> QED BY <1>1, <2>1 DEF NextUndo
  <1>3. PICK k : k = KeyOf(r)
    OBVIOUS
  <1>4. k \in Key /\ ToolOf(k) \in Compensatable /\ ToolOf(k) \in Tools
    <2>1. Undoable(r) /\ journal[r] \in Record
      BY DEF LocalOK, Sound, Undoable, TypeOK, JournalTypeOK
    <2> QED BY <1>3, <2>1 DEF Undoable, KeyOf, effect_key, Key, Record, Tools
  <1>5. /\ FenceOf[ToolOf(k)] \in Fences /\ epochSeen \in [Fences -> Nat]
        /\ orch[o].epoch = lease.epoch /\ lease.epoch \in Nat
    BY <1>4 DEF Fences, TypeOK, WorldTypeOK, OneEpoch, Leading, Undo, At
  <1>6. ~ Refused(ToolOf(k), orch[o].epoch)
    BY <1>5 DEF Refused, OneEpoch
  <1>7. applied' # applied \ {k}
    BY <1>3
  <1>8. ToolOf(k) \in faults.fail_tools \cup faults.fail_compensation_tools \cup faults.unreachable
    BY <1>1, <1>2, <1>3, <1>6, <1>7 DEF compensate, TurnedAway, undo_effect, Unreachable
  <1>9. PICK c \in Scenarios : faults = c.faults
    BY DEF Calm
  <1> QED BY <1>3, <1>4, <1>8, <1>9 DEF UndoFailsFirst

LEMMA FacingKept ==
    ASSUME UndoableInTime, TypeOK, LocalOK, Path, Calm, Tree, Listed, [Next]_vars,
           \A p \in Orchestrators : ~ Abandon(p),
           NEW o \in Orchestrators, orch'[o] = orch[o], Facing(orch[o])
    PROVE  Facing(orch[o])'
  <1>0. JournalTypeOK /\ Grows /\ config' = config
    BY TypesNext, SettingsStay DEF TypeOK, settings
  <1>1. PICK m : m = orch'[o] /\ m = orch[o]
    OBVIOUS
  <1>2. CASE m.pc \notin Undoing \cup {"drain"}
    <2>1. Facing(m)'
      BY <1>2 DEF Facing, Undoing
    <2> QED BY <1>1, <2>1, FacingOf
  <1>3. CASE m.pc \in Undoing \cup {"drain"}
    <2>1. Barrier /\ Barrier' /\ Replays
      BY <1>0, <1>1, <1>3 DEF Facing, Barrier, Replays
    <2>2. Stranded' \subseteq Stranded
      BY <2>1, StrandedShrinks
    <2>3. \A r \in m.todo : KeyOf(r)' = KeyOf(r) /\ DeadKey(KeyOf(r))
      BY <1>0, <1>1, GrowthKeeps, UndoableIsDead DEF LocalOK, Sound, Undoable, KeyOf
    <2>4. ASSUME m.pc \in Undoing
          PROVE  \A k \in Stranded' : First(k) \/ \E r \in m.todo : KeyOf(r)' = k
      BY <1>1, <2>2, <2>3, <2>4 DEF Facing
    <2>5. ASSUME m.pc = "undone", NEW r \in m.todo, Latest(m, r)
          PROVE  First(KeyOf(r)') \/ KeyOf(r)' \notin applied'
      <3>1. PICK k : k = KeyOf(r)
        OBVIOUS
      <3>2. First(k) \/ k \notin applied
        BY <1>1, <2>5, <3>1 DEF Facing
      <3>3. First(k) \/ k \notin applied'
        BY <2>1, <2>3, <3>1, <3>2, GoneStays
      <3> QED BY <2>3, <3>1, <3>3
    <2>6. Facing(m)'
      BY <2>1, <2>4, <2>5 DEF Facing, Latest, First
    <2> QED BY <1>1, <2>6, FacingOf
  <1> QED BY <1>2, <1>3

\* Who moves undoes what it has on its list, or drops what comes first.
LEMMA FacingMoves ==
    ASSUME UndoFailsFirst, UndoableInTime, TypeOK, LocalOK, Path, Calm, Tree, Listed, OneEpoch,
           Barrier => Clean, [Next]_vars, \A p \in Orchestrators : ~ Abandon(p),
           NEW o \in Orchestrators, Run(o) \/ Crash(o), Facing(orch[o])
    PROVE  Facing(orch[o])'
  <1>0. /\ JournalTypeOK /\ Grows /\ Ground /\ orch[o] \in Local
        /\ orch \in [Orchestrators -> Local] /\ (Barrier => Barrier')
    <2>1. Barrier => Barrier'
      BY SettingsStay DEF settings, Barrier
    <2> QED BY <2>1, TypesNext DEF TypeOK, Tree
  <1>1. PICK m : m = orch'[o]
    OBVIOUS
  <1>2. CASE m.pc \notin Undoing \cup {"drain"}
    <2>1. Facing(m)'
      BY <1>2 DEF Facing, Undoing
    <2> QED BY <1>1, <2>1, FacingOf
  <1>3. CASE m.pc = "drain"
    <2>1. CASE Block(o)
      <3>1. Barrier
        BY <2>1 DEF Block, Gated
      <3>2. Facing(m)'
        BY <1>0, <1>3, <3>1 DEF Facing, Undoing, Barrier
      <3> QED BY <1>1, <3>2, FacingOf
    <2>2. CASE CompResult(o)
      <3>1. Barrier
        BY <2>2, CompResultDoes DEF Facing, Undoing
      <3>2. Facing(m)'
        BY <1>0, <1>3, <3>1 DEF Facing, Undoing, Barrier
      <3> QED BY <1>1, <3>2, FacingOf
    <2> QED BY <1>1, <1>3, <2>1, <2>2, DrainBy
  <1>4. CASE m.pc \in Undoing
    <2>1. BeginPass(o) \/ CompIntent(o) \/ Undo(o) \/ CompResult(o)
      BY <1>1, <1>4, OffList DEF Listed, OnList
    <2>2. orch[o].pc \in Undoing \cup {"drain"}
      <3>1. BeginPass(o) \/ CompIntent(o) => orch[o].pc \in {"drain", "comp"}
        BY DEF BeginPass, CompIntent, At
      <3>2. Undo(o) => orch[o].pc = "undo"
        BY DEF Undo, At
      <3>3. CompResult(o) => orch[o].pc = "undone"
        BY DEF CompResult, At
      <3> QED BY <2>1, <3>1, <3>2, <3>3 DEF Undoing
    <2>3. Barrier /\ Barrier' /\ Replays /\ Clean
      BY <1>0, <2>2 DEF Facing, Barrier, Replays
    <2>4. Stranded' \subseteq Stranded
      BY <2>3, StrandedShrinks
    <2>5. \A r \in orch[o].todo : KeyOf(r)' = KeyOf(r)
      BY <1>0, GrowthKeeps DEF LocalOK, Sound, Undoable, KeyOf
    <2>6. CASE BeginPass(o)
      <3>1. m.pc = "comp" /\ m.todo = uncompensated /\ UNCHANGED journal
        BY <1>0, <1>1, <2>6 DEF BeginPass, Local, ReadOnly, journalVars
      <3>2. Stranded \subseteq Owed
        BY <1>0, <2>3, StrandedIsOwed
      <3>3. \A k \in Stranded' : \E r \in m.todo : KeyOf(r)' = k
        BY <2>4, <3>1, <3>2 DEF Owed, KeyOf
      <3>4. Facing(m)'
        BY <2>3, <3>1, <3>3 DEF Facing
      <3> QED BY <1>1, <3>4, FacingOf
    <2>7. CASE CompIntent(o)
      <3>1. m.pc = "undo" /\ m.todo = orch[o].todo /\ orch[o].pc = "comp"
        BY <1>0, <1>1, <2>7 DEF CompIntent, Goto, At, Local
      <3>2. \A k \in Stranded' : First(k) \/ \E r \in m.todo : KeyOf(r)' = k
        BY <2>4, <2>5, <3>1 DEF Facing, Undoing
      <3>3. Facing(m)'
        BY <2>3, <3>1, <3>2 DEF Facing, First
      <3> QED BY <1>1, <3>3, FacingOf
    <2>8. CASE Undo(o)
      <3>1. m.pc = "undone" /\ m.todo = orch[o].todo /\ orch[o].pc = "undo"
        BY <1>0, <1>1, <2>8 DEF Undo, At, Local
      <3>2. \A k \in Stranded' : First(k) \/ \E r \in m.todo : KeyOf(r)' = k
        BY <2>4, <2>5, <3>1 DEF Facing, Undoing
      <3>3. ASSUME NEW r \in m.todo, Latest(m, r)
            PROVE  First(KeyOf(r)') \/ KeyOf(r)' \notin applied'
        <4>1. Latest(orch[o], r)
          BY <3>1, <3>3 DEF Latest
        <4>2. First(KeyOf(r)) \/ KeyOf(r) \notin applied'
          BY <2>8, <3>1, <4>1, UndoFails
        <4> QED BY <2>5, <3>1, <4>2
      <3>4. Facing(m)'
        BY <2>3, <3>2, <3>3 DEF Facing, Latest, First
      <3> QED BY <1>1, <3>4, FacingOf
    <2>9. CASE CompResult(o)
      <3>1. PICK r \in orch[o].todo :
               /\ Latest(orch[o], r) /\ orch[o].pc = "undone"
               /\ m.todo = orch[o].todo \ {r} /\ m.pc \in {"drain", "comp"}
        BY <1>1, <2>9, CompResultDoes
      <3>2. ASSUME NEW k \in Stranded', ~ First(k) PROVE \E q \in m.todo : KeyOf(q)' = k
        <4>1. k \in Stranded /\ k \in applied
          BY <2>4, <3>2 DEF Stranded
        <4>2. PICK q \in orch[o].todo : KeyOf(q) = k
          BY <3>1, <3>2, <4>1 DEF Facing, Undoing
        <4>3. q # r
          BY <3>1, <3>2, <4>1, <4>2 DEF Facing
        <4> QED BY <2>5, <3>1, <4>2, <4>3
      <3>3. Facing(m)'
        BY <2>3, <3>1, <3>2 DEF Facing, First
      <3> QED BY <1>1, <3>3, FacingOf
    <2> QED BY <2>1, <2>6, <2>7, <2>8, <2>9
  <1> QED BY <1>2, <1>3, <1>4

LEMMA FacingNext ==
    ASSUME UndoFailsFirst, UndoableInTime, TypeOK, LocalOK, Sole, Path, Calm, Tree, Listed,
           OneEpoch, Barrier => Clean, [Next]_vars,
           \A o \in Orchestrators : Facing(orch[o])
    PROVE  \A o \in Orchestrators : Facing(orch[o])'
  <1>0. orch \in [Orchestrators -> Local]
    BY DEF TypeOK
  <1> SUFFICES ASSUME NEW o \in Orchestrators PROVE Facing(orch[o])'
    OBVIOUS
  <1>1. ASSUME NEW a \in Orchestrators, Abandon(a) PROVE Facing(orch[o])'
    <2>1. /\ orch[a].pc = "diverge" /\ orch'[a].pc = "residue"
          /\ \A p \in Orchestrators \ {a} : orch'[p] = orch[p]
      <3>1. orch'[a].pc = "residue"
        BY <1>1, OtherMoves
      <3> QED BY <1>0, <1>1, <3>1 DEF Abandon, At
    <2>2. \A p \in Orchestrators \ {a} : orch[p].pc \notin Undoing \cup {"drain"}
      <3>1. Busy(a)
        BY <2>1 DEF Busy
      <3> QED BY <3>1 DEF Sole, Busy, Undoing
    <2>3. PICK m : m = orch'[o]
      OBVIOUS
    <2>4. m.pc \notin Undoing \cup {"drain"}
      BY <2>1, <2>2, <2>3 DEF Undoing
    <2>5. Facing(m)'
      BY <2>4 DEF Facing, Undoing
    <2> QED BY <2>3, <2>5, FacingOf
  <1>2. ASSUME \A a \in Orchestrators : ~ Abandon(a) PROVE Facing(orch[o])'
    <2>1. CASE Run(o) \/ Crash(o)
      BY <1>2, <2>1, FacingMoves
    <2>2. ASSUME orch'[o] = orch[o] PROVE Facing(orch[o])'
      BY <1>2, <2>2, FacingKept
    <2>3. ASSUME NEW p \in Orchestrators \ {o}, Run(p) \/ Crash(p) PROVE orch'[o] = orch[o]
      <3>1. CASE Start(p) \/ Crash(p)
        BY <1>0, <3>1 DEF Start, Crash
      <3>2. CASE Run(p) /\ ~ Start(p)
        BY <3>2, RunMoves DEF Moved
      <3> QED BY <2>3, <3>1, <3>2
    <2>4. CASE Lapse \/ Redeliver \/ Land \/ UNCHANGED vars
      BY <2>2, <2>4 DEF Lapse, Redeliver, Land, vars, EngineVars
    <2> QED BY <2>1, <2>2, <2>3, <2>4 DEF Next
  <1> QED BY <1>1, <1>2

\* Within a branch an effect is undone only when no later one is in force: a pass takes
\* the oks it found by descending record id, results come into the journal in the order
\* of the trace, and a pass that fails to undo something has nothing earlier of that
\* branch still to come (engine.compensate_abandoned).
THEOREM UndoneInReverseHolds ==
    ASSUME NoTakeover, Apart, UndoableInTime, SomebodyIsPaged, UndoFailsFirst
    PROVE  Spec => UndoneInReverse
  <1>1. TypeOK /\ LocalOK /\ Path /\ Tree /\ (Replays => Ordered) /\ [Next]_vars
        => (Replays => Ordered)'
    BY OrderedNext
  <1>2. Init => /\ (Replays => Ordered)
                /\ \A o \in Orchestrators : Facing(orch[o])
    BY DEF Init, JournalInit, Idle, Ordered, Rows, Facing, Undoing
  <1>3. Spec => [](Replays => Ordered)
    BY <1>1, <1>2, OneTree, PTL DEF Spec
  <1>4. /\ TypeOK /\ LocalOK /\ Sole /\ Path /\ Calm /\ Tree /\ Listed /\ OneEpoch
        /\ (Barrier => Clean) /\ [Next]_vars
        /\ \A o \in Orchestrators : Facing(orch[o])
        => (\A o \in Orchestrators : Facing(orch[o]))'
    BY FacingNext
  <1>5. Spec => [](\A o \in Orchestrators : Facing(orch[o]))
    BY <1>2, <1>4, OneList, OneEpochAlways, CleanAlways, PTL DEF Spec
  <1>6. /\ TypeOK /\ LocalOK /\ Path /\ Calm /\ Tree /\ Listed /\ (Replays => Ordered)
        /\ (\A o \in Orchestrators : Facing(orch[o])) /\ [Next]_vars
        => [\A i \in Added("compensation") :
               \A k \in applied' :
                  (k[1] = ledger'[i].key[1] /\ ToolOf(k) \in Compensatable)
                     => k[2] < ledger'[i].key[2]]_vars
    <2> SUFFICES ASSUME TypeOK, LocalOK, Path, Calm, Tree, Listed, Replays => Ordered,
                        \A o \in Orchestrators : Facing(orch[o]), [Next]_vars,
                        NEW i \in Added("compensation"), NEW k \in applied',
                        k[1] = ledger'[i].key[1], ToolOf(k) \in Compensatable
                 PROVE  k[2] < ledger'[i].key[2]
      OBVIOUS
    <2>0. ledger \in Seq(Entry) /\ JournalTypeOK
      BY DEF TypeOK, WorldTypeOK
    <2>1. ~ Still
      BY DEF Still, Added
    <2>2. ASSUME NEW j \in Key, Takes(j) PROVE FALSE
      <3>1. UNCHANGED ledger \/ \E e \in Entry : e.kind = "effect" /\ ledger' = Append(ledger, e)
        BY <2>2 DEF Takes, Effect
      <3>2. UNCHANGED ledger \/ ledger'[i].kind = "effect"
        BY <2>0, <3>1 DEF Added
      <3> QED BY <3>2 DEF Added
    <2>3. ASSUME NEW o \in Orchestrators, NEW r \in DOMAIN journal, NEW res \in ResultStatus,
                 Undoes(o, r, res)
          PROVE  k[2] < ledger'[i].key[2]
      <3>1. PICK c \in Key : c = KeyOf(r)
        BY <2>3 DEF Undoes
      <3>2. ledger'[i].key = c
        <4>1. PICK e \in Entry : e.key = c /\ ledger' = Append(ledger, e)
          BY <2>3, <3>1 DEF Undoes, Compensation, Added
        <4> QED BY <2>0, <4>1 DEF Added
      <3>3. applied' = applied \ {c} /\ DeadKey(c)
        BY <2>3, <3>1 DEF Undoes, Compensation
      <3>4. k \in applied /\ k # c /\ k[1] = c[1]
        BY <3>2, <3>3
      <3>5. k \in Key
        BY <3>4 DEF TypeOK, WorldTypeOK
      <3>6. k[2] # c[2] /\ k[2] \in Nat /\ c[2] \in Nat /\ c[2] \in Steps
        BY <3>4, <3>5 DEF Key, Steps
      <3>7. k \in Stranded
        BY <3>3, <3>4 DEF Stranded, DeadKey
      <3>8. Undoable(r) /\ orch[o].pc = "undo" /\ r \in orch[o].todo /\ Latest(orch[o], r)
        BY <2>3 DEF Undoes, LocalOK, Sound
      <3>9. CASE First(k)
        <4>1. Trace[c[2]] \in Compensatable
          BY <3>1, <3>8 DEF Undoable, ToolOf
        <4> QED BY <3>2, <3>6, <3>9, <4>1 DEF First
      <3>10. ASSUME NEW q \in orch[o].todo, KeyOf(q) = k PROVE k[2] < ledger'[i].key[2]
        <4>1. /\ q \in Rows("RESULT") /\ r \in Rows("RESULT")
              /\ journal[q].status = "ok" /\ journal[r].status = "ok"
          BY <3>8 DEF Listed, OnList
        <4>2. /\ journal[q].br = k[1] /\ journal[q].seq = k[2]
              /\ journal[r].br = c[1] /\ journal[r].seq = c[2]
          BY <3>1, <3>10 DEF KeyOf, effect_key
        <4>3. q < r
          <5>1. q <= r /\ q # r
            BY <3>1, <3>4, <3>8, <3>10 DEF Latest
          <5>2. q \in Nat /\ r \in Nat
            BY <2>0, <4>1 DEF Rows, JournalTypeOK
          <5> QED BY <5>1, <5>2
        <4>4. Ordered
          BY <3>8 DEF Facing, Undoing, Barrier, Replays
        <4>5. k[2] <= c[2]
          BY <3>4, <4>1, <4>2, <4>3, <4>4 DEF Ordered
        <4> QED BY <3>2, <3>6, <4>5
      <3> QED BY <3>7, <3>8, <3>9, <3>10 DEF Facing, Undoing
    <2> QED BY <2>1, <2>2, <2>3, WorldMoves
  <1> QED BY <1>3, <1>5, <1>6, Invariance, OneList, PTL DEF Spec, UndoneInReverse
=============================================================================
