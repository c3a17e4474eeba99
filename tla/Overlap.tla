------------------------------ MODULE Overlap ------------------------------
(***************************************************************************)
(* Leaders whose calls overlap in the services.  A service asks its fence, *)
(* looks the key up and lets the request in; the effect comes a latency    *)
(* later, under another lock (palimpsest/world.py, InProcessWorld.execute  *)
(* and .compensate, run by the threads of palimpsest/services.py).  In     *)
(* between anything may happen: the lease lapses, a successor is let in    *)
(* under a higher epoch and for the same key, the caller is killed or      *)
(* stops waiting.  What a request does at its end does not depend on it.   *)
(*                                                                         *)
(* The processes are those of Orchestrator, one step of theirs for one     *)
(* here, except that a call may take its two moments in two steps.  The    *)
(* reconciler, which calls while the workflow rests, is left out.          *)
(***************************************************************************)
EXTENDS ExactlyOnce

CONSTANTS
    Threads,     \* the services' threads: requests at work at one time
    MaxLeave     \* how many leaders stop waiting for an answer

VARIABLES
    atWork,      \* the requests that were let in and are not finished
    impatient    \* the epochs of the leaders that stopped waiting for one

overlapVars == << vars, atWork, impatient >>

\* by is the process that waits for the answer, NoOwner when nobody does.
Work == [thread : Threads, by : Orchestrators \cup {NoOwner},
         op : {"execute", "compensate"}, req : Request, epoch : Nat]

ASSUME OverlapAssumption == Threads \subseteq Nat /\ MaxLeave \in Nat

OverlapInit == Init /\ atWork = {} /\ impatient = {}

Waiting(o) == \E w \in atWork : w.by = o

------------------------------------------------------------------------------
(* The first moment                                                        *)

NextThread(t) == /\ t \in Threads
                 /\ \A w \in atWork : w.thread # t
                 /\ \A u \in Threads : u < t => \E w \in atWork : w.thread = u

\* The request joins those at work; its caller waits.
Joins(o, op, req) ==
    /\ ~ Waiting(o)
    /\ \E t \in Threads :
           /\ NextThread(t)
           /\ atWork' = atWork \cup {[thread |-> t, by |-> o, op |-> op, req |-> req,
                                      epoch |-> orch[o].epoch]}
    /\ UNCHANGED << applied, ledger, late, journalVars, EngineVars, orch, impatient >>

LetIn(o) ==
    /\ At(o, "call")
    /\ let_in(Call(o), orch[o].epoch)
    /\ Joins(o, "execute", Call(o))

UndoRequest(r) == [key |-> KeyOf(r), sev |-> journal[r].sev, sup |-> 0]

LetInUndo(o) ==
    /\ At(o, "undo")
    /\ \E r \in DOMAIN journal :
           /\ NextUndo(o, r)
           /\ _fence(ToolOf(KeyOf(r)), orch[o].epoch)
           /\ Joins(o, "compensate", UndoRequest(r))

------------------------------------------------------------------------------
(* The second moment                                                       *)

\* The key is looked up a moment after the fence: it may be held by now.
Found(w, res) ==
    /\ w.op = "execute" /\ w.req.key \in applied
    /\ Reply(ToolOf(w.req.key), "ok", res)
    /\ UNCHANGED << applied, ledger, late >>

Performs(w, res) ==
    /\ \/ w.op = "execute"    /\ take_effect(w.req, w.epoch, res)
       \/ w.op = "compensate" /\ undo_effect(w.req, w.epoch, res)
       \/ Found(w, res)
    /\ atWork' = atWork \ {w}
    /\ UNCHANGED epochSeen

\* The caller goes on with this result.
Hears(o, op, res) ==
    orch' = [orch EXCEPT ![o] =
        [@ EXCEPT !.pc = IF op = "execute" THEN "called" ELSE "undone", !.res = res]]

Answered(w) ==
    /\ w.by \in Orchestrators
    /\ \E res \in ResultStatus : Performs(w, res) /\ Hears(w.by, w.op, res)
    /\ CallsWorld /\ UNCHANGED impatient

\* A request that nobody waits for ends all the same.
Stray(w) ==
    /\ w.by = NoOwner
    /\ \E res \in ResultStatus : Performs(w, res)
    /\ CallsWorld /\ UNCHANGED << orch, impatient >>

Orphaned(o) == {IF w.by = o THEN [w EXCEPT !.by = NoOwner] ELSE w : w \in atWork}

\* The read timeout, or a lost connection: to the caller the call is unknown.
Leave(w) ==
    /\ w.by \in Orchestrators
    /\ impatient' = impatient \cup {w.epoch}
    /\ Cardinality(impatient') <= MaxLeave
    /\ Hears(w.by, w.op, "unknown")
    /\ atWork' = Orphaned(w.by)
    /\ UNCHANGED worldVars /\ CallsWorld

Killed(o) ==
    /\ Crash(o)
    /\ atWork' = Orphaned(o)
    /\ UNCHANGED impatient

------------------------------------------------------------------------------
Deliver(o) == Lead(o) \/ Walk(o) \/ Settle(o) \/ Drain(o) \/ Finish(o)

OverlapNext ==
    \/ \E o \in Orchestrators : LetIn(o) \/ LetInUndo(o) \/ Killed(o)
    \/ \E w \in atWork : Answered(w) \/ Stray(w) \/ Leave(w)
    \/ /\ \/ \E o \in Orchestrators : ~ Waiting(o) /\ Deliver(o)
          \/ Lapse \/ Redeliver \/ Land
       /\ UNCHANGED << atWork, impatient >>

OverlapSpec == OverlapInit /\ [][OverlapNext]_overlapVars

------------------------------------------------------------------------------
(* What holds of the world when leaders overlap                            *)

\* This entry was made after the same fence had served a later leader.  Late
\* deliveries, which pass no fence, have no epoch.
Overtaken(j) ==
    /\ ledger[j].epoch # 0
    /\ \E i \in DOMAIN ledger :
          /\ i < j /\ ledger[i].epoch > ledger[j].epoch
          /\ FenceOf[ToolOfEntry(i)] = FenceOf[ToolOfEntry(j)]

\* The fence does not stop what it let in before, but it stops the rest: once a
\* service has served a leader, an earlier one changes the world behind that
\* fence at most once more, by the request it was waiting for.  One that had
\* stopped waiting may have more than one at work.
DeposedOnce ==
    \A i, j \in DOMAIN ledger :
        (/\ Overtaken(i) /\ Overtaken(j)
         /\ ledger[i].epoch = ledger[j].epoch /\ ledger[i].epoch \notin impatient
         /\ FenceOf[ToolOfEntry(i)] = FenceOf[ToolOfEntry(j)])
            => i = j

\* What README.md says of the effects that cannot be taken back: one page for one
\* key.  Two requests for one key that are at work together both page.
PageOnce == \A i, j \in Pages : ledger[i].key = ledger[j].key => i = j
=============================================================================
