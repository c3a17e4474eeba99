------------------------------- MODULE World -------------------------------
(***************************************************************************)
(* The effect services and the ground-truth ledger (palimpsest/world.py;   *)
(* over HTTP, the same middleware order in palimpsest/services.py).  An    *)
(* operator is a call, or one of the two moments a call has, as its caller *)
(* sees it: it relates the arguments, the state of the world and the       *)
(* result the caller gets.                                                 *)
(*                                                                         *)
(* Faults come and go while a workflow runs (demos and the dashboard set   *)
(* and clear them), so a tool named by a fault set may fail at any call    *)
(* and need not fail at each.  An empty rota stays empty.                  *)
(***************************************************************************)
EXTENDS Vocabulary, Bags

CONSTANT FenceOf   \* tool -> the holder of the epoch it is fenced by

VARIABLES
    faults,         \* FaultConfig: what is going wrong
    applied,        \* the keys each service holds an effect for
    ledger,         \* the ground-truth ledger
    epochSeen,      \* fence -> highest epoch seen
    late            \* pending late deliveries

worldVars == << applied, ledger, epochSeen, late >>

Fences == {FenceOf[t] : t \in Tools}

ASSUME FenceAssumption == FenceOf \in [Tools -> Fences]

FaultConfig ==
    [fail_tools : SUBSET Tools,               \* down, or reject the request
     timeout_tools : SUBSET Tools,            \* time out before taking effect
     late_delivery_tools : SUBSET Tools,      \* ... and land later, by a timer
     lost_replies : SUBSET Tools,             \* take effect, lose the reply (HTTP)
     unreachable : SUBSET Tools,              \* refuse the connection (HTTP)
     fail_compensation_tools : SUBSET Tools,  \* the undo is rejected
     empty_rotas : SUBSET Severities]         \* the severity's rota is empty

Request == [key : Key, sev : Sev, sup : Nat]
Entry   == [kind : {"effect", "compensation"}, key : Key,
            sev : Sev, sup : Nat, epoch : Nat]

WorldTypeOK ==
    /\ faults \in FaultConfig
    /\ applied \subseteq Key
    /\ ledger \in Seq(Entry)
    /\ epochSeen \in [Fences -> Nat]
    /\ IsABag(late) /\ BagToSet(late) \subseteq Request

WorldInit == /\ applied = {}
             /\ ledger = << >>
             /\ epochSeen = [f \in Fences |-> 0]
             /\ late = EmptyBag

------------------------------------------------------------------------------
(* Operators named Bug_... are slips a rewrite of the code could make.  No  *)
(* action uses them; each stands in for the definition after it to show    *)
(* which property notices.                                                 *)

\* The fence forgets to compare.
Bug_fence_open(tool, epoch) ==
    epochSeen' = [epochSeen EXCEPT ![FenceOf[tool]] = epoch]

\* One fence per workflow and service: a lower epoch than the highest seen is
\* refused, a higher one is remembered.
_fence(tool, epoch) ==
    /\ epoch >= epochSeen[FenceOf[tool]]
    /\ epochSeen' = [epochSeen EXCEPT ![FenceOf[tool]] = epoch]

Refused(tool, epoch) == epoch < epochSeen[FenceOf[tool]]

\* What the caller sees of an answer: over HTTP the reply may be lost.
Reply(tool, answer, res) ==
    res = answer \/ (tool \in faults.lost_replies /\ res = "unknown")

\* The effect takes hold under its key.
Hold(req) == applied' = applied \cup {req.key}

\* GroundTruthLedger.record
record(kind, req, epoch) ==
    ledger' = Append(ledger, [kind |-> kind, key |-> req.key, sev |-> req.sev,
                              sup |-> req.sup, epoch |-> epoch])

NoResponder(req) == ToolOf(req.key) = "page_oncall" /\ req.sev \in faults.empty_rotas

Unreachable(tool, res) == tool \in faults.unreachable /\ res = "failed"

\* The call gets no further than the door.
TurnedAway(tool, epoch, res) ==
    Unreachable(tool, res) \/ (Refused(tool, epoch) /\ Reply(tool, "failed", res))

\* A call is served in two moments, some latency apart and under no common lock.
\* At the first the request is let in: it passes the fence, and its key is
\* looked up and not found.
let_in(req, epoch) ==
    /\ _fence(ToolOf(req.key), epoch)
    /\ req.key \notin applied

\* At the second it fails, times out or takes effect, and asks for neither fence
\* nor key again.
take_effect(req, epoch, res) ==
    LET tool == ToolOf(req.key) IN
    \/ /\ tool \in faults.fail_tools \/ NoResponder(req)
       /\ Reply(tool, "failed", res)
       /\ UNCHANGED << applied, ledger, late >>
    \/ /\ ~ NoResponder(req)
       /\ tool \in faults.timeout_tools
       /\ res = "unknown"
       /\ late' = IF tool \in faults.late_delivery_tools THEN late (+) SetToBag({req}) ELSE late
       /\ UNCHANGED << applied, ledger >>
    \/ /\ ~ NoResponder(req)
       /\ Hold(req)
       /\ IF tool \in Pure THEN UNCHANGED ledger ELSE record("effect", req, epoch)
       /\ Reply(tool, "ok", res)
       /\ UNCHANGED late

\* A call that no other comes between: its two moments are one step.  Overlap
\* takes them apart.
execute(req, epoch, res) ==
    LET tool == ToolOf(req.key) IN
    \/ TurnedAway(tool, epoch, res) /\ UNCHANGED worldVars
    \/ /\ _fence(tool, epoch)
       /\ req.key \in applied
       /\ Reply(tool, "ok", res)
       /\ UNCHANGED << applied, ledger, late >>
    \/ let_in(req, epoch) /\ take_effect(req, epoch, res)

\* A pending late delivery fires: a no-op when the key is held already.  It
\* passes no fence; epoch 0 marks its ledger entry.
land(req) ==
    /\ BagIn(req, late)
    /\ late' = late (-) SetToBag({req})
    /\ IF req.key \in applied THEN UNCHANGED << applied, ledger >>
       ELSE Hold(req) /\ record("effect", req, 0)
    /\ UNCHANGED epochSeen

\* The second moment of an undo.  The service keeps no key for the undo itself:
\* asked twice it answers ok twice and the ledger has two entries.
undo_effect(req, epoch, res) ==
    LET tool == ToolOf(req.key) IN
    \/ /\ tool \in faults.fail_tools \cup faults.fail_compensation_tools
       /\ Reply(tool, "failed", res)
       /\ UNCHANGED << applied, ledger, late >>
    \/ /\ applied' = applied \ {req.key}
       /\ record("compensation", req, epoch)
       /\ Reply(tool, "ok", res)
       /\ UNCHANGED late

\* An undo that no other call comes between.
compensate(req, epoch, res) ==
    LET tool == ToolOf(req.key) IN
    \/ TurnedAway(tool, epoch, res) /\ UNCHANGED worldVars
    \/ _fence(tool, epoch) /\ undo_effect(req, epoch, res)

\* A probe that takes silence for success.
Bug_probe_optimist(k, res) ==
    res = IF k \in applied \/ ToolOf(k) \in Unobservable THEN "done" ELSE "not_done"

\* Tools whose probe may go unanswered: a pager cannot be asked at all.
Silent == Unobservable \cup faults.fail_tools \cup faults.lost_replies \cup faults.unreachable

\* Ask whether a key took effect.
probe(k, res) ==
    \/ ToolOf(k) \in Silent /\ res = "unknown"
    \/ ToolOf(k) \notin Unobservable /\ res = IF k \in applied THEN "done" ELSE "not_done"
=============================================================================
