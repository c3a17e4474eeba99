--------------------------- MODULE MCOrchestrator ---------------------------
(***************************************************************************)
(* Instances of the orchestrator for TLC: traces, topologies of fences,    *)
(* the scenarios of palimpsest/scenarios.py and the sets of points at      *)
(* which a process may die.                                                *)
(***************************************************************************)
EXTENDS Oversight, TLC

\* The decision, the two compensatable effects before the page, and the page.
CoreTrace == << "classify", "create_ticket", "post_to_channel", "page_oncall" >>

\* One compensatable effect and the page: enough for two leaders to collide.
ShortTrace == << "create_ticket", "page_oncall" >>

\* The in-process world has one fence, the services have one each.
OneFence == [t \in Tools |-> "world"]
SERVICE_FOR_TOOL ==
    [t \in Tools |-> CASE t \in {"post_to_channel", "update_status_page"} -> "channel"
                       [] t = "page_oncall" -> "pager"
                       [] OTHER -> "ticket"]

\* CRASH_PHASES: before_intent, after_intent, after_effect and after_result.
CRASH_PHASES == {"step", "call", "called", "diverge", "escalate"}
Anywhere == PC \ {"idle"}

------------------------------------------------------------------------------
Quiet == [fail_tools |-> {}, timeout_tools |-> {}, late_delivery_tools |-> {},
          lost_replies |-> {}, unreachable |-> {}, fail_compensation_tools |-> {}, empty_rotas |-> {}]
EmptyRota == [Quiet EXCEPT !.empty_rotas = {"P2"}]

\* A mode, the step after which the injected divergence comes, the faults.
Play(mode, after, f) ==
    [config |-> [mode |-> mode, diverge_after_seq |-> after], faults |-> f]

Poison      == Play("palimpsest", 0, EmptyRota)
NaivePoison == Play("naive", 0, EmptyRota)
PinPoison   == Play("pinned", 0, EmptyRota)
NobodyHome  == Play("palimpsest", 0, [Quiet EXCEPT !.empty_rotas = Severities])
Compfail(tools) ==
    Play("palimpsest", 0, [EmptyRota EXCEPT !.fail_compensation_tools = tools])
Partition(tools) == Play("palimpsest", 0, [EmptyRota EXCEPT !.fail_tools = tools])
Zombie(tools) == Play("palimpsest", 0, [Quiet EXCEPT !.timeout_tools = tools,
                                                     !.late_delivery_tools = tools])
LostReply(tools) == Play("palimpsest", 0, [EmptyRota EXCEPT !.lost_replies = tools])
Cut(tools) == Play("palimpsest", 0, [Quiet EXCEPT !.unreachable = tools])
Residue(after) == Play("palimpsest", after, Quiet)

CrashScenarios ==
    { Compfail({"create_ticket"}), NobodyHome, Zombie({"page_oncall"}), Residue(4),
      LostReply({"create_ticket", "page_oncall"}),
      Partition({"create_ticket", "page_oncall"}), Cut({"create_ticket"}),
      NaivePoison, PinPoison }

SweepScenarios ==
    { Compfail(Compensatable), NobodyHome, Residue(7), Zombie({"page_oncall"}) }

LeaderScenarios == { Residue(0) }

\* One scenario each, for the counterexamples README.md tells of.
PoisonOnly  == { Poison }
ResidueOnly == { Residue(4) }
PagerCutOff == { Cut({"page_oncall"}) }
LateTicket  == { Play("palimpsest", 0,
                      [EmptyRota EXCEPT !.timeout_tools = {"create_ticket"},
                                        !.late_delivery_tools = {"create_ticket"}]) }
NaiveQuiet  == { Play("naive", 0, Quiet) }

SymmetricOwners == Permutations(Orchestrators)
=============================================================================
