----------------------------- MODULE Oversight -----------------------------
(***************************************************************************)
(* What people are told: the verdict of the EEO checker at the end of a    *)
(* run (palimpsest/checker.py, called by run_orchestrator.handle), the     *)
(* gate, scoreboard, tree and phones of the dashboard (palimpsest/view.py) *)
(* and the post-mortem (palimpsest/audit.py).  All are computed here as    *)
(* the code computes them, to be compared with what is the case.           *)
(***************************************************************************)
EXTENDS ExactlyOnce, Integers

------------------------------------------------------------------------------
(* The checker                                                             *)

\* An annotation names a rota, and so a severity; an earlier page went there.
_clause_1_no_duplication ==
    /\ \A i, j \in Entries("effect") : ledger[i].key = ledger[j].key => i = j
    /\ \A j \in Pages :
          (\E i \in Pages : i < j) =>
             /\ ledger[j].sup # 0
             /\ \E i \in Pages : i < j /\ ledger[i].sev = journal[ledger[j].sup].sev

\* The outcome of a run is completed when it walked to the end of the trace.
Completed(o) == At(o, "returned") /\ orch[o].seq > Len(Trace)

_clause_2_no_loss(o) == Pages # {} \/ Completed(o) \/ Rows("ESCALATED") # {}

\* The last ok result of a key, and the ok undos.
origin(k, r) ==
    LET ok == {q \in Rows("RESULT") : KeyOf(q) = k /\ journal[q].status = "ok"}
    IN  r \in ok /\ \A q \in ok : q <= r
Undone == {r \in Rows("COMP_RESULT") : journal[r].status = "ok"}

\* The pass, on one branch, that an undo belongs to.
SamePass(q, r) == /\ journal[q].br = journal[r].br
                  /\ journal[q].attempt = journal[r].attempt

\* Where nothing was escalated nothing is looked for.
Bug_clause_3_escalated_only == Rows("ESCALATED") # {} => Owed \subseteq EscalatedKeys

\* The order of the undos is compared the wrong way round.
Bug_clause_3_forward ==
    /\ Owed \subseteq EscalatedKeys
    /\ \A q, r \in Undone : (q < r /\ SamePass(q, r)) =>
          \E a, b \in DOMAIN journal :
              origin(KeyOf(q), a) /\ origin(KeyOf(r), b) /\ a < b

\* What is still owed is named by an escalation, no undo concerns a live
\* branch, and within one pass later effects were undone before earlier ones.
_clause_3_clean_abandonment ==
    /\ Owed \subseteq EscalatedKeys
    /\ \A r \in Undone : \A a \in DOMAIN journal :
          origin(KeyOf(r), a) => ~ IsActive(journal[a].br)
    /\ \A q, r \in Undone : (q < r /\ SamePass(q, r)) =>
          \E a, b \in DOMAIN journal :
              origin(KeyOf(q), a) /\ origin(KeyOf(r), b) /\ a > b

\* Slots of pages of which the last thing said is that nobody knows.
unknown_now ==
    LET said == Rows("RESULT") \cup Rows("LATE_DELIVERY_SUPPRESSED")
    IN  {KeyOf(r) : r \in {q \in Rows("RESULT") :
            /\ ToolOf(KeyOf(q)) \in Irreversible \cap Unobservable
            /\ journal[q].status = "unknown"
            /\ \A p \in said : KeyOf(p) = KeyOf(q) => p <= q}}

_bounded_ambiguity ==
    /\ Cardinality(unknown_now) <= 1
    /\ unknown_now # {} => Rows("ESCALATED") \cup Rows("LATE_DELIVERY_SUPPRESSED") # {}

check_eeo(o) == /\ _clause_1_no_duplication
                /\ _clause_2_no_loss(o)
                /\ _clause_3_clean_abandonment
                /\ _bounded_ambiguity

------------------------------------------------------------------------------
(* What is the case                                                        *)

\* Undos of one branch went backwards in the world, retries included.
UndosOrdered ==
    \A i, j \in Entries("compensation") :
        (i < j /\ ledger[i].key[1] = ledger[j].key[1])
            => ledger[i].key[2] >= ledger[j].key[2]

WorldInOrder == /\ EffectOnce /\ PagesExplained
                /\ Settled
                /\ Stranded \subseteq EscalatedKeys /\ UndosOrdered
                /\ Cardinality(UnknownPages) <= 1

\* A verdict of PASS is true: when a run ends and the checker is content, the
\* world and the ledger are as the clauses say, whatever the journal believes.
PassIsTrue == \A o \in Orchestrators : (At(o, "returned") /\ check_eeo(o)) => WorldInOrder

\* No false alarm: a verdict of FAIL has a reason in the world.
FailIsTrue == \A o \in Orchestrators : (At(o, "returned") /\ ~ check_eeo(o)) => ~ WorldInOrder

------------------------------------------------------------------------------
(* The gate of the dashboard                                               *)

GateRows == Rows("BARRIER_BLOCKED") \cup Rows("BARRIER_RELEASED") \cup Rows("ESCALATED")

\* The gate is closed by record r.
blocked(r) == journal[r].kind = "BARRIER_BLOCKED" /\ \A q \in GateRows : q <= r

\* Every undo that is tried counts.
Bug_attempted(r) == {q \in Rows("COMP_RESULT") : q > r}

\* The undos that count down what record r said.
undone_since(r) == {q \in Undone : q > r}

\* barrier_state: what was owed when the gate closed, less what was undone since.
count(r) == LET owed == Cardinality(journal[r].keys)
                done == Cardinality(undone_since(r))
            IN  IF done < owed THEN owed - done ELSE 0

\* While the gate is closed it shows as many effects as are really owed.
GateTrue == \A r \in Rows("BARRIER_BLOCKED") : blocked(r) => count(r) = Cardinality(Owed)

------------------------------------------------------------------------------
(* The scoreboard, the branch tree, the phones and the post-mortem         *)

Effectful(k) == ToolOf(k) \notin Pure
Standing == {k \in applied : Effectful(k)}

\* scoreboard: the keys with an ok result, less those with an ok undo.
net == {KeyOf(r) : r \in {q \in Rows("RESULT") :
            /\ journal[q].status = "ok" /\ Effectful(KeyOf(q))}} \ compensations

\* The latest result of each step; seen from the key, since a step of a branch has one.
_latest_results ==
    LET results == Rows("RESULT")
    IN  {r \in results : \A q \in results : KeyOf(q) = KeyOf(r) => q <= r}

\* branch_view: the steps that the tree shows as ok, failed or unknown; an undone one
\* is shown as compensated.
shown(status) ==
    {KeyOf(r) : r \in {q \in _latest_results : journal[q].status = status}} \ compensations

\* phones: the first ok result of each page.
phones ==
    LET rang == {r \in Rows("RESULT") : /\ ToolOf(KeyOf(r)) = "page_oncall"
                                        /\ journal[r].status = "ok"}
    IN  {r \in rang : \A q \in rang : KeyOf(q) = KeyOf(r) => r <= q}

\* The pages on the scoreboard, and how many of a tool it shows.
board(tool) == {k \in net : ToolOf(k) = tool}

\* The incident timer runs until somebody was paged or told (derive_state).
running == board("page_oncall") = {} /\ Rows("ESCALATED") = {}

\* The phones that rang after another, and do not say why.
unexplained == {r \in phones : journal[r].sup = 0 /\ \E q \in phones : q < r}

\* verdictLine of the page: what a pane says in one line.
verdictLine ==
    LET paged  == board("page_oncall") # {}
        untidy == \E tool \in {"create_ticket", "post_to_channel"} :
                      Cardinality(board(tool)) > 1
    IN  CASE ~ paged -> IF Rows("ESCALATED") # {} THEN "escalated" ELSE "livelocked"
          [] paged /\ unexplained # {} -> "duplicate page"
          [] paged /\ unexplained = {} /\ untidy -> "duplicate effects"
          [] OTHER -> IF residue # {} THEN "superseded" ELSE "cleaned up"

\* _branch_severity: the last fork or classification of the branch.
_branch_severity(b, sev) ==
    LET told == {r \in Rows("BRANCH_FORKED") \cup Rows("RESULT") :
                    /\ journal[r].br = b /\ journal[r].sev # NoSeverity
                    /\ journal[r].kind = "RESULT" => ToolOf(KeyOf(r)) = "classify"}
    IN  \E r \in told : sev = journal[r].sev /\ \A q \in told : q <= r

\* What a post-mortem lists as left over: its sections on residue, on what is still
\* uncompensated, and on escalations.
post_mortem == {KeyOf(r) : r \in residue \cup uncompensated} \cup EscalatedKeys

\* The effects of the steps that the tree shows as ok.
Shown == {k \in shown("ok") : Effectful(k)}

\* The scoreboard counts the steps that the tree shows as ok, although one asks for
\* any ok result of a key and the other for the latest result of a step.
BoardAgrees == net = Shown

\* At rest the tree is right about the world: a step it shows as ok is in force or
\* named by an escalation (an undo whose reply was lost), and nothing is in force
\* at a step that has no result, a failed one, or an undone one.
TreeTrue == acked => /\ Shown \subseteq Standing \cup EscalatedKeys
                     /\ Standing \subseteq Shown \cup shown("unknown")

\* A page the dashboard rings rang like that: on the rota of the severity and with
\* the annotation of its result, under the classification its branch is shown with,
\* although that result may come from a later process that found the page done.
PhonesTrue ==
    \A r \in phones :
        /\ \E i \in Pages : /\ ledger[i].key = KeyOf(r)
                            /\ ledger[i].sev = journal[r].sev
                            /\ ledger[i].sup = journal[r].sup
        /\ _branch_severity(journal[r].br, journal[r].sev)

\* "Never silently, never still running" (README): when an alert is acknowledged its
\* incident timer has stopped, whoever died with the page or the escalation in hand.
\* Pinned replay gives up on a livelock, and is excepted.
TimerStops == (acked /\ Diverges) => ~ running

\* At rest the line above a pane is true of the world: "cleaned up" means that one page
\* went out and nothing is in force on a dead branch, "superseded" that the pages but
\* the first name an earlier one, "livelocked" that nobody was paged.
HeadlineTrue ==
    acked => CASE verdictLine = "cleaned up" -> Cardinality(Pages) = 1 /\ Stranded = {}
               [] verdictLine = "superseded" -> PagesExplained
               [] verdictLine = "livelocked" -> Pages = {}
               [] verdictLine = "duplicate page" -> ~ PagesExplained
               [] OTHER -> TRUE

\* A pane is true all the time: its scoreboard agrees with its tree, its phones with the
\* rota, its timer has stopped and its headline is right when the alert is at rest.
PaneTrue == BoardAgrees /\ PhonesTrue /\ TimerStops /\ HeadlineTrue

\* At rest, whatever a dead branch left in force, pages included, is listed by the
\* post-mortem, which reads nothing but statuses and results.
AuditTellsAll ==
    acked => \A k \in applied :
        (ToolOf(k) \in Compensatable \cup Irreversible /\ ~ IsActive(k[1]))
            => k \in post_mortem

\* What is shown of what is owed is right: by the gate while it is closed, by the tree
\* and by the post-mortem when the alert is at rest.
BoardsTrue == GateTrue /\ TreeTrue /\ AuditTellsAll
=============================================================================
