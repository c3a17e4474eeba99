--------------------------- MODULE LiveRunProofs ----------------------------
(***************************************************************************)
(* Any number of distributed runs, one at a time, over any services, with  *)
(* any number of leases and outages: a run whose clearing went through     *)
(* works under its own faults; where everybody answered no fence left by   *)
(* an earlier journal refuses its leader, and the oracle has all of a      *)
(* fresh run and nothing of earlier ones but pages that came late.         *)
(***************************************************************************)
EXTENDS LiveRun, SequenceTheorems, TLAPS

------------------------------------------------------------------------------
(* Types                                                                   *)

\* An orchestrator at work has a journal open.
Opened == \A r \in Runs : At(r, "work") => worker[r].file # NoFile

\* The steps of a worker that leave the journals alone.
Quiet(r) == Mark(r) \/ Reset(r) \/ ResetOracle(r) \/ SetFaults(r) \/ Wipe(r) \/ End(r)
            \/ Unmark(r) \/ \E sc \in Scenarios, fresh \in BOOLEAN : Click(r, sc, fresh)

LEMMA ServiceAt ==
    ASSUME TypeOK, NEW r \in Runs
    PROVE  /\ worker[r] \in Worker /\ worker[r].at \in DOMAIN Services
           /\ ServiceOf(r) \in Service /\ 1 \in DOMAIN Services
           /\ Len(Services) \in Nat /\ DOMAIN Services = 1 .. Len(Services)
           /\ ~ Last(r) => worker[r].at + 1 \in DOMAIN Services
<1>1. Services \in Seq({"ticket", "channel", "pager"}) /\ Services # << >>
  BY LiveRunAssumption
<1>2. Len(Services) \in Nat /\ DOMAIN Services = 1 .. Len(Services) /\ Len(Services) > 0
  BY <1>1, EmptySeq, LenProperties
<1>3. worker[r] \in Worker /\ worker[r].at \in DOMAIN Services
  BY DEF TypeOK, Worker
<1> QED BY <1>2, <1>3 DEF ServiceOf, Service, Last

\* What a quiet step does to its worker.
LEMMA QuietMoves ==
    ASSUME TypeOK, NEW r \in Runs, Quiet(r)
    PROVE  /\ worker' = [worker EXCEPT ![r] = worker'[r]]
           /\ worker'[r] \in Worker
           /\ worker'[r].pc # "work"
<1>1. worker[r] \in Worker /\ 1 \in DOMAIN Services
      /\ (~ Last(r) => worker[r].at + 1 \in DOMAIN Services)
      /\ worker \in [Runs -> Worker]
  BY ServiceAt DEF TypeOK
<1>2. ASSUME NEW pc \in Points, Goto(r, pc), pc # "work"
      PROVE  /\ worker' = [worker EXCEPT ![r] = worker'[r]]
             /\ worker'[r] \in Worker /\ worker'[r].pc # "work"
  BY <1>1, <1>2 DEF Goto, Worker
<1>3. ASSUME NEW pc \in Points, Advance(r, pc), pc # "work", ~ At(r, "work")
      PROVE  /\ worker' = [worker EXCEPT ![r] = worker'[r]]
             /\ worker'[r] \in Worker /\ worker'[r].pc # "work"
  <2>1. CASE Last(r)
    BY <1>2, <1>3, <2>1 DEF Advance
  <2>2. CASE ~ Last(r)
    <3>1. worker' = [worker EXCEPT ![r].at = @ + 1]
      BY <1>3, <2>2 DEF Advance
    <3>2. worker'[r] = [worker[r] EXCEPT !.at = worker[r].at + 1]
      BY <1>1, <3>1
    <3>3. worker'[r] \in Worker /\ worker'[r].pc = worker[r].pc
      BY <1>1, <2>2, <3>2 DEF Worker
    <3> QED BY <1>1, <1>3, <3>1, <3>2, <3>3 DEF At
  <2> QED BY <2>1, <2>2
<1>4. CASE Mark(r)
  BY <1>2, <1>4 DEF Mark, Points
<1>5. CASE Reset(r)
  BY <1>3, <1>5 DEF Reset, Points, At
<1>6. CASE ResetOracle(r)
  BY <1>2, <1>6 DEF ResetOracle, Points
<1>7. CASE SetFaults(r)
  <2>1. CASE ServiceOf(r) \in down
    BY <1>2, <1>7, <2>1 DEF SetFaults, Points
  <2>2. CASE ServiceOf(r) \notin down
    <3>1. CASE ~ Last(r)
      BY <1>3, <1>7, <2>2, <3>1 DEF SetFaults, Points, At
    <3>2. CASE Last(r)
      <4>1. worker' = [worker EXCEPT ![r] =
                          [@ EXCEPT !.pc = "wipe", !.at = 1, !.cleared = TRUE]]
        BY <1>7, <2>2, <3>2 DEF SetFaults
      <4>2. worker'[r] = [worker[r] EXCEPT !.pc = "wipe", !.at = 1, !.cleared = TRUE]
        BY <1>1, <4>1
      <4>3. worker'[r] \in Worker /\ worker'[r].pc = "wipe"
        BY <1>1, <4>2 DEF Worker, Points
      <4> QED BY <1>1, <4>1, <4>2, <4>3
    <3> QED BY <3>1, <3>2
  <2> QED BY <2>1, <2>2
<1>8. CASE Wipe(r) \/ End(r) \/ Unmark(r)
  BY <1>2, <1>8 DEF Wipe, End, Unmark, Points
<1>9. CASE \E sc \in Scenarios, fresh \in BOOLEAN : Click(r, sc, fresh)
  <2>1. PICK sc \in Scenarios, fresh \in BOOLEAN : Click(r, sc, fresh)
    BY <1>9
  <2>2. worker' = [worker EXCEPT ![r] = [@ EXCEPT !.pc = "mark", !.scenario = sc,
                                                  !.fresh = fresh]]
    BY <2>1 DEF Click
  <2>3. worker'[r] = [worker[r] EXCEPT !.pc = "mark", !.scenario = sc, !.fresh = fresh]
    BY <1>1, <2>2
  <2>4. worker'[r] \in Worker /\ worker'[r].pc = "mark"
    BY <1>1, <2>3 DEF Worker, Points
  <2> QED BY <1>1, <2>2, <2>3, <2>4
<1> QED BY <1>4, <1>5, <1>6, <1>7, <1>8, <1>9 DEF Quiet

\* What is said of one service, after a step that touches that one only.
Touched(s, fence, faults) ==
    /\ service' = [service EXCEPT ![s] = service'[s]]
    /\ service'[s] \in State
    /\ service'[s].fence = fence /\ service'[s].faults = faults
    /\ ledger' \subseteq Effect

LEMMA HoldsTouches ==
    ASSUME TypeOK, NEW s \in Service, NEW svc \in State, NEW e \in Effect, Holds(s, svc, e)
    PROVE  Touched(s, svc.fence, svc.faults)
<1>1. service \in [Service -> State] /\ ledger \subseteq Effect /\ service[s] \in State
  BY DEF TypeOK
<1>2. CASE "ledger" \in down
  <2>1. service' = [service EXCEPT ![s] =
            [svc EXCEPT !.keys = @ \cup {e}, !.buffer = @ \cup {e}]] /\ UNCHANGED ledger
    BY <1>2 DEF Holds
  <2>2. service'[s] = [svc EXCEPT !.keys = @ \cup {e}, !.buffer = @ \cup {e}]
    BY <1>1, <2>1
  <2>3. svc.keys \cup {e} \in SUBSET Effect /\ svc.buffer \cup {e} \in SUBSET Effect
    BY DEF State
  <2>4. service'[s].fence = svc.fence /\ service'[s].faults = svc.faults
    BY <2>2 DEF State
  <2>5. service'[s] \in State
    BY <2>2, <2>3 DEF State
  <2> QED BY <1>1, <2>1, <2>4, <2>5 DEF Touched
<1>3. CASE "ledger" \notin down
  <2>1. /\ service' = [service EXCEPT ![s] = [svc EXCEPT !.keys = @ \cup {e}, !.buffer = {}]]
        /\ ledger' = ledger \cup service[s].buffer \cup {e}
    BY <1>3 DEF Holds
  <2>2. service'[s] = [svc EXCEPT !.keys = @ \cup {e}, !.buffer = {}]
    BY <1>1, <2>1
  <2>3. svc.keys \cup {e} \in SUBSET Effect /\ {} \in SUBSET Effect
    BY DEF State
  <2>4. service'[s].fence = svc.fence /\ service'[s].faults = svc.faults
    BY <2>2 DEF State
  <2>5. service'[s] \in State
    BY <2>2, <2>3 DEF State
  <2>6. ledger' \subseteq Effect
    BY <1>1, <2>1 DEF State
  <2> QED BY <1>1, <2>1, <2>4, <2>5, <2>6 DEF Touched
<1> QED BY <1>2, <1>3

LEMMA CallTouches ==
    ASSUME TypeOK, NEW r \in Runs, NEW s \in Service, Call(r, s) \/ Undo(r, s)
    PROVE  Touched(s, worker[r].epoch, service[s].faults)
<1> DEFINE e == [run |-> r, svc |-> s]
           fenced == [service[s] EXCEPT !.fence = worker[r].epoch]
<1>1. /\ service \in [Service -> State] /\ ledger \subseteq Effect /\ service[s] \in State
      /\ e \in Effect /\ worker[r].epoch \in 0 .. MaxEpoch
  BY DEF TypeOK, Worker, Effect
<1>2. fenced \in State /\ fenced.fence = worker[r].epoch /\ fenced.faults = service[s].faults
  BY <1>1 DEF State
<1>3. CASE Call(r, s)
  <2>1. CASE service' = [service EXCEPT ![s] = fenced] /\ UNCHANGED ledger
    BY <1>1, <1>2, <2>1 DEF Touched
  <2>2. CASE service' = [service EXCEPT ![s] = [fenced EXCEPT !.late = @ \cup {e}]]
             /\ UNCHANGED ledger
    <3> HIDE DEF fenced, e
    <3>1. service'[s] = [fenced EXCEPT !.late = @ \cup {e}]
      BY <1>1, <2>2
    <3>2. service'[s] \in State /\ service'[s].fence = fenced.fence
          /\ service'[s].faults = fenced.faults
      BY <1>1, <1>2, <3>1 DEF State
    <3> QED BY <1>1, <1>2, <2>2, <3>1, <3>2 DEF Touched
  <2>3. CASE Holds(s, fenced, e)
    <3>1. Touched(s, fenced.fence, fenced.faults)
      BY <1>1, <1>2, <2>3, HoldsTouches
    <3> QED BY <1>2, <3>1
  <2> QED BY <1>3, <2>1, <2>2, <2>3 DEF Call
<1>4. CASE Undo(r, s)
  <2> DEFINE kept == IF "ledger" \in down THEN service[s].buffer ELSE {}
  <2>1. /\ service' = [service EXCEPT ![s] =
               [service[s] EXCEPT !.fence = worker[r].epoch, !.keys = @ \ {e}, !.buffer = kept]]
        /\ ledger' = ledger \cup (service[s].buffer \ kept)
    BY <1>4 DEF Undo
  <2>2. /\ kept \in SUBSET Effect /\ service[s].buffer \subseteq Effect
        /\ service[s].keys \ {e} \in SUBSET Effect
    BY <1>1 DEF State
  <2> HIDE DEF kept, e
  <2>3. service'[s] = [service[s] EXCEPT !.fence = worker[r].epoch, !.keys = @ \ {e},
                                         !.buffer = kept]
    BY <1>1, <2>1
  <2>4. /\ service'[s] \in State
        /\ service'[s].fence = worker[r].epoch /\ service'[s].faults = service[s].faults
    BY <1>1, <2>2, <2>3 DEF State
  <2> QED BY <1>1, <2>1, <2>2, <2>3, <2>4 DEF Touched
<1> QED BY <1>3, <1>4

LEMMA LandTouches ==
    ASSUME TypeOK, NEW s \in Service, NEW e \in service[s].late, Land(s, e)
    PROVE  Touched(s, service[s].fence, service[s].faults)
<1> DEFINE svc == [service[s] EXCEPT !.late = @ \ {e}]
<1>1. service \in [Service -> State] /\ ledger \subseteq Effect /\ service[s] \in State
      /\ e \in Effect
  BY DEF TypeOK, State
<1>2. svc \in State /\ svc.fence = service[s].fence /\ svc.faults = service[s].faults
  BY <1>1 DEF State
<1>3. CASE service' = [service EXCEPT ![s] = svc] /\ UNCHANGED ledger
  BY <1>1, <1>2, <1>3 DEF Touched
<1>4. CASE Holds(s, svc, e)
  <2>1. Touched(s, svc.fence, svc.faults)
    BY <1>1, <1>2, <1>4, HoldsTouches
  <2> QED BY <1>2, <2>1
<1> QED BY <1>3, <1>4 DEF Land

LEMMA KnownFaults == TypeOK => \A r \in Runs : FaultsOf(worker[r].scenario) \in Faults
BY LiveRunAssumption DEF TypeOK, Worker, FaultsOf, Faults

\* The steps of the clearing that touch a service, and all others that do not.
LEMMA ResetTouches ==
    ASSUME TypeOK, NEW r \in Runs, Reset(r), ServiceOf(r) \notin down
    PROVE  Touched(ServiceOf(r), 0, service[ServiceOf(r)].faults)
<1> DEFINE s == ServiceOf(r)
<1>1. /\ service \in [Service -> State] /\ ledger \subseteq Effect /\ s \in Service
      /\ service[s] \in State /\ MaxEpoch \in Nat
  BY ServiceAt, LiveRunAssumption DEF TypeOK
<1>2. service' = [service EXCEPT ![s] = Cleared(service[s])] /\ UNCHANGED ledger
  BY DEF Reset
<1> HIDE DEF s
<1>3. Cleared(service[s]) \in State /\ Cleared(service[s]).fence = 0
      /\ Cleared(service[s]).faults = service[s].faults
  <2>1. {} \in SUBSET Effect /\ 0 \in 0 .. MaxEpoch
    BY <1>1
  <2>2. Cleared(service[s]) = [service[s] EXCEPT !.keys = {}, !.fence = 0]
    BY DEF Cleared
  <2> QED BY <1>1, <2>1, <2>2 DEF State
<1> QED BY <1>1, <1>2, <1>3 DEF Touched, s

LEMMA SetFaultsTouches ==
    ASSUME TypeOK, NEW r \in Runs, SetFaults(r), ServiceOf(r) \notin down
    PROVE  Touched(ServiceOf(r), service[ServiceOf(r)].fence, FaultsOf(worker[r].scenario))
<1> DEFINE s == ServiceOf(r)
           faults == FaultsOf(worker[r].scenario)
<1>1. /\ service \in [Service -> State] /\ ledger \subseteq Effect /\ s \in Service
      /\ service[s] \in State /\ faults \in Faults
  BY ServiceAt, KnownFaults DEF TypeOK
<1>2. service' = [service EXCEPT ![s].faults = faults] /\ UNCHANGED ledger
  BY DEF SetFaults
<1> HIDE DEF faults
<1>3. service'[s] = [service[s] EXCEPT !.faults = faults]
  BY <1>1, <1>2
<1>4. /\ service'[s] \in State
      /\ service'[s].fence = service[s].fence /\ service'[s].faults = faults
  BY <1>1, <1>3 DEF State
<1> QED BY <1>1, <1>2, <1>3, <1>4 DEF Touched, faults

\* A quiet step leaves the services alone, or touches the one at hand.
LEMMA QuietTouches ==
    ASSUME TypeOK, NEW r \in Runs, Quiet(r)
    PROVE  \/ UNCHANGED service
           \/ Reset(r) /\ ServiceOf(r) \notin down
           \/ SetFaults(r) /\ ServiceOf(r) \notin down
BY DEF Quiet, Mark, Reset, ResetOracle, SetFaults, Wipe, End, Unmark, Click

LEMMA TypeQuiet ==
    ASSUME TypeOK, Opened, NEW r \in Runs, Quiet(r)
    PROVE  TypeOK' /\ Opened'
<1>1. /\ worker' = [worker EXCEPT ![r] = worker'[r]] /\ worker'[r] \in Worker
      /\ worker'[r].pc # "work" /\ worker \in [Runs -> Worker]
  BY QuietMoves DEF TypeOK
<1>2. UNCHANGED << journals, down, outages >> /\ path' \in {path, NoFile}
      /\ ledger' \in {ledger, {}}
  BY DEF Quiet, Mark, Reset, ResetOracle, SetFaults, Wipe, End, Unmark, Click, disk, faulty
<1>3. worker' \in [Runs -> Worker] /\ Worker' = Worker /\ State' = State
  BY <1>1, <1>2 DEF Worker, State
<1>4. service' \in [Service -> State]
  <2>1. CASE UNCHANGED service
    BY <2>1 DEF TypeOK
  <2>2. CASE Reset(r) /\ ServiceOf(r) \notin down
    BY <2>2, ResetTouches, ServiceAt DEF Touched, TypeOK
  <2>3. CASE SetFaults(r) /\ ServiceOf(r) \notin down
    BY <2>3, SetFaultsTouches, ServiceAt DEF Touched, TypeOK
  <2> QED BY <2>1, <2>2, <2>3, QuietTouches
<1>5. path' \in 0 .. Len(journals') /\ ledger' \subseteq Effect /\ live' \in BOOLEAN
  <2>1. path' \in 0 .. Len(journals')
    BY <1>2 DEF TypeOK, NoFile
  <2>2. ledger' \subseteq Effect
    BY <1>2 DEF TypeOK
  <2>3. UNCHANGED live \/ live' = TRUE \/ live' = FALSE
    BY DEF Quiet, Mark, Reset, ResetOracle, SetFaults, Wipe, End, Unmark, Click
  <2>4. live' \in BOOLEAN
    BY <2>3 DEF TypeOK
  <2> QED BY <2>1, <2>2, <2>4
<1>6. TypeOK'
  BY <1>2, <1>3, <1>4, <1>5 DEF TypeOK
<1>7. Opened'
  BY <1>1 DEF Opened, At
<1> QED BY <1>6, <1>7

\* Journals that grow make no worker ill typed.
LEMMA WorkerGrown ==
    ASSUME TypeOK, journals' \in Seq(0 .. MaxEpoch), Len(journals) <= Len(journals')
    PROVE  worker \in [Runs -> Worker'] /\ path \in 0 .. Len(journals')
<1>1. 0 .. Len(journals) \subseteq 0 .. Len(journals')
  BY DEF TypeOK
<1>2. Worker \subseteq Worker'
  BY <1>1 DEF Worker
<1>3. worker \in [Runs -> Worker] /\ path \in 0 .. Len(journals)
  BY DEF TypeOK
<1> QED BY <1>1, <1>2, <1>3

\* What opening does to the journals.
LEMMA OpenDoes ==
    ASSUME TypeOK, NEW r \in Runs, Open(r)
    PROVE  /\ journals' \in Seq(0 .. MaxEpoch) /\ Len(journals) <= Len(journals')
           /\ path' \in 1 .. Len(journals')
           /\ worker' = [worker EXCEPT ![r] = [worker[r] EXCEPT !.pc = "work", !.file = path']]
           /\ path # NoFile => UNCHANGED << path, journals >>
           /\ path = NoFile => journals'[path'] = 0
<1>1. journals \in Seq(0 .. MaxEpoch) /\ Len(journals) \in Nat /\ path \in 0 .. Len(journals)
      /\ 0 \in 0 .. MaxEpoch
  BY LiveRunAssumption DEF TypeOK
<1>2. CASE path = NoFile
  <2>1. /\ journals' = Append(journals, 0) /\ path' = Len(journals) + 1
        /\ worker' = [worker EXCEPT ![r] = [@ EXCEPT !.pc = "work", !.file = path']]
    BY <1>2 DEF Open
  <2>2. /\ journals' \in Seq(0 .. MaxEpoch) /\ Len(journals') = Len(journals) + 1
        /\ journals'[Len(journals) + 1] = 0
    BY <1>1, <2>1, AppendProperties
  <2> QED BY <1>1, <1>2, <2>1, <2>2
<1>3. CASE path # NoFile
  <2>1. /\ UNCHANGED << path, journals >>
        /\ worker' = [worker EXCEPT ![r] = [@ EXCEPT !.pc = "work", !.file = path']]
    BY <1>3 DEF Open
  <2> QED BY <1>1, <1>3, <2>1 DEF NoFile
<1> QED BY <1>2, <1>3

\* A new lease.
LEMMA LeadDoes ==
    ASSUME TypeOK, Opened, NEW r \in Runs, Lead(r)
    PROVE  LET f == worker[r].file IN
           /\ f \in 1 .. Len(journals) /\ journals[f] \in 0 .. MaxEpoch
           /\ journals' \in Seq(0 .. MaxEpoch) /\ Len(journals') = Len(journals)
           /\ journals'[f] = journals[f] + 1
           /\ \A i \in 1 .. Len(journals) : i # f => journals'[i] = journals[i]
           /\ worker' = [worker EXCEPT ![r].epoch = journals[f] + 1]
           /\ journals[f] + 1 \in 0 .. MaxEpoch
<1> DEFINE f == worker[r].file
<1>1. /\ journals \in Seq(0 .. MaxEpoch) /\ Len(journals) \in Nat
      /\ f \in 1 .. Len(journals) /\ MaxEpoch \in Nat
  BY LiveRunAssumption DEF TypeOK, Worker, Opened, Lead, NoFile
<1>2. journals[f] \in 0 .. MaxEpoch /\ journals[f] + 1 \in 0 .. MaxEpoch
  <2>1. journals[f] \in 0 .. MaxEpoch
    BY <1>1, ElementOfSeq
  <2>2. journals[f] < MaxEpoch
    BY DEF Lead
  <2> QED BY <1>1, <2>1, <2>2
<1>3. journals' = [journals EXCEPT ![f] = journals[f] + 1]
      /\ worker' = [worker EXCEPT ![r].epoch = journals'[f]]
  BY DEF Lead
<1>4. /\ journals' \in Seq(0 .. MaxEpoch) /\ Len(journals') = Len(journals)
      /\ journals'[f] = journals[f] + 1
      /\ \A i \in 1 .. Len(journals) : i # f => journals'[i] = journals[i]
  BY <1>1, <1>2, <1>3, ExceptSeq
<1> QED BY <1>1, <1>2, <1>3, <1>4

LEMMA TypeNext == TypeOK /\ Opened /\ [Next]_vars => TypeOK' /\ Opened'
<1> SUFFICES ASSUME TypeOK, Opened, [Next]_vars PROVE TypeOK' /\ Opened'
  OBVIOUS
<1>1. ASSUME NEW r \in Runs, Quiet(r) PROVE TypeOK' /\ Opened'
  BY <1>1, TypeQuiet
<1>2. ASSUME NEW r \in Runs, Open(r) PROVE TypeOK' /\ Opened'
  <2>1. worker \in [Runs -> Worker'] /\ State' = State
    BY <1>2, OpenDoes, WorkerGrown DEF State
  <2>2. worker'[r] = [worker[r] EXCEPT !.pc = "work", !.file = path']
        /\ path' \in 1 .. Len(journals')
    BY <1>2, OpenDoes, <2>1
  <2>0. Len(journals') \in Nat /\ path' \in 0 .. Len(journals') /\ path' # 0
        /\ worker[r] \in Worker'
    <3>1. Len(journals') \in Nat
      BY <1>2, OpenDoes, LenProperties
    <3> QED BY <2>1, <2>2, <3>1
  <2>3. worker'[r] \in Worker'
    BY <2>0, <2>2 DEF Worker, Points
  <2>4. worker' \in [Runs -> Worker']
    BY <1>2, <2>1, <2>3, OpenDoes
  <2>5. TypeOK'
    <3>1. UNCHANGED << live, service, ledger, down, outages >>
      BY <1>2 DEF Open, faulty
    <3> QED BY <1>2, <2>0, <2>1, <2>4, <3>1, OpenDoes DEF TypeOK
  <2>6. Opened'
    <3>1. worker'[r].file # NoFile
      BY <2>0, <2>1, <2>2 DEF NoFile, Worker
    <3>2. \A q \in Runs \ {r} : worker'[q] = worker[q]
      BY <1>2, <2>1, OpenDoes
    <3> QED BY <3>1, <3>2 DEF Opened, At
  <2> QED BY <2>5, <2>6
<1>3. ASSUME NEW r \in Runs, Lead(r) PROVE TypeOK' /\ Opened'
  <2>1. worker \in [Runs -> Worker'] /\ State' = State /\ path \in 0 .. Len(journals')
        /\ Len(journals') = Len(journals)
    BY <1>3, LeadDoes, WorkerGrown DEF State, TypeOK
  <2>2. worker' = [worker EXCEPT ![r].epoch = journals[worker[r].file] + 1]
        /\ journals[worker[r].file] + 1 \in 0 .. MaxEpoch
    BY <1>3, LeadDoes
  <2>3. worker' \in [Runs -> Worker']
        /\ worker'[r].pc = worker[r].pc /\ worker'[r].file = worker[r].file
    BY <2>1, <2>2 DEF Worker
  <2>4. TypeOK'
    BY <1>3, <2>1, <2>3, LeadDoes DEF TypeOK, Lead, faulty
  <2>5. Opened'
    BY <2>1, <2>2, <2>3 DEF Opened, At
  <2> QED BY <2>4, <2>5
<1>4. ASSUME NEW s \in Service, NEW fence, NEW faults, Touched(s, fence, faults),
             UNCHANGED << worker, live, disk, faulty >>
      PROVE  TypeOK' /\ Opened'
  BY <1>4 DEF Touched, TypeOK, Opened, At, Worker, State, disk, faulty
<1>5. ASSUME NEW r \in Runs, NEW s \in Service, Call(r, s) \/ Undo(r, s)
      PROVE  TypeOK' /\ Opened'
  <2>1. UNCHANGED << worker, live, disk, faulty >>
    BY <1>5 DEF Call, Undo
  <2> QED BY <1>4, <1>5, <2>1, CallTouches
<1>6. ASSUME NEW s \in Service, NEW e \in service[s].late, Land(s, e)
      PROVE  TypeOK' /\ Opened'
  <2>1. UNCHANGED << worker, live, disk, faulty >>
    BY <1>6 DEF Land
  <2> QED BY <1>4, <1>6, <2>1, LandTouches
<1>7. ASSUME NEW x \in Service \cup {"ledger"}, Fail(x) PROVE TypeOK' /\ Opened'
  BY <1>7, LiveRunAssumption DEF Fail, TypeOK, Opened, At, Worker, State, disk
<1>8. ASSUME NEW x \in Service \cup {"ledger"}, Return(x) PROVE TypeOK' /\ Opened'
  <2>1. UNCHANGED << worker, live, disk, outages >> /\ down' = down \ {x}
        /\ ledger' \in {ledger, {}}
    BY <1>8 DEF Return
  <2>2. Started \in State
    BY LiveRunAssumption DEF Started, State, Faults
  <2>3. service' \in [Service -> State]
    BY <1>8, <2>2 DEF Return, TypeOK
  <2> QED BY <2>1, <2>3 DEF TypeOK, Opened, At, Worker, State, disk
<1>9. CASE UNCHANGED vars
  BY <1>9 DEF vars, TypeOK, Opened, At, Worker, State
<1> QED
  BY <1>1, <1>2, <1>3, <1>5, <1>6, <1>7, <1>8, <1>9 DEF Next, Setup, Quiet

LEMMA TypeInit == Init => TypeOK /\ Opened
<1> SUFFICES ASSUME Init PROVE TypeOK /\ Opened
  OBVIOUS
<1> USE LiveRunAssumption
<1>1. 1 \in DOMAIN Services /\ journals \in Seq(0 .. MaxEpoch) /\ Len(journals) = 0
  <2>1. Services \in Seq({"ticket", "channel", "pager"}) /\ Services # << >>
    OBVIOUS
  <2> QED BY <2>1, EmptySeq, LenProperties DEF Init
<1>2. worker \in [Runs -> Worker]
  BY <1>1 DEF Init, Worker, Points, NoFile
<1>3. service \in [Service -> State]
  BY DEF Init, State, Started, Faults
<1>4. TypeOK
  <2>1. outages \in 0 .. MaxOutages /\ path \in 0 .. Len(journals)
    BY <1>1 DEF Init, NoFile
  <2>2. live \in BOOLEAN /\ ledger \subseteq Effect /\ down \subseteq Service \cup {"ledger"}
    BY DEF Init
  <2> QED BY <1>1, <1>2, <1>3, <2>1, <2>2 DEF TypeOK
<1>5. Opened
  BY DEF Init, Opened, At
<1> QED BY <1>4, <1>5

\* Workers, journals, services and the oracle stay well typed, and whoever is at work has
\* a journal open, for any number of runs, leases and outages, overlapping or not.
THEOREM TypeCorrect == Spec => [](TypeOK /\ Opened)
<1>1. Init => TypeOK /\ Opened
  BY TypeInit
<1>2. TypeOK /\ Opened /\ [Next]_vars => (TypeOK /\ Opened)'
  BY TypeNext
<1> QED BY <1>1, <1>2, PTL DEF Spec

------------------------------------------------------------------------------
(* One run at a time                                                       *)

Alone == \A q, r \in Runs : InFlight(q) /\ InFlight(r) => q = r

\* The steps of a run, and what they leave of the others when it is alone.
Moves(r) == Quiet(r) \/ Open(r) \/ Lead(r)
Undisturbed(r) == /\ worker' = [worker EXCEPT ![r] = worker'[r]]
                  /\ \A q \in Runs \ {r} : ~ InFlight(q) /\ worker'[q] = worker[q]

LEMMA MovesAlone ==
    ASSUME TypeOK, Opened, Patient, Alone, NEW r \in Runs, Moves(r)
    PROVE  Undisturbed(r)
<1>1. worker \in [Runs -> Worker]
  BY DEF TypeOK
<1>2. worker' = [worker EXCEPT ![r] = worker'[r]]
  <2>1. CASE Quiet(r)
    BY <2>1, QuietMoves
  <2>2. CASE Open(r)
    BY <1>1, <2>2, OpenDoes
  <2>3. CASE Lead(r)
    BY <1>1, <2>3, LeadDoes
  <2> QED BY <2>1, <2>2, <2>3 DEF Moves
<1>3. \A q \in Runs \ {r} : worker'[q] = worker[q]
  BY <1>1, <1>2
<1>4. CASE \E sc \in Scenarios, fresh \in BOOLEAN : Click(r, sc, fresh)
  BY <1>2, <1>3, <1>4 DEF Click, Undisturbed
<1>5. CASE ~ \E sc \in Scenarios, fresh \in BOOLEAN : Click(r, sc, fresh)
  <2>1. InFlight(r)
    BY <1>5 DEF Moves, Quiet, Mark, Reset, ResetOracle, SetFaults, Wipe, End, Unmark, Open,
                Lead, At, InFlight
  <2> QED BY <1>2, <1>3, <2>1 DEF Undisturbed, Alone
<1> QED BY <1>4, <1>5

LEMMA UndisturbedAlone ==
    ASSUME TypeOK, NEW r \in Runs, Undisturbed(r)
    PROVE  Alone'
BY DEF Undisturbed, Alone, InFlight

\* All other steps leave the workers where they are.
Elsewhere ==
    \/ \E r \in Runs, s \in Service : Call(r, s) \/ Undo(r, s)
    \/ \E s \in Service : \E e \in service[s].late : Land(s, e)
    \/ \E x \in Service \cup {"ledger"} : Fail(x) \/ Return(x)
    \/ UNCHANGED vars

LEMMA StepCases == [Next]_vars => Elsewhere \/ \E r \in Runs : Moves(r)
BY DEF Next, Setup, Quiet, Moves, Elsewhere

LEMMA ElsewhereKeeps == Elsewhere => UNCHANGED << worker, journals, path >>
BY DEF Elsewhere, Call, Undo, Land, Fail, Return, vars, disk

LEMMA AloneNext ==
    ASSUME TypeOK, Opened, Patient, Alone, [Next]_vars
    PROVE  Alone'
<1>1. ASSUME NEW r \in Runs, Moves(r) PROVE Alone'
  BY <1>1, MovesAlone, UndisturbedAlone
<1>2. CASE Elsewhere
  BY <1>2, ElsewhereKeeps DEF Alone, InFlight
<1> QED BY <1>1, <1>2, StepCases

\* Where a worker goes, and what it takes along.
LEMMA GotoDoes ==
    ASSUME TypeOK, NEW r \in Runs, NEW pc, Goto(r, pc)
    PROVE  /\ worker'[r].pc = pc /\ worker'[r].at = 1
           /\ worker'[r].cleared = worker[r].cleared
           /\ worker'[r].scenario = worker[r].scenario
           /\ worker'[r].fresh = worker[r].fresh
           /\ worker'[r].epoch = worker[r].epoch
BY DEF TypeOK, Worker, Goto

LEMMA AdvanceDoes ==
    ASSUME TypeOK, NEW r \in Runs, NEW pc, Advance(r, pc)
    PROVE  /\ worker'[r].cleared = worker[r].cleared
           /\ worker'[r].scenario = worker[r].scenario
           /\ worker'[r].fresh = worker[r].fresh
           /\ worker'[r].epoch = worker[r].epoch
           /\ Last(r) => worker'[r].pc = pc /\ worker'[r].at = 1
           /\ ~ Last(r) => worker'[r].pc = worker[r].pc /\ worker'[r].at = worker[r].at + 1
<1>1. CASE Last(r)
  BY <1>1, GotoDoes DEF Advance
<1>2. CASE ~ Last(r)
  BY <1>2 DEF Advance, TypeOK, Worker
<1> QED BY <1>1, <1>2

------------------------------------------------------------------------------
(* Faults                                                                  *)

\* The points a worker passes before its faults are all set.
Early == {"idle", "mark", "reset", "oracle", "faults"}

Fresh(r, s) == service[s].faults \in {"none", FaultsOf(worker[r].scenario)}

\* The services already dealt with have the faults of the run, and all have once it is
\* through with them.
FaultsFine(r) ==
    /\ worker[r].pc \in Early => ~ worker[r].cleared
    /\ At(r, "faults") =>
           \A i \in DOMAIN Services : i < worker[r].at => Fresh(r, Services[i])
    /\ InFlight(r) /\ worker[r].cleared => \A s \in Service : Fresh(r, s)

\* Faults are dropped at most: by a service that was started again.
FaultsDrop == \A s \in Service : service'[s].faults \in {service[s].faults, "none"}

LEMMA TouchedDrop ==
    ASSUME TypeOK, NEW s \in Service, NEW fence, Touched(s, fence, service[s].faults)
    PROVE  FaultsDrop
BY DEF Touched, TypeOK, FaultsDrop

LEMMA ElsewhereDrop ==
    ASSUME TypeOK, Elsewhere
    PROVE  FaultsDrop
<1>1. ASSUME NEW r \in Runs, NEW s \in Service, Call(r, s) \/ Undo(r, s) PROVE FaultsDrop
  BY <1>1, CallTouches, TouchedDrop
<1>2. ASSUME NEW s \in Service, NEW e \in service[s].late, Land(s, e) PROVE FaultsDrop
  BY <1>2, LandTouches, TouchedDrop
<1>3. ASSUME NEW x \in Service \cup {"ledger"}, Fail(x) PROVE FaultsDrop
  BY <1>3 DEF Fail, FaultsDrop
<1>4. ASSUME NEW x \in Service \cup {"ledger"}, Return(x) PROVE FaultsDrop
  BY <1>4 DEF Return, FaultsDrop, Started, TypeOK
<1>5. CASE UNCHANGED vars
  BY <1>5 DEF vars, FaultsDrop
<1> QED BY <1>1, <1>2, <1>3, <1>4, <1>5 DEF Elsewhere

LEMMA MovesDrop ==
    ASSUME TypeOK, NEW r \in Runs, Moves(r), ~ SetFaults(r)
    PROVE  FaultsDrop
<1>1. CASE UNCHANGED service
  BY <1>1 DEF FaultsDrop
<1>2. CASE Reset(r) /\ ServiceOf(r) \notin down
  BY <1>2, ResetTouches, ServiceAt, TouchedDrop
<1> QED BY <1>1, <1>2, QuietTouches DEF Moves, Open, Lead

\* A run keeps what it has achieved, if it goes on with the same scenario.
LEMMA FineKept ==
    ASSUME NEW r \in Runs, FaultsFine(r), FaultsDrop, TypeOK,
           worker'[r].cleared = worker[r].cleared,
           worker'[r].cleared => /\ worker'[r].scenario = worker[r].scenario
                                 /\ InFlight(r)' => InFlight(r)
                                 /\ worker'[r].pc \notin Early,
           At(r, "faults")' => \/ worker'[r].at = 1
                               \/ At(r, "faults") /\ worker'[r] = worker[r]
    PROVE  FaultsFine(r)'
<1>1. ASSUME NEW s \in Service, Fresh(r, s), worker'[r].scenario = worker[r].scenario
      PROVE  Fresh(r, s)'
  BY <1>1 DEF Fresh, FaultsDrop
<1>2. worker'[r].pc \in Early => ~ worker'[r].cleared
  OBVIOUS
<1>3. ASSUME At(r, "faults")', NEW i \in DOMAIN Services, i < worker'[r].at
      PROVE  Fresh(r, Services[i])'
  <2>1. At(r, "faults") /\ worker'[r] = worker[r]
    BY <1>3, ServiceAt
  <2> QED BY <1>1, <1>3, <2>1 DEF FaultsFine, Service
<1>4. ASSUME InFlight(r)', worker'[r].cleared, NEW s \in Service PROVE Fresh(r, s)'
  BY <1>1, <1>4 DEF FaultsFine
<1> QED BY <1>2, <1>3, <1>4 DEF FaultsFine

\* The steps of a run other than the last of its clearing.
LEMMA MovesFine ==
    ASSUME TypeOK, Opened, NEW r \in Runs, Moves(r), ~ SetFaults(r), FaultsFine(r)
    PROVE  FaultsFine(r)'
<1>0. FaultsDrop /\ worker[r] \in Worker /\ worker \in [Runs -> Worker]
  BY MovesDrop DEF TypeOK
<1>1. ASSUME NEW pc \in Points, Goto(r, pc), pc \in Early => worker[r].pc \in Early,
             InFlight(r)
      PROVE  FaultsFine(r)'
  BY <1>0, <1>1, GotoDoes, FineKept DEF FaultsFine
<1>2. CASE Mark(r) \/ ResetOracle(r) \/ Wipe(r) \/ End(r) \/ Unmark(r)
  BY <1>1, <1>2 DEF Mark, ResetOracle, Wipe, End, Unmark, Points, Early, At, InFlight
<1>3. CASE Reset(r)
  <2>1. worker[r].pc = "reset" /\ worker'[r].pc \in {"reset", "oracle"}
        /\ ~ worker[r].cleared /\ worker'[r].cleared = worker[r].cleared
    BY <1>3, AdvanceDoes DEF Reset, At, FaultsFine, Early
  <2> QED BY <1>0, <2>1, FineKept DEF At
<1>4. CASE \E sc \in Scenarios, fresh \in BOOLEAN : Click(r, sc, fresh)
  <2>1. PICK sc \in Scenarios, fresh \in BOOLEAN : Click(r, sc, fresh)
    BY <1>4
  <2>2. worker[r].pc = "idle" /\ worker'[r].pc = "mark"
        /\ worker'[r].cleared = worker[r].cleared
    BY <1>0, <2>1 DEF Click, At, Worker
  <2> QED BY <1>0, <2>2, FineKept DEF At, FaultsFine, Early
<1>5. CASE Open(r)
  <2>1. /\ worker[r].pc = "open" /\ worker'[r].pc = "work"
        /\ worker'[r].cleared = worker[r].cleared
        /\ worker'[r].scenario = worker[r].scenario
    BY <1>0, <1>5, OpenDoes DEF Worker, Open, At
  <2> QED BY <1>0, <2>1, FineKept DEF At, Early, InFlight
<1>6. CASE Lead(r)
  <2>1. /\ worker[r].pc = "work" /\ worker'[r].pc = "work"
        /\ worker'[r].cleared = worker[r].cleared
        /\ worker'[r].scenario = worker[r].scenario
    BY <1>0, <1>6, LeadDoes DEF Worker, Lead, At
  <2> QED BY <1>0, <2>1, FineKept DEF At, Early, InFlight
<1> QED BY <1>2, <1>3, <1>4, <1>5, <1>6 DEF Moves, Quiet

LEMMA SetFaultsFine ==
    ASSUME TypeOK, NEW r \in Runs, SetFaults(r), FaultsFine(r)
    PROVE  FaultsFine(r)'
<1> DEFINE s == ServiceOf(r)
           faults == FaultsOf(worker[r].scenario)
<1>0. /\ worker[r].pc = "faults" /\ ~ worker[r].cleared
      /\ worker[r].at \in DOMAIN Services /\ s \in Service
      /\ DOMAIN Services = 1 .. Len(Services) /\ Len(Services) \in Nat
      /\ worker \in [Runs -> Worker] /\ worker[r] \in Worker
  BY ServiceAt DEF SetFaults, At, FaultsFine, Early, TypeOK
<1>1. CASE s \in down
  <2>1. Goto(r, "wipe")
    BY <1>1 DEF SetFaults
  <2>2. worker'[r].pc = "wipe" /\ worker'[r].cleared = worker[r].cleared
    BY <2>1, GotoDoes
  <2> QED BY <1>0, <2>2 DEF FaultsFine, At, Early
<1>2. CASE s \notin down
  <2>1. /\ service'[s].faults = faults
        /\ \A t \in Service \ {s} : service'[t] = service[t]
    BY <1>0, <1>2, SetFaultsTouches DEF Touched, TypeOK
  <2>2. \A i \in DOMAIN Services : i < worker[r].at =>
            service[Services[i]].faults \in {"none", faults}
    BY <1>0 DEF FaultsFine, At, Fresh
  <2>3. ASSUME NEW i \in DOMAIN Services, i <= worker[r].at
        PROVE  service'[Services[i]].faults \in {"none", faults}
    <3>1. CASE Services[i] = s
      BY <2>1, <3>1
    <3>2. CASE Services[i] # s
      <4>1. i < worker[r].at
        BY <1>0, <2>3, <3>2 DEF ServiceOf
      <4> QED BY <2>1, <2>2, <2>3, <3>2, <4>1 DEF Service
    <3> QED BY <3>1, <3>2
  <2>4. CASE Last(r)
    <3>1. worker' = [worker EXCEPT ![r] =
                        [@ EXCEPT !.pc = "wipe", !.at = 1, !.cleared = TRUE]]
      BY <1>2, <2>4 DEF SetFaults
    <3>2. worker'[r].pc = "wipe" /\ worker'[r].scenario = worker[r].scenario
      BY <1>0, <3>1 DEF Worker
    <3>3. \A t \in Service : service'[t].faults \in {"none", faults}
      BY <1>0, <2>3, <2>4 DEF Service, Last
    <3> QED BY <3>2, <3>3 DEF FaultsFine, Fresh, At, Early
  <2>5. CASE ~ Last(r)
    <3>1. Advance(r, "wipe")
      BY <1>2, <2>5 DEF SetFaults
    <3>2. /\ worker'[r].pc = "faults" /\ worker'[r].at = worker[r].at + 1
          /\ worker'[r].cleared = worker[r].cleared
          /\ worker'[r].scenario = worker[r].scenario
      BY <1>0, <2>5, <3>1, AdvanceDoes
    <3>3. \A i \in DOMAIN Services : i < worker'[r].at => i <= worker[r].at
      BY <1>0, <3>2
    <3> QED BY <1>0, <2>3, <3>2, <3>3 DEF FaultsFine, Fresh, At, Early
  <2> QED BY <2>4, <2>5
<1> QED BY <1>1, <1>2

\* Nobody in flight has anything to lose by another's step.
LEMMA OthersFine ==
    ASSUME NEW q \in Runs, ~ InFlight(q), worker'[q] = worker[q], FaultsFine(q)
    PROVE  FaultsFine(q)'
BY DEF FaultsFine, InFlight, At

FaultsInv == TypeOK /\ Opened /\ Alone /\ \A r \in Runs : FaultsFine(r)

LEMMA FaultsNext ==
    ASSUME Patient, FaultsInv, [Next]_vars
    PROVE  FaultsInv'
<1>0. TypeOK /\ Opened /\ Alone /\ (\A r \in Runs : FaultsFine(r))
  BY DEF FaultsInv
<1>1. TypeOK' /\ Opened' /\ Alone'
  BY <1>0, TypeNext, AloneNext
<1>2. CASE Elsewhere
  <2>1. FaultsDrop /\ worker' = worker
    BY <1>0, <1>2, ElsewhereDrop, ElsewhereKeeps
  <2>2. ASSUME NEW r \in Runs PROVE FaultsFine(r)'
    BY <1>0, <2>1, FineKept DEF FaultsFine, At, InFlight
  <2> QED BY <1>1, <2>2 DEF FaultsInv
<1>3. ASSUME NEW r \in Runs, Moves(r) PROVE FaultsInv'
  <2>1. Undisturbed(r)
    BY <1>0, <1>3, MovesAlone
  <2>2. FaultsFine(r)'
    BY <1>0, <1>3, MovesFine, SetFaultsFine
  <2>3. ASSUME NEW q \in Runs \ {r} PROVE FaultsFine(q)'
    BY <1>0, <2>1, OthersFine DEF Undisturbed
  <2> QED BY <1>1, <2>2, <2>3 DEF FaultsInv
<1> QED BY <1>2, <1>3, StepCases

LEMMA FaultsInit == Init => FaultsInv
<1> SUFFICES ASSUME Init PROVE FaultsInv
  OBVIOUS
<1>1. \A r \in Runs : worker[r].pc = "idle" /\ ~ worker[r].cleared
  BY DEF Init
<1>2. Alone /\ \A r \in Runs : FaultsFine(r)
  BY <1>1 DEF Alone, FaultsFine, InFlight, At
<1> QED BY <1>2, TypeInit DEF FaultsInv

\* One at a time, a run whose clearing went through works under its own faults, whichever
\* services were out of reach or were started again (HttpWorld.set_faults).
THEOREM FaultsFreshHolds ==
    ASSUME Patient PROVE Spec => []FaultsFresh
<1>1. Init => FaultsInv
  BY FaultsInit
<1>2. FaultsInv /\ [Next]_vars => FaultsInv'
  BY FaultsNext
<1>3. FaultsInv => FaultsFresh
  BY DEF FaultsInv, FaultsFresh, FaultsFine, Fresh, InFlight, At
<1> QED BY <1>1, <1>2, <1>3, PTL DEF Spec

------------------------------------------------------------------------------
(* Fences                                                                  *)

\* A leader has its epoch from the journal at hand, and there is none before it works.
WorkFine(r) ==
    /\ At(r, "work") => /\ worker[r].file = path
                        /\ worker[r].epoch > 0 => worker[r].epoch = journals[path]
    /\ worker[r].pc \in Early \cup {"wipe", "open"} => worker[r].epoch = 0

\* The highest epoch of the journal at hand.
Top == IF path = NoFile THEN 0 ELSE journals[path]

\* What the clearing has done so far.
ClearFine(r) ==
    /\ At(r, "reset") =>
           \A i \in DOMAIN Services : i < worker[r].at => service[Services[i]].fence = 0
    /\ worker[r].pc \in {"oracle", "faults", "wipe"} =>
           \A s \in Service : service[s].fence = 0

FencesFine ==
    outages = 0 => /\ down = {}
                   /\ \A s \in Service : service[s].fence <= Top
                   /\ \A r \in Runs : ClearFine(r)

FencesInv == TypeOK /\ Opened /\ Alone /\ (\A r \in Runs : WorkFine(r)) /\ FencesFine

LEMMA TopNat == TypeOK => Top \in Nat
<1> SUFFICES ASSUME TypeOK PROVE Top \in Nat
  OBVIOUS
<1>1. journals \in Seq(0 .. MaxEpoch) /\ path \in 0 .. Len(journals)
  BY DEF TypeOK
<1>2. CASE path # NoFile
  <2>1. path \in 1 .. Len(journals)
    BY <1>1, <1>2 DEF NoFile
  <2>2. journals[path] \in 0 .. MaxEpoch
    BY <1>1, <2>1, ElementOfSeq
  <2> QED BY <1>2, <2>2 DEF Top
<1> QED BY <1>2 DEF Top

\* The steps of a run keep what is said of its work.
LEMMA MovesWork ==
    ASSUME TypeOK, Opened, NEW r \in Runs, Moves(r), WorkFine(r)
    PROVE  WorkFine(r)'
<1>0. worker[r] \in Worker /\ worker \in [Runs -> Worker]
  BY DEF TypeOK
<1>1. ASSUME NEW pc \in Points, Goto(r, pc), pc # "work",
             pc \in Early \cup {"wipe", "open"} =>
                 worker[r].pc \in Early \cup {"wipe", "open"}
      PROVE  WorkFine(r)'
  BY <1>1, GotoDoes DEF WorkFine, At
<1>2. CASE Mark(r) \/ ResetOracle(r) \/ Wipe(r) \/ End(r) \/ Unmark(r)
  BY <1>1, <1>2 DEF Mark, ResetOracle, Wipe, End, Unmark, Points, Early, At
<1>3. CASE Reset(r)
  <2>1. worker[r].pc = "reset" /\ worker'[r].pc \in {"reset", "oracle"}
        /\ worker'[r].epoch = worker[r].epoch
    BY <1>3, AdvanceDoes DEF Reset, At
  <2> QED BY <2>1 DEF WorkFine, At, Early
<1>4. CASE SetFaults(r)
  <2>1. worker[r].pc = "faults" /\ worker'[r].pc \in {"faults", "wipe"}
        /\ worker'[r].epoch = worker[r].epoch
    <3>1. CASE ServiceOf(r) \in down
      BY <1>4, <3>1, GotoDoes DEF SetFaults, At
    <3>2. CASE ServiceOf(r) \notin down /\ ~ Last(r)
      BY <1>4, <3>2, AdvanceDoes DEF SetFaults, At
    <3>3. CASE ServiceOf(r) \notin down /\ Last(r)
      <4>1. worker' = [worker EXCEPT ![r] =
                          [@ EXCEPT !.pc = "wipe", !.at = 1, !.cleared = TRUE]]
        BY <1>4, <3>3 DEF SetFaults
      <4> QED BY <1>0, <1>4, <4>1 DEF SetFaults, At, Worker
    <3> QED BY <3>1, <3>2, <3>3
  <2> QED BY <2>1 DEF WorkFine, At, Early
<1>5. CASE \E sc \in Scenarios, fresh \in BOOLEAN : Click(r, sc, fresh)
  <2>1. PICK sc \in Scenarios, fresh \in BOOLEAN : Click(r, sc, fresh)
    BY <1>5
  <2>2. worker[r].pc = "idle" /\ worker'[r].pc = "mark"
        /\ worker'[r].epoch = worker[r].epoch
    BY <1>0, <2>1 DEF Click, At, Worker
  <2> QED BY <2>2 DEF WorkFine, At, Early
<1>6. CASE Open(r)
  <2>1. worker'[r].pc = "work" /\ worker'[r].file = path'
        /\ worker'[r].epoch = worker[r].epoch /\ worker[r].pc = "open"
    BY <1>0, <1>6, OpenDoes DEF Worker, Open, At
  <2> QED BY <2>1 DEF WorkFine, At, Early
<1>7. CASE Lead(r)
  <2>1. /\ worker[r].pc = "work" /\ worker'[r].pc = "work"
        /\ worker'[r].file = worker[r].file
        /\ worker'[r].epoch = journals'[worker[r].file] /\ path' = path
    BY <1>0, <1>7, LeadDoes DEF Worker, Lead, At, disk
  <2> QED BY <2>1 DEF WorkFine, At, Early
<1> QED BY <1>2, <1>3, <1>4, <1>5, <1>6, <1>7 DEF Moves, Quiet

\* Another's steps leave alone what is said of a run that is not in flight.
LEMMA OthersWork ==
    ASSUME NEW q \in Runs, ~ InFlight(q), worker'[q] = worker[q], WorkFine(q)
    PROVE  WorkFine(q)' /\ ClearFine(q)'
BY DEF WorkFine, ClearFine, InFlight, At, Early

\* Effects move a fence only to the epoch of the leader, which is the highest there is.
LEMMA ElsewhereFences ==
    ASSUME FencesInv, Elsewhere
    PROVE  FencesFine'
<1>0. /\ TypeOK /\ Opened /\ Alone /\ (\A r \in Runs : WorkFine(r)) /\ FencesFine
      /\ UNCHANGED << worker, journals, path >> /\ Top' = Top /\ Top \in Nat
  BY ElsewhereKeeps, TopNat DEF FencesInv, Top
<1>1. ASSUME NEW s \in Service, NEW fence, Touched(s, fence, service[s].faults),
             UNCHANGED faulty, fence <= Top,
             \A r \in Runs : InFlight(r) /\ ~ At(r, "work") => fence = service[s].fence
      PROVE  FencesFine'
  <2>1. \A t \in Service : t # s => service'[t] = service[t]
    BY <1>0, <1>1 DEF Touched, TypeOK
  <2>2. service'[s].fence = fence
    BY <1>1 DEF Touched
  <2>3. SUFFICES ASSUME outages = 0 PROVE FencesFine'
    BY <1>1 DEF FencesFine, faulty
  <2>4. down' = {} /\ \A t \in Service : service'[t].fence <= Top'
    BY <1>0, <1>1, <2>1, <2>2, <2>3 DEF FencesFine, faulty
  <2>5. ASSUME NEW r \in Runs PROVE ClearFine(r)'
    <3>1. CASE InFlight(r) /\ ~ At(r, "work")
      <4>1. \A t \in Service : service'[t].fence = service[t].fence
        BY <1>1, <2>1, <2>2, <3>1
      <4> QED BY <1>0, <2>3, <4>1 DEF ClearFine, FencesFine, At, Service
    <3>2. CASE ~ (InFlight(r) /\ ~ At(r, "work"))
      BY <1>0, <3>2 DEF ClearFine, InFlight, At
    <3> QED BY <3>1, <3>2
  <2> QED BY <2>4, <2>5 DEF FencesFine
<1>2. ASSUME NEW r \in Runs, NEW s \in Service, Call(r, s) \/ Undo(r, s)
      PROVE  FencesFine'
  <2>1. At(r, "work") /\ worker[r].epoch > 0 /\ UNCHANGED faulty
    BY <1>2 DEF Call, Undo
  <2>2. worker[r].epoch = journals[path] /\ path # NoFile
    BY <1>0, <2>1 DEF WorkFine, Opened
  <2>3. worker[r].epoch <= Top
    BY <1>0, <2>2 DEF Top
  <2>4. \A q \in Runs : InFlight(q) => At(q, "work")
    BY <1>0, <2>1 DEF Alone, InFlight, At
  <2> QED BY <1>0, <1>1, <1>2, <2>1, <2>3, <2>4, CallTouches
<1>3. ASSUME NEW s \in Service, NEW e \in service[s].late, Land(s, e) PROVE FencesFine'
  <2>1. Touched(s, service[s].fence, service[s].faults) /\ UNCHANGED faulty
    BY <1>0, <1>3, LandTouches DEF Land
  <2>2. CASE outages = 0
    BY <1>0, <1>1, <2>1, <2>2 DEF FencesFine
  <2>3. CASE outages # 0
    BY <2>1, <2>3 DEF FencesFine, faulty
  <2> QED BY <2>2, <2>3
<1>4. ASSUME NEW x \in Service \cup {"ledger"}, Fail(x) PROVE FencesFine'
  <2>1. outages' # 0
    BY <1>0, <1>4 DEF Fail, TypeOK
  <2> QED BY <2>1 DEF FencesFine
<1>5. ASSUME NEW x \in Service \cup {"ledger"}, Return(x) PROVE FencesFine'
  BY <1>0, <1>5 DEF Return, FencesFine
<1>6. CASE UNCHANGED vars
  BY <1>0, <1>6 DEF vars, FencesFine, ClearFine, At
<1> QED BY <1>2, <1>3, <1>4, <1>5, <1>6 DEF Elsewhere

\* The clearing takes every fence down before the journal goes, and a lease raises the
\* highest epoch before any fence.
LEMMA MovesFences ==
    ASSUME FencesInv, NEW r \in Runs, Moves(r), Undisturbed(r)
    PROVE  FencesFine'
<1>0. /\ TypeOK /\ Opened /\ Alone /\ (\A q \in Runs : WorkFine(q)) /\ FencesFine
      /\ worker[r] \in Worker /\ worker \in [Runs -> Worker] /\ Top \in Nat
      /\ service \in [Service -> State]
  BY TopNat DEF FencesInv, TypeOK
<1>a. UNCHANGED << outages, down >>
  BY DEF Moves, Quiet, Mark, Reset, ResetOracle, SetFaults, Wipe, End, Unmark, Click, Open,
         Lead, faulty
<1>b. \A q \in Runs \ {r} : ClearFine(q)'
  BY <1>0, OthersWork DEF Undisturbed
<1> SUFFICES ASSUME outages = 0
    PROVE  (\A s \in Service : service'[s].fence <= Top') /\ ClearFine(r)'
  BY <1>0, <1>a, <1>b DEF FencesFine
<1>c. /\ down = {} /\ (\A s \in Service : service[s].fence <= Top) /\ ClearFine(r)
      /\ \A s \in Service : service[s].fence \in Nat
  BY <1>0 DEF FencesFine, State
<1>1. ASSUME NEW pc \in Points, Goto(r, pc), \A s \in Service : service'[s].fence = service[s].fence,
             \/ pc \notin {"oracle", "faults", "wipe"}
             \/ worker[r].pc \in {"oracle", "faults", "wipe"}
      PROVE  ClearFine(r)'
  <2>1. worker'[r].pc = pc /\ worker'[r].at = 1
    BY <1>0, <1>1, GotoDoes
  <2>2. \A i \in DOMAIN Services : ~ (i < 1)
    BY <1>0, ServiceAt
  <2> QED BY <1>c, <1>1, <2>1, <2>2 DEF ClearFine, At
<1>2. CASE Mark(r) \/ ResetOracle(r) \/ End(r) \/ Unmark(r)
  <2>1. UNCHANGED << service, journals, path >>
    BY <1>2 DEF Mark, ResetOracle, End, Unmark, disk
  <2>2. Top' = Top
    BY <2>1 DEF Top
  <2> QED BY <1>c, <1>1, <1>2, <2>1, <2>2 DEF Mark, ResetOracle, End, Unmark, At, Points
<1>3. CASE Wipe(r)
  <2>1. UNCHANGED service /\ path' = NoFile /\ worker[r].pc = "wipe"
    BY <1>3 DEF Wipe, At
  <2>2. Top' = 0 /\ \A s \in Service : service'[s].fence = 0
    BY <1>c, <2>1 DEF Top, ClearFine
  <2> QED BY <1>1, <1>3, <2>1, <2>2 DEF Wipe, Points
<1>4. CASE Reset(r)
  <2> DEFINE s == ServiceOf(r)
  <2>1. /\ service'[s].fence = 0
        /\ \A t \in Service \ {s} : service'[t] = service[t]
        /\ UNCHANGED << journals, path >> /\ Top' = Top
    BY <1>0, <1>c, <1>4, ResetTouches, ServiceAt DEF Touched, Reset, disk, Top
  <2>2. ASSUME NEW t \in Service PROVE service'[t].fence <= Top'
    BY <1>0, <1>c, <2>1
  <2>3. ASSUME NEW i \in DOMAIN Services, i <= worker[r].at
        PROVE  service'[Services[i]].fence = 0
    <3>1. CASE Services[i] = s
      BY <2>1, <3>1
    <3>2. CASE Services[i] # s
      <4>1. i < worker[r].at
        BY <1>0, <2>3, <3>2, ServiceAt DEF ServiceOf
      <4> QED BY <1>c, <1>4, <2>1, <3>2, <4>1 DEF ClearFine, Reset, Service
    <3> QED BY <3>1, <3>2
  <2>4. CASE Last(r)
    <3>1. worker'[r].pc = "oracle"
      BY <1>0, <1>4, <2>4, AdvanceDoes DEF Reset
    <3>2. \A t \in Service : service'[t].fence = 0
      BY <1>0, <2>3, <2>4, ServiceAt DEF Service, Last
    <3> QED BY <2>2, <3>1, <3>2 DEF ClearFine, At
  <2>5. CASE ~ Last(r)
    <3>1. worker'[r].pc = "reset" /\ worker'[r].at = worker[r].at + 1
      BY <1>0, <1>4, <2>5, AdvanceDoes DEF Reset, At
    <3>2. \A i \in DOMAIN Services : i < worker'[r].at => i <= worker[r].at
      BY <1>0, <3>1, ServiceAt
    <3> QED BY <2>2, <2>3, <3>1, <3>2 DEF ClearFine, At
  <2> QED BY <2>4, <2>5
<1>5. CASE SetFaults(r)
  <2>1. /\ \A t \in Service : service'[t].fence = service[t].fence
        /\ UNCHANGED << journals, path >> /\ Top' = Top
        /\ worker[r].pc = "faults"
    BY <1>0, <1>c, <1>5, SetFaultsTouches, ServiceAt DEF Touched, SetFaults, disk, Top, At
  <2>2. worker'[r].pc \in {"faults", "wipe"}
    <3>1. CASE ~ Last(r)
      BY <1>0, <1>c, <1>5, <3>1, AdvanceDoes DEF SetFaults, At
    <3>2. CASE Last(r)
      <4>1. worker' = [worker EXCEPT ![r] =
                          [@ EXCEPT !.pc = "wipe", !.at = 1, !.cleared = TRUE]]
        BY <1>c, <1>5, <3>2 DEF SetFaults
      <4> QED BY <1>0, <4>1 DEF Worker
    <3> QED BY <3>1, <3>2
  <2> QED BY <1>c, <2>1, <2>2 DEF ClearFine, At
<1>6. CASE \E sc \in Scenarios, fresh \in BOOLEAN : Click(r, sc, fresh)
  <2>1. PICK sc \in Scenarios, fresh \in BOOLEAN : Click(r, sc, fresh)
    BY <1>6
  <2>2. worker'[r].pc = "mark" /\ UNCHANGED << service, journals, path >>
    BY <1>0, <2>1 DEF Click, Worker, disk
  <2> QED BY <1>c, <2>2 DEF ClearFine, At, Top
<1>7. CASE Open(r)
  <2>1. worker'[r].pc = "work" /\ UNCHANGED service
    BY <1>0, <1>7, OpenDoes DEF Open, Worker
  <2>2. Top' = Top
    <3>1. path' # NoFile
      <4>1. path' \in 1 .. Len(journals') /\ Len(journals') \in Nat
        BY <1>0, <1>7, OpenDoes, LenProperties
      <4> QED BY <4>1 DEF NoFile
    <3> QED BY <1>0, <1>7, <3>1, OpenDoes DEF Top
  <2> QED BY <1>c, <2>1, <2>2 DEF ClearFine, At
<1>8. CASE Lead(r)
  <2> DEFINE f == worker[r].file
  <2>1. /\ worker[r].pc = "work" /\ worker'[r].pc = "work"
        /\ UNCHANGED << service, path >>
        /\ f \in 1 .. Len(journals) /\ journals[f] \in 0 .. MaxEpoch
        /\ journals'[f] = journals[f] + 1
    BY <1>0, <1>8, LeadDoes DEF Lead, At, Worker
  <2>2. f = path /\ path # NoFile
    BY <1>0, <2>1 DEF WorkFine, At, Opened
  <2>3. Top' = Top + 1
    BY <2>1, <2>2 DEF Top
  <2> QED BY <1>0, <1>c, <2>1, <2>3 DEF ClearFine, At
<1> QED BY <1>2, <1>3, <1>4, <1>5, <1>6, <1>7, <1>8 DEF Moves, Quiet

LEMMA FencesNext ==
    ASSUME Patient, FencesInv, [Next]_vars
    PROVE  FencesInv'
<1>0. TypeOK /\ Opened /\ Alone /\ (\A r \in Runs : WorkFine(r)) /\ FencesFine
  BY DEF FencesInv
<1>1. TypeOK' /\ Opened' /\ Alone'
  BY <1>0, TypeNext, AloneNext
<1>2. CASE Elsewhere
  <2>1. UNCHANGED << worker, journals, path >> /\ FencesFine'
    BY <1>2, ElsewhereKeeps, ElsewhereFences
  <2>2. \A r \in Runs : WorkFine(r)'
    BY <1>0, <2>1 DEF WorkFine, At
  <2> QED BY <1>1, <2>1, <2>2 DEF FencesInv
<1>3. ASSUME NEW r \in Runs, Moves(r) PROVE FencesInv'
  <2>1. Undisturbed(r)
    BY <1>0, <1>3, MovesAlone
  <2>2. WorkFine(r)' /\ FencesFine'
    BY <1>0, <1>3, <2>1, MovesWork, MovesFences
  <2>3. ASSUME NEW q \in Runs \ {r} PROVE WorkFine(q)'
    BY <1>0, <2>1, OthersWork DEF Undisturbed
  <2> QED BY <1>1, <2>2, <2>3 DEF FencesInv
<1> QED BY <1>2, <1>3, StepCases

LEMMA FencesInit == Init => FencesInv
<1> SUFFICES ASSUME Init PROVE FencesInv
  OBVIOUS
<1>1. \A r \in Runs : worker[r].pc = "idle" /\ worker[r].epoch = 0
  BY DEF Init
<1>2. Alone /\ \A r \in Runs : WorkFine(r) /\ ClearFine(r)
  BY <1>1 DEF Alone, WorkFine, ClearFine, InFlight, At
<1>3. down = {} /\ \A s \in Service : service[s].fence <= Top
  BY DEF Init, Started, Top
<1> QED BY <1>2, <1>3, TypeInit DEF FencesInv, FencesFine

\* One run at a time and everybody answering, no fence is above the epoch of the leader at
\* work: what an earlier journal left was cleared with it (/admin/reset, run_live).
THEOREM FencesAdmitHolds ==
    ASSUME Patient PROVE Spec => []FencesAdmit
<1>1. Init => FencesInv
  BY FencesInit
<1>2. FencesInv /\ [Next]_vars => FencesInv'
  BY FencesNext
<1>3. FencesInv => FencesAdmit
  <2> SUFFICES ASSUME FencesInv, outages = 0, NEW r \in Runs, At(r, "work"),
                      worker[r].epoch > 0, NEW s \in Service
               PROVE  service[s].fence <= worker[r].epoch
    BY DEF FencesAdmit
  <2>1. worker[r].epoch = journals[path] /\ path # NoFile
    BY DEF FencesInv, WorkFine, Opened
  <2> QED BY <2>1 DEF FencesInv, FencesFine, Top
<1> QED BY <1>1, <1>2, <1>3, PTL DEF Spec

------------------------------------------------------------------------------
(* The oracle                                                              *)

\* While everybody answers nothing waits for the ledger, a service holds its own
\* effects only, and only pages come late.
HeldFine(s) ==
    /\ service[s].buffer = {}
    /\ \A e \in service[s].keys \cup service[s].late : e.svc = s
    /\ service[s].late # {} => s = "pager"

\* Nothing of a run is anywhere before it works.
Before == Early \cup {"wipe", "open"}
Unseen(r) ==
    \A e \in Effect : e.run = r =>
        /\ e \notin ledger
        /\ \A s \in Service : e \notin service[s].keys \cup service[s].late

\* From the time the oracle was cleared for it.
Kept(r) ==
    /\ \A s \in Service, e \in Effect : e.run = r /\ e \in service[s].keys => e \in ledger
    /\ \A e \in ledger : e.run = r \/ e.svc = "pager"

OracleFine(r) ==
    /\ worker[r].pc \in Before => Unseen(r)
    /\ worker[r].fresh /\ worker[r].pc \in {"faults", "wipe", "open", "work"} => Kept(r)

OracleAll ==
    outages = 0 => /\ down = {}
                   /\ \A s \in Service : HeldFine(s)
                   /\ \A r \in Runs : OracleFine(r)

OracleInv == TypeOK /\ Opened /\ Alone /\ OracleAll

\* The steps of a worker only take away.
TakesAway ==
    /\ ledger' \in {ledger, {}}
    /\ \A s \in Service : /\ service'[s].keys \subseteq service[s].keys
                          /\ service'[s].late = service[s].late
                          /\ service'[s].buffer = service[s].buffer

LEMMA MovesTakeAway ==
    ASSUME TypeOK, NEW r \in Runs, Moves(r)
    PROVE  TakesAway /\ (~ ResetOracle(r) => ledger' = ledger)
<1>1. ledger' \in {ledger, {}} /\ (~ ResetOracle(r) => ledger' = ledger)
  BY DEF Moves, Quiet, Mark, Reset, ResetOracle, SetFaults, Wipe, End, Unmark, Click, Open,
         Lead
<1>2. service \in [Service -> State] /\ ServiceOf(r) \in Service
  BY ServiceAt DEF TypeOK
<1>3. CASE UNCHANGED service
  BY <1>1, <1>3 DEF TakesAway
<1>4. CASE Reset(r) /\ ServiceOf(r) \notin down
  <2> DEFINE s == ServiceOf(r)
  <2>1. service' = [service EXCEPT ![s] = Cleared(service[s])]
    BY <1>4 DEF Reset
  <2>2. service[s] \in State
    BY <1>2
  <2>3. /\ Cleared(service[s]).keys = {} /\ Cleared(service[s]).late = service[s].late
        /\ Cleared(service[s]).buffer = service[s].buffer
    BY <2>2 DEF Cleared, State
  <2>4. \A t \in Service : service'[t] = IF t = s THEN Cleared(service[s]) ELSE service[t]
    BY <1>2, <2>1
  <2> QED BY <1>1, <2>3, <2>4 DEF TakesAway
<1>5. CASE SetFaults(r) /\ ServiceOf(r) \notin down
  <2> DEFINE s == ServiceOf(r)
             faults == FaultsOf(worker[r].scenario)
  <2>1. service' = [service EXCEPT ![s].faults = faults]
    BY <1>5 DEF SetFaults
  <2> HIDE DEF faults
  <2>2. \A t \in Service : service'[t] = IF t = s THEN [service[s] EXCEPT !.faults = faults]
                                         ELSE service[t]
    BY <1>2, <2>1
  <2>3. service[s] \in State
    BY <1>2
  <2>4. LET new == [service[s] EXCEPT !.faults = faults] IN
        new.keys = service[s].keys /\ new.late = service[s].late
        /\ new.buffer = service[s].buffer
    BY <2>3 DEF State
  <2> QED BY <1>1, <2>2, <2>4 DEF TakesAway
<1> QED BY <1>3, <1>4, <1>5, QuietTouches DEF Moves, Open, Lead

\* A worker does not change its mind about a fresh run once it is on its way, and no step
\* leads back to where a run has not worked.
LEMMA MovesOn ==
    ASSUME TypeOK, Opened, NEW r \in Runs, Moves(r)
    PROVE  /\ worker'[r].pc \in Before => worker[r].pc \in Before
           /\ worker'[r].fresh /\ worker'[r].pc \in {"faults", "wipe", "open", "work"} =>
                 \/ ResetOracle(r)
                 \/ worker[r].fresh /\ worker[r].pc \in {"faults", "wipe", "open", "work"}
           /\ worker[r].pc # "idle" => worker'[r].fresh = worker[r].fresh
<1>0. worker[r] \in Worker /\ worker \in [Runs -> Worker]
  BY DEF TypeOK
<1>1. CASE Mark(r) \/ ResetOracle(r) \/ Wipe(r) \/ End(r) \/ Unmark(r)
  BY <1>1, GotoDoes DEF Mark, ResetOracle, Wipe, End, Unmark, Before, Early, At
<1>2. CASE Reset(r)
  <2>1. worker[r].pc = "reset" /\ worker'[r].pc \in {"reset", "oracle"}
        /\ worker'[r].fresh = worker[r].fresh
    BY <1>2, AdvanceDoes DEF Reset, At
  <2> QED BY <2>1 DEF Before, Early
<1>3. CASE SetFaults(r)
  <2>1. worker[r].pc = "faults" /\ worker'[r].pc \in {"faults", "wipe"}
        /\ worker'[r].fresh = worker[r].fresh
    <3>1. CASE ServiceOf(r) \in down
      BY <1>3, <3>1, GotoDoes DEF SetFaults, At
    <3>2. CASE ServiceOf(r) \notin down /\ ~ Last(r)
      BY <1>3, <3>2, AdvanceDoes DEF SetFaults, At
    <3>3. CASE ServiceOf(r) \notin down /\ Last(r)
      <4>1. worker' = [worker EXCEPT ![r] =
                          [@ EXCEPT !.pc = "wipe", !.at = 1, !.cleared = TRUE]]
        BY <1>3, <3>3 DEF SetFaults
      <4> QED BY <1>0, <1>3, <4>1 DEF SetFaults, At, Worker
    <3> QED BY <3>1, <3>2, <3>3
  <2> QED BY <2>1 DEF Before, Early
<1>4. CASE \E sc \in Scenarios, fresh \in BOOLEAN : Click(r, sc, fresh)
  <2>1. PICK sc \in Scenarios, fresh \in BOOLEAN : Click(r, sc, fresh)
    BY <1>4
  <2>2. worker[r].pc = "idle" /\ worker'[r].pc = "mark"
    BY <1>0, <2>1 DEF Click, At, Worker
  <2> QED BY <2>2 DEF Before, Early
<1>5. CASE Open(r)
  <2>1. worker'[r].pc = "work" /\ worker'[r].fresh = worker[r].fresh /\ worker[r].pc = "open"
    BY <1>0, <1>5, OpenDoes DEF Worker, Open, At
  <2> QED BY <2>1 DEF Before, Early
<1>6. CASE Lead(r)
  <2>1. /\ worker[r].pc = "work" /\ worker'[r].pc = "work"
        /\ worker'[r].fresh = worker[r].fresh
    BY <1>0, <1>6, LeadDoes DEF Worker, Lead, At
  <2> QED BY <2>1 DEF Before, Early
<1> QED BY <1>1, <1>2, <1>3, <1>4, <1>5, <1>6 DEF Moves, Quiet

LEMMA MovesOracle ==
    ASSUME OracleInv, NEW r \in Runs, Moves(r), Undisturbed(r)
    PROVE  OracleAll'
<1>0. /\ TypeOK /\ Opened /\ OracleAll /\ TakesAway
      /\ ~ ResetOracle(r) => ledger' = ledger
      /\ service \in [Service -> State] /\ ledger \subseteq Effect
  BY MovesTakeAway DEF OracleInv, TypeOK
<1>a. UNCHANGED << outages, down >>
  BY DEF Moves, Quiet, Mark, Reset, ResetOracle, SetFaults, Wipe, End, Unmark, Click, Open,
         Lead, faulty
<1> SUFFICES ASSUME outages = 0
    PROVE  (\A s \in Service : HeldFine(s)') /\ (\A q \in Runs : OracleFine(q)')
  BY <1>0, <1>a DEF OracleAll
<1>1. down = {} /\ (\A s \in Service : HeldFine(s)) /\ (\A q \in Runs : OracleFine(q))
  BY <1>0 DEF OracleAll
<1>2. ASSUME NEW s \in Service PROVE HeldFine(s)'
  BY <1>0, <1>1, <1>2 DEF HeldFine, TakesAway
<1>3. ASSUME NEW q \in Runs, Unseen(q) PROVE Unseen(q)'
  BY <1>0, <1>3 DEF Unseen, TakesAway
<1>4. ASSUME NEW q \in Runs, Kept(q), ledger' = ledger PROVE Kept(q)'
  BY <1>0, <1>4 DEF Kept, TakesAway
<1>5. ASSUME NEW q \in Runs \ {r} PROVE OracleFine(q)'
  <2>1. ~ InFlight(q) /\ worker'[q] = worker[q] /\ OracleFine(q)
    BY <1>1 DEF Undisturbed
  <2> QED BY <1>3, <2>1 DEF OracleFine, InFlight
<1>6. OracleFine(r)'
  <2>1. OracleFine(r)
    BY <1>1
  <2>2. worker'[r].pc \in Before => Unseen(r)'
    BY <1>0, <1>3, <2>1, MovesOn DEF OracleFine
  <2>3. ASSUME worker'[r].fresh, worker'[r].pc \in {"faults", "wipe", "open", "work"}
        PROVE  Kept(r)'
    <3>1. CASE ResetOracle(r)
      <4>1. worker[r].pc = "oracle" /\ ledger' = {}
        BY <1>1, <3>1 DEF ResetOracle, At
      <4>2. Unseen(r)
        BY <2>1, <4>1 DEF OracleFine, Before, Early
      <4> QED BY <1>0, <4>1, <4>2 DEF Kept, Unseen, TakesAway
    <3>2. CASE ~ ResetOracle(r)
      <4>1. worker[r].fresh /\ worker[r].pc \in {"faults", "wipe", "open", "work"}
        BY <1>0, <2>3, <3>2, MovesOn
      <4> QED BY <1>0, <1>4, <2>1, <3>2, <4>1 DEF OracleFine
    <3> QED BY <3>1, <3>2
  <2> QED BY <2>2, <2>3 DEF OracleFine
<1> QED BY <1>2, <1>5, <1>6

\* What the services and the oracle get to know by a step about effect e at s.
GetsToKnow(s, e) ==
    /\ ledger \subseteq ledger' /\ ledger' \subseteq ledger \cup {e}
    /\ \A t \in Service \ {s} : service'[t] = service[t]
    /\ service'[s].buffer = {}
    /\ service'[s].late \subseteq service[s].late \cup {e}
    /\ service'[s].keys \subseteq service[s].keys \cup {e}
    /\ e \in service'[s].keys => e \in service[s].keys \cup ledger'

LEMMA HoldsKnows ==
    ASSUME TypeOK, NEW s \in Service, NEW svc \in State, NEW e \in Effect, Holds(s, svc, e),
           "ledger" \notin down, service[s].buffer = {},
           svc.keys = service[s].keys, svc.late \subseteq service[s].late
    PROVE  GetsToKnow(s, e)
<1>1. service \in [Service -> State]
  BY DEF TypeOK
<1>2. /\ service' = [service EXCEPT ![s] = [svc EXCEPT !.keys = @ \cup {e}, !.buffer = {}]]
      /\ ledger' = ledger \cup {e}
  BY DEF Holds
<1>3. service'[s] = [svc EXCEPT !.keys = @ \cup {e}, !.buffer = {}]
      /\ \A t \in Service \ {s} : service'[t] = service[t]
  BY <1>1, <1>2
<1>4. /\ service'[s].buffer = {} /\ service'[s].late = svc.late
      /\ service'[s].keys = service[s].keys \cup {e}
  BY <1>3 DEF State
<1> QED BY <1>2, <1>3, <1>4 DEF GetsToKnow

LEMMA CallKnows ==
    ASSUME OracleInv, outages = 0, NEW r \in Runs, NEW s \in Service, Call(r, s)
    PROVE  /\ GetsToKnow(s, [run |-> r, svc |-> s])
           /\ service'[s].late = service[s].late \/ s = "pager"
<1> DEFINE e == [run |-> r, svc |-> s]
           svc == [service[s] EXCEPT !.fence = worker[r].epoch]
<1>1. /\ TypeOK /\ service \in [Service -> State] /\ service[s] \in State /\ e \in Effect
      /\ worker[r].epoch \in 0 .. MaxEpoch
  BY DEF OracleInv, TypeOK, Worker, Effect
<1>2. down = {} /\ service[s].buffer = {}
  BY DEF OracleInv, OracleAll, HeldFine
<1>3. /\ svc \in State /\ svc.keys = service[s].keys /\ svc.late = service[s].late
      /\ svc.buffer = service[s].buffer
  BY <1>1 DEF State
<1>4. CASE service' = [service EXCEPT ![s] = svc] /\ UNCHANGED ledger
  BY <1>1, <1>2, <1>3, <1>4 DEF GetsToKnow
<1>5. CASE /\ service' = [service EXCEPT ![s] = [svc EXCEPT !.late = @ \cup {e}]]
           /\ UNCHANGED ledger /\ s = "pager"
  <2> HIDE DEF svc, e
  <2>1. service'[s] = [svc EXCEPT !.late = @ \cup {e}]
        /\ \A t \in Service \ {s} : service'[t] = service[t]
    BY <1>1, <1>5
  <2>2. /\ service'[s].buffer = {} /\ service'[s].late = service[s].late \cup {e}
        /\ service'[s].keys = service[s].keys
    BY <1>1, <1>2, <1>3, <2>1 DEF State
  <2> QED BY <1>5, <2>1, <2>2 DEF GetsToKnow, e
<1>6. CASE Holds(s, svc, e)
  <2>1. service'[s].late = service[s].late
    <3>1. service' = [service EXCEPT ![s] = [svc EXCEPT !.keys = @ \cup {e}, !.buffer = {}]]
      BY <1>2, <1>6 DEF Holds
    <3> HIDE DEF svc, e
    <3>2. service'[s] = [svc EXCEPT !.keys = @ \cup {e}, !.buffer = {}]
      BY <1>1, <3>1
    <3> QED BY <1>1, <1>3, <3>2 DEF State
  <2> QED BY <1>1, <1>2, <1>3, <1>6, <2>1, HoldsKnows
<1> QED BY <1>1, <1>3, <1>4, <1>5, <1>6 DEF Call

LEMMA UndoKnows ==
    ASSUME OracleInv, outages = 0, NEW r \in Runs, NEW s \in Service, Undo(r, s)
    PROVE  /\ GetsToKnow(s, [run |-> r, svc |-> s])
           /\ service'[s].late = service[s].late
<1> DEFINE e == [run |-> r, svc |-> s]
<1>1. /\ TypeOK /\ service \in [Service -> State] /\ service[s] \in State
  BY DEF OracleInv, TypeOK
<1>2. down = {} /\ service[s].buffer = {}
  BY DEF OracleInv, OracleAll, HeldFine
<1>3. /\ service' = [service EXCEPT ![s] =
             [service[s] EXCEPT !.fence = worker[r].epoch, !.keys = @ \ {e}, !.buffer = {}]]
      /\ ledger' = ledger
  BY <1>2 DEF Undo
<1> HIDE DEF e
<1>4. service'[s] = [service[s] EXCEPT !.fence = worker[r].epoch, !.keys = @ \ {e},
                                       !.buffer = {}]
      /\ \A t \in Service \ {s} : service'[t] = service[t]
  BY <1>1, <1>3
<1>5. /\ service'[s].buffer = {} /\ service'[s].late = service[s].late
      /\ service'[s].keys = service[s].keys \ {e}
  BY <1>1, <1>4 DEF State
<1> QED BY <1>3, <1>4, <1>5 DEF GetsToKnow, e

LEMMA LandKnows ==
    ASSUME OracleInv, outages = 0, NEW s \in Service, NEW e \in service[s].late, Land(s, e)
    PROVE  GetsToKnow(s, e)
<1> DEFINE svc == [service[s] EXCEPT !.late = @ \ {e}]
<1>1. /\ TypeOK /\ service \in [Service -> State] /\ service[s] \in State /\ e \in Effect
  BY DEF OracleInv, TypeOK, State
<1>2. down = {} /\ service[s].buffer = {}
  BY DEF OracleInv, OracleAll, HeldFine
<1>3. /\ svc \in State /\ svc.keys = service[s].keys /\ svc.late = service[s].late \ {e}
      /\ svc.buffer = service[s].buffer
  BY <1>1 DEF State
<1>4. CASE service' = [service EXCEPT ![s] = svc] /\ UNCHANGED ledger /\ e \in service[s].keys
  BY <1>1, <1>2, <1>3, <1>4 DEF GetsToKnow
<1>5. CASE Holds(s, svc, e)
  BY <1>1, <1>2, <1>3, <1>5, HoldsKnows
<1> QED BY <1>4, <1>5 DEF Land

\* Effects of the run at work, and pages that come late, keep the oracle as it should be.
LEMMA KnowsOracle ==
    ASSUME OracleInv, outages = 0, NEW s \in Service, NEW e \in Effect, GetsToKnow(s, e),
           UNCHANGED << worker, down >>, e.svc = s,
           service'[s].late \subseteq service[s].late \/ s = "pager",
           \/ e \in service[s].late
           \/ At(e.run, "work")
    PROVE  OracleAll'
<1>1. /\ TypeOK /\ Alone /\ down = {} /\ (\A t \in Service : HeldFine(t))
      /\ \A q \in Runs : OracleFine(q)
      /\ e.run \in Runs
  BY DEF OracleInv, OracleAll, Effect
<1>2. ASSUME NEW t \in Service PROVE HeldFine(t)'
  <2>1. CASE t = s
    BY <1>1, <2>1 DEF HeldFine, GetsToKnow
  <2>2. CASE t # s
    BY <1>1, <2>2 DEF HeldFine, GetsToKnow
  <2> QED BY <2>1, <2>2
<1>3. ASSUME NEW q \in Runs, worker[q].pc \in Before PROVE Unseen(q)'
  <2>1. Unseen(q)
    BY <1>1, <1>3 DEF OracleFine
  <2>2. e.run # q
    BY <1>3, <2>1 DEF Unseen, At, Before, Early
  <2>3. \A t \in Service : /\ service'[t].keys \subseteq service[t].keys \cup {e}
                           /\ service'[t].late \subseteq service[t].late \cup {e}
    BY DEF GetsToKnow
  <2> QED BY <2>1, <2>2, <2>3 DEF Unseen, GetsToKnow
<1>4. ASSUME NEW q \in Runs, worker[q].fresh, worker[q].pc \in {"faults", "wipe", "open", "work"}
      PROVE  Kept(q)'
  <2>1. Kept(q)
    BY <1>1, <1>4 DEF OracleFine
  <2>2. e.run = q \/ e.svc = "pager"
    BY <1>1, <1>4 DEF HeldFine, Alone, InFlight, At
  <2>3. ASSUME NEW t \in Service, NEW x \in Effect, x.run = q, x \in service'[t].keys
        PROVE  x \in ledger'
    <3>1. CASE x \in service[t].keys
      BY <2>1, <2>3, <3>1 DEF Kept, GetsToKnow
    <3>2. CASE x \notin service[t].keys
      BY <2>3, <3>2 DEF GetsToKnow
    <3> QED BY <3>1, <3>2
  <2> QED BY <2>1, <2>2, <2>3 DEF Kept, GetsToKnow
<1> QED BY <1>1, <1>2, <1>3, <1>4 DEF OracleAll, OracleFine

LEMMA ElsewhereOracle ==
    ASSUME OracleInv, Elsewhere
    PROVE  OracleAll'
<1>1. TypeOK /\ OracleAll /\ UNCHANGED worker /\ outages \in Nat
  BY ElsewhereKeeps, LiveRunAssumption DEF OracleInv, TypeOK
<1>2. ASSUME NEW r \in Runs, NEW s \in Service, Call(r, s) \/ Undo(r, s) PROVE OracleAll'
  <2> DEFINE e == [run |-> r, svc |-> s]
  <2>1. UNCHANGED << down, outages >> /\ At(r, "work")
    BY <1>2 DEF Call, Undo, faulty
  <2>2. e \in Effect /\ e.svc = s /\ e.run = r
    BY DEF Effect
  <2>3. CASE outages = 0
    <3>1. GetsToKnow(s, e) /\ (service'[s].late = service[s].late \/ s = "pager")
      BY <1>2, <2>3, CallKnows, UndoKnows
    <3> HIDE DEF e
    <3> QED BY <1>1, <2>1, <2>2, <2>3, <3>1, KnowsOracle
  <2> QED BY <2>1, <2>3 DEF OracleAll
<1>3. ASSUME NEW s \in Service, NEW e \in service[s].late, Land(s, e) PROVE OracleAll'
  <2>1. UNCHANGED << down, outages >> /\ e \in Effect
    BY <1>1, <1>3 DEF Land, faulty, TypeOK, State
  <2>2. CASE outages = 0
    <3>1. GetsToKnow(s, e) /\ HeldFine(s)
      BY <1>1, <1>3, <2>2, LandKnows DEF OracleAll
    <3> QED BY <1>1, <1>3, <2>1, <2>2, <3>1, KnowsOracle DEF HeldFine
  <2> QED BY <2>1, <2>2 DEF OracleAll
<1>4. ASSUME NEW x \in Service \cup {"ledger"}, Fail(x) PROVE OracleAll'
  <2>1. outages' # 0
    BY <1>1, <1>4 DEF Fail
  <2> QED BY <2>1 DEF OracleAll
<1>5. ASSUME NEW x \in Service \cup {"ledger"}, Return(x) PROVE OracleAll'
  <2>1. UNCHANGED outages /\ down # {}
    BY <1>5 DEF Return
  <2> QED BY <1>1, <2>1 DEF OracleAll
<1>6. CASE UNCHANGED vars
  BY <1>1, <1>6 DEF vars, OracleAll, HeldFine, OracleFine, Unseen, Kept
<1> QED BY <1>2, <1>3, <1>4, <1>5, <1>6 DEF Elsewhere

LEMMA OracleNext ==
    ASSUME Patient, OracleInv, [Next]_vars
    PROVE  OracleInv'
<1>1. TypeOK' /\ Opened' /\ Alone'
  BY TypeNext, AloneNext DEF OracleInv
<1>2. CASE Elsewhere
  BY <1>1, <1>2, ElsewhereOracle DEF OracleInv
<1>3. ASSUME NEW r \in Runs, Moves(r) PROVE OracleInv'
  BY <1>1, <1>3, MovesAlone, MovesOracle DEF OracleInv
<1> QED BY <1>2, <1>3, StepCases

LEMMA OracleInit == Init => OracleInv
<1> SUFFICES ASSUME Init PROVE OracleInv
  OBVIOUS
<1>1. \A r \in Runs : worker[r].pc = "idle"
  BY DEF Init
<1>2. Alone
  BY <1>1 DEF Alone, InFlight
<1>3. \A s \in Service : HeldFine(s)
  BY DEF Init, Started, HeldFine
<1>4. \A r \in Runs : OracleFine(r)
  BY <1>1 DEF Init, Started, OracleFine, Unseen
<1> QED BY <1>2, <1>3, <1>4, TypeInit DEF Init, OracleInv, OracleAll

\* One run at a time and everybody answering, the oracle has every effect of a fresh run
\* that the services hold, and of the runs before it nothing but pages that came late
\* (HttpLedger.reset, /admin/reset, _schedule_late).
THEOREM OracleOfRunHolds ==
    ASSUME Patient PROVE Spec => []OracleOfRun
<1>1. Init => OracleInv
  BY OracleInit
<1>2. OracleInv /\ [Next]_vars => OracleInv'
  BY OracleNext
<1>3. OracleInv => OracleOfRun
  <2> SUFFICES ASSUME OracleInv, outages = 0, NEW r \in Runs, At(r, "work"), worker[r].fresh
               PROVE  /\ \A s \in Service, e \in Effect :
                             e.run = r /\ e \in service[s].keys => e \in ledger /\ e.svc = s
                      /\ \A e \in ledger : e.run = r \/ e.svc = "pager"
    BY DEF OracleOfRun
  <2> QED BY DEF OracleInv, OracleAll, OracleFine, HeldFine, Kept, At
<1> QED BY <1>1, <1>2, <1>3, PTL DEF Spec
=============================================================================
