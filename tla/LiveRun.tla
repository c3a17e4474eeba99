------------------------------ MODULE LiveRun -------------------------------
(***************************************************************************)
(* Runs over the distributed path: the worker threads of POST              *)
(* /api/run_live (palimpsest/dashboard.py), which clear the services and   *)
(* the oracle (HttpWorld.reset, HttpLedger.reset and HttpWorld.set_faults  *)
(* of palimpsest/http_world.py; the /admin endpoints of                    *)
(* palimpsest/services.py), wipe the live journal and start a producer and *)
(* an orchestrator as processes of their own.                              *)
(*                                                                         *)
(* What outlives a run is in the memory of the services: the keys, the     *)
(* fence, the faults, the entries the ledger did not take, and timers that *)
(* have not fired. Every run is of the same demo alert, whichever message  *)
(* of the stream its orchestrator gets, and so of one workflow; its keys   *)
(* are its own, made from the names of its branches. A call is one step.   *)
(***************************************************************************)
EXTENDS Sequences, Naturals

CONSTANTS
    Runs,          \* worker threads, one for each click
    Services,      \* sequence: the effect services, in the order they are cleared
    Scenarios,     \* LIVE_SCENARIOS, among "poison", "zombie" and "redelivery"
    Patient,       \* the presenter waits for a run to be over before the next
    MaxEpoch,      \* bound: leases granted in one journal
    MaxOutages     \* bound: times a service or the ledger is out of reach

ASSUME LiveRunAssumption ==
    /\ Services \in Seq({"ticket", "channel", "pager"}) /\ Services # << >>
    /\ \A i, j \in DOMAIN Services : Services[i] = Services[j] => i = j
    /\ Scenarios \subseteq {"poison", "zombie", "redelivery"}
    /\ Patient \in BOOLEAN
    /\ {MaxEpoch, MaxOutages} \subseteq Nat

VARIABLES
    worker,     \* run -> [pc, at, scenario, fresh, cleared, file, epoch]
    live,       \* "live" is in the server's table of what is running
    service,    \* service -> [faults, fence, keys, late, buffer]
    ledger,     \* entries of the ground-truth ledger
    journals,   \* the live journals there ever were: file -> highest epoch
    path,       \* the file at live_db, 0 if there is none
    down,       \* who is out of reach
    outages

vars == << worker, live, service, ledger, journals, path, down, outages >>

Service == {Services[i] : i \in DOMAIN Services}
Effect  == [run : Runs, svc : Service]
NoFile  == 0

\* A service just started.
Started == [faults |-> "none", fence |-> 0, keys |-> {}, late |-> {}, buffer |-> {}]

Init ==
    /\ worker = [r \in Runs |-> [pc |-> "idle", at |-> 1, scenario |-> "none", fresh |-> TRUE,
                                 cleared |-> FALSE, file |-> NoFile, epoch |-> 0]]
    /\ live = FALSE
    /\ service = [s \in Service |-> Started]
    /\ ledger = {}
    /\ journals = << >> /\ path = NoFile
    /\ down = {} /\ outages = 0

------------------------------------------------------------------------------
(* The worker                                                              *)

At(r, pc) == worker[r].pc = pc
Goto(r, pc) == worker' = [worker EXCEPT ![r] = [@ EXCEPT !.pc = pc, !.at = 1]]
ServiceOf(r) == Services[worker[r].at]
Last(r) == worker[r].at = Len(Services)
InFlight(r) == worker[r].pc \notin {"idle", "over"}

disk   == << journals, path >>
faulty == << down, outages >>

\* POST /api/run_live.  The page asks for a fresh run; a caller need not.
Click(r, scenario, fresh) ==
    /\ At(r, "idle")
    /\ Patient => \A q \in Runs : ~ InFlight(q)
    /\ worker' = [worker EXCEPT ![r] = [@ EXCEPT !.pc = "mark", !.scenario = scenario,
                                                 !.fresh = fresh]]
    /\ UNCHANGED << live, service, ledger, disk, faulty >>

Mark(r) ==
    /\ At(r, "mark")
    /\ live' = TRUE
    /\ Goto(r, IF worker[r].fresh THEN "reset" ELSE "open")
    /\ UNCHANGED << service, ledger, disk, faulty >>

\* On to the next service, or to pc after the last.
Advance(r, pc) ==
    IF Last(r) THEN Goto(r, pc) ELSE worker' = [worker EXCEPT ![r].at = @ + 1]

\* The fences are left as they are.
Bug_Cleared(svc) == [svc EXCEPT !.keys = {}]

\* /admin/reset: the keys and both fences; not the timers, the faults or the buffer.
Cleared(svc) == [svc EXCEPT !.keys = {}, !.fence = 0]

\* HttpWorld.reset: a service that does not answer is passed over.
Reset(r) ==
    /\ At(r, "reset")
    /\ LET s == ServiceOf(r) IN
           service' = IF s \in down THEN service
                      ELSE [service EXCEPT ![s] = Cleared(@)]
    /\ Advance(r, "oracle")
    /\ UNCHANGED << live, ledger, disk, faulty >>

\* The oracle is left as it is.
Bug_ResetOracle(r) ==
    /\ At(r, "oracle")
    /\ Goto(r, IF "ledger" \in down THEN "wipe" ELSE "faults")
    /\ UNCHANGED << live, service, ledger, disk, faulty >>

\* HttpLedger.reset raises, and the rest of the clearing is skipped.
ResetOracle(r) ==
    /\ At(r, "oracle")
    /\ ledger' = IF "ledger" \in down THEN ledger ELSE {}
    /\ Goto(r, IF "ledger" \in down THEN "wipe" ELSE "faults")
    /\ UNCHANGED << live, service, disk, faulty >>

FaultsOf(scenario) == IF scenario = "redelivery" THEN "none" ELSE scenario

\* The faults of a scenario without any are not sent.
Bug_SetFaults(r) ==
    /\ At(r, "faults")
    /\ LET s == ServiceOf(r) IN
       IF s \in down THEN Goto(r, "wipe") /\ UNCHANGED service
       ELSE /\ service' = [service EXCEPT ![s].faults =
                   IF worker[r].scenario = "redelivery" THEN @ ELSE worker[r].scenario]
            /\ IF Last(r)
               THEN worker' = [worker EXCEPT ![r] =
                        [@ EXCEPT !.pc = "wipe", !.at = 1, !.cleared = TRUE]]
               ELSE Advance(r, "wipe")
    /\ UNCHANGED << live, ledger, disk, faulty >>

\* HttpWorld.set_faults, always the full set; it raises, and so the services after one
\* that does not answer keep what they had.
SetFaults(r) ==
    /\ At(r, "faults")
    /\ LET s == ServiceOf(r) IN
       IF s \in down THEN Goto(r, "wipe") /\ UNCHANGED service
       ELSE /\ service' = [service EXCEPT ![s].faults = FaultsOf(worker[r].scenario)]
            /\ IF Last(r)
               THEN worker' = [worker EXCEPT ![r] =
                        [@ EXCEPT !.pc = "wipe", !.at = 1, !.cleared = TRUE]]
               ELSE Advance(r, "wipe")
    /\ UNCHANGED << live, ledger, disk, faulty >>

\* The journal, its log files and the verdict beside it.
Wipe(r) ==
    /\ At(r, "wipe")
    /\ path' = NoFile
    /\ Goto(r, "open")
    /\ UNCHANGED << live, service, ledger, journals, faulty >>

\* run_orchestrator.py opens the journal, or makes one.
Open(r) ==
    /\ At(r, "open")
    /\ LET new == path = NoFile
           file == IF new THEN Len(journals) + 1 ELSE path IN
           /\ journals' = IF new THEN Append(journals, 0) ELSE journals
           /\ path' = file
           /\ worker' = [worker EXCEPT ![r] = [@ EXCEPT !.pc = "work", !.file = file]]
    /\ UNCHANGED << live, service, ledger, faulty >>

\* The orchestrator is through, or the stream had nothing for it, or its time is up
\* and it is killed; or it is never started, because the producer's time was up.
End(r) ==
    /\ At(r, "work") \/ At(r, "open")
    /\ Goto(r, "unmark")
    /\ UNCHANGED << live, service, ledger, disk, faulty >>

Unmark(r) ==
    /\ At(r, "unmark")
    /\ live' = FALSE
    /\ Goto(r, "over")
    /\ UNCHANGED << service, ledger, disk, faulty >>

------------------------------------------------------------------------------
(* The orchestrator at work                                                *)

\* Each message, and each attempt, takes the lease anew.
Lead(r) ==
    /\ At(r, "work")
    /\ journals[worker[r].file] < MaxEpoch
    /\ journals' = [journals EXCEPT ![worker[r].file] = @ + 1]
    /\ worker' = [worker EXCEPT ![r].epoch = journals'[worker[r].file]]
    /\ UNCHANGED << live, service, ledger, path, faulty >>

\* Takes the effect and records it, with whatever the ledger has not taken before.
Holds(s, svc, e) ==
    IF "ledger" \in down
    THEN /\ service' = [service EXCEPT ![s] =
                [svc EXCEPT !.keys = @ \cup {e}, !.buffer = @ \cup {e}]]
         /\ UNCHANGED ledger
    ELSE /\ service' = [service EXCEPT ![s] =
                [svc EXCEPT !.keys = @ \cup {e}, !.buffer = {}]]
         /\ ledger' = ledger \cup service[s].buffer \cup {e}

\* A page under the scenario's faults: "zombie" lets it time out and land later,
\* "poison" rejects the one to the empty rota and lets another through.
Call(r, s) ==
    LET e == [run |-> r, svc |-> s]
        svc == [service[s] EXCEPT !.fence = worker[r].epoch]
        faults == IF s = "pager" THEN service[s].faults ELSE "none" IN
    /\ At(r, "work") /\ worker[r].epoch > 0
    /\ s \notin down /\ worker[r].epoch >= service[s].fence
    /\ \/ /\ e \in service[s].keys \/ faults = "poison"
          /\ service' = [service EXCEPT ![s] = svc]
          /\ UNCHANGED ledger
       \/ /\ e \notin service[s].keys /\ faults = "zombie"
          /\ service' = [service EXCEPT ![s] = [svc EXCEPT !.late = @ \cup {e}]]
          /\ UNCHANGED ledger
       \/ e \notin service[s].keys /\ faults # "zombie" /\ Holds(s, svc, e)
    /\ UNCHANGED << worker, live, disk, faulty >>

\* A compensation; its own entry is not among those kept here.
Undo(r, s) ==
    LET e == [run |-> r, svc |-> s]
        kept == IF "ledger" \in down THEN service[s].buffer ELSE {} IN
    /\ At(r, "work") /\ worker[r].epoch > 0
    /\ s \notin down /\ worker[r].epoch >= service[s].fence
    /\ e \in service[s].keys
    /\ service' = [service EXCEPT ![s] =
           [service[s] EXCEPT !.fence = worker[r].epoch, !.keys = @ \ {e}, !.buffer = kept]]
    /\ ledger' = ledger \cup (service[s].buffer \ kept)
    /\ UNCHANGED << worker, live, disk, faulty >>

\* A timer fires, whoever is running by now.
Land(s, e) ==
    /\ e \in service[s].late
    /\ LET svc == [service[s] EXCEPT !.late = @ \ {e}] IN
           IF e \in service[s].keys
           THEN service' = [service EXCEPT ![s] = svc] /\ UNCHANGED ledger
           ELSE Holds(s, svc, e)
    /\ UNCHANGED << worker, live, disk, faulty >>

------------------------------------------------------------------------------
(* Outages                                                                 *)

Fail(x) ==
    /\ outages < MaxOutages /\ x \notin down
    /\ outages' = outages + 1 /\ down' = down \cup {x}
    /\ UNCHANGED << worker, live, service, ledger, disk >>

\* It answers again: it was slow, or was started again with nothing in memory.
Return(x) ==
    /\ x \in down /\ down' = down \ {x}
    /\ \/ UNCHANGED << service, ledger >>
       \/ x # "ledger" /\ service' = [service EXCEPT ![x] = Started] /\ UNCHANGED ledger
       \/ x = "ledger" /\ ledger' = {} /\ UNCHANGED service
    /\ UNCHANGED << worker, live, disk, outages >>

------------------------------------------------------------------------------
Setup(r) == Mark(r) \/ Reset(r) \/ ResetOracle(r) \/ SetFaults(r) \/ Wipe(r) \/ Open(r)

Next ==
    \/ \E r \in Runs : \/ \E sc \in Scenarios, fresh \in BOOLEAN : Click(r, sc, fresh)
                       \/ Setup(r) \/ Lead(r) \/ End(r) \/ Unmark(r)
                       \/ \E s \in Service : Call(r, s) \/ Undo(r, s)
    \/ \E s \in Service : \E e \in service[s].late : Land(s, e)
    \/ \E x \in Service \cup {"ledger"} : Fail(x) \/ Return(x)

Spec == Init /\ [][Next]_vars

------------------------------------------------------------------------------
(* Properties                                                              *)

Points == {"idle", "mark", "reset", "oracle", "faults", "wipe", "open", "work", "unmark",
           "over"}
Faults == {"none", "poison", "zombie"}
Worker == [pc : Points, at : DOMAIN Services, scenario : Scenarios \cup {"none"},
           fresh : BOOLEAN, cleared : BOOLEAN, file : 0 .. Len(journals), epoch : 0 .. MaxEpoch]
State  == [faults : Faults, fence : 0 .. MaxEpoch, keys : SUBSET Effect,
           late : SUBSET Effect, buffer : SUBSET Effect]

TypeOK ==
    /\ worker \in [Runs -> Worker]
    /\ live \in BOOLEAN
    /\ service \in [Service -> State]
    /\ ledger \subseteq Effect
    /\ journals \in Seq(0 .. MaxEpoch) /\ path \in 0 .. Len(journals)
    /\ down \subseteq Service \cup {"ledger"} /\ outages \in 0 .. MaxOutages

\* A run whose clearing went through works under its own faults, whoever ran before
\* and whichever service was started again meanwhile (set_faults).
FaultsFresh ==
    \A r \in Runs : At(r, "work") /\ worker[r].cleared =>
        \A s \in Service : service[s].faults \in {"none", FaultsOf(worker[r].scenario)}

\* No leader is refused as a predecessor's while everybody answers, although every
\* wipe starts the epochs over and no fence goes down on its own (/admin/reset).
FencesAdmit ==
    outages = 0 => \A r \in Runs : At(r, "work") /\ worker[r].epoch > 0 =>
        \A s \in Service : service[s].fence <= worker[r].epoch

\* While everybody answers, the oracle has every effect of a fresh run that the services
\* hold, and of the runs before it nothing but pages that came late.
OracleOfRun ==
    outages = 0 => \A r \in Runs : At(r, "work") /\ worker[r].fresh =>
        /\ \A s \in Service, e \in Effect :
               e.run = r /\ e \in service[s].keys => e \in ledger /\ e.svc = s
        /\ \A e \in ledger : e.run = r \/ e.svc = "pager"
=============================================================================
