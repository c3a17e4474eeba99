------------------------------- MODULE Intake -------------------------------
(***************************************************************************)
(* How alerts reach the engine: the Redis stream and its consumer group    *)
(* (palimpsest/ingest.py), the main loop of an orchestrator process        *)
(* (run_orchestrator.py), and the lease each alert's workflow is handled   *)
(* under, with the clock (acquire_lease, palimpsest/journal.py).           *)
(*                                                                         *)
(* A message is its position in the stream.  Time is kept as what is left  *)
(* or has gone by, up to where the code stops telling values apart, so it  *)
(* needs no bound.  What the engine does under the lease is one step here. *)
(***************************************************************************)
EXTENDS Sequences, FiniteSetsExt

CONSTANTS
    Alerts,        \* alert ids; each is one workflow
    Consumers,     \* processes, by their owner and consumer name
    NoOwner,
    BatchSize,     \* messages a read or a claim returns at most (10)
    Ttl,           \* how long a lease is granted for
    ClaimIdle,     \* how long a message must be pending to be reclaimed
    BusyTimeout,   \* how long a process waits for the journal's write lock
    Feeds,         \* bound: what is published, and in which order
    MaxStops       \* bound: processes killed or told to stop

ASSUME IntakeAssumption ==
    /\ NoOwner \notin Consumers
    /\ {BatchSize, Ttl, ClaimIdle} \subseteq Nat \ {0}
    /\ {BusyTimeout, MaxStops} \subseteq Nat
    /\ Feeds \subseteq Seq(Alerts)

VARIABLES
    stream,    \* sequence of alerts, as published
    cursor,    \* the group's last-delivered message
    pending,   \* message delivered and not acknowledged -> [owner, idle]
    leases,    \* alert -> [owner, epoch, left]
    proc,      \* consumer -> what the process has in memory
    settled,   \* alerts that were handled to an outcome
    stops

groupVars == << stream, cursor, pending >>
vars == << stream, cursor, pending, leases, proc, settled, stops >>

Messages == DOMAIN stream
Acked    == (1 .. cursor) \ DOMAIN pending
NoMessage == 0

\* What a process holds in memory: the loop it is in and how far it is with the
\* message at hand (msg), the messages still to come (batch, taken in order), its
\* table _msg_ids, the age of its clock reading, and whether it was told to stop.
Started == [loop |-> "top", pc |-> "next", msg |-> NoMessage, batch |-> {},
            ids |-> [a \in Alerts |-> NoMessage], waited |-> 0, stop |-> FALSE]
Down == [Started EXCEPT !.pc = "down"]
Deaf == [Started EXCEPT !.pc = "deaf"]

Init ==
    /\ stream = << >> /\ cursor = 0 /\ pending = << >>
    /\ leases = [a \in Alerts |-> [owner |-> NoOwner, epoch |-> 0, left |-> -BusyTimeout]]
    /\ proc = [c \in Consumers |-> Started]
    /\ settled = {} /\ stops = 0

------------------------------------------------------------------------------
(* The consumer group                                                      *)

At(c, pc) == proc[c].pc = pc

\* The n first messages of a set.
First(n, S) == {m \in S : Cardinality({k \in S : k < m}) < n}

\* Delivered to c just now; whoever had them has lost them.
Delivered(c, batch) ==
    pending' = [m \in DOMAIN pending \cup batch |->
                   IF m \in batch THEN [owner |-> c, idle |-> 0] ELSE pending[m]]

\* publish and redeliver: each time a message of its own.
Publish(a) ==
    /\ stream' = Append(stream, a)
    /\ \E feed \in Feeds : \A m \in DOMAIN stream' :
           m \in DOMAIN feed /\ stream'[m] = feed[m]
    /\ UNCHANGED << cursor, pending, leases, proc, settled, stops >>

Waiting(m) == m \in DOMAIN pending /\ pending[m].idle = ClaimIdle

\* Only what another consumer holds is reclaimed.
Bug_StaleOfOthers(c) == {m \in Messages : Waiting(m) /\ pending[m].owner # c}

\* What XAUTOCLAIM hands over, whoever it was delivered to, c included.
Stale(c) == {m \in Messages : Waiting(m)}

\* claim_stale enters every message of its list in the table before the first is
\* handled: of several for one alert the last one stays.
Entered(c, batch, ids) ==
    \A a \in Alerts :
        LET own == {m \in batch : stream[m] = a} IN
        IF own = {} THEN ids[a] = proc[c].ids[a]
                    ELSE ids[a] \in own /\ \A m \in own : m <= ids[a]

Claim(c) ==
    /\ At(c, "next") /\ proc[c].loop = "top" /\ ~ proc[c].stop
    /\ \E ids \in [Alerts -> 0 .. cursor] :
           LET batch == First(BatchSize, Stale(c)) IN
           /\ Entered(c, batch, ids)
           /\ Delivered(c, batch)
           /\ proc' = [proc EXCEPT ![c] =
                  [@ EXCEPT !.loop = "claim", !.batch = batch, !.ids = ids]]
    /\ UNCHANGED << stream, cursor, leases, settled, stops >>

\* A full batch, whether or not the stream has one.
Bug_ReadUpTo == cursor + BatchSize

\* XREADGROUP goes on after the last message that anybody was given.
ReadUpTo == IF cursor + BatchSize < Len(stream) THEN cursor + BatchSize ELSE Len(stream)
Unread == cursor + 1 .. ReadUpTo

\* consume reads on until there is nothing new, then the main loop starts over.
Read(c) ==
    /\ At(c, "next") /\ proc[c].loop # "top" /\ proc[c].batch = {}
    /\ Delivered(c, Unread)
    /\ cursor' = ReadUpTo
    /\ proc' = [proc EXCEPT ![c] =
           [@ EXCEPT !.loop = IF Unread = {} THEN "top" ELSE "consume", !.batch = Unread]]
    /\ UNCHANGED << stream, leases, settled, stops >>

------------------------------------------------------------------------------
(* The main loop                                                           *)

AlertAt(c) == stream[proc[c].msg]

\* The next message of the batch; consume enters it in the table as it is
\* yielded.  The engine reads the clock, then waits for the write lock.
Take(c) ==
    /\ At(c, "next")
    /\ \E m \in proc[c].batch :
           /\ \A k \in proc[c].batch : m <= k
           /\ proc' = [proc EXCEPT ![c] =
                  [@ EXCEPT !.pc = "ask", !.msg = m, !.waited = 0,
                            !.batch = proc[c].batch \ {m},
                            !.ids = IF proc[c].loop = "consume"
                                    THEN [proc[c].ids EXCEPT ![stream[m]] = m]
                                    ELSE proc[c].ids]]
    /\ UNCHANGED << groupVars, leases, settled, stops >>

\* After a message: a process told to stop leaves the consume loop, and only that.
Handled(c, ids) ==
    LET leaves == proc[c].loop = "consume" /\ proc[c].stop IN
    [proc[c] EXCEPT !.pc = "next", !.msg = NoMessage, !.waited = 0, !.ids = ids,
                    !.loop = IF leaves THEN "top" ELSE @,
                    !.batch = IF leaves THEN {} ELSE @]

\* The clock is compared with the new expiry.
Bug_MayLead(c, a) == leases[a].owner = c \/ leases[a].left <= Ttl - proc[c].waited

\* The compare-and-swap: own, or expired when the clock was read.
MayLead(c, a) == leases[a].owner = c \/ leases[a].left <= - proc[c].waited

Lead(c) ==
    /\ At(c, "ask") /\ MayLead(c, AlertAt(c))
    /\ leases' = [leases EXCEPT ![AlertAt(c)] =
           [owner |-> c, epoch |-> @.epoch + 1, left |-> Ttl - proc[c].waited]]
    /\ proc' = [proc EXCEPT ![c] = [@ EXCEPT !.pc = "work", !.waited = 0]]
    /\ UNCHANGED << groupVars, settled, stops >>

\* The message of a process that may not lead is acknowledged all the same.
Bug_RefuseAndAck(c) ==
    /\ At(c, "ask") /\ ~ MayLead(c, AlertAt(c))
    /\ proc' = [proc EXCEPT ![c] = [@ EXCEPT !.pc = "settled", !.waited = 0]]
    /\ UNCHANGED << groupVars, leases, settled, stops >>

\* not_leader: the message stays pending, and stays in the table.
Refuse(c) ==
    /\ At(c, "ask") /\ ~ MayLead(c, AlertAt(c))
    /\ proc' = [proc EXCEPT ![c] = Handled(c, proc[c].ids)]
    /\ UNCHANGED << groupVars, leases, settled, stops >>

\* The engine returns with an outcome, deposed meanwhile or not.
Settle(c) ==
    /\ At(c, "work")
    /\ settled' = settled \cup {AlertAt(c)}
    /\ proc' = [proc EXCEPT ![c].pc = "settled"]
    /\ UNCHANGED << groupVars, leases, stops >>

\* ack: whichever message the table has for the alert, if any, and whoever holds
\* it by now.
Ack(c) ==
    /\ At(c, "settled")
    /\ LET a == AlertAt(c) IN
           /\ pending' = [m \in DOMAIN pending \ {proc[c].ids[a]} |-> pending[m]]
           /\ proc' = [proc EXCEPT ![c] = Handled(c, [proc[c].ids EXCEPT ![a] = NoMessage])]
    /\ UNCHANGED << stream, cursor, leases, settled, stops >>

\* Told to stop, a process ends at the top of its loop.
Exit(c) ==
    /\ proc[c].stop
    /\ At(c, "deaf") \/ (At(c, "next") /\ proc[c].loop = "top")
    /\ proc' = [proc EXCEPT ![c] = Down]
    /\ UNCHANGED << groupVars, leases, settled, stops >>

------------------------------------------------------------------------------
(* The environment                                                         *)

Signal(c) ==
    /\ stops < MaxStops /\ ~ At(c, "down") /\ ~ proc[c].stop
    /\ stops' = stops + 1
    /\ proc' = [proc EXCEPT ![c].stop = TRUE]
    /\ UNCHANGED << groupVars, leases, settled >>

Crash(c) ==
    /\ stops < MaxStops /\ ~ At(c, "down")
    /\ stops' = stops + 1
    /\ proc' = [proc EXCEPT ![c] = Down]
    /\ UNCHANGED << groupVars, leases, settled >>

\* Under the same name, with an empty table.
Restart(c) ==
    /\ At(c, "down")
    /\ proc' = [proc EXCEPT ![c] = Started]
    /\ UNCHANGED << groupVars, leases, settled, stops >>

\* alert_source: Redis is out of reach as the process starts, and it listens to an
\* empty queue of its own, even when Redis is back.
FallBack(c) ==
    /\ At(c, "down")
    /\ proc' = [proc EXCEPT ![c] = Deaf]
    /\ UNCHANGED << groupVars, leases, settled, stops >>

\* Time goes by; no wait for the write lock is longer than the busy timeout.
Tick ==
    /\ \A c \in Consumers : At(c, "ask") => proc[c].waited < BusyTimeout
    /\ pending' = [m \in DOMAIN pending |-> [pending[m] EXCEPT !.idle = Min({@ + 1, ClaimIdle})]]
    /\ leases' = [a \in Alerts |-> [leases[a] EXCEPT !.left = Max({@ - 1, - BusyTimeout})]]
    /\ proc' = [c \in Consumers |-> IF At(c, "ask")
                                    THEN [proc[c] EXCEPT !.waited = @ + 1] ELSE proc[c]]
    /\ UNCHANGED << stream, cursor, settled, stops >>

------------------------------------------------------------------------------
Loop(c) == Claim(c) \/ Read(c) \/ Take(c) \/ Exit(c)
Handle(c) == Lead(c) \/ Refuse(c) \/ Settle(c) \/ Ack(c)

Next ==
    \/ \E a \in Alerts : Publish(a)
    \/ \E c \in Consumers : \/ Loop(c) \/ Handle(c) \/ Signal(c)
                            \/ Crash(c) \/ Restart(c) \/ FallBack(c)
    \/ Tick

Spec == Init /\ [][Next]_vars

\* A process that is up goes on, and so does time.  Nobody has to come back.
FairSpec == Spec /\ WF_vars(Tick) /\ \A c \in Consumers : WF_vars(Loop(c) \/ Handle(c))

------------------------------------------------------------------------------
(* Properties                                                              *)

Loops  == {"top", "claim", "consume"}
Points == {"next", "ask", "work", "settled", "down", "deaf"}

Entry == [owner : Consumers, idle : 0 .. ClaimIdle]
Lease == [owner : Consumers \cup {NoOwner}, epoch : Nat, left : - BusyTimeout .. Ttl]
Local == [loop : Loops, pc : Points, msg : 0 .. cursor, batch : SUBSET (1 .. cursor),
          ids : [Alerts -> 0 .. cursor], waited : 0 .. BusyTimeout, stop : BOOLEAN]

TypeOK ==
    /\ stream \in Seq(Alerts) /\ cursor \in 0 .. Len(stream)
    /\ DOMAIN pending \subseteq 1 .. cursor
    /\ \A m \in DOMAIN pending : pending[m] \in Entry
    /\ leases \in [Alerts -> Lease]
    /\ proc \in [Consumers -> Local]
    /\ settled \subseteq Alerts /\ stops \in 0 .. MaxStops

\* An alert that was delivered is pending or was handled to an outcome, whoever
\* was killed, stopped or refused, and whichever of its messages was acknowledged
\* (the main loop acknowledges after the handler returns, _msg_ids has one entry).
Covered ==
    \A m \in 1 .. cursor :
        stream[m] \in settled \/ \E k \in DOMAIN pending : stream[k] = stream[m]

\* Every message is acknowledged in the end as long as one process works from the
\* stream: no entry of a dead, stopped or refused consumer, of one that came back
\* to another queue, or dropped from its table, is left pending (claim_stale).
AllAcked == \A m \in UNION {DOMAIN feed : feed \in Feeds} : m \in Messages ~> m \in Acked

\* Stream and consumer group keep what Delivery promises: a message is handed from one
\* process to the next as often as it takes, and goes only when its alert was settled.
Delivers == INSTANCE Delivery WITH pending <- DOMAIN pending, acked <- Acked
DeliveryHolds == Delivers!Spec

\* The lease as it is in the table, with a clock that was read before the lock was
\* waited for, is a leadership of each workflow (acquire_lease).
LeaseOf(a) == [owner |-> leases[a].owner, epoch |-> leases[a].epoch,
               live  |-> leases[a].left > 0]
Leads(a) == INSTANCE Leadership WITH Owners <- Consumers, leader <- LeaseOf(a)
LeasesHold == [][\A a \in Alerts : Leads(a)!Next \/ UNCHANGED LeaseOf(a)]_leases
=============================================================================
