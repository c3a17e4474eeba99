--------------------------- MODULE EffectService ---------------------------
(***************************************************************************)
(* Inside one effect service (palimpsest/services.py around the            *)
(* InProcessWorld of palimpsest/world.py) and the ledger service: each     *)
(* request is handled by a thread of its own, and a late delivery by a     *)
(* timer thread.  An action is what a thread does under one lock, or       *)
(* between two points where it sleeps or waits for the ledger.             *)
(*                                                                         *)
(* Module World takes a call for one step.  This module shows what may     *)
(* happen in between.  The caller is not modelled: having waited long      *)
(* enough, or having been killed and restarted, it may ask again while the *)
(* first request is still at work, under any epoch it holds.               *)
(***************************************************************************)
EXTENDS Naturals, Sequences, FiniteSets

CONSTANTS
    Requests,         \* requests to come, each handled once
    Keys,             \* the idempotency keys they are about
    PureKeys,         \* ... of tools without an effect: held, never recorded
    NoKey,            \* the key of a request that has not come yet
    MaxEpoch,         \* epochs of the leaders that send them
    MaxLost           \* bound: posts to the ledger that get no answer

ASSUME ServiceAssumption ==
    /\ IsFiniteSet(Requests)
    /\ PureKeys \subseteq Keys /\ NoKey \notin Keys
    /\ MaxEpoch \in Nat
    /\ MaxLost \in Nat

VARIABLES
    thread,       \* request -> its thread
    applied,      \* InProcessWorld.applied: the keys an effect is held for
    gate,         \* epoch_seen of the service
    epoch_seen,   \* InProcessWorld.epoch_seen
    buffer,       \* LedgerClient.buffer: what the ledger has not acknowledged
    ledger,       \* GroundTruthLedger.entries of the ledger service
    lost          \* posts that got no answer

vars == << thread, applied, gate, epoch_seen, buffer, ledger, lost >>

\* An entry is known by its time, key and kind, and so by its request.
Entry == Requests

\* "heard" is the gate when the request came in; only a property reads it.
Points == {"new", "guard", "fence", "look", "work", "undo", "timer",
           "record", "post", "posted", "gone"}
Thread == [pc : Points, op : {"execute", "compensate"}, key : Keys \cup {NoKey}, epoch : Nat,
           heard : Nat, pending : Seq(Entry), reply : {"none", "ok", "failed", "unknown"}]

TypeOK ==
    /\ thread \in [Requests -> Thread]
    /\ applied \subseteq Keys
    /\ gate \in Nat /\ epoch_seen \in Nat
    /\ buffer \in Seq(Entry) /\ ledger \in Seq(Entry)
    /\ lost \in 0 .. MaxLost
    /\ \A r \in Requests : thread[r].pc = "gone" => thread[r].reply # "none"

Init ==
    /\ thread = [r \in Requests |->
                   [pc |-> "new", op |-> "execute", key |-> NoKey,
                    epoch |-> 0, heard |-> 0, pending |-> << >>, reply |-> "none"]]
    /\ applied = {}
    /\ gate = 0 /\ epoch_seen = 0
    /\ buffer = << >> /\ ledger = << >> /\ lost = 0

------------------------------------------------------------------------------
At(r, pc)   == thread[r].pc = pc
KeyOf(r)    == thread[r].key
Goto(r, pc) == thread' = [thread EXCEPT ![r].pc = pc]

\* The thread answers and is gone.
Answer(r, status) ==
    thread' = [thread EXCEPT ![r] = [@ EXCEPT !.pc = "gone", !.reply = status]]

Fences == << gate, epoch_seen >>
Books  == << buffer, ledger, lost >>

------------------------------------------------------------------------------
(* A request comes in                                                      *)

\* Nobody asks to undo what has no inverse.
Arrive(r) ==
    /\ At(r, "new")
    /\ \E op \in {"execute", "compensate"}, k \in Keys, e \in 1 .. MaxEpoch :
           /\ op = "compensate" => k \notin PureKeys
           /\ thread' = [thread EXCEPT ![r] = [@ EXCEPT !.pc = "guard", !.op = op,
                                                        !.key = k, !.epoch = e,
                                                        !.heard = gate]]
    /\ UNCHANGED << applied, Fences, Books >>

\* A newer epoch was seen than that of the request.
Bug_LetsPredecessorIn(r, seen) == thread[r].epoch + 1 < seen
Deposed(r, seen) == thread[r].epoch < seen
Highest(r, seen) == IF thread[r].epoch > seen THEN thread[r].epoch ELSE seen

\* services._fence: the service's own fence, under its own lock.
Guard(r) ==
    /\ At(r, "guard")
    /\ \/ Deposed(r, gate) /\ Answer(r, "failed") /\ UNCHANGED gate
       \/ ~ Deposed(r, gate) /\ Goto(r, "fence") /\ gate' = Highest(r, gate)
    /\ UNCHANGED << applied, epoch_seen, Books >>

\* InProcessWorld._fence: the same again, under the lock of the world.
Fence(r) ==
    /\ At(r, "fence")
    /\ \/ Deposed(r, epoch_seen) /\ Answer(r, "failed") /\ UNCHANGED epoch_seen
       \/ /\ ~ Deposed(r, epoch_seen)
          /\ Goto(r, IF thread[r].op = "execute" THEN "look" ELSE "undo")
          /\ epoch_seen' = Highest(r, epoch_seen)
    /\ UNCHANGED << applied, gate, Books >>

------------------------------------------------------------------------------
(* execute                                                                 *)

\* The key is looked up; then the thread sleeps for its latency.
Look(r) ==
    /\ At(r, "look")
    /\ \/ KeyOf(r) \in applied /\ Answer(r, "ok")
       \/ KeyOf(r) \notin applied /\ Goto(r, "work")
    /\ UNCHANGED << applied, Fences, Books >>

\* Down, rejected, or no responder on the rota.
Fail(r) ==
    /\ At(r, "work")
    /\ Answer(r, "failed")
    /\ UNCHANGED << applied, Fences, Books >>

\* What cannot be known is taken for done.
Bug_TimeOutOk(r) ==
    /\ At(r, "work")
    /\ Answer(r, "ok")
    /\ UNCHANGED << applied, Fences, Books >>

\* An injected timeout, with a late delivery scheduled or without.
TimeOut(r) ==
    /\ At(r, "work")
    /\ \/ Answer(r, "unknown")
       \/ thread' = [thread EXCEPT ![r] = [@ EXCEPT !.pc = "timer", !.reply = "unknown"]]
    /\ UNCHANGED << applied, Fences, Books >>

\* The effect takes hold; what is pure is not for the ledger.
Hold(r) ==
    /\ At(r, "work")
    /\ applied' = applied \cup {KeyOf(r)}
    /\ IF KeyOf(r) \in PureKeys THEN Answer(r, "ok") ELSE Goto(r, "record")
    /\ UNCHANGED << Fences, Books >>

\* The timer fires: a no-op when the key is held, all under the lock.
Land(r) ==
    /\ At(r, "timer")
    /\ IF KeyOf(r) \in applied
       THEN Goto(r, "gone") /\ UNCHANGED applied
       ELSE Goto(r, "record") /\ applied' = applied \cup {KeyOf(r)}
    /\ UNCHANGED << Fences, Books >>

------------------------------------------------------------------------------
(* compensate                                                              *)

UndoFails(r) ==
    /\ At(r, "undo")
    /\ Answer(r, "failed")
    /\ UNCHANGED << applied, Fences, Books >>

Undo(r) ==
    /\ At(r, "undo")
    /\ applied' = applied \ {KeyOf(r)}
    /\ Goto(r, "record")
    /\ UNCHANGED << Fences, Books >>

------------------------------------------------------------------------------
(* LedgerClient.record and the ledger service                              *)

\* The entry joins whatever is still unacknowledged, and all of it is sent.
Record(r) ==
    /\ At(r, "record")
    /\ buffer' = Append(buffer, r)
    /\ thread' = [thread EXCEPT ![r] = [@ EXCEPT !.pc = "post", !.pending = buffer']]
    /\ UNCHANGED << applied, Fences, ledger, lost >>

\* The ledger service takes the entries it does not know yet, under its lock.
In(e, s) == \E i \in DOMAIN s : s[i] = e
Bug_DedupeByKey(e) == ~ \E i \in DOMAIN ledger : KeyOf(ledger[i]) = KeyOf(e)
Fresh(e) == ~ In(e, ledger)

\* Where s has an entry that is not known, from the ledger or from earlier in s.
Taken(s) == {i \in DOMAIN s : Fresh(s[i]) /\ \A j \in 1 .. i - 1 : s[j] # s[i]}

\* What s has at these places, in their order.
Nth(S, n)    == CHOOSE i \in S : Cardinality({j \in S : j <= i}) = n
Subseq(s, S) == [n \in 1 .. Cardinality(S) |-> s[Nth(S, n)]]

Deliver(r) ==
    /\ At(r, "post")
    /\ ledger' = ledger \o Subseq(thread[r].pending, Taken(thread[r].pending))
    /\ Goto(r, "posted")
    /\ UNCHANGED << applied, Fences, buffer, lost >>

\* What a thread answers when it is done with the ledger: the timer nobody.
Bug_Finish(r) == Goto(r, "gone")
Finish(r) == IF thread[r].reply = "none" THEN Answer(r, "ok") ELSE Goto(r, "gone")

\* No answer from the ledger, whether the post arrived or not.
Lost(r) ==
    /\ lost < MaxLost
    /\ At(r, "post") \/ At(r, "posted")
    /\ lost' = lost + 1
    /\ Finish(r)
    /\ UNCHANGED << applied, Fences, buffer, ledger >>

\* As many entries as were sent leave the front of the buffer.
Trim(r) ==
    /\ At(r, "posted")
    /\ buffer' = SubSeq(buffer, Len(thread[r].pending) + 1, Len(buffer))
    /\ Finish(r)
    /\ UNCHANGED << applied, Fences, ledger, lost >>

------------------------------------------------------------------------------
Handle(r) == Guard(r) \/ Fence(r) \/ Look(r) \/ Fail(r) \/ TimeOut(r) \/ Hold(r)
             \/ Land(r) \/ UndoFails(r) \/ Undo(r)
             \/ Record(r) \/ Deliver(r) \/ Lost(r) \/ Trim(r)

Next == \E r \in Requests : Arrive(r) \/ Handle(r)

Spec == Init /\ [][Next]_vars

------------------------------------------------------------------------------
(* Properties                                                              *)

\* The thread changed the world: its entry belongs in the ledger.
Took(r) == \/ thread[r].pc \in {"record", "post", "posted"}
           \/ thread[r].pc = "gone" /\ thread[r].pending # << >>

Executed(k)    == \E r \in Requests : Took(r) /\ KeyOf(r) = k /\ thread[r].op = "execute"
Compensated(k) == \E r \in Requests : Took(r) /\ KeyOf(r) = k /\ thread[r].op = "compensate"

\* What a service answers is so, however its threads overlap: ok only for what
\* was done, and failed only by a thread that did nothing and will do nothing.
AnswersTrue ==
    \A r \in Requests :
        /\ thread[r].reply = "ok" =>
              IF thread[r].op = "execute"
              THEN KeyOf(r) \in PureKeys \/ Executed(KeyOf(r)) ELSE Took(r)
        /\ thread[r].reply = "failed" => At(r, "gone") /\ ~ Took(r)

\* As long as the ledger answers, it misses nothing, although threads share a
\* buffer and each deletes from it by count: whatever was changed is recorded or
\* about to be, and a key once held and held no more was undone by a recorded call.
LedgerTellsAll ==
    lost = 0 =>
        /\ \A r \in Requests : Took(r) => \/ In(r, ledger)
                                          \/ At(r, "record") \/ At(r, "post")
        /\ \A k \in Keys \ PureKeys :
              /\ k \in applied => Executed(k)
              /\ Executed(k) /\ k \notin applied => Compensated(k)

\* Entries are sent again until they are acknowledged; none is entered twice.
EntryOnce == \A i, j \in DOMAIN ledger : ledger[i] = ledger[j] => i = j

\* The ledger is what was done: all of it, and nothing twice.
LedgerTrue == LedgerTellsAll /\ EntryOnce

\* A request that comes in after the service heard of a newer leader changes
\* nothing; one that was let in before may still be at work.
LateComerRefused == \A r \in Requests : Took(r) => thread[r].epoch >= thread[r].heard

\* No effect takes hold of a key that is held: execute looks before it sleeps
\* and holds after, and so a retry and what it retries may both take effect.
HoldsOnce ==
    [][\A r \in Requests :
          (thread[r].pc \in {"work", "timer"} /\ thread'[r].pc = "record")
              => KeyOf(r) \notin applied]_vars
=============================================================================
