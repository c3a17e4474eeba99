------------------------ MODULE EffectServiceProofs ------------------------
(***************************************************************************)
(* What a service answers is true, a late-coming deposed leader changes    *)
(* nothing, and the ledger has every change once unless a post had no      *)
(* answer, for any number of requests, keys and epochs, however the        *)
(* threads overlap and whatever becomes of the posts.                      *)
(***************************************************************************)
EXTENDS EffectService, SequenceTheorems, FiniteSetTheorems, WellFoundedInduction, TLAPS

------------------------------------------------------------------------------
(* The inductive invariant                                                 *)

Typed ==
    /\ thread \in [Requests -> Thread]
    /\ applied \subseteq Keys
    /\ gate \in Nat /\ epoch_seen \in Nat
    /\ buffer \in Seq(Requests)

Asked   == {"new", "guard"}
Sending == {"post", "posted"}

\* What is so of one thread, at whatever point it is.
ThreadOK(t) ==
    /\ t.heard <= gate
    /\ t.pc \in Asked \/ t.epoch >= t.heard \/ (t.pc = "gone" /\ t.pending = << >>)
    /\ t.pc # "new" => t.key \in Keys
    /\ t.pc \in Sending => t.pending # << >>
    /\ t.pc \notin Sending \cup {"gone"} => t.pending = << >>
    /\ t.pc \in {"look", "work", "timer"} => t.op = "execute"
    /\ t.reply = "failed" => t.pc = "gone" /\ t.pending = << >>
    /\ t.reply = "ok" => /\ t.pc = "gone"
                         /\ t.op = "compensate" => t.pending # << >>

\* What is held was taken by a request, and so was what a caller was told.
Backed ==
    /\ \A k \in applied \ PureKeys : Executed(k)
    /\ \A r \in Requests :
          (/\ thread[r].reply = "ok" /\ thread[r].op = "execute"
           /\ KeyOf(r) \notin PureKeys) => Executed(KeyOf(r))

Inv == Typed /\ (\A r \in Requests : ThreadOK(thread[r])) /\ Backed

------------------------------------------------------------------------------
(* Steps of one thread                                                     *)

Replies == {"none", "ok", "failed", "unknown"}

\* The threads are threads and those of the others are as they were.
Turn(r) == /\ thread' \in [Requests -> Thread]
           /\ \A q \in Requests \ {r} : thread'[q] = thread[q]

\* The request of thread r is what it was.
Keeps(r) == /\ thread'[r].op = thread[r].op /\ thread'[r].key = thread[r].key
            /\ thread'[r].epoch = thread[r].epoch /\ thread'[r].heard = thread[r].heard

\* What an update of one thread does to the fields of it.
LEMMA Update ==
    ASSUME thread \in [Requests -> Thread], NEW r \in Requests,
           NEW pc \in Points, NEW reply \in Replies, NEW pending \in Seq(Requests),
           thread' = [thread EXCEPT ![r] = [thread[r] EXCEPT
                         !.pc = pc, !.reply = reply, !.pending = pending]]
    PROVE  /\ Turn(r) /\ Keeps(r)
           /\ thread'[r].pc = pc /\ thread'[r].reply = reply
           /\ thread'[r].pending = pending
<1> DEFINE t == [thread[r] EXCEPT !.pc = pc, !.reply = reply, !.pending = pending]
<1>1. thread[r] \in Thread  OBVIOUS
<1>2. t \in Thread          BY <1>1 DEF Thread, Replies, Entry
<1>3. /\ t.pc = pc /\ t.reply = reply /\ t.pending = pending
      /\ t.op = thread[r].op /\ t.key = thread[r].key
      /\ t.epoch = thread[r].epoch /\ t.heard = thread[r].heard
  BY <1>1 DEF Thread
<1> HIDE DEF t
<1>4. thread' = [thread EXCEPT ![r] = t]  BY DEF t
<1>5. thread'[r] = t /\ \A q \in Requests \ {r} : thread'[q] = thread[q]  BY <1>4
<1>6. QED BY <1>2, <1>3, <1>4, <1>5 DEF Turn, Keeps

LEMMA AnswerDoes ==
    ASSUME thread \in [Requests -> Thread], NEW r \in Requests,
           NEW status \in Replies, Answer(r, status)
    PROVE  /\ Turn(r) /\ Keeps(r)
           /\ thread'[r].pc = "gone" /\ thread'[r].reply = status
           /\ thread'[r].pending = thread[r].pending
<1>1. thread[r] \in Thread  OBVIOUS
<1>2. PICK p \in Seq(Requests) : p = thread[r].pending  BY <1>1 DEF Thread, Entry
<1>3. [thread[r] EXCEPT !.pc = "gone", !.reply = status]
      = [thread[r] EXCEPT !.pc = "gone", !.reply = status, !.pending = p]
  BY <1>1, <1>2 DEF Thread
<1>4. thread' = [thread EXCEPT ![r] = [thread[r] EXCEPT
                    !.pc = "gone", !.reply = status, !.pending = p]]
  BY <1>3 DEF Answer
<1>5. "gone" \in Points  BY DEF Points
<1>6. /\ Turn(r) /\ Keeps(r)
      /\ thread'[r].pc = "gone" /\ thread'[r].reply = status /\ thread'[r].pending = p
  BY <1>4, <1>5, Update
<1>7. QED BY <1>2, <1>6

LEMMA GotoDoes ==
    ASSUME thread \in [Requests -> Thread], NEW r \in Requests,
           NEW pc \in Points, Goto(r, pc)
    PROVE  /\ Turn(r) /\ Keeps(r)
           /\ thread'[r].pc = pc /\ thread'[r].reply = thread[r].reply
           /\ thread'[r].pending = thread[r].pending
<1>1. thread[r] \in Thread  OBVIOUS
<1>2. PICK p \in Seq(Requests), a \in Replies :
        p = thread[r].pending /\ a = thread[r].reply
  BY <1>1 DEF Thread, Entry, Replies
<1>3. [thread[r] EXCEPT !.pc = pc]
      = [thread[r] EXCEPT !.pc = pc, !.reply = a, !.pending = p]
  BY <1>1, <1>2 DEF Thread
<1>4. thread' = [thread EXCEPT ![r] = [thread[r] EXCEPT
                    !.pc = pc, !.reply = a, !.pending = p]]
  BY <1>3 DEF Goto
<1>5. /\ Turn(r) /\ Keeps(r)
      /\ thread'[r].pc = pc /\ thread'[r].reply = a /\ thread'[r].pending = p
  BY <1>4, Update
<1>6. QED BY <1>2, <1>5

LEMMA FinishDoes ==
    ASSUME thread \in [Requests -> Thread], NEW r \in Requests, Finish(r)
    PROVE  /\ Turn(r) /\ Keeps(r)
           /\ thread'[r].pc = "gone" /\ thread'[r].pending = thread[r].pending
           /\ thread'[r].reply = IF thread[r].reply = "none" THEN "ok" ELSE thread[r].reply
BY AnswerDoes, GotoDoes DEF Finish, Replies, Points

\* The timer is set: the caller is told nothing certain and the thread waits.
LEMMA TimerDoes ==
    ASSUME thread \in [Requests -> Thread], NEW r \in Requests,
           thread' = [thread EXCEPT ![r] = [@ EXCEPT !.pc = "timer", !.reply = "unknown"]]
    PROVE  /\ Turn(r) /\ Keeps(r)
           /\ thread'[r].pc = "timer" /\ thread'[r].reply = "unknown"
           /\ thread'[r].pending = thread[r].pending
<1>1. thread[r] \in Thread  OBVIOUS
<1>2. thread[r].pending \in Seq(Requests) BY <1>1 DEF Thread, Entry
<1>3. [thread[r] EXCEPT !.pc = "timer", !.reply = "unknown"]
      = [thread[r] EXCEPT !.pc = "timer", !.reply = "unknown", !.pending = thread[r].pending]
  BY <1>1 DEF Thread
<1>4. QED BY <1>1, <1>2, <1>3, Update DEF Points, Replies

LEMMA RecordDoes ==
    ASSUME Typed, NEW r \in Requests, Record(r)
    PROVE  /\ Turn(r) /\ Keeps(r)
           /\ thread'[r].pc = "post" /\ thread'[r].reply = thread[r].reply
           /\ thread'[r].pending = buffer'
           /\ buffer' \in Seq(Requests) /\ buffer' # << >>
<1>1. thread[r] \in Thread  BY DEF Typed
<1>2. thread[r].reply \in Replies  BY <1>1 DEF Thread, Replies
<1>3. buffer' \in Seq(Requests) /\ buffer' # << >>  BY DEF Typed, Record
<1>4. [thread[r] EXCEPT !.pc = "post", !.pending = buffer']
      = [thread[r] EXCEPT !.pc = "post", !.reply = thread[r].reply, !.pending = buffer']
  BY <1>1 DEF Thread
<1>5. thread' = [thread EXCEPT ![r] = [thread[r] EXCEPT
                    !.pc = "post", !.reply = thread[r].reply, !.pending = buffer']]
  BY <1>4 DEF Record
<1>6. "post" \in Points /\ thread \in [Requests -> Thread]  BY DEF Points, Typed
<1>7. QED BY <1>2, <1>3, <1>5, <1>6, Update

\* A request comes in and leaves the fences and the world alone.
LEMMA ArriveDoes ==
    ASSUME Typed, NEW r \in Requests, Arrive(r)
    PROVE  /\ Turn(r)
           /\ thread'[r].pc = "guard" /\ thread'[r].key \in Keys
           /\ thread'[r].heard = gate
           /\ thread'[r].reply = thread[r].reply
           /\ thread'[r].pending = thread[r].pending
<1>1. thread[r] \in Thread  BY DEF Typed
<1>2. PICK op \in {"execute", "compensate"}, k \in Keys, e \in 1 .. MaxEpoch :
        thread' = [thread EXCEPT ![r] = [@ EXCEPT !.pc = "guard", !.op = op,
                                          !.key = k, !.epoch = e, !.heard = gate]]
  BY DEF Arrive
<1> DEFINE t == [thread[r] EXCEPT !.pc = "guard", !.op = op, !.key = k,
                                  !.epoch = e, !.heard = gate]
<1>3. t \in Thread
  <2>1. e \in Nat /\ gate \in Nat /\ k \in Keys \cup {NoKey} /\ "guard" \in Points
    BY ServiceAssumption DEF Typed, Points
  <2>2. QED BY <1>1, <2>1 DEF Thread
<1>4. /\ t.pc = "guard" /\ t.key = k /\ t.heard = gate
      /\ t.reply = thread[r].reply /\ t.pending = thread[r].pending
  BY <1>1 DEF Thread
<1> HIDE DEF t
<1>5. thread' = [thread EXCEPT ![r] = t]  BY <1>2 DEF t
<1>6. thread'[r] = t /\ \A q \in Requests \ {r} : thread'[q] = thread[q]
  BY <1>5 DEF Typed
<1>7. QED BY <1>2, <1>3, <1>4, <1>5, <1>6 DEF Turn, Typed

------------------------------------------------------------------------------
(* What every step of a request does, and why that is enough               *)

\* The request behind the thread stays, or has only just come.
Request(r) == Keeps(r) \/ (thread[r].pc = "new" /\ thread'[r].pc = "guard")

Progress(r) ==
    /\ Turn(r) /\ Request(r)
    /\ gate' \in Nat /\ gate' >= gate /\ epoch_seen' \in Nat
    /\ buffer' \in Seq(Requests)
    /\ applied' \subseteq Keys
    /\ ThreadOK(thread[r])'
    /\ Took(r) => Took(r)'
    /\ \A k \in applied' \ PureKeys :
          k \in applied \/ (k = KeyOf(r) /\ thread[r].op = "execute" /\ Keeps(r) /\ Took(r)')
    /\ (/\ thread'[r].reply = "ok" /\ thread'[r].op = "execute"
        /\ thread'[r].key \notin PureKeys) =>
          /\ Keeps(r)
          /\ thread[r].reply = "ok" \/ Took(r)' \/ KeyOf(r) \in applied

LEMMA ProgressSuffices ==
    ASSUME Inv, NEW r \in Requests, Progress(r)
    PROVE  Inv'
<1>1. Typed'  BY DEF Inv, Typed, Progress, Turn
<1>2. \A q \in Requests : ThreadOK(thread[q])'
  <2> TAKE q \in Requests
  <2>1. CASE q = r  BY <2>1 DEF Progress
  <2>2. CASE q # r
    <3>1. thread'[q] = thread[q]  BY <2>2 DEF Progress, Turn
    <3>2. thread[q].heard \in Nat /\ gate \in Nat  BY DEF Inv, Typed, Thread
    <3>3. ThreadOK(thread[q])  BY DEF Inv
    <3>4. QED BY <3>1, <3>2, <3>3 DEF ThreadOK, Progress
  <2>3. QED BY <2>1, <2>2
<1>3. \A k : Executed(k) => Executed(k)'
  <2> SUFFICES ASSUME NEW k, NEW q \in Requests,
                      Took(q), KeyOf(q) = k, thread[q].op = "execute"
               PROVE  Executed(k)'
    BY DEF Executed
  <2>1. CASE q = r
    <3>1. thread[r].pc # "new"  BY <2>1 DEF Took
    <3>2. Took(q)' /\ KeyOf(q)' = k /\ thread'[q].op = "execute"
      BY <2>1, <3>1 DEF Progress, Request, Keeps, KeyOf
    <3>3. QED BY <3>2 DEF Executed
  <2>2. CASE q # r
    <3>1. thread'[q] = thread[q]  BY <2>2 DEF Progress, Turn
    <3>2. QED BY <3>1 DEF Executed, Took, KeyOf
  <2>3. QED BY <2>1, <2>2
<1>4. Backed'
  <2>1. ASSUME NEW k \in applied' \ PureKeys PROVE Executed(k)'
    <3>1. CASE k \in applied  BY <1>3, <3>1 DEF Inv, Backed
    <3>2. CASE k = KeyOf(r) /\ thread[r].op = "execute" /\ Keeps(r) /\ Took(r)'
      BY <3>2 DEF Executed, Keeps, KeyOf
    <3>3. QED BY <2>1, <3>1, <3>2 DEF Progress
  <2>2. ASSUME NEW q \in Requests, thread'[q].reply = "ok", thread'[q].op = "execute",
               thread'[q].key \notin PureKeys
        PROVE  Executed(KeyOf(q))'
    <3>1. CASE q # r
      <4>1. thread'[q] = thread[q]  BY <3>1 DEF Progress, Turn
      <4>2. Executed(KeyOf(q))  BY <2>2, <4>1 DEF Inv, Backed, KeyOf
      <4>3. QED BY <1>3, <4>1, <4>2 DEF KeyOf, Executed
    <3>2. CASE q = r
      <4>1. Keeps(r) /\ KeyOf(r)' = KeyOf(r)  BY <2>2, <3>2 DEF Progress, Keeps, KeyOf
      <4>2. CASE Took(r)'  BY <2>2, <3>2, <4>2 DEF Executed
      <4>3. CASE thread[r].reply = "ok" \/ KeyOf(r) \in applied
        <5>1. Executed(KeyOf(r))
          BY <2>2, <3>2, <4>1, <4>3 DEF Inv, Backed, Keeps, KeyOf
        <5>2. QED BY <1>3, <3>2, <4>1, <5>1 DEF Executed, KeyOf
      <4>4. QED BY <2>2, <3>2, <4>2, <4>3 DEF Progress
    <3>3. QED BY <3>1, <3>2
  <2>3. QED BY <2>1, <2>2 DEF Backed, KeyOf
<1>5. QED BY <1>1, <1>2, <1>4 DEF Inv
------------------------------------------------------------------------------
(* Every action makes such progress                                        *)

LEMMA ArriveProgress ==
    ASSUME Inv, NEW r \in Requests, Arrive(r)
    PROVE  Progress(r)
<1>1. Typed /\ ThreadOK(thread[r]) /\ thread[r].pc = "new"  BY DEF Inv, Arrive, At
<1>2. UNCHANGED << applied, gate, epoch_seen, buffer >>  BY DEF Arrive, Fences, Books
<1>3. /\ Turn(r)
      /\ thread'[r].pc = "guard" /\ thread'[r].key \in Keys /\ thread'[r].heard = gate
      /\ thread'[r].reply = thread[r].reply /\ thread'[r].pending = thread[r].pending
  BY <1>1, ArriveDoes
<1>4. gate \in Nat /\ epoch_seen \in Nat  BY <1>1 DEF Typed
<1>5. ThreadOK(thread[r])'  BY <1>1, <1>2, <1>3, <1>4 DEF ThreadOK, Asked, Sending
<1>6. ~ Took(r) /\ thread'[r].reply # "ok"  BY <1>1, <1>3 DEF Took, ThreadOK
<1>7. QED BY <1>1, <1>2, <1>3, <1>4, <1>5, <1>6 DEF Progress, Request, Typed

LEMMA HandleProgress ==
    ASSUME Inv, NEW r \in Requests, Handle(r)
    PROVE  Progress(r)
<1>1. Typed /\ ThreadOK(thread[r])  BY DEF Inv
<1>2. /\ thread \in [Requests -> Thread] /\ applied \subseteq Keys
      /\ gate \in Nat /\ epoch_seen \in Nat /\ buffer \in Seq(Requests)
  BY <1>1 DEF Typed
<1>3. /\ thread[r].epoch \in Nat /\ thread[r].heard \in Nat
      /\ thread[r].op \in {"execute", "compensate"} /\ thread[r].reply \in Replies
      /\ thread[r].pending \in Seq(Requests)
  BY <1>2 DEF Thread, Replies, Entry
<1> USE DEF At, KeyOf, Fences, Books, ThreadOK, Asked, Sending, Keeps, Took,
            Request, Progress
<1>4. ASSUME NEW status \in {"failed", "unknown"}, Answer(r, status),
             thread[r].pc \in {"guard", "fence", "work", "undo"},
             UNCHANGED << applied, gate, epoch_seen, buffer >>
      PROVE  Progress(r)
  BY <1>1, <1>2, <1>3, <1>4, AnswerDoes DEF Replies
<1>5. CASE Guard(r)
  <2>1. CASE Deposed(r, gate) /\ Answer(r, "failed") /\ UNCHANGED gate
    BY <1>4, <1>5, <2>1 DEF Guard
  <2>2. CASE ~ Deposed(r, gate) /\ Goto(r, "fence") /\ gate' = Highest(r, gate)
    <3>1. gate' = thread[r].epoch  BY <1>2, <1>3, <2>2 DEF Deposed, Highest
    <3>2. gate' \in Nat /\ gate' >= gate  BY <1>2, <1>3, <2>2, <3>1 DEF Deposed
    <3>3. UNCHANGED << applied, epoch_seen, buffer >> /\ thread[r].pc = "guard"
      BY <1>5 DEF Guard
    <3>4. QED BY <1>1, <1>2, <1>3, <2>2, <3>1, <3>2, <3>3, GotoDoes DEF Points
  <2>3. QED BY <1>5, <2>1, <2>2 DEF Guard
<1>6. CASE Fence(r)
  <2>1. CASE Deposed(r, epoch_seen) /\ Answer(r, "failed") /\ UNCHANGED epoch_seen
    BY <1>4, <1>6, <2>1 DEF Fence
  <2>2. CASE /\ ~ Deposed(r, epoch_seen)
             /\ Goto(r, IF thread[r].op = "execute" THEN "look" ELSE "undo")
             /\ epoch_seen' = Highest(r, epoch_seen)
    <3>1. epoch_seen' \in Nat  BY <1>2, <1>3, <2>2 DEF Highest
    <3>2. UNCHANGED << applied, gate, buffer >> /\ thread[r].pc = "fence"
      BY <1>6 DEF Fence
    <3>3. QED BY <1>1, <1>2, <1>3, <2>2, <3>1, <3>2, GotoDoes DEF Points
  <2>3. QED BY <1>6, <2>1, <2>2 DEF Fence
<1>7. CASE Look(r)
  <2>1. CASE KeyOf(r) \in applied /\ Answer(r, "ok")
    BY <1>1, <1>2, <1>3, <1>7, <2>1, AnswerDoes DEF Look, Replies
  <2>2. CASE KeyOf(r) \notin applied /\ Goto(r, "work")
    BY <1>1, <1>2, <1>3, <1>7, <2>2, GotoDoes DEF Look, Points
  <2>3. QED BY <1>7, <2>1, <2>2 DEF Look
<1>8. CASE Fail(r)       BY <1>4, <1>8 DEF Fail
<1>9. CASE TimeOut(r)
  <2>1. CASE Answer(r, "unknown")  BY <1>4, <1>9, <2>1 DEF TimeOut
  <2>2. CASE thread' = [thread EXCEPT ![r] = [@ EXCEPT !.pc = "timer", !.reply = "unknown"]]
    <3>1. /\ Turn(r) /\ Keeps(r)
          /\ thread'[r].pc = "timer" /\ thread'[r].reply = "unknown"
          /\ thread'[r].pending = thread[r].pending
      BY <1>2, <2>2, TimerDoes
    <3>2. thread[r].pc = "work" /\ UNCHANGED << applied, gate, epoch_seen, buffer >>
      BY <1>9 DEF TimeOut
    <3>3. QED BY <1>1, <1>2, <1>3, <3>1, <3>2
  <2>3. QED BY <1>9, <2>1, <2>2 DEF TimeOut
<1>10. CASE Hold(r)
  <2>1. CASE Answer(r, "ok") /\ thread[r].key \in PureKeys
    BY <1>1, <1>2, <1>3, <1>10, <2>1, AnswerDoes DEF Hold, Replies
  <2>2. CASE Goto(r, "record")
    BY <1>1, <1>2, <1>3, <1>10, <2>2, GotoDoes DEF Hold, Points
  <2>3. QED BY <1>10, <2>1, <2>2 DEF Hold
<1>11. CASE Land(r)
  <2>1. CASE Goto(r, "gone") /\ UNCHANGED applied
    BY <1>1, <1>2, <1>3, <1>11, <2>1, GotoDoes DEF Land, Points
  <2>2. CASE Goto(r, "record") /\ applied' = applied \cup {KeyOf(r)}
    BY <1>1, <1>2, <1>3, <1>11, <2>2, GotoDoes DEF Land, Points
  <2>3. QED BY <1>11, <2>1, <2>2 DEF Land
<1>12. CASE UndoFails(r) BY <1>4, <1>12 DEF UndoFails
<1>13. CASE Undo(r)      BY <1>1, <1>2, <1>3, <1>13, GotoDoes DEF Undo, Points
<1>14. CASE Record(r)
  <2>1. /\ Turn(r) /\ Keeps(r)
        /\ thread'[r].pc = "post" /\ thread'[r].reply = thread[r].reply
        /\ thread'[r].pending = buffer' /\ buffer' # << >> /\ buffer' \in Seq(Requests)
    BY <1>1, <1>14, RecordDoes
  <2>2. thread[r].pc = "record" /\ UNCHANGED << applied, gate, epoch_seen >>
    BY <1>14 DEF Record
  <2>3. QED BY <1>1, <1>2, <1>3, <2>1, <2>2
<1>15. CASE Deliver(r)   BY <1>1, <1>2, <1>3, <1>15, GotoDoes DEF Deliver, Points
<1>16. CASE Lost(r)      BY <1>1, <1>2, <1>3, <1>16, FinishDoes DEF Lost
<1>17. CASE Trim(r)
  <2>1. buffer' \in Seq(Requests)
    BY <1>2, <1>3, <1>17, SubSeqProperties, LenProperties, ElementOfSeq DEF Trim
  <2>2. QED BY <1>1, <1>2, <1>3, <1>17, <2>1, FinishDoes DEF Trim
<1>18. QED BY <1>5, <1>6, <1>7, <1>8, <1>9, <1>10, <1>11, <1>12, <1>13, <1>14, <1>15,
              <1>16, <1>17 DEF Handle

------------------------------------------------------------------------------
(* What a ledger takes of a post                                           *)

\* Among the places of a finite set, one has a number, and a later one another.
UpTo(S, i) == {j \in S : j <= i}

LEMMA Ranks ==
    ASSUME NEW S, S \subseteq Nat, IsFiniteSet(S)
    PROVE  /\ Cardinality(S) \in Nat
           /\ \A i \in S : Cardinality(UpTo(S, i)) \in 1 .. Cardinality(S)
           /\ \A i, j \in S : Cardinality(UpTo(S, i)) = Cardinality(UpTo(S, j)) => i = j
<1>1. Cardinality(S) \in Nat  BY FS_CardinalityType
<1>2. ASSUME NEW i \in S
      PROVE  IsFiniteSet(UpTo(S, i)) /\ Cardinality(UpTo(S, i)) \in 1 .. Cardinality(S)
  <2>1. UpTo(S, i) \in SUBSET S /\ i \in UpTo(S, i)  BY DEF UpTo
  <2>2. IsFiniteSet(UpTo(S, i)) /\ Cardinality(UpTo(S, i)) <= Cardinality(S)
    BY <2>1, FS_Subset
  <2>3. Cardinality(UpTo(S, i)) \in Nat /\ Cardinality(UpTo(S, i)) # 0
    BY <2>1, <2>2, FS_CardinalityType, FS_EmptySet
  <2>4. QED BY <1>1, <2>2, <2>3
<1>3. ASSUME NEW i \in S, NEW j \in S, i < j
      PROVE  Cardinality(UpTo(S, i)) # Cardinality(UpTo(S, j))
  <2>1. i \in Nat /\ j \in Nat  OBVIOUS
  <2>2. ASSUME NEW k \in UpTo(S, i) PROVE k \in UpTo(S, j)
    <3>1. k \in S /\ k \in Nat /\ k <= i  BY <2>2 DEF UpTo
    <3>2. QED BY <1>3, <2>1, <3>1 DEF UpTo
  <2>3. j \in UpTo(S, j) /\ j \notin UpTo(S, i)  BY <1>3, <2>1 DEF UpTo
  <2>4. UpTo(S, i) \in SUBSET UpTo(S, j)  BY <2>2
  <2>5. QED BY <1>2, <2>3, <2>4, FS_Subset
<1>4. QED BY <1>1, <1>2, <1>3

\* The places of a finite set of places are numbered without a gap.
LEMMA NthIsThere ==
    ASSUME NEW S, S \subseteq Nat, IsFiniteSet(S), NEW n \in 1 .. Cardinality(S)
    PROVE  Nth(S, n) \in S /\ Cardinality(UpTo(S, Nth(S, n))) = n
<1> DEFINE c    == Cardinality(S)
           rank == [i \in S |-> Cardinality(UpTo(S, i))]
<1>1. c \in Nat /\ IsFiniteSet(1 .. c) /\ Cardinality(1 .. c) = c
  <2>1. c \in Nat  BY Ranks
  <2>2. QED BY <2>1, FS_Interval
<1>2. rank \in [S -> 1 .. c]  BY Ranks
<1>3. \A i \in S : rank[i] = Cardinality(UpTo(S, i))  OBVIOUS
<1> HIDE DEF rank
<1>4. rank \in Injection(S, 1 .. c)
  BY <1>2, <1>3, Ranks DEF Injection, IsInjective
<1>5. rank \in Surjection(S, 1 .. c)  BY <1>1, <1>4, FS_Injection
<1>6. PICK i \in S : rank[i] = n  BY <1>5 DEF Surjection
<1>7. Cardinality({j \in S : j <= i}) = n  BY <1>3, <1>6 DEF UpTo
<1>8. QED BY <1>7 DEF Nth, UpTo

\* What is picked from a sequence is what it has at those places, once for each.
LEMMA SubseqHas ==
    ASSUME NEW s \in Seq(Requests), NEW S \in SUBSET DOMAIN s
    PROVE  /\ Subseq(s, S) \in Seq(Requests)
           /\ \A n \in DOMAIN Subseq(s, S) : \E i \in S : Subseq(s, S)[n] = s[i]
           /\ \A i \in S : \E n \in DOMAIN Subseq(s, S) : Subseq(s, S)[n] = s[i]
           /\ \A m, n \in DOMAIN Subseq(s, S) : Nth(S, m) = Nth(S, n) => m = n
           /\ \A n \in DOMAIN Subseq(s, S) :
                 Nth(S, n) \in S /\ Subseq(s, S)[n] = s[Nth(S, n)]
<1> DEFINE c == Cardinality(S)
<1>1. Len(s) \in Nat /\ DOMAIN s = 1 .. Len(s)  BY LenProperties
<1>2. S \subseteq Nat /\ IsFiniteSet(S) /\ c \in Nat
  <2>1. IsFiniteSet(1 .. Len(s))  BY <1>1, FS_Interval
  <2>2. IsFiniteSet(S)            BY <1>1, <2>1, FS_Subset
  <2>3. QED BY <1>1, <2>2, FS_CardinalityType
<1>3. \A n \in 1 .. c : Nth(S, n) \in S /\ Cardinality(UpTo(S, Nth(S, n))) = n
  BY <1>2, NthIsThere
<1> HIDE DEF c
<1>4. \A n \in 1 .. c : s[Nth(S, n)] \in Requests
  <2> SUFFICES ASSUME NEW n \in 1 .. c PROVE s[Nth(S, n)] \in Requests
    OBVIOUS
  <2>1. Nth(S, n) \in 1 .. Len(s)  BY <1>1, <1>3
  <2>2. QED BY <2>1, ElementOfSeq
<1>5. Subseq(s, S) = [n \in 1 .. c |-> s[Nth(S, n)]]  BY DEF Subseq, c
<1>6. Subseq(s, S) \in Seq(Requests) /\ DOMAIN Subseq(s, S) = 1 .. c
  BY <1>2, <1>4, <1>5
<1>7. \A n \in 1 .. c : Subseq(s, S)[n] = s[Nth(S, n)]  BY <1>5
<1>8. ASSUME NEW i \in S PROVE \E n \in 1 .. c : Subseq(s, S)[n] = s[i]
  <2> DEFINE n == Cardinality(UpTo(S, i))
  <2>1. n \in 1 .. c  BY <1>2, Ranks DEF c
  <2>2. Nth(S, n) \in S /\ Cardinality(UpTo(S, Nth(S, n))) = n  BY <1>3, <2>1
  <2>3. Nth(S, n) = i  BY <1>2, <2>2, Ranks
  <2>4. QED BY <1>7, <2>1, <2>3
<1>9. ASSUME NEW m \in 1 .. c, NEW n \in 1 .. c, Nth(S, m) = Nth(S, n) PROVE m = n
  BY <1>3, <1>9
<1>10. QED BY <1>3, <1>6, <1>7, <1>8, <1>9

\* A set of places that is not empty has a first.
LEMMA Least ==
    ASSUME NEW S \in SUBSET Nat, S # {}
    PROVE  \E i \in S : \A j \in S : i <= j
<1>1. PICK i \in S : \A j \in S : ~ (<< j, i >> \in OpToRel(<, Nat))
  BY NatLessThanWellFounded, WFMin, Zenon
<1>2. \A j \in S : j \in Nat  OBVIOUS
<1>3. \A j \in S : ~ (j < i)  BY <1>1, <1>2, Zenon DEF OpToRel
<1>4. QED BY <1>2, <1>3

\* A post leaves in the ledger what was there and what was sent, nothing twice.
LEMMA DeliverDoes ==
    ASSUME NEW p \in Seq(Requests), ledger \in Seq(Requests), EntryOnce,
           ledger' = ledger \o Subseq(p, Taken(p))
    PROVE  /\ ledger' \in Seq(Requests)
           /\ \A e : In(e, ledger) \/ In(e, p) => In(e, ledger)'
           /\ EntryOnce'
<1> DEFINE S == Taken(p)
           q == Subseq(p, S)
           n == Len(ledger)
<1>1. S \in SUBSET DOMAIN p  BY DEF Taken
<1>2. /\ q \in Seq(Requests)
      /\ \A m \in DOMAIN q : Nth(S, m) \in S /\ q[m] = p[Nth(S, m)]
      /\ \A i \in S : \E m \in DOMAIN q : q[m] = p[i]
      /\ \A l, m \in DOMAIN q : Nth(S, l) = Nth(S, m) => l = m
  BY <1>1, SubseqHas
<1>3. DOMAIN p = 1 .. Len(p) /\ Len(p) \in Nat  BY LenProperties
<1>4. \A i \in S : ~ In(p[i], ledger) /\ \A j \in 1 .. i - 1 : p[j] # p[i]
  BY DEF Taken, Fresh
<1> HIDE DEF S, q
<1>5. /\ n \in Nat /\ DOMAIN ledger = 1 .. n
      /\ Len(q) \in Nat /\ DOMAIN q = 1 .. Len(q)
  BY <1>2, LenProperties
<1>6. /\ ledger' \in Seq(Requests) /\ DOMAIN ledger' = 1 .. n + Len(q)
      /\ \A i \in 1 .. n : ledger'[i] = ledger[i]
      /\ \A m \in DOMAIN q : n + m \in DOMAIN ledger' /\ ledger'[n + m] = q[m]
  <2>1. ledger' = ledger \o q  BY DEF q, S
  <2>2. Len(ledger') = n + Len(q) /\ ledger' \in Seq(Requests)
    BY <1>2, <2>1, ConcatProperties
  <2>3. QED BY <1>2, <1>5, <2>1, <2>2, ConcatProperties, LenProperties
<1>7. \A i \in DOMAIN ledger' : i \in 1 .. n \/ \E m \in DOMAIN q : i = n + m
  <2> SUFFICES ASSUME NEW i \in 1 .. n + Len(q), i \notin 1 .. n
               PROVE  \E m \in DOMAIN q : i = n + m
    BY <1>6
  <2>1. i - n \in DOMAIN q /\ i = n + (i - n)  BY <1>5
  <2>2. QED BY <2>1
<1>8. \A e : In(e, ledger) => In(e, ledger)'
  BY <1>5, <1>6 DEF In
<1>9. ASSUME NEW e, In(e, p) PROVE In(e, ledger)'
  <2> DEFINE at == {i \in DOMAIN p : p[i] = e}
  <2>1. at # {} /\ at \subseteq Nat  BY <1>3, <1>9 DEF In
  <2>2. PICK i \in at : \A j \in at : i <= j
    BY <2>1, Least
  <2>3. i \in 1 .. Len(p) /\ p[i] = e  BY <1>3
  <2>4. \A j \in 1 .. i - 1 : p[j] # e
    <3> SUFFICES ASSUME NEW j \in 1 .. i - 1, p[j] = e PROVE FALSE
      OBVIOUS
    <3>1. j \in DOMAIN p /\ j < i /\ j \in Nat  BY <1>3, <2>3
    <3>2. j \in at  BY <3>1
    <3>3. i <= j /\ i \in Nat  BY <2>2, <2>3, <3>2
    <3>4. QED BY <3>1, <3>3
  <2>5. CASE In(e, ledger)    BY <1>8, <2>5
  <2>6. CASE ~ In(e, ledger)
    <3>1. i \in S  BY <1>3, <2>3, <2>4, <2>6 DEF S, Taken, Fresh
    <3>2. PICK m \in DOMAIN q : q[m] = e  BY <1>2, <2>3, <3>1
    <3>3. QED BY <1>6, <3>2 DEF In
  <2>7. QED BY <2>5, <2>6
<1>10. ASSUME NEW i \in DOMAIN ledger', NEW j \in DOMAIN ledger', ledger'[i] = ledger'[j]
       PROVE  i = j
  <2>1. CASE i \in 1 .. n /\ j \in 1 .. n
    BY <1>5, <1>6, <1>10, <2>1 DEF EntryOnce
  <2>2. ASSUME NEW a \in 1 .. n, NEW m \in DOMAIN q PROVE ledger'[a] # ledger'[n + m]
    <3>1. ledger'[a] = ledger[a] /\ a \in DOMAIN ledger  BY <1>5, <1>6
    <3>2. ledger'[n + m] = q[m]  BY <1>6
    <3>3. PICK k \in S : q[m] = p[k]  BY <1>2
    <3>4. ~ In(p[k], ledger)  BY <1>4
    <3>5. QED BY <3>1, <3>2, <3>3, <3>4 DEF In
  <2>3. ASSUME NEW l \in DOMAIN q, NEW m \in DOMAIN q, i = n + l, j = n + m PROVE i = j
    <3>1. q[l] = q[m]  BY <1>6, <1>10, <2>3
    <3>2. PICK a \in S : a = Nth(S, l) /\ q[l] = p[a]  BY <1>2
    <3>3. PICK b \in S : b = Nth(S, m) /\ q[m] = p[b]  BY <1>2
    <3>4. a \in 1 .. Len(p) /\ b \in 1 .. Len(p)  BY <1>1, <1>3, <3>2, <3>3
    <3>5. a \notin 1 .. b - 1 /\ b \notin 1 .. a - 1  BY <1>4, <3>1, <3>2, <3>3
    <3>6. a = b  BY <1>3, <3>4, <3>5
    <3>7. l = m  BY <1>2, <3>2, <3>3, <3>6
    <3>8. QED BY <2>3, <3>7
  <2>4. QED BY <1>7, <1>10, <2>1, <2>2, <2>3
<1>11. QED BY <1>6, <1>8, <1>9, <1>10 DEF EntryOnce

------------------------------------------------------------------------------
(* The ledger                                                              *)

\* What a thread has told the ledger: it posts its own entry with the others.
Told(r) ==
    LET t == thread[r] IN
    /\ t.pc = "post" => In(r, t.pending)
    /\ t.pc = "posted" => In(r, ledger)
    /\ (lost = 0 /\ t.pc = "gone" /\ t.pending # << >>) => In(r, ledger)
    /\ t.pc = "undo" => t.op = "compensate"
    /\ t.pc \in {"timer", "gone"} => t.reply # "none"

\* A key once held and held no more was undone.
Accounted == \A k \in Keys : (Executed(k) /\ k \notin applied) => Compensated(k)

LedgerInv ==
    /\ ledger \in Seq(Requests) /\ lost \in 0 .. MaxLost
    /\ EntryOnce
    /\ \A r \in Requests : Told(r)
    /\ Accounted

\* What every step of a request does for the ledger.
Tells(r) ==
    /\ ledger' \in Seq(Requests) /\ lost' \in 0 .. MaxLost /\ (lost' = 0 => lost = 0)
    /\ EntryOnce'
    /\ \A e : In(e, ledger) => In(e, ledger)'
    /\ Told(r)'
    /\ \A k \in applied \ applied' :
          k = KeyOf(r) /\ Keeps(r) /\ thread[r].op = "compensate" /\ Took(r)'
    /\ (Took(r)' /\ thread'[r].op = "execute") =>
          (Took(r) /\ Keeps(r)) \/ thread'[r].key \in applied'

LEMMA TellsSuffices ==
    ASSUME Inv, LedgerInv, NEW r \in Requests, Progress(r), Tells(r)
    PROVE  LedgerInv'
<1>1. \A q \in Requests \ {r} : thread'[q] = thread[q]  BY DEF Progress, Turn
<1>2. ASSUME NEW q \in Requests PROVE Told(q)'
  <2>1. CASE q = r  BY <2>1 DEF Tells
  <2>2. CASE q # r
    <3>1. Told(q) /\ thread'[q] = thread[q]  BY <1>1, <2>2 DEF LedgerInv
    <3>2. QED BY <3>1 DEF Told, Tells, In
  <2>3. QED BY <2>1, <2>2
<1>3. Took(r) => Keeps(r) /\ Took(r)'  BY DEF Progress, Request, Took
<1>4. \A q \in Requests : Took(q) =>
          Took(q)' /\ thread'[q].key = thread[q].key /\ thread'[q].op = thread[q].op
  BY <1>1, <1>3 DEF Took, Keeps
<1>5. \A k : Compensated(k) => Compensated(k)'  BY <1>4 DEF Compensated, KeyOf
<1>6. ASSUME NEW k \in Keys, Executed(k)', k \notin applied' PROVE Compensated(k)'
  <2>1. CASE k \in applied
    <3>1. k = KeyOf(r) /\ Keeps(r) /\ thread[r].op = "compensate" /\ Took(r)'
      BY <1>6, <2>1 DEF Tells
    <3>2. QED BY <3>1 DEF Compensated, KeyOf, Keeps
  <2>2. CASE k \notin applied
    <3>1. PICK q \in Requests : Took(q)' /\ thread'[q].key = k /\ thread'[q].op = "execute"
      BY <1>6 DEF Executed, KeyOf
    <3>2. Took(q) /\ thread[q].key = k /\ thread[q].op = "execute"
      BY <1>1, <1>6, <3>1 DEF Tells, Keeps, Took
    <3>3. Executed(k)  BY <3>2 DEF Executed, KeyOf
    <3>4. QED BY <1>5, <2>2, <3>3 DEF LedgerInv, Accounted
  <2>3. QED BY <2>1, <2>2
<1>7. Accounted'  BY <1>6 DEF Accounted
<1>8. QED BY <1>2, <1>7 DEF LedgerInv, Tells

\* A thread that is past its fence and leaves the world and the ledger alone.
LEMMA QuietTells ==
    ASSUME Inv, LedgerInv, NEW r \in Requests, Progress(r), Keeps(r),
           UNCHANGED << applied, ledger, lost >>,
           thread'[r].pending = thread[r].pending,
           thread[r].pc \notin {"post", "posted", "gone"},
           thread'[r].pc \notin {"record", "post", "posted"},
           thread'[r].pc = "undo" => thread[r].op = "compensate",
           thread'[r].pc \in {"timer", "gone"} => thread'[r].reply # "none"
    PROVE  Tells(r)
<1>1. ThreadOK(thread[r]) /\ Told(r)  BY DEF Inv, LedgerInv
<1>2. CASE thread[r].pc = "record"
  BY <1>1, <1>2 DEF Tells, Told, LedgerInv, EntryOnce, In, Took, Keeps, ThreadOK, Sending
<1>3. CASE thread[r].pc # "record"
  <2>1. thread[r].pending = << >>  BY <1>1, <1>3 DEF ThreadOK, Sending
  <2>2. ~ Took(r)'  BY <2>1 DEF Took
  <2>3. Told(r)'  BY <2>1 DEF Told, Keeps
  <2>4. QED BY <2>2, <2>3 DEF Tells, LedgerInv, EntryOnce, In
<1>4. QED BY <1>2, <1>3

LEMMA ArriveTells ==
    ASSUME Inv, LedgerInv, NEW r \in Requests, Progress(r), Arrive(r)
    PROVE  Tells(r)
<1>1. Typed /\ ThreadOK(thread[r]) /\ Told(r)  BY DEF Inv, LedgerInv
<1>2. thread'[r].pc = "guard" /\ UNCHANGED << applied, ledger, lost >>
  BY <1>1, ArriveDoes DEF Arrive, Books
<1>3. ~ Took(r)'  BY <1>2 DEF Took
<1>4. QED BY <1>2, <1>3 DEF Tells, Told, LedgerInv, EntryOnce, In

\* The thread has changed the world and goes to record it.
LEMMA ChangeTells ==
    ASSUME Inv, LedgerInv, NEW r \in Requests, Progress(r), Keeps(r),
           UNCHANGED << ledger, lost >>, thread'[r].pc = "record",
           \/ applied' = applied \cup {KeyOf(r)} /\ thread[r].op = "execute"
           \/ applied' = applied \ {KeyOf(r)} /\ thread[r].op = "compensate"
    PROVE  Tells(r)
<1>1. Took(r)'  BY DEF Took
<1>2. QED BY <1>1 DEF Tells, Told, LedgerInv, EntryOnce, In, Keeps, KeyOf

LEMMA HandleTells ==
    ASSUME Inv, LedgerInv, NEW r \in Requests, Handle(r)
    PROVE  Tells(r)
<1>1. Progress(r)  BY HandleProgress
<1>2. Typed /\ ThreadOK(thread[r]) /\ Told(r)  BY DEF Inv, LedgerInv
<1>3. /\ thread \in [Requests -> Thread] /\ buffer \in Seq(Requests)
      /\ thread[r].op \in {"execute", "compensate"} /\ thread[r].reply \in Replies
      /\ thread[r].pending \in Seq(Requests)
  BY <1>2 DEF Typed, Thread, Replies, Entry
<1>4. ledger \in Seq(Requests) /\ lost \in Nat /\ MaxLost \in Nat /\ lost <= MaxLost
  BY ServiceAssumption DEF LedgerInv
<1> USE DEF At, Books
<1>5. ASSUME NEW status \in {"ok", "failed", "unknown"}, Answer(r, status),
             thread[r].pc \in {"guard", "fence", "look", "work", "undo"},
             UNCHANGED << applied, ledger, lost >>
      PROVE  Tells(r)
  BY <1>1, <1>3, <1>5, AnswerDoes, QuietTells DEF Replies
<1>6. ASSUME NEW pc \in {"fence", "look", "work", "undo"}, Goto(r, pc),
             pc = "undo" => thread[r].op = "compensate",
             thread[r].pc \in {"guard", "fence", "look"},
             UNCHANGED << applied, ledger, lost >>
      PROVE  Tells(r)
  BY <1>1, <1>3, <1>6, GotoDoes, QuietTells DEF Points
<1>7. CASE Guard(r)      BY <1>5, <1>6, <1>7 DEF Guard
<1>8. CASE Fence(r)      BY <1>3, <1>5, <1>6, <1>8 DEF Fence
<1>9. CASE Look(r)       BY <1>5, <1>6, <1>9 DEF Look
<1>10. CASE Fail(r)      BY <1>5, <1>10 DEF Fail
<1>11. CASE TimeOut(r)
  <2>1. CASE Answer(r, "unknown")  BY <1>5, <1>11, <2>1 DEF TimeOut
  <2>2. CASE thread' = [thread EXCEPT ![r] = [@ EXCEPT !.pc = "timer", !.reply = "unknown"]]
    <3>1. /\ Turn(r) /\ Keeps(r)
          /\ thread'[r].pc = "timer" /\ thread'[r].reply = "unknown"
          /\ thread'[r].pending = thread[r].pending
      BY <1>3, <2>2, TimerDoes
    <3>2. thread[r].pc = "work" /\ UNCHANGED << applied, ledger, lost >>
      BY <1>11 DEF TimeOut
    <3>3. QED BY <1>1, <3>1, <3>2, QuietTells
  <2>3. QED BY <1>11, <2>1, <2>2 DEF TimeOut
<1>12. CASE Hold(r)
  <2>1. /\ thread[r].op = "execute" /\ thread[r].pending = << >>
        /\ UNCHANGED << ledger, lost >> /\ applied' = applied \cup {KeyOf(r)}
    BY <1>2, <1>12 DEF Hold, ThreadOK, Sending
  <2>2. CASE Goto(r, "record")
    BY <1>1, <1>3, <2>1, <2>2, GotoDoes, ChangeTells DEF Points
  <2>3. CASE Answer(r, "ok")
    <3>1. /\ thread'[r].pc = "gone" /\ thread'[r].reply = "ok"
          /\ thread'[r].pending = << >>
      BY <1>3, <2>1, <2>3, AnswerDoes DEF Replies
    <3>2. ~ Took(r)' /\ Told(r)'  BY <3>1 DEF Took, Told
    <3>3. QED BY <2>1, <3>2 DEF Tells, LedgerInv, EntryOnce, In
  <2>4. QED BY <1>12, <2>2, <2>3 DEF Hold
<1>13. CASE Land(r)
  <2>1. thread[r].op = "execute" /\ thread[r].pc = "timer" /\ UNCHANGED << ledger, lost >>
    BY <1>2, <1>13 DEF Land, ThreadOK
  <2>2. CASE Goto(r, "gone") /\ UNCHANGED applied
    <3>1. thread[r].reply # "none"  BY <1>2, <2>1 DEF LedgerInv, Told
    <3>2. QED BY <1>1, <1>3, <2>1, <2>2, <3>1, GotoDoes, QuietTells DEF Points
  <2>3. CASE Goto(r, "record") /\ applied' = applied \cup {KeyOf(r)}
    BY <1>1, <1>3, <2>1, <2>3, GotoDoes, ChangeTells DEF Points
  <2>4. QED BY <1>13, <2>2, <2>3 DEF Land
<1>14. CASE UndoFails(r) BY <1>5, <1>14 DEF UndoFails
<1>15. CASE Undo(r)
  <2>1. Goto(r, "record") /\ thread[r].op = "compensate" /\ UNCHANGED << ledger, lost >>
    BY <1>2, <1>15 DEF Undo, Told
  <2>2. applied' = applied \ {KeyOf(r)}  BY <1>15 DEF Undo
  <2>3. QED BY <1>1, <1>3, <2>1, <2>2, GotoDoes, ChangeTells DEF Points
<1>16. CASE Record(r)
  <2>1. thread[r].pc = "record" /\ UNCHANGED << applied, ledger, lost >>
        /\ buffer' = Append(buffer, r)
    BY <1>16 DEF Record
  <2>2. thread'[r].pc = "post" /\ thread'[r].pending = buffer' /\ Keeps(r)
    BY <1>2, <1>16, RecordDoes
  <2>3. In(r, buffer')
    <3>1. /\ Len(buffer) + 1 \in DOMAIN Append(buffer, r)
          /\ Append(buffer, r)[Len(buffer) + 1] = r
      BY <1>3, AppendProperties, LenProperties
    <3>2. QED BY <2>1, <3>1 DEF In
  <2>4. Took(r)  BY <2>1 DEF Took
  <2>5. Told(r)'  BY <2>2, <2>3 DEF Told, In
  <2>6. QED BY <2>1, <2>2, <2>4, <2>5 DEF Tells, LedgerInv, EntryOnce, In
<1>17. CASE Deliver(r)
  <2>1. thread[r].pc = "post" /\ UNCHANGED << applied, lost >> /\ Goto(r, "posted")
    BY <1>17 DEF Deliver
  <2>2. /\ ledger' \in Seq(Requests) /\ EntryOnce'
        /\ \A e : In(e, ledger) \/ In(e, thread[r].pending) => In(e, ledger)'
    BY <1>3, <1>4, <1>17, DeliverDoes DEF Deliver, LedgerInv
  <2>3. thread'[r].pc = "posted" /\ Keeps(r)  BY <1>3, <2>1, GotoDoes DEF Points
  <2>4. In(r, ledger)' /\ Took(r)  BY <1>2, <2>1, <2>2 DEF Told, Took
  <2>5. Told(r)'  BY <2>3, <2>4 DEF Told
  <2>6. QED BY <1>4, <2>1, <2>2, <2>3, <2>4, <2>5 DEF Tells, LedgerInv
<1>18. ASSUME Finish(r), thread[r].pc \in {"post", "posted"}, UNCHANGED << applied, ledger >>,
              \/ lost' = lost + 1 /\ lost < MaxLost
              \/ lost' = lost /\ thread[r].pc = "posted"
       PROVE  Tells(r)
  <2>1. /\ Keeps(r) /\ thread'[r].pc = "gone" /\ thread'[r].pending = thread[r].pending
        /\ thread'[r].reply # "none"
    BY <1>3, <1>18, FinishDoes
  <2>2. lost' \in 0 .. MaxLost /\ (lost' = 0 => lost = 0 /\ thread[r].pc = "posted")
    BY <1>4, <1>18
  <2>3. Took(r)  BY <1>18 DEF Took
  <2>4. Told(r)'  BY <1>2, <1>18, <2>1, <2>2 DEF Told, In
  <2>5. QED BY <1>18, <2>1, <2>2, <2>3, <2>4 DEF Tells, LedgerInv, EntryOnce, In
<1>19. CASE Lost(r)      BY <1>18, <1>19 DEF Lost
<1>20. CASE Trim(r)      BY <1>18, <1>20 DEF Trim
<1>21. QED BY <1>7, <1>8, <1>9, <1>10, <1>11, <1>12, <1>13, <1>14, <1>15, <1>16, <1>17,
              <1>19, <1>20 DEF Handle

------------------------------------------------------------------------------
(* Theorems                                                                *)

\* The inductive invariant holds of every reachable state of a service.
THEOREM ServiceInvariance == Spec => []Inv
<1>1. Init => Inv
  BY DEF Init, Inv, Typed, Thread, Points, Entry, ThreadOK, Asked, Sending, Backed,
         Executed, KeyOf
<1>2. Inv /\ [Next]_vars => Inv'
  <2>1. ASSUME Inv, NEW r \in Requests, Arrive(r) \/ Handle(r) PROVE Inv'
    BY <2>1, ArriveProgress, HandleProgress, ProgressSuffices
  <2>2. ASSUME Inv, UNCHANGED vars PROVE Inv'
    BY <2>2 DEF vars, Inv, Typed, ThreadOK, Asked, Sending, Backed, Executed, Took, KeyOf
  <2>3. QED BY <2>1, <2>2 DEF Next
<1>3. QED BY <1>1, <1>2, PTL DEF Spec

\* What is so of the ledger, on top of that.
THEOREM LedgerInvariance == Spec => []LedgerInv
<1>1. Init => LedgerInv
  BY ServiceAssumption, EmptySeq
     DEF Init, LedgerInv, EntryOnce, Told, Accounted, Executed, Took
<1>2. Inv /\ LedgerInv /\ [Next]_vars => LedgerInv'
  <2>1. ASSUME Inv, LedgerInv, NEW r \in Requests, Arrive(r) \/ Handle(r) PROVE LedgerInv'
    BY <2>1, ArriveProgress, HandleProgress, ArriveTells, HandleTells, TellsSuffices
  <2>2. ASSUME LedgerInv, UNCHANGED vars PROVE LedgerInv'
    BY <2>2 DEF vars, LedgerInv, EntryOnce, Told, Accounted, Executed, Compensated, Took,
                KeyOf, In
  <2>3. QED BY <2>1, <2>2 DEF Next
<1>3. QED BY <1>1, <1>2, ServiceInvariance, PTL DEF Spec

\* Fences, keys, buffer and ledger are what they are taken for, and no thread goes without
\* an answer (services.py, world.py).
THEOREM ServiceTypeCorrect == Spec => []TypeOK
<1>1. Inv /\ LedgerInv => TypeOK
  BY DEF Inv, Typed, LedgerInv, Told, TypeOK, Entry
<1>2. QED BY <1>1, ServiceInvariance, LedgerInvariance, PTL

\* The oracle has every change of the world, unless a post had no answer, and none twice,
\* although threads share a buffer and delete from it by count (LedgerClient.record,
\* create_ledger_service of services.py).
THEOREM LedgerTrueHolds == Spec => []LedgerTrue
<1>1. Inv /\ LedgerInv => LedgerTrue
  BY DEF Inv, Backed, LedgerInv, Told, Accounted, Took, At, LedgerTrue, LedgerTellsAll
<1>2. QED BY <1>1, ServiceInvariance, LedgerInvariance, PTL

\* What a service answers is so: an ok says what was done, a failed what was
\* not done and will not be, whatever the other threads are at (world.py, execute).
THEOREM AnswersTrueHolds == Spec => []AnswersTrue
<1>1. Inv => AnswersTrue
  BY DEF Inv, AnswersTrue, ThreadOK, Backed, Took, At, KeyOf, Typed, Thread
<1>2. QED BY <1>1, ServiceInvariance, PTL

\* A request that comes in after the service heard of a newer leader changes
\* nothing: the two fences of services.py and world.py need no common lock.
THEOREM LateComerRefusedHolds == Spec => []LateComerRefused
<1>1. Inv => LateComerRefused
  BY DEF Inv, LateComerRefused, ThreadOK, Asked, Took
<1>2. QED BY <1>1, ServiceInvariance, PTL
=============================================================================
