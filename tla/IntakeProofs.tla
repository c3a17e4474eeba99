--------------------------- MODULE IntakeProofs ---------------------------
(***************************************************************************)
(* What was delivered is settled or pending and every lease is a           *)
(* leadership, for any number of alerts and processes, any batch size and  *)
(* any times.                                                              *)
(***************************************************************************)
EXTENDS Intake, TLAPS

------------------------------------------------------------------------------
(* The inductive invariant                                                 *)

InHand == {"ask", "work", "settled"}

\* What a process has in memory is about messages that were delivered, its table
\* has for an alert a message of that alert, and it settled what it acknowledges.
Sound(p) ==
    /\ p.pc \in InHand => p.msg \in 1 .. cursor
    /\ p.pc = "settled" => stream[p.msg] \in settled
    /\ \A a \in Alerts : p.ids[a] # NoMessage => stream[p.ids[a]] = a

Inv == TypeOK /\ (\A c \in Consumers : Sound(proc[c])) /\ Covered

------------------------------------------------------------------------------
(* Lemmas                                                                  *)

\* The larger and the smaller of two numbers.
LEMMA MaxOfTwo ==
    ASSUME NEW x \in Int, NEW y \in Int
    PROVE  Max({x, y}) \in {x, y} /\ Max({x, y}) >= x /\ Max({x, y}) >= y
<1>1. \E m \in {x, y} : \A k \in {x, y} : m >= k  OBVIOUS
<1>2. QED BY <1>1 DEF Max

LEMMA MinOfTwo ==
    ASSUME NEW x \in Int, NEW y \in Int
    PROVE  Min({x, y}) \in {x, y} /\ x >= Min({x, y}) /\ y >= Min({x, y})
<1>1. \E m \in {x, y} : \A k \in {x, y} : k >= m  OBVIOUS
<1>2. QED BY <1>1 DEF Min

\* The stream, the cursor and the settled alerts only grow.
Grows ==
    /\ stream' \in Seq(Alerts) /\ Len(stream) <= Len(stream')
    /\ \A m \in 1 .. Len(stream) : stream'[m] = stream[m]
    /\ cursor' \in cursor .. Len(stream')
    /\ settled \subseteq settled' /\ settled' \subseteq Alerts

\* Process c now has p in memory, and p is sound; the others are as they were.
Turn(c, p) ==
    /\ proc' = [proc EXCEPT ![c] = p]
    /\ p \in Local' /\ Sound(p)'

\* Memory stays good while these grow.
LEMMA StaysGood ==
    ASSUME TypeOK, Grows, NEW p \in Local, Sound(p)
    PROVE  p \in Local' /\ Sound(p)'
<1>1. /\ cursor \in Nat /\ cursor' \in Nat /\ cursor <= cursor' /\ cursor <= Len(stream)
      /\ \A m \in 1 .. cursor : stream'[m] = stream[m]
  BY DEF TypeOK, Grows
<1>2. p \in Local'
  <2>1. /\ 0 .. cursor \subseteq 0 .. cursor' /\ 1 .. cursor \subseteq 1 .. cursor'
    BY <1>1
  <2>2. /\ p.msg \in 0 .. cursor' /\ p.batch \in SUBSET (1 .. cursor')
        /\ p.ids \in [Alerts -> 0 .. cursor']
    BY <2>1 DEF Local
  <2>3. QED BY <2>2 DEF Local
<1>3. p.ids \in [Alerts -> 0 .. cursor]  BY DEF Local
<1>4. Sound(p)'
  <2>1. ASSUME NEW a \in Alerts, p.ids[a] # NoMessage
        PROVE  stream'[p.ids[a]] = a
    <3>1. p.ids[a] \in 1 .. cursor
      BY <1>1, <1>3, <2>1 DEF NoMessage
    <3>2. QED BY <1>1, <2>1, <3>1 DEF Sound
  <2>2. p.pc \in InHand => p.msg \in 1 .. cursor /\ p.msg \in 1 .. cursor'
    BY <1>1 DEF Sound
  <2>3. p.pc = "settled" => stream'[p.msg] \in settled'
    BY <1>1, <2>2 DEF Sound, Grows, InHand
  <2>4. QED BY <2>1, <2>2, <2>3 DEF Sound
<1>5. QED BY <1>2, <1>4

\* All that is left for an action to show.
LEMMA MovesSuffice ==
    ASSUME Inv, Grows, leases' \in [Alerts -> Lease], stops' \in 0 .. MaxStops,
           DOMAIN pending' \subseteq 1 .. cursor',
           \A m \in DOMAIN pending' : pending'[m] \in Entry,
           \A m \in 1 .. cursor' :
              \/ stream'[m] \in settled'
              \/ \E k \in DOMAIN pending' : stream'[k] = stream'[m],
           UNCHANGED proc \/ \E c \in Consumers, p \in Local' : Turn(c, p)
    PROVE  Inv'
<1>1. \A c \in Consumers : proc[c] \in Local /\ Sound(proc[c])
  BY DEF Inv, TypeOK
<1>2. \A p \in Local : Sound(p) => p \in Local' /\ Sound(p)'
  BY StaysGood DEF Inv
<1>3. proc' \in [Consumers -> Local'] /\ \A c \in Consumers : Sound(proc[c])'
  <2>1. proc \in [Consumers -> Local']
    BY <1>1, <1>2 DEF Inv, TypeOK
  <2>2. CASE UNCHANGED proc
    BY <1>1, <1>2, <2>1, <2>2 DEF Sound
  <2>3. ASSUME NEW c \in Consumers, NEW p \in Local', Turn(c, p)
        PROVE  proc' \in [Consumers -> Local'] /\ \A d \in Consumers : Sound(proc[d])'
    <3>1. \A d \in Consumers : proc'[d] = IF d = c THEN p ELSE proc[d]
      BY <2>1, <2>3 DEF Turn
    <3>2. proc' \in [Consumers -> Local']
      BY <2>1, <2>3 DEF Turn
    <3>3. \A d \in Consumers : Sound(proc[d])'
      BY <1>1, <1>2, <2>3, <3>1 DEF Turn, Sound
    <3>4. QED BY <3>2, <3>3
  <2>4. QED BY <2>2, <2>3
<1>4. QED BY <1>3 DEF Inv, TypeOK, Covered, Grows
------------------------------------------------------------------------------
(* The lists a process is handed                                           *)

\* A claim hands over pending messages; a read the next ones of the stream.
LEMMA Handover ==
    ASSUME TypeOK, NEW c \in Consumers
    PROVE  /\ First(BatchSize, Stale(c)) \subseteq DOMAIN pending
           /\ ReadUpTo \in cursor .. Len(stream)
           /\ Unread \subseteq 1 .. ReadUpTo
           /\ \A m \in 1 .. ReadUpTo : m \in 1 .. cursor \/ m \in Unread
<1>1. cursor \in Nat /\ Len(stream) \in Nat /\ cursor <= Len(stream) /\ BatchSize \in Nat
  BY IntakeAssumption DEF TypeOK
<1>2. First(BatchSize, Stale(c)) \subseteq DOMAIN pending
  BY DEF First, Stale, Waiting
<1>3. ReadUpTo \in cursor .. Len(stream)
  BY <1>1 DEF ReadUpTo
<1>4. QED BY <1>1, <1>2, <1>3 DEF Unread

\* What is handed over is pending afterwards, and so is all that was.
LEMMA DeliveredType ==
    ASSUME TypeOK, NEW c \in Consumers, NEW batch, Delivered(c, batch)
    PROVE  /\ DOMAIN pending' = DOMAIN pending \cup batch
           /\ \A m \in DOMAIN pending' : pending'[m] \in Entry
<1>1. [owner |-> c, idle |-> 0] \in Entry
  BY IntakeAssumption DEF Entry
<1>2. QED BY <1>1 DEF Delivered, TypeOK

------------------------------------------------------------------------------
(* Every action                                                            *)

\* What is left to show of an action of a process that neither reads from the
\* stream nor settles: its memory p, and that pending messages stay covered.
LEMMA TurnSuffices ==
    ASSUME Inv, UNCHANGED << stream, cursor, settled >>,
           NEW c \in Consumers, NEW p \in Local, Sound(p), proc' = [proc EXCEPT ![c] = p],
           leases' \in [Alerts -> Lease], stops' \in 0 .. MaxStops,
           DOMAIN pending' \subseteq DOMAIN pending,
           \A m \in DOMAIN pending' : pending'[m] \in Entry,
           \A m \in DOMAIN pending \ DOMAIN pending' : stream[m] \in settled
    PROVE  Inv'
<1>1. TypeOK /\ Grows
  <2>1. TypeOK /\ cursor \in Nat /\ Len(stream) \in Nat /\ cursor <= Len(stream)
    BY DEF Inv, TypeOK
  <2>2. QED BY <2>1 DEF Grows, TypeOK
<1>2. Turn(c, p)
  <2>1. p \in Local' /\ Sound(p)'
    BY <1>1, StaysGood
  <2>2. QED BY <2>1 DEF Turn
<1>3. \E d \in Consumers, q \in Local' : Turn(d, q)
  BY <1>2 DEF Turn
<1>4. \A m \in 1 .. cursor' :
         \/ stream'[m] \in settled'
         \/ \E k \in DOMAIN pending' : stream'[k] = stream'[m]
  BY DEF Inv, Covered
<1>5. DOMAIN pending' \subseteq 1 .. cursor'
  BY <1>1 DEF TypeOK
<1>6. QED BY <1>1, <1>3, <1>4, <1>5, MovesSuffice

LEMMA ClaimKeeps ==
    ASSUME Inv, NEW c \in Consumers, Claim(c)
    PROVE  Inv'
<1> DEFINE batch == First(BatchSize, Stale(c))
<1>1. proc[c] \in Local /\ Sound(proc[c]) /\ TypeOK
  BY DEF Inv, TypeOK
<1>2. PICK ids \in [Alerts -> 0 .. cursor] :
         /\ Entered(c, batch, ids)
         /\ Delivered(c, batch)
         /\ proc' = [proc EXCEPT ![c] =
                [proc[c] EXCEPT !.loop = "claim", !.batch = batch, !.ids = ids]]
  BY DEF Claim
<1> DEFINE p == [proc[c] EXCEPT !.loop = "claim", !.batch = batch, !.ids = ids]
<1>3. batch \subseteq DOMAIN pending /\ batch \in SUBSET (1 .. cursor)
  BY <1>1, Handover DEF TypeOK
<1>4. DOMAIN pending' = DOMAIN pending /\ \A m \in DOMAIN pending' : pending'[m] \in Entry
  BY <1>1, <1>2, <1>3, DeliveredType
<1>5. \A a \in Alerts : ids[a] # NoMessage => stream[ids[a]] = a
  BY <1>1, <1>2 DEF Entered, Sound
<1> HIDE DEF batch
<1>6. /\ p \in Local /\ p.pc = proc[c].pc /\ p.msg = proc[c].msg /\ p.ids = ids
  BY <1>1, <1>3 DEF Local, Loops
<1>7. Sound(p)
  BY <1>1, <1>5, <1>6 DEF Sound
<1>8. UNCHANGED << stream, cursor, settled, leases, stops >>
  BY DEF Claim
<1>9. leases' \in [Alerts -> Lease] /\ stops' \in 0 .. MaxStops
  BY <1>1, <1>8 DEF TypeOK
<1> HIDE DEF p
<1>10. proc' = [proc EXCEPT ![c] = p]
  BY <1>2 DEF p
<1>11. QED
  BY <1>4, <1>6, <1>7, <1>8, <1>9, <1>10, TurnSuffices

LEMMA TakeKeeps ==
    ASSUME Inv, NEW c \in Consumers, Take(c)
    PROVE  Inv'
<1>1. proc[c] \in Local /\ Sound(proc[c]) /\ TypeOK
  BY DEF Inv, TypeOK
<1>2. PICK m \in proc[c].batch :
         proc' = [proc EXCEPT ![c] =
            [proc[c] EXCEPT !.pc = "ask", !.msg = m, !.batch = proc[c].batch \ {m}, !.waited = 0,
                !.ids = IF proc[c].loop = "consume"
                        THEN [proc[c].ids EXCEPT ![stream[m]] = m] ELSE proc[c].ids]]
  BY ZenonT(30) DEF Take
<1> DEFINE ids == IF proc[c].loop = "consume"
                  THEN [proc[c].ids EXCEPT ![stream[m]] = m] ELSE proc[c].ids
           p == [proc[c] EXCEPT !.pc = "ask", !.msg = m, !.batch = proc[c].batch \ {m},
                                !.waited = 0, !.ids = ids]
<1>3. m \in 1 .. cursor /\ m \in 0 .. cursor
  BY <1>1 DEF Local, TypeOK
<1>4. stream[m] \in Alerts
  BY <1>1, <1>3 DEF TypeOK
<1>5. /\ ids \in [Alerts -> 0 .. cursor]
      /\ \A a \in Alerts : ids[a] # NoMessage => stream[ids[a]] = a
  BY <1>1, <1>3, <1>4 DEF Local, Sound
<1>6. proc' = [proc EXCEPT ![c] = p]
  BY <1>2
<1> HIDE DEF ids
<1>7. p \in Local /\ p.pc = "ask" /\ p.msg = m /\ p.ids = ids
  <2>1. "ask" \in Points /\ 0 \in 0 .. BusyTimeout
    BY IntakeAssumption DEF Points
  <2>2. proc[c].batch \ {m} \in SUBSET (1 .. cursor)
    BY <1>1 DEF Local
  <2>3. QED BY <1>1, <1>3, <1>5, <2>1, <2>2 DEF Local
<1>8. Sound(p)
  BY <1>3, <1>5, <1>7 DEF Sound
<1>9. UNCHANGED << stream, cursor, pending, settled, leases, stops >>
  BY DEF Take, groupVars
<1> HIDE DEF p
<1>10. QED
  BY <1>1, <1>6, <1>7, <1>8, <1>9, TurnSuffices DEF TypeOK


LEMMA ReadKeeps ==
    ASSUME Inv, NEW c \in Consumers, Read(c)
    PROVE  Inv'
<1>1. proc[c] \in Local /\ Sound(proc[c]) /\ TypeOK
  BY DEF Inv, TypeOK
<1> DEFINE loop == IF Unread = {} THEN "top" ELSE "consume"
<1>2. /\ Delivered(c, Unread) /\ cursor' = ReadUpTo
      /\ proc' = [proc EXCEPT ![c] = [proc[c] EXCEPT !.loop = loop, !.batch = Unread]]
      /\ UNCHANGED << stream, settled, leases, stops >>
  BY DEF Read
<1>3. /\ ReadUpTo \in cursor .. Len(stream) /\ Unread \subseteq 1 .. ReadUpTo
      /\ \A m \in 1 .. ReadUpTo : m \in 1 .. cursor \/ m \in Unread
  BY <1>1, Handover
<1>4. cursor \in Nat /\ cursor' \in Nat /\ Len(stream) \in Nat /\ cursor <= cursor'
  BY <1>1, <1>2, <1>3 DEF TypeOK
<1>5. Grows
  BY <1>1, <1>2, <1>3, <1>4 DEF Grows, TypeOK
<1>6. /\ DOMAIN pending' = DOMAIN pending \cup Unread
      /\ \A m \in DOMAIN pending' : pending'[m] \in Entry
  BY <1>1, <1>2, DeliveredType
<1>7. DOMAIN pending' \subseteq 1 .. cursor'
  BY <1>1, <1>2, <1>3, <1>4, <1>6 DEF TypeOK
<1>8. \A m \in 1 .. cursor' :
         \/ stream'[m] \in settled'
         \/ \E k \in DOMAIN pending' : stream'[k] = stream'[m]
  BY <1>2, <1>3, <1>6 DEF Inv, Covered
<1>9. PICK q : q = proc[c]
  OBVIOUS
<1>10. q \in Local /\ q \in Local' /\ Sound(q)'
  <2>1. q \in Local /\ Sound(q)
    BY <1>1, <1>9 DEF Sound
  <2>2. QED BY <1>1, <1>5, <2>1, StaysGood
<1>11. PICK p : p = [q EXCEPT !.loop = loop, !.batch = Unread]
  OBVIOUS
<1>12. loop \in Loops /\ Unread \in SUBSET (1 .. cursor')
  BY <1>2, <1>3 DEF Loops
<1> HIDE DEF loop
<1>13. p \in Local' /\ p.pc = q.pc /\ p.msg = q.msg /\ p.ids = q.ids
  BY <1>10, <1>11, <1>12 DEF Local
<1>14. Sound(p)'
  BY <1>10, <1>13 DEF Sound
<1>15. Turn(c, p)
  BY <1>2, <1>9, <1>11, <1>13, <1>14 DEF Turn
<1>16. \E d \in Consumers, r \in Local' : Turn(d, r)
  BY <1>13, <1>15
<1>17. leases' \in [Alerts -> Lease] /\ stops' \in 0 .. MaxStops
  BY <1>1, <1>2 DEF TypeOK
<1>18. QED
  BY <1>5, <1>6, <1>7, <1>8, <1>16, <1>17, MovesSuffice

LEMMA PublishKeeps ==
    ASSUME Inv, NEW a \in Alerts, Publish(a)
    PROVE  Inv'
<1>1. TypeOK
  BY DEF Inv
<1>2. stream' = Append(stream, a) /\ UNCHANGED << cursor, pending, leases, proc, settled, stops >>
  BY DEF Publish
<1>3. Grows
  BY <1>1, <1>2 DEF Grows, TypeOK
<1>4. \A m \in 1 .. cursor : stream'[m] = stream[m]
  BY <1>1, <1>3 DEF Grows, TypeOK
<1>5. /\ leases' \in [Alerts -> Lease] /\ stops' \in 0 .. MaxStops
      /\ DOMAIN pending' \subseteq 1 .. cursor'
      /\ \A m \in DOMAIN pending' : pending'[m] \in Entry
  BY <1>1, <1>2 DEF TypeOK
<1>6. \A m \in 1 .. cursor' :
         \/ stream'[m] \in settled'
         \/ \E k \in DOMAIN pending' : stream'[k] = stream'[m]
  BY ZenonT(30), <1>2, <1>4, <1>5 DEF Inv, Covered
<1>7. QED
  BY <1>2, <1>3, <1>5, <1>6, MovesSuffice

\* After a message the memory is good, whatever is left of the table.
LEMMA HandledGood ==
    ASSUME Inv, NEW c \in Consumers, NEW ids \in [Alerts -> 0 .. cursor],
           \A a \in Alerts : ids[a] # NoMessage => stream[ids[a]] = a
    PROVE  Handled(c, ids) \in Local /\ Sound(Handled(c, ids))
<1>1. proc[c] \in Local /\ cursor \in Nat
  BY DEF Inv, TypeOK
<1> DEFINE leaves == proc[c].loop = "consume" /\ proc[c].stop
           loop == IF leaves THEN "top" ELSE proc[c].loop
           batch == IF leaves THEN {} ELSE proc[c].batch
           p == [proc[c] EXCEPT !.pc = "next", !.msg = NoMessage, !.waited = 0, !.ids = ids,
                                !.loop = loop, !.batch = batch]
<1>2. p = Handled(c, ids)
  BY <1>1 DEF Handled, Local
<1>3. /\ loop \in Loops /\ batch \in SUBSET (1 .. cursor) /\ "next" \in Points
      /\ NoMessage \in 0 .. cursor /\ 0 \in 0 .. BusyTimeout
  BY <1>1, IntakeAssumption DEF Local, Loops, Points, NoMessage
<1> HIDE DEF loop, batch
<1>4. p \in Local /\ p.pc = "next" /\ p.ids = ids
  BY <1>1, <1>3 DEF Local
<1>5. Sound(p)
  BY <1>4 DEF Sound, InHand
<1>6. QED BY <1>2, <1>4, <1>5

\* A process that comes up, or is down, remembers nothing.
LEMMA StartedGood ==
    ASSUME cursor \in Nat
    PROVE  \A p \in {Started, Down, Deaf} : p \in Local /\ Sound(p)
<1>1. /\ NoMessage \in 0 .. cursor /\ 0 \in 0 .. BusyTimeout
      /\ [a \in Alerts |-> NoMessage] \in [Alerts -> 0 .. cursor]
      /\ {"next", "down", "deaf"} \subseteq Points /\ "top" \in Loops
  BY IntakeAssumption DEF NoMessage, Points, Loops
<1>2. Started \in Local /\ Down \in Local /\ Deaf \in Local
  BY <1>1 DEF Started, Down, Deaf, Local
<1>3. /\ Started.pc = "next" /\ Down.pc = "down" /\ Deaf.pc = "deaf"
      /\ \A p \in {Started, Down, Deaf} : \A a \in Alerts : p.ids[a] = NoMessage
  BY DEF Started, Down, Deaf
<1>4. QED BY <1>2, <1>3 DEF Sound, InHand

\* A process asks for a lease after it waited no longer than the busy timeout.
LEMMA AskingGood ==
    ASSUME Inv, NEW c \in Consumers, At(c, "ask")
    PROVE  /\ proc[c] \in Local /\ Sound(proc[c])
           /\ AlertAt(c) \in Alerts /\ proc[c].waited \in 0 .. BusyTimeout
<1>1. proc[c] \in Local /\ Sound(proc[c]) /\ TypeOK
  BY DEF Inv, TypeOK
<1>2. proc[c].msg \in 1 .. cursor
  BY <1>1 DEF Sound, At, InHand
<1>3. AlertAt(c) \in Alerts
  BY <1>1, <1>2 DEF AlertAt, TypeOK
<1>4. QED BY <1>1, <1>3 DEF Local

LEMMA LeadKeeps ==
    ASSUME Inv, NEW c \in Consumers, Lead(c)
    PROVE  Inv'
<1>1. TypeOK /\ At(c, "ask")
  BY DEF Inv, Lead
<1>2. /\ proc[c] \in Local /\ Sound(proc[c])
      /\ AlertAt(c) \in Alerts /\ proc[c].waited \in 0 .. BusyTimeout
  BY <1>1, AskingGood
<1> DEFINE p == [proc[c] EXCEPT !.pc = "work", !.waited = 0]
           a == AlertAt(c)
<1>3. p \in Local /\ Sound(p)
  <2>1. "work" \in Points /\ 0 \in 0 .. BusyTimeout
    BY IntakeAssumption DEF Points
  <2>2. p \in Local /\ p.pc = "work" /\ p.msg = proc[c].msg /\ p.ids = proc[c].ids
    BY <1>2, <2>1 DEF Local
  <2>3. QED BY <1>1, <1>2, <2>2 DEF Sound, InHand, At
<1>4. /\ UNCHANGED << stream, cursor, pending, settled, stops >>
      /\ proc' = [proc EXCEPT ![c] = p]
      /\ leases' = [leases EXCEPT ![a] =
             [owner |-> c, epoch |-> leases[a].epoch + 1, left |-> Ttl - proc[c].waited]]
  BY DEF Lead, groupVars
<1>5. leases' \in [Alerts -> Lease]
  <2>1. leases[a] \in Lease /\ leases \in [Alerts -> Lease]
    BY <1>1, <1>2 DEF TypeOK
  <2>2. Ttl - proc[c].waited \in - BusyTimeout .. Ttl
    BY <1>2, IntakeAssumption
  <2>3. [owner |-> c, epoch |-> leases[a].epoch + 1, left |-> Ttl - proc[c].waited] \in Lease
    BY <2>1, <2>2 DEF Lease
  <2>4. QED BY <1>2, <1>4, <2>1, <2>3
<1> HIDE DEF p
<1>6. QED BY <1>1, <1>3, <1>4, <1>5, TurnSuffices DEF TypeOK

LEMMA RefuseKeeps ==
    ASSUME Inv, NEW c \in Consumers, Refuse(c)
    PROVE  Inv'
<1>1. proc[c] \in Local /\ Sound(proc[c]) /\ TypeOK
  BY DEF Inv, TypeOK
<1>2. Handled(c, proc[c].ids) \in Local /\ Sound(Handled(c, proc[c].ids))
  BY <1>1, HandledGood DEF Local, Sound
<1>3. /\ UNCHANGED << stream, cursor, pending, leases, settled, stops >>
      /\ proc' = [proc EXCEPT ![c] = Handled(c, proc[c].ids)]
  BY DEF Refuse, groupVars
<1>4. QED BY <1>1, <1>2, <1>3, TurnSuffices DEF TypeOK

LEMMA SettleKeeps ==
    ASSUME Inv, NEW c \in Consumers, Settle(c)
    PROVE  Inv'
<1>1. proc[c] \in Local /\ Sound(proc[c]) /\ TypeOK /\ cursor \in Nat
  BY DEF Inv, TypeOK
<1>2. /\ UNCHANGED << stream, cursor, pending, leases, stops >>
      /\ settled' = settled \cup {AlertAt(c)} /\ proc' = [proc EXCEPT ![c].pc = "settled"]
  BY DEF Settle, groupVars
<1>3. proc[c].msg \in 1 .. cursor
  BY <1>1 DEF Settle, Sound, At, InHand
<1>4. AlertAt(c) \in Alerts
  BY <1>1, <1>3 DEF AlertAt, TypeOK
<1>5. Grows
  BY <1>1, <1>2, <1>4 DEF Grows, TypeOK
<1>6. PICK p : p = [proc[c] EXCEPT !.pc = "settled"]
  OBVIOUS
<1>7. /\ p \in Local /\ p.pc = "settled" /\ p.msg = proc[c].msg /\ p.ids = proc[c].ids
  BY <1>1, <1>6 DEF Local, Points
<1>8. p \in Local'
  BY <1>2, <1>7 DEF Local
<1>9. Sound(p)'
  BY <1>1, <1>2, <1>3, <1>7 DEF Sound, AlertAt
<1>10. \E d \in Consumers, q \in Local' : Turn(d, q)
  BY <1>2, <1>6, <1>8, <1>9 DEF Turn
<1>11. \A m \in 1 .. cursor' :
          \/ stream'[m] \in settled'
          \/ \E k \in DOMAIN pending' : stream'[k] = stream'[m]
  BY <1>2 DEF Inv, Covered
<1>12. /\ leases' \in [Alerts -> Lease] /\ stops' \in 0 .. MaxStops
       /\ DOMAIN pending' \subseteq 1 .. cursor'
       /\ \A m \in DOMAIN pending' : pending'[m] \in Entry
  BY <1>1, <1>2 DEF TypeOK
<1>13. QED BY <1>5, <1>10, <1>11, <1>12, MovesSuffice

LEMMA AckKeeps ==
    ASSUME Inv, NEW c \in Consumers, Ack(c)
    PROVE  Inv'
<1>1. proc[c] \in Local /\ Sound(proc[c]) /\ TypeOK /\ cursor \in Nat
  BY DEF Inv, TypeOK
<1> DEFINE a == AlertAt(c)
           ids == [proc[c].ids EXCEPT ![a] = NoMessage]
<1>2. /\ UNCHANGED << stream, cursor, leases, settled, stops >>
      /\ pending' = [m \in DOMAIN pending \ {proc[c].ids[a]} |-> pending[m]]
      /\ proc' = [proc EXCEPT ![c] = Handled(c, ids)]
  BY DEF Ack
<1>3. proc[c].msg \in 1 .. cursor /\ a \in settled
  BY <1>1 DEF Ack, Sound, At, InHand, AlertAt
<1>4. a \in Alerts
  BY <1>1, <1>3 DEF TypeOK
<1>5. proc[c].ids \in [Alerts -> 0 .. cursor]
  BY <1>1 DEF Local
<1>6. ids \in [Alerts -> 0 .. cursor]
  <2>1. NoMessage \in 0 .. cursor
    BY <1>1 DEF NoMessage
  <2>2. QED BY <1>5, <2>1
<1>7. \A b \in Alerts : ids[b] # NoMessage => stream[ids[b]] = b
  BY <1>1, <1>5 DEF Sound
<1> HIDE DEF ids
<1>8. Handled(c, ids) \in Local /\ Sound(Handled(c, ids))
  BY <1>6, <1>7, HandledGood
<1>9. \A m \in DOMAIN pending \ DOMAIN pending' : stream[m] \in settled
  <2>1. SUFFICES ASSUME NEW m \in DOMAIN pending, m = proc[c].ids[a]
                 PROVE  stream[m] \in settled
    BY <1>2
  <2>2. m # NoMessage
    BY <1>1 DEF TypeOK, NoMessage
  <2>3. QED BY <1>1, <1>3, <1>4, <2>1, <2>2 DEF Sound
<1>10. /\ DOMAIN pending' \subseteq DOMAIN pending
       /\ \A m \in DOMAIN pending' : pending'[m] \in Entry
  BY <1>1, <1>2 DEF TypeOK
<1>11. leases' \in [Alerts -> Lease] /\ stops' \in 0 .. MaxStops
  BY <1>1, <1>2 DEF TypeOK
<1>12. QED BY <1>2, <1>8, <1>9, <1>10, <1>11, TurnSuffices

\* Told to stop, killed, ended or brought up: nothing but the memory changes.
LEMMA EndsKeep ==
    ASSUME Inv, NEW c \in Consumers,
           Exit(c) \/ Signal(c) \/ Crash(c) \/ Restart(c) \/ FallBack(c)
    PROVE  Inv'
<1>1. proc[c] \in Local /\ Sound(proc[c]) /\ TypeOK /\ cursor \in Nat
  BY DEF Inv, TypeOK
<1>2. /\ UNCHANGED << stream, cursor, pending, leases, settled >>
      /\ stops' \in 0 .. MaxStops
  <2>1. stops \in 0 .. MaxStops
    BY <1>1 DEF TypeOK
  <2>2. UNCHANGED stops \/ (stops < MaxStops /\ stops' = stops + 1)
    BY DEF Exit, Signal, Crash, Restart, FallBack
  <2>3. stops' \in 0 .. MaxStops
    BY <2>1, <2>2, IntakeAssumption
  <2>4. QED BY <2>3 DEF Exit, Signal, Crash, Restart, FallBack, groupVars
<1> DEFINE told == [proc[c] EXCEPT !.stop = TRUE]
<1>3. told \in Local /\ Sound(told)
  <2>1. /\ told \in Local
        /\ told.pc = proc[c].pc /\ told.msg = proc[c].msg /\ told.ids = proc[c].ids
    BY <1>1 DEF Local
  <2> HIDE DEF told
  <2>2. QED BY <1>1, <2>1 DEF Sound
<1>4. \A p \in {Started, Down, Deaf} : p \in Local /\ Sound(p)
  BY <1>1, StartedGood
<1>5. \E p \in {told, Started, Down, Deaf} : proc' = [proc EXCEPT ![c] = p]
  BY <1>1 DEF Exit, Signal, Crash, Restart, FallBack, TypeOK
<1> HIDE DEF told
<1>6. PICK p \in Local : Sound(p) /\ proc' = [proc EXCEPT ![c] = p]
  BY <1>3, <1>4, <1>5
<1>7. leases' \in [Alerts -> Lease] /\ DOMAIN pending' \subseteq DOMAIN pending
      /\ DOMAIN pending \ DOMAIN pending' = {} /\ \A m \in DOMAIN pending' : pending'[m] \in Entry
  BY <1>1, <1>2 DEF TypeOK
<1>8. QED BY <1>2, <1>6, <1>7, TurnSuffices

\* Time makes pending messages older, leases shorter and waits longer.
LEMMA TickKeeps ==
    ASSUME Inv, Tick
    PROVE  Inv'
<1>1. TypeOK /\ Covered /\ \A c \in Consumers : proc[c] \in Local /\ Sound(proc[c])
  BY DEF Inv, TypeOK
<1>2. UNCHANGED << stream, cursor, settled, stops >>
  BY DEF Tick
<1>3. DOMAIN pending' = DOMAIN pending /\ \A m \in DOMAIN pending' : pending'[m] \in Entry
  <2>1. DOMAIN pending' = DOMAIN pending
    BY DEF Tick
  <2>2. ASSUME NEW m \in DOMAIN pending
        PROVE  pending'[m] \in Entry
    <3>1. pending[m] \in Entry /\ pending[m].idle \in 0 .. ClaimIdle
      BY <1>1, <2>2 DEF TypeOK, Entry
    <3>2. Min({pending[m].idle + 1, ClaimIdle}) \in 0 .. ClaimIdle
      <4> DEFINE next == pending[m].idle + 1
      <4>1. next \in 0 .. ClaimIdle + 1 /\ next \in Int /\ ClaimIdle \in Nat
        BY <3>1, IntakeAssumption
      <4> HIDE DEF next
      <4>2. Min({next, ClaimIdle}) \in {next, ClaimIdle} /\ ClaimIdle >= Min({next, ClaimIdle})
        BY <4>1, MinOfTwo
      <4>3. Min({next, ClaimIdle}) \in 0 .. ClaimIdle
        BY <4>1, <4>2
      <4>4. QED BY <4>3 DEF next
    <3>3. pending'[m] = [pending[m] EXCEPT !.idle = Min({pending[m].idle + 1, ClaimIdle})]
      BY <2>2, <3>1 DEF Tick, Entry
    <3>4. QED BY <3>1, <3>2, <3>3 DEF Entry
  <2>3. QED BY <2>1, <2>2
<1>4. leases' \in [Alerts -> Lease]
  <2>1. ASSUME NEW a \in Alerts
        PROVE  leases'[a] \in Lease
    <3>1. leases[a] \in Lease /\ leases[a].left \in - BusyTimeout .. Ttl
      BY <1>1 DEF TypeOK, Lease
    <3>2. Max({leases[a].left - 1, - BusyTimeout}) \in - BusyTimeout .. Ttl
      <4> DEFINE next == leases[a].left - 1
                 least == - BusyTimeout
      <4>1. next \in Int /\ next <= Ttl /\ least \in Int /\ least <= Ttl /\ Ttl \in Int
        BY <3>1, IntakeAssumption
      <4> HIDE DEF next, least
      <4>2. Max({next, least}) \in {next, least} /\ Max({next, least}) >= least
        BY <4>1, MaxOfTwo
      <4>3. Max({next, least}) \in least .. Ttl
        BY <4>1, <4>2
      <4>4. QED BY <4>3 DEF next, least
    <3>3. leases'[a] = [leases[a] EXCEPT !.left = Max({leases[a].left - 1, - BusyTimeout})]
      BY <3>1 DEF Tick, Lease
    <3>4. QED BY <3>1, <3>2, <3>3 DEF Lease
  <2>2. QED BY <2>1 DEF Tick
<1>5. \A c \in Consumers : proc'[c] \in Local /\ Sound(proc[c])'
  <2>1. SUFFICES ASSUME NEW c \in Consumers
                 PROVE  proc'[c] \in Local /\ Sound(proc[c])'
    OBVIOUS
  <2>2. CASE At(c, "ask")
    <3>1. proc'[c] = [proc[c] EXCEPT !.waited = proc[c].waited + 1]
      BY <1>1, <2>2 DEF Tick, Local
    <3>2. proc[c].waited + 1 \in 0 .. BusyTimeout
      BY <1>1, <2>2, IntakeAssumption DEF Tick, Local
    <3>3. /\ proc'[c] \in Local /\ proc'[c].pc = proc[c].pc
          /\ proc'[c].msg = proc[c].msg /\ proc'[c].ids = proc[c].ids
      BY <1>1, <3>1, <3>2 DEF Local
    <3>4. QED BY <1>1, <1>2, <3>3 DEF Sound
  <2>3. CASE ~ At(c, "ask")
    <3>1. proc'[c] = proc[c]
      BY <2>3 DEF Tick
    <3>2. QED BY <1>1, <1>2, <3>1 DEF Sound
  <2>4. QED BY <2>2, <2>3
<1>6. proc' \in [Consumers -> Local']
  <2>1. Local' = Local
    BY <1>2 DEF Local
  <2>2. QED BY <1>5, <2>1 DEF Tick
<1>7. Covered'
  BY <1>1, <1>2, <1>3 DEF Covered, TypeOK
<1>8. TypeOK'
  BY <1>1, <1>2, <1>3, <1>4, <1>6 DEF TypeOK
<1>9. QED BY <1>5, <1>7, <1>8 DEF Inv

------------------------------------------------------------------------------
(* The step of the system, and of a lease                                  *)

LEMMA InvInit == Init => Inv
<1> SUFFICES ASSUME Init PROVE Inv
  OBVIOUS
<1>1. cursor = 0 /\ stream = << >> /\ pending = << >> /\ settled = {} /\ stops = 0
  BY DEF Init
<1>2. \A c \in Consumers : proc[c] \in Local /\ Sound(proc[c])
  BY <1>1, StartedGood DEF Init
<1>3. leases \in [Alerts -> Lease]
  BY IntakeAssumption DEF Init, Lease
<1>4. proc \in [Consumers -> Local]
  BY <1>2 DEF Init
<1>5. QED BY <1>1, <1>2, <1>3, <1>4, IntakeAssumption DEF Inv, TypeOK, Covered

LEMMA InvNext == Inv /\ [Next]_vars => Inv'
<1> SUFFICES ASSUME Inv, [Next]_vars PROVE Inv'
  OBVIOUS
<1>1. ASSUME NEW a \in Alerts, Publish(a) PROVE Inv'
  BY <1>1, PublishKeeps
<1>2. ASSUME NEW c \in Consumers, Loop(c) PROVE Inv'
  BY <1>2, ClaimKeeps, ReadKeeps, TakeKeeps, EndsKeep DEF Loop
<1>3. ASSUME NEW c \in Consumers, Handle(c) PROVE Inv'
  BY <1>3, LeadKeeps, RefuseKeeps, SettleKeeps, AckKeeps DEF Handle
<1>4. ASSUME NEW c \in Consumers, Signal(c) \/ Crash(c) \/ Restart(c) \/ FallBack(c)
      PROVE  Inv'
  BY <1>4, EndsKeep
<1>5. CASE Tick
  BY <1>5, TickKeeps
<1>6. CASE UNCHANGED vars
  BY <1>6 DEF vars, Inv, TypeOK, Covered, Sound, Local
<1>7. QED BY <1>1, <1>2, <1>3, <1>4, <1>5, <1>6 DEF Next

\* A process is granted a lease of its own or one that lapsed: if it had lapsed when
\* the clock was read, it has lapsed now.
LEMMA LeadIsGrant ==
    ASSUME Inv, NEW c \in Consumers, Lead(c), NEW a \in Alerts
    PROVE  Leads(a)!Grant(c) \/ UNCHANGED LeaseOf(a)
<1>1. TypeOK /\ At(c, "ask") /\ MayLead(c, AlertAt(c))
  BY DEF Inv, Lead
<1>2. AlertAt(c) \in Alerts /\ proc[c].waited \in 0 .. BusyTimeout
  BY <1>1, AskingGood
<1>3. leases' = [leases EXCEPT ![AlertAt(c)] =
         [owner |-> c, epoch |-> leases[AlertAt(c)].epoch + 1, left |-> Ttl - proc[c].waited]]
  BY DEF Lead
<1>4. leases \in [Alerts -> Lease] /\ leases[a].left \in Int
  BY <1>1, IntakeAssumption DEF TypeOK, Lease
<1>5. CASE a = AlertAt(c)
  <2>1. leases[a].owner = c \/ ~ (leases[a].left > 0)
    BY <1>1, <1>2, <1>4, <1>5, IntakeAssumption DEF MayLead
  <2>2. LeaseOf(a)' = [owner |-> c, epoch |-> leases[a].epoch + 1,
                       live |-> Ttl - proc[c].waited > 0]
    BY <1>3, <1>4, <1>5 DEF LeaseOf
  <2>3. (Ttl - proc[c].waited > 0) \in BOOLEAN
    OBVIOUS
  <2>4. QED BY <2>1, <2>2, <2>3 DEF Leads!Grant, LeaseOf
<1>6. CASE a # AlertAt(c)
  BY <1>3, <1>4, <1>6 DEF LeaseOf
<1>7. QED BY <1>5, <1>6

\* As time goes by a lease stays as it is or lapses.
LEMMA TickLapses ==
    ASSUME Inv, Tick, NEW a \in Alerts
    PROVE  Leads(a)!Lapse \/ UNCHANGED LeaseOf(a)
<1> DEFINE next == leases[a].left - 1
           least == - BusyTimeout
<1>1. leases[a] \in Lease /\ leases[a].left \in Int /\ BusyTimeout \in Nat
  BY IntakeAssumption DEF Inv, TypeOK, Lease
<1>2. leases'[a] = [leases[a] EXCEPT !.left = Max({next, least})]
  BY <1>1 DEF Tick, Lease
<1>3. next \in Int /\ least \in Int /\ ~ (least > 0) /\ (next > 0 => leases[a].left > 0)
  BY <1>1
<1> HIDE DEF next, least
<1>4. Max({next, least}) \in {next, least}
  BY <1>3, MaxOfTwo
<1>5. Max({next, least}) > 0 => leases[a].left > 0
  BY <1>3, <1>4
<1>6. /\ leases'[a].owner = leases[a].owner /\ leases'[a].epoch = leases[a].epoch
      /\ leases'[a].left = Max({next, least})
  BY <1>1, <1>2 DEF Lease
<1>7. CASE leases[a].left > 0 /\ ~ (Max({next, least}) > 0)
  <2>1. PICK o, e : o = leases[a].owner /\ e = leases[a].epoch
    OBVIOUS
  <2>2. (leases[a].left > 0) = TRUE /\ (leases'[a].left > 0) = FALSE
    BY <1>6, <1>7
  <2>3. /\ LeaseOf(a) = [owner |-> o, epoch |-> e, live |-> TRUE]
        /\ LeaseOf(a)' = [owner |-> o, epoch |-> e, live |-> FALSE]
    BY <1>6, <2>1, <2>2, Zenon DEF LeaseOf
  <2>4. ASSUME NEW t, NEW f
        PROVE  [[owner |-> o, epoch |-> e, live |-> t] EXCEPT !.live = f]
                   = [owner |-> o, epoch |-> e, live |-> f]
    OBVIOUS
  <2>5. LeaseOf(a).live
    BY <1>7 DEF LeaseOf
  <2>6. Leads(a)!Lapse
    BY <2>3, <2>4, <2>5, Zenon DEF Leads!Lapse
  <2>7. QED BY <2>6
<1>8. CASE (leases[a].left > 0) = (Max({next, least}) > 0)
  BY <1>6, <1>8 DEF LeaseOf
<1>9. QED BY <1>5, <1>7, <1>8

LEMMA LeaseStep ==
    Inv /\ [Next]_vars => [\A a \in Alerts : Leads(a)!Next \/ UNCHANGED LeaseOf(a)]_leases
<1> SUFFICES ASSUME Inv, [Next]_vars, leases' # leases, NEW a \in Alerts
             PROVE  Leads(a)!Next \/ UNCHANGED LeaseOf(a)
  OBVIOUS
<1>1. Tick \/ \E c \in Consumers : Lead(c)
  BY DEF Next, vars, Publish, Loop, Handle, Claim, Read, Take, Exit, Refuse, Settle, Ack,
         Signal, Crash, Restart, FallBack
<1>2. CASE Tick
  BY <1>2, TickLapses DEF Leads!Next
<1>3. ASSUME NEW c \in Consumers, Lead(c)
      PROVE  Leads(a)!Next \/ UNCHANGED LeaseOf(a)
  BY <1>3, LeadIsGrant DEF Leads!Next
<1>4. QED BY <1>1, <1>2, <1>3

------------------------------------------------------------------------------
(* Stream and group as a delivery                                          *)

\* What Delivery says of changes with what is pending.
LEMMA StutterSuffices ==
    ASSUME UNCHANGED << stream, cursor, settled >>, DOMAIN pending' = DOMAIN pending
    PROVE  UNCHANGED Delivers!vars
BY DEF Delivers!vars, Acked

LEMMA ReadDelivers ==
    ASSUME Inv, NEW c \in Consumers, Read(c)
    PROVE  Delivers!Deliver(Unread) /\ Unread \in SUBSET DOMAIN stream
<1>1. TypeOK /\ cursor \in Nat /\ Len(stream) \in Nat /\ DOMAIN pending \subseteq 1 .. cursor
  BY DEF Inv, TypeOK
<1>2. /\ Delivered(c, Unread) /\ cursor' = ReadUpTo /\ UNCHANGED << stream, settled >>
  BY DEF Read
<1>3. /\ ReadUpTo \in cursor .. Len(stream) /\ Unread = cursor + 1 .. ReadUpTo
      /\ DOMAIN pending' = DOMAIN pending \cup Unread
  BY <1>1, <1>2, Handover, DeliveredType DEF Unread
<1>4. Unread \cap (1 .. cursor) = {} /\ 1 .. cursor' = (1 .. cursor) \cup Unread
  BY <1>1, <1>2, <1>3
<1>5. Acked' = Acked /\ Unread \cap (DOMAIN pending \cup Acked) = {}
  BY <1>1, <1>3, <1>4 DEF Acked
<1>6. Unread \in SUBSET DOMAIN stream
  BY <1>1, <1>3 DEF TypeOK
<1>7. QED BY <1>2, <1>3, <1>5, <1>6 DEF Delivers!Deliver

\* The message at hand may have been handed on and acknowledged: then its alert was settled.
LEMMA SettleSettles ==
    ASSUME Inv, NEW c \in Consumers, Settle(c)
    PROVE  UNCHANGED Delivers!vars \/ \E m \in DOMAIN stream : Delivers!Settle(m)
<1>1. TypeOK /\ Covered /\ Sound(proc[c]) /\ DOMAIN pending \subseteq DOMAIN stream
  BY DEF Inv, TypeOK
<1>2. /\ UNCHANGED << stream, cursor, pending >> /\ settled' = settled \cup {AlertAt(c)}
      /\ proc[c].msg \in 1 .. cursor
  BY <1>1 DEF Settle, At, Sound, InHand, groupVars
<1>3. CASE AlertAt(c) \in settled
  BY <1>2, <1>3, StutterSuffices
<1>4. ASSUME NEW k \in DOMAIN pending, stream[k] = AlertAt(c)
      PROVE  Delivers!Settle(k)
  BY <1>2, <1>4 DEF Delivers!Settle, Acked
<1>5. QED BY <1>1, <1>2, <1>3, <1>4 DEF Covered, AlertAt

\* Whichever message of the alert the table has, it may go.
LEMMA AckAcks ==
    ASSUME Inv, NEW c \in Consumers, Ack(c)
    PROVE  UNCHANGED Delivers!vars \/ \E m \in DOMAIN stream : Delivers!Ack(m)
<1> DEFINE a == AlertAt(c)
           m == proc[c].ids[a]
<1>1. /\ TypeOK /\ Sound(proc[c])
      /\ DOMAIN pending \subseteq 1 .. cursor /\ DOMAIN pending \subseteq DOMAIN stream
  BY DEF Inv, TypeOK
<1>2. /\ UNCHANGED << stream, cursor, settled >> /\ DOMAIN pending' = DOMAIN pending \ {m}
      /\ proc[c].msg \in 1 .. cursor /\ a \in settled
  BY <1>1 DEF Ack, At, Sound, InHand, AlertAt
<1>3. a \in Alerts
  BY <1>1, <1>2 DEF TypeOK
<1>4. CASE m \in DOMAIN pending
  <2>1. m \in 1 .. cursor /\ m \in DOMAIN stream /\ m # NoMessage
    BY <1>1, <1>4 DEF TypeOK, NoMessage
  <2>2. stream[m] = a
    BY <1>1, <1>3, <2>1 DEF Sound
  <2>3. Acked' = Acked \cup {m}
    BY <1>1, <1>2, <2>1 DEF Acked
  <2>4. Delivers!Ack(m)
    BY <1>2, <1>4, <2>2, <2>3 DEF Delivers!Ack
  <2>5. QED BY <2>1, <2>4
<1>5. CASE m \notin DOMAIN pending
  BY <1>2, <1>5, StutterSuffices
<1>6. QED BY <1>4, <1>5

LEMMA DeliveryStep == Inv /\ [Next]_vars => [Delivers!Next]_(Delivers!vars)
<1> SUFFICES ASSUME Inv, [Next]_vars
             PROVE  Delivers!Next \/ UNCHANGED Delivers!vars
  OBVIOUS
<1>1. ASSUME NEW a \in Alerts, Publish(a) PROVE Delivers!Next
  <2>1. Delivers!Publish(a)
    BY <1>1 DEF Publish, Delivers!Publish, Acked
  <2>2. QED BY <2>1 DEF Delivers!Next
<1>2. ASSUME NEW c \in Consumers, Claim(c) PROVE UNCHANGED Delivers!vars
  <2>1. TypeOK /\ Delivered(c, First(BatchSize, Stale(c)))
    BY <1>2 DEF Claim, Inv
  <2>2. DOMAIN pending' = DOMAIN pending
    BY <2>1, Handover, DeliveredType
  <2>3. QED BY <1>2, <2>2, StutterSuffices DEF Claim
<1>3. ASSUME NEW c \in Consumers, Read(c) PROVE Delivers!Next
  BY <1>3, ReadDelivers DEF Delivers!Next
<1>4. ASSUME NEW c \in Consumers, Settle(c) \/ Ack(c)
      PROVE  Delivers!Next \/ UNCHANGED Delivers!vars
  BY <1>4, SettleSettles, AckAcks DEF Delivers!Next
<1>5. ASSUME NEW c \in Consumers,
             \/ Take(c) \/ Lead(c) \/ Refuse(c) \/ Exit(c)
             \/ Signal(c) \/ Crash(c) \/ Restart(c) \/ FallBack(c)
      PROVE  UNCHANGED Delivers!vars
  <2>1. UNCHANGED << stream, cursor, pending, settled >>
    BY <1>5 DEF Take, Lead, Refuse, Exit, Signal, Crash, Restart, FallBack, groupVars
  <2>2. QED BY <2>1, StutterSuffices
<1>6. CASE Tick
  BY <1>6, StutterSuffices DEF Tick
<1>7. CASE UNCHANGED vars
  BY <1>7, StutterSuffices DEF vars
<1>8. QED BY <1>1, <1>2, <1>3, <1>4, <1>5, <1>6, <1>7 DEF Next, Loop, Handle

------------------------------------------------------------------------------
(* Theorems                                                                *)

\* The inductive invariant: what a process remembers of the stream is about messages
\* that were delivered, and it acknowledges only what it settled.
THEOREM IntakeInvariance == Spec => []Inv
<1>1. QED BY InvInit, InvNext, PTL DEF Spec

\* What a process has in memory and the entries of the stream and the lease table stay
\* within their ranges, for any number of alerts, stops and ticks of the clock.
THEOREM IntakeTypeCorrect == Spec => []TypeOK
<1>1. Inv => TypeOK
  BY DEF Inv
<1>2. QED BY <1>1, IntakeInvariance, PTL

\* No alert that was delivered is lost: it is pending until one of its messages was
\* handled to an outcome (acknowledgement after handling in run_orchestrator.py, the
\* message-id table of ingest.py), for all times, batch sizes, kills and streams.
THEOREM CoveredHolds == Spec => []Covered
<1>1. Inv => Covered
  BY DEF Inv
<1>2. QED BY <1>1, IntakeInvariance, PTL

\* Stream, group and processes keep what Delivery promises (consume, claim_stale and ack
\* of ingest.py with the main loop of run_orchestrator.py): a message stays pending while
\* it is handed from process to process, and goes only when its alert was settled.
THEOREM DeliveryRefined == Spec => DeliveryHolds
<1>1. Init => Delivers!Init
  BY DEF Init, Delivers!Init, Acked
<1>2. Inv /\ [Next]_vars => [Delivers!Next]_(Delivers!vars)
  BY DeliveryStep
<1>3. QED BY <1>1, <1>2, IntakeInvariance, PTL DEF Spec, DeliveryHolds, Delivers!Spec

\* The lease is a leadership although the clock is read before the lock is waited
\* for (acquire_lease): it changes hands only after it lapsed, however long the wait.
THEOREM LeasesHoldProved == Spec => LeasesHold
<1>1. Inv /\ [Next]_vars => [\A a \in Alerts : Leads(a)!Next \/ UNCHANGED LeaseOf(a)]_leases
  BY LeaseStep
<1>2. QED BY <1>1, IntakeInvariance, PTL DEF Spec, LeasesHold
=============================================================================
