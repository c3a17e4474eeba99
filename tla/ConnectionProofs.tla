-------------------------- MODULE ConnectionProofs --------------------------
(***************************************************************************)
(* Any number of processes, threads, leases, calls and crashes: where a    *)
(* thread that appends has a Journal of its own, what a call returned is   *)
(* in the file, and no epoch is returned twice.                            *)
(***************************************************************************)
EXTENDS Connection, SequenceTheorems, TLAPS

------------------------------------------------------------------------------
(* The inductive invariant                                                 *)

Inside(t) == pc[t] \in {"begin", "swap", "count", "won", "lost"}
InTx(t)   == pc[t] \in {"swap", "count", "won", "lost"}

\* The thread in a transaction has the lock of its handle, and the handle is the
\* writer.
Guarded ==
    /\ \A t \in Threads : Inside(t) => turn[HandleOf[t]] = t
    /\ \A t \in Threads : InTx(t) => writer = HandleOf[t]
    /\ writer # NoHandle => \E t \in Threads : InTx(t)
    /\ writer = NoHandle => work = db

\* A transaction has done nothing yet, or exactly one grant it was entitled to.
Taken(t) ==
    /\ work.rows = db.rows
    /\ work.leases[scope[t]].owner = t
    /\ work.leases[scope[t]].epoch = db.leases[scope[t]].epoch + 1
    /\ db.leases[scope[t]].owner = t \/ ~ db.leases[scope[t]].live
    /\ \A s \in Scopes \ {scope[t]} : work.leases[s] = db.leases[s]

Contents ==
    \A t \in Threads :
        /\ pc[t] = "swap" => work = db
        /\ pc[t] = "count" /\ last[HandleOf[t]].changes = 1 => Taken(t)
        /\ pc[t] = "won" => Taken(t)

\* A thread about to return from append has its row in the file, at that id.
InFile(row, id) == id \in DOMAIN db.rows /\ db.rows[id] = row

Told ==
    /\ \A t \in Threads : pc[t] = "inserted" =>
           t \in Writers /\ calls[t] > 0 /\ InFile(<< t, calls[t] - 1 >>, last[HandleOf[t]].rowid)
    /\ AppendTells

Inv == TypeOK /\ Guarded /\ Contents /\ Told /\ GrantsDurable /\ EpochsUnique

------------------------------------------------------------------------------
(* What a step does to the file                                            *)

\* Of threads that may write, each is alone on its handle.
LEMMA Alone ==
    ASSUME Disciplined, Guarded, NEW t \in Writers, pc[t] = "idle"
    PROVE  writer # HandleOf[t]
<1>1. t \in Threads /\ HandleOf[t] # NoHandle
  BY ConnectionAssumption
<1>2. ASSUME writer = HandleOf[t]
      PROVE  FALSE
  <2>1. PICK u \in Threads : InTx(u)
    BY <1>1, <1>2 DEF Guarded
  <2>2. HandleOf[u] = HandleOf[t]
    BY <1>2, <2>1 DEF Guarded
  <2>3. u = t
    BY <2>2 DEF Disciplined
  <2> QED BY <2>1, <2>3 DEF InTx
<1> QED BY <1>2

\* Of the threads of a handle, one is in a call's locked part.
LEMMA OneInside ==
    ASSUME Guarded, NEW t \in Threads, NEW u \in Threads, Inside(t), Inside(u),
           HandleOf[t] = HandleOf[u]
    PROVE  t = u
BY DEF Guarded

\* Two threads in a transaction are one.
LEMMA OneInTx ==
    ASSUME Guarded, NEW t \in Threads, NEW u \in Threads, InTx(t), InTx(u)
    PROVE  t = u
BY OneInside DEF Guarded, Inside, InTx

LEMMA InitInv == Init => Inv
<1> SUFFICES ASSUME Init PROVE Inv
  OBVIOUS
<1> USE ConnectionAssumption DEF Init
<1>1. db \in File
  BY DEF File, Lease
<1>2. TypeOK
  BY <1>1 DEF TypeOK, Unused, Points
<1>3. Guarded /\ Contents /\ Told /\ GrantsDurable /\ EpochsUnique
  BY DEF Guarded, Inside, InTx, Contents, Told, AppendTells, GrantsDurable, EpochsUnique
<1> QED BY <1>2, <1>3 DEF Inv

------------------------------------------------------------------------------
(* Types                                                                   *)

LEMMA StatementType ==
    ASSUME TypeOK, NEW h \in Handles, NEW new \in File, NEW n \in {0, 1},
           Statement(h, new, n)
    PROVE  /\ db' \in File /\ work' \in File /\ writer' \in Handles \cup {NoHandle}
           /\ last' \in [Handles -> [changes : {0, 1}, rowid : Nat]]
<1>1. Len(new.rows) \in Nat
  BY DEF File
<1> QED BY <1>1 DEF TypeOK, Statement

\* The file after a lease is rewritten, or a row appended.
LEMMA FileWith ==
    ASSUME NEW f \in File
    PROVE  /\ \A s \in Scopes, l \in Lease : [f EXCEPT !.leases[s] = l] \in File
           /\ \A s \in Scopes : [f EXCEPT !.leases[s].live = FALSE] \in File
           /\ \A r \in Row : [f EXCEPT !.rows = Append(@, r)] \in File
<1>1. \A r \in Row : Append(f.rows, r) \in Seq(Row)
  BY AppendProperties DEF File
<1> QED BY <1>1 DEF File, Lease

LEMMA TypeNext == TypeOK /\ Told /\ [Next]_vars => TypeOK'
<1> SUFFICES ASSUME TypeOK, Told, [Next]_vars PROVE TypeOK'
  OBVIOUS
<1> USE ConnectionAssumption DEF TypeOK
<1>1. ASSUME NEW t \in Threads, Step(t) \/ Insert(t)
      PROVE  TypeOK'
  <2> USE DEF Goto, Leave, dbVars, Points
  <2>0. HandleOf[t] \in Handles /\ scope[t] \in Scopes
    OBVIOUS
  <2>1. CASE Lock(t)        BY <2>1 DEF Lock
  <2>2. CASE Begin(t)       BY <2>0, <2>2 DEF Begin, Open
  <2>3. CASE BeginFails(t)  BY <2>3 DEF BeginFails
  <2>4. CASE CompareAndSwap(t)
    <3>1. CASE MayLead(t)
      <4>1. PICK live \in BOOLEAN :
               Statement(HandleOf[t],
                   [work EXCEPT !.leases[scope[t]] =
                       [owner |-> t, epoch |-> work.leases[scope[t]].epoch + 1, live |-> live]], 1)
        BY <2>4, <3>1 DEF CompareAndSwap
      <4>2. [owner |-> t, epoch |-> work.leases[scope[t]].epoch + 1, live |-> live] \in Lease
        BY <2>0 DEF File, Lease
      <4>3. [work EXCEPT !.leases[scope[t]] =
                [owner |-> t, epoch |-> work.leases[scope[t]].epoch + 1, live |-> live]] \in File
        BY <2>0, <4>2, FileWith
      <4> HIDE DEF TypeOK
      <4>4. /\ db' \in File /\ work' \in File /\ writer' \in Handles \cup {NoHandle}
            /\ last' \in [Handles -> [changes : {0, 1}, rowid : Nat]]
        BY <2>0, <4>1, <4>3, StatementType
      <4> QED BY <2>4, <4>4 DEF CompareAndSwap, TypeOK
    <3>2. CASE ~ MayLead(t)
      <4>1. Statement(HandleOf[t], work, 0)
        BY <2>4, <3>2 DEF CompareAndSwap
      <4>2. /\ db' \in File /\ work' \in File /\ writer' \in Handles \cup {NoHandle}
            /\ last' \in [Handles -> [changes : {0, 1}, rowid : Nat]]
        BY <2>0, <4>1, StatementType
      <4> QED BY <2>4, <4>2 DEF CompareAndSwap
    <3> QED BY <3>1, <3>2
  <2>5. CASE Count(t)       BY <2>5 DEF Count
  <2>6. CASE Grant(t)
    <3>1. [scope |-> scope[t], owner |-> t, epoch |-> work.leases[scope[t]].epoch] \in Granted
      BY <2>0 DEF File, Lease, Granted
    <3> QED BY <2>6, <3>1 DEF Grant, Commit
  <2>7. CASE Refuse(t)      BY <2>7 DEF Refuse, Rollback
  <2>8. CASE Inserted(t)
    <3>1. InFile(<< t, calls[t] - 1 >>, last[HandleOf[t]].rowid)
      BY <2>8 DEF Inserted, Told
    <3>2. /\ last[HandleOf[t]].rowid \in Nat \ {0}
          /\ << t, calls[t] - 1 >> \in Row
      <4>1. db.rows \in Seq(Row)
        BY DEF File
      <4>2. last[HandleOf[t]].rowid \in 1 .. Len(db.rows) /\ Len(db.rows) \in Nat
        BY <3>1, <4>1 DEF InFile
      <4>3. db.rows[last[HandleOf[t]].rowid] \in Row
        BY <4>1, <4>2, ElementOfSeq
      <4> QED BY <3>1, <4>2, <4>3 DEF InFile
    <3>3. [row |-> << t, calls[t] - 1 >>, id |-> last[HandleOf[t]].rowid] \in Ack
      BY <3>2 DEF Ack
    <3> QED BY <2>8, <3>3 DEF Inserted
  <2>9. CASE Insert(t)
    <3>1. [work EXCEPT !.rows = Append(@, << t, calls[t] >>)] \in File
      BY FileWith DEF Row
    <3>2. /\ db' \in File /\ work' \in File /\ writer' \in Handles \cup {NoHandle}
          /\ last' \in [Handles -> [changes : {0, 1}, rowid : Nat]]
      BY <2>0, <2>9, <3>1, StatementType DEF Insert
    <3> QED BY <2>9, <3>2 DEF Insert, Calling
  <2> QED BY <1>1, <2>1, <2>2, <2>3, <2>4, <2>5, <2>6, <2>7, <2>8, <2>9 DEF Step
<1>2. ASSUME NEW t \in Threads, NEW s \in Scopes, Ask(t, s) \/ expire_lease(t, s)
      PROVE  TypeOK'
  <2>1. CASE Ask(t, s)
    BY <2>1 DEF Ask, Goto, dbVars, Points
  <2>2. CASE expire_lease(t, s)
    <3>1. [work EXCEPT !.leases[s].live = FALSE] \in File
      BY FileWith
    <3>2. /\ db' \in File /\ work' \in File /\ writer' \in Handles \cup {NoHandle}
          /\ last' \in [Handles -> [changes : {0, 1}, rowid : Nat]]
      BY <2>2, <3>1, StatementType DEF expire_lease
    <3> QED BY <2>2, <3>2 DEF expire_lease, Calling
  <2> QED BY <1>2, <2>1, <2>2
<1>3. ASSUME NEW s \in Scopes, Lapse(s)
      PROVE  TypeOK'
  BY <1>3, FileWith DEF Lapse
<1>4. ASSUME NEW h \in Handles, Crash(h)
      PROVE  TypeOK'
  BY <1>4 DEF Crash, Unused, Points
<1>5. CASE UNCHANGED vars
  BY <1>5 DEF vars
<1> QED BY <1>1, <1>2, <1>3, <1>4, <1>5 DEF Next

------------------------------------------------------------------------------
(* The transaction and its contents                                        *)

LEMMA GuardedNext ==
    Disciplined /\ TypeOK /\ Guarded /\ [Next]_vars => Guarded'
<1> SUFFICES ASSUME Disciplined, TypeOK, Guarded, [Next]_vars PROVE Guarded'
  OBVIOUS
<1> USE ConnectionAssumption DEF TypeOK
<1>0. \A t \in Threads : HandleOf[t] \in Handles /\ HandleOf[t] # NoHandle
  OBVIOUS
<1>1. ASSUME NEW t \in Threads, Step(t)
      PROVE  Guarded'
  <2> USE DEF Goto, Leave, dbVars, Guarded, Inside, InTx
  <2>1. CASE Lock(t)        BY <2>1, <1>0 DEF Lock
  <2>2. CASE Begin(t)       BY <2>2, <1>0 DEF Begin, Open
  <2>3. CASE BeginFails(t)  BY <2>3, <1>0 DEF BeginFails
  <2>4. CASE CompareAndSwap(t)
    <3>1. writer = HandleOf[t] /\ pc[t] = "swap" /\ pc' = [pc EXCEPT ![t] = "count"] /\ turn' = turn
      BY <2>4 DEF CompareAndSwap
    <3>2. writer' = writer
      BY <2>4 DEF CompareAndSwap, Statement
    <3>3. writer # NoHandle /\ InTx(t)'
      BY <1>0, <3>1
    <3>4. \A u \in Threads : (Inside(u)' => Inside(u)) /\ (InTx(u)' => InTx(u))
      BY <3>1
    <3> HIDE DEF Inside, InTx
    <3> QED BY <3>1, <3>2, <3>3, <3>4
  <2>5. CASE Count(t)       BY <2>5, <1>0 DEF Count
  <2>6. CASE Grant(t) \/ Refuse(t)
    <3>1. /\ writer = HandleOf[t] /\ InTx(t) /\ writer' = NoHandle /\ work' = db'
          /\ pc' = [pc EXCEPT ![t] = "idle"]
          /\ turn' = [turn EXCEPT ![HandleOf[t]] = NoThread]
      BY <2>6 DEF Grant, Refuse, Commit, Rollback
    <3>2. \A u \in Threads : Inside(u)' => u # t /\ Inside(u)
      BY <3>1
    <3>3. \A u \in Threads : InTx(u)' => u # t /\ InTx(u) /\ Inside(u)
      BY <3>1
    <3> HIDE DEF Inside, InTx, Guarded
    <3>4. \A u \in Threads : InTx(u) => u = t
      BY <3>1, OneInTx
    <3>5. Inside(t)
      BY <3>1 DEF Inside, InTx
    <3>6. \A u \in Threads : Inside(u)' => turn'[HandleOf[u]] = u
      <4>1. ASSUME NEW u \in Threads, Inside(u)'
            PROVE  turn'[HandleOf[u]] = u
        <5>1. u # t /\ Inside(u)
          BY <3>2, <4>1
        <5>2. HandleOf[u] # HandleOf[t]
          BY <3>5, <5>1, OneInside
        <5>3. turn[HandleOf[u]] = u
          BY <5>1 DEF Guarded
        <5> QED BY <1>0, <3>1, <5>2, <5>3
      <4> QED BY <4>1
    <3> QED BY <3>1, <3>3, <3>4, <3>6 DEF Guarded
  <2>7. CASE Inserted(t)    BY <2>7, <1>0 DEF Inserted
  <2> QED BY <1>1, <2>1, <2>2, <2>3, <2>4, <2>5, <2>6, <2>7 DEF Step
<1>2. ASSUME NEW t \in Threads, Insert(t)
      PROVE  Guarded'
  <2> DEFINE new == [work EXCEPT !.rows = Append(@, << t, calls[t] >>)]
  <2>0. t \in Writers /\ pc[t] = "idle" /\ Statement(HandleOf[t], new, 1) /\ new \in File
    BY <1>2, FileWith DEF Insert, Calling, Row
  <2> HIDE DEF new
  <2>1. writer' = NoHandle /\ work' = db' /\ writer = NoHandle
    <3>1. writer # HandleOf[t]
      BY <2>0, Alone
    <3> QED BY <2>0, <3>1 DEF Statement, Guarded
  <2>2. pc[t] = "idle" /\ pc' = [pc EXCEPT ![t] = "inserted"] /\ turn' = turn
    BY <1>2 DEF Insert, Calling, Goto
  <2> QED BY <1>0, <2>1, <2>2 DEF Guarded, Inside, InTx
<1>3. ASSUME NEW t \in Threads, NEW s \in Scopes, Ask(t, s)
      PROVE  Guarded'
  BY <1>0, <1>3 DEF Ask, Goto, dbVars, Guarded, Inside, InTx
<1>4. ASSUME NEW t \in Threads, NEW s \in Scopes, expire_lease(t, s)
      PROVE  Guarded'
  <2> DEFINE new == [work EXCEPT !.leases[s].live = FALSE]
  <2>0. t \in Writers /\ pc[t] = "idle" /\ Statement(HandleOf[t], new, 1) /\ new \in File
    BY <1>4, FileWith DEF expire_lease, Calling
  <2> HIDE DEF new
  <2>1. writer' = NoHandle /\ work' = db' /\ writer = NoHandle
    <3>1. writer # HandleOf[t]
      BY <2>0, Alone
    <3> QED BY <2>0, <3>1 DEF Statement, Guarded
  <2>2. pc' = pc /\ turn' = turn
    BY <1>4 DEF expire_lease
  <2> QED BY <1>0, <2>1, <2>2 DEF Guarded, Inside, InTx
<1>5. ASSUME NEW s \in Scopes, Lapse(s)
      PROVE  Guarded'
  BY <1>5 DEF Lapse, Guarded, Inside, InTx
<1>6. ASSUME NEW h \in Handles, Crash(h)
      PROVE  Guarded'
  <2>1. \A t \in Threads : pc'[t] = IF HandleOf[t] = h THEN "idle" ELSE pc[t]
    BY <1>6 DEF Crash
  <2>2. turn' = [turn EXCEPT ![h] = NoThread]
    BY <1>6 DEF Crash
  <2>3. CASE writer = h
    <3>1. writer' = NoHandle /\ work' = db /\ db' = db
      BY <1>6, <2>3 DEF Crash
    <3> QED BY <1>0, <2>1, <2>2, <2>3, <3>1 DEF Guarded, Inside, InTx
  <2>4. CASE writer # h
    <3>1. writer' = writer /\ work' = work /\ db' = db
      BY <1>6, <2>4 DEF Crash
    <3> QED BY <1>0, <2>1, <2>2, <2>4, <3>1 DEF Guarded, Inside, InTx
  <2> QED BY <2>3, <2>4
<1>7. CASE UNCHANGED vars
  BY <1>7 DEF vars, dbVars, Guarded, Inside, InTx
<1> QED BY <1>1, <1>2, <1>3, <1>4, <1>5, <1>6, <1>7 DEF Next

\* Only a transaction's own steps, and a lapse, touch its contents.
LEMMA ContentsNext ==
    Disciplined /\ TypeOK /\ Guarded /\ Contents /\ [Next]_vars => Contents'
<1> SUFFICES ASSUME Disciplined, TypeOK, Guarded, Contents, [Next]_vars PROVE Contents'
  OBVIOUS
<1> USE ConnectionAssumption DEF TypeOK
<1>0. \A t \in Threads : HandleOf[t] \in Handles /\ HandleOf[t] # NoHandle /\ scope[t] \in Scopes
  OBVIOUS
<1>1. ASSUME NEW t \in Threads, Lock(t) \/ BeginFails(t) \/ Inserted(t)
             \/ (\E s \in Scopes : Ask(t, s))
      PROVE  Contents'
  <2>1. /\ db' = db /\ work' = work /\ last' = last
        /\ \A u \in Threads : pc'[u] \in {"swap", "count", "won"} =>
               pc'[u] = pc[u] /\ scope'[u] = scope[u]
    BY <1>1 DEF Lock, BeginFails, Inserted, Ask, Goto, Leave, dbVars
  <2> QED BY <2>1 DEF Contents, Taken
<1>2. ASSUME NEW t \in Threads, Begin(t)
      PROVE  Contents'
  <2>1. /\ writer = NoHandle /\ work = db /\ pc' = [pc EXCEPT ![t] = "swap"]
        /\ db' = db /\ work' = work
    BY <1>2 DEF Begin, Open, Goto, Guarded
  <2>2. \A u \in Threads \ {t} : pc'[u] \notin {"swap", "count", "won"}
    BY <1>0, <2>1 DEF Guarded, InTx
  <2> QED BY <2>1, <2>2 DEF Contents
<1>3. ASSUME NEW t \in Threads, CompareAndSwap(t)
      PROVE  Contents'
  <2>1. /\ work = db /\ writer = HandleOf[t] /\ pc' = [pc EXCEPT ![t] = "count"]
        /\ scope' = scope
    BY <1>3 DEF CompareAndSwap, Goto, Contents, Guarded, InTx
  <2>2. \A u \in Threads \ {t} : pc'[u] \notin {"swap", "count", "won"}
    BY <2>1, <1>3, OneInTx DEF InTx, CompareAndSwap
  <2>3. last'[HandleOf[t]].changes = 1 => Taken(t)'
    <3>1. CASE MayLead(t)
      <4> DEFINE s == scope[t]
                 lease(live) == [owner |-> t, epoch |-> work.leases[s].epoch + 1, live |-> live]
      <4>1. PICK live \in BOOLEAN : Statement(HandleOf[t], [work EXCEPT !.leases[s] = lease(live)], 1)
        BY <1>3, <3>1 DEF CompareAndSwap
      <4>2. work' = [work EXCEPT !.leases[s] = lease(live)] /\ db' = db
        BY <2>1, <4>1 DEF Statement
      <4>3. db.leases[s].owner = t \/ ~ db.leases[s].live
        BY <2>1, <3>1 DEF MayLead
      <4>4. /\ work'.rows = db.rows
            /\ work'.leases = [db.leases EXCEPT ![s] = lease(live)]
        BY <2>1, <4>2 DEF File
      <4>5. /\ work'.leases[s] = lease(live)
            /\ \A r \in Scopes \ {s} : work'.leases[r] = db.leases[r]
        BY <1>0, <4>4 DEF File
      <4> QED BY <2>1, <4>2, <4>3, <4>4, <4>5 DEF Taken
    <3>2. CASE ~ MayLead(t)
      BY <1>0, <1>3, <3>2 DEF CompareAndSwap, Statement
    <3> QED BY <3>1, <3>2
  <2> QED BY <2>1, <2>2, <2>3 DEF Contents
<1>4. ASSUME NEW t \in Threads, Count(t)
      PROVE  Contents'
  <2>1. /\ pc[t] = "count" /\ UNCHANGED << db, work, last, scope >>
        /\ pc' = [pc EXCEPT ![t] = IF last[HandleOf[t]].changes = 0 THEN "lost" ELSE "won"]
    BY <1>4 DEF Count, Goto, dbVars
  <2>2. last[HandleOf[t]].changes \in {0, 1}
    BY <1>0
  <2> QED BY <2>1, <2>2 DEF Contents, Taken
<1>5. ASSUME NEW t \in Threads, Grant(t) \/ Refuse(t)
      PROVE  Contents'
  <2>1. InTx(t) /\ pc' = [pc EXCEPT ![t] = "idle"]
    BY <1>5 DEF Grant, Refuse, Leave, Goto, InTx
  <2>2. \A u \in Threads : pc'[u] \notin {"swap", "count", "won"}
    BY <2>1, OneInTx DEF InTx
  <2> QED BY <2>2 DEF Contents
<1>6. ASSUME NEW t \in Threads, Insert(t) \/ \E s \in Scopes : expire_lease(t, s)
      PROVE  Contents'
  <2>1. t \in Writers /\ pc[t] = "idle"
    BY <1>6 DEF Insert, expire_lease, Calling
  <2>2. writer # HandleOf[t]
    BY <2>1, Alone
  <2>3. writer = NoHandle
    BY <1>6, <2>2 DEF Insert, expire_lease, Statement
  <2>4. \A u \in Threads : ~ InTx(u)
    BY <1>0, <2>3 DEF Guarded
  <2>5. \A u \in Threads : pc'[u] \in {pc[u], "inserted"}
    BY <1>6 DEF Insert, expire_lease, Goto
  <2>6. \A u \in Threads : pc'[u] \notin {"swap", "count", "won"}
    BY <2>4, <2>5 DEF InTx
  <2> QED BY <2>6 DEF Contents
<1>7. ASSUME NEW s \in Scopes, Lapse(s)
      PROVE  Contents'
  <2>1. /\ db'   = [db   EXCEPT !.leases = [@ EXCEPT ![s].live = FALSE]]
        /\ work' = [work EXCEPT !.leases = [@ EXCEPT ![s].live = FALSE]]
        /\ pc' = pc /\ scope' = scope /\ last' = last
    BY <1>7 DEF Lapse
  <2>2. ASSUME NEW r \in Scopes
        PROVE  /\ db'.leases[r]   = IF r = s THEN [db.leases[r] EXCEPT !.live = FALSE]
                                             ELSE db.leases[r]
               /\ work'.leases[r] = IF r = s THEN [work.leases[r] EXCEPT !.live = FALSE]
                                             ELSE work.leases[r]
    BY <2>1 DEF File
  <2>3. db'.rows = db.rows /\ work'.rows = work.rows
    BY <2>1 DEF File
  <2>4. ASSUME NEW t \in Threads, Taken(t)
        PROVE  Taken(t)'
    <3>1. \A r \in Scopes : db.leases[r] \in Lease /\ work.leases[r] \in Lease
      BY DEF File
    <3>2. \A r \in Scopes :
             /\ work'.leases[r].owner = work.leases[r].owner
             /\ work'.leases[r].epoch = work.leases[r].epoch
             /\ db'.leases[r].owner = db.leases[r].owner
             /\ db'.leases[r].epoch = db.leases[r].epoch
             /\ db'.leases[r].live => db.leases[r].live
      BY <2>2, <3>1 DEF Lease
    <3>3. \A r \in Scopes : work.leases[r] = db.leases[r] => work'.leases[r] = db'.leases[r]
      BY <2>2
    <3>4. scope'[t] = scope[t] /\ scope[t] \in Scopes
      BY <1>0, <2>1
    <3> HIDE DEF TypeOK
    <3>5. work'.rows = db'.rows
      BY <2>3, <2>4 DEF Taken
    <3>6. /\ work'.leases[scope[t]].owner = t
          /\ work'.leases[scope[t]].epoch = db'.leases[scope[t]].epoch + 1
          /\ db'.leases[scope[t]].owner = t \/ ~ db'.leases[scope[t]].live
      BY <2>4, <3>2, <3>4 DEF Taken
    <3>7. \A r \in Scopes \ {scope[t]} : work'.leases[r] = db'.leases[r]
      BY <2>4, <3>3 DEF Taken
    <3> QED BY <3>4, <3>5, <3>6, <3>7 DEF Taken
  <2>5. work = db => work' = db'
    BY <2>1
  <2> QED BY <2>1, <2>4, <2>5 DEF Contents
<1>8. ASSUME NEW h \in Handles, Crash(h)
      PROVE  Contents'
  <2>1. /\ \A t \in Threads : pc'[t] = IF HandleOf[t] = h THEN "idle" ELSE pc[t]
        /\ db' = db /\ scope' = scope /\ last' = [last EXCEPT ![h] = Unused]
    BY <1>8 DEF Crash
  <2>2. ASSUME NEW t \in Threads, pc'[t] \in {"swap", "count", "won"}
        PROVE  /\ pc'[t] = pc[t] /\ work' = work
               /\ last'[HandleOf[t]] = last[HandleOf[t]]
    <3>1. HandleOf[t] # h /\ pc'[t] = pc[t]
      BY <2>1, <2>2
    <3>2. writer # h
      BY <2>2, <3>1 DEF Guarded, InTx
    <3> QED BY <1>0, <1>8, <2>1, <3>1, <3>2 DEF Crash
  <2> QED BY <2>1, <2>2 DEF Contents, Taken
<1>9. CASE UNCHANGED vars
  BY <1>9 DEF vars, dbVars, Contents, Taken
<1> QED BY <1>1, <1>2, <1>3, <1>4, <1>5, <1>6, <1>7, <1>8, <1>9 DEF Next, Step

------------------------------------------------------------------------------
(* What a step commits                                                     *)

RowsGrow == \A id \in DOMAIN db.rows : id \in DOMAIN db'.rows /\ db'.rows[id] = db.rows[id]

LeasesKept ==
    /\ grants' = grants
    /\ \A s \in Scopes : /\ db'.leases[s].owner = db.leases[s].owner
                         /\ db'.leases[s].epoch = db.leases[s].epoch
                         /\ db'.leases[s].live => db.leases[s].live

\* One scope passes to t, under the next epoch, and t is told so.
Granting(t) ==
    LET s == scope[t] IN
    /\ db.leases[s].owner = t \/ ~ db.leases[s].live
    /\ db'.leases[s].owner = t
    /\ db'.leases[s].epoch = db.leases[s].epoch + 1
    /\ \A r \in Scopes \ {s} : db'.leases[r] = db.leases[r]
    /\ grants' = grants \cup {[scope |-> s, owner |-> t, epoch |-> db'.leases[s].epoch]}

LEMMA FileStep ==
    Disciplined /\ TypeOK /\ Guarded /\ Contents /\ [Next]_vars
        => RowsGrow /\ (LeasesKept \/ \E t \in Threads : Granting(t))
<1> SUFFICES ASSUME Disciplined, TypeOK, Guarded, Contents, [Next]_vars
             PROVE  RowsGrow /\ (LeasesKept \/ \E t \in Threads : Granting(t))
  OBVIOUS
<1> USE ConnectionAssumption
<1>0. \A t \in Threads : HandleOf[t] \in Handles /\ HandleOf[t] # NoHandle
  OBVIOUS
<1>1. CASE db' = db /\ grants' = grants
  BY <1>1 DEF RowsGrow, InFile, LeasesKept
<1>2. ASSUME NEW t \in Threads, Lock(t) \/ Begin(t) \/ BeginFails(t) \/ Count(t) \/ Refuse(t)
             \/ Inserted(t) \/ \E s \in Scopes : Ask(t, s)
      PROVE  db' = db /\ grants' = grants
  BY <1>2 DEF Lock, Begin, BeginFails, Count, Refuse, Inserted, Ask, Open, Rollback, dbVars
<1>3. ASSUME NEW t \in Threads, CompareAndSwap(t)
      PROVE  db' = db /\ grants' = grants
  <2>1. writer = HandleOf[t] /\ grants' = grants
    BY <1>3 DEF CompareAndSwap, Guarded, InTx
  <2> QED BY <1>3, <2>1 DEF CompareAndSwap, Statement
<1>4. ASSUME NEW t \in Threads, Grant(t)
      PROVE  RowsGrow /\ Granting(t)
  <2>1. /\ pc[t] = "won" /\ db' = work
        /\ grants' = grants \cup {[scope |-> scope[t], owner |-> t,
                                   epoch |-> work.leases[scope[t]].epoch]}
    BY <1>4 DEF Grant, Commit
  <2>2. Taken(t)
    BY <2>1 DEF Contents
  <2> QED BY <2>1, <2>2 DEF Taken, Granting, RowsGrow, InFile
<1>5. ASSUME NEW t \in Threads, Insert(t)
      PROVE  RowsGrow /\ LeasesKept
  <2> DEFINE new == [work EXCEPT !.rows = Append(work.rows, << t, calls[t] >>)]
  <2>1. /\ t \in Writers /\ pc[t] = "idle" /\ Statement(HandleOf[t], new, 1)
        /\ grants' = grants
    BY <1>5 DEF Insert, Calling
  <2>2. writer # HandleOf[t]
    BY <2>1, Alone
  <2>3. db' = new /\ work = db
    BY <2>1, <2>2 DEF Statement, Guarded
  <2>4. /\ db'.rows = Append(db.rows, << t, calls[t] >>) /\ db'.leases = db.leases
        /\ db.rows \in Seq(Row) /\ << t, calls[t] >> \in Row
    BY <2>3 DEF TypeOK, File, Row
  <2>5. \A id \in DOMAIN db.rows : id \in DOMAIN db'.rows /\ db'.rows[id] = db.rows[id]
    BY <2>4, AppendProperties
  <2> QED BY <2>1, <2>4, <2>5 DEF RowsGrow, InFile, LeasesKept
<1>6. ASSUME NEW s \in Scopes,
             db' = [db EXCEPT !.leases[s].live = FALSE],
             grants' = grants
      PROVE  RowsGrow /\ LeasesKept
  <2>1. /\ db'.rows = db.rows
        /\ \A r \in Scopes : db'.leases[r] = IF r = s THEN [db.leases[r] EXCEPT !.live = FALSE]
                                                      ELSE db.leases[r]
    BY <1>6 DEF TypeOK, File
  <2>2. \A r \in Scopes : db.leases[r] \in Lease
    BY DEF TypeOK, File
  <2> QED BY <1>6, <2>1, <2>2 DEF RowsGrow, InFile, LeasesKept, Lease
<1>7. ASSUME NEW t \in Threads, NEW s \in Scopes, expire_lease(t, s)
      PROVE  RowsGrow /\ LeasesKept
  <2> DEFINE new == [work EXCEPT !.leases[s].live = FALSE]
  <2>1. /\ t \in Writers /\ pc[t] = "idle" /\ Statement(HandleOf[t], new, 1)
        /\ grants' = grants
    BY <1>7 DEF expire_lease, Calling
  <2>2. writer # HandleOf[t]
    BY <2>1, Alone
  <2>3. db' = new /\ work = db
    BY <2>1, <2>2 DEF Statement, Guarded
  <2> QED BY <1>6, <2>1, <2>3
<1>8. ASSUME NEW s \in Scopes, Lapse(s)
      PROVE  RowsGrow /\ LeasesKept
  BY <1>6, <1>8 DEF Lapse
<1>9. ASSUME NEW h \in Handles, Crash(h)
      PROVE  db' = db /\ grants' = grants
  BY <1>9 DEF Crash
<1>10. ASSUME UNCHANGED vars
       PROVE  db' = db /\ grants' = grants
  BY <1>10 DEF vars, dbVars
<1> QED BY <1>1, <1>2, <1>3, <1>4, <1>5, <1>7, <1>8, <1>9, <1>10 DEF Next, Step


\* A thread between its INSERT and the return finds its own rowid: nobody else's
\* statement is on the connection.
Waits(t) ==
    pc[t] = "inserted" /\ UNCHANGED << calls[t], last[HandleOf[t]] >>

LEMMA StillInserted ==
    ASSUME Disciplined, TypeOK, Told, [Next]_vars, NEW t \in Threads, pc'[t] = "inserted"
    PROVE  Waits(t) \/ Insert(t)
<1> USE ConnectionAssumption DEF TypeOK
<1>0. /\ HandleOf[t] \in Handles
      /\ pc[t] = "inserted" => \A u \in Threads : HandleOf[u] = HandleOf[t] => u = t
  BY DEF Told, Disciplined
<1>1. ASSUME NEW u \in Threads, Lock(u) \/ Begin(u) \/ BeginFails(u) \/ Count(u) \/ Grant(u)
             \/ Refuse(u) \/ Inserted(u) \/ \E s \in Scopes : Ask(u, s)
      PROVE  Waits(t)
  <2>1. UNCHANGED last /\ (pc[t] = "inserted" /\ UNCHANGED calls[t])
    BY <1>1 DEF Lock, Begin, BeginFails, Count, Grant, Refuse, Inserted, Ask, Goto, Leave,
                Open, Commit, Rollback, dbVars
  <2> QED BY <2>1 DEF Waits
<1>2. ASSUME NEW u \in Threads, CompareAndSwap(u) \/ \E s \in Scopes : expire_lease(u, s)
      PROVE  Waits(t)
  <2>1. pc[t] = "inserted" /\ t # u /\ UNCHANGED calls[t]
    BY <1>2 DEF CompareAndSwap, expire_lease, Calling, Goto
  <2>2. HandleOf[t] # HandleOf[u]
    BY <1>0, <2>1
  <2>3. UNCHANGED last[HandleOf[t]]
    BY <1>0, <1>2, <2>2 DEF CompareAndSwap, expire_lease, Statement
  <2> QED BY <2>1, <2>3 DEF Waits
<1>3. ASSUME NEW u \in Threads, u # t, Insert(u)
      PROVE  Waits(t)
  <2>1. pc[t] = "inserted" /\ UNCHANGED calls[t]
    BY <1>3 DEF Insert, Calling, Goto
  <2>2. HandleOf[t] # HandleOf[u]
    BY <1>0, <1>3, <2>1
  <2>3. UNCHANGED last[HandleOf[t]]
    BY <1>0, <1>3, <2>2 DEF Insert, Statement
  <2> QED BY <2>1, <2>3 DEF Waits
<1>4. ASSUME NEW h \in Handles, Crash(h)
      PROVE  Waits(t)
  <2>1. HandleOf[t] # h /\ pc[t] = "inserted" /\ UNCHANGED calls
    BY <1>4 DEF Crash
  <2> QED BY <1>0, <1>4, <2>1 DEF Crash, Waits
<1>5. ASSUME NEW s \in Scopes, Lapse(s)
      PROVE  Waits(t)
  BY <1>5 DEF Lapse, Waits
<1>6. ASSUME UNCHANGED vars
      PROVE  Waits(t)
  BY <1>6 DEF vars, dbVars, Waits
<1> QED BY <1>1, <1>2, <1>3, <1>4, <1>5, <1>6 DEF Next, Step

LEMMA ToldNext ==
    Disciplined /\ TypeOK /\ Guarded /\ Contents /\ Told /\ [Next]_vars => Told'
<1> SUFFICES ASSUME Disciplined, TypeOK, Guarded, Contents, Told, [Next]_vars PROVE Told'
  OBVIOUS
<1> USE ConnectionAssumption
<1>1. \A row, id : InFile(row, id) => InFile(row, id)'
  BY FileStep DEF RowsGrow, InFile
<1>2. ASSUME NEW t \in Threads, pc'[t] = "inserted"
      PROVE  /\ t \in Writers /\ calls'[t] > 0
             /\ InFile(<< t, calls[t] - 1 >>, last[HandleOf[t]].rowid)'
  <2>1. CASE Waits(t)
    BY <1>1, <2>1 DEF Waits, Told
  <2>2. CASE Insert(t)
    <3> DEFINE new == [work EXCEPT !.rows = Append(work.rows, << t, calls[t] >>)]
    <3>1. /\ t \in Writers /\ pc[t] = "idle" /\ Statement(HandleOf[t], new, 1)
          /\ calls[t] \in Nat /\ calls'[t] = calls[t] + 1
          /\ << t, calls[t] >> \in Row /\ work.rows \in Seq(Row)
      BY <2>2 DEF Insert, Calling, TypeOK, Row, File
    <3>2. writer # HandleOf[t]
      BY <3>1, Alone
    <3>3. db' = new /\ last'[HandleOf[t]].rowid = Len(new.rows)
      BY <3>1, <3>2 DEF Statement, TypeOK
    <3>4. new.rows = Append(work.rows, << t, calls[t] >>)
      BY DEF TypeOK, File
    <3>5. /\ Len(new.rows) \in DOMAIN new.rows
          /\ new.rows[Len(new.rows)] = << t, calls[t] >>
      BY <3>1, <3>4, AppendProperties
    <3> HIDE DEF new
    <3>6. calls'[t] - 1 = calls[t] /\ calls'[t] > 0
      BY <3>1
    <3> QED BY <3>1, <3>3, <3>5, <3>6 DEF InFile
  <2> QED BY <1>2, <2>1, <2>2, StillInserted
<1>3. ASSUME NEW a \in acked'
      PROVE  InFile(a.row, a.id)'
  <2>1. CASE a \in acked
    BY <1>1, <2>1 DEF Told, AppendTells, InFile
  <2>2. CASE a \notin acked
    <3>1. PICK t \in Threads : Inserted(t)
      BY <1>3, <2>2 DEF Next, Step, Lock, Begin, BeginFails, CompareAndSwap, Count, Grant,
                        Refuse, Insert, Ask, expire_lease, Lapse, Crash, Leave, vars, dbVars
    <3>2. /\ a = [row |-> << t, calls[t] - 1 >>, id |-> last[HandleOf[t]].rowid]
          /\ pc[t] = "inserted"
      BY <1>3, <2>2, <3>1 DEF Inserted
    <3> QED BY <1>1, <3>2 DEF Told
  <2> QED BY <2>1, <2>2
<1> QED BY <1>2, <1>3 DEF Told, AppendTells, InFile

------------------------------------------------------------------------------
(* Epochs                                                                  *)

LEMMA GrantsNext ==
    Disciplined /\ Inv /\ TypeOK' /\ [Next]_vars => GrantsDurable' /\ EpochsUnique'
<1> SUFFICES ASSUME Disciplined, Inv, TypeOK', [Next]_vars
             PROVE  GrantsDurable' /\ EpochsUnique'
  OBVIOUS
<1>1. /\ \A s \in Scopes : db.leases[s] \in Lease /\ db'.leases[s] \in Lease
      /\ \A g \in grants : g.scope \in Scopes /\ g.epoch \in Nat /\ g \in Granted
  BY DEF Inv, TypeOK, File, Granted
<1>2. \A s \in Scopes : db.leases[s].epoch \in Nat /\ db'.leases[s].epoch \in Nat
  BY <1>1 DEF Lease
<1>3. \A g \in grants : /\ g.epoch <= db.leases[g.scope].epoch
                        /\ g.epoch = db.leases[g.scope].epoch => g.owner = db.leases[g.scope].owner
  BY DEF Inv, GrantsDurable
<1>4. CASE LeasesKept
  BY <1>1, <1>3, <1>4 DEF LeasesKept, GrantsDurable, EpochsUnique, Inv
<1>5. ASSUME NEW t \in Threads, Granting(t)
      PROVE  GrantsDurable' /\ EpochsUnique'
  <2> DEFINE s == scope[t]
             new == [scope |-> s, owner |-> t, epoch |-> db'.leases[s].epoch]
  <2>1. s \in Scopes
    BY DEF Inv, TypeOK
  <2>2. /\ db'.leases[s].owner = t /\ db'.leases[s].epoch = db.leases[s].epoch + 1
        /\ \A r \in Scopes \ {s} : db'.leases[r] = db.leases[r]
        /\ grants' = grants \cup {new}
    BY <1>5 DEF Granting
  <2>3. new.scope = s /\ new.owner = t /\ new.epoch = db'.leases[s].epoch
    OBVIOUS
  <2> HIDE DEF new
  <2>4. ASSUME NEW g \in grants, g.scope = s
        PROVE  g.epoch < new.epoch /\ g.epoch <= db'.leases[s].epoch
               /\ g.epoch # db'.leases[s].epoch
    BY <1>1, <1>2, <1>3, <2>1, <2>2, <2>3, <2>4
  <2> HIDE DEF s
  <2>5. GrantsDurable'
    <3>1. ASSUME NEW g \in grants'
          PROVE  /\ g.epoch <= db'.leases[g.scope].epoch
                 /\ g.epoch = db'.leases[g.scope].epoch => g.owner = db'.leases[g.scope].owner
      <4>1. CASE g = new
        BY <1>2, <2>1, <2>2, <2>3, <4>1
      <4>2. CASE g \in grants /\ g.scope = s
        BY <2>4, <4>2
      <4>3. CASE g \in grants /\ g.scope # s
        BY <1>1, <1>3, <2>2, <4>3
      <4> QED BY <2>2, <3>1, <4>1, <4>2, <4>3
    <3> QED BY <3>1 DEF GrantsDurable
  <2>6. \A g \in grants : g.scope = new.scope => g.epoch # new.epoch
    BY <1>1, <1>2, <2>1, <2>2, <2>3, <2>4
  <2> QED BY <2>2, <2>5, <2>6 DEF EpochsUnique, Inv
<1> QED BY <1>4, <1>5, FileStep DEF Inv

LEMMA InvNext == Disciplined /\ Inv /\ [Next]_vars => Inv'
BY TypeNext, GuardedNext, ContentsNext, ToldNext, GrantsNext DEF Inv

LEMMA LeaseStep ==
    Disciplined /\ Inv /\ Inv' /\ [Next]_vars
        => \A s \in Scopes : Leads(s)!Next \/ UNCHANGED db.leases[s]
<1> SUFFICES ASSUME Disciplined, Inv, Inv', [Next]_vars, NEW s \in Scopes
             PROVE  Leads(s)!Next \/ UNCHANGED db.leases[s]
  OBVIOUS
<1>1. db.leases[s] \in Lease /\ db'.leases[s] \in Lease
  BY DEF Inv, TypeOK, File
<1>2. CASE LeasesKept
  <2>1. /\ db'.leases[s].owner = db.leases[s].owner /\ db'.leases[s].epoch = db.leases[s].epoch
        /\ db'.leases[s].live => db.leases[s].live
    BY <1>2 DEF LeasesKept
  <2>2. CASE db'.leases[s].live = db.leases[s].live
    BY <1>1, <2>1, <2>2 DEF Lease
  <2>3. CASE db.leases[s].live /\ db'.leases[s].live = FALSE
    <3>1. db'.leases[s] = [db.leases[s] EXCEPT !.live = FALSE]
      BY <1>1, <2>1, <2>3 DEF Lease
    <3> QED BY <2>3, <3>1 DEF Leads!Next, Leads!Lapse
  <2>4. db.leases[s].live \in BOOLEAN /\ db'.leases[s].live \in BOOLEAN
    BY <1>1 DEF Lease
  <2> QED BY <2>1, <2>2, <2>3, <2>4
<1>3. ASSUME NEW t \in Threads, Granting(t)
      PROVE  Leads(s)!Next \/ UNCHANGED db.leases[s]
  <2>1. CASE s # scope[t]
    BY <1>3, <2>1 DEF Granting
  <2>2. CASE s = scope[t]
    <3>1. /\ db.leases[s].owner = t \/ ~ db.leases[s].live
          /\ db'.leases[s].owner = t /\ db'.leases[s].epoch = db.leases[s].epoch + 1
      BY <1>3, <2>2 DEF Granting
    <3>2. /\ db'.leases[s].live \in BOOLEAN
          /\ db'.leases[s] = [owner |-> t, epoch |-> db.leases[s].epoch + 1,
                              live |-> db'.leases[s].live]
      BY <1>1, <3>1 DEF Lease
    <3>3. Leads(s)!Grant(t)
      BY <3>1, <3>2 DEF Leads!Grant
    <3> QED BY <3>3 DEF Leads!Next
  <2> QED BY <2>1, <2>2
<1> QED BY <1>2, <1>3, FileStep DEF Inv

------------------------------------------------------------------------------
(* Theorems                                                                *)

\* What holds of every journal whose appending threads have a Journal each.
THEOREM ConnectionInvariance == ASSUME Disciplined PROVE Spec => []Inv
<1>1. Init => Inv
  BY InitInv
<1>2. Inv /\ [Next]_vars => Inv'
  BY InvNext
<1> QED BY <1>1, <1>2, PTL DEF Spec

\* No two calls of acquire_lease return the same epoch for a scope, across threads,
\* processes and crashes (EpochsUnique, acquire_lease).
THEOREM EpochsUniqueHolds == ASSUME Disciplined PROVE Spec => []EpochsUnique
BY ConnectionInvariance, PTL DEF Inv

\* What acquire_lease returned is in the file, whoever is killed (GrantsDurable).
THEOREM GrantsDurableHolds == ASSUME Disciplined PROVE Spec => []GrantsDurable
BY ConnectionInvariance, PTL DEF Inv

\* The statements of acquire_lease implement the grant of Leadership (LeasesHold).
THEOREM LeasesHoldHolds == ASSUME Disciplined PROVE Spec => LeasesHold
<1>1. Inv /\ Inv' /\ [Next]_vars
          => [\A s \in Scopes : Leads(s)!Next \/ UNCHANGED db.leases[s]]_(db.leases)
  BY LeaseStep
<1> QED BY <1>1, ConnectionInvariance, PTL DEF Spec, LeasesHold
=============================================================================
