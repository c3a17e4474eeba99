----------------------------- MODULE Connection -----------------------------
(***************************************************************************)
(* One journal file, the SQLite connections of the processes that have it  *)
(* open, and the threads that share a connection (class Journal,           *)
(* palimpsest/journal.py: acquire_lease, append, expire_lease).            *)
(*                                                                         *)
(* Journal takes every write for an atomic, durable statement of its own.  *)
(* That is so unless a statement falls into the transaction another thread *)
(* has open on the same connection.  A thread reads what its statement did *)
(* (rowcount, lastrowid) from the connection, after the statement.         *)
(*                                                                         *)
(* The clock and the wait for the write lock are Intake's: here a lease    *)
(* lapses at any time, and a wait ends at any time.                        *)
(***************************************************************************)
EXTENDS Sequences, Naturals

CONSTANTS
    Threads,      \* each under an owner name of its own
    Writers,      \* the threads that also append, or expire a lease
    Handles,      \* Journal objects; each process has one
    HandleOf,     \* thread -> the Journal it uses
    Scopes,       \* what leases are for
    NoThread, NoHandle,
    MaxCalls,     \* bound: calls of each thread
    MaxCrashes    \* bound: processes killed

ASSUME ConnectionAssumption ==
    /\ Writers \subseteq Threads
    /\ HandleOf \in [Threads -> Handles]
    /\ NoThread \notin Threads /\ NoHandle \notin Handles
    /\ {MaxCalls, MaxCrashes} \subseteq Nat

\* How the orchestrators use it: who appends has a Journal of its own.
Disciplined ==
    \A t \in Writers, u \in Threads : HandleOf[t] = HandleOf[u] => t = u

VARIABLES
    db,         \* what is committed: [rows, leases]
    writer,     \* the connection with a transaction open
    work,       \* what that transaction sees; the same as db when there is none
    last,       \* handle -> rowcount and rowid of its last statement
    turn,       \* handle -> the thread that has its _tx_lock
    pc, scope,  \* thread -> where it is, and the scope it asks for
    calls,      \* thread -> calls so far
    acked,      \* append calls that returned: [row, id]
    grants,     \* acquire_lease calls that returned: [scope, owner, epoch]
    crashes

dbVars == << db, writer, work, last >>
vars == << db, writer, work, last, turn, pc, scope, calls, acked, grants, crashes >>

Row == Threads \X Nat
Lease == [owner : Threads \cup {NoThread}, epoch : Nat, live : BOOLEAN]
Unused == [changes |-> 0, rowid |-> 0]

Init ==
    /\ db = [rows   |-> << >>,
             leases |-> [s \in Scopes |-> [owner |-> NoThread, epoch |-> 0, live |-> FALSE]]]
    /\ writer = NoHandle /\ work = db
    /\ last = [h \in Handles |-> Unused]
    /\ turn = [h \in Handles |-> NoThread]
    /\ pc = [t \in Threads |-> "idle"] /\ scope \in [Threads -> Scopes]
    /\ calls = [t \in Threads |-> 0]
    /\ acked = {} /\ grants = {} /\ crashes = 0

------------------------------------------------------------------------------
(* SQLite                                                                  *)

Goto(t, to) == pc' = [pc EXCEPT ![t] = to]

\* The default isolation level: the first write opens a transaction.
Bug_Statement(h, new, changes) ==
    /\ writer \in {NoHandle, h}
    /\ writer' = h
    /\ work' = new /\ UNCHANGED db
    /\ last' = [last EXCEPT ![h] = [changes |-> changes, rowid |-> Len(new.rows)]]

\* A write: by itself it is committed at once, inside a transaction it is part of it.
Statement(h, new, changes) ==
    /\ writer \in {NoHandle, h}
    /\ work' = new
    /\ db' = IF writer = h THEN db ELSE new
    /\ last' = [last EXCEPT ![h] = [changes |-> changes, rowid |-> Len(new.rows)]]
    /\ UNCHANGED writer

Open(h)    == writer = NoHandle /\ writer' = h /\ UNCHANGED << db, work, last >>
Commit(h)  == writer = h /\ writer' = NoHandle /\ db' = work /\ UNCHANGED << work, last >>
Rollback(h) == writer = h /\ writer' = NoHandle /\ work' = db /\ UNCHANGED << db, last >>

------------------------------------------------------------------------------
(* acquire_lease                                                           *)

Ask(t, s) ==
    /\ pc[t] = "idle" /\ calls[t] < MaxCalls
    /\ Goto(t, "lock")
    /\ scope' = [scope EXCEPT ![t] = s]
    /\ calls' = [calls EXCEPT ![t] = @ + 1]
    /\ UNCHANGED << dbVars, turn, acked, grants, crashes >>

Lock(t) ==
    /\ pc[t] = "lock" /\ turn[HandleOf[t]] = NoThread
    /\ turn' = [turn EXCEPT ![HandleOf[t]] = t]
    /\ Goto(t, "begin")
    /\ UNCHANGED << dbVars, scope, calls, acked, grants, crashes >>

\* The call ends, with the lock released.
Leave(t) ==
    /\ Goto(t, "idle")
    /\ turn' = [turn EXCEPT ![HandleOf[t]] = NoThread]
    /\ UNCHANGED << scope, calls, acked, crashes >>

Begin(t) ==
    /\ pc[t] = "begin" /\ Open(HandleOf[t])
    /\ Goto(t, "swap")
    /\ UNCHANGED << turn, scope, calls, acked, grants, crashes >>

\* The write lock is not had in time, or a transaction is open on the connection.
BeginFails(t) ==
    /\ pc[t] = "begin" /\ writer # NoHandle
    /\ Leave(t)
    /\ UNCHANGED << dbVars, grants >>

\* Its own, or lapsed.  With a ttl of 0 a lease has lapsed as soon as it is granted.
MayLead(t) ==
    LET lease == work.leases[scope[t]] IN lease.owner = t \/ ~ lease.live

\* The conditional UPDATE; the seeding INSERT before it leaves no trace.
CompareAndSwap(t) ==
    /\ pc[t] = "swap"
    /\ IF MayLead(t)
       THEN \E live \in BOOLEAN :
                LET lease == [owner |-> t, epoch |-> work.leases[scope[t]].epoch + 1,
                              live |-> live]
                IN  Statement(HandleOf[t], [work EXCEPT !.leases[scope[t]] = lease], 1)
       ELSE Statement(HandleOf[t], work, 0)
    /\ Goto(t, "count")
    /\ UNCHANGED << turn, scope, calls, acked, grants, crashes >>

\* Nobody looks at the count.
Bug_Count(t) ==
    /\ pc[t] = "count"
    /\ Goto(t, "won")
    /\ UNCHANGED << dbVars, turn, scope, calls, acked, grants, crashes >>

\* rowcount, as the connection has it by now.
Count(t) ==
    /\ pc[t] = "count"
    /\ Goto(t, IF last[HandleOf[t]].changes = 0 THEN "lost" ELSE "won")
    /\ UNCHANGED << dbVars, turn, scope, calls, acked, grants, crashes >>

\* The epoch is in the caller's hands before it is committed.
Bug_Grant(t) ==
    /\ pc[t] = "won"
    /\ Leave(t)
    /\ grants' = grants \cup {[scope |-> scope[t], owner |-> t,
                               epoch |-> work.leases[scope[t]].epoch]}
    /\ Rollback(HandleOf[t])

\* The epoch of the row, whoever has it, and COMMIT.
Grant(t) ==
    /\ pc[t] = "won"
    /\ Leave(t)
    /\ grants' = grants \cup {[scope |-> scope[t], owner |-> t,
                               epoch |-> work.leases[scope[t]].epoch]}
    /\ Commit(HandleOf[t])

\* The lock is taken without "with".
Bug_Refuse(t) ==
    /\ pc[t] = "lost"
    /\ Goto(t, "idle") /\ Rollback(HandleOf[t])
    /\ UNCHANGED << turn, scope, calls, acked, grants, crashes >>

\* LeaseUnavailable.
Refuse(t) ==
    /\ pc[t] = "lost"
    /\ Leave(t) /\ Rollback(HandleOf[t])
    /\ UNCHANGED grants

------------------------------------------------------------------------------
(* Everything else that writes, outside the lock                           *)

Calling(t) ==
    /\ t \in Writers /\ pc[t] = "idle" /\ calls[t] < MaxCalls
    /\ calls' = [calls EXCEPT ![t] = @ + 1]

\* The INSERT; the branch writes are the same.  A wait in vain for the write lock
\* raises and changes nothing.
Insert(t) ==
    /\ Calling(t)
    /\ Statement(HandleOf[t], [work EXCEPT !.rows = Append(@, << t, calls[t] >>)], 1)
    /\ Goto(t, "inserted")
    /\ UNCHANGED << turn, scope, acked, grants, crashes >>

\* append returns lastrowid, as the connection has it by now.
Inserted(t) ==
    /\ pc[t] = "inserted"
    /\ acked' = acked \cup {[row |-> << t, calls[t] - 1 >>, id |-> last[HandleOf[t]].rowid]}
    /\ Goto(t, "idle")
    /\ UNCHANGED << dbVars, turn, scope, calls, grants, crashes >>

expire_lease(t, s) ==
    /\ Calling(t)
    /\ Statement(HandleOf[t], [work EXCEPT !.leases[s].live = FALSE], 1)
    /\ UNCHANGED << turn, pc, scope, acked, grants, crashes >>

------------------------------------------------------------------------------
(* The environment                                                         *)

\* A lease runs out for whoever looks at it.
Lapse(s) ==
    /\ db.leases[s].live \/ work.leases[s].live
    /\ db'   = [db   EXCEPT !.leases[s].live = FALSE]
    /\ work' = [work EXCEPT !.leases[s].live = FALSE]
    /\ UNCHANGED << writer, last, turn, pc, scope, calls, acked, grants, crashes >>

\* A process is killed, and another opens the file in its place.
Crash(h) ==
    /\ crashes < MaxCrashes /\ crashes' = crashes + 1
    /\ writer' = IF writer = h THEN NoHandle ELSE writer
    /\ work'   = IF writer = h THEN db ELSE work
    /\ last'   = [last EXCEPT ![h] = Unused]
    /\ turn'   = [turn EXCEPT ![h] = NoThread]
    /\ pc'     = [t \in Threads |-> IF HandleOf[t] = h THEN "idle" ELSE pc[t]]
    /\ UNCHANGED << db, scope, calls, acked, grants >>

------------------------------------------------------------------------------
Step(t) ==
    \/ Lock(t) \/ Begin(t) \/ BeginFails(t) \/ CompareAndSwap(t) \/ Count(t)
    \/ Grant(t) \/ Refuse(t) \/ Inserted(t)

Next ==
    \/ \E t \in Threads : Step(t) \/ Insert(t)
    \/ \E t \in Threads, s \in Scopes : Ask(t, s) \/ expire_lease(t, s)
    \/ \E s \in Scopes : Lapse(s)
    \/ \E h \in Handles : Crash(h)

Spec == Init /\ [][Next]_vars

\* A thread inside a call goes on.
FairSpec == Spec /\ \A t \in Threads : WF_vars(Step(t))

------------------------------------------------------------------------------
(* Properties                                                              *)

Points == {"idle", "lock", "begin", "swap", "count", "won", "lost", "inserted"}
File == [rows : Seq(Row), leases : [Scopes -> Lease]]
Ack == [row : Row, id : Nat \ {0}]
Granted == [scope : Scopes, owner : Threads, epoch : Nat]

TypeOK ==
    /\ db \in File /\ work \in File
    /\ writer \in Handles \cup {NoHandle}
    /\ last \in [Handles -> [changes : {0, 1}, rowid : Nat]]
    /\ turn \in [Handles -> Threads \cup {NoThread}]
    /\ pc \in [Threads -> Points] /\ scope \in [Threads -> Scopes]
    /\ calls \in [Threads -> Nat] /\ crashes \in Nat
    /\ acked \subseteq Ack /\ grants \subseteq Granted

\* "Two orchestrators racing for one lease must not both win with the same epoch"
\* (tests/test_invariants.py): whatever calls to acquire_lease returned, and
\* whoever of the callers is dead.
EpochsUnique ==
    \A g, k \in grants : g.scope = k.scope /\ g.epoch = k.epoch => g = k

\* No crash takes back an epoch a caller was given: the fences the services hold
\* are never ahead of the table (acquire_lease returns after COMMIT).
GrantsDurable ==
    \A g \in grants :
        LET lease == db.leases[g.scope] IN
        /\ g.epoch <= lease.epoch
        /\ g.epoch = lease.epoch => g.owner = lease.owner

\* A record is in the file by the time append returns, whoever is in a transaction
\* and whoever dies next, under the id append returned (a fork refers to it by that):
\* "losing the intent record makes recovery blind" (Journal.__init__).
AppendTells == \A a \in acked : a.id \in DOMAIN db.rows /\ db.rows[a.id] = a.row

\* In the file, what several statements of a transaction do is one grant: the lease
\* is a leadership of its scope, whichever connections and threads ask for it.
Leads(s) == INSTANCE Leadership WITH Owners <- Threads, NoOwner <- NoThread,
                                     leader <- db.leases[s]
LeasesHold ==
    [][\A s \in Scopes : Leads(s)!Next \/ UNCHANGED db.leases[s]]_(db.leases)

\* No call to acquire_lease waits for ever: however a call ends, refused or failed,
\* the lock and the transaction end with it.
CallsReturn == \A t \in Threads : pc[t] # "idle" ~> pc[t] = "idle"
=============================================================================
