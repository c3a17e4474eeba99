----------------------------- MODULE Leadership -----------------------------
(***************************************************************************)
(* What the lease promises (the leases table of palimpsest/journal.py, as  *)
(* its users may rely on it): leadership is granted with epochs that only  *)
(* ever grow by one, and passes from one owner to another only after the   *)
(* lease has lapsed.  It does not promise that the last owner has noticed. *)
(***************************************************************************)
EXTENDS Naturals

CONSTANTS Owners, NoOwner

VARIABLE leader   \* [owner, epoch, live]: whoever was granted the lease last

Free == [owner |-> NoOwner, epoch |-> 0, live |-> FALSE]

Init == leader = Free

\* A grant may have lapsed by the time it is visible.
Grant(o) ==
    /\ leader.owner = o \/ ~ leader.live
    /\ \E live \in BOOLEAN :
           leader' = [owner |-> o, epoch |-> leader.epoch + 1, live |-> live]

Lapse == leader.live /\ leader' = [leader EXCEPT !.live = FALSE]

Next == Lapse \/ \E o \in Owners : Grant(o)

Spec == Init /\ [][Next]_leader
=============================================================================
