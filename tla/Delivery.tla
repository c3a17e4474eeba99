------------------------------ MODULE Delivery ------------------------------
(***************************************************************************)
(* What an alert source promises the processes that work from it (the      *)
(* protocol of palimpsest/ingest.py that the main loop of                  *)
(* run_orchestrator.py and drain rely on): a message that was handed       *)
(* out is kept as pending until it is acknowledged, by itself, and it is   *)
(* acknowledged only after its alert was settled.  Who has it, and how     *)
(* often it was handed out, is left open.                                  *)
(***************************************************************************)
EXTENDS Sequences, Naturals

CONSTANT Alerts

VARIABLES
    stream,    \* the alerts, as published; a message is a position
    pending,   \* messages handed out and not acknowledged
    acked,     \* messages acknowledged
    settled    \* alerts that were handled to an outcome

vars == << stream, pending, acked, settled >>

Init == stream = << >> /\ pending = {} /\ acked = {} /\ settled = {}

Publish(a) ==
    /\ stream' = Append(stream, a)
    /\ UNCHANGED << pending, acked, settled >>

\* Any number at once; to hand out again what is pending changes nothing.
Deliver(batch) ==
    /\ batch \cap (pending \cup acked) = {}
    /\ pending' = pending \cup batch
    /\ UNCHANGED << stream, acked, settled >>

Settle(m) ==
    /\ m \in pending
    /\ settled' = settled \cup {stream[m]}
    /\ UNCHANGED << stream, pending, acked >>

Ack(m) ==
    /\ m \in pending /\ stream[m] \in settled
    /\ pending' = pending \ {m} /\ acked' = acked \cup {m}
    /\ UNCHANGED << stream, settled >>

Next ==
    \/ \E a \in Alerts : Publish(a)
    \/ \E batch \in SUBSET DOMAIN stream : Deliver(batch)
    \/ \E m \in DOMAIN stream : Settle(m) \/ Ack(m)

Spec == Init /\ [][Next]_vars
=============================================================================
