------------------------------ MODULE MCIntake ------------------------------
(* One stream and two processes, small enough for TLC.                     *)
EXTENDS Intake

CONSTANTS alert_a, alert_b

\* The alert twice, as after --redeliver, and two alerts; other streams of two
\* messages are the same with the names exchanged.
TwoMessages == {<< alert_a, alert_a >>, << alert_a, alert_b >>}
=============================================================================
