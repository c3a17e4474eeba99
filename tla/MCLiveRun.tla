----------------------------- MODULE MCLiveRun ------------------------------
(* Two services, the pager among them: small enough for TLC.               *)
EXTENDS LiveRun

TwoServices == << "ticket", "pager" >>
=============================================================================
