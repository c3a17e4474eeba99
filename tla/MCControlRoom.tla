--------------------------- MODULE MCControlRoom ----------------------------
(***************************************************************************)
(* An instance of the dashboard for TLC: one pane, which two polls of the  *)
(* page ask for.                                                           *)
(***************************************************************************)
EXTENDS ControlRoom

OnePane == << "palimpsest" >>
=============================================================================
