------------------------------ MODULE Document ------------------------------
(***************************************************************************)
(* What every page of a tab reads of its surroundings.                     *)
(***************************************************************************)
VARIABLES
  hidden,      \* document.hidden: the tab is not the one on screen
  reachable    \* the server answers
=============================================================================
