------------------------------ MODULE Worklist ------------------------------
(***************************************************************************)
(* What main promises: files become known as the analysis goes on, a file *)
(* that has been tried is tried for good, and the analysis does not end    *)
(* before every known file has been tried.                                 *)
(***************************************************************************)
CONSTANT Path

VARIABLES known, tried, finished

TypeOK == known \subseteq Path /\ tried \subseteq known /\ finished \in BOOLEAN

Init == known = {} /\ tried = {} /\ finished = FALSE

Work ==
  /\ ~finished
  /\ known' \subseteq Path /\ known \subseteq known'
  /\ tried \subseteq tried' /\ tried' \subseteq known'
  /\ UNCHANGED finished

Finish ==
  /\ ~finished /\ known \subseteq tried
  /\ finished' = TRUE
  /\ UNCHANGED <<known, tried>>

Spec == Init /\ [][Work \/ Finish]_<<known, tried, finished>>
=============================================================================
