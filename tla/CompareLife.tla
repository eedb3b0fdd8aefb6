---------------------------- MODULE CompareLife ----------------------------
(***************************************************************************)
(* The compare process as the PAM module sees it, from the moment its      *)
(* signal handlers are installed: it scans, decides, cleans up and ends,   *)
(* and SIGTERM aborts it for as long as it has not begun to clean up.      *)
(* FaceScan implements this specification; the actions of the compare      *)
(* process in PamIdentify are its steps, one compare for each call.        *)
(***************************************************************************)
VARIABLES
  stage,  \* "scanning", "cleaning" or "zombie"
  exit,   \* the exit status decided on
  term    \* SIGTERM pending

vars == <<stage, exit, term>>

Init == stage = "scanning" /\ exit = "none" /\ term = FALSE

(* exit(code): the status is settled and cleanup() begins.                 *)
Decide ==
  /\ stage = "scanning"
  /\ stage' = "cleaning"
  /\ exit' \in {"success", "failure"}
  /\ UNCHANGED term

(* sys.exit() without cleanup().                                           *)
Quit ==
  /\ stage = "scanning"
  /\ stage' = "zombie"
  /\ exit' \in {"success", "failure"}
  /\ UNCHANGED term

Exit ==
  /\ stage = "cleaning"
  /\ stage' = "zombie"
  /\ UNCHANGED <<exit, term>>

Signal ==
  /\ stage # "zombie"
  /\ term' = TRUE
  /\ UNCHANGED <<stage, exit>>

(* SIGTERM takes effect: an abort, unless cleanup() has begun.  A second   *)
(* SIGTERM may already be pending.                                         *)
Terminate ==
  /\ term
  /\ term' \in BOOLEAN
  /\ \/ stage = "scanning" /\ stage' = "cleaning" /\ exit' = "abort"
     \/ stage = "cleaning" /\ UNCHANGED <<stage, exit>>

Next == Decide \/ Quit \/ Exit \/ Signal \/ Terminate

Spec == Init /\ [][Next]_vars
=============================================================================
