----------------------------- MODULE MCFaceScan -----------------------------
(* FaceScan on small instances for TLC.                                    *)
EXTENDS FaceScan

(* Scans without the session watcher, for the runs about cards and clocks. *)
Unwatched == SUBSET (Features \ {"watch"})

(* The same, and a watched scan without cards, overlay and rubberstamps.   *)
SignalSetups == Unwatched \cup {{"watch"}}
=============================================================================
