----------------------------- MODULE MCObserve ------------------------------
(***************************************************************************)
(* Observe for TLC: logs without the handoff, with it, or with it          *)
(* cancelled.                                                              *)
(***************************************************************************)
EXTENDS Observe, TLC

CONSTANTS h

MCInitialLogs ==
  {<<>>, <<Event("emitted", h)>>,
   <<Event("emitted", h), Event("cancelled", h)>>}
=============================================================================
