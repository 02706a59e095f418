--------------------------- MODULE TorStateMachine ---------------------------
(***************************************************************************)
(* What TorState.swift promises of a client: the six states, the legal     *)
(* transitions between them, and when Tor runs.  st is the state a caller  *)
(* observes, tor whether some tor_run_main() (with its setup) executes.    *)
(***************************************************************************)
VARIABLES st, tor

States == {"idle", "starting", "running", "stopping", "stopped", "failed"}

SMInit == st = "idle" /\ tor = FALSE

(* .idle, .stopped and .failed lead to .starting; no Tor is running then.  *)
Begin ==
    /\ st \in {"idle", "stopped", "failed"}
    /\ ~tor
    /\ st' = "starting"
    /\ tor' = tor

(* Tor is launched only on behalf of a start that has not ended.           *)
TorBegins ==
    /\ st = "starting"
    /\ ~tor
    /\ tor' = TRUE
    /\ st' = st

Up ==
    /\ st = "starting"
    /\ st' = "running"
    /\ tor' = tor

StopBegins ==
    /\ st = "running"
    /\ st' = "stopping"
    /\ tor' = tor

(* tor_run_main() may return at any time.                                  *)
TorEnds ==
    /\ tor
    /\ tor' = FALSE
    /\ st' = st

(* .stopped: "the tor_run_main() thread has returned".                     *)
StopEnds ==
    /\ st = "stopping"
    /\ ~tor
    /\ st' = "stopped"
    /\ tor' = tor

Fail ==
    /\ st \in {"starting", "running", "stopping"}
    /\ st' = "failed"
    /\ tor' = tor

SMNext == Begin \/ TorBegins \/ Up \/ StopBegins \/ TorEnds \/ StopEnds \/ Fail

(* A start ends; a stop makes Tor end and then ends itself.                *)
SMSpec ==
    /\ SMInit
    /\ [][SMNext]_<<st, tor>>
    /\ WF_<<st, tor>>(st = "starting" /\ (Up \/ Fail))
    /\ WF_<<st, tor>>(st = "stopping" /\ TorEnds)
    /\ WF_<<st, tor>>(StopEnds)
=============================================================================
