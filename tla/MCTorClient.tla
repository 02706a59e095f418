----------------------------- MODULE MCTorClient -----------------------------
(***************************************************************************)
(* Instances of TorClient for TLC: who calls what.                         *)
(***************************************************************************)
EXTENDS TorClientProperties, TLC

CONSTANTS driver, rival, waiter

(* One task that starts and stops the client, one call at a time.          *)
OneDriver == driver :> {"start", "stop"}

(* The same with a second task that waits for the bootstrap.               *)
DriverAndWaiter == OneDriver @@ waiter :> {"wait"}

(* Two tasks that start and stop it, each by its own lights.               *)
TwoDrivers == OneDriver @@ rival :> {"start", "stop"}
=============================================================================
