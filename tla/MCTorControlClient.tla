-------------------------- MODULE MCTorControlClient --------------------------
(***************************************************************************)
(* Instances of TorControlClient for TLC: who calls what, and what Tor     *)
(* replies.                                                                *)
(***************************************************************************)
EXTENDS TorControlClient, TLC

CONSTANTS t1, t2

(* Two tasks that send commands.                                           *)
TwoCommand == t1 :> {"command"} @@ t2 :> {"command"}

(* A task that authenticates and sends commands, and one that subscribes   *)
(* too.                                                                    *)
AuthenticatorAndSubscriber ==
    t1 :> {"command", "authenticate"} @@ t2 :> {"command", "subscribe"}

OneSubscribes == t1 :> {"subscribe"}

(* Replies of one line and of two (a refusal has one line too, as the      *)
(* replies to AUTHENTICATE and those before it show).                      *)
LineShapes == {<<"ok">>, <<"mid", "ok">>}
=============================================================================
