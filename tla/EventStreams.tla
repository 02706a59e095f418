---------------------------- MODULE EventStreams ----------------------------
(***************************************************************************)
(* The fan-out of TorEvents by the actor TorClient: its dictionary         *)
(* eventContinuations, and the AsyncStreams that `events` hands out.       *)
(*                                                                         *)
(* `events` registers nothing itself: it posts a Task that will run        *)
(* addEventContinuation on the actor, and arranges for the stream's end to *)
(* post a Task that will run removeEventContinuation.  The two Tasks are   *)
(* not ordered.  A stream ends because its consumer drops it or because    *)
(* stop() finishes it.                                                     *)
(*                                                                         *)
(* TorClient.tla extends this module; Broadcast and FinishAll are the      *)
(* parts of its actions that touch the streams.                            *)
(***************************************************************************)
EXTENDS Sequences, FiniteSets

CONSTANT Streams        \* the AsyncStreams that `events` may be asked for

VARIABLES
    opened,              \* streams returned by `events`
    adding,              \* streams whose addEventContinuation Task has not run
    removing,            \* streams whose removeEventContinuation Task has not run
    eventContinuations,  \* streams registered in the actor's dictionary
    ended,               \* streams that are terminated: yield() drops the value
    got                  \* what has been yielded to each stream

streamVars == <<opened, adding, removing, eventContinuations, ended, got>>

(* The events this model tells apart: a stateChanged by the name of its    *)
(* state, a bootstrap by whether it reports 100 %.                         *)
StateNames == {"idle", "starting", "running", "stopping", "stopped", "failed"}
Events == StateNames \cup {"bootstrap", "bootstrap100"}

StreamsTypeOK ==
    /\ opened \subseteq Streams
    /\ adding \subseteq opened
    /\ removing \subseteq ended
    /\ ended \subseteq opened
    /\ eventContinuations \subseteq opened
    /\ got \in [Streams -> Seq(Events)]

StreamsInit ==
    /\ opened = {}
    /\ adding = {}
    /\ removing = {}
    /\ eventContinuations = {}
    /\ ended = {}
    /\ got = [s \in Streams |-> << >>]

(* A consumer reads `events`.                                              *)
OpenEvents(s) ==
    /\ s \notin opened
    /\ opened' = opened \cup {s}
    /\ adding' = adding \cup {s}
    /\ UNCHANGED <<removing, eventContinuations, ended, got>>

AddContinuation(s) ==
    /\ s \in adding
    /\ adding' = adding \ {s}
    /\ eventContinuations' = eventContinuations \cup {s}
    /\ UNCHANGED <<opened, removing, ended, got>>

(* The consumer stops iterating: onTermination posts the removal.          *)
ConsumerLeaves(s) ==
    /\ s \in opened \ ended
    /\ ended' = ended \cup {s}
    /\ removing' = removing \cup {s}
    /\ UNCHANGED <<opened, adding, eventContinuations, got>>

RemoveContinuation(s) ==
    /\ s \in removing
    /\ removing' = removing \ {s}
    /\ eventContinuations' = eventContinuations \ {s}
    /\ UNCHANGED <<opened, adding, ended, got>>

StreamStep(s) ==
    \/ OpenEvents(s)
    \/ AddContinuation(s)
    \/ ConsumerLeaves(s)
    \/ RemoveContinuation(s)

-----------------------------------------------------------------------------
(* Parts of the actor's actions.                                           *)

Yielded(registered, e) ==
    [s \in Streams |-> IF s \in registered \ ended THEN Append(got[s], e)
                                                    ELSE got[s]]

(* broadcastEvent(e): every registered continuation is yielded the event.  *)
Broadcast(e) ==
    got' = Yielded(eventContinuations, e)

\* mutant: cleanup() empties the dictionary and finishes nothing
ForgetAll ==
    /\ eventContinuations' = {}
    /\ UNCHANGED <<opened, adding, removing, ended>>

(* The end of cleanup(): every registered stream is finished, which posts  *)
(* its removal, and the dictionary is emptied.                             *)
FinishAll ==
    /\ ended' = ended \cup eventContinuations
    /\ removing' = removing \cup (eventContinuations \ ended)
    /\ eventContinuations' = {}
    /\ UNCHANGED <<opened, adding>>
=============================================================================
