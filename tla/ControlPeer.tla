----------------------------- MODULE ControlPeer -----------------------------
(***************************************************************************)
(* Tor's end of one control connection, as far as the Swift side can tell: *)
(* it takes the commands in the order they were written, answers each with *)
(* one reply of one or more lines, and once events were asked for puts     *)
(* event lines between the replies.  It ends the connection when a command *)
(* is refused before the authentication.                                   *)
(*                                                                         *)
(* A line is known by the command it answers and by what its fourth byte   *)
(* and status say:                                                         *)
(*   "mid" 250-   "open" 250+   "text", "dot" lines of a data block        *)
(*   "ok" 250     "err" 5xx     "event" 650                                *)
(***************************************************************************)
EXTENDS Naturals, Sequences

CONSTANTS
    Shapes,              \* the replies to an ordinary command: kinds of lines
    Accepted,            \* the methods of AUTHENTICATE this Tor accepts
    PreAuthenticated,    \* the connection needs no AUTHENTICATE
    Faults,              \* what may go wrong, a subset of FaultKinds
    MaxPending           \* bound: lines on their way when an event is sent

(* "timeout"  a line is not there within readTimeout                       *)
(* "close"    Tor ends the connection, or exits                            *)
FaultKinds == {"timeout", "close"}

Kinds == {"mid", "open", "text", "dot", "ok", "err", "event"}
Final == {"ok", "err"}
Methods == {"cookie", "password", "null"}

ASSUME ShapesKnown ==
    /\ Shapes \subseteq Seq(Kinds)
    /\ << >> \notin Shapes
ASSUME PeerKnown ==
    /\ Accepted \subseteq Methods
    /\ PreAuthenticated \in BOOLEAN
    /\ Faults \subseteq FaultKinds
    /\ MaxPending \in Nat

VARIABLES
    toTor,               \* commands written and not taken
    fromTor,             \* lines sent and not read
    torAuth,             \* Tor has the connection authenticated
    events,              \* SETEVENTS was accepted
    closed               \* Tor has ended the connection

peerVars == <<toTor, fromTor, torAuth, events, closed>>

NoCommand == <<"none", 0>>      \* what an event answers

PeerInit ==
    /\ toTor = << >>
    /\ fromTor = << >>
    /\ torAuth = PreAuthenticated
    /\ events = FALSE
    /\ closed = FALSE

Fault(f) == f \in Faults

Reply(cmd, shape) ==
    [i \in DOMAIN shape |-> [cmd |-> cmd, kind |-> shape[i]]]

(* Tor takes the next command, one of ops, and answers it.                 *)
TorAnswers(ops, shape) ==
    /\ ~closed
    /\ toTor # << >>
    /\ Head(toTor).op \in ops
    /\ toTor' = Tail(toTor)
    /\ fromTor' = fromTor \o Reply(Head(toTor).cmd, shape)

TorServes ==
    /\ torAuth
    /\ \E shape \in Shapes : TorAnswers({"getinfo"}, shape)
    /\ UNCHANGED <<torAuth, events, closed>>

TorSetsEvents ==
    /\ torAuth
    /\ TorAnswers({"setevents"}, <<"ok">>)
    /\ events' = TRUE
    /\ UNCHANGED <<torAuth, closed>>

TorAuthenticates ==
    /\ TorAnswers(Accepted, <<"ok">>)
    /\ torAuth' = TRUE
    /\ UNCHANGED <<events, closed>>

(* 515 for a wrong AUTHENTICATE, 514 for any other command before it.      *)
TorRefuses ==
    /\ \/ TorAnswers(Methods \ Accepted, <<"err">>)
       \/ ~torAuth /\ TorAnswers({"getinfo", "setevents"}, <<"err">>)
    /\ closed' = TRUE
    /\ UNCHANGED <<torAuth, events>>

TorEmits ==
    /\ ~closed /\ torAuth /\ events
    /\ Len(fromTor) < MaxPending
    /\ fromTor' = Append(fromTor, [cmd |-> NoCommand, kind |-> "event"])
    /\ UNCHANGED <<toTor, torAuth, events, closed>>

TorCloses ==
    /\ Fault("close")
    /\ ~closed
    /\ closed' = TRUE
    /\ UNCHANGED <<toTor, fromTor, torAuth, events>>

TorTakes == TorServes \/ TorSetsEvents \/ TorAuthenticates \/ TorRefuses
=============================================================================
