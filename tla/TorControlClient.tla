-------------------------- MODULE TorControlClient --------------------------
(***************************************************************************)
(* The class TorControlClient over one ControlSocket: authenticate(),      *)
(* subscribe(), and the typed commands, all of which are one sendCommand   *)
(* and a look at the status of the reply ("getinfo" stands for them).      *)
(* Nothing in the class keeps two calls apart.                             *)
(***************************************************************************)
EXTENDS ControlSocket, FiniteSets

CONSTANTS
    May,                 \* May[t]: the methods task t calls
    HasCookie,           \* the cookie file is there
    HasPassword,         \* authenticate() is given a password
    MaxCalls             \* bound: commands after which a task calls no more

CallKinds == {"command", "authenticate", "subscribe"}

ASSUME ClientKnown ==
    /\ May \in [Tasks -> SUBSET CallKinds]
    /\ HasCookie \in BOOLEAN
    /\ HasPassword \in BOOLEAN
    /\ MaxCalls \in Nat

VARIABLES
    isAuthenticated,
    loop                 \* the Task that subscribe() of a task has left

clientVars == <<isAuthenticated, loop>>
vars == <<peerVars, socketVars, clientVars>>

LoopLabels == {"none", "reading", "finished"}

Commands == [cmd : Tasks \X Nat, op : Ops]
Lines == [cmd : (Tasks \X Nat) \cup {NoCommand}, kind : Kinds]

TypeOK ==
    /\ toTor \in Seq(Commands)
    /\ fromTor \in Seq(Lines)
    /\ torAuth \in BOOLEAN /\ events \in BOOLEAN /\ closed \in BOOLEAN
    /\ lock \in {NoReader} \cup ({"call", "loop"} \X Tasks)
    /\ pc \in [Tasks -> Labels]
    /\ op \in [Tasks -> Ops]
    /\ own \in [Tasks -> Nat]
    /\ lines \in [Tasks -> Seq(Lines)]
    /\ inData \in [Tasks -> BOOLEAN]
    /\ outcome \in [Tasks -> Outcomes]
    /\ late \in BOOLEAN
    /\ overlapped \subseteq Tasks
    /\ isAuthenticated \in BOOLEAN
    /\ loop \in [Tasks -> LoopLabels]
    /\ \A t \in Tasks : lock = Call(t) => pc[t] = "reading"
    /\ \A t \in Tasks : lock = Loop(t) => loop[t] = "reading"

Init ==
    /\ PeerInit
    /\ SocketInit
    /\ isAuthenticated = PreAuthenticated
    /\ loop = [t \in Tasks |-> "none"]

Calls(t, kind) ==
    /\ pc[t] = "idle"
    /\ kind \in May[t]
    /\ own[t] < MaxCalls

(* The call is over, and its local variables with it.                      *)
Returns(t) ==
    /\ pc' = [pc EXCEPT ![t] = "idle"]
    /\ lines' = [lines EXCEPT ![t] = << >>]
    /\ inData' = [inData EXCEPT ![t] = FALSE]
    /\ outcome' = [outcome EXCEPT ![t] = "none"]
    /\ UNCHANGED <<lock, op, own, late, overlapped, peerVars>>

Command(t) ==
    /\ Calls(t, "command")
    /\ SendCommand(t, "getinfo")
    /\ UNCHANGED clientVars

CommandReturns(t) ==
    /\ pc[t] = "resumed" /\ op[t] = "getinfo"
    /\ Returns(t)
    /\ UNCHANGED clientVars

-----------------------------------------------------------------------------
(* authenticate(): the cookie first, then the password or nothing.         *)

LastMethod == IF HasPassword THEN "password" ELSE "null"

Authenticate(t) ==
    /\ Calls(t, "authenticate")
    /\ ~isAuthenticated
    /\ SendCommand(t, IF HasCookie THEN "cookie" ELSE LastMethod)
    /\ UNCHANGED clientVars

AuthSucceeds(t) ==
    /\ pc[t] = "resumed" /\ op[t] \in Methods
    /\ outcome[t] = "success"
    /\ isAuthenticated' = TRUE
    /\ Returns(t)
    /\ UNCHANGED loop

(* A cookie that was refused is followed by the other method, on the same  *)
(* connection.                                                             *)
AuthFallsBack(t) ==
    /\ pc[t] = "resumed" /\ op[t] = "cookie"
    /\ outcome[t] = "failure"
    /\ SendCommand(t, LastMethod)
    /\ UNCHANGED clientVars

\* mutant: a failed AUTHENTICATE is taken for a success
AuthIgnoresFailure(t) ==
    /\ pc[t] = "resumed" /\ op[t] \in Methods
    /\ outcome[t] # "success"
    /\ ~(op[t] = "cookie" /\ outcome[t] = "failure")
    /\ isAuthenticated' = TRUE
    /\ Returns(t)
    /\ UNCHANGED loop

(* controlAuthFailed, or the error of sendCommand.                         *)
AuthThrows(t) ==
    /\ pc[t] = "resumed" /\ op[t] \in Methods
    /\ outcome[t] # "success"
    /\ ~(op[t] = "cookie" /\ outcome[t] = "failure")
    /\ Returns(t)
    /\ UNCHANGED clientVars

-----------------------------------------------------------------------------
(* subscribe(): SETEVENTS, then a Task of its own that reads every line of *)
(* the connection.  Nothing ever cancels it.                               *)

Subscribe(t) ==
    /\ Calls(t, "subscribe")
    /\ loop[t] = "none"
    /\ SendCommand(t, "setevents")
    /\ UNCHANGED clientVars

SubscribeReturns(t) ==
    /\ pc[t] = "resumed" /\ op[t] = "setevents"
    /\ loop' = IF outcome[t] = "success"
               THEN [loop EXCEPT ![t] = "reading"] ELSE loop
    /\ Returns(t)
    /\ UNCHANGED isAuthenticated

LoopAcquires(t) ==
    /\ loop[t] = "reading"
    /\ Locks(Loop(t))
    /\ UNCHANGED <<pc, op, own, lines, inData, outcome, late, overlapped,
                   peerVars, clientVars>>

(* A line that is not an event is dropped.                                 *)
LoopReads(t) ==
    /\ TakesLine(Loop(t))
    /\ UNCHANGED <<pc, op, own, lines, inData, outcome, late, overlapped,
                   clientVars>>

\* mutant: an error of readLineAsync does not end the loop
LoopGoesOn(t) ==
    /\ lock = Loop(t)
    /\ closed /\ fromTor = << >>
    /\ lock' = NoReader
    /\ UNCHANGED <<pc, op, own, lines, inData, outcome, late, overlapped,
                   peerVars, clientVars>>

(* readLineAsync throws at the end of the connection, but also when no     *)
(* line came within readTimeout: the stream is finished.                   *)
LoopEnds(t) ==
    /\ lock = Loop(t)
    /\ (closed /\ fromTor = << >>) \/ Fault("timeout")
    /\ lock' = NoReader
    /\ loop' = [loop EXCEPT ![t] = "finished"]
    /\ UNCHANGED <<pc, op, own, lines, inData, outcome, late, overlapped,
                   peerVars, isAuthenticated>>

-----------------------------------------------------------------------------
CallStep(t) == Command(t) \/ Authenticate(t) \/ Subscribe(t)

ReturnStep(t) ==
    \/ CommandReturns(t)
    \/ AuthSucceeds(t)
    \/ AuthFallsBack(t)
    \/ AuthThrows(t)
    \/ SubscribeReturns(t)

LoopStep(t) == LoopAcquires(t) \/ LoopReads(t) \/ LoopEnds(t)

TaskStep(t) == (SocketStep(t) /\ UNCHANGED clientVars) \/ ReturnStep(t)

TorStep ==
    /\ TorTakes \/ TorEmits \/ TorCloses
    /\ UNCHANGED <<socketVars, clientVars>>

Next ==
    \/ \E t \in Tasks : CallStep(t) \/ TaskStep(t) \/ LoopStep(t)
    \/ TorStep

Spec == Init /\ [][Next]_vars

(* Threads run, and a recv returns at its deadline at the latest.          *)
FairSpec ==
    /\ Spec
    /\ \A t \in Tasks : WF_vars(TaskStep(t)) /\ WF_vars(LoopStep(t))

-----------------------------------------------------------------------------
(* What is claimed.                                                        *)

(* A call is answered by the whole reply to its own command, and by        *)
(* nothing else, on a connection where no call has timed out and no events *)
(* were asked for, unless another call overlapped with this one.  Earlier  *)
(* calls may have overlapped and swapped their replies: when they are over *)
(* the connection is in step again.  (With several callers this and the    *)
(* next need replies without data blocks: of a block torn between two      *)
(* calls one takes too little and the other waits for the rest.)           *)
Answer(t) == outcome[t] \in {"success", "failure"}

Own(t) ==
    \E shape \in Shapes \cup {<<"ok">>, <<"err">>} :
        lines[t] = Reply(<<t, own[t]>>, shape)

AnsweredOwn ==
    \A t \in Tasks :
        /\ pc[t] = "resumed" /\ Answer(t)
        /\ ~late /\ ~events /\ t \notin overlapped
        => Own(t)

(* ControlSocket.swift, lines 515-517: concurrent callers are serialised.  *)
Serialised ==
    \A t \in Tasks : pc[t] = "resumed" /\ Answer(t) /\ ~late => Own(t)

(* However calls overlap, swap their replies and time out: as long as no   *)
(* subscription reads along, there are no more calls waiting than replies  *)
(* still to come, so none waits for a reply that another has taken.        *)
Waiting == {t \in Tasks : pc[t] = "reading"}
ToCome == {i \in DOMAIN fromTor : fromTor[i].kind \in Final}

NoneWaitsInVain ==
    ~closed /\ (\A t \in Tasks : loop[t] = "none") =>
        Cardinality(Waiting) <= Len(toTor) + Cardinality(ToCome)

(* isAuthenticated is never set on the word of another command's reply:    *)
(* Tor has then accepted an AUTHENTICATE on the connection.  This needs    *)
(* that no caller sends PROTOCOLINFO raw, the one other command that Tor   *)
(* answers with 250 before the authentication.                             *)
AuthenticatedByTor == isAuthenticated => torAuth

(* It is inductive together with what a reply can be until then: nothing   *)
(* but refusals is on its way, collected or returned.                      *)
OnlyRefusals(s) == \A i \in DOMAIN s : s[i].kind = "err"

AuthInv ==
    /\ AuthenticatedByTor
    /\ ~torAuth =>
        /\ OnlyRefusals(fromTor)
        /\ \A t \in Tasks : OnlyRefusals(lines[t]) /\ outcome[t] # "success"

(* Every call returns or throws, although Tor need not answer, as long as  *)
(* no subscription reads along: its loop takes the Mutex again and again,  *)
(* the Mutex is not fair, and the deadline of a call begins only when it   *)
(* has the Mutex.                                                          *)
CallsReturn ==
    \A t \in Tasks :
        pc[t] # "idle" ~> pc[t] = "idle" \/ \E u \in Tasks : loop[u] = "reading"

(* The end of the connection ends every event stream.                      *)
CloseEndsStreams ==
    \A t \in Tasks : closed /\ loop[t] = "reading" ~> loop[t] = "finished"

(* TorControlClient.swift, lines 383-385: an event stream lasts until the  *)
(* connection closes (its consumer, in this model, never cancels).         *)
StreamLasts == \A t \in Tasks : loop[t] = "finished" => closed
=============================================================================
