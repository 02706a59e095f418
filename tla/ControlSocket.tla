---------------------------- MODULE ControlSocket ----------------------------
(***************************************************************************)
(* The class ControlSocket: one descriptor, one read buffer and one Mutex, *)
(* shared by every task that uses the connection.                          *)
(*                                                                         *)
(* sendCommand runs on a thread of a concurrent queue: it writes its line  *)
(* without the Mutex, then calls readReply, which calls readLine until a   *)
(* line ends the reply.  readLine holds the Mutex from its first look at   *)
(* the buffer until it has a line or fails; between two lines of a reply   *)
(* the Mutex is free.  The lines not read yet, in the kernel or in the     *)
(* read buffer, are fromTor; a write or a line is never torn.              *)
(*                                                                         *)
(* The readers are the calls, <<"call", t>>, and the loops that subscribe  *)
(* leaves behind, <<"loop", t>>.                                           *)
(***************************************************************************)
EXTENDS ControlPeer

CONSTANTS Tasks          \* the tasks that share the connection

VARIABLES
    lock,        \* the reader that holds the Mutex, or NoReader
    pc,          \* where the call of a task is
    op,          \* what it sent
    own,         \* how many commands the task has sent
    lines,       \* lines readReply has collected
    inData,      \* readReply is in a data block
    outcome,     \* what sendCommand returned or threw
    late,        \* history: some readReply on this connection has timed out
    overlapped   \* history: tasks whose call another call overlapped

socketVars == <<lock, pc, op, own, lines, inData, outcome, late, overlapped>>

NoReader == <<"none", "none">>
Call(t) == <<"call", t>>
Loop(t) == <<"loop", t>>

Ops == {"getinfo", "setevents"} \cup Methods
(* "queued" the job is posted, "reading" the line is written and readReply *)
(* under way, "resumed" the continuation is resumed and the caller to run  *)
Labels == {"idle", "queued", "reading", "resumed"}
Outcomes == {"none", "success", "failure", "invalid", "io", "timeout"}

SocketInit ==
    /\ lock = NoReader
    /\ pc = [t \in Tasks |-> "idle"]
    /\ op = [t \in Tasks |-> "getinfo"]
    /\ own = [t \in Tasks |-> 0]
    /\ lines = [t \in Tasks |-> << >>]
    /\ inData = [t \in Tasks |-> FALSE]
    /\ outcome = [t \in Tasks |-> "none"]
    /\ late = FALSE
    /\ overlapped = {}

(* sendCommand, up to the suspension of the caller.                        *)
SendCommand(t, o) ==
    /\ pc' = [pc EXCEPT ![t] = "queued"]
    /\ op' = [op EXCEPT ![t] = o]
    /\ own' = [own EXCEPT ![t] = @ + 1]
    /\ lines' = [lines EXCEPT ![t] = << >>]
    /\ inData' = [inData EXCEPT ![t] = FALSE]
    /\ outcome' = [outcome EXCEPT ![t] = "none"]
    /\ UNCHANGED <<lock, late, overlapped, peerVars>>

Resume(t, result) ==
    /\ pc' = [pc EXCEPT ![t] = "resumed"]
    /\ outcome' = [outcome EXCEPT ![t] = result]

(* A call that begins to read while others do overlaps with them.          *)
Reads(t) ==
    /\ pc' = [pc EXCEPT ![t] = "reading"]
    /\ LET others == {u \in Tasks \ {t} : pc[u] = "reading"}
       IN  overlapped' = IF others = {} THEN overlapped \ {t}
                         ELSE overlapped \cup others \cup {t}

WriteLine(t) ==
    /\ pc[t] = "queued"
    /\ ~closed
    /\ toTor' = Append(toTor, [cmd |-> <<t, own[t]>>, op |-> op[t]])
    /\ Reads(t)
    /\ UNCHANGED <<lock, op, own, lines, inData, outcome, late, fromTor,
                   torAuth, events, closed>>

(* A write after the end of the connection fails, or (the first, over TCP) *)
(* succeeds and is lost.                                                   *)
WriteLost(t) ==
    /\ pc[t] = "queued"
    /\ closed
    /\ \/ Resume(t, "io") /\ UNCHANGED overlapped
       \/ Reads(t) /\ UNCHANGED outcome
    /\ UNCHANGED <<lock, op, own, lines, inData, late, peerVars>>

(* readLine takes the Mutex; which of the readers gets it is not defined.  *)
Locks(r) == lock = NoReader /\ lock' = r

TakesLine(r) ==
    /\ lock = r
    /\ fromTor # << >>
    /\ fromTor' = Tail(fromTor)
    /\ lock' = NoReader
    /\ UNCHANGED <<toTor, torAuth, events, closed>>

AcquireLock(t) ==
    /\ pc[t] = "reading"
    /\ Locks(Call(t))
    /\ UNCHANGED <<pc, op, own, lines, inData, outcome, late, overlapped,
                   peerVars>>

\* mutant: a continuation line ends the reply
GoesOnInBlock(t, kind) == inData[t] \/ kind = "open"

\* mutant: the final line of a reply of several lines does not end it
GoesOnPastEnd(t, kind) ==
    inData[t] \/ kind \in {"mid", "open"} \/ Len(lines[t]) = 1

(* Whether readReply asks for another line after one of this kind.         *)
GoesOn(t, kind) == inData[t] \/ kind \in {"mid", "open"}

(* parseReply: the status of a reply is that of its first line; a line     *)
(* without a status makes it throw.                                        *)
ParseReply(reply) ==
    IF reply[Len(reply)].kind \in {"text", "dot"} THEN "invalid"
    ELSE IF reply[1].kind \in {"mid", "open", "ok"} THEN "success"
    ELSE "failure"

ReadLine(t) ==
    /\ TakesLine(Call(t))
    /\ LET line == Head(fromTor)
           reply == Append(lines[t], line)
       IN  /\ lines' = [lines EXCEPT ![t] = reply]
           /\ inData' = [inData EXCEPT ![t] =
                            IF @ THEN line.kind # "dot" ELSE line.kind = "open"]
           /\ \/ GoesOn(t, line.kind) /\ UNCHANGED <<pc, outcome>>
              \/ ~GoesOn(t, line.kind) /\ Resume(t, ParseReply(reply))
    /\ UNCHANGED <<op, own, late, overlapped>>

(* recv returns 0.                                                         *)
ReadFails(t) ==
    /\ lock = Call(t)
    /\ closed /\ fromTor = << >>
    /\ lock' = NoReader
    /\ Resume(t, "io")
    /\ UNCHANGED <<op, own, lines, inData, late, overlapped,
                   peerVars>>

\* mutant: recv has no deadline
ReadBlocks(t) == FALSE

\* mutant: the Mutex is not released on the way out
ReadTimesOutLocked(t) ==
    /\ Fault("timeout")
    /\ lock = Call(t)
    /\ Resume(t, "timeout")
    /\ late' = TRUE
    /\ UNCHANGED <<lock, op, own, lines, inData, overlapped, peerVars>>

(* The deadline passes before a line arrives.  One that was sent may be    *)
(* still on its way; the reply is not forgotten, and its lines stay.       *)
ReadTimesOut(t) ==
    /\ Fault("timeout")
    /\ lock = Call(t)
    /\ lock' = NoReader
    /\ Resume(t, "timeout")
    /\ late' = TRUE
    /\ UNCHANGED <<op, own, lines, inData, overlapped, peerVars>>

SocketStep(t) ==
    \/ WriteLine(t)
    \/ WriteLost(t)
    \/ AcquireLock(t)
    \/ ReadLine(t)
    \/ ReadFails(t)
    \/ ReadTimesOut(t)
=============================================================================
