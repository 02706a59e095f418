--------------------------- MODULE TorControlProofs ---------------------------
(***************************************************************************)
(* Proofs about TorControlClient for every value of its constants.         *)
(***************************************************************************)
EXTENDS TorControlClient, SequenceTheorems, FunctionTheorems,
        FiniteSetTheorems, TLAPS

(* What Tor sends is lines.                                                *)
LEMMA ReplyType ==
    ASSUME NEW cmd \in Tasks \X Nat, NEW shape \in Seq(Kinds)
    PROVE  Reply(cmd, shape) \in Seq(Lines)
<1>1. /\ Len(shape) \in Nat
      /\ DOMAIN shape = 1 .. Len(shape)
      /\ \A i \in 1 .. Len(shape) : shape[i] \in Kinds
  OBVIOUS
<1>2. \A i \in 1 .. Len(shape) : [cmd |-> cmd, kind |-> shape[i]] \in Lines
  BY <1>1 DEF Lines
<1>3. Reply(cmd, shape) \in [1 .. Len(shape) -> Lines]
  BY <1>1, <1>2 DEF Reply
<1> QED
  BY <1>1, <1>3

(* Tor takes a command off one queue and puts its reply on the other.      *)
LEMMA AnswersType ==
    ASSUME TypeOK, NEW ops, NEW shape \in Seq(Kinds), TorAnswers(ops, shape)
    PROVE  toTor' \in Seq(Commands) /\ fromTor' \in Seq(Lines)
<1>1. toTor \in Seq(Commands) /\ toTor # << >> /\ fromTor \in Seq(Lines)
  BY DEF TypeOK, TorAnswers
<1>2. Head(toTor) \in Commands /\ Tail(toTor) \in Seq(Commands)
  BY <1>1, HeadTailProperties
<1>3. Head(toTor).cmd \in Tasks \X Nat
  BY <1>2 DEF Commands
<1>4. Reply(Head(toTor).cmd, shape) \in Seq(Lines)
  BY <1>3, ReplyType
<1>5. /\ toTor' = Tail(toTor)
      /\ fromTor' = fromTor \o Reply(Head(toTor).cmd, shape)
  BY DEF TorAnswers
<1> QED
  BY <1>1, <1>2, <1>4, <1>5

(* A reader that takes a line leaves the rest.                             *)
LEMMA TakesType ==
    ASSUME TypeOK, NEW r, TakesLine(r)
    PROVE  /\ Head(fromTor) \in Lines
           /\ fromTor' \in Seq(Lines)
<1>1. fromTor \in Seq(Lines) /\ fromTor # << >> /\ fromTor' = Tail(fromTor)
  BY DEF TypeOK, TakesLine
<1> QED
  BY <1>1, HeadTailProperties

(* What parseReply returns or throws is an outcome.                       *)
LEMMA ParseType ==
    ASSUME NEW reply
    PROVE  ParseReply(reply) \in Outcomes
BY DEF ParseReply, Outcomes

-----------------------------------------------------------------------------
(* A task begins a command, or ends its call: it is not reading.           *)
LEMMA SendsType ==
    ASSUME TypeOK, NEW t \in Tasks, NEW o \in Ops, pc[t] # "reading",
           SendCommand(t, o), UNCHANGED clientVars
    PROVE  TypeOK'
BY DEF TypeOK, SendCommand, Labels, Outcomes, peerVars, clientVars, Call, Loop,
       NoReader

(* A call returns: its task is idle and no reader is left behind.          *)
LEMMA ReturnsType ==
    ASSUME TypeOK, NEW t \in Tasks, pc[t] # "reading", Returns(t),
           isAuthenticated' \in BOOLEAN, UNCHANGED loop
    PROVE  TypeOK'
BY DEF TypeOK, Returns, Labels, Outcomes, peerVars, Call, Loop, NoReader

(* A call begins to read, with others or alone.                            *)
LEMMA ReadsType ==
    ASSUME TypeOK, NEW t \in Tasks, Reads(t)
    PROVE  /\ pc' = [pc EXCEPT ![t] = "reading"]
           /\ overlapped' \subseteq Tasks
BY DEF TypeOK, Reads

(* A readReply fails and its reader gives the Mutex up.                    *)
LEMMA ResumesType ==
    ASSUME TypeOK, NEW t \in Tasks, NEW result \in Outcomes, Resume(t, result),
           lock' = NoReader, late' \in BOOLEAN,
           UNCHANGED <<op, own, lines, inData, overlapped, peerVars, clientVars>>
    PROVE  TypeOK'
BY DEF TypeOK, Resume, Labels, Outcomes, peerVars, clientVars, Call, Loop,
       NoReader

(* A call reads a line, and parses the reply when it is the last.          *)
LEMMA ReadLineType ==
    ASSUME TypeOK, NEW t \in Tasks, ReadLine(t), UNCHANGED clientVars
    PROVE  TypeOK'
<1> DEFINE line == Head(fromTor)
           reply == Append(lines[t], line)
<1>1. TakesLine(Call(t))
  BY DEF ReadLine
<1>2. line \in Lines /\ fromTor' \in Seq(Lines)
  BY <1>1, TakesType
<1>3. reply \in Seq(Lines)
  BY <1>2 DEF TypeOK
<1>4. lines' = [lines EXCEPT ![t] = reply]
  BY DEF ReadLine
<1>5. lines' \in [Tasks -> Seq(Lines)]
  BY <1>3, <1>4 DEF TypeOK
<1>6. inData' \in [Tasks -> BOOLEAN]
  BY DEF ReadLine, TypeOK
<1>7. ParseReply(reply) \in Outcomes
  BY ParseType
<1> HIDE DEF line, reply
<1>8. \/ UNCHANGED <<pc, outcome>>
      \/ Resume(t, ParseReply(reply))
  BY DEF ReadLine, line, reply
<1>9. pc' \in [Tasks -> Labels] /\ outcome' \in [Tasks -> Outcomes]
  <2>1. pc \in [Tasks -> Labels] /\ outcome \in [Tasks -> Outcomes]
    BY DEF TypeOK
  <2>2. CASE UNCHANGED <<pc, outcome>>
    BY <2>1, <2>2
  <2>3. CASE Resume(t, ParseReply(reply))
    <3>1. "resumed" \in Labels
      BY DEF Labels
    <3>2. /\ pc' = [pc EXCEPT ![t] = "resumed"]
          /\ outcome' = [outcome EXCEPT ![t] = ParseReply(reply)]
      BY <2>3 DEF Resume
    <3>3. QED
      BY <1>7, <2>1, <3>1, <3>2
  <2>4. QED
    BY <1>8, <2>2, <2>3
<1>10. /\ lock' = NoReader
       /\ UNCHANGED <<toTor, torAuth, events, closed, op, own, late, overlapped>>
       /\ UNCHANGED <<isAuthenticated, loop>>
  BY <1>1 DEF ReadLine, TakesLine, clientVars
<1>11. \A u \in Tasks : lock' # Call(u) /\ lock' # Loop(u)
  BY <1>10 DEF NoReader, Call, Loop
<1>12. lock' \in {NoReader} \cup ({"call", "loop"} \X Tasks)
  BY <1>10
<1> QED
  BY <1>2, <1>5, <1>6, <1>9, <1>10, <1>11, <1>12 DEF TypeOK

(* Every piece of the state keeps its type, and a reader that holds the    *)
(* Mutex is one that is reading.                                           *)
THEOREM TypeCorrect == Spec => []TypeOK
<1>1. ASSUME Init
      PROVE  TypeOK
  <2>1. /\ toTor = << >> /\ fromTor = << >>
        /\ torAuth \in BOOLEAN /\ events \in BOOLEAN /\ closed \in BOOLEAN
    BY <1>1, PeerKnown DEF Init, PeerInit
  <2>2. /\ pc \in [Tasks -> Labels] /\ op \in [Tasks -> Ops]
        /\ own \in [Tasks -> Nat] /\ inData \in [Tasks -> BOOLEAN]
        /\ outcome \in [Tasks -> Outcomes] /\ late \in BOOLEAN
        /\ overlapped \subseteq Tasks
    BY <1>1 DEF Init, SocketInit, Labels, Ops, Outcomes
  <2>3. lines \in [Tasks -> Seq(Lines)]
    <3>1. << >> \in Seq(Lines)
      OBVIOUS
    <3>2. lines = [t \in Tasks |-> << >>]
      BY <1>1 DEF Init, SocketInit
    <3>3. QED
      BY <3>1, <3>2
  <2>4. isAuthenticated \in BOOLEAN /\ loop \in [Tasks -> LoopLabels]
    BY <1>1, PeerKnown DEF Init, LoopLabels
  <2>5. lock = NoReader
    BY <1>1 DEF Init, SocketInit
  <2>6. \A t \in Tasks : lock # Call(t) /\ lock # Loop(t)
    BY <2>5 DEF NoReader, Call, Loop
  <2>7. QED
    BY <2>1, <2>2, <2>3, <2>4, <2>5, <2>6 DEF TypeOK
<1>2. ASSUME TypeOK, [Next]_vars
      PROVE  TypeOK'
  <2>1. ASSUME NEW t \in Tasks, Command(t)
        PROVE  TypeOK'
    BY <1>2, <2>1, SendsType DEF Command, Calls, Ops
  <2>2. ASSUME NEW t \in Tasks, Authenticate(t)
        PROVE  TypeOK'
    BY <1>2, <2>2, SendsType DEF Authenticate, Calls, Ops, Methods, LastMethod
  <2>3. ASSUME NEW t \in Tasks, Subscribe(t)
        PROVE  TypeOK'
    BY <1>2, <2>3, SendsType DEF Subscribe, Calls, Ops
  <2>4. ASSUME NEW t \in Tasks, WriteLine(t), UNCHANGED clientVars
        PROVE  TypeOK'
    <3>1. [cmd |-> <<t, own[t]>>, op |-> op[t]] \in Commands
      BY <1>2 DEF TypeOK, Commands
    <3>2. toTor' \in Seq(Commands)
      BY <1>2, <2>4, <3>1 DEF WriteLine, TypeOK
    <3>3. /\ pc' = [pc EXCEPT ![t] = "reading"]
          /\ overlapped' \subseteq Tasks
      BY <1>2, <2>4, ReadsType DEF WriteLine
    <3>4. QED
      BY <1>2, <2>4, <3>2, <3>3 DEF WriteLine, TypeOK, Labels, clientVars, Call,
         Loop
  <2>5. ASSUME NEW t \in Tasks, WriteLost(t), UNCHANGED clientVars
        PROVE  TypeOK'
    <3>1. pc[t] = "queued" /\ UNCHANGED <<lock, op, own, lines, inData, late>>
          /\ UNCHANGED <<peerVars, clientVars>>
      BY <2>5 DEF WriteLost
    <3>2. CASE Resume(t, "io") /\ UNCHANGED overlapped
      BY <1>2, <3>1, <3>2 DEF Resume, TypeOK, Labels, Outcomes, clientVars,
         peerVars, Call, Loop
    <3>3. CASE Reads(t) /\ UNCHANGED outcome
      <4>1. /\ pc' = [pc EXCEPT ![t] = "reading"]
            /\ overlapped' \subseteq Tasks
        BY <1>2, <3>3, ReadsType
      <4>2. QED
        BY <1>2, <3>1, <3>3, <4>1 DEF TypeOK, Labels, clientVars, peerVars,
           Call, Loop
    <3>4. QED
      BY <2>5, <3>2, <3>3 DEF WriteLost
  <2>6. ASSUME NEW t \in Tasks, AcquireLock(t), UNCHANGED clientVars
        PROVE  TypeOK'
    BY <1>2, <2>6 DEF AcquireLock, Locks, TypeOK, clientVars, peerVars, Call,
       Loop, NoReader
  <2>7. ASSUME NEW t \in Tasks, ReadLine(t), UNCHANGED clientVars
        PROVE  TypeOK'
    BY <1>2, <2>7, ReadLineType
  <2>8. ASSUME NEW t \in Tasks, ReadFails(t), UNCHANGED clientVars
        PROVE  TypeOK'
    BY <1>2, <2>8, ResumesType DEF ReadFails, Outcomes, TypeOK
  <2>9. ASSUME NEW t \in Tasks, ReadTimesOut(t), UNCHANGED clientVars
        PROVE  TypeOK'
    BY <1>2, <2>9, ResumesType DEF ReadTimesOut, Outcomes, TypeOK
  <2>10. ASSUME NEW t \in Tasks, CommandReturns(t)
        PROVE  TypeOK'
    BY <1>2, <2>10, ReturnsType DEF CommandReturns, clientVars, TypeOK
  <2>11. ASSUME NEW t \in Tasks, AuthSucceeds(t)
        PROVE  TypeOK'
    BY <1>2, <2>11, ReturnsType DEF AuthSucceeds
  <2>12. ASSUME NEW t \in Tasks, AuthFallsBack(t)
        PROVE  TypeOK'
    BY <1>2, <2>12, SendsType DEF AuthFallsBack, Ops, Methods, LastMethod
  <2>13. ASSUME NEW t \in Tasks, AuthThrows(t)
        PROVE  TypeOK'
    BY <1>2, <2>13, ReturnsType DEF AuthThrows, clientVars, TypeOK
  <2>14. ASSUME NEW t \in Tasks, SubscribeReturns(t)
        PROVE  TypeOK'
    <3>1. loop' \in [Tasks -> LoopLabels]
      BY <1>2, <2>14 DEF SubscribeReturns, TypeOK, LoopLabels
    <3>2. \A u \in Tasks : lock = Loop(u) => loop'[u] = "reading"
      BY <1>2, <2>14 DEF SubscribeReturns, TypeOK
    <3>3. QED
      BY <1>2, <2>14, <3>1, <3>2 DEF SubscribeReturns, Returns, TypeOK, Labels,
         Outcomes, peerVars, Call, Loop
  <2>15. ASSUME NEW t \in Tasks, LoopAcquires(t)
        PROVE  TypeOK'
    BY <1>2, <2>15 DEF LoopAcquires, Locks, TypeOK, clientVars, peerVars, Call,
       Loop, NoReader
  <2>16. ASSUME NEW t \in Tasks, LoopReads(t)
        PROVE  TypeOK'
    <3>1. fromTor' \in Seq(Lines)
      BY <1>2, <2>16, TakesType DEF LoopReads
    <3>2. QED
      BY <1>2, <2>16, <3>1 DEF LoopReads, TakesLine, TypeOK, clientVars, Call,
         Loop, NoReader
  <2>17. ASSUME NEW t \in Tasks, LoopEnds(t)
        PROVE  TypeOK'
    BY <1>2, <2>17 DEF LoopEnds, TypeOK, LoopLabels, peerVars, Call, Loop,
       NoReader
  <2>18. ASSUME NEW ops, NEW shape \in Seq(Kinds), TorAnswers(ops, shape),
                torAuth' \in BOOLEAN, events' \in BOOLEAN, closed' \in BOOLEAN,
                UNCHANGED <<socketVars, clientVars>>
        PROVE  TypeOK'
    <3>1. toTor' \in Seq(Commands) /\ fromTor' \in Seq(Lines)
      BY <1>2, <2>18, AnswersType
    <3>2. QED
      BY <1>2, <2>18, <3>1 DEF TypeOK, socketVars, clientVars
  <2>19. ASSUME TorTakes, UNCHANGED <<socketVars, clientVars>>
        PROVE  TypeOK'
    <3>1. <<"ok">> \in Seq(Kinds) /\ <<"err">> \in Seq(Kinds)
      BY DEF Kinds
    <3>2. torAuth \in BOOLEAN /\ events \in BOOLEAN /\ closed \in BOOLEAN
      BY <1>2 DEF TypeOK
    <3>3. CASE TorServes
      BY <2>18, <2>19, <3>2, <3>3, ShapesKnown DEF TorServes
    <3>4. CASE TorSetsEvents
      BY <2>18, <2>19, <3>1, <3>2, <3>4 DEF TorSetsEvents
    <3>5. CASE TorAuthenticates
      BY <2>18, <2>19, <3>1, <3>2, <3>5 DEF TorAuthenticates
    <3>6. CASE TorRefuses
      BY <2>18, <2>19, <3>1, <3>2, <3>6 DEF TorRefuses
    <3>7. QED
      BY <2>19, <3>3, <3>4, <3>5, <3>6 DEF TorTakes
  <2>20. ASSUME TorEmits, UNCHANGED <<socketVars, clientVars>>
        PROVE  TypeOK'
    <3>1. [cmd |-> NoCommand, kind |-> "event"] \in Lines
      BY DEF Lines, Kinds
    <3>2. fromTor' \in Seq(Lines)
      BY <1>2, <2>20, <3>1 DEF TorEmits, TypeOK
    <3>3. QED
      BY <1>2, <2>20, <3>2 DEF TorEmits, TypeOK, socketVars, clientVars
  <2>21. ASSUME TorCloses, UNCHANGED <<socketVars, clientVars>>
        PROVE  TypeOK'
    BY <1>2, <2>21 DEF TorCloses, TypeOK, socketVars, clientVars
  <2>22. CASE UNCHANGED vars
    BY <1>2, <2>22 DEF vars, TypeOK, peerVars, socketVars, clientVars
  <2>23. QED
    BY <1>2, <2>1, <2>2, <2>3, <2>4, <2>5, <2>6, <2>7, <2>8, <2>9, <2>10,
       <2>11, <2>12, <2>13, <2>14, <2>15, <2>16, <2>17, <2>19, <2>20, <2>21,
       <2>22 DEF Next, CallStep, TaskStep, SocketStep, ReturnStep, LoopStep,
       TorStep
<1>3. QED
  BY <1>1, <1>2, PTL DEF Spec

-----------------------------------------------------------------------------
(* Until Tor has accepted an AUTHENTICATE, all it sends is refusals.       *)
LEMMA RefusalsPrefix ==
    ASSUME NEW s \in Seq(Lines), NEW line \in Lines, OnlyRefusals(s)
    PROVE  /\ s # << >> => /\ Head(s).kind = "err"
                           /\ OnlyRefusals(Tail(s))
           /\ line.kind = "err" => OnlyRefusals(Append(s, line))
<1>1. ASSUME s # << >>
      PROVE  Head(s).kind = "err" /\ OnlyRefusals(Tail(s))
  <2>1. Head(s) = s[1] /\ 1 \in DOMAIN s
    BY <1>1
  <2>2. \A i \in DOMAIN Tail(s) : i + 1 \in DOMAIN s /\ Tail(s)[i] = s[i + 1]
    BY <1>1
  <2>3. QED
    BY <2>1, <2>2 DEF OnlyRefusals
<1>2. ASSUME line.kind = "err"
      PROVE  OnlyRefusals(Append(s, line))
  <2>1. \A i \in DOMAIN Append(s, line) :
            \/ i \in DOMAIN s /\ Append(s, line)[i] = s[i]
            \/ Append(s, line)[i] = line
    OBVIOUS
  <2>2. QED
    BY <2>1, <1>2 DEF OnlyRefusals
<1>3. QED
  BY <1>1, <1>2

(* What readReply makes of refusals is no success.                         *)
LEMMA RefusalsFail ==
    ASSUME NEW s \in Seq(Lines), s # << >>, OnlyRefusals(s)
    PROVE  ParseReply(s) # "success"
<1>1. 1 \in DOMAIN s /\ Len(s) \in DOMAIN s
  OBVIOUS
<1>2. s[1].kind = "err" /\ s[Len(s)].kind = "err"
  BY <1>1 DEF OnlyRefusals
<1>3. QED
  BY <1>2 DEF ParseReply

(* Refusals after refusals are refusals.                                   *)
LEMMA RefusalsConcat ==
    ASSUME NEW s \in Seq(Lines), NEW r \in Seq(Lines), OnlyRefusals(s),
           OnlyRefusals(r)
    PROVE  OnlyRefusals(s \o r)
<1>1. ASSUME NEW i \in DOMAIN (s \o r)
      PROVE  (s \o r)[i].kind = "err"
  <2>1. i \in 1 .. Len(s) + Len(r)
    BY <1>1, ConcatProperties
  <2>2. CASE i <= Len(s)
    <3>1. i \in DOMAIN s /\ (s \o r)[i] = s[i]
      BY <2>1, <2>2, ConcatProperties
    <3>2. QED
      BY <3>1 DEF OnlyRefusals
  <2>3. CASE i > Len(s)
    <3>1. i - Len(s) \in DOMAIN r /\ (s \o r)[i] = r[i - Len(s)]
      BY <2>1, <2>3, ConcatProperties
    <3>2. QED
      BY <3>1 DEF OnlyRefusals
  <2>4. QED
    BY <2>1, <2>2, <2>3
<1>2. QED
  BY <1>1 DEF OnlyRefusals

(* When Tor refuses a command, nothing but refusals is on its way.         *)
LEMMA RefusalSent ==
    ASSUME TypeOK, OnlyRefusals(fromTor), NEW ops, TorAnswers(ops, <<"err">>)
    PROVE  OnlyRefusals(fromTor')
<1> DEFINE reply == Reply(Head(toTor).cmd, <<"err">>)
<1>1. toTor \in Seq(Commands) /\ toTor # << >> /\ fromTor \in Seq(Lines)
  BY DEF TypeOK, TorAnswers
<1>2. Head(toTor) \in Commands
  BY <1>1, HeadTailProperties
<1>3. Head(toTor).cmd \in Tasks \X Nat
  BY <1>2 DEF Commands
<1>4. <<"err">> \in Seq(Kinds)
  BY DEF Kinds
<1>5. reply \in Seq(Lines)
  BY <1>3, <1>4, ReplyType
<1>6. OnlyRefusals(reply)
  BY DEF OnlyRefusals, Reply
<1>7. fromTor' = fromTor \o reply
  BY DEF TorAnswers
<1> HIDE DEF reply
<1>8. QED
  BY <1>1, <1>5, <1>6, <1>7, RefusalsConcat

(* isAuthenticated follows Tor: the client never believes a connection to  *)
(* be authenticated that Tor has not accepted, however calls overlap, fail *)
(* and time out.                                                           *)
THEOREM AuthenticationSound == Spec => []AuthenticatedByTor
<1>1. Init => AuthInv
  BY DEF Init, PeerInit, SocketInit, AuthInv, AuthenticatedByTor, OnlyRefusals
<1>2. ASSUME TypeOK, AuthInv, [Next]_vars
      PROVE  AuthInv'
  <2>1. ASSUME torAuth
        PROVE  torAuth'
    BY <1>2, <2>1 DEF Next, vars, peerVars, socketVars, CallStep, TaskStep,
       LoopStep, SocketStep, ReturnStep, TorStep, TorTakes, TorEmits, TorCloses,
       TorServes, TorSetsEvents, TorAuthenticates, TorRefuses, Command,
       Authenticate, Subscribe, SendCommand, WriteLine, WriteLost, AcquireLock,
       ReadLine, TakesLine, ReadFails, ReadTimesOut, CommandReturns,
       AuthSucceeds, AuthFallsBack, AuthThrows, SubscribeReturns, Returns,
       LoopAcquires, LoopReads, LoopEnds
  <2>2. SUFFICES ASSUME ~torAuth
                 PROVE  AuthInv'
    BY <2>1 DEF AuthInv, AuthenticatedByTor
  <2>3. /\ ~isAuthenticated
        /\ OnlyRefusals(fromTor)
        /\ \A t \in Tasks : OnlyRefusals(lines[t]) /\ outcome[t] # "success"
        /\ fromTor \in Seq(Lines) /\ lines \in [Tasks -> Seq(Lines)]
    BY <1>2, <2>2 DEF AuthInv, AuthenticatedByTor, TypeOK
  <2>4. OnlyRefusals(<< >>)
    BY DEF OnlyRefusals
  <2>5. ASSUME NEW t \in Tasks, NEW o, SendCommand(t, o), UNCHANGED clientVars
        PROVE  AuthInv'
    BY <1>2, <2>3, <2>4, <2>5 DEF SendCommand, clientVars, peerVars, AuthInv,
       AuthenticatedByTor, TypeOK
  <2>6. ASSUME NEW t \in Tasks, Returns(t), UNCHANGED isAuthenticated
        PROVE  AuthInv'
    BY <1>2, <2>3, <2>4, <2>6 DEF Returns, peerVars, AuthInv,
       AuthenticatedByTor, TypeOK
  <2>7. ASSUME NEW t \in Tasks, NEW result, Resume(t, result),
               result # "success",
               UNCHANGED <<fromTor, lines, isAuthenticated>>
        PROVE  AuthInv'
    BY <1>2, <2>3, <2>7 DEF Resume, AuthInv, AuthenticatedByTor, TypeOK
  <2>8. ASSUME UNCHANGED <<fromTor, lines, outcome, isAuthenticated>>
        PROVE  AuthInv'
    BY <2>3, <2>8 DEF AuthInv, AuthenticatedByTor, OnlyRefusals
  <2>9. ASSUME NEW t \in Tasks, CallStep(t)
        PROVE  AuthInv'
    BY <2>5, <2>9 DEF CallStep, Command, Authenticate, Subscribe
  <2>10. ASSUME NEW t \in Tasks, SocketStep(t), UNCHANGED clientVars
         PROVE  AuthInv'
    <3>1. CASE WriteLine(t)
      BY <2>8, <2>10, <3>1 DEF WriteLine, clientVars
    <3>2. CASE WriteLost(t)
      BY <2>7, <2>8, <2>10, <3>2 DEF WriteLost, peerVars, clientVars
    <3>3. CASE AcquireLock(t)
      BY <2>8, <2>10, <3>3 DEF AcquireLock, peerVars, clientVars
    <3>4. CASE ReadLine(t)
      <4> DEFINE line == Head(fromTor)
                 reply == Append(lines[t], line)
      <4>1. /\ fromTor # << >> /\ fromTor' = Tail(fromTor)
            /\ lines' = [lines EXCEPT ![t] = reply]
            /\ UNCHANGED outcome \/ Resume(t, ParseReply(reply))
            /\ UNCHANGED isAuthenticated
        BY <2>10, <3>4 DEF ReadLine, TakesLine, clientVars
      <4>2. line \in Lines /\ lines[t] \in Seq(Lines) /\ reply \in Seq(Lines)
        BY <2>3, <4>1, HeadTailProperties
      <4>3. line.kind = "err" /\ OnlyRefusals(fromTor')
        BY <2>3, <4>1, <4>2, RefusalsPrefix
      <4>4. OnlyRefusals(reply)
        BY <2>3, <4>2, <4>3, RefusalsPrefix
      <4>5. reply # << >>
        BY <4>2
      <4>6. ParseReply(reply) # "success"
        BY <4>2, <4>4, <4>5, RefusalsFail
      <4> HIDE DEF line, reply
      <4>7. \A u \in Tasks : OnlyRefusals(lines'[u])
        BY <2>3, <4>1, <4>4
      <4>8. \A u \in Tasks : outcome'[u] # "success"
        BY <1>2, <2>3, <4>1, <4>6 DEF Resume, TypeOK
      <4>9. QED
        BY <2>3, <4>1, <4>3, <4>7, <4>8 DEF AuthInv, AuthenticatedByTor
    <3>5. CASE ReadFails(t)
      BY <2>7, <2>10, <3>5 DEF ReadFails, peerVars, clientVars
    <3>6. CASE ReadTimesOut(t)
      BY <2>7, <2>10, <3>6 DEF ReadTimesOut, peerVars, clientVars
    <3>7. QED
      BY <2>10, <3>1, <3>2, <3>3, <3>4, <3>5, <3>6 DEF SocketStep
  <2>11. ASSUME NEW t \in Tasks, ReturnStep(t)
         PROVE  AuthInv'
    <3>1. CASE CommandReturns(t)
      BY <2>6, <3>1 DEF CommandReturns, clientVars
    <3>2. CASE AuthSucceeds(t)
      BY <2>3, <3>2 DEF AuthSucceeds
    <3>3. CASE AuthFallsBack(t)
      BY <2>5, <3>3 DEF AuthFallsBack
    <3>4. CASE AuthThrows(t)
      BY <2>6, <3>4 DEF AuthThrows, clientVars
    <3>5. CASE SubscribeReturns(t)
      BY <2>6, <3>5 DEF SubscribeReturns
    <3>6. QED
      BY <2>11, <3>1, <3>2, <3>3, <3>4, <3>5 DEF ReturnStep
  <2>12. ASSUME NEW t \in Tasks, LoopStep(t)
         PROVE  AuthInv'
    <3>1. CASE LoopReads(t)
      <4>1. fromTor # << >> /\ fromTor' = Tail(fromTor)
        BY <3>1 DEF LoopReads, TakesLine
      <4>2. Head(fromTor) \in Lines
        BY <2>3, <4>1, HeadTailProperties
      <4>3. OnlyRefusals(fromTor')
        BY <2>3, <4>1, <4>2, RefusalsPrefix
      <4>4. UNCHANGED <<lines, outcome, isAuthenticated>>
        BY <3>1 DEF LoopReads, clientVars
      <4>5. QED
        BY <2>3, <4>3, <4>4 DEF AuthInv, AuthenticatedByTor
    <3>2. CASE LoopAcquires(t) \/ LoopEnds(t)
      BY <2>8, <3>2 DEF LoopAcquires, LoopEnds, peerVars, clientVars
    <3>3. QED
      BY <2>12, <3>1, <3>2 DEF LoopStep
  <2>13. ASSUME TorStep
         PROVE  AuthInv'
    <3>1. UNCHANGED <<lines, outcome, isAuthenticated>>
      BY <2>13 DEF TorStep, socketVars, clientVars
    <3>2. CASE TorAuthenticates
      BY <3>2 DEF TorAuthenticates, AuthInv, AuthenticatedByTor
    <3>3. CASE TorRefuses
      <4>1. OnlyRefusals(fromTor')
        BY <1>2, <2>3, <3>3, RefusalSent DEF TorRefuses
      <4>2. QED
        BY <2>3, <3>1, <4>1 DEF AuthInv, AuthenticatedByTor
    <3>4. CASE TorCloses
      BY <2>8, <3>1, <3>4 DEF TorCloses
    <3>5. QED
      BY <2>2, <2>13, <3>2, <3>3, <3>4 DEF TorStep, TorTakes, TorEmits,
         TorServes, TorSetsEvents
  <2>14. CASE UNCHANGED vars
    BY <2>8, <2>14 DEF vars, peerVars, socketVars, clientVars
  <2>15. QED
    BY <1>2, <2>9, <2>10, <2>11, <2>12, <2>13, <2>14 DEF Next, TaskStep
<1>3. AuthInv => AuthenticatedByTor
  BY DEF AuthInv
<1>4. QED
  BY <1>1, <1>2, <1>3, TypeCorrect, PTL DEF Spec

-----------------------------------------------------------------------------
(* No call waits in vain: what has to be counted.                          *)

TasksFinite == IsFiniteSet(Tasks)

(* A final line ends the reply, and nothing but 250- lines comes before it. *)
Plain(shape) ==
    /\ shape[Len(shape)] \in Final
    /\ \A i \in 1 .. Len(shape) - 1 : shape[i] = "mid"

PlainReplies == \A shape \in Shapes : Plain(shape)

(* NoneWaitsInVain is inductive together with the absence of data blocks,  *)
(* which would hide a final line from the readReply that takes it.         *)
NoBlock(s) == \A i \in DOMAIN s : s[i].kind # "open"

WaitInv ==
    /\ NoneWaitsInVain
    /\ NoBlock(fromTor)
    /\ \A t \in Tasks : ~inData[t]

Finals(s) == {i \in DOMAIN s : s[i].kind \in Final}

(* The final lines of a sequence can be counted.                           *)
LEMMA FinalsFinite ==
    ASSUME NEW s \in Seq(Lines)
    PROVE  IsFiniteSet(Finals(s)) /\ Cardinality(Finals(s)) \in Nat
<1>1. IsFiniteSet(1 .. Len(s))
  BY FS_Interval
<1>2. Finals(s) \in SUBSET (1 .. Len(s))
  BY DEF Finals
<1>3. IsFiniteSet(Finals(s))
  BY <1>1, <1>2, FS_Subset
<1> QED
  BY <1>3, FS_CardinalityType

(* Whoever takes a line takes at most one final line, and none if that     *)
(* line is not final.                                                      *)
LEMMA FinalsTail ==
    ASSUME NEW s \in Seq(Lines), s # << >>
    PROVE  /\ Cardinality(Finals(s)) <= Cardinality(Finals(Tail(s))) + 1
           /\ Head(s).kind \notin Final =>
                Cardinality(Finals(s)) <= Cardinality(Finals(Tail(s)))
<1> DEFINE rest == Finals(s) \ {1}
           shift == [i \in rest |-> i - 1]
<1>1. Tail(s) \in Seq(Lines) /\ Len(Tail(s)) = Len(s) - 1
  BY HeadTailProperties
<1>2. ASSUME NEW i \in rest
      PROVE  i - 1 \in Finals(Tail(s))
  <2>1. i \in 2 .. Len(s) /\ s[i].kind \in Final
    BY DEF Finals
  <2>2. i - 1 \in 1 .. Len(Tail(s)) /\ Tail(s)[i - 1] = s[i]
    BY <1>1, <2>1
  <2>3. QED
    BY <1>1, <2>1, <2>2 DEF Finals
<1>3. shift \in Injection(rest, Finals(Tail(s)))
  <2>1. shift \in [rest -> Finals(Tail(s))]
    BY <1>2
  <2>2. rest \subseteq Int
    BY DEF Finals
  <2>3. ASSUME NEW i \in rest, NEW j \in rest, shift[i] = shift[j]
        PROVE  i = j
    BY <2>2, <2>3
  <2> HIDE DEF shift, rest
  <2>4. QED
    BY <2>1, <2>3 DEF Injection, IsInjective
<1>4. /\ IsFiniteSet(Finals(s)) /\ Cardinality(Finals(s)) \in Nat
      /\ IsFiniteSet(Finals(Tail(s))) /\ Cardinality(Finals(Tail(s))) \in Nat
  BY <1>1, FinalsFinite
<1>5. Cardinality(rest) <= Cardinality(Finals(Tail(s)))
  <2> HIDE DEF shift, rest
  <2> QED
    BY <1>3, <1>4, FS_Injection
<1>6. Cardinality(rest) = IF 1 \in Finals(s) THEN Cardinality(Finals(s)) - 1
                          ELSE Cardinality(Finals(s))
  BY <1>4, FS_RemoveElement
<1>7. Head(s).kind \notin Final => 1 \notin Finals(s)
  BY DEF Finals
<1> HIDE DEF rest
<1> QED
  BY <1>4, <1>5, <1>6, <1>7

(* What is put behind a sequence leaves its final lines, and a reply adds  *)
(* one at least.                                                           *)
LEMMA FinalsConcat ==
    ASSUME NEW s \in Seq(Lines), NEW r \in Seq(Lines)
    PROVE  /\ Cardinality(Finals(s)) <= Cardinality(Finals(s \o r))
           /\ r # << >> /\ r[Len(r)].kind \in Final =>
                Cardinality(Finals(s)) + 1 <= Cardinality(Finals(s \o r))
<1> DEFINE last == Len(s) + Len(r)
<1>1. s \o r \in Seq(Lines)
  OBVIOUS
<1>2. /\ IsFiniteSet(Finals(s)) /\ Cardinality(Finals(s)) \in Nat
      /\ IsFiniteSet(Finals(s \o r)) /\ Cardinality(Finals(s \o r)) \in Nat
  BY <1>1, FinalsFinite
<1>3. Finals(s) \subseteq Finals(s \o r)
  <2>1. ASSUME NEW i \in Finals(s)
        PROVE  i \in Finals(s \o r)
    <3>1. i \in 1 .. Len(s) /\ s[i].kind \in Final
      BY DEF Finals
    <3>2. i \in DOMAIN (s \o r) /\ (s \o r)[i] = s[i]
      BY <3>1, ConcatProperties
    <3>3. QED
      BY <3>1, <3>2 DEF Finals
  <2>2. QED
    BY <2>1
<1>4. ASSUME r # << >>, r[Len(r)].kind \in Final
      PROVE  Cardinality(Finals(s)) + 1 <= Cardinality(Finals(s \o r))
  <2>1. Len(s) \in Nat /\ Len(r) \in Nat /\ Len(r) > 0
    BY <1>4
  <2>2. last \in DOMAIN (s \o r) /\ (s \o r)[last] = r[Len(r)]
    BY <2>1, ConcatProperties
  <2>3. last \in Finals(s \o r)
    BY <1>4, <2>2 DEF Finals
  <2>4. last \notin Finals(s)
    BY <2>1 DEF Finals
  <2> HIDE DEF last
  <2>5. Finals(s) \cup {last} \in SUBSET Finals(s \o r)
    BY <1>3, <2>3
  <2>6. Cardinality(Finals(s) \cup {last}) = Cardinality(Finals(s)) + 1
    BY <1>2, <2>4, FS_AddElement
  <2>7. Cardinality(Finals(s) \cup {last}) <= Cardinality(Finals(s \o r))
    BY <1>2, <2>5, FS_Subset
  <2>8. QED
    BY <2>6, <2>7
<1>5. Cardinality(Finals(s)) <= Cardinality(Finals(s \o r))
  BY <1>2, <1>3, FS_Subset
<1> QED
  BY <1>4, <1>5

(* A step that writes and reads nothing, and after which no more calls     *)
(* wait than before.                                                       *)
LEMMA WaitKept ==
    ASSUME TypeOK, TasksFinite, WaitInv, Waiting' \subseteq Waiting,
           UNCHANGED <<toTor, fromTor>>, closed => closed',
           \A t \in Tasks : loop[t] # "none" => loop'[t] # "none",
           \A t \in Tasks : ~inData'[t]
    PROVE  WaitInv'
<1>1. Waiting \in SUBSET Tasks
  BY DEF Waiting
<1>2. IsFiniteSet(Waiting)
  BY <1>1, FS_Subset DEF TasksFinite
<1>3. /\ Cardinality(Waiting') <= Cardinality(Waiting)
      /\ Cardinality(Waiting') \in Nat /\ Cardinality(Waiting) \in Nat
  BY <1>2, FS_Subset, FS_CardinalityType
<1>4. Cardinality(ToCome') = Cardinality(ToCome) /\ Cardinality(ToCome) \in Nat
  <2>1. Finals(fromTor) = ToCome
    BY DEF Finals, ToCome
  <2>2. ToCome' = ToCome
    BY DEF ToCome
  <2>3. QED
    BY <2>1, <2>2, FinalsFinite DEF TypeOK
<1>5. Len(toTor) \in Nat /\ toTor' = toTor
  BY DEF TypeOK
<1>6. NoneWaitsInVain'
  BY <1>3, <1>4, <1>5 DEF WaitInv, NoneWaitsInVain
<1> QED
  BY <1>6 DEF WaitInv, NoBlock

(* A call that has written its command waits for one more reply.           *)
LEMMA WaitWrites ==
    ASSUME TypeOK, TasksFinite, WaitInv, NEW t \in Tasks, WriteLine(t),
           UNCHANGED clientVars
    PROVE  WaitInv'
<1>1. /\ toTor' = Append(toTor, [cmd |-> <<t, own[t]>>, op |-> op[t]])
      /\ UNCHANGED <<fromTor, inData, closed, loop>>
      /\ pc' = [pc EXCEPT ![t] = "reading"]
  BY DEF WriteLine, Reads, clientVars
<1>2. Len(toTor') = Len(toTor) + 1 /\ Len(toTor) \in Nat
  BY <1>1 DEF TypeOK
<1>3. Waiting' = Waiting \cup {t}
  BY <1>1 DEF Waiting, TypeOK
<1>4. Waiting \in SUBSET Tasks
  BY DEF Waiting
<1>5. IsFiniteSet(Waiting) /\ Cardinality(Waiting) \in Nat
  BY <1>4, FS_Subset, FS_CardinalityType DEF TasksFinite
<1>6. Cardinality(Waiting') <= Cardinality(Waiting) + 1
  <2>1. Cardinality(Waiting \cup {t}) = IF t \in Waiting
                                        THEN Cardinality(Waiting)
                                        ELSE Cardinality(Waiting) + 1
    BY <1>5, FS_AddElement
  <2>2. QED
    BY <1>3, <1>5, <2>1
<1>7. IsFiniteSet(Waiting') /\ Cardinality(Waiting') \in Nat
  BY <1>3, <1>5, FS_AddElement
<1>8. Cardinality(ToCome') = Cardinality(ToCome) /\ Cardinality(ToCome) \in Nat
  <2>1. Finals(fromTor) = ToCome
    BY DEF Finals, ToCome
  <2>2. ToCome' = ToCome
    BY <1>1 DEF ToCome
  <2>3. QED
    BY <2>1, <2>2, FinalsFinite DEF TypeOK
<1>9. NoneWaitsInVain'
  BY <1>1, <1>2, <1>5, <1>6, <1>7, <1>8 DEF WaitInv, NoneWaitsInVain
<1> QED
  BY <1>1, <1>9 DEF WaitInv, NoBlock

(* The line a reader takes leaves a connection without data blocks.        *)
LEMMA BlockFreeTail ==
    ASSUME NEW s \in Seq(Lines), s # << >>, NoBlock(s)
    PROVE  Head(s).kind # "open" /\ NoBlock(Tail(s))
<1>1. Head(s) = s[1] /\ 1 \in DOMAIN s
  OBVIOUS
<1>2. \A i \in DOMAIN Tail(s) : i + 1 \in DOMAIN s /\ Tail(s)[i] = s[i + 1]
  OBVIOUS
<1> QED
  BY <1>1, <1>2 DEF NoBlock

(* A call that takes a final line waits no more.                           *)
LEMMA WaitReads ==
    ASSUME TypeOK, TasksFinite, WaitInv, NEW t \in Tasks, ReadLine(t),
           UNCHANGED clientVars
    PROVE  WaitInv'
<1> DEFINE line == Head(fromTor)
           reply == Append(lines[t], line)
<1>1. /\ lock = Call(t) /\ fromTor # << >> /\ fromTor' = Tail(fromTor)
      /\ UNCHANGED <<toTor, closed, loop>>
      /\ fromTor \in Seq(Lines) /\ pc[t] = "reading" /\ ~inData[t]
  BY DEF ReadLine, TakesLine, clientVars, TypeOK, WaitInv
<1>2. line.kind # "open" /\ NoBlock(fromTor')
  BY <1>1, BlockFreeTail DEF WaitInv
<1>3. \A u \in Tasks : ~inData'[u]
  BY <1>1, <1>2 DEF ReadLine, WaitInv, TypeOK
<1>4. Waiting \in SUBSET Tasks /\ t \in Waiting
  BY <1>1 DEF Waiting
<1>5. IsFiniteSet(Waiting) /\ Cardinality(Waiting) \in Nat
  BY <1>4, FS_Subset, FS_CardinalityType DEF TasksFinite
<1>6. /\ Cardinality(ToCome) \in Nat /\ Cardinality(ToCome') \in Nat
      /\ Cardinality(ToCome) <= Cardinality(ToCome') + 1
      /\ line.kind \notin Final => Cardinality(ToCome) <= Cardinality(ToCome')
  <2>1. ToCome = Finals(fromTor) /\ ToCome' = Finals(Tail(fromTor))
    BY <1>1 DEF Finals, ToCome
  <2>2. Tail(fromTor) \in Seq(Lines)
    BY <1>1, HeadTailProperties
  <2> HIDE DEF line
  <2>3. QED
    BY <1>1, <2>1, <2>2, FinalsFinite, FinalsTail DEF line
<1>7. \/ GoesOn(t, line.kind) /\ pc' = pc
      \/ pc' = [pc EXCEPT ![t] = "resumed"]
  BY DEF ReadLine, Resume
<1>8. CASE GoesOn(t, line.kind) /\ pc' = pc
  <2>1. line.kind \notin Final
    BY <1>1, <1>8 DEF GoesOn, Final
  <2>2. Waiting' = Waiting
    BY <1>8 DEF Waiting
  <2> HIDE DEF line
  <2>3. Len(toTor) \in Nat
    BY DEF TypeOK
  <2>4. NoneWaitsInVain'
    BY <1>1, <1>5, <1>6, <2>1, <2>2, <2>3 DEF WaitInv, NoneWaitsInVain
  <2>5. QED
    BY <1>2, <1>3, <2>4 DEF WaitInv
<1>9. CASE pc' = [pc EXCEPT ![t] = "resumed"]
  <2>1. Waiting' = Waiting \ {t}
    BY <1>9 DEF Waiting, TypeOK
  <2>2. Cardinality(Waiting') = Cardinality(Waiting) - 1
    BY <1>4, <1>5, <2>1, FS_RemoveElement
  <2> HIDE DEF line
  <2>3. Len(toTor) \in Nat
    BY DEF TypeOK
  <2>4. NoneWaitsInVain'
    BY <1>1, <1>5, <1>6, <2>2, <2>3 DEF WaitInv, NoneWaitsInVain
  <2>5. QED
    BY <1>2, <1>3, <2>4 DEF WaitInv
<1> QED
  BY <1>7, <1>8, <1>9

(* Lines behind lines without a data block.                                *)
LEMMA BlockFreeConcat ==
    ASSUME NEW s \in Seq(Lines), NEW r \in Seq(Lines), NoBlock(s), NoBlock(r)
    PROVE  NoBlock(s \o r)
<1>1. ASSUME NEW i \in DOMAIN (s \o r)
      PROVE  (s \o r)[i].kind # "open"
  <2>1. i \in 1 .. Len(s) + Len(r)
    BY <1>1, ConcatProperties
  <2>2. CASE i <= Len(s)
    <3>1. i \in DOMAIN s /\ (s \o r)[i] = s[i]
      BY <2>1, <2>2, ConcatProperties
    <3>2. QED
      BY <3>1 DEF NoBlock
  <2>3. CASE i > Len(s)
    <3>1. i - Len(s) \in DOMAIN r /\ (s \o r)[i] = r[i - Len(s)]
      BY <2>1, <2>3, ConcatProperties
    <3>2. QED
      BY <3>1 DEF NoBlock
  <2>4. QED
    BY <2>1, <2>2, <2>3
<1> QED
  BY <1>1 DEF NoBlock

(* Tor takes a command and puts one final line, at least, on its way.      *)
LEMMA WaitAnswered ==
    ASSUME TypeOK, TasksFinite, WaitInv, NEW ops,
           NEW shape \in Seq(Kinds), shape # << >>,
           shape[Len(shape)] \in Final, \A i \in DOMAIN shape : shape[i] # "open",
           TorAnswers(ops, shape), UNCHANGED <<socketVars, clientVars>>
    PROVE  WaitInv'
<1> DEFINE reply == Reply(Head(toTor).cmd, shape)
<1>1. toTor \in Seq(Commands) /\ toTor # << >> /\ fromTor \in Seq(Lines)
  BY DEF TypeOK, TorAnswers
<1>2. Head(toTor) \in Commands /\ Len(Tail(toTor)) = Len(toTor) - 1
  BY <1>1, HeadTailProperties
<1>3. Head(toTor).cmd \in Tasks \X Nat
  BY <1>2 DEF Commands
<1>4. reply \in Seq(Lines)
  BY <1>3, ReplyType
<1>5. /\ toTor' = Tail(toTor) /\ fromTor' = fromTor \o reply /\ ~closed
      /\ UNCHANGED <<pc, inData, loop>>
  BY DEF TorAnswers, socketVars, clientVars
<1>6. reply # << >> /\ reply[Len(reply)].kind \in Final /\ NoBlock(reply)
  <2>1. Len(shape) \in Nat /\ DOMAIN shape = 1 .. Len(shape)
    OBVIOUS
  <2>2. /\ DOMAIN reply = 1 .. Len(shape)
        /\ \A i \in 1 .. Len(shape) : reply[i].kind = shape[i]
    BY <2>1 DEF Reply
  <2>3. Len(reply) = Len(shape) /\ Len(shape) > 0
    BY <1>4, <2>1, <2>2
  <2> HIDE DEF reply
  <2>4. QED
    BY <2>1, <2>2, <2>3 DEF NoBlock
<1> HIDE DEF reply
<1>7. NoBlock(fromTor')
  BY <1>1, <1>4, <1>5, <1>6, BlockFreeConcat DEF WaitInv
<1>8. /\ Cardinality(ToCome) \in Nat /\ Cardinality(ToCome') \in Nat
      /\ Cardinality(ToCome) + 1 <= Cardinality(ToCome')
  <2>1. ToCome = Finals(fromTor) /\ ToCome' = Finals(fromTor \o reply)
    BY <1>5 DEF Finals, ToCome
  <2>2. fromTor \o reply \in Seq(Lines)
    BY <1>1, <1>4
  <2>3. QED
    BY <1>1, <1>4, <1>6, <2>1, <2>2, FinalsFinite, FinalsConcat
<1>9. Waiting' = Waiting /\ Waiting \in SUBSET Tasks
  BY <1>5 DEF Waiting
<1>10. Cardinality(Waiting) \in Nat
  BY <1>9, FS_Subset, FS_CardinalityType DEF TasksFinite
<1>11. Len(toTor) \in Nat /\ Len(toTor') = Len(toTor) - 1
  BY <1>1, <1>2, <1>5
<1>12. NoneWaitsInVain'
  BY <1>5, <1>8, <1>9, <1>10, <1>11 DEF WaitInv, NoneWaitsInVain
<1> QED
  BY <1>5, <1>7, <1>12 DEF WaitInv

(* A call of its task ends, or begins with nothing written yet: it does    *)
(* not wait.                                                               *)
LEMMA WaitOver ==
    ASSUME TypeOK, TasksFinite, WaitInv, NEW t \in Tasks, NEW label,
           label # "reading", pc' = [pc EXCEPT ![t] = label],
           UNCHANGED <<toTor, fromTor, closed>>,
           \A u \in Tasks : loop[u] # "none" => loop'[u] # "none",
           \A u \in Tasks : ~inData'[u]
    PROVE  WaitInv'
<1>1. Waiting' \subseteq Waiting
  BY DEF Waiting, TypeOK
<1> QED
  BY <1>1, WaitKept

LEMMA WaitInvariant ==
    ASSUME TasksFinite, PlainReplies
    PROVE  Spec => []WaitInv
<1>1. ASSUME Init
      PROVE  WaitInv
  <2>1. Waiting = {} /\ ToCome = {} /\ Len(toTor) = 0
    BY <1>1 DEF Init, PeerInit, SocketInit, Waiting, ToCome
  <2>2. Cardinality({}) = 0
    BY FS_EmptySet
  <2>3. Cardinality(Waiting) <= Len(toTor) + Cardinality(ToCome)
    BY <2>1, <2>2
  <2>4. QED
    BY <1>1, <2>3 DEF Init, PeerInit, SocketInit, WaitInv, NoneWaitsInVain,
       NoBlock
<1>2. ASSUME TypeOK, WaitInv, [Next]_vars
      PROVE  WaitInv'
  <2>1. \A t \in Tasks : ~inData[t]
    BY <1>2 DEF WaitInv
  <2>2. ASSUME closed', NoBlock(fromTor'), UNCHANGED inData
        PROVE  WaitInv'
    BY <2>1, <2>2 DEF WaitInv, NoneWaitsInVain
  <2>3. ASSUME NEW t \in Tasks, NEW o, SendCommand(t, o), UNCHANGED clientVars
        PROVE  WaitInv'
    <3>1. /\ pc' = [pc EXCEPT ![t] = "queued"]
          /\ UNCHANGED <<toTor, fromTor, closed, loop>>
          /\ \A u \in Tasks : ~inData'[u]
      BY <1>2, <2>1, <2>3 DEF SendCommand, peerVars, clientVars, TypeOK
    <3>2. QED
      BY <1>2, <3>1, WaitOver
  <2>4. ASSUME NEW t \in Tasks, Returns(t),
               \A u \in Tasks : loop[u] # "none" => loop'[u] # "none"
        PROVE  WaitInv'
    <3>1. /\ pc' = [pc EXCEPT ![t] = "idle"]
          /\ UNCHANGED <<toTor, fromTor, closed>>
          /\ \A u \in Tasks : ~inData'[u]
      BY <1>2, <2>1, <2>4 DEF Returns, peerVars, TypeOK
    <3>2. QED
      BY <1>2, <2>4, <3>1, WaitOver
  <2>5. ASSUME NEW t \in Tasks, CallStep(t)
        PROVE  WaitInv'
    BY <2>3, <2>5 DEF CallStep, Command, Authenticate, Subscribe
  <2>6. ASSUME NEW t \in Tasks, SocketStep(t), UNCHANGED clientVars
        PROVE  WaitInv'
    <3>1. CASE WriteLine(t)
      BY <1>2, <2>6, <3>1, WaitWrites
    <3>2. CASE WriteLost(t)
      BY <1>2, <2>2, <3>2 DEF WriteLost, peerVars, WaitInv
    <3>3. CASE AcquireLock(t)
      <4>1. UNCHANGED <<pc, inData, toTor, fromTor, closed, loop>>
        BY <2>6, <3>3 DEF AcquireLock, peerVars, clientVars
      <4>2. Waiting' = Waiting
        BY <4>1 DEF Waiting
      <4>3. QED
        BY <1>2, <2>1, <4>1, <4>2, WaitKept
    <3>4. CASE ReadLine(t)
      BY <1>2, <2>6, <3>4, WaitReads
    <3>5. CASE ReadFails(t) \/ ReadTimesOut(t)
      <4>1. /\ pc' = [pc EXCEPT ![t] = "resumed"]
            /\ UNCHANGED <<inData, toTor, fromTor, closed, loop>>
        BY <2>6, <3>5 DEF ReadFails, ReadTimesOut, Resume, peerVars, clientVars
      <4>2. QED
        BY <1>2, <2>1, <4>1, WaitOver
    <3>6. QED
      BY <2>6, <3>1, <3>2, <3>3, <3>4, <3>5 DEF SocketStep
  <2>7. ASSUME NEW t \in Tasks, ReturnStep(t)
        PROVE  WaitInv'
    <3>1. CASE AuthFallsBack(t)
      BY <2>3, <3>1 DEF AuthFallsBack
    <3>2. CASE CommandReturns(t) \/ AuthSucceeds(t) \/ AuthThrows(t)
      BY <2>4, <3>2 DEF CommandReturns, AuthSucceeds, AuthThrows, clientVars
    <3>3. CASE SubscribeReturns(t)
      <4>1. \A u \in Tasks : loop[u] # "none" => loop'[u] # "none"
        BY <1>2, <3>3 DEF SubscribeReturns, TypeOK
      <4>2. QED
        BY <2>4, <3>3, <4>1 DEF SubscribeReturns
    <3>4. QED
      BY <2>7, <3>1, <3>2, <3>3 DEF ReturnStep
  <2>8. ASSUME NEW t \in Tasks, LoopStep(t)
        PROVE  WaitInv'
    <3>1. CASE LoopReads(t)
      <4>1. /\ loop[t] = "reading" /\ fromTor \in Seq(Lines) /\ fromTor # << >>
            /\ fromTor' = Tail(fromTor) /\ UNCHANGED <<inData, loop>>
        BY <1>2, <3>1 DEF LoopReads, TakesLine, clientVars, TypeOK
      <4>2. NoBlock(fromTor')
        BY <1>2, <4>1, BlockFreeTail DEF WaitInv
      <4>3. QED
        BY <2>1, <4>1, <4>2 DEF WaitInv, NoneWaitsInVain
    <3>2. CASE LoopAcquires(t) \/ LoopEnds(t)
      <4>1. /\ UNCHANGED <<pc, inData, toTor, fromTor, closed>>
            /\ \A u \in Tasks : loop[u] # "none" => loop'[u] # "none"
        BY <1>2, <3>2 DEF LoopAcquires, LoopEnds, peerVars, clientVars, TypeOK
      <4>2. Waiting' = Waiting
        BY <4>1 DEF Waiting
      <4>3. QED
        BY <1>2, <2>1, <4>1, <4>2, WaitKept
    <3>3. QED
      BY <2>8, <3>1, <3>2 DEF LoopStep
  <2>9. ASSUME TorStep
        PROVE  WaitInv'
    <3>1. UNCHANGED <<socketVars, clientVars>>
      BY <2>9 DEF TorStep
    <3>2. /\ <<"ok">> \in Seq(Kinds) /\ <<"err">> \in Seq(Kinds)
          /\ <<"ok">> # << >> /\ <<"err">> # << >>
          /\ Len(<<"ok">>) = 1 /\ Len(<<"err">>) = 1
          /\ DOMAIN <<"ok">> = {1} /\ DOMAIN <<"err">> = {1}
      BY DEF Kinds
    <3>3. CASE TorServes
      <4>1. PICK shape \in Shapes : TorAnswers({"getinfo"}, shape)
        BY <3>3 DEF TorServes
      <4>2. /\ shape \in Seq(Kinds) /\ shape # << >>
            /\ shape[Len(shape)] \in Final
            /\ \A i \in DOMAIN shape : shape[i] # "open"
        <5>1. shape \in Seq(Kinds) /\ shape # << >> /\ Plain(shape)
          BY ShapesKnown DEF PlainReplies
        <5>2. /\ Len(shape) \in Nat /\ DOMAIN shape = 1 .. Len(shape)
              /\ \A i \in 1 .. Len(shape) :
                    i = Len(shape) \/ i \in 1 .. Len(shape) - 1
          BY <5>1
        <5>3. QED
          BY <5>1, <5>2 DEF Plain, Final
      <4>3. QED
        BY <1>2, <3>1, <4>1, <4>2, WaitAnswered
    <3>4. CASE TorSetsEvents \/ TorAuthenticates
      <4>1. PICK ops : TorAnswers(ops, <<"ok">>)
        BY <3>4 DEF TorSetsEvents, TorAuthenticates
      <4>2. /\ <<"ok">>[Len(<<"ok">>)] \in Final
            /\ \A i \in DOMAIN <<"ok">> : <<"ok">>[i] # "open"
        BY <3>2 DEF Final
      <4>3. QED
        BY <1>2, <3>1, <3>2, <4>1, <4>2, WaitAnswered
    <3>5. CASE TorRefuses
      <4>1. PICK ops : TorAnswers(ops, <<"err">>)
        BY <3>5 DEF TorRefuses
      <4>2. /\ <<"err">>[Len(<<"err">>)] \in Final
            /\ \A i \in DOMAIN <<"err">> : <<"err">>[i] # "open"
        BY <3>2 DEF Final
      <4>3. QED
        BY <1>2, <3>1, <3>2, <4>1, <4>2, WaitAnswered
    <3>6. CASE TorEmits
      <4> DEFINE event == [cmd |-> NoCommand, kind |-> "event"]
      <4>1. event \in Lines
        BY DEF Lines, Kinds
      <4>2. <<event>> \in Seq(Lines) /\ fromTor \in Seq(Lines)
        BY <1>2, <4>1 DEF TypeOK
      <4>3. fromTor' = fromTor \o <<event>>
        BY <3>6, <4>1, <4>2 DEF TorEmits
      <4>4. NoBlock(<<event>>)
        BY DEF NoBlock
      <4>5. UNCHANGED <<toTor, closed, pc, inData, loop>>
        BY <3>1, <3>6 DEF TorEmits, socketVars, clientVars
      <4> HIDE DEF event
      <4>6. NoBlock(fromTor')
        BY <1>2, <4>2, <4>3, <4>4, BlockFreeConcat DEF WaitInv
      <4>7. /\ Cardinality(ToCome) \in Nat /\ Cardinality(ToCome') \in Nat
            /\ Cardinality(ToCome) <= Cardinality(ToCome')
        <5>1. ToCome = Finals(fromTor) /\ ToCome' = Finals(fromTor \o <<event>>)
          BY <4>3 DEF Finals, ToCome
        <5>2. fromTor \o <<event>> \in Seq(Lines)
          BY <4>2
        <5>3. QED
          BY <4>2, <5>1, <5>2, FinalsFinite, FinalsConcat
      <4>8. Waiting' = Waiting /\ Waiting \in SUBSET Tasks
        BY <4>5 DEF Waiting
      <4>9. Cardinality(Waiting) \in Nat
        BY <4>8, FS_Subset, FS_CardinalityType DEF TasksFinite
      <4>10. Len(toTor) \in Nat
        BY <1>2 DEF TypeOK
      <4>11. NoneWaitsInVain'
        BY <1>2, <4>5, <4>7, <4>8, <4>9, <4>10 DEF WaitInv, NoneWaitsInVain
      <4>12. QED
        BY <2>1, <4>5, <4>6, <4>11 DEF WaitInv
    <3>7. CASE TorCloses
      BY <1>2, <2>2, <3>1, <3>7 DEF TorCloses, socketVars, WaitInv
    <3>8. QED
      BY <2>9, <3>3, <3>4, <3>5, <3>6, <3>7 DEF TorStep, TorTakes
  <2>10. CASE UNCHANGED vars
    <3>1. UNCHANGED <<pc, inData, toTor, fromTor, closed, loop>>
      BY <2>10 DEF vars, peerVars, socketVars, clientVars
    <3>2. Waiting' = Waiting
      BY <3>1 DEF Waiting
    <3>3. QED
      BY <1>2, <2>1, <3>1, <3>2, WaitKept
  <2>11. QED
    BY <1>2, <2>5, <2>6, <2>7, <2>8, <2>9, <2>10 DEF Next, TaskStep
<1>3. QED
  BY <1>1, <1>2, TypeCorrect, PTL DEF Spec

(* No call waits for a reply that another call has taken.                  *)
THEOREM NoCallForgotten ==
    ASSUME TasksFinite, PlainReplies
    PROVE  Spec => []NoneWaitsInVain
<1>1. WaitInv => NoneWaitsInVain
  BY DEF WaitInv
<1> QED
  BY <1>1, WaitInvariant, PTL

-----------------------------------------------------------------------------
(* Every call its own reply: what is on the way.                           *)

(* Only whole ends of replies.                                             *)
EndsFinal(s) ==
    /\ \A i \in DOMAIN s : s[i].kind \in {"mid"} \cup Final
    /\ s # << >> => s[Len(s)].kind \in Final

LEMMA EndsFinalTail ==
    ASSUME NEW s \in Seq(Lines), s # << >>, EndsFinal(s)
    PROVE  Head(s).kind \in {"mid"} \cup Final /\ EndsFinal(Tail(s))
<1>1. /\ Len(s) \in Nat /\ Len(s) > 0 /\ DOMAIN s = 1 .. Len(s)
      /\ Tail(s) \in Seq(Lines) /\ Len(Tail(s)) = Len(s) - 1
      /\ \A i \in 1 .. Len(Tail(s)) : Tail(s)[i] = s[i + 1]
      /\ Head(s) = s[1]
  BY HeadTailProperties, LenProperties, EmptySeq
<1>2. DOMAIN Tail(s) = 1 .. Len(s) - 1
  BY <1>1, LenProperties
<1>3. Tail(s) # << >> => Len(s) - 1 \in 1 .. Len(Tail(s))
  BY <1>1, EmptySeq
<1> QED
  BY <1>1, <1>2, <1>3 DEF EndsFinal

LEMMA EndsFinalConcat ==
    ASSUME NEW s \in Seq(Lines), NEW r \in Seq(Lines), r # << >>,
           EndsFinal(s), EndsFinal(r)
    PROVE  EndsFinal(s \o r)
<1>1. /\ Len(s) \in Nat /\ Len(r) \in Nat /\ Len(r) > 0
      /\ DOMAIN s = 1 .. Len(s) /\ DOMAIN r = 1 .. Len(r)
  BY LenProperties, EmptySeq
<1>2. /\ s \o r \in Seq(Lines) /\ Len(s \o r) = Len(s) + Len(r)
      /\ \A i \in 1 .. Len(s) + Len(r) :
            (s \o r)[i] = IF i <= Len(s) THEN s[i] ELSE r[i - Len(s)]
  BY ConcatProperties
<1>3. DOMAIN (s \o r) = 1 .. Len(s) + Len(r)
  BY <1>2, LenProperties
<1>4. ASSUME NEW i \in 1 .. Len(s) + Len(r)
      PROVE  (s \o r)[i].kind \in {"mid"} \cup Final
  <2>1. CASE i <= Len(s)
    BY <1>1, <1>2, <2>1 DEF EndsFinal
  <2>2. CASE i > Len(s)
    <3>1. i - Len(s) \in 1 .. Len(r)
      BY <1>1, <2>2
    <3>2. QED
      BY <1>1, <1>2, <2>2, <3>1 DEF EndsFinal
  <2>3. QED
    BY <1>1, <2>1, <2>2
<1>5. (s \o r)[Len(s \o r)] = r[Len(r)]
  BY <1>1, <1>2
<1> QED
  BY <1>3, <1>4, <1>5 DEF EndsFinal

(* Ends of replies without a final line are nothing at all.                *)
LEMMA NothingToCome ==
    ASSUME NEW s \in Seq(Lines), EndsFinal(s), Cardinality(Finals(s)) <= 0
    PROVE  s = << >>
<1>1. SUFFICES ASSUME s # << >>
               PROVE  FALSE
  OBVIOUS
<1>2. Len(s) \in Finals(s)
  BY <1>1 DEF EndsFinal, Finals
<1>3. IsFiniteSet(Finals(s)) /\ Cardinality(Finals(s)) \in Nat
  BY FinalsFinite
<1>4. Cardinality(Finals(s)) # 0
  BY <1>2, <1>3, FS_EmptySet
<1> QED
  BY <1>3, <1>4

(* Whoever takes a final line leaves one less.                             *)
LEMMA FinalTaken ==
    ASSUME NEW s \in Seq(Lines), s # << >>
    PROVE  /\ Cardinality(Finals(Tail(s))) <= Cardinality(Finals(s))
           /\ Head(s).kind \in Final =>
                Cardinality(Finals(Tail(s))) + 1 <= Cardinality(Finals(s))
<1> DEFINE rest == Finals(s) \ {1}
           back == [i \in Finals(Tail(s)) |-> i + 1]
<1>1. /\ Tail(s) \in Seq(Lines) /\ Len(Tail(s)) = Len(s) - 1
      /\ \A i \in 1 .. Len(Tail(s)) : Tail(s)[i] = s[i + 1]
  BY HeadTailProperties
<1>2. ASSUME NEW i \in Finals(Tail(s))
      PROVE  i + 1 \in rest
  <2>1. i \in 1 .. Len(Tail(s)) /\ Tail(s)[i].kind \in Final
    BY <1>1 DEF Finals
  <2>2. i + 1 \in 2 .. Len(s) /\ s[i + 1].kind \in Final
    BY <1>1, <2>1
  <2>3. QED
    BY <2>2 DEF Finals
<1>3. back \in Injection(Finals(Tail(s)), rest)
  <2>1. back \in [Finals(Tail(s)) -> rest]
    BY <1>2
  <2>2. Finals(Tail(s)) \subseteq Int
    BY <1>1 DEF Finals
  <2>3. ASSUME NEW i \in Finals(Tail(s)), NEW j \in Finals(Tail(s)),
               back[i] = back[j]
        PROVE  i = j
    BY <2>2, <2>3
  <2> HIDE DEF back, rest
  <2>4. QED
    BY <2>1, <2>3 DEF Injection, IsInjective
<1>4. /\ IsFiniteSet(Finals(s)) /\ Cardinality(Finals(s)) \in Nat
      /\ IsFiniteSet(Finals(Tail(s))) /\ Cardinality(Finals(Tail(s))) \in Nat
  BY <1>1, FinalsFinite
<1>5. /\ IsFiniteSet(rest)
      /\ Cardinality(rest) = IF 1 \in Finals(s) THEN Cardinality(Finals(s)) - 1
                             ELSE Cardinality(Finals(s))
  BY <1>4, FS_RemoveElement
<1>6. Cardinality(Finals(Tail(s))) <= Cardinality(rest)
  <2> HIDE DEF back, rest
  <2> QED
    BY <1>3, <1>5, FS_Injection
<1>7. Head(s).kind \in Final => 1 \in Finals(s)
  BY DEF Finals
<1> HIDE DEF rest
<1> QED
  BY <1>4, <1>5, <1>6, <1>7

(* What a plain reply looks like on its way: its last line is its only     *)
(* final one.                                                              *)
LEMMA PlainOnItsWay ==
    ASSUME NEW cmd \in Tasks \X Nat, NEW shape \in Seq(Kinds), shape # << >>,
           Plain(shape)
    PROVE  /\ Reply(cmd, shape) \in Seq(Lines)
           /\ Reply(cmd, shape) # << >>
           /\ Len(Reply(cmd, shape)) = Len(shape)
           /\ EndsFinal(Reply(cmd, shape))
           /\ \A i \in 1 .. Len(shape) :
                 Reply(cmd, shape)[i].kind \in Final <=> i = Len(shape)
<1> DEFINE reply == Reply(cmd, shape)
<1>1. Len(shape) \in Nat /\ Len(shape) > 0 /\ DOMAIN shape = 1 .. Len(shape)
  BY EmptySeq, LenProperties
<1>2. /\ DOMAIN reply = 1 .. Len(shape)
      /\ \A i \in 1 .. Len(shape) : reply[i].kind = shape[i]
  BY <1>1 DEF Reply
<1>3. reply \in Seq(Lines)
  BY ReplyType
<1> HIDE DEF reply
<1>4. Len(reply) = Len(shape)
  BY <1>1, <1>2, <1>3, LenProperties
<1>5. \A i \in 1 .. Len(shape) :
          \/ i = Len(shape) /\ shape[i] \in Final
          \/ i # Len(shape) /\ shape[i] = "mid"
  <2>1. \A n \in Nat : \A i \in 1 .. n : i = n \/ (i # n /\ i \in 1 .. n - 1)
    OBVIOUS
  <2>2. \A i \in 1 .. Len(shape) :
            \/ i = Len(shape)
            \/ i # Len(shape) /\ i \in 1 .. Len(shape) - 1
    BY <1>1, <2>1
  <2>3. QED
    BY <2>2 DEF Plain
<1>6. reply # << >>
  BY <1>1, <1>4
<1>7. "mid" \notin Final
  BY DEF Final
<1>8. EndsFinal(reply)
  <2>1. Len(shape) \in 1 .. Len(shape)
    BY <1>1
  <2>2. reply[Len(reply)].kind \in Final
    BY <1>2, <1>4, <1>5, <2>1
  <2>3. \A i \in DOMAIN reply : reply[i].kind \in {"mid"} \cup Final
    BY <1>2, <1>5
  <2>4. QED
    BY <2>2, <2>3 DEF EndsFinal
<1>9. \A i \in 1 .. Len(shape) : reply[i].kind \in Final <=> i = Len(shape)
  BY <1>2, <1>5, <1>7
<1> QED
  BY <1>3, <1>4, <1>6, <1>8, <1>9 DEF reply

(* A plain reply puts one final line on the way, no more.                  *)
LEMMA OneMoreToCome ==
    ASSUME NEW s \in Seq(Lines), NEW cmd \in Tasks \X Nat,
           NEW shape \in Seq(Kinds), shape # << >>, Plain(shape)
    PROVE  Cardinality(Finals(s \o Reply(cmd, shape))) <= Cardinality(Finals(s)) + 1
<1> DEFINE reply == Reply(cmd, shape)
           last == Len(s) + Len(shape)
<1>1. /\ reply \in Seq(Lines) /\ Len(reply) = Len(shape)
      /\ \A i \in 1 .. Len(shape) : reply[i].kind \in Final <=> i = Len(shape)
  BY PlainOnItsWay
<1>2. Len(s) \in Nat /\ Len(shape) \in Nat /\ DOMAIN s = 1 .. Len(s)
  BY LenProperties
<1> HIDE DEF reply
<1>3. /\ s \o reply \in Seq(Lines) /\ DOMAIN (s \o reply) = 1 .. last
      /\ \A i \in 1 .. last :
            (s \o reply)[i] = IF i <= Len(s) THEN s[i] ELSE reply[i - Len(s)]
  <2>1. /\ s \o reply \in Seq(Lines) /\ Len(s \o reply) = last
        /\ \A i \in 1 .. last :
              (s \o reply)[i] = IF i <= Len(s) THEN s[i] ELSE reply[i - Len(s)]
    <3> HIDE DEF last
    <3>1. /\ s \o reply \in Seq(Lines)
          /\ Len(s \o reply) = Len(s) + Len(reply)
          /\ \A i \in 1 .. Len(s) + Len(reply) : (s \o reply)[i] =
                IF i <= Len(s) THEN s[i] ELSE reply[i - Len(s)]
      BY <1>1, ConcatProperties
    <3>2. last = Len(s) + Len(reply)
      BY <1>1 DEF last
    <3>3. QED
      BY <3>1, <3>2
  <2>2. DOMAIN (s \o reply) = 1 .. Len(s \o reply)
    BY <2>1, LenProperties
  <2>3. QED
    BY <2>1, <2>2
<1>4. ASSUME NEW i \in Finals(s \o reply)
      PROVE  i \in Finals(s) \cup {last}
  <2>1. i \in 1 .. last /\ (s \o reply)[i].kind \in Final
    BY <1>3 DEF Finals
  <2>2. CASE i <= Len(s)
    BY <1>2, <1>3, <2>1, <2>2 DEF Finals
  <2>3. CASE i > Len(s)
    <3>1. i - Len(s) \in 1 .. Len(shape) /\ reply[i - Len(s)].kind \in Final
      BY <1>2, <1>3, <2>1, <2>3
    <3>2. i - Len(s) = Len(shape)
      BY <1>1, <3>1
    <3>3. i = last
      BY <1>2, <2>1, <3>2
    <3>4. QED
      BY <3>3
  <2>4. QED
    BY <1>2, <2>1, <2>2, <2>3
<1>5. IsFiniteSet(Finals(s)) /\ Cardinality(Finals(s)) \in Nat
  BY FinalsFinite
<1> HIDE DEF last
<1>6. /\ IsFiniteSet(Finals(s) \cup {last})
      /\ Cardinality(Finals(s) \cup {last}) <= Cardinality(Finals(s)) + 1
  <2>1. /\ IsFiniteSet(Finals(s) \cup {last})
        /\ Cardinality(Finals(s) \cup {last}) = IF last \in Finals(s)
                                                THEN Cardinality(Finals(s))
                                                ELSE Cardinality(Finals(s)) + 1
    BY <1>5, FS_AddElement
  <2>2. QED
    BY <1>5, <2>1
<1>7. Finals(s \o reply) \in SUBSET (Finals(s) \cup {last})
  BY <1>4
<1>8. Cardinality(Finals(s \o reply)) <= Cardinality(Finals(s) \cup {last})
  BY <1>6, <1>7, FS_Subset
<1>9. /\ Cardinality(Finals(s \o reply)) \in Nat
      /\ Cardinality(Finals(s) \cup {last}) \in Nat
  BY <1>3, <1>6, FinalsFinite, FS_CardinalityType
<1> QED
  BY <1>5, <1>6, <1>8, <1>9 DEF reply

(* A call that has read a part of a plain reply and takes the next line    *)
(* has all of it just when that line is final.                             *)
LEMMA ReadsOn ==
    ASSUME NEW part \in Seq(Lines), NEW s \in Seq(Lines), s # << >>,
           NEW cmd \in Tasks \X Nat, NEW shape \in Seq(Kinds), shape # << >>,
           Plain(shape), part \o s = Reply(cmd, shape)
    PROVE  /\ Head(s).kind \in Final => Append(part, Head(s)) = Reply(cmd, shape)
           /\ Head(s).kind \notin Final =>
                /\ Tail(s) # << >>
                /\ Append(part, Head(s)) \o Tail(s) = Reply(cmd, shape)
<1> DEFINE reply == Reply(cmd, shape)
           more == Append(part, Head(s))
           n == Len(part) + 1
<1>1. /\ reply \in Seq(Lines) /\ Len(reply) = Len(shape)
      /\ \A i \in 1 .. Len(shape) : reply[i].kind \in Final <=> i = Len(shape)
  BY PlainOnItsWay
<1>2. /\ Len(part) \in Nat /\ Len(s) \in Nat /\ Len(s) > 0
      /\ Head(s) = s[1] /\ Head(s) \in Lines
      /\ Tail(s) \in Seq(Lines) /\ Len(Tail(s)) = Len(s) - 1
  BY HeadTailProperties, LenProperties, EmptySeq
<1>3. /\ Len(part) + Len(s) = Len(shape)
      /\ \A i \in 1 .. Len(part) + Len(s) :
            reply[i] = IF i <= Len(part) THEN part[i] ELSE s[i - Len(part)]
  BY <1>1, ConcatProperties
<1>4. n \in 1 .. Len(shape) /\ reply[n] = Head(s)
  BY <1>2, <1>3
<1>5. /\ more \in Seq(Lines) /\ Len(more) = n
      /\ \A i \in 1 .. Len(part) : more[i] = part[i]
      /\ more[n] = Head(s)
  BY <1>2, AppendProperties
<1> HIDE DEF reply, more
<1>6. ASSUME Head(s).kind \in Final
      PROVE  more = reply
  <2>1. n = Len(shape)
    BY <1>1, <1>4, <1>6
  <2>2. ASSUME NEW i \in 1 .. Len(more)
        PROVE  more[i] = reply[i]
    <3>1. i = n \/ i \in 1 .. Len(part)
      BY <1>2, <1>5
    <3>2. QED
      BY <1>2, <1>3, <1>4, <1>5, <3>1
  <2>3. Len(more) = Len(reply)
    BY <1>1, <1>5, <2>1
  <2>4. QED
    BY <1>1, <1>5, <2>2, <2>3, SeqEqual
<1>7. ASSUME Head(s).kind \notin Final
      PROVE  Tail(s) # << >>
  <2> DEFINE rest == Tail(s)
  <2>1. n # Len(shape)
    BY <1>1, <1>4, <1>7
  <2>2. Len(s) # 1
    BY <1>2, <1>3, <2>1
  <2>3. rest \in Seq(Lines) /\ Len(rest) = Len(s) - 1
    BY <1>2
  <2> HIDE DEF rest
  <2>4. Len(rest) # 0
    BY <1>2, <2>2, <2>3
  <2>5. rest # << >>
    BY <2>4
  <2>6. QED
    BY <2>5 DEF rest
<1>8. more \o Tail(s) = reply
  <2>1. more = part \o <<Head(s)>>
    BY <1>2, AppendIsConcat DEF more
  <2>2. <<Head(s)>> \in Seq(Lines)
    BY <1>2
  <2>3. more \o Tail(s) = part \o (<<Head(s)>> \o Tail(s))
    BY <1>2, <2>1, <2>2, ConcatAssociative
  <2>4. <<Head(s)>> \o Tail(s) = s
    <3>1. /\ Len(<<Head(s)>>) = 1 /\ <<Head(s)>>[1] = s[1]
          /\ \A i \in 1 .. Len(Tail(s)) : Tail(s)[i] = s[i + 1]
      BY <1>2, HeadTailProperties
    <3>2. /\ <<Head(s)>> \o Tail(s) \in Seq(Lines)
          /\ Len(<<Head(s)>> \o Tail(s)) = Len(s)
          /\ \A i \in 1 .. Len(s) : (<<Head(s)>> \o Tail(s))[i] =
                IF i <= 1 THEN <<Head(s)>>[i] ELSE Tail(s)[i - 1]
      BY <1>2, <2>2, <3>1, ConcatProperties
    <3>3. ASSUME NEW i \in 1 .. Len(s)
          PROVE  (<<Head(s)>> \o Tail(s))[i] = s[i]
      <4>1. CASE i = 1
        BY <1>2, <3>1, <3>2, <4>1
      <4>2. CASE i > 1
        <5>1. i - 1 \in 1 .. Len(Tail(s)) /\ (i - 1) + 1 = i
          BY <1>2, <4>2
        <5>2. QED
          BY <1>2, <3>1, <3>2, <4>2, <5>1
      <4>3. QED
        BY <4>1, <4>2
    <3>4. QED
      BY <3>2, <3>3, SeqEqual
  <2>5. QED
    BY <2>3, <2>4 DEF reply
<1> QED
  BY <1>6, <1>7, <1>8 DEF reply, more

-----------------------------------------------------------------------------
(* Every call its own reply: the invariant.  Before a timeout and before   *)
(* events there are no more replies to come than calls that wait, so a     *)
(* call that begins alone begins on an empty connection.                   *)

Calm == ~late /\ ~events

Solo(t) == pc[t] = "reading" /\ t \notin overlapped
SoloAlone == \A t \in Tasks : Solo(t) => Waiting = {t}

FreshCalls == \A t \in Tasks : ~inData[t] /\ (pc[t] = "queued" => lines[t] = << >>)

(* Commands that Tor may still answer.                                     *)
Answerable == IF closed THEN 0 ELSE Len(toTor)
Counted == Answerable + Cardinality(ToCome) <= Cardinality(Waiting)

(* A subscription reads along, or is about to, or is being made.           *)
Subscribed(u) ==
    \/ loop[u] = "reading"
    \/ pc[u] = "resumed" /\ op[u] = "setevents" /\ outcome[u] = "success"
Subscribing(u) == pc[u] = "reading" /\ op[u] = "setevents"

(* Until Tor takes the SETEVENTS, which ends the calm.                     *)
Pending == \E i \in DOMAIN toTor : toTor[i].op = "setevents"
AskedFor ==
    ~closed => \A u \in Tasks : Subscribed(u) \/ Subscribing(u) => Pending

(* The one call that waits: its command is with Tor, or the rest of its    *)
(* reply is all that is on its way.                                        *)
NoSubscriber == \A u \in Tasks : ~Subscribed(u)
Mine(t) == [cmd |-> <<t, own[t]>>, op |-> op[t]]
Unserved(t) ==
    /\ lines[t] = << >> /\ fromTor = << >>
    /\ closed \/ (toTor = <<Mine(t)>> /\ NoSubscriber)
AllShapes == Shapes \cup {<<"ok">>, <<"err">>}
Served(t) ==
    /\ fromTor # << >>
    /\ closed \/ toTor = << >>
    /\ NoSubscriber
    /\ \E shape \in AllShapes : lines[t] \o fromTor = Reply(<<t, own[t]>>, shape)
SoloServed == \A t \in Tasks : Solo(t) => Unserved(t) \/ Served(t)

OnTheWay == EndsFinal(fromTor) /\ Counted /\ SoloServed /\ AskedFor

OwnInv == AnsweredOwn /\ SoloAlone /\ FreshCalls /\ (Calm => OnTheWay)

LEMMA CountType ==
    ASSUME TypeOK, TasksFinite
    PROVE  /\ Waiting \in SUBSET Tasks /\ IsFiniteSet(Waiting)
           /\ Cardinality(Waiting) \in Nat
           /\ ToCome = Finals(fromTor) /\ Cardinality(ToCome) \in Nat
           /\ Answerable \in Nat
<1>1. Waiting \in SUBSET Tasks
  BY DEF Waiting
<1>2. IsFiniteSet(Waiting) /\ Cardinality(Waiting) \in Nat
  BY <1>1, FS_Subset, FS_CardinalityType DEF TasksFinite
<1>3. ToCome = Finals(fromTor)
  BY DEF ToCome, Finals
<1>4. Cardinality(ToCome) \in Nat
  BY <1>3, FinalsFinite DEF TypeOK
<1>5. Answerable \in Nat
  BY DEF Answerable, TypeOK
<1> QED
  BY <1>1, <1>2, <1>3, <1>4, <1>5

(* A step of a task that neither begins nor ends a readReply.              *)
LEMMA OwnIdle ==
    ASSUME TypeOK, OwnInv, NEW t \in Tasks, NEW label,
           label \notin {"reading", "resumed"}, pc[t] # "reading",
           pc' = [pc EXCEPT ![t] = label],
           lines' = [lines EXCEPT ![t] = << >>],
           \A u \in Tasks : ~inData'[u],
           \A u \in Tasks \ {t} : /\ own'[u] = own[u] /\ op'[u] = op[u]
                                  /\ outcome'[u] = outcome[u],
           UNCHANGED <<late, overlapped, toTor, fromTor, events, closed>>,
           \A u \in Tasks : loop'[u] = "reading" => Subscribed(u)
    PROVE  OwnInv'
<1>1. /\ pc'[t] = label /\ lines'[t] = << >>
      /\ \A u \in Tasks \ {t} : pc'[u] = pc[u] /\ lines'[u] = lines[u]
  BY DEF TypeOK
<1>2. Waiting' = Waiting
  BY <1>1 DEF Waiting
<1>3. \A u \in Tasks : Solo(u)' => u # t /\ Solo(u)
  BY <1>1 DEF Solo
<1>4. \A u \in Tasks : Subscribed(u)' => Subscribed(u)
  BY <1>1 DEF Subscribed
<1>5. SoloAlone'
  BY <1>2, <1>3 DEF OwnInv, SoloAlone
<1>6. FreshCalls'
  BY <1>1 DEF OwnInv, FreshCalls
<1>7. AnsweredOwn'
  <2>1. ASSUME NEW u \in Tasks, u # t
        PROVE  (Own(u)' <=> Own(u)) /\ (Answer(u)' <=> Answer(u))
    BY <1>1, <2>1 DEF Own, Answer
  <2>2. QED
    BY <1>1, <2>1 DEF OwnInv, AnsweredOwn
<1>8. ASSUME Calm'
      PROVE  OnTheWay'
  <2>1. Calm /\ OnTheWay
    BY <1>8 DEF Calm, OwnInv
  <2>2. EndsFinal(fromTor)' /\ Counted'
    BY <1>2, <2>1 DEF OnTheWay, EndsFinal, Counted, Answerable, ToCome
  <2>3. SoloServed'
    <3>1. NoSubscriber => NoSubscriber'
      BY <1>4 DEF NoSubscriber
    <3>2. ASSUME NEW u \in Tasks, u # t
          PROVE  /\ Unserved(u) => Unserved(u)'
                 /\ Served(u) => Served(u)'
      BY <1>1, <3>1, <3>2 DEF Unserved, Served, Mine
    <3>3. QED
      BY <1>3, <2>1, <3>2 DEF OnTheWay, SoloServed
  <2>4. AskedFor'
    <3>1. \A u \in Tasks : Subscribing(u)' => Subscribing(u)
      BY <1>1 DEF Subscribing
    <3>2. Pending => Pending'
      BY DEF Pending
    <3>3. QED
      BY <1>4, <2>1, <3>1, <3>2 DEF OnTheWay, AskedFor
  <2>5. QED
    BY <2>2, <2>3, <2>4 DEF OnTheWay
<1> QED
  BY <1>5, <1>6, <1>7, <1>8 DEF OwnInv

(* A step that leaves the calls and the connection as they are.            *)
LEMMA OwnSame ==
    ASSUME TypeOK, TasksFinite, OwnInv,
           UNCHANGED <<pc, op, own, lines, inData, outcome, late, overlapped,
                       toTor, fromTor, events>>,
           closed' = closed \/ closed' = TRUE,
           \A u \in Tasks : loop'[u] = "reading" => loop[u] = "reading"
    PROVE  OwnInv'
<1>1. \A u \in Tasks : Subscribed(u)' => Subscribed(u)
  BY DEF Subscribed
<1>2. Waiting' = Waiting /\ ToCome' = ToCome
  BY DEF Waiting, ToCome
<1>3. SoloAlone' /\ FreshCalls'
  BY <1>2 DEF OwnInv, SoloAlone, FreshCalls, Solo
<1>4. AnsweredOwn'
  BY DEF OwnInv, AnsweredOwn, Answer, Own
<1>5. ASSUME Calm'
      PROVE  EndsFinal(fromTor)' /\ SoloServed' /\ AskedFor'
  <2>1. OnTheWay
    BY <1>5 DEF Calm, OwnInv
  <2>2. EndsFinal(fromTor)'
    BY <2>1 DEF OnTheWay, EndsFinal
  <2>3. NoSubscriber => NoSubscriber'
    BY <1>1 DEF NoSubscriber
  <2>4. \A u \in Tasks : /\ Unserved(u) => Unserved(u)'
                         /\ Served(u) => Served(u)'
    BY <2>3 DEF Unserved, Served, Mine
  <2>5. SoloServed'
    BY <2>1, <2>4 DEF OnTheWay, SoloServed, Solo
  <2>6. AskedFor'
    BY <1>1, <2>1 DEF OnTheWay, AskedFor, Subscribing, Pending
  <2>7. QED
    BY <2>2, <2>5, <2>6
<1>6. ASSUME Calm'
      PROVE  Counted'
  <2>1. Counted
    BY <1>5, <1>6 DEF Calm, OwnInv, OnTheWay
  <2>2. Answerable' <= Answerable /\ Answerable' \in Nat
    BY DEF Answerable, TypeOK
  <2>3. QED
    BY <1>2, <2>1, <2>2, CountType DEF Counted
<1> QED
  BY <1>3, <1>4, <1>5, <1>6 DEF OwnInv, OnTheWay

(* A call that begins to read while none waits begins alone.               *)
LEMMA BeginsAlone ==
    ASSUME TypeOK, SoloAlone, NEW t \in Tasks, pc[t] = "queued", Reads(t)
    PROVE  /\ Waiting' = Waiting \cup {t} /\ t \notin Waiting
           /\ \A u \in Tasks : Solo(u)' => u = t /\ Waiting = {}
           /\ SoloAlone'
           /\ \A u \in Tasks \ {t} :
                 /\ pc'[u] = pc[u]
                 /\ u \notin overlapped' => u \notin overlapped
           /\ pc'[t] = "reading"
<1> DEFINE others == {u \in Tasks \ {t} : pc[u] = "reading"}
<1>1. /\ pc' = [pc EXCEPT ![t] = "reading"]
      /\ overlapped' = IF others = {} THEN overlapped \ {t}
                       ELSE overlapped \cup others \cup {t}
  BY DEF Reads
<1>2. pc'[t] = "reading" /\ \A u \in Tasks \ {t} : pc'[u] = pc[u]
  BY <1>1 DEF TypeOK
<1>3. Waiting' = Waiting \cup {t} /\ t \notin Waiting /\ others = Waiting
  BY <1>2 DEF Waiting
<1> HIDE DEF others
<1>4. ASSUME NEW u \in Tasks, Solo(u)'
      PROVE  u = t /\ Waiting = {}
  <2>1. u \notin overlapped' /\ pc'[u] = "reading"
    BY <1>4 DEF Solo
  <2>2. u = t \/ u \in others
    BY <1>2, <1>3, <2>1 DEF Waiting
  <2>3. QED
    BY <1>1, <1>3, <2>1, <2>2
<1>5. SoloAlone'
  BY <1>3, <1>4 DEF SoloAlone
<1>6. \A u \in Tasks \ {t} : u \notin overlapped' => u \notin overlapped
  BY <1>1
<1> QED
  BY <1>2, <1>3, <1>4, <1>5, <1>6

(* What AnsweredOwn says of the other tasks stays.                         *)
LEMMA OthersOwn ==
    ASSUME AnsweredOwn, NEW t \in Tasks,
           \A u \in Tasks \ {t} :
              /\ pc'[u] = pc[u] /\ outcome'[u] = outcome[u]
              /\ lines'[u] = lines[u]
              /\ u \notin overlapped' => u \notin overlapped,
           own' = own, Calm' => Calm
    PROVE  \A u \in Tasks \ {t} :
              /\ pc'[u] = "resumed" /\ Answer(u)' /\ Calm' /\ u \notin overlapped'
              => Own(u)'
<1>1. \A u \in Tasks \ {t} : (Own(u)' <=> Own(u)) /\ (Answer(u)' <=> Answer(u))
  BY DEF Own, Answer
<1> QED
  BY <1>1 DEF AnsweredOwn, Calm

LEMMA OwnWrites ==
    ASSUME TypeOK, TasksFinite, OwnInv, NEW t \in Tasks, WriteLine(t),
           UNCHANGED clientVars
    PROVE  OwnInv'
<1> DEFINE command == Mine(t)
<1>1. /\ pc[t] = "queued" /\ Reads(t) /\ ~closed
      /\ toTor' = Append(toTor, command)
      /\ UNCHANGED <<op, own, lines, inData, outcome, late, fromTor, events,
                     closed, loop>>
  BY DEF WriteLine, clientVars, Mine
<1>2. /\ Waiting' = Waiting \cup {t} /\ t \notin Waiting
      /\ \A u \in Tasks : Solo(u)' => u = t /\ Waiting = {}
      /\ SoloAlone'
      /\ \A u \in Tasks \ {t} : /\ pc'[u] = pc[u]
                                /\ u \notin overlapped' => u \notin overlapped
      /\ pc'[t] = "reading"
  BY <1>1, BeginsAlone DEF OwnInv
<1>3. FreshCalls'
  BY <1>1, <1>2 DEF OwnInv, FreshCalls
<1>4. AnsweredOwn'
  BY <1>1, <1>2, OthersOwn DEF OwnInv, AnsweredOwn, Calm
<1>5. command \in Commands
  BY DEF Mine, Commands, TypeOK
<1>6. /\ toTor \in Seq(Commands) /\ Len(toTor) \in Nat
      /\ toTor' \in Seq(Commands) /\ Len(toTor') = Len(toTor) + 1
      /\ toTor'[Len(toTor) + 1] = command
      /\ \A i \in 1 .. Len(toTor) : toTor'[i] = toTor[i]
      /\ DOMAIN toTor = 1 .. Len(toTor) /\ DOMAIN toTor' = 1 .. Len(toTor) + 1
  BY <1>1, <1>5, AppendProperties, LenProperties DEF TypeOK
<1>7. \A u \in Tasks : Subscribed(u)' => Subscribed(u)
  BY <1>1, <1>2 DEF Subscribed
<1> HIDE DEF command
<1>8. ASSUME Calm'
      PROVE  OnTheWay'
  <2>1. OnTheWay
    BY <1>1, <1>8 DEF Calm, OwnInv
  <2>2. EndsFinal(fromTor)'
    BY <1>1, <2>1 DEF OnTheWay, EndsFinal
  <2>3. Counted'
    <3>1. Answerable' = Answerable + 1
      BY <1>1, <1>6 DEF Answerable
    <3>2. ToCome' = ToCome
      BY <1>1 DEF ToCome
    <3>3. Cardinality(Waiting') = Cardinality(Waiting) + 1
      BY <1>2, CountType, FS_AddElement
    <3>4. QED
      BY <2>1, <3>1, <3>2, <3>3, CountType DEF OnTheWay, Counted
  <2>4. ASSUME Solo(t)'
        PROVE  Unserved(t)'
    <3>1. Cardinality(Waiting) = 0
      BY <1>2, <2>4, FS_EmptySet
    <3>2. Len(toTor) = 0 /\ Cardinality(Finals(fromTor)) <= 0
      BY <1>1, <1>6, <2>1, <3>1, CountType DEF OnTheWay, Counted, Answerable
    <3>3. fromTor = << >> /\ toTor = << >>
      BY <1>6, <2>1, <3>2, NothingToCome DEF OnTheWay, TypeOK
    <3>4. toTor' = <<command>>
      BY <1>1, <3>3
    <3>5. NoSubscriber
      BY <1>1, <1>6, <2>1, <3>2 DEF OnTheWay, AskedFor, Pending, NoSubscriber
    <3>6. NoSubscriber'
      BY <1>7, <3>5 DEF NoSubscriber
    <3>7. lines[t] = << >> /\ Mine(t)' = command
      BY <1>1 DEF OwnInv, FreshCalls, Mine, command
    <3>8. QED
      BY <1>1, <3>3, <3>4, <3>6, <3>7 DEF Unserved
  <2>5. SoloServed'
    BY <1>2, <2>4 DEF SoloServed
  <2>6. AskedFor'
    <3>1. ASSUME Pending
          PROVE  Pending'
      BY <1>6, <3>1 DEF Pending
    <3>2. ASSUME Subscribing(t)'
          PROVE  Pending'
      <4>1. toTor'[Len(toTor) + 1].op = "setevents"
        BY <1>1, <1>6, <3>2 DEF Subscribing, command, Mine
      <4>2. QED
        BY <1>6, <4>1 DEF Pending
    <3>3. \A u \in Tasks \ {t} : Subscribing(u)' => Subscribing(u)
      BY <1>1, <1>2 DEF Subscribing
    <3>4. QED
      BY <1>1, <1>7, <2>1, <3>1, <3>2, <3>3 DEF OnTheWay, AskedFor
  <2>7. QED
    BY <2>2, <2>3, <2>5, <2>6 DEF OnTheWay
<1> QED
  BY <1>2, <1>3, <1>4, <1>8 DEF OwnInv

(* On a closed connection a call that begins alone finds nothing.          *)
LEMMA OwnLost ==
    ASSUME TypeOK, TasksFinite, OwnInv, NEW t \in Tasks, WriteLost(t),
           UNCHANGED clientVars
    PROVE  OwnInv'
<1>1. /\ pc[t] = "queued" /\ closed
      /\ UNCHANGED <<op, own, lines, inData, late, fromTor, toTor, events,
                     closed, loop>>
  BY DEF WriteLost, peerVars, clientVars
<1>2. ToCome' = ToCome /\ (Calm' <=> Calm) /\ AskedFor' /\ Answerable' = 0
  BY <1>1 DEF ToCome, Calm, AskedFor, Answerable
<1>3. Calm => OnTheWay /\ EndsFinal(fromTor)'
  BY <1>1 DEF OwnInv, OnTheWay, EndsFinal
<1>4. CASE Resume(t, "io") /\ UNCHANGED overlapped
  <2>1. /\ pc'[t] = "resumed" /\ outcome'[t] = "io"
        /\ \A u \in Tasks \ {t} : pc'[u] = pc[u] /\ outcome'[u] = outcome[u]
    BY <1>4 DEF Resume, TypeOK
  <2>2. Waiting' = Waiting
    BY <1>1, <2>1 DEF Waiting
  <2>3. \A u \in Tasks : Solo(u)' => Solo(u)
    BY <1>4, <2>1 DEF Solo
  <2>4. SoloAlone' /\ FreshCalls'
    BY <1>1, <2>1, <2>2, <2>3 DEF OwnInv, SoloAlone, FreshCalls
  <2>5. ~Answer(t)'
    BY <2>1 DEF Answer
  <2>6. AnsweredOwn'
    BY <1>1, <1>2, <1>4, <2>1, <2>5, OthersOwn DEF OwnInv, AnsweredOwn, Calm
  <2>7. NoSubscriber => NoSubscriber'
    BY <1>1, <2>1 DEF NoSubscriber, Subscribed
  <2>8. \A u \in Tasks : (Unserved(u) => Unserved(u)') /\ (Served(u) => Served(u)')
    BY <1>1, <2>7 DEF Unserved, Served, Mine
  <2>9. Calm => SoloServed'
    BY <1>3, <2>3, <2>8 DEF OnTheWay, SoloServed
  <2>10. Calm => Counted'
    BY <1>1, <1>2, <1>3, <2>2 DEF OnTheWay, Counted, Answerable
  <2>11. QED
    BY <1>2, <1>3, <2>4, <2>6, <2>9, <2>10 DEF OwnInv, OnTheWay
<1>5. CASE Reads(t) /\ UNCHANGED outcome
  <2>1. /\ Waiting' = Waiting \cup {t} /\ t \notin Waiting
        /\ \A u \in Tasks : Solo(u)' => u = t /\ Waiting = {}
        /\ SoloAlone'
        /\ \A u \in Tasks \ {t} : /\ pc'[u] = pc[u]
                                  /\ u \notin overlapped' => u \notin overlapped
        /\ pc'[t] = "reading"
    BY <1>1, <1>5, BeginsAlone DEF OwnInv
  <2>2. FreshCalls'
    BY <1>1, <2>1 DEF OwnInv, FreshCalls
  <2>3. AnsweredOwn'
    BY <1>1, <1>2, <1>5, <2>1, OthersOwn DEF OwnInv, AnsweredOwn, Calm
  <2>4. Calm => Counted'
    <3>1. Cardinality(Waiting') = Cardinality(Waiting) + 1
      BY <2>1, CountType, FS_AddElement
    <3>2. QED
      BY <1>1, <1>2, <1>3, <3>1, CountType DEF OnTheWay, Counted, Answerable
  <2>5. ASSUME Calm, Solo(t)'
        PROVE  Unserved(t)'
    <3>1. Cardinality(Waiting) = 0
      BY <2>1, <2>5, FS_EmptySet
    <3>2. Cardinality(Finals(fromTor)) <= 0
      BY <1>1, <1>3, <2>5, <3>1, CountType DEF OnTheWay, Counted, Answerable
    <3>3. fromTor = << >>
      BY <1>3, <2>5, <3>2, NothingToCome DEF OnTheWay, TypeOK
    <3>4. QED
      BY <1>1, <3>3 DEF OwnInv, FreshCalls, Unserved
  <2>6. Calm => SoloServed'
    BY <2>1, <2>5 DEF SoloServed
  <2>7. QED
    BY <1>2, <1>3, <2>1, <2>2, <2>3, <2>4, <2>6 DEF OwnInv, OnTheWay
<1> QED
  BY <1>4, <1>5 DEF WriteLost

(* A call gives up: its deadline has passed, which ends the calm, or the   *)
(* connection has ended with nothing left on it.                           *)
LEMMA OwnGivesUp ==
    ASSUME TypeOK, TasksFinite, OwnInv, NEW t \in Tasks, pc[t] = "reading",
           NEW result, result \notin {"success", "failure"}, Resume(t, result),
           UNCHANGED <<op, own, lines, inData, overlapped, peerVars, loop>>,
           late' \/ (late' = late /\ closed /\ fromTor = << >>)
    PROVE  OwnInv'
<1>1. /\ pc'[t] = "resumed" /\ outcome'[t] = result
      /\ \A u \in Tasks \ {t} : pc'[u] = pc[u] /\ outcome'[u] = outcome[u]
  BY DEF Resume, TypeOK
<1>2. UNCHANGED <<toTor, fromTor, events, closed>>
  BY DEF peerVars
<1>3. ASSUME NEW u \in Tasks, Solo(u)'
      PROVE  FALSE
  <2>1. u # t /\ Solo(u)
    BY <1>1, <1>3 DEF Solo
  <2>2. Waiting = {u} /\ t \in Waiting
    BY <2>1 DEF OwnInv, SoloAlone, Waiting
  <2>3. QED
    BY <2>1, <2>2
<1>4. SoloAlone' /\ FreshCalls' /\ SoloServed'
  BY <1>1, <1>3 DEF OwnInv, SoloAlone, FreshCalls, SoloServed
<1>5. ~Answer(t)'
  BY <1>1 DEF Answer
<1>6. Calm' => Calm
  BY <1>2 DEF Calm
<1>7. AnsweredOwn'
  BY <1>1, <1>5, <1>6, OthersOwn DEF OwnInv, AnsweredOwn, Calm
<1>8. ASSUME Calm'
      PROVE  OnTheWay'
  <2>1. OnTheWay /\ closed /\ fromTor = << >>
    BY <1>6, <1>8 DEF OwnInv, Calm
  <2>2. EndsFinal(fromTor)' /\ AskedFor'
    BY <1>2, <2>1 DEF OnTheWay, EndsFinal, AskedFor
  <2>3. Answerable' = 0 /\ ToCome' = {}
    BY <1>2, <2>1 DEF Answerable, ToCome
  <2>4. Waiting' \in SUBSET Tasks
    BY DEF Waiting
  <2>5. Cardinality(Waiting') \in Nat
    BY <2>4, FS_Subset, FS_CardinalityType DEF TasksFinite
  <2>6. Counted'
    BY <2>3, <2>5, FS_EmptySet DEF Counted
  <2>7. QED
    BY <1>4, <2>2, <2>6 DEF OnTheWay
<1> QED
  BY <1>4, <1>7, <1>8 DEF OwnInv

(* The replies Tor gives.                                                  *)
LEMMA ShapesPlain ==
    ASSUME PlainReplies, NEW shape \in AllShapes
    PROVE  shape \in Seq(Kinds) /\ shape # << >> /\ Plain(shape)
<1>1. CASE shape \in Shapes
  BY <1>1, ShapesKnown DEF PlainReplies
<1>2. CASE shape \in {<<"ok">>, <<"err">>}
  <2>1. PICK kind \in Final : shape = <<kind>>
    BY <1>2 DEF Final
  <2>2. <<kind>> \in Seq(Kinds) /\ <<kind>> # << >> /\ Len(<<kind>>) = 1
    BY <2>1 DEF Final, Kinds
  <2>3. QED
    BY <2>1, <2>2 DEF Plain
<1> QED
  BY <1>1, <1>2 DEF AllShapes

(* A call that waits alone reads its own reply, and no other.              *)
LEMMA OwnReads ==
    ASSUME TypeOK, TasksFinite, PlainReplies, OwnInv, NEW t \in Tasks,
           NoBlock(fromTor), ReadLine(t), UNCHANGED clientVars
    PROVE  OwnInv'
<1> DEFINE line == Head(fromTor)
           reply == Append(lines[t], line)
<1>1. /\ pc[t] = "reading" /\ fromTor # << >> /\ fromTor' = Tail(fromTor)
      /\ fromTor \in Seq(Lines) /\ lines[t] \in Seq(Lines)
      /\ lines' = [lines EXCEPT ![t] = reply]
      /\ UNCHANGED <<toTor, events, closed, op, own, late, overlapped, loop>>
  BY DEF ReadLine, TakesLine, clientVars, TypeOK
<1>2. /\ lines'[t] = reply
      /\ \A u \in Tasks \ {t} : lines'[u] = lines[u] /\ inData'[u] = inData[u]
      /\ inData'[t] = (line.kind = "open")
  BY <1>1 DEF ReadLine, TypeOK, OwnInv, FreshCalls
<1>3. Calm' <=> Calm
  BY <1>1 DEF Calm
<1>4. ASSUME Calm
      PROVE  OnTheWay /\ line.kind \in {"mid"} \cup Final /\ EndsFinal(fromTor')
  BY <1>1, <1>4, EndsFinalTail DEF OwnInv, OnTheWay
<1>5. ASSUME NEW u \in Tasks, Solo(u), Calm
      PROVE  u = t /\ Served(t)
  <2>1. Waiting = {u} /\ t \in Waiting
    BY <1>1, <1>5 DEF OwnInv, SoloAlone, Waiting
  <2>2. u = t
    BY <2>1
  <2>3. Unserved(t) \/ Served(t)
    BY <1>4, <1>5, <2>2 DEF OnTheWay, SoloServed
  <2>4. QED
    BY <1>1, <2>2, <2>3 DEF Unserved
<1>6. ASSUME Served(t)
      PROVE  \E shape \in AllShapes :
                /\ line.kind \in Final => reply = Reply(<<t, own[t]>>, shape)
                /\ line.kind \notin Final =>
                      /\ fromTor' # << >>
                      /\ reply \o fromTor' = Reply(<<t, own[t]>>, shape)
  <2>1. PICK shape \in AllShapes :
            lines[t] \o fromTor = Reply(<<t, own[t]>>, shape)
    BY <1>6 DEF Served
  <2>2. <<t, own[t]>> \in Tasks \X Nat
    BY DEF TypeOK
  <2>3. shape \in Seq(Kinds) /\ shape # << >> /\ Plain(shape)
    BY ShapesPlain
  <2>4. QED
    BY <1>1, <2>1, <2>2, <2>3, ReadsOn
<1>7. /\ ToCome' = Finals(Tail(fromTor)) /\ Cardinality(ToCome') \in Nat
      /\ Cardinality(ToCome') <= Cardinality(ToCome)
      /\ line.kind \in Final => Cardinality(ToCome') + 1 <= Cardinality(ToCome)
  <2>1. ToCome' = Finals(Tail(fromTor))
    BY <1>1 DEF ToCome, Finals
  <2>2. Tail(fromTor) \in Seq(Lines)
    BY <1>1, HeadTailProperties
  <2> HIDE DEF line
  <2>3. QED
    BY <1>1, <2>1, <2>2, FinalsFinite, FinalTaken, CountType DEF line
<1>8. Answerable' = Answerable
  BY <1>1 DEF Answerable
<1>9. Calm => AskedFor /\ (Pending' <=> Pending)
  BY <1>1, <1>4 DEF OnTheWay, Pending
<1>10. /\ GoesOn(t, line.kind) <=> line.kind = "mid"
       /\ line.kind # "open"
       /\ \/ GoesOn(t, line.kind) /\ UNCHANGED <<pc, outcome>>
          \/ ~GoesOn(t, line.kind) /\ Resume(t, ParseReply(reply))
  BY <1>1, BlockFreeTail DEF ReadLine, GoesOn, OwnInv, FreshCalls
<1> HIDE DEF line, reply
<1>11. "mid" \notin Final
  BY DEF Final
<1>12. CASE line.kind = "mid" /\ UNCHANGED <<pc, outcome>>
  <2>1. Waiting' = Waiting
    BY <1>12 DEF Waiting
  <2>2. \A u \in Tasks : Solo(u)' <=> Solo(u)
    BY <1>1, <1>12 DEF Solo
  <2>3. SoloAlone'
    BY <2>1, <2>2 DEF OwnInv, SoloAlone
  <2>4. AnsweredOwn'
    <3>1. pc'[t] # "resumed"
      BY <1>1, <1>12
    <3>2. QED
      BY <1>1, <1>2, <1>3, <1>12, <3>1, OthersOwn DEF OwnInv, AnsweredOwn, Calm
  <2>5. ASSUME Calm
        PROVE  OnTheWay'
    <3>1. Counted'
      BY <1>4, <1>7, <1>8, <2>1, <2>5, CountType DEF OnTheWay, Counted
    <3>2. NoSubscriber => NoSubscriber'
      BY <1>1, <1>12 DEF NoSubscriber, Subscribed
    <3>3. ASSUME Served(t)
          PROVE  Served(t)'
      <4>1. /\ fromTor' # << >>
            /\ \E shape \in AllShapes :
                  lines'[t] \o fromTor' = Reply(<<t, own'[t]>>, shape)
        BY <1>1, <1>2, <1>6, <1>11, <1>12, <3>3
      <4>2. (closed' \/ toTor' = << >>) /\ NoSubscriber'
        BY <1>1, <3>2, <3>3 DEF Served
      <4>3. QED
        BY <4>1, <4>2 DEF Served
    <3>4. SoloServed'
      BY <1>5, <2>2, <2>5, <3>3 DEF SoloServed
    <3>5. AskedFor'
      BY <1>1, <1>9, <1>12, <2>5 DEF AskedFor, Subscribed, Subscribing
    <3>6. EndsFinal(fromTor)'
      BY <1>4, <2>5 DEF EndsFinal
    <3>7. QED
      BY <3>1, <3>4, <3>5, <3>6 DEF OnTheWay
  <2>6. FreshCalls'
    BY <1>1, <1>2, <1>12 DEF OwnInv, FreshCalls
  <2>7. QED
    BY <1>3, <2>3, <2>4, <2>5, <2>6 DEF OwnInv
<1>13. CASE line.kind # "mid" /\ Resume(t, ParseReply(reply))
  <2>1. /\ pc'[t] = "resumed" /\ outcome'[t] = ParseReply(reply)
        /\ \A u \in Tasks \ {t} : pc'[u] = pc[u] /\ outcome'[u] = outcome[u]
    BY <1>13 DEF Resume, TypeOK
  <2>2. ASSUME NEW u \in Tasks, Solo(u)'
        PROVE  FALSE
    <3>1. u # t /\ Solo(u)
      BY <1>1, <2>1, <2>2 DEF Solo
    <3>2. Waiting = {u} /\ t \in Waiting
      BY <1>1, <3>1 DEF OwnInv, SoloAlone, Waiting
    <3>3. QED
      BY <3>1, <3>2
  <2>3. SoloAlone' /\ SoloServed'
    BY <2>2 DEF SoloAlone, SoloServed
  <2>4. FreshCalls'
    BY <1>1, <1>2, <1>10, <2>1 DEF OwnInv, FreshCalls
  <2>5. ASSUME Calm
        PROVE  line.kind \in Final
    BY <1>4, <1>13, <2>5
  <2>6. AnsweredOwn'
    <3>1. ASSUME Calm, t \notin overlapped'
          PROVE  Own(t)'
      <4>1. Served(t)
        BY <1>1, <1>5, <3>1 DEF Solo
      <4>2. \E shape \in AllShapes : lines'[t] = Reply(<<t, own'[t]>>, shape)
        BY <1>1, <1>2, <1>6, <2>5, <3>1, <4>1
      <4>3. QED
        BY <4>2 DEF Own, AllShapes
    <3>2. QED
      BY <1>1, <1>2, <1>3, <2>1, <3>1, OthersOwn DEF OwnInv, AnsweredOwn, Calm
  <2>7. ASSUME Calm
        PROVE  OnTheWay'
    <3>1. Waiting' = Waiting \ {t} /\ t \in Waiting
      BY <1>1, <2>1 DEF Waiting
    <3>2. Cardinality(Waiting') = Cardinality(Waiting) - 1
      BY <3>1, CountType, FS_RemoveElement
    <3>3. Counted'
      BY <1>4, <1>7, <1>8, <2>5, <2>7, <3>2, CountType DEF OnTheWay, Counted
    <3>4. ASSUME NEW u \in Tasks, Subscribed(u)' \/ Subscribing(u)'
          PROVE  Subscribed(u) \/ Subscribing(u)
      <4>1. CASE u = t
        BY <1>1, <2>1, <3>4, <4>1 DEF Subscribed, Subscribing
      <4>2. CASE u # t
        BY <1>1, <2>1, <3>4, <4>2 DEF Subscribed, Subscribing
      <4>3. QED
        BY <4>1, <4>2
    <3>5. AskedFor'
      BY <1>1, <1>9, <2>7, <3>4 DEF AskedFor
    <3>6. EndsFinal(fromTor)'
      BY <1>4, <2>7 DEF EndsFinal
    <3>7. QED
      BY <2>3, <3>3, <3>5, <3>6 DEF OnTheWay
  <2>8. QED
    BY <1>3, <2>3, <2>4, <2>6, <2>7 DEF OwnInv
<1> QED
  BY <1>10, <1>12, <1>13

(* The loop of a subscription reads nothing of a call that waits alone.    *)
LEMMA OwnLoopReads ==
    ASSUME TypeOK, TasksFinite, OwnInv, NEW r \in Tasks, LoopReads(r)
    PROVE  OwnInv'
<1>1. /\ loop[r] = "reading" /\ fromTor # << >> /\ fromTor' = Tail(fromTor)
      /\ fromTor \in Seq(Lines)
      /\ UNCHANGED <<pc, op, own, lines, inData, outcome, late, overlapped,
                     toTor, events, closed, loop>>
  BY DEF LoopReads, TakesLine, clientVars, TypeOK
<1>2. Waiting' = Waiting /\ Answerable' = Answerable /\ (Calm' <=> Calm)
  BY <1>1 DEF Waiting, Answerable, Calm
<1>3. SoloAlone' /\ FreshCalls'
  BY <1>1, <1>2 DEF OwnInv, SoloAlone, FreshCalls, Solo
<1>4. AnsweredOwn'
  BY <1>1 DEF OwnInv, AnsweredOwn, Answer, Own
<1>5. ASSUME Calm
      PROVE  OnTheWay'
  <2>1. OnTheWay
    BY <1>5 DEF OwnInv
  <2>2. EndsFinal(fromTor)'
    BY <1>1, <2>1, EndsFinalTail DEF OnTheWay, EndsFinal
  <2>3. ToCome' = Finals(Tail(fromTor))
    BY <1>1 DEF ToCome, Finals
  <2>4. /\ Cardinality(ToCome') \in Nat
        /\ Cardinality(ToCome') <= Cardinality(ToCome)
    BY <1>1, <2>3, HeadTailProperties, FinalsFinite, FinalTaken, CountType
  <2>5. Counted'
    BY <1>2, <2>1, <2>4, CountType DEF OnTheWay, Counted
  <2>6. \A u \in Tasks : ~Solo(u)
    BY <1>1, <2>1 DEF OnTheWay, SoloServed, Unserved, Served, NoSubscriber,
       Subscribed
  <2>7. SoloServed'
    BY <1>1, <2>6 DEF SoloServed, Solo
  <2>8. AskedFor'
    BY <1>1, <2>1 DEF OnTheWay, AskedFor, Subscribed, Subscribing, Pending
  <2>9. QED
    BY <2>2, <2>5, <2>7, <2>8 DEF OnTheWay
<1> QED
  BY <1>2, <1>3, <1>4, <1>5 DEF OwnInv

(* Tor answers a command: if one call waits alone it is its command.       *)
LEMMA OwnAnswered ==
    ASSUME TypeOK, TasksFinite, PlainReplies, OwnInv, NEW ops,
           NEW shape \in AllShapes, TorAnswers(ops, shape),
           events => events', closed' \in BOOLEAN,
           events' \/ closed' \/ "setevents" \notin ops,
           UNCHANGED <<socketVars, clientVars>>
    PROVE  OwnInv'
<1> DEFINE cmd == Head(toTor).cmd
           reply == Reply(cmd, shape)
<1>1. /\ toTor \in Seq(Commands) /\ toTor # << >> /\ fromTor \in Seq(Lines)
      /\ ~closed /\ Head(toTor).op \in ops
      /\ toTor' = Tail(toTor) /\ fromTor' = fromTor \o reply
      /\ UNCHANGED <<pc, op, own, lines, inData, outcome, late, overlapped, loop>>
  BY DEF TorAnswers, TypeOK, socketVars, clientVars
<1>2. /\ Len(toTor) \in Nat /\ Len(toTor) > 0 /\ Head(toTor) = toTor[1]
      /\ Head(toTor) \in Commands
      /\ toTor' \in Seq(Commands) /\ Len(toTor') = Len(toTor) - 1
      /\ \A i \in 1 .. Len(toTor') : toTor'[i] = toTor[i + 1]
      /\ DOMAIN toTor = 1 .. Len(toTor) /\ DOMAIN toTor' = 1 .. Len(toTor')
  BY <1>1, HeadTailProperties, LenProperties, EmptySeq
<1>3. cmd \in Tasks \X Nat
  BY <1>2 DEF Commands
<1>4. shape \in Seq(Kinds) /\ shape # << >> /\ Plain(shape)
  BY ShapesPlain
<1> HIDE DEF cmd
<1>5. reply \in Seq(Lines) /\ reply # << >> /\ EndsFinal(reply)
  BY <1>3, <1>4, PlainOnItsWay
<1>6. Cardinality(Finals(fromTor \o reply)) <= Cardinality(Finals(fromTor)) + 1
  BY <1>1, <1>3, <1>4, OneMoreToCome
<1> HIDE DEF reply
<1>7. Waiting' = Waiting /\ (Calm' => Calm)
  BY <1>1 DEF Waiting, Calm
<1>8. SoloAlone' /\ FreshCalls'
  BY <1>1, <1>7 DEF OwnInv, SoloAlone, FreshCalls, Solo
<1>9. AnsweredOwn'
  BY <1>1 DEF OwnInv, AnsweredOwn, Answer, Own
<1>10. ASSUME Calm'
       PROVE  OnTheWay'
  <2>1. OnTheWay
    BY <1>7, <1>10 DEF OwnInv
  <2>2. EndsFinal(fromTor)'
    BY <1>1, <1>5, <2>1, EndsFinalConcat DEF OnTheWay, EndsFinal
  <2>3. Counted'
    <3>1. ToCome' = Finals(fromTor \o reply) /\ fromTor \o reply \in Seq(Lines)
      BY <1>1, <1>5 DEF ToCome, Finals
    <3>2. /\ Cardinality(ToCome') \in Nat
          /\ Cardinality(ToCome') <= Cardinality(ToCome) + 1
      BY <1>6, <3>1, FinalsFinite, CountType
    <3>3. Answerable' \in Nat /\ Answerable' + 1 <= Answerable
      BY <1>1, <1>2 DEF Answerable
    <3>4. QED
      BY <1>7, <2>1, <3>2, <3>3, CountType DEF OnTheWay, Counted
  <2>4. NoSubscriber => NoSubscriber'
    BY <1>1 DEF NoSubscriber, Subscribed
  <2>5. ASSUME NEW t \in Tasks, Solo(t)'
        PROVE  Served(t)'
    <3>1. Solo(t)
      BY <1>1, <2>5 DEF Solo
    <3>2. /\ lines[t] = << >> /\ fromTor = << >> /\ toTor = <<Mine(t)>>
          /\ NoSubscriber
      BY <1>1, <2>1, <3>1 DEF OnTheWay, SoloServed, Unserved, Served
    <3>3. toTor' = << >> /\ cmd = <<t, own[t]>>
      BY <1>1, <3>2 DEF cmd, Mine
    <3>4. fromTor' = reply /\ lines[t] \o fromTor' = reply
      BY <1>1, <1>5, <3>2, ConcatEmptySeq
    <3>5. reply = Reply(<<t, own[t]>>, shape)
      BY <3>3 DEF reply
    <3>6. QED
      BY <1>1, <1>5, <2>4, <3>2, <3>3, <3>4, <3>5 DEF Served
  <2>6. SoloServed'
    BY <2>5 DEF SoloServed
  <2>7. ASSUME ~closed', Pending
        PROVE  Pending'
    <3>1. PICK i \in DOMAIN toTor : toTor[i].op = "setevents"
      BY <2>7 DEF Pending
    <3>2. Head(toTor).op # "setevents"
      BY <1>1, <1>10, <2>7 DEF Calm
    <3>3. i # 1
      BY <1>2, <3>1, <3>2
    <3>4. i - 1 \in 1 .. Len(toTor') /\ toTor'[i - 1] = toTor[i]
      BY <1>2, <3>1, <3>3
    <3>5. QED
      BY <1>2, <3>1, <3>4 DEF Pending
  <2>8. AskedFor'
    BY <1>1, <2>1, <2>7 DEF OnTheWay, AskedFor, Subscribed, Subscribing
  <2>9. QED
    BY <2>2, <2>3, <2>6, <2>8 DEF OnTheWay
<1> QED
  BY <1>8, <1>9, <1>10 DEF OwnInv

(* On a connection where nothing has timed out and no events were asked    *)
(* for, a call that no other overlaps is answered by its own reply, all of *)
(* it, whatever came before.                                               *)
THEOREM RepliesBelong ==
    ASSUME TasksFinite, PlainReplies
    PROVE  Spec => []AnsweredOwn
<1>1. ASSUME Init
      PROVE  OwnInv
  <2>1. /\ fromTor = << >> /\ toTor = << >> /\ ~closed
        /\ \A t \in Tasks : /\ pc[t] = "idle" /\ ~inData[t]
                            /\ loop[t] = "none"
    BY <1>1 DEF Init, PeerInit, SocketInit
  <2>2. Waiting = {} /\ ToCome = {} /\ Answerable = 0
    BY <2>1 DEF Waiting, ToCome, Answerable
  <2>3. Counted
    BY <2>2, FS_EmptySet DEF Counted
  <2>4. EndsFinal(fromTor)
    BY <2>1 DEF EndsFinal
  <2>5. QED
    BY <2>1, <2>3, <2>4 DEF OwnInv, AnsweredOwn, SoloAlone, Solo, FreshCalls,
       OnTheWay, SoloServed, AskedFor, Subscribed, Subscribing
<1>2. ASSUME TypeOK, WaitInv, OwnInv, [Next]_vars
      PROVE  OwnInv'
  <2>1. /\ NoBlock(fromTor)
        /\ \A t \in Tasks : ~inData[t]
    BY <1>2 DEF WaitInv
  <2>2. ASSUME NEW t \in Tasks, NEW o, pc[t] # "reading", SendCommand(t, o),
               UNCHANGED clientVars
        PROVE  OwnInv'
    <3>1. /\ pc' = [pc EXCEPT ![t] = "queued"]
          /\ lines' = [lines EXCEPT ![t] = << >>]
          /\ \A u \in Tasks : ~inData'[u]
          /\ \A u \in Tasks \ {t} : /\ own'[u] = own[u] /\ op'[u] = op[u]
                                    /\ outcome'[u] = outcome[u]
          /\ UNCHANGED <<late, overlapped, toTor, fromTor, events, closed, loop>>
      BY <1>2, <2>1, <2>2 DEF SendCommand, peerVars, clientVars, TypeOK
    <3>2. \A u \in Tasks : loop'[u] = "reading" => Subscribed(u)
      BY <3>1 DEF Subscribed
    <3>3. QED
      BY <1>2, <2>2, <3>1, <3>2, OwnIdle
  <2>3. ASSUME NEW t \in Tasks, pc[t] # "reading", Returns(t),
               \A u \in Tasks : loop'[u] = "reading" => Subscribed(u)
        PROVE  OwnInv'
    <3>1. /\ pc' = [pc EXCEPT ![t] = "idle"]
          /\ lines' = [lines EXCEPT ![t] = << >>]
          /\ \A u \in Tasks : ~inData'[u]
          /\ \A u \in Tasks \ {t} : /\ own'[u] = own[u] /\ op'[u] = op[u]
                                    /\ outcome'[u] = outcome[u]
          /\ UNCHANGED <<late, overlapped, toTor, fromTor, events, closed>>
      BY <1>2, <2>1, <2>3 DEF Returns, peerVars, TypeOK
    <3>2. QED
      BY <1>2, <2>3, <3>1, OwnIdle
  <2>4. ASSUME NEW t \in Tasks, CallStep(t)
        PROVE  OwnInv'
    BY <2>2, <2>4 DEF CallStep, Command, Authenticate, Subscribe, Calls
  <2>5. ASSUME NEW t \in Tasks, SocketStep(t), UNCHANGED clientVars
        PROVE  OwnInv'
    <3>1. CASE WriteLine(t)
      BY <1>2, <2>5, <3>1, OwnWrites
    <3>2. CASE WriteLost(t)
      BY <1>2, <2>5, <3>2, OwnLost
    <3>3. CASE AcquireLock(t)
      BY <1>2, <2>5, <3>3, OwnSame DEF AcquireLock, peerVars, clientVars
    <3>4. CASE ReadLine(t)
      BY <1>2, <2>1, <2>5, <3>4, OwnReads
    <3>5. CASE ReadFails(t)
      <4>1. /\ pc[t] = "reading" /\ Resume(t, "io") /\ late' = late
            /\ closed /\ fromTor = << >>
            /\ UNCHANGED <<op, own, lines, inData, overlapped, peerVars, loop>>
        BY <1>2, <2>5, <3>5 DEF ReadFails, clientVars, TypeOK
      <4>2. QED
        BY <1>2, <4>1, OwnGivesUp
    <3>6. CASE ReadTimesOut(t)
      <4>1. /\ pc[t] = "reading" /\ Resume(t, "timeout") /\ late'
            /\ UNCHANGED <<op, own, lines, inData, overlapped, peerVars, loop>>
        BY <1>2, <2>5, <3>6 DEF ReadTimesOut, clientVars, TypeOK
      <4>2. QED
        BY <1>2, <4>1, OwnGivesUp
    <3>7. QED
      BY <2>5, <3>1, <3>2, <3>3, <3>4, <3>5, <3>6 DEF SocketStep
  <2>6. ASSUME NEW t \in Tasks, ReturnStep(t)
        PROVE  OwnInv'
    <3>1. \A u \in Tasks : loop[u] = "reading" => Subscribed(u)
      BY DEF Subscribed
    <3>2. CASE AuthFallsBack(t)
      BY <2>2, <3>2 DEF AuthFallsBack
    <3>3. CASE CommandReturns(t) \/ AuthSucceeds(t) \/ AuthThrows(t)
      BY <2>3, <3>1, <3>3 DEF CommandReturns, AuthSucceeds, AuthThrows, clientVars
    <3>4. CASE SubscribeReturns(t)
      <4>1. \A u \in Tasks : loop'[u] = "reading" => Subscribed(u)
        BY <1>2, <3>4 DEF SubscribeReturns, Subscribed, TypeOK
      <4>2. QED
        BY <2>3, <3>4, <4>1 DEF SubscribeReturns
    <3>5. QED
      BY <2>6, <3>2, <3>3, <3>4 DEF ReturnStep
  <2>7. ASSUME NEW t \in Tasks, LoopStep(t)
        PROVE  OwnInv'
    <3>1. CASE LoopReads(t)
      BY <1>2, <3>1, OwnLoopReads
    <3>2. CASE LoopAcquires(t)
      BY <1>2, <3>2, OwnSame DEF LoopAcquires, peerVars, clientVars
    <3>3. CASE LoopEnds(t)
      <4>1. \A u \in Tasks : loop'[u] = "reading" => loop[u] = "reading"
        BY <1>2, <3>3 DEF LoopEnds, TypeOK
      <4>2. QED
        BY <1>2, <3>3, <4>1, OwnSame DEF LoopEnds, peerVars
    <3>4. QED
      BY <2>7, <3>1, <3>2, <3>3 DEF LoopStep
  <2>8. ASSUME TorStep
        PROVE  OwnInv'
    <3>1. UNCHANGED <<socketVars, clientVars>>
      BY <2>8 DEF TorStep
    <3>2. \A shape \in Shapes : shape \in AllShapes
      BY DEF AllShapes
    <3>3. <<"ok">> \in AllShapes /\ <<"err">> \in AllShapes
      BY DEF AllShapes
    <3>4. closed \in BOOLEAN /\ events \in BOOLEAN
      BY <1>2 DEF TypeOK
    <3>5. CASE TorServes
      <4>1. PICK shape \in Shapes : TorAnswers({"getinfo"}, shape)
        BY <3>5 DEF TorServes
      <4>2. UNCHANGED <<events, closed>>
        BY <3>5 DEF TorServes
      <4>3. QED
        BY <1>2, <3>1, <3>2, <3>4, <4>1, <4>2, OwnAnswered
    <3>6. CASE TorSetsEvents
      BY <1>2, <3>1, <3>3, <3>4, <3>6, OwnAnswered DEF TorSetsEvents
    <3>7. CASE TorAuthenticates
      <4>1. TorAnswers(Accepted, <<"ok">>) /\ UNCHANGED <<events, closed>>
        BY <3>7 DEF TorAuthenticates
      <4>2. "setevents" \notin Accepted
        BY PeerKnown DEF Methods
      <4>3. QED
        BY <1>2, <3>1, <3>3, <3>4, <4>1, <4>2, OwnAnswered
    <3>8. CASE TorRefuses
      <4>1. PICK ops : TorAnswers(ops, <<"err">>)
        BY <3>8 DEF TorRefuses
      <4>2. closed' = TRUE /\ events' = events
        BY <3>8 DEF TorRefuses
      <4>3. QED
        BY <1>2, <3>1, <3>3, <4>1, <4>2, OwnAnswered
    <3>9. CASE TorEmits
      <4>1. UNCHANGED <<pc, op, own, lines, inData, outcome, overlapped>>
        BY <3>1 DEF socketVars
      <4>2. events'
        BY <3>9 DEF TorEmits
      <4>3. ~Calm' /\ AnsweredOwn'
        BY <4>2 DEF Calm, AnsweredOwn
      <4>4. Waiting' = Waiting
        BY <4>1 DEF Waiting
      <4>5. SoloAlone' /\ FreshCalls'
        BY <1>2, <4>1, <4>4 DEF OwnInv, SoloAlone, FreshCalls, Solo
      <4>6. QED
        BY <4>3, <4>5 DEF OwnInv
    <3>10. CASE TorCloses
      BY <1>2, <3>1, <3>10, OwnSame DEF TorCloses, socketVars, clientVars
    <3>11. QED
      BY <2>8, <3>5, <3>6, <3>7, <3>8, <3>9, <3>10 DEF TorStep, TorTakes
  <2>9. CASE UNCHANGED vars
    BY <1>2, <2>9, OwnSame DEF vars, peerVars, socketVars, clientVars
  <2>10. QED
    BY <1>2, <2>4, <2>5, <2>6, <2>7, <2>8, <2>9 DEF Next, TaskStep
<1>3. OwnInv => AnsweredOwn
  BY DEF OwnInv
<1>4. QED
  BY <1>1, <1>2, <1>3, TypeCorrect, WaitInvariant, PTL DEF Spec

-----------------------------------------------------------------------------
(* Replies with data blocks.  Two calls that share such a reply lose step, *)
(* but a task that has the connection for itself does not.                 *)

(* d tells where shape is in a data block, and no line but the last lets   *)
(* readReply end.                                                          *)
Blocks(shape, d) ==
    /\ d[0] = FALSE
    /\ \A k \in 1 .. Len(shape) :
           /\ d[k] = IF d[k - 1] THEN shape[k] # "dot" ELSE shape[k] = "open"
           /\ (d[k - 1] \/ shape[k] \in {"mid", "open"}) <=> k < Len(shape)

WellFormed(shape) == \E d \in [0 .. Len(shape) -> BOOLEAN] : Blocks(shape, d)

WellFormedReplies == \A shape \in Shapes : WellFormed(shape)
OneCaller(c) == \A t \in Tasks : May[t] # {} => t = c

(* The call has collected the first lines of its own reply, and the rest   *)
(* is on its way.  A SETEVENTS that was accepted is not calm any more.     *)
Receives(t, shape, d) ==
    /\ Blocks(shape, d)
    /\ lines[t] \o fromTor = Reply(<<t, own[t]>>, shape)
    /\ Len(lines[t]) < Len(shape)
    /\ inData[t] = d[Len(lines[t])]
    /\ op[t] = "setevents" => shape = <<"err">>

Asked(t) ==
    /\ lines[t] = << >> /\ fromTor = << >> /\ ~inData[t]
    /\ closed \/ toTor = <<Mine(t)>>

Answered(t) ==
    /\ closed \/ toTor = << >>
    /\ \E shape \in AllShapes :
           \E d \in [0 .. Len(shape) -> BOOLEAN] : Receives(t, shape, d)

InStep(t) ==
    /\ pc[t] = "reading" => Asked(t) \/ Answered(t)
    /\ pc[t] # "reading" => fromTor = << >> /\ (closed \/ toTor = << >>)
    /\ pc[t] = "queued" => lines[t] = << >> /\ ~inData[t]
    /\ pc[t] = "resumed" =>
           /\ Answer(t) => Own(t)
           /\ op[t] = "setevents" => outcome[t] # "success"

AloneInv(c) ==
    /\ \A t \in Tasks : t # c => pc[t] = "idle"
    /\ Calm => InStep(c) /\ (\A t \in Tasks : loop[t] = "none")

(* Steps of the connection are never out of calm and back in it.           *)
LEMMA CalmBefore ==
    ASSUME TypeOK, [Next]_vars, Calm'
    PROVE  Calm
<1>1. late => late'
  BY DEF TypeOK, Next, CallStep, TaskStep, LoopStep, TorStep, SocketStep, ReturnStep,
     Command, Authenticate, Subscribe, SendCommand, WriteLine, WriteLost, AcquireLock,
     ReadLine, ReadFails, ReadTimesOut, CommandReturns, AuthSucceeds, AuthFallsBack,
     AuthThrows, SubscribeReturns, Returns, LoopAcquires, LoopReads, LoopEnds,
     vars, socketVars
<1>2. events => events'
  BY DEF TypeOK, Next, CallStep, TaskStep, LoopStep, TorStep, SocketStep, ReturnStep,
     Command, Authenticate, Subscribe, SendCommand, WriteLine, WriteLost, AcquireLock,
     ReadLine, TakesLine, ReadFails, ReadTimesOut, CommandReturns, AuthSucceeds,
     AuthFallsBack, AuthThrows, SubscribeReturns, Returns, LoopAcquires, LoopReads,
     LoopEnds, TorTakes, TorServes, TorSetsEvents, TorAuthenticates, TorRefuses,
     TorEmits, TorCloses, vars, peerVars
<1>3. QED
  BY <1>1, <1>2 DEF Calm

(* The one caller is the only one that does anything.                      *)
LEMMA OthersIdle ==
    ASSUME TypeOK, NEW c \in Tasks, OneCaller(c), AloneInv(c), [Next]_vars
    PROVE  /\ \A t \in Tasks : t # c => pc'[t] = "idle"
           /\ \/ CallStep(c)
              \/ SocketStep(c) /\ UNCHANGED clientVars
              \/ ReturnStep(c)
              \/ \E t \in Tasks : LoopStep(t)
              \/ TorStep
              \/ UNCHANGED vars
<1>1. \A t \in Tasks : t # c => pc[t] = "idle"
  BY DEF AloneInv
<1>2. ASSUME NEW t \in Tasks, CallStep(t) \/ TaskStep(t)
      PROVE  t = c
  <2>1. CASE CallStep(t)
    BY <2>1 DEF CallStep, Command, Authenticate, Subscribe, Calls, OneCaller
  <2>2. CASE SocketStep(t)
    <3>1. pc[t] \in {"queued", "reading"}
      BY <2>2 DEF SocketStep, WriteLine, WriteLost, AcquireLock, ReadLine, TakesLine,
         ReadFails, ReadTimesOut, TypeOK
    <3>2. QED
      BY <1>1, <3>1
  <2>3. CASE ReturnStep(t)
    <3>1. pc[t] = "resumed"
      BY <2>3 DEF ReturnStep, CommandReturns, AuthSucceeds, AuthFallsBack, AuthThrows,
         SubscribeReturns
    <3>2. QED
      BY <1>1, <3>1
  <2>4. QED
    BY <1>2, <2>1, <2>2, <2>3 DEF TaskStep
<1>3. CASE CallStep(c) \/ TaskStep(c)
  <2>1. \E label : pc' = [pc EXCEPT ![c] = label] \/ pc' = pc
    BY <1>3 DEF CallStep, TaskStep, SocketStep, ReturnStep, Command, Authenticate,
       Subscribe, SendCommand, WriteLine, WriteLost, Reads, Resume, AcquireLock,
       ReadLine, ReadFails, ReadTimesOut, CommandReturns, AuthSucceeds,
       AuthFallsBack, AuthThrows, SubscribeReturns, Returns
  <2>2. \A t \in Tasks : t # c => pc'[t] = pc[t]
    BY <2>1 DEF TypeOK
  <2>3. QED
    BY <1>1, <1>3, <2>2 DEF TaskStep
<1>4. CASE (\E t \in Tasks : LoopStep(t)) \/ TorStep \/ UNCHANGED vars
  <2>1. pc' = pc
    BY <1>4 DEF LoopStep, LoopAcquires, LoopReads, LoopEnds, TorStep, socketVars, vars
  <2>2. QED
    BY <1>1, <1>4, <2>1
<1>5. QED
  BY <1>2, <1>3, <1>4 DEF Next

(* A final line ends a reply of one line.                                  *)
LEMMA AllWellFormed ==
    ASSUME WellFormedReplies, NEW shape \in AllShapes
    PROVE  shape \in Seq(Kinds) /\ shape # << >> /\ WellFormed(shape)
<1>1. CASE shape \in Shapes
  BY <1>1, ShapesKnown DEF WellFormedReplies
<1>2. ASSUME NEW kind \in Final, shape = <<kind>>
      PROVE  shape \in Seq(Kinds) /\ shape # << >> /\ WellFormed(shape)
  <2>1. /\ shape \in Seq(Kinds) /\ shape # << >>
        /\ Len(shape) = 1 /\ shape[1] = kind
        /\ kind \notin {"mid", "open"}
    BY <1>2 DEF Final, Kinds
  <2> DEFINE d == [k \in 0 .. 1 |-> FALSE]
  <2>2. d \in [0 .. Len(shape) -> BOOLEAN]
    BY <2>1
  <2>3. Blocks(shape, d)
    <3>1. /\ d[0] = FALSE /\ d[1] = FALSE /\ 0 = 1 - 1
          /\ \A k \in 1 .. Len(shape) : k = 1
      BY <2>1
    <3> HIDE DEF d
    <3>2. /\ d[1] = IF d[0] THEN shape[1] # "dot" ELSE shape[1] = "open"
          /\ (d[0] \/ shape[1] \in {"mid", "open"}) <=> 1 < Len(shape)
      <4>1. kind # "open"
        BY <2>1
      <4>2. ~(1 < Len(shape))
        BY <2>1
      <4>3. QED
        BY <2>1, <3>1, <4>1, <4>2
    <3>3. ASSUME NEW k \in 1 .. Len(shape)
          PROVE  /\ d[k] = IF d[k - 1] THEN shape[k] # "dot" ELSE shape[k] = "open"
                 /\ (d[k - 1] \/ shape[k] \in {"mid", "open"}) <=> k < Len(shape)
      <4>1. k = 1 /\ k - 1 = 0
        BY <3>1, <3>3
      <4>2. QED
        BY <3>2, <4>1
    <3>4. QED
      BY <3>1, <3>3 DEF Blocks
  <2>4. QED
    BY <2>1, <2>2, <2>3 DEF WellFormed
<1>3. QED
  BY <1>1, <1>2 DEF AllShapes, Final

(* Tor answers the one command it has.                                     *)
LEMMA AnswerReceived ==
    ASSUME TypeOK, WellFormedReplies, NEW c \in Tasks, InStep(c),
           NEW ops, NEW shape \in AllShapes, TorAnswers(ops, shape),
           "setevents" \in ops => shape = <<"err">>,
           UNCHANGED <<socketVars, clientVars>>, closed' \in BOOLEAN
    PROVE  InStep(c)'
<1>1. /\ toTor \in Seq(Commands) /\ toTor # << >> /\ fromTor \in Seq(Lines)
      /\ ~closed /\ Head(toTor).op \in ops
      /\ toTor' = Tail(toTor)
      /\ fromTor' = fromTor \o Reply(Head(toTor).cmd, shape)
      /\ UNCHANGED <<pc, op, own, lines, inData, outcome>>
  BY DEF TorAnswers, TypeOK, socketVars
<1>2. pc[c] = "reading"
  BY <1>1 DEF InStep
<1>3. lines[c] = << >> /\ fromTor = << >> /\ ~inData[c] /\ toTor = <<Mine(c)>>
  BY <1>1, <1>2 DEF InStep, Asked, Answered
<1> DEFINE reply == Reply(<<c, own[c]>>, shape)
<1>4. Head(toTor) = Mine(c) /\ toTor' = << >>
  BY <1>1, <1>3
<1>5. /\ Head(toTor).cmd = <<c, own[c]>>
      /\ op[c] \in ops
  BY <1>1, <1>4 DEF Mine
<1>6. PICK d \in [0 .. Len(shape) -> BOOLEAN] : Blocks(shape, d)
  BY AllWellFormed DEF WellFormed
<1>7. shape \in Seq(Kinds) /\ shape # << >> /\ Len(shape) > 0
  BY AllWellFormed
<1>8. reply \in Seq(Lines)
  <2>1. <<c, own[c]>> \in Tasks \X Nat
    BY DEF TypeOK
  <2>2. QED
    BY <1>7, <2>1, ReplyType
<1> HIDE DEF reply
<1>9. << >> \o (<< >> \o reply) = reply
  BY <1>8, ConcatEmptySeq
<1>10. lines'[c] \o fromTor' = reply /\ own'[c] = own[c]
  BY <1>1, <1>3, <1>5, <1>9 DEF reply
<1>11. inData'[c] = d[0] /\ Len(lines'[c]) = 0
  <2>1. inData[c] = FALSE /\ d[0] = FALSE
    BY <1>3, <1>6 DEF Blocks, TypeOK
  <2>2. QED
    BY <1>1, <1>3, <2>1
<1>12. Receives(c, shape, d)'
  BY <1>1, <1>5, <1>6, <1>7, <1>10, <1>11 DEF Receives, reply
<1>13. Answered(c)'
  BY <1>4, <1>12 DEF Answered
<1>14. QED
  BY <1>1, <1>2, <1>13 DEF InStep

(* readReply takes the next line of its reply.                             *)
LEMMA LineReceived ==
    ASSUME TypeOK, WellFormedReplies, NEW c \in Tasks, InStep(c), ReadLine(c)
    PROVE  InStep(c)'
<1> DEFINE line == Head(fromTor)
           reply == Append(lines[c], line)
           m == Len(lines[c])
<1>1. /\ pc[c] = "reading" /\ fromTor # << >> /\ fromTor \in Seq(Lines)
      /\ lines[c] \in Seq(Lines)
      /\ fromTor' = Tail(fromTor)
      /\ lines'[c] = reply
      /\ inData'[c] = (IF inData[c] THEN line.kind # "dot" ELSE line.kind = "open")
      /\ UNCHANGED <<own, op, toTor, closed>>
      /\ \/ GoesOn(c, line.kind) /\ pc' = pc /\ outcome' = outcome
         \/ ~GoesOn(c, line.kind) /\ pc'[c] = "resumed"
            /\ outcome'[c] = ParseReply(reply)
  BY DEF ReadLine, TakesLine, Resume, TypeOK
<1>2. Answered(c)
  BY <1>1 DEF InStep, Asked
<1>13. PICK shape \in AllShapes :
           \E d \in [0 .. Len(shape) -> BOOLEAN] : Receives(c, shape, d)
  BY <1>2 DEF Answered
<1>14. PICK d \in [0 .. Len(shape) -> BOOLEAN] : Receives(c, shape, d)
  BY <1>13
<1>3. /\ Blocks(shape, d)
      /\ lines[c] \o fromTor = Reply(<<c, own[c]>>, shape)
      /\ m < Len(shape) /\ inData[c] = d[m]
      /\ op[c] = "setevents" => shape = <<"err">>
      /\ shape \in Seq(Kinds)
  BY <1>14, AllWellFormed DEF Receives
<1>4. /\ line \in Lines /\ Tail(fromTor) \in Seq(Lines)
      /\ reply \in Seq(Lines) /\ Len(reply) = m + 1
      /\ m \in Nat /\ m + 1 \in 1 .. Len(shape) /\ (m + 1) - 1 = m
      /\ Len(shape) \in Nat
  BY <1>1, <1>3
<1>5. reply \o Tail(fromTor) = lines[c] \o fromTor
  <2>1. <<line>> \in Seq(Lines) /\ reply = lines[c] \o <<line>>
    <3>1. \A s \in Seq(Lines), x \in Lines :
              <<x>> \in Seq(Lines) /\ Append(s, x) = s \o <<x>>
      OBVIOUS
    <3>2. QED
      BY <1>1, <1>4, <3>1
  <2>2. fromTor = <<line>> \o Tail(fromTor)
    BY <1>1
  <2> HIDE DEF line, reply
  <2>3. (lines[c] \o <<line>>) \o Tail(fromTor) = lines[c] \o (<<line>> \o Tail(fromTor))
    BY <1>1, <1>4, <2>1, ConcatAssociative
  <2>4. QED
    BY <2>1, <2>2, <2>3
<1>6. line.kind = shape[m + 1]
  <2>1. (lines[c] \o fromTor)[m + 1] = line
    BY <1>1
  <2>2. Reply(<<c, own[c]>>, shape)[m + 1] = [cmd |-> <<c, own[c]>>, kind |-> shape[m + 1]]
    BY <1>3, <1>4 DEF Reply
  <2>3. QED
    BY <1>3, <2>1, <2>2
<1> HIDE DEF line, reply, m
<1>7. /\ d[m + 1] = IF d[m] THEN shape[m + 1] # "dot" ELSE shape[m + 1] = "open"
      /\ (d[m] \/ shape[m + 1] \in {"mid", "open"}) <=> m + 1 < Len(shape)
  BY <1>3, <1>4 DEF Blocks
<1>8. GoesOn(c, line.kind) <=> m + 1 < Len(shape)
  BY <1>3, <1>6, <1>7 DEF GoesOn
<1>9. CASE GoesOn(c, line.kind)
  <2>1. inData'[c] = d[m + 1]
    BY <1>1, <1>3, <1>6, <1>7
  <2>2. Receives(c, shape, d)'
    BY <1>1, <1>3, <1>4, <1>5, <1>8, <1>9, <2>1 DEF Receives
  <2>3. Answered(c)'
    BY <1>1, <1>2, <2>2 DEF Answered
  <2>4. pc'[c] = "reading"
    BY <1>1, <1>9
  <2>5. QED
    BY <2>3, <2>4 DEF InStep
<1>10. CASE ~GoesOn(c, line.kind)
  <2>1. m + 1 = Len(shape)
    BY <1>4, <1>8, <1>10
  <2>2. Tail(fromTor) = << >> /\ reply = Reply(<<c, own[c]>>, shape)
    <3>1. Len(Reply(<<c, own[c]>>, shape)) = Len(shape)
      BY <1>3 DEF Reply
    <3>2. Len(reply \o Tail(fromTor)) = Len(reply) + Len(Tail(fromTor))
      BY <1>4
    <3>3. Len(Tail(fromTor)) = 0
      <4>1. Len(reply) + Len(Tail(fromTor)) = Len(shape)
        BY <1>3, <1>5, <3>1, <3>2
      <4>2. Len(Tail(fromTor)) \in Nat
        BY <1>4
      <4>3. QED
        BY <1>4, <2>1, <4>1, <4>2
    <3>4. Tail(fromTor) = << >>
      BY <1>4, <3>3
    <3>5. reply \o << >> = reply
      BY <1>4, ConcatEmptySeq
    <3>6. QED
      BY <1>3, <1>5, <3>4, <3>5
  <2>3. Own(c)'
    BY <1>1, <2>2 DEF Own, AllShapes
  <2>4. closed' \/ toTor' = << >>
    BY <1>1, <1>2 DEF Answered
  <2>5. ASSUME op[c] = "setevents" PROVE outcome'[c] # "success"
    <3>1. shape = <<"err">>
      BY <1>3, <2>5
    <3>2. Len(reply) = 1 /\ reply[1].kind = "err"
      BY <2>2, <3>1 DEF Reply
    <3>3. ParseReply(reply) = "failure"
      BY <3>2 DEF ParseReply
    <3>4. QED
      BY <1>1, <1>10, <3>3
  <2>6. QED
    BY <1>1, <1>10, <2>2, <2>3, <2>4, <2>5 DEF InStep
<1>11. QED
  BY <1>9, <1>10

(* The caller and its connection stay as they are, but Tor may end it.     *)
LEMMA StepKept ==
    ASSUME NEW c \in Tasks, InStep(c), closed => closed',
           UNCHANGED <<pc, op, own, lines, inData, outcome, toTor, fromTor>>
    PROVE  InStep(c)'
<1>1. Asked(c) => Asked(c)'
  BY DEF Asked, Mine
<1>2. \A shape, d : Receives(c, shape, d) => Receives(c, shape, d)'
  BY DEF Receives
<1>3. Answered(c) => Answered(c)'
  BY <1>2 DEF Answered
<1>4. QED
  BY <1>1, <1>3 DEF InStep, Answer, Own

LEMMA AloneKept ==
    ASSUME TypeOK, WellFormedReplies, NEW c \in Tasks, OneCaller(c), AloneInv(c),
           [Next]_vars
    PROVE  AloneInv(c)'
<1>1. \A t \in Tasks : t # c => pc'[t] = "idle"
  BY OthersIdle
<1> SUFFICES ASSUME Calm'
             PROVE  InStep(c)' /\ \A t \in Tasks : loop'[t] = "none"
  BY <1>1 DEF AloneInv
<1>2. Calm /\ InStep(c) /\ \A t \in Tasks : loop[t] = "none"
  BY CalmBefore DEF AloneInv
<1>3. /\ pc \in [Tasks -> Labels] /\ lines \in [Tasks -> Seq(Lines)]
      /\ inData \in [Tasks -> BOOLEAN] /\ op \in [Tasks -> Ops]
      /\ outcome \in [Tasks -> Outcomes] /\ own \in [Tasks -> Nat]
      /\ closed \in BOOLEAN /\ events \in BOOLEAN /\ toTor \in Seq(Commands)
  BY DEF TypeOK
<1>4. ASSUME NEW o, pc[c] # "reading", SendCommand(c, o), UNCHANGED clientVars
      PROVE  InStep(c)' /\ \A t \in Tasks : loop'[t] = "none"
  <2>1. /\ pc'[c] = "queued" /\ lines'[c] = << >> /\ inData'[c] = FALSE
        /\ UNCHANGED <<toTor, fromTor, closed, loop>>
    BY <1>3, <1>4 DEF SendCommand, peerVars, clientVars
  <2>2. QED
    BY <1>2, <1>4, <2>1 DEF InStep
<1>5. ASSUME pc[c] # "reading", Returns(c), UNCHANGED loop
      PROVE  InStep(c)' /\ \A t \in Tasks : loop'[t] = "none"
  <2>1. pc'[c] = "idle" /\ UNCHANGED <<toTor, fromTor, closed>>
    BY <1>3, <1>5 DEF Returns, peerVars
  <2>2. QED
    BY <1>2, <1>5, <2>1 DEF InStep
<1>6. CASE CallStep(c)
  <2>1. pc[c] = "idle" /\ (\E o : SendCommand(c, o)) /\ UNCHANGED clientVars
    BY <1>6 DEF CallStep, Command, Authenticate, Subscribe, Calls
  <2>2. QED
    BY <1>4, <2>1
<1>7. CASE WriteLine(c) /\ UNCHANGED clientVars
  <2>1. /\ pc[c] = "queued" /\ ~closed /\ pc'[c] = "reading"
        /\ toTor' = Append(toTor, [cmd |-> <<c, own[c]>>, op |-> op[c]])
        /\ UNCHANGED <<own, op, lines, inData, fromTor, closed, loop>>
    BY <1>3, <1>7 DEF WriteLine, Reads, clientVars
  <2>2. /\ fromTor = << >> /\ toTor = << >> /\ lines[c] = << >> /\ ~inData[c]
    BY <1>2, <2>1 DEF InStep
  <2>3. toTor' = <<Mine(c)>>
    BY <2>1, <2>2 DEF Mine
  <2>4. Mine(c)' = Mine(c)
    BY <2>1 DEF Mine
  <2>5. Asked(c)'
    BY <2>1, <2>2, <2>3, <2>4 DEF Asked
  <2>6. QED
    BY <1>2, <2>1, <2>5 DEF InStep
<1>8. CASE WriteLost(c) /\ UNCHANGED clientVars
  <2>1. /\ pc[c] = "queued" /\ closed
        /\ UNCHANGED <<own, op, lines, inData, toTor, fromTor, closed, loop>>
    BY <1>8 DEF WriteLost, peerVars, clientVars
  <2>2. fromTor = << >> /\ lines[c] = << >> /\ ~inData[c]
    BY <1>2, <2>1 DEF InStep
  <2>3. CASE pc'[c] = "resumed" /\ outcome'[c] = "io"
    <3>1. ~Answer(c)' /\ outcome'[c] # "success"
      BY <2>3 DEF Answer
    <3>2. QED
      BY <1>2, <2>1, <2>2, <2>3, <3>1 DEF InStep
  <2>4. CASE pc'[c] = "reading"
    <3>1. Asked(c)'
      BY <2>1, <2>2 DEF Asked
    <3>2. QED
      BY <1>2, <2>1, <2>4, <3>1 DEF InStep
  <2>5. QED
    BY <1>3, <1>8, <2>3, <2>4 DEF WriteLost, Resume, Reads
<1>9. CASE AcquireLock(c) /\ UNCHANGED clientVars
  <2>1. UNCHANGED <<pc, op, own, lines, inData, outcome, toTor, fromTor, closed, loop>>
    BY <1>9 DEF AcquireLock, peerVars, clientVars
  <2>2. QED
    BY <1>2, <2>1, StepKept
<1>10. CASE ReadLine(c) /\ UNCHANGED clientVars
  BY <1>2, <1>10, LineReceived DEF clientVars
<1>11. CASE ReadFails(c) /\ UNCHANGED clientVars
  <2>1. /\ closed /\ fromTor = << >> /\ pc'[c] = "resumed" /\ outcome'[c] = "io"
        /\ UNCHANGED <<toTor, fromTor, closed, loop>>
    BY <1>3, <1>11 DEF ReadFails, Resume, peerVars, clientVars
  <2>2. ~Answer(c)' /\ outcome'[c] # "success"
    BY <2>1 DEF Answer
  <2>3. QED
    BY <1>2, <2>1, <2>2 DEF InStep
<1>12. CASE ReadTimesOut(c)
  BY <1>12 DEF ReadTimesOut, Calm
<1>13. CASE ReturnStep(c)
  <2>1. pc[c] = "resumed"
    BY <1>13 DEF ReturnStep, CommandReturns, AuthSucceeds, AuthFallsBack,
       AuthThrows, SubscribeReturns
  <2>2. CASE AuthFallsBack(c)
    BY <1>4, <2>1, <2>2 DEF AuthFallsBack
  <2>3. CASE CommandReturns(c) \/ AuthSucceeds(c) \/ AuthThrows(c)
    BY <1>5, <2>1, <2>3 DEF CommandReturns, AuthSucceeds, AuthThrows, clientVars
  <2>4. CASE SubscribeReturns(c)
    <3>1. outcome[c] # "success"
      BY <1>2, <2>1, <2>4 DEF InStep, SubscribeReturns
    <3>2. QED
      BY <1>5, <2>1, <2>4, <3>1 DEF SubscribeReturns
  <2>5. QED
    BY <1>13, <2>2, <2>3, <2>4 DEF ReturnStep
<1>14. ASSUME NEW t \in Tasks, LoopStep(t)
       PROVE  FALSE
  BY <1>2, <1>14 DEF LoopStep, LoopAcquires, LoopReads, LoopEnds, TakesLine, TypeOK
<1>15. CASE TorStep
  <2>1. UNCHANGED <<socketVars, clientVars>>
    BY <1>15 DEF TorStep
  <2>2. /\ loop' = loop
        /\ <<"ok">> \in AllShapes /\ <<"err">> \in AllShapes
        /\ \A shape \in Shapes : shape \in AllShapes
    BY <2>1 DEF AllShapes, clientVars
  <2>3. CASE TorServes
    <3>1. PICK shape \in Shapes : TorAnswers({"getinfo"}, shape)
      BY <2>3 DEF TorServes
    <3>2. closed' = closed /\ "setevents" \notin {"getinfo"}
      BY <2>3 DEF TorServes
    <3>3. InStep(c)'
      BY <1>2, <1>3, <2>1, <2>2, <3>1, <3>2, AnswerReceived
    <3>4. QED
      BY <1>2, <2>2, <3>3
  <2>4. CASE TorSetsEvents
    BY <2>4 DEF TorSetsEvents, Calm
  <2>5. CASE TorAuthenticates
    <3>1. TorAnswers(Accepted, <<"ok">>) /\ closed' = closed
      BY <2>5 DEF TorAuthenticates
    <3>2. "setevents" \notin Accepted
      BY PeerKnown DEF Methods
    <3>3. InStep(c)'
      BY <1>2, <1>3, <2>1, <2>2, <3>1, <3>2, AnswerReceived
    <3>4. QED
      BY <1>2, <2>2, <3>3
  <2>6. CASE TorRefuses
    <3>1. PICK ops : TorAnswers(ops, <<"err">>)
      BY <2>6 DEF TorRefuses
    <3>2. closed' \in BOOLEAN
      BY <2>6 DEF TorRefuses
    <3>3. InStep(c)'
      BY <1>2, <2>1, <2>2, <3>1, <3>2, AnswerReceived
    <3>4. QED
      BY <1>2, <2>2, <3>3
  <2>7. CASE TorEmits
    BY <1>2, <2>7 DEF TorEmits, Calm
  <2>8. CASE TorCloses
    <3>1. /\ closed' = TRUE /\ UNCHANGED <<toTor, fromTor>>
          /\ UNCHANGED <<pc, op, own, lines, inData, outcome>>
      BY <2>1, <2>8 DEF TorCloses, socketVars
    <3>2. QED
      BY <1>2, <2>2, <3>1, StepKept
  <2>9. QED
    BY <1>15, <2>3, <2>4, <2>5, <2>6, <2>7, <2>8 DEF TorStep, TorTakes
<1>16. CASE UNCHANGED vars
  <2>1. UNCHANGED <<pc, op, own, lines, inData, outcome, toTor, fromTor, closed, loop>>
    BY <1>16 DEF vars, peerVars, socketVars, clientVars
  <2>2. QED
    BY <1>2, <2>1, StepKept
<1>17. QED
  BY OthersIdle, <1>6, <1>7, <1>8, <1>9, <1>10, <1>11, <1>12, <1>13, <1>14, <1>15,
     <1>16 DEF SocketStep

(* A task that has the connection for itself is answered by its own        *)
(* replies, data blocks included, until a call times out or it asks for    *)
(* events.                                                                 *)
THEOREM OneCallerAnswered ==
    ASSUME WellFormedReplies, NEW c \in Tasks, OneCaller(c)
    PROVE  Spec => []AnsweredOwn
<1>1. Init => AloneInv(c)
  BY DEF Init, PeerInit, SocketInit, AloneInv, InStep
<1>2. TypeOK /\ AloneInv(c) /\ [Next]_vars => AloneInv(c)'
  BY AloneKept
<1>3. AloneInv(c) => AnsweredOwn
  BY DEF AloneInv, AnsweredOwn, InStep, Calm
<1>4. QED
  BY <1>1, <1>2, <1>3, TypeCorrect, PTL DEF Spec
=============================================================================
