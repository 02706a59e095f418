---------------------------- MODULE ReplyFraming ----------------------------
(***************************************************************************)
(* ControlSocket below the level of lines, for a single task: the bytes on *)
(* their way, the read buffer, readLine with its deadline and the timeout  *)
(* it sets for each recv, readReply and parseReply.                        *)
(*                                                                         *)
(* The bytes are tokens: the text of a line, CR and LF.  A recv returns    *)
(* any of them that are there, so a line may come in pieces, several at a  *)
(* time, or with its CR and its LF apart.                                  *)
(***************************************************************************)
EXTENDS ReplyGrammar
LOCAL INSTANCE SequencesExt

CONSTANTS
    Replies,             \* what Tor may have to say
    Undecodable,         \* the texts that are not UTF-8
    Faults,              \* a subset of FaultKinds
    MaxCalls             \* bound: commands

(* "timeout"  a deadline may pass    "close"  Tor may end the connection   *)
FaultKinds == {"timeout", "close"}

ASSUME RepliesKnown ==
    /\ Replies \subseteq AnyReply
    /\ Undecodable \subseteq Texts
    /\ "" \notin Texts
    /\ Faults \subseteq FaultKinds
    /\ MaxCalls \in Nat

VARIABLES
    owed,        \* commands Tor has not answered
    wire,        \* bytes sent and not received
    closed,      \* Tor has ended the connection
    buffer,      \* readBuffer
    rcvtimeo,    \* SO_RCVTIMEO of the socket is not zero
    pc,          \* where the call is
    expired,     \* the deadline of readLine has passed
    lines,       \* lines readReply has collected
    inData,      \* readReply is in a data block
    outcome,     \* how the last call ended
    reply,       \* the last reply that was parsed
    calls,       \* how many commands were sent
    sent,        \* history: replies sent and not delivered, as Tor meant them
    intact       \* history: no line was lost and no reply given up

peerVars == <<owed, wire, closed>>
callVars == <<lines, inData, outcome, reply, calls, sent, intact>>
vars == <<peerVars, buffer, rcvtimeo, pc, expired, callVars>>

(* "enter" the first look at the buffer, "check" the loop's condition,     *)
(* "arm" setSocketTimeout, "recv" in recv                                  *)
Labels == {"idle", "enter", "check", "arm", "recv"}
Outcomes == {"none", "reply", "invalid", "timeout", "io"}

CR == <<"CR">>
LF == <<"LF">>
Bytes == {CR, LF} \cup ({"text"} \X Lines)

LineBytes(l) == (IF l = Blank THEN << >> ELSE <<<<"text", l>>>>) \o <<CR, LF>>
ToBytes(ls) == FlattenSeq([i \in DOMAIN ls |-> LineBytes(ls[i])])

Init ==
    /\ owed = 0
    /\ wire = << >>
    /\ closed = FALSE
    /\ buffer = << >>
    /\ rcvtimeo = FALSE
    /\ pc = "idle"
    /\ expired = FALSE
    /\ lines = << >>
    /\ inData = FALSE
    /\ outcome = "none"
    /\ reply = Nothing
    /\ calls = 0
    /\ sent = << >>
    /\ intact = TRUE

-----------------------------------------------------------------------------
(* Tor answers the commands in order, and may end the connection.          *)

TorAnswers(r) ==
    /\ owed > 0 /\ ~closed
    /\ owed' = owed - 1
    /\ wire' = wire \o ToBytes(Format(r))
    /\ sent' = Append(sent, r)
    /\ UNCHANGED <<closed, buffer, rcvtimeo, pc, expired, lines, inData,
                   outcome, reply, calls, intact>>

(* What Tor has not flushed when it ends the connection is lost.           *)
TorCloses ==
    /\ "close" \in Faults
    /\ ~closed
    /\ closed' = TRUE
    /\ \E n \in 0 .. Len(wire) : wire' = SubSeq(wire, 1, n)
    /\ UNCHANGED <<owed, buffer, rcvtimeo, pc, expired, callVars>>

-----------------------------------------------------------------------------
(* sendCommand: the command is written and readReply begins.               *)
SendCommand ==
    /\ pc = "idle" /\ calls < MaxCalls /\ ~closed
    /\ owed' = owed + 1
    /\ calls' = calls + 1
    /\ pc' = "enter"
    /\ outcome' = "none"
    /\ UNCHANGED <<wire, closed, buffer, rcvtimeo, expired, lines, inData,
                   reply, sent, intact>>

\* mutant: readReply reads on after it has failed or returned
EndsAndReadsOn(result) ==
    /\ pc' = "enter"
    /\ outcome' = result
    /\ lines' = << >>
    /\ inData' = FALSE

(* readReply is over, and its local variables with it.                     *)
Ends(result) ==
    /\ pc' = "idle"
    /\ outcome' = result
    /\ lines' = << >>
    /\ inData' = FALSE

(* readLine has line l for readReply.                                      *)
GetsLine(l) ==
    LET raw == Append(lines, l)
        parsed == ParseReply(raw)
    IN  \/ /\ GoesOn(inData, l)
           /\ pc' = "enter"
           /\ lines' = raw
           /\ inData' = InDataAfter(inData, l)
           /\ UNCHANGED <<outcome, reply, sent>>
        \/ /\ ~GoesOn(inData, l)
           /\ Ends(IF parsed.valid THEN "reply" ELSE "invalid")
           /\ reply' = IF parsed.valid THEN parsed.reply ELSE reply
           /\ sent' = IF sent = << >> THEN sent ELSE Tail(sent)

(* extractLine: the first CR LF ends a line, here before position e.       *)
LineEnds(b) == {i \in 2 .. Len(b) : b[i - 1] = CR /\ b[i] = LF}
HasLine(b) == LineEnds(b) # {}
LineBefore(b, e) == IF e = 2 THEN Blank ELSE b[1][2]

\* mutant: what follows the first line in the buffer is not kept
DropsRest(b, e) == << >>

AfterLine(b, e) == SubSeq(b, e + 1, Len(b))
Decodes(l) == l.text \notin Undecodable

(* A line that is not UTF-8 is removed, and extractLine returns nil as     *)
(* though there were none.                                                 *)
NoLine(b) ==
    /\ ~HasLine(b)
    /\ buffer' = b
    /\ pc' = "check"
    /\ UNCHANGED callVars

Extracts(b) ==
    \E e \in LineEnds(b) :
        /\ \A i \in LineEnds(b) : e <= i
        /\ buffer' = AfterLine(b, e)
        /\ LET l == LineBefore(b, e)
           IN  \/ /\ Decodes(l)
                  /\ GetsLine(l)
                  /\ UNCHANGED <<calls, intact>>
               \/ /\ ~Decodes(l)
                  /\ pc' = "check"
                  /\ intact' = FALSE
                  /\ UNCHANGED <<lines, inData, outcome, reply, calls, sent>>

\* mutant: readLine does not look into the buffer before it waits
SkipsBuffer ==
    /\ pc = "enter"
    /\ pc' = "check"
    /\ expired' = FALSE
    /\ UNCHANGED <<peerVars, buffer, rcvtimeo, callVars>>

(* The deadline begins when there is no line yet.                          *)
ReadLine ==
    /\ pc = "enter"
    /\ NoLine(buffer) \/ Extracts(buffer)
    /\ expired' = FALSE
    /\ UNCHANGED <<peerVars, rcvtimeo>>

TimePasses ==
    /\ "timeout" \in Faults
    /\ pc \in {"check", "arm", "recv"}
    /\ ~expired
    /\ expired' = TRUE
    /\ UNCHANGED <<peerVars, buffer, rcvtimeo, pc, callVars>>

\* mutant: the loop of readLine does not look at its deadline
NeverGivesUp ==
    /\ pc = "check"
    /\ pc' = "arm"
    /\ UNCHANGED <<peerVars, buffer, rcvtimeo, expired, callVars>>

(* The condition of the loop.  The lines collected so far are dropped.     *)
CheckDeadline ==
    /\ pc = "check"
    /\ \/ /\ ~expired
          /\ pc' = "arm"
          /\ UNCHANGED <<lines, inData, outcome, intact>>
       \/ /\ expired
          /\ Ends("timeout")
          /\ intact' = FALSE
    /\ UNCHANGED <<peerVars, buffer, rcvtimeo, expired, reply, calls, sent>>

(* setSocketTimeout, with the time that is left now.  Less than a micro-   *)
(* second on either side of the deadline is truncated to a timeval of      *)
(* zero, which stands for no timeout; a longer delay gives a negative one, *)
(* which setsockopt refuses, and the socket keeps what it had.             *)
LeftNow ==
    IF expired THEN {"none", "negative"}
    ELSE IF "timeout" \in Faults THEN {"some", "none"}
    ELSE {"some"}

SetSocketTimeout ==
    /\ pc = "arm"
    /\ \E left \in LeftNow :
           rcvtimeo' = IF left = "negative" THEN rcvtimeo ELSE left = "some"
    /\ pc' = "recv"
    /\ UNCHANGED <<peerVars, buffer, expired, callVars>>

Recv ==
    /\ pc = "recv"
    /\ \E n \in 1 .. Len(wire) :
           /\ LET all == buffer \o SubSeq(wire, 1, n)
              IN  NoLine(all) \/ Extracts(all)
           /\ wire' = SubSeq(wire, n + 1, Len(wire))
    /\ UNCHANGED <<owed, closed, rcvtimeo, expired>>

(* EAGAIN.                                                                 *)
RecvTimesOut ==
    /\ pc = "recv" /\ wire = << >> /\ ~closed
    /\ rcvtimeo
    /\ pc' = "check"
    /\ UNCHANGED <<peerVars, buffer, rcvtimeo, expired, callVars>>

(* EINTR.                                                                  *)
RecvInterrupted ==
    /\ pc = "recv"
    /\ pc' = "check"
    /\ UNCHANGED <<peerVars, buffer, rcvtimeo, expired, callVars>>

(* recv returns 0.                                                         *)
RecvFails ==
    /\ pc = "recv" /\ wire = << >> /\ closed
    /\ Ends("io")
    /\ intact' = FALSE
    /\ UNCHANGED <<peerVars, buffer, rcvtimeo, expired, reply, calls, sent>>

Reader ==
    \/ ReadLine
    \/ CheckDeadline
    \/ SetSocketTimeout
    \/ Recv
    \/ RecvTimesOut
    \/ RecvFails

Next ==
    \/ SendCommand
    \/ Reader
    \/ RecvInterrupted
    \/ TimePasses
    \/ (\E r \in Replies : TorAnswers(r))
    \/ TorCloses

Spec == Init /\ [][Next]_vars

(* The thread runs, and time passes.  Tor need not answer, and signals may *)
(* interrupt it.                                                           *)
FairSpec == Spec /\ WF_vars(Reader) /\ WF_vars(TimePasses)

-----------------------------------------------------------------------------
(* Besides the types: a call has no outcome until it is over, and between  *)
(* calls nothing is collected.                                             *)
TypeOK ==
    /\ owed \in Nat /\ calls \in Nat
    /\ wire \in Seq(Bytes) /\ buffer \in Seq(Bytes)
    /\ closed \in BOOLEAN /\ rcvtimeo \in BOOLEAN /\ expired \in BOOLEAN
    /\ pc \in Labels
    /\ lines \in Seq(Lines)
    /\ inData \in BOOLEAN /\ intact \in BOOLEAN
    /\ outcome \in Outcomes
    /\ sent \in Seq(Replies)
    /\ IF pc = "idle" THEN lines = << >> ELSE outcome = "none"

(* Until a deadline passes or a line cannot be decoded, what readReply has *)
(* collected, what is in the read buffer and what is on its way are,       *)
(* together and in this order, the replies that were sent; nothing is lost *)
(* at the seams between recv, extractLine and readReply, and Tor's end     *)
(* takes away nothing but the last of it.                                  *)
Undelivered == ToBytes(FlattenSeq([i \in DOMAIN sent |-> Format(sent[i])]))

NothingLost ==
    intact => LET found == ToBytes(lines) \o buffer \o wire
              IN  IF closed THEN IsPrefix(found, Undelivered)
                  ELSE found = Undelivered

(* readLine waits for more bytes only when it has no whole line, as long   *)
(* as every line was UTF-8.  Otherwise it would wait, and time out, with   *)
(* the answer in its hands.                                                *)
WaitsForMore ==
    pc \in {"check", "arm", "recv"} /\ intact => ~HasLine(buffer)

(* Whatever Tor does, a call ends, unless setSocketTimeout has switched    *)
(* the timeout of recv off by truncating the time left to zero.            *)
ReadEnds == pc # "idle" ~> pc = "idle" \/ (pc = "recv" /\ ~rcvtimeo)

Channel == INSTANCE ReplyChannel
    WITH queue <- sent, got <- reply, Empty <- Nothing

(* Replies are received as they were sent, whole, in order and with the    *)
(* meaning Tor gave them, however the bytes arrive.                        *)
ImplementsChannel == Channel!Spec
=============================================================================
