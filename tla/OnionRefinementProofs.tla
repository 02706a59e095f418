------------------------ MODULE OnionRefinementProofs ------------------------
(***************************************************************************)
(* OnionServices implements OnionRegistry, for every value of the          *)
(* constants.                                                              *)
(***************************************************************************)
EXTENDS OnionProofs

-----------------------------------------------------------------------------
(* The mapped calls.                                                       *)

call == [c \in Clients |-> CallOf(c)]
ended == {c \in Clients : ~attached[c]}

LEMMA SharedTypes ==
    /\ Registry!Requests = Requests
    /\ Registry!NoRequest = NoRequest
    /\ Registry!NoResult = NoResult
    /\ \A kind : Registry!Verdict(kind) = Verdict(kind)
    /\ \A k, b : Registry!Made(k, b) = Made(k, b)
BY DEF Registry!Requests, Requests, Registry!NoRequest, NoRequest,
       Registry!NoResult, NoResult, Registry!Verdict, Verdict, Registry!Made,
       Made, Registry!Del, Del

(* Nothing that CallOf looks at changes for client d.                      *)
Same(d) ==
    /\ pc'[d] = pc[d] /\ request'[d] = request[d] /\ outcome'[d] = outcome[d]
    /\ fromTor'[d] = fromTor[d] /\ attached'[d] = attached[d]

LEMMA SameCall ==
    ASSUME NEW c \in Clients, \A d \in Clients \ {c} : Same(d)
    PROVE  /\ call' = [call EXCEPT ![c] = call'[c]]
           /\ Same(c) => call' = call
           /\ \A x : CallOf(c)' = x => call' = [call EXCEPT ![c] = x]
<1>1. ASSUME NEW d \in Clients, Same(d) PROVE CallOf(d)' = CallOf(d)
  BY <1>1 DEF Same, CallOf
<1>2. \A d \in Clients \ {c} : call'[d] = call[d]
  BY <1>1 DEF call
<1>3. call' = [call EXCEPT ![c] = call'[c]]
  BY <1>2 DEF call
<1>4. Same(c) => call' = call
  BY <1>1, <1>2 DEF call
<1>5. call'[c] = CallOf(c)'
  BY DEF call
<1> QED
  BY <1>3, <1>4, <1>5

(* What a call is, by where its request or its reply is.                   *)
LEMMA CallIs ==
    ASSUME TypeOK, NEW c \in Clients
    PROVE  /\ pc[c] # "waiting" => CallOf(c) = Registry!Over(outcome[c])
           /\ pc[c] = "waiting" /\ fromTor[c] # << >> =>
                  CallOf(c) = Registry!Done(request[c],
                                            Result(request[c], Head(fromTor[c])))
           /\ pc[c] = "waiting" /\ fromTor[c] = << >> /\ attached[c] =>
                  CallOf(c) = Registry!Asked(request[c])
           /\ pc[c] = "waiting" /\ fromTor[c] = << >> /\ ~attached[c] =>
                  CallOf(c) = Registry!Lost(request[c])
<1>1. pc[c] # "waiting" => request[c] = NoRequest
  BY DEF TypeOK
<1> QED
  BY <1>1, SharedTypes
     DEF CallOf, Registry!Over, Registry!Done, Registry!Asked, Registry!Lost

(* A client that went astray may do anything to its own call.              *)
LEMMA Wanders ==
    ASSUME TypeOK, NEW c \in Clients, late[c], UNCHANGED <<late, attached>>,
           \A d \in Clients \ {c} : Same(d),
           \/ UNCHANGED owner
           \/ /\ attached[c]
              /\ \E r \in Requests : owner' = Registry!Effect(c, r)
    PROVE  Registry!Wander(c)
<1>1. call' = [call EXCEPT ![c] = call'[c]]
  BY SameCall
<1>2. c \notin ended \/ UNCHANGED owner
  BY DEF ended
<1> QED
  BY <1>1, <1>2, SharedTypes DEF Registry!Wander, call, ended

LEMMA AsksRefines ==
    ASSUME AccountInv, NEW c \in Clients, NEW r \in Requests, Sends(c, r)
    PROVE  Registry!Ask(c) \/ Registry!Wander(c)
<1>1. /\ pc \in [Clients -> Labels]
      /\ request \in [Clients -> Requests \cup {NoRequest}] /\ TypeOK
  BY DEF AccountInv, KeysInv, TypeOK
<1>2. /\ pc[c] = "idle" /\ pc' = [pc EXCEPT ![c] = "waiting"]
      /\ request' = [request EXCEPT ![c] = r]
      /\ UNCHANGED <<fromTor, attached, owner, outcome, late>>
  BY DEF Sends, torVars
<1>3. \A d \in Clients \ {c} : Same(d)
  BY <1>1, <1>2 DEF Same
<1>4. CASE late[c]
  BY <1>1, <1>2, <1>3, <1>4, Wanders
<1>5. CASE ~late[c]
  <2>1. fromTor[c] = << >>
    BY <1>2, <1>5 DEF AccountInv, InTurn
  <2>2. CallOf(c)' = IF c \in ended THEN Registry!Lost(r) ELSE Registry!Asked(r)
    BY <1>1, <1>2, <2>1, SharedTypes
       DEF CallOf, ended, Registry!Lost, Registry!Asked
  <2>3. call' = [call EXCEPT ![c] =
                     IF c \in ended THEN Registry!Lost(r) ELSE Registry!Asked(r)]
    BY <1>3, <2>2, SameCall
  <2>4. call[c].phase = "over"
    BY <1>2 DEF call, CallOf
  <2>5. ended' = ended
    BY <1>2 DEF ended
  <2> QED
    BY <1>2, <2>3, <2>4, <2>5, SharedTypes DEF Registry!Ask, call, ended
<1> QED
  BY <1>4, <1>5

-----------------------------------------------------------------------------
(* Tor takes a request: that is the moment at which the call takes effect. *)

(* What Tor answers is read as what the request did.                       *)
LEMMA AnswersRead ==
    ASSUME NEW r \in Requests
    PROVE  /\ r.op \in {"new", "given"} =>
                  /\ Result(r, AddReply(r))
                         = Made(r.key, r.op = "new" /\ ~r.discard)
                  /\ Result(r, <<Line("error", NoKey)>>) = Verdict("refused")
           /\ r.op = "del" =>
                  /\ Result(r, <<Ok>>) = Verdict("removed")
                  /\ Result(r, <<Line("unknown", NoKey)>>) = Verdict("unknown")
<1>1. r.key \in Keys /\ r.key # NoKey
  BY TypesKnown DEF Requests
<1>2. ASSUME r.op \in {"new", "given"}
      PROVE  Result(r, AddReply(r)) = Made(r.key, r.op = "new" /\ ~r.discard)
  <2> DEFINE lines == AddReply(r)
  <2>1. lines \in Seq(ReplyLines) /\ TellsOf(r.key, lines)
    BY ReplyTypes DEF TellsOf, AddReply, Line, Ok
  <2>2. lines[1].kind = "id" /\ 1 \in DOMAIN lines
    BY DEF AddReply, Line, Ok
  <2>3. IF r.op = "new" /\ ~r.discard
        THEN 2 \in DOMAIN lines /\ lines[2].kind = "private"
        ELSE \A i \in DOMAIN lines : lines[i].kind # "private"
    BY DEF AddReply, Line, Ok
  <2> HIDE DEF lines
  <2>4. Field(lines, "id") = r.key
    BY <2>1, <2>2, FieldIsTheKey
  <2>5. Field(lines, "private")
            = IF r.op = "new" /\ ~r.discard THEN r.key ELSE NoKey
    <3>1. CASE r.op = "new" /\ ~r.discard
      BY <2>1, <2>3, <3>1, FieldIsTheKey
    <3>2. CASE ~(r.op = "new" /\ ~r.discard)
      BY <2>1, <2>3, <3>2, FieldOfALine
    <3> QED
      BY <3>1, <3>2
  <2>6. Result(r, lines) = Service(r.key, Field(lines, "private"))
    BY <1>1, <1>2, <2>2, <2>4 DEF Result, ParseAddOnionResponse, IsSuccess
  <2>7. QED
    BY <2>5, <2>6 DEF Service, Made, lines
<1>3. ASSUME r.op \in {"new", "given"}
      PROVE  Result(r, <<Line("error", NoKey)>>) = Verdict("refused")
  BY <1>3 DEF Result, ParseAddOnionResponse, IsSuccess, Line
<1>4. ASSUME r.op = "del"
      PROVE  /\ Result(r, <<Ok>>) = Verdict("removed")
             /\ Result(r, <<Line("unknown", NoKey)>>) = Verdict("unknown")
  BY <1>4 DEF Result, DelOnionResult, IsSuccess, Line, Ok
<1> QED
  BY <1>2, <1>3, <1>4

(* A request that Tor takes and answers as the registry says.              *)
LEMMA ActsRefines ==
    ASSUME AccountInv, NEW c \in Clients, toTor[c] # << >>, attached[c],
           NEW lines \in Seq(ReplyLines), Replies(c, lines),
           NEW r \in Requests, r = Head(toTor[c]),
           owner' = Registry!Effect(c, r),
           Result(r, lines) = Registry!Answer(c, r)
    PROVE  Registry!Act(c) \/ Registry!Wander(c)
<1>1. /\ TypeOK /\ fromTor \in [Clients -> Seq(Seq(ReplyLines))]
  BY DEF AccountInv, KeysInv, TypeOK
<1>2. /\ fromTor' = [fromTor EXCEPT ![c] = Append(@, lines)]
      /\ UNCHANGED <<attached, request, pc, outcome, late>>
  BY DEF Replies, appVars
<1>3. \A d \in Clients \ {c} : Same(d)
  BY <1>1, <1>2 DEF Same
<1>4. CASE late[c]
  BY <1>1, <1>2, <1>3, <1>4, Wanders
<1>5. CASE ~late[c]
  <2>1. r = request[c] /\ pc[c] = "waiting" /\ fromTor'[c] = <<lines>>
    BY <1>5, RepliesAccount
  <2>2. fromTor[c] = << >>
    BY <1>5 DEF AccountInv, InTurn
  <2>3. call[c] = Registry!Asked(r)
    BY <1>1, <2>1, <2>2, CallIs DEF call
  <2>4. <<lines>> # << >> /\ Head(<<lines>>) = lines
    OBVIOUS
  <2>5. CallOf(c)' = Registry!Done(r, Registry!Answer(c, r))
    BY <1>2, <2>1, <2>4 DEF CallOf, Registry!Done
  <2>6. call' = [call EXCEPT ![c] = Registry!Done(r, Registry!Answer(c, r))]
    BY <1>3, <2>5, SameCall
  <2>7. call[c].phase = "asked" /\ call[c].request = r
    BY <2>3 DEF Registry!Asked
  <2>8. ended' = ended /\ late' = late
    BY <1>2 DEF ended
  <2> QED
    BY <2>6, <2>7, <2>8 DEF Registry!Act, call, ended
<1> QED
  BY <1>4, <1>5

LEMMA TorAnswersRefine ==
    ASSUME AccountInv, NEW c \in Clients,
           TorAdds(c) \/ TorRefuses(c) \/ TorDeletes(c)
    PROVE  Registry!Act(c) \/ Registry!Wander(c)
<1>1. /\ toTor[c] # << >> /\ attached[c]
      /\ toTor[c] \in Seq(Requests)
      /\ owner \in [Keys -> Clients \cup {Nobody, Detached}]
  BY DEF TorAdds, TorRefuses, TorDeletes, Takes, AccountInv, KeysInv, TypeOK
<1>2. PICK r \in Requests : r = Head(toTor[c])
  BY <1>1, HeadTailProperties
<1>3. r.key \in Keys /\ r.typed \in BOOLEAN
  BY DEF Requests
<1>4. BadKey(r) <=> r.op = "given" /\ r.typed
  BY DEF BadKey, Parts
<1>5. \A o : [owner EXCEPT ![r.key] = o] = owner <=> owner[r.key] = o
  BY <1>1, <1>3
<1>6. CASE TorAdds(c)
  <2>1. /\ r.op \in {"new", "given"} /\ ~BadKey(r) /\ owner[r.key] = Nobody
        /\ owner' = [owner EXCEPT ![r.key] = IF r.detach THEN Detached ELSE c]
        /\ Replies(c, AddReply(r))
    BY <1>2, <1>6 DEF TorAdds, Takes
  <2>2. Registry!Adds(r)
    BY <1>4, <2>1 DEF Registry!Adds
  <2>3. owner' = Registry!Effect(c, r)
    BY <2>1, <2>2 DEF Registry!Effect
  <2>4. Result(r, AddReply(r)) = Registry!Answer(c, r)
    BY <2>1, <2>2, AnswersRead, SharedTypes DEF Registry!Answer
  <2>5. AddReply(r) \in Seq(ReplyLines)
    BY ReplyTypes
  <2> QED
    BY <1>1, <1>2, <2>1, <2>3, <2>4, <2>5, ActsRefines
<1>7. CASE TorRefuses(c)
  <2>1. /\ r.op \in {"new", "given"} /\ (BadKey(r) \/ owner[r.key] # Nobody)
        /\ owner' = owner /\ Replies(c, <<Line("error", NoKey)>>)
    BY <1>2, <1>7 DEF TorRefuses, Takes
  <2>2. ~Registry!Adds(r) /\ ~Registry!Removes(c, r)
    BY <1>4, <2>1 DEF Registry!Adds, Registry!Removes
  <2>3. owner' = Registry!Effect(c, r)
    BY <1>1, <1>3, <2>1, <2>2 DEF Registry!Effect
  <2>4. Result(r, <<Line("error", NoKey)>>) = Registry!Answer(c, r)
    BY <2>1, <2>2, AnswersRead, SharedTypes DEF Registry!Answer
  <2>5. <<Line("error", NoKey)>> \in Seq(ReplyLines)
    BY ReplyTypes
  <2> QED
    BY <1>1, <1>2, <2>1, <2>3, <2>4, <2>5, ActsRefines
<1>8. CASE TorDeletes(c)
  <2>1. r.op = "del" /\ ~Registry!Adds(r)
    BY <1>2, <1>8 DEF TorDeletes, Takes, Registry!Adds
  <2>2. CASE owner[r.key] \in {c, Detached}
    <3>1. /\ owner' = [owner EXCEPT ![r.key] = Nobody]
          /\ Replies(c, <<Ok>>)
      BY <1>2, <1>8, <2>2 DEF TorDeletes
    <3>2. Registry!Removes(c, r)
      BY <2>1, <2>2 DEF Registry!Removes
    <3>3. owner' = Registry!Effect(c, r)
      BY <2>1, <3>1, <3>2 DEF Registry!Effect
    <3>4. Result(r, <<Ok>>) = Registry!Answer(c, r)
      BY <2>1, <3>2, AnswersRead, SharedTypes DEF Registry!Answer
    <3>5. <<Ok>> \in Seq(ReplyLines)
      BY ReplyTypes
    <3> QED
      BY <1>1, <1>2, <3>1, <3>3, <3>4, <3>5, ActsRefines
  <2>3. CASE owner[r.key] \notin {c, Detached}
    <3>1. owner' = owner /\ Replies(c, <<Line("unknown", NoKey)>>)
      BY <1>2, <1>8, <2>3 DEF TorDeletes
    <3>2. ~Registry!Removes(c, r)
      BY <2>3 DEF Registry!Removes
    <3>3. owner' = Registry!Effect(c, r)
      BY <1>1, <1>3, <2>1, <3>1, <3>2 DEF Registry!Effect
    <3>4. Result(r, <<Line("unknown", NoKey)>>) = Registry!Answer(c, r)
      BY <2>1, <3>2, AnswersRead, SharedTypes DEF Registry!Answer
    <3>5. <<Line("unknown", NoKey)>> \in Seq(ReplyLines)
      BY ReplyTypes
    <3> QED
      BY <1>1, <1>2, <3>1, <3>3, <3>4, <3>5, ActsRefines
  <2> QED
    BY <2>2, <2>3
<1> QED
  BY <1>6, <1>7, <1>8

-----------------------------------------------------------------------------
(* A call returns, or fails, or gives up.                                  *)
LEMMA ReadStepRefines ==
    ASSUME AccountInv, NEW c \in Clients, ReadStep(c)
    PROVE  Registry!Return(c) \/ Registry!Fail(c) \/ Registry!GiveUp(c)
<1>1. /\ TypeOK
      /\ fromTor \in [Clients -> Seq(Seq(ReplyLines))]
      /\ pc \in [Clients -> Labels]
      /\ request \in [Clients -> Requests \cup {NoRequest}]
      /\ outcome \in [Clients -> Results]
      /\ late \in [Clients -> BOOLEAN]
  BY DEF AccountInv, KeysInv, TypeOK
<1>2. /\ pc[c] = "waiting" /\ pc' = [pc EXCEPT ![c] = "idle"]
      /\ request' = [request EXCEPT ![c] = NoRequest]
      /\ UNCHANGED <<attached, owner>>
  BY DEF ReadStep, ReadReply, ReadFails, ReadTimesOut, Returns, Ends, torVars
<1>3. \A d \in Clients \ {c} : Same(d)
  BY <1>1, <1>2 DEF ReadStep, ReadReply, ReadFails, ReadTimesOut, Returns, Ends,
     Same
<1>4. ended' = ended
  BY <1>2 DEF ended
<1>5. ASSUME NEW result, outcome' = [outcome EXCEPT ![c] = result]
      PROVE  call' = [call EXCEPT ![c] = Registry!Over(result)]
  <2>1. CallOf(c)' = [phase |-> "over", request |-> NoRequest,
                      result |-> outcome'[c]]
    BY <1>1, <1>2 DEF CallOf
  <2>2. CallOf(c)' = Registry!Over(outcome'[c]) /\ outcome'[c] = result
    BY <1>1, <1>5, <2>1, SharedTypes DEF Registry!Over
  <2>3. QED
    BY <1>3, <2>2, SameCall
<1>6. CASE ReadReply(c)
  <2> DEFINE result == Result(request[c], Head(fromTor[c]))
  <2>1. /\ fromTor[c] # << >> /\ outcome' = [outcome EXCEPT ![c] = result]
        /\ late' = late
    BY <1>6 DEF ReadReply, Returns, Ends
  <2>2. call[c] = Registry!Done(request[c], result)
    BY <1>1, <1>2, <2>1, CallIs DEF call
  <2> HIDE DEF result
  <2>3. call[c].phase = "done" /\ call[c].result = result
    BY <2>2 DEF Registry!Done
  <2>4. call' = [call EXCEPT ![c] = Registry!Over(@.result)]
    BY <1>5, <2>1, <2>3
  <2>5. QED
    BY <1>2, <1>4, <2>1, <2>3, <2>4 DEF Registry!Return, call, ended
<1>7. CASE ReadFails(c)
  <2>1. /\ ~attached[c] /\ fromTor[c] = << >> /\ late' = late
        /\ outcome' = [outcome EXCEPT ![c] = Verdict("failed")]
    BY <1>7 DEF ReadFails, Ends
  <2>2. call[c].phase = "lost"
    BY <1>1, <1>2, <2>1, CallIs DEF call, Registry!Lost
  <2>3. call' = [call EXCEPT ![c] = Registry!Over(Registry!Verdict("failed"))]
    BY <1>5, <2>1, SharedTypes
  <2>4. QED
    BY <1>2, <1>4, <2>1, <2>2, <2>3 DEF Registry!Fail, call, ended
<1>8. CASE ReadTimesOut(c)
  <2>1. /\ late' = [late EXCEPT ![c] = TRUE]
        /\ outcome' = [outcome EXCEPT ![c] = Verdict("timeout")]
    BY <1>8 DEF ReadTimesOut, Ends
  <2>2. call[c].phase # "over"
    BY <1>2 DEF call, CallOf
  <2>3. call' = [call EXCEPT ![c] = Registry!Over(Registry!Verdict("timeout"))]
    BY <1>5, <2>1, SharedTypes
  <2>4. QED
    BY <1>2, <1>4, <2>1, <2>2, <2>3 DEF Registry!GiveUp, call, ended
<1> QED
  BY <1>6, <1>7, <1>8 DEF ReadStep

-----------------------------------------------------------------------------
(* The application asks, or lets go of its client.                         *)
LEMMA AppStepRefines ==
    ASSUME AccountInv, NEW c \in Clients, AppStep(c)
    PROVE  [Registry!Next]_(Registry!vars)
<1>1. CASE \E r \in Requests : Sends(c, r)
  <2>1. Registry!Ask(c) \/ Registry!Wander(c)
    BY <1>1, AsksRefines
  <2>2. QED
    BY <2>1 DEF Registry!Next
<1>2. CASE Released(c)
  <2>1. pc[c] = "idle" /\ pc' = [pc EXCEPT ![c] = "released"]
        /\ UNCHANGED <<fromTor, attached, owner, request, outcome, late>>
    BY <1>2 DEF Released, torVars, appVars
  <2>2. pc \in [Clients -> Labels]
    BY DEF AccountInv, KeysInv, TypeOK
  <2>3. pc'[c] # "waiting" /\ \A d \in Clients : d # c => pc'[d] = pc[d]
    BY <2>1, <2>2
  <2>4. \A d \in Clients : CallOf(d)' = CallOf(d)
    BY <2>1, <2>3 DEF CallOf
  <2>5. call' = call /\ ended' = ended
    BY <2>1, <2>4 DEF call, ended
  <2>6. QED
    BY <2>1, <2>5 DEF Registry!vars, call, ended
<1>3. ASSUME AddNew(c) PROVE \E r \in Requests : Sends(c, r)
  <2>1. PICK discard \in BOOLEAN, detach \in BOOLEAN, k \in Fresh :
            Sends(c, New(k, discard, detach))
    BY <1>3 DEF AddNew
  <2>2. k \in Keys
    BY DEF Fresh
  <2>3. QED
    BY <2>1, <2>2, RequestTypes
<1>4. ASSUME AddProvided(c) PROVE \E r \in Requests : Sends(c, r)
  <2>1. PICK k \in PrivateKeys \cup OwnKeys, typed \in BOOLEAN,
             detach \in BOOLEAN : Sends(c, Given(k, typed, detach))
    BY <1>4 DEF AddProvided
  <2>2. k \in Keys
    BY ServicesKnown DEF AccountInv, KeysInv, TypeOK, PrivateKeys, Records
  <2>3. QED
    BY <2>1, <2>2, RequestTypes
<1>5. ASSUME DelOnion(c) PROVE \E r \in Requests : Sends(c, r)
  <2>1. PICK k \in Ids : Sends(c, Del(k))
    BY <1>5 DEF DelOnion
  <2>2. k \in Keys
    BY DEF AccountInv, KeysInv, TypeOK, Ids, Records
  <2>3. QED
    BY <2>1, <2>2, RequestTypes
<1> QED
  BY <1>1, <1>2, <1>3, <1>4, <1>5 DEF AppStep

(* The connection of a client that was let go of ends.                     *)
LEMMA EndRefines ==
    ASSUME AccountInv, NEW c \in Clients, TorSeesEnd(c)
    PROVE  Registry!End(c)
<1>1. /\ pc[c] = "released" /\ attached' = [attached EXCEPT ![c] = FALSE]
      /\ owner' = Without(c)
      /\ UNCHANGED <<fromTor, request, pc, outcome, late>>
  BY DEF TorSeesEnd, appVars
<1>2. attached \in [Clients -> BOOLEAN]
  BY DEF AccountInv, KeysInv, TypeOK
<1>3. ended' = ended \cup {c}
  BY <1>1, <1>2 DEF ended
<1>4. pc[c] # "waiting" /\ \A d \in Clients : d # c => attached'[d] = attached[d]
  BY <1>1, <1>2
<1>5. \A d \in Clients : CallOf(d)' = CallOf(d)
  BY <1>1, <1>4 DEF CallOf
<1>6. call' = call /\ call[c].phase = "over"
  BY <1>4, <1>5 DEF call, CallOf
<1>7. call' = [d \in Clients |-> IF d \in {} THEN Registry!Lost(call[d].request)
                                            ELSE call[d]]
  BY <1>6 DEF call
<1>8. \A d \in {c} : call[d].phase # "asked"
  BY <1>6
<1>9. Registry!Loses({c})
  <2>1. \E lost \in SUBSET {d \in {c} : call[d].phase # "over"} :
            /\ \A d \in {c} : call[d].phase = "asked" => d \in lost
            /\ call' = [d \in Clients |-> IF d \in lost
                                          THEN Registry!Lost(call[d].request)
                                          ELSE call[d]]
    <3>1. {} \in SUBSET {d \in {c} : call[d].phase # "over"}
      OBVIOUS
    <3>2. QED
      BY <1>7, <1>8, <3>1
  <2>2. QED
    BY <1>1, <1>3, <2>1 DEF Registry!Loses, call, ended
<1> QED
  BY <1>1, <1>9 DEF Registry!End, Without

(* All connections end; a call keeps its reply or loses it.                *)
LEMMA ExitRefines ==
    ASSUME AccountInv, TorExits
    PROVE  Registry!Exit
<1> DEFINE lost == {c \in Clients : pc[c] = "waiting" /\ fromTor'[c] = << >>}
<1>1. /\ attached' = [c \in Clients |-> FALSE]
      /\ owner' = [k \in Keys |-> Nobody]
      /\ UNCHANGED <<request, pc, outcome, late>>
  BY DEF TorExits, appVars
<1>2. PICK kept \in [Clients -> 0 .. MaxCalls] :
          /\ \A c \in Clients : kept[c] <= Len(fromTor[c])
          /\ fromTor' = [c \in Clients |-> SubSeq(fromTor[c], 1, kept[c])]
  BY DEF TorExits
<1>3. ASSUME NEW c \in Clients, fromTor'[c] # << >>
      PROVE  fromTor[c] # << >> /\ Head(fromTor'[c]) = Head(fromTor[c])
  <2>1. /\ fromTor[c] \in Seq(Seq(ReplyLines)) /\ kept[c] \in Nat
        /\ kept[c] <= Len(fromTor[c]) /\ fromTor'[c] = SubSeq(fromTor[c], 1, kept[c])
    BY <1>2, ServicesKnown DEF AccountInv, KeysInv, TypeOK
  <2>2. \A i \in 1 .. kept[c] : fromTor[c][i] \in Seq(ReplyLines)
    BY <2>1, ElementOfSeq
  <2>3. /\ fromTor'[c] \in Seq(Seq(ReplyLines))
        /\ Len(fromTor'[c]) = IF 1 <= kept[c] THEN kept[c] - 1 + 1 ELSE 0
        /\ \A i \in 1 .. kept[c] - 1 + 1 :
               fromTor'[c][i] = fromTor[c][1 + i - 1]
    BY <2>1, <2>2, SubSeqProperties
  <2>4. Len(fromTor'[c]) # 0
    BY <1>3, <2>3, EmptySeq
  <2>5. kept[c] >= 1
    BY <2>1, <2>3, <2>4
  <2>6. fromTor'[c][1] = fromTor[c][1]
    <3>1. 1 \in 1 .. kept[c] - 1 + 1
      BY <2>1, <2>5
    <3>2. QED
      BY <2>3, <3>1
  <2>7. fromTor[c] # << >>
    BY <2>1, <2>5, EmptySeq
  <2>8. QED
    BY <1>3, <2>1, <2>3, <2>6, <2>7
<1>4. ended' = ended \cup Clients
  BY <1>1 DEF ended
<1>5. ASSUME NEW c \in Clients
      PROVE  /\ call'[c] = IF c \in lost THEN Registry!Lost(call[c].request)
                           ELSE call[c]
             /\ c \in lost => call[c].phase # "over"
             /\ call[c].phase = "asked" => c \in lost
  <2>1. CASE pc[c] # "waiting"
    BY <1>1, <2>1 DEF call, CallOf
  <2>2. CASE pc[c] = "waiting" /\ fromTor'[c] # << >>
    BY <1>1, <1>3, <2>2 DEF call, CallOf
  <2>3. CASE pc[c] = "waiting" /\ fromTor'[c] = << >>
    <3>1. call[c].request = request[c] /\ call[c].phase # "over"
      BY <2>3 DEF call, CallOf
    <3>2. call'[c] = Registry!Lost(request[c])
      BY <1>1, <2>3, SharedTypes DEF call, CallOf, Registry!Lost
    <3>3. QED
      BY <2>3, <3>1, <3>2
  <2> QED
    BY <2>1, <2>2, <2>3
<1> HIDE DEF lost
<1>6. call' = [c \in Clients |-> IF c \in lost THEN Registry!Lost(call[c].request)
                                 ELSE call[c]]
  BY <1>5 DEF call
<1>7. lost \in SUBSET {c \in Clients : call[c].phase # "over"}
  BY <1>5 DEF lost
<1>8. Registry!Loses(Clients)
  BY <1>1, <1>4, <1>5, <1>6, <1>7 DEF Registry!Loses, call, ended
<1> QED
  BY <1>1, <1>8 DEF Registry!Exit

-----------------------------------------------------------------------------
LEMMA InitRefines == Init => Registry!Init
<1> SUFFICES ASSUME Init PROVE Registry!Init
  OBVIOUS
<1>1. call = [c \in Clients |-> Registry!Over(Registry!NoResult)]
  BY SharedTypes DEF Init, call, CallOf, Registry!Over
<1>2. ended = {}
  BY DEF Init, ended
<1> QED
  BY <1>1, <1>2 DEF Init, Registry!Init, call, ended

LEMMA NextRefines ==
    AccountInv /\ [Next]_vars => [Registry!Next]_(Registry!vars)
<1> SUFFICES ASSUME AccountInv, [Next]_vars
             PROVE  [Registry!Next]_(Registry!vars)
  OBVIOUS
<1>1. ASSUME NEW c \in Clients, TorStep(c) \/ ReadStep(c)
      PROVE  Registry!Next
  <2>1. CASE TorSeesEnd(c)
    BY <2>1, EndRefines DEF Registry!Next
  <2>2. CASE TorAdds(c) \/ TorRefuses(c) \/ TorDeletes(c)
    <3>1. Registry!Act(c) \/ Registry!Wander(c)
      BY <2>2, TorAnswersRefine
    <3>2. QED
      BY <3>1 DEF Registry!Next
  <2>3. CASE ReadStep(c)
    <3>1. Registry!Return(c) \/ Registry!Fail(c) \/ Registry!GiveUp(c)
      BY <2>3, ReadStepRefines
    <3>2. QED
      BY <3>1 DEF Registry!Next
  <2> QED
    BY <1>1, <2>1, <2>2, <2>3 DEF TorStep
<1>2. CASE TorExits
  BY <1>2, ExitRefines DEF Registry!Next
<1>3. CASE UNCHANGED vars
  <2>1. \A c \in Clients : CallOf(c)' = CallOf(c)
    BY <1>3 DEF CallOf, vars, torVars, appVars
  <2>2. call' = call /\ UNCHANGED <<owner, late, attached>>
    BY <1>3, <2>1 DEF call, vars, torVars
  <2>3. QED
    BY <2>2 DEF Registry!vars, call
<1> QED
  BY <1>1, <1>2, <1>3, AppStepRefines DEF Next

(* OnionServices.ImplementsRegistry: a call of addOnion or delOnion that   *)
(* does not time out takes effect in Tor once, between its begin and its   *)
(* return, and returns what it did (TorControlClient.addOnion, delOnion).  *)
THEOREM RegistryImplemented == Spec => ImplementsRegistry
BY AccountsInitially, AccountsInductive, InitRefines, NextRefines, PTL
   DEF Spec, ImplementsRegistry, Registry!Spec
=============================================================================
