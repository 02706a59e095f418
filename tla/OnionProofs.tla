----------------------------- MODULE OnionProofs -----------------------------
(***************************************************************************)
(* Proofs about OnionServices for every value of its constants.            *)
(***************************************************************************)
EXTENDS OnionServices, SequenceTheorems, SequenceLemmas, TLAPS

-----------------------------------------------------------------------------
(* What a client finds in a reply.                                         *)

(* A field of a reply is missing, or is that of one of its lines.          *)
LEMMA FieldOfALine ==
    ASSUME NEW lines \in Seq(ReplyLines), NEW kind
    PROVE  IF \E i \in DOMAIN lines : lines[i].kind = kind
           THEN \E i \in DOMAIN lines :
                    lines[i].kind = kind /\ Field(lines, kind) = lines[i].key
           ELSE Field(lines, kind) = NoKey
<1> DEFINE at == {i \in DOMAIN lines : lines[i].kind = kind}
           last == CHOOSE i \in at : \A j \in at : j <= i
<1>1. Field(lines, kind) = IF at = {} THEN NoKey ELSE lines[last].key
  BY DEF Field
<1>2. ASSUME at # {} PROVE last \in at
  <2>1. Len(lines) \in Nat /\ at \in SUBSET (1 .. Len(lines))
    BY LenProperties
  <2>2. \E i \in at : \A j \in at : j <= i
    <3> HIDE DEF at
    <3>1. QED
      BY <1>2, <2>1, LastExists
  <2>3. QED
    BY <2>2
<1>3. at = {} <=> ~ \E i \in DOMAIN lines : lines[i].kind = kind
  OBVIOUS
<1>4. \A i \in at : i \in DOMAIN lines /\ lines[i].kind = kind
  OBVIOUS
<1> HIDE DEF at, last
<1> QED
  BY <1>1, <1>2, <1>3, <1>4

-----------------------------------------------------------------------------
(* Types.                                                                  *)

(* An application asks, with whatever becomes of the history of its keys.  *)
LEMMA SendsType ==
    ASSUME TypeOK, NEW c \in Clients, NEW r \in Requests, Sends(c, r),
           maker' \in [Keys -> Clients \cup {Nobody}]
    PROVE  TypeOK'
<1>1. toTor' \in [Clients -> Seq(Requests)]
  <2>1. toTor[c] \in Seq(Requests) /\ toTor \in [Clients -> Seq(Requests)]
    BY DEF TypeOK
  <2>2. Append(toTor[c], r) \in Seq(Requests)
    BY <2>1, AppendProperties
  <2>3. QED
    BY <2>1, <2>2 DEF Sends
<1>2. r # NoRequest
  BY DEF Requests, NoRequest, Del
<1>3. /\ pc' \in [Clients -> Labels]
      /\ request' \in [Clients -> Requests \cup {NoRequest}]
      /\ \A d \in Clients : pc'[d] = "waiting" <=> request'[d] # NoRequest
  BY <1>2 DEF TypeOK, Sends, Labels
<1>4. calls' \in 0 .. MaxCalls
  BY ServicesKnown DEF TypeOK, Sends
<1> QED
  BY <1>1, <1>3, <1>4 DEF TypeOK, Sends, torVars

(* Tor answers.                                                            *)
LEMMA RepliesType ==
    ASSUME TypeOK, NEW c \in Clients, NEW lines \in Seq(ReplyLines),
           toTor[c] # << >>, Replies(c, lines),
           owner' \in [Keys -> Clients \cup {Nobody, Detached}]
    PROVE  TypeOK'
<1>1. /\ toTor[c] \in Seq(Requests) /\ toTor \in [Clients -> Seq(Requests)]
      /\ fromTor \in [Clients -> Seq(Seq(ReplyLines))]
      /\ fromTor[c] \in Seq(Seq(ReplyLines))
  BY DEF TypeOK
<1>2. Tail(toTor[c]) \in Seq(Requests)
  BY <1>1, HeadTailProperties
<1>3. Append(fromTor[c], lines) \in Seq(Seq(ReplyLines))
  BY <1>1, AppendProperties
<1>4. /\ toTor' \in [Clients -> Seq(Requests)]
      /\ fromTor' \in [Clients -> Seq(Seq(ReplyLines))]
  BY <1>1, <1>2, <1>3 DEF Replies
<1> QED
  BY <1>4 DEF TypeOK, Replies, appVars

(* A call ends, and the rest of its client's reply queue is one of lines.  *)
LEMMA EndsType ==
    ASSUME TypeOK, NEW c \in Clients, NEW result \in Results, Ends(c, result),
           fromTor' \in [Clients -> Seq(Seq(ReplyLines))],
           services' \subseteq Records, late' \in [Clients -> BOOLEAN]
    PROVE  TypeOK'
BY DEF TypeOK, Ends, torVars, Labels

(* What is read in a reply is a result, and an OnionService has an ID.     *)
LEMMA ResultType ==
    ASSUME NEW lines \in Seq(ReplyLines), NEW r
    PROVE  /\ Result(r, lines) \in Results
           /\ Result(r, lines).kind = "service"
                  => [id |-> Result(r, lines).id,
                      private |-> Result(r, lines).private] \in Records
<1>1. \A kind : Field(lines, kind) \in Keys \cup {NoKey}
  <2>1. ASSUME NEW i \in DOMAIN lines PROVE lines[i].key \in Keys \cup {NoKey}
    <3>1. lines[i] \in ReplyLines
      BY ElementOfSeq, LenProperties
    <3>2. QED
      BY <3>1 DEF ReplyLines
  <2>2. QED
    BY <2>1, FieldOfALine
<1>2. \A kind \in Kinds : Verdict(kind) \in Results /\ Verdict(kind).kind = kind
  BY DEF Verdict, Results, Kinds
<1>3. {"refused", "invalid", "removed", "unknown", "service"} \subseteq Kinds
  BY DEF Kinds
<1>4. /\ DelOnionResult(lines) \in Results
      /\ DelOnionResult(lines).kind # "service"
  BY <1>2, <1>3 DEF DelOnionResult
<1>5. /\ ParseAddOnionResponse(lines) \in Results
      /\ ParseAddOnionResponse(lines).kind = "service"
             => /\ ParseAddOnionResponse(lines).id \in Keys
                /\ ParseAddOnionResponse(lines).private \in Keys \cup {NoKey}
  <2>1. CASE ~IsSuccess(lines)
    BY <2>1, <1>2, <1>3 DEF ParseAddOnionResponse
  <2>2. CASE IsSuccess(lines) /\ Field(lines, "id") = NoKey
    BY <2>2, <1>2, <1>3 DEF ParseAddOnionResponse
  <2>3. CASE IsSuccess(lines) /\ Field(lines, "id") # NoKey
    <3>1. ParseAddOnionResponse(lines)
            = Service(Field(lines, "id"), Field(lines, "private"))
      BY <2>3 DEF ParseAddOnionResponse
    <3>2. QED
      BY <3>1, <2>3, <1>1, <1>3 DEF Service, Results
  <2> QED
    BY <2>1, <2>2, <2>3
<1> QED
  BY <1>4, <1>5 DEF Result, Records

(* Replies that lost their first lines, or are lost in part.               *)
LEMMA CutType ==
    ASSUME NEW S, NEW q \in Seq(Seq(S)), q # << >>,
           NEW n \in 1 .. Len(Head(q)) - 1
    PROVE  /\ SubSeq(Head(q), n + 1, Len(Head(q))) \in Seq(S)
           /\ <<SubSeq(Head(q), n + 1, Len(Head(q)))>> \o Tail(q) \in Seq(Seq(S))
<1>1. Head(q) \in Seq(S) /\ Tail(q) \in Seq(Seq(S))
  BY HeadTailProperties
<1>2. \A i \in n + 1 .. Len(Head(q)) : Head(q)[i] \in S
  BY <1>1, ElementOfSeq
<1>3. n + 1 \in Int /\ Len(Head(q)) \in Int
  BY <1>1
<1>4. SubSeq(Head(q), n + 1, Len(Head(q))) \in Seq(S)
  BY <1>2, <1>3, SubSeqProperties
<1>5. <<SubSeq(Head(q), n + 1, Len(Head(q)))>> \in Seq(Seq(S))
  BY <1>4
<1> QED
  BY <1>1, <1>4, <1>5, ConcatProperties

(* The requests of the application are well-formed, and so are the replies *)
(* of Tor.                                                                 *)
LEMMA RequestTypes ==
    ASSUME NEW k \in Keys, NEW b \in BOOLEAN, NEW d \in BOOLEAN
    PROVE  /\ New(k, b, d) \in Requests
           /\ Given(k, b, d) \in Requests
           /\ Del(k) \in Requests
BY DEF New, Given, Del, Requests

LEMMA ReplyTypes ==
    /\ \A r \in Requests : AddReply(r) \in Seq(ReplyLines)
    /\ \A kind \in {"ok", "error", "unknown"} :
           <<Line(kind, NoKey)>> \in Seq(ReplyLines)
    /\ <<Ok>> \in Seq(ReplyLines)
<1>1. \A kind \in {"id", "private", "ok", "error", "unknown"} :
          \A k \in Keys \cup {NoKey} : Line(kind, k) \in ReplyLines
  BY DEF Line, ReplyLines
<1>2. ASSUME NEW r \in Requests PROVE AddReply(r) \in Seq(ReplyLines)
  <2>1. r.key \in Keys
    BY DEF Requests
  <2>2. /\ Line("id", r.key) \in ReplyLines
        /\ Line("private", r.key) \in ReplyLines
        /\ Ok \in ReplyLines
    BY <1>1, <2>1 DEF Ok
  <2>3. QED
    BY <2>2 DEF AddReply
<1> QED
  BY <1>1, <1>2 DEF Ok

LEMMA TorStepType ==
    ASSUME TypeOK, NEW c \in Clients, TorStep(c)
    PROVE  TypeOK'
<1> DEFINE r == Head(toTor[c])
<1>1. toTor[c] # << >> => r \in Requests
  <2>1. toTor[c] \in Seq(Requests)
    BY DEF TypeOK
  <2>2. QED
    BY <2>1, HeadTailProperties
<1>2. owner \in [Keys -> Clients \cup {Nobody, Detached}]
  BY DEF TypeOK
<1> HIDE DEF r
<1>3. CASE TorAdds(c)
  <2>1. /\ toTor[c] # << >> /\ Replies(c, AddReply(r))
        /\ owner' = [owner EXCEPT ![r.key] = IF r.detach THEN Detached ELSE c]
    BY <1>3 DEF TorAdds, Takes, r
  <2>2. AddReply(r) \in Seq(ReplyLines)
    BY <1>1, <2>1, ReplyTypes
  <2>3. owner' \in [Keys -> Clients \cup {Nobody, Detached}]
    BY <1>2, <2>1
  <2>4. QED
    BY <2>1, <2>2, <2>3, RepliesType
<1>4. CASE TorRefuses(c)
  <2>1. /\ toTor[c] # << >> /\ Replies(c, <<Line("error", NoKey)>>)
        /\ owner' = owner
    BY <1>4 DEF TorRefuses, Takes
  <2>2. QED
    BY <1>2, <2>1, ReplyTypes, RepliesType
<1>5. CASE TorDeletes(c)
  <2>1. /\ toTor[c] # << >>
        /\ \/ Replies(c, <<Ok>>) /\ owner' = [owner EXCEPT ![r.key] = Nobody]
           \/ Replies(c, <<Line("unknown", NoKey)>>) /\ owner' = owner
    BY <1>5 DEF TorDeletes, Takes, r
  <2>2. owner' \in [Keys -> Clients \cup {Nobody, Detached}]
    BY <1>2, <2>1
  <2>3. QED
    BY <2>1, <2>2, ReplyTypes, RepliesType
<1>6. CASE TorSeesEnd(c)
  BY <1>6 DEF TypeOK, TorSeesEnd, Without, appVars
<1> QED
  BY <1>3, <1>4, <1>5, <1>6 DEF TorStep

LEMMA AppStepType ==
    ASSUME TypeOK, NEW c \in Clients, AppStep(c)
    PROVE  TypeOK'
<1>1. maker \in [Keys -> Clients \cup {Nobody}]
  BY DEF TypeOK
<1>2. CASE AddNew(c)
  <2> DEFINE k == CHOOSE k \in Fresh : TRUE
  <2>1. k \in Keys
    BY <1>2 DEF AddNew, Fresh
  <2>2. PICK discard \in BOOLEAN, detach \in BOOLEAN :
            Sends(c, New(k, discard, detach))
    BY <1>2 DEF AddNew
  <2>3. maker' = [maker EXCEPT ![k] = c]
    BY <1>2 DEF AddNew
  <2> HIDE DEF k
  <2>4. QED
    BY <1>1, <2>1, <2>2, <2>3, RequestTypes, SendsType
<1>3. CASE AddProvided(c)
  <2>1. PICK k \in PrivateKeys \cup OwnKeys, typed \in BOOLEAN,
             detach \in BOOLEAN : Sends(c, Given(k, typed, detach))
    BY <1>3 DEF AddProvided
  <2>2. k \in Keys
    BY ServicesKnown DEF TypeOK, PrivateKeys, Records
  <2>3. QED
    BY <1>1, <1>3, <2>1, <2>2, RequestTypes, SendsType DEF AddProvided
<1>4. CASE DelOnion(c)
  <2>1. PICK k \in Ids : Sends(c, Del(k))
    BY <1>4 DEF DelOnion
  <2>2. k \in Keys
    BY DEF TypeOK, Ids, Records
  <2>3. Del(k) \in Requests
    BY <2>2, RequestTypes
  <2>4. QED
    BY <1>1, <1>4, <2>1, <2>3, SendsType DEF DelOnion
<1>5. CASE Released(c)
  <2>1. request[c] = NoRequest
    BY <1>5 DEF TypeOK, Released
  <2>2. QED
    BY <1>5, <2>1 DEF TypeOK, Released, torVars, appVars, Labels
<1> QED
  BY <1>2, <1>3, <1>4, <1>5 DEF AppStep

LEMMA ReadStepType ==
    ASSUME TypeOK, NEW c \in Clients, ReadStep(c)
    PROVE  TypeOK'
<1>1. /\ fromTor \in [Clients -> Seq(Seq(ReplyLines))]
      /\ fromTor[c] \in Seq(Seq(ReplyLines))
      /\ services \subseteq Records /\ late \in [Clients -> BOOLEAN]
  BY DEF TypeOK
<1>2. Verdict("failed") \in Results /\ Verdict("timeout") \in Results
  BY DEF Verdict, Results, Kinds
<1>3. CASE ReadReply(c)
  <2> DEFINE result == Result(request[c], Head(fromTor[c]))
  <2>1. /\ fromTor[c] # << >> /\ Ends(c, result) /\ late' = late
        /\ services' = IF result.kind # "service" THEN services
                       ELSE services \cup {[id |-> result.id,
                                            private |-> result.private]}
        /\ fromTor' = [fromTor EXCEPT ![c] = Tail(@)]
    BY <1>3 DEF ReadReply, Returns
  <2>2. Head(fromTor[c]) \in Seq(ReplyLines)
        /\ Tail(fromTor[c]) \in Seq(Seq(ReplyLines))
    BY <1>1, <2>1, HeadTailProperties
  <2>3. /\ result \in Results
        /\ result.kind = "service" =>
               [id |-> result.id, private |-> result.private] \in Records
    BY <2>2, ResultType
  <2> HIDE DEF result
  <2>4. services' \subseteq Records
    BY <1>1, <2>1, <2>3
  <2>5. fromTor' \in [Clients -> Seq(Seq(ReplyLines))]
    BY <1>1, <2>1, <2>2
  <2>6. QED
    BY <1>1, <2>1, <2>3, <2>4, <2>5, EndsType
<1>4. CASE ReadFails(c)
  BY <1>1, <1>2, <1>4, EndsType DEF ReadFails
<1>5. CASE ReadTimesOut(c)
  <2>1. /\ Ends(c, Verdict("timeout"))
        /\ late' = [late EXCEPT ![c] = TRUE] /\ services' = services
    BY <1>5 DEF ReadTimesOut
  <2>2. fromTor' \in [Clients -> Seq(Seq(ReplyLines))]
    <3>1. CASE UNCHANGED fromTor
      BY <1>1, <3>1
    <3>2. CASE ~UNCHANGED fromTor
      <4>1. fromTor[c] # << >>
        BY <1>5, <3>2 DEF ReadTimesOut
      <4>2. PICK n \in 1 .. Len(Head(fromTor[c])) - 1 :
                fromTor' = [fromTor EXCEPT ![c] =
                    <<SubSeq(Head(@), n + 1, Len(Head(@)))>> \o Tail(@)]
        BY <1>5, <3>2 DEF ReadTimesOut
      <4>3. <<SubSeq(Head(fromTor[c]), n + 1, Len(Head(fromTor[c])))>>
                \o Tail(fromTor[c]) \in Seq(Seq(ReplyLines))
        BY <1>1, <4>1, CutType
      <4>4. QED
        BY <1>1, <4>2, <4>3
    <3> QED
      BY <3>1, <3>2
  <2>3. late' \in [Clients -> BOOLEAN]
    BY <1>1, <2>1
  <2>4. QED
    BY <1>1, <1>2, <2>1, <2>2, <2>3, EndsType
<1> QED
  BY <1>3, <1>4, <1>5 DEF ReadStep

LEMMA ExitType ==
    ASSUME TypeOK, TorExits
    PROVE  TypeOK'
<1>1. PICK kept \in [Clients -> 0 .. MaxCalls] :
          /\ \A c \in Clients : kept[c] <= Len(fromTor[c])
          /\ fromTor' = [c \in Clients |-> SubSeq(fromTor[c], 1, kept[c])]
  BY DEF TorExits
<1>2. ASSUME NEW c \in Clients
      PROVE  SubSeq(fromTor[c], 1, kept[c]) \in Seq(Seq(ReplyLines))
  <2>1. fromTor[c] \in Seq(Seq(ReplyLines)) /\ kept[c] \in Nat
    BY ServicesKnown DEF TypeOK
  <2>2. \A i \in 1 .. kept[c] : fromTor[c][i] \in Seq(ReplyLines)
    BY <1>1, <2>1, ElementOfSeq
  <2>3. QED
    BY <2>1, <2>2, SubSeqProperties
<1>3. fromTor' \in [Clients -> Seq(Seq(ReplyLines))]
  BY <1>1, <1>2
<1>4. toTor' \in [Clients -> Seq(Requests)]
  BY DEF TorExits
<1> QED
  BY <1>3, <1>4 DEF TypeOK, TorExits, appVars

LEMMA TypeInitially == Init => TypeOK
<1>1. NoRequest \in Requests \cup {NoRequest} /\ NoResult \in Results
  BY DEF NoResult, Verdict, Results, Kinds
<1>2. 0 \in 0 .. MaxCalls
  BY ServicesKnown
<1> QED
  BY <1>1, <1>2 DEF Init, TypeOK, Labels

LEMMA TypeInductive == TypeOK /\ [Next]_vars => TypeOK'
<1> SUFFICES ASSUME TypeOK, [Next]_vars PROVE TypeOK'
  OBVIOUS
<1>1. ASSUME NEW c \in Clients, AppStep(c) \/ TorStep(c) \/ ReadStep(c)
      PROVE  TypeOK'
  BY <1>1, AppStepType, TorStepType, ReadStepType
<1>2. CASE TorExits
  BY <1>2, ExitType
<1>3. CASE UNCHANGED vars
  BY <1>3 DEF TypeOK, vars, torVars, appVars
<1> QED
  BY <1>1, <1>2, <1>3 DEF Next

(* OnionServices.TypeOK: besides the types, a call under way, and only     *)
(* that, has its request (ControlSocket.sendCommand, sendAndReceive).      *)
THEOREM TypeCorrect == Spec => []TypeOK
BY TypeInitially, TypeInductive, PTL DEF Spec

-----------------------------------------------------------------------------
(* Keys: a reply, whole or cut, tells of one key.                          *)

TellsOf(k, lines) ==
    \A i \in DOMAIN lines :
        lines[i].kind \in {"id", "private"} => lines[i].key = k

OneKey(lines) == lines # << >> /\ \E k \in Keys : TellsOf(k, lines)

RepliesOneKey ==
    \A c \in Clients : \A i \in DOMAIN fromTor[c] : OneKey(fromTor[c][i])

LEMMA FieldIsTheKey ==
    ASSUME NEW lines \in Seq(ReplyLines), NEW k, TellsOf(k, lines),
           NEW kind \in {"id", "private"}
    PROVE  /\ Field(lines, kind) \in {k, NoKey}
           /\ (\E i \in DOMAIN lines : lines[i].kind = kind)
                  => Field(lines, kind) = k
BY FieldOfALine DEF TellsOf

(* The OnionService read in a reply has the private key of its ID.         *)
LEMMA ServiceKeyBelongs ==
    ASSUME NEW lines \in Seq(ReplyLines), OneKey(lines), NEW r,
           Result(r, lines).kind = "service"
    PROVE  Result(r, lines).private \in {Result(r, lines).id, NoKey}
<1>1. Result(r, lines) = Service(Field(lines, "id"), Field(lines, "private"))
      /\ Field(lines, "id") # NoKey
  BY DEF Result, ParseAddOnionResponse, DelOnionResult, Verdict
<1>2. PICK k \in Keys : TellsOf(k, lines)
  BY DEF OneKey
<1>3. Field(lines, "id") = k /\ Field(lines, "private") \in {k, NoKey}
  BY <1>1, <1>2, FieldIsTheKey
<1> QED
  BY <1>1, <1>3 DEF Service

LEMMA TorsRepliesOneKey ==
    /\ \A r \in Requests : OneKey(AddReply(r))
    /\ \A k \in Keys, kind \in {"ok", "error", "unknown"} :
           OneKey(<<Line(kind, NoKey)>>)
<1>1. ASSUME NEW r \in Requests PROVE OneKey(AddReply(r))
  <2>1. r.key \in Keys
    BY DEF Requests
  <2>2. TellsOf(r.key, AddReply(r)) /\ AddReply(r) # << >>
    BY DEF TellsOf, AddReply, Line, Ok
  <2>3. QED
    BY <2>1, <2>2 DEF OneKey
<1>2. ASSUME NEW k \in Keys, NEW kind \in {"ok", "error", "unknown"}
      PROVE  OneKey(<<Line(kind, NoKey)>>)
  BY DEF OneKey, TellsOf, Line
<1> QED
  BY <1>1, <1>2

(* The rest of a reply still tells of its key.                             *)
LEMMA CutOneKey ==
    ASSUME NEW lines \in Seq(ReplyLines), OneKey(lines),
           NEW n \in 1 .. Len(lines) - 1
    PROVE  OneKey(SubSeq(lines, n + 1, Len(lines)))
<1> DEFINE rest == SubSeq(lines, n + 1, Len(lines))
<1>1. PICK k \in Keys : TellsOf(k, lines)
  BY DEF OneKey
<1>2. /\ \A i \in n + 1 .. Len(lines) : lines[i] \in ReplyLines
      /\ n + 1 \in Int /\ Len(lines) \in Int /\ n + 1 <= Len(lines)
      /\ DOMAIN lines = 1 .. Len(lines)
  BY LenProperties, ElementOfSeq
<1>3. /\ rest \in Seq(ReplyLines) /\ Len(rest) = Len(lines) - n
      /\ \A i \in 1 .. Len(lines) - n : rest[i] = lines[n + i]
  <2>1. /\ rest \in Seq(ReplyLines)
        /\ Len(rest) = Len(lines) - (n + 1) + 1
        /\ \A i \in 1 .. Len(lines) - (n + 1) + 1 : rest[i] = lines[n + 1 + i - 1]
    BY <1>2, SubSeqProperties
  <2> HIDE DEF rest
  <2>2. QED
    BY <1>2, <2>1
<1> HIDE DEF rest
<1>4. rest # << >> /\ DOMAIN rest = 1 .. Len(lines) - n
  BY <1>2, <1>3
<1>5. ASSUME NEW i \in DOMAIN rest, rest[i].kind \in {"id", "private"}
      PROVE  rest[i].key = k
  <2>1. rest[i] = lines[n + i] /\ n + i \in DOMAIN lines
    BY <1>2, <1>3, <1>4
  <2>2. QED
    BY <1>1, <1>5, <2>1 DEF TellsOf
<1>6. TellsOf(k, rest)
  BY <1>5 DEF TellsOf
<1> QED
  BY <1>4, <1>6 DEF OneKey, rest

KeysInv == TypeOK /\ RepliesOneKey /\ KeyBelongs

(* Tor adds a reply that tells of one key.                                 *)
LEMMA RepliesKeepKeys ==
    ASSUME TypeOK, RepliesOneKey, NEW c \in Clients,
           NEW lines \in Seq(ReplyLines), OneKey(lines), Replies(c, lines)
    PROVE  RepliesOneKey'
<1>1. /\ fromTor[c] \in Seq(Seq(ReplyLines))
      /\ fromTor' = [fromTor EXCEPT ![c] = Append(@, lines)]
      /\ fromTor \in [Clients -> Seq(Seq(ReplyLines))]
  BY DEF TypeOK, Replies
<1> SUFFICES ASSUME NEW d \in Clients, NEW i \in DOMAIN fromTor'[d]
             PROVE  OneKey(fromTor'[d][i])
  BY DEF RepliesOneKey
<1>2. CASE d # c
  BY <1>1, <1>2 DEF RepliesOneKey
<1>3. CASE d = c
  <2>1. fromTor'[c] = Append(fromTor[c], lines)
    BY <1>1
  <2>2. /\ i \in 1 .. Len(fromTor[c]) + 1
        /\ i \in 1 .. Len(fromTor[c]) => fromTor'[c][i] = fromTor[c][i]
        /\ i = Len(fromTor[c]) + 1 => fromTor'[c][i] = lines
    BY <1>1, <1>3, <2>1, AppendProperties
  <2>3. DOMAIN fromTor[c] = 1 .. Len(fromTor[c])
    BY <1>1, LenProperties
  <2>4. QED
    BY <1>1, <1>3, <2>2, <2>3 DEF RepliesOneKey
<1> QED
  BY <1>2, <1>3

LEMMA TorStepKeys ==
    ASSUME TypeOK, RepliesOneKey, NEW c \in Clients, TorStep(c)
    PROVE  RepliesOneKey'
<1> DEFINE r == Head(toTor[c])
<1>1. toTor[c] # << >> => r \in Requests /\ r.key \in Keys
  <2>1. toTor[c] \in Seq(Requests)
    BY DEF TypeOK
  <2>2. toTor[c] # << >> => r \in Requests
    BY <2>1, HeadTailProperties
  <2>3. \A q \in Requests : q.key \in Keys
    BY DEF Requests
  <2> HIDE DEF r
  <2>4. QED
    BY <2>2, <2>3
<1>2. \/ \E lines \in {AddReply(r), <<Line("error", NoKey)>>,
                       <<Line("ok", NoKey)>>, <<Line("unknown", NoKey)>>} :
             toTor[c] # << >> /\ Replies(c, lines)
      \/ UNCHANGED fromTor
  BY DEF TorStep, TorAdds, TorRefuses, TorDeletes, TorSeesEnd, Takes, Ok
<1> HIDE DEF r
<1>3. CASE UNCHANGED fromTor
  BY <1>3 DEF RepliesOneKey
<1>4. CASE ~UNCHANGED fromTor
  <2>1. PICK lines \in {AddReply(r), <<Line("error", NoKey)>>,
                        <<Line("ok", NoKey)>>, <<Line("unknown", NoKey)>>} :
            toTor[c] # << >> /\ Replies(c, lines)
    BY <1>2, <1>4
  <2>2. lines \in Seq(ReplyLines) /\ OneKey(lines)
    BY <1>1, <2>1, ReplyTypes, TorsRepliesOneKey
  <2>3. QED
    BY <2>1, <2>2, RepliesKeepKeys
<1> QED
  BY <1>3, <1>4

LEMMA ReadStepKeys ==
    ASSUME KeysInv, NEW c \in Clients, ReadStep(c)
    PROVE  RepliesOneKey' /\ KeyBelongs'
<1>1. /\ fromTor \in [Clients -> Seq(Seq(ReplyLines))]
      /\ fromTor[c] \in Seq(Seq(ReplyLines))
      /\ DOMAIN fromTor[c] = 1 .. Len(fromTor[c])
  BY LenProperties DEF KeysInv, TypeOK
<1>2. ASSUME fromTor[c] # << >>
      PROVE  /\ Head(fromTor[c]) \in Seq(ReplyLines) /\ OneKey(Head(fromTor[c]))
             /\ Tail(fromTor[c]) \in Seq(Seq(ReplyLines))
             /\ \A i \in DOMAIN Tail(fromTor[c]) : OneKey(Tail(fromTor[c])[i])
  <2>1. Head(fromTor[c]) = fromTor[c][1] /\ 1 \in DOMAIN fromTor[c]
    BY <1>1, <1>2
  <2>2. /\ Tail(fromTor[c]) \in Seq(Seq(ReplyLines))
        /\ DOMAIN Tail(fromTor[c]) = 1 .. Len(fromTor[c]) - 1
        /\ \A i \in DOMAIN Tail(fromTor[c]) :
               Tail(fromTor[c])[i] = fromTor[c][i + 1]
    BY <1>1, <1>2, HeadTailProperties, LenProperties
  <2>3. \A i \in DOMAIN Tail(fromTor[c]) : i + 1 \in DOMAIN fromTor[c]
    BY <1>1, <2>2
  <2>4. \A i \in DOMAIN fromTor[c] : OneKey(fromTor[c][i])
    BY DEF KeysInv, RepliesOneKey
  <2>5. Head(fromTor[c]) \in Seq(ReplyLines)
    BY <1>1, <1>2, HeadTailProperties
  <2> QED
    BY <2>1, <2>2, <2>3, <2>4, <2>5
<1>3. CASE ReadReply(c)
  <2> DEFINE result == Result(request[c], Head(fromTor[c]))
  <2>1. /\ fromTor[c] # << >> /\ fromTor' = [fromTor EXCEPT ![c] = Tail(@)]
        /\ services' = IF result.kind # "service" THEN services
                       ELSE services \cup {[id |-> result.id,
                                            private |-> result.private]}
    BY <1>3 DEF ReadReply, Returns
  <2>2. RepliesOneKey'
    <3>1. \A d \in Clients :
              fromTor'[d] = IF d = c THEN Tail(fromTor[c]) ELSE fromTor[d]
      BY <1>1, <2>1
    <3>2. \A d \in Clients : \A i \in DOMAIN fromTor'[d] : OneKey(fromTor'[d][i])
      BY <1>2, <2>1, <3>1 DEF KeysInv, RepliesOneKey
    <3>3. QED
      BY <3>2 DEF RepliesOneKey
  <2>3. result.kind = "service" => result.private \in {result.id, NoKey}
    BY <1>2, <2>1, ServiceKeyBelongs
  <2> HIDE DEF result
  <2>4. KeyBelongs'
    BY <2>1, <2>3 DEF KeysInv, KeyBelongs
  <2>5. QED
    BY <2>2, <2>4
<1>4. CASE ReadFails(c)
  BY <1>4 DEF KeysInv, RepliesOneKey, KeyBelongs, ReadFails
<1>5. CASE ReadTimesOut(c)
  <2>1. KeyBelongs'
    BY <1>5 DEF KeysInv, KeyBelongs, ReadTimesOut
  <2>2. CASE UNCHANGED fromTor
    BY <2>1, <2>2 DEF KeysInv, RepliesOneKey
  <2>3. CASE ~UNCHANGED fromTor
    <3>1. fromTor[c] # << >>
      BY <1>5, <2>3 DEF ReadTimesOut
    <3>2. PICK n \in 1 .. Len(Head(fromTor[c])) - 1 :
              fromTor' = [fromTor EXCEPT ![c] =
                  <<SubSeq(Head(@), n + 1, Len(Head(@)))>> \o Tail(@)]
      BY <1>5, <2>3 DEF ReadTimesOut
    <3> DEFINE rest == SubSeq(Head(fromTor[c]), n + 1, Len(Head(fromTor[c])))
               q == Tail(fromTor[c])
    <3>3. rest \in Seq(ReplyLines) /\ OneKey(rest)
      BY <1>1, <1>2, <3>1, CutType, CutOneKey
    <3>4. /\ q \in Seq(Seq(ReplyLines))
          /\ \A i \in DOMAIN q : OneKey(q[i])
      BY <1>2, <3>1
    <3>5. \A d \in Clients :
              fromTor'[d] = IF d = c THEN <<rest>> \o q ELSE fromTor[d]
      BY <1>1, <3>2
    <3> HIDE DEF rest, q
    <3>6. \A i \in DOMAIN (<<rest>> \o q) : OneKey((<<rest>> \o q)[i])
      <4>1. <<rest>> \in Seq(Seq(ReplyLines)) /\ Len(<<rest>>) = 1
            /\ <<rest>>[1] = rest
        BY <3>3
      <4>2. /\ <<rest>> \o q \in Seq(Seq(ReplyLines))
            /\ Len(<<rest>> \o q) = 1 + Len(q)
            /\ \A i \in 1 .. 1 + Len(q) :
                   (<<rest>> \o q)[i] = IF i <= 1 THEN <<rest>>[i] ELSE q[i - 1]
        BY <3>4, <4>1, ConcatProperties
      <4>3. DOMAIN (<<rest>> \o q) = 1 .. 1 + Len(q) /\ DOMAIN q = 1 .. Len(q)
            /\ Len(q) \in Nat
        BY <3>4, <4>2, LenProperties
      <4>4. ASSUME NEW i \in DOMAIN (<<rest>> \o q)
            PROVE  OneKey((<<rest>> \o q)[i])
        <5>1. CASE i = 1
          BY <3>3, <4>1, <4>2, <4>3, <5>1
        <5>2. CASE i # 1
          <6>1. i - 1 \in DOMAIN q /\ (<<rest>> \o q)[i] = q[i - 1]
            BY <4>2, <4>3, <5>2
          <6>2. QED
            BY <3>4, <6>1
        <5> QED
          BY <5>1, <5>2
      <4>5. QED
        BY <4>4
    <3>7. \A d \in Clients : \A i \in DOMAIN fromTor'[d] : OneKey(fromTor'[d][i])
      BY <3>5, <3>6 DEF KeysInv, RepliesOneKey
    <3>8. QED
      BY <2>1, <3>7 DEF RepliesOneKey
  <2> QED
    BY <2>2, <2>3
<1> QED
  BY <1>3, <1>4, <1>5 DEF ReadStep

LEMMA ExitKeys ==
    ASSUME TypeOK, RepliesOneKey, TorExits
    PROVE  RepliesOneKey'
<1>1. PICK kept \in [Clients -> 0 .. MaxCalls] :
          /\ \A c \in Clients : kept[c] <= Len(fromTor[c])
          /\ fromTor' = [c \in Clients |-> SubSeq(fromTor[c], 1, kept[c])]
  BY DEF TorExits
<1>2. ASSUME NEW c \in Clients, NEW i \in DOMAIN fromTor'[c]
      PROVE  OneKey(fromTor'[c][i])
  <2>1. /\ fromTor[c] \in Seq(Seq(ReplyLines)) /\ kept[c] \in Nat
        /\ kept[c] <= Len(fromTor[c])
    BY <1>1, ServicesKnown DEF TypeOK
  <2>2. fromTor'[c] = SubSeq(fromTor[c], 1, kept[c])
    BY <1>1
  <2>3. \A j \in 1 .. kept[c] : fromTor[c][j] \in Seq(ReplyLines)
    BY <2>1, ElementOfSeq
  <2>4. /\ fromTor'[c] \in Seq(Seq(ReplyLines))
        /\ Len(fromTor'[c]) = IF 1 <= kept[c] THEN kept[c] - 1 + 1 ELSE 0
        /\ \A j \in 1 .. kept[c] - 1 + 1 :
               fromTor'[c][j] = fromTor[c][1 + j - 1]
    BY <2>1, <2>2, <2>3, SubSeqProperties
  <2>5. DOMAIN fromTor'[c] = 1 .. kept[c]
    BY <2>1, <2>4, LenProperties
  <2>6. fromTor'[c][i] = fromTor[c][i] /\ i \in DOMAIN fromTor[c]
    BY <2>1, <2>4, <2>5, LenProperties
  <2>7. QED
    BY <2>6 DEF RepliesOneKey
<1> QED
  BY <1>2 DEF RepliesOneKey

LEMMA KeysInductive == KeysInv /\ [Next]_vars => KeysInv'
<1> SUFFICES ASSUME KeysInv, [Next]_vars PROVE KeysInv'
  OBVIOUS
<1>1. TypeOK'
  BY TypeInductive DEF KeysInv
<1>2. ASSUME NEW c \in Clients, AppStep(c)
      PROVE  RepliesOneKey' /\ KeyBelongs'
  <2>1. fromTor' = fromTor /\ services' = services
    BY <1>2 DEF AppStep, AddNew, AddProvided, DelOnion, Released, Sends, appVars
  <2>2. QED
    BY <2>1 DEF KeysInv, RepliesOneKey, KeyBelongs
<1>3. ASSUME NEW c \in Clients, TorStep(c)
      PROVE  RepliesOneKey' /\ KeyBelongs'
  <2>1. services' = services
    BY <1>3 DEF TorStep, TorAdds, TorRefuses, TorDeletes, TorSeesEnd, Replies,
                appVars
  <2>2. RepliesOneKey'
    BY <1>3, TorStepKeys DEF KeysInv
  <2>3. QED
    BY <2>1, <2>2 DEF KeysInv, KeyBelongs
<1>4. ASSUME NEW c \in Clients, ReadStep(c)
      PROVE  RepliesOneKey' /\ KeyBelongs'
  BY <1>4, ReadStepKeys
<1>5. CASE TorExits
  <2>1. services' = services
    BY <1>5 DEF TorExits, appVars
  <2>2. QED
    BY <1>1, <1>5, <2>1, ExitKeys DEF KeysInv, KeyBelongs
<1>6. CASE UNCHANGED vars
  BY <1>1, <1>6 DEF KeysInv, RepliesOneKey, KeyBelongs, vars, appVars
<1> QED
  BY <1>1, <1>2, <1>3, <1>4, <1>5, <1>6 DEF Next, KeysInv

LEMMA KeysInitially == Init => KeysInv
BY TypeInitially DEF Init, KeysInv, RepliesOneKey, KeyBelongs

(* OnionServices.KeyBelongs: however replies are late, cut and taken for   *)
(* one another, parseAddOnionResponse makes no OnionService of one key's   *)
(* ID and another's private key.                                           *)
THEOREM KeysBelong == Spec => []KeyBelongs
<1>1. KeysInv => KeyBelongs
  BY DEF KeysInv
<1> QED
  BY <1>1, KeysInitially, KeysInductive, PTL DEF Spec

-----------------------------------------------------------------------------
(* Services: who made one that the application does not know of is about   *)
(* to read its ID.                                                         *)

(* A connection that has ended has no requests and no services.            *)
Connected ==
    \A c \in Clients : ~attached[c] =>
        /\ toTor[c] = << >>
        /\ \A k \in Keys : owner[k] # c

(* As long as no call of a client timed out, there is one request, or one  *)
(* reply, or none, and only while a call waits.                            *)
InTurn ==
    \A c \in Clients : ~late[c] =>
        \/ toTor[c] = << >> /\ fromTor[c] = << >>
        \/ toTor[c] = << >> /\ Len(fromTor[c]) = 1 /\ pc[c] = "waiting"
        \/ toTor[c] = <<request[c]>> /\ fromTor[c] = << >> /\ pc[c] = "waiting"

(* Only a key that was drawn for it, or one the application has, is in a   *)
(* request of a client.                                                    *)
KeyKnown(c, r) ==
    /\ r.op = "new" => maker[r.key] = c
    /\ r.op = "given" => r.key \in Ids \cup OwnKeys

KeysKnown ==
    \A c \in Clients : \A i \in DOMAIN toTor[c] : KeyKnown(c, toTor[c][i])

NewOneKnown(k) ==
    owner[k] # Nobody /\ k \notin Ids \cup OwnKeys =>
        /\ maker[k] \in Clients
        /\ ~late[maker[k]] => request[maker[k]].op # "del" /\ AboutToRead(k)

NewOnesKnown == \A k \in Keys : NewOneKnown(k)

AccountInv == KeysInv /\ Connected /\ InTurn /\ KeysKnown /\ NewOnesKnown

LEMMA AccountInvAccounts == AccountInv => Accounted
BY DEF AccountInv, Accounted, Connected, NewOnesKnown, NewOneKnown

(* A call begins: nothing was under way, so nothing gets out of turn.      *)
LEMMA SendsAccounts ==
    ASSUME AccountInv, NEW c \in Clients, NEW r \in Requests, Sends(c, r),
           \A k \in Keys : maker[k] # Nobody => maker'[k] = maker[k],
           r.op = "new" => maker'[r.key] = c,
           r.op = "given" => r.key \in Ids \cup OwnKeys
    PROVE  Connected' /\ InTurn' /\ KeysKnown' /\ NewOnesKnown'
<1>1. /\ toTor \in [Clients -> Seq(Requests)] /\ toTor[c] \in Seq(Requests)
      /\ request \in [Clients -> Requests \cup {NoRequest}]
      /\ pc \in [Clients -> Labels]
  BY DEF AccountInv, KeysInv, TypeOK
<1>2. /\ pc[c] = "idle" /\ pc' = [pc EXCEPT ![c] = "waiting"]
      /\ request' = [request EXCEPT ![c] = r]
      /\ toTor' = IF attached[c] THEN [toTor EXCEPT ![c] = Append(@, r)]
                  ELSE toTor
      /\ UNCHANGED <<fromTor, attached, owner, services, late>>
  BY DEF Sends, torVars
<1>3. Connected'
  BY <1>1, <1>2 DEF AccountInv, Connected
<1>4. InTurn'
  <2> SUFFICES ASSUME NEW d \in Clients, ~late[d]
               PROVE  \/ toTor'[d] = << >> /\ fromTor[d] = << >>
                      \/ /\ toTor'[d] = << >> /\ Len(fromTor[d]) = 1
                         /\ pc'[d] = "waiting"
                      \/ /\ toTor'[d] = <<request'[d]>> /\ fromTor[d] = << >>
                         /\ pc'[d] = "waiting"
    BY <1>2 DEF InTurn
  <2>1. CASE d # c
    BY <1>1, <1>2, <2>1 DEF AccountInv, InTurn
  <2>2. CASE d = c
    <3>1. toTor[c] = << >> /\ fromTor[c] = << >>
      BY <1>2, <2>2 DEF AccountInv, InTurn
    <3>2. Append(toTor[c], r) = <<r>>
      BY <3>1
    <3>3. QED
      BY <1>1, <1>2, <2>2, <3>1, <3>2
  <2> QED
    BY <2>1, <2>2
<1>5. KeysKnown'
  <2> DEFINE Known(d, q) == /\ q.op = "new" => maker'[q.key] = d
                            /\ q.op = "given" => q.key \in Ids \cup OwnKeys
  <2>1. Ids' = Ids
    BY <1>2 DEF Ids
  <2>2. ASSUME NEW d \in Clients, NEW j \in DOMAIN toTor[d]
        PROVE  Known(d, toTor[d][j])
    <3>1. toTor[d][j] \in Requests
      BY <1>1, LenProperties, ElementOfSeq
    <3>2. toTor[d][j].key \in Keys
      BY <3>1 DEF Requests
    <3>3. KeyKnown(d, toTor[d][j])
      BY DEF AccountInv, KeysKnown
    <3> QED
      BY <3>2, <3>3, TypesKnown DEF KeyKnown
  <2>3. Known(c, r)
    OBVIOUS
  <2>4. ASSUME NEW d \in Clients, NEW i \in DOMAIN toTor'[d]
        PROVE  Known(d, toTor'[d][i])
    <3>1. toTor[d] \in Seq(Requests)
      BY <1>1
    <3>2. CASE toTor'[d] = toTor[d]
      BY <2>2, <3>2
    <3>3. CASE toTor'[d] # toTor[d]
      <4>1. d = c /\ toTor'[d] = Append(toTor[d], r)
        BY <1>1, <1>2, <3>3
      <4>2. /\ i \in 1 .. Len(toTor[d]) + 1
            /\ i \in 1 .. Len(toTor[d]) => toTor'[d][i] = toTor[d][i]
            /\ i = Len(toTor[d]) + 1 => toTor'[d][i] = r
        BY <3>1, <4>1, AppendProperties
      <4>3. DOMAIN toTor[d] = 1 .. Len(toTor[d])
        BY <3>1, LenProperties
      <4> HIDE DEF Known
      <4>4. CASE i \in 1 .. Len(toTor[d])
        BY <2>2, <4>2, <4>3, <4>4
      <4>5. CASE i = Len(toTor[d]) + 1
        BY <2>3, <4>1, <4>2, <4>5
      <4> QED
        BY <3>1, <4>2, <4>4, <4>5
    <3> QED
      BY <3>2, <3>3
  <2> QED
    BY <2>1, <2>4 DEF KeysKnown, KeyKnown
<1>6. NewOnesKnown'
  <2> SUFFICES ASSUME NEW k \in Keys, owner[k] # Nobody, k \notin Ids \cup OwnKeys
               PROVE  /\ maker'[k] \in Clients
                      /\ ~late[maker'[k]] =>
                             request'[maker'[k]].op # "del" /\ AboutToRead(k)'
    BY <1>2 DEF NewOnesKnown, NewOneKnown, Ids
  <2>1. /\ maker[k] \in Clients
        /\ ~late[maker[k]] => request[maker[k]].op # "del" /\ AboutToRead(k)
    BY DEF AccountInv, NewOnesKnown, NewOneKnown
  <2>2. maker'[k] = maker[k]
    BY <2>1, TypesKnown
  <2>3. ~late[maker[k]] => maker[k] # c
    BY <1>2, <2>1 DEF AboutToRead
  <2>4. QED
    BY <1>1, <1>2, <2>1, <2>2, <2>3 DEF AboutToRead
<1> QED
  BY <1>3, <1>4, <1>5, <1>6

LEMMA AppStepAccounts ==
    ASSUME AccountInv, NEW c \in Clients, AppStep(c)
    PROVE  Connected' /\ InTurn' /\ KeysKnown' /\ NewOnesKnown'
<1>1. CASE AddNew(c)
  <2> DEFINE k == CHOOSE k \in Fresh : TRUE
  <2>1. k \in Keys /\ maker[k] = Nobody
    BY <1>1 DEF AddNew, Fresh
  <2>2. PICK discard \in BOOLEAN, detach \in BOOLEAN :
            Sends(c, New(k, discard, detach))
    BY <1>1 DEF AddNew
  <2>3. maker' = [maker EXCEPT ![k] = c]
    BY <1>1 DEF AddNew
  <2>4. maker \in [Keys -> Clients \cup {Nobody}]
    BY DEF AccountInv, KeysInv, TypeOK
  <2> HIDE DEF k
  <2> DEFINE r == New(k, discard, detach)
  <2>5. r \in Requests /\ r.op = "new" /\ r.key = k
    <3>1. r \in Requests
      BY <2>1, RequestTypes
    <3>2. QED
      BY <3>1 DEF New
  <2> HIDE DEF r
  <2>6. Sends(c, r)
    BY <2>2 DEF r
  <2>7. QED
    BY <2>1, <2>3, <2>4, <2>5, <2>6, SendsAccounts
<1>2. CASE AddProvided(c)
  <2>1. PICK k \in PrivateKeys \cup OwnKeys, typed \in BOOLEAN,
             detach \in BOOLEAN : Sends(c, Given(k, typed, detach))
    BY <1>2 DEF AddProvided
  <2>2. k \in Keys /\ k \in Ids \cup OwnKeys
    <3>1. PrivateKeys \subseteq Ids /\ Ids \subseteq Keys
      BY DEF AccountInv, KeysInv, KeyBelongs, TypeOK, Records, PrivateKeys, Ids
    <3>2. QED
      BY <3>1, ServicesKnown
  <2> DEFINE r == Given(k, typed, detach)
  <2>3. r \in Requests /\ r.op = "given" /\ r.key = k
    <3>1. r \in Requests
      BY <2>2, RequestTypes
    <3>2. QED
      BY <3>1 DEF Given
  <2>4. Sends(c, r) /\ maker' = maker
    BY <1>2, <2>1 DEF AddProvided
  <2> HIDE DEF r
  <2>5. QED
    BY <2>2, <2>3, <2>4, SendsAccounts
<1>3. CASE DelOnion(c)
  <2>1. PICK k \in Ids : Sends(c, Del(k))
    BY <1>3 DEF DelOnion
  <2>2. k \in Keys
    BY DEF AccountInv, KeysInv, TypeOK, Ids, Records
  <2>3. Del(k) \in Requests /\ Del(k).op = "del"
    BY <2>2, RequestTypes DEF Del
  <2>4. QED
    BY <1>3, <2>1, <2>3, SendsAccounts DEF DelOnion
<1>4. CASE Released(c)
  <2>1. /\ pc[c] = "idle" /\ pc' = [pc EXCEPT ![c] = "released"]
        /\ UNCHANGED <<toTor, fromTor, attached, owner, maker, request,
                       services, late>>
    BY <1>4 DEF Released, torVars, appVars
  <2>2. pc \in [Clients -> Labels]
    BY DEF AccountInv, KeysInv, TypeOK
  <2>3. \A d \in Clients : pc[d] = "waiting" => pc'[d] = "waiting"
    BY <2>1, <2>2
  <2>4. Connected' /\ KeysKnown'
    BY <2>1 DEF AccountInv, Connected, KeysKnown, KeyKnown, Ids
  <2>5. InTurn'
    BY <2>1, <2>3 DEF AccountInv, InTurn
  <2>6. NewOnesKnown'
    BY <2>1, <2>3 DEF AccountInv, NewOnesKnown, NewOneKnown, AboutToRead, Ids
  <2>7. QED
    BY <2>4, <2>5, <2>6
<1> QED
  BY <1>1, <1>2, <1>3, <1>4 DEF AppStep

(* A request becomes a reply: the others are in turn as before, and who    *)
(* was about to read still is.                                             *)
LEMMA RepliesAccount ==
    ASSUME AccountInv, NEW c \in Clients, NEW lines \in Seq(ReplyLines),
           toTor[c] # << >>, Replies(c, lines)
    PROVE  /\ InTurn' /\ KeysKnown'
           /\ ~late[c] => /\ Head(toTor[c]) = request[c] /\ pc[c] = "waiting"
                          /\ fromTor'[c] = <<lines>>
           /\ \A k \in Keys : maker[k] \in Clients /\ AboutToRead(k)
                                  => AboutToRead(k)'
<1>1. /\ toTor \in [Clients -> Seq(Requests)] /\ toTor[c] \in Seq(Requests)
      /\ fromTor \in [Clients -> Seq(Seq(ReplyLines))]
      /\ fromTor[c] \in Seq(Seq(ReplyLines))
  BY DEF AccountInv, KeysInv, TypeOK
<1>2. /\ toTor' = [toTor EXCEPT ![c] = Tail(@)]
      /\ fromTor' = [fromTor EXCEPT ![c] = Append(@, lines)]
      /\ UNCHANGED <<maker, request, services, pc, late>>
  BY DEF Replies, appVars
<1>3. ASSUME ~late[c]
      PROVE  /\ toTor[c] = <<request[c]>> /\ fromTor[c] = << >>
             /\ pc[c] = "waiting"
  BY <1>3 DEF AccountInv, InTurn
<1>4. ASSUME ~late[c]
      PROVE  /\ Head(toTor[c]) = request[c] /\ toTor'[c] = << >>
             /\ fromTor'[c] = <<lines>> /\ Len(fromTor'[c]) = 1
  <2>1. toTor'[c] = Tail(toTor[c]) /\ fromTor'[c] = Append(fromTor[c], lines)
    BY <1>1, <1>2
  <2>2. Tail(toTor[c]) = << >> /\ Head(toTor[c]) = request[c]
    <3>1. Len(toTor[c]) = 1 /\ toTor[c][1] = request[c]
      <4>1. toTor[c] = <<request[c]>>
        BY <1>3, <1>4
      <4>2. \A q : Len(<<q>>) = 1 /\ <<q>>[1] = q
        OBVIOUS
      <4>3. QED
        BY <4>1, <4>2, Zenon
    <3>2. Tail(toTor[c]) \in Seq(Requests) /\ Len(Tail(toTor[c])) = 0
      BY <1>1, <3>1, HeadTailProperties
    <3>3. Tail(toTor[c]) = << >>
      BY <3>2, EmptySeq
    <3>4. Head(toTor[c]) = toTor[c][1]
      BY <1>1
    <3> QED
      BY <3>1, <3>3, <3>4
  <2>3. <<lines>> \in Seq(Seq(ReplyLines))
    OBVIOUS
  <2>4. Append(fromTor[c], lines) = fromTor[c] \o <<lines>>
    BY <1>1, AppendIsConcat, Zenon
  <2>5. fromTor[c] \o <<lines>> = <<lines>>
    BY <1>3, <1>4, <2>3, ConcatEmptySeq
  <2>6. Len(<<lines>>) = 1
    OBVIOUS
  <2>7. QED
    BY <2>1, <2>2, <2>4, <2>5, <2>6
<1>5. InTurn'
  <2>1. \A d \in Clients : d # c => toTor'[d] = toTor[d] /\ fromTor'[d] = fromTor[d]
    BY <1>1, <1>2
  <2>2. QED
    BY <1>2, <1>3, <1>4, <2>1 DEF AccountInv, InTurn
<1>6. KeysKnown'
  <2>1. ASSUME NEW d \in Clients, NEW i \in DOMAIN toTor'[d]
        PROVE  \E j \in DOMAIN toTor[d] : toTor'[d][i] = toTor[d][j]
    <3>1. CASE d # c
      BY <1>1, <1>2, <3>1
    <3>2. CASE d = c
      <4>1. /\ toTor'[d] = Tail(toTor[d]) /\ toTor[d] \in Seq(Requests)
            /\ toTor[d] # << >>
        BY <1>1, <1>2, <3>2
      <4>2. /\ toTor'[d] \in Seq(Requests) /\ Len(toTor'[d]) = Len(toTor[d]) - 1
            /\ \A j \in 1 .. Len(toTor'[d]) : toTor'[d][j] = toTor[d][j + 1]
        BY <4>1, HeadTailProperties
      <4>3. DOMAIN toTor[d] = 1 .. Len(toTor[d]) /\ Len(toTor[d]) \in Nat
            /\ DOMAIN toTor'[d] = 1 .. Len(toTor'[d])
        BY <4>1, <4>2, LenProperties
      <4>4. i + 1 \in DOMAIN toTor[d] /\ toTor'[d][i] = toTor[d][i + 1]
        BY <4>2, <4>3
      <4>5. QED
        BY <4>4
    <3> QED
      BY <3>1, <3>2
  <2>2. Ids' = Ids /\ maker' = maker
    BY <1>2 DEF Ids
  <2>3. QED
    BY <2>1, <2>2 DEF AccountInv, KeysKnown, KeyKnown
<1>7. ASSUME NEW k \in Keys, maker[k] \in Clients, AboutToRead(k)
      PROVE  AboutToRead(k)'
  <2>1. CASE maker[k] # c
    BY <1>1, <1>2, <1>7, <2>1 DEF AboutToRead
  <2>2. CASE maker[k] = c
    <3>1. fromTor[c] # << >> /\ Head(fromTor[c])[1] = Line("id", k)
      BY <1>7, <2>2 DEF AboutToRead
    <3>2. fromTor'[c] = Append(fromTor[c], lines)
      BY <1>1, <1>2
    <3>3. Append(fromTor[c], lines) # << >>
      BY <1>1, AppendProperties, Zenon
    <3>4. Head(Append(fromTor[c], lines)) = Head(fromTor[c])
      BY <1>1, <3>1, HeadTailAppend, Zenon
    <3>5. QED
      BY <1>2, <1>7, <2>2, <3>1, <3>2, <3>3, <3>4 DEF AboutToRead
  <2> QED
    BY <2>1, <2>2
<1> QED
  BY <1>3, <1>4, <1>5, <1>6, <1>7

LEMMA TorStepAccounts ==
    ASSUME AccountInv, NEW c \in Clients, TorStep(c)
    PROVE  Connected' /\ InTurn' /\ KeysKnown' /\ NewOnesKnown'
<1> DEFINE r == Head(toTor[c])
<1>1. /\ toTor \in [Clients -> Seq(Requests)] /\ toTor[c] \in Seq(Requests)
      /\ owner \in [Keys -> Clients \cup {Nobody, Detached}]
      /\ attached \in [Clients -> BOOLEAN]
  BY DEF AccountInv, KeysInv, TypeOK
<1>2. ASSUME toTor[c] # << >>
      PROVE  r \in Requests /\ KeyKnown(c, r) /\ attached[c]
  <2>1. r \in Requests /\ r = toTor[c][1] /\ 1 \in DOMAIN toTor[c]
    BY <1>1, <1>2, HeadTailProperties, LenProperties
  <2>2. QED
    BY <1>2, <2>1 DEF AccountInv, KeysKnown, Connected
<1>3. \A q \in Requests : q.key \in Keys
  BY DEF Requests
<1>4. ASSUME toTor[c] # << >>, NEW lines \in Seq(ReplyLines), Replies(c, lines)
      PROVE  \A d \in Clients : ~attached'[d] => toTor'[d] = << >>
                                                 /\ \A k \in Keys : owner[k] # d
  <2>1. toTor' = [toTor EXCEPT ![c] = Tail(@)] /\ attached' = attached
    BY <1>4 DEF Replies
  <2>2. QED
    BY <1>1, <1>2, <1>4, <2>1 DEF AccountInv, Connected
<1>5. ASSUME NEW k \in Keys, NewOneKnown(k), toTor[c] # << >>,
             NEW lines \in Seq(ReplyLines), Replies(c, lines),
             owner'[k] # Nobody => owner[k] # Nobody
      PROVE  NewOneKnown(k)'
  <2>1. UNCHANGED <<maker, request, services, late>>
    BY <1>5 DEF Replies, appVars
  <2>2. maker[k] \in Clients /\ AboutToRead(k) => AboutToRead(k)'
    BY <1>5, RepliesAccount
  <2>3. QED
    BY <1>5, <2>1, <2>2 DEF NewOneKnown, Ids
<1> HIDE DEF r
<1>6. CASE TorAdds(c)
  <2> DEFINE lines == AddReply(r)
  <2>1. /\ toTor[c] # << >> /\ r.op \in {"new", "given"} /\ Replies(c, lines)
        /\ owner' = [owner EXCEPT ![r.key] = IF r.detach THEN Detached ELSE c]
    BY <1>6 DEF TorAdds, Takes, r
  <2>2. lines \in Seq(ReplyLines) /\ r.key \in Keys
    BY <1>2, <1>3, <2>1, ReplyTypes
  <2>3. lines[1] = Line("id", r.key)
    BY DEF AddReply
  <2>4. UNCHANGED <<maker, request, services, pc, late, attached>>
    BY <2>1 DEF Replies, appVars
  <2>5. /\ InTurn' /\ KeysKnown'
        /\ ~late[c] => /\ r = request[c] /\ pc[c] = "waiting"
                       /\ fromTor'[c] = <<lines>>
    <3> HIDE DEF lines
    <3>1. QED
      BY <2>1, <2>2, RepliesAccount DEF r
  <2>6. Connected'
    <3>1. \A d \in Clients : ~attached'[d] => toTor'[d] = << >>
                                              /\ \A k \in Keys : owner[k] # d
      BY <1>4, <2>1, <2>2
    <3>2. \A k \in Keys : \A d \in Clients :
              owner'[k] = d => owner[k] = d \/ d = c
      BY <1>1, <2>1, <2>2, TypesKnown
    <3>3. attached[c]
      BY <1>2, <2>1
    <3>4. QED
      BY <2>4, <3>1, <3>2, <3>3 DEF Connected
  <2>7. PICK key \in Keys : key = r.key
    BY <2>2
  <2>8. NewOneKnown(key)'
    <3>1. CASE r.op = "given"
      BY <1>2, <2>1, <2>4, <2>7, <3>1 DEF KeyKnown, NewOneKnown, Ids
    <3>2. CASE r.op = "new"
      <4>1. maker[key] = c
        BY <1>2, <2>1, <2>7, <3>2 DEF KeyKnown
      <4>2. ASSUME ~late[c]
            PROVE  request[c].op # "del" /\ AboutToRead(key)'
        <5>1. request[c].op = "new" /\ pc[c] = "waiting"
              /\ fromTor'[c] = <<lines>>
          BY <2>5, <3>2, <4>2
        <5>2. <<lines>> # << >> /\ Head(<<lines>>) = lines
          OBVIOUS
        <5> HIDE DEF lines
        <5>3. QED
          BY <2>3, <2>4, <2>7, <4>1, <5>1, <5>2 DEF AboutToRead
      <4>3. QED
        BY <2>4, <4>1, <4>2 DEF NewOneKnown
    <3> QED
      BY <2>1, <3>1, <3>2
  <2>9. ASSUME NEW k \in Keys, k # key PROVE NewOneKnown(k)'
    <3>1. owner'[k] = owner[k]
      BY <1>1, <2>1, <2>7, <2>9
    <3>2. NewOneKnown(k)
      BY DEF AccountInv, NewOnesKnown
    <3> HIDE DEF lines
    <3>3. QED
      BY <1>5, <2>1, <2>2, <3>1, <3>2
  <2>10. NewOnesKnown'
    BY <2>8, <2>9 DEF NewOnesKnown
  <2> QED
    BY <2>5, <2>6, <2>10
<1>7. CASE TorRefuses(c) \/ TorDeletes(c)
  <2>1. PICK lines \in {<<Line("error", NoKey)>>, <<Line("ok", NoKey)>>,
                        <<Line("unknown", NoKey)>>} : Replies(c, lines)
    BY <1>7 DEF TorRefuses, TorDeletes, Ok
  <2>2. toTor[c] # << >> /\ lines \in Seq(ReplyLines)
    BY <1>7, ReplyTypes DEF TorRefuses, TorDeletes, Takes
  <2>3. owner' = owner \/ owner' = [owner EXCEPT ![r.key] = Nobody]
    BY <1>7 DEF TorRefuses, TorDeletes, r
  <2>4. \A k \in Keys : owner'[k] = owner[k] \/ owner'[k] = Nobody
    BY <1>1, <2>3
  <2>5. InTurn' /\ KeysKnown'
    BY <2>1, <2>2, RepliesAccount
  <2>6. Connected'
    BY <1>4, <2>1, <2>2, <2>4, TypesKnown DEF Connected
  <2>7. NewOnesKnown'
    BY <1>5, <2>1, <2>2, <2>4 DEF AccountInv, NewOnesKnown
  <2> QED
    BY <2>5, <2>6, <2>7
<1>8. CASE TorSeesEnd(c)
  <2>1. /\ attached' = [attached EXCEPT ![c] = FALSE]
        /\ owner' = [k \in Keys |-> IF owner[k] = c THEN Nobody ELSE owner[k]]
        /\ toTor' = [toTor EXCEPT ![c] = << >>]
        /\ pc[c] = "released"
        /\ UNCHANGED <<fromTor, maker, request, services, pc, late>>
    BY <1>8 DEF TorSeesEnd, Without, appVars
  <2>2. Connected'
    BY <1>1, <2>1, TypesKnown DEF AccountInv, Connected
  <2>3. InTurn'
    BY <1>1, <2>1 DEF AccountInv, InTurn
  <2>4. KeysKnown'
    <3>1. \A d \in Clients : toTor'[d] = toTor[d] \/ toTor'[d] = << >>
      BY <1>1, <2>1
    <3>2. QED
      BY <2>1, <3>1 DEF AccountInv, KeysKnown, KeyKnown, Ids
  <2>5. NewOnesKnown'
    BY <2>1 DEF AccountInv, NewOnesKnown, NewOneKnown, AboutToRead, Ids
  <2> QED
    BY <2>2, <2>3, <2>4, <2>5
<1> QED
  BY <1>6, <1>7, <1>8 DEF TorStep

(* The reply a client is about to read gives it the OnionService.          *)
LEMMA ReadsTheService ==
    ASSUME NEW lines \in Seq(ReplyLines), OneKey(lines), NEW k \in Keys,
           lines[1] = Line("id", k), NEW r, r.op # "del"
    PROVE  Result(r, lines).kind = "service" /\ Result(r, lines).id = k
<1>1. PICK j \in Keys : TellsOf(j, lines)
  BY DEF OneKey
<1>2. 1 \in DOMAIN lines
  BY LenProperties, EmptySeq DEF OneKey
<1>3. lines[1].kind = "id" /\ lines[1].key = k
  BY DEF Line
<1>4. j = k
  BY <1>1, <1>2, <1>3 DEF TellsOf
<1>5. Field(lines, "id") = k
  BY <1>1, <1>2, <1>3, <1>4, FieldIsTheKey
<1>6. k # NoKey
  BY TypesKnown
<1> QED
  BY <1>3, <1>5, <1>6 DEF Result, ParseAddOnionResponse, IsSuccess, Service

LEMMA ReadStepAccounts ==
    ASSUME AccountInv, NEW c \in Clients, ReadStep(c)
    PROVE  Connected' /\ InTurn' /\ KeysKnown' /\ NewOnesKnown'
<1>1. /\ fromTor \in [Clients -> Seq(Seq(ReplyLines))]
      /\ fromTor[c] \in Seq(Seq(ReplyLines))
      /\ pc \in [Clients -> Labels] /\ late \in [Clients -> BOOLEAN]
      /\ request \in [Clients -> Requests \cup {NoRequest}]
  BY DEF AccountInv, KeysInv, TypeOK
<1>2. /\ UNCHANGED <<toTor, attached, owner, maker>>
      /\ pc[c] = "waiting"
      /\ pc' = [pc EXCEPT ![c] = "idle"]
      /\ request' = [request EXCEPT ![c] = NoRequest]
  BY DEF ReadStep, ReadReply, ReadFails, ReadTimesOut, Returns, Ends, torVars
<1>3. Ids \subseteq Ids'
  BY DEF ReadStep, ReadReply, ReadFails, ReadTimesOut, Returns, Ids
<1>4. Connected'
  BY <1>2 DEF AccountInv, Connected
<1>5. KeysKnown'
  BY <1>2, <1>3 DEF AccountInv, KeysKnown, KeyKnown
<1>6. \A d \in Clients : d # c =>
          fromTor'[d] = fromTor[d] /\ late'[d] = late[d]
          /\ pc'[d] = pc[d] /\ request'[d] = request[d]
  BY <1>1, <1>2 DEF ReadStep, ReadReply, ReadFails, ReadTimesOut, Returns
<1>7. ASSUME ~late'[c] => toTor[c] = << >> /\ fromTor'[c] = << >>
      PROVE  InTurn'
  BY <1>2, <1>6, <1>7 DEF AccountInv, InTurn
<1>8. ASSUME ~late'[c] => ~late[c],
             \A k \in Keys :
                 ~late[c] /\ maker[k] = c /\ request[c].op # "del"
                     /\ AboutToRead(k) => late'[c] \/ k \in Ids'
      PROVE  NewOnesKnown'
  <2> SUFFICES ASSUME NEW k \in Keys, owner[k] # Nobody, k \notin Ids',
                      k \notin OwnKeys
               PROVE  /\ maker[k] \in Clients
                      /\ ~late'[maker[k]] =>
                             request'[maker[k]].op # "del" /\ AboutToRead(k)'
    BY <1>2 DEF NewOnesKnown, NewOneKnown
  <2>1. /\ maker[k] \in Clients
        /\ ~late[maker[k]] => request[maker[k]].op # "del" /\ AboutToRead(k)
    BY <1>3 DEF AccountInv, NewOnesKnown, NewOneKnown
  <2>2. CASE maker[k] = c
    BY <1>8, <2>1, <2>2
  <2>3. CASE maker[k] # c
    BY <1>2, <1>6, <2>1, <2>3 DEF AboutToRead
  <2> QED
    BY <2>2, <2>3
<1>9. CASE ReadReply(c)
  <2> DEFINE result == Result(request[c], Head(fromTor[c]))
  <2>1. /\ fromTor[c] # << >> /\ late' = late
        /\ fromTor' = [fromTor EXCEPT ![c] = Tail(@)]
        /\ services' = IF result.kind # "service" THEN services
                       ELSE services \cup {[id |-> result.id,
                                            private |-> result.private]}
    BY <1>9 DEF ReadReply, Returns
  <2>2. ASSUME ~late[c] PROVE toTor[c] = << >> /\ fromTor'[c] = << >>
    <3>1. toTor[c] = << >> /\ Len(fromTor[c]) = 1
      BY <2>1, <2>2 DEF AccountInv, InTurn
    <3>2. Tail(fromTor[c]) \in Seq(Seq(ReplyLines)) /\ Len(Tail(fromTor[c])) = 0
      BY <1>1, <2>1, <3>1, HeadTailProperties
    <3>3. Tail(fromTor[c]) = << >>
      BY <3>2, EmptySeq
    <3>4. QED
      BY <1>1, <2>1, <3>1, <3>3
  <2>3. ASSUME NEW k \in Keys, maker[k] = c, request[c].op # "del", AboutToRead(k)
        PROVE  k \in Ids'
    <3>1. Head(fromTor[c]) \in Seq(ReplyLines)
      BY <1>1, <2>1, HeadTailProperties
    <3>2. OneKey(Head(fromTor[c]))
      <4>1. 1 \in DOMAIN fromTor[c] /\ Head(fromTor[c]) = fromTor[c][1]
        BY <1>1, <2>1, LenProperties, EmptySeq
      <4>2. QED
        BY <4>1 DEF AccountInv, KeysInv, RepliesOneKey
    <3>3. Head(fromTor[c])[1] = Line("id", k)
      BY <2>3 DEF AboutToRead
    <3>4. result.kind = "service" /\ result.id = k
      BY <2>3, <3>1, <3>2, <3>3, ReadsTheService
    <3> DEFINE made == [id |-> result.id, private |-> result.private]
    <3>5. made.id = k /\ made \in services'
      BY <2>1, <3>4
    <3> HIDE DEF made
    <3>6. QED
      BY <3>5 DEF Ids
  <2>4. QED
    BY <1>4, <1>5, <1>7, <1>8, <2>1, <2>2, <2>3
<1>10. CASE ReadFails(c)
  <2>1. ~attached[c] /\ fromTor[c] = << >> /\ fromTor' = fromTor /\ late' = late
    BY <1>10 DEF ReadFails
  <2>2. toTor[c] = << >>
    BY <2>1 DEF AccountInv, Connected
  <2>3. \A k \in Keys : maker[k] = c => ~AboutToRead(k)
    BY <2>1 DEF AboutToRead
  <2>4. QED
    BY <1>4, <1>5, <1>7, <1>8, <2>1, <2>2, <2>3
<1>11. CASE ReadTimesOut(c)
  <2>1. late'[c]
    BY <1>1, <1>11 DEF ReadTimesOut
  <2>2. QED
    BY <1>4, <1>5, <1>7, <1>8, <2>1
<1> QED
  BY <1>9, <1>10, <1>11 DEF ReadStep

LEMMA ExitAccounts ==
    ASSUME AccountInv, TorExits
    PROVE  Connected' /\ InTurn' /\ KeysKnown' /\ NewOnesKnown'
<1>1. /\ owner' = [k \in Keys |-> Nobody]
      /\ toTor' = [c \in Clients |-> << >>]
      /\ UNCHANGED <<maker, request, services, pc, late>>
  BY DEF TorExits, appVars
<1>2. PICK kept \in [Clients -> 0 .. MaxCalls] :
          /\ \A c \in Clients : kept[c] <= Len(fromTor[c])
          /\ fromTor' = [c \in Clients |-> SubSeq(fromTor[c], 1, kept[c])]
  BY DEF TorExits
<1>3. Connected'
  BY <1>1, TypesKnown DEF Connected
<1>4. KeysKnown'
  BY <1>1 DEF KeysKnown
<1>5. NewOnesKnown'
  BY <1>1 DEF NewOnesKnown, NewOneKnown
<1>6. ASSUME NEW c \in Clients, ~late[c]
      PROVE  \/ fromTor'[c] = << >>
             \/ Len(fromTor'[c]) = 1 /\ pc[c] = "waiting"
  <2>1. /\ fromTor[c] \in Seq(Seq(ReplyLines)) /\ kept[c] \in Nat
        /\ kept[c] <= Len(fromTor[c])
    BY <1>2, ServicesKnown DEF AccountInv, KeysInv, TypeOK
  <2>2. /\ fromTor'[c] \in Seq(Seq(ReplyLines))
        /\ Len(fromTor'[c]) = kept[c]
    <3>1. \A j \in 1 .. kept[c] : fromTor[c][j] \in Seq(ReplyLines)
      BY <2>1, ElementOfSeq
    <3>2. fromTor'[c] = SubSeq(fromTor[c], 1, kept[c])
      BY <1>2
    <3>3. /\ fromTor'[c] \in Seq(Seq(ReplyLines))
          /\ Len(fromTor'[c]) = IF 1 <= kept[c] THEN kept[c] - 1 + 1 ELSE 0
      BY <2>1, <3>1, <3>2, SubSeqProperties
    <3>4. QED
      BY <2>1, <3>3
  <2>3. \/ fromTor[c] = << >>
        \/ Len(fromTor[c]) = 1 /\ pc[c] = "waiting"
    BY <1>6 DEF AccountInv, InTurn
  <2>4. kept[c] = 0 => fromTor'[c] = << >>
    BY <2>2, EmptySeq
  <2>5. CASE fromTor[c] = << >>
    <3>1. Len(fromTor[c]) = 0
      BY <2>5, EmptySeq
    <3>2. QED
      BY <2>1, <2>4, <3>1
  <2>6. CASE Len(fromTor[c]) = 1 /\ pc[c] = "waiting"
    <3>1. kept[c] = 0 \/ kept[c] = 1
      BY <2>1, <2>6
    <3>2. QED
      BY <2>2, <2>4, <2>6, <3>1
  <2> QED
    BY <2>3, <2>5, <2>6
<1>7. InTurn'
  BY <1>1, <1>6 DEF InTurn
<1> QED
  BY <1>3, <1>4, <1>5, <1>7

LEMMA AccountsInitially == Init => AccountInv
BY KeysInitially DEF Init, AccountInv, Connected, InTurn, KeysKnown,
   NewOnesKnown, NewOneKnown

LEMMA AccountsInductive == AccountInv /\ [Next]_vars => AccountInv'
<1> SUFFICES ASSUME AccountInv, [Next]_vars PROVE AccountInv'
  OBVIOUS
<1>1. KeysInv'
  BY KeysInductive DEF AccountInv
<1>2. ASSUME NEW c \in Clients, AppStep(c) \/ TorStep(c) \/ ReadStep(c)
      PROVE  Connected' /\ InTurn' /\ KeysKnown' /\ NewOnesKnown'
  BY <1>2, AppStepAccounts, TorStepAccounts, ReadStepAccounts
<1>3. CASE TorExits
  BY <1>1, <1>3, ExitAccounts DEF AccountInv
<1>4. CASE UNCHANGED vars
  BY <1>1, <1>4 DEF AccountInv, Connected, InTurn, KeysKnown, KeyKnown,
     NewOnesKnown, NewOneKnown, AboutToRead, Ids, vars, torVars, appVars
<1> QED
  BY <1>1, <1>2, <1>3, <1>4 DEF Next, AccountInv

(* OnionServices.Accounted: as long as the call that made it did not time  *)
(* out, no onion service is on the air whose connection has ended or whose *)
(* ID the application does not have or is not about to be given            *)
(* (TorControlClient.addOnion).                                            *)
THEOREM ServicesAccounted == Spec => []Accounted
BY AccountsInitially, AccountsInductive, AccountInvAccounts, PTL DEF Spec
=============================================================================
