---------------------------- MODULE OnionServices ----------------------------
(***************************************************************************)
(* The onion services of one Tor and the clients that add and delete them: *)
(* addOnion and delOnion over one control connection for each client, the  *)
(* replies left behind by calls that timed out, and the ends of a          *)
(* connection and of Tor.                                                  *)
(*                                                                         *)
(* A client serves one task, and a reply is a sequence of lines.  Which    *)
(* lines readReply takes for a reply is the matter of ReplyFraming.        *)
(***************************************************************************)
EXTENDS OnionTypes, Naturals, Sequences
LOCAL INSTANCE SequencesExt

CONSTANTS
    Owning,              \* the clients that close their connection (TCP)
    OwnKeys,             \* keys the application has made itself
    Faults,              \* a subset of FaultKinds
    MaxCalls             \* bound: calls of all clients together

(* "timeout"  a reply is not there in time        "exit"  Tor exits        *)
FaultKinds == {"timeout", "exit"}

ASSUME ServicesKnown ==
    /\ Owning \subseteq Clients
    /\ OwnKeys \subseteq Keys
    /\ Faults \subseteq FaultKinds
    /\ MaxCalls \in Nat

VARIABLES
    toTor,       \* requests written and not taken
    fromTor,     \* replies not read
    attached,    \* Tor has the connection
    owner,       \* whose the service of a key is
    maker,       \* history: the client a new key was drawn for
    pc,          \* where the call of a client is
    request,     \* what a client waits for the answer to
    outcome,     \* how the last call of a client ended
    services,    \* the OnionServices returned to the application
    calls,       \* how many calls were made
    late         \* history: a call of the client has timed out

torVars == <<attached, owner>>
appVars == <<maker, request, services, calls>>
vars == <<toTor, fromTor, torVars, appVars, pc, outcome, late>>

Labels == {"idle", "waiting", "released"}

Line(kind, k) == [kind |-> kind, key |-> k]
Ok == Line("ok", NoKey)

Init ==
    /\ toTor = [c \in Clients |-> << >>]
    /\ fromTor = [c \in Clients |-> << >>]
    /\ attached = [c \in Clients |-> TRUE]
    /\ owner = [k \in Keys |-> Nobody]
    /\ maker = [k \in Keys |-> Nobody]
    /\ pc = [c \in Clients |-> "idle"]
    /\ request = [c \in Clients |-> NoRequest]
    /\ outcome = [c \in Clients |-> NoResult]
    /\ services = {}
    /\ calls = 0
    /\ late = [c \in Clients |-> FALSE]

-----------------------------------------------------------------------------
(* The application.                                                        *)

Ids == {s.id : s \in services}
PrivateKeys == {s.private : s \in services} \ {NoKey}

(* sendCommand; what is written to a connection that has ended is lost.    *)
Sends(c, r) ==
    /\ pc[c] = "idle"
    /\ calls < MaxCalls
    /\ pc' = [pc EXCEPT ![c] = "waiting"]
    /\ request' = [request EXCEPT ![c] = r]
    /\ toTor' = IF attached[c] THEN [toTor EXCEPT ![c] = Append(@, r)] ELSE toTor
    /\ calls' = calls + 1
    /\ UNCHANGED <<fromTor, torVars, services, outcome, late>>

(* The keys Tor generates are drawn one after the other.                   *)
Fresh == {k \in Keys \ OwnKeys : maker[k] = Nobody}

AddNew(c) ==
    /\ Fresh # {}
    /\ LET k == CHOOSE k \in Fresh : TRUE
       IN  /\ \E discard, detach \in BOOLEAN : Sends(c, New(k, discard, detach))
           /\ maker' = [maker EXCEPT ![k] = c]

(* providedV3 puts its prefix before whatever string it is given.          *)
AddProvided(c) ==
    /\ \E k \in PrivateKeys \cup OwnKeys, typed, detach \in BOOLEAN :
           /\ typed => k \in PrivateKeys
           /\ Sends(c, Given(k, typed, detach))
    /\ UNCHANGED maker

DelOnion(c) ==
    /\ \E k \in Ids : Sends(c, Del(k))
    /\ UNCHANGED maker

Released(c) ==
    /\ pc[c] = "idle"
    /\ pc' = [pc EXCEPT ![c] = "released"]
    /\ UNCHANGED <<toTor, fromTor, torVars, appVars, outcome, late>>

-----------------------------------------------------------------------------
(* Tor.                                                                    *)

Replies(c, lines) ==
    /\ toTor' = [toTor EXCEPT ![c] = Tail(@)]
    /\ fromTor' = [fromTor EXCEPT ![c] = Append(@, lines)]
    /\ UNCHANGED <<attached, appVars, pc, outcome, late>>

Takes(c, ops) == attached[c] /\ toTor[c] # << >> /\ Head(toTor[c]).op \in ops

(* The key argument has to have two parts: its type and the blob.          *)
Parts(r) == IF r.op = "given" /\ r.typed THEN 3 ELSE 2
BadKey(r) == Parts(r) # 2

AddReply(r) ==
    IF r.op = "new" /\ ~r.discard
    THEN <<Line("id", r.key), Line("private", r.key), Ok>>
    ELSE <<Line("id", r.key), Ok>>

TorAdds(c) ==
    /\ Takes(c, {"new", "given"})
    /\ LET r == Head(toTor[c])
       IN  /\ ~BadKey(r) /\ owner[r.key] = Nobody
           /\ owner' = [owner EXCEPT
                            ![r.key] = IF r.detach THEN Detached ELSE c]
           /\ Replies(c, AddReply(r))

(* 512 Invalid key type/blob, or 550 Onion address collision.              *)
TorRefuses(c) ==
    /\ Takes(c, {"new", "given"})
    /\ LET r == Head(toTor[c]) IN BadKey(r) \/ owner[r.key] # Nobody
    /\ Replies(c, <<Line("error", NoKey)>>)
    /\ UNCHANGED owner

(* A connection may delete its own services and the detached ones.         *)
TorDeletes(c) ==
    /\ Takes(c, {"del"})
    /\ LET k == Head(toTor[c]).key
       IN  \/ /\ owner[k] \in {c, Detached}
              /\ owner' = [owner EXCEPT ![k] = Nobody]
              /\ Replies(c, <<Ok>>)
           \/ /\ owner[k] \notin {c, Detached}
              /\ Replies(c, <<Line("unknown", NoKey)>>)
              /\ UNCHANGED owner

\* mutant: a connection that ends leaves its services
KeepsServices(c) == owner

(* connection_control_closed: the services the connection owns are gone.   *)
Without(c) == [k \in Keys |-> IF owner[k] = c THEN Nobody ELSE owner[k]]

(* The end of a connection is seen after the requests that came before it, *)
(* or instead of them, when the answer to one cannot be written.           *)
TorSeesEnd(c) ==
    /\ attached[c] /\ c \in Owning /\ pc[c] = "released"
    /\ attached' = [attached EXCEPT ![c] = FALSE]
    /\ owner' = Without(c)
    /\ toTor' = [toTor EXCEPT ![c] = << >>]
    /\ UNCHANGED <<fromTor, appVars, pc, outcome, late>>

(* Replies not flushed are lost.                                           *)
TorExits ==
    /\ "exit" \in Faults
    /\ \E c \in Clients : attached[c]
    /\ attached' = [c \in Clients |-> FALSE]
    /\ owner' = [k \in Keys |-> Nobody]
    /\ toTor' = [c \in Clients |-> << >>]
    /\ \E kept \in [Clients -> 0 .. MaxCalls] :
           /\ \A c \in Clients : kept[c] <= Len(fromTor[c])
           /\ fromTor' = [c \in Clients |-> SubSeq(fromTor[c], 1, kept[c])]
    /\ UNCHANGED <<appVars, pc, outcome, late>>

-----------------------------------------------------------------------------
(* The reply.                                                              *)

(* keyValuePairs: the last line of a key counts.                           *)
Field(lines, kind) ==
    LET at == {i \in DOMAIN lines : lines[i].kind = kind}
    IN  IF at = {} THEN NoKey
        ELSE lines[CHOOSE i \in at : \A j \in at : j <= i].key

IsSuccess(lines) == lines[1].kind \in {"id", "private", "ok"}

Service(id, private) == [kind |-> "service", id |-> id, private |-> private]

\* mutant: a reply without a private key is not accepted
ParseNeedsKey(lines) ==
    IF ~IsSuccess(lines) THEN Verdict("refused")
    ELSE IF Field(lines, "private") = NoKey THEN Verdict("invalid")
    ELSE Service(Field(lines, "id"), Field(lines, "private"))

ParseAddOnionResponse(lines) ==
    IF ~IsSuccess(lines) THEN Verdict("refused")
    ELSE IF Field(lines, "id") = NoKey THEN Verdict("invalid")
    ELSE Service(Field(lines, "id"), Field(lines, "private"))

\* mutant: 552 counts as success, since the service is not there
DelIsIdempotent(lines) ==
    IF IsSuccess(lines) \/ lines[1].kind = "unknown"
    THEN Verdict("removed") ELSE Verdict("refused")

DelOnionResult(lines) ==
    IF IsSuccess(lines) THEN Verdict("removed")
    ELSE IF lines[1].kind = "unknown" THEN Verdict("unknown")
    ELSE Verdict("refused")

Result(r, lines) ==
    IF r.op = "del" THEN DelOnionResult(lines) ELSE ParseAddOnionResponse(lines)

\* mutant: the continuation is resumed and the call goes on
EndsAndWaits(c, result) ==
    /\ pc[c] = "waiting"
    /\ request' = [request EXCEPT ![c] = NoRequest]
    /\ outcome' = [outcome EXCEPT ![c] = result]
    /\ UNCHANGED <<toTor, torVars, maker, calls, pc>>

Ends(c, result) ==
    /\ pc[c] = "waiting"
    /\ pc' = [pc EXCEPT ![c] = "idle"]
    /\ request' = [request EXCEPT ![c] = NoRequest]
    /\ outcome' = [outcome EXCEPT ![c] = result]
    /\ UNCHANGED <<toTor, torVars, maker, calls>>

Returns(c, result) ==
    /\ Ends(c, result)
    /\ services' = IF result.kind # "service" THEN services
                   ELSE services \cup {[id |-> result.id,
                                        private |-> result.private]}
    /\ UNCHANGED late

\* mutant: the final line of a reply does not end it if there is another
ReadsPastEnd(c) ==
    /\ fromTor[c] # << >>
    /\ Returns(c, Result(request[c], FlattenSeq(fromTor[c])))
    /\ fromTor' = [fromTor EXCEPT ![c] = << >>]

(* The first reply there is answers the call.                              *)
ReadReply(c) ==
    /\ fromTor[c] # << >>
    /\ Returns(c, Result(request[c], Head(fromTor[c])))
    /\ fromTor' = [fromTor EXCEPT ![c] = Tail(@)]

ReadFails(c) ==
    /\ ~attached[c] /\ fromTor[c] = << >>
    /\ Ends(c, Verdict("failed"))
    /\ UNCHANGED <<fromTor, services, late>>

(* The lines readReply has collected when the deadline passes are lost,    *)
(* the others stay.                                                        *)
ReadTimesOut(c) ==
    /\ "timeout" \in Faults
    /\ Ends(c, Verdict("timeout"))
    /\ late' = [late EXCEPT ![c] = TRUE]
    /\ \/ UNCHANGED fromTor
       \/ /\ fromTor[c] # << >>
          /\ \E n \in 1 .. Len(Head(fromTor[c])) - 1 :
                 fromTor' = [fromTor EXCEPT
                     ![c] = <<SubSeq(Head(@), n + 1, Len(Head(@)))>> \o Tail(@)]
    /\ UNCHANGED services

-----------------------------------------------------------------------------
AppStep(c) == AddNew(c) \/ AddProvided(c) \/ DelOnion(c) \/ Released(c)
TorStep(c) == TorAdds(c) \/ TorRefuses(c) \/ TorDeletes(c) \/ TorSeesEnd(c)
ReadStep(c) == ReadReply(c) \/ ReadFails(c) \/ ReadTimesOut(c)

Next ==
    \/ \E c \in Clients : AppStep(c) \/ TorStep(c) \/ ReadStep(c)
    \/ TorExits

Spec == Init /\ [][Next]_vars

(* Tor gets to each connection.                                            *)
FairSpec == Spec /\ \A c \in Clients : WF_vars(TorStep(c))

-----------------------------------------------------------------------------
Records == [id : Keys, private : Keys \cup {NoKey}]
ReplyLines ==
    [kind : {"id", "private", "ok", "error", "unknown"}, key : Keys \cup {NoKey}]

(* Besides the types: a call under way, and only that, has its request.    *)
TypeOK ==
    /\ toTor \in [Clients -> Seq(Requests)]
    /\ fromTor \in [Clients -> Seq(Seq(ReplyLines))]
    /\ attached \in [Clients -> BOOLEAN]
    /\ owner \in [Keys -> Clients \cup {Nobody, Detached}]
    /\ maker \in [Keys -> Clients \cup {Nobody}]
    /\ pc \in [Clients -> Labels]
    /\ request \in [Clients -> Requests \cup {NoRequest}]
    /\ outcome \in [Clients -> Results]
    /\ services \subseteq Records
    /\ calls \in 0 .. MaxCalls
    /\ late \in [Clients -> BOOLEAN]
    /\ \A c \in Clients : pc[c] = "waiting" <=> request[c] # NoRequest

(* No service is on the air that nobody answers for: its connection is     *)
(* there, if it is bound to one, and the application has its ID or the key *)
(* itself, or is about to read the ID; unless the call that made it timed  *)
(* out.                                                                    *)
AboutToRead(k) ==
    /\ pc[maker[k]] = "waiting"
    /\ fromTor[maker[k]] # << >>
    /\ Head(fromTor[maker[k]])[1] = Line("id", k)

Accounted ==
    \A k \in Keys : owner[k] # Nobody =>
        /\ owner[k] \in Clients => attached[owner[k]]
        /\ \/ k \in Ids \cup OwnKeys
           \/ late[maker[k]]
           \/ AboutToRead(k)

(* However replies are late, cut and taken for one another: the private    *)
(* key of an OnionService is that of its ID.                               *)
KeyBelongs == \A s \in services : s.private \in {s.id, NoKey}

(* A client that closes its connection leaves none of its services behind. *)
Vanish ==
    \A c \in Owning :
        pc[c] = "released" ~> \A k \in Keys : owner[k] # c

(* The registry: the call of a client has been asked, done or is over      *)
(* according to where its request or its reply is.                         *)
CallOf(c) ==
    IF pc[c] # "waiting"
    THEN [phase |-> "over", request |-> request[c], result |-> outcome[c]]
    ELSE IF fromTor[c] # << >>
    THEN [phase |-> "done", request |-> request[c],
          result |-> Result(request[c], Head(fromTor[c]))]
    ELSE [phase |-> IF attached[c] THEN "asked" ELSE "lost",
          request |-> request[c], result |-> NoResult]

Registry == INSTANCE OnionRegistry
    WITH call <- [c \in Clients |-> CallOf(c)],
         astray <- late,
         ended <- {c \in Clients : ~attached[c]}

(* addOnion and delOnion keep the promise of OnionRegistry.                *)
ImplementsRegistry == Registry!Spec

(* OnionService.swift, lines 57-59, and README.md, lines 174-180: the      *)
(* private key Tor handed back in an earlier reply brings its service      *)
(* back, if that is not on the air.                                        *)
Readopts ==
    [][\A c \in Clients :
           Takes(c, {"given"}) /\ toTor'[c] = Tail(toTor[c])
           /\ owner[Head(toTor[c]).key] = Nobody
           => owner'[Head(toTor[c]).key] # Nobody]_vars
=============================================================================
