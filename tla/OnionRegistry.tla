---------------------------- MODULE OnionRegistry ----------------------------
(***************************************************************************)
(* What addOnion and delOnion promise of Tor's onion services: a call      *)
(* takes effect once, at one moment between its begin and its return, and  *)
(* returns what it did; a service lives until it is removed or the         *)
(* connection that owns it ends.  Of a client that went astray (a call of  *)
(* it timed out) only the effects are constrained, not when they happen    *)
(* nor what the calls return.                                              *)
(***************************************************************************)
EXTENDS OnionTypes

VARIABLES
    owner,               \* whose the service of a key is
    call,                \* the call of a client and what came of it
    astray,
    ended                \* the clients whose connection has ended

vars == <<owner, call, astray, ended>>

Asked(r) == [phase |-> "asked", request |-> r, result |-> NoResult]
Done(r, result) == [phase |-> "done", request |-> r, result |-> result]
Lost(r) == [phase |-> "lost", request |-> r, result |-> NoResult]
Over(result) == [phase |-> "over", request |-> NoRequest, result |-> result]

Init ==
    /\ owner = [k \in Keys |-> Nobody]
    /\ call = [c \in Clients |-> Over(NoResult)]
    /\ astray = [c \in Clients |-> FALSE]
    /\ ended = {}

Ask(c) ==
    /\ call[c].phase = "over"
    /\ \E r \in Requests :
           call' = [call EXCEPT ![c] = IF c \in ended THEN Lost(r) ELSE Asked(r)]
    /\ UNCHANGED <<owner, astray, ended>>

(* What request r of client c does, and its result.                        *)
Adds(r) ==
    /\ r.op = "new" \/ (r.op = "given" /\ ~r.typed)
    /\ owner[r.key] = Nobody
Removes(c, r) == r.op = "del" /\ owner[r.key] \in {c, Detached}

Effect(c, r) ==
    [owner EXCEPT ![r.key] =
        IF Adds(r) THEN IF r.detach THEN Detached ELSE c
        ELSE IF Removes(c, r) THEN Nobody
        ELSE @]

Answer(c, r) ==
    IF r.op = "del" THEN Verdict(IF Removes(c, r) THEN "removed" ELSE "unknown")
    ELSE IF Adds(r) THEN Made(r.key, r.op = "new" /\ ~r.discard)
    ELSE Verdict("refused")

Act(c) ==
    /\ call[c].phase = "asked"
    /\ LET r == call[c].request
       IN  /\ owner' = Effect(c, r)
           /\ call' = [call EXCEPT ![c] = Done(r, Answer(c, r))]
    /\ UNCHANGED <<astray, ended>>

Return(c) ==
    /\ call[c].phase = "done"
    /\ call' = [call EXCEPT ![c] = Over(@.result)]
    /\ UNCHANGED <<owner, astray, ended>>

Fail(c) ==
    /\ call[c].phase = "lost"
    /\ call' = [call EXCEPT ![c] = Over(Verdict("failed"))]
    /\ UNCHANGED <<owner, astray, ended>>

GiveUp(c) ==
    /\ call[c].phase # "over"
    /\ call' = [call EXCEPT ![c] = Over(Verdict("timeout"))]
    /\ astray' = [astray EXCEPT ![c] = TRUE]
    /\ UNCHANGED <<owner, ended>>

Wander(c) ==
    /\ astray[c]
    /\ call' = [call EXCEPT ![c] = call'[c]]
    /\ \/ owner' = owner
       \/ /\ c \notin ended
          /\ \E r \in Requests : owner' = Effect(c, r)
    /\ UNCHANGED <<astray, ended>>

(* The calls under way on a connection that ends, done or not, may be lost. *)
Loses(gone) ==
    /\ ended' = ended \cup gone
    /\ \E lost \in SUBSET {c \in gone : call[c].phase # "over"} :
           /\ \A c \in gone : call[c].phase = "asked" => c \in lost
           /\ call' = [c \in Clients |->
                           IF c \in lost THEN Lost(call[c].request) ELSE call[c]]
    /\ UNCHANGED astray

(* A connection ends, and with it the services it owns.                    *)
End(c) ==
    /\ Loses({c})
    /\ owner' = [k \in Keys |-> IF owner[k] = c THEN Nobody ELSE owner[k]]

(* Tor exits: all connections end, and all services, the detached as well. *)
Exit ==
    /\ Loses(Clients)
    /\ owner' = [k \in Keys |-> Nobody]

Next ==
    \/ \E c \in Clients :
           \/ Ask(c) \/ Act(c) \/ Return(c) \/ Fail(c) \/ GiveUp(c)
           \/ Wander(c) \/ End(c)
    \/ Exit

Spec == Init /\ [][Next]_vars
=============================================================================
