----------------------------- MODULE OnionTypes -----------------------------
(***************************************************************************)
(* The requests about onion services and what comes of them.               *)
(***************************************************************************)

CONSTANTS
    Clients,             \* TorControlClients, each with its connection
    Keys,                \* private keys, each with its service ID
    Nobody, Detached,    \* who may own a service, besides a client
    NoKey

ASSUME TypesKnown ==
    /\ {Nobody, Detached} \cap Clients = {}
    /\ Nobody # Detached
    /\ NoKey \notin Keys

(* addOnion with newV3 (key is what Tor is going to generate), addOnion    *)
(* with providedV3, delOnion.  A key is typed if it is the string of an    *)
(* ADD_ONION reply, "ED25519-V3:" and the blob, and not the bare blob.     *)
New(k, discard, detach) ==
    [op |-> "new", key |-> k, typed |-> FALSE, discard |-> discard,
     detach |-> detach]
Given(k, typed, detach) ==
    [op |-> "given", key |-> k, typed |-> typed, discard |-> FALSE,
     detach |-> detach]
Del(k) ==
    [op |-> "del", key |-> k, typed |-> FALSE, discard |-> FALSE,
     detach |-> FALSE]

Requests ==
    [op : {"new", "given", "del"}, key : Keys, typed : BOOLEAN,
     discard : BOOLEAN, detach : BOOLEAN]
NoRequest == [Del(NoKey) EXCEPT !.op = "none"]

(* An OnionService, or how else a call ended: "refused" for a              *)
(* controlProtocolError, "unknown" for invalidServiceID, "invalid" for     *)
(* invalidResponse, "failed" for an ioError.                               *)
Made(k, withKey) ==
    [kind |-> "service", id |-> k, private |-> IF withKey THEN k ELSE NoKey]
Verdict(kind) == [kind |-> kind, id |-> NoKey, private |-> NoKey]
NoResult == Verdict("none")

Kinds == {"none", "service", "removed", "refused", "unknown", "invalid",
          "failed", "timeout"}
Results == [kind : Kinds, id : Keys \cup {NoKey}, private : Keys \cup {NoKey}]
=============================================================================
