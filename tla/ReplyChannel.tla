---------------------------- MODULE ReplyChannel ----------------------------
(***************************************************************************)
(* What reading replies promises, whatever way the bytes arrive: each      *)
(* reply is received once, in order, and means what Tor had to say,        *)
(* as long as no reply was given up.  After that nothing is promised.      *)
(***************************************************************************)
EXTENDS Naturals, Sequences

CONSTANTS Replies, Empty

VARIABLES
    queue,               \* replies sent and not received
    got,                 \* the last one received
    intact               \* none was given up

vars == <<queue, got, intact>>

Init ==
    /\ queue = << >>
    /\ got = Empty
    /\ intact = TRUE

(* A reply is its status, its texts in order, and its last data block.     *)
Blocks(r) == {i \in DOMAIN r.items : r.items[i].body # << >>}

Meaning(r) ==
    [code |-> r.code,
     texts |-> [i \in DOMAIN r.items |-> r.items[i].text] \o <<r.last>>,
     data |-> IF Blocks(r) = {} THEN << >>
              ELSE r.items[CHOOSE i \in Blocks(r) :
                               \A j \in Blocks(r) : j <= i].body]

Send ==
    /\ \E r \in Replies : queue' = Append(queue, r)
    /\ UNCHANGED <<got, intact>>

Receive ==
    /\ queue # << >>
    /\ got' = Meaning(Head(queue))
    /\ queue' = Tail(queue)
    /\ UNCHANGED intact

GiveUp ==
    /\ intact' = FALSE
    /\ UNCHANGED <<queue, got>>

Muddle == ~intact /\ UNCHANGED intact

Next == Send \/ Receive \/ GiveUp \/ Muddle

(* A reply that was sent is received or given up.                          *)
Settle == intact /\ queue # << >> /\ (Receive \/ GiveUp)

Spec == Init /\ [][Next]_vars /\ WF_vars(Settle)
=============================================================================
