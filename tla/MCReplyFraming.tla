--------------------------- MODULE MCReplyFraming ---------------------------
(***************************************************************************)
(* An instance of ReplyFraming for TLC: replies of each form.              *)
(***************************************************************************)
EXTENDS ReplyFraming

Item(text, body) == [text |-> text, body |-> body]
LooksFinal == Status(250, " ", "OK")

Refused == [code |-> 552, items |-> <<Item("key", << >>)>>, last |-> "other"]

(* Data blocks whose lines look like the end of the reply and like that of *)
(* the block, one after the other.                                         *)
InBlocks ==
    [code |-> 250, last |-> "OK",
     items |-> <<Item("key", <<LooksFinal>>), Item("other", <<Dot>>)>>]

NotUTF8 == [code |-> 250, items |-> <<Item("bytes", << >>)>>, last |-> "OK"]

MCTexts == {"OK", "key", "other", "bytes"}
MCReplies == {Refused, InBlocks, NotUTF8}
=============================================================================
