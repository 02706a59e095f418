---------------------------- MODULE ReplyGrammar ----------------------------
(***************************************************************************)
(* The lines of a control reply: how Tor writes a reply (control_proto.c), *)
(* how readReply finds its end and how parseReply reads it.                *)
(*                                                                         *)
(* A line is known by the dots it begins with, by the status and the       *)
(* separator that follow (code 0: the line does not begin with digits) and *)
(* by its text.  The body of a data block may hold any line, also ones     *)
(* that look like the end of the block or like a status line.              *)
(***************************************************************************)
EXTENDS Naturals, Sequences
LOCAL INSTANCE SequencesExt

CONSTANTS Texts          \* what follows the status on a line

Codes == {0, 250, 552}
Separators == {"", " ", "-", "+"}
Lines == [dots : Nat, code : Codes, sep : Separators, text : Texts \cup {""}]

Status(code, sep, text) ==
    [dots |-> 0, code |-> code, sep |-> sep, text |-> text]
Blank == Status(0, "", "")
Dot == [Blank EXCEPT !.dots = 1]

IsStatus(l) == l.dots = 0 /\ l.code # 0

(* What Tor has to say: values, each under its key, in one line or in a    *)
(* block of several, and the line that ends the reply.                     *)
Items == [text : Texts, body : Seq(Lines)]
AnyReply == [code : Codes \ {0}, items : Seq(Items), last : Texts]

-----------------------------------------------------------------------------
(* Tor's side.                                                             *)

Stuffed(l) == IF l.dots > 0 THEN [l EXCEPT !.dots = @ + 1] ELSE l

ItemLines(code, item) ==
    IF item.body = << >> THEN <<Status(code, "-", item.text)>>
    ELSE <<Status(code, "+", item.text)>>
         \o [i \in DOMAIN item.body |-> Stuffed(item.body[i])]
         \o <<Dot>>

Format(r) ==
    FlattenSeq([i \in DOMAIN r.items |-> ItemLines(r.code, r.items[i])])
    \o <<Status(r.code, " ", r.last)>>

-----------------------------------------------------------------------------
(* The Swift side.                                                         *)

(* Whether readReply is in a data block after line l.                      *)
InDataAfter(inData, l) ==
    IF inData THEN l # Dot ELSE IsStatus(l) /\ l.sep = "+"

(* Whether readReply asks for another line after line l.                   *)
GoesOn(inData, l) == inData \/ (IsStatus(l) /\ l.sep \in {"+", "-"})

\* mutant: dot-stuffing is not undone
KeepsDots(l) == l

Unstuffed(l) == IF l.dots > 0 THEN [l EXCEPT !.dots = @ - 1] ELSE l

Nothing == [code |-> 0, texts |-> << >>, data |-> << >>]

Parsing == [valid |-> TRUE, inData |-> FALSE, body |-> << >>, reply |-> Nothing]

ParseBody(acc, raw) ==
    IF raw = Dot
    THEN [acc EXCEPT !.inData = FALSE, !.reply = [@ EXCEPT !.data = acc.body]]
    ELSE [acc EXCEPT !.body = Append(@, Unstuffed(raw))]

(* The first status is the reply's.                                        *)
ParseStatus(acc, raw) ==
    [valid |-> acc.valid, inData |-> raw.sep = "+", body |-> << >>,
     reply |-> [code |-> IF acc.reply.code = 0 THEN raw.code ELSE acc.reply.code,
                texts |-> Append(acc.reply.texts, raw.text),
                data |-> acc.reply.data]]

ParseLine(acc, raw) ==
    IF acc.inData THEN ParseBody(acc, raw)
    ELSE IF IsStatus(raw) THEN ParseStatus(acc, raw)
    ELSE [acc EXCEPT !.valid = FALSE]

(* parseReply.  It throws when the result is not valid.                    *)
ParseReply(rawLines) ==
    LET parsed[n \in 0 .. Len(rawLines)] ==
            IF n = 0 THEN Parsing ELSE ParseLine(parsed[n - 1], rawLines[n])
    IN  parsed[Len(rawLines)]
=============================================================================
