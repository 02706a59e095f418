-------------------------- MODULE ReplyFramingProofs --------------------------
(***************************************************************************)
(* Proofs about ReplyGrammar and ReplyFraming for every value of their     *)
(* constants.                                                              *)
(***************************************************************************)
EXTENDS ReplyFraming, SequenceTheorems, SequenceLemmas, TLAPS
LOCAL INSTANCE SequencesExt

(* A data block is transparent: no line of its body, however many dots it  *)
(* begins with, ends the block for readReply or is taken for its end by    *)
(* parseReply, and parseReply undoes what Tor did to it (control_proto.c,  *)
(* write_escaped_data).                                                    *)
THEOREM DataIsTransparent ==
    ASSUME NEW l \in Lines, NEW acc, acc.inData
    PROVE  /\ InDataAfter(TRUE, Stuffed(l))
           /\ GoesOn(TRUE, Stuffed(l))
           /\ ParseLine(acc, Stuffed(l)) = [acc EXCEPT !.body = Append(@, l)]
<1>1. Stuffed(l) # Dot
  <2>1. CASE l.dots > 0
    <3>1. Stuffed(l).dots = l.dots + 1
      BY <2>1 DEF Stuffed, Lines
    <3>2. Dot.dots = 1 /\ l.dots \in Nat
      BY DEF Dot, Blank, Status, Lines
    <3>3. QED
      BY <2>1, <3>1, <3>2
  <2>2. CASE ~(l.dots > 0)
    <3>1. Stuffed(l).dots = l.dots
      BY <2>2 DEF Stuffed
    <3>2. Dot.dots = 1 /\ l.dots \in Nat
      BY DEF Dot, Blank, Status, Lines
    <3>3. QED
      BY <2>2, <3>1, <3>2
  <2>3. QED
    BY <2>1, <2>2
<1>2. Unstuffed(Stuffed(l)) = l
  <2>1. CASE l.dots > 0
    <3>1. /\ Stuffed(l) = [l EXCEPT !.dots = l.dots + 1]
          /\ Stuffed(l).dots = l.dots + 1
          /\ l.dots \in Nat
      BY <2>1 DEF Stuffed, Lines
    <3>2. Stuffed(l).dots > 0 /\ Stuffed(l).dots - 1 = l.dots
      BY <3>1
    <3>3. \A k : k.dots > 0 => Unstuffed(k) = [k EXCEPT !.dots = k.dots - 1]
      BY DEF Unstuffed
    <3>4. Unstuffed(Stuffed(l))
            = [Stuffed(l) EXCEPT !.dots = Stuffed(l).dots - 1]
      BY <3>2, <3>3
    <3>5. Unstuffed(Stuffed(l)) = [Stuffed(l) EXCEPT !.dots = l.dots]
      BY <3>2, <3>4
    <3>6. [[l EXCEPT !.dots = l.dots + 1] EXCEPT !.dots = l.dots] = l
      BY DEF Lines
    <3>7. QED
      BY <3>1, <3>5, <3>6
  <2>2. CASE ~(l.dots > 0)
    BY <2>2 DEF Unstuffed, Stuffed
  <2>3. QED
    BY <2>1, <2>2
<1>3. InDataAfter(TRUE, Stuffed(l)) /\ GoesOn(TRUE, Stuffed(l))
  BY <1>1 DEF InDataAfter, GoesOn
<1>4. ParseLine(acc, Stuffed(l)) = ParseBody(acc, Stuffed(l))
  BY DEF ParseLine
<1>5. QED
  BY <1>1, <1>2, <1>3, <1>4 DEF ParseBody

-----------------------------------------------------------------------------
(* The bytes of lines.                                                     *)
LineBytesOf == [l \in Lines |-> LineBytes(l)]

(* A line has bytes.                                                       *)
LEMMA LineBytesType == LineBytesOf \in [Lines -> Seq(Bytes)]
<1>1. ASSUME NEW l \in Lines PROVE LineBytes(l) \in Seq(Bytes)
  <2>1. CR \in Bytes /\ LF \in Bytes /\ <<"text", l>> \in Bytes
    BY DEF Bytes
  <2>2. QED
    BY <2>1 DEF LineBytes
<1>2. QED
  BY <1>1 DEF LineBytesOf

(* The bytes of lines are those of each, in order, as a function of them.  *)
LEMMA ToBytesIsFlatMap ==
    ASSUME NEW ls \in Seq(Lines)
    PROVE  ToBytes(ls) = FlatMap(LineBytesOf, ls)
<1>1. \A i \in DOMAIN ls : LineBytes(ls[i]) = LineBytesOf[ls[i]]
  BY DEF LineBytesOf
<1>2. [i \in DOMAIN ls |-> LineBytes(ls[i])] = Mapped(LineBytesOf, ls)
  BY <1>1 DEF Mapped
<1>3. QED
  BY <1>2 DEF ToBytes, FlatMap

(* The bytes of lines are bytes.                                           *)
LEMMA ToBytesType ==
    ASSUME NEW ls \in Seq(Lines)
    PROVE  ToBytes(ls) \in Seq(Bytes)
BY ToBytesIsFlatMap, LineBytesType, FlatMapType

(* No lines have no bytes.                                                 *)
LEMMA ToBytesEmpty == ToBytes(<< >>) = << >>
<1>1. << >> \in Seq(Lines)
  OBVIOUS
<1>2. QED
  BY <1>1, ToBytesIsFlatMap, FlatMapEmpty

(* The bytes of lines, and of the lines that follow them.                  *)
LEMMA ToBytesConcat ==
    ASSUME NEW ls \in Seq(Lines), NEW ms \in Seq(Lines)
    PROVE  ToBytes(ls \o ms) = ToBytes(ls) \o ToBytes(ms)
<1>1. ls \o ms \in Seq(Lines)
  OBVIOUS
<1>2. /\ ToBytes(ls) = FlatMap(LineBytesOf, ls)
      /\ ToBytes(ms) = FlatMap(LineBytesOf, ms)
      /\ ToBytes(ls \o ms) = FlatMap(LineBytesOf, ls \o ms)
  BY <1>1, ToBytesIsFlatMap
<1>3. FlatMap(LineBytesOf, ls \o ms)
          = FlatMap(LineBytesOf, ls) \o FlatMap(LineBytesOf, ms)
  BY LineBytesType, FlatMapConcat
<1>4. QED
  BY <1>2, <1>3

(* The bytes of one line.                                                  *)
LEMMA ToBytesOne ==
    ASSUME NEW l \in Lines
    PROVE  ToBytes(<<l>>) = LineBytes(l)
<1>1. <<l>> \in Seq(Lines)
  OBVIOUS
<1>2. FlatMap(LineBytesOf, <<l>>) = LineBytesOf[l]
  BY LineBytesType, FlatMapOne
<1>3. QED
  BY <1>1, <1>2, ToBytesIsFlatMap DEF LineBytesOf
-----------------------------------------------------------------------------
(* The lines of replies.                                                   *)
ItemLinesOf(code) == [item \in Items |-> ItemLines(code, item)]
FormatOf == [r \in AnyReply |-> Format(r)]

(* A status line is a line.                                                *)
LEMMA StatusType ==
    ASSUME NEW code \in Codes, NEW sep \in Separators, NEW text \in Texts
    PROVE  Status(code, sep, text) \in Lines
BY DEF Status, Lines

(* So are the end of a data block and the empty line.                      *)
LEMMA DotType == Dot \in Lines /\ Blank \in Lines
BY DEF Dot, Blank, Status, Lines, Codes, Separators

(* A line that Tor has dot-stuffed is a line.                              *)
LEMMA StuffedType ==
    ASSUME NEW l \in Lines
    PROVE  Stuffed(l) \in Lines
<1>1. l.dots \in Nat
  BY DEF Lines
<1>2. \A n \in Nat : [l EXCEPT !.dots = n] \in Lines
  BY DEF Lines
<1>3. QED
  BY <1>1, <1>2, l.dots + 1 \in Nat DEF Stuffed

(* The body of a block as Tor writes it.                                   *)
StuffedLines(body) == [i \in DOMAIN body |-> Stuffed(body[i])]

(* The body keeps its length, and its lines their places.                  *)
LEMMA StuffedLinesType ==
    ASSUME NEW body \in Seq(Lines)
    PROVE  /\ StuffedLines(body) \in Seq(Lines)
           /\ Len(StuffedLines(body)) = Len(body)
           /\ \A i \in 1 .. Len(body) : StuffedLines(body)[i] = Stuffed(body[i])
<1>1. DOMAIN body = 1 .. Len(body) /\ Len(body) \in Nat
  OBVIOUS
<1>2. \A i \in 1 .. Len(body) : Stuffed(body[i]) \in Lines
  BY StuffedType
<1>3. QED
  BY <1>1, <1>2 DEF StuffedLines

(* The two forms an item takes: one line, or a block.                      *)
LEMMA ItemLinesForm ==
    ASSUME NEW code \in Codes, NEW item \in Items
    PROVE  /\ item.body = << >> =>
                  ItemLines(code, item) = <<Status(code, "-", item.text)>>
           /\ item.body # << >> =>
                  ItemLines(code, item) = <<Status(code, "+", item.text)>>
                                          \o StuffedLines(item.body) \o <<Dot>>
           /\ ItemLines(code, item) \in Seq(Lines)
<1>1. item.body \in Seq(Lines) /\ item.text \in Texts
  BY DEF Items
<1>2. /\ Status(code, "-", item.text) \in Lines
      /\ Status(code, "+", item.text) \in Lines
      /\ Dot \in Lines
      /\ StuffedLines(item.body) \in Seq(Lines)
  BY <1>1, StatusType, DotType, StuffedLinesType DEF Separators
<1>3. /\ item.body = << >> =>
             ItemLines(code, item) = <<Status(code, "-", item.text)>>
      /\ item.body # << >> =>
             ItemLines(code, item) = <<Status(code, "+", item.text)>>
                                     \o StuffedLines(item.body) \o <<Dot>>
  BY DEF ItemLines, StuffedLines
<1>4. ItemLines(code, item) \in Seq(Lines)
  <2>1. CASE item.body = << >>
    <3> DEFINE l == Status(code, "-", item.text)
    <3>1. l \in Lines
      BY <1>2
    <3> HIDE DEF l
    <3>2. <<l>> \in Seq(Lines)
      BY <3>1
    <3>3. QED
      BY <1>3, <2>1, <3>2 DEF l
  <2>2. CASE item.body # << >>
    <3> DEFINE a == <<Status(code, "+", item.text)>>
               b == StuffedLines(item.body)
    <3>1. a \in Seq(Lines) /\ b \in Seq(Lines) /\ <<Dot>> \in Seq(Lines)
      BY <1>2
    <3> HIDE DEF a, b
    <3>2. a \o b \o <<Dot>> \in Seq(Lines)
      BY <3>1, ConcatProperties
    <3>3. QED
      BY <1>3, <2>2, <3>2 DEF a, b
  <2>3. QED
    BY <2>1, <2>2
<1>5. QED
  BY <1>3, <1>4

(* The lines of an item are lines.                                         *)
LEMMA ItemLinesType ==
    ASSUME NEW code \in Codes
    PROVE  ItemLinesOf(code) \in [Items -> Seq(Lines)]
<1>1. \A item \in Items : ItemLines(code, item) \in Seq(Lines)
  BY ItemLinesForm
<1>2. QED
  BY <1>1 DEF ItemLinesOf

(* A reply is the lines of its items and the line that ends it.            *)
LEMMA FormatForm ==
    ASSUME NEW r \in AnyReply
    PROVE  /\ Format(r) = FlatMap(ItemLinesOf(r.code), r.items)
                          \o <<Status(r.code, " ", r.last)>>
           /\ FlatMap(ItemLinesOf(r.code), r.items) \in Seq(Lines)
           /\ Status(r.code, " ", r.last) \in Lines
<1>1. r.code \in Codes \ {0} /\ r.items \in Seq(Items) /\ r.last \in Texts
  BY DEF AnyReply
<1>2. \A i \in DOMAIN r.items :
          ItemLines(r.code, r.items[i]) = ItemLinesOf(r.code)[r.items[i]]
  BY <1>1 DEF ItemLinesOf
<1>3. [i \in DOMAIN r.items |-> ItemLines(r.code, r.items[i])]
          = Mapped(ItemLinesOf(r.code), r.items)
  BY <1>2 DEF Mapped
<1>4. FlatMap(ItemLinesOf(r.code), r.items) \in Seq(Lines)
  BY <1>1, ItemLinesType, FlatMapType
<1>5. Status(r.code, " ", r.last) \in Lines
  BY <1>1, StatusType DEF Separators
<1>6. QED
  BY <1>3, <1>4, <1>5 DEF Format, FlatMap

(* The lines of a reply are lines.                                         *)
LEMMA FormatType == FormatOf \in [AnyReply -> Seq(Lines)]
<1>1. ASSUME NEW r \in AnyReply PROVE Format(r) \in Seq(Lines)
  <2> DEFINE a == FlatMap(ItemLinesOf(r.code), r.items)
             l == Status(r.code, " ", r.last)
  <2>1. a \in Seq(Lines) /\ l \in Lines /\ Format(r) = a \o <<l>>
    BY FormatForm
  <2> HIDE DEF a, l
  <2>2. a \o <<l>> \in Seq(Lines)
    BY <2>1
  <2>3. QED
    BY <2>1, <2>2
<1>2. QED
  BY <1>1 DEF FormatOf

(* What Tor has sent of the replies in q.                                  *)
AllLines(q) == FlattenSeq([i \in DOMAIN q |-> Format(q[i])])

(* The lines of replies are those of each, in order, as a function of      *)
(* them.                                                                   *)
LEMMA AllLinesIsFlatMap ==
    ASSUME NEW q \in Seq(AnyReply)
    PROVE  AllLines(q) = FlatMap(FormatOf, q)
<1>1. \A i \in DOMAIN q : Format(q[i]) = FormatOf[q[i]]
  BY DEF FormatOf
<1>2. [i \in DOMAIN q |-> Format(q[i])] = Mapped(FormatOf, q)
  BY <1>1 DEF Mapped
<1>3. QED
  BY <1>2 DEF AllLines, FlatMap

(* The lines of replies are lines.                                         *)
LEMMA AllLinesType ==
    ASSUME NEW q \in Seq(AnyReply)
    PROVE  AllLines(q) \in Seq(Lines)
BY AllLinesIsFlatMap, FormatType, FlatMapType

(* No replies have no lines.                                               *)
LEMMA AllLinesEmpty == AllLines(<< >>) = << >>
BY FlattenEmpty DEF AllLines

(* The lines of replies, and of the replies that follow them.              *)
LEMMA AllLinesConcat ==
    ASSUME NEW q \in Seq(AnyReply), NEW p \in Seq(AnyReply)
    PROVE  AllLines(q \o p) = AllLines(q) \o AllLines(p)
<1>1. q \o p \in Seq(AnyReply)
  OBVIOUS
<1>2. /\ AllLines(q) = FlatMap(FormatOf, q)
      /\ AllLines(p) = FlatMap(FormatOf, p)
      /\ AllLines(q \o p) = FlatMap(FormatOf, q \o p)
  BY <1>1, AllLinesIsFlatMap
<1>3. FlatMap(FormatOf, q \o p) = FlatMap(FormatOf, q) \o FlatMap(FormatOf, p)
  BY FormatType, FlatMapConcat, Z3
<1>4. QED
  BY <1>2, <1>3

(* The lines of one reply.                                                 *)
LEMMA AllLinesOne ==
    ASSUME NEW r \in AnyReply
    PROVE  AllLines(<<r>>) = Format(r)
<1>1. <<r>> \in Seq(AnyReply)
  OBVIOUS
<1>2. FlatMap(FormatOf, <<r>>) = FormatOf[r]
  BY FormatType, FlatMapOne
<1>3. QED
  BY <1>1, <1>2, AllLinesIsFlatMap DEF FormatOf

(* What another reply adds.                                                *)
LEMMA AllLinesAppend ==
    ASSUME NEW q \in Seq(AnyReply), NEW r \in AnyReply
    PROVE  AllLines(Append(q, r)) = AllLines(q) \o Format(r)
<1>1. <<r>> \in Seq(AnyReply) /\ Append(q, r) = q \o <<r>>
  OBVIOUS
<1>2. AllLines(q \o <<r>>) = AllLines(q) \o AllLines(<<r>>)
  BY <1>1, AllLinesConcat
<1>3. QED
  BY <1>1, <1>2, AllLinesOne

(* The lines of the first reply come first.                                *)
LEMMA AllLinesHead ==
    ASSUME NEW q \in Seq(AnyReply), q # << >>
    PROVE  AllLines(q) = Format(Head(q)) \o AllLines(Tail(q))
<1>1. /\ Head(q) \in AnyReply /\ Tail(q) \in Seq(AnyReply)
      /\ <<Head(q)>> \in Seq(AnyReply)
  OBVIOUS
<1>2. q = <<Head(q)>> \o Tail(q)
  OBVIOUS
<1>3. AllLines(<<Head(q)>> \o Tail(q)) = AllLines(<<Head(q)>>) \o AllLines(Tail(q))
  BY <1>1, AllLinesConcat
<1>4. QED
  BY <1>1, <1>2, <1>3, AllLinesOne
-----------------------------------------------------------------------------
(* ParseReply is a recursion over the lines.                               *)
LineTexts == Texts \cup {""}
Readings == [code : Codes, texts : Seq(LineTexts), data : Seq(Lines)]
Accs == [valid : BOOLEAN, inData : BOOLEAN, body : Seq(Lines), reply : Readings]

(* What parseReply begins with.                                            *)
LEMMA ParsingType == Parsing \in Accs
<1>1. Nothing \in Readings
  BY DEF Nothing, Readings, Codes
<1>2. QED
  BY <1>1 DEF Parsing, Accs

(* A line whose dot-stuffing is undone is a line.                          *)
LEMMA UnstuffedType ==
    ASSUME NEW l \in Lines
    PROVE  Unstuffed(l) \in Lines
<1>1. l.dots \in Nat
  BY DEF Lines
<1>2. \A n \in Nat : [l EXCEPT !.dots = n] \in Lines
  BY DEF Lines
<1>3. l.dots > 0 => l.dots - 1 \in Nat
  BY <1>1
<1>4. QED
  BY <1>2, <1>3 DEF Unstuffed

WithData(r, b) == [code |-> r.code, texts |-> r.texts, data |-> b]
WithStatus(r, l) ==
    [code |-> IF r.code = 0 THEN l.code ELSE r.code,
     texts |-> Append(r.texts, l.text),
     data |-> r.data]

(* A block or a status leaves a reading that can be.                       *)
LEMMA ReadingsType ==
    ASSUME NEW r \in Readings
    PROVE  /\ \A b \in Seq(Lines) : WithData(r, b) \in Readings
           /\ \A l \in Lines : WithStatus(r, l) \in Readings
<1>1. /\ r.code \in Codes /\ r.texts \in Seq(LineTexts)
      /\ r.data \in Seq(Lines)
  BY DEF Readings
<1>2. ASSUME NEW b \in Seq(Lines) PROVE WithData(r, b) \in Readings
  BY <1>1 DEF WithData, Readings
<1>3. ASSUME NEW l \in Lines PROVE WithStatus(r, l) \in Readings
  <2>1. l.code \in Codes /\ l.text \in LineTexts
    BY DEF Lines, LineTexts
  <2>2. Append(r.texts, l.text) \in Seq(LineTexts)
    BY <1>1, <2>1
  <2>3. (IF r.code = 0 THEN l.code ELSE r.code) \in Codes
    BY <1>1, <2>1
  <2>4. QED
    BY <1>1, <2>2, <2>3 DEF WithStatus, Readings
<1>4. QED
  BY <1>2, <1>3

(* So does any line.                                                       *)
LEMMA ParseLineType ==
    ASSUME NEW acc \in Accs, NEW l \in Lines
    PROVE  ParseLine(acc, l) \in Accs
<1>1. /\ acc.valid \in BOOLEAN /\ acc.inData \in BOOLEAN
      /\ acc.body \in Seq(Lines) /\ acc.reply \in Readings
  BY DEF Accs
<1>2. CASE acc.inData /\ l = Dot
  <2>1. WithData(acc.reply, acc.body) \in Readings
    BY <1>1, ReadingsType
  <2>2. [acc.reply EXCEPT !.data = acc.body] = WithData(acc.reply, acc.body)
    BY <1>1 DEF WithData, Readings
  <2>3. ParseLine(acc, l) = [acc EXCEPT !.inData = FALSE,
                                        !.reply = WithData(acc.reply, acc.body)]
    BY <1>2, <2>2 DEF ParseLine, ParseBody
  <2>4. QED
    BY <1>1, <2>1, <2>3 DEF Accs
<1>3. CASE acc.inData /\ l # Dot
  <2>1. Unstuffed(l) \in Lines
    BY UnstuffedType
  <2>2. Append(acc.body, Unstuffed(l)) \in Seq(Lines)
    BY <1>1, <2>1
  <2>3. ParseLine(acc, l) = [acc EXCEPT !.body = Append(acc.body, Unstuffed(l))]
    BY <1>3 DEF ParseLine, ParseBody, Accs
  <2>4. QED
    BY <2>2, <2>3 DEF Accs
<1>4. CASE ~acc.inData /\ IsStatus(l)
  <2>1. WithStatus(acc.reply, l) \in Readings
    BY <1>1, ReadingsType
  <2>2. << >> \in Seq(Lines)
    OBVIOUS
  <2>3. ParseLine(acc, l) = [valid |-> acc.valid, inData |-> l.sep = "+",
                             body |-> << >>, reply |-> WithStatus(acc.reply, l)]
    BY <1>4, Zenon DEF ParseLine, ParseStatus, WithStatus
  <2>4. QED
    BY <1>1, <2>1, <2>2, <2>3 DEF Accs
<1>5. CASE ~acc.inData /\ ~IsStatus(l)
  BY <1>5 DEF ParseLine, Accs
<1>6. QED
  BY <1>1, <1>2, <1>3, <1>4, <1>5

ParsesTo(raw, f) ==
    /\ f[0] = Parsing
    /\ \A i \in 1 .. Len(raw) : f[i] = ParseLine(f[i - 1], raw[i])

(* ParseReply is the end of the recursion over its lines.                  *)
LEMMA ParseReplyRecursion ==
    ASSUME NEW raw \in Seq(Lines)
    PROVE  \E f : ParsesTo(raw, f) /\ ParseReply(raw) = f[Len(raw)]
<1> DEFINE n == Len(raw)
           Is(h) == h = [i \in 0 .. n |-> IF i = 0 THEN Parsing
                                          ELSE ParseLine(h[i - 1], raw[i])]
           h == CHOOSE h : Is(h)
           step == [p \in (1 .. n) \X Accs |-> ParseLine(p[2], raw[p[1]])]
<1>1. n \in Nat
  OBVIOUS
<1>2. step \in [(1 .. n) \X Accs -> Accs]
  <2>1. ASSUME NEW p \in (1 .. n) \X Accs
        PROVE  ParseLine(p[2], raw[p[1]]) \in Accs
    <3>1. p[2] \in Accs /\ raw[p[1]] \in Lines
      OBVIOUS
    <3>2. QED
      BY <3>1, ParseLineType
  <2>2. QED
    BY <2>1
<1>3. PICK f \in [0 .. n -> Accs] : Follows(f, Parsing, n, step)
  <2> HIDE DEF step, n
  <2>1. QED
    BY <1>1, <1>2, ParsingType, RecursionExists
<1>4. \A i \in 1 .. n : f[i] = ParseLine(f[i - 1], raw[i])
  <2>1. ASSUME NEW i \in 1 .. n PROVE f[i] = ParseLine(f[i - 1], raw[i])
    <3>1. i - 1 \in 0 .. n
      OBVIOUS
    <3>2. <<i, f[i - 1]>> \in (1 .. n) \X Accs
      BY <3>1
    <3>3. QED
      BY <1>3, <3>2 DEF Follows
  <2>2. QED
    BY <2>1
<1>5. Is(f)
  <2>1. f[0] = Parsing
    BY <1>3 DEF Follows
  <2>2. \A i \in 0 .. n : f[i] = IF i = 0 THEN Parsing
                                 ELSE ParseLine(f[i - 1], raw[i])
    BY <1>4, <2>1
  <2>3. QED
    BY <2>2
<1>6. Is(h)
  BY <1>5
<1>7. \A i \in 0 .. n : h[i] = IF i = 0 THEN Parsing
                               ELSE ParseLine(h[i - 1], raw[i])
  <2> HIDE DEF h
  <2>1. QED
    BY <1>6
<1>8. ParsesTo(raw, h)
  BY <1>1, <1>7 DEF ParsesTo
<1>9. ParseReply(raw) = h[Len(raw)]
  BY DEF ParseReply
<1> HIDE DEF h
<1>10. QED
  BY <1>8, <1>9

(* The recursion depends on the lines only as far as it has come.          *)
LEMMA ParsesAgree ==
    ASSUME NEW raw, NEW more, NEW f, NEW g, NEW m \in Nat,
           Len(raw) \in Nat, Len(more) \in Nat, m <= Len(raw), m <= Len(more),
           Agree(raw, more, m), ParsesTo(raw, f), ParsesTo(more, g)
    PROVE  f[m] = g[m]
<1> DEFINE T == {i \in Nat : i <= m => f[i] = g[i]}
<1>1. 0 \in T
  BY DEF ParsesTo
<1>2. ASSUME NEW i \in T PROVE i + 1 \in T
  <2>1. SUFFICES ASSUME i + 1 <= m PROVE f[i + 1] = g[i + 1]
    OBVIOUS
  <2>2. /\ i \in Nat /\ (i + 1) - 1 = i
        /\ i + 1 \in 1 .. m /\ i + 1 \in 1 .. Len(raw) /\ i + 1 \in 1 .. Len(more)
    BY <2>1
  <2>3. f[i] = g[i]
    BY <2>1, <2>2
  <2>4. /\ f[i + 1] = ParseLine(f[i], raw[i + 1])
        /\ g[i + 1] = ParseLine(g[i], more[i + 1])
    BY <2>2 DEF ParsesTo
  <2>5. QED
    BY <2>2, <2>3, <2>4 DEF Agree
<1>3. T = Nat
  <2>1. T \subseteq Nat
    OBVIOUS
  <2> HIDE DEF T
  <2>2. QED
    BY <1>1, <1>2, <2>1, NatSetInduction
<1> QED
  BY <1>3

(* No lines leave parseReply where it began.                               *)
LEMMA ParseReplyEmpty == ParseReply(<< >>) = Parsing
<1>1. << >> \in Seq(Lines) /\ Len(<< >>) = 0
  OBVIOUS
<1>2. PICK f : ParsesTo(<< >>, f) /\ ParseReply(<< >>) = f[Len(<< >>)]
  BY <1>1, ParseReplyRecursion
<1>3. QED
  BY <1>1, <1>2 DEF ParsesTo

(* parseReply reads a line after those before it.                          *)
LEMMA ParseReplyAppend ==
    ASSUME NEW raw \in Seq(Lines), NEW l \in Lines
    PROVE  ParseReply(Append(raw, l)) = ParseLine(ParseReply(raw), l)
<1> DEFINE m == Len(raw)
           more == Append(raw, l)
<1>1. /\ more \in Seq(Lines) /\ Len(more) = m + 1 /\ more[m + 1] = l
      /\ Agree(raw, more, m)
      /\ m \in Nat /\ (m + 1) - 1 = m /\ m + 1 \in 1 .. m + 1
  BY AppendProperties DEF Agree
<1> HIDE DEF m, more
<1>2. PICK f : ParsesTo(raw, f) /\ ParseReply(raw) = f[Len(raw)]
  BY ParseReplyRecursion
<1>3. PICK g : ParsesTo(more, g) /\ ParseReply(more) = g[Len(more)]
  BY <1>1, ParseReplyRecursion
<1>4. f[m] = g[m]
  <2>1. /\ Len(raw) \in Nat /\ Len(more) \in Nat /\ m \in Nat
        /\ m <= Len(raw) /\ m <= Len(more)
    BY <1>1 DEF m
  <2>2. Agree(raw, more, m) /\ ParsesTo(raw, f) /\ ParsesTo(more, g)
    BY <1>1, <1>2, <1>3
  <2>3. QED
    BY <2>1, <2>2, ParsesAgree
<1>5. g[m + 1] = ParseLine(g[m], l)
  BY <1>1, <1>3 DEF ParsesTo
<1>6. QED
  BY <1>1, <1>2, <1>3, <1>4, <1>5 DEF m, more

(* What parseReply has read is a reading, whatever the lines.              *)
LEMMA ParseReplyType ==
    ASSUME NEW raw \in Seq(Lines)
    PROVE  ParseReply(raw) \in Accs
<1> DEFINE T == {n \in Nat : \A ls \in Seq(Lines) :
                                 Len(ls) = n => ParseReply(ls) \in Accs}
<1>1. 0 \in T
  <2>1. ASSUME NEW ls \in Seq(Lines), Len(ls) = 0 PROVE ParseReply(ls) \in Accs
    <3>1. ls = << >>
      BY <2>1, EmptySeq
    <3>2. QED
      BY <3>1, ParseReplyEmpty, ParsingType
  <2>2. QED
    BY <2>1
<1>2. ASSUME NEW n \in T PROVE n + 1 \in T
  <2>1. ASSUME NEW ls \in Seq(Lines), Len(ls) = n + 1
        PROVE  ParseReply(ls) \in Accs
    <3>1. ls # << >>
      BY <2>1
    <3>2. PICK ms \in Seq(Lines), l \in Lines : ls = Append(ms, l)
      BY <3>1, SequenceEmptyOrAppend
    <3>3. Len(ms) = n
      BY <2>1, <3>2, AppendProperties
    <3>4. ParseReply(ms) \in Accs
      BY <3>3
    <3>5. QED
      BY <3>2, <3>4, ParseReplyAppend, ParseLineType
  <2>2. QED
    BY <2>1
<1>3. T = Nat
  <2>1. T \subseteq Nat
    OBVIOUS
  <2> HIDE DEF T
  <2>2. QED
    BY <1>1, <1>2, <2>1, NatSetInduction
<1>4. Len(raw) \in T
  BY <1>3
<1> QED
  BY <1>4
-----------------------------------------------------------------------------
(* readReply and parseReply over the lines of a reply, as Tor writes it.   *)
InBody(b, r) == [valid |-> TRUE, inData |-> TRUE, body |-> b, reply |-> r]
Between(b, r) == [valid |-> TRUE, inData |-> FALSE, body |-> b, reply |-> r]

(* A line of a body, dot-stuffed, is read as what it was.                  *)
LEMMA BodyLineParsed ==
    ASSUME NEW b, NEW r, NEW l \in Lines
    PROVE  ParseLine(InBody(b, r), Stuffed(l)) = InBody(Append(b, l), r)
<1>1. InBody(b, r).inData /\ InBody(b, r).body = b
  BY DEF InBody
<1>2. ParseLine(InBody(b, r), Stuffed(l)) =
          [InBody(b, r) EXCEPT !.body = Append(@, l)]
  BY <1>1, DataIsTransparent
<1>3. [InBody(b, r) EXCEPT !.body = Append(@, l)] = InBody(Append(b, l), r)
  <2> DEFINE v == TRUE
             acc == [valid |-> v, inData |-> v, body |-> b, reply |-> r]
             x == Append(b, l)
  <2> HIDE DEF v
  <2>1. acc.body = b
    OBVIOUS
  <2> HIDE DEF x
  <2>2. [acc EXCEPT !.body = x]
            = [valid |-> v, inData |-> v, body |-> x, reply |-> r]
    OBVIOUS
  <2>3. QED
    BY <2>1, <2>2 DEF v, x, InBody
<1>4. QED
  BY <1>2, <1>3

(* The end of a block makes its body the data of the reply.                *)
LEMMA DotParsed ==
    ASSUME NEW b, NEW r \in Readings
    PROVE  ParseLine(InBody(b, r), Dot) = Between(b, WithData(r, b))
<1> DEFINE acc == InBody(b, r)
<1>1. acc.inData /\ acc.body = b /\ acc.reply = r
  BY DEF InBody
<1>2. [r EXCEPT !.data = b] = WithData(r, b)
  BY DEF Readings, WithData
<1>3. [acc EXCEPT !.inData = FALSE, !.reply = WithData(r, b)]
          = Between(b, WithData(r, b))
  <2> DEFINE v == TRUE
             d == FALSE
             s == WithData(r, b)
  <2> HIDE DEF v, d, s
  <2>1. [[valid |-> v, inData |-> v, body |-> b, reply |-> r]
             EXCEPT !.inData = d]
            = [valid |-> v, inData |-> d, body |-> b, reply |-> r]
    OBVIOUS
  <2>2. [[valid |-> v, inData |-> d, body |-> b, reply |-> r]
             EXCEPT !.reply = s]
            = [valid |-> v, inData |-> d, body |-> b, reply |-> s]
    OBVIOUS
  <2>3. acc = [valid |-> v, inData |-> v, body |-> b, reply |-> r]
    BY DEF v, InBody
  <2>4. Between(b, s) = [valid |-> v, inData |-> d, body |-> b, reply |-> s]
    BY DEF v, d, Between
  <2> HIDE DEF acc
  <2>5. [acc EXCEPT !.inData = d, !.reply = s]
            = [[acc EXCEPT !.inData = d] EXCEPT !.reply = s]
    BY <2>3
  <2>6. [acc EXCEPT !.inData = d, !.reply = s] = Between(b, s)
    BY <2>1, <2>2, <2>3, <2>4, <2>5
  <2>7. QED
    BY <2>6 DEF d, s
<1> HIDE DEF acc
<1>4. ParseLine(acc, Dot) = [acc EXCEPT !.inData = FALSE, !.reply = WithData(r, b)]
  BY <1>1, <1>2 DEF ParseLine, ParseBody
<1>5. QED
  BY <1>3, <1>4 DEF acc

(* A status line adds its text, and begins a block if it has a plus sign.  *)
LEMMA StatusParsed ==
    ASSUME NEW b, NEW r, NEW l, IsStatus(l)
    PROVE  /\ l.sep = "+" =>
                  ParseLine(Between(b, r), l) = InBody(<< >>, WithStatus(r, l))
           /\ l.sep # "+" =>
                  ParseLine(Between(b, r), l) = Between(<< >>, WithStatus(r, l))
<1> DEFINE acc == Between(b, r)
<1>1. ~acc.inData /\ acc.valid = TRUE /\ acc.reply = r
  BY DEF Between
<1> HIDE DEF acc
<1>2. ParseLine(acc, l) = [valid |-> acc.valid, inData |-> l.sep = "+",
                           body |-> << >>, reply |-> WithStatus(acc.reply, l)]
  BY <1>1, Zenon DEF ParseLine, ParseStatus, WithStatus
<1>3. QED
  BY <1>1, <1>2 DEF InBody, Between, acc

(* After each of these lines readReply asks for another.                   *)
Continues(raw) ==
    \A k \in 1 .. Len(raw) :
        GoesOn(ParseReply(SubSeq(raw, 1, k - 1)).inData, raw[k])

Reads(raw, acc) ==
    raw \in Seq(Lines) /\ Continues(raw) /\ ParseReply(raw) = acc

(* Before the first line.                                                  *)
LEMMA ReadsNothing == Reads(<< >>, Parsing)
<1>1. << >> \in Seq(Lines) /\ Len(<< >>) = 0
  OBVIOUS
<1>2. Continues(<< >>)
  BY <1>1 DEF Continues
<1>3. QED
  BY <1>1, <1>2, ParseReplyEmpty DEF Reads

(* One line more.                                                          *)
LEMMA ReadsMore ==
    ASSUME NEW raw, NEW acc, NEW l \in Lines,
           Reads(raw, acc), GoesOn(acc.inData, l)
    PROVE  Reads(Append(raw, l), ParseLine(acc, l))
<1> DEFINE more == Append(raw, l)
<1>1. raw \in Seq(Lines) /\ Continues(raw) /\ ParseReply(raw) = acc
  BY DEF Reads
<1>2. more \in Seq(Lines) /\ Len(more) = Len(raw) + 1
  BY <1>1
<1>3. ASSUME NEW k \in 1 .. Len(more)
      PROVE  GoesOn(ParseReply(SubSeq(more, 1, k - 1)).inData, more[k])
  <2>1. SubSeq(more, 1, k - 1) = SubSeq(raw, 1, k - 1)
    BY <1>1, <1>2
  <2>2. CASE k \in 1 .. Len(raw)
    <3>1. more[k] = raw[k]
      BY <1>1, <2>2
    <3>2. QED
      BY <1>1, <2>1, <2>2, <3>1 DEF Continues
  <2>3. CASE k = Len(raw) + 1
    <3>1. more[k] = l /\ SubSeq(raw, 1, k - 1) = raw
      BY <1>1, <2>3
    <3>2. QED
      BY <1>1, <2>1, <3>1
  <2>4. QED
    BY <1>1, <1>2, <2>2, <2>3
<1>4. Continues(more)
  BY <1>3 DEF Continues
<1>5. ParseReply(more) = ParseLine(acc, l)
  BY <1>1, ParseReplyAppend
<1>6. QED
  BY <1>2, <1>4, <1>5 DEF Reads

(* The lines of a body are all read into it.                               *)
LEMMA ReadsBody ==
    ASSUME NEW raw, NEW r, NEW body \in Seq(Lines), Reads(raw, InBody(<< >>, r))
    PROVE  Reads(raw \o StuffedLines(body), InBody(body, r))
<1> DEFINE Holds(bs) == Reads(raw \o StuffedLines(bs), InBody(bs, r))
           T == {n \in Nat : \A bs \in Seq(Lines) : Len(bs) = n => Holds(bs)}
<1>1. raw \in Seq(Lines)
  BY DEF Reads
<1>2. 0 \in T
  <2>1. ASSUME NEW bs \in Seq(Lines), Len(bs) = 0 PROVE Holds(bs)
    <3>1. bs = << >>
      BY <2>1, EmptySeq
    <3>2. StuffedLines(<< >>) = << >>
      BY DEF StuffedLines
    <3>3. raw \o << >> = raw
      BY <1>1, ConcatEmptySeq
    <3>4. QED
      BY <3>1, <3>2, <3>3
  <2>2. QED
    BY <2>1
<1>3. ASSUME NEW n \in T PROVE n + 1 \in T
  <2>1. ASSUME NEW bs \in Seq(Lines), Len(bs) = n + 1 PROVE Holds(bs)
    <3>1. bs # << >>
      BY <2>1
    <3>2. PICK cs \in Seq(Lines), l \in Lines : bs = Append(cs, l)
      BY <3>1, SequenceEmptyOrAppend
    <3>3. Len(cs) = n
      BY <2>1, <3>2, AppendProperties
    <3>4. Reads(raw \o StuffedLines(cs), InBody(cs, r))
      BY <3>3
    <3>5. StuffedLines(bs) = Append(StuffedLines(cs), Stuffed(l))
      <4>1. /\ StuffedLines(bs) \in Seq(Lines) /\ Len(StuffedLines(bs)) = Len(bs)
            /\ \A i \in 1 .. Len(bs) : StuffedLines(bs)[i] = Stuffed(bs[i])
        BY StuffedLinesType
      <4>2. /\ StuffedLines(cs) \in Seq(Lines) /\ Len(StuffedLines(cs)) = Len(cs)
            /\ \A i \in 1 .. Len(cs) : StuffedLines(cs)[i] = Stuffed(cs[i])
        BY StuffedLinesType
      <4>3. Stuffed(l) \in Lines
        BY StuffedType
      <4>4. /\ Len(bs) = Len(cs) + 1 /\ bs[Len(cs) + 1] = l
            /\ \A i \in 1 .. Len(cs) : bs[i] = cs[i]
        BY <3>2
      <4> DEFINE s == StuffedLines(bs)
                 t == Append(StuffedLines(cs), Stuffed(l))
      <4>5. /\ t \in Seq(Lines) /\ Len(t) = Len(cs) + 1
            /\ t[Len(cs) + 1] = Stuffed(l)
            /\ \A i \in 1 .. Len(cs) : t[i] = StuffedLines(cs)[i]
        BY <4>2, <4>3
      <4>6. \A i \in 1 .. Len(s) : s[i] = t[i]
        BY <4>1, <4>2, <4>4, <4>5
      <4>7. s \in Seq(Lines) /\ Len(s) = Len(t)
        BY <4>1, <4>4, <4>5
      <4> HIDE DEF s, t
      <4>8. s = t
        BY <4>5, <4>6, <4>7, SeqEqual
      <4>9. QED
        BY <4>8 DEF s, t
    <3>6. StuffedLines(cs) \in Seq(Lines) /\ Stuffed(l) \in Lines
      BY StuffedLinesType, StuffedType
    <3>7. raw \o StuffedLines(bs) = Append(raw \o StuffedLines(cs), Stuffed(l))
      BY <1>1, <3>5, <3>6
    <3>8. GoesOn(InBody(cs, r).inData, Stuffed(l))
      BY DEF GoesOn, InBody
    <3>9. Reads(Append(raw \o StuffedLines(cs), Stuffed(l)),
                ParseLine(InBody(cs, r), Stuffed(l)))
      BY <3>4, <3>6, <3>8, ReadsMore
    <3>10. QED
      BY <3>2, <3>7, <3>9, BodyLineParsed
  <2>2. QED
    BY <2>1
<1>4. T = Nat
  <2>1. T \subseteq Nat
    OBVIOUS
  <2> HIDE DEF T
  <2>2. QED
    BY <1>2, <1>3, <2>1, NatSetInduction
<1>5. Len(body) \in T
  BY <1>4
<1> QED
  BY <1>5
(* What an item adds to the reply that is read.                            *)
AfterItem(r, code, item) ==
    [code |-> IF r.code = 0 THEN code ELSE r.code,
     texts |-> Append(r.texts, item.text),
     data |-> IF item.body = << >> THEN r.data ELSE item.body]

(* The parts of a status line.                                             *)
LEMMA StatusFields ==
    ASSUME NEW code \in Codes \ {0}, NEW sep, NEW text
    PROVE  /\ IsStatus(Status(code, sep, text))
           /\ Status(code, sep, text).code = code
           /\ Status(code, sep, text).sep = sep
           /\ Status(code, sep, text).text = text
BY DEF IsStatus, Status

(* The lines of an item add its text, and its body if it has one.          *)
LEMMA ReadsItem ==
    ASSUME NEW raw, NEW b, NEW r \in Readings, NEW code \in Codes \ {0},
           NEW item \in Items, Reads(raw, Between(b, r))
    PROVE  \E x : Reads(raw \o ItemLines(code, item),
                        Between(x, AfterItem(r, code, item)))
<1>1. raw \in Seq(Lines) /\ code \in Codes
  BY DEF Reads
<1>2. item.body \in Seq(Lines) /\ item.text \in Texts
  BY DEF Items
<1>3. CASE item.body = << >>
  <2> DEFINE l == Status(code, "-", item.text)
  <2>1. l \in Lines
    BY <1>1, <1>2, StatusType DEF Separators
  <2>2. IsStatus(l) /\ l.code = code /\ l.sep = "-" /\ l.text = item.text
    BY StatusFields
  <2>3. ItemLines(code, item) = <<l>>
    BY <1>1, <1>3, ItemLinesForm
  <2> HIDE DEF l
  <2>4. GoesOn(Between(b, r).inData, l)
    BY <2>2 DEF GoesOn
  <2>5. Reads(Append(raw, l), ParseLine(Between(b, r), l))
    BY <2>1, <2>4, ReadsMore
  <2>6. ParseLine(Between(b, r), l) = Between(<< >>, WithStatus(r, l))
    BY <2>2, StatusParsed
  <2>7. WithStatus(r, l) = AfterItem(r, code, item)
    BY <1>3, <2>2 DEF WithStatus, AfterItem
  <2>8. raw \o <<l>> = Append(raw, l)
    BY <1>1, <2>1
  <2>9. Reads(raw \o ItemLines(code, item),
              Between(<< >>, AfterItem(r, code, item)))
    BY <2>3, <2>5, <2>6, <2>7, <2>8
  <2>10. QED
    BY <2>9
<1>4. CASE item.body # << >>
  <2> DEFINE l == Status(code, "+", item.text)
             s == WithStatus(r, l)
             body == item.body
             mid == StuffedLines(body)
  <2>1. l \in Lines /\ mid \in Seq(Lines) /\ Dot \in Lines /\ body \in Seq(Lines)
    BY <1>1, <1>2, StatusType, StuffedLinesType, DotType DEF Separators
  <2>2. IsStatus(l) /\ l.code = code /\ l.sep = "+" /\ l.text = item.text
    BY StatusFields
  <2>3. ItemLines(code, item) = <<l>> \o mid \o <<Dot>>
    BY <1>1, <1>4, ItemLinesForm
  <2> HIDE DEF l, body
  <2>4. GoesOn(Between(b, r).inData, l)
    BY <2>2 DEF GoesOn
  <2>5. Reads(Append(raw, l), ParseLine(Between(b, r), l))
    BY <2>1, <2>4, ReadsMore
  <2>6. ParseLine(Between(b, r), l) = InBody(<< >>, s)
    BY <2>2, StatusParsed
  <2>7. s \in Readings
    BY <2>1, ReadingsType
  <2>8. WithData(s, body) = AfterItem(r, code, item)
    BY <1>4, <2>2 DEF WithStatus, WithData, AfterItem, body
  <2> HIDE DEF s
  <2>9. Reads(Append(raw, l) \o mid, InBody(body, s))
    BY <2>1, <2>5, <2>6, ReadsBody
  <2>10. GoesOn(InBody(body, s).inData, Dot)
    BY DEF GoesOn, InBody
  <2>11. Reads(Append(Append(raw, l) \o mid, Dot), ParseLine(InBody(body, s), Dot))
    BY <2>1, <2>9, <2>10, ReadsMore
  <2>12. ParseLine(InBody(body, s), Dot) = Between(body, WithData(s, body))
    BY <2>7, DotParsed
  <2>13. Append(Append(raw, l) \o mid, Dot) = raw \o (<<l>> \o mid \o <<Dot>>)
    <3> DEFINE x == <<l>>
               d == <<Dot>>
    <3>1. x \in Seq(Lines) /\ d \in Seq(Lines) /\ x \o mid \in Seq(Lines)
      BY <2>1
    <3> HIDE DEF mid
    <3>2. Append(raw, l) = raw \o x /\ raw \o x \in Seq(Lines)
      BY <1>1, <2>1
    <3>3. Append((raw \o x) \o mid, Dot) = ((raw \o x) \o mid) \o d
      BY <2>1, <3>2
    <3> HIDE DEF x, d
    <3>4. (raw \o x) \o mid = raw \o (x \o mid)
      BY <1>1, <2>1, <3>1, ConcatAssociative
    <3>5. (raw \o (x \o mid)) \o d = raw \o ((x \o mid) \o d)
      BY <1>1, <3>1, ConcatAssociative
    <3>6. QED
      BY <3>2, <3>3, <3>4, <3>5 DEF x, d
  <2>14. Reads(raw \o ItemLines(code, item),
               Between(body, AfterItem(r, code, item)))
    BY <2>3, <2>8, <2>11, <2>12, <2>13
  <2>15. QED
    BY <2>14
<1>5. QED
  BY <1>3, <1>4

(* What the items of a reply mean together.                                *)
Bodies(items) == {i \in DOMAIN items : items[i].body # << >>}
IsLast(at, i) == i \in at /\ \A j \in at : j <= i
DataOf(items) ==
    IF Bodies(items) = {} THEN << >>
    ELSE items[CHOOSE i \in Bodies(items) : \A j \in Bodies(items) : j <= i].body

(* The data of a reply are the body of the last of its blocks.             *)
LEMMA DataIsLast ==
    ASSUME NEW items \in Seq(Items), NEW i, IsLast(Bodies(items), i)
    PROVE  DataOf(items) = items[i].body
<1> DEFINE k == CHOOSE k \in Bodies(items) : \A j \in Bodies(items) : j <= k
<1>1. i \in Bodies(items) /\ \A j \in Bodies(items) : j <= i
  BY DEF IsLast
<1>2. k \in Bodies(items) /\ \A j \in Bodies(items) : j <= k
  BY <1>1
<1>3. \A j \in Bodies(items) : j \in Nat
  BY DEF Bodies
<1> HIDE DEF k
<1>4. k = i
  BY <1>1, <1>2, <1>3
<1>5. Bodies(items) # {}
  BY <1>1
<1>6. QED
  BY <1>4, <1>5 DEF DataOf, k

(* The data are lines.                                                     *)
LEMMA DataType ==
    ASSUME NEW items \in Seq(Items)
    PROVE  DataOf(items) \in Seq(Lines)
<1>1. CASE Bodies(items) = {}
  BY <1>1 DEF DataOf
<1>2. CASE Bodies(items) # {}
  <2>1. Bodies(items) \in SUBSET (1 .. Len(items)) /\ Len(items) \in Nat
    BY DEF Bodies
  <2>2. PICK i \in Bodies(items) : \A j \in Bodies(items) : j <= i
    BY <1>2, <2>1, LastExists
  <2>3. DataOf(items) = items[i].body
    BY <2>2, DataIsLast DEF IsLast
  <2>4. items[i] \in Items
    BY <2>1
  <2>5. QED
    BY <2>3, <2>4 DEF Items
<1>3. QED
  BY <1>1, <1>2

(* Another item replaces the data if it has a body.                        *)
LEMMA DataAppend ==
    ASSUME NEW items \in Seq(Items), NEW item \in Items
    PROVE  DataOf(Append(items, item)) =
               IF item.body = << >> THEN DataOf(items) ELSE item.body
<1> DEFINE more == Append(items, item)
           n == Len(items)
<1>1. /\ more \in Seq(Items) /\ n \in Nat /\ n + 1 \in 1 .. n + 1
      /\ DOMAIN items = 1 .. n /\ DOMAIN more = 1 .. n + 1
      /\ more[n + 1] = item /\ \A i \in 1 .. n : more[i] = items[i]
  OBVIOUS
<1> HIDE DEF more, n
<1>2. CASE item.body # << >>
  <2>1. n + 1 \in Bodies(more)
    BY <1>1, <1>2 DEF Bodies
  <2>2. \A j \in Bodies(more) : j <= n + 1
    BY <1>1 DEF Bodies
  <2>3. DataOf(more) = item.body
    BY <1>1, <2>1, <2>2, DataIsLast DEF IsLast
  <2>4. QED
    BY <1>2, <2>3 DEF more
<1>3. CASE item.body = << >>
  <2>1. Bodies(more) = Bodies(items)
    <3>1. \A i : i \in Bodies(more) <=> i \in Bodies(items)
      <4>1. \A i : i \in 1 .. n + 1 <=> (i \in 1 .. n \/ i = n + 1)
        BY <1>1
      <4>2. n + 1 \notin Bodies(more)
        BY <1>1, <1>3 DEF Bodies
      <4>3. QED
        BY <1>1, <4>1, <4>2 DEF Bodies
    <3>2. QED
      BY <3>1
  <2>2. CASE Bodies(items) = {}
    BY <1>3, <2>1, <2>2 DEF DataOf, more
  <2>3. CASE Bodies(items) # {}
    <3>1. Bodies(items) \in SUBSET (1 .. n)
      BY <1>1 DEF Bodies
    <3>2. PICK i \in Bodies(items) : \A j \in Bodies(items) : j <= i
      BY <1>1, <2>3, <3>1, LastExists
    <3>3. DataOf(items) = items[i].body
      BY <3>2, DataIsLast DEF IsLast
    <3>4. DataOf(more) = more[i].body
      BY <1>1, <2>1, <3>2, DataIsLast DEF IsLast
    <3>5. more[i] = items[i]
      BY <1>1, <3>1
    <3>6. QED
      BY <1>3, <3>3, <3>4, <3>5 DEF more
  <2>4. QED
    BY <2>2, <2>3
<1>4. QED
  BY <1>2, <1>3

TextsOf(items) == [i \in DOMAIN items |-> items[i].text]
ItemsReading(code, items) ==
    [code |-> IF items = << >> THEN 0 ELSE code, texts |-> TextsOf(items),
     data |-> DataOf(items)]

(* The texts of items.                                                     *)
LEMMA TextsType ==
    ASSUME NEW items \in Seq(Items)
    PROVE  TextsOf(items) \in Seq(LineTexts)
<1>1. DOMAIN items = 1 .. Len(items) /\ Len(items) \in Nat
  OBVIOUS
<1>2. ASSUME NEW i \in 1 .. Len(items) PROVE items[i].text \in LineTexts
  <2>1. items[i] \in Items
    OBVIOUS
  <2>2. QED
    BY <2>1 DEF Items, LineTexts
<1>3. QED
  BY <1>1, <1>2 DEF TextsOf

(* Another item adds its text.                                             *)
LEMMA TextsAppend ==
    ASSUME NEW items \in Seq(Items), NEW item \in Items
    PROVE  TextsOf(Append(items, item)) = Append(TextsOf(items), item.text)
<1> DEFINE more == Append(items, item)
           s == TextsOf(more)
           t == Append(TextsOf(items), item.text)
<1>1. /\ more \in Seq(Items) /\ Len(items) \in Nat
      /\ DOMAIN items = 1 .. Len(items) /\ DOMAIN more = 1 .. Len(items) + 1
      /\ Len(more) = Len(items) + 1
      /\ more[Len(items) + 1] = item
      /\ \A i \in 1 .. Len(items) : more[i] = items[i]
  OBVIOUS
<1>2. item.text \in LineTexts
  BY DEF Items, LineTexts
<1> HIDE DEF more
<1>3. TextsOf(items) \in Seq(LineTexts) /\ s \in Seq(LineTexts)
  BY <1>1, TextsType
<1>4. /\ Len(TextsOf(items)) = Len(items)
      /\ \A i \in 1 .. Len(items) : TextsOf(items)[i] = items[i].text
  BY <1>1 DEF TextsOf
<1>5. /\ Len(s) = Len(more)
      /\ \A i \in 1 .. Len(items) + 1 : s[i] = more[i].text
  BY <1>1 DEF TextsOf
<1>6. /\ t \in Seq(LineTexts) /\ Len(t) = Len(items) + 1
      /\ t[Len(items) + 1] = item.text
      /\ \A i \in 1 .. Len(items) : t[i] = TextsOf(items)[i]
  <2> HIDE DEF s
  <2>1. QED
    BY <1>2, <1>3, <1>4, AppendProperties
<1> HIDE DEF s, t
<1>7. \A i \in 1 .. Len(s) : s[i] = t[i]
  BY <1>1, <1>4, <1>5, <1>6
<1>8. s = t
  BY <1>1, <1>3, <1>5, <1>6, <1>7, SeqEqual
<1>9. QED
  BY <1>8 DEF s, t, more

(* What the items mean is a reading.                                       *)
LEMMA ItemsReadingType ==
    ASSUME NEW code \in Codes, NEW items \in Seq(Items)
    PROVE  ItemsReading(code, items) \in Readings
<1>1. DataOf(items) \in Seq(Lines) /\ TextsOf(items) \in Seq(LineTexts)
  BY DataType, TextsType
<1>2. (IF items = << >> THEN 0 ELSE code) \in Codes
  BY DEF Codes
<1>3. QED
  BY <1>1, <1>2 DEF ItemsReading, Readings

(* No items leave the reading empty.                                       *)
LEMMA ItemsReadingEmpty ==
    ASSUME NEW code
    PROVE  ItemsReading(code, << >>) = Nothing
<1>1. DataOf(<< >>) = << >>
  BY DEF DataOf, Bodies
<1>2. TextsOf(<< >>) = << >>
  BY DEF TextsOf
<1>3. QED
  BY <1>1, <1>2 DEF ItemsReading, Nothing

(* What another item adds to the reading.                                  *)
LEMMA ItemsReadingAppend ==
    ASSUME NEW code \in Codes \ {0}, NEW items \in Seq(Items), NEW item \in Items
    PROVE  AfterItem(ItemsReading(code, items), code, item) =
               ItemsReading(code, Append(items, item))
<1> DEFINE r == ItemsReading(code, items)
           s == ItemsReading(code, Append(items, item))
<1>1. /\ r.code = (IF items = << >> THEN 0 ELSE code)
      /\ r.texts = TextsOf(items) /\ r.data = DataOf(items)
  BY DEF ItemsReading
<1>2. Append(items, item) # << >>
  BY AppendProperties
<1>3. s = [code |-> code, texts |-> Append(TextsOf(items), item.text),
           data |-> IF item.body = << >> THEN DataOf(items) ELSE item.body]
  BY <1>2, TextsAppend, DataAppend DEF ItemsReading
<1> HIDE DEF r, s
<1>4. (IF r.code = 0 THEN code ELSE r.code) = code
  BY <1>1
<1>5. AfterItem(r, code, item) = s
  BY <1>1, <1>3, <1>4 DEF AfterItem
<1>6. QED
  BY <1>5 DEF r, s
(* readReply and parseReply go through the lines of all the items, and     *)
(* have read what they mean.                                               *)
LEMMA ReadsItems ==
    ASSUME NEW code \in Codes \ {0}, NEW items \in Seq(Items)
    PROVE  \E x : Reads(FlatMap(ItemLinesOf(code), items),
                        Between(x, ItemsReading(code, items)))
<1> DEFINE Holds(its) ==
               \E x : Reads(FlatMap(ItemLinesOf(code), its),
                            Between(x, ItemsReading(code, its)))
           T == {n \in Nat : \A its \in Seq(Items) : Len(its) = n => Holds(its)}
<1>1. ItemLinesOf(code) \in [Items -> Seq(Lines)]
  BY ItemLinesType
<1>2. 0 \in T
  <2>1. ASSUME NEW its \in Seq(Items), Len(its) = 0 PROVE Holds(its)
    <3>1. its = << >>
      BY <2>1, EmptySeq
    <3>2. FlatMap(ItemLinesOf(code), << >>) = << >>
      BY FlatMapEmpty
    <3>3. Between(<< >>, ItemsReading(code, << >>)) = Parsing
      BY ItemsReadingEmpty DEF Between, Parsing
    <3>4. Reads(<< >>, Between(<< >>, ItemsReading(code, << >>)))
      BY <3>3, ReadsNothing
    <3>5. QED
      BY <3>1, <3>2, <3>4
  <2>2. QED
    BY <2>1
<1>3. ASSUME NEW n \in T PROVE n + 1 \in T
  <2>1. ASSUME NEW its \in Seq(Items), Len(its) = n + 1 PROVE Holds(its)
    <3>1. its # << >>
      BY <2>1
    <3>2. PICK ots \in Seq(Items), item \in Items : its = Append(ots, item)
      BY <3>1, SequenceEmptyOrAppend
    <3>3. Len(ots) = n
      BY <2>1, <3>2, AppendProperties
    <3> DEFINE raw == FlatMap(ItemLinesOf(code), ots)
               r == ItemsReading(code, ots)
    <3>4. PICK x : Reads(raw, Between(x, r))
      BY <3>3
    <3>5. r \in Readings
      BY ItemsReadingType
    <3>6. AfterItem(r, code, item) = ItemsReading(code, its)
      BY <3>2, ItemsReadingAppend
    <3>7. FlatMap(ItemLinesOf(code), its) = raw \o ItemLines(code, item)
      <4>1. <<item>> \in Seq(Items) /\ its = ots \o <<item>>
        BY <3>2
      <4>2. FlatMap(ItemLinesOf(code), ots \o <<item>>)
                = raw \o FlatMap(ItemLinesOf(code), <<item>>)
        <5> DEFINE F == ItemLinesOf(code)
                   one == <<item>>
        <5>1. F \in [Items -> Seq(Lines)] /\ one \in Seq(Items)
          BY <1>1, <4>1
        <5> HIDE DEF F, one, T, Holds
        <5>2. FlatMap(F, ots \o one) = FlatMap(F, ots) \o FlatMap(F, one)
          BY <5>1, FlatMapConcat, Z3
        <5>3. QED
          BY <5>2 DEF F, one
      <4>3. FlatMap(ItemLinesOf(code), <<item>>) = ItemLinesOf(code)[item]
        BY <1>1, FlatMapOne
      <4>4. QED
        BY <4>1, <4>2, <4>3 DEF ItemLinesOf
    <3> HIDE DEF raw, r
    <3>8. PICK y : Reads(raw \o ItemLines(code, item),
                         Between(y, AfterItem(r, code, item)))
      BY <3>4, <3>5, ReadsItem
    <3>9. QED
      BY <3>6, <3>7, <3>8
  <2>2. QED
    BY <2>1
<1>4. T = Nat
  <2>1. T \subseteq Nat
    OBVIOUS
  <2> HIDE DEF T
  <2>2. QED
    BY <1>2, <1>3, <2>1, NatSetInduction
<1>5. Len(items) \in T
  BY <1>4
<1> QED
  BY <1>5

(* readReply asks for another line after each of these but the last.       *)
AsksUntilTheEnd(raw) ==
    \A k \in 1 .. Len(raw) :
        GoesOn(ParseReply(SubSeq(raw, 1, k - 1)).inData, raw[k]) <=> k < Len(raw)

(* Whatever Tor has to say, readReply collects exactly the lines of the    *)
(* reply, asking for another after each but the last, and parseReply reads *)
(* from them what Tor meant.                                               *)
THEOREM ReplyIsReadBack ==
    ASSUME NEW r \in AnyReply
    PROVE  /\ Format(r) \in Seq(Lines) /\ Format(r) # << >>
           /\ AsksUntilTheEnd(Format(r))
           /\ ParseReply(Format(r)).valid
           /\ ParseReply(Format(r)).reply = Channel!Meaning(r)
<1> DEFINE raw == FlatMap(ItemLinesOf(r.code), r.items)
           l == Status(r.code, " ", r.last)
           s == ItemsReading(r.code, r.items)
           all == Append(raw, l)
<1>1. r.code \in Codes \ {0} /\ r.items \in Seq(Items) /\ r.last \in Texts
  BY DEF AnyReply
<1>2. Format(r) = all /\ raw \in Seq(Lines) /\ l \in Lines
  <2>1. Format(r) = raw \o <<l>> /\ raw \in Seq(Lines) /\ l \in Lines
    BY FormatForm
  <2> HIDE DEF raw, l
  <2>2. QED
    BY <2>1
<1>3. PICK x : Reads(raw, Between(x, s))
  BY <1>1, ReadsItems
<1>4. IsStatus(l) /\ l.code = r.code /\ l.sep = " " /\ l.text = r.last
  BY <1>1 DEF IsStatus, Status
<1>5. /\ s.code = (IF r.items = << >> THEN 0 ELSE r.code)
      /\ s.texts = TextsOf(r.items) /\ s.data = DataOf(r.items)
  BY DEF ItemsReading
<1>6. Channel!Meaning(r) = [code |-> r.code, texts |-> Append(s.texts, r.last),
                            data |-> s.data]
  <2>1. TextsOf(r.items) \o <<r.last>> = Append(TextsOf(r.items), r.last)
    <3>1. TextsOf(r.items) \in Seq(LineTexts) /\ r.last \in LineTexts
      BY <1>1, TextsType DEF LineTexts
    <3>2. QED
      BY <3>1
  <2>2. Channel!Meaning(r) = [code |-> r.code,
                              texts |-> TextsOf(r.items) \o <<r.last>>,
                              data |-> DataOf(r.items)]
    BY DEF Channel!Meaning, Channel!Blocks, TextsOf, DataOf, Bodies
  <2>3. QED
    BY <1>5, <2>1, <2>2
<1> HIDE DEF raw, l, s
<1>7. Continues(raw) /\ ParseReply(raw) = Between(x, s)
  BY <1>3 DEF Reads
<1>8. ParseReply(all) = Between(<< >>, WithStatus(s, l))
  <2>1. ParseReply(all) = ParseLine(Between(x, s), l)
    BY <1>2, <1>7, ParseReplyAppend
  <2>2. l.sep # "+"
    BY <1>4
  <2>3. QED
    BY <1>4, <2>1, <2>2, StatusParsed
<1>9. WithStatus(s, l) = Channel!Meaning(r)
  BY <1>1, <1>4, <1>5, <1>6 DEF WithStatus
<1>10. AsksUntilTheEnd(all)
  <2>1. all \in Seq(Lines) /\ Len(all) = Len(raw) + 1 /\ Len(raw) \in Nat
    BY <1>2
  <2>2. ASSUME NEW k \in 1 .. Len(all)
        PROVE  GoesOn(ParseReply(SubSeq(all, 1, k - 1)).inData, all[k])
                   <=> k < Len(all)
    <3>1. SubSeq(all, 1, k - 1) = SubSeq(raw, 1, k - 1)
      BY <1>2, <2>1
    <3>2. CASE k \in 1 .. Len(raw)
      <4>1. all[k] = raw[k] /\ k < Len(all)
        BY <1>2, <2>1, <3>2
      <4>2. QED
        BY <1>7, <3>1, <3>2, <4>1 DEF Continues
    <3>3. CASE k = Len(raw) + 1
      <4>1. all[k] = l /\ SubSeq(raw, 1, k - 1) = raw /\ ~(k < Len(all))
        BY <1>2, <2>1, <3>3
      <4>2. ~GoesOn(Between(x, s).inData, l)
        BY <1>4 DEF GoesOn, Between
      <4>3. QED
        BY <1>7, <3>1, <4>1, <4>2
    <3>4. QED
      BY <2>1, <3>2, <3>3
  <2>3. QED
    BY <2>2 DEF AsksUntilTheEnd
<1>11. Between(<< >>, WithStatus(s, l)).valid
       /\ Between(<< >>, WithStatus(s, l)).reply = WithStatus(s, l)
  BY DEF Between
<1>12. all \in Seq(Lines) /\ all # << >>
  BY <1>2, AppendProperties
<1> HIDE DEF all
<1>13. QED
  BY <1>2, <1>8, <1>9, <1>10, <1>11, <1>12
-----------------------------------------------------------------------------
(* f is s and x, and perhaps more; if not, g is what followed them.       *)
IsCutInside(s, x, t, f, g) ==
    /\ SubSeq(f, 1, Len(s)) = s
    /\ f[Len(s) + 1] = x
    /\ Len(s) + 1 = Len(f) => t = g

(* Where two ways to cut the same lines meet.                              *)
LEMMA CutInside ==
    ASSUME NEW s \in Seq(Lines), NEW x \in Lines, NEW t \in Seq(Lines),
           NEW f \in Seq(Lines), NEW g \in Seq(Lines),
           Append(s, x) \o t = f \o g, Len(s) < Len(f)
    PROVE  IsCutInside(s, x, t, f, g)
<1> DEFINE n == Len(s)
           a == Append(s, x)
<1>1. /\ a \in Seq(Lines) /\ Len(a) = n + 1 /\ a[n + 1] = x
      /\ \A i \in 1 .. n : a[i] = s[i]
      /\ n \in Nat /\ Len(f) \in Nat /\ n < Len(f)
  OBVIOUS
<1> HIDE DEF a
<1>2. \A i \in 1 .. n + 1 : (a \o t)[i] = a[i] /\ (f \o g)[i] = f[i]
  BY <1>1
<1>3. \A i \in 1 .. n + 1 : f[i] = a[i]
  BY <1>2 DEF a
<1>4. f[n + 1] = x
  BY <1>1, <1>3
<1>5. SubSeq(f, 1, n) = s
  <2> DEFINE u == SubSeq(f, 1, n)
  <2>1. u \in Seq(Lines) /\ Len(u) = n /\ \A i \in 1 .. n : u[i] = f[i]
    BY <1>1
  <2>2. \A i \in 1 .. n : u[i] = s[i]
    BY <1>1, <1>3, <2>1
  <2> HIDE DEF u
  <2>3. u = s
    BY <2>1, <2>2, SeqEqual
  <2>4. QED
    BY <2>3 DEF u
<1>6. ASSUME n + 1 = Len(f) PROVE t = g
  <2>1. SubSeq(a, Len(f) + 1, Len(a)) \o t = g
    <3>1. a \o t = f \o g /\ Len(f) <= Len(a)
      BY <1>1, <1>6 DEF a
    <3>2. QED
      BY <1>1, <3>1, CutFront
  <2>2. SubSeq(a, Len(f) + 1, Len(a)) = << >>
    BY <1>1, <1>6
  <2>3. << >> \o t = t
    BY ConcatEmptySeq
  <2>4. QED
    BY <2>1, <2>2, <2>3
<1>7. QED
  BY <1>4, <1>5, <1>6 DEF IsCutInside

-----------------------------------------------------------------------------
(* The first line that the bytes hold is the first that was sent, and the  *)
(* bytes after its CR LF are those of the others.                          *)
LEMMA FirstLine ==
    ASSUME NEW ls \in Seq(Lines), NEW b \in Seq(Bytes), NEW rest \in Seq(Bytes),
           b \o rest = ToBytes(ls),
           NEW e \in LineEnds(b), \A i \in LineEnds(b) : e <= i
    PROVE  /\ ls # << >>
           /\ LineBefore(b, e) = Head(ls)
           /\ AfterLine(b, e) \in Seq(Bytes)
           /\ AfterLine(b, e) \o rest = ToBytes(Tail(ls))
<1>1. /\ e \in 2 .. Len(b) /\ b[e - 1] = CR /\ b[e] = LF
      /\ Len(b) \in Nat
  BY DEF LineEnds
<1>2. ls # << >>
  <2>1. Len(b \o rest) >= 2
    BY <1>1
  <2>2. QED
    BY <2>1, ToBytesEmpty
<1> DEFINE h == Head(ls)
           t == Tail(ls)
           p == LineBytes(h)
           w == ToBytes(t)
<1>3. h \in Lines /\ t \in Seq(Lines) /\ <<h>> \in Seq(Lines) /\ ls = <<h>> \o t
  BY <1>2
<1>4. p \in Seq(Bytes) /\ w \in Seq(Bytes)
  BY <1>3, LineBytesType, ToBytesType DEF LineBytesOf
<1>5. b \o rest = p \o w
  <2>1. ToBytes(ls) = ToBytes(<<h>>) \o w
    BY <1>3, ToBytesConcat
  <2>2. QED
    BY <1>3, <2>1, ToBytesOne
<1> HIDE DEF h, t, p, w
<1>6. \A i \in 1 .. Len(b) : i <= Len(p) => b[i] = p[i]
  <2>1. \A i \in 1 .. Len(b) : (b \o rest)[i] = b[i]
    OBVIOUS
  <2>2. \A i \in 1 .. Len(p) : (p \o w)[i] = p[i]
    BY <1>4
  <2>3. QED
    BY <1>4, <1>5, <2>1, <2>2
<1>7. e = Len(p) /\ LineBefore(b, e) = h
  <2>1. CASE h = Blank
    <3>1. p = <<CR, LF>>
      <4>1. p = << >> \o <<CR, LF>>
        BY <2>1 DEF p, LineBytes
      <4>2. QED
        BY <4>1
    <3>2. Len(p) = 2 /\ p[1] = CR /\ p[2] = LF
      BY <3>1
    <3>3. 1 \in 1 .. Len(b) /\ 2 \in 1 .. Len(b) /\ 2 \in 2 .. Len(b)
      BY <1>1
    <3>4. b[1] = CR /\ b[2] = LF
      BY <1>6, <3>2, <3>3
    <3>5. 2 \in LineEnds(b)
      BY <3>3, <3>4 DEF LineEnds
    <3>6. e = 2
      BY <1>1, <3>5
    <3>7. QED
      BY <2>1, <3>2, <3>6 DEF LineBefore
  <2>2. CASE h # Blank
    <3> DEFINE k == <<"text", h>>
    <3>1. p = <<k>> \o <<CR, LF>>
      BY <2>2 DEF p, LineBytes
    <3>2. k # CR /\ CR # LF /\ k[2] = h
      BY DEF CR, LF
    <3> HIDE DEF k
    <3>3. Len(p) = 3 /\ p[1] = k /\ p[2] = CR /\ p[3] = LF
      BY <3>1
    <3>4. 1 \in 1 .. Len(b) /\ 2 \in 1 .. Len(b)
      BY <1>1
    <3>5. b[1] = k /\ b[2] = CR
      BY <1>6, <3>3, <3>4
    <3>6. e # 2
      BY <1>1, <3>2, <3>5
    <3>7. 3 \in 1 .. Len(b) /\ 3 \in 2 .. Len(b)
      BY <1>1, <3>6
    <3>8. b[3] = LF
      BY <1>6, <3>3, <3>7
    <3>9. 3 \in LineEnds(b)
      BY <3>5, <3>7, <3>8 DEF LineEnds
    <3>10. e = 3
      BY <1>1, <3>6, <3>9
    <3>11. QED
      BY <3>2, <3>3, <3>5, <3>10 DEF LineBefore
  <2>3. QED
    BY <2>1, <2>2
<1>8. AfterLine(b, e) \in Seq(Bytes) /\ AfterLine(b, e) \o rest = w
  <2>1. Len(p) <= Len(b)
    BY <1>1, <1>7
  <2>2. SubSeq(b, Len(p) + 1, Len(b)) \o rest = w
    BY <1>4, <1>5, <2>1, CutFront
  <2>3. SubSeq(b, Len(p) + 1, Len(b)) \in Seq(Bytes)
    BY <1>4, <2>1
  <2>4. QED
    BY <1>7, <2>2, <2>3 DEF AfterLine
<1>9. QED
  BY <1>2, <1>7, <1>8 DEF h, t, w

(* The library fact, for bytes.                                            *)
LEMMA BytesAssociative ==
    ASSUME NEW s \in Seq(Bytes), NEW t \in Seq(Bytes), NEW u \in Seq(Bytes)
    PROVE  (s \o t) \o u = s \o (t \o u)
BY ConcatAssociative
-----------------------------------------------------------------------------
(* What readReply keeps of being in a data block is what parseReply would  *)
(* find.                                                                   *)
LEMMA InDataFollowsParse ==
    ASSUME NEW acc \in Accs, NEW l \in Lines
    PROVE  ParseLine(acc, l).inData = InDataAfter(acc.inData, l)
<1>1. acc.inData \in BOOLEAN
  BY DEF Accs
<1>2. CASE acc.inData /\ l = Dot
  <2>1. ParseLine(acc, l) = [acc EXCEPT !.inData = FALSE,
                                        !.reply = [@ EXCEPT !.data = acc.body]]
    BY <1>2 DEF ParseLine, ParseBody
  <2>2. ParseLine(acc, l).inData = FALSE
    BY <2>1 DEF Accs
  <2>3. QED
    BY <1>2, <2>2 DEF InDataAfter
<1>3. CASE acc.inData /\ l # Dot
  <2>1. ParseLine(acc, l) = [acc EXCEPT !.body = Append(@, Unstuffed(l))]
    BY <1>3 DEF ParseLine, ParseBody
  <2>2. ParseLine(acc, l).inData = acc.inData
    BY <2>1 DEF Accs
  <2>3. QED
    BY <1>1, <1>3, <2>2 DEF InDataAfter
<1>4. CASE ~acc.inData /\ IsStatus(l)
  <2>1. ParseLine(acc, l).inData = (l.sep = "+")
    BY <1>4 DEF ParseLine, ParseStatus
  <2>2. QED
    BY <1>4, <2>1 DEF InDataAfter
<1>5. CASE ~acc.inData /\ ~IsStatus(l)
  <2>1. ParseLine(acc, l) = [acc EXCEPT !.valid = FALSE]
    BY <1>5 DEF ParseLine
  <2>2. ParseLine(acc, l).inData = acc.inData
    BY <2>1 DEF Accs
  <2>3. QED
    BY <1>1, <1>5, <2>2 DEF InDataAfter
<1>6. QED
  BY <1>2, <1>3, <1>4, <1>5

(* The lines a, which are not yet the whole of the first reply, are        *)
(* followed by the next line of it. readReply asks for another after it    *)
(* unless it was the last; then the reply is complete, and the rest are    *)
(* the lines of the other replies.                                         *)
LEMMA NextLine ==
    ASSUME NEW a \in Seq(Lines), NEW ls \in Seq(Lines), NEW q \in Seq(AnyReply),
           ls # << >>, a \o ls = AllLines(q),
           a # << >> => q # << >> /\ Len(a) < Len(Format(Head(q)))
    PROVE  /\ q # << >>
           /\ Append(a, Head(ls)) \o Tail(ls) = AllLines(q)
           /\ GoesOn(ParseReply(a).inData, Head(ls))
                  <=> Len(a) + 1 < Len(Format(Head(q)))
           /\ ~GoesOn(ParseReply(a).inData, Head(ls))
                  => /\ Append(a, Head(ls)) = Format(Head(q))
                     /\ Tail(ls) = AllLines(Tail(q))
<1> DEFINE f == Format(Head(q))
           g == AllLines(Tail(q))
           l == Head(ls)
           t == Tail(ls)
<1>1. l \in Lines /\ t \in Seq(Lines) /\ ls = <<l>> \o t
  OBVIOUS
<1>2. q # << >>
  <2>1. Len(a \o ls) > 0
    OBVIOUS
  <2>2. QED
    BY <2>1, AllLinesEmpty
<1>3. /\ Head(q) \in AnyReply /\ Tail(q) \in Seq(AnyReply)
      /\ f \in Seq(Lines) /\ f # << >> /\ g \in Seq(Lines)
      /\ AllLines(q) = f \o g
      /\ AsksUntilTheEnd(f)
  <2>1. Head(q) \in AnyReply /\ Tail(q) \in Seq(AnyReply)
    BY <1>2
  <2>2. AllLines(q) = f \o g
    BY <1>2, AllLinesHead
  <2>3. f \in Seq(Lines) /\ f # << >> /\ AsksUntilTheEnd(f)
    BY <2>1, ReplyIsReadBack
  <2>4. QED
    BY <2>1, <2>2, <2>3, AllLinesType
<1> HIDE DEF f, g, l, t
<1>4. Append(a, l) \o t = a \o ls
  <2>1. Append(a, l) = a \o <<l>> /\ <<l>> \in Seq(Lines)
    BY <1>1
  <2>2. (a \o <<l>>) \o t = a \o (<<l>> \o t)
    BY <1>1, <2>1, ConcatAssociative
  <2>3. QED
    BY <1>1, <2>1, <2>2
<1>5. Len(a) < Len(f)
  <2>1. CASE a = << >>
    <3>1. Len(a) = 0 /\ Len(f) > 0
      BY <1>3, <2>1
    <3>2. QED
      BY <3>1
  <2>2. CASE a # << >>
    BY <2>2 DEF f
  <2>3. QED
    BY <2>1, <2>2
<1>6. Append(a, l) \o t = f \o g
  BY <1>3, <1>4
<1>7. /\ SubSeq(f, 1, Len(a)) = a
      /\ f[Len(a) + 1] = l
      /\ Len(a) + 1 = Len(f) => t = g
  <2>1. /\ a \in Seq(Lines) /\ l \in Lines /\ t \in Seq(Lines)
        /\ f \in Seq(Lines) /\ g \in Seq(Lines)
        /\ Append(a, l) \o t = f \o g /\ Len(a) < Len(f)
    BY <1>1, <1>3, <1>5, <1>6
  <2>2. QED
    <3>1. IsCutInside(a, l, t, f, g)
      BY <2>1, CutInside
    <3>2. QED
      BY <3>1 DEF IsCutInside
<1>8. GoesOn(ParseReply(a).inData, l) <=> Len(a) + 1 < Len(f)
  <2> DEFINE k == Len(a) + 1
  <2>1. k \in 1 .. Len(f) /\ k - 1 = Len(a)
    BY <1>3, <1>5
  <2>2. GoesOn(ParseReply(SubSeq(f, 1, k - 1)).inData, f[k]) <=> k < Len(f)
    BY <1>3, <2>1 DEF AsksUntilTheEnd
  <2>3. QED
    BY <1>7, <2>1, <2>2
<1>9. ASSUME ~GoesOn(ParseReply(a).inData, l)
      PROVE  Append(a, l) = f /\ t = g
  <2>1. Len(a) + 1 = Len(f)
    BY <1>3, <1>5, <1>8, <1>9
  <2>2. t = g
    BY <1>7, <2>1
  <2> DEFINE u == Append(a, l)
  <2>3. /\ u \in Seq(Lines) /\ Len(u) = Len(a) + 1 /\ u[Len(a) + 1] = l
        /\ \A i \in 1 .. Len(a) : u[i] = a[i]
    BY <1>1
  <2>4. \A i \in 1 .. Len(a) : a[i] = f[i]
    <3>1. \A i \in 1 .. Len(a) : SubSeq(f, 1, Len(a))[i] = f[i]
      BY <1>3, <1>5
    <3>2. QED
      BY <1>7, <3>1
  <2> HIDE DEF u
  <2>5. \A i \in 1 .. Len(u) : u[i] = f[i]
    BY <1>3, <1>7, <2>1, <2>3, <2>4
  <2>6. u = f
    BY <1>3, <2>1, <2>3, <2>5, SeqEqual
  <2>7. QED
    BY <2>2, <2>6 DEF u
<1>10. QED
  BY <1>2, <1>4, <1>8, <1>9 DEF f, g, l, t

-----------------------------------------------------------------------------
(* The invariant.  What is in the buffer and on its way are the bytes of   *)
(* whole lines, but for what Tor's end has cut off, and as long as nothing *)
(* was given up, those lines complete the ones that readReply has          *)
(* collected to the replies that were sent.                                *)
Frames(ls, cut) ==
    /\ ls \in Seq(Lines) /\ cut \in Seq(Bytes)
    /\ buffer \o (wire \o cut) = ToBytes(ls)
    /\ closed \/ cut = << >>
    /\ intact => lines \o ls = AllLines(sent)

Framed == \E ls, cut : Frames(ls, cut)

(* readReply follows parseReply, and has not yet collected the whole of    *)
(* the first reply.                                                        *)
Collected ==
    /\ inData = ParseReply(lines).inData
    /\ intact /\ lines # << >>
           => sent # << >> /\ Len(lines) < Len(Format(Head(sent)))

(* What TypeOK says of the variables of a call.                            *)
CallTypeOK ==
    /\ pc \in Labels
    /\ lines \in Seq(Lines)
    /\ inData \in BOOLEAN /\ intact \in BOOLEAN /\ calls \in Nat
    /\ outcome \in Outcomes
    /\ sent \in Seq(Replies)
    /\ IF pc = "idle" THEN lines = << >> ELSE outcome = "none"

ChannelStep == [Channel!Next]_<<sent, reply, intact>>

(* What Tor has sent are replies that it can have to say.                  *)
LEMMA SentType ==
    ASSUME NEW q \in Seq(Replies)
    PROVE  q \in Seq(AnyReply)
<1>1. Replies \subseteq AnyReply
  BY RepliesKnown
<1> HIDE DEF AnyReply
<1>2. \A i \in 1 .. Len(q) : q[i] \in AnyReply
  BY <1>1
<1>3. QED
  BY <1>2

(* readLine has a line and gives it to readReply.                          *)
LEMMA LineKeeps ==
    ASSUME TypeOK, Collected, NEW ls \in Seq(Lines), ls # << >>,
           intact => lines \o ls = AllLines(sent),
           GetsLine(Head(ls)), UNCHANGED <<calls, intact>>, pc # "idle"
    PROVE  /\ CallTypeOK'
           /\ Collected'
           /\ intact' => lines' \o Tail(ls) = AllLines(sent')
           /\ ChannelStep
<1> DEFINE l == Head(ls)
           raw == Append(lines, l)
           parsed == ParseReply(raw)
           f == Format(Head(sent))
<1>1. l \in Lines /\ Tail(ls) \in Seq(Lines)
  OBVIOUS
<1>2. /\ lines \in Seq(Lines) /\ sent \in Seq(Replies) /\ pc \in Labels
      /\ outcome = "none" /\ inData \in BOOLEAN
      /\ intact' \in BOOLEAN /\ calls' \in Nat
  BY DEF TypeOK
<1>3. raw \in Seq(Lines) /\ raw # << >> /\ Len(raw) = Len(lines) + 1
  BY <1>1, <1>2, AppendProperties
<1>4. inData = ParseReply(lines).inData
  BY DEF Collected
<1>5. ASSUME intact
      PROVE  /\ sent # << >> /\ raw \o Tail(ls) = AllLines(sent)
             /\ GoesOn(inData, l) <=> Len(lines) + 1 < Len(f)
             /\ ~GoesOn(inData, l) => raw = f /\ Tail(ls) = AllLines(Tail(sent))
  <2>1. sent \in Seq(AnyReply)
    BY <1>2, SentType
  <2>2. /\ lines \o ls = AllLines(sent)
        /\ lines # << >> => sent # << >> /\ Len(lines) < Len(f)
    BY <1>5 DEF Collected
  <2>3. QED
    BY <1>2, <1>4, <2>1, <2>2, NextLine
<1> HIDE DEF raw, l
<1>6. CASE GoesOn(inData, l)
  <2>1. /\ pc' = "enter" /\ lines' = raw /\ inData' = InDataAfter(inData, l)
        /\ outcome' = outcome /\ reply' = reply /\ sent' = sent
    BY <1>6 DEF GetsLine, raw, l
  <2>2. InDataAfter(inData, l) \in BOOLEAN
    BY <1>2 DEF InDataAfter
  <2>3. inData' = ParseReply(lines').inData
    <3>1. ParseReply(lines) \in Accs
      BY <1>2, ParseReplyType
    <3>2. ParseReply(raw) = ParseLine(ParseReply(lines), l)
      BY <1>1, <1>2, ParseReplyAppend DEF raw
    <3>3. ParseLine(ParseReply(lines), l).inData
              = InDataAfter(ParseReply(lines).inData, l)
      BY <1>1, <3>1, InDataFollowsParse
    <3>4. QED
      BY <1>4, <2>1, <3>2, <3>3
  <2>4. Collected'
    BY <1>3, <1>5, <1>6, <2>1, <2>3 DEF Collected
  <2>5. ChannelStep
    BY <2>1 DEF ChannelStep
  <2>6. intact' => lines' \o Tail(ls) = AllLines(sent')
    BY <1>5, <2>1
  <2>7. CallTypeOK'
    BY <1>2, <1>3, <2>1, <2>2 DEF CallTypeOK, Labels, Outcomes
  <2>8. QED
    BY <2>4, <2>5, <2>6, <2>7
<1>7. CASE ~GoesOn(inData, l)
  <2>1. /\ pc' = "idle" /\ lines' = << >> /\ inData' = FALSE
        /\ outcome' \in {"reply", "invalid"}
        /\ reply' = (IF parsed.valid THEN parsed.reply ELSE reply)
        /\ sent' = (IF sent = << >> THEN sent ELSE Tail(sent))
    BY <1>7 DEF GetsLine, Ends, raw, l
  <2>2. sent' \in Seq(Replies)
    BY <1>2, <2>1
  <2>3. Collected'
    <3>1. ParseReply(lines').inData = FALSE
      BY <2>1, ParseReplyEmpty DEF Parsing
    <3>2. QED
      BY <2>1, <3>1 DEF Collected
  <2>7. CallTypeOK'
    <3>1. << >> \in Seq(Lines) /\ FALSE \in BOOLEAN
      OBVIOUS
    <3>2. outcome' \in Outcomes
      BY <2>1 DEF Outcomes
    <3>3. pc' \in Labels
      BY <2>1 DEF Labels
    <3>4. QED
      BY <1>2, <2>1, <2>2, <3>1, <3>2, <3>3 DEF CallTypeOK
  <2>4. CASE intact
    <3>1. sent # << >> /\ raw = f /\ Tail(ls) = AllLines(Tail(sent))
      BY <1>5, <1>7, <2>4
    <3>2. Head(sent) \in AnyReply
      BY <1>2, <3>1, SentType
    <3>3. parsed.valid /\ parsed.reply = Channel!Meaning(Head(sent))
      BY <3>1, <3>2, ReplyIsReadBack
    <3>4. sent' = Tail(sent) /\ reply' = Channel!Meaning(Head(sent))
      BY <2>1, <3>1, <3>3
    <3>5. Channel!Receive
      BY <3>1, <3>4 DEF Channel!Receive
    <3>6. << >> \o Tail(ls) = Tail(ls)
      BY <1>1, ConcatEmptySeq
    <3>7. lines' \o Tail(ls) = AllLines(sent')
      BY <2>1, <3>1, <3>4, <3>6
    <3>8. ChannelStep
      BY <3>5 DEF ChannelStep, Channel!Next
    <3>9. QED
      BY <2>3, <2>7, <3>7, <3>8
  <2>5. CASE ~intact
    <3>1. Channel!Muddle
      BY <2>5 DEF Channel!Muddle
    <3>2. ChannelStep
      BY <3>1 DEF ChannelStep, Channel!Next
    <3>3. QED
      BY <2>3, <2>5, <2>7, <3>2
  <2>6. QED
    BY <2>4, <2>5
<1>8. QED
  BY <1>6, <1>7

-----------------------------------------------------------------------------
(* readLine looks into the bytes b, which rest follows.                    *)
LEMMA LookKeeps ==
    ASSUME TypeOK, Collected, NEW b \in Seq(Bytes), NEW rest \in Seq(Bytes),
           NEW ls \in Seq(Lines), b \o rest = ToBytes(ls),
           intact => lines \o ls = AllLines(sent), pc # "idle",
           NoLine(b) \/ Extracts(b)
    PROVE  /\ buffer' \in Seq(Bytes) /\ CallTypeOK' /\ Collected' /\ ChannelStep
           /\ \E ms \in Seq(Lines) :
                  /\ buffer' \o rest = ToBytes(ms)
                  /\ intact' => lines' \o ms = AllLines(sent')
<1>1. CASE NoLine(b)
  <2>1. buffer' = b /\ pc' = "check" /\ UNCHANGED callVars
    BY <1>1 DEF NoLine
  <2>2. CallTypeOK'
    BY <2>1 DEF TypeOK, CallTypeOK, callVars, Labels
  <2>3. Collected'
    BY <2>1 DEF Collected, callVars
  <2>4. ChannelStep
    BY <2>1 DEF ChannelStep, callVars
  <2>5. /\ buffer' \o rest = ToBytes(ls)
        /\ intact' => lines' \o ls = AllLines(sent')
    BY <2>1 DEF callVars
  <2>6. QED
    BY <2>1, <2>2, <2>3, <2>4, <2>5
<1>2. CASE Extracts(b)
  <2>1. PICK e \in LineEnds(b) :
            /\ \A i \in LineEnds(b) : e <= i
            /\ buffer' = AfterLine(b, e)
            /\ \/ /\ GetsLine(LineBefore(b, e))
                  /\ UNCHANGED <<calls, intact>>
               \/ /\ pc' = "check"
                  /\ intact' = FALSE
                  /\ UNCHANGED <<lines, inData, outcome, reply, calls, sent>>
    BY <1>2 DEF Extracts
  <2>2. /\ ls # << >>
        /\ LineBefore(b, e) = Head(ls)
        /\ AfterLine(b, e) \in Seq(Bytes)
        /\ AfterLine(b, e) \o rest = ToBytes(Tail(ls))
    BY <2>1, FirstLine
  <2>3. Tail(ls) \in Seq(Lines)
    BY <2>2
  <2>4. CASE GetsLine(LineBefore(b, e)) /\ UNCHANGED <<calls, intact>>
    <3>1. GetsLine(Head(ls))
      BY <2>2, <2>4
    <3>2. /\ CallTypeOK' /\ Collected' /\ ChannelStep
          /\ intact' => lines' \o Tail(ls) = AllLines(sent')
      BY <2>2, <2>4, <3>1, LineKeeps
    <3>3. buffer' \o rest = ToBytes(Tail(ls))
      BY <2>1, <2>2
    <3>4. QED
      BY <2>1, <2>2, <2>3, <3>2, <3>3
  <2>5. CASE /\ pc' = "check" /\ intact' = FALSE
             /\ UNCHANGED <<lines, inData, outcome, reply, calls, sent>>
    <3>1. CallTypeOK'
      BY <2>5 DEF TypeOK, CallTypeOK, Labels
    <3>2. Collected'
      BY <2>5 DEF Collected
    <3>3. Channel!GiveUp
      BY <2>5 DEF Channel!GiveUp
    <3>4. ChannelStep
      BY <3>3 DEF ChannelStep, Channel!Next
    <3>5. /\ buffer' \o rest = ToBytes(Tail(ls))
          /\ intact' => lines' \o Tail(ls) = AllLines(sent')
      BY <2>1, <2>2, <2>5
    <3>6. QED
      BY <2>1, <2>2, <2>3, <3>1, <3>2, <3>4, <3>5
  <2>6. QED
    BY <2>1, <2>4, <2>5
<1>3. QED
  BY <1>1, <1>2

-----------------------------------------------------------------------------
IInv == TypeOK /\ Framed /\ Collected

(* The invariant holds before anything was sent.                           *)
LEMMA IInvInit == Init => IInv
<1> SUFFICES ASSUME Init PROVE IInv
  OBVIOUS
<1>1. TypeOK
  <2>1. /\ owed \in Nat /\ calls \in Nat
        /\ wire \in Seq(Bytes) /\ buffer \in Seq(Bytes)
        /\ lines \in Seq(Lines) /\ sent \in Seq(Replies)
    BY DEF Init
  <2>2. /\ closed \in BOOLEAN /\ rcvtimeo \in BOOLEAN /\ expired \in BOOLEAN
        /\ inData \in BOOLEAN /\ intact \in BOOLEAN
    BY DEF Init
  <2>3. pc = "idle" /\ lines = << >> /\ pc \in Labels /\ outcome \in Outcomes
    BY DEF Init, Labels, Outcomes
  <2>4. QED
    BY <2>1, <2>2, <2>3 DEF TypeOK
<1>2. Frames(<< >>, << >>)
  BY ToBytesEmpty, AllLinesEmpty DEF Init, Frames
<1>3. Framed
  BY <1>2 DEF Framed
<1>4. Collected
  <2>1. ParseReply(lines).inData = FALSE
    BY ParseReplyEmpty DEF Init, Parsing
  <2>2. QED
    BY <2>1 DEF Init, Collected
<1>5. QED
  BY <1>1, <1>3, <1>4 DEF IInv

(* A look into the buffer.                                                 *)
LEMMA ReadLineKeeps ==
    ASSUME IInv, ReadLine
    PROVE  IInv' /\ ChannelStep
<1>1. PICK ls, cut : Frames(ls, cut)
  BY DEF IInv, Framed
<1>2. /\ buffer \in Seq(Bytes) /\ wire \in Seq(Bytes) /\ cut \in Seq(Bytes)
      /\ wire \o cut \in Seq(Bytes)
  BY <1>1 DEF IInv, TypeOK, Frames
<1>3. /\ pc # "idle"
      /\ NoLine(buffer) \/ Extracts(buffer)
      /\ expired' = FALSE /\ UNCHANGED <<owed, wire, closed, rcvtimeo>>
  BY DEF ReadLine, peerVars
<1>4. /\ TypeOK /\ Collected /\ ls \in Seq(Lines)
      /\ buffer \o (wire \o cut) = ToBytes(ls)
      /\ intact => lines \o ls = AllLines(sent)
  BY <1>1 DEF IInv, Frames
<1>5. /\ buffer' \in Seq(Bytes) /\ CallTypeOK' /\ Collected' /\ ChannelStep
      /\ \E ms \in Seq(Lines) :
             /\ buffer' \o (wire \o cut) = ToBytes(ms)
             /\ intact' => lines' \o ms = AllLines(sent')
  BY <1>2, <1>3, <1>4, LookKeeps
<1>6. TypeOK'
  BY <1>3, <1>4, <1>5 DEF TypeOK, CallTypeOK
<1>7. PICK ms \in Seq(Lines) :
          /\ buffer' \o (wire \o cut) = ToBytes(ms)
          /\ intact' => lines' \o ms = AllLines(sent')
  BY <1>5
<1>8. Frames(ms, cut)'
  BY <1>1, <1>3, <1>7 DEF Frames
<1>9. QED
  BY <1>5, <1>6, <1>8 DEF IInv, Framed

(* recv has given any of the bytes that are there.                         *)
LEMMA RecvKeeps ==
    ASSUME IInv, Recv
    PROVE  IInv' /\ ChannelStep
<1>1. PICK ls, cut : Frames(ls, cut)
  BY DEF IInv, Framed
<1>2. PICK n \in 1 .. Len(wire) :
          /\ NoLine(buffer \o SubSeq(wire, 1, n))
               \/ Extracts(buffer \o SubSeq(wire, 1, n))
          /\ wire' = SubSeq(wire, n + 1, Len(wire))
  BY DEF Recv
<1>3. pc # "idle" /\ UNCHANGED <<owed, closed, rcvtimeo, expired>>
  BY DEF Recv
<1>4. /\ TypeOK /\ Collected /\ ls \in Seq(Lines) /\ cut \in Seq(Bytes)
      /\ buffer \o (wire \o cut) = ToBytes(ls)
      /\ intact => lines \o ls = AllLines(sent)
      /\ buffer \in Seq(Bytes) /\ wire \in Seq(Bytes)
  BY <1>1 DEF IInv, Frames, TypeOK
<1> DEFINE got == SubSeq(wire, 1, n)
           left == SubSeq(wire, n + 1, Len(wire))
           b == buffer \o got
           rest == left \o cut
<1>5. got \in Seq(Bytes) /\ left \in Seq(Bytes) /\ got \o left = wire
  BY <1>2, <1>4, CutAnywhere
<1>6. wire' = left /\ (NoLine(b) \/ Extracts(b))
  BY <1>2
<1> HIDE DEF got, left
<1>7. b \in Seq(Bytes) /\ rest \in Seq(Bytes)
  BY <1>4, <1>5
<1>8. b \o rest = ToBytes(ls)
  <2>1. /\ buffer \in Seq(Bytes) /\ got \in Seq(Bytes)
        /\ left \in Seq(Bytes) /\ cut \in Seq(Bytes)
    BY <1>4, <1>5
  <2>2. (got \o left) \o cut = got \o (left \o cut)
    BY <2>1, BytesAssociative
  <2> HIDE DEF rest
  <2>3. buffer \o (got \o rest) = (buffer \o got) \o rest
    BY <1>7, <2>1, BytesAssociative
  <2>4. QED
    BY <1>4, <1>5, <2>2, <2>3 DEF rest
<1> HIDE DEF b, rest
<1>9. /\ buffer' \in Seq(Bytes) /\ CallTypeOK' /\ Collected' /\ ChannelStep
      /\ \E ms \in Seq(Lines) :
             /\ buffer' \o rest = ToBytes(ms)
             /\ intact' => lines' \o ms = AllLines(sent')
  BY <1>3, <1>4, <1>6, <1>7, <1>8, LookKeeps
<1>10. TypeOK'
  BY <1>3, <1>4, <1>5, <1>6, <1>9 DEF TypeOK, CallTypeOK
<1>11. PICK ms \in Seq(Lines) :
           /\ buffer' \o rest = ToBytes(ms)
           /\ intact' => lines' \o ms = AllLines(sent')
  BY <1>9
<1>12. rest = wire' \o cut
  BY <1>6 DEF rest
<1>13. Frames(ms, cut)'
  BY <1>1, <1>3, <1>4, <1>11, <1>12 DEF Frames
<1>14. QED
  BY <1>9, <1>10, <1>13 DEF IInv, Framed

(* Tor answers: the connection is open, so nothing has been cut off.       *)
LEMMA AnswerKeeps ==
    ASSUME IInv, NEW r \in Replies, TorAnswers(r)
    PROVE  IInv' /\ ChannelStep
<1>1. PICK ls, cut : Frames(ls, cut)
  BY DEF IInv, Framed
<1> DEFINE f == Format(r)
           bytes == ToBytes(f)
<1>2. /\ owed > 0 /\ ~closed /\ owed' = owed - 1
      /\ wire' = wire \o bytes /\ sent' = Append(sent, r)
      /\ UNCHANGED <<closed, buffer, rcvtimeo, pc, expired, lines, inData,
                     outcome, reply, calls, intact>>
  BY DEF TorAnswers
<1>3. /\ TypeOK /\ Collected /\ ls \in Seq(Lines) /\ cut = << >>
      /\ buffer \o (wire \o cut) = ToBytes(ls)
      /\ intact => lines \o ls = AllLines(sent)
      /\ buffer \in Seq(Bytes) /\ wire \in Seq(Bytes)
      /\ lines \in Seq(Lines) /\ sent \in Seq(Replies)
  BY <1>1, <1>2 DEF IInv, Frames, TypeOK
<1>4. /\ r \in AnyReply /\ f \in Seq(Lines) /\ sent \in Seq(AnyReply)
  <2>1. r \in AnyReply
    BY RepliesKnown
  <2>2. f \in Seq(Lines)
    BY <2>1, ReplyIsReadBack
  <2>3. sent \in Seq(AnyReply)
    BY <1>3, SentType
  <2>4. QED
    BY <2>1, <2>2, <2>3
<1> HIDE DEF f
<1>5. bytes \in Seq(Bytes)
  BY <1>4, ToBytesType
<1>6. ToBytes(ls \o f) = ToBytes(ls) \o bytes
  BY <1>3, <1>4, ToBytesConcat
<1> HIDE DEF bytes
<1>7. buffer \o (wire' \o << >>) = ToBytes(ls \o f)
  <2>1. wire \o << >> = wire /\ wire' \in Seq(Bytes) /\ wire' \o << >> = wire'
    BY <1>2, <1>3, <1>5, ConcatEmptySeq
  <2>2. buffer \o (wire \o bytes) = (buffer \o wire) \o bytes
    BY <1>3, <1>5, ConcatAssociative
  <2>3. QED
    BY <1>2, <1>3, <1>6, <2>1, <2>2
<1>8. intact => lines \o (ls \o f) = AllLines(Append(sent, r))
  <2>1. AllLines(Append(sent, r)) = AllLines(sent) \o f
    BY <1>4, AllLinesAppend DEF f
  <2>2. lines \o (ls \o f) = (lines \o ls) \o f
    BY <1>3, <1>4, ConcatAssociative
  <2>3. QED
    BY <1>3, <2>1, <2>2
<1>9. Frames(ls \o f, << >>)'
  <2>1. ls \o f \in Seq(Lines) /\ << >> \in Seq(Bytes)
    BY <1>3, <1>4
  <2>2. /\ buffer' = buffer /\ lines' = lines /\ intact' = intact
        /\ sent' = Append(sent, r)
    BY <1>2
  <2>3. QED
    BY <1>7, <1>8, <2>1, <2>2 DEF Frames
<1>10. TypeOK'
  <2>1. /\ wire' \in Seq(Bytes) /\ sent' \in Seq(Replies) /\ owed' \in Nat
    BY <1>2, <1>3, <1>5 DEF TypeOK
  <2>2. QED
    BY <1>2, <1>3, <2>1 DEF TypeOK
<1>11. Collected'
  <2>1. sent # << >> => sent' # << >> /\ Head(sent') = Head(sent)
    <3>1. \A q \in Seq(Replies) : q # << >> =>
              Append(q, r) # << >> /\ Head(Append(q, r)) = Head(q)
      OBVIOUS
    <3>2. QED
      BY <1>2, <1>3, <3>1
  <2>2. QED
    BY <1>2, <1>3, <2>1 DEF Collected
<1>12. ChannelStep
  <2>1. Channel!Send
    BY <1>2 DEF Channel!Send
  <2>2. QED
    BY <2>1 DEF ChannelStep, Channel!Next
<1>13. QED
  BY <1>9, <1>10, <1>11, <1>12 DEF IInv, Framed

(* Tor ends the connection: what it had not flushed is cut off.            *)
LEMMA CloseKeeps ==
    ASSUME IInv, TorCloses
    PROVE  IInv' /\ ChannelStep
<1>1. PICK ls, cut : Frames(ls, cut)
  BY DEF IInv, Framed
<1>2. PICK n \in 0 .. Len(wire) : wire' = SubSeq(wire, 1, n)
  BY DEF TorCloses
<1>3. closed' = TRUE /\ UNCHANGED <<owed, buffer, rcvtimeo, pc, expired, callVars>>
  BY DEF TorCloses
<1>4. /\ TypeOK /\ Collected /\ ls \in Seq(Lines) /\ cut \in Seq(Bytes)
      /\ buffer \o (wire \o cut) = ToBytes(ls)
      /\ intact => lines \o ls = AllLines(sent)
      /\ wire \in Seq(Bytes)
  BY <1>1 DEF IInv, Frames, TypeOK
<1> DEFINE kept == SubSeq(wire, 1, n)
           lost == SubSeq(wire, n + 1, Len(wire))
<1>5. kept \in Seq(Bytes) /\ lost \in Seq(Bytes) /\ kept \o lost = wire
  BY <1>2, <1>4, CutAnywhere
<1>6. wire' = kept
  BY <1>2
<1> HIDE DEF kept, lost
<1>7. PICK c \in Seq(Bytes) : kept \o c = wire \o cut
  <2>1. lost \o cut \in Seq(Bytes)
    BY <1>4, <1>5
  <2>2. (kept \o lost) \o cut = kept \o (lost \o cut)
    BY <1>4, <1>5, BytesAssociative
  <2>3. QED
    BY <1>5, <2>1, <2>2
<1>8. Frames(ls, c)'
  <2>1. buffer' \o (wire' \o c) = ToBytes(ls)
    BY <1>3, <1>4, <1>6, <1>7
  <2>2. intact' => lines' \o ls = AllLines(sent')
    BY <1>3, <1>4 DEF callVars
  <2>3. QED
    BY <1>3, <1>4, <1>7, <2>1, <2>2 DEF Frames
<1>9. TypeOK'
  BY <1>3, <1>4, <1>5, <1>6 DEF TypeOK, callVars
<1>10. Collected' /\ ChannelStep
  BY <1>3, <1>4 DEF Collected, ChannelStep, callVars
<1>11. QED
  BY <1>8, <1>9, <1>10 DEF IInv, Framed

(* The call fails, and its lines with it.                                  *)
LEMMA FailKeeps ==
    ASSUME IInv, NEW result \in Outcomes, Ends(result), intact' = FALSE,
           UNCHANGED <<peerVars, buffer, rcvtimeo, expired, reply, calls, sent>>
    PROVE  IInv' /\ ChannelStep
<1>1. PICK ls, cut : Frames(ls, cut)
  BY DEF IInv, Framed
<1>2. /\ pc' = "idle" /\ outcome' = result /\ lines' = << >> /\ inData' = FALSE
      /\ intact' = FALSE /\ UNCHANGED <<owed, wire, closed>>
      /\ UNCHANGED <<buffer, rcvtimeo, expired, reply, calls, sent>>
  BY DEF Ends, peerVars
<1>3. TypeOK'
  <2>1. << >> \in Seq(Lines) /\ pc' \in Labels
    BY <1>2 DEF Labels
  <2>2. QED
    BY <1>2, <2>1 DEF IInv, TypeOK
<1>4. Frames(ls, cut)'
  BY <1>1, <1>2 DEF Frames
<1>5. Collected'
  <2>1. ParseReply(lines').inData = FALSE
    BY <1>2, ParseReplyEmpty DEF Parsing
  <2>2. QED
    BY <1>2, <2>1 DEF Collected
<1>6. ChannelStep
  <2>1. Channel!GiveUp
    BY <1>2 DEF Channel!GiveUp
  <2>2. QED
    BY <2>1 DEF ChannelStep, Channel!Next
<1>7. QED
  BY <1>3, <1>4, <1>5, <1>6 DEF IInv, Framed

(* A step that leaves the bytes and what was read of them alone.           *)
LEMMA OtherKeeps ==
    ASSUME IInv, TypeOK',
           UNCHANGED <<wire, closed, buffer, lines, inData, sent, reply, intact>>
    PROVE  IInv' /\ ChannelStep
<1>1. PICK ls, cut : Frames(ls, cut)
  BY DEF IInv, Framed
<1>2. Frames(ls, cut)'
  BY <1>1 DEF Frames
<1>3. Collected' /\ ChannelStep
  BY DEF IInv, Collected, ChannelStep
<1>4. QED
  BY <1>2, <1>3 DEF IInv, Framed

(* Every step keeps the invariant, and is a step of the channel or leaves  *)
(* it alone.                                                               *)
LEMMA NextKeeps ==
    ASSUME IInv, [Next]_vars
    PROVE  IInv' /\ ChannelStep
<1>1. CASE SendCommand
  <2>1. TypeOK'
    BY <1>1 DEF SendCommand, IInv, TypeOK, Labels, Outcomes
  <2>2. QED
    BY <1>1, <2>1, OtherKeeps DEF SendCommand
<1>2. CASE ReadLine
  BY <1>2, ReadLineKeeps
<1>3. CASE CheckDeadline
  <2>1. CASE Ends("timeout") /\ intact' = FALSE
    <3>1. "timeout" \in Outcomes
      BY DEF Outcomes
    <3>2. QED
      BY <1>3, <2>1, <3>1, FailKeeps DEF CheckDeadline
  <2>2. CASE pc' = "arm" /\ UNCHANGED <<lines, inData, outcome, intact>>
    <3>1. /\ pc = "check" /\ UNCHANGED <<owed, wire, closed>>
          /\ UNCHANGED <<buffer, rcvtimeo, expired, reply, calls, sent>>
      BY <1>3 DEF CheckDeadline, peerVars
    <3>2. TypeOK'
      BY <2>2, <3>1 DEF IInv, TypeOK, Labels
    <3>3. QED
      BY <2>2, <3>1, <3>2, OtherKeeps
  <2>3. QED
    BY <1>3, <2>1, <2>2 DEF CheckDeadline
<1>4. CASE SetSocketTimeout
  <2>1. /\ pc = "arm" /\ pc' = "recv" /\ rcvtimeo' \in BOOLEAN
        /\ UNCHANGED <<owed, wire, closed, buffer, expired, callVars>>
    BY <1>4 DEF SetSocketTimeout, peerVars, IInv, TypeOK
  <2>2. TypeOK'
    BY <2>1 DEF IInv, TypeOK, Labels, callVars
  <2>3. QED
    BY <2>1, <2>2, OtherKeeps DEF callVars
<1>5. CASE Recv
  BY <1>5, RecvKeeps
<1>6. CASE RecvTimesOut \/ RecvInterrupted
  <2>1. TypeOK'
    BY <1>6 DEF RecvTimesOut, RecvInterrupted, IInv, TypeOK, Labels, peerVars,
       callVars
  <2>2. QED
    BY <1>6, <2>1, OtherKeeps DEF RecvTimesOut, RecvInterrupted, peerVars, callVars
<1>7. CASE RecvFails
  <2>1. "io" \in Outcomes
    BY DEF Outcomes
  <2>2. QED
    BY <1>7, <2>1, FailKeeps DEF RecvFails
<1>8. CASE TimePasses
  <2>1. TypeOK'
    BY <1>8 DEF TimePasses, IInv, TypeOK, peerVars, callVars
  <2>2. QED
    BY <1>8, <2>1, OtherKeeps DEF TimePasses, peerVars, callVars
<1>9. CASE \E r \in Replies : TorAnswers(r)
  BY <1>9, AnswerKeeps
<1>10. CASE TorCloses
  BY <1>10, CloseKeeps
<1>11. CASE UNCHANGED vars
  <2>1. TypeOK'
    BY <1>11 DEF vars, IInv, TypeOK, peerVars, callVars
  <2>2. QED
    BY <1>11, <2>1, OtherKeeps DEF vars, peerVars, callVars
<1>12. QED
  BY <1>1, <1>2, <1>3, <1>4, <1>5, <1>6, <1>7, <1>8, <1>9, <1>10, <1>11
     DEF Next, Reader

(* The invariant holds always.                                             *)
LEMMA FramingInvariant == Spec => []IInv
BY IInvInit, NextKeeps, PTL DEF Spec

(* Whatever the replies, a call has no outcome until it is over and        *)
(* between calls readReply has collected nothing.                          *)
THEOREM FramingTypeCorrect == Spec => []TypeOK
<1>1. IInv => TypeOK
  BY DEF IInv
<1>2. QED
  BY <1>1, FramingInvariant, PTL

(* Nothing is lost at the seams between recv, extractLine and readReply,   *)
(* however recv cuts the replies, as long as none is given up.             *)
THEOREM NothingIsLost == Spec => []NothingLost
<1>1. ASSUME IInv, intact
      PROVE  IF closed THEN IsPrefix(ToBytes(lines) \o buffer \o wire, Undelivered)
             ELSE ToBytes(lines) \o buffer \o wire = Undelivered
  <2>1. PICK ls, cut : Frames(ls, cut)
    BY <1>1 DEF IInv, Framed
  <2>2. /\ ls \in Seq(Lines) /\ cut \in Seq(Bytes) /\ lines \in Seq(Lines)
        /\ buffer \in Seq(Bytes) /\ wire \in Seq(Bytes)
        /\ buffer \o (wire \o cut) = ToBytes(ls)
        /\ closed \/ cut = << >>
        /\ lines \o ls = AllLines(sent)
    BY <1>1, <2>1 DEF IInv, TypeOK, Frames
  <2> DEFINE got == ToBytes(lines)
             found == got \o buffer \o wire
  <2>3. got \in Seq(Bytes)
    BY <2>2, ToBytesType
  <2>4. Undelivered = got \o ToBytes(ls)
    <3>1. Undelivered = ToBytes(AllLines(sent))
      BY DEF Undelivered, AllLines
    <3>2. QED
      BY <2>2, <3>1, ToBytesConcat
  <2> HIDE DEF got
  <2>5. found \in Seq(Bytes) /\ got \o buffer \in Seq(Bytes)
    BY <2>2, <2>3
  <2>6. Undelivered = found \o cut
    <3> DEFINE front == got \o buffer
               tail == wire \o cut
    <3>1. front \in Seq(Bytes) /\ tail \in Seq(Bytes)
      BY <2>2, <2>3
    <3> HIDE DEF tail
    <3>2. front \o tail = got \o (buffer \o tail)
      BY <2>2, <2>3, <3>1, BytesAssociative
    <3> USE DEF tail
    <3> HIDE DEF front
    <3>3. (front \o wire) \o cut = front \o tail
      BY <2>2, <3>1, BytesAssociative
    <3>4. QED
      BY <2>2, <2>4, <3>2, <3>3 DEF front
  <2> HIDE DEF found
  <2>7. CASE closed
    <3>1. IsPrefix(found, found \o cut)
      BY <2>2, <2>5, PrefixOfConcat
    <3>2. QED
      BY <2>6, <2>7, <3>1 DEF found, got
  <2>8. CASE ~closed
    <3>1. found \o cut = found
      BY <2>2, <2>5, <2>8, ConcatEmptySeq
    <3>2. QED
      BY <2>6, <2>8, <3>1 DEF found, got
  <2>9. QED
    BY <2>7, <2>8
<1>2. IInv => NothingLost
  BY <1>1 DEF NothingLost
<1>3. QED
  BY <1>2, FramingInvariant, PTL

(* readReply and parseReply implement the channel of replies: each is      *)
(* received once, in order, with the meaning Tor gave it.                  *)
THEOREM FramingImplementsChannel ==
    Spec => Channel!Init /\ [][Channel!Next]_(Channel!vars)
<1>1. Init => Channel!Init
  BY DEF Init, Channel!Init
<1>2. ASSUME IInv, [Next]_vars
      PROVE  [Channel!Next]_(Channel!vars)
  <2>1. ChannelStep
    BY <1>2, NextKeeps
  <2>2. QED
    BY <2>1 DEF ChannelStep, Channel!vars
<1>3. QED
  BY <1>1, <1>2, FramingInvariant, PTL DEF Spec

-----------------------------------------------------------------------------
(* What readLine does with the bytes it has: it waits only if they hold no *)
(* whole line, or after a line that could not be decoded.                  *)
LEMMA ExtractSettles ==
    ASSUME NEW b, NoLine(b) \/ Extracts(b)
    PROVE  WaitsForMore'
<1>1. CASE NoLine(b)
  BY <1>1 DEF NoLine, WaitsForMore
<1>2. CASE Extracts(b)
  <2>1. \/ pc' \in {"enter", "idle"}
        \/ intact' = FALSE
    BY <1>2 DEF Extracts, GetsLine, Ends
  <2>2. QED
    BY <2>1 DEF WaitsForMore
<1>3. QED
  BY <1>1, <1>2

(* readLine never waits for bytes with the answer in its hands: whatever   *)
(* the replies, and however recv cuts them, the buffer holds no whole line *)
(* while it waits.                                                         *)
THEOREM NeverWaitsNeedlessly == Spec => []WaitsForMore
<1>1. Init => WaitsForMore
  BY DEF Init, WaitsForMore
<1>2. ASSUME WaitsForMore, [Next]_vars
      PROVE  WaitsForMore'
  <2>1. CASE SendCommand
    BY <2>1 DEF SendCommand, WaitsForMore
  <2>2. CASE ReadLine \/ Recv
    BY <2>2, ExtractSettles DEF ReadLine, Recv
  <2>3. CASE CheckDeadline
    BY <1>2, <2>3 DEF CheckDeadline, Ends, WaitsForMore, HasLine, LineEnds
  <2>4. CASE RecvFails
    BY <2>4 DEF RecvFails, Ends, WaitsForMore
  <2>5. CASE SetSocketTimeout \/ RecvTimesOut \/ RecvInterrupted
    BY <1>2, <2>5 DEF SetSocketTimeout, RecvTimesOut, RecvInterrupted, callVars,
       WaitsForMore,
       HasLine, LineEnds
  <2>6. CASE TimePasses \/ TorCloses \/ UNCHANGED vars
    BY <1>2, <2>6 DEF TimePasses, TorCloses, vars, callVars, WaitsForMore,
       HasLine, LineEnds
  <2>7. CASE \E r \in Replies : TorAnswers(r)
    BY <1>2, <2>7 DEF TorAnswers, WaitsForMore, HasLine, LineEnds
  <2>8. QED
    BY <1>2, <2>1, <2>2, <2>3, <2>4, <2>5, <2>6, <2>7 DEF Next, Reader
<1>3. QED
  BY <1>1, <1>2, PTL DEF Spec
=============================================================================
