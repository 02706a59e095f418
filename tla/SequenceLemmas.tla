---------------------------- MODULE SequenceLemmas ----------------------------
(***************************************************************************)
(* Facts that the library does not state, or states with an operator as a  *)
(* parameter: induction over the naturals in terms of sets, that a         *)
(* recursion over an interval defines a function, and, by these, what      *)
(* FlattenSeq gives for every sequence.                                    *)
(***************************************************************************)
EXTENDS Naturals, Sequences, SequenceTheorems, WellFoundedInduction, TLAPS

(* A set that holds 0 and with a number the next one holds all of them.    *)
LEMMA NatSetInduction ==
    ASSUME NEW T, T \subseteq Nat, 0 \in T, \A n \in T : n + 1 \in T
    PROVE  T = Nat
<1> DEFINE less == {p \in Nat \X Nat : p[1] < p[2]}
           rest == Nat \ T
<1>1. SUFFICES ASSUME rest # {} PROVE FALSE
  OBVIOUS
<1>2. PICK x \in rest : \A y \in rest : ~ (<<y, x>> \in less)
  <2>1. IsWellFoundedOn(less, Nat)
    BY NatLessThanWellFounded DEF OpToRel
  <2>2. rest \subseteq Nat
    OBVIOUS
  <2> HIDE DEF rest, less
  <2>3. QED
    BY <1>1, <2>1, <2>2, WFMin
<1>3. x # 0 /\ x \in Nat
  OBVIOUS
<1>4. x - 1 \in Nat /\ x - 1 < x /\ (x - 1) + 1 = x
  BY <1>3
<1>5. x - 1 \in T
  BY <1>2, <1>4
<1> QED
  BY <1>4, <1>5

(* A function begins with v and goes on with a given step, up to n.        *)
Follows(f, v, n, step) ==
    f[0] = v /\ \A i \in 1 .. n : f[i] = step[<<i, f[i - 1]>>]

(* There is such a function.                                               *)
LEMMA RecursionExists ==
    ASSUME NEW V, NEW v \in V, NEW n \in Nat, NEW step \in [(1 .. n) \X V -> V]
    PROVE  \E f \in [0 .. n -> V] : Follows(f, v, n, step)
<1> USE DEF Follows
<1> DEFINE T == {m \in Nat : m <= n =>
                               \E f \in [0 .. m -> V] : Follows(f, v, m, step)}
<1>1. 0 \in T
  <2>1. [i \in 0 .. 0 |-> v] \in [0 .. 0 -> V]
    OBVIOUS
  <2>2. Follows([i \in 0 .. 0 |-> v], v, 0, step)
    OBVIOUS
  <2>3. QED
    BY <2>1, <2>2
<1>2. ASSUME NEW m \in T PROVE m + 1 \in T
  <2>1. SUFFICES ASSUME m + 1 <= n
                 PROVE  \E f \in [0 .. m + 1 -> V] : Follows(f, v, m + 1, step)
    OBVIOUS
  <2>2. m \in Nat /\ m <= n
    BY <2>1
  <2>3. PICK f \in [0 .. m -> V] : Follows(f, v, m, step)
    BY <2>2
  <2> DEFINE next == step[<<m + 1, f[m]>>]
             g == [i \in 0 .. m + 1 |-> IF i = m + 1 THEN next ELSE f[i]]
  <2>4. f[m] \in V /\ m + 1 \in 1 .. n
    BY <2>1, <2>2
  <2>5. next \in V
    BY <2>4
  <2>6. g \in [0 .. m + 1 -> V]
    BY <2>2, <2>5
  <2>7. Follows(g, v, m + 1, step)
    <3>1. g[0] = v
      BY <2>2, <2>3
    <3>2. ASSUME NEW i \in 1 .. m + 1 PROVE g[i] = step[<<i, g[i - 1]>>]
      <4>1. CASE i = m + 1
        BY <2>2, <4>1
      <4>2. CASE i # m + 1
        <5>1. i \in 1 .. m /\ i - 1 \in 0 .. m + 1 /\ i - 1 # m + 1
          BY <2>2, <4>2
        <5>2. g[i] = f[i] /\ g[i - 1] = f[i - 1]
          BY <4>2, <5>1
        <5>3. QED
          BY <2>3, <5>1, <5>2
      <4>3. QED
        BY <4>1, <4>2
    <3>3. QED
      BY <3>1, <3>2
  <2>8. QED
    BY <2>6, <2>7
<1>3. T = Nat
  <2>1. T \subseteq Nat
    OBVIOUS
  <2> HIDE DEF T
  <2>2. QED
    BY <1>1, <1>2, <2>1, NatSetInduction
<1>4. n \in T
  BY <1>3
<1> QED
  BY <1>4

(* A nonempty set of positions has a last one.                             *)
LEMMA LastExists ==
    ASSUME NEW n \in Nat, NEW at \in SUBSET (1 .. n), at # {}
    PROVE  \E i \in at : \A j \in at : j <= i
<1> DEFINE less == {p \in Nat \X Nat : p[1] < p[2]}
           after == {x \in Nat : n - x \in at}
<1>1. after \subseteq Nat
  OBVIOUS
<1>2. after # {}
  <2>1. PICK i \in at : TRUE
    OBVIOUS
  <2>2. n - i \in Nat /\ n - (n - i) = i
    OBVIOUS
  <2>3. n - i \in after
    BY <2>2
  <2>4. QED
    BY <2>3
<1>3. PICK x \in after : \A y \in after : ~ (<<y, x>> \in less)
  <2>1. IsWellFoundedOn(less, Nat)
    BY NatLessThanWellFounded DEF OpToRel
  <2> HIDE DEF after, less
  <2>2. QED
    BY <1>1, <1>2, <2>1, WFMin
<1>4. ASSUME NEW j \in at PROVE j <= n - x
  <2>1. n - j \in Nat /\ n - (n - j) = j
    OBVIOUS
  <2>2. n - j \in after
    BY <2>1
  <2>3. ~ (n - j < x)
    BY <1>3, <2>2
  <2>4. x \in Nat
    OBVIOUS
  <2> QED
    BY <2>1, <2>3, <2>4
<1>5. n - x \in at
  OBVIOUS
<1> QED
  BY <1>4, <1>5

-----------------------------------------------------------------------------
LOCAL INSTANCE SequencesExt

(***************************************************************************)
(* FlattenSeq, of which the library states no facts: it is the end of a    *)
(* recursion over the sequence.                                            *)
(***************************************************************************)
Flattens(ss, f) ==
    /\ f[0] = << >>
    /\ \A i \in 1 .. Len(ss) : f[i] = f[i - 1] \o ss[i]

(* FlattenSeq is the end of such a recursion.                              *)
LEMMA FlattenRecursion ==
    ASSUME NEW S, NEW ss \in Seq(Seq(S))
    PROVE  \E f \in [0 .. Len(ss) -> Seq(S)] :
               Flattens(ss, f) /\ FlattenSeq(ss) = f[Len(ss)]
<1> DEFINE n == Len(ss)
           step == [p \in (1 .. n) \X Seq(S) |-> p[2] \o ss[p[1]]]
<1>1. n \in Nat /\ << >> \in Seq(S)
  OBVIOUS
<1>2. step \in [(1 .. n) \X Seq(S) -> Seq(S)]
  <2>1. ASSUME NEW p \in (1 .. n) \X Seq(S) PROVE p[2] \o ss[p[1]] \in Seq(S)
    <3>1. p[2] \in Seq(S) /\ ss[p[1]] \in Seq(S)
      OBVIOUS
    <3>2. QED
      BY <3>1, ConcatProperties
  <2>2. QED
    BY <2>1
<1>3. PICK f \in [0 .. n -> Seq(S)] : Follows(f, << >>, n, step)
  <2> HIDE DEF step, n
  <2>1. QED
    BY <1>1, <1>2, RecursionExists
<1>4. \A i \in 1 .. n : f[i - 1] \in Seq(S) /\ f[i] = f[i - 1] \o ss[i]
  <2>1. ASSUME NEW i \in 1 .. n
        PROVE  f[i - 1] \in Seq(S) /\ f[i] = f[i - 1] \o ss[i]
    <3>1. i - 1 \in 0 .. n
      OBVIOUS
    <3>2. <<i, f[i - 1]>> \in (1 .. n) \X Seq(S)
      BY <3>1
    <3>3. QED
      BY <1>3, <3>1, <3>2 DEF Follows
  <2>2. QED
    BY <2>1
<1>5. CASE n = 0
  BY <1>3, <1>4, <1>5 DEF FlattenSeq, Flattens, Follows
<1>6. CASE n > 0
  <2> DEFINE Is(h) == h = [i \in 1 .. n |->
                              IF i = 1 THEN ss[i] ELSE h[i - 1] \o ss[i]]
             g == [i \in 1 .. n |-> f[i]]
             h == CHOOSE h : Is(h)
  <2>1. Is(g)
    <3>1. ASSUME NEW i \in 1 .. n
          PROVE  g[i] = IF i = 1 THEN ss[i] ELSE g[i - 1] \o ss[i]
      <4>1. CASE i = 1
        <5>1. i - 1 = 0 /\ ss[i] \in Seq(S)
          BY <4>1
        <5>2. f[i] = f[i - 1] \o ss[i]
          BY <1>4
        <5>3. f[i] = << >> \o ss[i]
          BY <1>3, <5>1, <5>2 DEF Follows
        <5>4. f[i] = ss[i]
          BY <5>1, <5>3, ConcatEmptySeq
        <5>5. QED
          BY <4>1, <5>4
      <4>2. CASE i # 1
        <5>1. i - 1 \in 1 .. n
          BY <4>2
        <5>2. g[i - 1] = f[i - 1] /\ g[i] = f[i]
          BY <5>1
        <5>3. QED
          BY <1>4, <4>2, <5>2
      <4>3. QED
        BY <4>1, <4>2
    <3>2. QED
      BY <3>1
  <2>2. Is(h)
    BY <2>1
  <2>3. h = g
    <3> DEFINE T == {i \in Nat : i + 1 \in 1 .. n => h[i + 1] = g[i + 1]}
    <3>1. 0 \in T
      <4>1. ASSUME 1 \in 1 .. n PROVE h[1] = g[1]
        <5> HIDE DEF h, g
        <5>1. QED
          BY <2>1, <2>2, <4>1
      <4>2. 0 + 1 = 1
        OBVIOUS
      <4> HIDE DEF h, g
      <4>3. QED
        BY <4>1, <4>2
    <3>2. ASSUME NEW i \in T PROVE i + 1 \in T
      <4>1. SUFFICES ASSUME (i + 1) + 1 \in 1 .. n
                     PROVE  h[(i + 1) + 1] = g[(i + 1) + 1]
        OBVIOUS
      <4> DEFINE j == (i + 1) + 1
      <4>2. i \in Nat /\ j \in 1 .. n /\ j # 1 /\ j - 1 = i + 1
            /\ i + 1 \in 1 .. n
        BY <4>1
      <4>3. h[i + 1] = g[i + 1]
        BY <4>2
      <4>4. h[j] = h[j - 1] \o ss[j] /\ g[j] = g[j - 1] \o ss[j]
        <5> HIDE DEF h, g, j
        <5>1. QED
          BY <2>1, <2>2, <4>2
      <4>5. QED
        BY <4>2, <4>3, <4>4
    <3>3. T = Nat
      <4>1. T \subseteq Nat
        OBVIOUS
      <4> HIDE DEF T
      <4>2. QED
        BY <3>1, <3>2, <4>1, NatSetInduction
    <3>4. \A i \in 1 .. n : h[i] = g[i]
      <4>1. ASSUME NEW i \in 1 .. n PROVE h[i] = g[i]
        <5>1. i - 1 \in Nat /\ (i - 1) + 1 = i
          OBVIOUS
        <5>2. i - 1 \in T
          BY <3>3, <5>1
        <5> HIDE DEF h, g
        <5>3. QED
          BY <5>1, <5>2
      <4>2. QED
        BY <4>1
    <3>5. DOMAIN h = 1 .. n /\ DOMAIN g = 1 .. n
      BY <2>2
    <3>6. h = [i \in 1 .. n |-> h[i]] /\ g = [i \in 1 .. n |-> g[i]]
      BY <2>2
    <3> HIDE DEF h, g
    <3>7. QED
      BY <3>4, <3>6
  <2>4. FlattenSeq(ss) = h[n]
    BY <1>1, <1>6 DEF FlattenSeq
  <2>5. FlattenSeq(ss) = f[n]
    <3>1. n \in 1 .. n
      BY <1>1, <1>6
    <3>2. g[n] = f[n]
      BY <3>1
    <3> HIDE DEF g, h, n
    <3>3. QED
      BY <2>3, <2>4, <3>2
  <2>6. QED
    BY <1>3, <1>4, <2>5 DEF Flattens, Follows
<1> QED
  BY <1>1, <1>5, <1>6

Agree(ss, tt, m) == \A i \in 1 .. m : ss[i] = tt[i]

(* It depends on the sequence only as far as it has come.                  *)
LEMMA FlattensAgree ==
    ASSUME NEW ss, NEW tt, NEW f, NEW g, NEW m \in Nat,
           Len(ss) \in Nat, Len(tt) \in Nat, m <= Len(ss), m <= Len(tt),
           Agree(ss, tt, m), Flattens(ss, f), Flattens(tt, g)
    PROVE  f[m] = g[m]
<1> DEFINE T == {i \in Nat : i <= m => f[i] = g[i]}
<1>1. 0 \in T
  BY DEF Flattens
<1>2. ASSUME NEW i \in T PROVE i + 1 \in T
  <2>1. SUFFICES ASSUME i + 1 <= m PROVE f[i + 1] = g[i + 1]
    OBVIOUS
  <2>2. /\ i \in Nat /\ (i + 1) - 1 = i
        /\ i + 1 \in 1 .. m /\ i + 1 \in 1 .. Len(ss) /\ i + 1 \in 1 .. Len(tt)
    BY <2>1
  <2>3. f[i] = g[i]
    BY <2>1, <2>2
  <2>4. f[i + 1] = f[i] \o ss[i + 1] /\ g[i + 1] = g[i] \o tt[i + 1]
    BY <2>2 DEF Flattens
  <2>5. QED
    BY <2>2, <2>3, <2>4 DEF Agree
<1>3. T = Nat
  <2>1. T \subseteq Nat
    OBVIOUS
  <2> HIDE DEF T
  <2>2. QED
    BY <1>1, <1>2, <2>1, NatSetInduction
<1> QED
  BY <1>3

(* Nothing from nothing.                                                   *)
LEMMA FlattenEmpty == FlattenSeq(<< >>) = << >>
BY DEF FlattenSeq

(* The elements come from the sequences.                                   *)
LEMMA FlattenType ==
    ASSUME NEW S, NEW ss \in Seq(Seq(S))
    PROVE  FlattenSeq(ss) \in Seq(S)
<1>1. PICK f \in [0 .. Len(ss) -> Seq(S)] :
          Flattens(ss, f) /\ FlattenSeq(ss) = f[Len(ss)]
  BY FlattenRecursion
<1>2. Len(ss) \in 0 .. Len(ss)
  OBVIOUS
<1>3. QED
  BY <1>1, <1>2

(* Another sequence comes last.                                            *)
LEMMA FlattenAppend ==
    ASSUME NEW S, NEW ss \in Seq(Seq(S)), NEW s \in Seq(S)
    PROVE  FlattenSeq(Append(ss, s)) = FlattenSeq(ss) \o s
<1> DEFINE m == Len(ss)
           tt == Append(ss, s)
<1>1. /\ tt \in Seq(Seq(S)) /\ Len(tt) = m + 1 /\ tt[m + 1] = s
      /\ Agree(ss, tt, m)
      /\ m \in Nat /\ (m + 1) - 1 = m /\ m + 1 \in 1 .. m + 1
  BY AppendProperties DEF Agree
<1> HIDE DEF m, tt
<1>2. PICK f \in [0 .. Len(ss) -> Seq(S)] :
          Flattens(ss, f) /\ FlattenSeq(ss) = f[Len(ss)]
  BY FlattenRecursion
<1>3. PICK g \in [0 .. Len(tt) -> Seq(S)] :
          Flattens(tt, g) /\ FlattenSeq(tt) = g[Len(tt)]
  BY <1>1, FlattenRecursion
<1>4. f[m] = g[m]
  <2>1. /\ Len(ss) \in Nat /\ Len(tt) \in Nat /\ m \in Nat
        /\ m <= Len(ss) /\ m <= Len(tt)
    BY <1>1 DEF m
  <2>2. Agree(ss, tt, m) /\ Flattens(ss, f) /\ Flattens(tt, g)
    BY <1>1, <1>2, <1>3
  <2>3. QED
    BY <2>1, <2>2, FlattensAgree
<1>5. g[m + 1] = g[m] \o s
  BY <1>1, <1>3 DEF Flattens
<1>6. QED
  BY <1>1, <1>2, <1>3, <1>4, <1>5 DEF m, tt

(* Other sequences come after the first ones.                              *)
LEMMA FlattenConcat ==
    ASSUME NEW S, NEW ss \in Seq(Seq(S)), NEW tt \in Seq(Seq(S))
    PROVE  FlattenSeq(ss \o tt) = FlattenSeq(ss) \o FlattenSeq(tt)
<1> DEFINE Holds(uu) == FlattenSeq(ss \o uu) = FlattenSeq(ss) \o FlattenSeq(uu)
           T == {n \in Nat : \A uu \in Seq(Seq(S)) : Len(uu) = n => Holds(uu)}
<1>1. 0 \in T
  <2>1. ASSUME NEW uu \in Seq(Seq(S)), Len(uu) = 0 PROVE Holds(uu)
    <3>1. uu = << >> /\ ss \o << >> = ss
      BY <2>1, EmptySeq, ConcatEmptySeq
    <3>2. FlattenSeq(ss) \o << >> = FlattenSeq(ss)
      BY FlattenType, ConcatEmptySeq
    <3>3. QED
      BY <3>1, <3>2, FlattenEmpty
  <2>2. QED
    BY <2>1
<1>2. ASSUME NEW n \in T PROVE n + 1 \in T
  <2>1. ASSUME NEW uu \in Seq(Seq(S)), Len(uu) = n + 1 PROVE Holds(uu)
    <3>1. uu # << >>
      BY <2>1
    <3>2. PICK vv \in Seq(Seq(S)), v \in Seq(S) : uu = Append(vv, v)
      BY <3>1, SequenceEmptyOrAppend
    <3>3. Len(vv) = n
      BY <2>1, <3>2, AppendProperties
    <3>4. Holds(vv)
      BY <3>3
    <3>5. ss \o uu = Append(ss \o vv, v) /\ ss \o vv \in Seq(Seq(S))
      BY <3>2
    <3>6. FlattenSeq(ss \o uu) = FlattenSeq(ss \o vv) \o v
      BY <3>5, FlattenAppend
    <3>7. FlattenSeq(uu) = FlattenSeq(vv) \o v
      BY <3>2, FlattenAppend
    <3>8. /\ FlattenSeq(ss) \in Seq(S) /\ FlattenSeq(vv) \in Seq(S)
      BY FlattenType
    <3>9. (FlattenSeq(ss) \o FlattenSeq(vv)) \o v
              = FlattenSeq(ss) \o (FlattenSeq(vv) \o v)
      BY <3>8, ConcatAssociative
    <3> QED
      BY <3>4, <3>6, <3>7, <3>9
  <2>2. QED
    BY <2>1
<1>3. T = Nat
  <2>1. T \subseteq Nat
    OBVIOUS
  <2> HIDE DEF T
  <2>2. QED
    BY <1>1, <1>2, <2>1, NatSetInduction
<1>4. Len(tt) \in T
  BY <1>3
<1> QED
  BY <1>4

(* One sequence is itself.                                                 *)
LEMMA FlattenOne ==
    ASSUME NEW S, NEW s \in Seq(S)
    PROVE  FlattenSeq(<<s>>) = s
<1>1. << >> \in Seq(Seq(S)) /\ Append(<< >>, s) = <<s>>
  OBVIOUS
<1>2. FlattenSeq(<<s>>) = << >> \o s
  BY <1>1, FlattenAppend, FlattenEmpty
<1>3. QED
  BY <1>2, ConcatEmptySeq

(***************************************************************************)
(* The concatenation of what a function F gives for each of a sequence.    *)
(***************************************************************************)
Mapped(F, s) == [i \in DOMAIN s |-> F[s[i]]]
FlatMap(F, s) == FlattenSeq(Mapped(F, s))

(* What F gives stands where its argument stood.                           *)
LEMMA MappedAt ==
    ASSUME NEW F, NEW A, NEW s \in Seq(A)
    PROVE  /\ Len(Mapped(F, s)) = Len(s)
           /\ \A i \in 1 .. Len(s) : Mapped(F, s)[i] = F[s[i]]
<1>1. DOMAIN s = 1 .. Len(s) /\ Len(s) \in Nat
  OBVIOUS
<1>2. QED
  BY <1>1 DEF Mapped

(* And it has the type of what F gives.                                    *)
LEMMA MappedType ==
    ASSUME NEW F, NEW A, NEW B, NEW s \in Seq(A), \A x \in A : F[x] \in B
    PROVE  Mapped(F, s) \in Seq(B)
<1>1. DOMAIN s = 1 .. Len(s) /\ Len(s) \in Nat
  OBVIOUS
<1>2. \A i \in 1 .. Len(s) : F[s[i]] \in B
  OBVIOUS
<1>3. QED
  BY <1>1, <1>2 DEF Mapped

(* The images of a concatenation.                                          *)
LEMMA MappedConcat ==
    ASSUME NEW F, NEW A, NEW s \in Seq(A), NEW t \in Seq(A)
    PROVE  Mapped(F, s \o t) = Mapped(F, s) \o Mapped(F, t)
<1> DEFINE B == {F[x] : x \in A}
           ps == Mapped(F, s)
           qs == Mapped(F, t)
           rs == Mapped(F, s \o t)
<1>1. s \o t \in Seq(A) /\ Len(s \o t) = Len(s) + Len(t)
  BY ConcatProperties
<1>2. ps \in Seq(B) /\ qs \in Seq(B) /\ rs \in Seq(B)
  <2>1. \A x \in A : F[x] \in B
    OBVIOUS
  <2> HIDE DEF B
  <2>2. QED
    BY <1>1, <2>1, MappedType
<1> HIDE DEF B
<1>3. Len(rs) = Len(s) + Len(t) /\ Len(ps) = Len(s) /\ Len(qs) = Len(t)
  BY <1>1, MappedAt
<1>4. ASSUME NEW i \in 1 .. Len(rs)
      PROVE  rs[i] = (ps \o qs)[i]
  <2>1. rs[i] = F[(s \o t)[i]]
    <3> DEFINE st == s \o t
    <3>1. st \in Seq(A) /\ i \in 1 .. Len(st)
      BY <1>1, <1>3
    <3> HIDE DEF st
    <3>2. Mapped(F, st)[i] = F[st[i]]
      BY <3>1, MappedAt
    <3>3. QED
      BY <3>2 DEF st
  <2>2. CASE i <= Len(s)
    <3>1. i \in 1 .. Len(s)
      BY <2>2
    <3>2. (s \o t)[i] = s[i] /\ (ps \o qs)[i] = ps[i]
      BY <1>2, <1>3, <3>1, ConcatProperties
    <3>3. ps[i] = F[s[i]]
      BY <3>1, MappedAt
    <3>4. QED
      BY <2>1, <3>2, <3>3
  <2>3. CASE ~(i <= Len(s))
    <3>1. i - Len(s) \in 1 .. Len(t)
      BY <1>3, <2>3
    <3>2. (s \o t)[i] = t[i - Len(s)] /\ (ps \o qs)[i] = qs[i - Len(s)]
      <4>1. i \in 1 .. Len(s) + Len(t)
        BY <1>3
      <4> HIDE DEF ps, qs
      <4>2. QED
        BY <1>2, <1>3, <2>3, <4>1, ConcatProperties
    <3>3. qs[i - Len(s)] = F[t[i - Len(s)]]
      BY <3>1, MappedAt
    <3>4. QED
      BY <2>1, <3>2, <3>3
  <2>4. QED
    BY <2>2, <2>3
<1> HIDE DEF ps, qs, rs
<1>5. /\ ps \o qs \in Seq(B)
      /\ Len(ps \o qs) = Len(ps) + Len(qs)
  BY <1>2, ConcatProperties, Zenon
<1>6. QED
  <2>1. rs = ps \o qs
    BY <1>2, <1>3, <1>4, <1>5, SeqEqual
  <2>2. QED
    BY <2>1 DEF ps, qs, rs

(* The elements come from what F gives.                                    *)
LEMMA FlatMapType ==
    ASSUME NEW A, NEW B, NEW F \in [A -> Seq(B)], NEW s \in Seq(A)
    PROVE  FlatMap(F, s) \in Seq(B)
<1>1. Mapped(F, s) \in Seq(Seq(B))
  BY MappedType
<1>2. QED
  BY <1>1, FlattenType DEF FlatMap

(* Nothing from nothing.                                                   *)
LEMMA FlatMapEmpty ==
    ASSUME NEW F
    PROVE  FlatMap(F, << >>) = << >>
<1>1. Mapped(F, << >>) = << >>
  BY DEF Mapped
<1>2. QED
  BY <1>1, FlattenEmpty DEF FlatMap

(* What comes from a concatenation is a concatenation.                     *)
LEMMA FlatMapConcat ==
    ASSUME NEW A, NEW B, NEW F, NEW s, NEW t,
           F \in [A -> Seq(B)], s \in Seq(A), t \in Seq(A)
    PROVE  FlatMap(F, s \o t) = FlatMap(F, s) \o FlatMap(F, t)
<1>1. Mapped(F, s \o t) = Mapped(F, s) \o Mapped(F, t)
  BY MappedConcat
<1>2. Mapped(F, s) \in Seq(Seq(B)) /\ Mapped(F, t) \in Seq(Seq(B))
  BY MappedType
<1>3. QED
  BY <1>1, <1>2, FlattenConcat DEF FlatMap

(* One element gives what F gives for it.                                  *)
LEMMA FlatMapOne ==
    ASSUME NEW A, NEW B, NEW F \in [A -> Seq(B)], NEW x \in A
    PROVE  FlatMap(F, <<x>>) = F[x]
<1> DEFINE one == <<x>>
<1>1. one \in Seq(A) /\ Len(one) = 1 /\ one[1] = x /\ 1 \in 1 .. 1
  OBVIOUS
<1>2. /\ Mapped(F, one) \in Seq(Seq(B)) /\ Len(Mapped(F, one)) = 1
      /\ Mapped(F, one)[1] = F[x]
  <2> HIDE DEF one
  <2>1. Mapped(F, one) \in Seq(Seq(B))
    BY <1>1, MappedType
  <2>2. QED
    BY <1>1, <2>1, MappedAt
<1>3. Mapped(F, one) = <<F[x]>>
  BY <1>2
<1>4. QED
  BY <1>3, FlattenOne DEF FlatMap

-----------------------------------------------------------------------------
(* Cutting a concatenation elsewhere than at its seam.                     *)
LEMMA CutFront ==
    ASSUME NEW S, NEW b \in Seq(S), NEW rest \in Seq(S), NEW p \in Seq(S),
           NEW w \in Seq(S), b \o rest = p \o w, Len(p) <= Len(b)
    PROVE  SubSeq(b, Len(p) + 1, Len(b)) \o rest = w
<1> DEFINE n == Len(p)
           m == Len(b)
           x == SubSeq(b, n + 1, m)
           y == x \o rest
<1>1. n \in Nat /\ m \in Nat /\ n <= m
  OBVIOUS
<1>2. /\ x \in Seq(S) /\ Len(x) = m - n
      /\ \A i \in 1 .. m - n : x[i] = b[n + i]
  OBVIOUS
<1>3. m + Len(rest) = n + Len(w)
  <2>1. Len(b \o rest) = m + Len(rest) /\ Len(p \o w) = n + Len(w)
    OBVIOUS
  <2>2. QED
    BY <2>1
<1> HIDE DEF x
<1>4. y \in Seq(S) /\ Len(y) = (m - n) + Len(rest)
  <2>1. y \in Seq(S)
    BY <1>2, ConcatProperties
  <2>2. Len(y) = Len(x) + Len(rest)
    BY <1>2, ConcatProperties
  <2>3. QED
    BY <1>2, <2>1, <2>2
<1>5. Len(y) = Len(w)
  BY <1>3, <1>4, <1>1
<1>6. ASSUME NEW i \in 1 .. Len(y) PROVE y[i] = w[i]
  <2>1. w[i] = (p \o w)[n + i]
    BY <1>5
  <2>2. CASE i <= m - n
    <3>1. n + i \in 1 .. m /\ i \in 1 .. m - n
      BY <1>1, <2>2
    <3>2. (b \o rest)[n + i] = b[n + i]
      BY <3>1
    <3>3. y[i] = x[i]
      BY <1>2, <3>1
    <3>4. QED
      BY <1>2, <2>1, <3>1, <3>2, <3>3
  <2>3. CASE ~(i <= m - n)
    <3>1. /\ i - (m - n) \in 1 .. Len(rest)
          /\ (n + i) - m = i - (m - n)
          /\ n + i \in m + 1 .. m + Len(rest)
      BY <1>1, <1>4, <2>3
    <3>2. (b \o rest)[n + i] = rest[(n + i) - m]
      BY <3>1
    <3>3. y[i] = rest[i - (m - n)]
      BY <1>1, <1>2, <1>4, <2>3, <3>1
    <3>4. QED
      BY <2>1, <3>1, <3>2, <3>3
  <2>4. QED
    BY <2>2, <2>3
<1> HIDE DEF y
<1>7. y = w
  BY <1>4, <1>5, <1>6, SeqEqual
<1>8. QED
  BY <1>7 DEF y, x

(* A sequence that is cut in two is the two together.                      *)
LEMMA CutAnywhere ==
    ASSUME NEW S, NEW s \in Seq(S), NEW n \in 0 .. Len(s)
    PROVE  /\ SubSeq(s, 1, n) \in Seq(S)
           /\ SubSeq(s, n + 1, Len(s)) \in Seq(S)
           /\ SubSeq(s, 1, n) \o SubSeq(s, n + 1, Len(s)) = s
<1> DEFINE a == SubSeq(s, 1, n)
           z == SubSeq(s, n + 1, Len(s))
           u == a \o z
<1>1. a \in Seq(S) /\ Len(a) = n /\ \A i \in 1 .. n : a[i] = s[i]
  OBVIOUS
<1>2. /\ z \in Seq(S) /\ Len(z) = Len(s) - n
      /\ \A i \in 1 .. Len(s) - n : z[i] = s[n + i]
  OBVIOUS
<1> HIDE DEF a, z
<1>3. u \in Seq(S) /\ Len(u) = Len(s)
  BY <1>1, <1>2
<1>4. ASSUME NEW i \in 1 .. Len(s) PROVE u[i] = s[i]
  <2>1. CASE i <= n
    BY <1>1, <1>2, <2>1
  <2>2. CASE ~(i <= n)
    <3>1. i - n \in 1 .. Len(s) - n /\ n + (i - n) = i
      BY <2>2
    <3>2. u[i] = z[i - n]
      BY <1>1, <1>2, <2>2
    <3>3. QED
      BY <1>2, <3>1, <3>2
  <2>3. QED
    BY <2>1, <2>2
<1> HIDE DEF u
<1>5. u = s
  BY <1>3, <1>4, SeqEqual
<1>6. QED
  BY <1>1, <1>2, <1>5 DEF u, a, z

(* A sequence is a prefix of what continues it.                            *)
LEMMA PrefixOfConcat ==
    ASSUME NEW S, NEW s \in Seq(S), NEW t \in Seq(S)
    PROVE  IsPrefix(s, s \o t)
<1> DEFINE u == s \o t
           n == Len(s)
           v == SubSeq(u, 1, n)
           x == SubSeq(s, 1, n)
<1>1. u \in Seq(S) /\ Len(u) = n + Len(t) /\ \A i \in 1 .. n : u[i] = s[i]
  OBVIOUS
<1> HIDE DEF u
<1>2. v \in Seq(S) /\ Len(v) = n /\ \A i \in 1 .. n : v[i] = u[i]
  BY <1>1
<1>3. x \in Seq(S) /\ Len(x) = n /\ \A i \in 1 .. n : x[i] = s[i]
  OBVIOUS
<1> HIDE DEF v, x
<1>4. x = v
  BY <1>1, <1>2, <1>3, SeqEqual
<1>5. Len(s) <= Len(u)
  BY <1>1
<1>6. QED
  BY <1>4, <1>5 DEF IsPrefix, u, v, x
=============================================================================
