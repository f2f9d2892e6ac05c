---------------------------- MODULE AnswerProofs ----------------------------
(***************************************************************************)
(* What the client concludes of an answer is what the broker answered,     *)
(* wherever the answer is cut off and however it is encoded: for any       *)
(* requests, numbers, ids, statuses and JWTs that the assumptions of Wire  *)
(* allow.                                                                  *)
(*                                                                         *)
(* What arrives is a beginning of the text (DecodedIsBeginning), and of a  *)
(* beginning the client reads the first frames, whole (BeginningIsRead):   *)
(* the trailer, which comes last, only when nothing is missing             *)
(* (SomeIsRead).  Of the trailer it reads the status, also when a message  *)
(* quotes another one (StatusIsRead, DecimalOfDigits); of a data frame the *)
(* id and the number, in each layout (AckIsRead), where the sweep for an   *)
(* id finds nothing in front of it (SweepFinds); and a JWT is found whole  *)
(* (JwtIsFound).  WhatIsRead puts these together.                          *)
(***************************************************************************)
EXTENDS WireProofs

-----------------------------------------------------------------------------
(* Sequences of sequences: the parts of a text, flattened.                  *)

LEMMA FlattenNothing == FlattenSeq(<<>>) = <<>>
<1>1. Len(<<>>) = 0
  BY EmptySeq
<1> QED BY <1>1, Zenon DEF FlattenSeq

LEMMA FlattenType ==
  ASSUME NEW T, NEW ss \in Seq(Seq(T))
  PROVE  FlattenSeq(ss) \in Seq(T)
<1>1. Len(ss) \in Nat
  BY LenProperties
<1>2. CASE Len(ss) = 0
  <2>1. ss = <<>>
    BY <1>2, EmptySeq
  <2>2. <<>> \in Seq(T)
    BY EmptySeq
  <2> QED BY <2>1, <2>2, FlattenNothing
<1>3. CASE Len(ss) # 0
  <2>1. PICK fl : Flattening(T, ss, fl)
    BY <1>3, FlattenSeqDef DEF Flattens
  <2>2. Len(ss) \in 1 .. Len(ss)
    BY <1>1, <1>3
  <2> QED BY <2>1, <2>2 DEF Flattening
<1> QED BY <1>2, <1>3

LEMMA FlattenAppend ==
  ASSUME NEW T, NEW ss \in Seq(Seq(T)), NEW x \in Seq(T)
  PROVE  FlattenSeq(Append(ss, x)) = FlattenSeq(ss) \o x
<1> DEFINE n == Len(ss)
           tt == Append(ss, x)
<1>1. n \in Nat /\ tt \in Seq(Seq(T)) /\ Len(tt) = n + 1 /\ tt[n + 1] = x /\ \A i \in 1 .. n : tt[i] = ss[i]
  BY LenProperties, AppendProperties
<1> HIDE DEF tt
<1>2. PICK g : Flattening(T, tt, g)
  <2>1. Len(tt) # 0
    BY <1>1
  <2> QED BY <1>1, <2>1, FlattenSeqDef DEF Flattens
<1>3. /\ g \in [1 .. n + 1 -> Seq(T)] /\ FlattenSeq(tt) = g[n + 1] /\ g[1] = tt[1]
      /\ \A i \in 2 .. n + 1 : g[i] = g[i - 1] \o tt[i]
  BY <1>1, <1>2 DEF Flattening
<1>4. CASE n = 0
  <2>1. ss = <<>>
    BY <1>4, EmptySeq
  <2>2. FlattenSeq(tt) = x
    BY <1>1, <1>3, <1>4
  <2>3. <<>> \o x = x
    BY ConcatEmptySeq
  <2> QED BY <2>1, <2>2, <2>3, FlattenNothing DEF tt
<1>5. CASE n # 0
  <2>1. PICK f : Flattening(T, ss, f)
    BY <1>5, FlattenSeqDef DEF Flattens
  <2>2. /\ f \in [1 .. n -> Seq(T)] /\ FlattenSeq(ss) = f[n] /\ f[1] = ss[1]
        /\ \A i \in 2 .. n : f[i] = f[i - 1] \o ss[i]
    BY <2>1 DEF Flattening
  <2> DEFINE Bad == {i \in 1 .. n : g[i] # f[i]}
  <2> HIDE DEF n
  <2>3. Bad = {}
    <3> SUFFICES ASSUME Bad # {} PROVE FALSE
      OBVIOUS
    <3>1. PICK i \in Bad : \A j \in Bad : i <= j
      <4>1. Bad \subseteq Nat
        BY <1>1
      <4> QED BY <4>1, Least
    <3>2. i # 1
      <4>1. 1 \in 1 .. n
        BY <1>1, <1>5
      <4> QED BY <1>1, <1>3, <2>2, <3>1, <4>1
    <3>3. i \in 2 .. n /\ i \in 2 .. n + 1 /\ i - 1 \in 1 .. n /\ ~(i <= i - 1)
      BY <1>1, <3>1, <3>2
    <3>4. g[i - 1] = f[i - 1]
      BY <3>1, <3>3
    <3>5. g[i] = g[i - 1] \o tt[i] /\ f[i] = f[i - 1] \o ss[i] /\ tt[i] = ss[i]
      BY <1>1, <1>3, <2>2, <3>1, <3>3
    <3> QED BY <3>1, <3>4, <3>5
  <2>4. g[n] = f[n] /\ g[n + 1] = g[n] \o x
    <3>1. n \in 1 .. n /\ n + 1 \in 2 .. n + 1 /\ (n + 1) - 1 = n
      BY <1>1, <1>5
    <3> QED BY <1>1, <1>3, <2>3, <3>1
  <2> QED BY <1>3, <2>2, <2>4 DEF tt
<1> QED BY <1>4, <1>5

LEMMA AppendToConcat ==
  ASSUME NEW T, NEW a \in Seq(T), NEW b \in Seq(T), NEW e \in T
  PROVE  a \o Append(b, e) = Append(a \o b, e)
<1> DEFINE c == <<e>>
           d == a \o b
<1>1. c \in Seq(T) /\ d \in Seq(T)
  BY ConcatProperties
<1>2. Append(b, e) = b \o c
  BY AppendIsConcat
<1>3. Append(d, e) = d \o c
  <2> HIDE DEF d
  <2> QED BY <1>1, AppendIsConcat
<1> HIDE DEF c
<1>4. (a \o b) \o c = a \o (b \o c)
  BY <1>1, ConcatAssociative
<1> QED BY <1>2, <1>3, <1>4, Zenon

(* A text and one more part of it.                                          *)
LEMMA FlattenFurther ==
  ASSUME NEW T, NEW ss \in Seq(Seq(T)), NEW front \in Seq(Seq(T)), NEW x \in Seq(T),
         FlattenSeq(ss \o front) = FlattenSeq(ss) \o FlattenSeq(front)
  PROVE  FlattenSeq(ss \o Append(front, x)) = FlattenSeq(ss) \o FlattenSeq(Append(front, x))
<1> DEFINE a == FlattenSeq(ss)
           b == FlattenSeq(front)
<1>1. a \in Seq(T) /\ b \in Seq(T)
  BY FlattenType
<1>2. FlattenSeq(Append(front, x)) = b \o x
  BY FlattenAppend
<1>3. ss \o front \in Seq(Seq(T)) /\ ss \o Append(front, x) = Append(ss \o front, x)
  <2>1. ss \o front \in Seq(Seq(T))
    BY ONLY ss \in Seq(Seq(T)), front \in Seq(Seq(T)), ConcatProperties
  <2>2. ss \o Append(front, x) = Append(ss \o front, x)
    BY ONLY ss \in Seq(Seq(T)), front \in Seq(Seq(T)), x \in Seq(T), AppendToConcat
  <2> QED BY <2>1, <2>2
<1>4. FlattenSeq(Append(ss \o front, x)) = FlattenSeq(ss \o front) \o x
  BY <1>3, FlattenAppend
<1>5. (a \o b) \o x = a \o (b \o x)
  <2> HIDE DEF a, b
  <2> QED BY ONLY <1>1, x \in Seq(T), ConcatAssociative, SMTT(30)
<1> QED BY <1>2, <1>3, <1>4, <1>5, Zenon

LEMMA FlattenConcat ==
  ASSUME NEW T, NEW ss \in Seq(Seq(T)), NEW tt \in Seq(Seq(T))
  PROVE  FlattenSeq(ss \o tt) = FlattenSeq(ss) \o FlattenSeq(tt)
<1> DEFINE Bad == {n \in Nat : \E rr \in Seq(Seq(T)) :
                     Len(rr) = n /\ FlattenSeq(ss \o rr) # FlattenSeq(ss) \o FlattenSeq(rr)}
<1>1. Bad = {}
  <2> SUFFICES ASSUME Bad # {} PROVE FALSE
    OBVIOUS
  <2>1. PICK n \in Bad : \A m \in Bad : n <= m
    BY Least
  <2>2. PICK rr \in Seq(Seq(T)) : Len(rr) = n /\ FlattenSeq(ss \o rr) # FlattenSeq(ss) \o FlattenSeq(rr)
    BY <2>1
  <2>3. CASE n = 0
    <3>1. rr = <<>>
      BY <2>2, <2>3, EmptySeq
    <3>2. ss \o <<>> = ss /\ FlattenSeq(ss) \o <<>> = FlattenSeq(ss)
      <4>1. FlattenSeq(ss) \in Seq(T)
        BY FlattenType
      <4> QED BY <4>1, ConcatEmptySeq
    <3> QED BY <2>2, <3>1, <3>2, FlattenNothing
  <2>4. CASE n # 0
    <3>1. rr # <<>>
      BY <2>2, <2>4, EmptySeq
    <3>2. PICK front \in Seq(Seq(T)), x \in Seq(T) : rr = Append(front, x)
      BY <3>1, SequenceEmptyOrAppend
    <3>9. front \in Seq(Seq(T)) /\ x \in Seq(T)
      BY <3>2
    <3>3. FlattenSeq(ss \o front) = FlattenSeq(ss) \o FlattenSeq(front)
      <4>1. Len(front) \in Nat /\ n = Len(front) + 1
        BY <2>2, <3>2, AppendProperties, LenProperties
      <4>2. ~(n <= Len(front))
        BY <4>1
      <4> QED BY <2>1, <4>1, <4>2
    <3>4. FlattenSeq(ss \o Append(front, x)) = FlattenSeq(ss) \o FlattenSeq(Append(front, x))
      BY <3>3, <3>9, FlattenFurther
    <3> QED BY <2>2, <3>2, <3>4, Zenon
  <2> QED BY <2>3, <2>4
<1>2. Len(tt) \in Nat
  BY LenProperties
<1> QED BY <1>1, <1>2

LEMMA OneLess ==
  ASSUME NEW n \in Nat, NEW k \in Nat, NEW l \in Nat, n = k + 1, n = l + 1
  PROVE  k = l /\ ~(n <= l) /\ n \in 1 .. n /\ l + 1 = n /\ \A i \in 1 .. l : i \in 1 .. n
OBVIOUS

(* Parts of parts: a text cut twice is the text.                            *)
LEMMA FlattenTwice ==
  ASSUME NEW T, NEW qs \in Seq(Seq(Seq(T))), NEW ss \in Seq(Seq(T)),
         Len(ss) = Len(qs), \A i \in 1 .. Len(qs) : FlattenSeq(qs[i]) = ss[i]
  PROVE  FlattenSeq(FlattenSeq(qs)) = FlattenSeq(ss)
<1> DEFINE Same(q, s) == Len(s) = Len(q) /\ \A i \in 1 .. Len(q) : FlattenSeq(q[i]) = s[i]
           Bad == {n \in Nat : \E q \in Seq(Seq(Seq(T))), s \in Seq(Seq(T)) :
                     Len(q) = n /\ Same(q, s) /\ FlattenSeq(FlattenSeq(q)) # FlattenSeq(s)}
<1>1. Bad = {}
  <2> SUFFICES ASSUME Bad # {} PROVE FALSE
    OBVIOUS
  <2>1. PICK n \in Bad : \A m \in Bad : n <= m
    BY Least
  <2>2. PICK q \in Seq(Seq(Seq(T))), s \in Seq(Seq(T)) :
               Len(q) = n /\ Same(q, s) /\ FlattenSeq(FlattenSeq(q)) # FlattenSeq(s)
    BY <2>1
  <2>3. CASE n = 0
    <3>1. q = <<>> /\ s = <<>>
      BY <2>2, <2>3, EmptySeq
    <3> QED BY <2>2, <3>1, FlattenNothing
  <2>4. CASE n # 0
    <3>1. q # <<>> /\ s # <<>>
      BY <2>2, <2>4, EmptySeq
    <3>2. PICK qf \in Seq(Seq(Seq(T))), x \in Seq(Seq(T)) : q = Append(qf, x)
      BY <3>1, SequenceEmptyOrAppend
    <3>3. PICK sf \in Seq(Seq(T)), y \in Seq(T) : s = Append(sf, y)
      BY <3>1, SequenceEmptyOrAppend
    <3>4. /\ Len(qf) \in Nat /\ n = Len(qf) + 1 /\ q[Len(qf) + 1] = x /\ \A i \in 1 .. Len(qf) : q[i] = qf[i]
      BY <2>2, <3>2, AppendProperties, LenProperties
    <3>5. /\ Len(sf) \in Nat /\ n = Len(sf) + 1 /\ s[Len(sf) + 1] = y /\ \A i \in 1 .. Len(sf) : s[i] = sf[i]
      BY <2>2, <3>3, AppendProperties, LenProperties
    <3>6. Len(sf) = Len(qf) /\ ~(n <= Len(qf)) /\ n \in 1 .. n /\ Len(qf) + 1 = n /\ \A i \in 1 .. Len(qf) : i \in 1 .. n
      <4> DEFINE l == Len(qf)
                 k == Len(sf)
      <4>1. l \in Nat /\ k \in Nat /\ n = l + 1 /\ n = k + 1
        BY <3>4, <3>5
      <4> HIDE DEF l, k
      <4>2. k = l /\ ~(n <= l) /\ n \in 1 .. n /\ l + 1 = n /\ \A i \in 1 .. l : i \in 1 .. n
        <5>1. n \in Nat
          BY <2>1
        <5> QED BY <4>1, <5>1, OneLess, Zenon
      <4> QED BY <4>2 DEF l, k
    <3>13. \A i \in 1 .. n : FlattenSeq(q[i]) = s[i]
      BY <2>2
    <3>7. Same(qf, sf) /\ FlattenSeq(x) = y
      <4>1. FlattenSeq(q[n]) = s[n] /\ \A i \in 1 .. Len(qf) : FlattenSeq(q[i]) = s[i]
        BY <3>6, <3>13
      <4>2. q[n] = x /\ s[n] = y
        BY <3>4, <3>5, <3>6
      <4>3. \A i \in 1 .. Len(qf) : FlattenSeq(qf[i]) = sf[i]
        BY <3>4, <3>5, <3>6, <4>1
      <4> QED BY <3>6, <4>1, <4>2, <4>3
    <3>8. FlattenSeq(FlattenSeq(qf)) = FlattenSeq(sf)
      <4> HIDE DEF Same
      <4>1. Len(qf) \notin Bad
        <5> HIDE DEF Bad
        <5> QED BY <2>1, <3>6
      <4> QED BY <3>4, <3>7, <4>1
    <3>9. FlattenSeq(q) = FlattenSeq(qf) \o x
      BY <3>2, FlattenAppend
    <3>10. FlattenSeq(qf) \in Seq(Seq(T))
      BY FlattenType
    <3>11. FlattenSeq(FlattenSeq(qf) \o x) = FlattenSeq(FlattenSeq(qf)) \o FlattenSeq(x)
      BY <3>10, FlattenConcat
    <3>12. FlattenSeq(s) = FlattenSeq(sf) \o y
      BY <3>3, FlattenAppend
    <3> QED BY <2>2, <3>7, <3>8, <3>9, <3>11, <3>12
  <2> QED BY <2>3, <2>4
<1>2. Len(qs) \in Nat
  BY LenProperties
<1>3. Same(qs, ss)
  OBVIOUS
<1> HIDE DEF Same
<1> QED BY <1>1, <1>2, <1>3

(* A text of one part, and of two.                                          *)
LEMMA OneOrTwo ==
  ASSUME NEW x \in Seq(Bytes), NEW y \in Seq(Bytes)
  PROVE  FlattenSeq(<<x>>) = x /\ FlattenSeq(<<x, y>>) = x \o y
<1>1. <<>> \in Seq(Seq(Bytes)) /\ <<x>> \in Seq(Seq(Bytes))
  OBVIOUS
<1>2. Append(<<>>, x) = <<x>> /\ Append(<<x>>, y) = <<x, y>>
  <2>1. /\ Append(<<>>, x) \in Seq(Seq(Bytes)) /\ Len(Append(<<>>, x)) = 1 /\ Append(<<>>, x)[1] = x
        /\ <<x>> \in Seq(Seq(Bytes)) /\ Len(<<x>>) = 1 /\ <<x>>[1] = x
    OBVIOUS
  <2>2. /\ Append(<<x>>, y) \in Seq(Seq(Bytes)) /\ Len(Append(<<x>>, y)) = 2
        /\ Append(<<x>>, y)[1] = x /\ Append(<<x>>, y)[2] = y
        /\ <<x, y>> \in Seq(Seq(Bytes)) /\ Len(<<x, y>>) = 2 /\ <<x, y>>[1] = x /\ <<x, y>>[2] = y
    OBVIOUS
  <2>3. Append(<<>>, x) = <<x>>
    <3> DEFINE s == Append(<<>>, x)
               t == <<x>>
    <3>1. s \in Seq(Seq(Bytes)) /\ t \in Seq(Seq(Bytes)) /\ Len(s) = 1 /\ Len(t) = 1 /\ s[1] = t[1]
      BY <2>1
    <3> HIDE DEF s, t
    <3>2. s = t
      BY <3>1, SeqEqual
    <3> QED BY <3>2 DEF s, t
  <2>4. Append(<<x>>, y) = <<x, y>>
    <3> DEFINE s == Append(<<x>>, y)
               t == <<x, y>>
    <3>1. s \in Seq(Seq(Bytes)) /\ t \in Seq(Seq(Bytes)) /\ Len(s) = 2 /\ Len(t) = 2 /\ s[1] = t[1] /\ s[2] = t[2]
      BY <2>2
    <3> HIDE DEF s, t
    <3>2. Len(s) = Len(t) /\ \A i \in 1 .. Len(s) : s[i] = t[i]
      BY <3>1
    <3>3. s = t
      BY <3>1, <3>2, SeqEqual
    <3> QED BY <3>3 DEF s, t
  <2> QED BY <2>3, <2>4
<1>3. FlattenSeq(<<x>>) = FlattenSeq(<<>>) \o x
  BY <1>1, <1>2, FlattenAppend
<1>4. FlattenSeq(<<x>>) = x
  <2>1. <<>> \o x = x
    BY ConcatEmptySeq
  <2> QED BY <1>3, <2>1, FlattenNothing
<1>5. FlattenSeq(<<x, y>>) = FlattenSeq(<<x>>) \o y
  BY <1>1, <1>2, FlattenAppend
<1> QED BY <1>4, <1>5

-----------------------------------------------------------------------------
(* What arrives of an answer, and the frames read of it.                    *)

(* What arrives of a text: the parts before a cut.                          *)
IsBeginning(data, all) == \E rest \in Seq(Bytes) : all = data \o rest

LEMMA CutParts ==
  ASSUME NEW qs \in Seq(Seq(Bytes)), NEW k \in 0 .. Len(qs)
  PROVE  /\ SubSeq(qs, 1, k) \in Seq(Seq(Bytes)) /\ FlattenSeq(SubSeq(qs, 1, k)) \in Seq(Bytes)
         /\ IsBeginning(FlattenSeq(SubSeq(qs, 1, k)), FlattenSeq(qs))
<1> DEFINE n == Len(qs)
           front == SubSeq(qs, 1, k)
           back == SubSeq(qs, k + 1, n)
<1>1. n \in Nat /\ k \in Nat /\ k <= n
  BY LenProperties
<1>2. front \in Seq(Seq(Bytes))
  <2>1. 1 \in Positions /\ 1 <= k + 1
    BY <1>1 DEF Positions
  <2> QED BY <1>1, <2>1, Part
<1>3. back \in Seq(Seq(Bytes))
  <2>1. k + 1 \in Positions /\ k + 1 <= n + 1 /\ n <= Len(qs)
    BY <1>1 DEF Positions
  <2> QED BY <1>1, <2>1, Part
<1>4. front \o back = qs
  <2>1. 1 \in 1 .. n + 1 /\ k \in 1 - 1 .. n /\ n \in k .. n
    BY <1>1
  <2>2. SubSeq(qs, 1, k) \o SubSeq(qs, k + 1, n) = SubSeq(qs, 1, n)
    BY <2>1, ConcatAdjacentSubSeq
  <2> QED BY <2>2, SubSeqFull
<1> HIDE DEF front, back
<1>5. FlattenSeq(qs) = FlattenSeq(front) \o FlattenSeq(back)
  BY <1>2, <1>3, <1>4, FlattenConcat
<1>6. FlattenSeq(front) \in Seq(Bytes) /\ FlattenSeq(back) \in Seq(Bytes)
  BY <1>2, <1>3, FlattenType
<1> DEFINE a == FlattenSeq(front)
           b == FlattenSeq(back)
<1>7. a \in Seq(Bytes) /\ b \in Seq(Bytes) /\ FlattenSeq(qs) = a \o b
  BY <1>5, <1>6
<1> HIDE DEF a, b
<1>8. IsBeginning(a, FlattenSeq(qs))
  BY ONLY <1>7 DEF IsBeginning
<1>9. front \in Seq(Seq(Bytes)) /\ a \in Seq(Bytes) /\ IsBeginning(a, FlattenSeq(qs))
  BY <1>2, <1>7, <1>8
<1> QED BY <1>9, Zenon DEF a, front

LEMMA BeginningOfBeginning ==
  ASSUME NEW a \in Seq(Bytes), NEW b \in Seq(Bytes), NEW c \in Seq(Bytes), IsBeginning(a, b), IsBeginning(b, c)
  PROVE  IsBeginning(a, c)
<1>1. PICK r \in Seq(Bytes) : b = a \o r
  BY DEF IsBeginning
<1>2. PICK t \in Seq(Bytes) : c = b \o t
  BY DEF IsBeginning
<1>3. c = a \o (r \o t)
  <2>1. (a \o r) \o t = a \o (r \o t)
    BY ONLY a \in Seq(Bytes), r \in Seq(Bytes), t \in Seq(Bytes), ConcatAssociative, SMTT(30)
  <2> QED BY <1>1, <1>2, <2>1
<1>4. r \o t \in Seq(Bytes)
  BY ConcatProperties
<1> QED BY <1>3, <1>4 DEF IsBeginning

LEMMA LeastIs ==
  ASSUME NEW T, T \subseteq Nat, T # {}
  PROVE  Min(T) \in T /\ \A t \in T : Min(T) <= t
<1>1. \E n \in T : \A m \in T : n <= m
  BY Least
<1> QED BY <1>1 DEF Min

(* What b64decode makes of the quanta that have arrived is a beginning of   *)
(* what they hold, since it stops at the first one that is padded.          *)
LEMMA DecodedIsBeginning ==
  ASSUME NEW qs \in Seq(Seq(Bytes))
  PROVE  B64Decode(qs) \in Seq(Bytes) /\ IsBeginning(B64Decode(qs), FlattenSeq(qs))
<1> DEFINE padded == {i \in DOMAIN qs : Len(qs[i]) < 3}
<1>1. Len(qs) \in Nat /\ DOMAIN qs = 1 .. Len(qs)
  BY LenProperties
<1>2. PICK k \in 0 .. Len(qs) : B64Decode(qs) = FlattenSeq(SubSeq(qs, 1, k))
  <2>1. CASE padded = {}
    <3>1. SubSeq(qs, 1, Len(qs)) = qs
      BY SubSeqFull
    <3>2. B64Decode(qs) = FlattenSeq(qs)
      BY <2>1, Zenon DEF B64Decode
    <3>3. Len(qs) \in 0 .. Len(qs)
      BY <1>1
    <3> QED BY <3>1, <3>2, <3>3
  <2>2. CASE padded # {}
    <3>1. padded \subseteq Nat
      BY <1>1
    <3>2. Min(padded) \in padded
      BY <2>2, <3>1, LeastIs
    <3>3. Min(padded) \in 0 .. Len(qs)
      BY <1>1, <3>2
    <3>4. B64Decode(qs) = FlattenSeq(SubSeq(qs, 1, Min(padded)))
      BY <2>2, Zenon DEF B64Decode
    <3> QED BY <3>3, <3>4
  <2> QED BY <2>1, <2>2
<1> QED BY <1>2, CutParts

(* What stands in a text stands in a beginning of it, or is cut off.        *)
LEMMA CutHolds ==
  ASSUME NEW data \in Seq(Bytes), NEW whole \in Seq(Bytes), NEW pos \in Positions, NEW s \in Seq(Bytes),
         IsBeginning(data, whole), Holds(whole, pos, s)
  PROVE  /\ Len(data) <= Len(whole)
         /\ \A k \in 1 .. Len(s) : pos + k - 1 <= Len(data) => data[pos + k - 1] = s[k]
<1>1. PICK rest \in Seq(Bytes) : whole = data \o rest
  BY DEF IsBeginning
<1>2. /\ Len(data \o rest) = Len(data) + Len(rest)
      /\ \A i \in 1 .. Len(data) + Len(rest) : (data \o rest)[i] = IF i <= Len(data) THEN data[i] ELSE rest[i - Len(data)]
  BY <1>1, ConcatProperties
<1>3. Len(data) \in Nat /\ Len(rest) \in Nat /\ Len(s) \in Nat /\ pos \in Nat /\ pos > 0
  BY <1>1, LenProperties DEF Positions
<1> DEFINE n == Len(data)
           m == Len(rest)
           Whole(i) == whole[i]
<1>4. Len(whole) = n + m /\ \A i \in 1 .. n : Whole(i) = data[i]
  <2>1. \A i \in 1 .. n : i \in 1 .. n + m /\ i <= n
    BY <1>3
  <2> QED BY <1>1, <1>2, <2>1
<1>5. \A k \in 1 .. Len(s) : Whole(pos + k - 1) = s[k]
  BY DEF Holds
<1>6. n <= Len(whole)
  <2>1. n \in Nat /\ m \in Nat
    BY <1>3
  <2> HIDE DEF n, m
  <2> QED BY <1>4, <2>1
<1> HIDE DEF Whole
<1>7. ASSUME NEW k \in 1 .. Len(s), pos + k - 1 <= Len(data) PROVE data[pos + k - 1] = s[k]
  <2>1. pos + k - 1 \in 1 .. n
    BY <1>3, <1>7
  <2> QED BY <1>4, <1>5, <2>1
<1> QED BY <1>6, <1>7

(* The bytes of a frame.                                                    *)
LEMMA FrameShape ==
  ASSUME NEW flag \in Bytes, NEW payload \in Seq(Bytes), Fits(Len(payload))
  PROVE  /\ Frame(flag, payload) \in Seq(Bytes) /\ Len(Frame(flag, payload)) = 5 + Len(payload)
         /\ Frame(flag, payload)[1] = flag
         /\ FrameLength(Frame(flag, payload), 1) = Len(payload)
<1> DEFINE n == Len(payload)
           b1 == n \div 16777216
           b2 == (n \div 65536) % 256
           b3 == (n \div 256) % 256
           b4 == n % 256
           head == <<flag, b1, b2, b3, b4>>
           frame == Frame(flag, payload)
<1>1. n \in Nat
  BY LenProperties
<1>2. b1 \in Bytes /\ b2 \in Bytes /\ b3 \in Bytes /\ b4 \in Bytes /\ 16777216 * b1 + 65536 * b2 + 256 * b3 + b4 = n
  BY <1>1, FourBytes, SMT DEF n
<1>3. frame = head \o payload
  BY SMT DEF Frame
<1> HIDE DEF b1, b2, b3, b4
<1>4. /\ head \in Seq(Bytes) /\ Len(head) = 5
      /\ head[1] = flag /\ head[2] = b1 /\ head[3] = b2 /\ head[4] = b3 /\ head[5] = b4
  BY <1>2
<1> HIDE DEF head, frame
<1>5. /\ frame \in Seq(Bytes) /\ Len(frame) = 5 + n
      /\ \A i \in 1 .. 5 + n : frame[i] = IF i <= 5 THEN head[i] ELSE payload[i - 5]
  <2>1. /\ head \o payload \in Seq(Bytes)
        /\ Len(head \o payload) = Len(head) + Len(payload)
        /\ \A i \in 1 .. Len(head) + Len(payload) :
              (head \o payload)[i] = IF i <= Len(head) THEN head[i] ELSE payload[i - Len(head)]
    BY ONLY <1>4, payload \in Seq(Bytes), ConcatProperties
  <2> QED BY <1>3, <1>4, <2>1
<1>6. /\ frame[1] = flag /\ frame[1 + 1] = b1 /\ frame[1 + 2] = b2 /\ frame[1 + 3] = b3 /\ frame[1 + 4] = b4
  <2>1. {1, 2, 3, 4, 5} \subseteq 1 .. 5 + n
    BY <1>1
  <2> QED BY <1>4, <1>5, <2>1
<1>7. FrameLength(frame, 1) = n
  BY <1>2, <1>6, SMT DEF FrameLength
<1> QED BY <1>5, <1>6, <1>7 DEF frame, n

(* The payload follows its five bytes.                                      *)
LEMMA FrameBytes ==
  ASSUME NEW flag \in Bytes, NEW payload \in Seq(Bytes), Fits(Len(payload))
  PROVE  /\ Frame(flag, payload) \in Seq(Bytes) /\ Len(Frame(flag, payload)) = 5 + Len(payload)
         /\ \A i \in 1 .. Len(payload) : Frame(flag, payload)[5 + i] = payload[i]
<1> DEFINE n == Len(payload)
           head == <<flag, n \div 16777216, (n \div 65536) % 256, (n \div 256) % 256, n % 256>>
           frame == Frame(flag, payload)
<1>1. frame \in Seq(Bytes) /\ Len(frame) = 5 + n /\ n \in Nat
  BY FrameShape, LenProperties
<1>2. Len(head) = 5 /\ head \in Seq(Bytes)
  <2> DEFINE b1 == n \div 16777216
             b2 == (n \div 65536) % 256
             b3 == (n \div 256) % 256
             b4 == n % 256
  <2>1. b1 \in Bytes /\ b2 \in Bytes /\ b3 \in Bytes /\ b4 \in Bytes
    BY <1>1, FourBytes, SMT DEF n
  <2> HIDE DEF b1, b2, b3, b4
  <2>2. <<flag, b1, b2, b3, b4>> \in Seq(Bytes) /\ Len(<<flag, b1, b2, b3, b4>>) = 5
    BY <2>1
  <2> QED BY <2>2, SMT DEF b1, b2, b3, b4
<1>3. frame = head \o payload
  BY SMT DEF Frame
<1> HIDE DEF head, frame
<1>5. \A i \in 1 .. 5 + n : frame[i] = IF i <= 5 THEN head[i] ELSE payload[i - 5]
  <2>1. /\ Len(head \o payload) = Len(head) + Len(payload)
        /\ \A i \in 1 .. Len(head) + Len(payload) :
             (head \o payload)[i] = IF i <= Len(head) THEN head[i] ELSE payload[i - Len(head)]
    BY ONLY <1>2, payload \in Seq(Bytes), ConcatProperties
  <2> QED BY <1>2, <1>3, <2>1
<1>6. ASSUME NEW i \in 1 .. n PROVE frame[5 + i] = payload[i]
  <2> DEFINE k == 5 + i
  <2>1. k \in 1 .. 5 + n /\ ~(k <= 5) /\ k - 5 = i
    BY <1>1
  <2> HIDE DEF k
  <2>2. frame[k] = payload[k - 5]
    BY <1>5, <2>1
  <2> QED BY <2>1, <2>2 DEF k
<1> QED BY <1>1, <1>6 DEF frame

SameHeader(data, pos, s) == \A k \in 1 .. 5 : data[pos + k - 1] = s[k]

LEMMA SameLength ==
  ASSUME NEW data \in Seq(Bytes), NEW pos \in Positions, NEW s \in Seq(Bytes), SameHeader(data, pos, s)
  PROVE  FrameLength(data, pos) = FrameLength(s, 1)
<1>1. /\ pos + 2 - 1 = pos + 1 /\ pos + 3 - 1 = pos + 2 /\ pos + 4 - 1 = pos + 3 /\ pos + 5 - 1 = pos + 4
      /\ 1 + 1 = 2 /\ 1 + 2 = 3 /\ 1 + 3 = 4 /\ 1 + 4 = 5
  BY DEF Positions
<1>2. data[pos + 2 - 1] = s[2] /\ data[pos + 3 - 1] = s[3] /\ data[pos + 4 - 1] = s[4] /\ data[pos + 5 - 1] = s[5]
  BY DEF SameHeader
<1>3. data[pos + 1] = s[1 + 1] /\ data[pos + 2] = s[1 + 2] /\ data[pos + 3] = s[1 + 3] /\ data[pos + 4] = s[1 + 4]
  BY <1>1, <1>2
<1> QED BY <1>3, SMT DEF FrameLength

(* A frame of which only the beginning has arrived is not read.             *)
LEMMA CutFrame ==
  ASSUME NEW data \in Seq(Bytes), NEW whole \in Seq(Bytes), IsBeginning(data, whole),
         NEW flag \in Bytes, NEW payload \in Seq(Bytes), Fits(Len(payload)),
         NEW pos \in Positions, Holds(whole, pos, Frame(flag, payload)), pos + 4 + Len(payload) > Len(data)
  PROVE  FramesFrom(data)[pos] = <<>>
<1> DEFINE frame == Frame(flag, payload)
           n == Len(payload)
<1>1. frame \in Seq(Bytes) /\ Len(frame) = 5 + n /\ FrameLength(frame, 1) = n
  BY FrameShape
<1>2. n \in Nat /\ Len(data) \in Nat /\ pos \in Nat /\ pos > 0
  BY LenProperties DEF Positions
<1> HIDE DEF frame
<1>3. FramesFrom(data)[pos] = FramesStep(data, pos, FramesFrom(data))
  BY FramesFromDef
<1>4. ASSUME ~(pos + 4 > Len(data)) PROVE ~Room(data, pos)
  <2>1. \A k \in 1 .. 5 + n : pos + k - 1 <= Len(data) => data[pos + k - 1] = frame[k]
    BY <1>1, CutHolds DEF frame
  <2>2. \A k \in 1 .. 5 : k \in 1 .. 5 + n /\ pos + k - 1 <= Len(data)
    BY <1>2, <1>4
  <2>5. SameHeader(data, pos, frame)
    BY <2>1, <2>2 DEF SameHeader
  <2>3. FrameLength(data, pos) = n
    <3>1. FrameLength(data, pos) = FrameLength(frame, 1)
      BY <1>1, <2>5, SameLength, Zenon
    <3> QED BY <1>1, <3>1
  <2>4. ~(pos + 4 + n <= Len(data))
    <3> DEFINE d == Len(data)
    <3>1. pos + 4 + n > d /\ d \in Nat /\ n \in Nat /\ pos \in Nat
      BY <1>2
    <3> HIDE DEF d, n
    <3>2. ~(pos + 4 + n <= d)
      BY ONLY <3>1
    <3> QED BY <3>2 DEF d
  <2> QED BY <2>3, <2>4, Zenon DEF Room
<1> QED BY <1>3, <1>4 DEF FramesStep

(* What is read of a beginning is a beginning of the frames.                *)
GoodFrames(fs) == fs \in Seq(AFrame) /\ \A i \in 1 .. Len(fs) : Fits(Len(fs[i].payload))

(* From pos on, the frames i, i + 1, ... up to a kth are read of data.      *)
ReadsTo(data, whole, fs, i, pos, k) ==
  /\ k \in i - 1 .. Len(fs)
  /\ FramesFrom(data)[pos] = SubSeq(fs, i, k)
  /\ data = whole => k = Len(fs)

(* Of a beginning the first frames are read, each of them whole; of all of  *)
(* it, all are.                                                             *)
LEMMA BeginningIsRead ==
  ASSUME NEW fs, GoodFrames(fs), NEW data \in Seq(Bytes), IsBeginning(data, FlattenSeq(Framed(fs)))
  PROVE  \E k \in 0 .. Len(fs) : /\ FramesOf(data) = SubSeq(fs, 1, k)
                                 /\ data = FlattenSeq(Framed(fs)) => k = Len(fs)
<1> DEFINE ss == Framed(fs)
           n == Len(fs)
           whole == FlattenSeq(ss)
<1>1. fs \in Seq(AFrame) /\ n \in Nat /\ DOMAIN fs = 1 .. n /\ \A i \in 1 .. n : fs[i] \in AFrame /\ Fits(Len(fs[i].payload))
  BY LenProperties, ElementOfSeq DEF GoodFrames
<1>2. ASSUME NEW i \in 1 .. n
      PROVE  /\ fs[i].flag \in Bytes /\ fs[i].payload \in Seq(Bytes) /\ Fits(Len(fs[i].payload))
             /\ fs[i] = [flag |-> fs[i].flag, payload |-> fs[i].payload]
             /\ Frame(fs[i].flag, fs[i].payload) \in Seq(Bytes)
             /\ Len(Frame(fs[i].flag, fs[i].payload)) = 5 + Len(fs[i].payload) /\ Len(fs[i].payload) \in Nat
  <2>1. fs[i] \in AFrame /\ Fits(Len(fs[i].payload))
    BY <1>1
  <2>2. fs[i].flag \in Bytes /\ fs[i].payload \in Seq(Bytes) /\ fs[i] = [flag |-> fs[i].flag, payload |-> fs[i].payload]
    BY <2>1 DEF AFrame
  <2> QED BY <2>1, <2>2, FrameShape, LenProperties
<1>3. ss \in Seq(Seq(Bytes)) /\ Len(ss) = n /\ \A i \in 1 .. n : ss[i] = Frame(fs[i].flag, fs[i].payload)
  <2>1. ss \in [1 .. n -> Seq(Bytes)]
    BY <1>1, <1>2 DEF Framed
  <2> QED BY <1>1, <2>1 DEF Framed
<1> HIDE DEF ss
<1>4. whole \in Seq(Bytes) /\ MadeOf(whole, ss)
  BY <1>3, FlatIsMadeOfParts
<1>5. PICK st : Parts(whole, ss, st)
  BY <1>4 DEF MadeOf
<1>6. /\ st \in [1 .. n + 1 -> Positions]
      /\ st[1] = 1 /\ st[n + 1] = Len(whole) + 1
      /\ \A i \in 1 .. n : st[i + 1] = st[i] + Len(ss[i]) /\ Holds(whole, st[i], ss[i])
  BY <1>3, <1>5 DEF Parts
<1>7. IsBeginning(data, whole)
  BY DEF ss
<1> HIDE DEF whole
<1>8. Len(data) \in Nat /\ Len(whole) \in Nat
  BY <1>4, LenProperties
<1> DEFINE Good(i) == \E k : ReadsTo(data, whole, fs, i, st[i], k)
           Bad == {i \in 1 .. n + 1 : ~Good(i)}
<1>9. Good(n + 1)
  <2>1. Holds(whole, 1, whole)
    BY <1>4, HoldsItself
  <2>2. Len(data) <= Len(whole) /\ 1 \in Positions
    BY <1>4, <1>7, <2>1, CutHolds DEF Positions
  <2>3. st[n + 1] \in Positions /\ st[n + 1] + 4 > Len(data)
    BY <1>1, <1>6, <1>8, <2>2, SMTT(30)
  <2>4. FramesFrom(data)[st[n + 1]] = <<>>
    BY <2>3, FramesFromDef DEF FramesStep
  <2>5. SubSeq(fs, n + 1, n) = <<>> /\ n \in (n + 1) - 1 .. n
    BY <1>1, SubSeqEmpty
  <2> QED BY <2>4, <2>5 DEF ReadsTo
<1>10. ASSUME NEW i \in 1 .. n, Good(i + 1) PROVE Good(i)
  <2> DEFINE f == fs[i]
             m == Len(f.payload)
             pos == st[i]
  <2>1. /\ f.flag \in Bytes /\ f.payload \in Seq(Bytes) /\ Fits(Len(f.payload))
        /\ f = [flag |-> f.flag, payload |-> f.payload] /\ m \in Nat
        /\ ss[i] = Frame(f.flag, f.payload) /\ ss[i] \in Seq(Bytes) /\ Len(ss[i]) = 5 + m
    BY <1>2, <1>3
  <2>2. pos \in Positions /\ st[i + 1] = pos + Len(ss[i]) /\ Holds(whole, pos, ss[i]) /\ i \in Nat /\ pos \in Nat
    <3>1. i \in 1 .. n + 1 /\ i \in Nat
      BY <1>1
    <3>2. pos \in Positions
      BY <1>6, <3>1
    <3>3. pos \in Nat
      BY <3>2 DEF Positions
    <3> QED BY <1>6, <3>1, <3>2, <3>3
  <2>3. CASE pos + 4 + m > Len(data)
    <3>1. FramesFrom(data)[pos] = <<>>
      BY <1>4, <1>7, <2>1, <2>2, <2>3, CutFrame
    <3>2. SubSeq(fs, i, i - 1) = <<>> /\ i - 1 \in i - 1 .. n
      BY <1>1, SubSeqEmpty
    <3>3. data # whole
      <4>1. pos + (5 + m) - 1 <= Len(whole)
        BY <2>1, <2>2 DEF Holds
      <4>2. Len(whole) > Len(data)
        <5> HIDE DEF m, pos
        <5> QED BY <1>8, <2>1, <2>2, <2>3, <4>1
      <4> QED BY <1>8, <4>2
    <3> QED BY <3>1, <3>2, <3>3 DEF ReadsTo
  <2>4. CASE ~(pos + 4 + m > Len(data))
    <3>1. Holds(data, pos, ss[i])
      <4>1. \A k \in 1 .. Len(ss[i]) : pos + k - 1 <= Len(data)
        <5> HIDE DEF m, pos
        <5> QED BY <1>8, <2>1, <2>2, <2>4
      <4>2. pos + Len(ss[i]) - 1 <= Len(data)
        <5> HIDE DEF m, pos
        <5> QED BY <1>8, <2>1, <2>2, <2>4
      <4>3. \A k \in 1 .. Len(ss[i]) : pos + k - 1 <= Len(data) => data[pos + k - 1] = ss[i][k]
        BY <1>4, <1>7, <2>1, <2>2, CutHolds, SMTT(30)
      <4> QED BY <4>1, <4>2, <4>3 DEF Holds
    <3>2. FramesFrom(data)[pos] = <<f>> \o FramesFrom(data)[pos + 5 + m]
      <4>1. Holds(data, pos, Frame(f.flag, f.payload))
        BY <2>1, <3>1
      <4>2. FramesFrom(data)[pos] = <<[flag |-> f.flag, payload |-> f.payload]>> \o FramesFrom(data)[pos + 5 + Len(f.payload)]
        <5>1. f.flag \in Bytes /\ f.payload \in Seq(Bytes) /\ Fits(Len(f.payload)) /\ pos \in Positions
          BY <2>1, <2>2
        <5> HIDE DEF f, pos
        <5> QED BY ONLY data \in Seq(Bytes), <4>1, <5>1, FrameIsRead, SMTT(30)
      <4> QED BY <2>1, <4>2, Zenon
    <3>3. pos + 5 + m = st[i + 1]
      <4> HIDE DEF m, pos
      <4> QED BY <2>1, <2>2
    <3>4. PICK k : ReadsTo(data, whole, fs, i + 1, st[i + 1], k)
      BY <1>10
    <3>5. k \in (i + 1) - 1 .. n /\ FramesFrom(data)[st[i + 1]] = SubSeq(fs, i + 1, k) /\ (data = whole => k = n)
      BY <3>4 DEF ReadsTo
    <3>6. k \in i .. n /\ k \in i - 1 .. n
      <4>1. k \in (i + 1) - 1 .. n /\ i \in Nat /\ n \in Nat
        BY <1>1, <2>2, <3>5, Zenon
      <4> HIDE DEF n
      <4> QED BY ONLY <4>1
    <3>7. SubSeq(fs, i, k) = <<fs[i]>> \o SubSeq(fs, i + 1, k)
      BY <1>1, <3>6, SubSeqRecursiveFirst
    <3>8. FramesFrom(data)[pos] = SubSeq(fs, i, k)
      BY <3>2, <3>3, <3>5, <3>7, Zenon
    <3> QED BY <3>5, <3>6, <3>8 DEF ReadsTo
  <2> QED BY <2>3, <2>4
<1>11. Bad = {}
  <2> HIDE DEF Good
  <2> SUFFICES ASSUME Bad # {} PROVE FALSE
    OBVIOUS
  <2>1. Bad \subseteq Positions /\ (\A i \in Bad : i <= n + 1) /\ n + 1 \in Nat
    BY <1>1 DEF Positions
  <2>2. PICK i \in Bad : \A j \in Bad : j <= i
    BY ONLY <2>1, Bad # {}, Greatest
  <2>3. i \in 1 .. n
    BY <1>1, <1>9, <2>2
  <2>4. i + 1 \in 1 .. n + 1 /\ ~(i + 1 <= i)
    BY <1>1, <2>3
  <2> QED BY <1>10, <2>2, <2>3, <2>4
<1>12. Good(1)
  <2> HIDE DEF Good
  <2>1. 1 \in 1 .. n + 1
    BY <1>1
  <2> QED BY <1>11, <2>1
<1>13. PICK k : ReadsTo(data, whole, fs, 1, 1, k)
  BY <1>6, <1>12
<1>14. k \in 0 .. n /\ FramesOf(data) = SubSeq(fs, 1, k) /\ (data = whole => k = n)
  BY <1>13 DEF ReadsTo, FramesOf
<1> QED BY <1>14 DEF whole, ss

-----------------------------------------------------------------------------
(* Numbers in decimal digits.                                               *)

LEMMA SmallTenth ==
  ASSUME NEW n \in Nat, ~(n < 10)
  PROVE  n \div 10 \in Nat /\ n \div 10 < n /\ n % 10 \in 0 .. 9 /\ n = 10 * (n \div 10) + (n % 10)
OBVIOUS

DigitsStep(n, rest) == IF n < 10 THEN <<48 + n>> ELSE rest[n \div 10] \o <<48 + (n % 10)>>

LEMMA DigitsStepType ==
  ASSUME NEW n \in Nat, NEW rest, n < 10 \/ rest[n \div 10] \in Seq(48 .. 57)
  PROVE  DigitsStep(n, rest) \in Seq(48 .. 57)
<1>1. CASE n < 10
  <2>1. 48 + n \in 48 .. 57
    BY <1>1
  <2>2. <<48 + n>> \in Seq(48 .. 57)
    BY <2>1
  <2> QED BY <1>1, <2>2 DEF DigitsStep
<1>2. CASE ~(n < 10)
  <2>1. 48 + (n % 10) \in 48 .. 57
    BY <1>2, SmallTenth
  <2>2. <<48 + (n % 10)>> \in Seq(48 .. 57) /\ rest[n \div 10] \in Seq(48 .. 57)
    BY <1>2, <2>1
  <2>3. rest[n \div 10] \o <<48 + (n % 10)>> \in Seq(48 .. 57)
    BY ONLY <2>2, ConcatProperties
  <2> QED BY <1>2, <2>3 DEF DigitsStep
<1> QED BY <1>1, <1>2

(* Digits is a function, and gives digits.                                  *)
LEMMA DigitsDef ==
  /\ \A n \in Nat : Digits[n] = DigitsStep(n, Digits)
  /\ \A n \in Nat : Digits[n] \in Seq(48 .. 57)
<1> DEFINE V == Seq(48 .. 57)
           mu == [n \in Nat |-> n]
           G == [p \in Nat \X [Nat -> V] |-> DigitsStep(p[1], p[2])]
<1>1. ASSUME NEW n \in Nat, NEW g \in [Nat -> V]
      PROVE  G[<<n, g>>] = DigitsStep(n, g) /\ G[<<n, g>>] \in V
  <2>1. G[<<n, g>>] = DigitsStep(n, g)
    OBVIOUS
  <2>2. n < 10 \/ g[n \div 10] \in V
    BY SmallTenth
  <2>3. DigitsStep(n, g) \in V
    BY <2>2, DigitsStepType
  <2> QED BY <2>1, <2>3
<1>2. G \in [Nat \X [Nat -> V] -> V]
  <2>1. \A p \in Nat \X [Nat -> V] : p = <<p[1], p[2]>> /\ p[1] \in Nat /\ p[2] \in [Nat -> V]
    OBVIOUS
  <2>2. \A p \in Nat \X [Nat -> V] : G[p] \in V
    <3> HIDE DEF G, V
    <3> QED BY <1>1, <2>1
  <2> QED BY <2>2
<1>3. mu \in [Nat -> Nat] /\ \A n \in Nat : mu[n] = n
  OBVIOUS
<1>4. DependsBelow(Nat, V, mu, G)
  <2> SUFFICES ASSUME NEW n \in Nat, NEW g \in [Nat -> V], NEW h \in [Nat -> V],
                      \A m \in Nat : mu[m] < mu[n] => g[m] = h[m]
               PROVE  G[<<n, g>>] = G[<<n, h>>]
    BY DEF DependsBelow
  <2>1. ~(n < 10) => g[n \div 10] = h[n \div 10]
    BY <1>3, SmallTenth
  <2>2. DigitsStep(n, g) = DigitsStep(n, h)
    BY <2>1, Zenon DEF DigitsStep
  <2> HIDE DEF G, V, mu
  <2> QED BY <1>1, <2>2
<1>5. V # {}
  BY EmptySeq
<1> HIDE DEF G, V, mu
<1>0. Defines(Nat, V, G)
  BY <1>2, <1>3, <1>4, <1>5, Recursion
<1>6. PICK f \in [Nat -> V] : f = [n \in Nat |-> G[<<n, f>>]]
  BY <1>0 DEF Defines
<1>7. f = [n \in Nat |-> DigitsStep(n, f)]
  BY <1>1, <1>6
<1> DEFINE Is(g) == g = [n \in Nat |-> DigitsStep(n, g)]
<1>8. Digits = CHOOSE g : Is(g)
  BY DEF Digits, DigitsStep
<1>9. Is(Digits)
  <2>1. Is(f)
    BY <1>7
  <2> HIDE DEF Is
  <2> QED BY <1>8, <2>1
<1>10. \A n \in Nat : Digits[n] = DigitsStep(n, Digits)
  BY <1>9
<1>11. \A n \in Nat : Digits[n] \in Seq(48 .. 57)
  <2> DEFINE Bad == {n \in Nat : Digits[n] \notin Seq(48 .. 57)}
  <2> SUFFICES ASSUME Bad # {} PROVE FALSE
    OBVIOUS
  <2>1. PICK n \in Bad : \A m \in Bad : n <= m
    BY Least
  <2>2. n < 10 \/ Digits[n \div 10] \in Seq(48 .. 57)
    BY <2>1, SmallTenth
  <2>3. Digits[n] \in Seq(48 .. 57)
    BY <1>10, <2>1, <2>2, DigitsStepType
  <2> QED BY <2>1, <2>3
<1> QED BY <1>10, <1>11

(* v is the function that Decimal sums the digits up with.                  *)
Decimals(text, v) ==
  /\ v \in [0 .. Len(text) -> Int] /\ v[0] = 0
  /\ \A i \in 1 .. Len(text) : v[i] = 10 * v[i - 1] + text[i] - 48
  /\ Decimal(text) = v[Len(text)]
HasDecimals(text) == \E v : Decimals(text, v)

LEMMA DecimalDef ==
  ASSUME NEW text \in Seq(Nat)
  PROVE  HasDecimals(text)
<1> DEFINE n == Len(text)
           S == 0 .. n
           mu == [i \in S |-> i]
           step(i, v) == IF i = 0 THEN 0 ELSE 10 * v[i - 1] + text[i] - 48
           G == [p \in S \X [S -> Int] |-> step(p[1], p[2])]
<1>0. n \in Nat /\ \A i \in 1 .. n : text[i] \in Nat
  BY LenProperties, ElementOfSeq
<1>1. ASSUME NEW i \in S, NEW g \in [S -> Int]
      PROVE  G[<<i, g>>] = step(i, g) /\ G[<<i, g>>] \in Int
  <2>1. G[<<i, g>>] = step(i, g)
    OBVIOUS
  <2>2. i # 0 => i - 1 \in S /\ text[i] \in Nat
    BY <1>0
  <2>3. step(i, g) \in Int
    <3> HIDE DEF S
    <3> QED BY <2>2
  <2> QED BY <2>1, <2>3
<1>2. G \in [S \X [S -> Int] -> Int]
  <2>1. \A p \in S \X [S -> Int] : p = <<p[1], p[2]>> /\ p[1] \in S /\ p[2] \in [S -> Int]
    OBVIOUS
  <2>2. \A p \in S \X [S -> Int] : G[p] \in Int
    <3> HIDE DEF G, S
    <3> QED BY <1>1, <2>1
  <2> QED BY <2>2
<1>3. mu \in [S -> Nat] /\ \A i \in S : mu[i] = i
  BY <1>0
<1>4. DependsBelow(S, Int, mu, G)
  <2> SUFFICES ASSUME NEW i \in S, NEW g \in [S -> Int], NEW h \in [S -> Int],
                      \A m \in S : mu[m] < mu[i] => g[m] = h[m]
               PROVE  G[<<i, g>>] = G[<<i, h>>]
    BY DEF DependsBelow
  <2>1. i # 0 => g[i - 1] = h[i - 1]
    <3>1. i # 0 => i - 1 \in S /\ i - 1 < i
      BY <1>0
    <3> QED BY <1>3, <3>1
  <2>2. step(i, g) = step(i, h)
    BY <2>1, Zenon
  <2> HIDE DEF G, S, mu, step
  <2> QED BY <1>1, <2>2
<1> HIDE DEF G, mu
<1>5. Defines(S, Int, G)
  <2>1. 0 \in Int
    OBVIOUS
  <2> HIDE DEF S
  <2> QED BY <1>2, <1>3, <1>4, <2>1, Recursion
<1>6. PICK f \in [S -> Int] : f = [i \in S |-> G[<<i, f>>]]
  BY <1>5 DEF Defines
<1>7. f = [i \in S |-> step(i, f)]
  <2> HIDE DEF S, step
  <2> QED BY <1>1, <1>6
<1> DEFINE Is(g) == g = [i \in S |-> step(i, g)]
           v == CHOOSE g : Is(g)
<1>8. Decimal(text) = v[n]
  BY DEF Decimal
<1>9. Is(v)
  <2>1. Is(f)
    BY <1>7
  <2> HIDE DEF Is
  <2> QED BY <2>1
<1> HIDE DEF v
<1>10. DOMAIN v = S /\ \A i \in S : v[i] = step(i, v)
  BY <1>9
<1>11. 0 \in S /\ v[0] = 0
  <2>1. 0 \in S
    BY <1>0
  <2> QED BY <1>10, <2>1
<1>12. \A i \in 1 .. n : v[i] = 10 * v[i - 1] + text[i] - 48
  <2>1. \A i \in 1 .. n : i \in S /\ i # 0
    BY <1>0
  <2> QED BY <1>10, <2>1
<1>13. \A i \in S : v[i] \in Int
  <2> DEFINE Bad == {i \in S : v[i] \notin Int}
  <2> SUFFICES ASSUME Bad # {} PROVE FALSE
    OBVIOUS
  <2>1. Bad \subseteq Nat
    BY <1>0
  <2>2. PICK i \in Bad : \A j \in Bad : i <= j
    BY <2>1, Least
  <2>3. i # 0 /\ i \in 1 .. n /\ i - 1 \in S /\ ~(i <= i - 1) /\ text[i] \in Nat
    BY <1>0, <1>11, <2>2
  <2>4. v[i - 1] \in Int
    BY <2>2, <2>3
  <2>5. v[i] = 10 * v[i - 1] + text[i] - 48
    BY <1>12, <2>3
  <2>6. v[i] \in Int
    BY ONLY <2>3, <2>4, <2>5, SMTT(30)
  <2> QED BY <2>2, <2>6
<1>14. v \in [S -> Int]
  BY <1>9, <1>13
<1> QED BY <1>8, <1>11, <1>12, <1>14 DEF Decimals, HasDecimals

(* One more digit: ten times the number, and the digit.                     *)
LEMMA DecimalAppend ==
  ASSUME NEW text \in Seq(Nat), NEW d \in Nat
  PROVE  Decimal(text \o <<d>>) = 10 * Decimal(text) + d - 48
<1> DEFINE n == Len(text)
           longer == text \o <<d>>
<1>1. /\ n \in Nat /\ longer \in Seq(Nat) /\ Len(longer) = n + 1 /\ longer[n + 1] = d
      /\ \A i \in 1 .. n : longer[i] = text[i]
  <2>1. <<d>> \in Seq(Nat) /\ Len(<<d>>) = 1 /\ <<d>>[1] = d /\ n \in Nat
    BY LenProperties
  <2>2. /\ longer \in Seq(Nat) /\ Len(longer) = n + Len(<<d>>)
        /\ \A i \in 1 .. n + Len(<<d>>) : longer[i] = IF i <= n THEN text[i] ELSE <<d>>[i - n]
    BY ONLY text \in Seq(Nat), <2>1, ConcatProperties
  <2> HIDE DEF longer, n
  <2>3. \A i \in 1 .. n + 1 : longer[i] = IF i <= n THEN text[i] ELSE <<d>>[i - n]
    BY <2>1, <2>2
  <2>4. n + 1 \in 1 .. n + 1 /\ ~(n + 1 <= n) /\ n + 1 - n = 1 /\ \A i \in 1 .. n : i \in 1 .. n + 1 /\ i <= n
    BY <2>1
  <2> QED BY <2>1, <2>2, <2>3, <2>4
<1> HIDE DEF longer
<1>2. PICK v : Decimals(text, v)
  BY DecimalDef DEF HasDecimals
<1>3. PICK w : Decimals(longer, w)
  BY <1>1, DecimalDef DEF HasDecimals
<1>4. /\ v \in [0 .. n -> Int] /\ v[0] = 0 /\ Decimal(text) = v[n]
      /\ \A i \in 1 .. n : v[i] = 10 * v[i - 1] + text[i] - 48
  BY <1>2 DEF Decimals
<1>5. /\ w \in [0 .. n + 1 -> Int] /\ w[0] = 0 /\ Decimal(longer) = w[n + 1]
      /\ \A i \in 1 .. n + 1 : w[i] = 10 * w[i - 1] + longer[i] - 48
  BY <1>1, <1>3 DEF Decimals
<1> DEFINE Bad == {i \in 0 .. n : v[i] # w[i]}
<1>6. Bad = {}
  <2> SUFFICES ASSUME Bad # {} PROVE FALSE
    OBVIOUS
  <2>1. Bad \subseteq Nat
    BY <1>1
  <2>2. PICK i \in Bad : \A j \in Bad : i <= j
    BY <2>1, Least
  <2> HIDE DEF n
  <2>6. i # 0 /\ i \in 0 .. n /\ v[i] # w[i]
    BY <1>4, <1>5, <2>2
  <2>3. i \in 1 .. n /\ i \in 1 .. n + 1 /\ i - 1 \in 0 .. n /\ ~(i <= i - 1)
    BY <1>1, <2>6
  <2>4. v[i - 1] = w[i - 1]
    BY <2>2, <2>3
  <2>5. v[i] = 10 * v[i - 1] + text[i] - 48 /\ w[i] = 10 * w[i - 1] + longer[i] - 48 /\ longer[i] = text[i]
    BY <1>1, <1>4, <1>5, <2>3
  <2> QED BY <2>2, <2>4, <2>5
<1> HIDE DEF n
<1>7. w[n + 1] = 10 * w[n] + d - 48 /\ w[n] = v[n]
  <2>1. n \in 0 .. n /\ n + 1 \in 1 .. n + 1 /\ n + 1 - 1 = n
    BY <1>1
  <2>2. w[n] = v[n]
    BY <1>6, <2>1
  <2>3. w[n + 1] = 10 * w[n + 1 - 1] + longer[n + 1] - 48
    BY <1>5, <2>1
  <2>4. w[n + 1] = 10 * w[n] + d - 48
    BY <1>1, <2>1, <2>3
  <2> QED BY <2>2, <2>4
<1> QED BY <1>4, <1>5, <1>7 DEF longer

(* A number is read as it was written.                                      *)
LEMMA DecimalOfDigits ==
  ASSUME NEW n \in Nat
  PROVE  Decimal(Digits[n]) = n
<1> DEFINE Bad == {m \in Nat : Decimal(Digits[m]) # m}
<1> SUFFICES ASSUME Bad # {} PROVE FALSE
  OBVIOUS
<1>1. PICK m \in Bad : \A k \in Bad : m <= k
  BY Least
<1>2. Digits[m] = DigitsStep(m, Digits)
  BY DigitsDef
<1>3. CASE m < 10
  <2>1. Digits[m] = <<48 + m>> /\ 48 + m \in Nat
    BY <1>2, <1>3 DEF DigitsStep
  <2> DEFINE d == 48 + m
  <2>2. d \in Nat /\ d - 48 = m
    OBVIOUS
  <2> HIDE DEF d
  <2>3. <<>> \in Seq(Nat) /\ <<d>> \in Seq(Nat) /\ Len(<<>>) = 0
    BY <2>2
  <2>4. <<>> \o <<d>> = <<d>>
    BY ONLY <2>3, ConcatEmptySeq
  <2>5. Decimal(<<>>) = 0
    <3>1. PICK v : Decimals(<<>>, v)
      BY <2>3, DecimalDef DEF HasDecimals
    <3> QED BY <2>3, <3>1 DEF Decimals
  <2>6. Decimal(<<d>>) = 10 * Decimal(<<>>) + d - 48
    BY <2>2, <2>3, <2>4, DecimalAppend
  <2>7. Decimal(<<d>>) = m
    BY <2>2, <2>5, <2>6
  <2> QED BY <1>1, <2>1, <2>7 DEF d
<1>4. CASE ~(m < 10)
  <2> DEFINE q == m \div 10
             d == 48 + (m % 10)
  <2>1. q \in Nat /\ q < m /\ m = 10 * q + (m % 10) /\ d \in Nat /\ d - 48 = m % 10
    BY <1>4, SmallTenth
  <2>2. Digits[m] = Digits[q] \o <<d>>
    BY <1>2, <1>4 DEF DigitsStep
  <2> HIDE DEF q, d
  <2>3. Decimal(Digits[q]) = q
    BY <1>1, <2>1
  <2>4. Digits[q] \in Seq(Nat)
    <3>1. Digits[q] \in Seq(48 .. 57)
      BY <2>1, DigitsDef
    <3>2. \A i \in 1 .. Len(Digits[q]) : Digits[q][i] \in Nat
      BY <3>1, ElementOfSeq, SMTT(30)
    <3> DEFINE text == Digits[q]
    <3>3. Len(text) \in Nat /\ text = [i \in 1 .. Len(text) |-> text[i]]
      BY <3>1, LenProperties
    <3> HIDE DEF text
    <3>4. text \in Seq(Nat)
      BY <3>2, <3>3, SeqDef DEF text
    <3> QED BY <3>4 DEF text
  <2>5. Decimal(Digits[m]) = 10 * q + d - 48
    BY <2>1, <2>2, <2>3, <2>4, DecimalAppend
  <2> QED BY <1>1, <2>1, <2>5
<1> QED BY <1>3, <1>4

-----------------------------------------------------------------------------
(* The lines of a trailer.                                                  *)

(* The minimum and the maximum of a set of numbers.                         *)
LEMMA MinIs ==
  ASSUME NEW T, T \subseteq Nat, NEW x \in T, \A t \in T : x <= t
  PROVE  Min(T) = x
<1>1. Min(T) \in T /\ \A t \in T : Min(T) <= t
  BY LeastIs
<1> DEFINE m == Min(T)
<1>2. m \in Nat /\ x \in Nat /\ m <= x /\ x <= m
  BY <1>1
<1> HIDE DEF m
<1>3. m = x
  BY <1>2
<1> QED BY <1>3 DEF m

LEMMA MaxIs ==
  ASSUME NEW T, T \subseteq Nat, NEW x \in T, \A t \in T : t <= x
  PROVE  Max(T) = x
<1>1. x \in T /\ \A y \in T : x >= y
  OBVIOUS
<1> DEFINE m == CHOOSE z \in T : \A y \in T : z >= y
<1>2. m \in T /\ \A y \in T : m >= y
  BY <1>1
<1> HIDE DEF m
<1>3. m \in Nat /\ x \in Nat /\ m >= x /\ x >= m
  BY <1>1, <1>2
<1>4. m = x
  BY <1>3
<1> QED BY <1>4 DEF m, Max

(* The bytes of a \o b \o c.                                                *)
LEMMA ThreeParts ==
  ASSUME NEW T, NEW a \in Seq(T), NEW b \in Seq(T), NEW c \in Seq(T)
  PROVE  /\ (a \o b) \o c \in Seq(T)
         /\ Len((a \o b) \o c) = Len(a) + Len(b) + Len(c)
         /\ \A i \in 1 .. Len(a) : ((a \o b) \o c)[i] = a[i]
         /\ \A i \in 1 .. Len(b) : ((a \o b) \o c)[Len(a) + i] = b[i]
         /\ \A i \in 1 .. Len(c) : ((a \o b) \o c)[Len(a) + Len(b) + i] = c[i]
<1> DEFINE d == a \o b
           e == d \o c
           k == Len(a)
           m == Len(b)
           n == Len(c)
<1>1. k \in Nat /\ m \in Nat /\ n \in Nat
  BY LenProperties
<1>2. d \in Seq(T) /\ Len(d) = k + m /\ \A i \in 1 .. k + m : d[i] = IF i <= k THEN a[i] ELSE b[i - k]
  BY ConcatProperties
<1> HIDE DEF d
<1>3. /\ e \in Seq(T) /\ Len(e) = Len(d) + n
      /\ \A i \in 1 .. Len(d) + n : e[i] = IF i <= Len(d) THEN d[i] ELSE c[i - Len(d)]
  <2>1. d \in Seq(T)
    BY <1>2
  <2> QED BY ONLY <2>1, c \in Seq(T), ConcatProperties
<1> HIDE DEF e, k, m, n
<1>4. Len(e) = k + m + n /\ \A i \in 1 .. k + m + n : e[i] = IF i <= k + m THEN d[i] ELSE c[i - (k + m)]
  BY <1>1, <1>2, <1>3
<1>5. \A i \in 1 .. k : e[i] = a[i]
  <2>1. \A i \in 1 .. k : i \in 1 .. k + m /\ i \in 1 .. k + m + n /\ i <= k /\ i <= k + m
    BY <1>1
  <2> QED BY <1>2, <1>4, <2>1
<1>6. ASSUME NEW i \in 1 .. m PROVE e[k + i] = b[i]
  <2> DEFINE j == k + i
  <2>1. j \in 1 .. k + m /\ j \in 1 .. k + m + n /\ ~(j <= k) /\ j <= k + m /\ j - k = i
    BY <1>1
  <2> HIDE DEF j
  <2>2. e[j] = d[j] /\ d[j] = b[j - k]
    BY <1>2, <1>4, <2>1
  <2>3. e[j] = b[i]
    BY <2>1, <2>2
  <2> QED BY <2>3 DEF j
<1>7. ASSUME NEW i \in 1 .. n PROVE e[k + m + i] = c[i]
  <2> DEFINE j == k + m + i
  <2>1. j \in 1 .. k + m + n /\ ~(j <= k + m) /\ j - (k + m) = i
    BY <1>1
  <2> HIDE DEF j
  <2>2. e[j] = c[j - (k + m)]
    BY <1>4, <2>1
  <2>3. e[j] = c[i]
    BY <2>1, <2>2
  <2> QED BY <2>3 DEF j
<1> QED BY <1>3, <1>4, <1>5, <1>6, <1>7 DEF e, d, k, m, n

(* The message of a refusal.                                                *)
Talk(r) == IF r.talks THEN <<LineEnd, MessageMark, StatusMark, 48>> ELSE <<>>

(* The bytes of the lines.                                                  *)
LEMMA StatusLinesAre ==
  ASSUME NEW r, r.status \in Nat
  PROVE  LET text == StatusLines(r)
             digits == Digits[r.status]
         IN /\ text \in Seq(Bytes) /\ digits \in Seq(48 .. 57) /\ Len(digits) \in Nat \ {0}
            /\ Len(text) = 1 + Len(digits) + Len(Talk(r))
            /\ text[1] = StatusMark
            /\ \A i \in 1 .. Len(digits) : text[1 + i] = digits[i] /\ digits[i] \in 48 .. 57
            /\ \A i \in 1 .. Len(Talk(r)) : text[1 + Len(digits) + i] = Talk(r)[i]
<1> DEFINE n == r.status
           digits == Digits[n]
           talk == Talk(r)
           text == StatusLines(r)
           mark == <<StatusMark>>
<1>1. digits \in Seq(48 .. 57)
  BY DigitsDef
<1>2. \A i \in 1 .. Len(digits) : digits[i] \in 48 .. 57
  BY <1>1, ElementOfSeq
<1>3. digits \in Seq(Bytes) /\ Len(digits) \in Nat
  <2>1. Len(digits) \in Nat /\ DOMAIN digits = 1 .. Len(digits) /\ \A i \in 1 .. Len(digits) : digits[i] \in Bytes
    BY <1>1, <1>2, LenProperties DEF Bytes
  <2> QED BY <1>1, <2>1, SeqDef
<1>4. talk \in Seq(Bytes) /\ mark \in Seq(Bytes) /\ Len(mark) = 1 /\ mark[1] = StatusMark
  <2>1. 10 \in Bytes /\ 77 \in Bytes /\ 83 \in Bytes /\ 48 \in Bytes
    BY DEF Bytes
  <2>2. mark \in Seq(Bytes) /\ Len(mark) = 1 /\ mark[1] = StatusMark
    BY <2>1 DEF StatusMark
  <2>3. talk = <<>> \/ talk = <<10, 77, 83, 48>>
    BY DEF Talk, StatusMark, MessageMark, LineEnd
  <2>4. <<>> \in Seq(Bytes) /\ <<10, 77, 83, 48>> \in Seq(Bytes)
    BY <2>1
  <2> QED BY <2>2, <2>3, <2>4
<1>5. text = (mark \o digits) \o talk
  BY DEF StatusLines, Talk
<1>6. Len(digits) # 0
  <2>1. digits = DigitsStep(n, Digits)
    BY DigitsDef
  <2>2. CASE n < 10
    <3>1. digits = <<48 + n>>
      BY <2>1, <2>2 DEF DigitsStep
    <3> HIDE DEF digits
    <3> QED BY <3>1
  <2>3. CASE ~(n < 10)
    <3> DEFINE q == Digits[n \div 10]
               last == <<48 + (n % 10)>>
    <3>1. digits = q \o last
      BY <2>1, <2>3 DEF DigitsStep
    <3>5. n \div 10 \in Nat /\ 48 + (n % 10) \in 48 .. 57
      BY <2>3, SmallTenth
    <3>2. q \in Seq(48 .. 57) /\ last \in Seq(48 .. 57) /\ Len(last) = 1
      BY <3>5, DigitsDef
    <3> HIDE DEF q, last
    <3>3. Len(q \o last) = Len(q) + Len(last) /\ Len(q) \in Nat
      BY <3>2, ConcatProperties, LenProperties
    <3>4. Len(q \o last) # 0
      BY <3>2, <3>3
    <3> QED BY <3>1, <3>4
  <2> QED BY <2>2, <2>3
<1> HIDE DEF mark, digits, talk, text
<1>7. /\ text \in Seq(Bytes) /\ Len(text) = Len(mark) + Len(digits) + Len(talk)
      /\ \A i \in 1 .. Len(mark) : text[i] = mark[i]
      /\ \A i \in 1 .. Len(digits) : text[Len(mark) + i] = digits[i]
      /\ \A i \in 1 .. Len(talk) : text[Len(mark) + Len(digits) + i] = talk[i]
  <2>1. mark \in Seq(Bytes) /\ talk \in Seq(Bytes) /\ digits \in Seq(Bytes)
    BY <1>3, <1>4
  <2> DEFINE all == (mark \o digits) \o talk
  <2>2. /\ all \in Seq(Bytes) /\ Len(all) = Len(mark) + Len(digits) + Len(talk)
        /\ \A i \in 1 .. Len(mark) : all[i] = mark[i]
        /\ \A i \in 1 .. Len(digits) : all[Len(mark) + i] = digits[i]
        /\ \A i \in 1 .. Len(talk) : all[Len(mark) + Len(digits) + i] = talk[i]
    BY ONLY <2>1, ThreeParts
  <2> HIDE DEF all
  <2> QED BY <1>5, <2>2 DEF all
<1>8. text[1] = StatusMark
  <2>1. 1 \in 1 .. 1
    OBVIOUS
  <2> QED BY <1>4, <1>7, <2>1
<1> QED BY <1>1, <1>2, <1>3, <1>4, <1>6, <1>7, <1>8 DEF digits, talk, text

(* The status is read of the lines, whether a message follows or not: the   *)
(* status it quotes is not at the beginning of a line.                      *)
LEMMA StatusIsRead ==
  ASSUME NEW r, r.status \in Nat
  PROVE  StatusText(StatusLines(r)) = Digits[r.status]
<1> DEFINE digits == Digits[r.status]
           n == Len(digits)
           talk == Talk(r)
           t == Len(talk)
           text == StatusLines(r)
           marks == {i \in DOMAIN text : StatusLine(text, i)}
           ends == {i \in 1 + 1 .. Len(text) : text[i] = LineEnd} \cup {Len(text) + 1}
<1>1. /\ text \in Seq(Bytes) /\ digits \in Seq(48 .. 57) /\ n \in Nat \ {0}
      /\ Len(text) = 1 + n + t /\ text[1] = StatusMark
      /\ \A i \in 1 .. n : text[1 + i] = digits[i] /\ digits[i] \in 48 .. 57
      /\ \A i \in 1 .. t : text[1 + n + i] = talk[i]
  BY StatusLinesAre
<1>2. \/ talk = <<>> /\ t = 0
      \/ talk = <<LineEnd, MessageMark, StatusMark, 48>> /\ t = 4
  BY DEF Talk
<1>12. t \in Nat
  BY <1>2
<1>3. DOMAIN text = 1 .. 1 + n + t
  BY <1>1, LenProperties
<1> HIDE DEF text, talk, t, digits
<1>4. \A i \in 2 .. 1 + n : text[i] \in 48 .. 57
  <2>1. \A i \in 2 .. 1 + n : i - 1 \in 1 .. n /\ 1 + (i - 1) = i
    BY <1>1
  <2> QED BY <1>1, <2>1
<1>5. marks = {1}
  <2>1. 1 \in marks
    <3>1. 1 \in 1 .. 1 + n + t
      BY <1>1, <1>12
    <3> QED BY <1>1, <1>3, <3>1 DEF StatusLine
  <2>2. ASSUME NEW i \in marks PROVE i = 1
    <3>1. i \in 1 .. 1 + n + t /\ text[i] = StatusMark /\ (i = 1 \/ text[i - 1] = LineEnd)
      BY <1>3 DEF StatusLine
    <3> HIDE DEF n
    <3>2. i \notin 2 .. 1 + n
      BY <1>4, <3>1 DEF StatusMark
    <3>3. ASSUME i # 1 PROVE FALSE
      <4>1. i - 1 - n \in 1 .. t /\ 1 + n + (i - 1 - n) = i
        BY <1>1, <1>12, <3>1, <3>2, <3>3
      <4>2. talk = <<LineEnd, MessageMark, StatusMark, 48>> /\ t = 4
        <5>1. t # 0
          BY <4>1
        <5> QED BY <1>2, <5>1
      <4>3. talk[i - 1 - n] = StatusMark
        BY <1>1, <3>1, <4>1
      <4>4. i - 1 - n = 3
        <5>1. talk[1] = 10 /\ talk[2] = 77 /\ talk[4] = 48
          BY <4>2 DEF LineEnd, MessageMark
        <5>2. i - 1 - n \in {1, 2, 3, 4}
          BY <4>1, <4>2
        <5> QED BY <4>3, <5>1, <5>2 DEF StatusMark
      <4>5. i - 1 = 1 + n + 2 /\ 2 \in 1 .. t
        BY <1>1, <3>1, <4>2, <4>4
      <4>6. text[i - 1] = talk[2] /\ talk[2] = 77
        BY <1>1, <4>2, <4>5 DEF MessageMark
      <4> QED BY <3>1, <3>3, <4>6 DEF LineEnd
    <3> QED BY <3>3
  <2> QED BY <2>1, <2>2
<1>6. Max(marks) = 1
  BY <1>5, MaxIs
<1>7. Min(ends) = n + 2
  <2>1. ends \subseteq Nat
    BY <1>1, <1>12
  <2> HIDE DEF n
  <2>2. n + 2 \in ends
    <3>1. CASE t = 0
      <4>1. Len(text) + 1 = n + 2
        BY <1>1, <3>1
      <4> QED BY <4>1
    <3>2. CASE t # 0
      <4>1. talk[1] = LineEnd /\ 1 \in 1 .. t /\ t = 4
        BY <1>2, <3>2
      <4>2. 1 + n + 1 = n + 2 /\ n + 2 \in 1 + 1 .. Len(text)
        BY <1>1, <4>1
      <4>3. text[n + 2] = LineEnd
        BY <1>1, <4>1, <4>2
      <4> QED BY <4>2, <4>3
    <3> QED BY <3>1, <3>2
  <2>3. \A i \in ends : n + 2 <= i
    <3> SUFFICES ASSUME NEW i \in ends PROVE n + 2 <= i
      OBVIOUS
    <3>1. CASE i = Len(text) + 1
      BY <1>1, <1>12, <3>1
    <3>2. CASE i \in 1 + 1 .. Len(text) /\ text[i] = LineEnd
      <4>1. i \notin 2 .. 1 + n
        BY <1>4, <3>2 DEF LineEnd
      <4> QED BY <1>1, <1>12, <3>2, <4>1
    <3> QED BY <3>1, <3>2
  <2> HIDE DEF ends
  <2> QED BY <2>1, <2>2, <2>3, MinIs
<1>8. StatusText(text) = SubSeq(text, Max(marks) + 1, Min({i \in Max(marks) + 1 .. Len(text) : text[i] = LineEnd} \cup {Len(text) + 1}) - 1)
  <2>1. marks # {}
    BY <1>5
  <2> QED BY <2>1, Zenon DEF StatusText
<1>9. StatusText(text) = SubSeq(text, 1 + 1, Min(ends) - 1)
  BY <1>6, <1>8, Zenon
<1> HIDE DEF ends, marks
<1>10. StatusText(text) = SubSeq(text, 2, n + 1)
  <2>1. 1 + 1 = 2 /\ n + 2 - 1 = n + 1
    BY <1>1
  <2>2. Min(ends) - 1 = n + 1
    <3> DEFINE x == Min(ends)
    <3>1. x = n + 2 /\ n \in Nat
      BY <1>1, <1>7
    <3> HIDE DEF n, x
    <3>2. x - 1 = n + 1
      BY <3>1
    <3> QED BY <3>2 DEF n, x
  <2> QED BY <1>9, <2>1, <2>2, Zenon
<1>11. SubSeq(text, 2, n + 1) = digits
  <2> DEFINE s == SubSeq(text, 2, n + 1)
  <2>1. 2 \in Positions /\ n + 1 \in Nat /\ n + 1 <= Len(text) /\ 2 <= n + 1 + 1 /\ n + 1 - 2 + 1 = n
    BY <1>1, <1>12 DEF Positions
  <2>2. s \in Seq(Bytes) /\ Len(s) = n /\ \A i \in 1 .. n : s[i] = text[2 + i - 1]
    BY <1>1, <2>1, Part
  <2>3. \A i \in 1 .. n : 2 + i - 1 = 1 + i
    BY <1>1
  <2>4. \A i \in 1 .. n : s[i] = digits[i]
    BY <1>1, <2>2, <2>3
  <2> HIDE DEF s
  <2>5. s = digits
    BY <1>1, <2>2, <2>4, SeqEqual
  <2> QED BY <2>5 DEF s
<1> QED BY <1>10, <1>11 DEF text, digits

LEMMA ShortLines ==
  ASSUME NEW r, r.status \in Nat, Len(Digits[r.status]) <= 10
  PROVE  Len(StatusLines(r)) \in 0 .. 15
<1> DEFINE k == Len(Digits[r.status])
           t == Len(Talk(r))
           l == Len(StatusLines(r))
<1>1. Len(Talk(r)) \in {0, 4}
  BY DEF Talk
<1>2. k \in Nat /\ k <= 10 /\ t \in {0, 4} /\ l = 1 + k + t
  BY <1>1, StatusLinesAre
<1> HIDE DEF k, t, l
<1>3. l \in 0 .. 15
  BY <1>2
<1> QED BY <1>3 DEF l

-----------------------------------------------------------------------------
(* The sweep for an id finds none in front of it.                           *)

(* No two characters of an id follow one another and the first is none: no  *)
(* id begins in s.                                                          *)
Calm(s) ==
  /\ s \in Seq(Bytes) /\ Len(s) > 0 /\ ~UuidChar(s[1])
  /\ \A i \in 1 .. Len(s) - 1 : ~(UuidChar(s[i]) /\ UuidChar(s[i + 1]))

LEMMA CalmConcat ==
  ASSUME NEW s, NEW t, Calm(s), Calm(t)
  PROVE  Calm(s \o t)
<1> DEFINE m == Len(s)
           n == Len(t)
           st == s \o t
<1>1. s \in Seq(Bytes) /\ t \in Seq(Bytes) /\ m \in Nat /\ n \in Nat /\ m > 0 /\ n > 0
  BY LenProperties DEF Calm
<1>2. /\ ~UuidChar(s[1]) /\ ~UuidChar(t[1])
      /\ \A i \in 1 .. m - 1 : ~(UuidChar(s[i]) /\ UuidChar(s[i + 1]))
      /\ \A i \in 1 .. n - 1 : ~(UuidChar(t[i]) /\ UuidChar(t[i + 1]))
  BY DEF Calm
<1>3. st \in Seq(Bytes) /\ Len(st) = m + n /\ \A i \in 1 .. m + n : st[i] = IF i <= m THEN s[i] ELSE t[i - m]
  BY <1>1, ConcatProperties
<1> HIDE DEF m, n, st
<1>4. ~UuidChar(st[1])
  <2>1. 1 \in 1 .. m + n /\ 1 <= m
    BY <1>1
  <2> QED BY <1>2, <1>3, <2>1
<1>5. ASSUME NEW i \in 1 .. m + n - 1 PROVE ~(UuidChar(st[i]) /\ UuidChar(st[i + 1]))
  <2> DEFINE k == i + 1
  <2>1. i \in 1 .. m + n /\ k \in 1 .. m + n
    BY <1>1
  <2>2. CASE k <= m
    <3>1. i \in 1 .. m - 1 /\ i <= m
      BY <1>1, <2>2
    <3>2. st[i] = s[i] /\ st[k] = s[k]
      BY <1>3, <2>1, <2>2, <3>1
    <3> QED BY <1>2, <3>1, <3>2
  <2>3. CASE i = m
    <3>1. ~(k <= m) /\ k - m = 1
      BY <1>1, <2>3
    <3>2. st[k] = t[1]
      BY <1>3, <2>1, <3>1
    <3> QED BY <1>2, <3>2
  <2>4. CASE i > m
    <3> DEFINE j == i - m
               l == k - m
    <3>1. ~(i <= m) /\ ~(k <= m) /\ j \in 1 .. n - 1 /\ l = j + 1
      BY <1>1, <2>4
    <3>2. st[i] = t[j] /\ st[k] = t[l]
      BY <1>3, <2>1, <3>1
    <3> HIDE DEF j, l, k
    <3>3. ~(UuidChar(t[j]) /\ UuidChar(t[l]))
      BY <1>2, <3>1
    <3>4. ~(UuidChar(st[i]) /\ UuidChar(st[k]))
      BY <3>2, <3>3
    <3> QED BY <3>4 DEF k
  <2>5. k <= m \/ i = m \/ i > m
    BY <1>1
  <2> QED BY <2>2, <2>3, <2>4, <2>5
<1>6. m + n > 0
  BY <1>1
<1> QED BY <1>3, <1>4, <1>5, <1>6 DEF Calm, st

LEMMA CalmByte ==
  ASSUME NEW b \in Bytes, ~UuidChar(b)
  PROVE  Calm(<<b>>)
<1> DEFINE s == <<b>>
<1>1. s \in Seq(Bytes) /\ Len(s) = 1 /\ s[1] = b
  OBVIOUS
<1> HIDE DEF s
<1>2. Calm(s)
  BY <1>1 DEF Calm
<1> QED BY <1>2 DEF s

LEMMA HighBytes ==
  ASSUME NEW n \in Nat
  PROVE  \A i \in 1 .. Len(Varint[n]) - 1 : Varint[n][i] > 127
<1> DEFINE High(m) == \A i \in 1 .. Len(Varint[m]) - 1 : Varint[m][i] > 127
           Bad == {m \in Nat : ~High(m)}
<1> SUFFICES ASSUME Bad # {} PROVE FALSE
  OBVIOUS
<1>1. PICK m \in Bad : \A k \in Bad : m <= k
  <2>1. Bad \subseteq Nat /\ Bad # {}
    OBVIOUS
  <2> HIDE DEF Bad
  <2> QED BY ONLY <2>1, Least
<1>2. CASE ~(m > 127)
  <2>1. Varint[m] = <<m>>
    BY <1>2, VarintDef
  <2>2. Len(<<m>>) = 1
    OBVIOUS
  <2>3. Len(Varint[m]) = 1
    BY <2>1, <2>2
  <2>4. High(m)
    BY <2>3
  <2> HIDE DEF High
  <2> QED BY <1>1, <2>4
<1>3. CASE m > 127
  <2> DEFINE q == m \div 128
             b == (m % 128) + 128
             v == Varint[q]
             w == Varint[m]
  <2>1. q \in Nat /\ q < m /\ b \in Bytes /\ b > 127
    BY <1>3, SmallDivisor DEF Bytes
  <2>2. v \in Seq(Bytes) /\ w = <<b>> \o v
    <3>1. v \in Seq(Bytes)
      BY <2>1, VarintDef
    <3>2. w = IF m > 127 THEN <<b>> \o v ELSE <<m>>
      BY VarintDef, Zenon
    <3> HIDE DEF v, w, b
    <3> QED BY ONLY <1>3, <3>1, <3>2
  <2>3. High(q)
    <3>1. m \in Nat /\ \A k \in Bad : m <= k
      BY <1>1
    <3> HIDE DEF High, Bad, q
    <3>2. q \notin Bad
      BY ONLY <2>1, <3>1
    <3> QED BY <2>1, <3>2 DEF Bad
  <2>4. \A i \in 1 .. Len(v) - 1 : v[i] > 127
    BY <2>3
  <2> HIDE DEF q, b, v, w
  <2>5. <<b>> \in Seq(Bytes) /\ Len(<<b>>) = 1 /\ <<b>>[1] = b /\ Len(v) \in Nat
    BY <2>1, <2>2, LenProperties
  <2>6. /\ Len(<<b>> \o v) = Len(<<b>>) + Len(v)
        /\ \A i \in 1 .. Len(<<b>>) + Len(v) : (<<b>> \o v)[i] = IF i <= Len(<<b>>) THEN <<b>>[i] ELSE v[i - Len(<<b>>)]
    BY ONLY <2>2, <2>5, ConcatProperties
  <2>7. Len(w) = 1 + Len(v) /\ \A i \in 1 .. 1 + Len(v) : w[i] = IF i <= 1 THEN <<b>>[i] ELSE v[i - 1]
    BY <2>2, <2>5, <2>6
  <2> DEFINE n1 == Len(v)
  <2>8. ASSUME NEW i \in 1 .. Len(w) - 1 PROVE w[i] > 127
    <3>1. n1 \in Nat /\ Len(w) = 1 + n1
      BY <2>5, <2>7
    <3>2. i \in 1 .. 1 + n1
      <4> HIDE DEF n1
      <4> QED BY <3>1
    <3>3. CASE i = 1
      BY <2>1, <2>5, <2>7, <3>2, <3>3
    <3>4. CASE i # 1
      <4>1. ~(i <= 1) /\ i - 1 \in 1 .. n1 - 1
        <5> HIDE DEF n1
        <5> QED BY <3>1, <3>4
      <4>2. w[i] = v[i - 1]
        BY <2>7, <3>2, <4>1
      <4> QED BY <2>4, <4>1, <4>2
    <3> QED BY <3>3, <3>4
  <2> QED BY <1>1, <2>8 DEF w
<1> QED BY <1>2, <1>3

LEMMA CalmVarint ==
  ASSUME NEW b \in Bytes, ~UuidChar(b), NEW n \in Nat
  PROVE  Calm(<<b>> \o Varint[n])
<1> DEFINE v == Varint[n]
           s == <<b>> \o v
           m == Len(v)
<1>1. v \in Seq(Bytes) /\ \A i \in 1 .. m - 1 : v[i] > 127
  BY VarintDef, HighBytes
<1>2. m \in Nat /\ <<b>> \in Seq(Bytes) /\ Len(<<b>>) = 1 /\ <<b>>[1] = b
  BY <1>1, LenProperties
<1> HIDE DEF v
<1>3. /\ s \in Seq(Bytes) /\ Len(s) = Len(<<b>>) + Len(v)
      /\ \A i \in 1 .. Len(<<b>>) + Len(v) : s[i] = IF i <= Len(<<b>>) THEN <<b>>[i] ELSE v[i - Len(<<b>>)]
  BY ONLY <1>1, <1>2, ConcatProperties
<1> HIDE DEF s, m
<1>4. Len(s) = 1 + m /\ \A i \in 1 .. 1 + m : s[i] = IF i <= 1 THEN <<b>>[i] ELSE v[i - 1]
  BY <1>2, <1>3 DEF m
<1>5. s[1] = b
  <2>1. 1 \in 1 .. 1 + m
    BY <1>2
  <2> QED BY <1>2, <1>4, <2>1
<1>6. ASSUME NEW i \in 1 .. Len(s) - 1 PROVE ~(UuidChar(s[i]) /\ UuidChar(s[i + 1]))
  <2>1. i \in 1 .. m
    BY <1>2, <1>4
  <2>2. CASE i = 1
    BY <1>5, <2>2
  <2>3. CASE i # 1
    <3>1. ~(i <= 1) /\ i \in 1 .. 1 + m /\ i - 1 \in 1 .. m - 1
      BY <1>2, <2>1, <2>3
    <3>2. s[i] = v[i - 1] /\ v[i - 1] > 127
      BY <1>1, <1>4, <3>1
    <3>3. v[i - 1] \in Bytes
      <4>1. i - 1 \in 1 .. m
        BY <1>2, <3>1
      <4> QED BY <1>1, <4>1, ElementOfSeq DEF m
    <3>4. s[i] \in Bytes /\ s[i] > 127
      BY <3>2, <3>3
    <3> QED BY <3>4 DEF UuidChar, Bytes
  <2> QED BY <2>2, <2>3
<1>7. Len(s) > 0
  BY <1>2, <1>4
<1> QED BY <1>3, <1>5, <1>6, <1>7 DEF Calm, s, v

(* An id that follows a calm text is found.                                 *)
LEMMA SweepFinds ==
  ASSUME NEW s, Calm(s), ~UuidChar(s[Len(s)]), NEW u \in Uuids
  PROVE  Sweep(s \o u) = u
<1> DEFINE m == Len(s)
           n == Len(u)
           p == s \o u
           At(i) == {v \in Uuids : i + Len(v) - 1 <= Len(p) /\ SubSeq(p, i, i + Len(v) - 1) = v}
           found == {i \in DOMAIN p : At(i) # {}}
<1>1. /\ u \in Seq(Bytes) /\ n \in 2 .. 44 /\ \A i \in DOMAIN u : UuidChar(u[i])
      /\ \A v \in Uuids : v \in Seq(Bytes) /\ Len(v) = n /\ \A i \in DOMAIN v : UuidChar(v[i])
  BY UuidAssumption
<1>2. s \in Seq(Bytes) /\ m \in Nat /\ m > 0 /\ \A i \in 1 .. m - 1 : ~(UuidChar(s[i]) /\ UuidChar(s[i + 1]))
  BY LenProperties DEF Calm
<1>3. p \in Seq(Bytes) /\ Len(p) = m + n /\ \A i \in 1 .. m + n : p[i] = IF i <= m THEN s[i] ELSE u[i - m]
  BY <1>1, <1>2, ConcatProperties
<1>4. DOMAIN p = 1 .. m + n
  BY <1>3, LenProperties
<1>5. Sweep(p) = IF found = {} THEN None ELSE CHOOSE v \in At(Min(found)) : TRUE
  BY DEF Sweep
<1> HIDE DEF m, n, p
<1>6. m + 1 \in found /\ At(m + 1) = {u}
  <2>1. m + 1 \in 1 .. m + n /\ m + 1 + n - 1 = m + n
    BY <1>1, <1>2
  <2> DEFINE t == SubSeq(p, m + 1, m + n)
  <2>2. t = u
    <3> DEFINE a == m + 1
               e == m + n
    <3>1. a \in Positions /\ e \in Nat /\ e <= Len(p) /\ a <= e + 1 /\ e - a + 1 = n
      BY <1>1, <1>2, <1>3 DEF Positions
    <3>2. t \in Seq(Bytes) /\ Len(t) = n /\ \A i \in 1 .. n : t[i] = p[m + 1 + i - 1]
      <4> HIDE DEF a, e
      <4>1. /\ SubSeq(p, a, e) \in Seq(Bytes) /\ Len(SubSeq(p, a, e)) = n
            /\ \A i \in 1 .. n : SubSeq(p, a, e)[i] = p[a + i - 1]
        BY <1>3, <3>1, Part
      <4> QED BY <4>1 DEF a, e
    <3> HIDE DEF t
    <3>3. \A i \in 1 .. n : t[i] = u[i]
      <4> SUFFICES ASSUME NEW i \in 1 .. n PROVE t[i] = u[i]
        OBVIOUS
      <4> DEFINE k == m + 1 + i - 1
      <4>1. k \in 1 .. m + n /\ ~(k <= m) /\ k - m = i
        BY <1>1, <1>2
      <4>2. t[i] = p[k]
        BY <3>2
      <4> HIDE DEF k
      <4>3. p[k] = u[k - m]
        BY <1>3, <4>1
      <4> QED BY <4>1, <4>2, <4>3
    <3> QED BY <1>1, <3>2, <3>3, SeqEqual DEF n
  <2>3. \A v \in Uuids : Len(v) = n /\ m + 1 + Len(v) - 1 = m + n
    BY <1>1, <2>1
  <2>4. \A v \in Uuids : SubSeq(p, m + 1, m + 1 + Len(v) - 1) = u
    BY <2>2, <2>3
  <2>5. \A v \in Uuids : m + 1 + Len(v) - 1 <= Len(p)
    BY <1>1, <1>2, <1>3, <2>3
  <2>6. At(m + 1) = {u}
    BY <2>4, <2>5
  <2> QED BY <1>4, <2>1, <2>6
<1>7. ASSUME NEW i \in found PROVE m + 1 <= i
  <2> SUFFICES ASSUME ~(m + 1 <= i) PROVE FALSE
    OBVIOUS
  <2>1. i \in 1 .. m /\ i \in 1 .. m + n
    BY <1>1, <1>2, <1>4
  <2>2. PICK v \in Uuids : i + Len(v) - 1 <= Len(p) /\ SubSeq(p, i, i + Len(v) - 1) = v
    OBVIOUS
  <2>3. Len(v) = n /\ v \in Seq(Bytes) /\ \A k \in DOMAIN v : UuidChar(v[k])
    BY <1>1
  <2> DEFINE e == i + n - 1
             t == SubSeq(p, i, e)
  <2>4. t = v /\ e <= m + n
    BY <1>3, <2>2, <2>3
  <2>5. i \in Positions /\ e \in Nat /\ e <= Len(p) /\ i <= e + 1 /\ e - i + 1 = n
    BY <1>1, <1>2, <1>3, <2>1, <2>4 DEF Positions
  <2>6. \A k \in 1 .. n : t[k] = p[i + k - 1]
    <3> HIDE DEF e
    <3> QED BY <1>3, <2>5, Part
  <2>7. 1 \in 1 .. n /\ 2 \in 1 .. n /\ i + 1 - 1 = i /\ i + 2 - 1 = i + 1 /\ DOMAIN v = 1 .. n
    BY <1>1, <2>1, <2>3, LenProperties
  <2>8. v[1] = p[i] /\ v[2] = p[i + 1]
    BY <2>4, <2>6, <2>7
  <2>9. UuidChar(p[i]) /\ UuidChar(p[i + 1])
    BY <2>3, <2>7, <2>8
  <2>10. p[i] = s[i]
    BY <1>3, <2>1
  <2>11. i # m
    BY <2>9, <2>10 DEF m
  <2>12. i \in 1 .. m - 1 /\ i + 1 <= m /\ i + 1 \in 1 .. m + n
    BY <1>1, <1>2, <2>1, <2>11
  <2>13. p[i + 1] = s[i + 1]
    BY <1>3, <2>12
  <2> QED BY <1>2, <2>9, <2>10, <2>12, <2>13
<1>8. Min(found) = m + 1
  <2>1. found \subseteq Nat
    BY <1>1, <1>2, <1>4
  <2> HIDE DEF found
  <2> QED BY <1>6, <1>7, <2>1, MinIs
<1>9. (CHOOSE v \in At(m + 1) : TRUE) = u
  BY <1>6
<1>10. Sweep(p) = CHOOSE v \in At(m + 1) : TRUE
  <2>1. found # {}
    BY <1>6
  <2> HIDE DEF found
  <2> QED BY <1>5, <1>8, <2>1
<1> QED BY <1>9, <1>10 DEF p

-----------------------------------------------------------------------------
(* An acknowledgement, in each of its layouts.                              *)

(* Fields with a number have been read without an error.                    *)
LEMMA NoRaise ==
  ASSUME NEW fs, ~Has(fs, 0)
  PROVE  ~Raises(fs)
<1> SUFFICES ASSUME Raises(fs) PROVE FALSE
  OBVIOUS
<1>1. PICK i \in DOMAIN fs : fs[i] = Raised
  BY DEF Raises, ToSet
<1>2. Raised.num = 0
  BY DEF Raised, Field
<1> QED BY <1>1, <1>2 DEF Has

(* Two or three fields, numbered from 1.                                    *)
LEMMA TwoAre ==
  ASSUME NEW f \in AField, NEW g \in AField, f.num = 1, g.num = 2
  PROVE  LET fs == <<f>> \o <<g>>
         IN /\ fs \in Seq(AField) /\ ~Raises(fs)
            /\ Has(fs, 1) /\ First(fs, 1) = f /\ Has(fs, 2) /\ First(fs, 2) = g
<1> DEFINE fs == <<f>> \o <<g>>
<1>1. <<f>> \in Seq(AField) /\ <<g>> \in Seq(AField)
  OBVIOUS
<1>2. \A k : (Has(<<f>>, k) <=> 1 = k) /\ (Has(<<g>>, k) <=> 2 = k)
  BY OneField
<1>3. fs \in Seq(AField) /\ \A k : Has(fs, k) <=> Has(<<f>>, k) \/ Has(<<g>>, k)
  BY <1>1, EitherHas
<1>4. Has(fs, 1) /\ Has(fs, 2) /\ ~Has(fs, 0)
  BY <1>2, <1>3
<1>5. First(fs, 1) = f /\ First(fs, 2) = g
  BY TwoFields
<1> HIDE DEF fs
<1>6. ~Raises(fs)
  BY <1>4, NoRaise
<1> QED BY <1>3, <1>4, <1>5, <1>6 DEF fs

LEMMA ThreeAre ==
  ASSUME NEW f \in AField, NEW g \in AField, NEW h \in AField, f.num = 1, g.num = 2, h.num = 3
  PROVE  LET fs == (<<f>> \o <<g>>) \o <<h>>
         IN /\ fs \in Seq(AField) /\ ~Raises(fs)
            /\ Has(fs, 1) /\ First(fs, 1) = f /\ Has(fs, 2) /\ First(fs, 2) = g
<1> DEFINE two == <<f>> \o <<g>>
           fs == two \o <<h>>
<1>1. /\ two \in Seq(AField) /\ Has(two, 1) /\ First(two, 1) = f /\ Has(two, 2) /\ First(two, 2) = g
  BY TwoAre
<1>2. ~Has(two, 0)
  <2>1. <<f>> \in Seq(AField) /\ <<g>> \in Seq(AField)
    OBVIOUS
  <2>2. ~Has(<<f>>, 0) /\ ~Has(<<g>>, 0)
    BY OneField
  <2> QED BY <2>1, <2>2, EitherHas
<1>3. <<h>> \in Seq(AField)
  OBVIOUS
<1>4. ~Has(<<h>>, 0)
  BY OneField
<1> HIDE DEF two
<1>5. fs \in Seq(AField) /\ \A k : Has(fs, k) <=> Has(two, k) \/ Has(<<h>>, k)
  BY <1>1, <1>3, EitherHas
<1>6. First(fs, 1) = f /\ First(fs, 2) = g
  BY <1>1, <1>3, EitherHas
<1>7. Has(fs, 1) /\ Has(fs, 2) /\ ~Has(fs, 0)
  BY <1>1, <1>2, <1>4, <1>5
<1> HIDE DEF fs
<1>8. ~Raises(fs)
  BY <1>7, NoRaise
<1> QED BY <1>5, <1>6, <1>7, <1>8 DEF fs, two

(* What the client makes of the fields of an acknowledgement: the id as it  *)
(* stands in the first, or swept from the payload, and the number inside of *)
(* the second.                                                              *)
LEMMA FieldsAreAck ==
  ASSUME NEW p, NEW fs, FieldsOf(p) = fs, ~Raises(fs),
         NEW f \in AField, NEW g \in AField, NEW h \in AField, f.bytes # None, h.num = 1,
         Has(fs, 1), First(fs, 1) = f, Has(fs, 2), First(fs, 2) = g,
         g.bytes # None, FieldsOf(g.bytes) = <<h>>
  PROVE  /\ ~Malformed(p)
         /\ Acked(p) = [id |-> IF IsText(f.bytes) THEN f.bytes ELSE Sweep(p), number |-> h.int]
<1>1. Nested(fs, 2) = <<h>>
  BY DEF Nested
<1>2. Has(<<h>>, 1) /\ First(<<h>>, 1) = h /\ ~Has(<<h>>, 0)
  BY OneField
<1>3. ~Raises(<<h>>)
  BY <1>2, NoRaise
<1>4. ~Malformed(p)
  BY <1>1, <1>3, Zenon DEF Malformed
<1>5. IdIn(p, fs) = IF IsText(f.bytes) THEN f.bytes ELSE Sweep(p)
  BY Zenon DEF IdIn
<1>6. NumberIn(fs) = h.int
  BY <1>1, <1>2, Zenon DEF NumberIn
<1>7. Acked(p) = [id |-> IdIn(p, fs), number |-> NumberIn(fs)]
  BY DEF Acked
<1> QED BY <1>4, <1>5, <1>6, <1>7

LEMMA UuidIsText ==
  ASSUME NEW u \in Uuids
  PROVE  u \in Seq(Bytes) /\ IsText(u)
<1>1. u \in Seq(Bytes) /\ \A i \in DOMAIN u : UuidChar(u[i])
  BY UuidAssumption
<1> QED BY <1>1 DEF IsText, UuidChar

(* The client reads the id and the number in p.                             *)
ReadsAck(p, id, number) ==
  p \in Seq(Bytes) /\ ~Malformed(p) /\ Acked(p) = [id |-> id, number |-> number]

LEMMA UsualIsRead ==
  ASSUME NEW id \in Uuids, NEW number \in Nat
  PROVE  ReadsAck(Ids("usual", id, number), id, number)
<1> DEFINE in == FieldVarint(1, number)
           f == Field(1, None, id)
           g == Field(2, None, in)
           h == Field(1, number, None)
           p == FieldBytes(1, id) \o FieldBytes(2, in)
<1>1. id \in Seq(Bytes) /\ IsText(id) /\ id # None
  BY UuidIsText, NoneAssumption
<1>2. Encodes(in, <<h>>)
  BY VarintFieldIsRead
<1>3. in \in Seq(Bytes) /\ FieldsOf(in) = <<h>>
  BY <1>2, EncodedFieldsAreRead DEF Encodes
<1>4. Encodes(FieldBytes(1, id), <<f>>) /\ Encodes(FieldBytes(2, in), <<g>>)
  <2> HIDE DEF in
  <2> QED BY <1>1, <1>3, BytesFieldIsRead
<1>5. Encodes(p, <<f>> \o <<g>>)
  <2> HIDE DEF f, g, in
  <2> QED BY <1>4, EncodedFieldsFollow
<1>6. /\ f \in AField /\ f.num = 1 /\ f.bytes = id
      /\ g \in AField /\ g.num = 2 /\ g.bytes = in
      /\ h \in AField /\ h.num = 1 /\ h.int = number
  <2> HIDE DEF in
  <2> QED BY <1>1, <1>3 DEF Field, AField
<1>7. Ids("usual", id, number) = p
  BY DEF Ids
<1>8. in # None
  BY <1>3, NoneAssumption
<1> HIDE DEF f, g, h, in, p
<1>9. FieldsOf(p) = <<f>> \o <<g>> /\ p \in Seq(Bytes)
  BY <1>5, EncodedFieldsAreRead DEF Encodes
<1> DEFINE fs == <<f>> \o <<g>>
<1>10. ~Raises(fs) /\ Has(fs, 1) /\ First(fs, 1) = f /\ Has(fs, 2) /\ First(fs, 2) = g
  BY <1>6, TwoAre
<1> HIDE DEF fs
<1>11. ~Malformed(p) /\ Acked(p) = [id |-> IF IsText(f.bytes) THEN f.bytes ELSE Sweep(p), number |-> h.int]
  <2>1. FieldsOf(p) = fs
    BY <1>9 DEF fs
  <2> QED BY <1>1, <1>3, <1>6, <1>8, <1>10, <2>1, FieldsAreAck
<1> QED BY <1>1, <1>6, <1>7, <1>9, <1>11 DEF ReadsAck

LEMMA NumberlessIsRead ==
  ASSUME NEW id \in Uuids, NEW number \in Nat
  PROVE  ReadsAck(Ids("numberless", id, number), id, None)
<1> DEFINE digits == Digits[number]
           in == FieldBytes(1, digits)
           f == Field(1, None, id)
           g == Field(2, None, in)
           h == Field(1, None, digits)
           p == FieldBytes(1, id) \o FieldBytes(2, in)
<1>1. id \in Seq(Bytes) /\ IsText(id) /\ id # None
  BY UuidIsText, NoneAssumption
<1>12. digits \in Seq(Bytes)
  <2>1. digits \in Seq(48 .. 57)
    BY DigitsDef
  <2>2. \A i \in 1 .. Len(digits) : digits[i] \in 48 .. 57
    BY <2>1, ElementOfSeq
  <2>3. Len(digits) \in Nat /\ DOMAIN digits = 1 .. Len(digits) /\ \A i \in 1 .. Len(digits) : digits[i] \in Bytes
    BY <2>1, <2>2, LenProperties DEF Bytes
  <2> QED BY <2>1, <2>3, SeqDef
<1> HIDE DEF digits
<1>2. Encodes(in, <<h>>)
  BY <1>12, BytesFieldIsRead
<1>3. in \in Seq(Bytes) /\ FieldsOf(in) = <<h>>
  BY <1>2, EncodedFieldsAreRead DEF Encodes
<1>4. Encodes(FieldBytes(1, id), <<f>>) /\ Encodes(FieldBytes(2, in), <<g>>)
  <2> HIDE DEF in
  <2> QED BY <1>1, <1>3, BytesFieldIsRead
<1>5. Encodes(p, <<f>> \o <<g>>)
  <2> HIDE DEF f, g, in
  <2> QED BY <1>4, EncodedFieldsFollow
<1>6. /\ f \in AField /\ f.num = 1 /\ f.bytes = id
      /\ g \in AField /\ g.num = 2 /\ g.bytes = in
      /\ h \in AField /\ h.num = 1 /\ h.int = None
  <2> HIDE DEF in
  <2> QED BY <1>1, <1>3, <1>12 DEF Field, AField
<1>7. Ids("numberless", id, number) = p
  BY DEF Ids, digits
<1>8. in # None
  BY <1>3, NoneAssumption
<1> HIDE DEF f, g, h, in, p
<1>9. FieldsOf(p) = <<f>> \o <<g>> /\ p \in Seq(Bytes)
  BY <1>5, EncodedFieldsAreRead DEF Encodes
<1> DEFINE fs == <<f>> \o <<g>>
<1>10. ~Raises(fs) /\ Has(fs, 1) /\ First(fs, 1) = f /\ Has(fs, 2) /\ First(fs, 2) = g
  BY <1>6, TwoAre
<1> HIDE DEF fs
<1>11. ~Malformed(p) /\ Acked(p) = [id |-> IF IsText(f.bytes) THEN f.bytes ELSE Sweep(p), number |-> h.int]
  <2>1. FieldsOf(p) = fs
    BY <1>9 DEF fs
  <2> QED BY <1>1, <1>3, <1>6, <1>8, <1>10, <2>1, FieldsAreAck
<1> QED BY <1>1, <1>6, <1>7, <1>9, <1>11 DEF ReadsAck

LEMMA CalmBytesField ==
  ASSUME NEW tag \in 0 .. 44, NEW s, Calm(s)
  PROVE  Calm((<<tag>> \o Varint[Len(s)]) \o s)
<1>1. Len(s) \in Nat
  BY LenProperties DEF Calm
<1>2. tag \in Bytes /\ ~UuidChar(tag)
  BY DEF Bytes, UuidChar
<1>3. Calm(<<tag>> \o Varint[Len(s)])
  BY <1>1, <1>2, CalmVarint
<1> QED BY <1>3, CalmConcat

LEMMA SmallVarint ==
  ASSUME NEW n \in 0 .. 127
  PROVE  Varint[n] = <<n>>
<1>1. n \in Nat /\ ~(n > 127)
  OBVIOUS
<1> QED BY <1>1, VarintDef

LEMMA LastOfConcat ==
  ASSUME NEW q \in Seq(Bytes), NEW b \in Bytes
  PROVE  (q \o <<b>>)[Len(q \o <<b>>)] = b
<1> DEFINE y == <<b>>
           s == q \o y
           n == Len(q)
           k == n + 1
<1>1. y \in Seq(Bytes) /\ Len(y) = 1 /\ y[1] = b
  OBVIOUS
<1> HIDE DEF y
<1>2. Len(s) = n + Len(y) /\ \A i \in 1 .. n + Len(y) : s[i] = IF i <= n THEN q[i] ELSE y[i - n]
  BY <1>1, ConcatProperties
<1>3. n \in Nat
  BY LenProperties
<1> HIDE DEF n, s
<1>4. k \in 1 .. n + 1 /\ ~(k <= n) /\ k - n = 1
  BY <1>3
<1>5. Len(s) = k
  BY <1>1, <1>2
<1> HIDE DEF k
<1>6. s[k] = y[k - n]
  BY <1>1, <1>2, <1>4
<1> QED BY <1>1, <1>4, <1>5, <1>6 DEF s, y

(* The id is not in field 1, and nothing in front of it is taken for it.    *)
LEMMA DriftedIsSwept ==
  ASSUME NEW id \in Uuids, NEW number \in Nat
  PROVE  Sweep(Ids("drifted", id, number)) = id
<1> DEFINE in == FieldVarint(1, number)
           a == FieldBytes(1, <<200>>)
           b == FieldBytes(2, in)
           x == <<26>>
           y == <<Len(id)>>
           p == a \o b
<1>1. id \in Seq(Bytes) /\ Len(id) \in 2 .. 44
  BY UuidAssumption, SMTT(30)
<1>2. Varint[8] = <<8>> /\ Varint[10] = <<10>> /\ Varint[18] = <<18>> /\ Varint[26] = x /\ Varint[Len(id)] = y
  <2>1. 8 \in 0 .. 127 /\ 10 \in 0 .. 127 /\ 18 \in 0 .. 127 /\ 26 \in 0 .. 127 /\ Len(id) \in 0 .. 127
    BY <1>1
  <2> QED BY <2>1, SmallVarint
<1>3. Calm(in)
  <2>1. in = <<8>> \o Varint[number]
    <3>1. 1 * 8 = 8
      OBVIOUS
    <3> QED BY <1>2, <3>1, Zenon DEF FieldVarint, EncodeVarint
  <2>2. 8 \in Bytes /\ ~UuidChar(8)
    BY DEF Bytes, UuidChar
  <2> QED BY <2>1, <2>2, CalmVarint
<1>4. Calm(a)
  <2>1. Calm(<<200>>)
    <3>1. 200 \in Bytes /\ ~UuidChar(200)
      BY DEF Bytes, UuidChar
    <3> QED BY <3>1, CalmByte
  <2>2. a = (<<10>> \o Varint[Len(<<200>>)]) \o <<200>>
    <3>1. 1 * 8 + 2 = 10
      OBVIOUS
    <3> QED BY <1>2, <3>1, Zenon DEF FieldBytes, EncodeVarint
  <2>3. 10 \in 0 .. 44
    OBVIOUS
  <2> QED BY <2>1, <2>2, <2>3, CalmBytesField
<1>5. Calm(b)
  <2> HIDE DEF in
  <2>2. b = (<<18>> \o Varint[Len(in)]) \o in
    <3>1. 2 * 8 + 2 = 18
      OBVIOUS
    <3> QED BY <1>2, <3>1, Zenon DEF FieldBytes, EncodeVarint
  <2>3. 18 \in 0 .. 44
    OBVIOUS
  <2> QED BY <1>3, <2>2, <2>3, CalmBytesField
<1>6. Calm(x) /\ Len(id) \in Bytes /\ ~UuidChar(Len(id))
  <2>1. 26 \in Bytes /\ ~UuidChar(26)
    BY DEF Bytes, UuidChar
  <2>2. Len(id) \in Bytes /\ ~UuidChar(Len(id))
    <3> DEFINE n == Len(id)
    <3>1. n \in 2 .. 44
      BY <1>1
    <3> HIDE DEF n
    <3>2. n \in Bytes /\ ~UuidChar(n)
      BY <3>1 DEF Bytes, UuidChar
    <3> QED BY <3>2 DEF n
  <2> QED BY <2>1, <2>2, CalmByte
<1>7. Calm(y)
  BY <1>6, CalmByte
<1>8. Ids("drifted", id, number) = p \o ((x \o y) \o id)
  <2>1. FieldBytes(3, id) = (x \o y) \o id
    <3>1. 3 * 8 + 2 = 26
      OBVIOUS
    <3> QED BY <1>2, <3>1, Zenon DEF FieldBytes, EncodeVarint
  <2>2. Ids("drifted", id, number) = (a \o b) \o FieldBytes(3, id)
    BY DEF Ids
  <2> QED BY <2>1, <2>2
<1> HIDE DEF a, b
<1>9. Calm(p)
  BY <1>4, <1>5, CalmConcat
<1>10. y \in Seq(Bytes) /\ Len(y) = 1 /\ y[1] = Len(id)
  BY <1>6
<1> HIDE DEF in, x, y, p
<1> DEFINE q == p \o x
           s == q \o y
<1>11. Calm(q)
  BY <1>6, <1>9, CalmConcat
<1>12. Calm(s)
  <2> HIDE DEF q
  <2> QED BY <1>7, <1>11, CalmConcat
<1>13. p \in Seq(Bytes) /\ x \in Seq(Bytes) /\ q \in Seq(Bytes) /\ s \in Seq(Bytes)
  BY <1>6, <1>9, <1>11, <1>12 DEF Calm
<1>14. s[Len(s)] = Len(id)
  <2> HIDE DEF q
  <2> QED BY <1>6, <1>13, LastOfConcat DEF y
<1>15. p \o ((x \o y) \o id) = s \o id
  <2>1. (p \o x) \o y = p \o (x \o y) /\ x \o y \in Seq(Bytes)
    <3>1. p \in Seq(Bytes) /\ x \in Seq(Bytes) /\ y \in Seq(Bytes)
      BY <1>10, <1>13
    <3>2. (p \o x) \o y = p \o (x \o y)
      BY ONLY <3>1, ConcatAssociative
    <3>3. x \o y \in Seq(Bytes)
      BY ONLY <3>1, ConcatProperties
    <3> QED BY <3>2, <3>3, Zenon
  <2> DEFINE z == x \o y
  <2>2. z \in Seq(Bytes) /\ p \in Seq(Bytes) /\ id \in Seq(Bytes)
    BY <1>1, <1>13, <2>1
  <2> HIDE DEF z
  <2>3. (p \o z) \o id = p \o (z \o id)
    BY ONLY <2>2, ConcatAssociative
  <2> QED BY <2>1, <2>3, Zenon DEF z
<1>16. ~UuidChar(s[Len(s)])
  BY <1>6, <1>14
<1> HIDE DEF s
<1>17. Sweep(s \o id) = id
  BY <1>12, <1>16, SweepFinds
<1> QED BY <1>8, <1>15, <1>17, Zenon

LEMMA DriftedIsRead ==
  ASSUME NEW id \in Uuids, NEW number \in Nat
  PROVE  ReadsAck(Ids("drifted", id, number), id, number)
<1> DEFINE in == FieldVarint(1, number)
           odd == <<200>>
           f == Field(1, None, odd)
           g == Field(2, None, in)
           k == Field(3, None, id)
           h == Field(1, number, None)
           p == (FieldBytes(1, odd) \o FieldBytes(2, in)) \o FieldBytes(3, id)
<1>1. id \in Seq(Bytes)
  BY UuidIsText
<1>12. odd \in Seq(Bytes) /\ ~IsText(odd)
  <2>1. 200 \in Bytes
    BY DEF Bytes
  <2>2. odd \in Seq(Bytes) /\ 1 \in DOMAIN odd /\ odd[1] = 200
    BY <2>1
  <2> HIDE DEF odd
  <2> QED BY <2>2 DEF IsText
<1> HIDE DEF odd
<1>2. Encodes(in, <<h>>)
  BY VarintFieldIsRead
<1>3. in \in Seq(Bytes) /\ FieldsOf(in) = <<h>>
  BY <1>2, EncodedFieldsAreRead DEF Encodes
<1>4. Encodes(FieldBytes(1, odd), <<f>>) /\ Encodes(FieldBytes(2, in), <<g>>) /\ Encodes(FieldBytes(3, id), <<k>>)
  <2> HIDE DEF in
  <2> QED BY <1>1, <1>3, <1>12, BytesFieldIsRead
<1>5. Encodes(p, (<<f>> \o <<g>>) \o <<k>>)
  <2> HIDE DEF f, g, k, in
  <2>1. Encodes(FieldBytes(1, odd) \o FieldBytes(2, in), <<f>> \o <<g>>)
    BY <1>4, EncodedFieldsFollow
  <2> QED BY <1>4, <2>1, EncodedFieldsFollow
<1>6. /\ f \in AField /\ f.num = 1 /\ f.bytes = odd
      /\ g \in AField /\ g.num = 2 /\ g.bytes = in
      /\ k \in AField /\ k.num = 3
      /\ h \in AField /\ h.num = 1 /\ h.int = number
  <2> HIDE DEF in
  <2> QED BY <1>1, <1>3, <1>12 DEF Field, AField
<1>7. Ids("drifted", id, number) = p
  BY DEF Ids, odd
<1>8. in # None /\ odd # None
  BY <1>3, <1>12, NoneAssumption
<1> HIDE DEF f, g, h, k, in, p
<1> DEFINE fs == (<<f>> \o <<g>>) \o <<k>>
<1>9. FieldsOf(p) = fs /\ p \in Seq(Bytes)
  BY <1>5, EncodedFieldsAreRead DEF Encodes
<1>10. ~Raises(fs) /\ Has(fs, 1) /\ First(fs, 1) = f /\ Has(fs, 2) /\ First(fs, 2) = g
  BY <1>6, ThreeAre
<1> HIDE DEF fs
<1>11. ~Malformed(p) /\ Acked(p) = [id |-> IF IsText(f.bytes) THEN f.bytes ELSE Sweep(p), number |-> h.int]
  BY <1>3, <1>6, <1>8, <1>9, <1>10, FieldsAreAck
<1>13. Sweep(p) = id
  BY <1>7, DriftedIsSwept
<1> QED BY <1>6, <1>7, <1>9, <1>11, <1>12, <1>13 DEF ReadsAck

(* Every acknowledgement is read as the broker meant it.                    *)
LEMMA AckIsRead ==
  ASSUME NEW id \in Uuids, NEW number \in Nat, NEW layout \in Layouts
  PROVE  ReadsAck(Ids(layout, id, number), id, IF layout = "numberless" THEN None ELSE number)
<1>1. layout = "usual" \/ layout = "drifted" \/ layout = "numberless"
  BY DEF Layouts
<1> QED BY <1>1, UsualIsRead, DriftedIsRead, NumberlessIsRead

-----------------------------------------------------------------------------
(* The answers to a request.                                                *)

(* What the broker has accepted, as Contents lists it.                      *)
Accepts(a, fs) ==
  /\ a.kind = "order" => \E id \in Uuids, n \in Numbers, l \in Layouts : fs = <<[id |-> id, number |-> n, layout |-> l]>>
  /\ a.kind = "cancel" => /\ fs \in Seq([id : Uuids, number : Nat, layout : {"usual"}])
                          /\ \A i \in 1 .. Len(fs) : fs[i].number \in ToSet(a.numbers)
  /\ a.kind = "token" => \E j \in Jwts : fs = <<j>>
IsReply(a, r) ==
  /\ r.status \in Nat /\ r.split \in BOOLEAN
  /\ \/ r.status \in Statuses /\ r.status # 0 /\ r.frames = <<>>
     \/ r.status = 0 /\ ~r.talks /\ Accepts(a, r.frames)

LEMMA KindOfAsk ==
  ASSUME NEW a \in Asks
  PROVE  a.kind \in {"order", "cancel", "token"} /\ (a.kind = "cancel" => a.numbers \in Seq(Nat))
<1>1. a \in Orders \cup Cancellations \cup TokenRequests
  BY WireAssumption
<1> QED BY <1>1 DEF Orders, Cancellations, TokenRequests

LEMMA CancelledPart ==
  ASSUME NEW numbers \in Seq(Nat), NEW ns \in SubSeqs(numbers) \cup {<<>>}, NEW us \in [DOMAIN numbers -> Uuids],
         NEW fs, fs = [i \in DOMAIN ns |-> [id |-> us[i], number |-> ns[i], layout |-> "usual"]]
  PROVE  /\ fs \in Seq([id : Uuids, number : Nat, layout : {"usual"}])
         /\ \A i \in 1 .. Len(fs) : fs[i].number \in ToSet(numbers)
<1>1. Len(numbers) \in Nat /\ DOMAIN numbers = 1 .. Len(numbers) /\ \A i \in 1 .. Len(numbers) : numbers[i] \in Nat
  BY LenProperties, ElementOfSeq
<1>2. PICK n \in 0 .. Len(numbers) :
        DOMAIN ns = 1 .. n /\ \A i \in 1 .. n : ns[i] \in Nat /\ ns[i] \in ToSet(numbers)
  <2>1. CASE ns = <<>>
    <3>1. DOMAIN ns = 1 .. 0 /\ 0 \in 0 .. Len(numbers)
      BY <1>1, <2>1
    <3> QED BY <3>1
  <2>2. CASE ns \in SubSeqs(numbers)
    <3>1. PICK i \in 0 .. Len(numbers), j \in 0 .. Len(numbers) : ns = SubSeq(numbers, i + 1, j)
      BY <2>2 DEF SubSeqs
    <3>2. CASE i + 1 <= j + 1
      <4> DEFINE m == i + 1
                 n == j - m + 1
      <4>1. m \in Positions /\ j \in Nat /\ j <= Len(numbers) /\ m <= j + 1
        BY <1>1, <3>2 DEF Positions
      <4>2. ns = SubSeq(numbers, m, j) /\ n \in 0 .. Len(numbers)
        BY <1>1, <3>1, <3>2
      <4> HIDE DEF m
      <4>3. ns \in Seq(Nat) /\ Len(ns) = n /\ \A k \in 1 .. n : ns[k] = numbers[m + k - 1]
        BY <4>1, <4>2, Part
      <4>4. \A k \in 1 .. n : m + k - 1 \in 1 .. Len(numbers)
        BY <1>1, <4>1 DEF Positions
      <4>5. DOMAIN ns = 1 .. n
        BY <4>3, LenProperties
      <4>6. \A k \in 1 .. n : ns[k] \in Nat /\ ns[k] \in ToSet(numbers)
        <5> HIDE DEF n
        <5> QED BY <1>1, <4>3, <4>4 DEF ToSet
      <4> QED BY <4>2, <4>5, <4>6
    <3>3. CASE ~(i + 1 <= j + 1)
      <4>1. ns = <<>>
        BY <1>1, <3>1, <3>3, SubSeqEmpty
      <4>2. DOMAIN ns = 1 .. 0 /\ 0 \in 0 .. Len(numbers)
        BY <1>1, <4>1
      <4> QED BY <4>2
    <3> QED BY <3>2, <3>3
  <2> QED BY <2>1, <2>2
<1>3. n \in Nat /\ \A i \in 1 .. n : i \in DOMAIN numbers
  BY <1>1
<1> DEFINE S == [id : Uuids, number : Nat, layout : {"usual"}]
<1>4. \A i \in 1 .. n : fs[i] = [id |-> us[i], number |-> ns[i], layout |-> "usual"]
  BY <1>2
<1>5. fs \in [1 .. n -> S]
  BY <1>2, <1>3
<1>6. fs \in Seq(S) /\ Len(fs) = n
  <2> HIDE DEF S
  <2> QED BY <1>3, <1>5
<1> QED BY <1>2, <1>4, <1>6

(* Every reply is a refusal or an acceptance.                               *)
LEMMA RepliesAre ==
  ASSUME NEW a \in Asks, NEW r \in Replies(a)
  PROVE  IsReply(a, r) /\ \A i \in DOMAIN r.frames : Fits(Len(Payload(a, r.frames[i])))
<1>1. \A i \in DOMAIN r.frames : Fits(Len(Payload(a, r.frames[i])))
  BY AnswerAssumption
<1>3. ASSUME r \in Refusals PROVE IsReply(a, r)
  <2>1. r.status \in Statuses /\ r.frames = <<>> /\ r.split \in BOOLEAN
    BY <1>3 DEF Refusals
  <2>2. r.status \in Nat /\ r.status # 0
    BY <2>1, AnswerAssumption
  <2> QED BY <2>1, <2>2 DEF IsReply
<1>4. ASSUME NEW c \in Contents(a), NEW s \in BOOLEAN, r = Acceptance(c, s) PROVE IsReply(a, r)
  <2>1. r.status = 0 /\ r.talks = FALSE /\ r.split \in BOOLEAN /\ r.frames = c
    BY <1>4 DEF Acceptance
  <2>2. CASE a.kind = "order"
    <3>1. Contents(a) = {<<[id |-> u, number |-> n, layout |-> l]>> : u \in Uuids, n \in Numbers, l \in Layouts}
      BY <2>2 DEF Contents
    <3> QED BY <2>1, <2>2, <3>1 DEF Accepts, IsReply
  <2>3. CASE a.kind = "cancel"
    <3>1. Contents(a) = {[i \in DOMAIN ns |-> [id |-> us[i], number |-> ns[i], layout |-> "usual"]] :
                           ns \in SubSeqs(a.numbers) \cup {<<>>}, us \in [DOMAIN a.numbers -> Uuids]}
      BY <2>3 DEF Contents
    <3>2. PICK ns \in SubSeqs(a.numbers) \cup {<<>>}, us \in [DOMAIN a.numbers -> Uuids] :
                 c = [i \in DOMAIN ns |-> [id |-> us[i], number |-> ns[i], layout |-> "usual"]]
      BY <3>1
    <3>3. a.numbers \in Seq(Nat)
      BY <2>3, KindOfAsk
    <3>4. Accepts(a, c)
      BY <2>3, <3>2, <3>3, CancelledPart DEF Accepts
    <3> QED BY <2>1, <3>4 DEF IsReply
  <2>4. CASE a.kind = "token"
    <3>1. Contents(a) = {<<j>> : j \in Jwts}
      BY <2>4 DEF Contents
    <3> QED BY <2>1, <2>4, <3>1 DEF Accepts, IsReply
  <2> QED BY <2>2, <2>3, <2>4, KindOfAsk
<1>5. r \in Refusals \/ \E c \in Contents(a), s \in BOOLEAN : r = Acceptance(c, s)
  BY DEF Replies
<1> QED BY <1>1, <1>3, <1>4, <1>5

LEMMA StatusIsShort ==
  ASSUME NEW a \in Asks, NEW r \in Replies(a)
  PROVE  IsReply(a, r) /\ r.status \in Nat /\ Len(Digits[r.status]) <= 10
<1>1. IsReply(a, r)
  BY RepliesAre
<1>2. CASE r.status \in Statuses
  BY <1>1, <1>2, AnswerAssumption DEF IsReply
<1>3. CASE r.status = 0
  <2>1. Digits[0] = DigitsStep(0, Digits)
    BY DigitsDef
  <2>2. Digits[0] = <<48 + 0>>
    BY <2>1, 0 < 10 DEF DigitsStep
  <2>3. Len(<<48 + 0>>) = 1
    OBVIOUS
  <2> QED BY <1>1, <1>3, <2>2, <2>3 DEF IsReply
<1> QED BY <1>1, <1>2, <1>3 DEF IsReply

(* The frames of an answer, and what is read of each.                       *)
Reads(a, f) ==
  /\ Payload(a, f) \in Seq(Bytes)
  /\ a.kind # "token" => ~Malformed(Payload(a, f)) /\ Acked(Payload(a, f)) = Expected(f) /\ f \in [id : Uuids, number : Nat, layout : Layouts]

LEMMA PayloadIsRead ==
  ASSUME NEW a \in Asks, NEW r, IsReply(a, r)
  PROVE  /\ Len(r.frames) \in Nat /\ DOMAIN r.frames = 1 .. Len(r.frames)
         /\ \A i \in 1 .. Len(r.frames) : Reads(a, r.frames[i])
<1> DEFINE fs == r.frames
           AFs == [id : Uuids, number : Nat, layout : Layouts]
<1>1. CASE fs = <<>>
  <2>1. Len(fs) = 0 /\ DOMAIN fs = 1 .. 0
    BY <1>1
  <2> QED BY <2>1
<1>2. ASSUME NEW f \in AFs, a.kind # "token" PROVE Reads(a, f)
  <2>1. f.id \in Uuids /\ f.number \in Nat /\ f.layout \in Layouts
    OBVIOUS
  <2>2. Payload(a, f) = Ids(f.layout, f.id, f.number)
    BY <1>2 DEF Payload
  <2>3. ReadsAck(Payload(a, f), f.id, IF f.layout = "numberless" THEN None ELSE f.number)
    BY <2>1, <2>2, AckIsRead
  <2> QED BY <2>3 DEF ReadsAck, Reads, Expected
<1>3. CASE fs # <<>> /\ a.kind = "order"
  <2>1. PICK id \in Uuids, n \in Numbers, l \in Layouts : fs = <<[id |-> id, number |-> n, layout |-> l]>>
    BY <1>3 DEF IsReply, Accepts
  <2> DEFINE f == [id |-> id, number |-> n, layout |-> l]
  <2>2. f \in AFs
    BY AnswerAssumption
  <2>3. Len(fs) = 1 /\ DOMAIN fs = 1 .. 1 /\ \A i \in 1 .. 1 : fs[i] = f
    <3> HIDE DEF f
    <3>1. fs = <<f>>
      BY <2>1 DEF f
    <3> QED BY <3>1
  <2>4. Reads(a, f)
    BY <1>2, <1>3, <2>2
  <2> QED BY <2>3, <2>4
<1>4. CASE fs # <<>> /\ a.kind = "cancel"
  <2>1. fs \in Seq([id : Uuids, number : Nat, layout : {"usual"}])
    BY <1>4 DEF IsReply, Accepts
  <2>2. \A i \in 1 .. Len(fs) : fs[i] \in [id : Uuids, number : Nat, layout : {"usual"}]
    BY <2>1, ElementOfSeq
  <2>3. \A i \in 1 .. Len(fs) : fs[i] \in AFs
    BY <2>2 DEF Layouts
  <2> QED BY <1>2, <1>4, <2>1, <2>3, LenProperties
<1>5. CASE fs # <<>> /\ a.kind = "token"
  <2>1. PICK j \in Jwts : fs = <<j>>
    BY <1>5 DEF IsReply, Accepts
  <2>2. Payload(a, j) = FieldBytes(1, j) /\ j \in Seq(Bytes)
    BY <1>5, JwtAssumption DEF Payload
  <2>3. FieldBytes(1, j) \in Seq(Bytes)
    BY <2>2, BytesFieldIsRead DEF Encodes
  <2>4. Reads(a, j)
    BY <1>5, <2>2, <2>3 DEF Reads
  <2>5. Len(fs) = 1 /\ DOMAIN fs = 1 .. 1 /\ \A i \in 1 .. 1 : fs[i] = j
    <3> HIDE DEF fs
    <3> QED BY <2>1
  <2> QED BY <2>4, <2>5
<1> QED BY <1>1, <1>3, <1>4, <1>5, KindOfAsk

(* The frames of an answer, the trailer the last.                           *)
AnswerIs(a, r) ==
  LET fs == Answer(a, r)
      n == Len(r.frames)
  IN /\ GoodFrames(fs) /\ n \in Nat /\ Len(fs) = n + 1
     /\ \A i \in 1 .. n : fs[i] = [flag |-> 0, payload |-> Payload(a, r.frames[i])] /\ Reads(a, r.frames[i])
     /\ fs[n + 1] = [flag |-> 128, payload |-> StatusLines(r)]

LEMMA AnswerShape ==
  ASSUME NEW a \in Asks, NEW r \in Replies(a)
  PROVE  AnswerIs(a, r)
<1> DEFINE n == Len(r.frames)
           front == [i \in DOMAIN r.frames |-> [flag |-> 0, payload |-> Payload(a, r.frames[i])]]
           last == [flag |-> 128, payload |-> StatusLines(r)]
           fs == Answer(a, r)
<1>1. IsReply(a, r) /\ \A i \in DOMAIN r.frames : Fits(Len(Payload(a, r.frames[i])))
  BY RepliesAre
<1>2. n \in Nat /\ DOMAIN r.frames = 1 .. n /\ \A i \in 1 .. n : Reads(a, r.frames[i])
  BY <1>1, PayloadIsRead
<1>3. front \in Seq(AFrame) /\ Len(front) = n /\ \A i \in 1 .. n : front[i] = [flag |-> 0, payload |-> Payload(a, r.frames[i])]
  <2>1. \A i \in 1 .. n : [flag |-> 0, payload |-> Payload(a, r.frames[i])] \in AFrame
    <3>1. 0 \in Bytes
      BY DEF Bytes
    <3> QED BY <1>2, <3>1 DEF AFrame, Reads
  <2>2. front \in [1 .. n -> AFrame]
    BY <1>2, <2>1
  <2>3. \A i \in 1 .. n : front[i] = [flag |-> 0, payload |-> Payload(a, r.frames[i])]
    BY <1>2
  <2> HIDE DEF front
  <2> QED BY <1>2, <2>2, <2>3
<1>4. last \in AFrame /\ Fits(Len(last.payload))
  <2>1. r.status \in Nat /\ Len(Digits[r.status]) <= 10
    BY StatusIsShort
  <2>2. StatusLines(r) \in Seq(Bytes)
    BY <2>1, StatusLinesAre
  <2>3. Fits(Len(StatusLines(r)))
    <3> DEFINE l == Len(StatusLines(r))
    <3>1. l \in 0 .. 15
      BY <2>1, ShortLines
    <3> HIDE DEF l
    <3>2. l \div 16777216 < 256
      BY <3>1, SMT
    <3> QED BY <3>2, SMT DEF Fits, l
  <2>4. 128 \in Bytes
    BY DEF Bytes
  <2> QED BY <2>2, <2>3, <2>4 DEF AFrame
<1>5. fs = Append(front, last)
  BY DEF Answer
<1>6. Fits(Len(last.payload)) /\ \A i \in 1 .. n : Fits(Len(front[i].payload))
  BY <1>1, <1>2, <1>3, <1>4
<1>8. last = [flag |-> 128, payload |-> StatusLines(r)]
  OBVIOUS
<1> HIDE DEF front, last, fs
<1>7. fs \in Seq(AFrame) /\ Len(fs) = n + 1 /\ fs[n + 1] = last /\ \A i \in 1 .. n : fs[i] = front[i]
  <2>1. /\ Append(front, last) \in Seq(AFrame) /\ Len(Append(front, last)) = Len(front) + 1
        /\ Append(front, last)[Len(front) + 1] = last
        /\ \A i \in 1 .. Len(front) : Append(front, last)[i] = front[i]
    BY ONLY <1>3, <1>4, AppendProperties
  <2> QED BY <1>3, <1>5, <2>1
<1>9. \A i \in 1 .. n + 1 : Fits(Len(fs[i].payload))
  <2>1. \A i \in 1 .. n + 1 : i \in 1 .. n \/ i = n + 1
    BY <1>2
  <2> QED BY <1>6, <1>7, <2>1
<1> QED BY <1>2, <1>3, <1>7, <1>8, <1>9 DEF AnswerIs, GoodFrames, fs

-----------------------------------------------------------------------------
(* The text of an answer, and what is read of any beginning of it.          *)

(* What an answer is before it is encoded.                                  *)
TextOf(a, r) == FlattenSeq(Framed(Answer(a, r)))

LEMMA TextIsAnswer ==
  ASSUME NEW a \in Asks, NEW r \in Replies(a)
  PROVE  /\ Framed(Answer(a, r)) \in Seq(Seq(Bytes)) /\ TextOf(a, r) \in Seq(Bytes)
         /\ ReplyBody(a, r) \in Seq(Seq(Bytes)) /\ FlattenSeq(ReplyBody(a, r)) = TextOf(a, r)
         /\ ~r.split => B64Decode(ReplyBody(a, r)) = TextOf(a, r)
<1> DEFINE fs == Answer(a, r)
           ss == Framed(fs)
           n == Len(fs)
<1>1. GoodFrames(fs)
  BY AnswerShape DEF AnswerIs
<1>2. fs \in Seq(AFrame) /\ n \in Nat /\ DOMAIN fs = 1 .. n /\ \A i \in 1 .. n : fs[i] \in AFrame /\ Fits(Len(fs[i].payload))
  BY <1>1, LenProperties, ElementOfSeq DEF GoodFrames
<1> HIDE DEF fs
<1>3. \A i \in 1 .. n : Frame(fs[i].flag, fs[i].payload) \in Seq(Bytes)
  BY <1>2, FrameShape DEF AFrame
<1>4. ss \in Seq(Seq(Bytes)) /\ Len(ss) = n /\ DOMAIN ss = 1 .. n
  <2>1. ss \in [1 .. n -> Seq(Bytes)]
    BY <1>2, <1>3 DEF Framed
  <2> HIDE DEF n, ss
  <2> QED BY <1>2, <2>1
<1>5. \A i \in 1 .. n : ss[i] \in Seq(Bytes)
  BY <1>4, ElementOfSeq
<1> HIDE DEF ss
<1>6. FlattenSeq(ss) \in Seq(Bytes)
  BY <1>4, FlattenType
<1>7. CASE r.split
  <2> DEFINE qs == [i \in DOMAIN ss |-> Quanta(ss[i])]
  <2>1. \A i \in 1 .. n : Quanta(ss[i]) \in Seq(Seq(Bytes)) /\ FlattenSeq(Quanta(ss[i])) = ss[i]
    BY <1>5, QuantaAreDecoded
  <2>2. qs \in Seq(Seq(Seq(Bytes))) /\ Len(qs) = n /\ \A i \in 1 .. n : FlattenSeq(qs[i]) = ss[i]
    <3>1. qs \in [1 .. n -> Seq(Seq(Bytes))] /\ \A i \in 1 .. n : qs[i] = Quanta(ss[i])
      BY <1>4, <2>1
    <3> HIDE DEF qs, n
    <3> QED BY <1>2, <2>1, <3>1
  <2>3. ReplyBody(a, r) = FlattenSeq(qs)
    BY <1>7 DEF ReplyBody, ss, fs
  <2> HIDE DEF qs
  <2>4. FlattenSeq(qs) \in Seq(Seq(Bytes)) /\ FlattenSeq(FlattenSeq(qs)) = FlattenSeq(ss)
    BY <1>4, <2>2, FlattenType, FlattenTwice
  <2> QED BY <1>4, <1>6, <1>7, <2>3, <2>4 DEF TextOf, ss, fs
<1>8. CASE ~r.split
  <2>1. ReplyBody(a, r) = Quanta(FlattenSeq(ss))
    BY <1>8 DEF ReplyBody, ss, fs
  <2>2. /\ Quanta(FlattenSeq(ss)) \in Seq(Seq(Bytes)) /\ FlattenSeq(Quanta(FlattenSeq(ss))) = FlattenSeq(ss)
        /\ B64Decode(Quanta(FlattenSeq(ss))) = FlattenSeq(ss)
    BY <1>6, QuantaAreDecoded
  <2> QED BY <1>4, <1>6, <2>1, <2>2 DEF TextOf, ss, fs
<1> QED BY <1>7, <1>8

(* Whatever of it arrives, the client reads the first of its frames.        *)
ReadsSome(a, r, data, n) ==
  /\ n \in 0 .. Len(r.frames) + 1
  /\ FramesOf(data) = SubSeq(Answer(a, r), 1, n)

LEMMA SomeIsRead ==
  ASSUME NEW a \in Asks, NEW r \in Replies(a), NEW k \in 0 .. Len(ReplyBody(a, r))
  PROVE  LET data == B64Decode(SubSeq(ReplyBody(a, r), 1, k))
         IN /\ data \in Seq(Bytes)
            /\ \E n : /\ ReadsSome(a, r, data, n)
                      /\ data = TextOf(a, r) => n = Len(r.frames) + 1
            /\ k = Len(ReplyBody(a, r)) /\ ~r.split => data = TextOf(a, r)
<1> DEFINE body == ReplyBody(a, r)
           part == SubSeq(body, 1, k)
           data == B64Decode(part)
           text == TextOf(a, r)
<1>1. /\ body \in Seq(Seq(Bytes)) /\ FlattenSeq(body) = text /\ text \in Seq(Bytes)
      /\ ~r.split => B64Decode(body) = text
  BY TextIsAnswer
<1>2. AnswerIs(a, r)
  BY AnswerShape
<1> HIDE DEF body, text
<1>3. part \in Seq(Seq(Bytes)) /\ FlattenSeq(part) \in Seq(Bytes) /\ IsBeginning(FlattenSeq(part), text)
  <2>1. k \in 0 .. Len(body)
    BY DEF body
  <2> QED BY <1>1, <2>1, CutParts
<1>4. k = Len(body) => part = body
  BY <1>1, SubSeqFull
<1> HIDE DEF part
<1>5. data \in Seq(Bytes) /\ IsBeginning(data, FlattenSeq(part))
  BY <1>3, DecodedIsBeginning
<1>6. IsBeginning(data, text)
  <2> HIDE DEF data
  <2> QED BY <1>1, <1>3, <1>5, BeginningOfBeginning
<1>7. k = Len(body) /\ ~r.split => data = text
  BY <1>1, <1>4
<1> HIDE DEF data
<1>8. GoodFrames(Answer(a, r)) /\ Len(Answer(a, r)) = Len(r.frames) + 1
  BY <1>2 DEF AnswerIs
<1>9. \E n \in 0 .. Len(Answer(a, r)) : /\ FramesOf(data) = SubSeq(Answer(a, r), 1, n)
                                        /\ data = text => n = Len(Answer(a, r))
  BY <1>5, <1>6, <1>8, BeginningIsRead DEF text, TextOf
<1>10. \E n : ReadsSome(a, r, data, n) /\ (data = text => n = Len(r.frames) + 1)
  BY <1>8, <1>9 DEF ReadsSome
<1> QED BY <1>5, <1>7, <1>10 DEF data, part, body, text

(* The data frames that are read, and the status if nothing is missing.     *)
LEMMA FramesRead ==
  ASSUME NEW a \in Asks, NEW r \in Replies(a), NEW data, NEW n, ReadsSome(a, r, data, n)
  PROVE  LET fs == FramesOf(data)
             m == Len(r.frames)
         IN /\ n <= m => DataFrames(fs) = 1 .. n /\ Status(fs) = None
            /\ n = m + 1 => DataFrames(fs) = 1 .. m /\ Status(fs) = r.status
            /\ \A i \in DataFrames(fs) : i \in 1 .. m /\ fs[i].payload = Payload(a, r.frames[i]) /\ Reads(a, r.frames[i])
<1> DEFINE all == Answer(a, r)
           fs == FramesOf(data)
           m == Len(r.frames)
<1>1. /\ all \in Seq(AFrame) /\ m \in Nat /\ Len(all) = m + 1
      /\ \A i \in 1 .. m : all[i] = [flag |-> 0, payload |-> Payload(a, r.frames[i])] /\ Reads(a, r.frames[i])
      /\ all[m + 1] = [flag |-> 128, payload |-> StatusLines(r)]
  BY AnswerShape DEF AnswerIs, GoodFrames
<1>2. n \in 0 .. m + 1 /\ fs = SubSeq(all, 1, n)
  BY DEF ReadsSome
<1> HIDE DEF all, m, fs
<1>3. DOMAIN fs = 1 .. n /\ \A i \in 1 .. n : fs[i] = all[i]
  <2> DEFINE t == SubSeq(all, 1, n)
  <2>1. 1 \in Positions /\ n \in Nat /\ n <= Len(all) /\ 1 <= n + 1 /\ n - 1 + 1 = n
    BY <1>1, <1>2 DEF Positions
  <2>2. t \in Seq(AFrame) /\ Len(t) = n /\ \A i \in 1 .. n : t[i] = all[1 + i - 1]
    BY <1>1, <2>1, Part
  <2>3. \A i \in 1 .. n : 1 + i - 1 = i
    BY <2>1
  <2>4. \A i \in 1 .. n : t[i] = all[i]
    BY <2>2, <2>3
  <2> HIDE DEF t
  <2>5. DOMAIN t = 1 .. n
    BY <2>2, LenProperties
  <2> QED BY <1>2, <2>4, <2>5 DEF t
<1>4. ASSUME NEW i \in 1 .. m PROVE all[i].flag = 0 /\ all[i].payload = Payload(a, r.frames[i])
  <2> DEFINE p == Payload(a, r.frames[i])
  <2>1. all[i] = [flag |-> 0, payload |-> p]
    BY <1>1
  <2> HIDE DEF p
  <2>2. all[i].flag = 0 /\ all[i].payload = p
    BY <2>1
  <2> QED BY <2>2 DEF p
<1>5. all[m + 1].flag = 128 /\ all[m + 1].payload = StatusLines(r)
  BY <1>1
<1>6. CASE n <= m
  <2>1. \A i \in 1 .. n : i \in 1 .. m /\ fs[i].flag = 0
    BY <1>1, <1>2, <1>3, <1>4, <1>6
  <2>2. DataFrames(fs) = 1 .. n
    BY <1>3, <2>1 DEF DataFrames
  <2>3. Trailers(fs) = {}
    BY <1>3, <2>2 DEF Trailers
  <2>4. Status(fs) = None
    BY <2>3, Zenon DEF Status
  <2>5. \A i \in 1 .. n : fs[i].payload = Payload(a, r.frames[i])
    BY <1>3, <1>4, <2>1
  <2>6. n # m + 1
    BY <1>1, <1>2, <1>6
  <2> QED BY <1>1, <2>1, <2>2, <2>4, <2>5, <2>6 DEF fs, m
<1>7. CASE n = m + 1
  <2>1. /\ \A i \in 1 .. n : i \in 1 .. m \/ i = m + 1
        /\ \A i \in 1 .. m : i \in 1 .. n /\ i # m + 1
        /\ m + 1 \in 1 .. n
    BY <1>1, <1>7
  <2>2. \A i \in 1 .. m : fs[i].flag = 0 /\ fs[i].payload = Payload(a, r.frames[i])
    BY <1>3, <1>4, <2>1
  <2>3. fs[m + 1].flag = 128 /\ fs[m + 1].payload = StatusLines(r)
    BY <1>3, <1>5, <2>1
  <2>4. DataFrames(fs) = 1 .. m
    <3>1. \A i \in 1 .. n : fs[i].flag < 128 <=> i \in 1 .. m
      BY <2>1, <2>2, <2>3
    <3> QED BY <1>3, <2>1, <3>1 DEF DataFrames
  <2>5. Trailers(fs) = {m + 1}
    BY <1>3, <2>1, <2>4 DEF Trailers
  <2>6. StatusText(fs[m + 1].payload) = Digits[r.status] /\ r.status \in Nat
    BY <2>3, RepliesAre, StatusIsRead DEF IsReply
  <2>7. Digits[r.status] # <<>>
    <3>1. Len(Digits[r.status]) # 0
      BY <2>6, StatusLinesAre
    <3> QED BY <3>1, EmptySeq
  <2> DEFINE said == {i \in Trailers(fs) : StatusText(fs[i].payload) # <<>>}
  <2>8. said = {m + 1}
    BY <2>5, <2>6, <2>7
  <2>9. Max(said) = m + 1
    <3>1. said \subseteq Nat /\ m + 1 \in said /\ \A t \in said : t <= m + 1
      BY <1>1, <2>8
    <3> HIDE DEF said
    <3> QED BY <3>1, MaxIs
  <2>10. Status(fs) = IF said = {} THEN None ELSE Decimal(StatusText(fs[Max(said)].payload))
    BY Zenon DEF Status
  <2>11. said # {}
    BY <2>8
  <2> HIDE DEF said
  <2>12. Status(fs) = Decimal(Digits[r.status])
    BY <2>6, <2>9, <2>10, <2>11, Zenon
  <2>13. Status(fs) = r.status
    BY <2>6, <2>12, DecimalOfDigits
  <2>14. ~(n <= m)
    BY <1>1, <1>7
  <2> QED BY <1>1, <2>2, <2>4, <2>13, <2>14 DEF fs, m
<1>8. n <= m \/ n = m + 1
  BY <1>1, <1>2
<1> QED BY <1>6, <1>7, <1>8

-----------------------------------------------------------------------------
(* What is concluded of an order and of a cancellation.                     *)

(* What the broker has told.                                                *)
Meant(r) == {Expected(f) : f \in ToSet(r.frames)}

LEMMA MeantAre ==
  ASSUME NEW a \in Asks, NEW r, IsReply(a, r)
  PROVE  /\ Meant(r) = {Expected(r.frames[i]) : i \in 1 .. Len(r.frames)}
         /\ a.kind # "token" => Meant(r) \subseteq Acks
<1>1. DOMAIN r.frames = 1 .. Len(r.frames) /\ \A i \in 1 .. Len(r.frames) : Reads(a, r.frames[i])
  BY PayloadIsRead
<1>2. Meant(r) = {Expected(r.frames[i]) : i \in 1 .. Len(r.frames)}
  BY <1>1 DEF Meant, ToSet
<1>3. ASSUME NEW f \in [id : Uuids, number : Nat, layout : Layouts] PROVE Expected(f) \in Acks
  BY DEF Expected, Acks
<1>4. a.kind # "token" => \A i \in 1 .. Len(r.frames) : r.frames[i] \in [id : Uuids, number : Nat, layout : Layouts]
  BY <1>1 DEF Reads
<1> QED BY <1>2, <1>3, <1>4

LEMMA NoFrames == FramesOf(<<>>) = <<>>
<1>1. <<>> \in Seq(Bytes) /\ Len(<<>>) = 0
  OBVIOUS
<1>2. 1 \in Positions /\ 1 + 4 > 0
  BY DEF Positions
<1>3. FramesFrom(<<>>)[1] = <<>>
  BY <1>1, <1>2, FramesFromDef DEF FramesStep
<1> QED BY <1>3 DEF FramesOf

(* An answer is never empty.                                                *)
LEMMA NothingRead ==
  ASSUME NEW a \in Asks, NEW r \in Replies(a), NEW n, ReadsSome(a, r, <<>>, n)
  PROVE  n <= Len(r.frames)
<1>1. AnswerIs(a, r)
  BY AnswerShape
<1> DEFINE all == Answer(a, r)
           m == Len(r.frames)
<1>2. all \in Seq(AFrame) /\ m \in Nat /\ Len(all) = m + 1
  BY <1>1 DEF AnswerIs, GoodFrames
<1> HIDE DEF all, m
<1>3. n \in 0 .. m + 1 /\ SubSeq(all, 1, n) = <<>>
  BY NoFrames DEF ReadsSome, all, m
<1>4. Len(SubSeq(all, 1, n)) = n
  <2>1. 1 \in Positions /\ n \in Nat /\ n <= Len(all) /\ 1 <= n + 1 /\ n - 1 + 1 = n
    BY <1>2, <1>3 DEF Positions
  <2> QED BY <1>2, <2>1, Part
<1>5. n = 0
  BY <1>3, <1>4, EmptySeq
<1> QED BY <1>2, <1>5 DEF m

Sayings == {"ambiguous", "failure", "raised", "success", "answered"}

LEMMA ResultParts ==
  ASSUME NEW s, NEW t, NEW d
  PROVE  Result(s, t, d).said = s /\ Result(s, t, d).status = t /\ Result(s, t, d).done = d
BY DEF Result

(* An order: a success is the broker's, and nothing else is reported; a     *)
(* whole answer is a success just if the order was taken.                   *)
TradeIsGood(r, whole, res) ==
  /\ res.said \in Sayings /\ res.status \in Nat
  /\ IF res.said = "success" THEN r.status = 0 /\ res.done = Meant(r) ELSE res.done = {}
  /\ whole => IF r.status = 0 THEN res.said = "success" ELSE res.said # "success" /\ res.status = r.status

LEMMA TradeIsRead ==
  ASSUME NEW a \in Asks, NEW r \in Replies(a), a.kind = "order",
         NEW data, NEW n, ReadsSome(a, r, data, n)
  PROVE  TradeIsGood(r, n = Len(r.frames) + 1, TradeResult(data))
<1> DEFINE fs == FramesOf(data)
           m == Len(r.frames)
           status == Status(fs)
           last == Max(DataFrames(fs))
           payload == IF DataFrames(fs) = {} THEN <<>> ELSE fs[last].payload
<1>1. IsReply(a, r)
  BY RepliesAre
<1>2. r.status \in Nat /\ m \in Nat /\ n \in 0 .. m + 1
  BY <1>1, PayloadIsRead DEF IsReply, ReadsSome
<1>3. /\ n <= m => status = None
      /\ n = m + 1 => DataFrames(fs) = 1 .. m /\ status = r.status
      /\ \A i \in DataFrames(fs) : i \in 1 .. m /\ fs[i].payload = Payload(a, r.frames[i]) /\ Reads(a, r.frames[i])
  BY FramesRead
<1>4. TradeResult(data) =
        CASE data = <<>>                       -> Result("ambiguous", 0, {})
          [] data # <<>> /\ status # 0         -> Result("failure", Known(status), {})
          [] status = 0 /\ Malformed(payload)  -> Result("raised", 0, {})
          [] status = 0 /\ ~Malformed(payload) -> Result("success", 0, {Acked(payload)})
  BY DEF TradeResult
<1>5. None # 0
  BY NoneAssumption
<1>6. n <= m \/ n = m + 1
  BY <1>2
<1>7. ~(n <= m /\ n = m + 1)
  BY <1>2
<1>8. data = <<>> => n <= m
  BY NothingRead
<1> HIDE DEF fs, status, payload, m
<1>9. CASE data = <<>>
  <2>1. status = None /\ n # m + 1
    BY <1>3, <1>7, <1>8, <1>9
  <2>2. TradeResult(data) = Result("ambiguous", 0, {})
    BY <1>4, <1>5, <1>9, <2>1
  <2> QED BY <2>1, <2>2, ResultParts DEF TradeIsGood, Sayings, m
<1>10. CASE data # <<>> /\ status # 0
  <2>1. TradeResult(data) = Result("failure", Known(status), {})
    BY <1>4, <1>10
  <2>2. Known(status) \in Nat /\ (n = m + 1 => r.status # 0 /\ Known(status) = r.status)
    <3>1. CASE n <= m
      BY <1>3, <1>7, <3>1 DEF Known
    <3>2. CASE n = m + 1
      <4>1. status = r.status /\ r.status # 0 /\ r.status # None
        BY <1>2, <1>3, <1>10, <3>2, NoneAssumption
      <4> QED BY <1>2, <4>1 DEF Known
    <3> QED BY <1>6, <3>1, <3>2
  <2> QED BY <2>1, <2>2, ResultParts DEF TradeIsGood, Sayings, m
<1>11. CASE data # <<>> /\ status = 0
  <2>1. n = m + 1 /\ r.status = 0 /\ DataFrames(fs) = 1 .. m
    BY <1>3, <1>5, <1>6, <1>11
  <2>2. PICK f : r.frames = <<f>>
    BY <1>1, <2>1, AnswerAssumption DEF IsReply, Accepts
  <2>3. m = 1 /\ r.frames[1] = f
    BY <2>2 DEF m
  <2>4. DataFrames(fs) = {1}
    BY <2>1, <2>3
  <2>5. Max(DataFrames(fs)) = 1
    BY <2>4, MaxIs
  <2>6. payload = Payload(a, f) /\ Reads(a, f)
    BY <1>3, <2>3, <2>4, <2>5 DEF payload
  <2>7. ~Malformed(payload) /\ Acked(payload) = Expected(f)
    BY <2>6 DEF Reads
  <2>8. TradeResult(data) = Result("success", 0, {Expected(f)})
    BY <1>4, <1>11, <2>7
  <2>9. Meant(r) = {Expected(f)}
    <3>1. Meant(r) = {Expected(r.frames[i]) : i \in 1 .. m}
      BY <1>1, MeantAre DEF m
    <3> QED BY <2>3, <3>1
  <2> QED BY <2>1, <2>8, <2>9, ResultParts DEF TradeIsGood, Sayings, m
<1> QED BY <1>9, <1>10, <1>11

(* A cancellation: what is reported is the broker's, and all of it is if    *)
(* the answer is whole.                                                     *)
CancelIsGood(r, whole, res) ==
  /\ res.said = "answered" /\ res.status \in Nat
  /\ res.done \subseteq Meant(r)
  /\ whole => res.status = r.status /\ res.done = IF r.status = 0 THEN Meant(r) ELSE {}

LEMMA CancelIsRead ==
  ASSUME NEW a \in Asks, NEW r \in Replies(a), a.kind = "cancel",
         NEW data, NEW n, ReadsSome(a, r, data, n)
  PROVE  CancelIsGood(r, n = Len(r.frames) + 1, CancelResult(data, a.numbers))
<1> DEFINE fs == FramesOf(data)
           m == Len(r.frames)
           status == Known(Status(fs))
           payloads == {fs[i].payload : i \in DataFrames(fs)}
           acks == {Acked(p) : p \in payloads}
           counted == IF status = 0 THEN Confirmed(acks, ToSet(a.numbers)) ELSE {}
<1>1. IsReply(a, r)
  BY RepliesAre
<1>2. r.status \in Nat /\ m \in Nat /\ n \in 0 .. m + 1
  BY <1>1, PayloadIsRead DEF IsReply, ReadsSome
<1>3. /\ n <= m => Status(fs) = None
      /\ n = m + 1 => DataFrames(fs) = 1 .. m /\ Status(fs) = r.status
      /\ \A i \in DataFrames(fs) : i \in 1 .. m /\ fs[i].payload = Payload(a, r.frames[i]) /\ Reads(a, r.frames[i])
  BY FramesRead
<1>4. CancelResult(data, a.numbers) =
        IF \E p \in payloads : Malformed(p) THEN Result("raised", 0, {}) ELSE Result("answered", status, counted)
  BY DEF CancelResult
<1>5. Meant(r) = {Expected(r.frames[i]) : i \in 1 .. m}
  BY <1>1, MeantAre
<1> HIDE DEF fs, m, status
<1>6. \A i \in DataFrames(fs) : i \in 1 .. m /\ ~Malformed(fs[i].payload) /\ Acked(fs[i].payload) = Expected(r.frames[i])
  BY <1>3 DEF Reads
<1>7. CancelResult(data, a.numbers) = Result("answered", status, counted)
  <2> HIDE DEF counted
  <2> QED BY <1>4, <1>6
<1>8. acks \subseteq Meant(r)
  BY <1>5, <1>6
<1>9. counted \subseteq Meant(r)
  <2> HIDE DEF acks
  <2> QED BY <1>8 DEF Confirmed
<1>10. status \in Nat /\ (n = m + 1 => status = r.status)
  <2>1. CASE n <= m
    <3>1. n # m + 1
      BY <1>2, <2>1
    <3> QED BY <1>3, <2>1, <3>1 DEF Known, status
  <2>2. CASE n = m + 1
    BY <1>2, <1>3, <2>2, NoneAssumption DEF Known, status
  <2>3. n <= m \/ n = m + 1
    BY <1>2
  <2> QED BY <2>1, <2>2, <2>3
<1>11. ASSUME n = m + 1, r.status = 0 PROVE counted = Meant(r)
  <2>1. status = 0 /\ DataFrames(fs) = 1 .. m
    BY <1>3, <1>10, <1>11
  <2>2. acks = Meant(r)
    BY <1>5, <1>6, <2>1
  <2>3. \A i \in 1 .. m : Expected(r.frames[i]).number \in ToSet(a.numbers)
    <3> SUFFICES ASSUME NEW i \in 1 .. m PROVE Expected(r.frames[i]).number \in ToSet(a.numbers)
      OBVIOUS
    <3>1. Accepts(a, r.frames)
      BY <1>1, <1>11, AnswerAssumption DEF IsReply
    <3>2. r.frames \in Seq([id : Uuids, number : Nat, layout : {"usual"}]) /\ r.frames[i].number \in ToSet(a.numbers)
      BY <3>1 DEF Accepts, m
    <3>3. r.frames[i] \in [id : Uuids, number : Nat, layout : {"usual"}]
      BY <3>2, ElementOfSeq DEF m
    <3>4. Expected(r.frames[i]).number = r.frames[i].number
      BY <3>3 DEF Expected
    <3> QED BY <3>2, <3>4
  <2>4. \A x \in acks : x.number \in ToSet(a.numbers)
    <3> HIDE DEF acks
    <3> QED BY <1>5, <2>2, <2>3
  <2>5. Confirmed(acks, ToSet(a.numbers)) = acks
    <3> HIDE DEF acks
    <3> QED BY <2>4 DEF Confirmed
  <2> HIDE DEF acks
  <2> QED BY <2>1, <2>2, <2>5
<1>12. ASSUME n = m + 1, r.status # 0 PROVE counted = {}
  BY <1>10, <1>12
<1> HIDE DEF counted, status
<1> DEFINE res == CancelResult(data, a.numbers)
<1>13. res.said = "answered" /\ res.status = status /\ res.done = counted
  BY <1>7, ResultParts
<1> HIDE DEF res
<1>14. (n = m + 1) => (res.status = r.status /\ res.done = IF r.status = 0 THEN Meant(r) ELSE {})
  BY <1>10, <1>11, <1>12, <1>13
<1> QED BY <1>9, <1>10, <1>13, <1>14 DEF CancelIsGood, m, res

-----------------------------------------------------------------------------
(* What is concluded of a token.                                            *)

(* A trailer holds no mark of a JWT.                                        *)
LEMMA NoMarkInTrailer ==
  ASSUME NEW r, r.status \in Nat, Len(Digits[r.status]) <= 10
  PROVE  LET t == Frame(128, StatusLines(r))
         IN /\ t \in Seq(Bytes) /\ Len(t) >= 1 /\ t[1] = 128
            /\ \A i \in 1 .. Len(t) : t[i] # JwtMark
<1> DEFINE lines == StatusLines(r)
           n == Len(lines)
           head == <<128, n \div 16777216, (n \div 65536) % 256, (n \div 256) % 256, n % 256>>
           t == Frame(128, lines)
<1>1. lines \in Seq(Bytes) /\ n \in 0 .. 15
  BY ShortLines, StatusLinesAre
<1>2. \A i \in 1 .. n : lines[i] # JwtMark
  <2> DEFINE digits == Digits[r.status]
             talk == Talk(r)
             d == Len(digits)
             e == Len(talk)
  <2>1. /\ d \in Nat /\ n = 1 + d + e /\ lines[1] = 83
        /\ \A i \in 1 .. d : lines[1 + i] = digits[i] /\ digits[i] \in 48 .. 57
        /\ \A i \in 1 .. e : lines[1 + d + i] = talk[i]
    BY StatusLinesAre DEF StatusMark
  <2>2. e \in Nat /\ \A i \in 1 .. e : talk[i] # 106
    BY DEF Talk, StatusMark, MessageMark, LineEnd
  <2> HIDE DEF digits, talk, d, e, n, lines
  <2> SUFFICES ASSUME NEW i \in 1 .. n PROVE lines[i] # 106
    BY DEF JwtMark
  <2>3. CASE i = 1
    BY <2>1, <2>3
  <2>4. CASE i # 1 /\ i <= 1 + d
    <3> DEFINE j == i - 1
    <3>1. j \in 1 .. d /\ 1 + j = i
      BY <1>1, <2>1, <2>4
    <3> HIDE DEF j
    <3>2. lines[1 + j] \in 48 .. 57
      BY <2>1, <3>1
    <3> QED BY <3>1, <3>2
  <2>5. CASE i > 1 + d
    <3> DEFINE j == i - 1 - d
    <3>1. j \in 1 .. e /\ 1 + d + j = i
      BY <1>1, <2>1, <2>2, <2>5
    <3> HIDE DEF j
    <3>2. lines[1 + d + j] = talk[j]
      BY <2>1, <3>1
    <3>3. talk[j] # 106
      BY <2>2, <3>1
    <3> QED BY <3>1, <3>2, <3>3
  <2> QED BY <1>1, <2>1, <2>3, <2>4, <2>5
<1>3. /\ head \in Seq(Bytes) /\ Len(head) = 5 /\ head[1] = 128
      /\ \A i \in 1 .. 5 : head[i] # 106
  <2> DEFINE m == n
  <2>1. m \in 0 .. 15
    BY <1>1
  <2> HIDE DEF m
  <2>2. m \div 16777216 = 0 /\ (m \div 65536) % 256 = 0 /\ (m \div 256) % 256 = 0 /\ m % 256 = m
    BY <2>1, SMT
  <2>3. head = <<128, 0, 0, 0, m>>
    BY <2>2, SMT DEF m
  <2>4. 128 \in Bytes /\ 0 \in Bytes /\ m \in Bytes /\ m # 106
    BY <2>1 DEF Bytes
  <2> HIDE DEF head
  <2> QED BY <2>3, <2>4
<1>4. t = head \o lines
  BY SMT DEF Frame
<1> HIDE DEF head, lines, t
<1>5. /\ t \in Seq(Bytes) /\ Len(t) = 5 + n
      /\ \A i \in 1 .. 5 + n : t[i] = IF i <= 5 THEN head[i] ELSE lines[i - 5]
  <2>1. /\ head \o lines \in Seq(Bytes) /\ Len(head \o lines) = Len(head) + Len(lines)
        /\ \A i \in 1 .. Len(head) + Len(lines) :
             (head \o lines)[i] = IF i <= Len(head) THEN head[i] ELSE lines[i - Len(head)]
    <3>1. head \in Seq(Bytes) /\ lines \in Seq(Bytes)
      BY <1>1, <1>3
    <3> QED BY ONLY <3>1, ConcatProperties
  <2> QED BY <1>3, <1>4, <2>1
<1> HIDE DEF n
<1>6. \A i \in 1 .. 5 + n : t[i] # 106
  <2> SUFFICES ASSUME NEW i \in 1 .. 5 + n PROVE t[i] # 106
    OBVIOUS
  <2>1. CASE i <= 5
    <3>1. i \in {1, 2, 3, 4, 5} /\ t[i] = head[i]
      BY <1>1, <1>5, <2>1
    <3> QED BY <1>3, <3>1
  <2>2. CASE ~(i <= 5)
    <3> DEFINE j == i - 5
    <3>1. j \in 1 .. n
      BY <1>1, <2>2
    <3>2. t[i] = lines[j]
      BY <1>5, <2>2
    <3> HIDE DEF j
    <3> QED BY <1>2, <3>1, <3>2 DEF JwtMark
  <2> QED BY <2>1, <2>2
<1>7. Len(t) >= 1 /\ t[1] = 128
  BY <1>1, <1>3, <1>5
<1> QED BY <1>5, <1>6, <1>7 DEF t, lines, JwtMark

(* A run of token characters ends where the first other one is.             *)
LEMMA RunEnds ==
  ASSUME NEW data \in Seq(Bytes), NEW i \in Nat, NEW e \in Nat, i <= e, e <= Len(data) + 1,
         e = Len(data) + 1 \/ ~TokenChar(data[e]), \A k \in i .. e - 1 : TokenChar(data[k])
  PROVE  RunEnd(data, i) = e
<1> DEFINE n == Len(data)
           T == {k \in i .. n + 1 : k = n + 1 \/ ~TokenChar(data[k])}
<1>1. n \in Nat
  BY LenProperties
<1> HIDE DEF n
<1>2. T \subseteq Nat
  BY <1>1
<1>3. e \in T
  BY <1>1 DEF n
<1>4. \A t \in T : e <= t
  <2> SUFFICES ASSUME NEW t \in T, ~(e <= t) PROVE FALSE
    OBVIOUS
  <2>1. t \in i .. n + 1 /\ t \in Nat /\ (t = n + 1 \/ ~TokenChar(data[t]))
    BY <1>2
  <2>2. t \in i .. e - 1 /\ t # n + 1
    BY <1>1, <2>1 DEF n
  <2> QED BY <2>1, <2>2
<1> HIDE DEF T
<1>5. Min(T) = e
  BY <1>2, <1>3, <1>4, MinIs
<1> QED BY <1>5 DEF RunEnd, T, n

(* A JWT that ends before a byte that is not of a token is found whole.     *)
LEMMA JwtIsFound ==
  ASSUME NEW data \in Seq(Bytes), NEW s \in Positions, NEW j \in Jwts, Holds(data, s, j),
         s + Len(j) <= Len(data), ~TokenChar(data[s + Len(j)])
  PROVE  data[s] = JwtMark /\ Jwt(data, s) = j /\ j # None /\ j \in Seq(Bytes) /\ Len(j) \in Nat \ {0}
<1> DEFINE n == Len(j)
           d == Len(data)
           e == s + n
<1>1. j \in Seq(Bytes) /\ j[1] = JwtMark /\ n \in Nat /\ DOMAIN j = 1 .. n /\ d \in Nat /\ s \in Nat /\ s > 0
  BY JwtAssumption, LenProperties DEF Positions
<1>2. PICK p \in DOMAIN j, q \in DOMAIN j :
        /\ 2 < p /\ p + 1 < q /\ q < n
        /\ \A k \in DOMAIN j : IF k \in {p, q} THEN j[k] = Dot ELSE TokenChar(j[k])
  BY JwtAssumption
<1>3. p \in 1 .. n /\ q \in 1 .. n
  BY <1>1, <1>2
<1>4. \A k \in 1 .. n : data[s + k - 1] = j[k]
  BY DEF Holds
<1> HIDE DEF n, d, e
<1> DEFINE pp == s + p - 1
           qq == s + q - 1
<1>5. /\ pp \in Nat /\ qq \in Nat /\ e \in Nat /\ s + 1 < pp /\ pp + 1 < qq /\ qq + 1 < e + 1
      /\ qq + 1 <= e /\ e <= d /\ pp <= d /\ qq <= d
  <2>1. e \in Nat /\ e <= d /\ e = s + n
    BY <1>1 DEF e, d, n
  <2>2. p \in Nat /\ q \in Nat /\ n \in Nat /\ s \in Nat /\ d \in Nat /\ s > 0 /\ 2 < p /\ p + 1 < q /\ q < n
    BY <1>1, <1>2, <1>3
  <2> QED BY ONLY <2>1, <2>2, SMTT(30)
<1>13. qq + 1 < e
  BY <1>1, <1>2, <1>3 DEF e
<1>6. data[pp] = Dot /\ data[qq] = Dot
  BY <1>1, <1>2, <1>3, <1>4
<1>7. ~TokenChar(Dot) /\ ~TokenChar(data[e])
  BY DEF TokenChar, Dot, e, n
<1>8. \A k \in s .. e - 1 : k # pp /\ k # qq => TokenChar(data[k])
  <2> SUFFICES ASSUME NEW k \in s .. e - 1, k # pp, k # qq PROVE TokenChar(data[k])
    OBVIOUS
  <2> DEFINE i == k - s + 1
  <2>1. i \in 1 .. n /\ s + i - 1 = k /\ i # p /\ i # q
    BY <1>1, <1>3 DEF e
  <2> HIDE DEF i
  <2>2. TokenChar(j[i])
    BY <1>1, <1>2, <2>1
  <2> QED BY <1>4, <2>1, <2>2
<1> HIDE DEF pp, qq
<1>9. RunEnd(data, s) = pp
  <2>1. \A k \in s .. pp - 1 : k \in s .. e - 1 /\ k # pp /\ k # qq
    BY <1>1, <1>5
  <2>2. s <= pp /\ pp <= Len(data) + 1
    BY <1>1, <1>5 DEF d
  <2> QED BY <1>1, <1>5, <1>6, <1>7, <1>8, <2>1, <2>2, RunEnds
<1>10. RunEnd(data, pp + 1) = qq
  <2>1. \A k \in pp + 1 .. qq - 1 : k \in s .. e - 1 /\ k # pp /\ k # qq
    BY <1>1, <1>5
  <2>2. pp + 1 \in Nat /\ pp + 1 <= qq /\ qq <= Len(data) + 1
    BY <1>1, <1>5 DEF d
  <2>3. \A k \in pp + 1 .. qq - 1 : TokenChar(data[k])
    BY <1>8, <2>1
  <2> DEFINE i == pp + 1
  <2>4. i \in Nat /\ i <= qq /\ \A k \in i .. qq - 1 : TokenChar(data[k])
    BY <2>2, <2>3
  <2> HIDE DEF i
  <2>5. RunEnd(data, i) = qq
    BY <1>5, <1>6, <1>7, <2>2, <2>4, RunEnds
  <2> QED BY <2>5 DEF i
<1>11. RunEnd(data, qq + 1) = e
  <2>1. \A k \in qq + 1 .. e - 1 : k \in s .. e - 1 /\ k # pp /\ k # qq
    BY <1>1, <1>5
  <2>2. qq + 1 \in Nat /\ qq + 1 <= e /\ e <= Len(data) + 1
    BY <1>1, <1>5 DEF d
  <2>3. \A k \in qq + 1 .. e - 1 : TokenChar(data[k])
    BY <1>8, <2>1
  <2> DEFINE i == qq + 1
  <2>4. i \in Nat /\ i <= e /\ \A k \in i .. e - 1 : TokenChar(data[k])
    BY <2>2, <2>3
  <2> HIDE DEF i
  <2>5. RunEnd(data, i) = e
    BY <1>5, <1>7, <2>2, <2>4, RunEnds
  <2> QED BY <2>5 DEF i
<1>12. Dotted(data, pp) /\ Dotted(data, qq)
  BY <1>5, <1>6, <1>10, <1>11, <1>13 DEF Dotted, d
<1>14. Jwt(data, s) = SubSeq(data, s, e - 1)
  <2>1. RunEnd(data, s) > s + 1
    BY <1>5, <1>9
  <2> QED BY <1>9, <1>10, <1>11, <1>12, <2>1, Zenon DEF Jwt
<1>15. SubSeq(data, s, e - 1) = j
  <2> DEFINE l == e - 1
             t == SubSeq(data, s, l)
  <2>1. l \in Nat /\ l <= Len(data) /\ s <= l + 1 /\ l - s + 1 = n
    BY <1>1, <1>5 DEF d, e
  <2> HIDE DEF l
  <2>2. t \in Seq(Bytes) /\ Len(t) = n /\ \A i \in 1 .. n : t[i] = data[s + i - 1]
    BY <2>1, Part
  <2> HIDE DEF t
  <2>3. t = j
    BY <1>1, <1>4, <2>2, SeqEqual DEF n
  <2> QED BY <2>3 DEF t, l
<1>16. j # None
  BY <1>1, NoneAssumption
<1>17. n # 0 /\ data[s] = JwtMark
  <2>1. 1 \in 1 .. n /\ s + 1 - 1 = s
    BY <1>1, <1>2, <1>3
  <2>2. data[s + 1 - 1] = j[1]
    BY <1>4, <2>1
  <2> QED BY <1>1, <2>1, <2>2
<1> QED BY <1>1, <1>14, <1>15, <1>16, <1>17 DEF n

(* Where a JWT stands in its frame.                                         *)
LEMMA TokenFrame ==
  ASSUME NEW j \in Jwts, Fits(Len(FieldBytes(1, j)))
  PROVE  LET f == Frame(0, FieldBytes(1, j))
             s == Len(f) - Len(j) + 1
         IN /\ f \in Seq(Bytes) /\ j \in Seq(Bytes) /\ s \in Positions /\ s + Len(j) = Len(f) + 1
            /\ Holds(f, s, j)
            /\ \A k \in 1 .. s - 1 : f[k] # JwtMark
<1> DEFINE t == Varint[10] \o Varint[Len(j)]
           payload == FieldBytes(1, j)
           f == Frame(0, payload)
           n == Len(j)
           l == Len(f)
           s == l - n + 1
<1>1. j \in Seq(Bytes) /\ n \in Nat /\ \A k \in 1 .. l - n : f[k] # JwtMark
  BY JwtAssumption, LenProperties
<1>2. payload \in Seq(Bytes)
  BY <1>1, BytesFieldIsRead DEF Encodes
<1>3. t \in Seq(Bytes) /\ payload = t \o j
  <2>1. 10 \in Nat /\ 1 * 8 + 2 = 10
    OBVIOUS
  <2>2. Varint[10] \in Seq(Bytes) /\ Varint[Len(j)] \in Seq(Bytes)
    BY <1>1, <2>1, VarintDef
  <2>3. t \in Seq(Bytes)
    BY <2>2, ConcatProperties
  <2>4. payload = t \o j
    BY <2>1, Zenon DEF FieldBytes, EncodeVarint
  <2> QED BY <2>3, <2>4
<1> HIDE DEF t, payload
<1>4. /\ f \in Seq(Bytes) /\ l = 5 + Len(payload)
      /\ \A i \in 1 .. Len(payload) : f[5 + i] = payload[i]
  <2>1. 0 \in Bytes /\ Fits(Len(payload))
    BY DEF Bytes, payload
  <2> QED BY <1>2, <2>1, FrameBytes
<1>5. Len(t) \in Nat /\ Len(payload) = Len(t) + n /\ \A i \in 1 .. n : payload[Len(t) + i] = j[i]
  <2>1. /\ Len(t \o j) = Len(t) + Len(j)
        /\ \A i \in 1 .. Len(t) + Len(j) : (t \o j)[i] = IF i <= Len(t) THEN t[i] ELSE j[i - Len(t)]
    BY ONLY <1>1, <1>3, ConcatProperties
  <2>2. Len(t) \in Nat
    BY <1>3, LenProperties
  <2> DEFINE m == Len(t)
  <2>3. m \in Nat /\ Len(payload) = m + n /\ \A i \in 1 .. m + n : payload[i] = IF i <= m THEN t[i] ELSE j[i - m]
    BY <1>3, <2>1, <2>2
  <2> HIDE DEF m, n
  <2>4. ASSUME NEW i \in 1 .. n PROVE payload[m + i] = j[i]
    <3> DEFINE k == m + i
    <3>1. k \in 1 .. m + n /\ ~(k <= m) /\ k - m = i
      BY <1>1, <2>3
    <3> HIDE DEF k
    <3>2. payload[k] = j[k - m]
      BY <2>3, <3>1
    <3> QED BY <3>1, <3>2 DEF k
  <2> QED BY <2>3, <2>4 DEF m
<1> DEFINE m == Len(t)
<1> HIDE DEF f, n, l, m
<1>6. l \in Nat /\ l = 5 + m + n /\ m \in Nat
  BY <1>1, <1>4, <1>5 DEF m
<1>7. s = 5 + m + 1 /\ s \in Positions /\ s + n = l + 1 /\ s + n - 1 <= l
  BY <1>1, <1>6 DEF Positions
<1>8. ASSUME NEW i \in 1 .. n PROVE f[s + i - 1] = j[i]
  <2> DEFINE k == m + i
  <2>1. k \in 1 .. Len(payload) /\ s + i - 1 = 5 + k
    BY <1>1, <1>5, <1>6, <1>7 DEF m
  <2>2. payload[k] = j[i]
    BY <1>5 DEF m
  <2> HIDE DEF k, s
  <2>3. f[5 + k] = payload[k]
    BY <1>4, <2>1
  <2> QED BY <2>1, <2>2, <2>3
<1>9. Holds(f, s, j)
  <2> HIDE DEF s
  <2> QED BY <1>7, <1>8 DEF Holds, l, n
<1>10. \A k \in 1 .. s - 1 : f[k] # JwtMark
  <2>1. s - 1 = l - n
    BY <1>1, <1>6
  <2> QED BY <1>1, <2>1
<1> QED BY <1>1, <1>4, <1>7, <1>9, <1>10 DEF l, n, f, payload

(* The text of a refusal and of an answer with one data frame.              *)
LEMMA TextIsFrames ==
  ASSUME NEW a \in Asks, NEW r \in Replies(a)
  PROVE  LET trailer == Frame(128, StatusLines(r))
         IN /\ r.frames = <<>> => TextOf(a, r) = trailer
            /\ \A f : r.frames = <<f>> => TextOf(a, r) = Frame(0, Payload(a, f)) \o trailer
<1> DEFINE fs == Answer(a, r)
           n == Len(r.frames)
           ff == Framed(fs)
           trailer == Frame(128, StatusLines(r))
<1>1. AnswerIs(a, r)
  BY AnswerShape
<1>2. /\ n \in Nat /\ fs \in Seq(AFrame) /\ Len(fs) = n + 1
      /\ \A i \in 1 .. n : fs[i] = [flag |-> 0, payload |-> Payload(a, r.frames[i])]
      /\ fs[n + 1] = [flag |-> 128, payload |-> StatusLines(r)]
  BY <1>1 DEF AnswerIs, GoodFrames
<1>3. ff \in Seq(Seq(Bytes)) /\ TextOf(a, r) = FlattenSeq(ff)
  BY TextIsAnswer DEF TextOf
<1>4. Len(ff) = n + 1 /\ \A i \in 1 .. n + 1 : ff[i] = Frame(fs[i].flag, fs[i].payload)
  <2>1. DOMAIN fs = 1 .. n + 1
    BY <1>2, LenProperties
  <2> HIDE DEF fs, n
  <2>2. DOMAIN ff = 1 .. n + 1 /\ \A i \in 1 .. n + 1 : ff[i] = Frame(fs[i].flag, fs[i].payload)
    BY <2>1 DEF Framed
  <2>3. Len(ff) \in Nat /\ DOMAIN ff = 1 .. Len(ff)
    BY <1>3, LenProperties
  <2> HIDE DEF ff
  <2>4. Len(ff) = n + 1
    BY <1>2, <2>2, <2>3
  <2> QED BY <2>2, <2>4
<1>5. ff[n + 1] = trailer /\ \A i \in 1 .. n : ff[i] = Frame(0, Payload(a, r.frames[i]))
  <2> HIDE DEF fs, ff, n
  <2>1. n + 1 \in 1 .. n + 1 /\ \A i \in 1 .. n : i \in 1 .. n + 1
    BY <1>2
  <2>2. ff[n + 1] = Frame(fs[n + 1].flag, fs[n + 1].payload)
    BY <1>4, <2>1
  <2>3. fs[n + 1].flag = 128 /\ fs[n + 1].payload = StatusLines(r)
    BY <1>2
  <2>4. ASSUME NEW i \in 1 .. n PROVE ff[i] = Frame(0, Payload(a, r.frames[i]))
    <3>1. ff[i] = Frame(fs[i].flag, fs[i].payload)
      BY <1>4, <2>1
    <3>2. fs[i].flag = 0 /\ fs[i].payload = Payload(a, r.frames[i])
      <4>1. fs[i] = [flag |-> 0, payload |-> Payload(a, r.frames[i])]
        BY <1>2
      <4> QED BY <4>1
    <3> QED BY <3>1, <3>2
  <2> QED BY <2>2, <2>3, <2>4
<1> HIDE DEF fs, ff, trailer
<1>6. \A i \in 1 .. n + 1 : ff[i] \in Seq(Bytes)
  BY <1>3, <1>4, ElementOfSeq
<1>7. ASSUME r.frames = <<>> PROVE TextOf(a, r) = trailer
  <2>1. n = 0
    BY <1>7
  <2>2. trailer \in Seq(Bytes) /\ Len(ff) = 1 /\ ff[1] = trailer
    BY <1>4, <1>5, <1>6, <2>1
  <2> DEFINE gg == <<trailer>>
  <2>3. gg \in Seq(Seq(Bytes)) /\ Len(gg) = 1 /\ gg[1] = trailer
    BY <2>2
  <2> HIDE DEF gg
  <2>4. Len(ff) = Len(gg) /\ \A i \in 1 .. Len(ff) : ff[i] = gg[i]
    BY <2>2, <2>3
  <2>5. ff = gg
    BY <1>3, <2>3, <2>4, SeqEqual
  <2> QED BY <1>3, <2>2, <2>5, OneOrTwo DEF gg
<1>8. ASSUME NEW f, r.frames = <<f>> PROVE TextOf(a, r) = Frame(0, Payload(a, f)) \o trailer
  <2> DEFINE x == Frame(0, Payload(a, f))
             gg == <<x, trailer>>
  <2>1. n = 1 /\ r.frames[1] = f
    BY <1>8
  <2>2. Len(ff) = 2 /\ ff[1] = x /\ ff[2] = trailer
    BY <1>4, <1>5, <2>1
  <2>6. x \in Seq(Bytes) /\ trailer \in Seq(Bytes)
    BY <1>6, <2>1, <2>2
  <2> HIDE DEF x
  <2>3. gg \in Seq(Seq(Bytes)) /\ Len(gg) = 2 /\ gg[1] = x /\ gg[2] = trailer
    BY <2>6
  <2> HIDE DEF gg
  <2>4. Len(ff) = Len(gg) /\ \A i \in 1 .. Len(ff) : ff[i] = gg[i]
    BY <2>2, <2>3
  <2>5. ff = gg
    BY <1>3, <2>3, <2>4, SeqEqual
  <2> QED BY <1>3, <2>5, <2>6, OneOrTwo DEF gg, x
<1> QED BY <1>7, <1>8 DEF trailer

(* A token: of a whole answer the JWT is read, and none of a refusal.       *)
TokenIsGood(r, whole, res) ==
  /\ res.said \in Sayings /\ res.status \in Nat
  /\ whole => IF r.status = 0 THEN res.done = ToSet(r.frames) ELSE res.said # "success" /\ res.done = {}

LEMMA TokenIsRead ==
  ASSUME NEW a \in Asks, NEW r \in Replies(a), a.kind = "token", NEW data \in Seq(Bytes)
  PROVE  TokenIsGood(r, data = TextOf(a, r), TokenResult(data))
<1> DEFINE starts == {i \in DOMAIN data : data[i] = JwtMark /\ Jwt(data, i) # None}
           res == TokenResult(data)
           trailer == Frame(128, StatusLines(r))
<1>1. res = IF starts = {} THEN Result("failure", 0, {}) ELSE Result("success", 0, {Jwt(data, Min(starts))})
  BY DEF TokenResult
<1>2. IsReply(a, r) /\ r.status \in Nat /\ Len(Digits[r.status]) <= 10
  BY StatusIsShort
<1>3. /\ trailer \in Seq(Bytes) /\ Len(trailer) >= 1 /\ trailer[1] = 128
      /\ \A i \in 1 .. Len(trailer) : trailer[i] # JwtMark
  BY <1>2, NoMarkInTrailer
<1>4. DOMAIN data = 1 .. Len(data) /\ Len(data) \in Nat
  BY LenProperties
<1> HIDE DEF res, starts, trailer
<1>5. /\ starts = {} => res.said = "failure" /\ res.status = 0 /\ res.done = {}
      /\ starts # {} => res.said = "success" /\ res.status = 0 /\ res.done = {Jwt(data, Min(starts))}
  BY <1>1, ResultParts
<1>6. ASSUME data = TextOf(a, r), r.status # 0 PROVE starts = {}
  <2>1. r.frames = <<>>
    BY <1>2, <1>6 DEF IsReply
  <2>2. data = trailer
    BY <1>6, <2>1, TextIsFrames DEF trailer
  <2> QED BY <1>3, <1>4, <2>2 DEF starts
<1>7. ASSUME data = TextOf(a, r), r.status = 0
      PROVE  starts # {} /\ {Jwt(data, Min(starts))} = ToSet(r.frames)
  <2>1. PICK j \in Jwts : r.frames = <<j>>
    BY <1>2, <1>7, AnswerAssumption DEF IsReply, Accepts
  <2>2. Fits(Len(FieldBytes(1, j))) /\ Payload(a, j) = FieldBytes(1, j)
    <3>1. \A i \in DOMAIN r.frames : Fits(Len(Payload(a, r.frames[i])))
      BY AnswerAssumption
    <3>2. 1 \in DOMAIN r.frames /\ r.frames[1] = j
      BY <2>1
    <3>3. Payload(a, j) = FieldBytes(1, j)
      BY DEF Payload
    <3> QED BY <3>1, <3>2, <3>3
  <2> DEFINE f == Frame(0, FieldBytes(1, j))
             l == Len(f)
             n == Len(j)
             s == l - n + 1
  <2>3. /\ f \in Seq(Bytes) /\ j \in Seq(Bytes) /\ s \in Positions /\ s + n = l + 1
        /\ Holds(f, s, j) /\ \A k \in 1 .. s - 1 : f[k] # JwtMark
    BY <2>2, TokenFrame
  <2>4. data = f \o trailer
    BY <1>7, <2>1, <2>2, TextIsFrames, SMTT(30) DEF trailer
  <2>5. l \in Nat /\ n \in Nat
    BY <2>3, LenProperties
  <2> HIDE DEF f
  <2>6. /\ Len(data) = l + Len(trailer) /\ Len(trailer) \in Nat
        /\ \A i \in 1 .. l + Len(trailer) : data[i] = IF i <= l THEN f[i] ELSE trailer[i - l]
    <3>1. /\ Len(f \o trailer) = Len(f) + Len(trailer)
          /\ \A i \in 1 .. Len(f) + Len(trailer) :
               (f \o trailer)[i] = IF i <= Len(f) THEN f[i] ELSE trailer[i - Len(f)]
      BY ONLY <1>3, <2>3, ConcatProperties
    <3> QED BY <1>3, <2>4, <3>1, LenProperties
  <2> HIDE DEF s
  <2>7. Holds(data, s, j)
    BY <1>3, <2>3, <2>4, HoldsExtended
  <2> DEFINE e == s + n
  <2>8. e = l + 1 /\ e <= Len(data) /\ data[e] = 128
    <3> HIDE DEF l, n, s
    <3> DEFINE d == Len(trailer)
    <3>1. d \in Nat /\ d >= 1 /\ Len(data) = l + d
      BY <1>3, <2>6
    <3>2. e = l + 1 /\ l + 1 \in 1 .. l + d /\ ~(l + 1 <= l) /\ (l + 1) - l = 1
      BY <2>3, <2>5, <3>1
    <3>3. data[l + 1] = trailer[(l + 1) - l]
      BY <2>6, <3>2
    <3> HIDE DEF d, e
    <3> QED BY <1>3, <2>5, <3>1, <3>2, <3>3
  <2>9. ~TokenChar(128)
    BY DEF TokenChar
  <2>10. data[s] = JwtMark /\ Jwt(data, s) = j /\ j # None /\ Len(j) \in Nat \ {0}
    BY <2>3, <2>7, <2>8, <2>9, JwtIsFound DEF n
  <2> HIDE DEF l, n, s, e
  <2>11. s \in Nat /\ s > 0 /\ n \in Nat \ {0} /\ s <= l /\ s \in 1 .. Len(data)
    BY <2>3, <2>5, <2>8, <2>10 DEF Positions, n, e
  <2>12. s \in starts
    BY <1>4, <2>10, <2>11 DEF starts
  <2>13. \A i \in starts : s <= i
    <3> SUFFICES ASSUME NEW i \in starts, ~(s <= i) PROVE FALSE
      OBVIOUS
    <3>1. i \in 1 .. Len(data) /\ data[i] = JwtMark
      BY <1>4 DEF starts
    <3>2. i \in 1 .. s - 1 /\ i <= l /\ i \in 1 .. l + Len(trailer)
      BY <1>4, <2>3, <2>5, <2>6, <2>11, <3>1
    <3>3. data[i] = f[i]
      BY <2>6, <3>2
    <3> QED BY <2>3, <3>1, <3>2, <3>3
  <2>14. starts \subseteq Nat
    BY <1>4 DEF starts
  <2>15. Min(starts) = s
    BY <2>12, <2>13, <2>14, MinIs
  <2>16. ToSet(r.frames) = {j}
    <3>1. DOMAIN <<j>> = {1} /\ <<j>>[1] = j
      OBVIOUS
    <3> QED BY <2>1, <3>1 DEF ToSet
  <2> QED BY <2>10, <2>12, <2>15, <2>16
<1>8. res.said \in Sayings /\ res.status \in Nat
  BY <1>5 DEF Sayings
<1> QED BY <1>5, <1>6, <1>7, <1>8 DEF TokenIsGood, res

-----------------------------------------------------------------------------
(* The exchange.                                                            *)

LEMMA BodyType ==
  ASSUME NEW a \in Asks
  PROVE  Body(a) \in Seq(Seq(Bytes))
<1>1. a \in Orders \cup Cancellations \cup TokenRequests /\ Fits(Len(Message(a)))
  BY WireAssumption
<1>2. Message(a) \in Seq(Bytes)
  <2>1. CASE a \in Orders
    <3>1. Message(a) = NewMarketOrder(a)
      BY <2>1 DEF Message, Orders
    <3> QED BY <2>1, <3>1, OrderIsRead
  <2>2. CASE a \in Cancellations
    <3>1. Message(a) = DeleteOrders(a.numbers) /\ a.numbers \in Seq(Nat)
      BY <2>2 DEF Message, Cancellations
    <3> QED BY <3>1, CancellationIsRead
  <2>3. CASE a \in TokenRequests
    <3>1. Message(a) = CreateAccessToken(a)
      BY <2>3 DEF Message, TokenRequests
    <3> QED BY <2>3, <3>1, TokenRequestIsRead
  <2> QED BY <1>1, <2>1, <2>2, <2>3
<1>3. 0 \in Bytes
  BY DEF Bytes
<1>4. Frame(0, Message(a)) \in Seq(Bytes)
  BY <1>1, <1>2, <1>3, FrameShape
<1> QED BY <1>4, QuantaAreDecoded DEF Body

(* What a conclusion res owes to the answer r.                              *)
ResultIsGood(a, r, whole, res) ==
  /\ res.said \in Sayings /\ res.status \in Nat
  /\ a.kind = "order" => IF res.said = "success" THEN r.status = 0 /\ res.done = Meant(r) ELSE res.done = {}
  /\ a.kind = "cancel" => res.done \subseteq Meant(r)
  /\ whole =>
       CASE r.status # 0 -> /\ res.said # "success" /\ res.done = {}
                            /\ a.kind # "token" => res.status = r.status
         [] r.status = 0 /\ a.kind = "token" -> res.done = ToSet(r.frames)
         [] r.status = 0 /\ a.kind # "token" -> res.said \in {"success", "answered"} /\ res.done = Meant(r)

(* The client has read as much of the answer as has arrived.                *)
Concluded(a, r, k, res) ==
  ResultIsGood(a, r, k = Len(ReplyBody(a, r)) /\ ~r.split, res)

(* Of every beginning of every answer, nothing is concluded that the broker *)
(* did not tell.                                                            *)
LEMMA WhatIsRead ==
  ASSUME NEW a \in Asks, NEW r \in Replies(a), NEW k \in 0 .. Len(ReplyBody(a, r))
  PROVE  Concluded(a, r, k, ClientResult(a, B64Decode(SubSeq(ReplyBody(a, r), 1, k))))
<1> DEFINE body == ReplyBody(a, r)
           data == B64Decode(SubSeq(body, 1, k))
           text == TextOf(a, r)
           whole == k = Len(body) /\ ~r.split
           res == ClientResult(a, data)
           all == Len(r.frames) + 1
<1>1. PICK n : ReadsSome(a, r, data, n) /\ (data = text => n = all)
  BY SomeIsRead
<1>2. data \in Seq(Bytes) /\ (whole => data = text)
  BY SomeIsRead
<1>3. r.status \in Nat
  BY StatusIsShort
<1> HIDE DEF data, text, whole, res, all
<1>4. CASE a.kind = "order"
  <2>1. res = TradeResult(data)
    BY <1>4 DEF ClientResult, res
  <2>2. TradeIsGood(r, n = all, res)
    BY <1>1, <1>4, <2>1, TradeIsRead DEF all
  <2>3. /\ res.said \in Sayings /\ res.status \in Nat
        /\ IF res.said = "success" THEN r.status = 0 /\ res.done = Meant(r) ELSE res.done = {}
        /\ whole => IF r.status = 0 THEN res.said = "success" ELSE res.said # "success" /\ res.status = r.status
    BY <1>1, <1>2, <2>2 DEF TradeIsGood
  <2>4. ResultIsGood(a, r, whole, res)
    BY <1>4, <2>3 DEF ResultIsGood
  <2> QED BY <2>4 DEF Concluded, whole, res, data
<1>5. CASE a.kind = "cancel"
  <2>1. res = CancelResult(data, a.numbers)
    BY <1>5 DEF ClientResult, res
  <2>2. CancelIsGood(r, n = all, res)
    BY <1>1, <1>5, <2>1, CancelIsRead DEF all
  <2>3. /\ res.said = "answered" /\ res.status \in Nat /\ res.done \subseteq Meant(r)
        /\ whole => res.status = r.status /\ res.done = IF r.status = 0 THEN Meant(r) ELSE {}
    BY <1>1, <1>2, <2>2 DEF CancelIsGood
  <2>4. ResultIsGood(a, r, whole, res)
    BY <1>5, <2>3 DEF ResultIsGood, Sayings
  <2> QED BY <2>4 DEF Concluded, whole, res, data
<1>6. CASE a.kind = "token"
  <2>1. res = TokenResult(data)
    BY <1>6 DEF ClientResult, res
  <2>2. TokenIsGood(r, data = text, res)
    BY <1>2, <1>6, <2>1, TokenIsRead DEF text
  <2>3. /\ res.said \in Sayings /\ res.status \in Nat
        /\ whole => IF r.status = 0 THEN res.done = ToSet(r.frames) ELSE res.said # "success" /\ res.done = {}
    BY <1>2, <2>2 DEF TokenIsGood
  <2>5. a.kind # "order" /\ a.kind # "cancel"
    BY <1>6
  <2>4. ResultIsGood(a, r, whole, res)
    BY <1>6, <2>3, <2>5 DEF ResultIsGood
  <2> QED BY <2>4 DEF Concluded, whole, res, data
<1> QED BY <1>4, <1>5, <1>6, KindOfAsk

(* An error concludes nothing.                                              *)
LEMMA RaisedIsGood ==
  ASSUME NEW a, NEW r, NEW res, res.said = "raised", res.status = 0, res.done = {}, NEW whole, ~whole
  PROVE  ResultIsGood(a, r, whole, res)
<1>1. res.said \in Sayings /\ res.status \in Nat /\ res.said # "success" /\ res.done \subseteq Meant(r)
  BY DEF Sayings
<1> QED BY <1>1, Zenon DEF ResultIsGood

(* The inductive invariant: what is under way is the request or an answer   *)
(* to it, and what was concluded of the part that arrived is good.          *)
BodyUnderWay == quanta = IF phase = "asking" THEN Body(ask) ELSE ReplyBody(ask, reply)
AInv ==
  /\ phase \in {"asking", "answering", "over"}
  /\ ask \in Asks
  /\ BodyUnderWay
  /\ arrived \in 0 .. Len(quanta)
  /\ phase # "asking" => reply \in Replies(ask)
  /\ phase = "over" => Concluded(ask, reply, arrived, result)

(* However requests and answers are cut off, decoded and follow one         *)
(* another, what is concluded stays good.                                   *)
THEOREM AnswerInvariance == Spec => []AInv
<1>1. Init => AInv
  <2> SUFFICES ASSUME Init PROVE AInv
    OBVIOUS
  <2>1. phase = "asking" /\ ask \in Asks /\ quanta = Body(ask) /\ arrived = 0
    BY DEF Init
  <2>2. Len(quanta) \in Nat
    BY <2>1, BodyType, LenProperties
  <2>3. arrived \in 0 .. Len(quanta)
    BY <2>1, <2>2
  <2> QED BY <2>1, <2>3 DEF AInv, BodyUnderWay
<1>2. AInv /\ [Next]_vars => AInv'
  <2> SUFFICES ASSUME AInv, [Next]_vars PROVE AInv'
    OBVIOUS
  <2> USE DEF AInv
  <2>0. quanta \in Seq(Seq(Bytes)) /\ Len(quanta) \in Nat
    <3>1. quanta \in Seq(Seq(Bytes))
      BY BodyType, TextIsAnswer DEF BodyUnderWay
    <3> QED BY <3>1, LenProperties
  <2>1. CASE Arrives
    <3>1. /\ phase # "over" /\ arrived < Len(quanta) /\ arrived' = arrived + 1
          /\ UNCHANGED <<phase, ask, quanta, reply, result>>
      BY <2>1 DEF Arrives
    <3>2. arrived' \in 0 .. Len(quanta')
      <4> DEFINE l == Len(quanta)
      <4>1. l \in Nat /\ arrived \in 0 .. l /\ arrived < l
        BY <2>0, <3>1
      <4> HIDE DEF l
      <4>2. arrived + 1 \in 0 .. l
        BY <4>1
      <4> QED BY <3>1, <4>2 DEF l
    <3> QED BY <3>1, <3>2 DEF BodyUnderWay
  <2>2. CASE ServerAnswers
    <3>1. /\ phase' = "answering" /\ ask' = ask /\ reply' \in Replies(ask)
          /\ quanta' = ReplyBody(ask, reply') /\ arrived' = 0
      BY <2>2 DEF ServerAnswers
    <3>2. Len(quanta') \in Nat
      BY <3>1, TextIsAnswer, LenProperties
    <3>3. arrived' \in 0 .. Len(quanta')
      BY <3>1, <3>2
    <3> QED BY <3>1, <3>3 DEF BodyUnderWay
  <2>3. CASE ClientReads
    <3>1. /\ phase = "answering" /\ phase' = "over"
          /\ result' = ClientResult(ask, B64Decode(SubSeq(quanta, 1, arrived)))
          /\ UNCHANGED <<ask, quanta, arrived, reply>>
      BY <2>3 DEF ClientReads
    <3>2. quanta = ReplyBody(ask, reply) /\ reply \in Replies(ask)
      BY <3>1 DEF BodyUnderWay
    <3>3. Concluded(ask, reply, arrived, result')
      BY <3>1, <3>2, WhatIsRead
    <3> QED BY <3>1, <3>2, <3>3 DEF BodyUnderWay
  <2>4. CASE ClientRaises
    <3>1. /\ phase = "answering" /\ phase' = "over" /\ arrived < Len(quanta)
          /\ result' = Result("raised", 0, {})
          /\ UNCHANGED <<ask, quanta, arrived, reply>>
      BY <2>4 DEF ClientRaises
    <3>2. quanta = ReplyBody(ask, reply) /\ reply \in Replies(ask)
      BY <3>1 DEF BodyUnderWay
    <3>3. arrived # Len(ReplyBody(ask, reply))
      <4> DEFINE l == Len(quanta)
      <4>1. l \in Nat /\ arrived \in 0 .. l /\ arrived < l
        BY <2>0, <3>1
      <4> HIDE DEF l
      <4>2. arrived # l
        BY <4>1
      <4> QED BY <3>2, <4>2 DEF l
    <3>4. result'.said = "raised" /\ result'.status = 0 /\ result'.done = {}
      BY <3>1, ResultParts
    <3>5. Concluded(ask, reply, arrived, result')
      <4> DEFINE whole == arrived = Len(ReplyBody(ask, reply)) /\ ~reply.split
      <4>1. ~whole
        BY <3>3
      <4> HIDE DEF whole
      <4>2. ResultIsGood(ask, reply, whole, result')
        BY <3>4, <4>1, RaisedIsGood
      <4> QED BY <4>2 DEF Concluded, whole
    <3> QED BY <3>1, <3>2, <3>5 DEF BodyUnderWay
  <2>5. CASE NextExchange
    <3>1. phase' = "asking" /\ ask' \in Asks /\ quanta' = Body(ask') /\ arrived' = 0
      BY <2>5 DEF NextExchange
    <3>2. Len(quanta') \in Nat
      BY <3>1, BodyType, LenProperties
    <3>3. arrived' \in 0 .. Len(quanta')
      BY <3>1, <3>2
    <3> QED BY <3>1, <3>3 DEF BodyUnderWay
  <2>6. CASE UNCHANGED vars
    BY <2>6 DEF vars, BodyUnderWay
  <2> QED BY <2>1, <2>2, <2>3, <2>4, <2>5, <2>6 DEF Next
<1> QED BY <1>1, <1>2, PTL DEF Spec

LEMMA GivenIsMeant == Given = Meant(reply)
BY DEF Given, Meant

(* What the client concludes has its type: the ids and numbers of orders    *)
(* and cancellations are ids and numbers, for any layout of the answer      *)
(* (client.py:304, 374).                                                    *)
THEOREM AnswersHaveTypes == Spec => []TypeOK
<1>1. AInv => TypeOK
  <2> SUFFICES ASSUME AInv PROVE TypeOK
    OBVIOUS
  <2> USE DEF AInv
  <2>1. quanta \in Seq(Seq(Bytes))
    BY BodyType, TextIsAnswer DEF BodyUnderWay
  <2>2. ASSUME phase = "over"
        PROVE  /\ result.said \in {"ambiguous", "failure", "raised", "success", "answered"}
               /\ result.status \in Nat
               /\ ask.kind # "token" => result.done \subseteq Acks
    <3>1. IsReply(ask, reply) /\ ask.kind \in {"order", "cancel", "token"}
      BY <2>2, RepliesAre, KindOfAsk
    <3>2. ask.kind # "token" => Meant(reply) \subseteq Acks
      BY <3>1, MeantAre
    <3>3. /\ result.said \in Sayings /\ result.status \in Nat
          /\ ask.kind = "order" => IF result.said = "success" THEN result.done = Meant(reply) ELSE result.done = {}
          /\ ask.kind = "cancel" => result.done \subseteq Meant(reply)
      BY <2>2 DEF Concluded, ResultIsGood
    <3> QED BY <3>1, <3>2, <3>3 DEF Sayings
  <2> QED BY <2>1, <2>2 DEF TypeOK
<1> QED BY <1>1, AnswerInvariance, PTL

(* Success is only concluded from an order the broker took, with its id and *)
(* number, wherever the answer is cut off (client.py:374).                  *)
THEOREM SuccessIsTheBrokers == Spec => []SuccessIsReal
<1>1. AInv => SuccessIsReal
  BY GivenIsMeant DEF AInv, SuccessIsReal, Concluded, ResultIsGood
<1> QED BY <1>1, AnswerInvariance, PTL

(* An order reported as cancelled is one the broker has cancelled, also     *)
(* when the answer is cut off (client.py:304).                              *)
THEOREM CancelledIsTheBrokers == Spec => []CancelledIsReal
<1>1. AInv => CancelledIsReal
  BY GivenIsMeant DEF AInv, CancelledIsReal, Concluded, ResultIsGood
<1> QED BY <1>1, AnswerInvariance, PTL

(* An answer that arrives whole, encoded in one piece, is understood: its   *)
(* status, its token and its ids and numbers (client.py:304, 374,           *)
(* proto.py:227).                                                           *)
THEOREM WholeAnswersAreUnderstood == Spec => []WholeAnswerIsUnderstood
<1>1. AInv => WholeAnswerIsUnderstood
  <2> SUFFICES ASSUME AInv, phase = "over", arrived = Len(quanta), ~reply.split
               PROVE  CASE reply.status # 0 -> /\ result.said # "success" /\ result.done = {}
                                               /\ ask.kind # "token" => result.status = reply.status
                        [] reply.status = 0 /\ ask.kind = "token" -> result.done = ToSet(reply.frames)
                        [] reply.status = 0 /\ ask.kind # "token" -> result.said \in {"success", "answered"} /\ result.done = Given
    BY DEF WholeAnswerIsUnderstood
  <2>1. quanta = ReplyBody(ask, reply) /\ Concluded(ask, reply, arrived, result)
    BY DEF AInv, BodyUnderWay
  <2>2. ResultIsGood(ask, reply, TRUE, result)
    BY <2>1 DEF Concluded
  <2> QED BY <2>2, GivenIsMeant DEF ResultIsGood
<1> QED BY <1>1, AnswerInvariance, PTL
=============================================================================
