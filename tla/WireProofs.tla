----------------------------- MODULE WireProofs -----------------------------
(***************************************************************************)
(* The server reads what was asked, whatever is asked: an order with any   *)
(* numbers and optional prices, a cancellation of any numbers, a token     *)
(* request with any texts, as long as the message fits into its frame.     *)
(*                                                                         *)
(* The decoders of Wire are functions recursive in the position they read  *)
(* from.  That such a function exists, so that its defining equation may   *)
(* be used, is Recursion below: the functions that agree with the equation *)
(* below a measure n are never empty (BelowIsNotEmpty), agree with each    *)
(* other (BelowAgree), and so have a limit.  Both are proved with the      *)
(* least counterexample (Least), as every induction here is.               *)
(*                                                                         *)
(* Then: a varint is read where it stands (VarintIsRead), hence a packed   *)
(* list of numbers (NumbersAreRead), one field and a sequence of fields    *)
(* (EncodedFieldsAreRead), a frame (FrameIsRead), the base64 text          *)
(* (QuantaAreDecoded) and the three messages (MessageIsRead).              *)
(***************************************************************************)
EXTENDS Wire, WellFoundedInduction, SequenceTheorems, TLAPS

LEMMA Least ==
  ASSUME NEW T, T \subseteq Nat, T # {}
  PROVE  \E n \in T : \A m \in T : n <= m
<1> DEFINE R == OpToRel(<, Nat)
<1>1. IsWellFoundedOn(R, Nat)
  BY NatLessThanWellFounded
<1>2. PICK n \in T : \A m \in T : ~(<<m, n>> \in R)
  <2> HIDE DEF R
  <2> QED BY ONLY <1>1, T \subseteq Nat, T # {}, WFMin
<1>3. \A m \in T : ~(m < n)
  BY <1>2 DEF OpToRel
<1> QED BY <1>3

(* A function may be defined by recursion where its value at x depends only *)
(* on its values of a smaller measure.                                      *)
DependsBelow(S, V, mu, G) ==
  \A x \in S : \A g, h \in [S -> V] :
    (\A y \in S : mu[y] < mu[x] => g[y] = h[y]) => G[<<x, g>>] = G[<<x, h>>]

Below(S, V, mu, G, n) ==
  {g \in [S -> V] : \A x \in S : mu[x] < n => g[x] = G[<<x, g>>]}

LEMMA BelowIsNotEmpty ==
  ASSUME NEW S, NEW V, NEW mu \in [S -> Nat], NEW G \in [S \X [S -> V] -> V], V # {},
         DependsBelow(S, V, mu, G)
  PROVE  \A n \in Nat : Below(S, V, mu, G, n) # {}
<1> DEFINE Bad == {n \in Nat : Below(S, V, mu, G, n) = {}}
<1> SUFFICES ASSUME Bad # {} PROVE FALSE
  OBVIOUS
<1>1. PICK n \in Bad : \A m \in Bad : n <= m
  BY Least
<1>2. CASE n = 0
  <2>1. PICK v \in V : TRUE
    OBVIOUS
  <2>2. [x \in S |-> v] \in Below(S, V, mu, G, 0)
    BY DEF Below
  <2> QED BY <1>1, <1>2, <2>2
<1>3. CASE n # 0
  <2>1. n - 1 \in Nat /\ n - 1 \notin Bad
    BY <1>1, <1>3
  <2>2. PICK g : g \in Below(S, V, mu, G, n - 1)
    BY <2>1
  <2>3. g \in [S -> V] /\ \A x \in S : mu[x] < n - 1 => g[x] = G[<<x, g>>]
    BY <2>2 DEF Below
  <2> DEFINE h == [x \in S |-> G[<<x, g>>]]
  <2>4. h \in [S -> V]
    BY <2>3
  <2>5. ASSUME NEW x \in S, mu[x] < n PROVE h[x] = G[<<x, h>>]
    <3>1. \A y \in S : mu[y] < mu[x] => g[y] = h[y]
      BY <2>1, <2>3, <2>5
    <3>2. G[<<x, g>>] = G[<<x, h>>]
      BY <2>3, <2>4, <3>1 DEF DependsBelow
    <3> QED BY <3>2
  <2>6. h \in Below(S, V, mu, G, n)
    BY <2>4, <2>5 DEF Below
  <2> QED BY <1>1, <2>6
<1> QED BY <1>2, <1>3

Agree(S, V, mu, G) ==
  \A n, m \in Nat : \A g \in Below(S, V, mu, G, n), h \in Below(S, V, mu, G, m) :
    \A x \in S : mu[x] < n /\ mu[x] < m => g[x] = h[x]

LEMMA BelowAgree ==
  ASSUME NEW S, NEW V, NEW mu \in [S -> Nat], NEW G \in [S \X [S -> V] -> V],
         DependsBelow(S, V, mu, G)
  PROVE  Agree(S, V, mu, G)
<1> SUFFICES ASSUME NEW n \in Nat, NEW m \in Nat,
                    NEW g \in Below(S, V, mu, G, n), NEW h \in Below(S, V, mu, G, m),
                    NEW x \in S, mu[x] < n, mu[x] < m
             PROVE  g[x] = h[x]
  BY DEF Agree
<1> DEFINE Bad == {k \in Nat : \E y \in S : mu[y] = k /\ k < n /\ k < m /\ g[y] # h[y]}
<1>1. /\ g \in [S -> V] /\ \A y \in S : mu[y] < n => g[y] = G[<<y, g>>]
      /\ h \in [S -> V] /\ \A y \in S : mu[y] < m => h[y] = G[<<y, h>>]
  BY DEF Below
<1>2. Bad = {}
  <2> SUFFICES ASSUME Bad # {} PROVE FALSE
    OBVIOUS
  <2>1. PICK k \in Bad : \A j \in Bad : k <= j
    BY Least
  <2>2. PICK y \in S : mu[y] = k /\ k < n /\ k < m /\ g[y] # h[y]
    BY <2>1
  <2>3. \A z \in S : mu[z] < mu[y] => g[z] = h[z]
    BY <2>1, <2>2
  <2>4. G[<<y, g>>] = G[<<y, h>>]
    BY <1>1, <2>3 DEF DependsBelow
  <2> QED BY <1>1, <2>2, <2>4
<1> QED BY <1>2

Defines(S, V, G) == \E f \in [S -> V] : f = [x \in S |-> G[<<x, f>>]]

LEMMA Recursion ==
  ASSUME NEW S, NEW V, NEW mu \in [S -> Nat], NEW G \in [S \X [S -> V] -> V], V # {},
         DependsBelow(S, V, mu, G)
  PROVE  Defines(S, V, G)
<1>5. Agree(S, V, mu, G)
  BY BelowAgree
<1> DEFINE some == [n \in Nat |-> CHOOSE g : g \in Below(S, V, mu, G, n)]
           f == [x \in S |-> some[mu[x] + 1][x]]
<1>1. \A n \in Nat : some[n] \in Below(S, V, mu, G, n)
  <2>1. \A n \in Nat : Below(S, V, mu, G, n) # {}
    BY BelowIsNotEmpty
  <2> QED BY <2>1
<1> HIDE DEF some
<1>2. \A n \in Nat : some[n] \in [S -> V] /\ \A x \in S : mu[x] < n => some[n][x] = G[<<x, some[n]>>]
  BY <1>1 DEF Below
<1>3. \A x \in S : mu[x] \in Nat /\ mu[x] + 1 \in Nat /\ mu[x] < mu[x] + 1
  OBVIOUS
<1>4. f \in [S -> V]
  BY <1>2, <1>3
<1>9. \A x \in S : f[x] = some[mu[x] + 1][x]
  OBVIOUS
<1> HIDE DEF f
<1>6. ASSUME NEW x \in S PROVE f[x] = G[<<x, f>>]
  <2>1. ASSUME NEW y \in S, mu[y] < mu[x] PROVE some[mu[x] + 1][y] = f[y]
    <3>1. mu[y] < mu[x] + 1
      BY <1>3, <2>1
    <3>2. some[mu[x] + 1] \in Below(S, V, mu, G, mu[x] + 1) /\ some[mu[y] + 1] \in Below(S, V, mu, G, mu[y] + 1)
      BY <1>1, <1>3
    <3>3. some[mu[x] + 1][y] = some[mu[y] + 1][y]
      BY <1>3, <1>5, <2>1, <3>1, <3>2 DEF Agree
    <3> QED BY <1>9, <3>3
  <2>2. some[mu[x] + 1] \in [S -> V]
    BY <1>2, <1>3
  <2>3. G[<<x, some[mu[x] + 1]>>] = G[<<x, f>>]
    BY <1>4, <2>1, <2>2 DEF DependsBelow
  <2>4. some[mu[x] + 1][x] = G[<<x, some[mu[x] + 1]>>]
    BY <1>2, <1>3
  <2> QED BY <1>9, <2>3, <2>4
<1>7. f = [x \in S |-> G[<<x, f>>]]
  BY <1>4, <1>6
<1> QED BY <1>4, <1>7 DEF Defines


-----------------------------------------------------------------------------
(* Varints. *)

LEMMA SmallDivisor ==
  ASSUME NEW n \in Nat, n > 127
  PROVE  n \div 128 \in Nat /\ n \div 128 < n /\ n % 128 \in 0 .. 127 /\ n = (n % 128) + 128 * (n \div 128)
OBVIOUS

LEMMA VarintDef ==
  /\ Varint \in [Nat -> Seq(Bytes)]
  /\ \A n \in Nat : Varint[n] = IF n > 127 THEN <<(n % 128) + 128>> \o Varint[n \div 128] ELSE <<n>>
<1> DEFINE V == Seq(Bytes)
           mu == [n \in Nat |-> n]
           G == [p \in Nat \X [Nat -> V] |->
                   IF p[1] > 127 THEN <<(p[1] % 128) + 128>> \o p[2][p[1] \div 128] ELSE <<p[1]>>]
<1>1. ASSUME NEW n \in Nat, NEW g \in [Nat -> V]
      PROVE  /\ G[<<n, g>>] = IF n > 127 THEN <<(n % 128) + 128>> \o g[n \div 128] ELSE <<n>>
             /\ G[<<n, g>>] \in V
  <2>1. G[<<n, g>>] = IF n > 127 THEN <<(n % 128) + 128>> \o g[n \div 128] ELSE <<n>>
    OBVIOUS
  <2>2. CASE n > 127
    <3>1. (n % 128) + 128 \in Bytes /\ n \div 128 \in Nat
      BY <2>2, SmallDivisor DEF Bytes
    <3>2. g[n \div 128] \in Seq(Bytes) /\ <<(n % 128) + 128>> \in Seq(Bytes)
      BY <3>1
    <3>3. <<(n % 128) + 128>> \o g[n \div 128] \in Seq(Bytes)
      BY ONLY <3>2, ConcatProperties
    <3> QED BY <2>1, <2>2, <3>3
  <2>3. CASE ~(n > 127)
    <3>1. n \in Bytes
      BY <2>3 DEF Bytes
    <3>2. <<n>> \in Seq(Bytes)
      BY <3>1
    <3> QED BY <2>1, <2>3, <3>2
  <2> QED BY <2>1, <2>2, <2>3
<1>2. G \in [Nat \X [Nat -> V] -> V]
  <2>1. \A p \in Nat \X [Nat -> V] : p = <<p[1], p[2]>> /\ p[1] \in Nat /\ p[2] \in [Nat -> V]
    OBVIOUS
  <2>2. \A p \in Nat \X [Nat -> V] : G[p] \in V
    <3> HIDE DEF G, V
    <3> QED BY <1>1, <2>1
  <2> QED BY <2>2
<1>3. mu \in [Nat -> Nat] /\ \A n \in Nat : mu[n] = n
  OBVIOUS
<1>4. DependsBelow(Nat, V, mu, G)
  <2> SUFFICES ASSUME NEW n \in Nat, NEW g \in [Nat -> V], NEW h \in [Nat -> V],
                      \A m \in Nat : mu[m] < mu[n] => g[m] = h[m]
               PROVE  G[<<n, g>>] = G[<<n, h>>]
    BY DEF DependsBelow
  <2>1. n > 127 => g[n \div 128] = h[n \div 128]
    BY <1>3, SmallDivisor
  <2> HIDE DEF G, V, mu
  <2>2. /\ G[<<n, g>>] = IF n > 127 THEN <<(n % 128) + 128>> \o g[n \div 128] ELSE <<n>>
        /\ G[<<n, h>>] = IF n > 127 THEN <<(n % 128) + 128>> \o h[n \div 128] ELSE <<n>>
    BY <1>1, Zenon
  <2>3. CASE n > 127
    BY ONLY <2>1, <2>2, <2>3, ZenonT(30)
  <2>4. CASE ~(n > 127)
    BY ONLY <2>2, <2>4, ZenonT(30)
  <2> QED BY <2>3, <2>4, Zenon
<1>5. V # {}
  BY EmptySeq
<1> HIDE DEF G, V, mu
<1>0. Defines(Nat, V, G)
  BY <1>2, <1>3, <1>4, <1>5, Recursion
<1>6. PICK f \in [Nat -> V] : f = [n \in Nat |-> G[<<n, f>>]]
  BY <1>0 DEF Defines
<1>7. f = [n \in Nat |-> IF n > 127 THEN <<(n % 128) + 128>> \o f[n \div 128] ELSE <<n>>]
  BY <1>1, <1>6
<1> DEFINE Is(g) == g = [n \in Nat |-> IF n > 127 THEN <<(n % 128) + 128>> \o g[n \div 128] ELSE <<n>>]
<1>8. Varint = CHOOSE g : Is(g)
  BY DEF Varint
<1>9. Is(Varint)
  <2>1. Is(f)
    BY <1>7
  <2> HIDE DEF Is
  <2> QED BY <1>8, <2>1
<1>10. /\ DOMAIN Varint = Nat /\ Varint = [n \in Nat |-> Varint[n]]
       /\ \A n \in Nat : Varint[n] = IF n > 127 THEN <<(n % 128) + 128>> \o Varint[n \div 128] ELSE <<n>>
  BY <1>9
<1>11. \A n \in Nat : Varint[n] \in Seq(Bytes)
  <2> DEFINE Bad == {n \in Nat : Varint[n] \notin Seq(Bytes)}
  <2> SUFFICES ASSUME Bad # {} PROVE FALSE
    OBVIOUS
  <2>1. PICK n \in Bad : \A m \in Bad : n <= m
    BY Least
  <2>2. CASE n > 127
    <3>1. (n % 128) + 128 \in Bytes /\ n \div 128 \in Nat /\ n \div 128 < n
      BY <2>2, SmallDivisor DEF Bytes
    <3>2. Varint[n \div 128] \in Seq(Bytes) /\ <<(n % 128) + 128>> \in Seq(Bytes)
      BY <2>1, <3>1
    <3>3. <<(n % 128) + 128>> \o Varint[n \div 128] \in Seq(Bytes)
      BY ONLY <3>2, ConcatProperties
    <3> QED BY <1>10, <2>1, <2>2, <3>3
  <2>3. CASE ~(n > 127)
    <3>1. n \in Bytes
      BY <2>3 DEF Bytes
    <3>2. <<n>> \in Seq(Bytes)
      BY <3>1
    <3> QED BY <1>10, <2>1, <2>3, <3>2
  <2> QED BY <2>2, <2>3
<1> QED BY <1>10, <1>11

(* data holds the bytes s from pos on. *)
Holds(data, pos, s) ==
  /\ pos + Len(s) - 1 <= Len(data)
  /\ \A k \in 1 .. Len(s) : data[pos + k - 1] = s[k]

LEMMA HoldsConcat ==
  ASSUME NEW data \in Seq(Bytes), NEW pos \in Positions, NEW s \in Seq(Bytes), NEW t \in Seq(Bytes),
         Holds(data, pos, s \o t)
  PROVE  Holds(data, pos, s) /\ Holds(data, pos + Len(s), t)
<1>1. /\ Len(s \o t) = Len(s) + Len(t)
      /\ \A i \in 1 .. Len(s) + Len(t) : (s \o t)[i] = IF i <= Len(s) THEN s[i] ELSE t[i - Len(s)]
  BY ConcatProperties
<1>2. Len(s) \in Nat /\ Len(t) \in Nat /\ Len(data) \in Nat /\ pos \in Nat /\ pos > 0
  BY LenProperties DEF Positions
<1>3. ASSUME NEW k \in 1 .. Len(s) PROVE data[pos + k - 1] = s[k]
  <2>1. k \in 1 .. Len(s) + Len(t) /\ (s \o t)[k] = s[k]
    BY <1>1, <1>2
  <2> QED BY <2>1, <1>1 DEF Holds
<1>4. ASSUME NEW k \in 1 .. Len(t) PROVE data[pos + Len(s) + k - 1] = t[k]
  <2>1. k + Len(s) \in 1 .. Len(s) + Len(t) /\ (s \o t)[k + Len(s)] = t[k]
    BY <1>1, <1>2
  <2>2. data[pos + (k + Len(s)) - 1] = t[k]
    BY <2>1, <1>1 DEF Holds
  <2>3. pos + (k + Len(s)) - 1 = pos + Len(s) + k - 1
    BY <1>2
  <2> QED BY <2>2, <2>3
<1>5. pos + Len(s) - 1 <= Len(data) /\ pos + Len(s) + Len(t) - 1 <= Len(data)
  BY <1>1, <1>2 DEF Holds
<1> QED BY <1>3, <1>4, <1>5 DEF Holds

LEMMA HoldsItself ==
  ASSUME NEW data \in Seq(Bytes)
  PROVE  Holds(data, 1, data)
<1>1. Len(data) \in Nat
  BY LenProperties
<1> QED BY <1>1 DEF Holds

LEMMA Part ==
  ASSUME NEW S, NEW data \in Seq(S), NEW m \in Positions, NEW n \in Nat, n <= Len(data), m <= n + 1
  PROVE  /\ SubSeq(data, m, n) \in Seq(S)
         /\ Len(SubSeq(data, m, n)) = n - m + 1
         /\ \A i \in 1 .. n - m + 1 : SubSeq(data, m, n)[i] = data[m + i - 1]
<1>1. m \in Int /\ n \in Int /\ m > 0 /\ Len(data) \in Nat
  BY LenProperties DEF Positions
<1>2. \A i \in m .. n : data[i] \in S
  <2>1. \A i \in m .. n : i \in 1 .. Len(data)
    BY <1>1
  <2> QED BY <2>1, ElementOfSeq
<1>3. /\ SubSeq(data, m, n) \in Seq(S)
      /\ Len(SubSeq(data, m, n)) = IF m <= n THEN n - m + 1 ELSE 0
      /\ \A i \in 1 .. n - m + 1 : SubSeq(data, m, n)[i] = data[m + i - 1]
  BY ONLY <1>1, <1>2, SubSeqProperties
<1>4. (IF m <= n THEN n - m + 1 ELSE 0) = n - m + 1
  BY <1>1
<1> QED BY <1>3, <1>4

LEMMA SliceReads ==
  ASSUME NEW data \in Seq(Bytes), NEW pos \in Positions, NEW s \in Seq(Bytes), Holds(data, pos, s)
  PROVE  Slice(data, pos, Len(s)) = s
<1>1. Len(s) \in Nat /\ Len(data) \in Nat /\ pos \in Nat /\ pos > 0
  BY LenProperties DEF Positions
<1>2. Slice(data, pos, Len(s)) = SubSeq(data, pos, pos + Len(s) - 1)
  <2>1. (IF pos + Len(s) - 1 < Len(data) THEN pos + Len(s) - 1 ELSE Len(data)) = pos + Len(s) - 1
    <3>1. pos + Len(s) - 1 <= Len(data)
      BY DEF Holds
    <3> QED BY <1>1, <3>1
  <2> QED BY <2>1, Zenon DEF Slice
<1> DEFINE n == pos + Len(s) - 1
           t == SubSeq(data, pos, n)
<1>3. n \in Nat /\ n <= Len(data) /\ pos <= n + 1 /\ n - pos + 1 = Len(s)
  BY <1>1 DEF Holds
<1>4. \A i \in 1 .. Len(s) : data[pos + i - 1] = s[i]
  BY DEF Holds
<1> HIDE DEF n
<1>5. t \in Seq(Bytes) /\ Len(t) = Len(s) /\ \A i \in 1 .. Len(s) : t[i] = data[pos + i - 1]
  BY <1>3, Part
<1> HIDE DEF t
<1>6. t = s
  BY <1>4, <1>5, SeqEqual
<1> QED BY <1>2, <1>6 DEF t, n

-----------------------------------------------------------------------------
(* The decoders go through the data from the left to the right. *)

LEMMA Greatest ==
  ASSUME NEW n \in Nat, NEW T, T \subseteq Positions, T # {}, \A p \in T : p <= n
  PROVE  \E p \in T : \A q \in T : q <= p
<1> DEFINE U == {n - p : p \in T}
<1>1. U \subseteq Nat /\ U # {}
  <2>1. \A p \in T : n - p \in Nat
    BY DEF Positions
  <2> QED BY <2>1
<1>2. PICK m \in U : \A k \in U : m <= k
  BY <1>1, Least
<1>3. PICK p \in T : m = n - p
  OBVIOUS
<1>4. \A q \in T : n - p <= n - q
  BY <1>2, <1>3
<1> QED BY <1>4 DEF Positions

Left(data) == [pos \in Positions |-> IF pos > Len(data) THEN 0 ELSE Len(data) + 1 - pos]

LEMMA LeftDecreases ==
  ASSUME NEW S, NEW data \in Seq(S)
  PROVE  /\ Left(data) \in [Positions -> Nat]
         /\ \A p, q \in Positions : p <= Len(data) /\ p < q => Left(data)[q] < Left(data)[p]
<1>1. Len(data) \in Nat
  BY LenProperties
<1>2. \A p \in Positions : Left(data)[p] = IF p > Len(data) THEN 0 ELSE Len(data) + 1 - p
  BY DEF Left
<1>3. Left(data) \in [Positions -> Nat]
  BY <1>1 DEF Left, Positions
<1> QED BY <1>1, <1>2, <1>3 DEF Positions

LEMMA SevenBits ==
  ASSUME NEW b \in 0 .. 255
  PROVE  b \in Nat /\ b % 128 \in 0 .. 127 /\ b % 128 \in Nat
OBVIOUS

LEMMA ByteOf ==
  ASSUME NEW data \in Seq(Bytes), NEW pos \in Positions, ~(pos > Len(data))
  PROVE  data[pos] \in 0 .. 255 /\ data[pos] \in Nat /\ data[pos] % 128 \in Nat
<1>1. pos \in 1 .. Len(data)
  BY LenProperties DEF Positions
<1>2. data[pos] \in 0 .. 255
  BY <1>1, ElementOfSeq DEF Bytes
<1> QED BY ONLY <1>2, SevenBits

LEMMA ValuesDef ==
  ASSUME NEW data \in Seq(Bytes)
  PROVE  \A pos \in Positions :
           /\ Values(data)[pos] \in Nat
           /\ Values(data)[pos] = IF pos > Len(data) THEN 0
                                  ELSE IF data[pos] < 128 THEN data[pos]
                                  ELSE (data[pos] % 128) + 128 * Values(data)[pos + 1]
<1> DEFINE G == [p \in Positions \X [Positions -> Nat] |->
                   IF p[1] > Len(data) THEN 0
                   ELSE IF data[p[1]] < 128 THEN data[p[1]]
                   ELSE (data[p[1]] % 128) + 128 * p[2][p[1] + 1]]
           Is(g) == g = [pos \in Positions |->
                           IF pos > Len(data) THEN 0
                           ELSE IF data[pos] < 128 THEN data[pos]
                           ELSE (data[pos] % 128) + 128 * g[pos + 1]]
<1>1. \A pos \in Positions : pos + 1 \in Positions /\ pos < pos + 1 /\ pos \in Nat
  BY DEF Positions
<1>2. ASSUME NEW pos \in Positions, NEW g \in [Positions -> Nat]
      PROVE  /\ G[<<pos, g>>] = IF pos > Len(data) THEN 0
                                ELSE IF data[pos] < 128 THEN data[pos]
                                ELSE (data[pos] % 128) + 128 * g[pos + 1]
             /\ G[<<pos, g>>] \in Nat
  <2>1. G[<<pos, g>>] = IF pos > Len(data) THEN 0
                        ELSE IF data[pos] < 128 THEN data[pos]
                        ELSE (data[pos] % 128) + 128 * g[pos + 1]
    OBVIOUS
  <2>2. g[pos + 1] \in Nat
    BY <1>1
  <2>3. ~(pos > Len(data)) => data[pos] \in Nat /\ data[pos] % 128 \in Nat
    BY ONLY ByteOf, data \in Seq(Bytes), pos \in Positions
  <2> HIDE DEF G
  <2> QED BY <2>1, <2>2, <2>3
<1>3. G \in [Positions \X [Positions -> Nat] -> Nat]
  <2>1. \A p \in Positions \X [Positions -> Nat] :
          p = <<p[1], p[2]>> /\ p[1] \in Positions /\ p[2] \in [Positions -> Nat]
    OBVIOUS
  <2>2. \A p \in Positions \X [Positions -> Nat] : G[p] \in Nat
    <3> HIDE DEF G
    <3> QED BY <1>2, <2>1
  <2> QED BY <2>2
<1>4. DependsBelow(Positions, Nat, Left(data), G)
  <2> SUFFICES ASSUME NEW pos \in Positions, NEW g \in [Positions -> Nat], NEW h \in [Positions -> Nat],
                      \A q \in Positions : Left(data)[q] < Left(data)[pos] => g[q] = h[q]
               PROVE  G[<<pos, g>>] = G[<<pos, h>>]
    BY DEF DependsBelow
  <2>1. ~(pos > Len(data)) => g[pos + 1] = h[pos + 1]
    <3>1. Len(data) \in Nat
      BY LenProperties
    <3> QED BY <1>1, <3>1, LeftDecreases
  <2> HIDE DEF G
  <2> QED BY <1>2, <2>1, SMTT(30)
<1> HIDE DEF G
<1>5. Defines(Positions, Nat, G)
  BY <1>3, <1>4, LeftDecreases, Recursion
<1>6. PICK f \in [Positions -> Nat] : f = [pos \in Positions |-> G[<<pos, f>>]]
  BY <1>5 DEF Defines
<1>7. Is(f)
  <2>1. \A pos \in Positions : G[<<pos, f>>] = IF pos > Len(data) THEN 0
                                              ELSE IF data[pos] < 128 THEN data[pos]
                                              ELSE (data[pos] % 128) + 128 * f[pos + 1]
    BY <1>2, Zenon
  <2> QED BY ONLY <1>6, <2>1, ZenonT(30) DEF Is
<1>8. Values(data) = CHOOSE g : Is(g)
  BY DEF Values
<1>9. Is(Values(data))
  <2> HIDE DEF Is
  <2> QED BY <1>7, <1>8
<1>10. \A pos \in Positions :
         Values(data)[pos] = IF pos > Len(data) THEN 0
                             ELSE IF data[pos] < 128 THEN data[pos]
                             ELSE (data[pos] % 128) + 128 * Values(data)[pos + 1]
  <2> DEFINE v == Values(data)
  <2>1. Is(v)
    BY <1>9
  <2> HIDE DEF v
  <2>2. \A pos \in Positions : v[pos] = IF pos > Len(data) THEN 0
                                      ELSE IF data[pos] < 128 THEN data[pos]
                                      ELSE (data[pos] % 128) + 128 * v[pos + 1]
    BY <2>1
  <2> QED BY <2>2 DEF v
<1>11. \A pos \in Positions : Values(data)[pos] \in Nat
  <2> DEFINE Bad == {pos \in Positions : Values(data)[pos] \notin Nat}
  <2> SUFFICES ASSUME Bad # {} PROVE FALSE
    OBVIOUS
  <2>1. Len(data) \in Nat
    BY LenProperties
  <2>2. \A pos \in Bad : pos <= Len(data)
    BY <1>1, <1>10, <2>1
  <2>3. PICK pos \in Bad : \A q \in Bad : q <= pos
    BY <2>1, <2>2, Greatest
  <2>8. pos \in Positions /\ pos <= Len(data) /\ pos \in Nat
    BY <1>1, <2>2
  <2>6. ~(pos > Len(data))
    BY <2>1, <2>8
  <2>4. Values(data)[pos + 1] \in Nat
    BY <1>1, <2>3
  <2>5. data[pos] \in Nat /\ data[pos] % 128 \in Nat
    BY ONLY <2>6, <2>8, ByteOf, data \in Seq(Bytes)
  <2>7. Values(data)[pos] = IF data[pos] < 128 THEN data[pos] ELSE (data[pos] % 128) + 128 * Values(data)[pos + 1]
    BY <1>10, <2>6
  <2> QED BY <2>3, <2>4, <2>5, <2>7, SMTT(30)
<1> QED BY <1>10, <1>11

VarintReads(data, pos, n) ==
  ~Truncated(data, pos) /\ After(data, pos) = pos + Len(Varint[n]) /\ DecodeVarint(data, pos) = n

LEMMA HoldsByte ==
  ASSUME NEW data \in Seq(Bytes), NEW pos \in Positions, NEW b, Holds(data, pos, <<b>>)
  PROVE  pos <= Len(data) /\ data[pos] = b
<1>1. Len(<<b>>) = 1 /\ <<b>>[1] = b
  OBVIOUS
<1>2. pos + 1 - 1 <= Len(data) /\ data[pos + 1 - 1] = b
  BY <1>1 DEF Holds
<1>3. pos + 1 - 1 = pos
  BY DEF Positions
<1> QED BY <1>2, <1>3

LEMMA SmallVarintIsRead ==
  ASSUME NEW data \in Seq(Bytes), NEW pos \in Positions, NEW n \in Nat, ~(n > 127),
         Holds(data, pos, Varint[n])
  PROVE  VarintReads(data, pos, n)
<1>1. Varint[n] = <<n>> /\ Len(Varint[n]) = 1
  <2>1. Varint[n] = <<n>>
    BY VarintDef
  <2> QED BY <2>1
<1>2. pos <= Len(data) /\ data[pos] = n
  BY <1>1, HoldsByte
<1>3. Len(data) \in Nat /\ pos \in Nat
  BY LenProperties DEF Positions
<1>4. pos \in Stops(data, pos) /\ \A k \in Stops(data, pos) : pos <= k /\ k \in Nat
  BY <1>2, <1>3 DEF Stops
<1>5. Min(Stops(data, pos)) = pos
  BY <1>3, <1>4 DEF Min
<1>6. Values(data)[pos] = n
  BY <1>2, <1>3, ValuesDef
<1> QED BY <1>1, <1>4, <1>5, <1>6 DEF VarintReads, Truncated, After, DecodeVarint

LEMMA VarintIsRead ==
  ASSUME NEW data \in Seq(Bytes)
  PROVE  \A n \in Nat, pos \in Positions : Holds(data, pos, Varint[n]) => VarintReads(data, pos, n)
<1> DEFINE Bad == {n \in Nat : \E pos \in Positions : Holds(data, pos, Varint[n]) /\ ~VarintReads(data, pos, n)}
<1> SUFFICES ASSUME Bad # {} PROVE FALSE
  OBVIOUS
<1>1. PICK n \in Bad : \A m \in Bad : n <= m
  BY Least
<1>2. PICK pos \in Positions : Holds(data, pos, Varint[n]) /\ ~VarintReads(data, pos, n)
  BY <1>1
<1>3. n \in Nat /\ n > 127
  BY <1>1, <1>2, SmallVarintIsRead
<1> DEFINE m == n \div 128
           b == (n % 128) + 128
<1>4. m \in Nat /\ m < n /\ b \in Bytes /\ n % 128 \in 0 .. 127 /\ n = (n % 128) + 128 * m
  BY <1>3, SmallDivisor DEF Bytes
<1>5. Varint[n] = <<b>> \o Varint[m] /\ Varint[m] \in Seq(Bytes)
  BY <1>3, <1>4, VarintDef
<1>6. pos + 1 \in Positions /\ Len(data) \in Nat /\ pos \in Nat /\ pos > 0
  BY LenProperties DEF Positions
<1>7. b % 128 = n % 128 /\ b >= 128
  BY <1>4
<1> HIDE DEF m, b
<1>8. <<b>> \in Seq(Bytes) /\ Len(<<b>>) = 1
  BY <1>4
<1>9. Len(Varint[n]) = 1 + Len(Varint[m]) /\ Len(Varint[m]) \in Nat
  BY <1>5, <1>8, ConcatProperties, LenProperties
<1>10. Holds(data, pos, <<b>>) /\ Holds(data, pos + 1, Varint[m])
  BY <1>2, <1>5, <1>8, HoldsConcat
<1>11. pos <= Len(data) /\ data[pos] = b
  BY <1>10, HoldsByte
<1>12. VarintReads(data, pos + 1, m)
  BY <1>1, <1>4, <1>6, <1>10
<1>13. Stops(data, pos) = Stops(data, pos + 1)
  <2>1. \A k \in pos .. Len(data) : k = pos \/ k \in pos + 1 .. Len(data)
    BY <1>6
  <2>2. \A k \in pos + 1 .. Len(data) : k \in pos .. Len(data)
    BY <1>6
  <2>3. ~(data[pos] < 128)
    BY <1>4, <1>7, <1>11 DEF Bytes
  <2> QED BY <2>1, <2>2, <2>3 DEF Stops
<1>14. ~Truncated(data, pos) /\ After(data, pos) = pos + Len(Varint[n])
  <2>1. ~Truncated(data, pos + 1) /\ After(data, pos + 1) = pos + 1 + Len(Varint[m])
    BY <1>12 DEF VarintReads
  <2>2. Truncated(data, pos) <=> Truncated(data, pos + 1)
    BY <1>13, Zenon DEF Truncated
  <2>3. After(data, pos) = After(data, pos + 1)
    BY <1>13, Zenon DEF After
  <2>4. ~Truncated(data, pos)
    BY <2>1, <2>2, Zenon
  <2>6. After(data, pos + 1) = pos + 1 + Len(Varint[m])
    BY <2>1
  <2>7. pos + 1 + Len(Varint[m]) = pos + Len(Varint[n])
    <3> DEFINE lm == Len(Varint[m])
               ln == Len(Varint[n])
    <3>1. pos \in Nat /\ lm \in Nat /\ ln = 1 + lm
      BY <1>6, <1>9
    <3> HIDE DEF lm, ln
    <3>2. pos + 1 + lm = pos + ln
      BY ONLY <3>1
    <3> QED BY <3>2 DEF lm, ln
  <2>5. After(data, pos) = pos + Len(Varint[n])
    BY <2>3, <2>6, <2>7
  <2> QED BY <2>4, <2>5
<1>15. DecodeVarint(data, pos) = n
  <2>1. Values(data)[pos + 1] = m
    BY <1>12 DEF VarintReads, DecodeVarint
  <2>2. ~(pos > Len(data)) /\ ~(b < 128)
    BY <1>4, <1>6, <1>7, <1>11 DEF Bytes
  <2>3. Values(data)[pos] = (data[pos] % 128) + 128 * Values(data)[pos + 1]
    BY <1>11, <2>2, ValuesDef
  <2> QED BY <1>4, <1>7, <1>11, <2>1, <2>3 DEF DecodeVarint
<1> QED BY <1>2, <1>14, <1>15 DEF VarintReads

LEMMA VarintLength ==
  ASSUME NEW n \in Nat
  PROVE  Varint[n] \in Seq(Bytes) /\ Len(Varint[n]) \in Nat \ {0}
<1>1. Varint[n] \in Seq(Bytes)
  BY VarintDef
<1>2. CASE n > 127
  <2> DEFINE v == Varint[n \div 128]
             b == (n % 128) + 128
  <2>1. v \in Seq(Bytes) /\ b \in Bytes
    BY <1>2, SmallDivisor, VarintDef DEF Bytes
  <2>2. Varint[n] = <<b>> \o v
    BY <1>2, VarintDef
  <2> HIDE DEF v, b
  <2>3. <<b>> \in Seq(Bytes) /\ Len(<<b>>) = 1
    BY <2>1
  <2>4. Len(<<b>> \o v) = 1 + Len(v) /\ Len(v) \in Nat
    BY <2>1, <2>3, ConcatProperties, LenProperties
  <2> QED BY <1>1, <2>2, <2>4
<1>3. CASE ~(n > 127)
  <2>1. Varint[n] = <<n>>
    BY <1>3, VarintDef
  <2> QED BY <1>1, <2>1
<1> QED BY <1>2, <1>3

LEMMA AfterIsLater ==
  ASSUME NEW data \in Seq(Bytes), NEW pos \in Positions, ~Truncated(data, pos)
  PROVE  After(data, pos) \in Positions /\ pos < After(data, pos) /\ After(data, pos) <= Len(data) + 1
<1>1. Len(data) \in Nat /\ pos \in Nat /\ pos > 0
  BY LenProperties DEF Positions
<1>2. Stops(data, pos) \subseteq Nat /\ Stops(data, pos) # {}
  <2>1. \A k \in pos .. Len(data) : k \in Nat
    BY <1>1
  <2> QED BY <2>1 DEF Stops, Truncated
<1> DEFINE k == Min(Stops(data, pos))
<1>3. k \in Stops(data, pos)
  BY <1>2, Least DEF Min
<1>4. k \in pos .. Len(data)
  BY <1>3 DEF Stops
<1>5. After(data, pos) = k + 1
  BY DEF After
<1> HIDE DEF k
<1> QED BY <1>1, <1>4, <1>5 DEF Positions

LEMMA Later ==
  ASSUME NEW p \in Positions, NEW n \in Nat
  PROVE  p + n \in Positions /\ p <= p + n
BY DEF Positions

(* The server's decoder of packed numbers. *)
NumbersStep(packed, pos, rest) ==
  IF pos > Len(packed) \/ Truncated(packed, pos) THEN <<>>
  ELSE <<DecodeVarint(packed, pos)>> \o rest[After(packed, pos)]

LEMMA NumbersFromDef ==
  ASSUME NEW data \in Seq(Bytes)
  PROVE  \A pos \in Positions : NumbersFrom(data)[pos] = NumbersStep(data, pos, NumbersFrom(data))
<1> DEFINE V == Seq(Nat)
           G == [p \in Positions \X [Positions -> V] |-> NumbersStep(data, p[1], p[2])]
           Is(g) == g = [pos \in Positions |->
                           IF pos > Len(data) \/ Truncated(data, pos) THEN <<>>
                           ELSE <<DecodeVarint(data, pos)>> \o g[After(data, pos)]]
<1>1. ASSUME NEW pos \in Positions, NEW g \in [Positions -> V]
      PROVE  NumbersStep(data, pos, g) \in V
  <2>1. CASE pos > Len(data) \/ Truncated(data, pos)
    BY <2>1 DEF NumbersStep
  <2>2. CASE ~(pos > Len(data) \/ Truncated(data, pos))
    <3>1. After(data, pos) \in Positions
      BY <2>2, AfterIsLater
    <3>2. g[After(data, pos)] \in Seq(Nat)
      BY <3>1
    <3>3. DecodeVarint(data, pos) \in Nat
      BY ValuesDef DEF DecodeVarint
    <3>4. <<DecodeVarint(data, pos)>> \in Seq(Nat)
      BY <3>3
    <3>5. <<DecodeVarint(data, pos)>> \o g[After(data, pos)] \in Seq(Nat)
      BY ONLY <3>2, <3>4, ConcatProperties
    <3> QED BY <2>2, <3>5 DEF NumbersStep
  <2> QED BY <2>1, <2>2
<1>2. \A p \in Positions \X [Positions -> V] :
        p = <<p[1], p[2]>> /\ p[1] \in Positions /\ p[2] \in [Positions -> V]
  OBVIOUS
<1>3. \A pos \in Positions, g \in [Positions -> V] : G[<<pos, g>>] = NumbersStep(data, pos, g)
  OBVIOUS
<1>4. G \in [Positions \X [Positions -> V] -> V]
  <2>1. \A p \in Positions \X [Positions -> V] : NumbersStep(data, p[1], p[2]) \in V
    <3> HIDE DEF V
    <3> QED BY <1>1, <1>2
  <2> QED BY <2>1
<1>5. DependsBelow(Positions, V, Left(data), G)
  <2> SUFFICES ASSUME NEW pos \in Positions, NEW g \in [Positions -> V], NEW h \in [Positions -> V],
                      \A q \in Positions : Left(data)[q] < Left(data)[pos] => g[q] = h[q]
               PROVE  G[<<pos, g>>] = G[<<pos, h>>]
    BY DEF DependsBelow
  <2> HIDE DEF G, V
  <2>1. NumbersStep(data, pos, g) = NumbersStep(data, pos, h)
    <3>1. CASE pos > Len(data) \/ Truncated(data, pos)
      BY <3>1 DEF NumbersStep
    <3>2. CASE ~(pos > Len(data) \/ Truncated(data, pos))
      <4>1. pos <= Len(data) /\ After(data, pos) \in Positions /\ pos < After(data, pos)
        <5>1. Len(data) \in Nat /\ pos \in Nat
          BY LenProperties DEF Positions
        <5> QED BY <3>2, <5>1, AfterIsLater
      <4>2. g[After(data, pos)] = h[After(data, pos)]
        BY <4>1, LeftDecreases
      <4> QED BY <3>2, <4>2 DEF NumbersStep
    <3> QED BY <3>1, <3>2
  <2> QED BY <1>3, <2>1
<1>6. V # {}
  BY EmptySeq
<1> HIDE DEF G, V
<1>7. Defines(Positions, V, G)
  BY <1>4, <1>5, <1>6, LeftDecreases, Recursion
<1>8. PICK f \in [Positions -> V] : f = [pos \in Positions |-> G[<<pos, f>>]]
  BY <1>7 DEF Defines
<1>9. Is(f)
  <2>1. f = [pos \in Positions |-> NumbersStep(data, pos, f)]
    BY <1>3, <1>8
  <2> QED BY <2>1, Zenon DEF NumbersStep
<1>10. NumbersFrom(data) = CHOOSE g : Is(g)
  BY DEF NumbersFrom
<1>11. Is(NumbersFrom(data))
  <2> HIDE DEF Is
  <2> QED BY <1>9, <1>10
<1>12. NumbersFrom(data) = [pos \in Positions |-> NumbersStep(data, pos, NumbersFrom(data))]
  BY <1>11, Zenon DEF NumbersStep
<1> QED BY <1>12, Zenon

-----------------------------------------------------------------------------
(* Concatenations. *)

LEMMA HoldsExtended ==
  ASSUME NEW data \in Seq(Bytes), NEW t \in Seq(Bytes), NEW s \in Seq(Bytes), NEW pos \in Positions,
         Holds(data, pos, s)
  PROVE  Holds(data \o t, pos, s)
<1>1. /\ Len(data \o t) = Len(data) + Len(t)
      /\ \A i \in 1 .. Len(data) + Len(t) : (data \o t)[i] = IF i <= Len(data) THEN data[i] ELSE t[i - Len(data)]
  BY ConcatProperties
<1>2. Len(s) \in Nat /\ Len(t) \in Nat /\ Len(data) \in Nat /\ pos \in Nat /\ pos > 0
  BY LenProperties DEF Positions
<1>3. pos + Len(s) - 1 <= Len(data)
  BY DEF Holds
<1>4. pos + Len(s) - 1 <= Len(data \o t)
  BY <1>1, <1>2, <1>3
<1>5. ASSUME NEW k \in 1 .. Len(s) PROVE (data \o t)[pos + k - 1] = s[k]
  <2>1. pos + k - 1 \in 1 .. Len(data) + Len(t) /\ pos + k - 1 <= Len(data)
    BY <1>2, <1>3
  <2>2. (data \o t)[pos + k - 1] = data[pos + k - 1]
    BY <1>1, <2>1
  <2>3. data[pos + k - 1] = s[k]
    BY DEF Holds
  <2> QED BY <2>2, <2>3
<1> QED BY <1>4, <1>5 DEF Holds

LEMMA HoldsAppended ==
  ASSUME NEW data \in Seq(Bytes), NEW s \in Seq(Bytes)
  PROVE  Len(data) + 1 \in Positions /\ Holds(data \o s, Len(data) + 1, s)
<1>1. Len(data) \in Nat /\ Len(s) \in Nat
  BY LenProperties
<1>2. data \o s \in Seq(Bytes)
  BY ConcatProperties
<1>3. Holds(data \o s, 1, data \o s)
  BY <1>2, HoldsItself
<1>4. 1 \in Positions /\ 1 + Len(data) = Len(data) + 1 /\ Len(data) + 1 \in Positions
  BY <1>1 DEF Positions
<1>5. Holds(data \o s, 1 + Len(data), s)
  BY <1>2, <1>3, <1>4, HoldsConcat
<1> QED BY <1>4, <1>5

Flattening(T, ss, fl) ==
  /\ fl \in [1 .. Len(ss) -> Seq(T)]
  /\ FlattenSeq(ss) = fl[Len(ss)]
  /\ fl[1] = ss[1]
  /\ \A i \in 2 .. Len(ss) : fl[i] = fl[i - 1] \o ss[i]
Flattens(T, ss) == \E fl : Flattening(T, ss, fl)

LEMMA FlattenSeqDef ==
  ASSUME NEW T, NEW ss \in Seq(Seq(T)), Len(ss) # 0
  PROVE  Flattens(T, ss)
<1> DEFINE n == Len(ss)
           S == 1 .. n
           V == Seq(T)
           mu == [i \in S |-> i]
           G == [p \in S \X [S -> V] |-> IF p[1] = 1 THEN ss[p[1]] ELSE p[2][p[1] - 1] \o ss[p[1]]]
           Is(g) == g = [i \in 1 .. Len(ss) |-> IF i = 1 THEN ss[i] ELSE g[i - 1] \o ss[i]]
<1>1. n \in Nat /\ n > 0
  BY LenProperties
<1>2. \A i \in S : ss[i] \in V
  BY ElementOfSeq
<1>3. \A i \in S : i # 1 => i - 1 \in S
  BY <1>1
<1>4. ASSUME NEW i \in S, NEW g \in [S -> V]
      PROVE  /\ G[<<i, g>>] = IF i = 1 THEN ss[i] ELSE g[i - 1] \o ss[i]
             /\ G[<<i, g>>] \in V
  <2>1. G[<<i, g>>] = IF i = 1 THEN ss[i] ELSE g[i - 1] \o ss[i]
    OBVIOUS
  <2>2. i # 1 => g[i - 1] \o ss[i] \in V
    <3> SUFFICES ASSUME i # 1 PROVE g[i - 1] \o ss[i] \in V
      OBVIOUS
    <3>1. g[i - 1] \in Seq(T) /\ ss[i] \in Seq(T)
      BY <1>2, <1>3
    <3> QED BY ONLY <3>1, ConcatProperties
  <2> HIDE DEF G, V
  <2> QED BY <1>2, <2>1, <2>2
<1>5. G \in [S \X [S -> V] -> V]
  <2>1. \A p \in S \X [S -> V] : p = <<p[1], p[2]>> /\ p[1] \in S /\ p[2] \in [S -> V]
    OBVIOUS
  <2>2. \A p \in S \X [S -> V] : G[p] \in V
    <3> HIDE DEF G, V, S
    <3> QED BY <1>4, <2>1
  <2> QED BY <2>2
<1>6. mu \in [S -> Nat] /\ \A i \in S : mu[i] = i
  BY <1>1
<1>7. DependsBelow(S, V, mu, G)
  <2> SUFFICES ASSUME NEW i \in S, NEW g \in [S -> V], NEW h \in [S -> V],
                      \A j \in S : mu[j] < mu[i] => g[j] = h[j]
               PROVE  G[<<i, g>>] = G[<<i, h>>]
    BY DEF DependsBelow
  <2>1. i # 1 => g[i - 1] = h[i - 1]
    BY <1>1, <1>3, <1>6
  <2> HIDE DEF G, V, S, mu
  <2> QED BY <1>4, <2>1
<1>8. V # {}
  BY EmptySeq
<1> HIDE DEF G, V, mu
<1>9. Defines(S, V, G)
  BY <1>5, <1>6, <1>7, <1>8, Recursion
<1>10. PICK f \in [S -> V] : f = [i \in S |-> G[<<i, f>>]]
  BY <1>9 DEF Defines
<1>11. Is(f)
  BY <1>4, <1>10
<1> DEFINE fl == CHOOSE g : Is(g)
<1>12. FlattenSeq(ss) = fl[Len(ss)]
  BY Zenon DEF FlattenSeq
<1>13. Is(fl)
  <2> HIDE DEF Is
  <2> QED BY <1>11
<1> HIDE DEF fl
<1>14. /\ fl = [i \in S |-> fl[i]]
       /\ \A i \in S : fl[i] = IF i = 1 THEN ss[i] ELSE fl[i - 1] \o ss[i]
  BY <1>13
<1>15. \A i \in S : fl[i] \in Seq(T)
  <2> DEFINE Bad == {i \in S : fl[i] \notin Seq(T)}
  <2> SUFFICES ASSUME Bad # {} PROVE FALSE
    OBVIOUS
  <2>1. Bad \subseteq Nat
    BY <1>1
  <2>2. PICK i \in Bad : \A j \in Bad : i <= j
    BY <2>1, Least
  <2>3. CASE i = 1
    BY <1>2, <1>14, <2>2, <2>3 DEF V
  <2>4. CASE i # 1
    <3>1. i - 1 \in S /\ i - 1 \notin Bad
      BY <1>1, <1>3, <2>2, <2>4
    <3>2. fl[i - 1] \in Seq(T) /\ ss[i] \in Seq(T)
      BY <1>2, <2>2, <3>1 DEF V
    <3>3. fl[i - 1] \o ss[i] \in Seq(T)
      BY ONLY <3>2, ConcatProperties
    <3> QED BY <1>14, <2>2, <2>4, <3>3
  <2> QED BY <2>3, <2>4
<1>16. fl \in [1 .. Len(ss) -> Seq(T)]
  BY <1>14, <1>15
<1>17. fl[1] = ss[1] /\ \A i \in 2 .. Len(ss) : fl[i] = fl[i - 1] \o ss[i]
  <2>1. 1 \in S /\ \A i \in 2 .. Len(ss) : i \in S /\ i # 1
    BY <1>1
  <2> QED BY <1>14, <2>1
<1> QED BY <1>12, <1>16, <1>17 DEF Flattening, Flattens

(* data is made of the parts ss: the i-th begins at st[i]. *)
Parts(data, ss, st) ==
  /\ st \in [1 .. Len(ss) + 1 -> Positions]
  /\ st[1] = 1 /\ st[Len(ss) + 1] = Len(data) + 1
  /\ \A i \in 1 .. Len(ss) : st[i + 1] = st[i] + Len(ss[i]) /\ Holds(data, st[i], ss[i])
MadeOf(data, ss) == \E st : Parts(data, ss, st)

LEMMA FlatIsMadeOfParts ==
  ASSUME NEW ss \in Seq(Seq(Bytes))
  PROVE  FlattenSeq(ss) \in Seq(Bytes) /\ MadeOf(FlattenSeq(ss), ss)
<1> DEFINE n == Len(ss)
<1>1. n \in Nat
  BY LenProperties
<1>2. CASE n = 0
  <2>1. FlattenSeq(ss) = ss /\ ss = <<>>
    <3>1. ss = <<>>
      BY <1>2, EmptySeq
    <3>2. FlattenSeq(ss) = ss
      BY <1>2, Zenon DEF FlattenSeq
    <3> QED BY <3>1, <3>2
  <2>2. <<>> \in Seq(Bytes) /\ Len(<<>>) = 0
    BY EmptySeq
  <2> DEFINE st == [i \in 1 .. 1 |-> 1]
  <2>3. Parts(<<>>, <<>>, st)
    <3>1. st \in [1 .. 1 -> Positions] /\ st[1] = 1
      BY DEF Positions
    <3>2. 0 + 1 = 1 /\ 1 .. 0 = {}
      OBVIOUS
    <3> HIDE DEF st
    <3> QED BY <2>2, <3>1, <3>2 DEF Parts
  <2> QED BY <2>1, <2>2, <2>3 DEF MadeOf
<1>3. CASE n # 0
  <2>1. PICK fl : Flattening(Bytes, ss, fl)
    BY <1>3, FlattenSeqDef DEF Flattens
  <2>2. /\ fl \in [1 .. n -> Seq(Bytes)]
        /\ FlattenSeq(ss) = fl[n]
        /\ fl[1] = ss[1]
        /\ \A i \in 2 .. n : fl[i] = fl[i - 1] \o ss[i]
    BY <2>1 DEF Flattening
  <2>3. \A i \in 1 .. n : ss[i] \in Seq(Bytes) /\ fl[i] \in Seq(Bytes) /\ Len(ss[i]) \in Nat /\ Len(fl[i]) \in Nat
    <3>1. \A i \in 1 .. n : ss[i] \in Seq(Bytes) /\ fl[i] \in Seq(Bytes)
      BY <2>2, ElementOfSeq
    <3>2. \A s \in Seq(Bytes) : Len(s) \in Nat
      BY LenProperties
    <3> QED BY <3>1, <3>2
  <2> DEFINE st == [i \in 1 .. n + 1 |-> IF i = 1 THEN 1 ELSE Len(fl[i - 1]) + 1]
  <2>4. /\ st \in [1 .. n + 1 -> Positions]
        /\ \A i \in 1 .. n + 1 : st[i] = IF i = 1 THEN 1 ELSE Len(fl[i - 1]) + 1
    <3>1. \A i \in 1 .. n + 1 : i # 1 => i - 1 \in 1 .. n
      BY <1>1
    <3>2. \A i \in 1 .. n + 1 : (IF i = 1 THEN 1 ELSE Len(fl[i - 1]) + 1) \in Positions
      BY <2>3, <3>1 DEF Positions
    <3> QED BY <3>2
  <2> HIDE DEF st
  <2>5. st[1] = 1 /\ st[n + 1] = Len(fl[n]) + 1
    <3>1. 1 \in 1 .. n + 1 /\ n + 1 \in 1 .. n + 1 /\ n + 1 # 1 /\ n + 1 - 1 = n
      BY <1>1, <1>3
    <3> QED BY <2>4, <3>1
  <2>6. ASSUME NEW i \in 1 .. n
        PROVE  i + 1 \in 1 .. n + 1 /\ st[i + 1] = Len(fl[i]) + 1
    <3>1. i + 1 \in 1 .. n + 1 /\ i + 1 # 1 /\ i + 1 - 1 = i
      BY <1>1
    <3> QED BY <2>4, <3>1
  <2>7. ASSUME NEW i \in 1 .. n
        PROVE  st[i + 1] = st[i] + Len(ss[i]) /\ Holds(fl[i], st[i], ss[i])
    <3>1. CASE i = 1
      <4>1. fl[i] = ss[i] /\ st[i] = 1
        BY <2>2, <2>5, <3>1
      <4>2. Len(fl[i]) + 1 = 1 + Len(ss[i])
        BY <2>3, <4>1
      <4>3. Holds(ss[i], 1, ss[i])
        BY <2>3, HoldsItself
      <4> QED BY <2>6, <4>1, <4>2, <4>3
    <3>2. CASE i # 1
      <4>1. i \in 2 .. n /\ i - 1 \in 1 .. n /\ i \in 1 .. n + 1
        BY <1>1, <3>2
      <4>2. fl[i] = fl[i - 1] \o ss[i] /\ st[i] = Len(fl[i - 1]) + 1
        BY <2>2, <2>4, <3>2, <4>1
      <4>3. fl[i - 1] \in Seq(Bytes) /\ ss[i] \in Seq(Bytes) /\ Len(fl[i - 1]) \in Nat /\ Len(ss[i]) \in Nat
        BY <2>3, <4>1
      <4>4. Holds(fl[i - 1] \o ss[i], Len(fl[i - 1]) + 1, ss[i])
        BY ONLY <4>3, HoldsAppended
      <4>5. Len(fl[i - 1] \o ss[i]) = Len(fl[i - 1]) + Len(ss[i])
        BY ONLY <4>3, ConcatProperties
      <4>6. Len(fl[i]) + 1 = st[i] + Len(ss[i])
        <5> DEFINE a == Len(fl[i - 1])
                   b == Len(ss[i])
        <5>1. Len(fl[i]) = a + b /\ st[i] = a + 1 /\ a \in Nat /\ b \in Nat
          BY <4>2, <4>3, <4>5
        <5> HIDE DEF a, b
        <5>2. Len(fl[i]) + 1 = st[i] + b
          BY <5>1
        <5> QED BY <5>2 DEF b
      <4> QED BY <2>6, <4>2, <4>4, <4>6
    <3> QED BY <3>1, <3>2
  <2>8. ASSUME NEW i \in 1 .. n PROVE Holds(fl[n], st[i], ss[i])
    <3> DEFINE Bad == {k \in i .. n : ~Holds(fl[k], st[i], ss[i])}
    <3>1. Bad = {}
      <4> SUFFICES ASSUME Bad # {} PROVE FALSE
        OBVIOUS
      <4>1. Bad \subseteq Nat
        BY <1>1
      <4>2. PICK k \in Bad : \A j \in Bad : k <= j
        BY <4>1, Least
      <4>3. k # i
        BY <2>7, <4>2
      <4>4. k - 1 \in i .. n /\ k - 1 \notin Bad /\ k \in 2 .. n /\ k - 1 \in 1 .. n /\ k \in 1 .. n /\ i \in 1 .. n + 1
        BY <1>1, <4>2, <4>3
      <4>5. Holds(fl[k - 1], st[i], ss[i])
        BY <4>4
      <4>6. fl[k - 1] \in Seq(Bytes) /\ ss[k] \in Seq(Bytes) /\ ss[i] \in Seq(Bytes) /\ st[i] \in Positions
        BY <2>3, <2>4, <4>4
      <4>7. Holds(fl[k - 1] \o ss[k], st[i], ss[i])
        BY ONLY <4>5, <4>6, HoldsExtended
      <4>8. fl[k] = fl[k - 1] \o ss[k]
        BY <2>2, <4>4
      <4> QED BY <4>2, <4>7, <4>8
    <3>2. n \in i .. n
      BY <1>1
    <3> QED BY <3>1, <3>2
  <2>9. Parts(FlattenSeq(ss), ss, st)
    BY <2>2, <2>4, <2>5, <2>7, <2>8 DEF Parts
  <2>10. FlattenSeq(ss) \in Seq(Bytes)
    <3>1. n \in 1 .. n
      BY <1>1, <1>3
    <3> QED BY <2>2, <3>1
  <2> QED BY <2>9, <2>10 DEF MadeOf
<1> QED BY <1>2, <1>3

(* The server reads packed numbers as they were written. *)
LEMMA NumbersAreRead ==
  ASSUME NEW ns \in Seq(Nat)
  PROVE  LET packed == FlattenSeq([i \in DOMAIN ns |-> EncodeVarint(ns[i])])
         IN  packed \in Seq(Bytes) /\ ReadNumbers(packed) = ns
<1> DEFINE n == Len(ns)
           ss == [i \in DOMAIN ns |-> EncodeVarint(ns[i])]
           data == FlattenSeq(ss)
<1>1. n \in Nat /\ DOMAIN ns = 1 .. n /\ \A i \in 1 .. n : ns[i] \in Nat
  BY LenProperties, ElementOfSeq
<1>2. \A i \in 1 .. n : ss[i] = Varint[ns[i]]
  BY <1>1 DEF EncodeVarint
<1>3. ss \in Seq(Seq(Bytes)) /\ Len(ss) = n
  <2>1. \A i \in 1 .. n : EncodeVarint(ns[i]) \in Seq(Bytes)
    BY <1>1, VarintDef DEF EncodeVarint
  <2>2. ss \in [1 .. n -> Seq(Bytes)]
    BY <1>1, <2>1
  <2> QED BY <1>1, <2>2
<1> HIDE DEF ss
<1>4. data \in Seq(Bytes) /\ MadeOf(data, ss)
  BY <1>3, FlatIsMadeOfParts
<1> HIDE DEF data
<1>5. PICK st : Parts(data, ss, st)
  BY <1>4 DEF MadeOf
<1>6. /\ st \in [1 .. n + 1 -> Positions]
      /\ st[1] = 1 /\ st[n + 1] = Len(data) + 1
      /\ \A i \in 1 .. n : st[i + 1] = st[i] + Len(Varint[ns[i]]) /\ Holds(data, st[i], Varint[ns[i]])
  BY <1>2, <1>3, <1>5 DEF Parts
<1>7. Len(data) \in Nat
  BY <1>4, LenProperties
<1>8. \A p \in Positions : NumbersFrom(data)[p] = NumbersStep(data, p, NumbersFrom(data))
  BY <1>4, NumbersFromDef
<1> DEFINE Bad == {i \in 1 .. n + 1 : NumbersFrom(data)[st[i]] # SubSeq(ns, i, n)}
<1>11. \A i : i \in Bad <=> i \in 1 .. n + 1 /\ NumbersFrom(data)[st[i]] # SubSeq(ns, i, n)
  OBVIOUS
<1> HIDE DEF Bad
<1>9. Bad = {}
  <2> SUFFICES ASSUME Bad # {} PROVE FALSE
    OBVIOUS
  <2>1. Bad \subseteq Positions /\ \A i \in Bad : i <= n + 1
    <3>1. \A i \in 1 .. n + 1 : i \in Positions /\ i <= n + 1
      BY <1>1 DEF Positions
    <3> QED BY <1>11, <3>1
  <2>5. n + 1 \in Nat
    BY <1>1
  <2>2. PICK i \in Bad : \A j \in Bad : j <= i
    BY ONLY <2>1, <2>5, Bad # {}, Greatest
  <2>3. CASE i = n + 1
    <3>1. NumbersFrom(data)[Len(data) + 1] = <<>>
      <4>1. Len(data) + 1 \in Positions /\ Len(data) + 1 > Len(data)
        BY <1>7 DEF Positions
      <4> QED BY <1>8, <4>1 DEF NumbersStep
    <3>2. SubSeq(ns, n + 1, n) = <<>>
      BY <1>1, SubSeqEmpty
    <3> QED BY <1>6, <1>11, <2>2, <2>3, <3>1, <3>2
  <2>4. CASE i # n + 1
    <3>1. i \in 1 .. n /\ i + 1 \in 1 .. n + 1 /\ i + 1 \notin Bad /\ i \in 1 .. n + 1
      <4>1. i \in 1 .. n + 1
        BY <1>11
      <4>2. i \in 1 .. n /\ i + 1 \in 1 .. n + 1 /\ ~(i + 1 <= i)
        BY <1>1, <2>4, <4>1
      <4> QED BY <2>2, <4>1, <4>2
    <3>2. st[i] \in Positions /\ ns[i] \in Nat /\ Holds(data, st[i], Varint[ns[i]])
          /\ st[i + 1] = st[i] + Len(Varint[ns[i]])
      BY <1>1, <1>6, <3>1
    <3>3. VarintReads(data, st[i], ns[i])
      BY <1>4, <3>2, VarintIsRead
    <3>4. ~Truncated(data, st[i])
      BY <3>3 DEF VarintReads
    <3>5. After(data, st[i]) = st[i + 1] /\ DecodeVarint(data, st[i]) = ns[i]
      BY <3>2, <3>3 DEF VarintReads
    <3>6. ~(st[i] > Len(data))
      <4>1. After(data, st[i]) <= Len(data) + 1 /\ st[i] < After(data, st[i]) /\ After(data, st[i]) \in Positions
        BY <1>4, <3>2, <3>4, AfterIsLater
      <4> QED BY <1>7, <3>2, <4>1 DEF Positions
    <3>7. NumbersFrom(data)[st[i]] = <<ns[i]>> \o NumbersFrom(data)[st[i + 1]]
      BY <1>8, <3>2, <3>4, <3>5, <3>6 DEF NumbersStep
    <3>8. NumbersFrom(data)[st[i + 1]] = SubSeq(ns, i + 1, n)
      BY <1>11, <3>1
    <3>9. SubSeq(ns, i, n) = <<ns[i]>> \o SubSeq(ns, i + 1, n)
      <4>1. n \in i .. Len(ns)
        BY <1>1, <3>1
      <4> QED BY <3>1, <4>1, SubSeqRecursiveFirst
    <3> QED BY <1>11, <2>2, <3>7, <3>8, <3>9
  <2> QED BY <2>3, <2>4
<1>10. NumbersFrom(data)[1] = ns
  <2>1. NumbersFrom(data)[st[1]] = SubSeq(ns, 1, n)
    <3>1. 1 \in 1 .. n + 1 /\ 1 \notin Bad
      BY <1>1, <1>9
    <3> QED BY <1>11, <3>1
  <2> QED BY <1>6, <2>1, SubSeqFull
<1> QED BY <1>4, <1>10 DEF ReadNumbers, data, ss

-----------------------------------------------------------------------------
(* Fields. *)

AField == [num : Nat, int : Nat \cup {None}, bytes : Seq(Bytes) \cup {None}]

LEMMA SliceType ==
  ASSUME NEW data \in Seq(Bytes), NEW pos \in Positions, NEW n \in Nat
  PROVE  Slice(data, pos, n) \in Seq(Bytes)
<1> DEFINE last == IF pos + n - 1 < Len(data) THEN pos + n - 1 ELSE Len(data)
<1>1. Len(data) \in Nat /\ pos \in Int /\ pos > 0
  BY LenProperties DEF Positions
<1>2. last \in Int /\ last <= Len(data)
  BY <1>1
<1> HIDE DEF last
<1>3. \A i \in pos .. last : data[i] \in Bytes
  <2>1. \A i \in pos .. last : i \in 1 .. Len(data)
    BY <1>1, <1>2
  <2> QED BY <2>1, ElementOfSeq
<1>4. SubSeq(data, pos, last) \in Seq(Bytes)
  BY ONLY <1>1, <1>2, <1>3, SubSeqProperties
<1> QED BY <1>4, Zenon DEF Slice, last

(* What Value is, case by case. *)
ValueIs(data, pos, num, kind, rest) ==
  /\ kind \in {0, 2} /\ Truncated(data, pos) => Value(data, pos, num, kind, rest) = <<Raised>>
  /\ kind = 0 /\ ~Truncated(data, pos) =>
       Value(data, pos, num, kind, rest) =
         <<Field(num, DecodeVarint(data, pos), None)>> \o rest[After(data, pos)]
  /\ kind = 2 /\ ~Truncated(data, pos) =>
       Value(data, pos, num, kind, rest) =
         <<Field(num, None, Slice(data, After(data, pos), DecodeVarint(data, pos)))>>
         \o rest[After(data, pos) + DecodeVarint(data, pos)]
  /\ kind = 5 => Value(data, pos, num, kind, rest) = <<Field(num, None, Slice(data, pos, 4))>> \o rest[pos + 4]
  /\ kind = 1 => Value(data, pos, num, kind, rest) = <<Field(num, None, Slice(data, pos, 8))>> \o rest[pos + 8]
  /\ kind \notin {0, 1, 2, 5} => Value(data, pos, num, kind, rest) = <<>>

LEMMA ValueCases ==
  ASSUME NEW data, NEW pos, NEW num, NEW kind, NEW rest
  PROVE  ValueIs(data, pos, num, kind, rest)
<1>1. ASSUME kind \in {0, 2}, Truncated(data, pos) PROVE Value(data, pos, num, kind, rest) = <<Raised>>
  BY <1>1 DEF Value
<1>2. ASSUME kind = 0, ~Truncated(data, pos)
      PROVE  Value(data, pos, num, kind, rest) =
                <<Field(num, DecodeVarint(data, pos), None)>> \o rest[After(data, pos)]
  BY <1>2 DEF Value
<1>3. ASSUME kind = 2, ~Truncated(data, pos)
      PROVE  Value(data, pos, num, kind, rest) =
                <<Field(num, None, Slice(data, After(data, pos), DecodeVarint(data, pos)))>>
                \o rest[After(data, pos) + DecodeVarint(data, pos)]
  BY <1>3 DEF Value
<1>4. ASSUME kind = 5
      PROVE  Value(data, pos, num, kind, rest) = <<Field(num, None, Slice(data, pos, 4))>> \o rest[pos + 4]
  BY <1>4 DEF Value
<1>5. ASSUME kind = 1
      PROVE  Value(data, pos, num, kind, rest) = <<Field(num, None, Slice(data, pos, 8))>> \o rest[pos + 8]
  BY <1>5 DEF Value
<1>6. ASSUME kind \notin {0, 1, 2, 5} PROVE Value(data, pos, num, kind, rest) = <<>>
  BY <1>6 DEF Value
<1> QED BY <1>1, <1>2, <1>3, <1>4, <1>5, <1>6 DEF ValueIs

LEMMA FieldThenRest ==
  ASSUME NEW f \in AField, NEW r \in Seq(AField)
  PROVE  <<f>> \o r \in Seq(AField)
<1>1. <<f>> \in Seq(AField)
  OBVIOUS
<1> QED BY ONLY <1>1, r \in Seq(AField), ConcatProperties

LEMMA ValueType ==
  ASSUME NEW data \in Seq(Bytes), NEW pos \in Positions, NEW num \in Nat, NEW kind,
         NEW rest \in [Positions -> Seq(AField)]
  PROVE  Value(data, pos, num, kind, rest) \in Seq(AField)
<1>1. DecodeVarint(data, pos) \in Nat
  BY ValuesDef DEF DecodeVarint
<1> DEFINE n == DecodeVarint(data, pos)
           a == After(data, pos)
<1> HIDE DEF n, a
<1>0. ValueIs(data, pos, num, kind, rest)
  BY ValueCases
<1>2. CASE kind \in {0, 2} /\ Truncated(data, pos)
  <2>1. Raised \in AField
    BY DEF Raised, Field, AField
  <2>2. <<Raised>> \in Seq(AField)
    BY <2>1
  <2> QED BY <1>2, <2>2, <1>0 DEF ValueIs
<1>3. CASE kind = 0 /\ ~Truncated(data, pos)
  <2>1. Field(num, n, None) \in AField
    BY <1>1 DEF Field, AField, n
  <2>2. rest[a] \in Seq(AField)
    BY <1>3, AfterIsLater DEF a
  <2>3. <<Field(num, n, None)>> \o rest[a] \in Seq(AField)
    BY ONLY <2>1, <2>2, FieldThenRest
  <2> QED BY <1>3, <2>3, <1>0 DEF ValueIs, n, a
<1>4. CASE kind = 2 /\ ~Truncated(data, pos)
  <2>1. a \in Positions /\ n \in Nat
    BY <1>1, <1>4, AfterIsLater DEF a, n
  <2>2. Slice(data, a, n) \in Seq(Bytes)
    BY <2>1, SliceType
  <2>3. Field(num, None, Slice(data, a, n)) \in AField
    BY <2>2 DEF Field, AField
  <2>4. rest[a + n] \in Seq(AField)
    BY <2>1, Later
  <2>5. <<Field(num, None, Slice(data, a, n))>> \o rest[a + n] \in Seq(AField)
    BY ONLY <2>3, <2>4, FieldThenRest
  <2> QED BY <1>4, <2>5, <1>0 DEF ValueIs, n, a
<1>5. CASE kind = 5
  <2>1. Slice(data, pos, 4) \in Seq(Bytes)
    BY SliceType
  <2>2. Field(num, None, Slice(data, pos, 4)) \in AField
    BY <2>1 DEF Field, AField
  <2>3. rest[pos + 4] \in Seq(AField)
    BY Later
  <2>4. <<Field(num, None, Slice(data, pos, 4))>> \o rest[pos + 4] \in Seq(AField)
    BY ONLY <2>2, <2>3, FieldThenRest
  <2> QED BY <1>5, <2>4, <1>0 DEF ValueIs
<1>6. CASE kind = 1
  <2>1. Slice(data, pos, 8) \in Seq(Bytes)
    BY SliceType
  <2>2. Field(num, None, Slice(data, pos, 8)) \in AField
    BY <2>1 DEF Field, AField
  <2>3. rest[pos + 8] \in Seq(AField)
    BY Later
  <2>4. <<Field(num, None, Slice(data, pos, 8))>> \o rest[pos + 8] \in Seq(AField)
    BY ONLY <2>2, <2>3, FieldThenRest
  <2> QED BY <1>6, <2>4, <1>0 DEF ValueIs
<1>7. CASE kind \notin {0, 1, 2, 5}
  <2>1. <<>> \in Seq(AField)
    BY EmptySeq
  <2> QED BY <1>7, <2>1, <1>0 DEF ValueIs
<1> QED BY <1>2, <1>3, <1>4, <1>5, <1>6, <1>7

LEMMA ValueDepends ==
  ASSUME NEW data \in Seq(Bytes), NEW pos \in Positions, NEW num, NEW kind, NEW g, NEW h,
         \A q \in Positions : pos <= q => g[q] = h[q]
  PROVE  Value(data, pos, num, kind, g) = Value(data, pos, num, kind, h)
<1> DEFINE n == DecodeVarint(data, pos)
           a == After(data, pos)
<1>1. n \in Nat
  BY ValuesDef DEF DecodeVarint
<1>2. pos \in Nat
  BY DEF Positions
<1> HIDE DEF n, a
<1>9. ValueIs(data, pos, num, kind, g) /\ ValueIs(data, pos, num, kind, h)
  BY ValueCases
<1>3. CASE kind \in {0, 2} /\ Truncated(data, pos)
  BY <1>3, <1>9 DEF ValueIs
<1>4. CASE kind = 0 /\ ~Truncated(data, pos)
  <2>1. a \in Positions /\ pos < a
    BY <1>4, AfterIsLater DEF a
  <2>2. g[a] = h[a]
    BY <1>2, <2>1 DEF Positions
  <2> QED BY <1>4, <2>2, <1>9 DEF ValueIs, a
<1>5. CASE kind = 2 /\ ~Truncated(data, pos)
  <2>1. a \in Positions /\ pos < a
    BY <1>5, AfterIsLater DEF a
  <2>2. a + n \in Positions /\ pos <= a + n
    BY <1>1, <1>2, <2>1 DEF Positions
  <2>3. g[a + n] = h[a + n]
    BY <2>2
  <2> QED BY <1>5, <2>3, <1>9 DEF ValueIs, a, n
<1>6. CASE kind = 5
  <2>1. pos + 4 \in Positions /\ pos <= pos + 4
    BY <1>2 DEF Positions
  <2>2. g[pos + 4] = h[pos + 4]
    BY <2>1
  <2> QED BY <1>6, <2>2, <1>9 DEF ValueIs
<1>7. CASE kind = 1
  <2>1. pos + 8 \in Positions /\ pos <= pos + 8
    BY <1>2 DEF Positions
  <2>2. g[pos + 8] = h[pos + 8]
    BY <2>1
  <2> QED BY <1>7, <2>2, <1>9 DEF ValueIs
<1>8. CASE kind \notin {0, 1, 2, 5}
  BY <1>8, <1>9 DEF ValueIs
<1> QED BY <1>3, <1>4, <1>5, <1>6, <1>7, <1>8

(* The client's decoder, and the server's. *)
FieldsStep(data, pos, rest) ==
  IF pos > Len(data) \/ Truncated(data, pos) THEN <<>>
  ELSE Value(data, After(data, pos), DecodeVarint(data, pos) \div 8, DecodeVarint(data, pos) % 8, rest)

LEMMA ByEight ==
  ASSUME NEW n \in Nat
  PROVE  n \div 8 \in Nat /\ (n * 8) \div 8 = n /\ (n * 8) % 8 = 0 /\ (n * 8 + 2) \div 8 = n /\ (n * 8 + 2) % 8 = 2
OBVIOUS

LEMMA FieldsStepDepends ==
  ASSUME NEW data \in Seq(Bytes), NEW pos \in Positions, NEW g, NEW h,
         \A q \in Positions : pos < q => g[q] = h[q]
  PROVE  FieldsStep(data, pos, g) = FieldsStep(data, pos, h)
<1>1. CASE pos > Len(data) \/ Truncated(data, pos)
  BY <1>1 DEF FieldsStep
<1>2. CASE ~(pos > Len(data) \/ Truncated(data, pos))
  <2> DEFINE a == After(data, pos)
             tag == DecodeVarint(data, pos)
  <2>1. a \in Positions /\ pos < a /\ pos \in Nat
    BY <1>2, AfterIsLater DEF Positions
  <2> HIDE DEF a, tag
  <2>2. \A q \in Positions : a <= q => g[q] = h[q]
    <3> SUFFICES ASSUME NEW q \in Positions, a <= q PROVE g[q] = h[q]
      OBVIOUS
    <3>1. pos < q
      BY <2>1 DEF Positions
    <3> QED BY <3>1
  <2>3. Value(data, a, tag \div 8, tag % 8, g) = Value(data, a, tag \div 8, tag % 8, h)
    BY <2>1, <2>2, ValueDepends
  <2> QED BY <1>2, <2>3 DEF FieldsStep, a, tag
<1> QED BY <1>1, <1>2

LEMMA FieldsFromDef ==
  ASSUME NEW data \in Seq(Bytes)
  PROVE  \A pos \in Positions : /\ FieldsFrom(data)[pos] = FieldsStep(data, pos, FieldsFrom(data))
                               /\ FieldsFrom(data)[pos] \in Seq(AField)
<1> DEFINE V == Seq(AField)
           G == [p \in Positions \X [Positions -> V] |-> FieldsStep(data, p[1], p[2])]
           Is(g) == g = [pos \in Positions |-> FieldsStep(data, pos, g)]
<1>1. ASSUME NEW pos \in Positions, NEW g \in [Positions -> V]
      PROVE  FieldsStep(data, pos, g) \in V
  <2>1. CASE pos > Len(data) \/ Truncated(data, pos)
    <3>1. <<>> \in V
      BY EmptySeq
    <3> QED BY <2>1, <3>1 DEF FieldsStep
  <2>2. CASE ~(pos > Len(data) \/ Truncated(data, pos))
    <3> DEFINE tag == DecodeVarint(data, pos)
    <3>1. After(data, pos) \in Positions
      BY <2>2, AfterIsLater
    <3>2. tag \in Nat
      BY ValuesDef DEF DecodeVarint
    <3> HIDE DEF tag
    <3>3. tag \div 8 \in Nat
      BY <3>2, ByEight
    <3>4. Value(data, After(data, pos), tag \div 8, tag % 8, g) \in Seq(AField)
      BY <3>1, <3>3, ValueType
    <3> QED BY <2>2, <3>4 DEF FieldsStep, tag
  <2> QED BY <2>1, <2>2
<1>2. \A p \in Positions \X [Positions -> V] :
        p = <<p[1], p[2]>> /\ p[1] \in Positions /\ p[2] \in [Positions -> V]
  OBVIOUS
<1>3. \A pos \in Positions, g \in [Positions -> V] : G[<<pos, g>>] = FieldsStep(data, pos, g)
  OBVIOUS
<1>4. G \in [Positions \X [Positions -> V] -> V]
  <2>1. \A p \in Positions \X [Positions -> V] : FieldsStep(data, p[1], p[2]) \in V
    <3> HIDE DEF V
    <3> QED BY <1>1, <1>2
  <2> QED BY <2>1
<1>5. DependsBelow(Positions, V, Left(data), G)
  <2> SUFFICES ASSUME NEW pos \in Positions, NEW g \in [Positions -> V], NEW h \in [Positions -> V],
                      \A q \in Positions : Left(data)[q] < Left(data)[pos] => g[q] = h[q]
               PROVE  G[<<pos, g>>] = G[<<pos, h>>]
    BY DEF DependsBelow
  <2> HIDE DEF G, V
  <2>1. FieldsStep(data, pos, g) = FieldsStep(data, pos, h)
    <3>1. CASE pos > Len(data)
      BY <3>1 DEF FieldsStep
    <3>2. CASE ~(pos > Len(data))
      <4>1. pos <= Len(data)
        BY <3>2, LenProperties DEF Positions
      <4>2. \A q \in Positions : pos < q => g[q] = h[q]
        BY <4>1, LeftDecreases
      <4> QED BY <4>2, FieldsStepDepends
    <3> QED BY <3>1, <3>2
  <2> QED BY <1>3, <2>1
<1>6. V # {}
  BY EmptySeq
<1> HIDE DEF G, V
<1>7. Defines(Positions, V, G)
  BY <1>4, <1>5, <1>6, LeftDecreases, Recursion
<1>8. PICK f \in [Positions -> V] : f = [pos \in Positions |-> G[<<pos, f>>]]
  BY <1>7 DEF Defines
<1>9. Is(f)
  BY <1>3, <1>8
<1>10. FieldsFrom(data) = CHOOSE g : Is(g)
  BY DEF FieldsFrom, FieldsStep
<1>11. Is(FieldsFrom(data))
  <2> HIDE DEF Is
  <2> QED BY <1>9, <1>10
<1>12. \A pos \in Positions : FieldsFrom(data)[pos] = FieldsStep(data, pos, FieldsFrom(data))
  BY <1>11, Zenon
<1>13. \A pos \in Positions : f[pos] = FieldsStep(data, pos, f)
  BY <1>9, Zenon
<1> DEFINE Bad == {pos \in Positions : FieldsFrom(data)[pos] # f[pos]}
<1>14. Bad = {}
  <2> SUFFICES ASSUME Bad # {} PROVE FALSE
    OBVIOUS
  <2>1. Len(data) \in Nat
    BY LenProperties
  <2>2. \A pos \in Bad : pos <= Len(data)
    <3> SUFFICES ASSUME NEW pos \in Positions, pos > Len(data) PROVE FieldsFrom(data)[pos] = f[pos]
      BY <2>1 DEF Positions
    <3>1. FieldsFrom(data)[pos] = <<>> /\ f[pos] = <<>>
      BY <1>12, <1>13 DEF FieldsStep
    <3> QED BY <3>1
  <2>3. PICK pos \in Bad : \A q \in Bad : q <= pos
    BY <2>1, <2>2, Greatest
  <2>4. \A q \in Positions : pos < q => FieldsFrom(data)[q] = f[q]
    BY <2>3 DEF Positions
  <2>5. FieldsStep(data, pos, FieldsFrom(data)) = FieldsStep(data, pos, f)
    BY <2>4, FieldsStepDepends
  <2> QED BY <1>12, <1>13, <2>3, <2>5
<1>15. \A pos \in Positions : FieldsFrom(data)[pos] \in Seq(AField)
  <2>1. \A pos \in Positions : FieldsFrom(data)[pos] = f[pos]
    BY <1>14
  <2> QED BY <2>1 DEF V
<1> QED BY <1>12, <1>15

LEMMA FieldTypes ==
  ASSUME NEW num \in Nat, NEW n \in Nat, NEW s \in Seq(Bytes)
  PROVE  FieldVarint(num, n) \in Seq(Bytes) /\ FieldBytes(num, s) \in Seq(Bytes)
<1>1. num * 8 \in Nat /\ num * 8 + 2 \in Nat /\ Len(s) \in Nat
  BY LenProperties
<1>2. /\ EncodeVarint(num * 8) \in Seq(Bytes) /\ EncodeVarint(num * 8 + 2) \in Seq(Bytes)
      /\ EncodeVarint(n) \in Seq(Bytes) /\ EncodeVarint(Len(s)) \in Seq(Bytes)
  BY <1>1, VarintDef DEF EncodeVarint
<1>3. EncodeVarint(num * 8) \o EncodeVarint(n) \in Seq(Bytes)
  BY ONLY <1>2, ConcatProperties
<1>4. EncodeVarint(num * 8 + 2) \o EncodeVarint(Len(s)) \in Seq(Bytes)
  BY ONLY <1>2, ConcatProperties
<1>5. EncodeVarint(num * 8 + 2) \o EncodeVarint(Len(s)) \o s \in Seq(Bytes)
  BY ONLY <1>4, s \in Seq(Bytes), ConcatProperties
<1> QED BY <1>3, <1>5 DEF FieldVarint, FieldBytes

(* The bytes s encode the fields fs: wherever a message holds s, the        *)
(* decoder finds fs there, and goes on after it.                            *)
Encodes(s, fs) ==
  /\ s \in Seq(Bytes) /\ fs \in Seq(AField)
  /\ \A data \in Seq(Bytes), pos \in Positions :
       Holds(data, pos, s) => /\ pos + Len(s) \in Positions
                              /\ FieldsFrom(data)[pos] = fs \o FieldsFrom(data)[pos + Len(s)]

LEMMA TagIsRead ==
  ASSUME NEW data \in Seq(Bytes), NEW pos \in Positions, NEW tag \in Nat, Holds(data, pos, Varint[tag])
  PROVE  /\ pos + Len(Varint[tag]) \in Positions
         /\ FieldsFrom(data)[pos] = Value(data, pos + Len(Varint[tag]), tag \div 8, tag % 8, FieldsFrom(data))
<1>1. VarintReads(data, pos, tag)
  BY VarintIsRead
<1>2. ~Truncated(data, pos)
  BY <1>1 DEF VarintReads
<1>3. After(data, pos) = pos + Len(Varint[tag]) /\ DecodeVarint(data, pos) = tag
  BY <1>1 DEF VarintReads
<1>4. After(data, pos) \in Positions /\ pos < After(data, pos) /\ After(data, pos) <= Len(data) + 1
  BY <1>2, AfterIsLater
<1>5. ~(pos > Len(data))
  <2>1. Len(data) \in Nat
    BY LenProperties
  <2> QED BY <1>4, <2>1 DEF Positions
<1>6. FieldsFrom(data)[pos] = FieldsStep(data, pos, FieldsFrom(data))
  BY FieldsFromDef
<1> QED BY <1>2, <1>3, <1>4, <1>5, <1>6, Zenon DEF FieldsStep

LEMMA VarintFieldIsRead ==
  ASSUME NEW num \in Nat, NEW n \in Nat
  PROVE  Encodes(FieldVarint(num, n), <<Field(num, n, None)>>)
<1> DEFINE t == Varint[num * 8]
           v == Varint[n]
           f == Field(num, n, None)
<1>1. t \in Seq(Bytes) /\ v \in Seq(Bytes) /\ num * 8 \in Nat
  BY VarintDef
<1>2. FieldVarint(num, n) = t \o v
  BY DEF FieldVarint, EncodeVarint
<1>3. f \in AField /\ <<f>> \in Seq(AField)
  BY DEF Field, AField
<1>4. Len(t \o v) = Len(t) + Len(v) /\ t \o v \in Seq(Bytes) /\ Len(t) \in Nat /\ Len(v) \in Nat
  BY <1>1, ConcatProperties, LenProperties
<1>5. ASSUME NEW data \in Seq(Bytes), NEW pos \in Positions, Holds(data, pos, t \o v)
      PROVE  /\ pos + Len(t \o v) \in Positions
             /\ FieldsFrom(data)[pos] = <<f>> \o FieldsFrom(data)[pos + Len(t \o v)]
  <2> DEFINE p == pos + Len(t)
  <2>1. Holds(data, pos, t) /\ Holds(data, p, v)
    BY <1>1, <1>5, HoldsConcat
  <2>2. p \in Positions /\ FieldsFrom(data)[pos] = Value(data, p, num, 0, FieldsFrom(data))
    BY <1>1, <2>1, TagIsRead, ByEight
  <2>3. VarintReads(data, p, n)
    BY <2>1, <2>2, VarintIsRead
  <2>4. ~Truncated(data, p)
    BY <2>3 DEF VarintReads
  <2>5. After(data, p) = p + Len(v) /\ DecodeVarint(data, p) = n
    BY <2>3 DEF VarintReads
  <2>6. ValueIs(data, p, num, 0, FieldsFrom(data))
    BY ValueCases
  <2>7. Value(data, p, num, 0, FieldsFrom(data)) = <<f>> \o FieldsFrom(data)[p + Len(v)]
    BY <2>4, <2>5, <2>6 DEF ValueIs
  <2>8. p + Len(v) = pos + Len(t \o v) /\ p + Len(v) \in Positions
    <3> DEFINE a == Len(t)
               b == Len(v)
    <3>1. Len(t \o v) = a + b /\ a \in Nat /\ b \in Nat /\ pos \in Nat /\ pos > 0
      BY <1>4 DEF Positions
    <3> HIDE DEF a, b
    <3>2. (pos + a) + b = pos + Len(t \o v) /\ (pos + a) + b \in Positions
      BY <3>1 DEF Positions
    <3> QED BY <3>2 DEF a, b
  <2> QED BY <2>2, <2>7, <2>8
<1> QED BY <1>2, <1>3, <1>4, <1>5 DEF Encodes

LEMMA BytesFieldIsRead ==
  ASSUME NEW num \in Nat, NEW s \in Seq(Bytes)
  PROVE  Encodes(FieldBytes(num, s), <<Field(num, None, s)>>)
<1> DEFINE tag == num * 8 + 2
           t == Varint[tag]
           v == Varint[Len(s)]
           f == Field(num, None, s)
<1>0. Len(s) \in Nat
  BY LenProperties
<1>7. tag \in Nat /\ tag \div 8 = num /\ tag % 8 = 2
  BY ByEight
<1>1. t \in Seq(Bytes) /\ v \in Seq(Bytes)
  BY <1>0, <1>7, VarintDef
<1>2. FieldBytes(num, s) = (t \o v) \o s
  BY DEF FieldBytes, EncodeVarint
<1>3. f \in AField /\ <<f>> \in Seq(AField)
  BY DEF Field, AField
<1> HIDE DEF tag, t, v, f
<1> DEFINE u == t \o v
<1>4. Len(u) = Len(t) + Len(v) /\ u \in Seq(Bytes) /\ Len(t) \in Nat /\ Len(v) \in Nat
  BY <1>1, ConcatProperties, LenProperties
<1>5. Len(u \o s) = Len(u) + Len(s) /\ u \o s \in Seq(Bytes)
  BY <1>4, ConcatProperties
<1>6. ASSUME NEW data \in Seq(Bytes), NEW pos \in Positions, Holds(data, pos, u \o s)
      PROVE  /\ pos + Len(u \o s) \in Positions
             /\ FieldsFrom(data)[pos] = <<f>> \o FieldsFrom(data)[pos + Len(u \o s)]
  <2> DEFINE p == pos + Len(t)
             q == pos + Len(u)
  <2>1. Holds(data, pos, u) /\ Holds(data, q, s)
    BY <1>4, <1>6, HoldsConcat
  <2>2. Holds(data, pos, t) /\ Holds(data, p, v)
    BY <1>1, <2>1, HoldsConcat
  <2>3. p \in Positions /\ FieldsFrom(data)[pos] = Value(data, p, num, 2, FieldsFrom(data))
    <3>1. Holds(data, pos, Varint[tag])
      BY <2>2 DEF t
    <3>2. /\ pos + Len(Varint[tag]) \in Positions
          /\ FieldsFrom(data)[pos] = Value(data, pos + Len(Varint[tag]), tag \div 8, tag % 8, FieldsFrom(data))
      BY <1>7, <3>1, TagIsRead
    <3> QED BY <1>7, <3>2 DEF t
  <2>4. VarintReads(data, p, Len(s))
    BY <1>0, <2>2, <2>3, VarintIsRead DEF v
  <2>5. ~Truncated(data, p)
    BY <2>4 DEF VarintReads
  <2>6. After(data, p) = p + Len(v) /\ DecodeVarint(data, p) = Len(s)
    BY <2>4 DEF VarintReads, v
  <2>7. /\ p + Len(v) = q /\ q \in Positions
        /\ q + Len(s) = pos + Len(u \o s) /\ q + Len(s) \in Positions
    <3> DEFINE a == Len(t)
               b == Len(v)
               c == Len(s)
               d == Len(u)
    <3>1. d = a + b /\ a \in Nat /\ b \in Nat /\ c \in Nat /\ Len(u \o s) = d + c /\ pos \in Nat /\ pos > 0
      BY <1>0, <1>4, <1>5 DEF Positions
    <3> HIDE DEF a, b, c, d
    <3>2. /\ (pos + a) + b = pos + d /\ pos + d \in Positions
          /\ (pos + d) + c = pos + Len(u \o s) /\ (pos + d) + c \in Positions
      BY <3>1 DEF Positions
    <3> QED BY <3>2 DEF a, b, c, d
  <2>8. Slice(data, q, Len(s)) = s
    BY <2>1, <2>7, SliceReads
  <2>9. ValueIs(data, p, num, 2, FieldsFrom(data))
    BY ValueCases
  <2>10. Value(data, p, num, 2, FieldsFrom(data))
           = <<Field(num, None, Slice(data, After(data, p), DecodeVarint(data, p)))>>
             \o FieldsFrom(data)[After(data, p) + DecodeVarint(data, p)]
    BY <2>5, <2>9 DEF ValueIs
  <2>11. Value(data, p, num, 2, FieldsFrom(data)) = <<f>> \o FieldsFrom(data)[q + Len(s)]
    BY <2>6, <2>7, <2>8, <2>10, Zenon DEF f
  <2> QED BY <2>3, <2>7, <2>11
<1>8. Encodes(u \o s, <<f>>)
  BY <1>3, <1>5, <1>6 DEF Encodes
<1> QED BY <1>2, <1>8 DEF f

LEMMA NothingEncodesNothing == Encodes(<<>>, <<>>)
<1>1. <<>> \in Seq(Bytes) /\ <<>> \in Seq(AField) /\ Len(<<>>) = 0
  BY EmptySeq
<1>2. ASSUME NEW data \in Seq(Bytes), NEW pos \in Positions
      PROVE  pos + 0 \in Positions /\ FieldsFrom(data)[pos] = <<>> \o FieldsFrom(data)[pos + 0]
  <2>1. pos + 0 = pos
    BY DEF Positions
  <2>2. FieldsFrom(data)[pos] \in Seq(AField)
    BY FieldsFromDef
  <2>3. <<>> \o FieldsFrom(data)[pos] = FieldsFrom(data)[pos]
    BY <2>2, ConcatEmptySeq
  <2> QED BY <2>1, <2>3
<1> QED BY <1>1, <1>2 DEF Encodes

LEMMA EncodedFieldsFollow ==
  ASSUME NEW s, NEW t, NEW fs, NEW gs, Encodes(s, fs), Encodes(t, gs)
  PROVE  Encodes(s \o t, fs \o gs)
<1>1. s \in Seq(Bytes) /\ t \in Seq(Bytes) /\ fs \in Seq(AField) /\ gs \in Seq(AField)
  BY DEF Encodes
<1>2. Len(s \o t) = Len(s) + Len(t) /\ s \o t \in Seq(Bytes) /\ Len(s) \in Nat /\ Len(t) \in Nat
  BY <1>1, ConcatProperties, LenProperties
<1>3. fs \o gs \in Seq(AField)
  BY <1>1, ConcatProperties
<1>4. ASSUME NEW data \in Seq(Bytes), NEW pos \in Positions, Holds(data, pos, s \o t)
      PROVE  /\ pos + Len(s \o t) \in Positions
             /\ FieldsFrom(data)[pos] = (fs \o gs) \o FieldsFrom(data)[pos + Len(s \o t)]
  <2> DEFINE p == pos + Len(s)
             q == p + Len(t)
  <2>1. Holds(data, pos, s) /\ Holds(data, p, t)
    BY <1>1, <1>4, HoldsConcat
  <2>2. p \in Positions /\ FieldsFrom(data)[pos] = fs \o FieldsFrom(data)[p]
    BY <2>1 DEF Encodes
  <2>3. q \in Positions /\ FieldsFrom(data)[p] = gs \o FieldsFrom(data)[q]
    BY <2>1, <2>2 DEF Encodes
  <2>4. FieldsFrom(data)[q] \in Seq(AField)
    BY <2>3, FieldsFromDef
  <2> DEFINE r == FieldsFrom(data)[q]
  <2>5. fs \o (gs \o r) = (fs \o gs) \o r
    <3>1. fs \in Seq(AField) /\ gs \in Seq(AField) /\ r \in Seq(AField)
      BY <1>1, <2>4
    <3> HIDE DEF r
    <3> QED BY ONLY <3>1, ConcatAssociative, SMTT(30)
  <2>6. q = pos + Len(s \o t)
    <3> DEFINE a == Len(s)
               b == Len(t)
    <3>1. Len(s \o t) = a + b /\ a \in Nat /\ b \in Nat /\ pos \in Nat
      BY <1>2 DEF Positions
    <3> HIDE DEF a, b
    <3>2. (pos + a) + b = pos + Len(s \o t)
      BY <3>1
    <3> QED BY <3>2 DEF a, b
  <2> QED BY <2>2, <2>3, <2>5, <2>6
<1> QED BY <1>2, <1>3, <1>4 DEF Encodes

LEMMA EncodedFieldsAreRead ==
  ASSUME NEW s, NEW fs, Encodes(s, fs)
  PROVE  FieldsOf(s) = fs
<1>1. s \in Seq(Bytes) /\ fs \in Seq(AField) /\ Len(s) \in Nat
  BY LenProperties DEF Encodes
<1>2. 1 \in Positions /\ 1 + Len(s) \in Positions /\ 1 + Len(s) > Len(s)
  BY <1>1 DEF Positions
<1>3. FieldsFrom(s)[1] = fs \o FieldsFrom(s)[1 + Len(s)]
  BY <1>1, <1>2, HoldsItself DEF Encodes
<1>4. FieldsFrom(s)[1 + Len(s)] = <<>>
  BY <1>1, <1>2, FieldsFromDef DEF FieldsStep
<1>5. fs \o <<>> = fs
  BY <1>1, ConcatEmptySeq
<1> QED BY <1>3, <1>4, <1>5 DEF FieldsOf

-----------------------------------------------------------------------------
(* Frames. *)

AFrame == [flag : Bytes, payload : Seq(Bytes)]

FramesStep(data, pos, rest) ==
  IF pos + 4 > Len(data) \/ ~Room(data, pos) THEN <<>>
  ELSE <<[flag |-> data[pos],
          payload |-> SubSeq(data, pos + 5, pos + 4 + FrameLength(data, pos))]>>
       \o rest[pos + 5 + FrameLength(data, pos)]

LEMMA FrameLengthType ==
  ASSUME NEW data \in Seq(Bytes), NEW pos \in Positions, ~(pos + 4 > Len(data))
  PROVE  data[pos] \in Bytes /\ FrameLength(data, pos) \in Nat
<1>1. Len(data) \in Nat /\ pos \in Nat /\ pos > 0
  BY LenProperties DEF Positions
<1>2. /\ pos \in 1 .. Len(data) /\ pos + 1 \in 1 .. Len(data) /\ pos + 2 \in 1 .. Len(data)
      /\ pos + 3 \in 1 .. Len(data) /\ pos + 4 \in 1 .. Len(data)
  BY <1>1
<1>3. \A i \in 1 .. Len(data) : data[i] \in Bytes
  BY ElementOfSeq
<1> DEFINE a == data[pos + 1]
           b == data[pos + 2]
           c == data[pos + 3]
           d == data[pos + 4]
<1>4. a \in Bytes /\ b \in Bytes /\ c \in Bytes /\ d \in Bytes /\ data[pos] \in Bytes
  BY <1>2, <1>3
<1> HIDE DEF a, b, c, d
<1>5. 16777216 * a + 65536 * b + 256 * c + d \in Nat
  BY <1>4, SMT DEF Bytes
<1> QED BY <1>4, <1>5, SMT DEF FrameLength, a, b, c, d

LEMMA PartType ==
  ASSUME NEW data \in Seq(Bytes), NEW m \in Positions, NEW n \in Nat, n <= Len(data)
  PROVE  SubSeq(data, m, n) \in Seq(Bytes)
<1>1. m \in Int /\ n \in Int /\ m > 0 /\ Len(data) \in Nat
  BY LenProperties DEF Positions
<1>2. \A i \in m .. n : data[i] \in Bytes
  <2>1. \A i \in m .. n : i \in 1 .. Len(data)
    BY <1>1
  <2> QED BY <2>1, ElementOfSeq
<1> QED BY ONLY <1>1, <1>2, SubSeqProperties

LEMMA FramesFromDef ==
  ASSUME NEW data \in Seq(Bytes)
  PROVE  \A pos \in Positions : FramesFrom(data)[pos] = FramesStep(data, pos, FramesFrom(data))
<1> DEFINE V == Seq(AFrame)
           G == [p \in Positions \X [Positions -> V] |-> FramesStep(data, p[1], p[2])]
           Is(g) == g = [pos \in Positions |-> FramesStep(data, pos, g)]
<1>0. Len(data) \in Nat
  BY LenProperties
<1>1. ASSUME NEW pos \in Positions, NEW g \in [Positions -> V]
      PROVE  FramesStep(data, pos, g) \in V
  <2>1. CASE pos + 4 > Len(data) \/ ~Room(data, pos)
    <3>1. <<>> \in V
      BY EmptySeq
    <3> QED BY <2>1, <3>1 DEF FramesStep
  <2>2. CASE ~(pos + 4 > Len(data) \/ ~Room(data, pos))
    <3> DEFINE n == FrameLength(data, pos)
               payload == SubSeq(data, pos + 5, pos + 4 + n)
               frame == [flag |-> data[pos], payload |-> payload]
    <3>1. data[pos] \in Bytes /\ n \in Nat
      BY <2>2, FrameLengthType
    <3>2. pos + 4 + n <= Len(data)
      BY <2>2 DEF Room
    <3> HIDE DEF n
    <3>3. pos + 5 \in Positions /\ pos + 4 + n \in Nat /\ pos + 5 + n \in Positions
      BY <3>1 DEF Positions
    <3>4. payload \in Seq(Bytes)
      BY <3>2, <3>3, PartType
    <3>5. frame \in AFrame
      BY <3>1, <3>4 DEF AFrame
    <3>6. g[pos + 5 + n] \in Seq(AFrame)
      BY <3>3
    <3> HIDE DEF payload, frame
    <3>7. <<frame>> \in Seq(AFrame)
      BY <3>5
    <3>8. <<frame>> \o g[pos + 5 + n] \in Seq(AFrame)
      BY ONLY <3>6, <3>7, ConcatProperties
    <3> QED BY <2>2, <3>8 DEF FramesStep, frame, payload, n
  <2> QED BY <2>1, <2>2
<1>2. \A p \in Positions \X [Positions -> V] :
        p = <<p[1], p[2]>> /\ p[1] \in Positions /\ p[2] \in [Positions -> V]
  OBVIOUS
<1>3. \A pos \in Positions, g \in [Positions -> V] : G[<<pos, g>>] = FramesStep(data, pos, g)
  OBVIOUS
<1>4. G \in [Positions \X [Positions -> V] -> V]
  <2>1. \A p \in Positions \X [Positions -> V] : FramesStep(data, p[1], p[2]) \in V
    <3> HIDE DEF V
    <3> QED BY <1>1, <1>2
  <2> QED BY <2>1
<1>5. DependsBelow(Positions, V, Left(data), G)
  <2> SUFFICES ASSUME NEW pos \in Positions, NEW g \in [Positions -> V], NEW h \in [Positions -> V],
                      \A q \in Positions : Left(data)[q] < Left(data)[pos] => g[q] = h[q]
               PROVE  G[<<pos, g>>] = G[<<pos, h>>]
    BY DEF DependsBelow
  <2> HIDE DEF G, V
  <2>1. FramesStep(data, pos, g) = FramesStep(data, pos, h)
    <3>1. CASE pos + 4 > Len(data) \/ ~Room(data, pos)
      BY <3>1 DEF FramesStep
    <3>2. CASE ~(pos + 4 > Len(data) \/ ~Room(data, pos))
      <4> DEFINE q == pos + 5 + FrameLength(data, pos)
      <4>1. FrameLength(data, pos) \in Nat
        BY <3>2, FrameLengthType
      <4>2. pos <= Len(data) /\ q \in Positions /\ pos < q
        BY <1>0, <3>2, <4>1 DEF Positions
      <4> HIDE DEF q
      <4>3. g[q] = h[q]
        BY <4>2, LeftDecreases
      <4> QED BY <3>2, <4>3 DEF FramesStep, q
    <3> QED BY <3>1, <3>2
  <2> QED BY <1>3, <2>1
<1>6. V # {}
  BY EmptySeq
<1> HIDE DEF G, V
<1>7. Defines(Positions, V, G)
  BY <1>4, <1>5, <1>6, LeftDecreases, Recursion
<1>8. PICK f \in [Positions -> V] : f = [pos \in Positions |-> G[<<pos, f>>]]
  BY <1>7 DEF Defines
<1>9. Is(f)
  BY <1>3, <1>8
<1>10. FramesFrom(data) = CHOOSE g : Is(g)
  BY DEF FramesFrom, FramesStep
<1>11. Is(FramesFrom(data))
  <2> HIDE DEF Is
  <2> QED BY <1>9, <1>10
<1> QED BY <1>11, Zenon

LEMMA By256 ==
  ASSUME NEW n \in Nat
  PROVE  n \div 256 \in Nat /\ n % 256 \in 0 .. 255 /\ n = 256 * (n \div 256) + (n % 256)
OBVIOUS

LEMMA FourBytes ==
  ASSUME NEW n \in Nat, Fits(n)
  PROVE  /\ n \div 16777216 \in Bytes /\ (n \div 65536) % 256 \in Bytes
         /\ (n \div 256) % 256 \in Bytes /\ n % 256 \in Bytes
         /\ 16777216 * (n \div 16777216) + 65536 * ((n \div 65536) % 256)
              + 256 * ((n \div 256) % 256) + (n % 256) = n
<1> DEFINE q1 == n \div 256
           q2 == q1 \div 256
           q3 == q2 \div 256
<1>1. q1 \in Nat /\ n % 256 \in 0 .. 255 /\ n = 256 * q1 + (n % 256)
  BY By256
<1>2. q2 \in Nat /\ q1 % 256 \in 0 .. 255 /\ q1 = 256 * q2 + (q1 % 256)
  BY <1>1, By256
<1>3. q3 \in Nat /\ q2 % 256 \in 0 .. 255 /\ q2 = 256 * q3 + (q2 % 256)
  BY <1>2, By256
<1>4. n \div 65536 = q2
  BY <1>1, <1>2, SMT
<1>5. n \div 16777216 = q3
  BY <1>1, <1>2, <1>3, SMT
<1> HIDE DEF q1, q2, q3
<1>6. q3 < 256
  BY <1>5, SMT DEF Fits
<1>7. 16777216 * q3 + 65536 * (q2 % 256) + 256 * (q1 % 256) + (n % 256) = n
  <2> DEFINE r0 == n % 256
             r1 == q1 % 256
             r2 == q2 % 256
  <2>1. n = 256 * q1 + r0 /\ q1 = 256 * q2 + r1 /\ q2 = 256 * q3 + r2 /\ r0 \in Nat /\ r1 \in Nat /\ r2 \in Nat
    BY <1>1, <1>2, <1>3
  <2> HIDE DEF r0, r1, r2
  <2>2. 16777216 * q3 + 65536 * r2 + 256 * r1 + r0 = n
    BY <1>1, <1>2, <1>3, <2>1, SMT
  <2> QED BY <2>2, SMT DEF r0, r1, r2
<1>8. q3 \in Bytes /\ q2 % 256 \in Bytes /\ q1 % 256 \in Bytes /\ n % 256 \in Bytes
  BY <1>1, <1>2, <1>3, <1>6 DEF Bytes
<1> QED BY <1>4, <1>5, <1>7, <1>8, SMT DEF q1

LEMMA FrameIsRead ==
  ASSUME NEW flag \in Bytes, NEW payload \in Seq(Bytes), Fits(Len(payload)),
         NEW data \in Seq(Bytes), NEW pos \in Positions, Holds(data, pos, Frame(flag, payload))
  PROVE  /\ pos + 5 + Len(payload) \in Positions
         /\ FramesFrom(data)[pos] = <<[flag |-> flag, payload |-> payload]>> \o FramesFrom(data)[pos + 5 + Len(payload)]
<1> DEFINE n == Len(payload)
           b1 == n \div 16777216
           b2 == (n \div 65536) % 256
           b3 == (n \div 256) % 256
           b4 == n % 256
           head == <<flag, b1, b2, b3, b4>>
<1>1. n \in Nat /\ Len(data) \in Nat /\ pos \in Nat /\ pos > 0
  BY LenProperties DEF Positions
<1>2. b1 \in Bytes /\ b2 \in Bytes /\ b3 \in Bytes /\ b4 \in Bytes /\ 16777216 * b1 + 65536 * b2 + 256 * b3 + b4 = n
  BY <1>1, FourBytes, SMT DEF n
<1>3. Frame(flag, payload) = head \o payload
  BY SMT DEF Frame
<1> HIDE DEF n, b1, b2, b3, b4
<1>4. /\ head \in Seq(Bytes) /\ Len(head) = 5
      /\ head[1] = flag /\ head[2] = b1 /\ head[3] = b2 /\ head[4] = b3 /\ head[5] = b4
  BY <1>2
<1> HIDE DEF head
<1>5. Holds(data, pos, head) /\ Holds(data, pos + 5, payload)
  BY <1>3, <1>4, HoldsConcat
<1>6. pos + 5 - 1 <= Len(data) /\ \A k \in 1 .. 5 : data[pos + k - 1] = head[k]
  BY <1>4, <1>5 DEF Holds
<1>7. data[pos] = flag /\ data[pos + 1] = b1 /\ data[pos + 2] = b2 /\ data[pos + 3] = b3 /\ data[pos + 4] = b4
  <2>1. /\ data[pos + 1 - 1] = head[1] /\ data[pos + 2 - 1] = head[2] /\ data[pos + 3 - 1] = head[3]
        /\ data[pos + 4 - 1] = head[4] /\ data[pos + 5 - 1] = head[5]
    BY <1>6
  <2>2. pos + 1 - 1 = pos /\ pos + 2 - 1 = pos + 1 /\ pos + 3 - 1 = pos + 2 /\ pos + 4 - 1 = pos + 3 /\ pos + 5 - 1 = pos + 4
    BY <1>1
  <2> QED BY <1>4, <2>1, <2>2
<1>8. FrameLength(data, pos) = n
  BY <1>2, <1>7, SMT DEF FrameLength
<1>9. pos + 5 \in Positions /\ pos + 5 + n \in Positions /\ pos + 5 + n - 1 <= Len(data) /\ pos + 5 + n - 1 = pos + 4 + n
  <2>1. pos + 5 + n - 1 <= Len(data)
    BY <1>5 DEF Holds, n
  <2> QED BY <1>1, <2>1 DEF Positions
<1>10. ~(pos + 4 > Len(data) \/ ~Room(data, pos))
  <2>1. pos + 4 + FrameLength(data, pos) <= Len(data)
    BY <1>1, <1>8, <1>9
  <2>2. ~(pos + 4 > Len(data))
    BY <1>1, <1>6
  <2> QED BY <2>1, <2>2, Zenon DEF Room
<1>11. SubSeq(data, pos + 5, pos + 4 + n) = payload
  <2>1. Slice(data, pos + 5, n) = payload
    BY <1>5, <1>9, SliceReads DEF n
  <2>2. (IF pos + 5 + n - 1 < Len(data) THEN pos + 5 + n - 1 ELSE Len(data)) = pos + 4 + n
    BY <1>1, <1>9
  <2> QED BY <2>1, <2>2, Zenon DEF Slice
<1>12. FramesFrom(data)[pos] = FramesStep(data, pos, FramesFrom(data))
  BY FramesFromDef
<1>13. FramesStep(data, pos, FramesFrom(data))
         = <<[flag |-> flag, payload |-> payload]>> \o FramesFrom(data)[pos + 5 + n]
  BY <1>7, <1>8, <1>10, <1>11 DEF FramesStep
<1> QED BY <1>9, <1>12, <1>13 DEF n

LEMMA OneFrameIsRead ==
  ASSUME NEW flag \in Bytes, NEW payload \in Seq(Bytes), Fits(Len(payload))
  PROVE  Frame(flag, payload) \in Seq(Bytes) /\ FramesOf(Frame(flag, payload))[1].payload = payload
<1> DEFINE frame == Frame(flag, payload)
           n == Len(payload)
<1>1. n \in Nat
  BY LenProperties
<1>2. frame \in Seq(Bytes) /\ Len(frame) = 5 + n
  <2> DEFINE head == <<flag, n \div 16777216, (n \div 65536) % 256, (n \div 256) % 256, n % 256>>
  <2>1. head \in Seq(Bytes) /\ Len(head) = 5
    BY <1>1, FourBytes, SMT
  <2>2. frame = head \o payload
    BY SMT DEF Frame
  <2> HIDE DEF head
  <2>3. head \o payload \in Seq(Bytes) /\ Len(head \o payload) = Len(head) + Len(payload)
    BY ONLY <2>1, payload \in Seq(Bytes), ConcatProperties
  <2> QED BY <2>1, <2>2, <2>3
<1>3. 1 \in Positions /\ 1 + 5 + n \in Positions /\ 1 + 5 + n + 4 > Len(frame)
  BY <1>1, <1>2 DEF Positions
<1>4. FramesFrom(frame)[1] = <<[flag |-> flag, payload |-> payload]>> \o FramesFrom(frame)[1 + 5 + n]
  <2>1. Holds(frame, 1, frame)
    BY <1>2, HoldsItself
  <2> QED BY <1>2, <1>3, <2>1, FrameIsRead
<1>5. FramesFrom(frame)[1 + 5 + n] = <<>>
  <2>1. FramesFrom(frame)[1 + 5 + n] = FramesStep(frame, 1 + 5 + n, FramesFrom(frame))
    BY <1>2, <1>3, FramesFromDef
  <2> QED BY <1>3, <2>1 DEF FramesStep
<1>6. FramesOf(frame) = <<[flag |-> flag, payload |-> payload]>> \o <<>>
  BY <1>4, <1>5 DEF FramesOf
<1> HIDE DEF frame
<1> DEFINE f == [flag |-> flag, payload |-> payload]
<1>7. (<<f>> \o <<>>)[1] = f /\ f.payload = payload
  OBVIOUS
<1> QED BY <1>2, <1>6, <1>7 DEF frame

-----------------------------------------------------------------------------
(* Base64. *)

LEMMA SamePartsSameBytes ==
  ASSUME NEW s \in Seq(Bytes), NEW data \in Seq(Bytes), Len(s) = Len(data), Holds(s, 1, data)
  PROVE  s = data
<1>1. \A k \in 1 .. Len(data) : s[1 + k - 1] = data[k]
  BY DEF Holds
<1>2. \A k \in 1 .. Len(data) : 1 + k - 1 = k
  BY LenProperties
<1>3. \A k \in 1 .. Len(s) : s[k] = data[k]
  BY <1>1, <1>2
<1> QED BY <1>3, SeqEqual

LEMMA QuantaAreDecoded ==
  ASSUME NEW data \in Seq(Bytes)
  PROVE  /\ B64Decode(Quanta(data)) = data
         /\ Quanta(data) \in Seq(Seq(Bytes)) /\ FlattenSeq(Quanta(data)) = data
<1> DEFINE n == Len(data)
           m == (n + 2) \div 3
           last(i) == IF 3 * i < n THEN 3 * i ELSE n
           qs == Quanta(data)
<1>1. n \in Nat /\ m \in Nat /\ 3 * m >= n /\ 3 * m <= n + 2
  BY LenProperties
<1>2. qs = [i \in 1 .. m |-> SubSeq(data, 3 * i - 2, last(i))]
  BY DEF Quanta
<1>3. ASSUME NEW i \in 1 .. m
      PROVE  /\ 3 * i - 2 \in Positions /\ last(i) \in Nat /\ last(i) <= n /\ 3 * i - 2 <= last(i) + 1
             /\ last(i) = (IF i < m THEN 3 * i ELSE n)
             /\ last(i) - (3 * i - 2) + 1 = last(i) - 3 * (i - 1)
  <2> HIDE DEF m, n, qs
  <2>1. 3 * i - 2 \in Positions /\ i \in Nat /\ i >= 1 /\ i <= m
    BY <1>1 DEF Positions
  <2>2. CASE i < m
    <3>1. 3 * i < n
      BY <1>1, <2>1, <2>2
    <3> QED BY <1>1, <2>1, <2>2, <3>1
  <2>3. CASE ~(i < m)
    <3>1. i = m /\ ~(3 * i < n)
      BY <1>1, <2>1, <2>3
    <3> QED BY <1>1, <2>1, <2>3, <3>1
  <2> QED BY <2>2, <2>3
<1> HIDE DEF m, last, qs
<1>4. ASSUME NEW i \in 1 .. m
      PROVE  /\ qs[i] \in Seq(Bytes)
             /\ Len(qs[i]) = last(i) - 3 * (i - 1)
             /\ \A k \in 1 .. Len(qs[i]) : qs[i][k] = data[3 * i - 2 + k - 1]
  <2> DEFINE a == 3 * i - 2
             b == last(i)
  <2>1. a \in Positions /\ b \in Nat /\ b <= Len(data) /\ a <= b + 1 /\ b - a + 1 = b - 3 * (i - 1)
    BY <1>3
  <2>2. qs[i] = SubSeq(data, a, b)
    BY <1>2
  <2> HIDE DEF a, b
  <2>3. /\ SubSeq(data, a, b) \in Seq(Bytes)
        /\ Len(SubSeq(data, a, b)) = b - a + 1
        /\ \A k \in 1 .. b - a + 1 : SubSeq(data, a, b)[k] = data[a + k - 1]
    BY <2>1, Part
  <2> QED BY <2>1, <2>2, <2>3 DEF a, b
<1>5. qs \in Seq(Seq(Bytes)) /\ Len(qs) = m
  <2>1. qs \in [1 .. m -> Seq(Bytes)]
    BY <1>2, <1>4
  <2> QED BY <1>1, <2>1
<1>6. B64Decode(qs) = FlattenSeq(qs)
  <2> DEFINE padded == {i \in DOMAIN qs : Len(qs[i]) < 3}
  <2>1. padded \subseteq {m}
    <3> SUFFICES ASSUME NEW i \in 1 .. m, Len(qs[i]) < 3 PROVE i = m
      BY <1>2
    <3>1. last(i) - 3 * (i - 1) < 3
      BY <1>4
    <3>2. ~(i < m)
      BY <1>1, <1>3, <3>1
    <3> QED BY <1>1, <3>2
  <2>2. CASE padded = {}
    BY <2>2, Zenon DEF B64Decode
  <2>3. CASE padded # {}
    <3>1. padded = {m}
      BY <2>1, <2>3
    <3>2. Min({m}) = m
      BY <1>1 DEF Min
    <3>3. SubSeq(qs, 1, m) = qs
      BY <1>5, SubSeqFull
    <3> HIDE DEF padded
    <3>4. (IF padded = {} THEN qs ELSE SubSeq(qs, 1, Min(padded))) = qs
      BY <2>3, <3>1, <3>2, <3>3
    <3> QED BY <3>4, Zenon DEF B64Decode, padded
  <2> QED BY <2>2, <2>3
<1> DEFINE s == FlattenSeq(qs)
<1>7. s \in Seq(Bytes) /\ MadeOf(s, qs)
  BY <1>5, FlatIsMadeOfParts
<1> HIDE DEF s
<1>8. PICK st : Parts(s, qs, st)
  BY <1>7 DEF MadeOf
<1>9. /\ st \in [1 .. m + 1 -> Positions]
      /\ st[1] = 1 /\ st[m + 1] = Len(s) + 1
      /\ \A i \in 1 .. m : st[i + 1] = st[i] + Len(qs[i]) /\ Holds(s, st[i], qs[i])
  BY <1>5, <1>8 DEF Parts
<1> DEFINE Start(i) == IF i <= m THEN 3 * (i - 1) + 1 ELSE n + 1
<1>10. \A i \in 1 .. m + 1 : st[i] = Start(i)
  <2> DEFINE Bad == {i \in 1 .. m + 1 : st[i] # Start(i)}
  <2> SUFFICES ASSUME Bad # {} PROVE FALSE
    OBVIOUS
  <2>1. Bad \subseteq Nat
    BY <1>1
  <2>2. PICK i \in Bad : \A j \in Bad : i <= j
    BY <2>1, Least
  <2>3. CASE i = 1
    <3>1. Start(1) = 1
      BY <1>1
    <3> QED BY <1>9, <2>2, <2>3, <3>1
  <2>4. CASE i # 1
    <3> DEFINE j == i - 1
    <3>1. j \in 1 .. m /\ j \in 1 .. m + 1 /\ j + 1 = i /\ j \notin Bad
      BY <1>1, <2>2, <2>4
    <3> HIDE DEF j
    <3>2. st[j] = 3 * (j - 1) + 1
      BY <1>1, <3>1
    <3>3. st[i] = 3 * (j - 1) + 1 + (last(j) - 3 * (j - 1))
      BY <1>4, <1>9, <3>1, <3>2
    <3>4. last(j) \in Nat /\ last(j) = (IF j < m THEN 3 * j ELSE n)
      BY <1>3, <3>1
    <3>5. st[i] = last(j) + 1
      <4> DEFINE l == last(j)
      <4>1. l \in Nat /\ j \in Nat /\ st[i] = 3 * (j - 1) + 1 + (l - 3 * (j - 1))
        BY <1>1, <3>1, <3>3, <3>4
      <4> HIDE DEF l
      <4>2. st[i] = l + 1
        BY <4>1
      <4> QED BY <4>2 DEF l
    <3>6. Start(i) = last(j) + 1
      BY <1>1, <3>1, <3>4, SMTT(30)
    <3> QED BY <2>2, <3>5, <3>6
  <2> QED BY <2>3, <2>4
<1>11. Len(s) = n
  <2>1. st[m + 1] = n + 1
    BY <1>1, <1>10
  <2> QED BY <1>1, <1>7, <1>9, <2>1, LenProperties
<1>12. ASSUME NEW k \in 1 .. n PROVE s[k] = data[k]
  <2> DEFINE i == (k + 2) \div 3
             d == k - 3 * (i - 1)
  <2>1. i \in 1 .. m /\ i \in 1 .. m + 1 /\ d \in 1 .. 3 /\ k = 3 * (i - 1) + d /\ k <= n
    BY <1>1 DEF m
  <2> HIDE DEF i, d
  <2>2. d \in 1 .. Len(qs[i])
    <3>1. last(i) = (IF i < m THEN 3 * i ELSE n) /\ last(i) \in Nat
      BY <1>3, <2>1
    <3>2. d <= last(i) - 3 * (i - 1)
      BY <1>1, <2>1, <3>1
    <3>3. Len(qs[i]) = last(i) - 3 * (i - 1)
      BY <1>4, <2>1
    <3> QED BY <1>1, <2>1, <3>1, <3>2, <3>3
  <2>3. qs[i][d] = data[3 * i - 2 + d - 1]
    BY <1>4, <2>1, <2>2
  <2>4. s[st[i] + d - 1] = qs[i][d]
    <3>1. Holds(s, st[i], qs[i])
      BY <1>9, <2>1
    <3> QED BY <2>2, <3>1 DEF Holds
  <2>5. st[i] = 3 * (i - 1) + 1
    BY <1>1, <1>10, <2>1
  <2>6. 3 * (i - 1) + 1 + d - 1 = k /\ 3 * i - 2 + d - 1 = k
    BY <1>1, <2>1
  <2> QED BY <2>3, <2>4, <2>5, <2>6
<1>13. s = data
  BY <1>7, <1>11, <1>12, SeqEqual
<1> QED BY <1>5, <1>6, <1>13 DEF s, qs

-----------------------------------------------------------------------------
(* Messages. *)

LEMMA OneField ==
  ASSUME NEW f \in AField, NEW num
  PROVE  /\ Has(<<f>>, num) <=> f.num = num
         /\ f.num = num => First(<<f>>, num) = f
<1> DEFINE s == <<f>>
           At == {i \in DOMAIN s : s[i].num = num}
<1>1. DOMAIN s = {1} /\ s[1] = f
  OBVIOUS
<1>2. Has(<<f>>, num) <=> f.num = num
  <2>1. Has(s, num) <=> \E i \in DOMAIN s : s[i].num = num
    BY DEF Has
  <2> HIDE DEF s
  <2>2. Has(s, num) <=> f.num = num
    BY <1>1, <2>1
  <2> QED BY <2>2 DEF s
<1>3. ASSUME f.num = num PROVE First(<<f>>, num) = f
  <2>1. First(s, num) = s[Min(At)]
    BY DEF First
  <2> HIDE DEF s
  <2>2. At = {1}
    BY <1>1, <1>3
  <2>3. Min({1}) = 1
    BY DEF Min
  <2>4. First(s, num) = f
    BY <1>1, <2>1, <2>2, <2>3
  <2> QED BY <2>4 DEF s
<1> QED BY <1>2, <1>3

LEMMA NoField ==
  ASSUME NEW num
  PROVE  ~Has(<<>>, num)
BY DEF Has

LEMMA EitherHas ==
  ASSUME NEW fs \in Seq(AField), NEW gs \in Seq(AField), NEW num
  PROVE  /\ fs \o gs \in Seq(AField)
         /\ Has(fs \o gs, num) <=> Has(fs, num) \/ Has(gs, num)
         /\ Has(fs, num) => First(fs \o gs, num) = First(fs, num)
         /\ ~Has(fs, num) /\ Has(gs, num) => First(fs \o gs, num) = First(gs, num)
<1> DEFINE hs == fs \o gs
           n == Len(fs)
           F == {i \in DOMAIN fs : fs[i].num = num}
           H == {i \in DOMAIN hs : hs[i].num = num}
           J == {i \in DOMAIN gs : gs[i].num = num}
<1>1. /\ hs \in Seq(AField) /\ Len(hs) = n + Len(gs) /\ n \in Nat /\ Len(gs) \in Nat
      /\ \A i \in 1 .. n + Len(gs) : hs[i] = IF i <= n THEN fs[i] ELSE gs[i - n]
  BY ConcatProperties, LenProperties
<1>2. DOMAIN fs = 1 .. n /\ DOMAIN gs = 1 .. Len(gs) /\ DOMAIN hs = 1 .. n + Len(gs)
  BY <1>1, LenProperties
<1>3. (Has(fs, num) <=> F # {}) /\ (Has(gs, num) <=> J # {}) /\ (Has(hs, num) <=> H # {})
  BY Zenon DEF Has
<1>4. First(fs, num) = fs[Min(F)] /\ First(gs, num) = gs[Min(J)] /\ First(hs, num) = hs[Min(H)]
  BY Zenon DEF First
<1>5. \A i : i \in F <=> i \in 1 .. n /\ fs[i].num = num
  BY <1>2
<1>6. \A i : i \in J <=> i \in 1 .. Len(gs) /\ gs[i].num = num
  BY <1>2
<1>7. \A i : i \in H <=> i \in 1 .. n + Len(gs) /\ hs[i].num = num
  BY <1>2
<1> HIDE DEF F, H, J, hs
<1>8. \A i \in F : i \in H /\ i \in Nat /\ hs[i] = fs[i] /\ i <= n
  <2> SUFFICES ASSUME NEW i \in F PROVE i \in H /\ i \in Nat /\ hs[i] = fs[i] /\ i <= n
    OBVIOUS
  <2>1. i \in 1 .. n /\ fs[i].num = num
    BY <1>5
  <2>2. i \in 1 .. n + Len(gs) /\ i <= n /\ i \in Nat
    BY <1>1, <2>1
  <2>3. hs[i] = fs[i]
    BY <1>1, <2>2
  <2> QED BY <1>7, <2>1, <2>2, <2>3
<1>9. \A i \in J : i + n \in H /\ hs[i + n] = gs[i] /\ i \in Nat
  <2> SUFFICES ASSUME NEW i \in J PROVE i + n \in H /\ hs[i + n] = gs[i] /\ i \in Nat
    OBVIOUS
  <2>1. i \in 1 .. Len(gs) /\ gs[i].num = num
    BY <1>6
  <2>2. i + n \in 1 .. n + Len(gs) /\ ~(i + n <= n) /\ i + n - n = i /\ i \in Nat
    BY <1>1, <2>1
  <2>3. hs[i + n] = gs[i]
    BY <1>1, <2>2
  <2> QED BY <1>7, <2>1, <2>2, <2>3
<1>10. \A i \in H : i \in Nat /\ (i \in F \/ i - n \in J)
  <2> SUFFICES ASSUME NEW i \in H PROVE i \in Nat /\ (i \in F \/ i - n \in J)
    OBVIOUS
  <2>1. i \in 1 .. n + Len(gs) /\ hs[i].num = num
    BY <1>7
  <2>2. i \in Nat
    BY <1>1, <2>1
  <2>3. CASE i <= n
    <3>1. i \in 1 .. n /\ hs[i] = fs[i]
      BY <1>1, <2>1, <2>3
    <3> QED BY <1>5, <2>1, <2>2, <3>1
  <2>4. CASE ~(i <= n)
    <3>1. i - n \in 1 .. Len(gs) /\ hs[i] = gs[i - n]
      BY <1>1, <2>1, <2>4
    <3> QED BY <1>6, <2>1, <2>2, <3>1
  <2> QED BY <2>3, <2>4
<1>11. H # {} <=> F # {} \/ J # {}
  BY <1>8, <1>9, <1>10
<1>12. ASSUME F # {} PROVE hs[Min(H)] = fs[Min(F)]
  <2> DEFINE a == Min(F)
             b == Min(H)
  <2>1. a \in F /\ \A i \in F : a <= i
    <3>1. F \subseteq Nat
      BY <1>8
    <3> QED BY <1>12, <3>1, Least DEF Min
  <2>2. b \in H /\ \A i \in H : b <= i
    <3>1. H \subseteq Nat /\ H # {}
      BY <1>10, <1>11, <1>12
    <3> QED BY <3>1, Least DEF Min
  <2> HIDE DEF a, b
  <2>3. a \in H /\ a \in Nat /\ a <= n /\ b \in Nat
    BY <1>8, <1>10, <2>1, <2>2
  <2>4. b <= a
    BY <2>2, <2>3
  <2>5. b \in F
    <3>1. b \in 1 .. n
      BY <1>1, <1>7, <2>2, <2>3, <2>4
    <3>2. hs[b] = fs[b]
      BY <1>1, <3>1
    <3> QED BY <1>5, <1>7, <2>2, <3>1, <3>2
  <2>6. a = b
    BY <2>1, <2>3, <2>4, <2>5
  <2> QED BY <1>8, <2>1, <2>6 DEF a, b
<1>13. ASSUME F = {}, J # {} PROVE hs[Min(H)] = gs[Min(J)]
  <2> DEFINE a == Min(J)
             b == Min(H)
  <2>1. a \in J /\ \A i \in J : a <= i
    <3>1. J \subseteq Nat
      BY <1>9
    <3> QED BY <1>13, <3>1, Least DEF Min
  <2>2. b \in H /\ \A i \in H : b <= i
    <3>1. H \subseteq Nat /\ H # {}
      BY <1>10, <1>11, <1>13
    <3> QED BY <3>1, Least DEF Min
  <2> HIDE DEF a, b
  <2>3. a + n \in H /\ a \in Nat /\ b - n \in J /\ b \in Nat
    BY <1>9, <1>10, <1>13, <2>1, <2>2
  <2>4. b <= a + n /\ a <= b - n
    BY <2>1, <2>2, <2>3
  <2>5. b = a + n
    BY <1>1, <2>3, <2>4
  <2> QED BY <1>9, <2>1, <2>5 DEF a, b
<1>14. Has(hs, num) <=> Has(fs, num) \/ Has(gs, num)
  BY <1>3, <1>11, Zenon
<1>15. Has(fs, num) => First(hs, num) = First(fs, num)
  BY <1>3, <1>4, <1>12, Zenon
<1>16. ~Has(fs, num) /\ Has(gs, num) => First(hs, num) = First(gs, num)
  BY <1>3, <1>4, <1>13, Zenon
<1> QED BY <1>1, <1>14, <1>15, <1>16, Zenon DEF hs

LEMMA FieldParts ==
  ASSUME NEW num, NEW int, NEW bytes
  PROVE  Field(num, int, bytes).num = num /\ Field(num, int, bytes).int = int /\ Field(num, int, bytes).bytes = bytes
BY DEF Field

LEMMA FieldKinds ==
  ASSUME NEW num \in Nat, NEW n \in Nat, NEW s \in Seq(Bytes)
  PROVE  Field(num, n, None) \in AField /\ Field(num, None, s) \in AField
BY DEF Field, AField

(* Two fields with different numbers. *)
LEMMA TwoFields ==
  ASSUME NEW f \in AField, NEW g \in AField, f.num # g.num
  PROVE  First(<<f>> \o <<g>>, f.num) = f /\ First(<<f>> \o <<g>>, g.num) = g
<1>1. <<f>> \in Seq(AField) /\ <<g>> \in Seq(AField)
  OBVIOUS
<1>2. Has(<<f>>, f.num) /\ First(<<f>>, f.num) = f
  BY OneField
<1>3. Has(<<g>>, g.num) /\ First(<<g>>, g.num) = g
  BY OneField
<1>4. ~Has(<<f>>, g.num)
  BY OneField
<1>5. First(<<f>> \o <<g>>, f.num) = First(<<f>>, f.num)
  BY <1>1, <1>2, EitherHas
<1>6. First(<<f>> \o <<g>>, g.num) = First(<<g>>, g.num)
  BY <1>1, <1>3, <1>4, EitherHas
<1> QED BY <1>2, <1>3, <1>5, <1>6

(* A price is a message in a message in the order. *)
PriceInside(p) == FieldVarint(1, p[1]) \o FieldVarint(2, p[2])
PriceBytes(p) == FieldBytes(1, PriceInside(p))

LEMMA PriceIsWritten ==
  ASSUME NEW p \in Prices, NEW num \in Nat
  PROVE  /\ PriceBytes(p) \in Seq(Bytes)
         /\ Encodes(FieldBytes(num, PriceBytes(p)), <<Field(num, None, PriceBytes(p))>>)
         /\ \A fs : First(fs, num) = Field(num, None, PriceBytes(p)) /\ Has(fs, num) => ReadPrice(fs, num) = p
<1> DEFINE d == PriceInside(p)
           a == Field(1, p[1], None)
           b == Field(2, p[2], None)
           c == Field(1, None, d)
<1>1. p[1] \in Nat /\ p[2] \in Nat /\ p = <<p[1], p[2]>> /\ 1 \in Nat /\ 2 \in Nat
  BY DEF Prices
<1>2. Encodes(FieldVarint(1, p[1]), <<a>>) /\ Encodes(FieldVarint(2, p[2]), <<b>>)
  BY <1>1, VarintFieldIsRead
<1>3. Encodes(d, <<a>> \o <<b>>)
  BY <1>2, EncodedFieldsFollow DEF PriceInside
<1>4. FieldsOf(d) = <<a>> \o <<b>> /\ d \in Seq(Bytes)
  BY <1>3, EncodedFieldsAreRead DEF Encodes
<1>5. PriceBytes(p) = FieldBytes(1, d)
  BY DEF PriceBytes
<1>6. a \in AField /\ b \in AField /\ a.num = 1 /\ b.num = 2 /\ a.int = p[1] /\ b.int = p[2]
  BY <1>1 DEF Field, AField
<1>7. c \in AField /\ c.num = 1 /\ c.bytes = d
  BY <1>4 DEF Field, AField
<1> HIDE DEF a, b, c, d
<1>8. Encodes(PriceBytes(p), <<c>>)
  BY <1>1, <1>4, <1>5, BytesFieldIsRead DEF c
<1>9. FieldsOf(PriceBytes(p)) = <<c>> /\ PriceBytes(p) \in Seq(Bytes)
  BY <1>8, EncodedFieldsAreRead DEF Encodes
<1>10. First(<<c>>, 1) = c
  BY <1>7, OneField
<1>11. First(<<a>> \o <<b>>, 1) = a /\ First(<<a>> \o <<b>>, 2) = b
  BY <1>6, TwoFields
<1>12. ASSUME NEW fs, First(fs, num) = Field(num, None, PriceBytes(p)), Has(fs, num)
       PROVE  ReadPrice(fs, num) = p
  <2>1. First(fs, num).bytes = PriceBytes(p)
    BY <1>12, FieldParts
  <2>2. Nested(fs, num) = <<c>>
    BY <1>9, <2>1 DEF Nested
  <2>3. Nested(Nested(fs, num), 1) = <<a>> \o <<b>>
    BY <1>4, <1>7, <1>10, <2>2 DEF Nested
  <2>4. ReadPrice(fs, num) = <<a.int, b.int>>
    BY <1>11, <1>12, <2>3 DEF ReadPrice
  <2> QED BY <1>1, <1>6, <2>4
<1> QED BY <1>9, <1>12, BytesFieldIsRead

PriceFields(num, p) == IF p = None THEN <<>> ELSE <<Field(num, None, PriceBytes(p))>>

LEMMA PriceIsEncoded ==
  ASSUME NEW p \in {None} \cup Prices, NEW num \in Nat
  PROVE  /\ Encodes(Price(num, p), PriceFields(num, p))
         /\ Has(PriceFields(num, p), num) <=> p # None
         /\ \A k : k # num => ~Has(PriceFields(num, p), k)
         /\ \A fs : Has(fs, num) /\ p # None /\ First(fs, num) = First(PriceFields(num, p), num) => ReadPrice(fs, num) = p
<1>1. CASE p = None
  <2>1. Price(num, p) = <<>> /\ PriceFields(num, p) = <<>>
    BY <1>1 DEF Price, PriceFields
  <2>2. \A k : ~Has(<<>>, k)
    BY NoField
  <2> QED BY <1>1, <2>1, <2>2, NothingEncodesNothing
<1>2. CASE p # None
  <2> DEFINE f == Field(num, None, PriceBytes(p))
  <2>1. p \in Prices
    BY <1>2
  <2>2. Price(num, p) = FieldBytes(num, PriceBytes(p)) /\ PriceFields(num, p) = <<f>>
    BY <1>2 DEF Price, PriceFields, PriceBytes, PriceInside
  <2>3. PriceBytes(p) \in Seq(Bytes)
    BY <2>1, PriceIsWritten
  <2>4. f \in AField /\ f.num = num
    BY <2>3 DEF Field, AField
  <2>5. Encodes(FieldBytes(num, PriceBytes(p)), <<f>>)
    BY <2>1, PriceIsWritten
  <2>6. \A fs : First(fs, num) = f /\ Has(fs, num) => ReadPrice(fs, num) = p
    BY <2>1, PriceIsWritten
  <2> HIDE DEF f
  <2>7. First(<<f>>, num) = f /\ \A k : Has(<<f>>, k) <=> f.num = k
    BY <2>4, OneField
  <2> QED BY <1>2, <2>2, <2>4, <2>5, <2>6, <2>7
<1> QED BY <1>1, <1>2

LEMMA CancellationIsRead ==
  ASSUME NEW ns \in Seq(Nat)
  PROVE  /\ DeleteOrders(ns) \in Seq(Bytes)
         /\ ReadNumbers(First(FieldsOf(DeleteOrders(ns)), 1).bytes) = ns
<1> DEFINE packed == FlattenSeq([i \in DOMAIN ns |-> EncodeVarint(ns[i])])
           f == Field(1, None, packed)
<1>1. packed \in Seq(Bytes) /\ ReadNumbers(packed) = ns
  BY NumbersAreRead
<1>2. DeleteOrders(ns) = FieldBytes(1, packed)
  BY DEF DeleteOrders
<1> HIDE DEF packed
<1>3. Encodes(DeleteOrders(ns), <<f>>)
  BY <1>1, <1>2, BytesFieldIsRead
<1>4. FieldsOf(DeleteOrders(ns)) = <<f>> /\ DeleteOrders(ns) \in Seq(Bytes)
  BY <1>3, EncodedFieldsAreRead DEF Encodes
<1>5. f \in AField /\ f.num = 1 /\ f.bytes = packed
  BY <1>1 DEF Field, AField
<1> HIDE DEF f
<1>6. First(<<f>>, 1) = f
  BY <1>5, OneField
<1> QED BY <1>1, <1>4, <1>5, <1>6

LEMMA TokenRequestIsRead ==
  ASSUME NEW t \in TokenRequests
  PROVE  CreateAccessToken(t) \in Seq(Bytes) /\ ReadToken(FieldsOf(CreateAccessToken(t))) = t
<1>1. /\ t.tgt \in Seq(Bytes) /\ t.account \in Nat /\ t.server \in Seq(Bytes)
      /\ t = [kind |-> "token", tgt |-> t.tgt, account |-> t.account, server |-> t.server]
  BY DEF TokenRequests
<1> DEFINE account == FieldVarint(1, t.account) \o FieldBytes(2, t.server)
           a == Field(1, None, t.tgt)
           b == Field(2, None, account)
           c == Field(1, t.account, None)
           d == Field(2, None, t.server)
<1>2. Encodes(FieldVarint(1, t.account), <<c>>) /\ Encodes(FieldBytes(2, t.server), <<d>>)
  BY <1>1, VarintFieldIsRead, BytesFieldIsRead
<1>3. Encodes(account, <<c>> \o <<d>>)
  BY <1>2, EncodedFieldsFollow
<1>4. account \in Seq(Bytes) /\ FieldsOf(account) = <<c>> \o <<d>>
  BY <1>3, EncodedFieldsAreRead DEF Encodes
<1>5. CreateAccessToken(t) = FieldBytes(1, t.tgt) \o FieldBytes(2, account)
  BY DEF CreateAccessToken
<1> HIDE DEF account
<1>6. Encodes(FieldBytes(1, t.tgt), <<a>>) /\ Encodes(FieldBytes(2, account), <<b>>)
  BY <1>1, <1>4, BytesFieldIsRead
<1>7. /\ a \in AField /\ b \in AField /\ c \in AField /\ d \in AField
      /\ a.num = 1 /\ a.bytes = t.tgt /\ b.num = 2 /\ b.bytes = account
      /\ c.num = 1 /\ c.int = t.account /\ d.num = 2 /\ d.bytes = t.server
  BY <1>1, <1>4 DEF Field, AField
<1> HIDE DEF a, b, c, d
<1>8. Encodes(CreateAccessToken(t), <<a>> \o <<b>>)
  BY <1>5, <1>6, EncodedFieldsFollow
<1>9. CreateAccessToken(t) \in Seq(Bytes) /\ FieldsOf(CreateAccessToken(t)) = <<a>> \o <<b>>
  BY <1>8, EncodedFieldsAreRead DEF Encodes
<1> DEFINE fs == <<a>> \o <<b>>
           gs == <<c>> \o <<d>>
<1>10. First(fs, 1) = a /\ First(fs, 2) = b
  BY <1>7, TwoFields
<1>11. First(gs, 1) = c /\ First(gs, 2) = d
  BY <1>7, TwoFields
<1> HIDE DEF fs, gs
<1>12. Nested(fs, 2) = gs
  BY <1>4, <1>7, <1>10 DEF Nested, gs
<1>13. ReadToken(fs) = [kind |-> "token", tgt |-> a.bytes, account |-> c.int, server |-> d.bytes]
  BY <1>10, <1>11, <1>12 DEF ReadToken
<1> QED BY <1>1, <1>7, <1>9, <1>13 DEF fs

LEMMA OrderIsRead ==
  ASSUME NEW o \in Orders
  PROVE  NewMarketOrder(o) \in Seq(Bytes) /\ ReadOrder(FieldsOf(NewMarketOrder(o))) = o
<1>1. /\ o.instrument \in Nat /\ o.volume \in Nat /\ o.side \in Nat
      /\ o.stop \in {None} \cup Prices /\ o.take \in {None} \cup Prices
      /\ o = [kind |-> "order", instrument |-> o.instrument, volume |-> o.volume, side |-> o.side,
              stop |-> o.stop, take |-> o.take]
  BY DEF Orders
<1> DEFINE volume == FieldVarint(1, o.volume)
           order == FieldBytes(2, volume) \o Price(3, o.stop) \o Price(4, o.take)
           v == Field(1, o.volume, None)
           w == Field(2, None, volume)
           ps == PriceFields(3, o.stop)
           pt == PriceFields(4, o.take)
           a == Field(1, o.instrument, None)
           b == Field(2, None, order)
           c == Field(3, o.side, None)
<1>2. Encodes(volume, <<v>>)
  BY <1>1, VarintFieldIsRead
<1>3. volume \in Seq(Bytes) /\ FieldsOf(volume) = <<v>>
  BY <1>2, EncodedFieldsAreRead DEF Encodes
<1>4. v \in AField /\ v.num = 1 /\ v.int = o.volume
  BY <1>1 DEF Field, AField
<1>5. w \in AField /\ w.num = 2 /\ w.bytes = volume
  BY <1>3 DEF Field, AField
<1>6. Encodes(FieldBytes(2, volume), <<w>>)
  BY <1>3, BytesFieldIsRead
<1> HIDE DEF v, w, volume, ps, pt
<1>7. /\ Encodes(Price(3, o.stop), ps)
      /\ Has(ps, 3) <=> o.stop # None
      /\ \A k : k # 3 => ~Has(ps, k)
      /\ \A fs : Has(fs, 3) /\ o.stop # None /\ First(fs, 3) = First(ps, 3) => ReadPrice(fs, 3) = o.stop
  BY <1>1, PriceIsEncoded DEF ps
<1>8. /\ Encodes(Price(4, o.take), pt)
      /\ Has(pt, 4) <=> o.take # None
      /\ \A k : k # 4 => ~Has(pt, k)
      /\ \A fs : Has(fs, 4) /\ o.take # None /\ First(fs, 4) = First(pt, 4) => ReadPrice(fs, 4) = o.take
  BY <1>1, PriceIsEncoded DEF pt
<1> DEFINE ws == <<w>> \o ps
           fs == ws \o pt
<1>9. Encodes(FieldBytes(2, volume) \o Price(3, o.stop), ws)
  BY <1>6, <1>7, EncodedFieldsFollow
<1>10. Encodes(order, fs)
  BY <1>8, <1>9, EncodedFieldsFollow
<1>11. order \in Seq(Bytes) /\ FieldsOf(order) = fs
  BY <1>10, EncodedFieldsAreRead DEF Encodes
<1>12. <<w>> \in Seq(AField) /\ ps \in Seq(AField) /\ pt \in Seq(AField) /\ ws \in Seq(AField)
  BY <1>6, <1>7, <1>8, <1>9 DEF Encodes
<1>13. First(<<w>>, 2) = w /\ \A k : Has(<<w>>, k) <=> w.num = k
  BY <1>5, OneField
<1> HIDE DEF order
<1>14. First(fs, 2) = w
  <2>1. Has(ws, 2) /\ First(ws, 2) = w
    BY <1>5, <1>12, <1>13, EitherHas
  <2> HIDE DEF ws
  <2> QED BY <1>12, <2>1, EitherHas
<1>15. ReadPrice(fs, 3) = o.stop
  <2>1. ~Has(<<w>>, 3)
    BY <1>5, <1>13
  <2>2. Has(ws, 3) <=> Has(ps, 3)
    BY <1>12, <2>1, EitherHas
  <2>3. Has(ps, 3) => First(ws, 3) = First(ps, 3)
    <3> DEFINE sw == <<w>>
    <3>1. sw \in Seq(AField) /\ ps \in Seq(AField) /\ ~Has(sw, 3)
      BY <1>12, <2>1
    <3> HIDE DEF sw
    <3>2. Has(ps, 3) => First(sw \o ps, 3) = First(ps, 3)
      BY <3>1, EitherHas
    <3> QED BY <3>2 DEF sw
  <2> HIDE DEF ws
  <2>4. ~Has(pt, 3)
    BY <1>8
  <2>5. Has(fs, 3) <=> Has(ws, 3)
    BY <1>12, <2>4, EitherHas
  <2>6. Has(ws, 3) => First(fs, 3) = First(ws, 3)
    BY <1>12, EitherHas
  <2> HIDE DEF fs
  <2>7. CASE o.stop = None
    <3>1. ~Has(fs, 3)
      BY <1>7, <2>2, <2>5, <2>7
    <3> QED BY <2>7, <3>1 DEF ReadPrice
  <2>8. CASE o.stop # None
    BY <1>7, <2>2, <2>3, <2>5, <2>6, <2>8
  <2> QED BY <2>7, <2>8
<1>16. ReadPrice(fs, 4) = o.take
  <2>1. ~Has(<<w>>, 4) /\ ~Has(ps, 4)
    BY <1>5, <1>7, <1>13
  <2>2. ~Has(ws, 4)
    BY <1>12, <2>1, EitherHas
  <2> HIDE DEF ws
  <2>3. Has(fs, 4) <=> Has(pt, 4)
    BY <1>12, <2>2, EitherHas
  <2>4. Has(pt, 4) => First(fs, 4) = First(pt, 4)
    BY <1>12, <2>2, EitherHas
  <2> HIDE DEF fs
  <2>5. CASE o.take = None
    <3>1. ~Has(fs, 4)
      BY <1>8, <2>3, <2>5
    <3> QED BY <2>5, <3>1 DEF ReadPrice
  <2>6. CASE o.take # None
    BY <1>8, <2>3, <2>4, <2>6
  <2> QED BY <2>5, <2>6
<1> HIDE DEF fs
<1>17. First(Nested(fs, 2), 1).int = o.volume
  <2>1. Nested(fs, 2) = <<v>>
    BY <1>3, <1>5, <1>14 DEF Nested
  <2>2. First(<<v>>, 1) = v
    BY <1>4, OneField
  <2> QED BY <1>4, <2>1, <2>2
<1>18. /\ a \in AField /\ a.num = 1 /\ a.int = o.instrument
       /\ b \in AField /\ b.num = 2 /\ b.bytes = order
       /\ c \in AField /\ c.num = 3 /\ c.int = o.side
  BY <1>1, <1>11 DEF Field, AField
<1>19. /\ Encodes(FieldVarint(1, o.instrument), <<a>>)
       /\ Encodes(FieldBytes(2, order), <<b>>)
       /\ Encodes(FieldVarint(3, o.side), <<c>>)
  BY <1>1, <1>11, VarintFieldIsRead, BytesFieldIsRead
<1> HIDE DEF a, b, c
<1> DEFINE ab == <<a>> \o <<b>>
           gs == ab \o <<c>>
<1>20. Encodes(FieldVarint(1, o.instrument) \o FieldBytes(2, order), ab)
  BY <1>19, EncodedFieldsFollow
<1>21. NewMarketOrder(o) = (FieldVarint(1, o.instrument) \o FieldBytes(2, order)) \o FieldVarint(3, o.side)
  BY DEF NewMarketOrder, order, volume
<1>22. Encodes(NewMarketOrder(o), gs)
  BY <1>19, <1>20, <1>21, EncodedFieldsFollow
<1>23. NewMarketOrder(o) \in Seq(Bytes) /\ FieldsOf(NewMarketOrder(o)) = gs
  BY <1>22, EncodedFieldsAreRead DEF Encodes
<1>24. First(gs, 1) = a /\ First(gs, 2) = b /\ First(gs, 3) = c
  <2>1. <<a>> \in Seq(AField) /\ <<b>> \in Seq(AField) /\ <<c>> \in Seq(AField) /\ ab \in Seq(AField)
    BY <1>19, <1>20 DEF Encodes
  <2>2. First(ab, 1) = a /\ First(ab, 2) = b
    BY <1>18, TwoFields
  <2>3. \A k : (Has(<<a>>, k) <=> a.num = k) /\ (Has(<<b>>, k) <=> b.num = k) /\ (Has(<<c>>, k) <=> c.num = k)
    BY <1>18, OneField
  <2>4. First(<<c>>, 3) = c
    BY <1>18, OneField
  <2>5. Has(ab, 1) /\ Has(ab, 2) /\ ~Has(ab, 3)
    <3> DEFINE sa == <<a>>
               sb == <<b>>
    <3>1. sa \in Seq(AField) /\ sb \in Seq(AField) /\ \A k : (Has(sa, k) <=> 1 = k) /\ (Has(sb, k) <=> 2 = k)
      BY <1>18, <2>1, <2>3
    <3> HIDE DEF sa, sb
    <3>2. \A k : Has(sa \o sb, k) <=> Has(sa, k) \/ Has(sb, k)
      BY <3>1, EitherHas
    <3>3. Has(sa \o sb, 1) /\ Has(sa \o sb, 2) /\ ~Has(sa \o sb, 3)
      BY <3>1, <3>2
    <3> QED BY <3>3 DEF sa, sb
  <2> HIDE DEF ab
  <2>6. Has(<<c>>, 3)
    BY <1>18, <2>3
  <2>7. First(gs, 1) = First(ab, 1) /\ First(gs, 2) = First(ab, 2)
    BY <2>1, <2>5, EitherHas
  <2>8. First(gs, 3) = First(<<c>>, 3)
    BY <2>1, <2>5, <2>6, EitherHas
  <2> QED BY <2>2, <2>4, <2>7, <2>8
<1> HIDE DEF gs
<1>25. Nested(gs, 2) = fs
  BY <1>11, <1>18, <1>24 DEF Nested
<1>26. ReadOrder(gs) = [kind |-> "order", instrument |-> a.int, side |-> c.int,
                        volume |-> First(Nested(fs, 2), 1).int, stop |-> ReadPrice(fs, 3), take |-> ReadPrice(fs, 4)]
  BY <1>24, <1>25 DEF ReadOrder
<1> QED BY <1>1, <1>15, <1>16, <1>17, <1>18, <1>23, <1>26

LEMMA MessageIsRead ==
  ASSUME NEW a \in Asks
  PROVE  ServerReads(a.kind, Body(a)) = a
<1>1. a \in Orders \cup Cancellations \cup TokenRequests /\ Fits(Len(Message(a)))
  BY WireAssumption
<1> DEFINE m == Message(a)
           fields == FieldsOf(FramesOf(B64Decode(Body(a)))[1].payload)
<1>2. ASSUME m \in Seq(Bytes) PROVE fields = FieldsOf(m)
  <2>1. Frame(0, m) \in Seq(Bytes) /\ FramesOf(Frame(0, m))[1].payload = m
    <3>1. 0 \in Bytes /\ Fits(Len(m))
      BY <1>1 DEF Bytes
    <3> HIDE DEF m
    <3> QED BY <1>2, <3>1, OneFrameIsRead
  <2>2. Body(a) = Quanta(Frame(0, m))
    BY DEF Body
  <2>3. B64Decode(Body(a)) = Frame(0, m)
    BY <2>1, <2>2, QuantaAreDecoded
  <2> QED BY <2>1, <2>3
<1> HIDE DEF m, fields
<1>3. CASE a \in Orders
  <2>1. a.kind = "order"
    BY <1>3 DEF Orders
  <2>2. m = NewMarketOrder(a)
    BY <2>1 DEF Message, m
  <2>3. ServerReads(a.kind, Body(a)) = ReadOrder(fields)
    BY <2>1 DEF ServerReads, fields
  <2> QED BY <1>2, <1>3, <2>2, <2>3, OrderIsRead
<1>4. CASE a \in Cancellations
  <2>1. a.kind = "cancel" /\ a.numbers \in Seq(Nat) /\ a = [kind |-> "cancel", numbers |-> a.numbers]
    BY <1>4 DEF Cancellations
  <2>2. m = DeleteOrders(a.numbers)
    BY <2>1 DEF Message, m
  <2>3. ServerReads(a.kind, Body(a)) = [kind |-> "cancel", numbers |-> ReadNumbers(First(fields, 1).bytes)]
    BY <2>1 DEF ServerReads, fields
  <2> QED BY <1>2, <2>1, <2>2, <2>3, CancellationIsRead
<1>5. CASE a \in TokenRequests
  <2>1. a.kind = "token"
    BY <1>5 DEF TokenRequests
  <2>2. m = CreateAccessToken(a)
    BY <2>1 DEF Message, m
  <2>3. ServerReads(a.kind, Body(a)) = ReadToken(fields)
    BY <2>1 DEF ServerReads, fields
  <2> QED BY <1>2, <1>5, <2>2, <2>3, TokenRequestIsRead
<1> QED BY <1>1, <1>3, <1>4, <1>5

-----------------------------------------------------------------------------
(* The exchange. *)

(* While the server waits for a request, what is under way is the request. *)
RequestUnderWay == phase = "asking" => quanta = Body(ask)
WInv == ask \in Asks /\ RequestUnderWay /\ RequestArrives

(* However the exchanges follow one another, the request under way is the   *)
(* one that was asked for, and the server has read it as it was.            *)
THEOREM RequestInvariance == Spec => []WInv
<1>1. Init => WInv
  BY DEF Init, WInv, RequestUnderWay, RequestArrives
<1>2. WInv /\ [Next]_vars => WInv'
  <2> SUFFICES ASSUME WInv, [Next]_vars PROVE WInv'
    OBVIOUS
  <2> USE DEF WInv, RequestUnderWay, RequestArrives
  <2>1. CASE Arrives
    BY <2>1 DEF Arrives
  <2>2. CASE ServerAnswers
    <3>1. /\ ask' = ask /\ phase = "asking" /\ phase' = "answering"
          /\ taken' = ServerReads(ask.kind, quanta)
      BY <2>2 DEF ServerAnswers
    <3>2. taken' = ask
      BY <3>1, MessageIsRead
    <3> QED BY <3>1, <3>2
  <2>3. CASE ClientReads
    BY <2>3 DEF ClientReads
  <2>4. CASE ClientRaises
    BY <2>4 DEF ClientRaises
  <2>5. CASE NextExchange
    <3>1. phase' = "asking" /\ ask' \in Asks /\ quanta' = Body(ask')
      BY <2>5 DEF NextExchange
    <3> QED BY <3>1
  <2>6. CASE UNCHANGED vars
    BY <2>6 DEF vars
  <2> QED BY <2>1, <2>2, <2>3, <2>4, <2>5, <2>6 DEF Next
<1> QED BY <1>1, <1>2, PTL DEF Spec

(* The server reads every request as it was made: whatever the instrument,  *)
(* the volume, the prices and the order numbers are, none is garbled by the *)
(* varints, the fields, the frame or the base64 text (proto.py:14-158).     *)
THEOREM RequestsAreRead == Spec => []RequestArrives
<1>1. WInv => RequestArrives
  BY DEF WInv
<1> QED BY <1>1, RequestInvariance, PTL
=============================================================================
