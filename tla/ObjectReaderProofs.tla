------------------------- MODULE ObjectReaderProofs -------------------------
(***************************************************************************)
(* Proofs about ObjectReader.                                              *)
(***************************************************************************)
EXTENDS ObjectReader, FiniteSetTheorems, TLAPS

-----------------------------------------------------------------------------
(* Arithmetic.                                                             *)

\* Division that rounds up.
LEMMA CeilDiv ==
  ASSUME NEW n \in Nat, NEW w \in Nat \ {0}
  PROVE  LET q == (n + w - 1) \div w
         IN  q \in Nat /\ n <= q * w /\ q * w < n + w
<1> DEFINE q == (n + w - 1) \div w
<1>1. q \in Int /\ w * q <= n + w - 1 /\ n + w - 1 < w * q + w
  OBVIOUS
<1>2. q \in Nat
  BY <1>1
<1> HIDE DEF q
<1>3. w * q = q * w /\ w * q \in Int
  BY <1>2
<1>4. q \in Nat /\ n <= q * w /\ q * w < n + w
  BY <1>1, <1>2, <1>3
<1> QED BY <1>4 DEF q

\* Quotient and remainder.
LEMMA DivMod ==
  ASSUME NEW y \in Nat, NEW n \in Nat \ {0}
  PROVE  /\ y \div n \in Nat
         /\ y % n \in 0 .. n - 1
         /\ (y \div n) * n + (y % n) = y
<1>1. y \div n \in Int /\ n * (y \div n) <= y /\ y < n * (y \div n) + n
  OBVIOUS
<1>2. y % n \in 0 .. n - 1 /\ y = n * (y \div n) + (y % n)
  OBVIOUS
<1>3. y \div n \in Nat
  BY <1>1
<1> QED BY <1>1, <1>2, <1>3

\* Multiples are ordered as their factors.
LEMMA Multiples ==
  ASSUME NEW a \in Nat, NEW b \in Nat, NEW w \in Nat \ {0}
  PROVE  /\ a * w \in Nat
         /\ (a + 1) * w = a * w + w
         /\ a <= b => a * w <= b * w
         /\ a * w < b * w => a < b
  OBVIOUS

\* The smaller of two numbers.
LEMMA MinOfTwo ==
  ASSUME NEW a \in Int, NEW b \in Int
  PROVE  Min({a, b}) = IF a <= b THEN a ELSE b
<1> DEFINE m == IF a <= b THEN a ELSE b
<1>1. m \in {a, b} /\ \A y \in {a, b} : m =< y
  OBVIOUS
<1>2. \A x \in {a, b} : (\A y \in {a, b} : x =< y) => x = m
  OBVIOUS
<1> HIDE DEF m
<1>3. Min({a, b}) = m
  BY <1>1, <1>2 DEF Min
<1> QED BY <1>3 DEF m

\* The greatest number of an interval that begins with 0.
LEMMA MaxOfInterval ==
  ASSUME NEW n \in Nat
  PROVE  Max(0 .. n) = n
<1>1. n \in 0 .. n /\ \A y \in 0 .. n : n >= y
  OBVIOUS
<1>2. \A x \in 0 .. n : (\A y \in 0 .. n : x >= y) => x = n
  OBVIOUS
<1> QED BY <1>1, <1>2 DEF Max

\* The second part of a concatenation.
LEMMA ConcatTail ==
  ASSUME NEW u \in Seq(Int), NEW v \in Seq(Int), NEW i \in 1 .. Len(v)
  PROVE  (u \o v)[Len(u) + i] = v[i]
  OBVIOUS

\* Appending the numbers after p to the numbers up to p.
LEMMA AppendRun ==
  ASSUME NEW p \in Nat, NEW n \in Nat, NEW u \in Seq(Int),
         Len(u) = p, u = [i \in 1 .. Len(u) |-> i]
  PROVE  LET v == u \o [x \in 1 .. n |-> p + x]
         IN  /\ v \in Seq(Int) /\ Len(v) = p + n
             /\ v = [i \in 1 .. Len(v) |-> i]
<1> DEFINE add == [x \in 1 .. n |-> p + x]
           v   == u \o add
<1>1. add \in Seq(Int) /\ Len(add) = n
  OBVIOUS
<1>2. \A x \in 1 .. n : add[x] = p + x
  OBVIOUS
<1> HIDE DEF add
<1>3. v \in Seq(Int) /\ Len(v) = p + n
  BY <1>1
<1>4. ASSUME NEW i \in 1 .. p + n PROVE v[i] = i
  <2>1. CASE i <= p
    <3>1. v[i] = u[i]
      BY <1>1, <2>1
    <3> QED BY <2>1, <3>1
  <2>2. CASE i > p
    <3>1. PICK x \in 1 .. n : i = p + x
      <4>1. i - p \in 1 .. n /\ i = p + (i - p)
        BY <2>2
      <4> QED BY <4>1
    <3>2. v[i] = add[x]
      BY <1>1, <3>1, ConcatTail
    <3>3. add[x] = p + x
      BY <1>2
    <3> HIDE DEF v
    <3> QED BY <3>1, <3>2, <3>3
  <2>3. i <= p \/ i > p
    OBVIOUS
  <2> HIDE DEF v
  <2> QED BY <2>1, <2>2, <2>3
<1> HIDE DEF v
<1>5. v = [i \in 1 .. Len(v) |-> v[i]]
  BY <1>3
<1>6. v = [i \in 1 .. Len(v) |-> i]
  BY <1>3, <1>4, <1>5
<1> QED BY <1>3, <1>6 DEF v, add

-----------------------------------------------------------------------------
(* The inductive invariant.                                                *)

\* The object is one some server stored; of its shards finitely many are lost.
Basic ==
  /\ wr \in Configs /\ rd \in Configs /\ length \in Sizes
  /\ lost \subseteq Stored /\ IsFiniteSet(lost)

\* The part of stripe s that precedes its end: its bytes.
BytesOf(s) == [x \in 1 .. StripeLen(s) |-> s * wr.stripe + x]

\* While every stripe shows, GetObject counts them all, and its size is right
\* where SizeIsExact promises it.
Counted ==
  EveryStripeShows /\ status \in {"open", "eof"} =>
    /\ total = StripeCount
    /\ rd.stripe = wr.stripe \/ StripeCount <= 1 => size = length

\* Where the reader is: at the beginning of a stripe with an empty buffer,
\* inside the stripe that is in the buffer, or behind the last one.
AtStripe ==
  \/ /\ stripeIdx \in 0 .. StripeCount - 1
     /\ buf = << >> /\ off = 0 /\ Len(out) = stripeIdx * wr.stripe
  \/ /\ stripeIdx \in 0 .. StripeCount - 1
     /\ buf = BytesOf(stripeIdx) /\ off \in 1 .. StripeLen(stripeIdx) - 1
     /\ Len(out) = stripeIdx * wr.stripe + off
  \/ stripeIdx = StripeCount /\ Len(out) = length /\ buf = << >> /\ off = 0

\* What the caller has got, as long as the reader can decode.
Progress ==
  Decodable => /\ out \in Seq(Int) /\ out = [i \in 1 .. Len(out) |-> i]
               /\ AtStripe
               /\ status = "closed" => stripeIdx = 0 /\ buf = << >> /\ out = << >>
               /\ status = "eof" => stripeIdx = StripeCount

Inv == Basic /\ Counted /\ Progress /\ RestartKeepsAvailability

-----------------------------------------------------------------------------
(* Stripes.                                                                *)

\* The numbers of a configuration.
LEMMA ConfigFacts ==
  ASSUME Basic
  PROVE  /\ wr.k \in Nat \ {0} /\ wr.m \in Nat \ {0} /\ wr.stripe \in Nat \ {0}
         /\ rd.k \in Nat \ {0} /\ rd.m \in Nat \ {0} /\ rd.stripe \in Nat \ {0}
         /\ length \in Nat
<1>1. ASSUME NEW c \in Configs
      PROVE  c.k \in Nat \ {0} /\ c.m \in Nat \ {0} /\ c.stripe \in Nat \ {0}
  <2>1. c \in [k : Nat, m : Nat, stripe : Nat \ {0}] /\ NewOK(c.k, c.m)
    BY ReaderAssumption
  <2> QED BY <2>1 DEF NewOK
<1> QED BY <1>1, ReaderAssumption DEF Basic

\* Every stripe has bytes, all but the last are full, and the last one ends
\* where the object ends.
LEMMA StripeFacts ==
  ASSUME Basic
  PROVE  /\ StripeCount \in Nat
         /\ StripeCount = 0 => length = 0
         /\ \A s \in 0 .. StripeCount - 1 :
              /\ StripeLen(s) \in 1 .. wr.stripe
              /\ s * wr.stripe \in Nat
              /\ (s + 1) * wr.stripe = s * wr.stripe + wr.stripe
              /\ s * wr.stripe + StripeLen(s) <= length
              /\ s + 1 < StripeCount => StripeLen(s) = wr.stripe
              /\ s + 1 = StripeCount => s * wr.stripe + StripeLen(s) = length
<1> DEFINE w == wr.stripe
           S == StripeCount
<1>1. w \in Nat \ {0} /\ length \in Nat
  BY ConfigFacts
<1>2. S \in Nat /\ length <= S * w /\ S * w < length + w
  BY <1>1, CeilDiv DEF StripeCount
<1>3. S = 0 => length = 0
  BY <1>1, <1>2
<1>4. ASSUME NEW s \in 0 .. S - 1
      PROVE  /\ StripeLen(s) \in 1 .. w
             /\ s * w \in Nat
             /\ (s + 1) * w = s * w + w
             /\ s * w + StripeLen(s) <= length
             /\ s + 1 < S => StripeLen(s) = w
             /\ s + 1 = S => s * w + StripeLen(s) = length
  <2> HIDE DEF S, w
  <2>1. s \in Nat /\ s + 1 \in Nat /\ s + 1 <= S
    BY <1>2
  <2>2. s * w \in Nat /\ (s + 1) * w = s * w + w /\ (s + 1) * w <= S * w
    BY <1>1, <1>2, <2>1, Multiples
  <2>3. s + 1 < S => (s + 1) * w + w <= S * w
    <3>1. SUFFICES ASSUME s + 1 < S PROVE (s + 1) * w + w <= S * w
      OBVIOUS
    <3>2. (s + 1) + 1 \in Nat /\ (s + 1) + 1 <= S
      BY <1>2, <2>1, <3>1
    <3>3. ((s + 1) + 1) * w <= S * w /\ ((s + 1) + 1) * w = (s + 1) * w + w
      BY <1>1, <1>2, <2>1, <3>2, Multiples
    <3> QED BY <3>3
  <2>4. S * w \in Nat
    BY <1>1, <1>2
  <2> DEFINE b == s * w
             e == S * w
  <2>5. b \in Nat /\ e \in Nat /\ length <= e /\ e < length + w /\ b + w <= e
    BY <1>2, <2>2, <2>4
  <2>6. s + 1 < S => b + w + w <= e
    BY <2>2, <2>3
  <2>7. s + 1 = S => b + w = e
    BY <2>2
  <2>8. StripeLen(s) = IF w <= length - b THEN w ELSE length - b
    BY <1>1, <2>5, MinOfTwo DEF StripeLen, w
  <2> HIDE DEF b, e
  <2>9. /\ StripeLen(s) \in 1 .. w
        /\ b + StripeLen(s) <= length
        /\ s + 1 < S => StripeLen(s) = w
        /\ s + 1 = S => b + StripeLen(s) = length
    BY <1>1, <2>5, <2>6, <2>7, <2>8
  <2> QED BY <2>2, <2>9 DEF b
<1> QED BY <1>2, <1>3, <1>4

\* The payloads of k shards hold their stripe.
LEMMA ShardFacts ==
  ASSUME Basic, NEW s \in 0 .. StripeCount - 1
  PROVE  LET n == SplitSize(StripeLen(s), wr.k)
         IN  n \in Nat \ {0} /\ StripeLen(s) <= wr.k * n
<1> DEFINE n == SplitSize(StripeLen(s), wr.k)
<1>1. StripeLen(s) \in Nat \ {0} /\ wr.k \in Nat \ {0}
  BY StripeFacts, ConfigFacts
<1>2. n \in Nat /\ StripeLen(s) <= n * wr.k
  BY <1>1, CeilDiv DEF SplitSize
<1> HIDE DEF n
<1>3. n # 0 /\ n * wr.k = wr.k * n
  BY <1>1, <1>2
<1> QED BY <1>2, <1>3 DEF n

\* Where the load succeeds it gives the bytes of the stripe, also when the
\* reader has another k, in which case no shard is decoded.
LEMMA LoadedBytes ==
  ASSUME Basic, Decodable, NEW s \in 0 .. StripeCount - 1, LoadError(s) = "none"
  PROVE  Loaded(s) = BytesOf(s)
<1> DEFINE n == SplitSize(StripeLen(s), wr.k)
           N == rd.k * n
           len == StripeLen(s)
<1>1. /\ n \in Nat \ {0} /\ len <= wr.k * n /\ len \in Nat \ {0}
      /\ wr.k \in Nat \ {0} /\ rd.k \in Nat \ {0} /\ rd.m \in Nat /\ wr.m \in Nat
  BY ShardFacts, StripeFacts, ConfigFacts
<1>2. N \in Nat
  BY <1>1
<1>3. Joined(s) = [x \in 1 .. N |-> Whole(s)[(x - 1) \div n][((x - 1) % n) + 1]]
  BY DEF Joined
<1>4. Len(Joined(s)) = N
  BY <1>2, <1>3
<1>5. len <= N
  BY <1>1, <1>2, <1>4 DEF LoadError, HeaderLen
<1>6. ASSUME NEW x \in 1 .. len
      PROVE  Joined(s)[x] = s * wr.stripe + x
  <2> DEFINE j == (x - 1) \div n
             r == (x - 1) % n
  <2>1. j \in Nat /\ r \in 0 .. n - 1 /\ j * n + r = x - 1
    <3>1. x - 1 \in Nat
      BY <1>1
    <3> HIDE DEF n, len
    <3> QED BY <1>1, <3>1, DivMod
  <2>2. Joined(s)[x] = Whole(s)[j][r + 1]
    BY <1>3, <1>5, <1>2, <1>1
  <2> HIDE DEF j, r
  <2>3. j * n < wr.k * n /\ j * n < rd.k * n
    <3>1. j * n \in Nat
      BY <2>1, <1>1
    <3>2. wr.k * n \in Nat
      BY <1>1
    <3> QED BY <3>1, <3>2, <2>1, <1>1, <1>2, <1>5
  <2>4. j < wr.k /\ j < rd.k
    BY <1>1, <2>1, <2>3, Multiples
  <2>5. rd.k = wr.k \/ j \in Valid(s)
    <3>1. CASE rd.k = wr.k
      BY <3>1
    <3>2. CASE lost = {}
      <4>1. <<s, j>> \in Stored
        BY <1>1, <2>1, <2>4 DEF Stored
      <4> QED BY <1>1, <2>1, <2>4, <3>2, <4>1 DEF Valid, ShardCount
    <3> QED BY <3>1, <3>2 DEF Decodable
  <2>6. Whole(s)[j] = Payload(s, j)
    BY <1>1, <2>1, <2>4, <2>5 DEF Whole
  <2>7. Payload(s, j)[r + 1] = s * wr.stripe + j * n + (r + 1)
    <3>1. r + 1 \in 1 .. n /\ j * n + (r + 1) = x /\ x <= len
      <4> DEFINE jn == j * n
      <4> HIDE DEF n, len
      <4>1. jn \in Nat
        BY <1>1, <2>1
      <4>2. jn + r = x - 1
        BY <2>1
      <4> HIDE DEF jn
      <4>3. jn + (r + 1) = x /\ r + 1 \in 1 .. n /\ x <= len
        BY <1>1, <2>1, <4>1, <4>2
      <4> QED BY <4>3 DEF jn
    <3> QED BY <1>1, <2>1, <2>4, <3>1 DEF Payload
  <2>8. s * wr.stripe \in Nat /\ j * n \in Nat
    BY <1>1, <2>1, StripeFacts
  <2> QED BY <2>1, <2>2, <2>6, <2>7, <2>8
<1>7. Loaded(s) = [x \in 1 .. len |-> Joined(s)[x]]
  <2>1. Loaded(s) = SubSeq(Joined(s), 1, len)
    BY DEF Loaded, HeaderLen
  <2>2. SubSeq(Joined(s), 1, len) = [x \in 1 .. len |-> Joined(s)[x]]
    BY <1>1
  <2> QED BY <2>1, <2>2
<1> QED BY <1>6, <1>7 DEF BytesOf

-----------------------------------------------------------------------------
(* Losses.                                                                 *)

\* Of the first M shards of a stripe all but the lost ones are there.
LEMMA Remaining ==
  ASSUME Basic, NEW s, NEW M \in Nat
  PROVE  LET P == {j \in 0 .. M - 1 : <<s, j>> \notin lost}
         IN  /\ IsFiniteSet(P) /\ Cardinality(P) \in Nat
             /\ Cardinality(LostIn(s)) \in Nat
             /\ Cardinality(P) + Cardinality(LostIn(s)) >= M
<1> DEFINE A == 0 .. M - 1
           D == {j \in A : <<s, j>> \in lost}
           P == {j \in A : <<s, j>> \notin lost}
           f == [j \in D |-> <<s, j>>]
<1>1. IsFiniteSet(A) /\ Cardinality(A) = M
  BY FS_Interval
<1>2. IsFiniteSet(LostIn(s)) /\ Cardinality(LostIn(s)) \in Nat
  <2>1. LostIn(s) \in SUBSET lost /\ IsFiniteSet(lost)
    BY DEF LostIn, Basic
  <2> QED BY <2>1, FS_Subset, FS_CardinalityType
<1>3. f \in Injection(D, LostIn(s))
  <2>1. f \in [D -> LostIn(s)]
    BY DEF LostIn
  <2>2. \A a, b \in D : f[a] = f[b] => a = b
    OBVIOUS
  <2> QED BY <2>1, <2>2 DEF Injection, IsInjective
<1>4. Cardinality(D) <= Cardinality(LostIn(s))
  BY <1>2, <1>3, FS_Injection
<1>5. IsFiniteSet(D) /\ Cardinality(D) \in Nat
  BY <1>2, <1>3, FS_Injection, FS_CardinalityType
<1>6. IsFiniteSet(A \ D) /\ Cardinality(A \ D) = Cardinality(A) - Cardinality(A \cap D)
  BY <1>1, FS_Difference
<1>7. A \ D = P /\ A \cap D = D
  OBVIOUS
<1>8. IsFiniteSet(P) /\ Cardinality(P) \in Nat
  BY <1>6, <1>7, FS_CardinalityType
<1> HIDE DEF A, D, P
<1>9. Cardinality(P) + Cardinality(LostIn(s)) >= M
  BY <1>1, <1>2, <1>4, <1>5, <1>6, <1>7, <1>8
<1> QED BY <1>2, <1>8, <1>9 DEF A, P

\* The premise of RestartKeepsAvailability.
WithinParity ==
  rd.k = wr.k /\ \A s \in 0 .. StripeCount - 1 :
                   Cardinality(LostIn(s)) <= Min({wr.m, rd.m})

\* Within the parity the reader can decode, and every stripe has k shards.
LEMMA ParityFacts ==
  ASSUME Basic, WithinParity
  PROVE  /\ Decodable
         /\ \A s \in 0 .. StripeCount - 1 : ~TooFew(s) /\ LoadError(s) = "none"
<1>1. /\ wr.k \in Nat \ {0} /\ wr.m \in Nat /\ rd.m \in Nat
      /\ rd.k = wr.k /\ StripeCount \in Nat
  BY ConfigFacts, StripeFacts DEF WithinParity
<1> DEFINE mm == IF wr.m <= rd.m THEN wr.m ELSE rd.m
<1>2. Min({wr.m, rd.m}) = mm
  BY <1>1, MinOfTwo
<1>3. ASSUME NEW s \in 0 .. StripeCount - 1
      PROVE  Cardinality(LostIn(s)) < wr.k + wr.m /\ ~TooFew(s) /\ LoadError(s) = "none"
  <2> DEFINE M == wr.k + mm
             P == {j \in 0 .. M - 1 : <<s, j>> \notin lost}
  <2>1. M \in Nat
    BY <1>1
  <2>2. /\ IsFiniteSet(P) /\ Cardinality(P) \in Nat /\ Cardinality(LostIn(s)) \in Nat
        /\ Cardinality(P) + Cardinality(LostIn(s)) >= M
    BY <2>1, Remaining
  <2>3. Cardinality(LostIn(s)) <= mm
    BY <1>2 DEF WithinParity
  <2>4. P \in SUBSET Valid(s)
    <3>1. SUFFICES ASSUME NEW j \in P PROVE j \in Valid(s)
      OBVIOUS
    <3>2. j \in 0 .. M - 1 /\ <<s, j>> \notin lost
      OBVIOUS
    <3>3. j \in 0 .. rd.k + rd.m - 1 /\ j \in 0 .. wr.k + wr.m - 1
      BY <1>1, <3>2
    <3>4. <<s, j>> \in Stored
      BY <1>1, <3>3 DEF Stored
    <3>5. j \in 0 .. ShardCount - 1
      BY <1>1, <3>3 DEF ShardCount
    <3> QED BY <3>2, <3>4, <3>5 DEF Valid
  <2>5. IsFiniteSet(Valid(s))
    <3>1. ShardCount - 1 \in Int
      BY ConfigFacts DEF ShardCount
    <3>2. IsFiniteSet(0 .. ShardCount - 1)
      BY <3>1, FS_Interval
    <3> QED BY <3>2, FS_Subset DEF Valid
  <2>6. Cardinality(P) <= Cardinality(Valid(s)) /\ Cardinality(Valid(s)) \in Nat
    BY <2>4, <2>5, FS_Subset, FS_CardinalityType
  <2> HIDE DEF P
  <2>7. Cardinality(LostIn(s)) < wr.k + wr.m /\ ~TooFew(s)
    BY <1>1, <2>2, <2>3, <2>6 DEF TooFew
  <2>8. ~(Len(Joined(s)) < HeaderLen(s))
    <3> DEFINE n == SplitSize(StripeLen(s), wr.k)
               N == rd.k * n
    <3>1. n \in Nat /\ StripeLen(s) <= wr.k * n /\ StripeLen(s) \in Nat
      BY ShardFacts, StripeFacts
    <3>2. N \in Nat /\ StripeLen(s) <= N
      BY <1>1, <3>1
    <3>3. Joined(s) = [x \in 1 .. N |-> Whole(s)[(x - 1) \div n][((x - 1) % n) + 1]]
      BY DEF Joined
    <3>4. Len(Joined(s)) = N
      BY <3>2, <3>3
    <3> HIDE DEF N
    <3> QED BY <3>1, <3>2, <3>4 DEF HeaderLen
  <2> QED BY <2>7, <2>8 DEF LoadError
<1> QED BY <1>1, <1>3 DEF Decodable, EveryStripeShows

\* A stripe that shows has a shard on disk.
LEMMA ShardThere ==
  ASSUME Basic, EveryStripeShows, NEW s \in 0 .. StripeCount - 1
  PROVE  \E j : <<s, j>> \in Stored \ lost
<1> DEFINE M == wr.k + wr.m
           P == {j \in 0 .. M - 1 : <<s, j>> \notin lost}
<1>1. M \in Nat
  BY ConfigFacts
<1>2. /\ IsFiniteSet(P) /\ Cardinality(P) \in Nat /\ Cardinality(LostIn(s)) \in Nat
      /\ Cardinality(P) + Cardinality(LostIn(s)) >= M
  BY <1>1, Remaining
<1>3. Cardinality(LostIn(s)) < M
  BY DEF EveryStripeShows
<1>4. P # {}
  <2>1. Cardinality(P) # 0
    <3> HIDE DEF P, M
    <3> QED BY <1>1, <1>2, <1>3
  <2> QED BY <1>2, <2>1, FS_EmptySet
<1>5. PICK j \in 0 .. M - 1 : <<s, j>> \notin lost
  BY <1>4
<1>6. <<s, j>> \in Stored
  BY <1>1, <1>5, ConfigFacts, StripeFacts DEF Stored
<1> QED BY <1>5, <1>6

\* What GetObject finds while every stripe shows: all of them.
LEMMA StripesThere ==
  ASSUME Basic, EveryStripeShows
  PROVE  {k[1] : k \in Stored \ lost} = 0 .. StripeCount - 1
<1>1. ASSUME NEW s \in 0 .. StripeCount - 1 PROVE s \in {k[1] : k \in Stored \ lost}
  <2>1. PICK j : <<s, j>> \in Stored \ lost
    BY ShardThere
  <2>2. <<s, j>>[1] = s
    OBVIOUS
  <2> QED BY <2>1, <2>2
<1>2. ASSUME NEW k \in Stored \ lost PROVE k[1] \in 0 .. StripeCount - 1
  BY DEF Stored
<1> QED BY <1>1, <1>2

-----------------------------------------------------------------------------
(* Steps.                                                                  *)

\* A step changes neither the object nor the configurations, and loses shards
\* but never brings one back.
LEMMA StepFacts ==
  ASSUME Basic, [Next]_vars
  PROVE  /\ wr' = wr /\ rd' = rd /\ length' = length
         /\ StripeCount' = StripeCount /\ Stored' = Stored
         /\ lost \subseteq lost'
         /\ Basic'
<1>1. /\ wr' = wr /\ rd' = rd /\ length' = length
      /\ lost' = lost \/ \E x \in Stored : lost' = lost \cup {<<x[1], x[2]>>}
                                           /\ <<x[1], x[2]>> \in Stored
  BY DEF Next, Open, Read, Lose, vars, object
<1>2. StripeCount' = StripeCount
  BY <1>1 DEF StripeCount
<1>3. Stored' = Stored
  BY <1>1, <1>2 DEF Stored
<1>4. lost \subseteq lost' /\ lost' \subseteq Stored /\ IsFiniteSet(lost')
  BY <1>1, FS_AddElement DEF Basic
<1> QED BY <1>1, <1>2, <1>3, <1>4 DEF Basic

\* So what holds of the losses after a step held before it.
LEMMA LossesGrow ==
  ASSUME Basic, [Next]_vars
  PROVE  /\ EveryStripeShows' => EveryStripeShows
         /\ Decodable' => Decodable
         /\ WithinParity' => WithinParity
<1>1. ASSUME NEW s
      PROVE  /\ Cardinality(LostIn(s)) <= Cardinality(LostIn(s)')
             /\ Cardinality(LostIn(s)) \in Nat /\ Cardinality(LostIn(s)') \in Nat
  <2>1. LostIn(s)' = {k \in lost' : k[1] = s} /\ LostIn(s) = {k \in lost : k[1] = s}
    BY DEF LostIn
  <2>2. IsFiniteSet(lost') /\ lost \subseteq lost'
    BY StepFacts DEF Basic
  <2>3. LostIn(s)' \in SUBSET lost' /\ LostIn(s) \in SUBSET LostIn(s)'
    BY <2>1, <2>2
  <2>4. IsFiniteSet(LostIn(s)')
    BY <2>2, <2>3, FS_Subset
  <2> QED BY <2>3, <2>4, FS_Subset, FS_CardinalityType
<1>2. /\ wr' = wr /\ rd' = rd /\ StripeCount' = StripeCount /\ lost \subseteq lost'
  BY StepFacts
<1>3. EveryStripeShows' => EveryStripeShows
  <2>1. SUFFICES ASSUME EveryStripeShows', NEW s \in 0 .. StripeCount - 1
                 PROVE  Cardinality(LostIn(s)) < wr.k + wr.m
    BY DEF EveryStripeShows
  <2>2. Cardinality(LostIn(s)') < wr.k + wr.m
    BY <1>2, <2>1 DEF EveryStripeShows
  <2> QED BY <1>1, <2>2, ConfigFacts
<1>4. WithinParity' => WithinParity
  <2>1. SUFFICES ASSUME WithinParity', NEW s \in 0 .. StripeCount - 1
                 PROVE  rd.k = wr.k /\ Cardinality(LostIn(s)) <= Min({wr.m, rd.m})
    BY <1>2 DEF WithinParity
  <2>2. rd.k = wr.k /\ Cardinality(LostIn(s)') <= Min({wr.m, rd.m})
    BY <1>2, <2>1 DEF WithinParity
  <2>3. Min({wr.m, rd.m}) \in Nat
    BY ConfigFacts, MinOfTwo
  <2> QED BY <1>1, <2>2, <2>3
<1> QED BY <1>2, <1>3, <1>4 DEF Decodable

\* What a Read that copies b bytes from the stripe in the buffer leaves.
LEMMA CopyKeeps ==
  ASSUME Basic, wr' = wr, length' = length,
         out \in Seq(Int), out = [i \in 1 .. Len(out) |-> i],
         stripeIdx \in 0 .. StripeCount - 1,
         NEW o \in 0 .. StripeLen(stripeIdx) - 1,
         Len(out) = stripeIdx * wr.stripe + o,
         NEW b \in Nat \ {0}, Copy(BytesOf(stripeIdx), o, b)
  PROVE  out' \in Seq(Int) /\ out' = [i \in 1 .. Len(out') |-> i] /\ AtStripe'
<1> DEFINE len  == StripeLen(stripeIdx)
           base == stripeIdx * wr.stripe
           full == BytesOf(stripeIdx)
           n    == IF b <= len - o THEN b ELSE len - o
<1>1. /\ StripeCount \in Nat /\ wr.stripe \in Nat \ {0} /\ length \in Nat
      /\ base \in Nat /\ len \in 1 .. wr.stripe
      /\ (stripeIdx + 1) * wr.stripe = base + wr.stripe
      /\ stripeIdx + 1 < StripeCount => len = wr.stripe
      /\ stripeIdx + 1 = StripeCount => base + len = length
  BY StripeFacts, ConfigFacts
<1>2. full = [x \in 1 .. len |-> base + x]
  BY DEF BytesOf
<1>3. Len(full) = len /\ full \in Seq(Int)
  <2> HIDE DEF len, base, full
  <2>1. len \in Nat /\ \A x \in 1 .. len : base + x \in Int
    BY <1>1
  <2> QED BY <1>2, <2>1
<1>4. n \in 1 .. len - o
  BY <1>1
<1>5. Min({b, Len(full) - o}) = n
  <2>1. len - o \in Int /\ b \in Int
    BY <1>1
  <2> HIDE DEF len, base, full
  <2> QED BY <1>3, <2>1, MinOfTwo
<1> HIDE DEF n
<1>6. /\ out' = out \o SubSeq(full, o + 1, o + n)
      /\ \/ o + n = len /\ stripeIdx' = stripeIdx + 1 /\ buf' = << >> /\ off' = 0
         \/ o + n # len /\ buf' = full /\ off' = o + n /\ stripeIdx' = stripeIdx
  <2> HIDE DEF len, full
  <2> QED BY <1>3, <1>5 DEF Copy, full
<1>7. SubSeq(full, o + 1, o + n) = [x \in 1 .. n |-> base + o + x]
  <2>1. SubSeq(full, o + 1, o + n) = [x \in 1 .. n |-> full[x + o]]
    <3> HIDE DEF len, base, full
    <3> QED BY <1>1, <1>3, <1>4
  <2>2. \A x \in 1 .. n : full[x + o] = base + o + x
    <3> HIDE DEF len, base, full
    <3> QED BY <1>1, <1>2, <1>4
  <2> QED BY <2>1, <2>2
<1>8. /\ out' \in Seq(Int) /\ Len(out') = base + o + n
      /\ out' = [i \in 1 .. Len(out') |-> i]
  <2> HIDE DEF len, base, full
  <2>1. base + o \in Nat /\ n \in Nat /\ Len(out) = base + o
    BY <1>1, <1>4 DEF base
  <2>2. out' = out \o [x \in 1 .. n |-> (base + o) + x]
    BY <1>6, <1>7
  <2> QED BY <2>1, <2>2, AppendRun
<1>9. /\ StripeCount' = StripeCount
      /\ StripeLen(stripeIdx)' = StripeLen(stripeIdx')
      /\ BytesOf(stripeIdx)' = BytesOf(stripeIdx')
  BY DEF StripeCount, StripeLen, BytesOf
<1>10. CASE o + n = len
  <2>1. stripeIdx' = stripeIdx + 1 /\ buf' = << >> /\ off' = 0
    BY <1>6, <1>10
  <2>2. Len(out') = base + len
    <3> HIDE DEF base, len
    <3> QED BY <1>1, <1>4, <1>8, <1>10
  <2>3. CASE stripeIdx + 1 < StripeCount
    <3>1. Len(out') = stripeIdx' * wr'.stripe
      BY <1>1, <2>1, <2>2, <2>3
    <3>2. stripeIdx' \in 0 .. StripeCount' - 1
      BY <1>1, <1>9, <2>1, <2>3
    <3> QED BY <1>8, <2>1, <3>1, <3>2 DEF AtStripe
  <2>4. CASE stripeIdx + 1 = StripeCount
    <3>1. Len(out') = length' /\ stripeIdx' = StripeCount'
      BY <1>1, <1>9, <2>1, <2>2, <2>4
    <3> QED BY <1>8, <2>1, <3>1 DEF AtStripe
  <2> QED BY <1>1, <2>3, <2>4
<1>11. CASE o + n # len
  <2>1. buf' = full /\ off' = o + n /\ stripeIdx' = stripeIdx
    BY <1>6, <1>11
  <2>2. off' \in 1 .. len - 1 /\ Len(out') = base + off'
    <3> HIDE DEF base, len
    <3> QED BY <1>1, <1>4, <1>8, <1>11, <2>1
  <2>3. /\ buf' = BytesOf(stripeIdx)' /\ off' \in 1 .. StripeLen(stripeIdx)' - 1
        /\ Len(out') = stripeIdx' * wr'.stripe + off'
        /\ stripeIdx' \in 0 .. StripeCount' - 1
    BY <1>9, <2>1, <2>2
  <2> QED BY <1>8, <2>3 DEF AtStripe
<1> QED BY <1>10, <1>11

-----------------------------------------------------------------------------
(* Inv is an invariant.                                                    *)

\* Inv holds before GetObject.
LEMMA InitInv == Init => Inv
<1> SUFFICES ASSUME Init PROVE Inv
  OBVIOUS
<1>1. Basic
  BY FS_EmptySet DEF Init, Basic
<1>2. Counted /\ RestartKeepsAvailability
  BY DEF Init, Counted, RestartKeepsAvailability
<1>3. AtStripe
  <2>1. Len(out) = 0 /\ stripeIdx = 0 /\ 0 * wr.stripe = 0
    BY <1>1, ConfigFacts DEF Init
  <2>2. StripeCount \in Nat /\ (StripeCount = 0 => length = 0)
    BY <1>1, StripeFacts
  <2> QED BY <2>1, <2>2 DEF AtStripe, Init
<1>4. Progress
  BY <1>3 DEF Progress, Init
<1> QED BY <1>1, <1>2, <1>4 DEF Inv

\* A step that leaves the reader's locals alone keeps its place.
LEMMA PlaceKept ==
  ASSUME wr' = wr, length' = length, AtStripe,
         stripeIdx' = stripeIdx, buf' = buf, off' = off, out' = out
  PROVE  AtStripe'
  BY DEF AtStripe, BytesOf, StripeLen, StripeCount

\* GetObject.
LEMMA OpenInv == Inv /\ Open => Inv'
<1> SUFFICES ASSUME Inv, Open PROVE Inv'
  OBVIOUS
<1>1. Basic /\ [Next]_vars
  BY DEF Inv, Next
<1>2. /\ wr' = wr /\ rd' = rd /\ length' = length /\ StripeCount' = StripeCount /\ Basic'
      /\ lost' = lost /\ UNCHANGED <<stripeIdx, buf, off, out>> /\ status = "closed"
  BY <1>1, StepFacts DEF Open
<1>3. /\ EveryStripeShows' => EveryStripeShows
      /\ Decodable' => Decodable
      /\ WithinParity' => WithinParity
  BY <1>1, LossesGrow
<1> DEFINE there == {k[1] : k \in Stored \ lost}
           last  == Max(there)
<1>4. /\ there = {} => total' = 0 /\ size' = length /\ status' = "open"
      /\ there # {} /\ Valid(last) = {} => status' = "ErrUnrecoverable"
      /\ there # {} /\ Valid(last) # {} =>
           total' = last + 1 /\ size' = SizeUpTo(last) /\ status' = "open"
  BY DEF Open
<1>5. ASSUME EveryStripeShows
      PROVE  /\ StripeCount \in Nat
             /\ StripeCount = 0 => there = {} /\ length = 0
             /\ StripeCount # 0 => there # {} /\ last = StripeCount - 1
  <2>1. there = 0 .. StripeCount - 1 /\ StripeCount \in Nat
    BY <1>1, <1>5, StripesThere, StripeFacts
  <2>2. StripeCount = 0 => length = 0
    BY <1>1, StripeFacts
  <2>3. StripeCount # 0 => Max(0 .. StripeCount - 1) = StripeCount - 1
    BY <2>1, MaxOfInterval
  <2>4. /\ StripeCount = 0 => 0 .. StripeCount - 1 = {}
        /\ StripeCount # 0 => 0 .. StripeCount - 1 # {}
    BY <2>1
  <2> HIDE DEF there
  <2> QED BY <2>1, <2>2, <2>3, <2>4
<1>6. Counted'
  <2>1. SUFFICES ASSUME EveryStripeShows', status' \in {"open", "eof"}
                 PROVE  /\ total' = StripeCount
                        /\ rd.stripe = wr.stripe \/ StripeCount <= 1 => size' = length
    BY <1>2 DEF Counted
  <2>2. EveryStripeShows
    BY <1>3, <2>1
  <2>3. CASE StripeCount = 0
    BY <1>4, <1>5, <2>2, <2>3
  <2>4. CASE StripeCount # 0
    <3>1. total' = last + 1 /\ size' = SizeUpTo(last) /\ last = StripeCount - 1
      BY <1>4, <1>5, <2>1, <2>2, <2>4
    <3>2. StripeCount - 1 \in 0 .. StripeCount - 1 /\ (StripeCount - 1) + 1 = StripeCount
      BY <1>5, <2>2, <2>4
    <3>3. (StripeCount - 1) * wr.stripe + StripeLen(StripeCount - 1) = length
      BY <1>1, <3>2, StripeFacts
    <3>4. size' = (StripeCount - 1) * rd.stripe + StripeLen(StripeCount - 1)
      BY <3>1 DEF SizeUpTo, HeaderLen
    <3>5. StripeCount <= 1 => (StripeCount - 1) * rd.stripe = 0 /\ (StripeCount - 1) * wr.stripe = 0
      BY <1>1, <3>2, ConfigFacts
    <3> QED BY <3>1, <3>2, <3>3, <3>4, <3>5
  <2> QED BY <2>3, <2>4
<1>7. Progress'
  <2>1. SUFFICES ASSUME Decodable'
                 PROVE  /\ out' \in Seq(Int) /\ out' = [i \in 1 .. Len(out') |-> i]
                        /\ AtStripe' /\ status' \notin {"closed", "eof"}
    BY DEF Progress
  <2>2. out \in Seq(Int) /\ out = [i \in 1 .. Len(out) |-> i] /\ AtStripe
    BY <1>3, <2>1 DEF Inv, Progress
  <2>3. AtStripe'
    BY <1>2, <2>2, PlaceKept
  <2>4. status' \notin {"closed", "eof"}
    BY <1>4
  <2> QED BY <1>2, <2>2, <2>3, <2>4
<1>8. RestartKeepsAvailability'
  <2>1. SUFFICES ASSUME WithinParity' PROVE status' \in {"closed", "open", "eof"}
    BY DEF RestartKeepsAvailability, WithinParity
  <2>2. WithinParity /\ Decodable /\ EveryStripeShows
    BY <1>1, <1>3, <2>1, ParityFacts DEF Decodable
  <2>3. CASE StripeCount = 0
    BY <1>4, <1>5, <2>2, <2>3
  <2>4. CASE StripeCount # 0
    <3>1. there # {} /\ last \in 0 .. StripeCount - 1
      BY <1>5, <2>2, <2>4
    <3>2. ~TooFew(last)
      BY <1>1, <2>2, <3>1, ParityFacts
    <3>3. Valid(last) # {}
      BY <1>1, <3>2, FS_EmptySet, ConfigFacts DEF TooFew
    <3> QED BY <1>4, <3>1, <3>3
  <2> QED BY <2>3, <2>4
<1> QED BY <1>2, <1>6, <1>7, <1>8 DEF Inv

\* A Read.
LEMMA ReadInv == ASSUME NEW b \in Buffers, Inv, Read(b) PROVE Inv'
<1>1. Basic /\ [Next]_vars /\ b \in Nat \ {0}
  BY ReaderAssumption DEF Inv, Next
<1>2. /\ wr' = wr /\ rd' = rd /\ length' = length /\ StripeCount' = StripeCount /\ Basic'
      /\ lost' = lost /\ total' = total /\ size' = size /\ status = "open"
  BY <1>1, StepFacts DEF Read
<1>3. /\ EveryStripeShows' => EveryStripeShows
      /\ Decodable' => Decodable
      /\ WithinParity' => WithinParity
  BY <1>1, LossesGrow
<1>4. Counted'
  BY <1>2, <1>3 DEF Inv, Counted
<1>5. ASSUME Decodable
      PROVE  /\ out \in Seq(Int) /\ out = [i \in 1 .. Len(out) |-> i] /\ AtStripe
             /\ total = StripeCount /\ StripeCount \in Nat
             /\ StripeLen(stripeIdx) \in Int
             /\ stripeIdx \in 0 .. StripeCount
  <2>1. out \in Seq(Int) /\ out = [i \in 1 .. Len(out) |-> i] /\ AtStripe
    BY <1>5 DEF Inv, Progress
  <2>2. total = StripeCount /\ StripeCount \in Nat
    BY <1>1, <1>2, <1>5, StripeFacts DEF Inv, Counted, Decodable
  <2>3. stripeIdx \in 0 .. StripeCount
    BY <2>1, <2>2 DEF AtStripe
  <2>4. StripeLen(stripeIdx) \in Int
    <3>1. stripeIdx * wr.stripe \in Int /\ wr.stripe \in Int /\ length \in Int
      BY <1>1, <2>2, <2>3, ConfigFacts
    <3> QED BY <3>1, MinOfTwo DEF StripeLen
  <2> QED BY <2>1, <2>2, <2>3, <2>4
<1>6. CASE stripeIdx >= total
  <2>1. status' = "eof" /\ UNCHANGED <<stripeIdx, buf, off, out>>
    BY <1>6 DEF Read, End
  <2>2. Progress'
    <3>1. SUFFICES ASSUME Decodable'
                   PROVE  /\ out' \in Seq(Int) /\ out' = [i \in 1 .. Len(out') |-> i]
                          /\ AtStripe' /\ stripeIdx' = StripeCount'
      BY <2>1 DEF Progress
    <3>2. Decodable
      BY <1>3, <3>1
    <3>3. AtStripe'
      BY <1>2, <1>5, <2>1, <3>2, PlaceKept
    <3>4. stripeIdx = StripeCount
      BY <1>5, <1>6, <3>2
    <3> QED BY <1>2, <1>5, <2>1, <3>2, <3>3, <3>4
  <2>3. RestartKeepsAvailability'
    BY <2>1 DEF RestartKeepsAvailability
  <2> QED BY <1>2, <1>4, <2>2, <2>3 DEF Inv
<1>7. CASE ~(stripeIdx >= total) /\ off # Len(buf)
  <2>1. Copy(buf, off, b) /\ status' = status
    BY <1>7 DEF Read, Copy
  <2>2. Progress'
    <3>1. SUFFICES ASSUME Decodable'
                   PROVE  /\ out' \in Seq(Int) /\ out' = [i \in 1 .. Len(out') |-> i]
                          /\ AtStripe'
      BY <1>2, <2>1 DEF Progress
    <3>2. Decodable
      BY <1>3, <3>1
    <3>3. /\ stripeIdx \in 0 .. StripeCount - 1
          /\ buf = BytesOf(stripeIdx) /\ off \in 1 .. StripeLen(stripeIdx) - 1
          /\ Len(out) = stripeIdx * wr.stripe + off
      BY <1>5, <1>7, <3>2 DEF AtStripe
    <3>4. off \in 0 .. StripeLen(stripeIdx) - 1
      BY <3>3
    <3>5. Copy(BytesOf(stripeIdx), off, b)
      BY <2>1, <3>3
    <3> QED BY <1>1, <1>2, <1>5, <3>2, <3>3, <3>4, <3>5, CopyKeeps
  <2>3. RestartKeepsAvailability'
    BY <1>2, <2>1 DEF RestartKeepsAvailability
  <2> QED BY <1>2, <1>4, <2>2, <2>3 DEF Inv
<1>8. CASE ~(stripeIdx >= total) /\ off = Len(buf) /\ LoadError(stripeIdx) # "none"
  <2>1. status' = LoadError(stripeIdx) /\ UNCHANGED <<stripeIdx, buf, off, out>>
    BY <1>8 DEF Read, End
  <2>2. status' \notin {"closed", "eof"}
    BY <2>1 DEF LoadError
  <2>3. Progress'
    <3>1. SUFFICES ASSUME Decodable'
                   PROVE  /\ out' \in Seq(Int) /\ out' = [i \in 1 .. Len(out') |-> i]
                          /\ AtStripe'
      BY <2>2 DEF Progress
    <3>2. Decodable
      BY <1>3, <3>1
    <3>3. AtStripe'
      BY <1>2, <1>5, <2>1, <3>2, PlaceKept
    <3> QED BY <1>5, <2>1, <3>2, <3>3
  <2>4. ~WithinParity'
    <3>1. SUFFICES ASSUME WithinParity' PROVE FALSE
      OBVIOUS
    <3>2. WithinParity /\ Decodable
      BY <1>1, <1>3, <3>1, ParityFacts
    <3>3. stripeIdx \in 0 .. StripeCount - 1
      BY <1>5, <1>8, <3>2
    <3> QED BY <1>1, <1>8, <3>2, <3>3, ParityFacts
  <2>5. RestartKeepsAvailability'
    BY <2>4 DEF RestartKeepsAvailability, WithinParity
  <2> QED BY <1>2, <1>4, <2>3, <2>5 DEF Inv
<1>9. CASE ~(stripeIdx >= total) /\ off = Len(buf) /\ LoadError(stripeIdx) = "none"
  <2>1. Copy(Loaded(stripeIdx), 0, b) /\ status' = status
    BY <1>9 DEF Read, Copy
  <2>2. Progress'
    <3>1. SUFFICES ASSUME Decodable'
                   PROVE  /\ out' \in Seq(Int) /\ out' = [i \in 1 .. Len(out') |-> i]
                          /\ AtStripe'
      BY <1>2, <2>1 DEF Progress
    <3>2. Decodable
      BY <1>3, <3>1
    <3>3. stripeIdx \in 0 .. StripeCount - 1
      BY <1>5, <1>9, <3>2
    <3>4. StripeLen(stripeIdx) \in Nat \ {0} /\ stripeIdx * wr.stripe \in Nat
      BY <1>1, <3>3, StripeFacts
    <3>5. buf # BytesOf(stripeIdx) \/ off \notin 1 .. StripeLen(stripeIdx) - 1
      <4>1. buf = BytesOf(stripeIdx) => Len(buf) = StripeLen(stripeIdx)
        BY <3>4 DEF BytesOf
      <4> QED BY <1>9, <3>4, <4>1
    <3>6. Len(out) = stripeIdx * wr.stripe
      BY <1>5, <3>2, <3>3, <3>5 DEF AtStripe
    <3>7. Copy(BytesOf(stripeIdx), 0, b)
      BY <1>1, <1>9, <2>1, <3>2, <3>3, LoadedBytes
    <3>8. 0 \in 0 .. StripeLen(stripeIdx) - 1 /\ Len(out) = stripeIdx * wr.stripe + 0
      BY <3>4, <3>6
    <3> QED BY <1>1, <1>2, <1>5, <3>2, <3>3, <3>7, <3>8, CopyKeeps
  <2>3. RestartKeepsAvailability'
    BY <1>2, <2>1 DEF RestartKeepsAvailability
  <2> QED BY <1>2, <1>4, <2>2, <2>3 DEF Inv
<1> QED BY <1>6, <1>7, <1>8, <1>9

\* A loss, and a step that changes nothing.
LEMMA LoseInv ==
  ASSUME Inv, [Next]_vars,
         UNCHANGED <<total, size, stripeIdx, buf, off, out, status>>
  PROVE  Inv'
<1>1. Basic
  BY DEF Inv
<1>2. /\ wr' = wr /\ rd' = rd /\ length' = length /\ StripeCount' = StripeCount /\ Basic'
  BY <1>1, StepFacts
<1>3. /\ EveryStripeShows' => EveryStripeShows
      /\ Decodable' => Decodable
      /\ WithinParity' => WithinParity
  BY <1>1, LossesGrow
<1>4. Counted'
  BY <1>2, <1>3 DEF Inv, Counted
<1>5. Progress'
  <2>1. SUFFICES ASSUME Decodable'
                 PROVE  /\ out' \in Seq(Int) /\ out' = [i \in 1 .. Len(out') |-> i]
                        /\ AtStripe'
                        /\ status' = "closed" => stripeIdx' = 0 /\ buf' = << >> /\ out' = << >>
                        /\ status' = "eof" => stripeIdx' = StripeCount'
    BY DEF Progress
  <2>2. /\ out \in Seq(Int) /\ out = [i \in 1 .. Len(out) |-> i]
        /\ AtStripe
        /\ status = "closed" => stripeIdx = 0 /\ buf = << >> /\ out = << >>
        /\ status = "eof" => stripeIdx = StripeCount
    BY <1>3, <2>1 DEF Inv, Progress
  <2>3. AtStripe'
    BY <1>2, <2>2, PlaceKept
  <2> QED BY <1>2, <2>2, <2>3
<1>6. RestartKeepsAvailability'
  <2>1. SUFFICES ASSUME WithinParity' PROVE status' \in {"closed", "open", "eof"}
    BY DEF RestartKeepsAvailability, WithinParity
  <2>2. WithinParity
    BY <1>3, <2>1
  <2> QED BY <2>2 DEF Inv, RestartKeepsAvailability, WithinParity
<1> QED BY <1>2, <1>4, <1>5, <1>6 DEF Inv

\* Every step preserves Inv.
LEMMA NextInv == Inv /\ [Next]_vars => Inv'
<1> SUFFICES ASSUME Inv, [Next]_vars PROVE Inv'
  OBVIOUS
<1>1. CASE Open
  BY <1>1, OpenInv
<1>2. ASSUME NEW b \in Buffers, Read(b) PROVE Inv'
  BY <1>2, ReadInv
<1>3. ASSUME NEW k \in Stored, Lose(k[1], k[2]) PROVE Inv'
  BY <1>3, LoseInv DEF Lose
<1>4. CASE UNCHANGED vars
  BY <1>4, LoseInv DEF vars
<1> QED BY <1>1, <1>2, <1>3, <1>4 DEF Next

-----------------------------------------------------------------------------
(* Theorems.                                                               *)

\* Spec keeps Inv.
LEMMA Invariance == Spec => []Inv
  BY InitInv, NextInv, PTL DEF Spec

\* What the caller of GetObject has read is a prefix of the object, and all of
\* it at EOF, for all sizes, schemes, stripe sizes and buffers and however
\* many shards are lost, as long as every stripe shows and the reader has the
\* writer's k or nothing is lost.
THEOREM StreamsArePrefixes == Spec => []StreamIsPrefix
<1>1. Inv => StreamIsPrefix
  <2>1. SUFFICES ASSUME Inv, Decodable
                 PROVE  /\ IsPrefix(out, [i \in 1 .. length |-> i])
                        /\ status = "eof" => Len(out) = length
    BY DEF StreamIsPrefix
  <2>2. Basic /\ length \in Nat /\ StripeCount \in Nat
    BY <2>1, ConfigFacts, StripeFacts DEF Inv
  <2>3. /\ out \in Seq(Int) /\ out = [i \in 1 .. Len(out) |-> i] /\ AtStripe
        /\ status = "eof" => stripeIdx = StripeCount
    BY <2>1 DEF Inv, Progress
  <2>4. Len(out) <= length /\ (stripeIdx = StripeCount => Len(out) = length)
    <3>1. CASE stripeIdx \in 0 .. StripeCount - 1
      <4>1. /\ StripeLen(stripeIdx) \in Nat /\ stripeIdx * wr.stripe \in Nat
            /\ stripeIdx * wr.stripe + StripeLen(stripeIdx) <= length
        BY <2>2, <3>1, StripeFacts
      <4>2. stripeIdx # StripeCount
        BY <2>2, <3>1
      <4>3. \/ Len(out) = stripeIdx * wr.stripe
            \/ /\ off \in 1 .. StripeLen(stripeIdx) - 1
               /\ Len(out) = stripeIdx * wr.stripe + off
        BY <2>3, <4>2 DEF AtStripe
      <4> QED BY <2>2, <4>1, <4>2, <4>3
    <3>2. CASE stripeIdx = StripeCount /\ Len(out) = length
      BY <2>2, <3>2
    <3> QED BY <2>3, <3>1, <3>2 DEF AtStripe
  <2>5. IsPrefix(out, [i \in 1 .. length |-> i])
    <3> DEFINE all == [i \in 1 .. length |-> i]
               n   == Len(out)
    <3>1. all \in Seq(Int) /\ Len(all) = length /\ n \in Nat
      BY <2>2, <2>3
    <3>2. SubSeq(all, 1, n) = [i \in 1 .. n |-> i]
      <4>1. SubSeq(all, 1, n) = [i \in 1 .. n |-> all[i]]
        <5> HIDE DEF all, n
        <5> QED BY <2>2, <3>1
      <4>2. \A i \in 1 .. n : all[i] = i
        BY <2>2, <2>4, <3>1
      <4> QED BY <4>1, <4>2
    <3>3. SubSeq(out, 1, n) = out
      BY <2>3
    <3> HIDE DEF all, n
    <3>4. n <= Len(all) /\ SubSeq(out, 1, n) = SubSeq(all, 1, n)
      BY <2>3, <2>4, <3>1, <3>2, <3>3 DEF n
    <3> QED BY <3>4 DEF IsPrefix, all, n
  <2> QED BY <2>3, <2>4, <2>5
<1> QED BY <1>1, Invariance, PTL

\* After a restart that keeps k, losses within the smaller m make neither
\* GetObject nor a Read fail.
THEOREM RestartsKeepAvailability == Spec => []RestartKeepsAvailability
<1>1. Inv => RestartKeepsAvailability
  BY DEF Inv
<1> QED BY <1>1, Invariance, PTL

\* GetObject returns the object's size if the stripe size was kept or the
\* object has one stripe, as long as every stripe shows.
THEOREM SizesAreExact == Spec => []SizeIsExact
<1>1. Inv => SizeIsExact
  BY DEF Inv, Counted, SizeIsExact
<1> QED BY <1>1, Invariance, PTL
=============================================================================
