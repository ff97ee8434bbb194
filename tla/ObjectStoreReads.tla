-------------------------- MODULE ObjectStoreReads --------------------------
(***************************************************************************)
(* What is acknowledged is what is read: ReadInv is inductive as long as   *)
(* damage changes no stripe length in a header and spares one shard of     *)
(* each stripe, so ReadExact holds for every value of the other constants; *)
(* with damage readers can count and no more of it than there is parity,   *)
(* ReadAvailable holds too.  AuthenticInv is inductive whatever damage is  *)
(* done, so BytesAuthentic always holds.                                   *)
(***************************************************************************)
EXTENDS ObjectStoreProofs

\* No header is changed into one that still decodes, and at least one shard
\* of each stripe is spared.
Spared == "length" \notin FaultKinds /\ FaultBudget < ShardCount

-----------------------------------------------------------------------------
(* Stripes, files and damage.                                              *)

\* The stripes of a content are an initial segment.
LEMMA StripeOrder ==
  ASSUME NEW c \in Contents, NEW s \in Nat, NEW t \in Nat, t <= s, HasStripe(c, s)
  PROVE  HasStripe(c, t)
  BY Multiples, StripeFacts DEF HasStripe

\* GetObject's size: whole stripes before the last one, and its length.
LEMMA LastStripe ==
  ASSUME NEW c \in Contents, NEW n \in Nat, IsCount(c, n)
  PROVE  (n - 1) * StripeSize + StripeLen(c, n - 1) = Size[c]
<1>1. n - 1 \in Nat /\ (n - 1) + 1 = n
  BY DEF IsCount
<1>2. n * StripeSize = (n - 1) * StripeSize + StripeSize /\ (n - 1) * StripeSize \in Nat
  BY <1>1, Multiples
<1>3. Size[c] \in Nat /\ (n - 1) * StripeSize < Size[c] /\ ~(n * StripeSize < Size[c])
  BY StripeFacts DEF IsCount, HasStripe
<1> DEFINE x == (n - 1) * StripeSize
<1>4. StripeLen(c, n - 1) = IF Size[c] - x < StripeSize THEN Size[c] - x ELSE StripeSize
  BY DEF StripeLen
<1> HIDE DEF x
<1>5. n * StripeSize = x + StripeSize /\ x \in Nat /\ x < Size[c] /\ n * StripeSize \in Nat
  BY <1>2, <1>3, Multiples DEF x
<1>6. x + StripeLen(c, n - 1) = Size[c]
  BY <1>3, <1>4, <1>5, StoreAssumption
<1> QED BY <1>6 DEF x

\* A file PutShard completed is read without an error.
LEMMA FullFileReads ==
  ASSUME NEW w \in Words, NEW n \in Nat
  PROVE  /\ FullFile(w, n) # None
         /\ GetShard(FullFile(w, n)) = "ok" /\ VerifyShard(FullFile(w, n)) = "ok"
         /\ FullFile(w, n).hdr.len = n /\ FullFile(w, n).hdr.dlen = SplitSize(n)
         /\ FullFile(w, n).pay = w
<1>1. FullFile(w, n) \in FileData /\ Header(w, n) \in Headers /\ SplitSize(n) \in Nat
  BY FileTypes, SplitFacts
<1>2. FullFile(w, n) # None /\ Header(w, n) # None
  BY <1>1, ValuesAssumption
<1>3. /\ FullFile(w, n).hdr = Header(w, n) /\ FullFile(w, n).pay = w
      /\ FullFile(w, n).n = SplitSize(n)
      /\ Header(w, n).len = n /\ Header(w, n).dlen = SplitSize(n) /\ Header(w, n).sum = w
  BY DEF FullFile, Header
<1>4. ~(SplitSize(n) < SplitSize(n))
  BY <1>1
<1> QED BY <1>2, <1>3, <1>4 DEF GetShard, VerifyShard

\* A spoilt file is never read without an error, and with mild damage the
\* error is one that readers take for a lost shard.
LEMMA SpoiltReads ==
  ASSUME NEW f \in FileData \cup {None}, NEW c \in Contents, NEW s \in Nat, HasStripe(c, s),
         Spoilt(f, c, s)
  PROVE  /\ GetShard(f) # "ok" /\ VerifyShard(f) # "ok"
         /\ Mild => ShardLost(GetShard(f)) /\ ShardLost(VerifyShard(f))
<1> DEFINE n == StripeLen(c, s)
<1>1. n \in Nat /\ SplitSize(n) \in Nat
  BY StripeFacts, SplitFacts
<1>2. CASE f = None
  BY <1>2 DEF GetShard, VerifyShard, ShardLost
<1>3. CASE f # None /\ f.hdr = None /\ ~Mild
  BY <1>3 DEF GetShard, VerifyShard
<1>4. CASE /\ f # None /\ f.hdr = Header(<<c, s>>, n) /\ f.pay # <<c, s>>
           /\ Mild => f.n >= SplitSize(n)
  <2>1. f.hdr.sum = <<c, s>> /\ f.hdr.dlen = SplitSize(n)
    BY <1>4 DEF Header
  <2>2. f.n \in Nat
    BY <1>4 DEF FileData
  <2>3. Mild => ~(f.n < f.hdr.dlen)
    BY <1>1, <1>4, <2>1, <2>2
  <2>4. f.hdr # None
    <3>1. <<c, s>> \in Words
      BY StripeFacts DEF Words
    <3> QED BY <1>1, <1>4, <3>1, FileTypes, ValuesAssumption
  <2> QED BY <1>4, <2>1, <2>3, <2>4 DEF GetShard, VerifyShard, ShardLost
<1> QED BY <1>2, <1>3, <1>4 DEF Spoilt

\* Damage spoils a complete file, and a spoilt one stays spoilt.
LEMMA DamageSpoils ==
  ASSUME Spared, NEW f \in FileData, NEW c \in Contents, NEW s \in Nat, HasStripe(c, s),
         f = FullFile(<<c, s>>, StripeLen(c, s)) \/ Spoilt(f, c, s),
         NEW kind \in FaultKinds, NEW g \in Damage(f, kind, StripeSize + 1)
  PROVE  Spoilt(g, c, s)
<1> DEFINE n == StripeLen(c, s)
           w == <<c, s>>
<1>1. n \in Nat /\ SplitSize(n) \in Nat /\ w \in Words
  BY StripeFacts, SplitFacts DEF Words
<1>2. \/ f.hdr = None /\ ~Mild
      \/ f.hdr = Header(w, n) /\ (Mild => f.n >= SplitSize(n))
  <2>1. f # None
    BY ValuesAssumption
  <2>2. CASE f = FullFile(w, n)
    BY <1>1, <2>2 DEF FullFile
  <2> QED BY <2>1, <2>2 DEF Spoilt
<1>3. kind \in {"missing", "payload", "short", "header"}
  BY StoreAssumption DEF Spared, DamageKinds
<1> HIDE DEF n, w
<1>4. CASE kind = "missing"
  BY <1>4 DEF Damage, Spoilt
<1>5. CASE kind = "payload"
  <2>1. g = [f EXCEPT !.pay = Garbage]
    BY <1>5 DEF Damage
  <2>2. g.hdr = f.hdr /\ g.pay = Garbage /\ g.n = f.n
    BY <2>1 DEF FileData
  <2> QED BY <1>1, <1>2, <2>2, ValuesAssumption DEF Spoilt, n, w
<1>6. CASE kind = "short"
  <2>1. g = [f EXCEPT !.pay = None, !.n = 0]
    BY <1>6 DEF Damage
  <2>2. g.hdr = f.hdr /\ g.pay = None
    BY <2>1 DEF FileData
  <2>3. ~Mild
    BY <1>6 DEF Mild
  <2> QED BY <1>1, <1>2, <2>2, <2>3, ValuesAssumption DEF Spoilt, n, w
<1>7. CASE kind = "header"
  <2>1. g = [f EXCEPT !.hdr = None]
    BY <1>7 DEF Damage
  <2>2. g.hdr = None /\ ~Mild
    BY <1>7, <2>1 DEF FileData, Mild
  <2> QED BY <2>2 DEF Spoilt
<1> QED BY <1>3, <1>4, <1>5, <1>6, <1>7

\* Shards is finite and has ShardCount elements; so are its subsets.
LEMMA ShardSets ==
  /\ IsFiniteSet(Shards) /\ Cardinality(Shards) = ShardCount
  /\ \A T \in SUBSET Shards :
       /\ IsFiniteSet(T) /\ Cardinality(T) \in Nat
       /\ \A U \in SUBSET T : Cardinality(U) <= Cardinality(T)
       /\ Cardinality(Shards \ T) = ShardCount - Cardinality(T)
<1>1. IsFiniteSet(Shards) /\ Cardinality(Shards) = ShardCount
  <2>1. 0 \in Int /\ ShardCount - 1 \in Int /\ ~(0 > ShardCount - 1)
    BY ShardFacts
  <2>2. IsFiniteSet(0 .. ShardCount - 1) /\ Cardinality(0 .. ShardCount - 1) = (ShardCount - 1) - 0 + 1
    BY <2>1, FS_Interval
  <2> QED BY <2>2, ShardFacts DEF Shards
<1>2. ASSUME NEW T \in SUBSET Shards
      PROVE  /\ IsFiniteSet(T) /\ Cardinality(T) \in Nat
             /\ \A U \in SUBSET T : Cardinality(U) <= Cardinality(T)
             /\ Cardinality(Shards \ T) = ShardCount - Cardinality(T)
  <2>1. IsFiniteSet(T)
    BY <1>1, FS_Subset
  <2>2. Cardinality(T) \in Nat
    BY <2>1, FS_CardinalityType
  <2>3. ASSUME NEW U \in SUBSET T PROVE Cardinality(U) <= Cardinality(T)
    BY <2>1, FS_Subset
  <2>4. Cardinality(Shards \ T) = Cardinality(Shards) - Cardinality(Shards \cap T)
    BY <1>1, FS_Difference
  <2>5. Shards \cap T = T
    OBVIOUS
  <2> QED BY <1>1, <2>1, <2>2, <2>3, <2>4, <2>5
<1> QED BY <1>1, <1>2

\* Each stripe has a shard that is not damaged.
LEMMA Undamaged ==
  ASSUME Spared, DamageBounded, NEW o \in Objects, NEW s \in Stripes
  PROVE  \E i \in Shards : <<o, s, i>> \notin damaged
<1>1. DamagedIn(o, s) \in SUBSET Shards /\ Cardinality(DamagedIn(o, s)) <= FaultBudget
  BY DEF DamageBounded, DamagedIn
<1>2. DamagedIn(o, s) # Shards
  BY <1>1, ShardSets, ShardFacts, StoreAssumption DEF Spared
<1> QED BY <1>1, <1>2 DEF DamagedIn

\* Any k valid shards of one stripe give back the stripe: loadStripe finds
\* the shards it needs, reconstructs the others and joins them.
LEMMA DecodeFacts ==
  ASSUME NEW w \in Words, NEW n \in Nat, n > 0,
         NEW g \in [Shards -> ShardData \cup {None}],
         \A i \in Shards : g[i] = ShardOf(w, n) \/ g[i] = None,
         Cardinality(Valid(g)) >= DataShards
  PROVE  LoadError(g, n) = "none" /\ Joined(Whole(g), n) = w
<1> DEFINE sh == ShardOf(w, n)
           m  == SplitSize(n)
<1>1. /\ DataShards \in Nat /\ DataShards >= 1 /\ ShardCount \in Nat
      /\ DataIdx \subseteq Shards /\ 0 \in DataIdx
  BY ParamsAssumption, ShardFacts DEF NewOK, DataIdx, Shards, ShardCount
<1>2. m \in Nat /\ m > 0 /\ DataShards * m >= n
  BY SplitFacts
<1>3. sh = [cw |-> w, n |-> m] /\ sh.cw = w /\ sh.n = m /\ sh \in ShardData /\ sh # None
  BY <1>2, ValuesAssumption DEF ShardOf, ShardData
<1> HIDE DEF sh, m
<1>4. Present(g) = Valid(g)
  BY <1>2, <1>3 DEF Present, Valid, sh
<1>5. Valid(g) \in SUBSET Shards /\ Valid(g) # {} /\ \A i \in Valid(g) : g[i] = sh
  <2>1. Cardinality({}) = 0
    BY FS_EmptySet
  <2> QED BY <1>1, <2>1 DEF Valid, sh
<1>6. Decoded(g) = w
  <2> DEFINE words == {g[i].cw : i \in Present(g)}
             Fits(v) == \A i \in Lowest(Present(g)) : g[i].cw = v
  <2>1. words = {w}
    BY <1>3, <1>4, <1>5
  <2>2. Fits(w)
    BY <1>3, <1>4, <1>5 DEF Lowest
  <2>3. Decoded(g) = IF \E v \in words : Fits(v) THEN CHOOSE v \in words : Fits(v) ELSE Garbage
    BY DEF Decoded
  <2> HIDE DEF words, Fits
  <2> QED BY <2>1, <2>2, <2>3
<1>7. \A i \in Shards : Whole(g)[i] = sh
  <2>1. CASE Valid(g) = Shards
    BY <1>5, <2>1 DEF Whole
  <2>2. CASE Valid(g) # Shards
    <3> DEFINE lens == {g[i].n : i \in Present(g)}
               len  == CHOOSE l \in lens : TRUE
    <3>1. lens = {m}
      BY <1>3, <1>4, <1>5
    <3>2. Reconstruct(g) = [i \in Shards |-> IF i \in Present(g) THEN g[i]
                                             ELSE [cw |-> Decoded(g), n |-> len]]
      BY <1>4, <1>5 DEF Reconstruct
    <3> HIDE DEF lens
    <3>3. len = m
      BY <3>1
    <3> HIDE DEF len
    <3>4. Whole(g) = Reconstruct(g)
      BY <2>2 DEF Whole
    <3> QED BY <1>3, <1>4, <1>5, <1>6, <3>2, <3>3, <3>4
  <2> QED BY <2>1, <2>2
<1>8. \A i \in DataIdx : Whole(g)[i] = sh
  BY <1>1, <1>7
<1>9. ~(Cardinality(Valid(g)) < DataShards)
  <2>1. Cardinality(Valid(g)) \in Nat
    BY <1>5, ShardSets, Zenon
  <2> QED BY <1>1, <2>1
<1>10. ReconstructError(g) = "none"
  <2>1. SameLength(g)
    BY <1>4, <1>5 DEF SameLength
  <2> QED BY <1>4, <1>9, <2>1 DEF ReconstructError
<1>11. Offset(Whole(g), DataShards) = DataShards * m
  BY <1>1, <1>3, <1>8 DEF Offset
<1>12. JoinError(Whole(g), n) = "none"
  <2>1. DataShards * m \in Nat /\ ~(DataShards * m < n)
    BY <1>1, <1>2
  <2> QED BY <1>3, <1>8, <1>11, <2>1 DEF JoinError
<1>13. LoadError(g, n) = "none"
  BY <1>9, <1>10, <1>12 DEF LoadError
<1>14. Joined(Whole(g), n) = w
  BY <1>1, <1>3, <1>8 DEF Joined
<1> QED BY <1>13, <1>14

-----------------------------------------------------------------------------
(* The invariant.                                                          *)

\* It holds at the start.
LEMMA ReadInit == Init => ReadInv
<1> SUFFICES ASSUME Init PROVE ReadInv
  OBVIOUS
<1>1. AbsenceInv
  BY AbsenceInit
<1>2. DamageBounded
  <2>1. \A o \in Objects, s \in Stripes : DamagedIn(o, s) = {}
    BY DEF Init, DamagedIn
  <2>2. Cardinality({}) = 0
    BY FS_EmptySet
  <2> QED BY <2>1, <2>2, StoreAssumption DEF DamageBounded
<1>3. PutProgress /\ Committed /\ ReadProgress
  BY ValuesAssumption DEF Init, PutProgress, Committed, ReadProgress
<1> QED BY <1>1, <1>2, <1>3 DEF ReadInv

\* A put that runs alone works on an object no other mutation works on, and
\* a reader with an expectation on one that no mutation works on.
LEMMA Apart ==
  ASSUME AbsenceInv, NEW p \in Clients, Mutating(p), NEW q \in Clients, q # p
  PROVE  /\ solo[q] /\ pc[q] \in PutStates => obj[q] # obj[p] /\ obj[q] \in Objects
         /\ expect[q] # Unknown => obj[q] # obj[p] /\ obj[q] \in Objects
         /\ expect[p] = Unknown
<1>1. ASSUME solo[q], pc[q] \in PutStates PROVE obj[q] # obj[p] /\ obj[q] \in Objects
  BY <1>1, MutatingFacts DEF AbsenceInv, Exclusion, Mutating
<1>2. ASSUME expect[q] # Unknown PROVE obj[q] # obj[p] /\ obj[q] \in Objects
  BY <1>2, MutatingFacts DEF AbsenceInv, Exclusion, GetStates
<1>3. expect[p] = Unknown
  BY MutatingFacts DEF AbsenceInv, Exclusion
<1> QED BY <1>1, <1>2, <1>3

\* Fewer damaged shards are within the bound too.
LEMMA LessDamage ==
  ASSUME DamageBounded, damaged' \subseteq damaged
  PROVE  DamageBounded'
<1>1. ASSUME NEW o \in Objects, NEW s \in Stripes
      PROVE  Cardinality(DamagedIn(o, s)') <= FaultBudget
  <2>1. DamagedIn(o, s)' \in SUBSET DamagedIn(o, s) /\ DamagedIn(o, s) \in SUBSET Shards
    BY DEF DamagedIn
  <2>2. Cardinality(DamagedIn(o, s)') <= Cardinality(DamagedIn(o, s))
    BY <2>1, ShardSets
  <2>3. Cardinality(DamagedIn(o, s)') \in Nat /\ Cardinality(DamagedIn(o, s)) \in Nat
    BY <2>1, ShardSets
  <2>4. Cardinality(DamagedIn(o, s)) <= FaultBudget
    BY DEF DamageBounded
  <2> QED BY <2>2, <2>3, <2>4, StoreAssumption
<1> QED BY <1>1 DEF DamageBounded

\* A step of a mutation changes files, markers and damage of its own object
\* only, so it disturbs nothing but its own progress.
LEMMA DiskFrame ==
  ASSUME ReadInv, AbsenceInv', NEW p \in Clients, Mutating(p),
         UNCHANGED <<obj, cont, value, leftover, solo, expect, total, size, got, slen, out>>,
         damaged' \subseteq damaged,
         \A q \in Clients \ {p} : /\ pc'[q] = pc[q] /\ stripe'[q] = stripe[q]
                                  /\ shard'[q] = shard[q] /\ reply'[q] = reply[q],
         \A q \in Clients \ {p} : obj[q] # obj[p] => fd'[q] = fd[q],
         \A k \in Keys : k[1] # obj[p] => files'[k] = files[k] /\ (k \in damaged' <=> k \in damaged),
         \A o \in Objects : o # obj[p] => markers'[o] = markers[o],
         solo[p] /\ pc'[p] \in PutStates => Written(p)' /\ Writing(p)'
  PROVE  ReadInv'
<1>1. AbsenceInv
  BY DEF ReadInv
<1>2. DamageBounded'
  BY LessDamage DEF ReadInv
<1>3. ASSUME NEW o \in Objects, o # obj[p], NEW s \in Stripes, NEW i \in Shards
      PROVE  /\ files'[<<o, s, i>>] = files[<<o, s, i>>]
             /\ <<o, s, i>> \in damaged' <=> <<o, s, i>> \in damaged
             /\ \A c : Intact(o, s, i, c)' <=> Intact(o, s, i, c)
  <2>1. <<o, s, i>> \in Keys /\ <<o, s, i>>[1] = o
    BY DEF Keys
  <2>2. /\ files'[<<o, s, i>>] = files[<<o, s, i>>]
        /\ <<o, s, i>> \in damaged' <=> <<o, s, i>> \in damaged
    BY <1>3, <2>1
  <2> QED BY <2>2 DEF Intact
<1>4. ASSUME NEW q \in Clients, solo'[q], pc'[q] \in PutStates
      PROVE  Written(q)' /\ Writing(q)'
  <2>1. CASE q = p
    BY <1>4, <2>1
  <2>2. CASE q # p
    <3>1. solo[q] /\ pc[q] \in PutStates /\ obj[q] # obj[p] /\ obj[q] \in Objects
      BY <1>1, <1>4, <2>2, Apart
    <3>2. Written(q) /\ Writing(q)
      BY <3>1 DEF ReadInv, PutProgress
    <3>3. /\ pc'[q] = pc[q] /\ stripe'[q] = stripe[q] /\ shard'[q] = shard[q]
          /\ fd'[q] = fd[q] /\ cont'[q] = cont[q] /\ obj'[q] = obj[q]
      BY <2>2, <3>1
    <3>4. Written(q)'
      <4> SUFFICES ASSUME NEW s \in Stripes, NEW i \in Shards, HasStripe(cont[q], s),
                          s < stripe[q] \/ (s = stripe[q] /\ i < shard[q])
                   PROVE  Intact(obj[q], s, i, cont[q])'
        BY <3>3 DEF Written, HasStripe
      <4>1. Intact(obj[q], s, i, cont[q])
        BY <3>2 DEF Written
      <4> QED BY <1>3, <3>1, <3>3, <4>1 DEF Intact
    <3>5. /\ pc[q] \in ShardStates => /\ Key(q) \in Keys /\ Key(q)[1] # obj[p]
                                      /\ files'[Key(q)] = files[Key(q)]
                                      /\ Key(q) \in damaged' <=> Key(q) \in damaged
          /\ Key(q)' = Key(q) /\ Word(q)' = Word(q) /\ Chunk(q)' = Chunk(q)
      <4>1. Key(q)' = Key(q) /\ Word(q)' = Word(q) /\ Chunk(q)' = Chunk(q)
        BY <3>3 DEF Key, Word, Chunk, StripeLen
      <4>2. ASSUME pc[q] \in ShardStates PROVE Key(q) \in Keys /\ Key(q)[1] # obj[p]
        <5>1. Key(q) \in Keys
          BY <1>1, <4>2, PutKey DEF AbsenceInv
        <5> QED BY <3>1, <5>1 DEF Key
      <4> QED BY <4>1, <4>2
    <3>6. Writing(q)'
      BY <3>2, <3>3, <3>5 DEF Writing, ShardStates, HasStripe
    <3> QED BY <3>4, <3>6
  <2> QED BY <2>1, <2>2
<1>5. PutProgress'
  BY <1>4 DEF PutProgress
<1>6. ASSUME NEW o \in Objects, NEW c \in Contents, value'[o] = c
      PROVE  /\ markers'[o] = Size[c]
             /\ \A s \in Stripes, i \in Shards :
                  /\ HasStripe(c, s) => Intact(o, s, i, c)'
                  /\ ~HasStripe(c, s) /\ ~leftover'[o] => files'[<<o, s, i>>] = None
  <2>1. o # obj[p]
    BY <1>1, <1>6, ValuesAssumption DEF AbsenceInv, Exclusion
  <2> QED BY <1>3, <1>6, <2>1 DEF ReadInv, Committed
<1>7. Committed'
  BY <1>6 DEF Committed, HasStripe
<1>8. ASSUME NEW q \in Clients, NEW c \in Contents, expect'[q] = c, ~leftover'[obj'[q]]
      PROVE  Reading(q, c)'
  <2>1. q # p /\ obj[q] # obj[p] /\ obj[q] \in Objects
    <3>1. c # Unknown
      BY ValuesAssumption
    <3>2. q # p
      BY <1>1, <1>8, <3>1, MutatingFacts DEF AbsenceInv, Exclusion
    <3> QED BY <1>1, <1>8, <3>1, <3>2, Apart
  <2>2. Reading(q, c)
    BY <1>8 DEF ReadInv, ReadProgress
  <2>3. /\ pc'[q] = pc[q] /\ stripe'[q] = stripe[q] /\ shard'[q] = shard[q]
        /\ reply'[q] = reply[q] /\ obj'[q] = obj[q]
    BY <2>1
  <2>4. TypeInv
    BY <1>1 DEF AbsenceInv
  <2>5. ASSUME pc[q] = "getSize", NEW i \in Shards, <<obj[q], total[q] - 1, i>> \in damaged
        PROVE  <<obj[q], total[q] - 1, i>> \in damaged'
    <3>1. total[q] - 1 \in Stripes
      BY <2>4, <2>5, StoreAssumption DEF TypeInv, LocalsOK, TypeOK, ReaderOK, Stripes
    <3> QED BY <1>3, <2>1, <2>5, <3>1
  <2>6. ASSUME pc[q] = "getLoad", NEW i \in Shards, <<obj[q], stripe[q], i>> \in damaged
        PROVE  <<obj[q], stripe[q], i>> \in damaged'
    <3>1. stripe[q] \in Stripes
      BY <2>4, <2>6, StoreAssumption DEF TypeInv, LocalsOK, TypeOK, ReaderOK, ControlOK, Stripes
    <3> QED BY <1>3, <2>1, <2>6, <3>1
  <2>7. PrefixOf(q, c)'
    BY <2>2 DEF Reading, PrefixOf, HasStripe, StripeLen
  <2> QED BY <2>2, <2>3, <2>5, <2>6, <2>7 DEF Reading, Loaded, HasStripe, StripeLen, IsCount
<1>9. ReadProgress'
  BY <1>8 DEF ReadProgress
<1> QED BY <1>2, <1>5, <1>7, <1>9 DEF ReadInv

\* The progress of a PUT that runs alone: what it has written stays written,
\* and a shard it completes is complete or damaged.
LEMMA PutOwn ==
  ASSUME ReadInv, TypeInv', NEW p \in Clients, solo[p],
         PutCreate(p) \/ PutHeader(p) \/ PutPayload(p) \/ MarkerCreate(p)
  PROVE  Written(p)' /\ Writing(p)'
<1> USE DEF Goto, disk, req, pos, reader, ghosts
<1>1. TypeInv
  BY DEF ReadInv, AbsenceInv
<1>2. /\ pc \in [Clients -> PutStates \cup GetStates \cup DelStates \cup {"idle", "done"}]
      /\ stripe \in [Clients -> Nat] /\ shard \in [Clients -> 0 .. ShardCount]
      /\ fd \in [Clients -> BOOLEAN] /\ files \in [Keys -> FileData \cup {None}]
  BY <1>1 DEF TypeInv, TypeOK, ControlOK, DiskOK
<1>3. Written(p) /\ Writing(p)
  BY DEF ReadInv, PutProgress, PutCreate, PutHeader, PutPayload, MarkerCreate, PutStates
<1>4. CASE MarkerCreate(p)
  <2>1. UNCHANGED <<files, damaged, obj, cont, stripe, shard>> /\ pc'[p] = "markerWrite" /\ fd'[p]
    BY <1>2, <1>4 DEF MarkerCreate
  <2>2. Written(p)'
    BY <1>3, <2>1 DEF Written, HasStripe, Intact
  <2>3. Writing(p)'
    BY <1>3, <1>4, <2>1 DEF Writing, MarkerCreate, HasStripe
  <2> QED BY <2>2, <2>3
<1>5. ASSUME pc[p] \in ShardStates
      PROVE  /\ Key(p) \in Keys /\ Word(p) \in Words /\ Chunk(p) \in Nat /\ Chunk(p) > 0
             /\ stripe[p] \in Stripes /\ stripe[p] \in Nat /\ shard[p] \in Shards
             /\ obj[p] \in Objects /\ cont[p] \in Contents
    BY <1>1, <1>2, <1>5, PutKey
<1>6. ASSUME pc[p] \in ShardStates, UNCHANGED <<obj, cont>>,
             \A k \in Keys : k # Key(p) =>
               files'[k] = files[k] /\ (k \in damaged' <=> k \in damaged),
             NEW s \in Stripes, NEW i \in Shards, HasStripe(cont[p], s),
             s < stripe[p] \/ (s = stripe[p] /\ i < shard[p])
      PROVE  Intact(obj[p], s, i, cont[p])'
  <2>1. Intact(obj[p], s, i, cont[p])
    BY <1>3, <1>6 DEF Written
  <2>2. <<obj[p], s, i>> \in Keys /\ <<obj[p], s, i>> # Key(p)
    BY <1>5, <1>6 DEF Keys, Key, Stripes, Shards
  <2> QED BY <1>6, <2>1, <2>2 DEF Intact
<1>7. CASE PutCreate(p)
  <2>1. /\ pc[p] \in ShardStates /\ UNCHANGED <<obj, cont, stripe, shard>>
        /\ files' = [files EXCEPT ![Key(p)] = CreateFile] /\ damaged' = damaged \ {Key(p)}
        /\ pc'[p] = "putHeader" /\ fd'[p]
    BY <1>2, <1>7 DEF PutCreate, ShardStates
  <2>2. /\ \A k \in Keys : k # Key(p) => files'[k] = files[k] /\ (k \in damaged' <=> k \in damaged)
        /\ files'[Key(p)] = CreateFile /\ Key(p)' = Key(p)
    BY <1>2, <1>5, <2>1 DEF Key
  <2>3. Written(p)'
    BY <1>6, <2>1, <2>2 DEF Written, HasStripe
  <2>4. Writing(p)'
    BY <2>1, <2>2 DEF Writing
  <2> QED BY <2>3, <2>4
<1>8. CASE PutHeader(p)
  <2>1. /\ pc[p] = "putHeader" /\ pc[p] \in ShardStates
        /\ UNCHANGED <<obj, cont, stripe, shard, fd, damaged>> /\ pc'[p] = "putPayload"
        /\ files' = IF fd[p] THEN [files EXCEPT ![Key(p)] = WriteHeader(@, Word(p), Chunk(p))]
                    ELSE files
    BY <1>2, <1>8 DEF PutHeader, ShardStates
  <2>2. /\ \A k \in Keys : k # Key(p) => files'[k] = files[k] /\ (k \in damaged' <=> k \in damaged)
        /\ fd[p] => files'[Key(p)] = WriteHeader(files[Key(p)], Word(p), Chunk(p))
        /\ ~fd[p] => files'[Key(p)] = files[Key(p)]
        /\ Key(p)' = Key(p) /\ Word(p)' = Word(p) /\ Chunk(p)' = Chunk(p)
    BY <1>2, <1>5, <2>1 DEF Key, Word, Chunk, StripeLen
  <2>3. Written(p)'
    BY <1>6, <2>1, <2>2 DEF Written, HasStripe
  <2>4. Writing(p)'
    BY <1>3, <2>1, <2>2 DEF Writing
  <2> QED BY <2>3, <2>4
<1>9. CASE PutPayload(p)
  <2>1. /\ pc[p] = "putPayload" /\ pc[p] \in ShardStates
        /\ UNCHANGED <<obj, cont, fd, damaged>>
        /\ files' = IF fd[p] THEN [files EXCEPT ![Key(p)] = WritePayload(@, Word(p), Chunk(p))]
                    ELSE files
    BY <1>9 DEF PutPayload, ShardStates
  <2>2. \/ /\ shard[p] + 1 < ShardCount /\ shard'[p] = shard[p] + 1 /\ stripe'[p] = stripe[p]
           /\ pc'[p] = "putCreate"
        \/ /\ ~(shard[p] + 1 < ShardCount) /\ shard'[p] = 0 /\ stripe'[p] = stripe[p] + 1
           /\ pc'[p] = IF HasStripe(cont[p], stripe[p] + 1) THEN "putCreate" ELSE "markerCreate"
    BY <1>2, <1>9 DEF PutPayload
  <2>3. /\ \A k \in Keys : k # Key(p) => files'[k] = files[k] /\ (k \in damaged' <=> k \in damaged)
        /\ fd[p] => files'[Key(p)] = WritePayload(files[Key(p)], Word(p), Chunk(p))
        /\ ~fd[p] => files'[Key(p)] = files[Key(p)]
    BY <1>2, <1>5, <2>1
  <2>4. ASSUME NEW s \in Stripes, NEW i \in Shards, s = stripe[p], i = shard[p]
        PROVE  Intact(obj[p], s, i, cont[p])'
    <3>0. Key(p) = <<obj[p], s, i>> /\ Word(p) = <<cont[p], s>> /\ Chunk(p) = StripeLen(cont[p], s)
      BY <2>4 DEF Key, Word, Chunk
    <3>1. CASE Key(p) \in damaged /\ ~fd[p] /\ files[Key(p)] = None
      BY <2>1, <2>3, <3>0, <3>1 DEF Intact, Spoilt
    <3>2. CASE Key(p) \in damaged /\ fd[p] /\ files[Key(p)].hdr = None /\ ~Mild
      <4>1. files[Key(p)] \in FileData
        BY <1>1, <1>2, <1>5, <2>1, <3>2 DEF TypeInv, HandlesOK
      <4>2. files'[Key(p)].hdr = None
        BY <2>3, <3>2, <4>1 DEF WritePayload, FileData
      <4> QED BY <2>1, <3>0, <3>2, <4>2 DEF Intact, Spoilt
    <3>3. CASE /\ Key(p) \notin damaged /\ fd[p]
               /\ files[Key(p)] = WriteHeader(CreateFile, Word(p), Chunk(p))
      <4>1. SplitSize(Chunk(p)) \in Nat /\ SplitSize(Chunk(p)) > 0
        BY <1>5, <2>1, SplitFacts
      <4>2. files'[Key(p)] = WritePayload(WriteHeader(CreateFile, Word(p), Chunk(p)), Word(p), Chunk(p))
        BY <2>3, <3>3
      <4>3. files'[Key(p)] = FullFile(Word(p), Chunk(p))
        BY <4>1, <4>2 DEF WritePayload, WriteHeader, CreateFile, FullFile
      <4> QED BY <2>1, <3>0, <3>3, <4>3 DEF Intact, StripeLen
    <3> QED BY <1>3, <2>1, <3>1, <3>2, <3>3 DEF Writing
  <2>5. Written(p)'
    <3> SUFFICES ASSUME NEW s \in Stripes, NEW i \in Shards, HasStripe(cont[p], s),
                        s < stripe'[p] \/ (s = stripe'[p] /\ i < shard'[p])
                 PROVE  Intact(obj[p], s, i, cont[p])'
      BY <2>1 DEF Written, HasStripe
    <3>1. CASE s < stripe[p] \/ (s = stripe[p] /\ i < shard[p])
      BY <1>6, <2>1, <2>3, <3>1
    <3>2. CASE ~(s < stripe[p] \/ (s = stripe[p] /\ i < shard[p]))
      <4>1. s = stripe[p] /\ i = shard[p]
        BY <1>5, <2>1, <2>2, <3>2, ShardFacts DEF Stripes, Shards
      <4> QED BY <2>4, <4>1
    <3> QED BY <3>1, <3>2
  <2>6. Writing(p)'
    BY <2>1, <2>2 DEF Writing, HasStripe
  <2> QED BY <2>5, <2>6
<1> QED BY <1>4, <1>7, <1>8, <1>9

\* The writes of a PUT.
LEMMA ReadPut ==
  ASSUME ReadInv, AbsenceInv', NEW p \in Clients,
         PutCreate(p) \/ PutHeader(p) \/ PutPayload(p) \/ MarkerCreate(p)
  PROVE  ReadInv'
<1> USE DEF Goto, disk, req, pos, reader, ghosts
<1>1. /\ pc \in [Clients -> PutStates \cup GetStates \cup DelStates \cup {"idle", "done"}]
      /\ stripe \in [Clients -> Nat] /\ shard \in [Clients -> 0 .. ShardCount]
      /\ fd \in [Clients -> BOOLEAN] /\ files \in [Keys -> FileData \cup {None}]
      /\ markers \in [Objects -> Nat \cup {None, Torn}]
  BY DEF ReadInv, AbsenceInv, TypeInv, TypeOK, ControlOK, DiskOK
<1>2. Mutating(p)
  BY DEF PutCreate, PutHeader, PutPayload, MarkerCreate, PutStates, Mutating
<1>3. UNCHANGED <<obj, cont, value, leftover, solo, expect, total, size, got, slen, out, reply>>
  BY DEF PutCreate, PutHeader, PutPayload, MarkerCreate
<1>4. damaged' \subseteq damaged
  BY DEF PutCreate, PutHeader, PutPayload, MarkerCreate
<1>5. \A q \in Clients \ {p} : /\ pc'[q] = pc[q] /\ stripe'[q] = stripe[q]
                               /\ shard'[q] = shard[q] /\ fd'[q] = fd[q]
  BY <1>1 DEF PutCreate, PutHeader, PutPayload, MarkerCreate
<1>6. \A k \in Keys : k[1] # obj[p] => files'[k] = files[k] /\ (k \in damaged' <=> k \in damaged)
  <2>1. Key(p)[1] = obj[p]
    BY DEF Key
  <2>2. \A k \in Keys : k # Key(p) => files'[k] = files[k] /\ (k \in damaged' <=> k \in damaged)
    BY <1>1 DEF PutCreate, PutHeader, PutPayload, MarkerCreate
  <2> QED BY <2>1, <2>2
<1>7. \A o \in Objects : o # obj[p] => markers'[o] = markers[o]
  BY <1>1 DEF PutCreate, PutHeader, PutPayload, MarkerCreate
<1>8. solo[p] => Written(p)' /\ Writing(p)'
  BY PutOwn DEF AbsenceInv
<1> QED BY <1>2, <1>3, <1>4, <1>5, <1>6, <1>7, <1>8, DiskFrame

\* A DELETE removes shards of its own object.
LEMMA ReadDelShard ==
  ASSUME ReadInv, AbsenceInv', NEW p \in Clients, DelShard(p)
  PROVE  ReadInv'
<1>1. /\ pc \in [Clients -> PutStates \cup GetStates \cup DelStates \cup {"idle", "done"}]
      /\ reply \in [Clients -> Replies]
      /\ files \in [Keys -> FileData \cup {None}]
  BY DEF ReadInv, AbsenceInv, TypeInv, TypeOK, ControlOK, DiskOK
<1>2. /\ UNCHANGED <<markers, obj, cont, stripe, shard, value, leftover, solo, expect>>
      /\ UNCHANGED <<total, size, got, slen, out>>
      /\ pc[p] = "delShard"
  BY DEF DelShard, req, pos, reader, ghosts
<1>3. PICK k \in todo[p] :
        IF files[k] = None
        THEN /\ Finish(p, "ErrShardNotFound")
             /\ UNCHANGED <<files, damaged, fd, todo>>
        ELSE /\ files' = [files EXCEPT ![k] = None]
             /\ damaged' = damaged \ {k}
             /\ fd' = Unlink(k)
             /\ todo' = [todo EXCEPT ![p] = @ \ {k}]
             /\ Goto(p, IF todo[p] = {k} THEN "delMarker" ELSE "delShard")
  BY DEF DelShard
<1>4. k[1] = obj[p]
  BY DEF ReadInv, AbsenceInv, TypeInv, LocalsOK
<1>5. /\ pc'[p] \notin PutStates
      /\ \A q \in Clients \ {p} : pc'[q] = pc[q] /\ reply'[q] = reply[q]
  BY <1>1, <1>3 DEF Goto, Finish, PutStates
<1>6. damaged' \subseteq damaged
  BY <1>3
<1>7. \A l \in Keys : l[1] # obj[p] => files'[l] = files[l] /\ (l \in damaged' <=> l \in damaged)
  BY <1>1, <1>3, <1>4
<1>8. \A q \in Clients \ {p} : obj[q] # obj[p] => fd'[q] = fd[q]
  <2>1. CASE files[k] = None
    BY <1>3, <2>1
  <2>2. CASE files[k] # None
    <3>1. fd' = [q \in Clients |-> fd[q] /\ ~(pc[q] \in {"putHeader", "putPayload"} /\ Key(q) = k)]
      BY <1>3, <2>2 DEF Unlink
    <3>2. \A q \in Clients : obj[q] # obj[p] => Key(q) # k
      BY <1>4 DEF Key
    <3>3. \A q \in Clients : fd[q] \in BOOLEAN
      BY DEF ReadInv, AbsenceInv, TypeInv, TypeOK, ControlOK
    <3> QED BY <3>1, <3>2, <3>3, Zenon
  <2> QED BY <2>1, <2>2
<1>9. Mutating(p)
  BY <1>2 DEF Mutating, DelStates
<1> QED BY <1>2, <1>5, <1>6, <1>7, <1>8, <1>9, DiskFrame

\* A step of one request that writes nothing disturbs nothing but its own
\* reading.
LEMMA ReadFrame ==
  ASSUME ReadInv, AbsenceInv', NEW p \in Clients,
         UNCHANGED <<files, markers, damaged, obj, cont, fd, value, leftover, solo, expect>>,
         \A q \in Clients \ {p} :
           /\ pc'[q] = pc[q] /\ stripe'[q] = stripe[q] /\ shard'[q] = shard[q]
           /\ total'[q] = total[q] /\ size'[q] = size[q] /\ got'[q] = got[q]
           /\ slen'[q] = slen[q] /\ out'[q] = out[q] /\ reply'[q] = reply[q],
         pc'[p] \notin PutStates,
         \A c \in Contents : expect[p] = c /\ ~leftover[obj[p]] => Reading(p, c)'
  PROVE  ReadInv'
<1>1. DamageBounded' /\ Committed'
  BY DEF ReadInv, DamageBounded, DamagedIn, Committed, HasStripe, Intact
<1>2. ASSUME NEW q \in Clients, solo'[q], pc'[q] \in PutStates
      PROVE  Written(q)' /\ Writing(q)'
  <2>1. q # p
    BY <1>2
  <2>2. pc'[q] = pc[q] /\ stripe'[q] = stripe[q] /\ shard'[q] = shard[q]
    BY <2>1
  <2>3. Written(q) /\ Writing(q)
    BY <1>2, <2>2 DEF ReadInv, PutProgress
  <2>4. Written(q)'
    BY <2>2, <2>3 DEF Written, HasStripe, Intact
  <2>5. Key(q)' = Key(q) /\ Word(q)' = Word(q) /\ Chunk(q)' = Chunk(q)
    BY <2>2 DEF Key, Word, Chunk, StripeLen
  <2>6. Writing(q)'
    BY <2>2, <2>3, <2>5 DEF Writing, HasStripe
  <2> QED BY <2>4, <2>6
<1>3. PutProgress'
  BY <1>2 DEF PutProgress
<1>4. ASSUME NEW q \in Clients, NEW c \in Contents, expect'[q] = c, ~leftover'[obj'[q]]
      PROVE  Reading(q, c)'
  <2>1. CASE q = p
    BY <1>4, <2>1
  <2>2. CASE q # p
    <3>1. Reading(q, c)
      BY <1>4 DEF ReadInv, ReadProgress
    <3>2. PrefixOf(q, c)'
      BY <2>2, <3>1 DEF Reading, PrefixOf, HasStripe, StripeLen
    <3> QED BY <2>2, <3>1, <3>2 DEF Reading, Loaded, HasStripe, StripeLen, IsCount
  <2> QED BY <2>1, <2>2
<1>5. ReadProgress'
  BY <1>4 DEF ReadProgress
<1> QED BY <1>1, <1>3, <1>5 DEF ReadInv

\* A reader that gives up has delivered a prefix.
LEMMA ReadStop ==
  ASSUME ReadInv, AbsenceInv', NEW p \in Clients, NEW c \in Contents,
         expect[p] = c, ~leftover[obj[p]], pc'[p] = "done", reply'[p] # "ok",
         Tolerated => reply'[p] \in {"ErrWalk", "ErrIO"}, UNCHANGED out
  PROVE  Reading(p, c)'
<1>1. PrefixOf(p, c)
  BY DEF ReadInv, ReadProgress, Reading
<1>2. PrefixOf(p, c)'
  BY <1>1 DEF PrefixOf, HasStripe, StripeLen
<1> QED BY <1>2 DEF Reading

\* Listing for a DELETE, a failed walk and a failed request.
LEMMA ReadOther ==
  ASSUME ReadInv, AbsenceInv', NEW p \in Clients, DelList(p) \/ ListError(p) \/ RequestFail(p)
  PROVE  ReadInv'
<1> USE DEF Goto, Finish, disk, req, pos, reader, ghosts
<1>1. /\ pc \in [Clients -> PutStates \cup GetStates \cup DelStates \cup {"idle", "done"}]
      /\ reply \in [Clients -> Replies]
  BY DEF ReadInv, AbsenceInv, TypeInv, TypeOK, ControlOK
<1>2. /\ UNCHANGED <<files, markers, damaged, obj, cont, fd, value, leftover, solo, expect>>
      /\ UNCHANGED <<stripe, shard, total, size, got, slen, out>>
      /\ \A q \in Clients \ {p} : pc'[q] = pc[q] /\ reply'[q] = reply[q]
      /\ pc'[p] \notin PutStates
  BY <1>1 DEF DelList, ListError, RequestFail, PutStates
<1>3. ASSUME NEW c \in Contents, expect[p] = c, ~leftover[obj[p]] PROVE Reading(p, c)'
  <2>1. CASE DelList(p)
    <3>1. Mutating(p)
      BY <2>1 DEF DelList, Mutating, DelStates
    <3> QED BY <1>3, <3>1, MutatingFacts, ValuesAssumption DEF ReadInv, AbsenceInv, Exclusion
  <2>2. CASE ListError(p) \/ RequestFail(p)
    <3>1. pc'[p] = "done" /\ reply'[p] \in {"ErrWalk", "ErrIO"}
      BY <1>1, <2>2 DEF ListError, RequestFail
    <3> QED BY <1>2, <1>3, <3>1, ReadStop
  <2> QED BY <2>1, <2>2
<1> QED BY <1>2, <1>3, ReadFrame

\* What a reader with an expectation finds on disk.
LEMMA PromisedFacts ==
  ASSUME ReadInv, NEW p \in Clients, NEW c \in Contents, expect[p] = c, ~leftover[obj[p]]
  PROVE  /\ TypeInv /\ DamageBounded /\ obj[p] \in Objects /\ markers[obj[p]] = Size[c]
         /\ \A s \in Stripes, i \in Shards :
              /\ HasStripe(c, s) => Intact(obj[p], s, i, c)
              /\ ~HasStripe(c, s) => files[<<obj[p], s, i>>] = None
         /\ Reading(p, c)
<1>1. c # Unknown /\ AbsenceInv
  BY ValuesAssumption DEF ReadInv
<1>2. pc[p] \in GetStates \cup {"done"} /\ value[obj[p]] = c
  BY <1>1 DEF AbsenceInv, Exclusion
<1>3. obj[p] \in Objects
  BY <1>1, <1>2, MutatingFacts DEF AbsenceInv, GetStates
<1> QED BY <1>1, <1>2, <1>3 DEF ReadInv, AbsenceInv, Committed, ReadProgress

\* Listing for a GET: the highest stripe index found is the last stripe's.
LEMMA ReadGetList ==
  ASSUME Spared, ReadInv, AbsenceInv', NEW p \in Clients, GetList(p)
  PROVE  ReadInv'
<1> DEFINE ss  == {k[2] : k \in Listed(obj[p])}
           top == CHOOSE s \in ss : \A t \in ss : t <= s
<1>1. /\ pc \in [Clients -> PutStates \cup GetStates \cup DelStates \cup {"idle", "done"}]
      /\ total \in [Clients -> 0 .. MaxStripe + 1]
  BY DEF ReadInv, AbsenceInv, TypeInv, TypeOK, ControlOK, ReaderOK
<1>2. /\ UNCHANGED <<files, markers, damaged, obj, cont, fd, value, leftover, solo, expect>>
      /\ UNCHANGED <<stripe, shard, size, got, slen, out, reply>>
      /\ pc[p] = "getList"
  BY DEF GetList, Goto, disk, req, pos, ghosts
<1>3. \/ ss = {} /\ pc' = [pc EXCEPT ![p] = "getMarker"] /\ UNCHANGED total
      \/ ss # {} /\ pc' = [pc EXCEPT ![p] = "getSize"] /\ total' = [total EXCEPT ![p] = 1 + top]
  BY DEF GetList, Goto
<1> HIDE DEF top
<1>4. /\ pc'[p] \in {"getMarker", "getSize"}
      /\ \A q \in Clients \ {p} : pc'[q] = pc[q] /\ total'[q] = total[q]
  BY <1>1, <1>3
<1>5. ASSUME NEW c \in Contents, expect[p] = c, ~leftover[obj[p]] PROVE Reading(p, c)'
  <2>1. /\ TypeInv /\ DamageBounded /\ obj[p] \in Objects
        /\ \A s \in Stripes, i \in Shards :
             /\ HasStripe(c, s) => Intact(obj[p], s, i, c)
             /\ ~HasStripe(c, s) => files[<<obj[p], s, i>>] = None
        /\ PrefixOf(p, c)
    BY <1>5, PromisedFacts DEF Reading
  <2>2. ASSUME NEW s \in Nat, HasStripe(c, s) PROVE s \in ss
    <3>1. s \in Stripes
      BY <2>2, StripeFacts
    <3>2. PICK i \in Shards : <<obj[p], s, i>> \notin damaged
      BY <2>1, <3>1, Undamaged
    <3>3. <<obj[p], s, i>> \in Keys /\ <<c, s>> \in Words /\ StripeLen(c, s) \in Nat
      BY <2>1, <2>2, <3>1, StripeFacts DEF Keys, Words
    <3>4. files[<<obj[p], s, i>>] # None
      BY <2>1, <2>2, <3>1, <3>2, <3>3, FullFileReads DEF Intact
    <3>5. <<obj[p], s, i>> \in Listed(obj[p])
      BY <3>3, <3>4 DEF Listed
    <3>6. <<obj[p], s, i>>[2] = s
      OBVIOUS
    <3> QED BY <3>5, <3>6
  <2>3. ASSUME NEW s \in ss PROVE s \in Stripes /\ s \in Nat /\ HasStripe(c, s)
    <3>1. PICK k \in Listed(obj[p]) : s = k[2]
      OBVIOUS
    <3>2. k \in Keys /\ k[1] = obj[p] /\ files[k] # None
      BY <3>1 DEF Listed
    <3>3. k[2] \in Stripes /\ k[3] \in Shards /\ k = <<k[1], k[2], k[3]>>
      BY <3>2 DEF Keys
    <3> QED BY <2>1, <3>1, <3>2, <3>3, StoreAssumption DEF Stripes
  <2> HIDE DEF ss
  <2>4. PrefixOf(p, c)'
    BY <1>2, <2>1 DEF PrefixOf, HasStripe, StripeLen
  <2>5. CASE ss = {}
    <3>1. pc'[p] = "getMarker" /\ ~HasStripe(c, 0)
      BY <1>1, <1>3, <2>2, <2>5
    <3> QED BY <2>4, <3>1 DEF Reading, HasStripe
  <2>6. CASE ss # {}
    <3>1. \E s \in ss : \A t \in ss : t <= s
      BY <2>3, <2>6, TopStripe
    <3>2. top \in ss /\ \A t \in ss : t <= top
      BY <3>1 DEF top
    <3>3. top \in Nat /\ HasStripe(c, top) /\ ~HasStripe(c, top + 1)
      BY <2>2, <2>3, <3>2
    <3>4. pc'[p] = "getSize" /\ total'[p] = 1 + top
      BY <1>1, <1>3, <2>6
    <3>5. IsCount(c, total'[p])
      BY <3>3, <3>4 DEF IsCount
    <3>6. shard'[p] = 0
      BY <1>2, <2>1 DEF TypeInv, LocalsOK, EarlyStates
    <3>7. \A i \in Shards : ~(i < 0)
      BY DEF Shards
    <3> QED BY <2>4, <3>4, <3>5, <3>6, <3>7 DEF Reading, IsCount, HasStripe
  <2> QED BY <2>5, <2>6
<1>6. pc'[p] \notin PutStates
  BY <1>4 DEF PutStates
<1> QED BY <1>2, <1>4, <1>5, <1>6, ReadFrame

\* What a reader's shard operations return for a shard of the object.
LEMMA ShardResult ==
  ASSUME ReadInv, NEW p \in Clients, NEW c \in Contents, expect[p] = c, ~leftover[obj[p]],
         NEW s \in Nat, HasStripe(c, s), NEW i \in Shards
  PROVE  LET f == files[<<obj[p], s, i>>] IN
         /\ GetShard(f) = "ok" \/ VerifyShard(f) = "ok" => f = FullFile(<<c, s>>, StripeLen(c, s))
         /\ GetShard(f) # "ok" \/ VerifyShard(f) # "ok" => <<obj[p], s, i>> \in damaged
         /\ Mild /\ GetShard(f) # "ok" => ShardLost(GetShard(f))
         /\ Mild /\ VerifyShard(f) # "ok" => ShardLost(VerifyShard(f))
<1> DEFINE k == <<obj[p], s, i>>
           f == files[k]
<1>1. /\ s \in Stripes /\ StripeLen(c, s) \in Nat /\ <<c, s>> \in Words
  BY StripeFacts DEF Words
<1>2. TypeInv /\ obj[p] \in Objects /\ Intact(obj[p], s, i, c)
  BY <1>1, PromisedFacts
<1>3. k \in Keys
  BY <1>1, <1>2 DEF Keys
<1>4. f \in FileData \cup {None}
  BY <1>2, <1>3 DEF TypeInv, TypeOK, DiskOK
<1>5. CASE k \in damaged
  <2>1. Spoilt(f, c, s)
    BY <1>2, <1>5 DEF Intact
  <2> QED BY <1>4, <1>5, <2>1, SpoiltReads
<1>6. CASE k \notin damaged
  <2>1. f = FullFile(<<c, s>>, StripeLen(c, s))
    BY <1>2, <1>6 DEF Intact
  <2> QED BY <1>1, <2>1, FullFileReads
<1> QED BY <1>5, <1>6

\* A reader's own part of the invariant at GetMarker and at lastStripeLen.
LEMMA ReadGetSize ==
  ASSUME Spared, ReadInv, AbsenceInv', NEW p \in Clients, GetMarker(p) \/ GetSize(p)
  PROVE  ReadInv'
<1> USE DEF Goto, Finish, disk, req, pos, reader, ghosts
<1>1. /\ pc \in [Clients -> PutStates \cup GetStates \cup DelStates \cup {"idle", "done"}]
      /\ total \in [Clients -> 0 .. MaxStripe + 1] /\ size \in [Clients -> Nat]
      /\ shard \in [Clients -> 0 .. ShardCount] /\ reply \in [Clients -> Replies]
  BY DEF ReadInv, AbsenceInv, TypeInv, TypeOK, ControlOK, ReaderOK
<1>2. /\ UNCHANGED <<files, markers, damaged, obj, cont, fd, value, leftover, solo, expect>>
      /\ UNCHANGED <<stripe, total, got, slen, out>>
      /\ pc[p] \in {"getMarker", "getSize"}
  BY DEF GetMarker, ReadMarker, GetSize
<1>3. /\ pc'[p] \notin PutStates
      /\ \A q \in Clients \ {p} : /\ pc'[q] = pc[q] /\ size'[q] = size[q]
                                  /\ shard'[q] = shard[q] /\ reply'[q] = reply[q]
  BY <1>1 DEF GetMarker, ReadMarker, GetSize, PutStates
<1>4. ASSUME NEW c \in Contents, expect[p] = c, ~leftover[obj[p]] PROVE Reading(p, c)'
  <2>1. /\ TypeInv /\ DamageBounded /\ obj[p] \in Objects /\ markers[obj[p]] = Size[c]
        /\ Reading(p, c) /\ Size[c] \in Nat
    BY <1>4, PromisedFacts, StripeFacts
  <2>2. PrefixOf(p, c)'
    BY <1>2, <2>1 DEF Reading, PrefixOf, HasStripe, StripeLen
  <2>3. out[p] = << >> /\ stripe[p] = 0 /\ got[p] = NoShards /\ slen[p] = 0
    BY <1>2, <2>1 DEF TypeInv, LocalsOK, EarlyStates
  <2>4. CASE GetMarker(p)
    <3>1. markers[obj[p]] \notin {None, Torn}
      BY <2>1, ValuesAssumption
    <3>2. pc'[p] = "done" /\ reply'[p] = "ok" /\ size'[p] = Size[c]
      BY <1>1, <2>1, <2>4, <3>1 DEF GetMarker, ReadMarker
    <3>3. ~HasStripe(c, 0)
      BY <2>1, <2>4 DEF GetMarker, ReadMarker, Reading
    <3>4. Len(out'[p]) = 0
      BY <1>2, <2>3
    <3> QED BY <2>2, <3>2, <3>3, <3>4 DEF Reading, HasStripe
  <2>5. CASE GetSize(p)
    <3> DEFINE last == total[p] - 1
               f    == files[<<obj[p], last, shard[p]>>]
    <3>1. /\ pc[p] = "getSize" /\ IsCount(c, total[p]) /\ last \in Nat /\ HasStripe(c, last)
          /\ total[p] \in Nat
          /\ \A i \in Shards : i < shard[p] => <<obj[p], last, i>> \in damaged
      BY <1>1, <2>1, <2>5, StoreAssumption DEF GetSize, Reading, IsCount
    <3>2. \/ /\ shard[p] = ShardCount
          \/ /\ shard[p] < ShardCount /\ ShardLost(VerifyShard(f))
             /\ shard'[p] = shard[p] + 1 /\ pc'[p] = pc[p]
          \/ /\ shard[p] < ShardCount /\ VerifyShard(f) = "ok"
             /\ size'[p] = last * StripeSize + f.hdr.len
             /\ shard'[p] = 0 /\ pc'[p] = "getLoad"
          \/ /\ shard[p] < ShardCount /\ ~ShardLost(VerifyShard(f)) /\ VerifyShard(f) # "ok"
             /\ pc'[p] = "done" /\ reply'[p] = VerifyShard(f)
      BY <1>1, <2>5 DEF GetSize
    <3>3. ASSUME shard[p] < ShardCount
          PROVE  /\ shard[p] \in Shards
                 /\ VerifyShard(f) = "ok" => f = FullFile(<<c, last>>, StripeLen(c, last))
                 /\ VerifyShard(f) # "ok" => <<obj[p], last, shard[p]>> \in damaged
                 /\ Mild /\ VerifyShard(f) # "ok" => ShardLost(VerifyShard(f))
      <4>1. shard[p] \in Shards
        BY <1>1, <3>3, ShardFacts DEF Shards
      <4> HIDE DEF last
      <4> QED BY <1>4, <3>1, <4>1, ShardResult
    <3>4. shard[p] # ShardCount
      <4>1. ASSUME shard[p] = ShardCount PROVE FALSE
        <5>1. \A i \in Shards : i < shard[p]
          BY <4>1, ShardFacts DEF Shards
        <5>2. last \in Stripes
          BY <3>1, StripeFacts
        <5>3. \E i \in Shards : <<obj[p], last, i>> \notin damaged
          BY <2>1, <5>2, Undamaged
        <5> QED BY <3>1, <5>1, <5>3
      <4> QED BY <4>1
    <3> HIDE DEF last, f
    <3>5. CASE /\ shard[p] < ShardCount /\ ShardLost(VerifyShard(f))
               /\ shard'[p] = shard[p] + 1 /\ pc'[p] = pc[p]
      <4>1. VerifyShard(f) # "ok"
        BY <3>5 DEF ShardLost
      <4>2. ASSUME NEW i \in Shards, i < shard'[p] PROVE <<obj[p], last, i>> \in damaged
        BY <1>1, <3>1, <3>3, <3>5, <4>1, <4>2, ShardFacts DEF Shards
      <4>3. IsCount(c, total'[p]) /\ total'[p] - 1 = last
        BY <1>2, <3>1 DEF last
      <4> QED BY <1>2, <2>2, <3>1, <3>5, <4>2, <4>3 DEF Reading, IsCount, HasStripe
    <3>6. CASE /\ shard[p] < ShardCount /\ VerifyShard(f) = "ok"
               /\ size'[p] = last * StripeSize + f.hdr.len
               /\ shard'[p] = 0 /\ pc'[p] = "getLoad"
      <4>1. f.hdr.len = StripeLen(c, last)
        <5>1. <<c, last>> \in Words /\ StripeLen(c, last) \in Nat
          BY <3>1, StripeFacts DEF Words
        <5> QED BY <3>3, <3>6, <5>1, FullFileReads
      <4>2. size'[p] = Size[c]
        BY <3>1, <3>6, <4>1, LastStripe DEF last
      <4>3. IsCount(c, total'[p]) /\ Len(out'[p]) = stripe'[p]
        BY <1>2, <2>3, <3>1
      <4>4. \A i \in Shards : ~(i < shard'[p]) /\ got'[p][i] = None
        BY <1>2, <2>3, <3>6 DEF Shards, NoShards
      <4> QED BY <2>2, <3>6, <4>2, <4>3, <4>4 DEF Reading, IsCount, HasStripe
    <3>7. CASE /\ shard[p] < ShardCount /\ ~ShardLost(VerifyShard(f)) /\ VerifyShard(f) # "ok"
               /\ pc'[p] = "done" /\ reply'[p] = VerifyShard(f)
      <4>1. ~Tolerated
        BY <3>3, <3>7 DEF Tolerated
      <4> QED BY <2>2, <3>7, <4>1 DEF Reading
    <3> QED BY <3>2, <3>4, <3>5, <3>6, <3>7
  <2> QED BY <2>4, <2>5
<1> QED BY <1>2, <1>3, <1>4, ReadFrame

\* Loading one shard of a stripe.
LEMMA ReadGetLoad ==
  ASSUME ReadInv, AbsenceInv', NEW p \in Clients, GetLoad(p)
  PROVE  ReadInv'
<1> USE DEF Finish, disk, req, pos, reader, ghosts
<1> DEFINE f == files[Key(p)]
           d == [cw |-> f.pay, n |-> f.hdr.dlen]
<1>1. /\ pc \in [Clients -> PutStates \cup GetStates \cup DelStates \cup {"idle", "done"}]
      /\ got \in [Clients -> [Shards -> ShardData \cup {None}]] /\ slen \in [Clients -> Nat]
      /\ shard \in [Clients -> 0 .. ShardCount] /\ reply \in [Clients -> Replies]
      /\ stripe \in [Clients -> Nat]
      /\ total \in [Clients -> 0 .. MaxStripe + 1]
  BY DEF ReadInv, AbsenceInv, TypeInv, TypeOK, ControlOK, ReaderOK
<1>2. /\ UNCHANGED <<files, markers, damaged, obj, cont, fd, value, leftover, solo, expect>>
      /\ UNCHANGED <<stripe, total, size, out>>
      /\ pc[p] = "getLoad" /\ shard[p] < ShardCount
  BY DEF GetLoad
<1>3. \/ /\ GetShard(f) = "ok"
         /\ got' = [got EXCEPT ![p][shard[p]] = d]
         /\ slen' = [slen EXCEPT ![p] = f.hdr.len]
         /\ shard' = [shard EXCEPT ![p] = @ + 1]
         /\ UNCHANGED <<pc, reply>>
      \/ /\ ShardLost(GetShard(f))
         /\ shard' = [shard EXCEPT ![p] = @ + 1]
         /\ UNCHANGED <<pc, reply, got, slen>>
      \/ /\ ~ShardLost(GetShard(f)) /\ GetShard(f) # "ok"
         /\ pc' = [pc EXCEPT ![p] = "done"] /\ reply' = [reply EXCEPT ![p] = GetShard(f)]
         /\ UNCHANGED <<got, slen, shard>>
  BY DEF GetLoad
<1> HIDE DEF d, f
<1>4. /\ pc'[p] \notin PutStates
      /\ \A q \in Clients \ {p} : /\ pc'[q] = pc[q] /\ got'[q] = got[q] /\ slen'[q] = slen[q]
                                  /\ shard'[q] = shard[q] /\ reply'[q] = reply[q]
  BY <1>1, <1>2, <1>3 DEF PutStates
<1>5. ASSUME NEW c \in Contents, expect[p] = c, ~leftover[obj[p]] PROVE Reading(p, c)'
  <2>1. TypeInv /\ Reading(p, c)
    BY <1>5, PromisedFacts
  <2>2. PrefixOf(p, c)'
    BY <1>2, <2>1 DEF Reading, PrefixOf, HasStripe, StripeLen
  <2>3. /\ IsCount(c, total[p]) /\ size[p] = Size[c] /\ Len(out[p]) = stripe[p]
        /\ \A i \in Shards : IF i < shard[p] THEN Loaded(p, c, i) ELSE got[p][i] = None
        /\ (\E i \in Shards : got[p][i] # None) => slen[p] = StripeLen(c, stripe[p])
    BY <1>2, <2>1 DEF Reading
  <2>4. stripe[p] \in Nat /\ HasStripe(c, stripe[p]) /\ shard[p] \in Shards /\ shard[p] \in Nat
    <3>1. stripe[p] \in Nat /\ total[p] - 1 \in Nat /\ stripe[p] <= total[p] - 1
      BY <1>1, <1>2, <2>1, StoreAssumption DEF TypeInv, LocalsOK
    <3>2. HasStripe(c, stripe[p])
      BY <2>3, <3>1, StripeOrder DEF IsCount
    <3> QED BY <1>1, <1>2, <3>1, <3>2, ShardFacts DEF Shards
  <2>5. /\ GetShard(f) = "ok" => f = FullFile(<<c, stripe[p]>>, StripeLen(c, stripe[p]))
        /\ GetShard(f) # "ok" => <<obj[p], stripe[p], shard[p]>> \in damaged
        /\ Mild /\ GetShard(f) # "ok" => ShardLost(GetShard(f))
    BY <1>5, <2>4, ShardResult DEF f, Key
  <2>6. IsCount(c, total'[p]) /\ size'[p] = Size[c] /\ Len(out'[p]) = stripe'[p]
    BY <1>2, <2>3
  <2>7. ASSUME NEW i \in Shards, Loaded(p, c, i), got'[p][i] = got[p][i] PROVE Loaded(p, c, i)'
    BY <1>2, <2>7 DEF Loaded, StripeLen
  <2>8. CASE /\ GetShard(f) = "ok"
             /\ got' = [got EXCEPT ![p][shard[p]] = d]
             /\ slen' = [slen EXCEPT ![p] = f.hdr.len]
             /\ shard' = [shard EXCEPT ![p] = @ + 1]
             /\ UNCHANGED <<pc, reply>>
    <3>1. /\ shard'[p] = shard[p] + 1 /\ slen'[p] = f.hdr.len /\ pc'[p] = "getLoad"
          /\ got'[p][shard[p]] = d
          /\ \A i \in Shards : i # shard[p] => got'[p][i] = got[p][i]
      BY <1>1, <1>2, <2>4, <2>8
    <3>2. <<c, stripe[p]>> \in Words /\ StripeLen(c, stripe[p]) \in Nat
      BY <2>4, StripeFacts DEF Words
    <3>3. /\ d = ShardOf(<<c, stripe[p]>>, StripeLen(c, stripe[p]))
          /\ f.hdr.len = StripeLen(c, stripe[p])
      BY <2>5, <2>8, <3>2, FullFileReads DEF d, ShardOf
    <3>4. slen'[p] = StripeLen(c, stripe'[p])
      BY <1>2, <3>1, <3>3
    <3>5. ASSUME NEW i \in Shards
          PROVE  IF i < shard'[p] THEN Loaded(p, c, i)' ELSE got'[p][i] = None
      <4>1. CASE i = shard[p]
        BY <1>2, <2>4, <3>1, <3>3, <4>1 DEF Loaded, StripeLen
      <4>2. CASE i < shard[p]
        BY <2>3, <2>4, <2>7, <3>1, <4>2 DEF Shards
      <4>3. CASE i > shard[p]
        BY <2>3, <2>4, <3>1, <4>3 DEF Shards
      <4> QED BY <2>4, <4>1, <4>2, <4>3 DEF Shards
    <3> QED BY <2>2, <2>6, <3>1, <3>4, <3>5 DEF Reading, IsCount, HasStripe, StripeLen
  <2>9. CASE /\ ShardLost(GetShard(f))
             /\ shard' = [shard EXCEPT ![p] = @ + 1]
             /\ UNCHANGED <<pc, reply, got, slen>>
    <3>1. shard'[p] = shard[p] + 1 /\ pc'[p] = "getLoad" /\ GetShard(f) # "ok"
      BY <1>1, <1>2, <2>9 DEF ShardLost
    <3>2. ASSUME NEW i \in Shards
          PROVE  IF i < shard'[p] THEN Loaded(p, c, i)' ELSE got'[p][i] = None
      <4>1. CASE i = shard[p]
        <5>1. got'[p][i] = None /\ <<obj[p], stripe[p], i>> \in damaged
          BY <2>3, <2>4, <2>5, <2>9, <3>1, <4>1
        <5>2. Loaded(p, c, i)'
          BY <1>2, <5>1 DEF Loaded
        <5> QED BY <2>4, <3>1, <4>1, <5>2
      <4>2. CASE i < shard[p]
        BY <2>3, <2>4, <2>7, <2>9, <3>1, <4>2 DEF Shards
      <4>3. CASE i > shard[p]
        BY <2>3, <2>4, <2>9, <3>1, <4>3 DEF Shards
      <4> QED BY <2>4, <4>1, <4>2, <4>3 DEF Shards
    <3>3. (\E i \in Shards : got'[p][i] # None) => slen'[p] = StripeLen(c, stripe'[p])
      BY <1>2, <2>3, <2>9
    <3> QED BY <2>2, <2>6, <3>1, <3>2, <3>3 DEF Reading, IsCount, HasStripe, StripeLen
  <2>10. CASE /\ ~ShardLost(GetShard(f)) /\ GetShard(f) # "ok"
              /\ pc' = [pc EXCEPT ![p] = "done"] /\ reply' = [reply EXCEPT ![p] = GetShard(f)]
    <3>1. pc'[p] = "done" /\ reply'[p] # "ok" /\ ~Tolerated
      BY <1>1, <2>5, <2>10 DEF Tolerated
    <3> QED BY <2>2, <3>1 DEF Reading
  <2> QED BY <1>3, <2>8, <2>9, <2>10
<1> QED BY <1>2, <1>4, <1>5, ReadFrame

\* Decoding a stripe: with k valid shards its bytes are delivered, without
\* them the read ends.
LEMMA ReadGetJoin ==
  ASSUME Spared, ReadInv, AbsenceInv', NEW p \in Clients, GetJoin(p)
  PROVE  ReadInv'
<1> USE DEF Finish, disk, req, pos, reader, ghosts
<1> DEFINE err == LoadError(got[p], slen[p])
           res == [cw |-> Joined(Whole(got[p]), slen[p]), len |-> slen[p]]
<1>1. /\ pc \in [Clients -> PutStates \cup GetStates \cup DelStates \cup {"idle", "done"}]
      /\ got \in [Clients -> [Shards -> ShardData \cup {None}]] /\ slen \in [Clients -> Nat]
      /\ shard \in [Clients -> 0 .. ShardCount] /\ reply \in [Clients -> Replies]
      /\ stripe \in [Clients -> Nat] /\ out \in [Clients -> Seq(Delivered)]
      /\ total \in [Clients -> 0 .. MaxStripe + 1]
  BY DEF ReadInv, AbsenceInv, TypeInv, TypeOK, ControlOK, ReaderOK
<1>2. /\ UNCHANGED <<files, markers, damaged, obj, cont, fd, value, leftover, solo, expect>>
      /\ UNCHANGED <<total, size>>
      /\ pc[p] = "getLoad" /\ shard[p] = ShardCount
  BY DEF GetJoin
<1>3. \/ /\ err # "none"
         /\ pc' = [pc EXCEPT ![p] = "done"] /\ reply' = [reply EXCEPT ![p] = err]
         /\ UNCHANGED <<stripe, shard, got, slen, out>>
      \/ /\ err = "none" /\ slen[p] = 0
         /\ pc' = [pc EXCEPT ![p] = "done"] /\ reply' = [reply EXCEPT ![p] = "ok"]
         /\ UNCHANGED <<stripe, shard, got, slen, out>>
      \/ /\ err = "none" /\ slen[p] # 0
         /\ out' = [out EXCEPT ![p] = Append(@, res)]
         /\ stripe' = [stripe EXCEPT ![p] = @ + 1]
         /\ shard' = [shard EXCEPT ![p] = 0]
         /\ got' = [got EXCEPT ![p] = NoShards]
         /\ slen' = [slen EXCEPT ![p] = 0]
         /\ IF stripe[p] + 1 = total[p]
            THEN pc' = [pc EXCEPT ![p] = "done"] /\ reply' = [reply EXCEPT ![p] = "ok"]
            ELSE UNCHANGED <<pc, reply>>
  BY DEF GetJoin
<1> HIDE DEF err, res
<1>4. /\ pc'[p] \notin PutStates
      /\ \A q \in Clients \ {p} :
           /\ pc'[q] = pc[q] /\ got'[q] = got[q] /\ slen'[q] = slen[q] /\ out'[q] = out[q]
           /\ stripe'[q] = stripe[q] /\ shard'[q] = shard[q] /\ reply'[q] = reply[q]
  BY <1>1, <1>2, <1>3 DEF PutStates
<1>5. ASSUME NEW c \in Contents, expect[p] = c, ~leftover[obj[p]] PROVE Reading(p, c)'
  <2> DEFINE s == stripe[p]
             n == StripeLen(c, s)
  <2>1. TypeInv /\ DamageBounded /\ Reading(p, c) /\ obj[p] \in Objects
    BY <1>5, PromisedFacts
  <2>2. /\ IsCount(c, total[p]) /\ size[p] = Size[c] /\ Len(out[p]) = s
        /\ \A i \in Shards : Loaded(p, c, i)
        /\ (\E i \in Shards : got[p][i] # None) => slen[p] = n
        /\ PrefixOf(p, c)
    <3>1. \A i \in Shards : i < shard[p]
      BY <1>2, ShardFacts DEF Shards
    <3> QED BY <1>2, <2>1, <3>1 DEF Reading
  <2>3. /\ s \in Nat /\ HasStripe(c, s) /\ s \in Stripes /\ n \in Nat /\ n > 0
        /\ <<c, s>> \in Words /\ total[p] \in Nat
    <3>1. s \in Nat /\ total[p] - 1 \in Nat /\ s <= total[p] - 1 /\ total[p] \in Nat
      BY <1>1, <1>2, <2>1, StoreAssumption DEF TypeInv, LocalsOK
    <3>2. HasStripe(c, s)
      BY <2>2, <3>1, StripeOrder DEF IsCount
    <3> QED BY <3>1, <3>2, StripeFacts DEF Words
  <2>4. /\ got[p] \in [Shards -> ShardData \cup {None}]
        /\ \A i \in Shards : got[p][i] = ShardOf(<<c, s>>, n) \/ got[p][i] = None
    BY <1>1, <2>2 DEF Loaded
  <2>5. Valid(got[p]) \in SUBSET Shards /\ Cardinality(Valid(got[p])) \in Nat
    BY ShardSets DEF Valid
  <2>6. DataShards \in Nat /\ DataShards >= 1 /\ ParityShards \in Nat
        /\ ShardCount = DataShards + ParityShards
    BY ParamsAssumption DEF NewOK, ShardCount
  <2>7. ASSUME Cardinality(Valid(got[p])) >= DataShards
        PROVE  slen[p] = n /\ err = "none" /\ res = [cw |-> <<c, s>>, len |-> n]
    <3>1. Valid(got[p]) # {}
      <4>1. Cardinality({}) = 0
        BY FS_EmptySet
      <4> QED BY <2>6, <2>7, <4>1
    <3>2. slen[p] = n
      BY <2>2, <3>1 DEF Valid
    <3> HIDE DEF s, n
    <3>3. LoadError(got[p], n) = "none" /\ Joined(Whole(got[p]), n) = <<c, s>>
      BY <2>3, <2>4, <2>7, DecodeFacts
    <3> QED BY <3>2, <3>3 DEF err, res
  <2>8. ASSUME Cardinality(Valid(got[p])) < DataShards PROVE err = "ErrUnrecoverable" /\ ~Tolerated
    <3>1. err = "ErrUnrecoverable"
      BY <2>8 DEF err, LoadError
    <3>2. Shards \ Valid(got[p]) \in SUBSET DamagedIn(obj[p], s)
      <4>1. ShardOf(<<c, s>>, n) # None
        BY <2>3, SplitFacts, ValuesAssumption DEF ShardOf, ShardData
      <4> QED BY <2>2, <4>1 DEF Loaded, Valid, DamagedIn
    <3>3. DamagedIn(obj[p], s) \in SUBSET Shards
      BY DEF DamagedIn
    <3>4. /\ Cardinality(Shards \ Valid(got[p])) <= Cardinality(DamagedIn(obj[p], s))
          /\ Cardinality(DamagedIn(obj[p], s)) \in Nat
      BY <3>2, <3>3, ShardSets
    <3>5. Cardinality(Shards \ Valid(got[p])) = ShardCount - Cardinality(Valid(got[p]))
      BY <2>5, ShardSets
    <3>6. Cardinality(DamagedIn(obj[p], s)) <= FaultBudget
      BY <2>1, <2>3 DEF DamageBounded
    <3>7. FaultBudget > ParityShards
      BY <2>5, <2>6, <2>8, <3>4, <3>5, <3>6, StoreAssumption
    <3> QED BY <2>6, <3>1, <3>7, StoreAssumption DEF Tolerated
  <2> HIDE DEF s, n
  <2>9. CASE err # "none"
    <3>1. pc'[p] = "done" /\ reply'[p] = err /\ UNCHANGED out
      BY <1>1, <1>3, <2>9
    <3>2. err = "ErrUnrecoverable" /\ ~Tolerated
      BY <2>5, <2>6, <2>7, <2>8, <2>9
    <3>3. PrefixOf(p, c)'
      BY <2>2, <3>1 DEF PrefixOf, HasStripe, StripeLen
    <3> QED BY <3>1, <3>2, <3>3 DEF Reading
  <2>10. CASE err = "none"
    <3>1. slen[p] = n /\ slen[p] # 0 /\ res = [cw |-> <<c, s>>, len |-> n]
      BY <2>3, <2>5, <2>6, <2>7, <2>8, <2>10
    <3>2. /\ out'[p] = Append(out[p], res) /\ stripe'[p] = s + 1 /\ shard'[p] = 0
          /\ got'[p] = NoShards /\ total'[p] = total[p] /\ size'[p] = Size[c]
          /\ pc'[p] = IF s + 1 = total[p] THEN "done" ELSE "getLoad"
      BY <1>1, <1>2, <1>3, <2>2, <2>10, <3>1 DEF s
    <3>3. out[p] \in Seq(Delivered) /\ Len(out[p]) = s /\ Len(out'[p]) = s + 1
      BY <1>1, <2>2, <3>2
    <3>4. \A i \in 1 .. s : out'[p][i] = out[p][i]
      BY <3>2, <3>3
    <3>5. out'[p][s + 1] = [cw |-> <<c, s>>, len |-> n]
      BY <3>1, <3>2, <3>3
    <3>6. ASSUME NEW i \in 1 .. Len(out'[p])
          PROVE  HasStripe(c, i - 1) /\ out'[p][i] = [cw |-> <<c, i - 1>>, len |-> StripeLen(c, i - 1)]
      <4>1. CASE i = s + 1
        <5>1. i - 1 = s
          BY <2>3, <4>1
        <5> QED BY <2>3, <3>5, <4>1, <5>1 DEF n
      <4>2. CASE i # s + 1
        <5>1. i \in 1 .. s
          BY <2>3, <3>3, <4>2
        <5> QED BY <2>2, <3>3, <3>4, <5>1 DEF PrefixOf
      <4> QED BY <4>1, <4>2
    <3>7. PrefixOf(p, c)'
      BY <3>6 DEF PrefixOf, HasStripe, StripeLen
    <3>8. \A i \in Shards : ~(i < shard'[p]) /\ got'[p][i] = None
      BY <3>2 DEF Shards, NoShards
    <3>9. s + 1 = total[p] => ~HasStripe(c, Len(out'[p]))
      BY <2>2, <3>3 DEF IsCount
    <3>10. CASE s + 1 = total[p]
      <4>1. pc'[p] = "done" /\ reply'[p] = "ok"
        BY <1>1, <1>3, <2>10, <3>1, <3>10 DEF s
      <4>2. ~HasStripe(c, Len(out[p]))'
        BY <3>9, <3>10 DEF HasStripe
      <4>3. size'[p] = Size[c]
        BY <3>2
      <4> QED BY <3>7, <4>1, <4>2, <4>3 DEF Reading
    <3>11. CASE s + 1 # total[p]
      <4>1. IsCount(c, total'[p]) /\ Len(out'[p]) = stripe'[p]
        BY <2>2, <3>2, <3>3
      <4> QED BY <3>2, <3>7, <3>8, <3>11, <4>1 DEF Reading, IsCount, HasStripe
    <3> QED BY <3>10, <3>11
  <2> QED BY <2>9, <2>10
<1> QED BY <1>2, <1>4, <1>5, ReadFrame

\* The acknowledgements: what a PUT that ran alone promises is on disk.
LEMMA ReadAck ==
  ASSUME ReadInv, AbsenceInv', NEW p \in Clients, MarkerWrite(p) \/ DelMarker(p)
  PROVE  ReadInv'
<1> USE DEF Finish, disk, req, pos, reader, ghosts
<1>1. /\ pc \in [Clients -> PutStates \cup GetStates \cup DelStates \cup {"idle", "done"}]
      /\ reply \in [Clients -> Replies] /\ markers \in [Objects -> Nat \cup {None, Torn}]
      /\ value \in [Objects -> Contents \cup {None, Unknown}]
      /\ leftover \in [Objects -> BOOLEAN] /\ fd \in [Clients -> BOOLEAN]
      /\ stripe \in [Clients -> Nat]
  BY DEF ReadInv, AbsenceInv, TypeInv, TypeOK, ControlOK, DiskOK, GhostsOK
<1>2. /\ Mutating(p) /\ AbsenceInv
      /\ UNCHANGED <<files, damaged, obj, cont, stripe, shard, total, size, got, slen, out>>
      /\ UNCHANGED <<solo, expect>>
      /\ pc' = [pc EXCEPT ![p] = "done"]
      /\ \A q \in Clients \ {p} : reply'[q] = reply[q]
  BY <1>1 DEF MarkerWrite, ObjectMeta, DelMarker, Acknowledge, Mutating, PutStates, DelStates, ReadInv
<1>3. obj[p] \in Objects /\ value[obj[p]] = Unknown
  BY <1>2, MutatingFacts DEF AbsenceInv, Exclusion
<1>4. /\ \A o \in Objects : o # obj[p] =>
           value'[o] = value[o] /\ markers'[o] = markers[o] /\ leftover'[o] = leftover[o]
      /\ ~solo[p] => value' = value
  BY <1>1, <1>3 DEF MarkerWrite, ObjectMeta, DelMarker, Acknowledge
<1>5. \A q \in Clients \ {p} : obj[q] # obj[p] => fd'[q] = fd[q]
  <2>1. CASE MarkerWrite(p)
    BY <2>1 DEF MarkerWrite, ObjectMeta
  <2>2. CASE DelMarker(p)
    <3>1. fd' = [q \in Clients |-> fd[q] /\ ~(pc[q] = "markerWrite" /\ obj[q] = obj[p])]
      BY <2>2 DEF DelMarker
    <3>2. \A q \in Clients : fd[q] \in BOOLEAN
      BY <1>1
    <3> QED BY <3>1, <3>2, Zenon
  <2> QED BY <2>1, <2>2
<1>6. DamageBounded'
  BY <1>2, LessDamage DEF ReadInv
<1>7. ASSUME NEW q \in Clients, solo'[q], pc'[q] \in PutStates
      PROVE  Written(q)' /\ Writing(q)'
  <2>1. q # p /\ pc'[q] = pc[q] /\ solo[q]
    BY <1>1, <1>2, <1>7 DEF PutStates
  <2>2. obj[q] # obj[p] /\ fd'[q] = fd[q]
    BY <1>2, <1>5, <1>7, <2>1, Apart
  <2>3. Written(q) /\ Writing(q)
    BY <1>7, <2>1 DEF ReadInv, PutProgress
  <2>4. Written(q)'
    BY <1>2, <2>3 DEF Written, HasStripe, Intact
  <2>5. Key(q)' = Key(q) /\ Word(q)' = Word(q) /\ Chunk(q)' = Chunk(q)
    BY <1>2 DEF Key, Word, Chunk, StripeLen
  <2>6. Writing(q)'
    BY <1>2, <2>1, <2>2, <2>3, <2>5 DEF Writing, HasStripe
  <2> QED BY <2>4, <2>6
<1>8. ASSUME NEW o \in Objects, NEW c \in Contents, value'[o] = c
      PROVE  /\ markers'[o] = Size[c]
             /\ \A s \in Stripes, i \in Shards :
                  /\ HasStripe(c, s) => Intact(o, s, i, c)'
                  /\ ~HasStripe(c, s) /\ ~leftover'[o] => files'[<<o, s, i>>] = None
  <2>1. CASE o # obj[p]
    BY <1>2, <1>4, <1>8, <2>1 DEF ReadInv, Committed, Intact
  <2>2. CASE o = obj[p]
    <3>1. solo[p] /\ c # None /\ c # Unknown
      BY <1>3, <1>4, <1>8, <2>2, ValuesAssumption
    <3>2. ~DelMarker(p)
      BY <1>1, <1>3, <1>8, <2>2, <3>1 DEF DelMarker, Acknowledge
    <3>3. MarkerWrite(p) /\ pc[p] = "markerWrite" /\ pc[p] \in PutStates
      BY <3>2 DEF MarkerWrite, ObjectMeta, PutStates
    <3>4. Written(p) /\ Writing(p)
      BY <3>1, <3>3 DEF ReadInv, PutProgress
    <3>5. fd[p] /\ ~HasStripe(cont[p], stripe[p])
      BY <3>3, <3>4 DEF Writing
    <3>6. Size[cont[p]] \in Nat /\ cont[p] \in Contents /\ stripe[p] \in Nat
      BY <1>1, <1>2, <3>3, StripeFacts DEF AbsenceInv, TypeInv, LocalsOK
    <3>7. markers'[o] = Size[cont[p]] /\ markers'[o] # None
      BY <1>1, <1>3, <2>2, <3>3, <3>5, <3>6, ValuesAssumption DEF MarkerWrite, ObjectMeta
    <3>8. c = cont[p] /\ leftover'[o] = HasLeftover(o, c)
      BY <1>1, <1>3, <1>8, <2>2, <3>1, <3>3, <3>7 DEF MarkerWrite, ObjectMeta, Acknowledge
    <3>9. ASSUME NEW s \in Stripes, NEW i \in Shards
          PROVE  /\ HasStripe(c, s) => Intact(o, s, i, c)'
                 /\ ~HasStripe(c, s) /\ ~leftover'[o] => files'[<<o, s, i>>] = None
      <4>1. s \in Nat
        BY StoreAssumption DEF Stripes
      <4>2. HasStripe(c, s) => s < stripe[p]
        BY <3>5, <3>6, <3>8, <4>1, StripeOrder
      <4>3. HasStripe(c, s) => Intact(o, s, i, c)
        BY <2>2, <3>4, <3>8, <4>2 DEF Written
      <4> QED BY <1>2, <3>8, <4>3 DEF HasLeftover, Intact
    <3> QED BY <3>7, <3>8, <3>9
  <2> QED BY <2>1, <2>2
<1>9. ASSUME NEW q \in Clients, NEW c \in Contents, expect'[q] = c, ~leftover'[obj'[q]]
      PROVE  Reading(q, c)'
  <2>1. c # Unknown
    BY ValuesAssumption
  <2>2. q # p
    BY <1>2, <1>9, <2>1, MutatingFacts DEF AbsenceInv, Exclusion
  <2>3. obj[q] # obj[p] /\ obj[q] \in Objects
    BY <1>2, <1>9, <2>1, <2>2, Apart
  <2>4. Reading(q, c)
    BY <1>2, <1>4, <1>9, <2>3 DEF ReadInv, ReadProgress
  <2>5. pc'[q] = pc[q] /\ reply'[q] = reply[q]
    BY <1>1, <1>2, <2>2
  <2>6. PrefixOf(q, c)'
    BY <1>2, <2>4 DEF Reading, PrefixOf, HasStripe, StripeLen
  <2> QED BY <1>2, <2>4, <2>5, <2>6 DEF Reading, Loaded, HasStripe, StripeLen, IsCount
<1>10. PutProgress'
  BY <1>7 DEF PutProgress
<1>11. Committed'
  BY <1>8 DEF Committed, HasStripe
<1>12. ReadProgress'
  BY <1>9 DEF ReadProgress
<1> QED BY <1>6, <1>10, <1>11, <1>12 DEF ReadInv

\* The start of a request.
LEMMA ReadStart ==
  ASSUME ReadInv, AbsenceInv', NEW p \in Clients, NEW o \in Objects,
         GetStart(p, o) \/ DelStart(p, o) \/ \E c \in Contents : PutStart(p, o, c)
  PROVE  ReadInv'
<1> USE DEF Goto, disk, pos, reader
<1>1. /\ pc \in [Clients -> PutStates \cup GetStates \cup DelStates \cup {"idle", "done"}]
      /\ obj \in [Clients -> Objects \cup {None}] /\ cont \in [Clients -> Contents \cup {None}]
      /\ value \in [Objects -> Contents \cup {None, Unknown}]
      /\ expect \in [Clients -> Contents \cup {None, Unknown}]
  BY DEF ReadInv, AbsenceInv, TypeInv, TypeOK, ControlOK, GhostsOK
<1>2. /\ pc[p] = "idle" /\ UNCHANGED <<files, markers, damaged, stripe, shard, fd, leftover>>
      /\ UNCHANGED <<total, size, got, slen, out, reply>>
      /\ \A q \in Clients \ {p} : pc'[q] = pc[q] /\ obj'[q] = obj[q] /\ cont'[q] = cont[q]
  BY <1>1 DEF GetStart, DelStart, PutStart, BeginMutation
<1>3. \A r \in Objects : value'[r] # Unknown => value'[r] = value[r]
  BY <1>1 DEF GetStart, DelStart, PutStart, BeginMutation
<1>4. \A q \in Clients \ {p} : expect'[q] # Unknown => expect'[q] = expect[q]
  BY <1>1 DEF GetStart, DelStart, PutStart, BeginMutation
<1>5. \A q \in Clients \ {p} : solo'[q] => solo[q]
  <2>1. CASE GetStart(p, o)
    BY <2>1 DEF GetStart
  <2>2. CASE BeginMutation(p, o)
    BY <2>2, Zenon DEF BeginMutation
  <2> QED BY <2>1, <2>2 DEF DelStart, PutStart
<1>6. stripe[p] = 0 /\ shard[p] = 0 /\ out[p] = << >>
  BY <1>2 DEF ReadInv, AbsenceInv, TypeInv, LocalsOK, EarlyStates
<1>7. DamageBounded'
  BY <1>2, LessDamage DEF ReadInv
<1>8. ASSUME NEW q \in Clients, solo'[q], pc'[q] \in PutStates
      PROVE  Written(q)' /\ Writing(q)'
  <2>1. CASE q = p
    <3>1. PICK c \in Contents : PutStart(p, o, c)
      BY <1>1, <1>8, <2>1 DEF GetStart, DelStart, PutStates
    <3>2. /\ pc'[p] = IF HasStripe(c, 0) THEN "putCreate" ELSE "markerCreate"
          /\ cont'[p] = c
      BY <1>1, <3>1 DEF PutStart
    <3>3. Written(p)'
      BY <1>2, <1>6 DEF Written, Stripes, Shards
    <3>4. Writing(p)'
      BY <1>2, <1>6, <3>2 DEF Writing, HasStripe
    <3> QED BY <2>1, <3>3, <3>4
  <2>2. CASE q # p
    <3>1. pc'[q] = pc[q] /\ obj'[q] = obj[q] /\ cont'[q] = cont[q] /\ solo[q]
      BY <1>2, <1>5, <1>8, <2>2
    <3>2. Written(q) /\ Writing(q)
      BY <1>8, <3>1 DEF ReadInv, PutProgress
    <3>3. Written(q)'
      BY <1>2, <3>1, <3>2 DEF Written, HasStripe, Intact
    <3>4. Key(q)' = Key(q) /\ Word(q)' = Word(q) /\ Chunk(q)' = Chunk(q)
      BY <1>2, <3>1 DEF Key, Word, Chunk, StripeLen
    <3>5. Writing(q)'
      BY <1>2, <3>1, <3>2, <3>4 DEF Writing, HasStripe
    <3> QED BY <3>3, <3>5
  <2> QED BY <2>1, <2>2
<1>9. PutProgress'
  BY <1>8 DEF PutProgress
<1>10. Committed'
  <2>1. ASSUME NEW r \in Objects, NEW c \in Contents, value'[r] = c PROVE value[r] = c
    BY <1>3, <2>1, ValuesAssumption
  <2> QED BY <1>2, <2>1 DEF ReadInv, Committed, HasStripe, Intact
<1>11. ASSUME NEW q \in Clients, NEW c \in Contents, expect'[q] = c, ~leftover'[obj'[q]]
       PROVE  Reading(q, c)'
  <2>1. c # Unknown
    BY ValuesAssumption
  <2>2. CASE q = p
    <3>1. expect[p] = Unknown
      BY <1>2 DEF ReadInv, AbsenceInv, Exclusion, GetStates
    <3>2. ~DelStart(p, o) /\ ~\E d \in Contents : PutStart(p, o, d)
      BY <1>1, <1>11, <2>1, <2>2, <3>1 DEF DelStart, PutStart, BeginMutation
    <3>3. pc'[p] = "getList"
      BY <1>1, <3>2 DEF GetStart
    <3>4. Len(out'[p]) = 0
      BY <1>2, <1>6
    <3>5. PrefixOf(p, c)'
      BY <3>4 DEF PrefixOf
    <3> QED BY <2>2, <3>3, <3>5 DEF Reading
  <2>3. CASE q # p
    <3>1. Reading(q, c)
      BY <1>2, <1>4, <1>11, <2>1, <2>3 DEF ReadInv, ReadProgress
    <3>2. PrefixOf(q, c)'
      BY <1>2, <3>1 DEF Reading, PrefixOf, HasStripe, StripeLen
    <3>3. pc'[q] = pc[q] /\ obj'[q] = obj[q]
      BY <1>2, <2>3
    <3> QED BY <1>2, <3>1, <3>2, <3>3 DEF Reading, Loaded, HasStripe, StripeLen, IsCount
  <2> QED BY <2>2, <2>3
<1>12. ReadProgress'
  BY <1>11 DEF ReadProgress
<1> QED BY <1>7, <1>9, <1>10, <1>12 DEF ReadInv

\* The end of a request, or of all of them.
LEMMA ReadReset ==
  ASSUME ReadInv, AbsenceInv', NEW S \in SUBSET Clients, Reset(S)
  PROVE  ReadInv'
<1>1. /\ UNCHANGED <<files, markers, damaged, value, leftover>>
      /\ \A q \in S : pc'[q] = "idle" /\ expect'[q] = Unknown
      /\ \A q \in Clients \ S :
           /\ pc'[q] = pc[q] /\ expect'[q] = expect[q] /\ obj'[q] = obj[q] /\ cont'[q] = cont[q]
           /\ stripe'[q] = stripe[q] /\ shard'[q] = shard[q] /\ reply'[q] = reply[q]
           /\ total'[q] = total[q] /\ size'[q] = size[q] /\ got'[q] = got[q]
           /\ slen'[q] = slen[q] /\ out'[q] = out[q]
  BY DEF Reset, disk
<1>2. \A q \in Clients : solo'[q] => q \notin S /\ solo[q]
  BY Zenon DEF Reset
<1>3. \A q \in Clients \ S : fd'[q] = fd[q]
  <2>1. fd' = [q \in Clients |-> q \notin S /\ fd[q]]
    BY DEF Reset
  <2>2. \A q \in Clients : fd[q] \in BOOLEAN
    BY DEF ReadInv, AbsenceInv, TypeInv, TypeOK, ControlOK
  <2> QED BY <2>1, <2>2, Zenon
<1>4. DamageBounded'
  BY <1>1, LessDamage DEF ReadInv
<1>5. Committed'
  BY <1>1 DEF ReadInv, Committed, HasStripe, Intact
<1>6. ASSUME NEW q \in Clients, solo'[q], pc'[q] \in PutStates
      PROVE  Written(q)' /\ Writing(q)'
  <2>1. q \notin S /\ solo[q]
    BY <1>2, <1>6
  <2>2. /\ pc'[q] = pc[q] /\ obj'[q] = obj[q] /\ cont'[q] = cont[q]
        /\ stripe'[q] = stripe[q] /\ shard'[q] = shard[q] /\ fd'[q] = fd[q]
    BY <1>1, <1>3, <2>1
  <2>3. Written(q) /\ Writing(q)
    BY <1>6, <2>1, <2>2 DEF ReadInv, PutProgress
  <2>4. Written(q)'
    BY <1>1, <2>2, <2>3 DEF Written, HasStripe, Intact
  <2>5. Key(q)' = Key(q) /\ Word(q)' = Word(q) /\ Chunk(q)' = Chunk(q)
    BY <2>2 DEF Key, Word, Chunk, StripeLen
  <2>6. Writing(q)'
    BY <1>1, <2>2, <2>3, <2>5 DEF Writing, HasStripe
  <2> QED BY <2>4, <2>6
<1>7. PutProgress'
  BY <1>6 DEF PutProgress
<1>8. ASSUME NEW q \in Clients, NEW c \in Contents, expect'[q] = c, ~leftover'[obj'[q]]
      PROVE  Reading(q, c)'
  <2>1. q \notin S
    BY <1>1, <1>8, ValuesAssumption
  <2>2. Reading(q, c)
    BY <1>1, <1>8, <2>1 DEF ReadInv, ReadProgress
  <2>3. PrefixOf(q, c)'
    BY <1>1, <2>1, <2>2 DEF Reading, PrefixOf, HasStripe, StripeLen
  <2> QED BY <1>1, <2>1, <2>2, <2>3 DEF Reading, Loaded, HasStripe, StripeLen, IsCount
<1>9. ReadProgress'
  BY <1>8 DEF ReadProgress
<1> QED BY <1>4, <1>5, <1>7, <1>9 DEF ReadInv

\* Damage within the bound.
LEMMA ReadFault ==
  ASSUME Spared, ReadInv, AbsenceInv', NEW k \in Keys, NEW kind \in FaultKinds, Fault(k, kind)
  PROVE  ReadInv'
<1>1. /\ UNCHANGED <<markers, pc, obj, cont, stripe, shard, total, size, got, slen, out, reply>>
      /\ UNCHANGED <<value, leftover, solo, expect>>
      /\ damaged' = damaged \cup {k}
      /\ fd' = IF kind = "missing" THEN Unlink(k) ELSE fd
      /\ Cardinality(DamagedIn(k[1], k[2]) \cup {k[3]}) <= FaultBudget
  BY DEF Fault, req, pos, reader, ghosts
<1>2. PICK g \in Damage(files[k], kind, StripeSize + 1) : files' = [files EXCEPT ![k] = g]
  BY DEF Fault
<1>3. TypeInv /\ files[k] \in FileData
  BY DEF Fault, ReadInv, AbsenceInv, TypeInv, TypeOK, DiskOK
<1>4. /\ files'[k] = g
      /\ \A l \in Keys : l # k => files'[l] = files[l] /\ (l \in damaged' <=> l \in damaged)
  BY <1>1, <1>2, <1>3 DEF TypeInv, TypeOK, DiskOK
<1>5. DamageBounded'
  <2> SUFFICES ASSUME NEW o \in Objects, NEW s \in Stripes
               PROVE  Cardinality(DamagedIn(o, s)') <= FaultBudget
    BY DEF DamageBounded
  <2>1. k = <<k[1], k[2], k[3]>> /\ k[3] \in Shards
    BY DEF Keys
  <2>2. CASE o = k[1] /\ s = k[2]
    <3>1. DamagedIn(o, s)' = DamagedIn(o, s) \cup {k[3]}
      BY <1>1, <2>1, <2>2 DEF DamagedIn
    <3> QED BY <1>1, <2>2, <3>1
  <2>3. CASE ~(o = k[1] /\ s = k[2])
    <3>1. DamagedIn(o, s)' = DamagedIn(o, s)
      BY <1>1, <2>1, <2>3 DEF DamagedIn
    <3> QED BY <3>1 DEF ReadInv, DamageBounded
  <2> QED BY <2>2, <2>3
<1>6. ASSUME NEW o \in Objects, NEW c \in Contents, NEW s \in Stripes, NEW i \in Shards,
             HasStripe(c, s), Intact(o, s, i, c)
      PROVE  Intact(o, s, i, c)'
  <2>1. CASE <<o, s, i>> # k
    <3>1. <<o, s, i>> \in Keys
      BY DEF Keys
    <3> QED BY <1>4, <1>6, <2>1, <3>1 DEF Intact
  <2>2. CASE <<o, s, i>> = k
    <3>1. s \in Nat
      BY StoreAssumption DEF Stripes
    <3>2. files[k] = FullFile(<<c, s>>, StripeLen(c, s)) \/ Spoilt(files[k], c, s)
      BY <1>6, <2>2 DEF Intact
    <3>3. Spoilt(g, c, s)
      BY <1>3, <1>6, <3>1, <3>2, DamageSpoils
    <3> QED BY <1>1, <1>4, <2>2, <3>3 DEF Intact
  <2> QED BY <2>1, <2>2
<1>7. ASSUME NEW q \in Clients, solo'[q], pc'[q] \in PutStates
      PROVE  Written(q)' /\ Writing(q)'
  <2>1. Written(q) /\ Writing(q) /\ obj[q] \in Objects /\ cont[q] \in Contents
    BY <1>1, <1>3, <1>7 DEF ReadInv, PutProgress, TypeInv, LocalsOK, PutStates
  <2>2. Written(q)'
    <3> SUFFICES ASSUME NEW s \in Stripes, NEW i \in Shards, HasStripe(cont[q], s),
                        s < stripe[q] \/ (s = stripe[q] /\ i < shard[q])
                 PROVE  Intact(obj[q], s, i, cont[q])'
      BY <1>1 DEF Written, HasStripe
    <3>1. Intact(obj[q], s, i, cont[q])
      BY <2>1 DEF Written
    <3>2. \A o \in Objects, c \in Contents : o = obj[q] /\ c = cont[q] => Intact(o, s, i, c)'
      BY <1>6, <3>1
    <3> QED BY <1>1, <2>1, <3>2 DEF Intact
  <2>3. Key(q)' = Key(q) /\ Word(q)' = Word(q) /\ Chunk(q)' = Chunk(q) /\ fd[q] \in BOOLEAN
    BY <1>1, <1>3 DEF Key, Word, Chunk, StripeLen, TypeInv, TypeOK, ControlOK
  <2>4. /\ pc[q] \notin {"putHeader", "putPayload"} => fd'[q] = fd[q]
        /\ Key(q) # k => fd'[q] = fd[q]
        /\ kind # "missing" => fd'[q] = fd[q]
        /\ kind = "missing" /\ pc[q] \in {"putHeader", "putPayload"} /\ Key(q) = k => ~fd'[q]
    <3>1. CASE kind # "missing"
      BY <1>1, <3>1
    <3>2. CASE kind = "missing"
      <4>1. fd' = [r \in Clients |-> fd[r] /\ ~(pc[r] \in {"putHeader", "putPayload"} /\ Key(r) = k)]
        BY <1>1, <3>2 DEF Unlink
      <4>2. fd'[q] = (fd[q] /\ ~(pc[q] \in {"putHeader", "putPayload"} /\ Key(q) = k))
        BY <4>1
      <4> QED BY <2>3, <3>2, <4>2, Zenon
    <3> QED BY <3>1, <3>2
  <2>5. CASE pc[q] \notin {"putHeader", "putPayload"}
    BY <1>1, <2>1, <2>2, <2>4, <2>5 DEF Writing, HasStripe
  <2>6. CASE pc[q] \in {"putHeader", "putPayload"} /\ Key(q) # k
    <3>1. Key(q) \in Keys
      BY <1>3, <2>6, PutKey DEF ShardStates
    <3>2. files'[Key(q)] = files[Key(q)] /\ (Key(q) \in damaged' <=> Key(q) \in damaged)
      BY <1>4, <2>6, <3>1
    <3> QED BY <1>1, <2>1, <2>2, <2>3, <2>4, <2>6, <3>2 DEF Writing, HasStripe
  <2>7. CASE pc[q] \in {"putHeader", "putPayload"} /\ Key(q) = k
    <3>1. files[k] # None /\ k \in damaged' /\ files'[k] = g
      BY <1>1, <1>3, <1>4, ValuesAssumption
    <3>2. CASE kind = "missing"
      <4>1. g = None
        BY <3>2 DEF Damage
      <4> QED BY <1>1, <2>2, <2>3, <2>4, <2>7, <3>1, <3>2, <4>1 DEF Writing
    <3>3. CASE kind # "missing"
      <4>1. kind \in {"payload", "short", "header"}
        BY <3>3, StoreAssumption DEF Spared, DamageKinds
      <4>2. CASE pc[q] = "putHeader"
        <5>1. files[k] = CreateFile
          BY <2>1, <2>7, <3>1, <4>2 DEF Writing
        <5>2. Damage(CreateFile, kind, StripeSize + 1) = {}
          BY <4>1 DEF Damage, CreateFile
        <5> QED BY <5>1, <5>2
      <4>3. CASE pc[q] = "putPayload"
        <5>1. CASE fd[q] /\ files[k].hdr = None /\ ~Mild
          <6>1. g.hdr = None
            BY <1>3, <4>1, <5>1 DEF Damage, FileData
          <6> QED BY <1>1, <2>2, <2>3, <2>4, <2>7, <3>1, <3>3, <4>3, <5>1, <6>1 DEF Writing
        <5>2. CASE fd[q] /\ files[k] = WriteHeader(CreateFile, Word(q), Chunk(q))
          <6>1. files[k].pay = None /\ files[k].n = 0
            BY <5>2 DEF WriteHeader, CreateFile
          <6>2. kind = "header"
            BY <4>1, <6>1 DEF Damage
          <6>3. g.hdr = None /\ ~Mild
            BY <1>3, <6>2 DEF Damage, FileData, Mild
          <6> QED BY <1>1, <2>2, <2>3, <2>4, <2>7, <3>1, <3>3, <4>3, <5>2, <6>3 DEF Writing
        <5> QED BY <2>1, <2>7, <3>1, <4>3, <5>1, <5>2 DEF Writing
      <4> QED BY <2>7, <4>2, <4>3
    <3> QED BY <3>2, <3>3
  <2> QED BY <2>5, <2>6, <2>7
<1>8. PutProgress'
  BY <1>7 DEF PutProgress
<1>9. Committed'
  <2>1. ASSUME NEW o \in Objects, NEW c \in Contents, value[o] = c, NEW s \in Stripes, NEW i \in Shards
        PROVE  /\ HasStripe(c, s) => Intact(o, s, i, c)'
               /\ ~HasStripe(c, s) /\ ~leftover[o] => files'[<<o, s, i>>] = None
    <3>1. HasStripe(c, s) => Intact(o, s, i, c)'
      BY <1>6, <2>1 DEF ReadInv, Committed
    <3>2. ASSUME ~HasStripe(c, s), ~leftover[o] PROVE files'[<<o, s, i>>] = None
      <4>1. files[<<o, s, i>>] = None /\ <<o, s, i>> \in Keys
        BY <2>1, <3>2 DEF ReadInv, Committed, Keys
      <4>2. <<o, s, i>> # k
        BY <1>3, <4>1, ValuesAssumption
      <4> QED BY <1>4, <4>1, <4>2
    <3> QED BY <3>1, <3>2
  <2>2. \A o \in Objects, c \in Contents : value[o] = c => markers[o] = Size[c]
    BY DEF ReadInv, Committed
  <2> QED BY <1>1, <2>1, <2>2 DEF Committed, HasStripe
<1>10. ASSUME NEW q \in Clients, NEW c \in Contents, expect'[q] = c, ~leftover'[obj'[q]]
       PROVE  Reading(q, c)'
  <2>1. Reading(q, c)
    BY <1>1, <1>10 DEF ReadInv, ReadProgress
  <2>2. PrefixOf(q, c)'
    BY <1>1, <2>1 DEF Reading, PrefixOf, HasStripe, StripeLen
  <2> QED BY <1>1, <2>1, <2>2 DEF Reading, Loaded, HasStripe, StripeLen, IsCount
<1>11. ReadProgress'
  BY <1>10 DEF ReadProgress
<1> QED BY <1>5, <1>8, <1>9, <1>11 DEF ReadInv

\* Every step preserves the invariant.
LEMMA ReadNext == ASSUME Spared PROVE ReadInv /\ [Next]_vars => ReadInv'
<1> SUFFICES ASSUME ReadInv, [Next]_vars PROVE ReadInv'
  OBVIOUS
<1>0. AbsenceInv'
  BY AbsenceNext DEF ReadInv
<1>1. ASSUME NEW p \in Clients, Start(p) PROVE ReadInv'
  BY <1>0, <1>1, ReadStart DEF Start
<1>2. ASSUME NEW p \in Clients, Step(p) PROVE ReadInv'
  <2>1. CASE PutCreate(p) \/ PutHeader(p) \/ PutPayload(p) \/ MarkerCreate(p)
    BY <1>0, <2>1, ReadPut
  <2>2. CASE MarkerWrite(p) \/ DelMarker(p)
    BY <1>0, <2>2, ReadAck
  <2>3. CASE ListError(p) \/ DelList(p)
    BY <1>0, <2>3, ReadOther
  <2>4. CASE GetList(p) \/ GetMarker(p) \/ GetSize(p) \/ GetLoad(p) \/ GetJoin(p)
    BY <1>0, <2>4, ReadGetList, ReadGetSize, ReadGetLoad, ReadGetJoin
  <2>5. CASE DelShard(p)
    BY <1>0, <2>5, ReadDelShard
  <2> QED BY <1>2, <2>1, <2>2, <2>3, <2>4, <2>5 DEF Step
<1>3. ASSUME NEW p \in Clients, RequestFail(p) PROVE ReadInv'
  BY <1>0, <1>3, ReadOther
<1>4. ASSUME NEW p \in Clients, Return(p) PROVE ReadInv'
  BY <1>0, <1>4, ReadReset DEF Return
<1>5. ASSUME Crash PROVE ReadInv'
  BY <1>0, <1>5, ReadReset DEF Crash
<1>6. ASSUME NEW k \in Keys, NEW kind \in FaultKinds, Fault(k, kind) PROVE ReadInv'
  BY <1>0, <1>6, ReadFault
<1>7. ASSUME UNCHANGED vars PROVE ReadInv'
  <2>1. /\ UNCHANGED <<files, markers, damaged, pc, obj, cont, stripe, shard, fd, reply>>
        /\ UNCHANGED <<total, size, got, slen, out, value, leftover, solo, expect>>
    BY <1>7 DEF vars, disk, req, pos, reader, ghosts
  <2>2. DamageBounded' /\ Committed'
    BY <2>1 DEF ReadInv, DamageBounded, DamagedIn, Committed, HasStripe, Intact
  <2>3. PutProgress'
    BY <2>1 DEF ReadInv, PutProgress, Written, Writing, HasStripe, Intact, Key, Word, Chunk, StripeLen
  <2>4. ReadProgress'
    BY <2>1 DEF ReadInv, ReadProgress, Reading, PrefixOf, Loaded, HasStripe, StripeLen, IsCount
  <2> QED BY <1>0, <2>2, <2>3, <2>4 DEF ReadInv
<1> QED BY <1>1, <1>2, <1>3, <1>4, <1>5, <1>6, <1>7 DEF Next

\* GetObject and its reader: a read of an acknowledged object that ends
\* without an error delivered exactly the bytes of the PUT, and one that fails
\* delivered a prefix, whatever crashes, fails or is written meanwhile and
\* whatever damage is done, as long as one shard of each stripe is spared and
\* no header is turned into another that decodes.
THEOREM ReadsAreExact ==
  ASSUME "length" \notin FaultKinds, FaultBudget < ShardCount
  PROVE  Spec => []ReadExact
<1>1. Spared
  BY DEF Spared
<1>2. ReadInv => ReadExact
  BY DEF ReadInv, ReadProgress, Reading, ReadExact, ReadOf
<1>3. ReadInv /\ [Next]_vars => ReadInv'
  BY <1>1, ReadNext
<1> QED BY ReadInit, <1>2, <1>3, PTL DEF Spec

\* GetObject and its reader: while at most m shards of each stripe are lost
\* or rotten, an acknowledged object is always readable, but for a failed
\* walk over the whole store and I/O errors.
THEOREM ReadsAreAvailable ==
  ASSUME FaultKinds \subseteq {"missing", "payload"}, FaultBudget <= ParityShards
  PROVE  Spec => []ReadAvailable
<1>1. Spared /\ Tolerated
  BY ParamsAssumption, StoreAssumption DEF Spared, Tolerated, Mild, NewOK, ShardCount
<1>2. ReadInv => ReadAvailable
  BY <1>1 DEF ReadInv, ReadProgress, Reading, ReadAvailable, ReadOf
<1>3. ReadInv /\ [Next]_vars => ReadInv'
  BY <1>1, ReadNext
<1> QED BY ReadInit, <1>2, <1>3, PTL DEF Spec

-----------------------------------------------------------------------------
(* BytesAuthentic, whatever is damaged and however much.                   *)

\* Before anything is stored all is authentic.
LEMMA AuthenticInit == Init => AuthenticInv
<1> SUFFICES ASSUME Init PROVE AuthenticInv
  OBVIOUS
<1>1. AbsenceInv
  BY AbsenceInit
<1>2. \A o \in Objects : ObjectAuthentic(o)
  BY ValuesAssumption DEF Init, ObjectAuthentic
<1>3. \A p \in Clients : PutAuthentic(p) /\ ReadAuthentic(p)
  BY ValuesAssumption DEF Init, PutAuthentic, ReadAuthentic
<1> QED BY <1>1, <1>2, <1>3 DEF AuthenticInv

\* A step of the clients in S, or damage, preserves the invariant if it puts
\* bytes only into files of objects these clients are changing, if what it
\* newly promises is authentic, and if these clients keep their own part.
LEMMA AuthenticFrame ==
  ASSUME AuthenticInv, AbsenceInv', NEW S \in SUBSET Clients,
         \A q \in Clients \ S :
           /\ pc'[q] = pc[q] /\ obj'[q] = obj[q] /\ cont'[q] = cont[q]
           /\ stripe'[q] = stripe[q] /\ shard'[q] = shard[q]
           /\ got'[q] = got[q] /\ out'[q] = out[q]
           /\ solo'[q] => solo[q]
           /\ expect'[q] \in {expect[q], Unknown},
         \A k \in Keys, w \in Words :
           Genuine(files[k], w) => \/ Genuine(files'[k], w)
                                   \/ \E p \in S : Mutating(p) /\ k[1] = obj[p],
         \A o \in Objects : \/ value'[o] = Unknown
                            \/ value'[o] = value[o] /\ leftover'[o] = leftover[o]
                            \/ value[o] = Unknown /\ ObjectAuthentic(o)',
         \A p \in S : PutAuthentic(p)' /\ ReadAuthentic(p)'
  PROVE  AuthenticInv'
<1>1. TypeInv /\ Exclusion /\ TypeInv' /\ Exclusion'
  BY DEF AuthenticInv, AbsenceInv
<1>2. ASSUME NEW o \in Objects PROVE ObjectAuthentic(o)'
  <2>1. SUFFICES ASSUME NEW c \in Contents, value'[o] = c, ~leftover'[o],
                        value'[o] = value[o], leftover'[o] = leftover[o],
                        NEW s \in Stripes, NEW i \in Shards
                 PROVE  Genuine(files'[<<o, s, i>>], <<c, s>>)
    BY ValuesAssumption DEF ObjectAuthentic
  <2>2. Genuine(files[<<o, s, i>>], <<c, s>>)
    BY <2>1 DEF AuthenticInv, ObjectAuthentic
  <2>3. <<o, s, i>> \in Keys /\ <<c, s>> \in Words
    BY DEF Keys, Words
  <2>4. \A p \in S : ~(Mutating(p) /\ <<o, s, i>>[1] = obj[p])
    BY <1>1, <2>1, ValuesAssumption DEF Exclusion
  <2> QED BY <2>2, <2>3, <2>4
<1>3. ASSUME NEW q \in Clients \ S PROVE PutAuthentic(q)'
  <2>1. SUFFICES ASSUME solo'[q], pc'[q] \in PutStates PROVE PutAuthentic(q)'
    BY DEF PutAuthentic
  <2>2. /\ pc'[q] = pc[q] /\ obj'[q] = obj[q] /\ cont'[q] = cont[q]
        /\ stripe'[q] = stripe[q] /\ shard'[q] = shard[q] /\ solo[q]
    BY <2>1
  <2>3. /\ obj[q] \in Objects /\ cont[q] \in Contents /\ Mutating(q)
    BY <1>1, <2>1, <2>2 DEF TypeInv, LocalsOK, Mutating, PutStates
  <2>4. ASSUME NEW s \in Stripes, NEW i \in Shards,
               Genuine(files[<<obj[q], s, i>>], <<cont[q], s>>)
        PROVE  Genuine(files'[<<obj[q], s, i>>], <<cont[q], s>>)
    <3>1. <<obj[q], s, i>> \in Keys /\ <<cont[q], s>> \in Words
      BY <2>3 DEF Keys, Words
    <3>2. \A p \in S : ~(Mutating(p) /\ <<obj[q], s, i>>[1] = obj[p])
      BY <1>1, <2>2, <2>3 DEF Exclusion
    <3> QED BY <2>4, <3>1, <3>2
  <2>5. \A s \in Stripes : HasStripe(cont[q], s)' = HasStripe(cont[q], s)
    BY <2>2 DEF HasStripe
  <2>6. HasStripe(cont[q], stripe[q])' = HasStripe(cont[q], stripe[q])
    BY <2>2 DEF HasStripe
  <2>7. PutAuthentic(q)
    BY DEF AuthenticInv
  <2> QED BY <2>1, <2>2, <2>4, <2>5, <2>6, <2>7 DEF PutAuthentic
<1>4. ASSUME NEW q \in Clients \ S PROVE ReadAuthentic(q)'
  <2>1. SUFFICES ASSUME NEW c \in Contents, expect'[q] = c, ~leftover'[obj'[q]]
                 PROVE  /\ pc'[q] = "getLoad" =>
                             /\ Len(out'[q]) = stripe'[q]
                             /\ \A i \in Shards :
                                  got'[q][i] # None => ShardFor(got'[q][i], <<c, stripe'[q]>>)
                        /\ \A i \in 1 .. Len(out'[q]) : CutOrPadded(out'[q][i], c, i - 1)
    BY DEF ReadAuthentic
  <2>2. /\ pc'[q] = pc[q] /\ obj'[q] = obj[q] /\ stripe'[q] = stripe[q]
        /\ got'[q] = got[q] /\ out'[q] = out[q] /\ expect[q] = c
    BY <2>1, ValuesAssumption
  <2>3. obj[q] \in Objects /\ value[obj[q]] = c /\ value'[obj[q]] = c
    BY <1>1, <2>1, <2>2, ValuesAssumption DEF Exclusion, TypeInv, LocalsOK, GetStates
  <2>4. leftover'[obj[q]] = leftover[obj[q]]
    BY <2>3, ValuesAssumption
  <2>5. ReadAuthentic(q)
    BY DEF AuthenticInv
  <2> QED BY <2>1, <2>2, <2>4, <2>5 DEF ReadAuthentic
<1> QED BY <1>2, <1>3, <1>4 DEF AuthenticInv

\* The frame for a step of one client.
LEMMA AuthenticStep ==
  ASSUME AuthenticInv, AbsenceInv', NEW p \in Clients,
         \A q \in Clients \ {p} :
           /\ pc'[q] = pc[q] /\ obj'[q] = obj[q] /\ cont'[q] = cont[q]
           /\ stripe'[q] = stripe[q] /\ shard'[q] = shard[q]
           /\ got'[q] = got[q] /\ out'[q] = out[q]
           /\ solo'[q] => solo[q]
           /\ expect'[q] \in {expect[q], Unknown},
         \A k \in Keys, w \in Words :
           Genuine(files[k], w) => Genuine(files'[k], w) \/ (Mutating(p) /\ k[1] = obj[p]),
         \A o \in Objects : \/ value'[o] = Unknown
                            \/ value'[o] = value[o] /\ leftover'[o] = leftover[o]
                            \/ value[o] = Unknown /\ ObjectAuthentic(o)',
         PutAuthentic(p)', ReadAuthentic(p)'
  PROVE  AuthenticInv'
<1> DEFINE S == {p}
<1>1. S \in SUBSET Clients /\ \A r \in S : PutAuthentic(r)' /\ ReadAuthentic(r)'
  OBVIOUS
<1>2. \A q \in Clients \ S :
        /\ pc'[q] = pc[q] /\ obj'[q] = obj[q] /\ cont'[q] = cont[q]
        /\ stripe'[q] = stripe[q] /\ shard'[q] = shard[q]
        /\ got'[q] = got[q] /\ out'[q] = out[q]
        /\ solo'[q] => solo[q]
        /\ expect'[q] \in {expect[q], Unknown}
  OBVIOUS
<1>3. \A k \in Keys, w \in Words :
        Genuine(files[k], w) => \/ Genuine(files'[k], w)
                                \/ \E r \in S : Mutating(r) /\ k[1] = obj[r]
  OBVIOUS
<1> HIDE DEF S
<1> QED BY <1>1, <1>2, <1>3, AuthenticFrame

\* Creating a file, writing its header and damaging it bring in no bytes of
\* another shard.
LEMMA GenuineFacts ==
  ASSUME NEW f \in FileData, NEW w
  PROVE  /\ Genuine(CreateFile, w) /\ Genuine(None, w)
         /\ Genuine(f, w) => /\ Genuine(WriteHeader(f, w, StripeLen(w[1], w[2])), w)
                             /\ \A n \in Nat : Genuine(WritePayload(f, w, n), w)
         /\ \A kind \in DamageKinds : \A g \in Damage(f, kind, StripeSize + 1) :
              Genuine(f, w) => Genuine(g, w)
<1>1. Genuine(CreateFile, w) /\ Genuine(None, w)
  BY DEF Genuine, CreateFile
<1>2. f # None
  BY ValuesAssumption
<1>3. ASSUME Genuine(f, w)
      PROVE  /\ Genuine(WriteHeader(f, w, StripeLen(w[1], w[2])), w)
             /\ \A n \in Nat : Genuine(WritePayload(f, w, n), w)
  <2>1. WriteHeader(f, w, StripeLen(w[1], w[2])).pay = f.pay
    BY DEF WriteHeader, FileData
  <2>2. WriteHeader(f, w, StripeLen(w[1], w[2])).hdr.dlen = ShardLen(w)
    BY DEF WriteHeader, Header, ShardLen, FileData
  <2>3. ASSUME NEW n \in Nat
        PROVE  WritePayload(f, w, n).pay = w /\ WritePayload(f, w, n).hdr = f.hdr
    BY DEF WritePayload, FileData
  <2> QED BY <1>2, <1>3, <2>1, <2>2, <2>3 DEF Genuine
<1>4. ASSUME NEW kind \in DamageKinds, NEW g \in Damage(f, kind, StripeSize + 1), Genuine(f, w)
      PROVE  Genuine(g, w)
  <2>1. f.pay \in {w, None, Garbage} /\ (f.hdr # None => f.hdr.dlen = ShardLen(w))
    BY <1>2, <1>4 DEF Genuine
  <2>2. CASE kind = "missing"
    BY <1>1, <2>2 DEF Damage
  <2>3. CASE kind = "payload"
    <3>1. g = [f EXCEPT !.pay = Garbage]
      BY <2>3 DEF Damage
    <3> QED BY <2>1, <3>1 DEF Genuine, FileData
  <2>4. CASE kind = "short"
    <3>1. g = [f EXCEPT !.pay = None, !.n = 0]
      BY <2>4 DEF Damage
    <3> QED BY <2>1, <3>1 DEF Genuine, FileData
  <2>5. CASE kind = "header"
    <3>1. g = [f EXCEPT !.hdr = None]
      BY <2>5 DEF Damage
    <3> QED BY <2>1, <3>1 DEF Genuine, FileData
  <2>6. CASE kind = "length"
    <3>1. PICK l \in 0 .. StripeSize + 1 : f.hdr # None /\ g = [f EXCEPT !.hdr.len = l]
      BY <2>6 DEF Damage
    <3>2. g.pay = f.pay /\ f.hdr \in Headers /\ g.hdr = [f.hdr EXCEPT !.len = l]
      BY <3>1 DEF FileData
    <3>3. g.hdr.dlen = f.hdr.dlen
      BY <3>2 DEF Headers
    <3> QED BY <2>1, <3>1, <3>2, <3>3 DEF Genuine
  <2> QED BY <2>2, <2>3, <2>4, <2>5, <2>6 DEF DamageKinds
<1> QED BY <1>1, <1>3, <1>4

\* What a reader that gets only shards of w joins is w, with no more bytes than
\* the data shards of w hold.
LEMMA JoinsGenuine ==
  ASSUME NEW w \in Words, NEW n \in Nat,
         NEW g \in [Shards -> ShardData \cup {None}],
         \A i \in Shards : g[i] # None => ShardFor(g[i], w),
         LoadError(g, n) = "none"
  PROVE  Joined(Whole(g), n) = w /\ n <= DataShards * ShardLen(w)
<1>1. 0 \in DataIdx /\ DataIdx \subseteq Shards
  BY ParamsAssumption DEF DataIdx, Shards, ShardCount, NewOK
<1>2. /\ \A i \in DataIdx : Whole(g)[i] # None
      /\ ~(Offset(Whole(g), DataShards) < n)
  <2>1. JoinError(Whole(g), n) = "none"
    BY DEF LoadError
  <2> QED BY <2>1 DEF JoinError
<1>3. \A i \in DataIdx : Whole(g)[i].cw = w /\ Whole(g)[i].n = ShardLen(w)
  <2>1. CASE Whole(g) = g
    BY <1>1, <1>2, <2>1 DEF ShardFor
  <2>2. CASE Whole(g) # g
    <3> DEFINE have == Present(g)
               len  == CHOOSE m \in {g[i].n : i \in have} : TRUE
    <3>1. /\ have # {}
          /\ Whole(g) = [i \in Shards |-> IF i \in have THEN g[i]
                                          ELSE [cw |-> Decoded(g), n |-> len]]
      BY <2>2 DEF Whole, Reconstruct
    <3>2. \A i \in have : g[i].cw = w /\ g[i].n = ShardLen(w) /\ i \in Shards
      BY DEF Present, ShardFor
    <3>3. {g[i].cw : i \in have} = {w}
      BY <3>1, <3>2
    <3>4. \A i \in Lowest(have) : g[i].cw = w
      BY <3>2 DEF Lowest
    <3> HIDE DEF have
    <3>5. Decoded(g) = w
      BY <3>3, <3>4 DEF Decoded, have
    <3>6. len = ShardLen(w)
      <4>1. {g[i].n : i \in have} = {ShardLen(w)}
        BY <3>1, <3>2
      <4> QED BY <4>1
    <3> HIDE DEF len
    <3> QED BY <1>1, <3>1, <3>2, <3>5, <3>6
  <2> QED BY <2>1, <2>2
<1>4. Offset(Whole(g), DataShards) = DataShards * ShardLen(w)
  BY <1>1, <1>3 DEF Offset
<1>5. n <= DataShards * ShardLen(w)
  <2>1. ShardLen(w) \in Int /\ DataShards \in Nat
    <3>1. PICK i \in Shards : g[i] # None
      <4>1. Valid(g) # {}
        <5>1. ~(Cardinality(Valid(g)) < DataShards)
          BY DEF LoadError
        <5>2. Valid(g) = {} => Cardinality(Valid(g)) = 0
          BY FS_EmptySet
        <5> QED BY <5>1, <5>2, ParamsAssumption DEF NewOK
      <4> QED BY <4>1 DEF Valid
    <3>2. g[i].n \in Nat /\ g[i].n = ShardLen(w)
      BY <3>1 DEF ShardFor, ShardData
    <3> QED BY <3>2, ParamsAssumption
  <2>2. DataShards * ShardLen(w) \in Int
    BY <2>1
  <2> QED BY <1>2, <1>4, <2>2
<1> QED BY <1>1, <1>3, <1>5 DEF Joined

\* The steps of a PUT up to the marker.
LEMMA AuthenticPut ==
  ASSUME AuthenticInv, AbsenceInv', NEW p \in Clients,
         PutCreate(p) \/ PutHeader(p) \/ PutPayload(p) \/ MarkerCreate(p)
  PROVE  AuthenticInv'
<1>1. TypeInv /\ Exclusion
  BY DEF AuthenticInv, AbsenceInv
<1>2. /\ pc \in [Clients -> PutStates \cup GetStates \cup DelStates \cup {"idle", "done"}]
      /\ stripe \in [Clients -> Nat] /\ shard \in [Clients -> 0 .. ShardCount]
      /\ files \in [Keys -> FileData \cup {None}]
  BY <1>1 DEF TypeInv, TypeOK, ControlOK, DiskOK
<1>3. pc[p] \in PutStates /\ Mutating(p) /\ expect[p] = Unknown
  BY <1>1 DEF PutCreate, PutHeader, PutPayload, MarkerCreate, PutStates, Mutating,
              Exclusion, GetStates
<1>4. UNCHANGED <<obj, cont, got, out, value, leftover, solo, expect>>
  BY DEF PutCreate, PutHeader, PutPayload, MarkerCreate, req, reader, ghosts
<1>5. \A q \in Clients \ {p} : pc'[q] = pc[q] /\ stripe'[q] = stripe[q] /\ shard'[q] = shard[q]
  BY <1>2 DEF PutCreate, PutHeader, PutPayload, MarkerCreate, Goto, pos
<1>6. ReadAuthentic(p)'
  BY <1>3, <1>4, ValuesAssumption DEF ReadAuthentic
<1>7. PutAuthentic(p)
  BY DEF AuthenticInv
<1>8. CASE MarkerCreate(p)
  <2>1. files' = files /\ stripe' = stripe /\ shard' = shard /\ pc'[p] = "markerWrite"
        /\ pc[p] = "markerCreate"
    BY <1>2, <1>8 DEF MarkerCreate, Goto, pos
  <2>2. PutAuthentic(p)'
    BY <1>4, <1>7, <2>1 DEF PutAuthentic, HasStripe, PutStates
  <2>3. \A k \in Keys, w \in Words : Genuine(files[k], w) => Genuine(files'[k], w)
    BY <2>1
  <2> QED BY <1>4, <1>5, <1>6, <2>2, <2>3, AuthenticStep
<1>9. CASE PutCreate(p) \/ PutHeader(p) \/ PutPayload(p)
  <2>1. pc[p] \in ShardStates
    BY <1>9 DEF PutCreate, PutHeader, PutPayload, ShardStates
  <2>2. /\ obj[p] \in Objects /\ cont[p] \in Contents
        /\ stripe[p] \in Stripes /\ shard[p] \in Shards
        /\ Key(p) \in Keys /\ Word(p) \in Words /\ Chunk(p) \in Nat
    BY <1>1, <2>1, PutKey
  <2>3. \A k \in Keys : k # Key(p) => files'[k] = files[k]
    BY <1>2, <1>9, <2>2 DEF PutCreate, PutHeader, PutPayload
  <2>4. \A k \in Keys, w \in Words :
          Genuine(files[k], w) => Genuine(files'[k], w) \/ (Mutating(p) /\ k[1] = obj[p])
    BY <1>3, <2>3 DEF Key
  <2>5. ASSUME solo[p] PROVE PutAuthentic(p)'
    <3>1. ASSUME NEW s \in Stripes, NEW i \in Shards, HasStripe(cont[p], s),
                 s < stripe[p] \/ (s = stripe[p] /\ i < shard[p])
          PROVE  Genuine(files'[<<obj[p], s, i>>], <<cont[p], s>>)
      <4>1. Genuine(files[<<obj[p], s, i>>], <<cont[p], s>>)
        BY <1>3, <1>7, <2>5, <3>1 DEF PutAuthentic
      <4>2. <<obj[p], s, i>> \in Keys /\ <<obj[p], s, i>> # Key(p)
        BY <2>2, <3>1 DEF Keys, Key, Stripes, Shards
      <4> QED BY <2>3, <4>1, <4>2
    <3>2. ASSUME pc[p] \in {"putHeader", "putPayload"}
          PROVE  Genuine(files[Key(p)], Word(p))
      <4>1. HasStripe(cont[p], stripe[p])
        BY <1>1, <2>1 DEF TypeInv, LocalsOK
      <4> QED BY <1>3, <1>7, <2>2, <2>5, <3>2, <4>1 DEF PutAuthentic, Key, Word
    <3>3. Genuine(files'[Key(p)], Word(p))
      <4>1. CASE PutCreate(p)
        <5>1. files'[Key(p)] = CreateFile
          BY <1>2, <2>2, <4>1 DEF PutCreate
        <5> QED BY <5>1 DEF Genuine, CreateFile
      <4>2. CASE PutHeader(p)
        <5>1. Genuine(files[Key(p)], Word(p))
          BY <3>2, <4>2 DEF PutHeader
        <5>2. CASE ~fd[p]
          BY <4>2, <5>1, <5>2 DEF PutHeader
        <5>3. CASE fd[p]
          <6>1. files[Key(p)] # None /\ files[Key(p)] \in FileData
            BY <1>1, <1>2, <2>2, <4>2, <5>3 DEF TypeInv, HandlesOK, PutHeader
          <6>2. files'[Key(p)] = WriteHeader(files[Key(p)], Word(p), Chunk(p))
            BY <1>2, <2>2, <4>2, <5>3 DEF PutHeader
          <6>3. Word(p) = <<cont[p], stripe[p]>> /\ Chunk(p) = StripeLen(cont[p], stripe[p])
            BY DEF Word, Chunk
          <6>4. Chunk(p) = StripeLen(Word(p)[1], Word(p)[2])
            BY <6>3
          <6> QED BY <5>1, <6>1, <6>2, <6>4, GenuineFacts
        <5> QED BY <5>2, <5>3
      <4>3. CASE PutPayload(p)
        <5>1. Genuine(files[Key(p)], Word(p))
          BY <3>2, <4>3 DEF PutPayload
        <5>2. CASE ~fd[p]
          BY <4>3, <5>1, <5>2 DEF PutPayload
        <5>3. CASE fd[p]
          <6>1. files[Key(p)] # None /\ files[Key(p)] \in FileData
            BY <1>1, <1>2, <2>2, <4>3, <5>3 DEF TypeInv, HandlesOK, PutPayload
          <6>2. files'[Key(p)] = WritePayload(files[Key(p)], Word(p), Chunk(p))
            BY <1>2, <2>2, <4>3, <5>3 DEF PutPayload
          <6> QED BY <2>2, <5>1, <6>1, <6>2, GenuineFacts
        <5> QED BY <5>2, <5>3
      <4> QED BY <1>9, <4>1, <4>2, <4>3
    <3>4. CASE PutCreate(p) \/ PutHeader(p)
      <4>1. stripe' = stripe /\ shard' = shard /\ pc'[p] \in {"putHeader", "putPayload"}
        BY <1>2, <3>4 DEF PutCreate, PutHeader, Goto, pos
      <4> QED BY <1>4, <3>1, <3>3, <4>1 DEF PutAuthentic, HasStripe, Key, Word
    <3>5. CASE PutPayload(p)
      <4>1. \/ /\ shard'[p] = shard[p] + 1 /\ stripe'[p] = stripe[p] /\ pc'[p] = "putCreate"
            \/ /\ shard[p] + 1 = ShardCount /\ shard'[p] = 0 /\ stripe'[p] = stripe[p] + 1
               /\ HasStripe(cont[p], stripe[p] + 1) => pc'[p] = "putCreate"
               /\ ~HasStripe(cont[p], stripe[p] + 1) => pc'[p] = "markerCreate"
        BY <1>2, <2>2, <3>5, ShardFacts DEF PutPayload, Goto, Shards
      <4>2. ASSUME NEW s \in Stripes, NEW i \in Shards, HasStripe(cont[p], s),
                   s < stripe'[p] \/ (s = stripe'[p] /\ i < shard'[p])
            PROVE  Genuine(files'[<<obj[p], s, i>>], <<cont[p], s>>)
        <5>1. \/ s < stripe[p] \/ (s = stripe[p] /\ i < shard[p])
              \/ s = stripe[p] /\ i = shard[p]
          BY <2>2, <4>1, <4>2, ShardFacts DEF Stripes, Shards
        <5> QED BY <3>1, <3>3, <4>2, <5>1 DEF Key, Word
      <4>3. pc'[p] \notin {"putHeader", "putPayload"}
        BY <4>1
      <4>4. pc'[p] \in {"markerCreate", "markerWrite"} => ~HasStripe(cont[p], stripe'[p])
        BY <4>1
      <4> QED BY <1>4, <4>2, <4>3, <4>4 DEF PutAuthentic, HasStripe
    <3> QED BY <1>9, <3>4, <3>5
  <2>6. PutAuthentic(p)'
    BY <1>4, <2>5 DEF PutAuthentic
  <2> QED BY <1>4, <1>5, <1>6, <2>4, <2>6, AuthenticStep
<1> QED BY <1>8, <1>9

\* Steps of other requests that write nothing: what is left to show of them
\* is what the reader holds.
LEMMA AuthenticQuiet ==
  ASSUME AuthenticInv, AbsenceInv', NEW p \in Clients,
         UNCHANGED <<obj, cont, value, leftover, solo, expect>>,
         \A q \in Clients \ {p} : /\ pc'[q] = pc[q] /\ stripe'[q] = stripe[q]
                                  /\ shard'[q] = shard[q]
                                  /\ got'[q] = got[q] /\ out'[q] = out[q],
         \A k \in Keys : files'[k] \in {files[k], None},
         pc'[p] \notin PutStates, ReadAuthentic(p)'
  PROVE  AuthenticInv'
<1>1. PutAuthentic(p)'
  BY DEF PutAuthentic
<1>2. \A k \in Keys, w \in Words : Genuine(files[k], w) => Genuine(files'[k], w)
  BY DEF Genuine
<1> QED BY <1>1, <1>2, AuthenticStep

\* Steps that leave alone what the request has read.
LEMMA AuthenticOther ==
  ASSUME AuthenticInv, AbsenceInv', NEW p \in Clients,
         \/ ListError(p) \/ GetList(p) \/ GetMarker(p) \/ GetSize(p) \/ RequestFail(p)
         \/ DelList(p) \/ DelShard(p)
  PROVE  AuthenticInv'
<1>1. TypeInv /\ TypeInv'
  BY DEF AuthenticInv, AbsenceInv
<1>2. /\ pc \in [Clients -> PutStates \cup GetStates \cup DelStates \cup {"idle", "done"}]
      /\ shard \in [Clients -> 0 .. ShardCount]
      /\ files \in [Keys -> FileData \cup {None}]
  BY <1>1 DEF TypeInv, TypeOK, ControlOK, DiskOK
<1>3. UNCHANGED <<obj, cont, stripe, got, out, value, leftover, solo, expect>>
  BY DEF ListError, GetList, GetMarker, GetSize, RequestFail, DelList, DelShard, req, pos,
         reader, ghosts
<1>4. \A q \in Clients \ {p} : pc'[q] = pc[q] /\ shard'[q] = shard[q]
  BY <1>2 DEF ListError, GetList, GetMarker, GetSize, RequestFail, DelList, DelShard, pos,
              Goto, Finish
<1>5. /\ pc'[p] \in {"getMarker", "getSize", "getLoad", "done", "delShard", "delMarker"}
      /\ pc'[p] = "getLoad" => pc[p] = "getSize"
  BY <1>2 DEF ListError, GetList, GetMarker, GetSize, RequestFail, DelList, DelShard,
              Goto, Finish
<1>6. \A k \in Keys : files'[k] \in {files[k], None}
  BY <1>2 DEF ListError, GetList, GetMarker, GetSize, RequestFail, DelList, DelShard, disk
<1>7. ReadAuthentic(p)'
  <2>1. pc[p] = "getSize" => out[p] = << >> /\ stripe[p] = 0 /\ got[p] = NoShards
    BY <1>1 DEF TypeInv, LocalsOK
  <2>2. pc[p] = "getSize" => Len(out[p]) = stripe[p] /\ \A i \in Shards : got[p][i] = None
    BY <2>1 DEF NoShards
  <2>3. ReadAuthentic(p)
    BY DEF AuthenticInv
  <2> QED BY <1>3, <1>5, <2>2, <2>3 DEF ReadAuthentic
<1>8. pc'[p] \notin PutStates
  BY <1>5 DEF PutStates
<1> QED BY <1>3, <1>4, <1>6, <1>7, <1>8, AuthenticQuiet

\* A shard that passes GetShard is of the stripe it is read for.
LEMMA AuthenticGetLoad ==
  ASSUME AuthenticInv, AbsenceInv', NEW p \in Clients, GetLoad(p)
  PROVE  AuthenticInv'
<1>1. TypeInv /\ TypeInv' /\ Exclusion
  BY DEF AuthenticInv, AbsenceInv
<1>2. /\ pc \in [Clients -> PutStates \cup GetStates \cup DelStates \cup {"idle", "done"}]
      /\ shard \in [Clients -> 0 .. ShardCount] /\ stripe \in [Clients -> Nat]
      /\ files \in [Keys -> FileData \cup {None}]
      /\ got \in [Clients -> [Shards -> ShardData \cup {None}]]
  BY <1>1 DEF TypeInv, TypeOK, ControlOK, DiskOK, ReaderOK
<1>3. /\ UNCHANGED <<obj, cont, stripe, files, out, value, leftover, solo, expect>>
      /\ pc[p] = "getLoad" /\ shard[p] \in Shards /\ pc'[p] \in {"getLoad", "done"}
  BY <1>2, ShardFacts DEF GetLoad, req, disk, ghosts, Finish, Shards
<1>4. \A q \in Clients \ {p} : pc'[q] = pc[q] /\ shard'[q] = shard[q] /\ got'[q] = got[q]
  BY <1>2 DEF GetLoad, Finish
<1>5. ReadAuthentic(p)'
  <2>1. SUFFICES ASSUME NEW c \in Contents, expect[p] = c, ~leftover[obj[p]]
                 PROVE  /\ Len(out[p]) = stripe[p]
                        /\ \A i \in Shards : got'[p][i] # None => ShardFor(got'[p][i], <<c, stripe[p]>>)
                        /\ \A i \in 1 .. Len(out[p]) : CutOrPadded(out[p][i], c, i - 1)
    BY <1>3 DEF ReadAuthentic
  <2>2. /\ Len(out[p]) = stripe[p]
        /\ \A i \in Shards : got[p][i] # None => ShardFor(got[p][i], <<c, stripe[p]>>)
        /\ \A i \in 1 .. Len(out[p]) : CutOrPadded(out[p][i], c, i - 1)
    BY <1>3, <2>1 DEF AuthenticInv, ReadAuthentic
  <2> DEFINE f == files[Key(p)]
             g == [cw |-> f.pay, n |-> f.hdr.dlen]
  <2>3. obj[p] \in Objects /\ value[obj[p]] = c /\ stripe[p] \in Stripes
    <3>1. obj[p] \in Objects /\ value[obj[p]] = c
      BY <1>1, <1>3, <2>1, ValuesAssumption DEF Exclusion, TypeInv, LocalsOK
    <3>2. stripe[p] \in Nat /\ stripe[p] < total[p] /\ total[p] \in 0 .. MaxStripe + 1
      BY <1>1, <1>2, <1>3 DEF TypeInv, LocalsOK, TypeOK, ReaderOK
    <3> QED BY <3>1, <3>2, StoreAssumption DEF Stripes
  <2>4. Key(p) \in Keys /\ Genuine(f, <<c, stripe[p]>>)
    BY <1>3, <2>1, <2>3 DEF AuthenticInv, ObjectAuthentic, Key, Keys
  <2>5. GetShard(f) = "ok" => ShardFor(g, <<c, stripe[p]>>)
    <3>1. SUFFICES ASSUME GetShard(f) = "ok"
                   PROVE  f.pay = <<c, stripe[p]>> /\ f.hdr.dlen = ShardLen(<<c, stripe[p]>>)
      BY DEF ShardFor
    <3>2. f # None /\ f.pay = f.hdr.sum /\ f.hdr \in Headers
      BY <1>2, <2>4, <3>1, ReadFacts, ValuesAssumption
    <3>3. f.pay \in Words
      BY <3>2 DEF Headers
    <3> QED BY <2>4, <3>2, <3>3, ValuesAssumption DEF Genuine
  <2>6. \/ got'[p] = got[p]
        \/ GetShard(f) = "ok" /\ got'[p] = [got[p] EXCEPT ![shard[p]] = g]
    BY <1>2 DEF GetLoad
  <2>7. got[p] \in [Shards -> ShardData \cup {None}]
    BY <1>2
  <2> HIDE DEF g, f
  <2> QED BY <1>3, <2>2, <2>5, <2>6, <2>7
<1>6. pc'[p] \notin PutStates
  BY <1>3 DEF PutStates
<1> QED BY <1>3, <1>4, <1>5, <1>6, AuthenticQuiet

\* So is the stripe that is joined from such shards.
LEMMA AuthenticGetJoin ==
  ASSUME AuthenticInv, AbsenceInv', NEW p \in Clients, GetJoin(p)
  PROVE  AuthenticInv'
<1>1. TypeInv /\ TypeInv'
  BY DEF AuthenticInv, AbsenceInv
<1>2. /\ pc \in [Clients -> PutStates \cup GetStates \cup DelStates \cup {"idle", "done"}]
      /\ shard \in [Clients -> 0 .. ShardCount] /\ stripe \in [Clients -> Nat]
      /\ got \in [Clients -> [Shards -> ShardData \cup {None}]]
      /\ out \in [Clients -> Seq(Delivered)] /\ slen \in [Clients -> Nat]
  BY <1>1 DEF TypeInv, TypeOK, ControlOK, ReaderOK
<1>3. /\ UNCHANGED <<obj, cont, files, value, leftover, solo, expect>>
      /\ pc[p] = "getLoad" /\ pc'[p] \in {"getLoad", "done"}
  BY <1>2 DEF GetJoin, req, disk, ghosts, Finish
<1>4. \A q \in Clients \ {p} : /\ pc'[q] = pc[q] /\ shard'[q] = shard[q] /\ got'[q] = got[q]
                               /\ stripe'[q] = stripe[q] /\ out'[q] = out[q]
  BY <1>2 DEF GetJoin, Finish, pos
<1> DEFINE err == LoadError(got[p], slen[p])
           res == [cw |-> Joined(Whole(got[p]), slen[p]), len |-> slen[p]]
<1>5. \/ out' = out /\ pc'[p] = "done"
      \/ /\ err = "none"
         /\ out'[p] = Append(out[p], res) /\ stripe'[p] = stripe[p] + 1 /\ got'[p] = NoShards
  BY <1>2 DEF GetJoin, Finish
<1>6. ReadAuthentic(p)'
  <2>1. SUFFICES ASSUME NEW c \in Contents, expect[p] = c, ~leftover[obj[p]]
                 PROVE  /\ pc'[p] = "getLoad" =>
                             /\ Len(out'[p]) = stripe'[p]
                             /\ \A i \in Shards :
                                  got'[p][i] # None => ShardFor(got'[p][i], <<c, stripe'[p]>>)
                        /\ \A i \in 1 .. Len(out'[p]) : CutOrPadded(out'[p][i], c, i - 1)
    BY <1>3 DEF ReadAuthentic
  <2>2. /\ Len(out[p]) = stripe[p]
        /\ \A i \in Shards : got[p][i] # None => ShardFor(got[p][i], <<c, stripe[p]>>)
        /\ \A i \in 1 .. Len(out[p]) : CutOrPadded(out[p][i], c, i - 1)
    BY <1>3, <2>1 DEF AuthenticInv, ReadAuthentic
  <2>3. CASE out' = out /\ pc'[p] = "done"
    BY <2>2, <2>3
  <2>4. CASE /\ err = "none"
             /\ out'[p] = Append(out[p], res) /\ stripe'[p] = stripe[p] + 1 /\ got'[p] = NoShards
    <3>1. <<c, stripe[p]>> \in Words
      <4>1. stripe[p] \in Nat /\ stripe[p] < total[p] /\ total[p] \in 0 .. MaxStripe + 1
        BY <1>1, <1>2, <1>3 DEF TypeInv, LocalsOK, TypeOK, ReaderOK
      <4> QED BY <4>1, StoreAssumption DEF Words, Stripes
    <3>2. CutOrPadded(res, c, stripe[p])
      <4>1. ShardLen(<<c, stripe[p]>>) = SplitSize(StripeLen(c, stripe[p]))
        BY DEF ShardLen
      <4>2. res.cw = <<c, stripe[p]>> /\ res.len <= DataShards * ShardLen(<<c, stripe[p]>>)
        BY <1>2, <2>2, <2>4, <3>1, JoinsGenuine
      <4> QED BY <4>1, <4>2 DEF CutOrPadded
    <3>3. \A i \in Shards : got'[p][i] = None
      BY <2>4 DEF NoShards
    <3> DEFINE seq == out[p]
               n   == stripe[p]
    <3>4. seq \in Seq(Delivered) /\ Len(seq) = n /\ n \in Nat
      BY <1>2, <2>2
    <3> HIDE DEF res
    <3>5. Len(out'[p]) = stripe'[p]
      BY <2>4, <3>4
    <3>6. ASSUME NEW i \in 1 .. Len(out'[p]) PROVE CutOrPadded(out'[p][i], c, i - 1)
      <4>1. CASE i <= n
        <5>1. i \in 1 .. Len(out[p])
          BY <2>4, <3>4, <3>5, <4>1
        <5>2. out'[p][i] = out[p][i]
          BY <2>4, <3>4, <5>1
        <5> QED BY <2>2, <5>1, <5>2
      <4>2. CASE i = n + 1
        <5>1. out'[p][i] = res
          BY <2>4, <3>4, <4>2
        <5>2. i - 1 = stripe[p]
          BY <3>4, <4>2
        <5> QED BY <3>2, <5>1, <5>2
      <4>3. i <= n \/ i = n + 1
        BY <2>4, <3>4, <3>5
      <4> QED BY <4>1, <4>2, <4>3
    <3> QED BY <3>3, <3>5, <3>6
  <2> QED BY <1>5, <2>3, <2>4
<1>7. \A k \in Keys : files'[k] \in {files[k], None}
  BY <1>3
<1>8. pc'[p] \notin PutStates
  BY <1>3 DEF PutStates
<1> QED BY <1>3, <1>4, <1>6, <1>7, <1>8, AuthenticQuiet

\* An acknowledged PUT without a leftover has written all there is of the
\* object; after a DELETE nothing is promised of its bytes.
LEMMA AuthenticAck ==
  ASSUME AuthenticInv, AbsenceInv', NEW p \in Clients, MarkerWrite(p) \/ DelMarker(p)
  PROVE  AuthenticInv'
<1>1. TypeInv /\ Exclusion
  BY DEF AuthenticInv, AbsenceInv
<1>2. /\ pc \in [Clients -> PutStates \cup GetStates \cup DelStates \cup {"idle", "done"}]
      /\ stripe \in [Clients -> Nat] /\ obj[p] \in Objects
      /\ value \in [Objects -> Contents \cup {None, Unknown}]
      /\ leftover \in [Objects -> BOOLEAN]
  BY <1>1 DEF TypeInv, TypeOK, ControlOK, GhostsOK, LocalsOK, MarkerWrite, DelMarker
<1>3. Mutating(p) /\ value[obj[p]] = Unknown /\ expect[p] = Unknown
  BY <1>1 DEF MarkerWrite, DelMarker, Mutating, PutStates, DelStates, Exclusion, GetStates
<1>4. /\ UNCHANGED <<files, obj, cont, stripe, shard, got, out, solo, expect>>
      /\ pc' = [pc EXCEPT ![p] = "done"]
  BY DEF MarkerWrite, DelMarker, Finish, Acknowledge, req, pos, reader, ghosts
<1>5. PutAuthentic(p)' /\ ReadAuthentic(p)'
  BY <1>2, <1>3, <1>4, ValuesAssumption DEF PutAuthentic, ReadAuthentic, PutStates
<1>6. ASSUME NEW o \in Objects
      PROVE  \/ value'[o] = value[o] /\ leftover'[o] = leftover[o]
             \/ value[o] = Unknown /\ ObjectAuthentic(o)'
  <2>1. CASE value' = value /\ leftover' = leftover
    BY <2>1
  <2>2. CASE o # obj[p]
    <3>1. value'[o] = value[o] /\ leftover'[o] = leftover[o]
      BY <1>2, <2>2 DEF MarkerWrite, DelMarker, Acknowledge, ghosts
    <3> QED BY <3>1
  <2>3. CASE DelMarker(p) /\ solo[p] /\ o = obj[p]
    <3>1. value'[o] = None
      BY <1>2, <2>3 DEF DelMarker, Acknowledge
    <3> QED BY <1>3, <2>3, <3>1, ValuesAssumption DEF ObjectAuthentic
  <2>4. CASE MarkerWrite(p) /\ solo[p] /\ o = obj[p] /\ ~(value' = value /\ leftover' = leftover)
    <3> DEFINE c == cont[p]
    <3>1. value'[o] = c /\ leftover'[o] = HasLeftover(o, c)
      BY <1>2, <2>4 DEF MarkerWrite, Acknowledge, ghosts
    <3>2. /\ c \in Contents /\ ~HasStripe(c, stripe[p]) /\ stripe[p] \in Nat
          /\ \A s \in Stripes, i \in Shards :
               HasStripe(c, s) /\ s < stripe[p] => Genuine(files[<<o, s, i>>], <<c, s>>)
      <4>1. pc[p] = "markerWrite" /\ pc[p] \in PutStates
        BY <2>4 DEF MarkerWrite, PutStates
      <4>2. c \in Contents /\ stripe[p] \in Nat
        BY <1>1, <1>2, <4>1 DEF TypeInv, LocalsOK
      <4>3. PutAuthentic(p)
        BY DEF AuthenticInv
      <4> QED BY <2>4, <4>1, <4>2, <4>3 DEF PutAuthentic
    <3>3. ASSUME ~HasLeftover(o, c), NEW s \in Stripes, NEW i \in Shards
          PROVE  Genuine(files[<<o, s, i>>], <<c, s>>)
      <4>1. CASE HasStripe(c, s)
        <5>1. s \in Nat /\ ~(stripe[p] <= s)
          BY <3>2, <4>1, StripeOrder, StoreAssumption DEF Stripes
        <5> QED BY <3>2, <4>1, <5>1
      <4>2. CASE ~HasStripe(c, s)
        BY <3>3, <4>2 DEF HasLeftover, Genuine
      <4> QED BY <4>1, <4>2
    <3>4. ObjectAuthentic(o)'
      BY <1>4, <3>1, <3>3 DEF ObjectAuthentic
    <3> QED BY <1>3, <2>4, <3>4
  <2>5. CASE ~solo[p]
    BY <2>1, <2>5 DEF MarkerWrite, DelMarker, Acknowledge, ghosts
  <2> QED BY <2>1, <2>2, <2>3, <2>4, <2>5
<1>7. \A q \in Clients \ {p} : pc'[q] = pc[q]
  BY <1>2, <1>4
<1>8. \A k \in Keys, w \in Words : Genuine(files[k], w) => Genuine(files'[k], w)
  BY <1>4
<1> QED BY <1>4, <1>5, <1>6, <1>7, <1>8, AuthenticStep

\* A request that begins.
LEMMA AuthenticStart ==
  ASSUME AuthenticInv, AbsenceInv', NEW p \in Clients, Start(p)
  PROVE  AuthenticInv'
<1>1. TypeInv /\ TypeInv' /\ Exclusion'
  BY DEF AuthenticInv, AbsenceInv
<1>2. /\ pc \in [Clients -> PutStates \cup GetStates \cup DelStates \cup {"idle", "done"}]
      /\ obj \in [Clients -> Objects \cup {None}] /\ cont \in [Clients -> Contents \cup {None}]
      /\ value \in [Objects -> Contents \cup {None, Unknown}]
      /\ expect \in [Clients -> Contents \cup {None, Unknown}]
  BY <1>1 DEF TypeInv, TypeOK, ControlOK, GhostsOK
<1>3. PICK o \in Objects : \/ \E c \in Contents : PutStart(p, o, c)
                           \/ DelStart(p, o) \/ GetStart(p, o)
  BY DEF Start
<1>4. /\ UNCHANGED <<files, stripe, shard, got, out, leftover>> /\ pc[p] = "idle"
  BY <1>3 DEF PutStart, DelStart, GetStart, BeginMutation, disk, pos, reader
<1>5. ASSUME NEW q \in Clients \ {p}
      PROVE  /\ pc'[q] = pc[q] /\ obj'[q] = obj[q] /\ cont'[q] = cont[q]
             /\ solo'[q] => solo[q]
             /\ expect'[q] \in {expect[q], Unknown}
  BY <1>2, <1>3 DEF PutStart, DelStart, GetStart, Goto, BeginMutation
<1>6. \A x \in Objects : value'[x] = Unknown \/ (value'[x] = value[x] /\ leftover'[x] = leftover[x])
  BY <1>2, <1>3, <1>4 DEF PutStart, DelStart, GetStart, BeginMutation
<1>7. stripe[p] = 0 /\ shard[p] = 0 /\ out[p] = << >>
  BY <1>1, <1>4 DEF TypeInv, LocalsOK, EarlyStates
<1>8. PutAuthentic(p)' /\ ReadAuthentic(p)'
  <2>1. CASE \E c \in Contents : PutStart(p, o, c)
    <3>1. PICK c \in Contents : PutStart(p, o, c)
      BY <2>1
    <3>2. /\ cont'[p] = c /\ pc'[p] \in {"putCreate", "markerCreate"}
          /\ pc'[p] = "markerCreate" => ~HasStripe(c, 0)
      BY <1>2, <3>1 DEF PutStart, Goto
    <3>3. expect'[p] = Unknown
      BY <1>1, <3>2 DEF Exclusion, GetStates
    <3>4. \A s \in Stripes, i \in Shards : ~(s < stripe'[p]) /\ ~(i < shard'[p])
      BY <1>4, <1>7, StoreAssumption, ShardFacts DEF Stripes, Shards
    <3>5. PutAuthentic(p)'
      BY <1>4, <1>7, <3>2, <3>4 DEF PutAuthentic, HasStripe
    <3> QED BY <3>3, <3>5, ValuesAssumption DEF ReadAuthentic
  <2>2. CASE DelStart(p, o)
    <3>1. pc'[p] = "delList"
      BY <1>2, <2>2 DEF DelStart, Goto
    <3>2. expect'[p] = Unknown
      BY <1>1, <3>1 DEF Exclusion, GetStates
    <3> QED BY <3>1, <3>2, ValuesAssumption DEF ReadAuthentic, PutAuthentic, PutStates
  <2>3. CASE GetStart(p, o)
    <3>1. pc'[p] = "getList"
      BY <1>2, <2>3 DEF GetStart, Goto
    <3>2. out'[p] = << >> /\ 1 .. Len(out'[p]) = {}
      BY <1>4, <1>7
    <3> QED BY <3>1, <3>2 DEF ReadAuthentic, PutAuthentic, PutStates
  <2> QED BY <1>3, <2>1, <2>2, <2>3
<1>9. \A k \in Keys, w \in Words : Genuine(files[k], w) => Genuine(files'[k], w)
  BY <1>4
<1> QED BY <1>4, <1>5, <1>6, <1>8, <1>9, AuthenticStep

\* A request that returns, and the death of the process.
LEMMA AuthenticReset ==
  ASSUME AuthenticInv, AbsenceInv', NEW S \in SUBSET Clients, Reset(S)
  PROVE  AuthenticInv'
<1>1. UNCHANGED <<files, value, leftover>>
  BY DEF Reset, disk
<1>2. \A p \in S : ~solo'[p] /\ expect'[p] = Unknown
  BY DEF Reset
<1>3. \A p \in S : PutAuthentic(p)' /\ ReadAuthentic(p)'
  BY <1>2, ValuesAssumption DEF PutAuthentic, ReadAuthentic
<1>4. \A q \in Clients \ S :
        /\ pc'[q] = pc[q] /\ obj'[q] = obj[q] /\ cont'[q] = cont[q]
        /\ stripe'[q] = stripe[q] /\ shard'[q] = shard[q]
        /\ got'[q] = got[q] /\ out'[q] = out[q]
        /\ solo'[q] => solo[q]
        /\ expect'[q] \in {expect[q], Unknown}
  BY DEF Reset
<1>5. \A k \in Keys, w \in Words : Genuine(files[k], w) => Genuine(files'[k], w)
  BY <1>1
<1> QED BY <1>1, <1>3, <1>4, <1>5, AuthenticFrame

\* Damage.
LEMMA AuthenticFault ==
  ASSUME AuthenticInv, AbsenceInv', NEW k \in Keys, NEW kind \in FaultKinds, Fault(k, kind)
  PROVE  AuthenticInv'
<1>1. UNCHANGED <<pc, obj, cont, stripe, shard, got, out, value, leftover, solo, expect>>
  BY DEF Fault, req, pos, reader, ghosts
<1>2. /\ files \in [Keys -> FileData \cup {None}] /\ kind \in DamageKinds
      /\ files[k] # None
      /\ \E f \in Damage(files[k], kind, StripeSize + 1) : files' = [files EXCEPT ![k] = f]
  BY StoreAssumption DEF AuthenticInv, AbsenceInv, TypeInv, TypeOK, DiskOK, Fault
<1>3. ASSUME NEW l \in Keys, NEW w \in Words, Genuine(files[l], w)
      PROVE  Genuine(files'[l], w)
  <2>1. CASE l # k
    BY <1>2, <1>3, <2>1
  <2>2. CASE l = k
    <3>1. PICK f \in Damage(files[k], kind, StripeSize + 1) : files'[k] = f
      BY <1>2
    <3>2. files[k] \in FileData
      BY <1>2
    <3> QED BY <1>2, <1>3, <2>2, <3>1, <3>2, GenuineFacts
  <2> QED BY <2>1, <2>2
<1> DEFINE S == {}
<1>4. S \in SUBSET Clients /\ \A p \in S : PutAuthentic(p)' /\ ReadAuthentic(p)'
  OBVIOUS
<1> HIDE DEF S
<1> QED BY <1>1, <1>3, <1>4, AuthenticFrame

\* Every step preserves the invariant.
LEMMA AuthenticNext == AuthenticInv /\ [Next]_vars => AuthenticInv'
<1> SUFFICES ASSUME AuthenticInv, [Next]_vars PROVE AuthenticInv'
  OBVIOUS
<1>1. AbsenceInv'
  BY AbsenceNext DEF AuthenticInv
<1>2. ASSUME NEW p \in Clients, Start(p) PROVE AuthenticInv'
  BY <1>1, <1>2, AuthenticStart
<1>3. ASSUME NEW p \in Clients, Step(p) PROVE AuthenticInv'
  BY <1>1, <1>3, AuthenticPut, AuthenticAck, AuthenticOther, AuthenticGetLoad,
     AuthenticGetJoin DEF Step
<1>4. ASSUME NEW p \in Clients, RequestFail(p) PROVE AuthenticInv'
  BY <1>1, <1>4, AuthenticOther
<1>5. ASSUME NEW p \in Clients, Return(p) PROVE AuthenticInv'
  BY <1>1, <1>5, AuthenticReset DEF Return
<1>6. CASE Crash
  BY <1>1, <1>6, AuthenticReset DEF Crash
<1>7. ASSUME NEW k \in Keys, NEW kind \in FaultKinds, Fault(k, kind) PROVE AuthenticInv'
  BY <1>1, <1>7, AuthenticFault
<1>8. CASE UNCHANGED vars
  <2>1. UNCHANGED <<files, pc, obj, cont, stripe, shard, got, out, value, leftover, solo, expect>>
    BY <1>8 DEF vars, disk, req, pos, reader, ghosts
  <2>2. /\ \A o \in Objects : ObjectAuthentic(o)'
        /\ \A p \in Clients : PutAuthentic(p)' /\ ReadAuthentic(p)'
    BY <2>1 DEF AuthenticInv, ObjectAuthentic, PutAuthentic, ReadAuthentic, HasStripe
  <2> QED BY <1>1, <2>2 DEF AuthenticInv
<1> QED BY <1>2, <1>3, <1>4, <1>5, <1>6, <1>7, <1>8 DEF Next

\* GetObject and its reader: every stripe delivered of an acknowledged object
\* is that stripe of its content, cut short or followed by zeros of its padding
\* (a rotten StripeLen does that) and otherwise unchanged, under damage of every
\* kind and of any number of shards, through crashes and failures.
THEOREM ReadsAreAuthentic == Spec => []BytesAuthentic
<1>1. AuthenticInv => BytesAuthentic
  BY DEF AuthenticInv, ReadAuthentic, BytesAuthentic, ReadOf
<1> QED BY AuthenticInit, AuthenticNext, <1>1, PTL DEF Spec
=============================================================================
