------------------------- MODULE ObjectStoreProofs -------------------------
(***************************************************************************)
(* Proofs about ObjectStore, for every number of clients, objects,         *)
(* contents, shards and stripes: every variable keeps its range, a         *)
(* deleted object stays deleted, and no order of writes and removals       *)
(* leaves a file on which every later walk fails.                          *)
(***************************************************************************)
EXTENDS ObjectStoreInv, FiniteSetTheorems, WellFoundedInduction, TLAPS

-----------------------------------------------------------------------------
(* Arithmetic of stripes.                                                  *)

\* The shard indices are a nonempty interval.
LEMMA ShardFacts == ShardCount \in Nat /\ ShardCount >= 2 /\ 0 \in Shards
  BY ParamsAssumption DEF ShardCount, Shards, NewOK

\* A payload has at least one byte unless the stripe is empty, and k payloads
\* hold the stripe.
LEMMA SplitFacts ==
  ASSUME NEW n \in Nat
  PROVE  /\ SplitSize(n) \in Nat
         /\ n > 0 => SplitSize(n) > 0
         /\ DataShards * SplitSize(n) >= n
<1>1. DataShards \in Nat /\ DataShards >= 1
  BY ParamsAssumption DEF NewOK
<1>2. CASE n = 0
  BY <1>1, <1>2 DEF SplitSize
<1>3. CASE n > 0
  <2> DEFINE q == (n + DataShards - 1) \div DataShards
  <2>1. q \in Nat /\ DataShards * q >= n
    BY <1>1, <1>3
  <2>2. q > 0
    BY <1>1, <1>3, <2>1
  <2> QED BY <1>3, <2>1, <2>2 DEF SplitSize
<1> QED BY <1>2, <1>3

\* Multiples of the stripe size are ordered as their factors.
LEMMA Multiples ==
  ASSUME NEW s \in Nat, NEW t \in Nat
  PROVE  /\ s * StripeSize \in Nat
         /\ (s + 1) * StripeSize = s * StripeSize + StripeSize
         /\ s <= t => s * StripeSize <= t * StripeSize
  BY StoreAssumption

\* A stripe of a content has an index within the bound and at least one byte.
LEMMA StripeFacts ==
  ASSUME NEW c \in Contents, NEW s \in Nat
  PROVE  /\ Size[c] \in Nat
         /\ HasStripe(c, s) => /\ s \in Stripes
                               /\ StripeLen(c, s) \in Nat /\ StripeLen(c, s) > 0
<1>1. Size[c] \in Nat /\ Size[c] <= (MaxStripe + 1) * StripeSize
  <2>1. MaxStripe + 1 \in Nat /\ StripeSize \in Nat
    BY StoreAssumption
  <2>2. (MaxStripe + 1) * StripeSize \in Nat
    BY <2>1
  <2>3. Size[c] \in 0 .. (MaxStripe + 1) * StripeSize
    BY StoreAssumption
  <2> QED BY <2>2, <2>3
<1>2. ASSUME HasStripe(c, s) PROVE s \in Stripes
  <2>1. MaxStripe + 1 \in Nat
    BY StoreAssumption
  <2>2. ~(MaxStripe + 1 <= s)
    BY <1>1, <1>2, <2>1, Multiples DEF HasStripe
  <2> QED BY <2>1, <2>2, StoreAssumption DEF Stripes
<1>3. ASSUME HasStripe(c, s) PROVE StripeLen(c, s) \in Nat /\ StripeLen(c, s) > 0
  BY <1>1, <1>3, Multiples, StoreAssumption DEF HasStripe, StripeLen
<1> QED BY <1>1, <1>2, <1>3

\* A nonempty set of stripe indices has a highest one: the distance to the
\* bound has a least value.
LEMMA TopStripe ==
  ASSUME NEW ss \in SUBSET Stripes, ss # {}
  PROVE  \E s \in ss : \A t \in ss : t <= s
<1> DEFINE gaps == {MaxStripe - s : s \in ss}
<1>1. \A s \in ss : s \in Nat /\ s <= MaxStripe
  BY StoreAssumption DEF Stripes
<1>2. gaps \subseteq Nat /\ gaps # {}
  BY <1>1, StoreAssumption
<1>3. IsWellFoundedOn(OpToRel(<, Nat), Nat)
  BY NatLessThanWellFounded
<1> DEFINE R == OpToRel(<, Nat)
<1>4. \E g \in gaps : \A h \in gaps : ~(<<h, g>> \in R)
  <2> HIDE DEF gaps, R
  <2>1. IsWellFoundedOn(R, Nat)
    BY <1>3 DEF R
  <2> QED BY <1>2, <2>1, WFMin, Zenon
<1>5. \A g, h \in Nat : h < g => <<h, g>> \in R
  BY Zenon DEF OpToRel
<1>6. PICK g \in gaps : \A h \in gaps : ~(<<h, g>> \in R)
  BY <1>4
<1>7. \A h \in gaps : ~(h < g)
  <2> HIDE DEF gaps, R
  <2> QED BY <1>2, <1>5, <1>6
<1>8. PICK s \in ss : g = MaxStripe - s
  OBVIOUS
<1>9. ASSUME NEW t \in ss PROVE t <= s
  <2>1. MaxStripe - t \in gaps
    OBVIOUS
  <2> HIDE DEF gaps, R
  <2>2. ~(MaxStripe - t < MaxStripe - s)
    BY <1>7, <1>8, <2>1
  <2> QED BY <1>1, <2>2, StoreAssumption
<1> QED BY <1>9

-----------------------------------------------------------------------------
(* Type correctness.                                                       *)

\* What each write makes of a file is a file.
LEMMA FileTypes ==
  ASSUME NEW w \in Words, NEW n \in Nat
  PROVE  /\ CreateFile \in FileData
         /\ Header(w, n) \in Headers
         /\ FullFile(w, n) \in FileData
         /\ \A f \in FileData : /\ WriteHeader(f, w, n) \in FileData
                                /\ WritePayload(f, w, n) \in FileData
<1>1. SplitSize(n) \in Nat
  BY SplitFacts
<1>2. CreateFile \in FileData
  BY DEF CreateFile, FileData
<1>3. Header(w, n) \in Headers
  BY <1>1 DEF Header, Headers
<1>4. FullFile(w, n) \in FileData
  BY <1>1, <1>3 DEF FullFile, FileData
<1>5. ASSUME NEW f \in FileData PROVE WriteHeader(f, w, n) \in FileData
  BY <1>3 DEF WriteHeader, FileData
<1>6. ASSUME NEW f \in FileData PROVE WritePayload(f, w, n) \in FileData
  BY <1>1 DEF WritePayload, FileData
<1> QED BY <1>2, <1>3, <1>4, <1>5, <1>6

\* So is what damage makes of it, unless it is gone.
LEMMA DamageTypes ==
  ASSUME NEW f \in FileData, NEW kind \in DamageKinds,
         NEW g \in Damage(f, kind, StripeSize + 1)
  PROVE  g \in FileData \cup {None} /\ (kind # "missing" => g # None)
<1>1. CASE kind = "missing"
  BY <1>1 DEF Damage
<1>2. CASE kind = "payload"
  <2>1. g = [f EXCEPT !.pay = Garbage]
    BY <1>2 DEF Damage
  <2>2. g \in FileData
    BY <2>1 DEF FileData
  <2> QED BY <2>2, ValuesAssumption
<1>3. CASE kind = "short"
  <2>1. g = [f EXCEPT !.pay = None, !.n = 0]
    BY <1>3 DEF Damage
  <2>2. g \in FileData
    BY <2>1 DEF FileData
  <2> QED BY <2>2, ValuesAssumption
<1>4. CASE kind = "header"
  <2>1. g = [f EXCEPT !.hdr = None]
    BY <1>4 DEF Damage
  <2>2. g \in FileData
    BY <2>1 DEF FileData
  <2> QED BY <2>2, ValuesAssumption
<1>5. CASE kind = "length"
  <2>1. PICK l \in 0 .. StripeSize + 1 : f.hdr # None /\ g = [f EXCEPT !.hdr.len = l]
    BY <1>5 DEF Damage
  <2>2. l \in Nat
    BY StoreAssumption
  <2>3. f.hdr \in Headers
    BY <2>1 DEF FileData
  <2>4. [f.hdr EXCEPT !.len = l] \in Headers
    BY <2>2, <2>3 DEF Headers
  <2>5. g = [f EXCEPT !.hdr = [f.hdr EXCEPT !.len = l]]
    BY <2>1
  <2>6. g \in FileData
    BY <2>4, <2>5 DEF FileData
  <2> QED BY <2>6, ValuesAssumption
<1> QED BY <1>1, <1>2, <1>3, <1>4, <1>5 DEF DamageKinds

\* The range of pc, by name.
LEMMA StatesDiffer ==
  /\ "idle" \notin PutStates \cup DelStates \cup GetStates
  /\ "done" \notin PutStates \cup DelStates \cup GetStates
  /\ ShardStates \subseteq PutStates
  BY DEF PutStates, DelStates, GetStates, ShardStates

\* Everything is well typed at the start.
LEMMA TypeInit == Init => TypeInv
<1> SUFFICES ASSUME Init PROVE TypeInv
  OBVIOUS
<1>1. TypeOK
  BY ShardFacts, StoreAssumption
  DEF Init, TypeOK, DiskOK, ControlOK, ReaderOK, GhostsOK, Replies, NoShards
<1>2. LocalsOK /\ HandlesOK
  BY DEF Init, LocalsOK, HandlesOK, PutStates, ShardStates
<1> QED BY <1>1, <1>2 DEF TypeInv

\* The key a PUT writes is a key, and its stripe a codeword.
LEMMA PutKey ==
  ASSUME TypeInv, NEW p \in Clients, pc[p] \in ShardStates
  PROVE  /\ obj[p] \in Objects /\ cont[p] \in Contents
         /\ stripe[p] \in Stripes /\ shard[p] \in Shards
         /\ Key(p) \in Keys /\ Word(p) \in Words
         /\ Chunk(p) \in Nat /\ Chunk(p) > 0
<1>1. obj[p] \in Objects /\ cont[p] \in Contents /\ shard[p] \in Shards
      /\ HasStripe(cont[p], stripe[p]) /\ stripe[p] \in Nat
  BY DEF TypeInv, TypeOK, ControlOK, LocalsOK, ShardStates, PutStates
<1>2. stripe[p] \in Stripes /\ Chunk(p) \in Nat /\ Chunk(p) > 0
  BY <1>1, StripeFacts DEF Chunk
<1> QED BY <1>1, <1>2 DEF Key, Keys, Word, Words

\* The ghosts stay typed when a PUT or DELETE begins or is acknowledged.
LEMMA GhostTypes ==
  ASSUME GhostsOK, NEW p \in Clients
  PROVE  /\ \A o \in Objects : BeginMutation(p, o) => GhostsOK'
         /\ \A c \in Contents \cup {None}, b \in BOOLEAN :
              obj[p] \in Objects /\ Acknowledge(p, c, b) => GhostsOK'
<1>1. ASSUME NEW o \in Objects, BeginMutation(p, o) PROVE GhostsOK'
  <2>1. solo' \in [Clients -> BOOLEAN]
    BY <1>1, Zenon DEF GhostsOK, BeginMutation
  <2>2. expect' \in [Clients -> Contents \cup {None, Unknown}]
    BY <1>1 DEF GhostsOK, BeginMutation
  <2>3. begun' \in 0 .. MaxMutations
    BY <1>1, StoreAssumption DEF GhostsOK, BeginMutation
  <2>4. value' \in [Objects -> Contents \cup {None, Unknown}] /\ leftover' = leftover
    BY <1>1 DEF GhostsOK, BeginMutation
  <2> QED BY <2>1, <2>2, <2>3, <2>4 DEF GhostsOK
<1>2. ASSUME NEW c \in Contents \cup {None}, NEW b \in BOOLEAN,
             obj[p] \in Objects, Acknowledge(p, c, b)
      PROVE  GhostsOK'
  BY <1>2 DEF GhostsOK, Acknowledge
<1> QED BY <1>1, <1>2

\* Starting a PUT.
LEMMA TypePutStart ==
  ASSUME TypeInv, NEW p \in Clients, NEW o \in Objects, NEW c \in Contents,
         PutStart(p, o, c)
  PROVE  TypeInv'
<1> USE DEF PutStart, Goto, disk, pos, reader, TypeInv, TypeOK
<1>1. DiskOK' /\ ReaderOK'
  BY DEF DiskOK, ReaderOK
<1>2. GhostsOK'
  BY GhostTypes
<1>3. ControlOK'
  BY DEF ControlOK, PutStates
<1>4. LocalsOK'
  BY ShardFacts DEF ControlOK, LocalsOK, PutStates, DelStates, ShardStates, EarlyStates, HasStripe
<1>5. HandlesOK'
  BY DEF ControlOK, HandlesOK, Key
<1> QED BY <1>1, <1>2, <1>3, <1>4, <1>5

\* A request that is done constrains nothing but its object and its list.
LEMMA LocalsFinish ==
  ASSUME ControlOK, LocalsOK, NEW p \in Clients, pc[p] # "idle",
         pc' = [pc EXCEPT ![p] = "done"], UNCHANGED <<obj, cont, todo>>,
         \A q \in Clients \ {p} :
           /\ stripe'[q] = stripe[q] /\ shard'[q] = shard[q] /\ total'[q] = total[q]
           /\ got'[q] = got[q] /\ slen'[q] = slen[q] /\ out'[q] = out[q]
  PROVE  LocalsOK'
  BY DEF ControlOK, LocalsOK, PutStates, DelStates, ShardStates, EarlyStates, HasStripe

\* The steps of a PUT.
LEMMA TypePut ==
  ASSUME TypeInv, NEW p \in Clients,
         PutCreate(p) \/ PutHeader(p) \/ PutPayload(p) \/ MarkerCreate(p) \/ MarkerWrite(p)
  PROVE  TypeInv'
<1> USE DEF Goto, Finish, disk, req, pos, reader, ghosts, TypeInv, TypeOK
<1>1. CASE PutCreate(p)
  <2> USE <1>1 DEF PutCreate
  <2>1. Key(p) \in Keys
    BY PutKey DEF ShardStates
  <2>2. DiskOK'
    BY <2>1, FileTypes DEF DiskOK, CreateFile, FileData
  <2>3. ReaderOK' /\ GhostsOK'
    BY DEF ReaderOK, GhostsOK
  <2>4. ControlOK'
    BY DEF ControlOK, PutStates
  <2>5. LocalsOK'
    BY DEF ControlOK, LocalsOK, PutStates, DelStates, ShardStates, EarlyStates, HasStripe
  <2>6. CreateFile # None
    BY ValuesAssumption DEF CreateFile, FileData
  <2>7. HandlesOK'
    BY <2>1, <2>6 DEF ControlOK, DiskOK, HandlesOK, Key
  <2> QED BY <2>2, <2>3, <2>4, <2>5, <2>7
<1>2. CASE PutHeader(p)
  <2> USE <1>2 DEF PutHeader
  <2>1. Key(p) \in Keys /\ Word(p) \in Words /\ Chunk(p) \in Nat
    BY PutKey DEF ShardStates
  <2>2. ASSUME fd[p] PROVE WriteHeader(files[Key(p)], Word(p), Chunk(p)) \in FileData
    BY <2>1, <2>2, FileTypes DEF HandlesOK, DiskOK
  <2>3. DiskOK'
    BY <2>1, <2>2 DEF DiskOK
  <2>4. ReaderOK' /\ GhostsOK'
    BY DEF ReaderOK, GhostsOK
  <2>5. ControlOK'
    BY DEF ControlOK, PutStates
  <2>6. LocalsOK'
    BY DEF ControlOK, LocalsOK, PutStates, DelStates, ShardStates, EarlyStates, HasStripe
  <2>7. HandlesOK'
    BY <2>1, <2>2, ValuesAssumption DEF ControlOK, DiskOK, HandlesOK, Key
  <2> QED BY <2>3, <2>4, <2>5, <2>6, <2>7
<1>3. CASE PutPayload(p)
  <2> USE <1>3 DEF PutPayload
  <2>1. /\ Key(p) \in Keys /\ Word(p) \in Words /\ Chunk(p) \in Nat
        /\ cont[p] \in Contents /\ stripe[p] \in Nat /\ shard[p] \in Shards
    BY PutKey DEF ShardStates, ControlOK
  <2>2. ASSUME fd[p] PROVE WritePayload(files[Key(p)], Word(p), Chunk(p)) \in FileData
    BY <2>1, <2>2, FileTypes DEF HandlesOK, DiskOK
  <2>3. DiskOK'
    BY <2>1, <2>2 DEF DiskOK
  <2>4. ReaderOK' /\ GhostsOK'
    BY DEF ReaderOK, GhostsOK
  <2>5. ControlOK'
    BY <2>1, ShardFacts DEF ControlOK, PutStates, Shards
  <2>6. LocalsOK'
    BY <2>1, ShardFacts DEF ControlOK, LocalsOK, PutStates, DelStates, ShardStates, EarlyStates, HasStripe, Shards
  <2>7. HandlesOK'
    BY <2>1, <2>2, ValuesAssumption DEF ControlOK, DiskOK, HandlesOK, Key
  <2> QED BY <2>3, <2>4, <2>5, <2>6, <2>7
<1>4. CASE MarkerCreate(p)
  <2> USE <1>4 DEF MarkerCreate
  <2>1. DiskOK' /\ ReaderOK' /\ GhostsOK'
    BY DEF DiskOK, ReaderOK, GhostsOK
  <2>2. ControlOK'
    BY DEF ControlOK, PutStates
  <2>3. LocalsOK'
    BY DEF ControlOK, LocalsOK, PutStates, DelStates, ShardStates, EarlyStates, HasStripe
  <2>4. HandlesOK'
    BY DEF ControlOK, HandlesOK, Key
  <2> QED BY <2>1, <2>2, <2>3, <2>4
<1>5. CASE MarkerWrite(p)
  <2> USE <1>5 DEF MarkerWrite, ObjectMeta
  <2>1. obj[p] \in Objects /\ cont[p] \in Contents
    BY DEF LocalsOK, PutStates
  <2>2. Size[cont[p]] \in Nat
    BY <2>1, StripeFacts
  <2>3. DiskOK' /\ ReaderOK'
    BY <2>2 DEF DiskOK, ReaderOK
  <2>4. HasLeftover(obj[p], cont[p]) \in BOOLEAN
    BY DEF HasLeftover
  <2>5. GhostsOK'
    <3>1. CASE UNCHANGED ghosts
      BY <3>1 DEF GhostsOK
    <3>2. CASE Acknowledge(p, cont[p], HasLeftover(obj[p], cont[p]))
      BY <2>1, <2>4, <3>2, GhostTypes
    <3> QED BY <3>1, <3>2
  <2>6. ControlOK'
    BY DEF ControlOK, Replies
  <2>7. LocalsOK'
    BY LocalsFinish
  <2>8. HandlesOK'
    BY DEF ControlOK, HandlesOK, Key
  <2> QED BY <2>3, <2>5, <2>6, <2>7, <2>8
<1> QED BY <1>1, <1>2, <1>3, <1>4, <1>5

\* Starting a GET or a DELETE.
LEMMA TypeStart ==
  ASSUME TypeInv, NEW p \in Clients, NEW o \in Objects, GetStart(p, o) \/ DelStart(p, o)
  PROVE  TypeInv'
<1> USE DEF Goto, disk, pos, reader, TypeInv, TypeOK
<1>1. CASE GetStart(p, o)
  <2> USE <1>1 DEF GetStart
  <2>1. DiskOK' /\ ReaderOK' /\ GhostsOK'
    BY DEF DiskOK, ReaderOK, GhostsOK
  <2>2. ControlOK'
    BY DEF ControlOK, GetStates
  <2>3. LocalsOK'
    BY DEF ControlOK, LocalsOK, PutStates, DelStates, ShardStates, EarlyStates, HasStripe
  <2>4. HandlesOK'
    BY DEF ControlOK, HandlesOK, Key
  <2> QED BY <2>1, <2>2, <2>3, <2>4
<1>2. CASE DelStart(p, o)
  <2> USE <1>2 DEF DelStart
  <2>1. DiskOK' /\ ReaderOK'
    BY DEF DiskOK, ReaderOK
  <2>2. GhostsOK'
    BY GhostTypes
  <2>3. ControlOK'
    BY DEF ControlOK, DelStates
  <2>4. LocalsOK'
    BY DEF ControlOK, LocalsOK, PutStates, DelStates, ShardStates, EarlyStates, HasStripe
  <2>5. HandlesOK'
    BY DEF ControlOK, HandlesOK, Key
  <2> QED BY <2>1, <2>2, <2>3, <2>4, <2>5
<1> QED BY <1>1, <1>2

\* Listing for a GET: the highest stripe index found is a stripe index.
LEMMA TypeGetList ==
  ASSUME TypeInv, NEW p \in Clients, GetList(p)
  PROVE  TypeInv'
<1> USE DEF GetList, Goto, disk, req, pos, ghosts, TypeInv, TypeOK
<1> DEFINE ss == {k[2] : k \in Listed(obj[p])}
           top == CHOOSE s \in ss : \A t \in ss : t <= s
<1>1. DiskOK' /\ GhostsOK'
  BY DEF DiskOK, GhostsOK
<1>2. ControlOK'
  BY DEF ControlOK, GetStates
<1>3. ASSUME ss # {} PROVE top \in Stripes
  <2>1. ss \subseteq Stripes
    BY DEF Listed, Keys
  <2>2. \E s \in ss : \A t \in ss : t <= s
    BY <1>3, <2>1, StoreAssumption, TopStripe
  <2> QED BY <2>1, <2>2
<1>4. HandlesOK'
  BY DEF ControlOK, HandlesOK, Key
<1> HIDE DEF top
<1>5. CASE ss = {}
  <2>1. UNCHANGED <<total, size, got, slen, out>> /\ pc' = [pc EXCEPT ![p] = "getMarker"]
    BY <1>5
  <2>2. ReaderOK'
    BY <2>1 DEF ReaderOK
  <2>3. LocalsOK'
    BY <2>1 DEF ControlOK, LocalsOK, PutStates, DelStates, ShardStates, EarlyStates, HasStripe
  <2> QED BY <1>1, <1>2, <1>4, <2>2, <2>3
<1>6. CASE ss # {}
  <2>1. top \in Nat /\ 1 + top \in 0 .. MaxStripe + 1 /\ 1 + top >= 1
    BY <1>3, <1>6, StoreAssumption DEF Stripes
  <2>2. /\ total' = [total EXCEPT ![p] = 1 + top] /\ pc' = [pc EXCEPT ![p] = "getSize"]
        /\ UNCHANGED <<size, got, slen, out, obj, cont, stripe, shard, todo>>
    BY <1>6 DEF top
  <2> HIDE DEF GetList
  <2>3. ReaderOK'
    BY <2>1, <2>2 DEF ReaderOK
  <2>4. pc[p] = "getList"
    BY DEF GetList
  <2>5. LocalsOK'
    BY <2>1, <2>2, <2>4 DEF ControlOK, ReaderOK, LocalsOK, PutStates, DelStates, ShardStates, EarlyStates, HasStripe
  <2> QED BY <1>1, <1>2, <1>4, <2>3, <2>5
<1> QED BY <1>5, <1>6

\* What a shard file that is read without an error holds.
LEMMA ReadFacts ==
  ASSUME NEW f \in FileData \cup {None}
  PROVE  /\ GetShard(f) \in {"ok", "ErrShardNotFound", "ErrHeader", "ErrShort", "ErrCorruptShard"}
         /\ VerifyShard(f) \in {"ok", "ErrShardNotFound", "ErrHeader", "ErrCorruptShard"}
         /\ GetShard(f) = "ok" \/ VerifyShard(f) = "ok" =>
              /\ f \in FileData /\ f.hdr \in Headers /\ f.hdr.len \in Nat
              /\ f.pay = f.hdr.sum
              /\ [cw |-> f.pay, n |-> f.hdr.dlen] \in ShardData
<1>1. /\ GetShard(f) \in {"ok", "ErrShardNotFound", "ErrHeader", "ErrShort", "ErrCorruptShard"}
      /\ VerifyShard(f) \in {"ok", "ErrShardNotFound", "ErrHeader", "ErrCorruptShard"}
  BY DEF GetShard, VerifyShard
<1>2. ASSUME GetShard(f) = "ok" \/ VerifyShard(f) = "ok"
      PROVE  f # None /\ f.hdr # None /\ f.pay = f.hdr.sum
  BY <1>2 DEF GetShard, VerifyShard
<1>3. ASSUME GetShard(f) = "ok" \/ VerifyShard(f) = "ok"
      PROVE  /\ f \in FileData /\ f.hdr \in Headers /\ f.hdr.len \in Nat
             /\ f.pay = f.hdr.sum
             /\ [cw |-> f.pay, n |-> f.hdr.dlen] \in ShardData
  <2>1. f \in FileData /\ f.hdr \in Headers /\ f.pay = f.hdr.sum
    BY <1>2, <1>3 DEF FileData
  <2>2. f.hdr.len \in Nat /\ f.hdr.dlen \in Nat /\ f.hdr.sum \in Words
    BY <2>1 DEF Headers
  <2> QED BY <2>1, <2>2 DEF ShardData
<1> QED BY <1>1, <1>3

\* Joining what was read and reconstructed gives a stripe's bytes or garbage.
LEMMA JoinTypes ==
  ASSUME NEW g \in [Shards -> ShardData \cup {None}], NEW n \in Nat
  PROVE  /\ LoadError(g, n) \in {"none", "ErrUnrecoverable", "ErrShardSize",
                                 "ErrTooFewShards", "ErrReconstructRequired", "ErrShortData"}
         /\ LoadError(g, n) = "none" => Joined(Whole(g), n) \in Words \cup {Garbage}
<1>1. LoadError(g, n) \in {"none", "ErrUnrecoverable", "ErrShardSize",
                           "ErrTooFewShards", "ErrReconstructRequired", "ErrShortData"}
  BY DEF LoadError, ReconstructError, JoinError
<1>2. 0 \in DataIdx /\ 0 \in Shards
  BY ParamsAssumption, ShardFacts DEF DataIdx, NewOK
<1>3. Decoded(g) \in Words \cup {Garbage}
  <2> DEFINE words == {g[i].cw : i \in Present(g)}
             Fits(w) == \A i \in Lowest(Present(g)) : g[i].cw = w
  <2>1. words \subseteq Words
    BY DEF Present, ShardData
  <2>2. Decoded(g) = IF \E w \in words : Fits(w) THEN CHOOSE w \in words : Fits(w) ELSE Garbage
    BY DEF Decoded
  <2> HIDE DEF words, Fits
  <2> QED BY <2>1, <2>2
<1>4. ASSUME Whole(g)[0] # None PROVE Whole(g)[0].cw \in Words \cup {Garbage}
  <2>1. CASE Whole(g)[0] = g[0]
    BY <1>2, <1>4, <2>1 DEF ShardData
  <2>2. CASE Whole(g)[0] # g[0]
    <3>1. Whole(g) = Reconstruct(g) /\ Present(g) # {}
      BY <2>2 DEF Whole, Reconstruct
    <3>2. Reconstruct(g)[0].cw = Decoded(g)
      BY <1>2, <2>2, <3>1 DEF Reconstruct
    <3> QED BY <1>3, <3>1, <3>2
  <2> QED BY <2>1, <2>2
<1>5. ASSUME LoadError(g, n) = "none" PROVE Whole(g)[0] # None
  BY <1>2, <1>5 DEF LoadError, JoinError
<1> QED BY <1>1, <1>4, <1>5 DEF Joined

\* The other steps of a GET.
LEMMA TypeGet ==
  ASSUME TypeInv, NEW p \in Clients,
         ListError(p) \/ GetMarker(p) \/ GetSize(p) \/ GetLoad(p) \/ GetJoin(p)
  PROVE  TypeInv'
<1> USE DEF Goto, Finish, disk, req, pos, reader, ghosts, TypeInv, TypeOK
<1>1. CASE ListError(p)
  <2> USE <1>1 DEF ListError
  <2>1. DiskOK' /\ ReaderOK' /\ GhostsOK'
    BY DEF DiskOK, ReaderOK, GhostsOK
  <2>2. ControlOK'
    BY DEF ControlOK, Replies
  <2>3. LocalsOK'
    BY LocalsFinish
  <2>4. HandlesOK'
    BY DEF ControlOK, HandlesOK, Key
  <2> QED BY <2>1, <2>2, <2>3, <2>4
<1>2. CASE GetMarker(p)
  <2> USE <1>2 DEF GetMarker, ReadMarker
  <2>1. obj[p] \in Objects
    BY DEF LocalsOK
  <2>2. DiskOK' /\ GhostsOK'
    BY DEF DiskOK, GhostsOK
  <2>3. ReaderOK'
    BY <2>1 DEF DiskOK, ReaderOK
  <2>4. ControlOK'
    BY DEF ControlOK, Replies
  <2>5. LocalsOK'
    BY LocalsFinish
  <2>6. HandlesOK'
    BY DEF ControlOK, HandlesOK, Key
  <2> QED BY <2>2, <2>3, <2>4, <2>5, <2>6
<1>3. CASE GetSize(p)
  <2> USE <1>3
  <2> DEFINE last == total[p] - 1
             f    == files[<<obj[p], last, shard[p]>>]
  <2>1. /\ obj[p] \in Objects /\ last \in Stripes /\ last \in Nat
        /\ pc[p] = "getSize" /\ shard[p] \in 0 .. ShardCount
    BY StoreAssumption DEF GetSize, LocalsOK, ControlOK, ReaderOK, Stripes
  <2>2. shard[p] < ShardCount => f \in FileData \cup {None}
    BY <2>1, ShardFacts DEF DiskOK, Keys, Shards
  <2>3. /\ UNCHANGED <<files, markers, damaged, obj, cont, stripe, fd, total, got, slen, out, todo>>
        /\ UNCHANGED <<value, leftover, solo, expect, begun>>
    BY DEF GetSize
  <2>4. DiskOK' /\ GhostsOK'
    BY <2>3 DEF DiskOK, GhostsOK
  <2> HIDE DEF last, f
  <2>5. CASE /\ pc' = [pc EXCEPT ![p] = "done"] /\ UNCHANGED <<shard, size>>
             /\ reply' \in [Clients -> Replies]
    <3>1. ReaderOK' /\ ControlOK'
      BY <2>3, <2>5 DEF ReaderOK, ControlOK
    <3>2. LocalsOK'
      BY <2>1, <2>3, <2>5, LocalsFinish
    <3>3. HandlesOK'
      BY <2>3, <2>5 DEF ControlOK, HandlesOK, Key
    <3> QED BY <2>4, <3>1, <3>2, <3>3
  <2>6. CASE /\ shard[p] < ShardCount /\ shard' = [shard EXCEPT ![p] = @ + 1]
             /\ UNCHANGED <<pc, reply, size>>
    <3>1. ReaderOK' /\ ControlOK'
      BY <2>1, <2>3, <2>6, ShardFacts DEF ReaderOK, ControlOK
    <3>2. LocalsOK'
      BY <2>1, <2>3, <2>6 DEF ControlOK, LocalsOK, PutStates, DelStates, ShardStates, EarlyStates, HasStripe
    <3>3. HandlesOK'
      BY <2>1, <2>3, <2>6 DEF ControlOK, HandlesOK, Key
    <3> QED BY <2>4, <3>1, <3>2, <3>3
  <2>7. CASE /\ shard[p] < ShardCount /\ VerifyShard(f) = "ok"
             /\ size' = [size EXCEPT ![p] = last * StripeSize + f.hdr.len]
             /\ shard' = [shard EXCEPT ![p] = 0]
             /\ pc' = [pc EXCEPT ![p] = "getLoad"] /\ UNCHANGED reply
    <3>1. f.hdr.len \in Nat
      BY <2>2, <2>7, ReadFacts
    <3>2. last * StripeSize + f.hdr.len \in Nat
      BY <2>1, <3>1, Multiples
    <3>3. ReaderOK' /\ ControlOK'
      BY <2>1, <2>3, <2>7, <3>2, ShardFacts DEF ReaderOK, ControlOK, GetStates
    <3>4. LocalsOK'
      BY <2>1, <2>3, <2>7 DEF ControlOK, ReaderOK, LocalsOK, PutStates, DelStates, ShardStates, EarlyStates, HasStripe
    <3>5. HandlesOK'
      BY <2>1, <2>3, <2>7 DEF ControlOK, HandlesOK, Key
    <3> QED BY <2>4, <3>3, <3>4, <3>5
  <2>8. \/ /\ pc' = [pc EXCEPT ![p] = "done"] /\ UNCHANGED <<shard, size>>
           /\ \/ reply' = [reply EXCEPT ![p] = "ErrUnrecoverable"]
              \/ /\ shard[p] < ShardCount /\ ~ShardLost(VerifyShard(f)) /\ VerifyShard(f) # "ok"
                 /\ reply' = [reply EXCEPT ![p] = VerifyShard(f)]
        \/ /\ shard[p] < ShardCount /\ shard' = [shard EXCEPT ![p] = @ + 1]
           /\ UNCHANGED <<pc, reply, size>>
        \/ /\ shard[p] < ShardCount /\ VerifyShard(f) = "ok"
           /\ size' = [size EXCEPT ![p] = last * StripeSize + f.hdr.len]
           /\ shard' = [shard EXCEPT ![p] = 0]
           /\ pc' = [pc EXCEPT ![p] = "getLoad"] /\ UNCHANGED reply
    BY DEF GetSize, last, f
  <2>9. shard[p] < ShardCount /\ ~ShardLost(VerifyShard(f)) => VerifyShard(f) \in Replies
    BY <2>2, ReadFacts DEF ShardLost, Replies
  <2>10. "ErrUnrecoverable" \in Replies /\ reply \in [Clients -> Replies]
    BY DEF Replies, ControlOK
  <2> QED BY <2>5, <2>6, <2>7, <2>8, <2>9, <2>10
<1>4. CASE GetLoad(p)
  <2> USE <1>4
  <2> DEFINE f == files[Key(p)]
  <2>1. /\ obj[p] \in Objects /\ stripe[p] \in Stripes /\ stripe[p] < total[p]
        /\ pc[p] = "getLoad" /\ shard[p] \in Shards
    BY StoreAssumption, ShardFacts DEF GetLoad, LocalsOK, ControlOK, ReaderOK, Stripes, Shards
  <2>2. f \in FileData \cup {None}
    BY <2>1 DEF DiskOK, Keys, Key
  <2>3. /\ UNCHANGED <<files, markers, damaged, obj, cont, stripe, fd, total, size, out, todo>>
        /\ UNCHANGED <<value, leftover, solo, expect, begun>>
    BY DEF GetLoad
  <2>4. DiskOK' /\ GhostsOK'
    BY <2>3 DEF DiskOK, GhostsOK
  <2> HIDE DEF f
  <2>5. CASE /\ pc' = [pc EXCEPT ![p] = "done"] /\ UNCHANGED <<shard, got, slen>>
             /\ reply' \in [Clients -> Replies]
    <3>1. ReaderOK' /\ ControlOK'
      BY <2>3, <2>5 DEF ReaderOK, ControlOK
    <3>2. LocalsOK'
      BY <2>1, <2>3, <2>5, LocalsFinish
    <3>3. HandlesOK'
      BY <2>3, <2>5 DEF ControlOK, HandlesOK, Key
    <3> QED BY <2>4, <3>1, <3>2, <3>3
  <2>6. CASE /\ shard' = [shard EXCEPT ![p] = @ + 1] /\ UNCHANGED <<pc, reply>>
             /\ \/ UNCHANGED <<got, slen>>
                \/ /\ GetShard(f) = "ok"
                   /\ got' = [got EXCEPT ![p][shard[p]] = [cw |-> f.pay, n |-> f.hdr.dlen]]
                   /\ slen' = [slen EXCEPT ![p] = f.hdr.len]
    <3>1. GetShard(f) = "ok" => f.hdr.len \in Nat /\ [cw |-> f.pay, n |-> f.hdr.dlen] \in ShardData
      BY <2>2, ReadFacts
    <3> DEFINE d == [cw |-> f.pay, n |-> f.hdr.dlen]
    <3>2. got' \in [Clients -> [Shards -> ShardData \cup {None}]] /\ slen' \in [Clients -> Nat]
      <4>1. CASE UNCHANGED <<got, slen>>
        BY <4>1 DEF ReaderOK
      <4>2. CASE /\ GetShard(f) = "ok"
                 /\ got' = [got EXCEPT ![p][shard[p]] = d]
                 /\ slen' = [slen EXCEPT ![p] = f.hdr.len]
        <5>1. d \in ShardData /\ f.hdr.len \in Nat
          BY <3>1, <4>2
        <5> HIDE DEF d
        <5>2. [got[p] EXCEPT ![shard[p]] = d] \in [Shards -> ShardData \cup {None}]
          BY <5>1 DEF ReaderOK
        <5>3. got' = [got EXCEPT ![p] = [got[p] EXCEPT ![shard[p]] = d]]
          BY <4>2
        <5> QED BY <4>2, <5>1, <5>2, <5>3 DEF ReaderOK
      <4> QED BY <2>6, <4>1, <4>2
    <3>3. ReaderOK'
      BY <2>3, <3>2 DEF ReaderOK
    <3>4. ControlOK'
      BY <2>1, <2>3, <2>6, ShardFacts DEF ControlOK, Shards
    <3>5. \A q \in Clients \ {p} : got'[q] = got[q] /\ slen'[q] = slen[q] /\ shard'[q] = shard[q]
      BY <2>6 DEF ReaderOK, ControlOK
    <3>6. LocalsOK'
      BY <2>1, <2>3, <2>6, <3>5 DEF ControlOK, LocalsOK, PutStates, DelStates, ShardStates, EarlyStates, HasStripe
    <3>7. HandlesOK'
      BY <2>1, <2>3, <2>6 DEF ControlOK, HandlesOK, Key
    <3> QED BY <2>4, <3>3, <3>4, <3>6, <3>7
  <2>7. \/ /\ shard' = [shard EXCEPT ![p] = @ + 1] /\ UNCHANGED <<pc, reply>>
           /\ \/ UNCHANGED <<got, slen>>
              \/ /\ GetShard(f) = "ok"
                 /\ got' = [got EXCEPT ![p][shard[p]] = [cw |-> f.pay, n |-> f.hdr.dlen]]
                 /\ slen' = [slen EXCEPT ![p] = f.hdr.len]
        \/ /\ pc' = [pc EXCEPT ![p] = "done"] /\ UNCHANGED <<shard, got, slen>>
           /\ ~ShardLost(GetShard(f)) /\ reply' = [reply EXCEPT ![p] = GetShard(f)]
    BY DEF GetLoad, f
  <2>8. ~ShardLost(GetShard(f)) => GetShard(f) \in Replies
    BY <2>2, ReadFacts DEF ShardLost, Replies
  <2>9. reply \in [Clients -> Replies]
    BY DEF ControlOK
  <2> QED BY <2>5, <2>6, <2>7, <2>8, <2>9
<1>5. CASE GetJoin(p)
  <2> USE <1>5
  <2> DEFINE err == LoadError(got[p], slen[p])
             res == [cw |-> Joined(Whole(got[p]), slen[p]), len |-> slen[p]]
  <2>1. /\ obj[p] \in Objects /\ pc[p] = "getLoad" /\ stripe[p] < total[p]
        /\ stripe[p] \in Nat /\ total[p] \in Nat
    BY StoreAssumption DEF GetJoin, LocalsOK, ControlOK, ReaderOK
  <2>2. got[p] \in [Shards -> ShardData \cup {None}] /\ slen[p] \in Nat
    BY DEF ReaderOK
  <2>3. err = "none" \/ err \in Replies
    BY <2>2, JoinTypes DEF Replies
  <2>4. err = "none" => res \in Delivered
    BY <2>2, JoinTypes DEF Delivered
  <2>5. /\ UNCHANGED <<files, markers, damaged, obj, cont, fd, total, size, todo>>
        /\ UNCHANGED <<value, leftover, solo, expect, begun>>
    BY DEF GetJoin
  <2>6. DiskOK' /\ GhostsOK'
    BY <2>5 DEF DiskOK, GhostsOK
  <2>7. \/ /\ pc' = [pc EXCEPT ![p] = "done"] /\ UNCHANGED <<stripe, shard, got, slen, out>>
           /\ \/ err # "none" /\ reply' = [reply EXCEPT ![p] = err]
              \/ reply' = [reply EXCEPT ![p] = "ok"]
        \/ /\ err = "none"
           /\ out' = [out EXCEPT ![p] = Append(@, res)]
           /\ stripe' = [stripe EXCEPT ![p] = @ + 1]
           /\ shard' = [shard EXCEPT ![p] = 0]
           /\ got' = [got EXCEPT ![p] = NoShards]
           /\ slen' = [slen EXCEPT ![p] = 0]
           /\ IF stripe[p] + 1 = total[p]
              THEN pc' = [pc EXCEPT ![p] = "done"] /\ reply' = [reply EXCEPT ![p] = "ok"]
              ELSE UNCHANGED <<pc, reply>>
    BY DEF GetJoin
  <2> HIDE DEF err, res
  <2>8. reply \in [Clients -> Replies] /\ "ok" \in Replies
    BY DEF ControlOK, Replies
  <2>9. CASE pc' = [pc EXCEPT ![p] = "done"] /\ UNCHANGED <<stripe, shard, got, slen, out>>
    <3>1. ReaderOK'
      BY <2>5, <2>9 DEF ReaderOK
    <3>2. reply' \in [Clients -> Replies]
      BY <2>3, <2>7, <2>8
    <3>3. ControlOK'
      BY <2>5, <2>9, <3>2 DEF ControlOK
    <3>4. LocalsOK'
      BY <2>1, <2>5, <2>9, LocalsFinish
    <3>5. HandlesOK'
      BY <2>5, <2>9 DEF ControlOK, HandlesOK, Key
    <3> QED BY <2>6, <3>1, <3>3, <3>4, <3>5
  <2>10. CASE /\ err = "none"
              /\ out' = [out EXCEPT ![p] = Append(@, res)]
              /\ stripe' = [stripe EXCEPT ![p] = @ + 1]
              /\ shard' = [shard EXCEPT ![p] = 0]
              /\ got' = [got EXCEPT ![p] = NoShards]
              /\ slen' = [slen EXCEPT ![p] = 0]
              /\ IF stripe[p] + 1 = total[p]
                 THEN pc' = [pc EXCEPT ![p] = "done"] /\ reply' = [reply EXCEPT ![p] = "ok"]
                 ELSE UNCHANGED <<pc, reply>>
    <3>1. out[p] \in Seq(Delivered) /\ Append(out[p], res) \in Seq(Delivered)
      BY <2>4, <2>10 DEF ReaderOK
    <3>2. out' \in [Clients -> Seq(Delivered)]
      BY <2>10, <3>1 DEF ReaderOK
    <3>3. ReaderOK'
      BY <2>5, <2>10, <3>2 DEF ReaderOK, NoShards
    <3>4. ControlOK'
      <4>1. stripe' \in [Clients -> Nat] /\ shard' \in [Clients -> 0 .. ShardCount]
        BY <2>1, <2>10, ShardFacts DEF ControlOK
      <4>2. /\ pc' \in [Clients -> PutStates \cup GetStates \cup DelStates \cup {"idle", "done"}]
            /\ reply' \in [Clients -> Replies]
        BY <2>8, <2>10 DEF ControlOK
      <4> QED BY <2>5, <4>1, <4>2 DEF ControlOK
    <3>5. \A q \in Clients \ {p} :
            /\ got'[q] = got[q] /\ slen'[q] = slen[q] /\ shard'[q] = shard[q]
            /\ stripe'[q] = stripe[q] /\ out'[q] = out[q] /\ pc'[q] = pc[q]
      BY <2>10 DEF ReaderOK, ControlOK
    <3>6. /\ stripe'[p] = stripe[p] + 1
          /\ pc'[p] = IF stripe[p] + 1 = total[p] THEN "done" ELSE "getLoad"
      BY <2>1, <2>10 DEF ControlOK
    <3>7. LocalsOK'
      BY <2>1, <2>5, <3>5, <3>6 DEF LocalsOK, PutStates, DelStates, ShardStates, EarlyStates, HasStripe
    <3>8. HandlesOK'
      BY <2>1, <2>5, <3>5, <3>6 DEF HandlesOK, Key
    <3> QED BY <2>6, <3>3, <3>4, <3>7, <3>8
  <2> QED BY <2>7, <2>9, <2>10
<1> QED BY <1>1, <1>2, <1>3, <1>4, <1>5

\* The steps of a DELETE, and a request that fails.
LEMMA TypeDelete ==
  ASSUME TypeInv, NEW p \in Clients,
         DelList(p) \/ DelShard(p) \/ DelMarker(p) \/ RequestFail(p)
  PROVE  TypeInv'
<1> USE DEF Goto, Finish, disk, req, pos, reader, ghosts, TypeInv, TypeOK
<1>1. CASE DelList(p)
  <2> USE <1>1 DEF DelList
  <2>1. DiskOK' /\ ReaderOK' /\ GhostsOK'
    BY DEF DiskOK, ReaderOK, GhostsOK
  <2>2. Listed(obj[p]) \subseteq Keys /\ \A k \in Listed(obj[p]) : k[1] = obj[p]
    BY DEF Listed
  <2>3. ControlOK'
    BY <2>2 DEF ControlOK, DelStates
  <2>4. LocalsOK'
    BY <2>2 DEF ControlOK, LocalsOK, PutStates, DelStates, ShardStates, EarlyStates, HasStripe
  <2>5. HandlesOK'
    BY DEF ControlOK, HandlesOK, Key
  <2> QED BY <2>1, <2>3, <2>4, <2>5
<1>2. CASE DelShard(p)
  <2>1. PICK k \in todo[p] :
          IF files[k] = None
          THEN /\ Finish(p, "ErrShardNotFound")
               /\ UNCHANGED <<files, damaged, fd, todo>>
          ELSE /\ files' = [files EXCEPT ![k] = None]
               /\ damaged' = damaged \ {k}
               /\ fd' = Unlink(k)
               /\ todo' = [todo EXCEPT ![p] = @ \ {k}]
               /\ Goto(p, IF todo[p] = {k} THEN "delMarker" ELSE "delShard")
    BY <1>2 DEF DelShard
  <2>2. /\ UNCHANGED <<markers, obj, cont, stripe, shard, total, size, got, slen, out>>
        /\ UNCHANGED <<value, leftover, solo, expect, begun>>
        /\ pc[p] = "delShard"
    BY <1>2 DEF DelShard
  <2>3. ReaderOK' /\ GhostsOK' /\ DiskOK'
    BY <2>1, <2>2 DEF ReaderOK, GhostsOK, DiskOK
  <2>4. CASE files[k] = None
    <3> USE <2>4
    <3>1. ControlOK'
      BY <2>1, <2>2 DEF ControlOK, Replies
    <3>2. LocalsOK'
      BY <2>1, <2>2, LocalsFinish
    <3>3. HandlesOK'
      BY <2>1, <2>2 DEF ControlOK, HandlesOK, Key
    <3> QED BY <2>3, <3>1, <3>2, <3>3
  <2>5. CASE files[k] # None
    <3> USE <2>5
    <3>1. fd' \in [Clients -> BOOLEAN]
      BY <2>1, Zenon DEF Unlink, ControlOK
    <3>2. ControlOK'
      <4>1. todo' \in [Clients -> SUBSET Keys]
        BY <2>1 DEF ControlOK
      <4>2. /\ pc' \in [Clients -> PutStates \cup GetStates \cup DelStates \cup {"idle", "done"}]
            /\ reply' = reply
        BY <2>1 DEF ControlOK, DelStates
      <4> QED BY <2>2, <3>1, <4>1, <4>2 DEF ControlOK
    <3>3. LocalsOK'
      <4>1. /\ todo'[p] = todo[p] \ {k}
            /\ pc'[p] = IF todo[p] = {k} THEN "delMarker" ELSE "delShard"
            /\ todo[p] = {k} => todo'[p] = {}
        BY <2>1 DEF ControlOK, Goto
      <4>2. \A q \in Clients \ {p} : todo'[q] = todo[q] /\ pc'[q] = pc[q]
        BY <2>1 DEF ControlOK, Goto
      <4> QED BY <2>2, <4>1, <4>2 DEF LocalsOK, PutStates, DelStates, ShardStates, EarlyStates, HasStripe
    <3>4. ASSUME NEW q \in Clients, fd'[q], pc'[q] \in {"putHeader", "putPayload"}
          PROVE  files'[Key(q)'] # None
      <4>1. pc'[q] = pc[q] /\ Key(q)' = Key(q)
        BY <2>1, <2>2, <3>4 DEF ControlOK, Key
      <4>2. fd[q] /\ Key(q) # k
        BY <2>1, <3>4, <4>1 DEF Unlink
      <4>3. files[Key(q)] # None /\ Key(q) \in Keys
        BY <3>4, <4>1, <4>2, PutKey DEF HandlesOK, ShardStates
      <4> QED BY <2>1, <4>1, <4>2, <4>3 DEF DiskOK
    <3>5. HandlesOK'
      BY <3>4 DEF HandlesOK
    <3> QED BY <2>3, <3>2, <3>3, <3>5
  <2> QED BY <2>4, <2>5
<1>3. CASE DelMarker(p)
  <2> USE <1>3 DEF DelMarker
  <2>1. DiskOK' /\ ReaderOK'
    BY DEF DiskOK, ReaderOK
  <2>2. obj[p] \in Objects
    BY DEF LocalsOK
  <2>3. GhostsOK'
    BY <2>2, GhostTypes
  <2>4. fd' \in [Clients -> BOOLEAN]
    BY Zenon DEF ControlOK
  <2>5. ControlOK'
    BY <2>4 DEF ControlOK, Replies
  <2>6. LocalsOK'
    BY LocalsFinish
  <2>7. HandlesOK'
    BY DEF ControlOK, HandlesOK, Key
  <2> QED BY <2>1, <2>3, <2>5, <2>6, <2>7
<1>4. CASE RequestFail(p)
  <2> USE <1>4 DEF RequestFail
  <2>1. DiskOK' /\ ReaderOK' /\ GhostsOK'
    BY DEF DiskOK, ReaderOK, GhostsOK
  <2>2. ControlOK'
    BY DEF ControlOK, Replies
  <2>3. LocalsOK'
    BY LocalsFinish, StatesDiffer
  <2>4. HandlesOK'
    BY DEF ControlOK, HandlesOK, Key
  <2> QED BY <2>1, <2>2, <2>3, <2>4
<1> QED BY <1>1, <1>2, <1>3, <1>4

\* The end of a request, or of all of them.
LEMMA TypeReset ==
  ASSUME TypeInv, NEW S \in SUBSET Clients, Reset(S)
  PROVE  TypeInv'
<1> USE DEF Reset, disk, TypeInv, TypeOK
<1>1. DiskOK'
  BY DEF DiskOK
<1>2. fd' \in [Clients -> BOOLEAN] /\ solo' \in [Clients -> BOOLEAN]
  BY Zenon DEF ControlOK, GhostsOK
<1>3. ControlOK'
  BY <1>2, ShardFacts DEF ControlOK, Replies
<1>4. ReaderOK'
  BY StoreAssumption DEF ReaderOK, NoShards
<1>5. GhostsOK'
  BY <1>2 DEF GhostsOK
<1>6. LocalsOK'
  BY DEF LocalsOK, PutStates, DelStates, ShardStates, EarlyStates, HasStripe
<1>7. HandlesOK'
  BY DEF HandlesOK, Key
<1> QED BY <1>1, <1>3, <1>4, <1>5, <1>6, <1>7

\* Damage at rest.
LEMMA TypeFault ==
  ASSUME TypeInv, NEW k \in Keys, NEW kind \in FaultKinds, Fault(k, kind)
  PROVE  TypeInv'
<1> USE DEF TypeInv, TypeOK
<1>1. PICK f \in Damage(files[k], kind, StripeSize + 1) : files' = [files EXCEPT ![k] = f]
  BY DEF Fault
<1>2. f \in FileData \cup {None} /\ (kind # "missing" => f # None)
  <2>1. files[k] \in FileData
    BY DEF Fault, DiskOK
  <2>2. kind \in DamageKinds
    BY StoreAssumption
  <2> QED BY <2>1, <2>2, DamageTypes
<1>3. /\ UNCHANGED <<markers, pc, obj, cont, stripe, shard, total, size, got, slen, out>>
      /\ UNCHANGED <<todo, reply, value, leftover, solo, expect, begun>>
      /\ damaged' = damaged \cup {k}
      /\ fd' = IF kind = "missing" THEN Unlink(k) ELSE fd
  BY DEF Fault, req, pos, reader, ghosts
<1>4. DiskOK' /\ ReaderOK' /\ GhostsOK'
  BY <1>1, <1>2, <1>3 DEF DiskOK, ReaderOK, GhostsOK
<1>5. fd' \in [Clients -> BOOLEAN]
  BY <1>3, Zenon DEF Unlink, ControlOK
<1>6. ControlOK'
  BY <1>3, <1>5 DEF ControlOK
<1>7. LocalsOK'
  BY <1>3 DEF LocalsOK, HasStripe
<1>8. ASSUME NEW q \in Clients, fd'[q], pc'[q] \in {"putHeader", "putPayload"}
      PROVE  files'[Key(q)'] # None
  <2>1. pc'[q] = pc[q] /\ Key(q)' = Key(q)
    BY <1>3 DEF Key
  <2>2. fd[q] /\ (kind = "missing" => Key(q) # k)
    BY <1>3, <1>8, <2>1 DEF Unlink
  <2>3. files[Key(q)] # None /\ Key(q) \in Keys
    BY <1>8, <2>1, <2>2, PutKey DEF HandlesOK, ShardStates
  <2> QED BY <1>1, <1>2, <2>1, <2>2, <2>3 DEF DiskOK
<1>9. HandlesOK'
  BY <1>8 DEF HandlesOK
<1> QED BY <1>4, <1>6, <1>7, <1>9

\* Every step preserves the types.
LEMMA TypeNext == TypeInv /\ [Next]_vars => TypeInv'
<1> SUFFICES ASSUME TypeInv, [Next]_vars PROVE TypeInv'
  OBVIOUS
<1>1. ASSUME NEW p \in Clients, Start(p) PROVE TypeInv'
  BY <1>1, TypePutStart, TypeStart DEF Start
<1>2. ASSUME NEW p \in Clients, Step(p) PROVE TypeInv'
  BY <1>2, TypePut, TypeGetList, TypeGet, TypeDelete DEF Step
<1>3. ASSUME NEW p \in Clients, RequestFail(p) PROVE TypeInv'
  BY <1>3, TypeDelete
<1>4. ASSUME NEW p \in Clients, Return(p) PROVE TypeInv'
  BY <1>4, TypeReset DEF Return
<1>5. ASSUME Crash PROVE TypeInv'
  BY <1>5, TypeReset DEF Crash
<1>6. ASSUME NEW k \in Keys, NEW kind \in FaultKinds, Fault(k, kind) PROVE TypeInv'
  BY <1>6, TypeFault
<1>7. ASSUME UNCHANGED vars PROVE TypeInv'
  BY <1>7 DEF vars, disk, req, pos, reader, ghosts, TypeInv, TypeOK, DiskOK, ControlOK,
              ReaderOK, GhostsOK, LocalsOK, HandlesOK, Key, HasStripe
<1> QED BY <1>1, <1>2, <1>3, <1>4, <1>5, <1>6, <1>7 DEF Next

\* PutObject, GetObject, objectReader.Read and DeleteObject keep every
\* variable in its range, however requests interleave, fail, crash or meet
\* damage.
THEOREM TypeCorrect == Spec => []TypeOK
<1>1. TypeInv => TypeOK
  BY DEF TypeInv
<1> QED BY TypeInit, TypeNext, <1>1, PTL DEF Spec

-----------------------------------------------------------------------------
(* A deleted object stays deleted: AbsenceInv is inductive, so             *)
(* DeletedIsGone holds for every value of the constants, whatever damage,  *)
(* failures and crashes happen.                                            *)

\* A request in progress has an object, and reads are no mutations.
LEMMA MutatingFacts ==
  ASSUME TypeInv, NEW p \in Clients
  PROVE  /\ Mutating(p) => obj[p] \in Objects /\ pc[p] \notin GetStates \cup {"idle", "done"}
         /\ pc[p] # "idle" => obj[p] \in Objects
  BY DEF TypeInv, LocalsOK, Mutating, PutStates, DelStates, GetStates

\* The invariant holds at the start.
LEMMA AbsenceInit == Init => AbsenceInv
<1> SUFFICES ASSUME Init PROVE AbsenceInv
  OBVIOUS
<1>1. TypeInv
  BY TypeInit
<1>2. Exclusion /\ AbsentEmpty /\ DeleteCovers /\ AbsentReads
  BY ValuesAssumption
  DEF Init, Exclusion, AbsentEmpty, DeleteCovers, AbsentReads, Mutating, PutStates, DelStates
<1> QED BY <1>1, <1>2 DEF AbsenceInv

\* A step of one request that begins and acknowledges nothing preserves the
\* invariant if it creates files of its own object only, as a mutation, and
\* keeps its own part of DeleteCovers and AbsentReads.
LEMMA AbsenceFrame ==
  ASSUME AbsenceInv, TypeInv', NEW p \in Clients,
         UNCHANGED <<obj, value, solo, expect>>,
         \A q \in Clients \ {p} : pc'[q] = pc[q] /\ reply'[q] = reply[q] /\ todo'[q] = todo[q],
         Mutating(p)' => Mutating(p),
         pc[p] \in GetStates \cup {"done"} => pc'[p] \in GetStates \cup {"done"},
         \A k \in Keys : files'[k] # None => files[k] # None \/ (Mutating(p) /\ k[1] = obj[p]),
         \A o \in Objects : markers'[o] # None => markers[o] # None \/ (Mutating(p) /\ o = obj[p]),
         solo[p] /\ pc'[p] \in {"delShard", "delMarker"} =>
           \A k \in Keys : k[1] = obj[p] /\ files'[k] # None => pc'[p] = "delShard" /\ k \in todo'[p],
         expect[p] = None =>
           /\ pc'[p] \in {"getList", "getMarker", "done"}
           /\ pc'[p] = "done" => reply'[p] \in {"ErrObjectNotFound", "ErrWalk", "ErrIO"}
  PROVE  AbsenceInv'
<1>1. \A q \in Clients : Mutating(q)' => Mutating(q)
  BY DEF Mutating
<1>2. Exclusion'
  <2>1. \A q \in Clients : Mutating(q)' => value'[obj'[q]] = Unknown
    BY <1>1 DEF AbsenceInv, Exclusion
  <2>2. \A q, r \in Clients :
          Mutating(q)' /\ Mutating(r)' /\ q # r /\ obj'[q] = obj'[r] => ~solo'[q]
    BY <1>1 DEF AbsenceInv, Exclusion
  <2>3. ASSUME NEW q \in Clients, expect'[q] # Unknown
        PROVE  pc'[q] \in GetStates \cup {"done"} /\ value'[obj'[q]] = expect'[q]
    BY <2>3 DEF AbsenceInv, Exclusion
  <2> QED BY <2>1, <2>2, <2>3 DEF Exclusion
<1>3. Mutating(p) => value[obj[p]] # None
  BY ValuesAssumption DEF AbsenceInv, Exclusion
<1>4. AbsentEmpty'
  BY <1>3 DEF AbsenceInv, AbsentEmpty
<1>5. ASSUME NEW q \in Clients, solo'[q], pc'[q] \in {"delShard", "delMarker"},
             NEW k \in Keys, k[1] = obj'[q], files'[k] # None
      PROVE  pc'[q] = "delShard" /\ k \in todo'[q]
  <2>1. CASE q = p
    BY <1>5, <2>1
  <2>2. CASE q # p
    <3>1. Mutating(q) /\ solo[q] /\ pc[q] = pc'[q] /\ todo[q] = todo'[q]
      BY <1>5, <2>2 DEF Mutating, DelStates
    <3>2. ~(Mutating(p) /\ k[1] = obj[p])
      BY <1>5, <2>2, <3>1 DEF AbsenceInv, Exclusion
    <3> QED BY <1>5, <3>1, <3>2 DEF AbsenceInv, DeleteCovers
  <2> QED BY <2>1, <2>2
<1>6. DeleteCovers'
  BY <1>5 DEF DeleteCovers
<1>7. AbsentReads'
  BY DEF AbsenceInv, AbsentReads
<1> QED BY <1>2, <1>4, <1>6, <1>7 DEF AbsenceInv

\* The writes of a PUT.
LEMMA AbsencePut ==
  ASSUME AbsenceInv, TypeInv', NEW p \in Clients,
         PutCreate(p) \/ PutHeader(p) \/ PutPayload(p) \/ MarkerCreate(p)
  PROVE  AbsenceInv'
<1> USE DEF Goto, disk, req, pos, reader, ghosts
<1>1. pc[p] \in PutStates /\ Mutating(p) /\ expect[p] # None
  <2>1. pc[p] \in PutStates
    BY DEF PutCreate, PutHeader, PutPayload, MarkerCreate, PutStates
  <2>2. pc[p] \notin GetStates \cup {"done"}
    BY <2>1 DEF PutStates, GetStates
  <2> QED BY <2>1, <2>2, ValuesAssumption DEF Mutating, AbsenceInv, Exclusion
<1>2. pc'[p] \in PutStates
  BY DEF PutCreate, PutHeader, PutPayload, MarkerCreate, PutStates, AbsenceInv, TypeInv, TypeOK, ControlOK
<1>3. /\ UNCHANGED <<obj, value, solo, expect, todo, reply>>
      /\ \A q \in Clients \ {p} : pc'[q] = pc[q]
  BY DEF PutCreate, PutHeader, PutPayload, MarkerCreate, AbsenceInv, TypeInv, TypeOK, ControlOK
<1>4. \A k \in Keys : files'[k] # None => files[k] # None \/ k[1] = obj[p]
  BY DEF PutCreate, PutHeader, PutPayload, MarkerCreate, Key, AbsenceInv, TypeInv, TypeOK, DiskOK
<1>5. \A o \in Objects : markers'[o] # None => markers[o] # None \/ o = obj[p]
  BY DEF PutCreate, PutHeader, PutPayload, MarkerCreate, AbsenceInv, TypeInv, TypeOK, DiskOK
<1>6. pc'[p] \notin {"delShard", "delMarker"} /\ pc[p] \notin GetStates \cup {"done"}
  BY <1>1, <1>2 DEF PutStates, GetStates
<1> QED BY <1>1, <1>2, <1>3, <1>4, <1>5, <1>6, AbsenceFrame

\* The steps of a GET: one of a deleted object lists nothing and finds no
\* marker.
LEMMA AbsenceGet ==
  ASSUME AbsenceInv, TypeInv', NEW p \in Clients,
         GetList(p) \/ GetMarker(p) \/ GetSize(p) \/ GetLoad(p) \/ GetJoin(p)
  PROVE  AbsenceInv'
<1> USE DEF Goto, Finish, disk, req, pos, reader, ghosts
<1> USE DEF GetList, GetMarker, ReadMarker, GetSize, GetLoad, GetJoin
<1>1. /\ UNCHANGED <<files, markers, obj, value, solo, expect, todo>>
      /\ pc[p] \in GetStates
  BY DEF GetStates
<1>2. pc \in [Clients -> PutStates \cup GetStates \cup DelStates \cup {"idle", "done"}]
      /\ reply \in [Clients -> Replies]
  BY DEF AbsenceInv, TypeInv, TypeOK, ControlOK
<1>3. \A q \in Clients \ {p} : pc'[q] = pc[q] /\ reply'[q] = reply[q]
  BY <1>2
<1>4. pc'[p] \in GetStates \cup {"done"}
  BY <1>1, <1>2 DEF GetStates
<1>5. ASSUME expect[p] = None
      PROVE  /\ pc'[p] \in {"getList", "getMarker", "done"}
             /\ pc'[p] = "done" => reply'[p] \in {"ErrObjectNotFound", "ErrWalk", "ErrIO"}
  <2>1. obj[p] \in Objects /\ value[obj[p]] = None
    BY <1>1, <1>5, MutatingFacts, ValuesAssumption DEF AbsenceInv, Exclusion, GetStates
  <2>2. markers[obj[p]] = None /\ Listed(obj[p]) = {}
    BY <2>1 DEF AbsenceInv, AbsentEmpty, Listed
  <2>3. pc[p] \in {"getList", "getMarker"}
    BY <1>1, <1>5 DEF AbsenceInv, AbsentReads, GetStates
  <2>4. CASE GetList(p)
    <3>1. {k[2] : k \in Listed(obj[p])} = {}
      BY <2>2
    <3> QED BY <1>2, <2>4, <3>1
  <2>5. CASE GetMarker(p)
    BY <1>2, <2>2, <2>5, ValuesAssumption
  <2> QED BY <2>3, <2>4, <2>5
<1>6. ~Mutating(p)' /\ pc'[p] \notin {"delShard", "delMarker"}
  BY <1>4 DEF Mutating, GetStates, PutStates, DelStates
<1> HIDE DEF GetList, GetMarker, ReadMarker, GetSize, GetLoad, GetJoin
<1> QED BY <1>1, <1>3, <1>4, <1>5, <1>6, AbsenceFrame

\* The steps of a DELETE before its acknowledgement, and requests that fail.
LEMMA AbsenceDelete ==
  ASSUME AbsenceInv, TypeInv', NEW p \in Clients,
         ListError(p) \/ DelList(p) \/ DelShard(p) \/ RequestFail(p)
  PROVE  AbsenceInv'
<1> USE DEF Goto, Finish, disk, req, pos, reader, ghosts
<1>1. /\ pc \in [Clients -> PutStates \cup GetStates \cup DelStates \cup {"idle", "done"}]
      /\ reply \in [Clients -> Replies] /\ todo \in [Clients -> SUBSET Keys]
      /\ files \in [Keys -> FileData \cup {None}]
  BY DEF AbsenceInv, TypeInv, TypeOK, ControlOK, DiskOK
<1>2. CASE ListError(p) \/ RequestFail(p)
  <2>1. /\ UNCHANGED <<files, markers, obj, value, solo, expect, todo>>
        /\ pc' = [pc EXCEPT ![p] = "done"]
        /\ \/ reply' = [reply EXCEPT ![p] = "ErrWalk"]
           \/ reply' = [reply EXCEPT ![p] = "ErrIO"]
    BY <1>2 DEF ListError, RequestFail
  <2>2. ~Mutating(p)'
    BY <1>1, <2>1 DEF Mutating, PutStates, DelStates
  <2> QED BY <1>1, <2>1, <2>2, AbsenceFrame
<1>3. ASSUME pc[p] \in DelStates PROVE Mutating(p) /\ expect[p] # None /\ pc[p] \notin GetStates \cup {"done"}
  BY <1>3, ValuesAssumption DEF Mutating, AbsenceInv, Exclusion, GetStates, DelStates
<1>4. CASE DelList(p)
  <2>1. /\ UNCHANGED <<files, markers, obj, value, solo, expect, reply>>
        /\ pc[p] = "delList" /\ pc[p] \in DelStates
        /\ todo' = [todo EXCEPT ![p] = Listed(obj[p])]
        /\ pc' = [pc EXCEPT ![p] = IF Listed(obj[p]) = {} THEN "delMarker" ELSE "delShard"]
    BY <1>4 DEF DelList, DelStates
  <2>2. \A k \in Keys : k[1] = obj[p] /\ files'[k] # None => pc'[p] = "delShard" /\ k \in todo'[p]
    BY <1>1, <2>1 DEF Listed
  <2> QED BY <1>1, <1>3, <2>1, <2>2, AbsenceFrame
<1>5. CASE DelShard(p)
  <2>1. PICK k \in todo[p] :
          IF files[k] = None
          THEN /\ Finish(p, "ErrShardNotFound")
               /\ UNCHANGED <<files, damaged, fd, todo>>
          ELSE /\ files' = [files EXCEPT ![k] = None]
               /\ damaged' = damaged \ {k}
               /\ fd' = Unlink(k)
               /\ todo' = [todo EXCEPT ![p] = @ \ {k}]
               /\ Goto(p, IF todo[p] = {k} THEN "delMarker" ELSE "delShard")
    BY <1>5 DEF DelShard
  <2>2. /\ UNCHANGED <<markers, obj, value, solo, expect>>
        /\ pc[p] = "delShard" /\ pc[p] \in DelStates
    BY <1>5 DEF DelShard, DelStates
  <2>3. CASE files[k] = None
    <3>1. /\ UNCHANGED <<files, todo>> /\ pc' = [pc EXCEPT ![p] = "done"]
          /\ reply' = [reply EXCEPT ![p] = "ErrShardNotFound"]
      BY <2>1, <2>3
    <3>2. ~Mutating(p)'
      BY <1>1, <3>1 DEF Mutating, PutStates, DelStates
    <3> QED BY <1>1, <1>3, <2>2, <3>1, <3>2, AbsenceFrame
  <2>4. CASE files[k] # None
    <3>1. /\ files' = [files EXCEPT ![k] = None] /\ UNCHANGED reply
          /\ todo' = [todo EXCEPT ![p] = @ \ {k}]
          /\ pc' = [pc EXCEPT ![p] = IF todo[p] = {k} THEN "delMarker" ELSE "delShard"]
      BY <2>1, <2>4
    <3>2. ASSUME solo[p], NEW l \in Keys, l[1] = obj[p], files'[l] # None
          PROVE  pc'[p] = "delShard" /\ l \in todo'[p]
      <4>1. l # k /\ files[l] # None
        BY <1>1, <3>1, <3>2
      <4>2. l \in todo[p]
        BY <2>2, <3>2, <4>1 DEF AbsenceInv, DeleteCovers
      <4> QED BY <1>1, <3>1, <4>1, <4>2
    <3>3. \A l \in Keys : files'[l] # None => files[l] # None
      BY <1>1, <3>1
    <3> QED BY <1>1, <1>3, <2>2, <3>1, <3>2, <3>3, AbsenceFrame
  <2> QED BY <2>3, <2>4
<1> QED BY <1>2, <1>4, <1>5

\* The acknowledgements.  Only a request that ran alone makes a promise, and
\* a DELETE that ran alone has removed every file there was.
LEMMA AbsenceAck ==
  ASSUME AbsenceInv, TypeInv', NEW p \in Clients, MarkerWrite(p) \/ DelMarker(p)
  PROVE  AbsenceInv'
<1> USE DEF Goto, Finish, disk, req, pos, reader, ghosts
<1>1. /\ pc \in [Clients -> PutStates \cup GetStates \cup DelStates \cup {"idle", "done"}]
      /\ reply \in [Clients -> Replies] /\ markers \in [Objects -> Nat \cup {None, Torn}]
      /\ value \in [Objects -> Contents \cup {None, Unknown}]
  BY DEF AbsenceInv, TypeInv, TypeOK, ControlOK, DiskOK, GhostsOK
<1>2. /\ pc[p] \in PutStates \cup DelStates /\ Mutating(p)
      /\ UNCHANGED <<files, obj, solo, expect, todo>>
      /\ pc' = [pc EXCEPT ![p] = "done"]
      /\ \A q \in Clients \ {p} : reply'[q] = reply[q]
  BY <1>1 DEF MarkerWrite, ObjectMeta, DelMarker, Acknowledge, Mutating, PutStates, DelStates
<1>3. obj[p] \in Objects /\ value[obj[p]] = Unknown /\ expect[p] = Unknown
  BY <1>2, MutatingFacts DEF AbsenceInv, Exclusion
<1>4. \A q \in Clients : expect[q] # Unknown => q # p /\ obj[q] # obj[p]
  BY <1>3 DEF AbsenceInv, Exclusion
<1>5. /\ \A o \in Objects : o # obj[p] => value'[o] = value[o] /\ markers'[o] = markers[o]
      /\ ~solo[p] => value' = value
      /\ markers' = [markers EXCEPT ![obj[p]] = markers'[obj[p]]]
  BY <1>1, <1>3 DEF MarkerWrite, ObjectMeta, DelMarker, Acknowledge
<1>6. ~Mutating(p)' /\ \A q \in Clients \ {p} : Mutating(q)' = Mutating(q)
  BY <1>1, <1>2 DEF Mutating, PutStates, DelStates
<1>7. Exclusion'
  <2>1. ASSUME NEW q \in Clients, Mutating(q)' PROVE value'[obj'[q]] = Unknown
    <3>1. q # p /\ Mutating(q) /\ value[obj[q]] = Unknown /\ obj[q] \in Objects
      BY <1>6, <2>1, MutatingFacts DEF AbsenceInv, Exclusion
    <3>2. obj[q] = obj[p] => ~solo[p]
      BY <1>2, <3>1 DEF AbsenceInv, Exclusion
    <3> QED BY <1>2, <1>5, <3>1, <3>2
  <2>2. \A q, r \in Clients :
          Mutating(q)' /\ Mutating(r)' /\ q # r /\ obj'[q] = obj'[r] => ~solo'[q]
    BY <1>2, <1>6 DEF AbsenceInv, Exclusion
  <2>3. ASSUME NEW q \in Clients, expect'[q] # Unknown
        PROVE  pc'[q] \in GetStates \cup {"done"} /\ value'[obj'[q]] = expect'[q]
    <3>1. q # p /\ obj[q] # obj[p] /\ pc[q] \in GetStates \cup {"done"} /\ value[obj[q]] = expect[q]
      BY <1>2, <1>4, <2>3 DEF AbsenceInv, Exclusion
    <3>2. obj[q] \in Objects
      BY <3>1, MutatingFacts DEF AbsenceInv, GetStates
    <3> QED BY <1>1, <1>2, <1>5, <3>1, <3>2
  <2> QED BY <2>1, <2>2, <2>3 DEF Exclusion
<1>8. AbsentEmpty'
  <2>1. ASSUME NEW o \in Objects, value'[o] = None
        PROVE  markers'[o] = None /\ \A k \in Keys : k[1] = o => files'[k] = None
    <3>1. CASE o # obj[p]
      BY <1>2, <1>5, <2>1, <3>1 DEF AbsenceInv, AbsentEmpty
    <3>2. CASE o = obj[p]
      <4>1. solo[p]
        BY <1>3, <1>5, <2>1, <3>2, ValuesAssumption
      <4>2. ~MarkerWrite(p)
        <5>1. ASSUME MarkerWrite(p) PROVE FALSE
          <6>1. value'[o] = Unknown \/ value'[o] = cont[p]
            BY <1>1, <1>3, <3>2, <5>1 DEF MarkerWrite, ObjectMeta, Acknowledge
          <6>2. cont[p] \in Contents
            BY <5>1 DEF MarkerWrite, ObjectMeta, AbsenceInv, TypeInv, LocalsOK, PutStates
          <6> QED BY <2>1, <6>1, <6>2, ValuesAssumption
        <5> QED BY <5>1
      <4>3. pc[p] = "delMarker" /\ markers' = [markers EXCEPT ![obj[p]] = None]
        BY <4>2 DEF DelMarker
      <4>4. \A k \in Keys : k[1] = o => files[k] = None
        BY <3>2, <4>1, <4>3 DEF AbsenceInv, DeleteCovers
      <4> QED BY <1>1, <1>2, <3>2, <4>3, <4>4
    <3> QED BY <3>1, <3>2
  <2> QED BY <2>1 DEF AbsentEmpty
<1>9. DeleteCovers'
  BY <1>1, <1>2 DEF AbsenceInv, DeleteCovers
<1>10. AbsentReads'
  BY <1>1, <1>2, <1>4, ValuesAssumption DEF AbsenceInv, AbsentReads
<1> QED BY <1>7, <1>8, <1>9, <1>10 DEF AbsenceInv

\* A PUT or DELETE that begins ends every promise about its object.
LEMMA AbsenceMutation ==
  ASSUME AbsenceInv, TypeInv', NEW p \in Clients, NEW o \in Objects, pc[p] = "idle",
         BeginMutation(p, o), obj' = [obj EXCEPT ![p] = o],
         NEW l \in {"putCreate", "markerCreate", "delList"}, Goto(p, l),
         UNCHANGED <<files, markers, todo>>
  PROVE  AbsenceInv'
<1> USE DEF Goto
<1>1. /\ pc \in [Clients -> PutStates \cup GetStates \cup DelStates \cup {"idle", "done"}]
      /\ obj \in [Clients -> Objects \cup {None}]
      /\ value \in [Objects -> Contents \cup {None, Unknown}]
  BY DEF AbsenceInv, TypeInv, TypeOK, ControlOK, GhostsOK
<1>2. /\ pc'[p] = l /\ obj'[p] = o
      /\ \A q \in Clients \ {p} : pc'[q] = pc[q] /\ obj'[q] = obj[q]
  BY <1>1
<1>3. ~Mutating(p) /\ \A q \in Clients \ {p} : Mutating(q)' = Mutating(q)
  BY <1>2 DEF Mutating, PutStates, DelStates
<1>4. /\ value'[o] = Unknown /\ \A r \in Objects : r # o => value'[r] = value[r]
      /\ \A q \in Clients : expect'[q] = IF obj[q] = o THEN Unknown ELSE expect[q]
  BY <1>1 DEF BeginMutation
<1>5. /\ solo'[p] => \A q \in Clients : Mutating(q) => obj[q] # o
      /\ \A q \in Clients \ {p} : solo'[q] => solo[q] /\ (Mutating(q) => obj[q] # o)
  <2>1. \A q \in Clients : q \in Mutators(o) <=> obj[q] = o /\ Mutating(q)
    BY DEF Mutators, Mutating
  <2>2. solo' = [q \in Clients |-> IF q = p THEN Mutators(o) = {}
                                   ELSE solo[q] /\ q \notin Mutators(o)]
    BY DEF BeginMutation
  <2>3. solo'[p] <=> Mutators(o) = {}
    BY <2>2, Zenon
  <2>4. \A q \in Clients \ {p} : solo'[q] <=> solo[q] /\ q \notin Mutators(o)
    BY <2>2, Zenon
  <2> QED BY <2>1, <2>3, <2>4
<1>6. expect[p] = Unknown
  BY DEF AbsenceInv, Exclusion, GetStates
<1>7. Exclusion'
  <2>1. ASSUME NEW q \in Clients, Mutating(q)' PROVE value'[obj'[q]] = Unknown
    <3>1. CASE q = p
      BY <1>2, <1>4, <3>1
    <3>2. CASE q # p
      BY <1>2, <1>3, <1>4, <2>1, <3>2, MutatingFacts DEF AbsenceInv, Exclusion
    <3> QED BY <3>1, <3>2
  <2>2. ASSUME NEW q \in Clients, NEW r \in Clients,
               Mutating(q)', Mutating(r)', q # r, obj'[q] = obj'[r]
        PROVE  ~solo'[q]
    <3>1. CASE q = p
      BY <1>2, <1>3, <1>5, <2>2, <3>1
    <3>2. CASE r = p
      BY <1>2, <1>3, <1>5, <2>2, <3>2
    <3>3. CASE q # p /\ r # p
      BY <1>2, <1>3, <1>5, <2>2, <3>3 DEF AbsenceInv, Exclusion
    <3> QED BY <3>1, <3>2, <3>3
  <2>3. ASSUME NEW q \in Clients, expect'[q] # Unknown
        PROVE  pc'[q] \in GetStates \cup {"done"} /\ value'[obj'[q]] = expect'[q]
    <3>1. q # p /\ obj[q] # o /\ expect'[q] = expect[q]
      BY <1>4, <1>6, <2>3
    <3>2. pc[q] \in GetStates \cup {"done"} /\ value[obj[q]] = expect[q]
      BY <2>3, <3>1 DEF AbsenceInv, Exclusion
    <3>3. obj[q] \in Objects
      BY <3>2, MutatingFacts DEF AbsenceInv, GetStates
    <3> QED BY <1>2, <1>4, <3>1, <3>2, <3>3
  <2> QED BY <2>1, <2>2, <2>3 DEF Exclusion
<1>8. AbsentEmpty'
  BY <1>4, ValuesAssumption DEF AbsenceInv, AbsentEmpty
<1>9. DeleteCovers'
  <2>1. ASSUME NEW q \in Clients, solo'[q], pc'[q] \in {"delShard", "delMarker"}
        PROVE  q # p /\ solo[q] /\ pc'[q] = pc[q] /\ obj'[q] = obj[q]
    BY <1>2, <1>5, <2>1
  <2> QED BY <2>1 DEF AbsenceInv, DeleteCovers
<1>10. AbsentReads'
  BY <1>2, <1>4, <1>6, ValuesAssumption DEF AbsenceInv, AbsentReads
<1> QED BY <1>7, <1>8, <1>9, <1>10 DEF AbsenceInv

\* A GET begins: it expects what is promised now.
LEMMA AbsenceGetStart ==
  ASSUME AbsenceInv, TypeInv', NEW p \in Clients, NEW o \in Objects, GetStart(p, o)
  PROVE  AbsenceInv'
<1>1. /\ pc[p] = "idle" /\ pc' = [pc EXCEPT ![p] = "getList"]
      /\ obj' = [obj EXCEPT ![p] = o] /\ expect' = [expect EXCEPT ![p] = value[o]]
      /\ UNCHANGED <<files, markers, todo, reply, value, solo>>
  BY DEF GetStart, Goto, disk
<1>2. /\ pc \in [Clients -> PutStates \cup GetStates \cup DelStates \cup {"idle", "done"}]
      /\ obj \in [Clients -> Objects \cup {None}]
      /\ expect \in [Clients -> Contents \cup {None, Unknown}]
  BY DEF AbsenceInv, TypeInv, TypeOK, ControlOK, GhostsOK
<1>3. /\ pc'[p] = "getList" /\ obj'[p] = o /\ expect'[p] = value[o]
      /\ \A q \in Clients \ {p} : pc'[q] = pc[q] /\ obj'[q] = obj[q] /\ expect'[q] = expect[q]
  BY <1>1, <1>2
<1>4. ~Mutating(p)' /\ \A q \in Clients \ {p} : Mutating(q)' = Mutating(q)
  BY <1>3 DEF Mutating, PutStates, DelStates
<1>5. Exclusion'
  <2>1. \A q \in Clients : Mutating(q)' => value'[obj'[q]] = Unknown
    BY <1>1, <1>3, <1>4 DEF AbsenceInv, Exclusion
  <2>2. \A q, r \in Clients :
          Mutating(q)' /\ Mutating(r)' /\ q # r /\ obj'[q] = obj'[r] => ~solo'[q]
    BY <1>1, <1>3, <1>4 DEF AbsenceInv, Exclusion
  <2>3. ASSUME NEW q \in Clients, expect'[q] # Unknown
        PROVE  pc'[q] \in GetStates \cup {"done"} /\ value'[obj'[q]] = expect'[q]
    BY <1>1, <1>3, <2>3 DEF AbsenceInv, Exclusion, GetStates
  <2> QED BY <2>1, <2>2, <2>3 DEF Exclusion
<1>6. AbsentEmpty' /\ DeleteCovers' /\ AbsentReads'
  BY <1>1, <1>3 DEF AbsenceInv, AbsentEmpty, DeleteCovers, AbsentReads
<1> QED BY <1>5, <1>6 DEF AbsenceInv

\* The end of a request, or of all of them.
LEMMA AbsenceReset ==
  ASSUME AbsenceInv, TypeInv', NEW S \in SUBSET Clients, Reset(S)
  PROVE  AbsenceInv'
<1>1. /\ UNCHANGED <<files, markers, value>>
      /\ \A q \in S : pc'[q] = "idle" /\ expect'[q] = Unknown
      /\ \A q \in Clients \ S : /\ pc'[q] = pc[q] /\ expect'[q] = expect[q] /\ obj'[q] = obj[q]
                                /\ todo'[q] = todo[q] /\ reply'[q] = reply[q]
  BY DEF Reset, disk
<1>2. \A q \in Clients : solo'[q] => q \notin S /\ solo[q]
  BY Zenon DEF Reset
<1>3. \A q \in Clients : Mutating(q)' => q \notin S /\ Mutating(q)
  BY <1>1 DEF Mutating, PutStates, DelStates
<1>4. Exclusion'
  <2>1. \A q \in Clients : Mutating(q)' => value'[obj'[q]] = Unknown
    BY <1>1, <1>3 DEF AbsenceInv, Exclusion
  <2>2. \A q, r \in Clients :
          Mutating(q)' /\ Mutating(r)' /\ q # r /\ obj'[q] = obj'[r] => ~solo'[q]
    BY <1>1, <1>2, <1>3 DEF AbsenceInv, Exclusion
  <2>3. ASSUME NEW q \in Clients, expect'[q] # Unknown
        PROVE  pc'[q] \in GetStates \cup {"done"} /\ value'[obj'[q]] = expect'[q]
    BY <1>1, <2>3 DEF AbsenceInv, Exclusion
  <2> QED BY <2>1, <2>2, <2>3 DEF Exclusion
<1>5. AbsentEmpty' /\ DeleteCovers'
  BY <1>1, <1>2 DEF AbsenceInv, AbsentEmpty, DeleteCovers
<1>6. AbsentReads'
  BY <1>1, ValuesAssumption DEF AbsenceInv, AbsentReads
<1> QED BY <1>4, <1>5, <1>6 DEF AbsenceInv

\* Damage creates no file.
LEMMA AbsenceFault ==
  ASSUME AbsenceInv, TypeInv', NEW k \in Keys, NEW kind \in FaultKinds, Fault(k, kind)
  PROVE  AbsenceInv'
<1>1. UNCHANGED <<markers, pc, obj, todo, reply, value, solo, expect>>
  BY DEF Fault, req, pos, reader, ghosts
<1>2. \A l \in Keys : files'[l] # None => files[l] # None
  BY DEF Fault, AbsenceInv, TypeInv, TypeOK, DiskOK
<1>3. Exclusion'
  BY <1>1 DEF AbsenceInv, Exclusion, Mutating
<1>4. AbsentEmpty' /\ DeleteCovers' /\ AbsentReads'
  BY <1>1, <1>2 DEF AbsenceInv, AbsentEmpty, DeleteCovers, AbsentReads
<1> QED BY <1>3, <1>4 DEF AbsenceInv

\* Every step preserves the invariant.
LEMMA AbsenceNext == AbsenceInv /\ [Next]_vars => AbsenceInv'
<1> SUFFICES ASSUME AbsenceInv, [Next]_vars PROVE AbsenceInv'
  OBVIOUS
<1>0. TypeInv'
  BY TypeNext DEF AbsenceInv
<1>1. ASSUME NEW p \in Clients, NEW o \in Objects, NEW c \in Contents, PutStart(p, o, c)
      PROVE  AbsenceInv'
  <2> DEFINE l == IF HasStripe(c, 0) THEN "putCreate" ELSE "markerCreate"
  <2>1. /\ pc[p] = "idle" /\ Goto(p, l) /\ BeginMutation(p, o)
        /\ obj' = [obj EXCEPT ![p] = o] /\ UNCHANGED <<files, markers, todo>>
    BY <1>1 DEF PutStart, disk
  <2>2. l \in {"putCreate", "markerCreate", "delList"}
    OBVIOUS
  <2> HIDE DEF l
  <2> QED BY <1>0, <2>1, <2>2, AbsenceMutation
<1>2. ASSUME NEW p \in Clients, NEW o \in Objects, DelStart(p, o) PROVE AbsenceInv'
  BY <1>0, <1>2, AbsenceMutation DEF DelStart, disk
<1>3. ASSUME NEW p \in Clients, Start(p) PROVE AbsenceInv'
  BY <1>0, <1>1, <1>2, <1>3, AbsenceGetStart DEF Start
<1>4. ASSUME NEW p \in Clients, Step(p) PROVE AbsenceInv'
  BY <1>0, <1>4, AbsencePut, AbsenceAck, AbsenceGet, AbsenceDelete DEF Step
<1>5. ASSUME NEW p \in Clients, RequestFail(p) PROVE AbsenceInv'
  BY <1>0, <1>5, AbsenceDelete
<1>6. ASSUME NEW p \in Clients, Return(p) PROVE AbsenceInv'
  BY <1>0, <1>6, AbsenceReset DEF Return
<1>7. ASSUME Crash PROVE AbsenceInv'
  BY <1>0, <1>7, AbsenceReset DEF Crash
<1>8. ASSUME NEW k \in Keys, NEW kind \in FaultKinds, Fault(k, kind) PROVE AbsenceInv'
  BY <1>0, <1>8, AbsenceFault
<1>9. ASSUME UNCHANGED vars PROVE AbsenceInv'
  BY <1>0, <1>9 DEF vars, disk, req, pos, reader, ghosts, AbsenceInv, Exclusion, Mutating,
                    AbsentEmpty, DeleteCovers, AbsentReads
<1> QED BY <1>3, <1>4, <1>5, <1>6, <1>7, <1>8, <1>9 DEF Next

\* DeleteObject: once an uncontended DELETE is acknowledged, no later read
\* finds the object until the next PUT, for any number of clients, objects,
\* stripes and shards, whatever was left behind by failed or killed requests
\* before and whatever is damaged.
THEOREM DeletedStaysGone == Spec => []DeletedIsGone
<1>1. AbsenceInv => DeletedIsGone
  BY DEF AbsenceInv, AbsentReads, DeletedIsGone, ReadOf
<1> QED BY AbsenceInit, AbsenceNext, <1>1, PTL DEF Spec

-----------------------------------------------------------------------------
(* WalkFailsInRacesOnly.                                                   *)

\* A step that gives or removes the header of the files of D only, and leaves
\* the writers of all other files where they are.
LEMMA HeadedFrame ==
  ASSUME Headed, NEW D \in SUBSET Keys,
         \A k \in Keys : Undecodable(files'[k]) => Undecodable(files[k]) /\ k \notin D,
         \A q \in Clients : pc[q] = "putHeader" /\ fd[q] /\ Key(q) \notin D =>
                              pc'[q] = "putHeader" /\ fd'[q] /\ Key(q)' = Key(q)
  PROVE  Headed'
<1> SUFFICES ASSUME NEW k \in Keys, Undecodable(files'[k])
             PROVE  \E q \in Clients : pc'[q] = "putHeader" /\ fd'[q] /\ Key(q)' = k
  BY DEF Headed, Undecodable
<1>1. PICK q \in Clients : pc[q] = "putHeader" /\ fd[q] /\ Key(q) = k
  BY DEF Headed
<1> QED BY <1>1

\* A step that removes no header and leaves all writers where they are.
LEMMA HeadedKeep ==
  ASSUME Headed,
         \A k \in Keys : Undecodable(files'[k]) => Undecodable(files[k]),
         \A q \in Clients : pc[q] = "putHeader" /\ fd[q] =>
                              pc'[q] = "putHeader" /\ fd'[q] /\ Key(q)' = Key(q)
  PROVE  Headed'
<1> DEFINE D == {}
<1>1. D \in SUBSET Keys
  OBVIOUS
<1> QED BY <1>1, HeadedFrame

\* The steps of a PUT.
LEMMA HeadedPut ==
  ASSUME TypeInv, Headed, NEW p \in Clients,
         PutCreate(p) \/ PutHeader(p) \/ PutPayload(p) \/ MarkerCreate(p) \/ MarkerWrite(p)
  PROVE  Headed'
<1>1. /\ pc \in [Clients -> PutStates \cup GetStates \cup DelStates \cup {"idle", "done"}]
      /\ fd \in [Clients -> BOOLEAN] /\ files \in [Keys -> FileData \cup {None}]
      /\ stripe \in [Clients -> Nat] /\ shard \in [Clients -> 0 .. ShardCount]
  BY DEF TypeInv, TypeOK, ControlOK, DiskOK
<1>2. obj' = obj /\ \A q \in Clients \ {p} : pc'[q] = pc[q] /\ Key(q)' = Key(q)
  BY <1>1 DEF PutCreate, PutHeader, PutPayload, MarkerCreate, MarkerWrite, Goto, Finish, req,
              pos, Key
<1>3. CASE PutCreate(p)
  <2>1. Key(p) \in Keys
    BY <1>3, PutKey DEF PutCreate, ShardStates
  <2>2. pc'[p] = "putHeader" /\ fd'[p] /\ Key(p)' = Key(p) /\ \A q \in Clients \ {p} : fd'[q] = fd[q]
    BY <1>1, <1>3 DEF PutCreate, Goto, req, pos, Key
  <2>3. SUFFICES ASSUME NEW k \in Keys, Undecodable(files'[k]), k # Key(p)
                 PROVE  \E q \in Clients : pc'[q] = "putHeader" /\ fd'[q] /\ Key(q)' = k
    BY <2>2 DEF Headed, Undecodable
  <2>4. Undecodable(files[k])
    BY <1>1, <1>3, <2>1, <2>3 DEF PutCreate, Undecodable
  <2>5. PICK q \in Clients : pc[q] = "putHeader" /\ fd[q] /\ Key(q) = k
    BY <2>4 DEF Headed
  <2> QED BY <1>2, <2>2, <2>3, <2>5
<1>4. CASE PutHeader(p)
  <2>1. /\ Key(p) \in Keys /\ Word(p) \in Words /\ Chunk(p) \in Nat
        /\ fd[p] => files[Key(p)] \in FileData
    BY <1>1, <1>4, PutKey DEF PutHeader, ShardStates, TypeInv, HandlesOK
  <2> DEFINE D == IF fd[p] THEN {Key(p)} ELSE {}
  <2>2. fd[p] => files'[Key(p)].hdr # None
    <3>1. Header(Word(p), Chunk(p)) # None
      BY <2>1, FileTypes, ValuesAssumption
    <3> QED BY <1>1, <1>4, <2>1, <3>1 DEF PutHeader, WriteHeader, FileData
  <2>3. \A k \in Keys : Undecodable(files'[k]) => Undecodable(files[k]) /\ k \notin D
    BY <1>1, <1>4, <2>1, <2>2 DEF PutHeader, Undecodable
  <2>4. \A q \in Clients : pc[q] = "putHeader" /\ fd[q] /\ Key(q) \notin D =>
                             pc'[q] = "putHeader" /\ fd'[q] /\ Key(q)' = Key(q)
    BY <1>2, <1>4 DEF PutHeader
  <2>5. D \in SUBSET Keys
    BY <2>1
  <2> HIDE DEF D
  <2> QED BY <2>3, <2>4, <2>5, HeadedFrame
<1>5. CASE PutPayload(p)
  <2>1. /\ Key(p) \in Keys /\ Word(p) \in Words /\ Chunk(p) \in Nat
        /\ fd[p] => files[Key(p)] \in FileData
    BY <1>1, <1>5, PutKey DEF PutPayload, ShardStates, TypeInv, HandlesOK
  <2>2. \A k \in Keys : Undecodable(files'[k]) => Undecodable(files[k])
    <3>1. CASE fd[p]
      <4>1. files'[Key(p)].hdr = files[Key(p)].hdr /\ files[Key(p)] # None
        BY <1>1, <1>5, <2>1, <3>1, ValuesAssumption DEF PutPayload, WritePayload, FileData
      <4> QED BY <1>1, <1>5, <2>1, <3>1, <4>1 DEF PutPayload, Undecodable
    <3>2. CASE ~fd[p]
      BY <1>5, <3>2 DEF PutPayload
    <3> QED BY <3>1, <3>2
  <2>3. \A q \in Clients : pc[q] = "putHeader" /\ fd[q] =>
                             pc'[q] = "putHeader" /\ fd'[q] /\ Key(q)' = Key(q)
    BY <1>2, <1>5 DEF PutPayload
  <2> QED BY <2>2, <2>3, HeadedKeep
<1>6. CASE MarkerCreate(p) \/ MarkerWrite(p)
  <2>1. files' = files
    BY <1>6 DEF MarkerCreate, MarkerWrite
  <2>2. \A q \in Clients : pc[q] = "putHeader" /\ fd[q] =>
                             pc'[q] = "putHeader" /\ fd'[q] /\ Key(q)' = Key(q)
    BY <1>1, <1>2, <1>6 DEF MarkerCreate, MarkerWrite
  <2> QED BY <2>1, <2>2, HeadedKeep
<1> QED BY <1>3, <1>4, <1>5, <1>6

\* Removing a file, by a DELETE or by damage, unlinks its writers; other damage
\* leaves the header, unless it is to the header.
LEMMA HeadedRemove ==
  ASSUME TypeInv, Headed, "header" \notin FaultKinds,
         \/ \E p \in Clients : DelShard(p)
         \/ \E k \in Keys, kind \in FaultKinds : Fault(k, kind)
  PROVE  Headed'
<1>1. /\ pc \in [Clients -> PutStates \cup GetStates \cup DelStates \cup {"idle", "done"}]
      /\ fd \in [Clients -> BOOLEAN] /\ files \in [Keys -> FileData \cup {None}]
      /\ todo \in [Clients -> SUBSET Keys]
  BY DEF TypeInv, TypeOK, ControlOK, DiskOK
<1>2. ASSUME NEW k \in Keys, files' = [files EXCEPT ![k] = None], fd' = Unlink(k),
             \A q \in Clients : pc[q] = "putHeader" => pc'[q] = "putHeader",
             UNCHANGED <<obj, stripe, shard>>
      PROVE  Headed'
  <2>1. \A l \in Keys : Undecodable(files'[l]) => Undecodable(files[l]) /\ l \notin {k}
    BY <1>1, <1>2 DEF Undecodable
  <2>2. \A q \in Clients : pc[q] = "putHeader" /\ fd[q] /\ Key(q) \notin {k} =>
                             pc'[q] = "putHeader" /\ fd'[q] /\ Key(q)' = Key(q)
    BY <1>2 DEF Unlink, Key
  <2> QED BY <2>1, <2>2, HeadedFrame
<1>3. ASSUME NEW p \in Clients, DelShard(p) PROVE Headed'
  <2>1. PICK k \in todo[p] :
          IF files[k] = None
          THEN UNCHANGED <<files, fd>>
          ELSE files' = [files EXCEPT ![k] = None] /\ fd' = Unlink(k)
    BY <1>3 DEF DelShard
  <2>2. k \in Keys /\ UNCHANGED <<obj, stripe, shard>>
    BY <1>1, <1>3 DEF DelShard, req, pos
  <2>3. \A q \in Clients : pc[q] = "putHeader" => pc'[q] = "putHeader"
    BY <1>1, <1>3 DEF DelShard, Finish, Goto
  <2>4. CASE UNCHANGED <<files, fd>>
    BY <2>2, <2>3, <2>4, HeadedKeep DEF Key
  <2> QED BY <1>2, <2>1, <2>2, <2>3, <2>4
<1>4. ASSUME NEW k \in Keys, NEW kind \in FaultKinds, Fault(k, kind) PROVE Headed'
  <2>1. PICK f \in Damage(files[k], kind, StripeSize + 1) : files' = [files EXCEPT ![k] = f]
    BY <1>4 DEF Fault
  <2>2. UNCHANGED <<pc, obj, stripe, shard>> /\ files[k] \in FileData /\ files[k] # None
    BY <1>1, <1>4 DEF Fault, req, pos
  <2>3. CASE kind = "missing"
    <3>1. f = None /\ fd' = Unlink(k)
      BY <1>4, <2>1, <2>3 DEF Damage, Fault
    <3> QED BY <1>2, <2>1, <2>2, <3>1
  <2>4. CASE kind # "missing"
    <3>1. f.hdr = None => files[k].hdr = None
      <4>1. CASE kind \in {"payload", "short"}
        BY <2>1, <2>2, <4>1 DEF Damage, FileData
      <4>2. CASE kind = "length"
        <5>1. PICK l \in 0 .. StripeSize + 1 :
                files[k].hdr # None /\ f = [files[k] EXCEPT !.hdr.len = l]
          BY <2>1, <4>2 DEF Damage
        <5>2. files[k].hdr \in Headers /\ l \in Nat
          BY <2>2, <5>1, StoreAssumption DEF FileData
        <5>3. f.hdr = [files[k].hdr EXCEPT !.len = l]
          BY <2>2, <5>1 DEF FileData
        <5>4. f.hdr \in Headers
          BY <5>2, <5>3 DEF Headers
        <5> QED BY <5>4, ValuesAssumption
      <4> QED BY <2>4, <4>1, <4>2, StoreAssumption DEF DamageKinds
    <3>2. \A l \in Keys : Undecodable(files'[l]) => Undecodable(files[l])
      BY <1>1, <2>1, <2>2, <3>1 DEF Undecodable
    <3>3. fd' = fd
      BY <1>4, <2>4 DEF Fault
    <3> QED BY <2>2, <3>2, <3>3, HeadedKeep DEF Key
  <2> QED BY <2>3, <2>4
<1> QED BY <1>3, <1>4

\* Every step, when nothing is interrupted.
LEMMA HeadedNext ==
  ASSUME Failures = {}, "header" \notin FaultKinds
  PROVE  TypeInv /\ Headed /\ [Next]_vars => Headed'
<1> SUFFICES ASSUME TypeInv, Headed, [Next]_vars PROVE Headed'
  OBVIOUS
<1>1. /\ pc \in [Clients -> PutStates \cup GetStates \cup DelStates \cup {"idle", "done"}]
      /\ fd \in [Clients -> BOOLEAN] /\ stripe \in [Clients -> Nat]
      /\ shard \in [Clients -> 0 .. ShardCount] /\ obj \in [Clients -> Objects \cup {None}]
  BY DEF TypeInv, TypeOK, ControlOK
<1>2. ASSUME NEW p \in Clients,
             \/ Start(p) \/ ListError(p) \/ GetList(p) \/ GetMarker(p) \/ GetSize(p)
             \/ GetLoad(p) \/ GetJoin(p) \/ DelList(p) \/ DelMarker(p) \/ Return(p)
      PROVE  Headed'
  <2>1. /\ files' = files
        /\ \A q \in Clients \ {p} : /\ pc'[q] = pc[q] /\ obj'[q] = obj[q]
                                    /\ stripe'[q] = stripe[q] /\ shard'[q] = shard[q]
    <3>1. CASE Start(p)
      BY <1>1, <3>1 DEF Start, PutStart, DelStart, GetStart, Goto, disk, pos
    <3>2. CASE ListError(p) \/ GetList(p) \/ GetMarker(p) \/ DelList(p) \/ DelMarker(p)
      BY <1>1, <3>2 DEF ListError, GetList, GetMarker, DelList, DelMarker, Goto, Finish, disk,
                        req, pos
    <3>3. CASE GetSize(p) \/ GetLoad(p) \/ GetJoin(p)
      <4>1. files' = files /\ obj' = obj
        BY <3>3 DEF GetSize, GetLoad, GetJoin, disk, req
      <4>2. \A q \in Clients \ {p} : pc'[q] = pc[q]
        BY <1>1, <3>3 DEF GetSize, GetLoad, GetJoin, Goto, Finish
      <4>3. \A q \in Clients \ {p} : stripe'[q] = stripe[q] /\ shard'[q] = shard[q]
        BY <1>1, <3>3 DEF GetSize, GetLoad, GetJoin, pos
      <4> QED BY <4>1, <4>2, <4>3
    <3>4. CASE Return(p)
      BY <1>1, <3>4 DEF Return, Reset, disk
    <3> QED BY <1>2, <3>1, <3>2, <3>3, <3>4
  <2>2. pc[p] # "putHeader"
    BY <1>2 DEF Start, PutStart, DelStart, GetStart, ListError, GetList, GetMarker, GetSize,
       GetLoad, GetJoin, DelList, DelMarker, Return
  <2>3. \A q \in Clients \ {p} : pc[q] = "putHeader" /\ fd[q] => fd'[q]
    BY <1>1, <1>2 DEF Start, PutStart, DelStart, GetStart, ListError, GetList, GetMarker, GetSize,
       GetLoad, GetJoin, DelList, DelMarker, Return, Reset
  <2> QED BY <2>1, <2>2, <2>3, HeadedKeep DEF Key
<1>3. ASSUME NEW p \in Clients, Step(p) PROVE Headed'
  BY <1>2, <1>3, HeadedPut, HeadedRemove DEF Step
<1>4. ASSUME UNCHANGED vars PROVE Headed'
  BY <1>4, HeadedKeep DEF vars, disk, req, pos, Key
<1> QED BY <1>2, <1>3, <1>4, HeadedRemove DEF Next, RequestFail, Crash

\* ListObjectShards, PutShard, DeleteShard: with requests that overlap in any
\* way, but are not interrupted, and headers that do not rot, a walk over the
\* store fails only while another request is at work on a file of its own; no
\* order of creating, truncating, unlinking and writing through open handles
\* leaves a file without a header for later walks to fail on.
THEOREM WalksRecover == Spec => []WalkFailsInRacesOnly
<1>1. CASE Failures = {} /\ "header" \notin FaultKinds
  <2>1. Init => Headed
    BY DEF Init, Headed, Undecodable
  <2>2. TypeInv /\ Headed => WalkFailsInRacesOnly
    BY DEF WalkFailsInRacesOnly, ListFails, Headed
  <2>3. TypeInv /\ Headed /\ [Next]_vars => Headed'
    BY <1>1, HeadedNext
  <2> QED BY TypeInit, TypeNext, <2>1, <2>2, <2>3, PTL DEF Spec
<1>2. CASE ~(Failures = {} /\ "header" \notin FaultKinds)
  <2>1. WalkFailsInRacesOnly
    BY <1>2 DEF WalkFailsInRacesOnly
  <2> QED BY <1>2, <2>1, PTL
<1> QED BY <1>1, <1>2
=============================================================================
