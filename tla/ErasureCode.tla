---------------------------- MODULE ErasureCode ----------------------------
(***************************************************************************)
(* internal/ec: Reed-Solomon coding of one stripe into k data and m parity *)
(* shards.  A stripe's bytes are one value, its CODEWORD; the shard at     *)
(* index i of a codeword w is the pair of w and a payload length, because  *)
(* the index is the position the shard is held at.  Any k shards of one    *)
(* codeword determine it; k shards of different codewords decode to bytes  *)
(* that are no object's, the value Garbage.                                *)
(***************************************************************************)
EXTENDS ReedSolomon, FiniteSets
LOCAL INSTANCE FiniteSetsExt

CONSTANTS DataShards,    \* k
          ParityShards,  \* m
          None,          \* an absent shard, file, header or marker
          Garbage        \* bytes that belong to no object

ASSUME ParamsAssumption ==
  DataShards \in Nat /\ ParityShards \in Nat /\ NewOK(DataShards, ParityShards)

ShardCount == DataShards + ParityShards
Shards == 0 .. ShardCount - 1

\* Payload bytes per shard of a stripe of n bytes: ceil(n / k).
SplitSize(n) == IF n = 0 THEN 0 ELSE (n + DataShards - 1) \div DataShards

\* Encode: split, pad and add parity.  Shard i of the codeword w of a stripe
\* of n bytes is, at every index i, the same record.
ShardOf(w, n) == [cw |-> w, n |-> SplitSize(n)]

Present(shards) == {i \in Shards : shards[i] # None /\ shards[i].n > 0}

-----------------------------------------------------------------------------
(***************************************************************************)
(* Reconstruct fills the missing shards in place.  The library decodes     *)
(* from the k present shards of lowest index and refuses shards of         *)
(* different lengths.  It does not check that the others agree.            *)
(***************************************************************************)
SameLength(shards) ==
  \A i, j \in Present(shards) : shards[i].n = shards[j].n

ReconstructError(shards) ==
  LET have == Present(shards) IN
  IF have = {} THEN "none"               \* allEmpty: nothing to do
  ELSE IF ~SameLength(shards) THEN "ErrShardSize"
  ELSE IF Cardinality(have) < DataShards THEN "ErrTooFewShards"
  ELSE "none"

Lowest(have) ==
  {i \in have : Cardinality({j \in have : j < i}) < DataShards}

Decoded(shards) ==
  LET have  == Present(shards)
      words == {shards[i].cw : i \in have}
      Fits(w) == \A i \in Lowest(have) : shards[i].cw = w
  IN  IF \E w \in words : Fits(w) THEN CHOOSE w \in words : Fits(w) ELSE Garbage

Reconstruct(shards) ==
  LET have == Present(shards) IN
  IF have = {} THEN shards
  ELSE LET len == (CHOOSE n \in {shards[i].n : i \in have} : TRUE)
       IN  [i \in Shards |-> IF i \in have THEN shards[i]
                             ELSE [cw |-> Decoded(shards), n |-> len]]

-----------------------------------------------------------------------------
(***************************************************************************)
(* Join concatenates the data shards and keeps the first size bytes.       *)
(***************************************************************************)
DataIdx == 0 .. DataShards - 1

\* Bytes held by the data shards before index i.
Offset(shards, i) ==
  IF \A j \in DataIdx : shards[j].n = shards[0].n
  THEN i * shards[0].n
  ELSE MapThenSumSet(LAMBDA j : shards[j].n, 0 .. i - 1)

JoinError(shards, size) ==
  IF \E i \in DataIdx : shards[i] = None THEN "ErrReconstructRequired"
  ELSE IF Offset(shards, DataShards) < size THEN "ErrShortData"
  ELSE "none"

\* The codeword the joined bytes come from: Garbage when the shards that
\* contribute a byte are of different codewords.  When size is more than the
\* stripe has, the bytes behind its own are the zeros Split padded it with.
Joined(shards, size) ==
  LET used == {i \in DataIdx : i = 0 \/ Offset(shards, i) < size}
  IN  IF \A i \in used : shards[i].cw = shards[0].cw THEN shards[0].cw ELSE Garbage
=============================================================================
