----------------------------- MODULE ShardFile -----------------------------
(***************************************************************************)
(* internal/storage FileStore: what one shard file can hold on disk and    *)
(* what each ShardStore operation makes of it.                             *)
(*                                                                         *)
(* A file is None or a record:                                             *)
(*   hdr   None while the header is missing, incomplete or undecodable,    *)
(*         else its StripeLen (len), DataLen (dlen) and the payload the    *)
(*         SHA-256 checksum was computed from (sum);                       *)
(*   pay   the codeword whose shard the payload bytes are, None before     *)
(*         the payload is written, Garbage after bit-rot;                  *)
(*   n     the number of payload bytes in the file.                        *)
(* SHA-256 is taken to be collision free: a checksum fits one payload.     *)
(* os.Create, the header write and the payload write are separate steps of *)
(* PutShard, so a crash, a full disk or another request can find any of    *)
(* the intermediate files below.                                           *)
(***************************************************************************)
EXTENDS ErasureCode

Header(w, len) == [len |-> len, dlen |-> SplitSize(len), sum |-> w]

\* PutShard, one step per system call that changes the file.
CreateFile == [hdr |-> None, pay |-> None, n |-> 0]
WriteHeader(f, w, len) == [f EXCEPT !.hdr = Header(w, len)]
WritePayload(f, w, len) ==
  [f EXCEPT !.pay = w, !.n = IF @ < SplitSize(len) THEN SplitSize(len) ELSE @]

\* The file a completed PutShard leaves.
FullFile(w, len) == [hdr |-> Header(w, len), pay |-> w, n |-> SplitSize(len)]

\* Mutant: the checksum is not compared.
GetShardUnchecked(f) ==
  IF f = None THEN "ErrShardNotFound"
  ELSE IF f.hdr = None THEN "ErrHeader"
  ELSE IF f.n < f.hdr.dlen THEN "ErrShort"
  ELSE "ok"

\* GetShard: a payload shorter than DataLen is an untyped error.
GetShard(f) ==
  IF f = None THEN "ErrShardNotFound"
  ELSE IF f.hdr = None THEN "ErrHeader"
  ELSE IF f.n < f.hdr.dlen THEN "ErrShort"
  ELSE IF f.pay # f.hdr.sum THEN "ErrCorruptShard"
  ELSE "ok"

\* VerifyShard: hashes what is there, so a short payload is a mismatch.
VerifyShard(f) ==
  IF f = None THEN "ErrShardNotFound"
  ELSE IF f.hdr = None THEN "ErrHeader"
  ELSE IF f.n < f.hdr.dlen \/ f.pay # f.hdr.sum THEN "ErrCorruptShard"
  ELSE "ok"

\* Mutant: a checksum failure ends the read.
MissingOnly(result) == result = "ErrShardNotFound"

\* The errors readers treat as the loss of that one shard.
ShardLost(result) == result \in {"ErrCorruptShard", "ErrShardNotFound"}

\* resolveObjectID, called by ListShards for every shard file of the store.
Undecodable(f) == f # None /\ f.hdr = None

-----------------------------------------------------------------------------
(***************************************************************************)
(* Damage to a file at rest, by kind.  The header carries no checksum, so  *)
(* "length" (a changed StripeLen) leaves a file every check accepts.       *)
(***************************************************************************)
DamageKinds == {"missing", "payload", "short", "header", "length"}

\* The files that damage of this kind can leave of f; maxLen bounds StripeLen.
Damage(f, kind, maxLen) ==
  CASE kind = "missing" -> {None}
    [] kind = "payload" -> IF f.pay = None THEN {} ELSE {[f EXCEPT !.pay = Garbage]}
    [] kind = "short"   -> IF f.n = 0 THEN {} ELSE {[f EXCEPT !.pay = None, !.n = 0]}
    [] kind = "header"  -> IF f.hdr = None THEN {} ELSE {[f EXCEPT !.hdr = None]}
    [] kind = "length"  -> IF f.hdr = None THEN {}
                           ELSE {[f EXCEPT !.hdr.len = l] : l \in 0 .. maxLen}
=============================================================================
