---------------------------- MODULE ObjectReader ----------------------------
(***************************************************************************)
(* GetObject and objectReader.Read down to the byte, for an object that    *)
(* was stored by a server with one erasure-coding scheme and is read by a  *)
(* server that was restarted with another: the reader takes k, m and the   *)
(* stripe size from its own configuration and the length of each stripe    *)
(* from the shard headers.  Shard files may go missing at any time; what   *)
(* rotten ones do, which stay in the listing, is in ObjectStore.           *)
(*                                                                         *)
(* Byte i of the object is the number i; the encoder pads with 0.          *)
(***************************************************************************)
EXTENDS ReedSolomon, FiniteSets, SequencesExt, FiniteSetsExt

CONSTANTS Configs,   \* server configurations: records of k, m and stripe
          Sizes,     \* object sizes
          Buffers,   \* lengths of the buffers callers pass to Read
          MaxLost    \* bound: shards lost in a behaviour

ASSUME ReaderAssumption ==
  /\ Configs \subseteq [k : Nat, m : Nat, stripe : Nat \ {0}]
  /\ \A c \in Configs : NewOK(c.k, c.m)
  /\ Sizes \subseteq Nat /\ Buffers \subseteq Nat \ {0} /\ MaxLost \in Nat

VARIABLES wr,         \* the configuration the object was stored with
          rd,         \* the configuration of the server that reads it
          length,     \* the object's size when it was stored
          lost,       \* <<stripe, shard>> whose file is missing
          total,      \* totalStripes
          size,       \* the size GetObject returned
          stripeIdx, buf, off,
          out,        \* the bytes the caller has got
          status      \* "closed", "open", "eof" or an error

object == <<wr, rd, length>>
vars   == <<object, lost, total, size, stripeIdx, buf, off, out, status>>

-----------------------------------------------------------------------------
(* What PutObject stored.                                                  *)

StripeCount == (length + wr.stripe - 1) \div wr.stripe
Stored == (0 .. StripeCount - 1) \X (0 .. wr.k + wr.m - 1)

StripeLen(s) == Min({wr.stripe, length - s * wr.stripe})
SplitSize(n, k) == (n + k - 1) \div k

\* A byte of parity, or of a shard decoded from another code's shards.
Scrambled == -1

\* Encode: shard j of stripe s.
Payload(s, j) ==
  LET n == SplitSize(StripeLen(s), wr.k)
  IN  [x \in 1 .. n |-> IF j >= wr.k THEN Scrambled
                        ELSE IF j * n + x > StripeLen(s) THEN 0
                        ELSE s * wr.stripe + j * n + x]

-----------------------------------------------------------------------------
(* loadStripe, from the shards the reader's own scheme names.              *)

ShardCount == rd.k + rd.m
Valid(s) == {j \in 0 .. ShardCount - 1 : <<s, j>> \in Stored \ lost}

\* Reconstruct leaves present shards alone.  From k shards of one codeword it
\* restores the others, also when only their number m has changed: row j of
\* the coding matrix depends on k and j.
Whole(s) ==
  [j \in 0 .. rd.k - 1 |->
     IF j \in Valid(s) \/ rd.k = wr.k THEN Payload(s, j)
     ELSE [x \in 1 .. SplitSize(StripeLen(s), wr.k) |-> Scrambled]]

\* Mutant: k shards are taken to be too few.
TooFewAtLimit(s) == Cardinality(Valid(s)) <= rd.k

TooFew(s) == Cardinality(Valid(s)) < rd.k

\* h.StripeLen of a valid shard.
HeaderLen(s) == StripeLen(s)

\* Join: the data shards, which have one length, one after the other.
Joined(s) ==
  LET n == SplitSize(StripeLen(s), wr.k)
  IN  [x \in 1 .. rd.k * n |-> Whole(s)[(x - 1) \div n][((x - 1) % n) + 1]]

LoadError(s) == IF TooFew(s) THEN "ErrUnrecoverable"
                ELSE IF Len(Joined(s)) < HeaderLen(s) THEN "ErrShortData" ELSE "none"

\* Mutant: the padding of the last data shards is not cut off.
LoadedPadded(s) == Joined(s)

Loaded(s) == SubSeq(Joined(s), 1, HeaderLen(s))

-----------------------------------------------------------------------------
Init ==
  /\ wr \in Configs /\ rd \in Configs /\ length \in Sizes
  /\ lost = {} /\ total = 0 /\ size = 0
  /\ stripeIdx = 0 /\ buf = << >> /\ off = 0 /\ out = << >>
  /\ status = "closed"

Lose(s, j) ==
  /\ <<s, j>> \in Stored \ lost
  /\ Cardinality(lost) < MaxLost
  /\ lost' = lost \cup {<<s, j>>}
  /\ UNCHANGED <<object, total, size, stripeIdx, buf, off, out, status>>

\* Mutant: every stripe is taken to be full.
FullStripes(last) == (last + 1) * rd.stripe

SizeUpTo(last) == last * rd.stripe + HeaderLen(last)

\* GetObject: the stripes are counted on disk, the last one's length is in
\* the header of its first valid shard; without shards the marker decides.
Open ==
  /\ status = "closed"
  /\ LET there == {k[1] : k \in Stored \ lost}
         last  == Max(there)
     IN  IF there = {}
         THEN total' = 0 /\ size' = length /\ status' = "open"
         ELSE IF Valid(last) = {}
         THEN status' = "ErrUnrecoverable" /\ UNCHANGED <<total, size>>
         ELSE total' = last + 1 /\ size' = SizeUpTo(last) /\ status' = "open"
  /\ UNCHANGED <<object, lost, stripeIdx, buf, off, out>>

\* copy(p, r.buf[r.off:]) from buffer full at offset o.
Copy(full, o, b) ==
  LET n == Min({b, Len(full) - o}) IN
  /\ out' = out \o SubSeq(full, o + 1, o + n)
  /\ IF o + n = Len(full)
     THEN stripeIdx' = stripeIdx + 1 /\ buf' = << >> /\ off' = 0
     ELSE buf' = full /\ off' = o + n /\ UNCHANGED stripeIdx
  /\ UNCHANGED status

End(result) == status' = result /\ UNCHANGED <<stripeIdx, buf, off, out>>

\* Mutant: a stripe that cannot be loaded is tried again by the next Read.
ReadRetry(b) ==
  /\ status = "open"
  /\ IF stripeIdx >= total THEN End("eof")
     ELSE IF off # Len(buf) THEN Copy(buf, off, b)
     ELSE IF LoadError(stripeIdx) # "none" THEN End("open")
     ELSE Copy(Loaded(stripeIdx), 0, b)
  /\ UNCHANGED <<object, lost, total, size>>

\* objectReader.Read with a buffer of b bytes.
Read(b) ==
  /\ status = "open"
  /\ IF stripeIdx >= total THEN End("eof")
     ELSE IF off # Len(buf) THEN Copy(buf, off, b)
     ELSE IF LoadError(stripeIdx) # "none" THEN End(LoadError(stripeIdx))
     ELSE Copy(Loaded(stripeIdx), 0, b)
  /\ UNCHANGED <<object, lost, total, size>>

Next == Open \/ (\E b \in Buffers : Read(b)) \/ (\E k \in Stored : Lose(k[1], k[2]))

\* The caller is io.Copy: it reads until EOF or an error.
Spec == Init /\ [][Next]_vars /\ WF_vars(\E b \in Buffers : Read(b))

-----------------------------------------------------------------------------
(* Properties.                                                             *)

LostIn(s) == {k \in lost : k[1] = s}

\* Every stripe still has a shard; without one nothing on disk shows that the
\* last stripe existed.
EveryStripeShows ==
  \A s \in 0 .. StripeCount - 1 : Cardinality(LostIn(s)) < wr.k + wr.m

\* The reader can decode: it was started with the number of data shards the
\* object has, or no shard is lost.
Decodable == EveryStripeShows /\ (rd.k = wr.k \/ lost = {})

\* GetObject and Read: whatever lengths the caller's buffers have, the bytes
\* it gets are the object's first bytes, none left out, doubled or padded,
\* also after a restart with another k, m or stripe size and while shards are
\* being lost; and EOF means it has got them all.
StreamIsPrefix ==
  Decodable => /\ IsPrefix(out, [i \in 1 .. length |-> i])
               /\ status = "eof" => Len(out) = length

\* Read: after a restart that keeps k, every object is readable as long as no
\* stripe has lost more shards than the old and the new m allow.
RestartKeepsAvailability ==
  rd.k = wr.k /\ (\A s \in 0 .. StripeCount - 1 :
                    Cardinality(LostIn(s)) <= Min({wr.m, rd.m}))
    => status \in {"closed", "open", "eof"}

\* GetObject: the size is that of the object, through losses and restarts
\* that keep the stripe size, and for one-stripe objects through any restart.
SizeIsExact ==
  (rd.stripe = wr.stripe \/ StripeCount <= 1) /\ EveryStripeShows
    => (status \in {"open", "eof"} => size = length)

\* Read: a caller that goes on reading reaches EOF or an error.
StreamEnds == status = "open" ~> status \notin {"closed", "open"}
=============================================================================
