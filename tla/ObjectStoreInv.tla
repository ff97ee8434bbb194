--------------------------- MODULE ObjectStoreInv ---------------------------
(***************************************************************************)
(* The inductive invariant behind ObjectStore's properties, in parts.      *)
(***************************************************************************)
EXTENDS ObjectStore

ShardStates == {"putCreate", "putHeader", "putPayload"}
EarlyStates == {"idle", "getList", "getMarker"} \cup DelStates

\* The locals of a request fit the place it is at.
LocalsOK ==
  \A p \in Clients :
    /\ pc[p] # "idle" => obj[p] \in Objects
    /\ pc[p] \in PutStates => cont[p] \in Contents
    /\ pc[p] \in ShardStates => HasStripe(cont[p], stripe[p]) /\ shard[p] \in Shards
    /\ pc[p] \in EarlyStates => stripe[p] = 0 /\ shard[p] = 0
    /\ pc[p] \in EarlyStates \cup {"getSize"} =>
         stripe[p] = 0 /\ got[p] = NoShards /\ slen[p] = 0 /\ out[p] = << >>
    /\ pc[p] \in {"getSize", "getLoad"} => total[p] >= 1
    /\ pc[p] = "getLoad" => stripe[p] < total[p]
    /\ pc[p] \notin {"delShard", "done"} => todo[p] = {}
    /\ \A k \in todo[p] : k[1] = obj[p]

\* A handle that is still linked is to a file that exists.
HandlesOK ==
  \A p \in Clients :
    fd[p] /\ pc[p] \in {"putHeader", "putPayload"} => files[Key(p)] # None

TypeInv == TypeOK /\ LocalsOK /\ HandlesOK

\* A file without a header is being given one.
Headed ==
  \A k \in Keys : Undecodable(files[k]) =>
    \E q \in Clients : pc[q] = "putHeader" /\ fd[q] /\ Key(q) = k

-----------------------------------------------------------------------------
Mutating(p) == pc[p] \in PutStates \cup DelStates

\* Ghosts: a promised object has no PUT or DELETE in progress; a solo one is
\* alone; a reader's expectation is the object's current value.
Exclusion ==
  /\ \A p \in Clients : Mutating(p) => value[obj[p]] = Unknown
  /\ \A p, q \in Clients :
       Mutating(p) /\ Mutating(q) /\ p # q /\ obj[p] = obj[q] => ~solo[p]
  /\ \A p \in Clients : expect[p] # Unknown =>
       /\ pc[p] \in GetStates \cup {"done"}
       /\ value[obj[p]] = expect[p]

\* A deleted object has no files; a solo DELETE has listed all there are.
AbsentEmpty ==
  \A o \in Objects : value[o] = None =>
    markers[o] = None /\ \A k \in Keys : k[1] = o => files[k] = None

DeleteCovers ==
  \A p \in Clients : solo[p] /\ pc[p] \in {"delShard", "delMarker"} =>
    \A k \in Keys : k[1] = obj[p] /\ files[k] # None => pc[p] = "delShard" /\ k \in todo[p]

AbsentReads ==
  \A p \in Clients : expect[p] = None =>
    /\ pc[p] \in {"getList", "getMarker", "done"}
    /\ pc[p] = "done" => reply[p] \in {"ErrObjectNotFound", "ErrWalk", "ErrIO"}

AbsenceInv == TypeInv /\ Exclusion /\ AbsentEmpty /\ DeleteCovers /\ AbsentReads

-----------------------------------------------------------------------------
\* Only whole files are lost and only payloads rot: the damage readers count
\* as a lost shard.
Mild == FaultKinds \subseteq {"missing", "payload"}

\* What damage leaves of the shard of stripe <<c, s>>: never a file that
\* passes for it, nor for any other.
Spoilt(f, c, s) ==
  \/ f = None
  \/ f.hdr = None /\ ~Mild
  \/ /\ f.hdr = Header(<<c, s>>, StripeLen(c, s)) /\ f.pay # <<c, s>>
     /\ Mild => f.n >= SplitSize(StripeLen(c, s))

Intact(o, s, i, c) ==
  IF <<o, s, i>> \in damaged THEN Spoilt(files[<<o, s, i>>], c, s)
  ELSE files[<<o, s, i>>] = FullFile(<<c, s>>, StripeLen(c, s))

DamageBounded ==
  \A o \in Objects, s \in Stripes : Cardinality(DamagedIn(o, s)) <= FaultBudget

\* The shards a solo PUT has written so far, and the one it is writing.
Written(p) ==
  \A s \in Stripes, i \in Shards :
    HasStripe(cont[p], s) /\ (s < stripe[p] \/ (s = stripe[p] /\ i < shard[p]))
      => Intact(obj[p], s, i, cont[p])

Writing(p) ==
  /\ pc[p] = "putHeader" =>
       IF Key(p) \in damaged THEN ~fd[p] /\ files[Key(p)] = None
       ELSE fd[p] /\ files[Key(p)] = CreateFile
  /\ pc[p] = "putPayload" =>
       IF Key(p) \in damaged
       THEN \/ ~fd[p] /\ files[Key(p)] = None
            \/ fd[p] /\ files[Key(p)].hdr = None /\ ~Mild
       ELSE fd[p] /\ files[Key(p)] = WriteHeader(CreateFile, Word(p), Chunk(p))
  /\ pc[p] \in {"markerCreate", "markerWrite"} => ~HasStripe(cont[p], stripe[p])
  /\ pc[p] = "markerWrite" => fd[p]

PutProgress ==
  \A p \in Clients : solo[p] /\ pc[p] \in PutStates => Written(p) /\ Writing(p)

\* An acknowledged object is on disk, but for damage.
Committed ==
  \A o \in Objects, c \in Contents : value[o] = c =>
    /\ markers[o] = Size[c]
    /\ \A s \in Stripes, i \in Shards :
         /\ HasStripe(c, s) => Intact(o, s, i, c)
         /\ ~HasStripe(c, s) /\ ~leftover[o] => files[<<o, s, i>>] = None

\* n is the number of stripes of c.
IsCount(c, n) == n >= 1 /\ HasStripe(c, n - 1) /\ ~HasStripe(c, n)

\* A shard a reader of c holds, or one it dropped because it was damaged.
Loaded(p, c, i) ==
  \/ got[p][i] = ShardOf(<<c, stripe[p]>>, StripeLen(c, stripe[p]))
  \/ got[p][i] = None /\ <<obj[p], stripe[p], i>> \in damaged

Tolerated == Mild /\ FaultBudget <= ParityShards

\* What a read of an object acknowledged as c has done so far.
Reading(p, c) ==
  /\ pc[p] = "getMarker" => ~HasStripe(c, 0)
  /\ pc[p] = "getSize" =>
       /\ IsCount(c, total[p])
       /\ \A i \in Shards : i < shard[p] => <<obj[p], total[p] - 1, i>> \in damaged
  /\ pc[p] = "getLoad" =>
       /\ IsCount(c, total[p]) /\ size[p] = Size[c]
       /\ Len(out[p]) = stripe[p]
       /\ \A i \in Shards : IF i < shard[p] THEN Loaded(p, c, i) ELSE got[p][i] = None
       /\ (\E i \in Shards : got[p][i] # None) => slen[p] = StripeLen(c, stripe[p])
  /\ PrefixOf(p, c)
  /\ pc[p] = "done" =>
       /\ reply[p] = "ok" => size[p] = Size[c] /\ ~HasStripe(c, Len(out[p]))
       /\ Tolerated => reply[p] \in {"ok", "ErrWalk", "ErrIO"}

ReadProgress ==
  \A p \in Clients, c \in Contents :
    expect[p] = c /\ ~leftover[obj[p]] => Reading(p, c)

ReadInv == AbsenceInv /\ DamageBounded /\ PutProgress /\ Committed /\ ReadProgress

-----------------------------------------------------------------------------
\* Whatever was done to file f, the bytes in it are of no shard but w's, and
\* its header has the length of w's shards.
ShardLen(w) == SplitSize(StripeLen(w[1], w[2]))
Genuine(f, w) ==
  f # None => /\ f.pay \in {w, None, Garbage}
              /\ f.hdr # None => f.hdr.dlen = ShardLen(w)

\* No file of an acknowledged object holds bytes of another stripe or content.
ObjectAuthentic(o) ==
  \A c \in Contents : value[o] = c /\ ~leftover[o] =>
    \A s \in Stripes, i \in Shards : Genuine(files[<<o, s, i>>], <<c, s>>)

\* The same of the files a solo PUT has created so far.
PutAuthentic(p) ==
  solo[p] /\ pc[p] \in PutStates =>
    /\ \A s \in Stripes, i \in Shards :
         /\ HasStripe(cont[p], s)
         /\ \/ s < stripe[p]
            \/ s = stripe[p] /\ i < shard[p]
            \/ s = stripe[p] /\ i = shard[p] /\ pc[p] \in {"putHeader", "putPayload"}
         => Genuine(files[<<obj[p], s, i>>], <<cont[p], s>>)
    /\ pc[p] \in {"markerCreate", "markerWrite"} => ~HasStripe(cont[p], stripe[p])

ShardFor(g, w) == g.cw = w /\ g.n = ShardLen(w)

\* What a reader holds and has delivered is of the stripe it is read for.
ReadAuthentic(p) ==
  \A c \in Contents : expect[p] = c /\ ~leftover[obj[p]] =>
    /\ pc[p] = "getLoad" =>
         /\ Len(out[p]) = stripe[p]
         /\ \A i \in Shards : got[p][i] # None => ShardFor(got[p][i], <<c, stripe[p]>>)
    /\ \A i \in 1 .. Len(out[p]) : CutOrPadded(out[p][i], c, i - 1)

AuthenticInv ==
  /\ AbsenceInv
  /\ \A o \in Objects : ObjectAuthentic(o)
  /\ \A p \in Clients : PutAuthentic(p) /\ ReadAuthentic(p)
=============================================================================
