# Shardstore: TLA+ models and proofs

Shardstore (Go) is a single-node object store with erasure coding: an S3-like
HTTP API over an object store that cuts objects into stripes, codes each stripe
into `k` data and `m` parity shards and keeps every shard in a file of its own.
This directory models it from the shard files up to the HTTP handlers and the
life of the server process, model-checks the models with TLC and proves every
safety property the passing runs check, the refinement of the object map included,
with TLAPS. `PROJECT.json` lists the runs, the map from definitions to source lines,
the findings, the hazards and the theorems.

## The system

| Part | State | Operations | Correct when |
|---|---|---|---|
| `internal/ec` coding | none | `Validate`, `SplitSize`, `Encode`, `Reconstruct`, `Join` (`Verify`, `ReconstructSome`, `ShardPayloadLen` are unused outside tests) | any `k` shards of a stripe give it back |
| `ec.EncoderFor` | process-wide `sync.Map` from parameters to encoder | load, build, load-or-store | callers share one encoder per scheme |
| shard and marker files (`header.go`) | header, payload, SHA-256 of the payload; marker with the size | encode, decode | what decodes is what was written |
| `FileStore` | a directory of shard files and markers, no lock | `PutShard`, `GetShard`, `VerifyShard`, `DeleteShard`, `ListShards`, `WriteMarker`, `ReadMarker`, `RemoveMarker` | a damaged shard is reported, never returned |
| `ObjectStore`, `objectReader` | none of their own but a reader's position and buffer | `PutObject`, `GetObject` + `Read`, `DeleteObject`, `ObjectShards` | acknowledged PUTs are read exactly, acknowledged DELETEs leave nothing |
| `MemStore` | maps under an RWMutex | as `FileStore` | as `FileStore`, atomically |
| `internal/api` | none: buckets and uploads are objects with reserved IDs | bucket and object handlers, listing, multipart, SigV4, recovery, logging | objects live in existing buckets; listing and multipart agree with the store |
| `cmd/shardstore` | listener goroutine, signal context | start, graceful shutdown with a 10 s limit | it ends after a signal; no request is cut off silently |
| `internal/config` | values with defaults, environment, flags | parse, validate | what passes is a scheme the code library accepts |
| logging, version | none | output | - |

How the parts interact: every HTTP request runs in its own goroutine and calls
`ObjectStore`, which calls `FileStore`; the only shared state is the file
system and the encoder cache. Nothing serialises requests. An object is a set of
files written one after another, in place, each in several system calls, and
its extent is found by walking every file of the store.

Hard behaviours, therefore: requests that overlap at any file; requests that
fail or are killed between two files or inside one; files that vanish or rot at
rest or during a read; rewriting over what earlier requests left behind. The
hazards in `PROJECT.json` name the lines.

## Modules

* `ReedSolomon` (external), `ECParams`, `ErasureCode`: the schemes the library has
  a code for, the parameters, whose sum wraps around at `MaxInt`, and the coding. A
  stripe's bytes are one
  value, its codeword `<<content, stripe>>`; a shard is its codeword and payload
  length, because the index is the position it is held at. `Reconstruct` decodes from the
  `k` present shards of lowest index, as the library does; shards of different
  codewords decode to `Garbage`. `Join` keeps track of which data shards
  contribute a byte; a joined stripe longer than its content is the content and
  padding (`CutOrPadded`).
* `ShardFile`: what one file may hold (no header, header without payload, full,
  rotten, cut) and what `GetShard`, `VerifyShard` and `resolveObjectID` make of
  it; the damage a file at rest may suffer.
* `ObjectStore`: the main model. Variables are the files and markers on disk and
  the locals of each client's request (`stripe`, `shard`, `got`, `slen` are
  `stripeIdx`, the shard loop index, `loadStripe`'s `shards` and `stripeLen`;
  `todo` is the list `DeleteObject` works through; `fd` says whether an open file
  is still the one in the directory). One action per system call that changes a
  file and per shard a reader opens:
  `PutStart, PutCreate, PutHeader, PutPayload, MarkerCreate, MarkerWrite`;
  `GetStart, GetList, GetMarker, GetSize (lastStripeLen), GetLoad, GetJoin
  (loadStripe, Read)`; `DelStart, DelList, DelShard, DelMarker`; `ListError` for
  a walk that fails; `RequestFail`, `Return`, `Crash` and `Fault`.
* `DeleteRace`: ObjectStore with a history variable that follows overlapping
  DELETEs of an object, and fairness of their steps (`DelStep`).
* `ObjectMap`: what `ObjectStore` promises its callers, as a map from object IDs
  to contents with `Suspend`, `Renew`, `Ask`, `Answer`, `Forget` and nothing of
  stripes, shards or files. `ObjectMapImpl`: the refinement mapping.
* `ObjectReader`: `GetObject` and every `Read` call down to the byte (`stripeIdx`,
  `buf`, `off`, the length of the caller's buffer), for an object stored under one
  configuration and read by a server restarted with another, while shards are lost.
  It complements `ObjectStore`, which has the races and one configuration.
* `ApiStore`: `GetObject`, `PutObject`, `DeleteObject` and `ObjectShards` at the
  grain the HTTP handlers can tell apart. An object is a sequence of stripes, each
  a value or `Mixed` (being rewritten), `Lost` (too few shards) or `Broken` (a file
  without a header, on which every walk of the store fails), and a marker which may
  be `Torn`. `GetObject` is two steps, the walk (`ListObjectShards`) and then the
  last stripe's length or the marker, with other handlers' steps in between.
* `S3Api`: over `ApiStore`, the bucket and object handlers: authentication, path
  parsing, the bucket check, then `CreateBucket`, `DeleteBucket`, `HeadBucket`,
  `PutObject`, `GetObject` (status before the copy), `HeadObject`, `DeleteObject`
  and `ListObjectsV2` (`List`, `ListKey` and `ListSize` per shard key, `ListReply`),
  and `Complete`: POST complete as far as the bucket's IDs are concerned, a PUT of
  `<bucket>/<object>` that looks for no bucket.
* `Multipart`: over `ApiStore`, `handleMultipartOperations`: `Initiate`,
  `UploadPart`, `Abort` and complete (`StartComplete, OpenPart, OpenedPart,
  ReadPart, StoreObject, Cleanup`).
* `EncoderCache`: `EncoderFor` step by step. `Config`: `Parse` from defaults,
  environment and flags. `Server` composes both with the main goroutine
  (`RunServer`, the select, `Shutdown`), the listener, signals, connections and
  handlers.
* `ObjectStoreClaims`, `MultipartClaims`: statements of the repository's documents
  that do not hold.
* `ObjectStoreInv`: the inductive invariants of `ObjectStore`. `ObjectStoreProofs`
  (types, deletion and the walk), `ObjectStoreReads` (the reads), `DeleteRaceProofs`,
  `ObjectMapProofs` (the refinement), `ObjectReaderProofs`, `S3ApiProofs`,
  `MultipartProofs` and `ServerProofs` (also of `EncoderCache`): the proofs, each with
  the inductive invariant it uses.
* `MC*`: instances for TLC.

Definitions marked "Mutant" are plausible bugs; each property is violated when
the definition after it is replaced by its mutant.

### Ghost variables and what the properties promise

The code itself warns that concurrent writes of one object are not safe, so the
properties promise something about an object only while it is settled.
`value[o]` is the content of the last acknowledged PUT that no other PUT or
DELETE of `o` overlapped (`None` after such a DELETE), and `Unknown` from the
moment the next PUT or DELETE begins. A read carries `expect`, the value at its
start, until a PUT or DELETE of its object begins. `leftover[o]` says that the
PUT found shard files beyond its own last stripe; `ReadExact`, `BytesAuthentic`
and `ReadAvailable` exclude that case, and `claim_strong` shows what happens in
it. Ghosts are never read by a guard, except that `begun` bounds the number of
requests and `damaged` the damage.

* `TypeOK`: every variable in its range, through all of the arithmetic on
  stripes and shards.
* `ReadExact`: a read of a settled object that ends without an error delivered
  exactly its bytes and announced their number; one that fails delivered a prefix.
* `ReadAvailable`: with at most `m` lost or rotten shards per stripe, such a read
  fails only in the walk over the store or by an I/O error of its own.
* `BytesAuthentic`: under damage to payloads and header lengths, every stripe
  delivered is that stripe of the settled content, whole, cut short, or followed by
  zeros of its own padding. A rotten `StripeLen` does the latter two.
* `DeletedIsGone`: after a settled DELETE, reads find nothing.
* `WalkFailsInRacesOnly`: without interrupted requests and rotten headers, a walk
  over the store fails only while another request is between `os.Create` and the
  header of a shard, or is removing shards. Overlapping PUTs truncate and DELETEs
  unlink each other's open files; in no order does a file without a header stay.
* `DeleteConverges`, `DeleteCompletes`: overlapping DELETEs, although all but one
  may fail, do not leave the object half-deleted. This rests on `ListShards`
  sorting its result: all DELETEs work through the shards in one order, so the
  one that is ahead is never stopped by the others.
* `ImplementsObjectMap`: the refinement. `promise` is `value`, but `Unknown` for
  a PUT with a `leftover`; a reader's `saw` is its `expect`; its answer is the
  content whose bytes and size it got, "absent", "again" (the walk, or the request
  itself, failed) or, without a promise only, "broken" or "garbled".
* `OneEncoder`: racing calls are given one encoder per scheme.

`ObjectReader`:

* `StreamIsPrefix`: whatever buffers the caller passes, it gets the object's first
  bytes, and all of them at EOF, as long as every stripe still has a shard and the
  reader has the writer's `k` or no shard is lost.
* `RestartKeepsAvailability`: after a restart that keeps `k`, losses up to the
  smaller `m` per stripe make no read fail. (Row `j` of the library's coding matrix
  depends on `k` and `j` only.)
* `SizeIsExact`: with the same stripe size, or one stripe, `GetObject` returns the
  true size. Without that condition it does not; see the findings.
* `StreamEnds`: a caller that keeps reading reaches EOF or an error.

`S3Api`. The ghosts `ever` and `always` record, per request, what was on disk at
some time and at all times since it was sent:

* `NoFalseAbsence`: "no such bucket" and "no such key" are said only of what had no
  shard at some moment of the request and no marker at some moment of it: never
  because of a failed walk or a torn marker. The two moments may differ, since
  `GetObject` looks twice.
* `QuietReadIsWhole`: an object nobody touches during a GET is sent completely,
  also when an interrupted PUT or DELETE left its marker torn or missing.
* `ListingIsHonest`: a page names objects of its bucket with a size they had during
  the request. One that is not truncated names every object whose bytes were there
  all the time, with a readable last stripe, except the objects in `shaky`: those
  whose own walk met a file without a header, a DELETE at work or a failing disk.
  The listing drops these without a word (`continue`), and one such object does not
  excuse the loss of another.
* `BucketsAreCreated`: buckets and objects share one space of IDs. Until a POST
  complete has written below "__bucket__" (`reserved`), every bucket was there at the
  start or was asked for by a `CreateBucket` with a valid name. A complete with the
  path `/__bucket__/b` does make a bucket: it checks none (api.go:720-738).

`Multipart`. `debt` is what the last complete began with, if nobody else was then
changing its parts:

* `NothingLost`: the bytes of the parts stay on disk, as parts or as the object,
  wherever complete fails or is killed.
* `ListedPartsAreGone`: an undisturbed complete leaves none of the parts in its list
  and no upload marker. Parts that were uploaded and are not in the list stay.

`Server`:

* `PanicsOnOverflowOnly`: a configuration `Parse` accepts makes
  `ObjectStore.encoder` panic only if its shard counts overflow when they are added.
  Its comment claims that none does.
* `CleanExit`: exit code 0 means no request was cut off.
* `ExitsAfterSignal`: after a signal the process ends, although handlers hang.

## Runs

The runs of `ObjectStore` have `k = 2`, `m = 1` and stripes of 3 bytes, so that a
full stripe is padded. Contents are `empty` (0 bytes), `short` (1), `full` (3) and
`long` (4: a full and a partial stripe).

| Run | Instance | Shows |
|---|---|---|
| `faults` | 1 writer, 1 reader; empty, long; crashes; one missing or rotten shard per stripe; 2 mutations | `TypeOK`, `ReadExact`, `ReadAvailable` |
| `races` | 2 writers (symmetric), 1 reader; short, full; 3 mutations | `ReadExact`, `DeletedIsGone`, `WalkFailsInRacesOnly` after and during overlaps |
| `objects` | 2 objects; empty, long; failing requests and crashes; 2 mutations | `ImplementsObjectMap` |
| `rot` | full; rotten payloads and lengths, undecodable headers in 2 of 3 shards | `BytesAuthentic` |
| `delete` | 2 writers; short, long; 3 mutations; fair | `DeleteConverges`, `DeleteCompletes` |
| `stream` | all pairs of 12 configurations (`k` 1-3, `m` 1-2, stripes of 2-3 bytes); objects of 0, 1, 3 and 5 bytes; buffers of 1, 2 and 4; 3 shards lost | `StreamIsPrefix`, `RestartKeepsAvailability`, `SizeIsExact`, `StreamEnds` |
| `api` | 2 clients, 3 requests of 17 kinds: buckets that exist, do not, and are not valid; POST complete in a bucket and below "__bucket__"; pages of 1 and 2 keys while two objects come and go; failing writes and crashes | `NoFalseAbsence`, `QuietReadIsWhole`, `BucketsAreCreated`, `ListingIsHonest` |
| `api_race` | 3 clients (symmetric), one request each: GET, PUT, DELETE of an object that is empty at the start; failing writes | `NoFalseAbsence`, `QuietReadIsWhole` |
| `multipart` | 2 clients (symmetric), 4 requests; 2 parts of one upload, completed with both or one; failing writes and crashes | `NothingLost`, `ListedPartsAreGone` |
| `server` | 2 clients, 4 requests; settings absent, unparsable, too small, fine, too large and overflowing in environment and flags; fair main goroutine | `PanicsOnOverflowOnly`, `CleanExit`, `OneEncoder`, `ExitsAfterSignal` |

Why the bounds are enough. `ObjectStore`: two stripes give a full one, a partial
one and a boundary between them; `k = 2` has more than one data shard, so mixtures
and padding occur; three mutations are a first version, an interrupted or
overlapping request, and the acknowledged one that must repair it. `stream`: sizes
below, at and above multiples of both stripe sizes, buffers smaller and larger than
a stripe, `k` and `m` that shrink, stay and grow. `api`: a request that leaves a
state behind, and two that overlap on it; one stripe per object, since what a
handler can tell apart is a bad, a good or no stripe. `api_race`: a GET with both a
PUT and a DELETE between its two looks at the store. `multipart`: four requests
are the uploads of both parts, a complete and one that interferes or a retry.
`server`: two handlers race for the encoder cache and hold the shutdown up
independently. `MaxInt` is 1023, above the limit of 256 shards; all that matters of
it is that a sum may pass it. The bounds are `MaxMutations`, `MaxStripe`, `FaultBudget`,
`MaxLost`, `MaxRequests` and `MaxCalls`. For the safety properties the theorems
below remove them: what rests on the bounds is the liveness.

In the shipped code no route leads to `UploadPart` (see the findings), so with
`PartsRouted = FALSE`, which is the code as it is, there are no parts to complete.
`multipart` sets it to `TRUE` and examines the handler with the route that its own
PUT branch expects; `claim_parts` sets it to `FALSE`.

Deadlock is checked in `faults`, `races`, `objects` and `rot`, in which a reader may always
send another request. In the others all clients may have used up their requests,
the stream has been read, or the process has exited.

Fairness. `ObjectStore`, `S3Api` and `Multipart` have none: a PUT may wait for its
body for ever (`io.ReadFull`, and only reading headers has a timeout), so that every
request returns is not true of the code. `DeleteRace`: weak fairness of the steps of
a DELETE (`DelStep`), which has no body and waits for nobody: there is no lock, and
a goroutine that can run is eventually scheduled. `ObjectReader`: weak fairness of
`Read`; `StreamEnds` is about a caller that keeps reading, as `io.Copy` and
`io.ReadAll` do. `Server`: weak fairness of the main goroutine, with the timer of the
shutdown context, and none of handlers. Nothing is assumed of clients, signals,
failures, crashes or damage.

### Findings

Two runs check a statement of the documents that the code does not meet and are
violated:

| Run | Statement | What happens |
|---|---|---|
| `claim_strong` | "Read-after-write is always strong" | a shorter PUT over a longer object is read with the old tail; an empty PUT over it is read as the old object |
| `claim_parts` | multipart uploads are done | the upload of a part reaches the handler of plain PUTs and overwrites the object |

The other disagreements have no run of their own. The models have these behaviours,
and the properties say where they begin. `PROJECT.json` quotes the lines.

| Statement | What happens | What the properties say of it |
|---|---|---|
| "List all objects in the bucket" | the listing of a store without shards is answered with 500; empty objects are never listed | `ListingIsHonest` is about answers with 200 and objects with bytes |
| a corrupted byte is "never returned as data" | a rotten `StripeLen`, which no checksum covers, cuts or pads the stripe that is returned | `BytesAuthentic` allows for this and nothing else |
| "Concurrent writes to the same object ID are not safe" (and others are) | any request that walks the store fails while some object, of whatever ID, has a shard file without a header; after a crash it stays | `WalkFailsInRacesOnly` says when a walk fails without interrupted requests |
| fewer than `k` shards are `ErrUnrecoverable` | with the whole last stripe gone, a read ends early without an error | `ReadExact` and `StreamIsPrefix` assume a shard of every stripe |
| headers are "self-describing" | after a restart with another `k` a lost shard is decoded with the wrong code | `StreamIsPrefix` and `RestartKeepsAvailability` state their conditions on the schemes |
| "if fewer than `k` are available, fail the read" | GET answers 200 before it reads; a failing copy is a shorter 200 | `QuietReadIsWhole` excludes failing reads |
| not found means no shards and no marker | a PUT and a DELETE between `GetObject`'s walk and its look at the marker: not found, although there was always one of them | `NoFalseAbsence` takes the two moments apart; `api_race` has the case |
| "we'd rather fail a write than silently lose data" | complete drops the error of reading a part, stores a shortened object and deletes the part | `NothingLost` excludes failing reads |
| the same | while a PUT rewrites a stripe, and after it failed there, a read joins shards of both versions | `value` is `Unknown` then; the code's comment excludes concurrent writers, not readers |
| "params are validated at construction" | shard counts whose sum wraps around pass both validations, and the first request panics | `PanicsOnOverflowOnly` allows for this and nothing else |
| "`Range` GET" is done | a Range request is answered with the whole object and status 206 | `Success`, in the model |

## Proofs

Every theorem is about a specification without fairness (those of `ObjectReader`,
`DeleteRace` and `Server` have some, which the proofs do not use), and for every value of the constants that
satisfies the assumptions stated in the modules. TLC evaluates them in every run.

| Assumption | Says |
|---|---|
| `WidthAssumption` | an `int` holds at least 256 |
| `ParamsAssumption` | the library has a code for `k` and `m` (`NewOK`); a scheme that passes `Validate` and has none panics before any file is touched |
| `StoreAssumption` | the stripe size is positive, and `Size` fits `MaxStripe`, which is any number |
| `ValuesAssumption`, `CacheAssumption` | special values differ from ordinary ones |
| `MapAssumption` | a client that sends PUTs and GETs in turn counts as two; one content has no bytes |
| `NoFailures` (`DeleteRace`) | DELETEs meet no I/O error, crash or damage |
| `ReaderAssumption` | the library has a code for both configurations; stripe sizes and buffers are positive |
| `ApiStoreAssumption`, `S3Assumption`, `RequestsAssumption` | requests are well formed; `Ids` contains what they name; "__bucket__" is no valid bucket name (`validateBucketName`), and `EmptyObjects` are not below it |
| `MultipartAssumption`, `UploadsAssumption` | the same for multipart requests |
| `ServerAssumption` | `Schemes` contains whatever `Parse` may return |

| Theorem | Statement |
|---|---|
| `ObjectStoreProofs!TypeCorrect` | `Spec => []TypeOK` |
| `ObjectStoreProofs!DeletedStaysGone` | `Spec => []DeletedIsGone`, under every kind and amount of damage |
| `ObjectStoreProofs!WalksRecover` | `Spec => []WalkFailsInRacesOnly` |
| `ObjectStoreReads!ReadsAreExact` | `Spec => []ReadExact` if `FaultBudget < k + m` and `"length"` is not among the fault kinds |
| `ObjectStoreReads!ReadsAreAvailable` | `Spec => []ReadAvailable` if only whole shards are lost or payloads rot, at most `m` per stripe |
| `ObjectStoreReads!ReadsAreAuthentic` | `Spec => []BytesAuthentic`, under every kind and amount of damage |
| `ObjectMapProofs!StoreIsObjectMap` | `Spec => ImplementsObjectMap`, damage as for `ReadsAreAvailable` |
| `DeleteRaceProofs!DeletesConverge` | `RaceSpec => []DeleteConverges` |
| `ObjectReaderProofs!StreamsArePrefixes` | `Spec => []StreamIsPrefix` |
| `ObjectReaderProofs!RestartsKeepAvailability` | `Spec => []RestartKeepsAvailability` |
| `ObjectReaderProofs!SizesAreExact` | `Spec => []SizeIsExact` |
| `S3ApiProofs!AbsenceIsTrue` | `Spec => []NoFalseAbsence` |
| `S3ApiProofs!QuietReads` | `Spec => []QuietReadIsWhole` |
| `S3ApiProofs!HonestListing` | `Spec => []ListingIsHonest` |
| `S3ApiProofs!CreatedBuckets` | `Spec => []BucketsAreCreated` |
| `MultipartProofs!NoPartIsLost` | `Spec => []NothingLost` if `"read"` is not among the failures |
| `MultipartProofs!CompletedPartsAreGone` | `Spec => []ListedPartsAreGone` |
| `ServerProofs!EncoderForIsUnique` | `EncoderCache`: `Spec => []OneEncoder` |
| `ServerProofs!AcceptedConfigPanicsOnOverflowOnly` | `ServerSpec => []PanicsOnOverflowOnly` |
| `ServerProofs!CleanExitLosesNothing` | `ServerSpec => []CleanExit` |
| `ServerProofs!ServerUsesCache` | `ServerSpec => Spec`: the server implements `EncoderCache` |
| `ServerProofs!ServerHasOneEncoder` | `ServerSpec => []OneEncoder` |

The hypotheses are needed. Exactness fails with "length" damage, and with
`FaultBudget = k + m`, when the whole last stripe may be gone. A truncated or
headerless file makes a read fail with an untyped error (`GetShard`, "short
payload"), which `loadStripe` does not count as a lost shard, hence "only whole
shards are lost or payloads rot". Complete drops the error of `ReadAll`, so a part
that cannot be read is shortened and then deleted, hence `"read"` in
`NoPartIsLost`; a copy that fails after the status was sent is a shorter 200, which
`QuietReadIsWhole` excludes itself.

### The arguments

TLC agrees with each inductive invariant on the instances of the runs.

`ObjectStore`. The invariant is built in layers, each inductive with those below.

1. `TypeInv = TypeOK /\ LocalsOK /\ HandlesOK`. `TypeOK` alone is not
   inductive: that a shard index or a content may be used depends on the place
   the request is at (`LocalsOK`), and that a write through an open handle meets
   a file depends on `fd` being cleared when the file is removed (`HandlesOK`).
2. `AbsenceInv` adds `Exclusion` (a settled object has no PUT or DELETE in
   progress; a solo request is alone; a reader's expectation is the current
   value), `AbsentEmpty` (a deleted object has no file and no marker),
   `DeleteCovers` (every file that is left of the object of a solo DELETE is still
   in its list) and `AbsentReads`.
3. `ReadInv` adds `DamageBounded`, `PutProgress` (all a solo PUT has written so
   far is intact but for damage, and the file it is writing is at the stage its
   `pc` says, or is damaged), `Committed` (a settled object is on disk, complete
   but for damage, and nothing else of it is) and `ReadProgress` (what a read has
   counted, loaded and delivered agrees with the content; every shard it dropped
   is a damaged one). `Spoilt` is the crucial part: a damaged file never passes for
   the shard of another codeword, so what a reader holds is of one codeword, and
   with at least `k` of them `Reconstruct` and `Join` give the stripe back. That
   the highest stripe on disk is the content's last one needs one undamaged shard
   of it, hence `FaultBudget < k + m`.
4. `AuthenticInv`, beside 3 and without bounds on damage: a payload of a settled
   object is that of its codeword and of its length, rotten, or not there
   (`Genuine`), for what a solo PUT has written too; so all that a reader holds is of
   the codeword of the stripe it is at and as long as its shards, whatever
   `StripeLen` says: `Join` finds no more than `k` shards of it.
5. `Headed`, beside 2: without interruption every shard file has a header, but those
   that a request still has open between `os.Create` and the header. A file that a
   second PUT truncates is its own then; one that a DELETE unlinks is gone.

`ObjectMapImpl`. With `ReadInv`, every action is a step of the map or stutters. A
GET that ends is `Answer`: `ReadExact` and `ReadAvailable` say its outcome is the one
promised, and `MapAssumption` that the content it received is unique. The last step
of a PUT or DELETE is `Renew` or nothing; its first is `Suspend`, which takes the
promise from every reader of the object at once.

`DeleteRace`. Overlapping DELETEs all remove the lowest shard of their list.
`Orderly`: each list contains every shard there is, and with a shard that is there
all that follow it in the order of `ListShards`. `Underway`: as long as something is
left, some DELETE `Leads`, which means that its list is exactly what there is. If the
leader is overtaken, the shard it lacks was removed by another one, whose list then
is what is left.

`ObjectReader`. `Counted`: the highest stripe on disk is the last one while every
stripe shows. `AtStripe`: the reader is at the beginning of a stripe, inside the one
in its buffer, or behind the last, and what it has delivered ends there. The
arithmetic is in lemmas about ceiling division (the shards of a stripe, joined and
cut to its length, are its bytes, whichever `k` and padding) and about counting (at
least `k` shards are left when at most `m` of `k + m` are lost).

`S3Api`. Besides types and the separation of bucket and object IDs (`BucketSpace`),
`ClientInv` says for every place of a handler what it has learnt about the
disk and that this is in `ever`, or true of everything in `always`: the name and
target of a PUT or DELETE, the number of stripes a walk has counted (`Counted`: some
state in `ever` had that many, and those in `always` have), the keys listed so far and
still to be looked at. A step of another handler only adds to `ever` and removes
from `always`.

`Multipart`. `Basis` (a debt is owed by one complete, whose parts no other running
request touches), `EarlyKept` (until the object is stored, no part has changed),
`Safe` (what has been read is the first parts in order, what has been written is the
beginning of that, and when the first part is deleted the object is assembled) and
`Clean` (of an undisturbed complete, the items before its position are gone). The
concatenation of the parts is stated by its end points (`Joined`), which needs no
induction.

`Server`. `Lifetime` (connections exist only while the server runs, and a request
is killed only by the exit) and `Configured` (the configuration was checked before
the listener was opened, so the library has a code for it or its sum overflows). That the steps of the server are steps of `EncoderCache`
or leave it alone carries `OneEncoder` over.

### What is only model-checked

`DeleteCompletes`, `StreamEnds` and `ExitsAfterSignal`: liveness under fairness is
out of the prover's reach. The two `claim_` runs show violations. All other properties of the runs are theorems.

Damage beyond the parity (missing, cut and headerless files in all but one shard
of a stripe) is left to `ReadsAreExact`; no run repeats it.

## What is abstracted and what is not modelled

* Bytes: contents are values; the Galois-field arithmetic of the library is
  replaced by "any `k` shards of a codeword determine it"; SHA-256 is collision free.
* Header fields that repeat the file's name and directory (object ID, indices, `k`,
  `m`) are not varied. Directory names are hashes taken to be unique.
* One file is read in one step and the walk over the store is one step; the
  comment of `ObjectStore` says which outcome of a walk that leaves out. A header
  or a payload is written in one step; a cut one is what `"short"` and `"header"`
  damage, or a crash before the step, leaves.
* In `ObjectStore`, `Read` delivers a stripe in one step; `ObjectReader` has the
  caller's buffer, but loads a stripe, and lists the shards, in one step.
* `ApiStore` groups the shards of a stripe and the removals of a DELETE; the steps
  it keeps are those between which another handler, or a restarted process, can
  tell the states apart. That every one of its intermediate states arises from the
  shard files of `ObjectStore` is an argument, not a refinement that is checked.
* Paths are the decoded URL paths split at slashes, so an escaped slash is one.
  Time stamps, ETags, owners, XML and the delimiter of a listing (which changes
  nothing) are left out. Upload IDs are random and taken to be unique.
* `Multipart` is about the uploads of one object; uploads of different objects have
  no file in common.
* `S3Api` takes what the parts of a POST complete hold as the request's data and
  leaves their reading and removal to `Multipart`; their IDs, below "__multipart__",
  are not among its `Ids`.
* `MarkerWrite` writes a marker and opens it again in one step: a DELETE between
  the two has the outcome of one just before it, the PUT's failure without a marker.
* `ObjectReader` loses whole files only. Rotten shards, which stay in the listing, are
  in `ObjectStore`.
* `Crash` is the death of the process: what was written stays written. Power loss
  and missing directory syncs are not modelled.
* In `ObjectStore` the parameters do not change over a restart; in `ObjectReader`
  they do.
* The early returns of `PutObject` for an empty ID or a negative size are left out:
  the API never passes them.
* Not modelled at all: `MemStore`, which only tests use (one mutex around a map, no
  intermediate state); logging and version, request IDs, access log and health
  check, which keep no state and decide nothing; `Verify`, `ReconstructSome` and
  `ShardPayloadLen`, which nothing but tests call.

## Plan

The system's own logic is modelled, and the safety properties of the passing runs are
proved. What could be added:

1. `ApiStore` as an abstraction of `ObjectStore`: that the intermediate states the
   handlers are checked against are those of the shard files. It takes a mapping
   from the files of a stripe to its value, `Mixed`, `Lost` or `Broken`, and the
   grouping of the steps on one stripe.
2. Action properties of `ObjectStore` (which files a request may change) as
   theorems of their own; the frame lemmas of the proofs state most of them.
3. Overlapping DELETEs with failing requests: `DeleteConverges` without
   `NoFailures` needs a weaker conclusion, since the leader may fail.
