------------------------------ MODULE MCS3Api ------------------------------
(***************************************************************************)
(* Small instances of the bucket and object handlers.                      *)
(***************************************************************************)
EXTENDS S3Api, TLC

CONSTANTS c1, x, y, z

Base == [op |-> "HeadBucket", path |-> <<"aaa">>, auth |-> "AWS4", data |-> None,
         range |-> FALSE, max |-> 0, prefix |-> None]
OnBucket(o, b) == [Base EXCEPT !.op = o, !.path = <<b>>]
OnObject(o, k) == [Base EXCEPT !.op = o, !.path = <<"aaa", k>>]
Put(path, d)   == [Base EXCEPT !.op = "PutObject", !.path = path, !.data = d]
PostComplete(path, d) == [Base EXCEPT !.op = "Complete", !.path = path, !.data = d]

\* Names: "aaa" is valid, the reserved "__bucket__" is not; the object "bbb" of
\* a bucket "__bucket__" is the marker of the bucket "bbb".
BucketAndObjectRequests ==
  {OnBucket("CreateBucket", b) : b \in {"aaa", "__bucket__"}}
  \cup {OnBucket("DeleteBucket", "aaa"), OnBucket("HeadBucket", "aaa")}
  \cup {Put(<<"aaa", "k">>, d) : d \in {<<c1>>, << >>, None}}
  \cup {Put(<<"__bucket__", "bbb">>, << >>), PostComplete(<<"__bucket__", "bbb">>, << >>),
        PostComplete(<<"aaa", "k">>, <<c1>>)}
  \cup {OnObject(o, "k") : o \in {"GetObject", "HeadObject", "DeleteObject"}}
  \cup {[OnObject("DeleteObject", "k") EXCEPT !.auth = "other"]}

\* The listing, while two objects come and go.  The path /aaa/d/l names the
\* object "l".
ListRequests ==
  {[OnBucket("ListObjectsV2", "aaa") EXCEPT !.max = n] : n \in {1, 2}}
  \cup {Put(<<"aaa", "k">>, <<c1>>), Put(<<"aaa", "d", "l">>, <<c1>>), OnObject("DeleteObject", "k")}

MCRequests == BucketAndObjectRequests \cup ListRequests
MCIds == {BucketId("aaa"), BucketId("bbb"), BucketId("__bucket__"), <<"aaa", "k">>, <<"aaa", "l">>}

\* A GET while a PUT and a DELETE of the same object, which is there and empty
\* at the start, are under way.
RaceRequests ==
  {Put(<<"aaa", "k">>, <<c1>>)} \cup {OnObject(o, "k") : o \in {"GetObject", "DeleteObject"}}
RaceSymmetry == Permutations(Clients)
KeyIsEmpty == {<<"aaa", "k">>}
RaceIds == {BucketId("aaa"), <<"aaa", "k">>}
=============================================================================
