---------------------------- MODULE MCMultipart ----------------------------
(***************************************************************************)
(* An upload of one object in two parts, completed with one of them or     *)
(* both.                                                                   *)
(***************************************************************************)
EXTENDS Multipart, TLC

CONSTANTS c1, c2, x, y

Base == [op |-> "abort", upload |-> "u", part |-> 0, data |-> None, list |-> None]
Upload(u, n, d) == [Base EXCEPT !.op = "UploadPart", !.upload = u, !.part = n, !.data = d]
Complete(l) == [Base EXCEPT !.op = "complete", !.list = l]

MCRequests ==
  {[Base EXCEPT !.op = "initiate"], Base, Complete(None),
   Complete(<<2, 1>>), Complete(<<1>>), Upload("u", 1, << >>),
   Upload("u", 1, <<c1>>), Upload("u", 2, <<c2>>)}
ClientSymmetry == Permutations(Clients)
MCTooSmall == {<< >>}
MCIds == {ObjectID, UploadMarker("u")}
         \cup {PartMarker(r.upload, r.part) : r \in {q \in MCRequests : q.part > 0}}
=============================================================================
