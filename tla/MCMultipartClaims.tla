------------------------- MODULE MCMultipartClaims -------------------------
(***************************************************************************)
(* A small instance on which the claim of MultipartClaims fails.           *)
(***************************************************************************)
EXTENDS MultipartClaims

CONSTANTS c1, c2, x

MCRequests ==
  {[op |-> "UploadPart", upload |-> "u", part |-> 1, data |-> <<c1>>, list |-> None],
   [op |-> "UploadPart", upload |-> "u", part |-> 2, data |-> <<c2>>, list |-> None],
   [op |-> "complete", upload |-> "u", part |-> 0, data |-> None, list |-> <<1, 2>>]}
MCTooSmall == {<< >>}
MCIds == {ObjectID, UploadMarker("u"), PartMarker("u", 1), PartMarker("u", 2)}
=============================================================================
