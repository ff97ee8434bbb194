-------------------------- MODULE MultipartClaims --------------------------
(***************************************************************************)
(* What the documentation says of multipart uploads and the code does not  *)
(* do.                                                                     *)
(***************************************************************************)
EXTENDS Multipart

\* "Multipart: CreateMultipartUpload / UploadPart / ListParts / Complete /
\* Abort" (docs/PHASES.md:62, done): a part whose upload was answered with 200
\* and that no complete has taken is stored as a part.
PartsAreStored ==
  \A p \in Clients :
    pc[p] = "done" /\ req[p].op = "UploadPart" /\ resp[p] = Answer(200)
    /\ (\A q \in Clients \ {p} : pc[q] = "idle") =>
      Intact(PartMarker(req[p].upload, req[p].part))
=============================================================================
