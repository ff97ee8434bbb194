------------------------- MODULE ObjectStoreClaims -------------------------
(***************************************************************************)
(* What the documentation says of reads, where ObjectStore's behaviours    *)
(* differ from it.                                                         *)
(***************************************************************************)
EXTENDS ObjectStore

Done(p) == pc[p] = "done" /\ reply[p] = "ok"

\* README.md:124, "Read-after-write is always strong": a read after an
\* acknowledged PUT returns that PUT's bytes.  The shard files of an older,
\* longer version stay behind and are read as the tail of the new one.
StrongReadAfterWrite ==
  \A p \in Clients, c \in Contents :
    ReadOf(p, c) /\ Done(p) => PrefixOf(p, c) /\ size[p] = Size[c]
=============================================================================
