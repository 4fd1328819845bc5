--------------------------- MODULE MCChunkDelivery ---------------------------
(***************************************************************************)
(* Three chunks and three targets, every assignment of one to the other:   *)
(* three chunks of one target, a target that is served while another is in *)
(* backoff, and three targets that compete for one slot and one pending    *)
(* place, so that the third is refused.                                    *)
(***************************************************************************)
EXTENDS ChunkDelivery
=============================================================================
