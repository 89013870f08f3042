--------------------------- MODULE MCSampledTools ---------------------------
(* Instances of SampledTools: two samples, image_pull with two retries. *)
EXTENDS SampledTools
=============================================================================
