----------------------------- MODULE MCUpstream -----------------------------
(* Upstream with three descriptors: a second session follows the first on  *)
(* the same descriptors; with reuse it may begin while the first drains.   *)
EXTENDS Upstream

MCMaxBytes == <<4, 1>>

=============================================================================
