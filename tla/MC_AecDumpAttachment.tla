----------------------- MODULE MC_AecDumpAttachment -----------------------
(* Small instance of AecDumpAttachment for TLC. *)
EXTENDS AecDumpAttachment
=============================================================================
