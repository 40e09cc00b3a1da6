--------------------- MODULE MC_AudioProcessingBuilder ---------------------
(* Small instance of AudioProcessingBuilder for TLC. *)
EXTENDS AudioProcessingBuilder

=============================================================================
