--------------------------- MODULE MCRecordChannels ---------------------------
(* Small instances of RecordChannels for TLC. *)
EXTENDS RecordChannels
=============================================================================
