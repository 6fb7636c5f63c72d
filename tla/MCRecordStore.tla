--------------------------- MODULE MCRecordStore ---------------------------
(* Blocks of five chunks, so that two small records fill one.              *)
EXTENDS RecordStore, TLC
=============================================================================
