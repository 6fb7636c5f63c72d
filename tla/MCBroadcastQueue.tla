-------------------------- MODULE MCBroadcastQueue --------------------------
(* Two handlers and files of two entries, so that files roll and the text  *)
(* of one handler is followed by that of the other.                        *)
EXTENDS BroadcastQueue, TLC
=============================================================================
