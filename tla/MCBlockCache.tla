--------------------------- MODULE MCBlockCache ---------------------------
(* Three blocks compete for the two places of the first shard; a flush     *)
(* goes on to a second shard while the first one changes behind it.        *)
EXTENDS BlockCache

CONSTANTS b0, b1, b2

MCBlocks == {b0, b1, b2}
MCShardOf == [b \in MCBlocks |-> 1]
=============================================================================
