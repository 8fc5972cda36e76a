---------------------------- MODULE MCBlockCache ----------------------------
(* A small instance of the block cache for TLC.                            *)
EXTENDS BlockCache
=============================================================================
