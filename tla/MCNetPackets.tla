---------------------------- MODULE MCNetPackets ----------------------------
(* Small instance of NetPackets: two slots, three heap blocks.             *)
EXTENDS NetPackets, TLC

MCSources == {[k \in 0 .. MAX_PACKET_SIZE |-> 7 + k]}
MCValues  == {456}
MCSymmetry == Permutations(Blocks)
=============================================================================
