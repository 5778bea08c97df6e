------------------------------ MODULE MCGossip ------------------------------
(* Instance of Gossip for TLC: one subscriber, since subscribers share     *)
(* nothing but the table and the ring they only read.                      *)
EXTENDS Gossip

MCInfos == {[shred_version |-> 1, rpc |-> Some(8)]}
=============================================================================
