---------------------------- MODULE MCLibp2pNode ----------------------------
(* A node whose three requests may meet at either of two topics.               *)
EXTENDS Libp2pNode
=============================================================================
