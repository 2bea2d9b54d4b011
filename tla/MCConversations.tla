--------------------------- MODULE MCConversations ---------------------------
(***************************************************************************)
(* Instances of Conversations for TLC.  Turns are interchangeable: nothing *)
(* tells them apart but what they did.                                     *)
(***************************************************************************)
EXTENDS Conversations, TLC

Symmetry == Permutations(Turns)
==============================================================================
