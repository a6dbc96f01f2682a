------------------------------ MODULE MCGrandpa ------------------------------
(* A chain of four blocks that gets finalized, with a fork of two blocks    *)
(* above the first; every change that the pallet could signal on it, up to  *)
(* a delay of two blocks and with the medians that tell cases apart.         *)
EXTENDS Grandpa

MCBlocks == {"g", "c1", "c2", "c3", "c4", "f2", "f3"}
MCAncestors ==
  [b \in MCBlocks |->
     CASE b = "g" -> {}
       [] b = "c1" -> {"g"}
       [] b = "c2" -> {"g", "c1"}
       [] b = "c3" -> {"g", "c1", "c2"}
       [] b = "c4" -> {"g", "c1", "c2", "c3"}
       [] b = "f2" -> {"g", "c1"}
       [] b = "f3" -> {"g", "c1", "f2"}]
MCChanges ==
  [b \in MCBlocks |->
     CASE b = "c1" -> {NoChange, Standard(0), Standard(2)}
       [] b = "c2" -> {NoChange, Standard(0), Standard(1), Forced(1, 1)}
       [] b = "c3" -> {NoChange, Standard(1), Forced(0, 1), Forced(1, 2)}
       [] b = "f2" -> {NoChange, Standard(0), Standard(1)}
       [] b = "f3" -> {NoChange, Standard(0), Empty}
       [] OTHER    -> {NoChange}]
==============================================================================
