---------------------------- MODULE MCStateMachine ----------------------------
(* Instances of StateMachine for model checking. *)
EXTENDS StateMachine

CONSTANTS item, child

\* The backend holds key 2 of each trie and nothing else.
OneKeyHeld == [l \in StorageLocations |-> IF l[2] = 2 THEN <<item>> ELSE None]

\* Two keys of the top trie, one of the child trie and one of the offchain index.
FourLocations == {<<"top", 1>>, <<"top", 2>>, <<child, 1>>, <<"offchain", 1>>}
=============================================================================
