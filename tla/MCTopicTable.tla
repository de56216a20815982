---------------------------- MODULE MCTopicTable ----------------------------
(* TopicTable with calls that may be exchanged.                            *)
EXTENDS TopicTable, TLC

Symmetry == Permutations(Calls) \cup Permutations(Keys) \cup Permutations(Sequences)
=============================================================================
