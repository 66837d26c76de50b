------------------------------ MODULE MCBTree ------------------------------
(* Values of the set constants of BTree for its .cfg files. *)
EXTENDS BTree

Keys == 1 .. 8
Elts == {1, 2}
\* Ten entries, with two keys that have two: enough for a node between root
\* and leaves to give a branch to another.
Entries == (Keys \X {1}) \cup {<<2, 2>>, <<5, 2>>}
Nodes == 1 .. 11
=============================================================================
