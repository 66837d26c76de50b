----------------------------- MODULE MCStoPages -----------------------------
(* Values of the set constants of StoPages for its .cfg files. *)
EXTENDS StoPages

Above == {"above"}
AboveBelow == {"above", "below"}
Anywhere == {"above", "below", "middle"}
AlignedSlack == {1}
NoSlack == {0}
NoLevels == {}
AllLevels == GcLevels

=============================================================================
