---------------------------- MODULE MCIndexBuild ----------------------------
(* Instances of IndexBuild for TLC. *)
EXTENDS IndexBuild

Chunk(id, text) == [id |-> id, text |-> text]

\* The text of one chunk is revised, and its id stays.
Before == <<Chunk("page", "old"), Chunk("note", "same")>>
After == <<Chunk("page", "new"), Chunk("note", "same")>>
TwoRevisions == {Before, After}
=============================================================================
