---------------------------- MODULE MCNoteService ----------------------------
(* Three concurrent requests over two texts: an edit, a retry and a rival.  *)
EXTENDS NoteService, TLC

Symmetry == Permutations(Requests) \cup Permutations(Contents)
=============================================================================
