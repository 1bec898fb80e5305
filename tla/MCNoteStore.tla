----------------------------- MODULE MCNoteStore -----------------------------
EXTENDS NoteStore, TLC
=============================================================================
