---------------------------- MODULE OrderedAudio ----------------------------
(***************************************************************************)
(* What the audio path promises: the server hears the microphone in the    *)
(* order it was captured, each chunk at most once.  Chunks may be lost; a  *)
(* new stream starts its numbering again, and nothing of an older stream   *)
(* is heard after it.                                                      *)
(***************************************************************************)
EXTENDS Naturals

VARIABLES stream,       \* the number of the present stream
          captured,     \* chunks captured of it
          heard         \* the last chunk the server accepted

orderedVars == <<stream, captured, heard>>

Later(c, d) == c.stream > d.stream \/ (c.stream = d.stream /\ c.seq > d.seq)

OrderedInit ==
    /\ stream = 0 /\ captured = 0
    /\ heard = [stream |-> 0, seq |-> 0]

NewStream == stream' = stream + 1 /\ captured' = 0 /\ UNCHANGED heard

CaptureChunk == captured' = captured + 1 /\ UNCHANGED <<stream, heard>>

HearChunk ==
    /\ Later(heard', heard) /\ heard'.seq # 0
    /\ heard'.stream <= stream
    /\ heard'.stream = stream => heard'.seq <= captured
    /\ UNCHANGED <<stream, captured>>

OrderedNext == NewStream \/ CaptureChunk \/ HearChunk

OrderedSpec == OrderedInit /\ [][OrderedNext]_orderedVars
=============================================================================
