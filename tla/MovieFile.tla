----------------------------- MODULE MovieFile -----------------------------
(***************************************************************************)
(* What a muxer of a file of several tracks promises its caller: the file  *)
(* holds every sample it took, on the track it was handed over for, in the *)
(* order it was taken and nothing else; a sample handed over is in the     *)
(* file or it is not, and closing the file changes no sample.              *)
(*                                                                         *)
(* A sample is [data, dur, offset, sync]: the bytes a player will read,    *)
(* how long they last, how far they present from when they decode, and     *)
(* whether a player may start there.                                       *)
(***************************************************************************)
EXTENDS Naturals, Sequences

CONSTANT TracksMayBeEmpty  \* whether a file may be complete with a track of no sample

VARIABLES
    content,     \* per track, the samples it holds
    handed,      \* {} or the {[track, sample]} handed over and not answered
    finished     \* whether the file is complete

Init == content = <<>> /\ handed = {} /\ finished = FALSE

(* Tracks are declared before the first sample.                            *)
AddTrack ==
    /\ ~finished /\ handed = {}
    /\ \A t \in DOMAIN content : content[t] = <<>>
    /\ content' = Append(content, <<>>)
    /\ UNCHANGED <<handed, finished>>

HandOver ==
    /\ ~finished /\ handed = {}
    /\ \E h \in handed' :
        /\ handed' = {h}
        /\ h.track \in DOMAIN content
    /\ UNCHANGED <<content, finished>>

Take ==
    /\ handed' = {}
    /\ \E h \in handed :
         content' = [content EXCEPT ![h.track] = Append(@, h.sample)]
    /\ UNCHANGED finished

Refuse ==
    /\ handed # {} /\ handed' = {}
    /\ UNCHANGED <<content, finished>>

(* A file names at least one track; every track of it carries something,   *)
(* where a track that does not could not be described.                     *)
Finish ==
    /\ ~finished /\ finished' = TRUE /\ handed = {}
    /\ content # <<>>
    /\ TracksMayBeEmpty \/ \A t \in DOMAIN content : content[t] # <<>>
    /\ UNCHANGED <<content, handed>>

Next == AddTrack \/ HandOver \/ Take \/ Refuse \/ Finish

Spec == Init /\ [][Next]_<<content, handed, finished>>
=============================================================================
