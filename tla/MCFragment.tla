----------------------------- MODULE MCFragment -----------------------------
(***************************************************************************)
(* Instances of FragmentFile small enough for TLC.                         *)
(***************************************************************************)
EXTENDS FragmentFile

(* Video, cut into fragments of two ticks, and an audio track converted to *)
(* its sample rate, with a priming of one tick and a half.                 *)
VideoAndAudio ==
    <<[timescale |-> 2, rate |-> 0, delay |-> 0],
      [timescale |-> 2, rate |-> 3, delay |-> 2]>>

(* Key frames, frames that wait to be presented and frames that do not.    *)
Frames ==
    {[len |-> 1, dur |-> 1, offset |-> 0, sync |-> TRUE],
     [len |-> 2, dur |-> 2, offset |-> 1, sync |-> TRUE],
     [len |-> 1, dur |-> 1, offset |-> -1, sync |-> FALSE]}

KeyFrames == {f \in Frames : f.sync}
(* No index; an index of a file that can be read back; one of a writer     *)
(* that cannot, with the fragments held.                                   *)
Plain == [indexed |-> FALSE, readable |-> FALSE]
IndexedFile == [indexed |-> TRUE, readable |-> TRUE]
HeldFragments == [indexed |-> TRUE, readable |-> FALSE]
EveryWriter == {Plain, IndexedFile, HeldFragments}
PlainOnly == {Plain}
FileOnly == {IndexedFile}
Indexers == {IndexedFile, HeldFragments}

AsStated == {0}
Tightened == {0, 1}
=============================================================================
