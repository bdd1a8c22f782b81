------------------------------- MODULE MCWebM -------------------------------
(***************************************************************************)
(* Instances of WebMFile small enough for TLC.  A second has twelve units  *)
(* and a tick three, so that times of tracks are rounded; a block is told  *)
(* at most two ticks after its cluster and three before it.                *)
(***************************************************************************)
EXTENDS WebMFile

Video == [timescale |-> 3, kind |-> "video", fixed |-> FALSE, edit |-> {}]
Text == [timescale |-> 2, kind |-> "text", fixed |-> FALSE, edit |-> {}]
(* Sound whose edit list starts it one unit late and ends it early.        *)
Audio == [timescale |-> 4, kind |-> "audio", fixed |-> TRUE,
          edit |-> {[scale |-> 6, lead |-> 2, media |-> 1, duration |-> 4]}]

Setup(mode, configs, start) == [mode |-> mode, configs |-> configs, start |-> start]

VideoAndAudio == <<Video, Audio>>
VideoAndText == <<Video, Text>>
EveryMode ==
    {Setup("buffered", VideoAndAudio, 0), Setup("buffered", VideoAndText, 0),
     Setup("file", VideoAndAudio, 1), Setup("stream", VideoAndText, 0),
     Setup("pipe", <<Audio>>, 0)}
Refusing ==
    {Setup("buffered", VideoAndAudio, 0), Setup("file", VideoAndAudio, 1),
     Setup("stream", <<Audio>>, 0)}

(* The second decodes before a frame it presents after; the third is long. *)
Frames ==
    {[len |-> 1, dur |-> 1, offset |-> 0, sync |-> TRUE],
     [len |-> 2, dur |-> 1, offset |-> 2, sync |-> FALSE],
     [len |-> 3, dur |-> 2, offset |-> 0, sync |-> TRUE]}
FewFrames == {f \in Frames : f.len < 3}

(* Text that shows nothing, one cue, another, and the same cue twice.      *)
Shows == {<<>>, <<1>>, <<2, 1>>, <<1, 1>>}
Texts == {[len |-> 1, dur |-> 1, offset |-> 0, sync |-> TRUE, cues |-> c] : c \in Shows}

(* Blocks of up to three frames behind one of a single frame.              *)
Lace(time, n, stated) ==
    [frames |-> [j \in 1..n |-> <<time, j>>], time |-> time, stated |-> stated, sync |-> TRUE, discard |-> 0]
Laces ==
    {[perFrame |-> perFrame, blocks |-> <<Lace(1, 1, first), Lace(second, n, stated), Lace(third, m, last)>>] :
       perFrame \in {0, 2}, first \in {0, 1}, second \in 2..3, n \in 1..3, stated \in {0, 5},
       third \in {5, 7, 8, 9}, m \in 1..3, last \in {0, 4}}

NoLaces == {}
NoOthers == <<>>
Attachments == <<2, 3>>
=============================================================================
