--------------------------- MODULE MCAudioOutput ---------------------------
(***************************************************************************)
(* Instances of AudioOutput small enough for TLC.  A full segment is two   *)
(* bytes, a full page three segments, a second five samples.               *)
(***************************************************************************)
EXTENDS AudioOutput

Opus(timescale, edit) ==
    [format |-> "ogg", codec |-> "opus", headers |-> <<2, 5>>, timescale |-> timescale,
     second |-> 5, edit |-> edit]
OfFLAC == [Opus(5, {}) EXCEPT !.codec = "flac", !.headers = <<1, 2>>]
OfVorbis == [Opus(5, {}) EXCEPT !.codec = "vorbis", !.headers = <<1, 3, 7>>]

Wave(seeks, rf64, float, channels, width, big, signed) ==
    [format |-> "wav", seeks |-> seeks, rf64 |-> rf64, float |-> float, channels |-> channels,
     width |-> width, fast |-> FALSE, big |-> big, signed |-> signed]

AllSetups ==
    {Opus(5, {}), Opus(3, {[scale |-> 5, media |-> 1, duration |-> 4]}),
     OfFLAC, OfVorbis, [OfVorbis EXCEPT !.edit = {[scale |-> 4, media |-> 2, duration |-> 5]}],
     Wave(TRUE, FALSE, FALSE, 1, 1, FALSE, TRUE), Wave(TRUE, FALSE, TRUE, 2, 4, TRUE, FALSE),
     Wave(TRUE, TRUE, FALSE, 1, 3, TRUE, FALSE), Wave(FALSE, TRUE, FALSE, 1, 2, TRUE, FALSE),
     Wave(FALSE, FALSE, FALSE, 2, 2, TRUE, FALSE),
     [format |-> "frames", codec |-> "flac", blocks |-> <<"info", "comment", "seektable">>],
     [format |-> "frames", codec |-> "aac", blocks |-> <<>>]}

(* Packets of one byte, of a full segment, of more than a page, shown in   *)
(* full or in part.                                                        *)
Packets ==
    {[len |-> 1, size |-> 2, before |-> 0, dur |-> 2],
     [len |-> 2, size |-> 3, before |-> 0, dur |-> 2],
     [len |-> 4, size |-> 4, before |-> 0, dur |-> 1],
     [len |-> 7, size |-> 1, before |-> 0, dur |-> 1]}
Blocks ==
    {[len |-> 2, size |-> 4, before |-> 0, dur |-> 2],
     [len |-> 3, size |-> 8, before |-> 4, dur |-> 3],
     [len |-> 4, size |-> 8, before |-> 8, dur |-> 1],
     [len |-> 6, size |-> 4, before |-> 0, dur |-> 1]}

SamplesOf(s) ==
    CASE s.format = "ogg" /\ s.codec = "vorbis" -> Blocks
      [] s.format = "ogg" /\ s.codec # "vorbis" -> Packets
      [] s.format = "wav" -> [frames : 1..2]
      [] s.format = "frames" -> [empty : BOOLEAN]
=============================================================================
