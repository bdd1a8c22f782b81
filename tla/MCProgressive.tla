---------------------------- MODULE MCProgressive ----------------------------
(***************************************************************************)
(* Instances of ProgressiveFile small enough for TLC.  Second = 4 and a    *)
(* movie timescale of 4 keep every rounding in sight; a limit of 3 bytes   *)
(* is reached by two samples; maxChunkOffset32 is lowered to the middle of *)
(* a file, as the package's own tests lower it.                            *)
(***************************************************************************)
EXTENDS ProgressiveFile

(* A video track whose frames present out of order, and an audio track     *)
(* whose timescale is coarser than its sample rate and which is primed.    *)
VideoAndAudio ==
    <<[timescale |-> 3, rate |-> 0, delay |-> 0],
      [timescale |-> 2, rate |-> 5, delay |-> 1]>>

Frames ==
    {[len |-> 1, dur |-> 2, offset |-> 0, sync |-> TRUE],
     [len |-> 2, dur |-> 1, offset |-> 1, sync |-> FALSE],
     [len |-> 4, dur |-> 1, offset |-> -1, sync |-> FALSE]}

PlainFrames ==
    {[len |-> 1, dur |-> 1, offset |-> 1, sync |-> TRUE],
     [len |-> 2, dur |-> 2, offset |-> 0, sync |-> FALSE]}

(* A caller in decode order, and a muxer whose calls return.               *)
OrderedFairSpec == OrderedSpec /\ WF_vars(pc # "idle" /\ Next)

(* A file that already holds a byte, written as the media arrives, and a   *)
(* writer that cannot seek, whose limit is that of the whole file.         *)
AppendedFile == [seekable |-> TRUE, start |-> 1, limit |-> 3]
FileOrSocket == {AppendedFile, [seekable |-> FALSE, start |-> 0, limit |-> 8]}
FileOnly == {AppendedFile}

WholeWrites == {0}
ShortWrites == {0, 1}
=============================================================================
