----------------------------- MODULE FrameSink -----------------------------
(***************************************************************************)
(* The sinks of audiowriter.go whose frames carry everything: ADTS and     *)
(* MPEG audio with nothing around them, and native FLAC behind its         *)
(* metadata blocks.  A setup is [format, codec, blocks]: for FLAC the      *)
(* kinds of the track's metadata blocks.  A sample is [empty].             *)
(***************************************************************************)
EXTENDS AudioWriter

VARIABLES
    header    \* what AddTrack has yet to write

(* The blocks that are kept and whether each is marked as the last.        *)
Kept == SelectSeq([i \in DOMAIN setup.blocks |-> i],
                  LAMBDA i : setup.blocks[i] # "seektable")

Metadata ==
    [i \in DOMAIN Kept |-> [unit |-> setup.blocks[Kept[i]], last |-> i = Len(Kept)]]

Signature == [unit |-> "fLaC", last |-> FALSE]
Body(block) == [unit |-> "data", last |-> block.last]

(* newFLACSink writes the signature, and each block in two writes.         *)
FrameAddTrack ==
    /\ setup.format = "frames" /\ CanAddTrack
    /\ header' = IF setup.codec = "flac"
                 THEN <<Signature>> \o FlattenSeq([i \in DOMAIN Metadata |->
                                                     <<Metadata[i], Body(Metadata[i])>>])
                 ELSE <<>>
    /\ pc' = "header"
    /\ UNCHANGED <<setup, opened, closed, complete, medium, taken>>

WriteHeader ==
    /\ setup.format = "frames" /\ pc = "header"
    /\ IF header # <<>>
       THEN /\ Write(<<Head(header)>>)
            /\ header' = Tail(header)
            /\ UNCHANGED <<setup, opened, closed, complete, pc, taken>>
       ELSE UNCHANGED <<medium, header>> /\ TrackAdded

(* Nothing is written for an empty AAC packet.                             *)
FrameOf(k, s) == IF s.empty THEN <<>> ELSE <<[unit |-> "frame", last |-> FALSE, of |-> k]>>

FrameWriteSample(s) ==
    /\ setup.format = "frames" /\ CanWriteSample
    /\ s.empty => setup.codec = "aac"
    /\ IF s.empty THEN UNCHANGED medium ELSE Write(FrameOf(Len(taken) + 1, s))
    /\ taken' = Append(taken, s)
    /\ UNCHANGED <<setup, opened, closed, complete, pc, header>>

FrameClose ==
    /\ setup.format = "frames" /\ pc = "idle" /\ ~closed /\ opened
    /\ closed' = TRUE /\ complete' = ~failed
    /\ UNCHANGED <<setup, opened, medium, pc, taken, header>>

FrameInit == header = <<>>

FrameNext ==
    \/ FrameAddTrack \/ WriteHeader \/ FrameClose
    \/ \E s \in Samples(setup) : FrameWriteSample(s)
=============================================================================
