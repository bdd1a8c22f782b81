---------------------------- MODULE AudioWriter ----------------------------
(***************************************************************************)
(* AudioWriter (audiowriter.go): one track written to a file that holds    *)
(* nothing but audio.  What each format puts in front of, around and       *)
(* behind the samples is a sink's (OggSink, WAVSink, FrameSink); this      *)
(* module has what they share: the track, the state of the writer, and     *)
(* stickyWriter, which writes nothing more once a write was refused.       *)
(*                                                                         *)
(* A call is the sequence of its steps between two writes, and pc names    *)
(* the step the call in progress is at.  The file is a sequence of units   *)
(* that only a refused write divides: pages, bytes, frames.                *)
(***************************************************************************)
EXTENDS Integers, SequencesExt, FiniteSetsExt

CONSTANTS
    Setups,      \* what NewAudioWriter and AddTrack are given; .format names the sink
    Samples(_),  \* the samples a setup's sink accepts
    MaxSamples,  \* bound: samples taken
    MaxRefusals  \* bound: refused writes

VARIABLES
    setup,     \* the format, the output and the track
    opened,    \* a.sink # nil
    closed,    \* a.closed
    complete,  \* whether Close returned nil
    file,      \* what the writer holds
    torn,      \* whether part of a unit was left behind it
    failed,    \* a.out.err # nil
    refusals,  \* writes refused
    pc,        \* the step the call in progress is at
    taken      \* history: the samples handed to the sink

medium == <<file, torn, failed, refusals>>

(***************************************************************************)
(* stickyWriter.Write.  The writer itself may go on after it refused once. *)
(* Mutant: every write is tried, and the error is that of the last.        *)
(***************************************************************************)
Written(units) ==
    /\ file' = file \o units
    /\ UNCHANGED <<torn, refusals>>

Refused(units) ==
    /\ refusals < MaxRefusals
    /\ refusals' = refusals + 1
    /\ failed' = TRUE
    /\ torn' \in BOOLEAN
    /\ \E n \in 0..(Len(units) - 1) : file' = file \o SubSeq(units, 1, n)

WriteUnsticky(units) ==
    \/ Written(units) /\ failed' = FALSE
    \/ Refused(units)

Write(units) ==
    \/ failed /\ UNCHANGED medium
    \/ ~failed /\ Written(units) /\ failed' = failed
    \/ ~failed /\ Refused(units)

(***************************************************************************)
(* The calls, as far as they are the same for every sink.  A track the     *)
(* format refuses, a second one, a bad sample and every call after Close   *)
(* return an error and change nothing.                                     *)
(***************************************************************************)
CanAddTrack == pc = "idle" /\ ~closed /\ ~opened

CanWriteSample == pc = "idle" /\ ~closed /\ opened /\ Len(taken) < MaxSamples

(* AddTrack returns: the sink is kept if nothing it wrote was refused.     *)
TrackAdded ==
    /\ pc' = "idle"
    /\ opened' = ~failed'
    /\ UNCHANGED <<setup, closed, complete, taken>>

(* WriteSample and Close return the error there is.                        *)
SampleWritten ==
    /\ pc' = "idle"
    /\ UNCHANGED <<setup, opened, closed, complete, taken>>

Finished ==
    /\ pc' = "idle"
    /\ complete' = ~failed'
    /\ UNCHANGED <<setup, opened, closed, taken>>

(* Close of a writer that has no track: ErrNoTracks, and it is closed.     *)
CloseEmpty ==
    /\ pc = "idle" /\ ~closed /\ ~opened
    /\ closed' = TRUE
    /\ UNCHANGED <<setup, opened, complete, medium, pc, taken>>

WriterInit ==
    /\ setup \in Setups
    /\ opened = FALSE /\ closed = FALSE /\ complete = FALSE
    /\ file = <<>> /\ torn = FALSE /\ failed = FALSE /\ refusals = 0
    /\ pc = "idle"
    /\ taken = <<>>
=============================================================================
