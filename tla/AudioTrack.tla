----------------------------- MODULE AudioTrack -----------------------------
(***************************************************************************)
(* One audio track written at its sample rate (audioclock.go): the samples *)
(* a muxer is handed in one timescale, and what they last in the other.    *)
(*                                                                         *)
(* A muxer converts a sample first and may refuse it afterwards: there is  *)
(* no room for it, or the chunk or fragment it was to follow could not be  *)
(* written (ProgressiveMuxer.WriteSample and Muxer.WriteSample).  The      *)
(* clock has then moved on all the same.                                   *)
(***************************************************************************)
EXTENDS AudioClock

CONSTANTS
    Configs,   \* the configurations a track may be added with
    Durations, \* how long samples may last, in the timescale they come in
    MaxGiven,  \* bound: how long a track gets
    MayRefuse  \* whether a muxer may refuse a sample once it is converted

ASSUME AudioTrackAssumption ==
    /\ Configs \subseteq [timescale : Nat \ {0}, rate : Nat, delay : Nat]
    /\ \A cfg \in Configs : Converts(WithAudioClock(cfg))
    /\ Durations \subseteq Nat \ {0}
    /\ MaxGiven \in Nat
    /\ MayRefuse \in BOOLEAN

VARIABLES
    clock,   \* t.clock
    given,   \* how long the samples taken last, as they came
    written, \* how long they last in the file
    last,    \* how long the last one taken lasts there
    refused  \* how many samples were refused after conversion

vars == <<clock, given, written, last, refused>>

Sample(dur) == [len |-> 1, dur |-> dur, offset |-> 0, sync |-> TRUE]

Init ==
    /\ \E cfg \in Configs : clock = WithAudioClock(cfg)
    /\ given = 0 /\ written = 0 /\ last = 1 /\ refused = 0

WriteSample(dur) ==
    /\ given < MaxGiven
    /\ ClockAccepts(clock, Sample(dur))
    /\ LET c == ClockSample(clock, Sample(dur))
       IN  /\ clock' = c.clock
           /\ written' = written + c.sample.dur
           /\ last' = c.sample.dur
    /\ given' = given + dur
    /\ UNCHANGED refused

RefuseSample(dur) ==
    /\ MayRefuse
    /\ clock.in < MaxGiven
    /\ ClockAccepts(clock, Sample(dur))
    /\ clock' = ClockSample(clock, Sample(dur)).clock
    /\ refused' = refused + 1
    /\ UNCHANGED <<given, written, last>>

Next == \E dur \in Durations : WriteSample(dur) \/ RefuseSample(dur)

Spec == Init /\ [][Next]_vars

(***************************************************************************)
(* Properties.                                                             *)
(***************************************************************************)

(* Twice how far what is written is from what was given, both counted in   *)
(* units of 1/(from*to) of a second.                                       *)
Drift == 2 * Abs(written * clock.from - given * clock.to)

(* "the rounding of one sample is made up by the next and the track keeps  *)
(* its length" (audioclock.go:58): to half a tick of the file, however     *)
(* many samples there are, and a tick for each sample the muxer refused    *)
(* after its clock had moved on.                                           *)
DriftBounded == Drift <= clock.from * (1 + 2 * refused)

(* No sample is rounded to nothing, which WriteSample would have refused   *)
(* had it been handed over so.                                             *)
NoSampleVanishes == last > 0
=============================================================================
