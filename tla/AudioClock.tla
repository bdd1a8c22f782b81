----------------------------- MODULE AudioClock -----------------------------
(***************************************************************************)
(* The clock of an audio track written to an MP4 (audioclock.go).  A track *)
(* whose timescale is coarser than its sample rate is written at the       *)
(* sample rate: each duration is the difference of two converted totals,   *)
(* so that rounding never accumulates.                                     *)
(*                                                                         *)
(* A configuration is abstracted to a record                               *)
(*   [timescale : Nat \ {0}, rate : Nat, delay : Nat]                      *)
(* where rate is the sample rate of an audio track (48 kHz for Opus,       *)
(* whatever it states) and 0 for anything else, and delay is StartDelay.   *)
(***************************************************************************)
EXTENDS Integers

CONSTANTS
    MaxUint32,  \* the largest value of a uint32
    MaxInt32,   \* the largest value of an int32
    MaxUint64,  \* the largest value of a uint64
    Second      \* how many of its units a time.Duration counts per second

ASSUME ClockAssumption ==
    /\ MaxInt32 \in Nat /\ MaxUint32 \in Nat /\ MaxUint64 \in Nat
    /\ Second \in Nat \ {0}

Greater(a, b) == IF a > b THEN a ELSE b
Abs(i) == IF i < 0 THEN -i ELSE i

(* The timescale a track is written with: its sample rate, when the one it *)
(* came in is too coarse to count samples in.                              *)
AudioTimescale(cfg) ==
    IF cfg.rate = 0 \/ cfg.rate > MaxUint32 \/ cfg.rate <= cfg.timescale
    THEN cfg.timescale
    ELSE cfg.rate

(* Mutant: ticks rounded down.                                             *)
ScaleTruncated(d, from, to) == (d * to) \div from

ScaleNearest(d, from, to) == (d * to + from \div 2) \div from

ScaleFits(d, from, to) == ScaleNearest(d, from, to) <= MaxUint64

(* A delay in a track's timescale, rounded to the nearest tick.            *)
PrimingTicks(delay, timescale) ==
    (delay * timescale + Second \div 2) \div Second

NoClock == [from |-> 1, to |-> 1, in |-> 0, out |-> 0]
Converts(c) == c.from # c.to

(* Mutant: the two timescales exchanged.                                   *)
WithClockBackwards(cfg) ==
    LET to == AudioTimescale(cfg)
    IN  IF to = cfg.timescale
        THEN NoClock
        ELSE [from |-> to, to |-> cfg.timescale, in |-> 0, out |-> 0]

(* The clock of a track described by cfg; a clock from a timescale to      *)
(* itself stands for the nil clock, which leaves every sample alone.       *)
WithAudioClock(cfg) ==
    LET to == AudioTimescale(cfg)
    IN  IF to = cfg.timescale
        THEN NoClock
        ELSE [from |-> cfg.timescale, to |-> to, in |-> 0, out |-> 0]

(* Whether the clock c converts a sample of this duration and composition  *)
(* offset, or refuses it because a time does not fit its field.            *)
ClockAccepts(c, s) ==
    \/ ~Converts(c)
    \/ LET in == c.in + s.dur
           out == ScaleNearest(in, c.from, c.to)
       IN  /\ ScaleFits(in, c.from, c.to)
           /\ ScaleFits(Abs(s.offset), c.from, c.to)
           /\ out - c.out <= MaxUint32
           /\ ScaleNearest(Abs(s.offset), c.from, c.to) <= MaxInt32

(* The sample the clock makes of s, and the clock after it.                *)
ClockSample(c, s) ==
    IF ~Converts(c)
    THEN [sample |-> s, clock |-> c]
    ELSE LET in == c.in + s.dur
             out == ScaleNearest(in, c.from, c.to)
             offset == ScaleNearest(Abs(s.offset), c.from, c.to)
         IN  [sample |-> [len |-> s.len, dur |-> out - c.out,
                          offset |-> IF s.offset < 0 THEN -offset ELSE offset,
                          sync |-> s.sync],
              clock  |-> [from |-> c.from, to |-> c.to, in |-> in, out |-> out]]
=============================================================================
