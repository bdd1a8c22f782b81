------------------------------ MODULE TSMuxer ------------------------------
(***************************************************************************)
(* TSMuxer (tsmux.go): samples written one by one as the packetised units  *)
(* of a transport stream, on the clock that is its only timeline.          *)
(*                                                                         *)
(* A track is configured as [kind, form, timescale, delay, params]: form   *)
(* is "annexb", "adts" or "frames" (AC-3 and MPEG audio), params the       *)
(* parameter sets of a video track.  A sample is [data, dur, offset, sync],*)
(* its data a sequence of NAL units [type, id], one frame, or frames       *)
(* [size, dur, continues, id]; of data in no such form the type is "junk". *)
(***************************************************************************)
EXTENDS Integers, SequencesExt, FiniteSetsExt

CONSTANTS
    Setups,         \* the configurations of the tracks, in their order
    Samples(_),     \* the samples a track may be handed
    Second,         \* nanoseconds of a second
    TSTimescale,    \* ticks of the program clock in a second
    MuxDelay,       \* tsMuxDelay
    ClockWrap,      \* the clock counts modulo 2^33
    ADTSPayloadMax, \* the longest frame an ADTS header can state
    MaxUnits,       \* bound: units handed over
    MaxRefusals     \* bound: refused writes

TimestampOffset == 2 * MuxDelay

ASSUME TSMuxerAssumption ==
    /\ \A s \in Setups : \A k \in DOMAIN s : s[k].timescale \in Nat \ {0}
    /\ TSTimescale \in Nat \ {0} /\ MuxDelay \in Nat \ {0}
    /\ ClockWrap > TimestampOffset

VARIABLES
    setup,    \* the tracks that will be added
    tracks,   \* the tracks added, as [next, start, started]
    begun,    \* m.started: tables may be out
    closed,
    stream,   \* the units and tables written
    refusals  \* how many writes were refused

muxVars == <<setup, tracks, begun, closed, stream, refusals>>

MuxInit ==
    /\ setup \in Setups
    /\ tracks = <<>> /\ begun = FALSE /\ closed = FALSE /\ stream = <<>> /\ refusals = 0

(***************************************************************************)
(* Tracks.                                                                 *)
(***************************************************************************)
AddTrack ==
    /\ ~closed /\ ~begun /\ Len(tracks) < Len(setup)
    /\ tracks' = Append(tracks, [next |-> 0, start |-> 0, started |-> FALSE])
    /\ UNCHANGED <<setup, begun, closed, stream, refusals>>

(* The track that carries the clock: the first video, or the first.        *)
PCRTrack ==
    LET videos == {k \in DOMAIN tracks : setup[k].kind = "video"}
    IN  IF videos = {} THEN 1 ELSE Min(videos)

PrimingTicks(cfg) ==
    IF cfg.delay <= 0 THEN 0 ELSE (cfg.delay * cfg.timescale + Second \div 2) \div Second

(***************************************************************************)
(* The clock.  A division of Go truncates towards zero.                    *)
(***************************************************************************)
Truncated(a, b) == IF a >= 0 THEN a \div b ELSE -((-a) \div b)

Clock(k, when) == Truncated(when * TSTimescale, setup[k].timescale) + TimestampOffset

(* Where the presentation of a track begins: at the first sample it takes. *)
StartOf(k, s) ==
    IF tracks[k].started THEN tracks[k].start
    ELSE Max({s.offset, 0}) + PrimingTicks(setup[k])

DTS(k, s) == Clock(k, tracks[k].next - StartOf(k, s))
PTS(k, s) == Clock(k, tracks[k].next + s.offset - StartOf(k, s))

Statable(k, s) ==
    LET earliest == TimestampOffset - MuxDelay
    IN  DTS(k, s) >= earliest /\ PTS(k, s) >= earliest

(* Mutant: a sample that was refused has fixed the start, too.             *)
TrackOnceOffered(k, s, taken) ==
    [next |-> tracks[k].next + (IF taken THEN s.dur ELSE 0),
     start |-> StartOf(k, s), started |-> TRUE]

(* A track after a sample was taken or refused.                            *)
TrackAfter(k, s, taken) ==
    IF taken THEN [next |-> tracks[k].next + s.dur, start |-> StartOf(k, s), started |-> TRUE]
             ELSE tracks[k]

(***************************************************************************)
(* Units.                                                                  *)
(***************************************************************************)
(* The bytes of a frame, which know where in it they are.                  *)
FrameBytes(frame) == [i \in 1..frame.size |-> [of |-> frame, at |-> i]]

(* Mutant: the first unit alone gets the parameter sets.                   *)
ToAnnexBOnce(k, s) == (IF tracks[k].started THEN <<>> ELSE setup[k].params) \o s.data

(* A sync sample is a place to join, for which its parameter sets are      *)
(* needed.                                                                 *)
ToAnnexB(k, s) == (IF s.sync THEN setup[k].params ELSE <<>>) \o s.data

Packetisable(k, s) ==
    /\ s.data # <<>> /\ s.dur > 0
    /\ CASE setup[k].form = "annexb" -> \A i \in DOMAIN s.data : s.data[i].type # "junk"
         [] setup[k].form = "adts" -> s.data[1].size <= ADTSPayloadMax
         [] setup[k].form = "frames" -> s.data[1].size > 0

Packetise(k, s) ==
    CASE setup[k].form = "annexb" -> ToAnnexB(k, s)
      [] setup[k].form = "adts" -> s.data
      [] setup[k].form = "frames" -> FlattenSeq([i \in DOMAIN s.data |-> FrameBytes(s.data[i])])

(* Mutant: the reference is the decode time of the unit that carries it.   *)
ReferenceAtDecode(dts) == dts % ClockWrap

Reference(dts) == (dts - MuxDelay) % ClockWrap

(* A unit as it is on the wire; when, start and sample are what it was     *)
(* made from, and torn that only its first bytes are there.                *)
Unit(k, s) ==
    LET dts == DTS(k, s)
        pts == PTS(k, s)
    IN  [is |-> "unit", track |-> k,
         pts |-> pts % ClockWrap,
         dts |-> IF dts = pts THEN {} ELSE {dts % ClockWrap},
         pcr |-> IF k = PCRTrack THEN {Reference(dts)} ELSE {},
         joins |-> k = PCRTrack /\ s.sync,
         payload |-> Packetise(k, s),
         when |-> tracks[k].next, sample |-> s, torn |-> FALSE]

Tables == [is |-> "tables", tracks |-> DOMAIN tracks]

(* astits puts the tables in front of the first unit and of every one that *)
(* may be joined at, and in front of others as it sees fit.                *)
MayWriteTables(unit) ==
    IF unit.joins \/ stream = <<>> THEN {<<Tables>>} ELSE {<<>>, <<Tables>>}

Torn(unit, n) == [unit EXCEPT !.payload = SubSeq(@, 1, n), !.torn = TRUE]

(***************************************************************************)
(* WriteSample.                                                            *)
(***************************************************************************)
MayWrite == ~closed /\ tracks # <<>> /\ Len(stream) < 2 * MaxUnits
Handed(k, s) == Cardinality({i \in DOMAIN stream : stream[i].is = "unit"}) < MaxUnits

WriteSample(k, s) ==
    /\ MayWrite /\ Handed(k, s)
    /\ Packetisable(k, s) /\ Statable(k, s)
    /\ \E before \in MayWriteTables(Unit(k, s)) : stream' = stream \o before \o <<Unit(k, s)>>
    /\ tracks' = [tracks EXCEPT ![k] = TrackAfter(k, s, TRUE)]
    /\ begun' = TRUE
    /\ UNCHANGED <<setup, closed, refusals>>

RefuseSample(k, s) ==
    /\ MayWrite /\ Handed(k, s)
    /\ ~(Packetisable(k, s) /\ Statable(k, s))
    /\ tracks' = [tracks EXCEPT ![k] = TrackAfter(k, s, FALSE)]
    /\ UNCHANGED <<setup, begun, closed, stream, refusals>>

(* A write refused leaves none of the packets, some, or tables alone; the  *)
(* program is settled all the same.                                        *)
WriteRefused(k, s) ==
    /\ MayWrite /\ Handed(k, s) /\ refusals < MaxRefusals
    /\ Packetisable(k, s) /\ Statable(k, s)
    /\ \E before \in MayWriteTables(Unit(k, s)) :
        \/ stream' = stream \o before
        \/ \E n \in 1..(Len(Unit(k, s).payload) - 1) :
             stream' = stream \o before \o <<Torn(Unit(k, s), n)>>
        \/ stream' = stream
    /\ tracks' = [tracks EXCEPT ![k] = TrackAfter(k, s, FALSE)]
    /\ begun' = TRUE
    /\ refusals' = refusals + 1
    /\ UNCHANGED <<setup, closed>>

(* Close writes the tables of a stream that carries nothing; they may be   *)
(* refused.                                                                *)
CloseMuxer ==
    /\ ~closed /\ closed' = TRUE
    /\ IF begun \/ tracks = <<>> THEN UNCHANGED stream ELSE stream' \in {<<>>, <<Tables>>}
    /\ UNCHANGED <<setup, tracks, begun, refusals>>

MuxNext ==
    \/ AddTrack
    \/ \E k \in DOMAIN tracks : \E s \in Samples(setup[k]) :
         WriteSample(k, s) \/ RefuseSample(k, s) \/ WriteRefused(k, s)
    \/ CloseMuxer
=============================================================================
