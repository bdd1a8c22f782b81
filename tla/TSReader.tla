------------------------------ MODULE TSReader ------------------------------
(***************************************************************************)
(* The reader of transport streams (ts.go, tsaudio.go): the packetised     *)
(* units of each elementary stream put back into samples, whose durations  *)
(* are the distances of their times.                                       *)
(*                                                                         *)
(* A track being read is [form, params, pending, carry, nextAt,            *)
(* unitDuration], a unit kept aside [data, time, offset].                  *)
(***************************************************************************)
EXTENDS Integers, SequencesExt, FiniteSetsExt

CONSTANTS
    ClockWrap,      \* ptsWrap
    MaxInt32,       \* of a composition offset
    FrameHeader,    \* bytes a frame's header takes
    FrameHeaderMax, \* tsFrameHeaderMax, which no header needs
    FrameDuration,  \* what an ADTS frame lasts
    DefaultVideo    \* what a picture lasts when nothing says so

NewTSTrack(form) ==
    [form |-> form, params |-> <<>>, pending |-> <<>>, carry |-> <<>>, nextAt |-> 0, unitDuration |-> 0]

(***************************************************************************)
(* Times of a unit.                                                        *)
(***************************************************************************)
PesTime(pes) == IF pes.dts # {} THEN CHOOSE dts \in pes.dts : TRUE ELSE pes.pts

(* Mutant: the difference is taken of the fields as they are.              *)
OffsetOfFields(pes) ==
    IF pes.dts = {} THEN 0
    ELSE LET d == pes.pts - PesTime(pes)
         IN  IF d > MaxInt32 \/ d < 0 THEN 0 ELSE d

PesCompositionOffset(pes) ==
    IF pes.dts = {} THEN 0
    ELSE LET d == (pes.pts - PesTime(pes)) % ClockWrap
         IN  IF d > MaxInt32 THEN 0 ELSE d

(***************************************************************************)
(* Video: the parameter sets are lifted out, delimiters left out.          *)
(***************************************************************************)
IsParameterSet(nalu) == nalu.type \in {"vps", "sps", "pps"}
Pictures(nalus) == SelectSeq(nalus, LAMBDA n : n.type \notin {"vps", "sps", "pps", "aud", "filler"})

(* The sets of each type that came first.                                  *)
AdoptParameterSets(adopted, sets) ==
    adopted \o SelectSeq(sets, LAMBDA n : \A i \in DOMAIN adopted : adopted[i].type # n.type)

SyncUnit(form, data) == form # "annexb" \/ \E i \in DOMAIN data : data[i].type = "idr"

AppendVideo(t, pes) ==
    LET data == Pictures(pes.payload)
        unit == [data |-> data, time |-> PesTime(pes), offset |-> PesCompositionOffset(pes)]
    IN  [t EXCEPT !.params = AdoptParameterSets(@, SelectSeq(pes.payload, IsParameterSet)),
                  !.pending = IF data = <<>> THEN @ ELSE Append(@, unit)]

(***************************************************************************)
(* Audio.                                                                  *)
(***************************************************************************)
AppendADTS(t, pes) ==
    [t EXCEPT !.pending = @ \o [i \in DOMAIN pes.payload |->
        [data |-> <<pes.payload[i]>>, time |-> PesTime(pes) + (i - 1) * FrameDuration, offset |-> 0]]]

(* Whether a frame's header is read from here on: all of its bytes.        *)
FrameAt(data) ==
    /\ Len(data) >= FrameHeader
    /\ \A i \in 1..FrameHeader : data[i].of = data[1].of /\ data[i].at = i

(* Mutant: a unit's time is given to the frame that goes on in it, too.    *)
TimedAnywhere(s, carried) == s.timed

(* The time of a unit is of the first frame that begins in it, not of one  *)
(* carried over from the unit before.                                      *)
TimedHere(s, carried) == s.timed /\ s.offset >= carried

(* A frame that was carried over ends where its header says: the bytes of  *)
(* another, when its own were lost.                                        *)
FrameOf(data) ==
    LET frame == data[1].of
    IN  IF \A i \in 1..frame.size : data[i] = [of |-> frame, at |-> i] THEN frame
        ELSE [frame EXCEPT !.id = 0]

Took(t, data, at) ==
    LET frame == FrameOf(data)
    IN  IF frame.continues /\ t.pending # <<>>
          THEN [t EXCEPT !.pending[Len(t.pending)].data = Append(@, frame), !.nextAt = at]
          ELSE [t EXCEPT !.pending = Append(@, [data |-> <<frame>>, time |-> at, offset |-> 0]),
                         !.nextAt = at + frame.dur, !.unitDuration = frame.dur]

(* One turn of the loop: a frame taken, a byte skipped, or the rest kept   *)
(* for the unit that follows.                                              *)
FrameStep(s, data, carried, time) ==
    LET rest == SubSeq(data, s.offset + 1, Len(data))
        here == TimedHere(s, carried)
        at == IF here THEN time ELSE s.t.nextAt
        short == IF FrameAt(rest) THEN rest[1].of.size > Len(rest) ELSE Len(rest) < FrameHeaderMax
        timed == s.timed /\ ~here
    IN  IF s.offset >= Len(data) THEN s
        ELSE IF short
          THEN [s EXCEPT !.offset = Len(data), !.t.carry = rest, !.t.nextAt = at]
        ELSE IF FrameAt(rest)
          THEN [offset |-> s.offset + rest[1].of.size, timed |-> timed, t |-> Took(s.t, rest, at)]
        ELSE [offset |-> s.offset + 1, timed |-> timed, t |-> [s.t EXCEPT !.nextAt = at]]

AppendFrames(t, pes, timed) ==
    LET data == t.carry \o pes.payload
        first == [offset |-> 0, timed |-> timed, t |-> [t EXCEPT !.carry = <<>>]]
    IN  FoldLeft(LAMBDA s, i : FrameStep(s, data, Len(t.carry), PesTime(pes)),
                 first, [i \in DOMAIN data |-> i]).t

AppendUnit(t, pes) ==
    CASE t.form = "annexb" -> AppendVideo(t, pes)
      [] t.form = "adts" -> AppendADTS(t, pes)
      [] t.form = "frames" -> AppendFrames(t, pes, TRUE)

(***************************************************************************)
(* The samples of a track.                                                 *)
(***************************************************************************)
DefaultUnitDuration(t) == IF t.form = "annexb" THEN DefaultVideo ELSE FrameDuration

(* The distance to the unit that follows, or of the last to the one before;*)
(* where that is none, what the frames or the codec say.                   *)
DurationOf(t, i) ==
    LET n == Len(t.pending)
        distance == IF i < n THEN t.pending[i + 1].time - t.pending[i].time
                    ELSE IF n > 1 THEN t.pending[i].time - t.pending[i - 1].time
                    ELSE 0
    IN  IF distance > 0 THEN distance
        ELSE IF t.unitDuration > 0 THEN t.unitDuration
        ELSE DefaultUnitDuration(t)

Finish(t) ==
    [i \in DOMAIN t.pending |->
       [data |-> t.pending[i].data, dur |-> DurationOf(t, i), offset |-> t.pending[i].offset,
        sync |-> SyncUnit(t.form, t.pending[i].data)]]

(***************************************************************************)
(* The stream: units of a stream the tables have not named are passed      *)
(* over.                                                                   *)
(***************************************************************************)
TrackRead(stream, k, form) ==
    LET tables == {i \in DOMAIN stream : stream[i].is = "tables" /\ k \in stream[i].tracks}
        named(i) == \E table \in tables : table < i
        units == SelectSeq([i \in DOMAIN stream |-> i],
                           LAMBDA i : stream[i].is = "unit" /\ stream[i].track = k /\ named(i))
    IN  FoldLeft(LAMBDA t, i : AppendUnit(t, stream[i]), NewTSTrack(form), units)
=============================================================================
