----------------------------- MODULE Transport -----------------------------
(***************************************************************************)
(* A transport stream as TSMuxer writes it, read by the reader of the      *)
(* package or received by a player that joins it anywhere or loses a part  *)
(* of it; and the frames of an audio stream that another program has cut   *)
(* into units wherever it liked.                                           *)
(***************************************************************************)
EXTENDS TSMuxer

CONSTANTS
    MaxInt32, FrameHeader, FrameHeaderMax, FrameDuration, DefaultVideo,
    Foreign  \* audio streams of others, sequences of frames

R == INSTANCE TSReader

VARIABLES
    frames,  \* the frames of the stream received
    from,    \* the byte of it the receiver joined at
    upto,    \* how many bytes it has received
    timed,   \* the first frame of which a unit has stated the time
    heard    \* the track as read so far

cutVars == <<frames, from, upto, timed, heard>>
vars == <<muxVars, cutVars>>

(***************************************************************************)
(* Units of another program: appendFrames is handed them one by one.       *)
(***************************************************************************)
Bytes == FlattenSeq([i \in DOMAIN frames |-> FrameBytes(frames[i])])

TimeOf(n) ==
    MapThenSumSet(LAMBDA i : IF frames[i].continues THEN 0 ELSE frames[i].dur, 1..(n - 1))

CutInit ==
    /\ \E f \in Foreign :
        /\ frames = [i \in DOMAIN f |-> [f[i] EXCEPT !.id = i]]
        /\ from \in 0..(IF f = <<>> THEN 0 ELSE f[1].size - 1)
    /\ upto = from /\ timed = {} /\ heard = R!NewTSTrack("frames")

(* The first frame whose head arrives.                                    *)
FirstWhole == IF from = 0 THEN 1 ELSE 2

(* The frames that begin in the next bytes, and of them those that begin   *)
(* an access unit: where there is one, the unit may state when the first   *)
(* of them is presented.  Joined inside a frame, the reader takes a frame  *)
(* that continues an access unit it has not received for the one that time *)
(* is of, and passes over the time of a unit shorter than it carries over. *)
FramesIn(bytes) == {bytes[i].of.id : i \in {i \in DOMAIN bytes : bytes[i].at = 1}}
BeginIn(bytes) == {n \in FramesIn(bytes) : ~frames[n].continues}
Placed(bytes) ==
    /\ FirstWhole \in FramesIn(bytes) => ~frames[FirstWhole].continues
    /\ heard.pending = <<>> => from = 0 \/ Len(bytes) >= FrameHeaderMax

ReceiveUnit(n, states) ==
    LET bytes == SubSeq(Bytes, upto + 1, upto + n)
        begin == BeginIn(bytes)
        pes == [payload |-> bytes, pts |-> IF begin = {} THEN 0 ELSE TimeOf(Min(begin)), dts |-> {}]
    IN  /\ upto + n <= Len(Bytes)
        /\ begin = {} => ~states
        /\ \E t \in {R!AppendFrames(heard, pes, states)} : heard' = t
        /\ upto' = upto + n
        /\ timed' = IF timed = {} /\ states /\ Placed(bytes) THEN {Min(begin)} ELSE timed
        /\ UNCHANGED <<muxVars, frames, from>>

(***************************************************************************)
(* Every call after Close returns ErrClosed.                               *)
(***************************************************************************)
RefuseClosed == closed /\ UNCHANGED vars

Init == MuxInit /\ CutInit /\ (setup # <<>> => frames = <<>>)

Next ==
    \/ MuxNext /\ UNCHANGED cutVars
    \/ \E n \in 1..Len(Bytes) : \E states \in BOOLEAN : setup = <<>> /\ ReceiveUnit(n, states)
    \/ RefuseClosed

Spec == Init /\ [][Next]_vars

(***************************************************************************)
(* What is left of the stream when a stretch of it is lost, or a player    *)
(* joins it behind that.                                                   *)
(***************************************************************************)
Received ==
    UNION {{SubSeq(stream, 1, i) \o SubSeq(stream, j, Len(stream)) : j \in (i + 1)..(Len(stream) + 1)} :
             i \in DOMAIN stream \union {0}}

(* The units of a track a reader of what is left can place.                *)
UnitsOf(k, received) ==
    LET named(i) == \E j \in 1..(i - 1) : received[j].is = "tables" /\ k \in received[j].tracks
        kept == SelectSeq([i \in DOMAIN received |-> i],
                          LAMBDA i : received[i].is = "unit" /\ received[i].track = k /\ named(i))
    IN  [i \in DOMAIN kept |-> received[kept[i]]]

DataOf(unit) == IF setup[unit.track].form = "annexb" THEN R!Pictures(unit.sample.data) ELSE unit.sample.data

HoldsMedia(unit) ==
    IF setup[unit.track].form = "annexb" THEN R!Pictures(unit.payload) # <<>> ELSE ~unit.torn

(* The start of a track's presentation: the first composition time of the  *)
(* first sample it took, and the priming behind it.                        *)
StartStated(k) ==
    LET first == CHOOSE i \in DOMAIN stream :
                   /\ stream[i].is = "unit" /\ stream[i].track = k /\ ~stream[i].torn
                   /\ \A j \in 1..(i - 1) : stream[j].is = "unit" /\ stream[j].track = k => stream[j].torn
    IN  Max({stream[first].sample.offset, 0}) + PrimingTicks(setup[k])

(***************************************************************************)
(* The reader of the stream recovers the samples that were written, of     *)
(* every track and in their order, whichever stretch of it is lost: their  *)
(* pictures or frames, whether a picture may be started at, and how long   *)
(* after decoding it is shown; every sample lasts until the next one read, *)
(* so that what is lost makes nothing that follows early.  Two cases are   *)
(* not placed: a sample behind which the clock wraps, and one as short as  *)
(* a tick of the clock.                                                    *)
(***************************************************************************)
TimeStated(unit) == R!PesTime(unit)

ReadsBack(k, received) ==
    LET units == SelectSeq(UnitsOf(k, received), HoldsMedia)
        samples == R!Finish(R!TrackRead(received, k, setup[k].form))
        moves(i) == TimeStated(units[i + 1]) - TimeStated(units[i])
    IN  /\ Len(samples) = Len(units)
        /\ \A i \in DOMAIN units :
            /\ units[i].torn => IsPrefix(samples[i].data, DataOf(units[i]))
            /\ ~units[i].torn => samples[i].data = DataOf(units[i])
            /\ setup[k].form = "annexb" /\ ~units[i].torn =>
                 /\ samples[i].sync <=> \E n \in DOMAIN DataOf(units[i]) : DataOf(units[i])[n].type = "idr"
                 /\ LET shift == samples[i].offset * setup[k].timescale - units[i].sample.offset * TSTimescale
                    IN  units[i].sample.offset >= 0 =>
                          shift \in (1 - 2 * setup[k].timescale)..(2 * setup[k].timescale - 1)
            /\ i < Len(units) /\ moves(i) > 0 => samples[i].dur = moves(i)

StreamReadsBack ==
    \A received \in Received : \A k \in DOMAIN tracks :
        ~(setup[k].form = "frames" /\ \E i \in DOMAIN stream : stream[i].is = "unit" /\ stream[i].torn)
          => ReadsBack(k, received)

(* The times stated are those of the samples: what every track presents    *)
(* first, its priming aside, is presented at the same instant, and the     *)
(* rest as far from it as the samples last, to a tick of the clock, which  *)
(* wraps.  A sample that was refused, first or later, has moved nothing.   *)
PlacesOf(ticks, timescale) ==
    {(TimestampOffset + (ticks * TSTimescale) \div timescale + n) % ClockWrap : n \in {0, 1}}

PresentedTogether ==
    \A i \in DOMAIN stream :
        stream[i].is = "unit" /\ ~stream[i].torn =>
          LET unit == stream[i]
              earlier == {j \in 1..(i - 1) : stream[j].is = "unit" /\ stream[j].track = unit.track /\ ~stream[j].torn}
              decodes == MapThenSumSet(LAMBDA j : stream[j].sample.dur, earlier)
              ticks == decodes - StartStated(unit.track)
              scale == setup[unit.track].timescale
          IN  /\ TimeStated(unit) \in PlacesOf(ticks, scale)
              /\ unit.pts \in PlacesOf(ticks + unit.sample.offset, scale)

(* No unit arrives after it is to be decoded: while the caller writes in   *)
(* decoding order, its time is not before the reference a player's clock   *)
(* was last set by, to a tick.  (Both wrap: the later of two times is the  *)
(* one less than half a turn ahead, and of a unit written further ahead of *)
(* the last reference than that a player cannot tell.)                     *)
TicksAhead(i, j) ==
    LET scale(n) == setup[stream[n].track].timescale
    IN  [by |-> (stream[i].when * scale(j) - stream[j].when * scale(i)) * TSTimescale,
         per |-> scale(i) * scale(j)]

CanBeTold(ahead) ==
    ahead.by \in 0..((ClockWrap \div 2 - TimestampOffset - 1) * ahead.per)

ArrivesInTime ==
    \A i \in DOMAIN stream : stream[i].is = "unit" =>
        LET before == {j \in 1..i : stream[j].is = "unit" /\ stream[j].pcr # {}}
        IN  before # {} /\ CanBeTold(TicksAhead(i, Max(before))) =>
              \A pcr \in stream[Max(before)].pcr :
                  /\ pcr \in 0..(ClockWrap - 1)
                  /\ (TimeStated(stream[i]) - pcr + 1) % ClockWrap < ClockWrap \div 2

(* A unit a player may join at is one it can start from: the tables are in *)
(* front of it, the parameter sets in it, and the clock.                   *)
JoinDescribesItself ==
    \A i \in DOMAIN stream :
        stream[i].is = "unit" /\ stream[i].joins /\ ~stream[i].torn =>
            LET received == SubSeq(stream, i - 1, Len(stream))
                k == stream[i].track
                read == R!TrackRead(received, k, setup[k].form)
            IN  /\ i > 1 /\ stream[i - 1].is = "tables"
                /\ stream[i - 1].tracks = DOMAIN tracks
                /\ stream[i].pcr # {}
                /\ setup[k].kind = "video" =>
                     /\ read.params = setup[k].params
                     /\ HoldsMedia(stream[i]) => read.pending[1].data = DataOf(stream[i])

(***************************************************************************)
(* However the frames of a stream are cut into units, and wherever it is   *)
(* joined, every frame whose last byte has arrived is found, whole and     *)
(* once; frames that continue one access unit are one sample; and from the *)
(* first time that was stated on, each is presented when it should be.     *)
(***************************************************************************)
BytesUpTo(n) == MapThenSumSet(LAMBDA i : frames[i].size, 1..n)

FramesSurviveCutting ==
    LET arrived == {n \in DOMAIN frames : n >= FirstWhole /\ BytesUpTo(n) <= upto}
        found == FlattenSeq([i \in DOMAIN heard.pending |-> heard.pending[i].data])
        leads(i) == Head(heard.pending[i].data)
    IN  /\ [i \in DOMAIN found |-> found[i].id] = [i \in DOMAIN found |-> FirstWhole + i - 1]
        /\ Len(found) = Cardinality(arrived)
        /\ \A i \in DOMAIN heard.pending :
            /\ \A n \in DOMAIN heard.pending[i].data : n > 1 => heard.pending[i].data[n].continues
            /\ i > 1 => ~leads(i).continues
            /\ ~leads(i).continues /\ (\E n \in timed : n <= leads(i).id) =>
                 heard.pending[i].time = TimeOf(leads(i).id)
=============================================================================
