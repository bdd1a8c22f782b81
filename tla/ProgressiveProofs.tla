-------------------------- MODULE ProgressiveProofs --------------------------
(***************************************************************************)
(* What holds of ProgressiveMuxer for every configuration, set of samples, *)
(* limit and number of refused writes: the types of its state, that no     *)
(* chunk offset it states ever wraps, that an edit reaches the last frame, *)
(* that the media in memory stays within its limit, that the media of a    *)
(* caller in decode order is in decode order in the file, and, to a writer *)
(* that takes the media, that the tables of the file lead to the bytes of  *)
(* its samples and that the muxer implements MovieFile.                    *)
(***************************************************************************)
EXTENDS ProgressiveFile, SumLemmas, TLAPS

(***************************************************************************)
(* Arithmetic and the helpers of AudioClock.                               *)
(***************************************************************************)

(* A quotient of naturals is a natural.                                    *)
LEMMA QuotientType == \A a \in Nat, b \in Nat \ {0} : a \div b \in Nat
BY SMT

(* A quotient of an integer by a positive one is an integer.               *)
LEMMA QuotientInt == \A a \in Int, b \in Nat \ {0} : a \div b \in Int
BY SMT

(* A duration rescaled is an integer, whatever the timescales.             *)
LEMMA ScaleNearestType ==
    ASSUME NEW d \in Int, NEW from \in Nat \ {0}, NEW to \in Nat \ {0}
    PROVE  ScaleNearest(d, from, to) \in Int
<1>1. d * to + from \div 2 \in Int
  BY QuotientInt
<1> QED BY <1>1, QuotientInt DEF ScaleNearest

ConfigType == [timescale : Nat \ {0}, rate : Nat, delay : Nat]

(* A track is always written in a positive timescale, with its clock.      *)
LEMMA AudioTimescaleType ==
    ASSUME NEW cfg \in ConfigType
    PROVE  /\ AudioTimescale(cfg) \in Nat \ {0}
           /\ WithAudioClock(cfg) \in ClockType
<1>1. AudioTimescale(cfg) \in Nat \ {0}
  BY ClockAssumption DEF AudioTimescale, ConfigType
<1> QED BY <1>1 DEF WithAudioClock, NoClock, ClockType, ConfigType

(* A track begins with empty tables.                                       *)
LEMMA NewTrackType ==
    ASSUME NEW cfg \in ConfigType
    PROVE  /\ NewTrack(cfg) \in TrackType
           /\ NewTrack(cfg).count = 0 /\ NewTrack(cfg).pending = <<>>
           /\ NewTrack(cfg).sizes = <<>>
           /\ NewTrack(cfg).durCounts = <<>> /\ NewTrack(cfg).durDeltas = <<>>
           /\ NewTrack(cfg).cttsCounts = <<>> /\ NewTrack(cfg).cttsOffsets = <<>>
           /\ NewTrack(cfg).chunkOffsets = <<>> /\ NewTrack(cfg).chunkSamples = <<>>
<1> DEFINE to == AudioTimescale(cfg)
<1>1. to \in Nat \ {0} /\ WithAudioClock(cfg) \in ClockType
  BY AudioTimescaleType
<1>2. PrimingTicks(cfg.delay, to) \in Nat
  <2>1. cfg.delay \in Nat
    BY DEF ConfigType
  <2>2. Second \in Nat \ {0} /\ Second \div 2 \in Nat
    BY ClockAssumption, QuotientType
  <2>3. cfg.delay * to + Second \div 2 \in Nat
    BY <1>1, <2>1, <2>2
  <2> QED BY <2>2, <2>3, QuotientType DEF PrimingTicks
<1> HIDE DEF to
<1> QED BY <1>1, <1>2 DEF NewTrack, TrackType, to

(* The sample a clock makes of one has the type of a sample.               *)
LEMMA ClockSampleType ==
    ASSUME NEW c \in ClockType, NEW s \in SampleType
    PROVE  /\ ClockSample(c, s).sample \in SampleType
           /\ ClockSample(c, s).clock \in ClockType
<1>1. CASE ~Converts(c)
  BY <1>1 DEF ClockSample
<1>2. CASE Converts(c)
  <2> DEFINE in == c.in + s.dur
             out == ScaleNearest(in, c.from, c.to)
             offset == ScaleNearest(Abs(s.offset), c.from, c.to)
  <2>1. in \in Int /\ Abs(s.offset) \in Int
    BY DEF ClockType, SampleType, Abs
  <2>2. out \in Int /\ offset \in Int
    BY <2>1, ScaleNearestType DEF ClockType
  <2>3. ClockSample(c, s) =
          [sample |-> [len |-> s.len, dur |-> out - c.out,
                       offset |-> IF s.offset < 0 THEN -offset ELSE offset,
                       sync |-> s.sync],
           clock  |-> [from |-> c.from, to |-> c.to, in |-> in, out |-> out]]
    BY <1>2 DEF ClockSample
  <2> HIDE DEF in, out, offset
  <2> QED BY <2>1, <2>2, <2>3 DEF ClockType, SampleType
<1> QED BY <1>1, <1>2

(* A run-length table stays one: as many counts as values.                 *)
LEMMA RunType ==
    ASSUME NEW counts \in Seq(Nat), NEW values \in Seq(Int), NEW v \in Int,
           Len(counts) = Len(values)
    PROVE  /\ RunCounts(counts, values, v) \in Seq(Nat)
           /\ RunValues(values, v) \in Seq(Int)
           /\ Len(RunCounts(counts, values, v)) = Len(RunValues(values, v))
BY DEF RunCounts, RunValues, Extends

(* A sample's bytes are media bytes, as many as it is long.                *)
LEMMA DataType ==
    ASSUME NEW t \in Nat, NEW n \in Nat, NEW len \in Nat
    PROVE  Data(t, n, len) \in Seq(MediaByte) /\ Len(Data(t, n, len)) = len
<1>1. \A i \in 1..len : <<t, n, i>> \in MediaByte
  BY DEF MediaByte
<1>2. Data(t, n, len) \in [1..len -> MediaByte]
  BY <1>1 DEF Data
<1> QED BY <1>2, FunctionIsSeq

(* Taking a sample keeps a track's type, ties its lists together and moves *)
(* no chunk.                                                               *)
LEMMA TakenType ==
    ASSUME NEW k \in TrackType, TablesAgree(k), NEW t \in Nat, NEW s \in SampleType
    PROVE  /\ Taken(t, k, s) \in TrackType
           /\ TablesAgree(Taken(t, k, s))
           /\ Taken(t, k, s).chunkOffsets = k.chunkOffsets
           /\ Taken(t, k, s).chunkSamples = k.chunkSamples
<1> DEFINE p == Append(k.pending, Data(t, k.count + 1, s.len))
           dc == RunCounts(k.durCounts, k.durDeltas, s.dur)
           dv == RunValues(k.durDeltas, s.dur)
           cc == RunCounts(k.cttsCounts, k.cttsOffsets, s.offset)
           cv == RunValues(k.cttsOffsets, s.offset)
           y == IF s.sync THEN Append(k.syncs, k.count + 1) ELSE k.syncs
           u == Greater(k.presentedUntil, k.total + s.offset + s.dur)
           b == IF k.pending = <<>> THEN k.total ELSE k.pendingStart
           h == k.shifted \/ s.offset # 0
           n == k.count + 1
           d == k.total + s.dur
           q == k.pendingDur + s.dur
           z == Append(k.sizes, s.len)
<1>1. /\ k.count \in Nat /\ k.total \in Int /\ k.presentedUntil \in Int
      /\ k.pendingDur \in Int /\ k.pendingStart \in Int
      /\ k.pending \in Seq(Seq(MediaByte)) /\ k.sizes \in Seq(Nat) /\ k.syncs \in Seq(Nat)
      /\ k.durCounts \in Seq(Nat) /\ k.durDeltas \in Seq(Int)
      /\ k.cttsCounts \in Seq(Nat) /\ k.cttsOffsets \in Seq(Int)
  BY DEF TrackType
<1>2. s.len \in Nat /\ s.dur \in Int /\ s.offset \in Int /\ s.sync \in BOOLEAN
  BY DEF SampleType
<1>3. p \in Seq(Seq(MediaByte)) /\ Len(p) = Len(k.pending) + 1
  <2>0. n \in Nat
    BY <1>1
  <2> HIDE DEF n
  <2>1. Data(t, n, s.len) \in Seq(MediaByte)
    BY <2>0, <1>2, DataType
  <2> USE DEF n
  <2> QED BY <1>1, <2>1
<1>4. dc \in Seq(Nat) /\ dv \in Seq(Int) /\ Len(dc) = Len(dv)
  BY <1>1, <1>2, RunType DEF TablesAgree
<1>5. cc \in Seq(Nat) /\ cv \in Seq(Int) /\ Len(cc) = Len(cv)
  BY <1>1, <1>2, RunType DEF TablesAgree
<1>6. u \in Int /\ b \in Int
  BY <1>1, <1>2, SMTT(30) DEF Greater
<1>7. y \in Seq(Nat)
  BY <1>1, <1>2, SMTT(30)
<1>8. Taken(t, k, s) =
        [timescale |-> k.timescale, clock |-> k.clock, priming |-> k.priming,
         count |-> n, total |-> d,
         sizes |-> z,
         durCounts |-> dc, durDeltas |-> dv, cttsCounts |-> cc, cttsOffsets |-> cv,
         shifted |-> h, presentedUntil |-> u, syncs |-> y,
         chunkOffsets |-> k.chunkOffsets, chunkSamples |-> k.chunkSamples,
         pending |-> p, pendingDur |-> q, pendingStart |-> b]
  BY DEF Taken
<1>a. h \in BOOLEAN
  OBVIOUS
<1>b. /\ k.timescale \in Nat \ {0} /\ k.clock \in ClockType /\ k.priming \in Nat
      /\ k.chunkOffsets \in Seq(Nat) /\ k.chunkSamples \in Seq(Nat)
  BY DEF TrackType
<1>c. n \in Nat /\ d \in Int /\ q \in Int /\ z \in Seq(Nat) /\ Len(z) = n
  <2>1. Len(k.sizes) = k.count
    BY DEF TablesAgree
  <2>2. z \in Seq(Nat) /\ Len(z) = Len(k.sizes) + 1
    BY <1>1, <1>2
  <2>3. n \in Nat /\ d \in Int /\ q \in Int
    <3>1. k.count \in Nat /\ k.total \in Int /\ k.pendingDur \in Int /\ s.dur \in Int
      BY <1>1, <1>2
    <3> QED BY <3>1
  <2>4. Len(z) = n
    BY <2>1, <2>2
  <2> HIDE DEF n, d, q, z
  <2> QED BY <2>2, <2>3, <2>4
<1>d. Len(p) <= n
  BY <1>1, <1>3, SMTT(30) DEF TablesAgree
<1> HIDE DEF p, dc, dv, cc, cv, y, u, b, h, n, d, q, z
<1>9. Taken(t, k, s) \in TrackType
  BY <1>3, <1>4, <1>5, <1>6, <1>7, <1>8, <1>a, <1>b, <1>c DEF TrackType
<1>10. TablesAgree(Taken(t, k, s))
  BY <1>4, <1>5, <1>8, <1>c, <1>d DEF TablesAgree
<1>11. /\ Taken(t, k, s).chunkOffsets = k.chunkOffsets
       /\ Taken(t, k, s).chunkSamples = k.chunkSamples
  BY <1>8
<1> QED BY <1>9, <1>10, <1>11

(***************************************************************************)
(* The invariant.  The chunk offsets of a track grow with their number and *)
(* never pass what has been written, so that the last of them stands for   *)
(* all; and once there is a moov nothing it was built from changes.        *)
(***************************************************************************)
Byte == {"other", "ftyp", "mdat", "moov"} \cup MediaByte

Control ==
    /\ pc \in {"begin", "reserve"} => call.track \in DOMAIN tracks /\ ~closed
    /\ call = NoCall \/ call.track \in DOMAIN tracks
    /\ open = NoChunk \/ /\ pc = "flush"
                         /\ open.track \in DOMAIN tracks
                         /\ open.sent < Len(tracks[open.track].pending)
    /\ moov # {} => pc = "idle" /\ closed

Ascending(within, end) ==
    /\ \A c \in DOMAIN within : within[c] <= end
    /\ \A c, d \in DOMAIN within : c <= d => within[c] <= within[d]

OffsetsAscend == \A t \in DOMAIN tracks : Ascending(tracks[t].chunkOffsets, written)

IInv ==
    /\ TypeOK
    /\ closed \/ file \in Seq(Byte)
    /\ Control
    /\ OffsetsAscend
    /\ OffsetsNeverWrap

(* The muxer starts in the invariant.                                      *)
LEMMA InitInv == Init => IInv
<1> SUFFICES ASSUME Init PROVE IInv
  OBVIOUS
<1> USE DEF Init
<1>1. TypeOK
  <2>1. tracks \in Seq(TrackType) /\ Len(tracks) = 0 /\ DOMAIN tracks = {}
    OBVIOUS
  <2>2. /\ call \in [track : 0..Len(tracks), sample : SampleType]
        /\ open \in [track : 0..Len(tracks), sent : Nat]
    <3>1. NoCall.sample \in SampleType /\ 0 \in 0..Len(tracks)
      BY <2>1 DEF NoCall, SampleType
    <3> QED BY <3>1 DEF NoCall, NoChunk
  <2>3. faults \in [begin : Nat, media : Nat, refused : Nat] /\ buffered \in Seq(MediaByte)
    OBVIOUS
  <2>4. started \in BOOLEAN /\ closed \in BOOLEAN
    OBVIOUS
  <2>5. pendingBytes \in Int /\ written \in Nat /\ payloadBase \in Nat /\ pc \in {"idle"}
    OBVIOUS
  <2> QED BY <2>1, <2>2, <2>3, <2>4, <2>5 DEF TypeOK
<1>2. file \in Seq(Byte)
  <2>1. file \in [1..setup.start -> Byte]
    BY DEF Header, Byte
  <2>2. setup.start \in Nat
    BY ProgressiveAssumption
  <2> QED BY <2>1, <2>2, FunctionIsSeq
<1>3. Control /\ OffsetsAscend /\ OffsetsNeverWrap
  BY DEF Control, OffsetsAscend, OffsetsNeverWrap
<1> QED BY <1>1, <1>2, <1>3 DEF IInv

(* A step that touches neither the tracks nor what has been written keeps  *)
(* the order of the chunks, and one that touches no movie keeps its tables.*)
LEMMA FrameInv ==
    ASSUME OffsetsAscend, OffsetsNeverWrap, UNCHANGED <<tracks, written, payloadBase, moov>>
    PROVE  OffsetsAscend' /\ OffsetsNeverWrap'
BY DEF OffsetsAscend, Ascending, OffsetsNeverWrap

(* A file grows by whatever bytes a write puts out.                        *)
LEMMA HeaderType ==
    ASSUME NEW name \in {"other", "ftyp", "mdat", "moov"}, NEW n \in Nat
    PROVE  Header(name, n) \in Seq(Byte) /\ Len(Header(name, n)) = n
<1>1. Header(name, n) \in [1..n -> Byte]
  BY DEF Header, Byte
<1> QED BY <1>1, FunctionIsSeq

(* What a refused write put out is made of the same bytes.                 *)
LEMMA PrefixType ==
    ASSUME NEW S, NEW s \in Seq(S), NEW k \in Nat, k <= Len(s)
    PROVE  Prefix(s, k) \in Seq(S)
BY DEF Prefix

(* What is written after what a file holds is a file.                      *)
LEMMA ConcatType ==
    ASSUME NEW S, NEW s \in Seq(S), NEW r \in Seq(S)
    PROVE  s \o r \in Seq(S) /\ Len(s \o r) = Len(s) + Len(r)
OBVIOUS

(* Neither form of what begin writes leaves anything but bytes.            *)
LEMMA BeginBytes ==
    ASSUME file \in Seq(Byte), NEW a \in Seq(Byte), NEW b \in Seq(Byte)
    PROVE  file \o a \in Seq(Byte) /\ file \o a \o b \in Seq(Byte)
<1>1. file \o a \in Seq(Byte)
  BY ConcatType
<1> QED BY <1>1, ConcatType

(* AddTrack appends a track without chunks.                                *)
LEMMA AddTrackInv == IInv /\ AddTrack => IInv'
<1> SUFFICES ASSUME IInv, AddTrack PROVE IInv'
  OBVIOUS
<1> DEFINE k == NewTrack(Configs[Len(tracks) + 1])
<1>1. tracks \in Seq(TrackType) /\ Len(tracks) \in Nat
  BY DEF IInv, TypeOK
<1>2. Configs[Len(tracks) + 1] \in ConfigType
  <2>1. Configs \in Seq(ConfigType)
    BY ProgressiveAssumption DEF ConfigType
  <2>2. Len(tracks) + 1 \in 1..Len(Configs)
    BY <1>1, <2>1 DEF AddTrack
  <2> QED BY <2>1, <2>2
<1>3. k \in TrackType /\ k.chunkOffsets = <<>> /\ TablesAgree(k)
  BY <1>2, NewTrackType DEF TablesAgree
<1>4. tracks' = Append(tracks, k)
  BY DEF AddTrack
<1> HIDE DEF k
<1>5. /\ tracks' \in Seq(TrackType) /\ Len(tracks') = Len(tracks) + 1
      /\ \A t \in DOMAIN tracks' :
           (t \in DOMAIN tracks /\ tracks'[t] = tracks[t]) \/ tracks'[t] = k
      /\ DOMAIN tracks \subseteq DOMAIN tracks'
  BY <1>1, <1>3, <1>4
<1>6. pc = "idle" /\ ~closed /\ open = NoChunk /\ moov = {}
  BY DEF AddTrack, IInv, Control
<1>7. TypeOK'
  BY <1>1, <1>3, <1>5, SMTT(30) DEF AddTrack, IInv, TypeOK
<1>8. Control' /\ OffsetsNeverWrap' /\ (closed \/ file \in Seq(Byte))'
  BY <1>5, <1>6 DEF AddTrack, IInv, Control, OffsetsNeverWrap, io
<1>9. OffsetsAscend'
  BY <1>3, <1>5 DEF AddTrack, IInv, OffsetsAscend, Ascending
<1> QED BY <1>7, <1>8, <1>9 DEF IInv

(* Replacing a track by one of the same type, with the same chunks, keeps  *)
(* every track's type and the order of its chunks.                         *)
LEMMA ReplaceTrack ==
    ASSUME IInv, NEW t \in DOMAIN tracks, NEW k \in TrackType, TablesAgree(k),
           tracks' = [tracks EXCEPT ![t] = k]
    PROVE  /\ tracks' \in Seq(TrackType) /\ Len(tracks') = Len(tracks)
           /\ DOMAIN tracks' = DOMAIN tracks
           /\ tracks'[t] = k
           /\ \A u \in DOMAIN tracks : u # t => tracks'[u] = tracks[u]
           /\ \A u \in DOMAIN tracks : TablesAgree(tracks'[u])
           /\ k.chunkOffsets = tracks[t].chunkOffsets /\ written' = written
                => OffsetsAscend'
<1>1. tracks \in Seq(TrackType) /\ \A u \in DOMAIN tracks : TablesAgree(tracks[u])
  BY DEF IInv, TypeOK
<1>2. /\ tracks' \in Seq(TrackType) /\ Len(tracks') = Len(tracks)
      /\ DOMAIN tracks' = DOMAIN tracks
      /\ tracks'[t] = k
      /\ \A u \in DOMAIN tracks : u # t => tracks'[u] = tracks[u]
  BY <1>1
<1>3. \A u \in DOMAIN tracks : TablesAgree(tracks'[u])
  BY <1>1, <1>2
<1>4. ASSUME k.chunkOffsets = tracks[t].chunkOffsets, written' = written
      PROVE  OffsetsAscend'
  BY <1>2, <1>4 DEF IInv, OffsetsAscend, Ascending
<1> QED BY <1>2, <1>3, <1>4

(* WriteSample changes a clock and notes the sample handed over.           *)
LEMMA WriteSampleInv ==
    ASSUME IInv, NEW t \in 1..Len(Configs), NEW s \in Samples, WriteSample(t, s)
    PROVE  IInv'
<1> DEFINE c == ClockSample(tracks[t].clock, s)
           k == [tracks[t] EXCEPT !.clock = c.clock]
<1>1. /\ tracks \in Seq(TrackType) /\ t \in DOMAIN tracks /\ tracks[t] \in TrackType
      /\ TablesAgree(tracks[t])
  BY DEF IInv, TypeOK, WriteSample
<1>2. c.sample \in SampleType /\ c.clock \in ClockType
  <2>1. tracks[t].clock \in ClockType
    BY <1>1 DEF TrackType
  <2>2. s \in SampleType
    BY ProgressiveAssumption DEF SampleType
  <2> QED BY <2>1, <2>2, ClockSampleType
<1>3. tracks' = [tracks EXCEPT ![t] = k] /\ call' = [track |-> t, sample |-> c.sample]
  BY DEF WriteSample
<1> HIDE DEF c
<1>4. /\ k \in TrackType /\ TablesAgree(k)
      /\ k.chunkOffsets = tracks[t].chunkOffsets /\ k.pending = tracks[t].pending
  <2>1. k \in TrackType
    BY <1>1, <1>2 DEF TrackType
  <2>2. /\ k.sizes = tracks[t].sizes /\ k.count = tracks[t].count
        /\ k.pending = tracks[t].pending
        /\ k.durCounts = tracks[t].durCounts /\ k.durDeltas = tracks[t].durDeltas
        /\ k.cttsCounts = tracks[t].cttsCounts /\ k.cttsOffsets = tracks[t].cttsOffsets
        /\ k.chunkOffsets = tracks[t].chunkOffsets
        /\ k.chunkSamples = tracks[t].chunkSamples
    BY <1>1 DEF TrackType
  <2> HIDE DEF k
  <2> QED BY <2>1, <2>2, <1>1 DEF TablesAgree
<1> HIDE DEF k
<1>5. /\ pc = "idle" /\ ~closed /\ moov = {} /\ open = NoChunk
      /\ pc' \in {"begin", "reserve"}
      /\ UNCHANGED <<started, closed, buffered, pendingBytes, written, payloadBase,
                     file, mdat, moov, open, faults>>
  BY DEF IInv, Control, WriteSample, io
<1>6. TypeOK'
  BY <1>1, <1>2, <1>3, <1>4, <1>5, ReplaceTrack, SMTT(30) DEF IInv, TypeOK
<1>7. Control'
  BY <1>1, <1>3, <1>4, <1>5, ReplaceTrack DEF Control
<1>8. OffsetsAscend' /\ OffsetsNeverWrap' /\ (closed \/ file \in Seq(Byte))'
  BY <1>1, <1>3, <1>4, <1>5, ReplaceTrack DEF OffsetsNeverWrap, IInv
<1> QED BY <1>6, <1>7, <1>8 DEF IInv

(* begin writes before the media, whether it succeeds or not.              *)
LEMMA BeginInv == IInv /\ Begin => IInv'
<1> SUFFICES ASSUME IInv, Begin PROVE IInv'
  OBVIOUS
<1>1. /\ UNCHANGED <<tracks, closed, buffered, pendingBytes, written, mdat, moov,
                     call, open, faults>>
      /\ pc = "begin" /\ pc' = "reserve" /\ started' = TRUE /\ moov = {} /\ open = NoChunk
  BY DEF IInv, Control, Begin
<1>2. file' \in Seq(Byte) /\ payloadBase' \in Nat
  <2>1. file \in Seq(Byte) /\ Len(file) \in Nat /\ payloadBase \in Nat
    BY <1>1 DEF IInv, TypeOK, Control
  <2>2. FtypLen \in Nat /\ MdatLargeHeaderLen \in Nat
    BY ProgressiveAssumption
  <2>3. /\ Header("ftyp", FtypLen) \in Seq(Byte)
        /\ Header("mdat", MdatLargeHeaderLen) \in Seq(Byte)
    BY <2>2, HeaderType
  <2>4. file' \in Seq(Byte)
    BY <2>1, <2>3, BeginBytes DEF Begin
  <2>5. payloadBase' \in Nat
    BY <2>1, <2>2 DEF Begin, BeginBase
  <2> QED BY <2>4, <2>5
<1>3. TypeOK'
  BY <1>1, <1>2 DEF IInv, TypeOK
<1>4. Control' /\ OffsetsAscend' /\ OffsetsNeverWrap'
  BY <1>1 DEF IInv, Control, OffsetsAscend, Ascending, OffsetsNeverWrap
<1> QED BY <1>2, <1>3, <1>4 DEF IInv

(* A refused write of begin leaves the call without effect on the tracks.  *)
LEMMA BeginFailsInv ==
    ASSUME IInv, NEW k \in Partial, BeginFails(k)
    PROVE  IInv'
<1>1. /\ UNCHANGED <<tracks, started, closed, buffered, pendingBytes, written, mdat,
                     moov, open>>
      /\ pc = "begin" /\ pc' = "idle" /\ call' = NoCall /\ moov = {} /\ open = NoChunk
  BY DEF IInv, Control, BeginFails
<1>2. file' \in Seq(Byte) /\ payloadBase' \in Nat
  <2>1. file \in Seq(Byte) /\ Len(file) \in Nat /\ payloadBase \in Nat
    BY <1>1 DEF IInv, TypeOK, Control
  <2>2. /\ FtypLen \in Nat /\ MdatLargeHeaderLen \in Nat
        /\ k \in Nat /\ k <= FtypLen /\ k <= MdatLargeHeaderLen
    BY ProgressiveAssumption
  <2>3. /\ Header("ftyp", FtypLen) \in Seq(Byte)
        /\ Header("mdat", MdatLargeHeaderLen) \in Seq(Byte)
        /\ Len(Header("ftyp", FtypLen)) = FtypLen
        /\ Len(Header("mdat", MdatLargeHeaderLen)) = MdatLargeHeaderLen
    BY <2>2, HeaderType
  <2>4. /\ Prefix(Header("ftyp", FtypLen), k) \in Seq(Byte)
        /\ Prefix(Header("mdat", MdatLargeHeaderLen), k) \in Seq(Byte)
    BY <2>2, <2>3, PrefixType
  <2>5. file' \in Seq(Byte)
    BY <2>1, <2>3, <2>4, BeginBytes DEF BeginFails
  <2>6. BeginBase \in Nat
    BY <2>1 DEF BeginBase
  <2>7. payloadBase' = BeginBase \/ payloadBase' = BeginBase + FtypLen
    BY DEF BeginFails
  <2>8. payloadBase' \in Nat
    BY <2>2, <2>6, <2>7
  <2> QED BY <2>5, <2>8
<1>3. faults' \in [begin : Nat, media : Nat, refused : Nat]
  <2>1. faults \in [begin : Nat, media : Nat, refused : Nat]
    BY DEF IInv, TypeOK
  <2>2. faults' = [faults EXCEPT !.begin = faults.begin + 1]
    BY DEF BeginFails
  <2> QED BY <2>1, <2>2
<1>4. call' \in [track : 0..Len(tracks), sample : SampleType]
  <2>1. NoCall.sample \in SampleType /\ 0 \in 0..Len(tracks)
    BY DEF NoCall, SampleType, IInv, TypeOK
  <2> QED BY <1>1, <2>1 DEF NoCall
<1>5. TypeOK'
  BY <1>1, <1>2, <1>3, <1>4 DEF IInv, TypeOK
<1>6. Control' /\ OffsetsAscend' /\ OffsetsNeverWrap'
  BY <1>1 DEF IInv, Control, OffsetsAscend, Ascending, OffsetsNeverWrap
<1> QED BY <1>2, <1>5, <1>6 DEF IInv

(* No call in progress, as a value of its type.                            *)
LEMMA NoCallType ==
    /\ \A n \in Nat : NoCall \in [track : 0..n, sample : SampleType]
    /\ \A n \in Nat : NoChunk \in [track : 0..n, sent : Nat]
<1>1. NoCall.sample \in SampleType
  BY DEF NoCall, SampleType
<1> QED BY <1>1 DEF NoCall, NoChunk

(* Accepting a sample, from either place where there is room for it.       *)
LEMMA AcceptInv ==
    ASSUME IInv, pc \in {"reserve", "flush"}, open = NoChunk,
           call.track \in DOMAIN tracks, Accept
    PROVE  IInv'
<1> DEFINE t == call.track
           k == Taken(t, tracks[t], call.sample)
<1>1. /\ tracks \in Seq(TrackType) /\ t \in Nat /\ tracks[t] \in TrackType
      /\ TablesAgree(tracks[t]) /\ call.sample \in SampleType /\ Len(tracks) \in Nat
  BY DEF IInv, TypeOK
<1>2. /\ k \in TrackType /\ TablesAgree(k) /\ k.chunkOffsets = tracks[t].chunkOffsets
  BY <1>1, TakenType
<1>3. tracks' = [tracks EXCEPT ![t] = k]
  BY DEF Accept
<1>4. /\ pc' \in {"flush", "idle"} /\ call' = NoCall
      /\ pendingBytes' = pendingBytes + call.sample.len
      /\ UNCHANGED <<started, closed, buffered, written, payloadBase, file, mdat, moov,
                     open, faults>>
  BY DEF Accept, io
<1> HIDE DEF k
<1>5. pendingBytes' \in Int
  <2>1. call.sample.len \in Nat
    BY <1>1 DEF SampleType
  <2> QED BY <1>4, <2>1 DEF IInv, TypeOK
<1>6. TypeOK'
  BY <1>1, <1>2, <1>3, <1>4, <1>5, ReplaceTrack, NoCallType DEF IInv, TypeOK
<1>7. moov = {}
  BY DEF IInv, Control
<1>8. Control' /\ OffsetsNeverWrap' /\ (closed \/ file \in Seq(Byte))'
  BY <1>4, <1>7 DEF IInv, Control, OffsetsNeverWrap
<1>9. OffsetsAscend'
  BY <1>2, <1>3, <1>4, ReplaceTrack
<1> QED BY <1>6, <1>8, <1>9 DEF IInv

(* reserve takes the sample or has the open chunks written.                *)
LEMMA ReserveInv == IInv /\ Reserve => IInv'
<1> SUFFICES ASSUME IInv, Reserve PROVE IInv'
  OBVIOUS
<1>1. pc = "reserve" /\ call.track \in DOMAIN tracks /\ open = NoChunk /\ moov = {}
  BY DEF IInv, Control, Reserve
<1>2. CASE Fits(call.sample.len)
  BY <1>1, <1>2, AcceptInv DEF Reserve
<1>3. CASE ~Fits(call.sample.len)
  <2>1. /\ UNCHANGED <<tracks, started, closed, buffered, pendingBytes, written,
                       payloadBase, file, mdat, moov, call, open, result, faults>>
        /\ pc' = "flush"
    BY <1>3 DEF Reserve, io
  <2>2. TypeOK' /\ Control' /\ (closed \/ file \in Seq(Byte))'
    BY <1>1, <2>1 DEF IInv, TypeOK, Control
  <2>3. OffsetsAscend' /\ OffsetsNeverWrap'
    BY <2>1, FrameInv DEF IInv
  <2> QED BY <2>2, <2>3 DEF IInv
<1> QED BY <1>1, <1>2, <1>3

(* One more chunk, behind every other, keeps the offsets ascending.        *)
LEMMA AscendingAppend ==
    ASSUME NEW within \in Seq(Nat), NEW end \in Nat, Ascending(within, end)
    PROVE  Ascending(Append(within, end), end)
BY SMTT(30) DEF Ascending

(* A track with one more chunk is a track, the rest of it unchanged.       *)
LEMMA WithChunkType ==
    ASSUME NEW k \in TrackType, TablesAgree(k), NEW offset \in Nat
    PROVE  /\ WithChunk(k, offset) \in TrackType
           /\ TablesAgree(WithChunk(k, offset))
           /\ WithChunk(k, offset).chunkOffsets = Append(k.chunkOffsets, offset)
           /\ WithChunk(k, offset).pending = k.pending
<1> DEFINE a == Append(k.chunkOffsets, offset)
           b == Append(k.chunkSamples, Len(k.pending))
           i == [k EXCEPT !.chunkOffsets = a]
           j == [i EXCEPT !.chunkSamples = b]
<1>1. k.chunkOffsets \in Seq(Nat) /\ k.chunkSamples \in Seq(Nat) /\ Len(k.pending) \in Nat
  BY DEF TrackType
<1>2. a \in Seq(Nat) /\ b \in Seq(Nat) /\ Len(a) = Len(b)
  BY <1>1 DEF TablesAgree
<1>3. WithChunk(k, offset) = j
  BY DEF WithChunk
<1> HIDE DEF a, b
<1>4. /\ i \in TrackType
      /\ i.chunkOffsets = a /\ i.pending = k.pending /\ i.sizes = k.sizes /\ i.count = k.count
      /\ i.durCounts = k.durCounts /\ i.durDeltas = k.durDeltas
      /\ i.cttsCounts = k.cttsCounts /\ i.cttsOffsets = k.cttsOffsets
  BY <1>2 DEF TrackType
<1> HIDE DEF i
<1>5. /\ j \in TrackType
      /\ j.chunkOffsets = a /\ j.chunkSamples = b
      /\ j.pending = k.pending /\ j.sizes = k.sizes /\ j.count = k.count
      /\ j.durCounts = k.durCounts /\ j.durDeltas = k.durDeltas
      /\ j.cttsCounts = k.cttsCounts /\ j.cttsOffsets = k.cttsOffsets
  BY <1>2, <1>4 DEF TrackType
<1> HIDE DEF j
<1>6. TablesAgree(j)
  BY <1>2, <1>5 DEF TablesAgree
<1> USE DEF a
<1> QED BY <1>3, <1>5, <1>6

(* A track whose chunk has been written out is a track without pending     *)
(* samples, its chunks unchanged.                                          *)
LEMMA EmptiedType ==
    ASSUME NEW k \in TrackType, TablesAgree(k)
    PROVE  /\ Emptied(k) \in TrackType
           /\ TablesAgree(Emptied(k))
           /\ Emptied(k).chunkOffsets = k.chunkOffsets
<1> DEFINE e == <<>>
           z == 0
           i == [k EXCEPT !.pending = e]
           j == [i EXCEPT !.pendingDur = z]
<1>1. Emptied(k) = j
  BY DEF Emptied
<1>2. e \in Seq(Seq(MediaByte)) /\ Len(e) <= k.count /\ z \in Int
  BY DEF TrackType
<1> HIDE DEF e, z
<1>3. /\ i \in TrackType
      /\ i.chunkOffsets = k.chunkOffsets /\ i.pending = e /\ i.sizes = k.sizes
      /\ i.count = k.count /\ i.chunkSamples = k.chunkSamples
      /\ i.durCounts = k.durCounts /\ i.durDeltas = k.durDeltas
      /\ i.cttsCounts = k.cttsCounts /\ i.cttsOffsets = k.cttsOffsets
  BY <1>2 DEF TrackType
<1> HIDE DEF i
<1>4. /\ j \in TrackType
      /\ j.chunkOffsets = k.chunkOffsets /\ j.pending = e /\ j.sizes = k.sizes
      /\ j.count = k.count /\ j.chunkSamples = k.chunkSamples
      /\ j.durCounts = k.durCounts /\ j.durDeltas = k.durDeltas
      /\ j.cttsCounts = k.cttsCounts /\ j.cttsOffsets = k.cttsOffsets
  BY <1>2, <1>3 DEF TrackType
<1> HIDE DEF j
<1>5. TablesAgree(j)
  BY <1>2, <1>4 DEF TablesAgree
<1> QED BY <1>1, <1>4, <1>5

(* A chunk begins where what has been written ends, behind every other.    *)
LEMMA StartChunkInv == IInv /\ StartChunk => IInv'
<1> SUFFICES ASSUME IInv, StartChunk PROVE IInv'
  OBVIOUS
<1>1. PICK t \in Waiting :
        /\ tracks' = [tracks EXCEPT ![t] = WithChunk(tracks[t], written)]
        /\ open' = [track |-> t, sent |-> 0]
  BY DEF StartChunk
<1>2. /\ tracks \in Seq(TrackType) /\ t \in DOMAIN tracks /\ tracks[t] \in TrackType
      /\ TablesAgree(tracks[t]) /\ tracks[t].pending # <<>> /\ t \in 0..Len(tracks)
      /\ written \in Nat
  BY DEF IInv, TypeOK, Waiting
<1> DEFINE k == WithChunk(tracks[t], written)
<1>3. /\ tracks[t].chunkOffsets \in Seq(Nat)
      /\ tracks[t].pending \in Seq(Seq(MediaByte)) /\ Len(tracks[t].pending) \in Nat
  BY <1>2 DEF TrackType
<1>5. tracks' = [tracks EXCEPT ![t] = k]
  BY <1>1, <1>2
<1>6. /\ k \in TrackType /\ TablesAgree(k) /\ k.pending = tracks[t].pending
      /\ k.chunkOffsets = Append(tracks[t].chunkOffsets, written)
  BY <1>2, WithChunkType
<1> HIDE DEF k
<1>8. /\ UNCHANGED <<started, closed, buffered, pendingBytes, written, payloadBase,
                     file, mdat, moov, pc, call, result, faults>>
      /\ pc = "flush" /\ moov = {}
  BY DEF StartChunk, io, IInv, Control
<1>9. TypeOK'
  BY <1>1, <1>2, <1>5, <1>6, <1>8, ReplaceTrack DEF IInv, TypeOK
<1>10. Control'
  <2>1. 0 < Len(tracks[t].pending)
    BY <1>2, <1>3
  <2>2. DOMAIN tracks' = DOMAIN tracks /\ tracks'[t].pending = tracks[t].pending
    BY <1>2, <1>5, <1>6, ReplaceTrack
  <2> QED BY <1>1, <1>2, <1>8, <2>1, <2>2 DEF IInv, Control
<1>11. OffsetsAscend'
  <2>1. Ascending(tracks[t].chunkOffsets, written)
    BY <1>2 DEF IInv, OffsetsAscend
  <2>2. Ascending(k.chunkOffsets, written)
    BY <1>2, <1>3, <1>6, <2>1, AscendingAppend
  <2>3. \A u \in DOMAIN tracks' : Ascending(tracks'[u].chunkOffsets, written)
    BY <1>2, <1>5, <1>6, <2>2, ReplaceTrack DEF IInv, OffsetsAscend
  <2> QED BY <1>8, <2>3 DEF OffsetsAscend
<1>12. OffsetsNeverWrap' /\ (closed \/ file \in Seq(Byte))'
  BY <1>8 DEF OffsetsNeverWrap, IInv
<1> QED BY <1>9, <1>10, <1>11, <1>12 DEF IInv

(* The sample the loop of flush writes next is made of media bytes.        *)
LEMMA NextDataType ==
    ASSUME IInv, open # NoChunk
    PROVE  /\ NextData \in Seq(MediaByte) /\ Len(NextData) \in Nat
           /\ open.track \in DOMAIN tracks /\ tracks[open.track] \in TrackType
           /\ TablesAgree(tracks[open.track])
           /\ open.sent \in Nat
<1>1. /\ open.track \in DOMAIN tracks /\ tracks[open.track] \in TrackType
      /\ TablesAgree(tracks[open.track])
      /\ open.sent \in Nat /\ open.sent < Len(tracks[open.track].pending)
  BY DEF IInv, TypeOK, Control
<1>2. tracks[open.track].pending \in Seq(Seq(MediaByte))
  BY <1>1 DEF TrackType
<1>3. open.sent + 1 \in 1..Len(tracks[open.track].pending)
  BY <1>1, <1>2
<1>4. NextData \in Seq(MediaByte)
  BY <1>2, <1>3 DEF NextData
<1>5. Len(NextData) \in Nat
  BY <1>4
<1> QED BY <1>1, <1>4, <1>5

(* Media bytes are bytes.                                                  *)
LEMMA MediaAreBytes == \A s \in Seq(MediaByte) : s \in Seq(Byte)
BY DEF Byte

(* writeMedia only adds to what has been written.                          *)
LEMMA WriteMediaInv == IInv /\ WriteMedia => IInv'
<1> SUFFICES ASSUME IInv, WriteMedia PROVE IInv'
  OBVIOUS
<1>1. /\ open # NoChunk /\ pc = "flush" /\ moov = {}
      /\ written' = written + Len(NextData) /\ pendingBytes' = pendingBytes - Len(NextData)
      /\ UNCHANGED <<started, closed, payloadBase, mdat, moov, pc, call, result, faults>>
  BY DEF WriteMedia, IInv, Control
<1>2. /\ NextData \in Seq(MediaByte) /\ Len(NextData) \in Nat
      /\ open.track \in DOMAIN tracks /\ tracks[open.track] \in TrackType
      /\ TablesAgree(tracks[open.track]) /\ open.sent \in Nat
  BY <1>1, NextDataType
<1>3. written' \in Nat /\ pendingBytes' \in Int /\ written <= written'
  BY <1>1, <1>2 DEF IInv, TypeOK
<1>4. (closed \/ file \in Seq(Byte))' /\ buffered' \in Seq(MediaByte)
  <2>1. /\ closed \/ file \in Seq(Byte)
        /\ buffered \in Seq(MediaByte) /\ NextData \in Seq(Byte)
    BY <1>2, MediaAreBytes DEF IInv, TypeOK
  <2>2. buffered \o NextData \in Seq(MediaByte)
    BY <1>2, <2>1, ConcatType
  <2>3. closed \/ file \o NextData \in Seq(Byte)
    BY <2>1, ConcatType
  <2>4. buffered' = buffered \/ buffered' = buffered \o NextData
    BY DEF WriteMedia
  <2>5. file' = file \/ file' = file \o NextData
    BY DEF WriteMedia
  <2>6. buffered' \in Seq(MediaByte)
    BY <2>1, <2>2, <2>4
  <2>7. closed' = closed
    BY <1>1
  <2>8. closed' \/ file' \in Seq(Byte)
    BY <2>1, <2>3, <2>5, <2>7
  <2> QED BY <2>6, <2>8
<1>5. /\ tracks' \in Seq(TrackType) /\ Len(tracks') = Len(tracks)
      /\ DOMAIN tracks' = DOMAIN tracks
      /\ \A u \in DOMAIN tracks : TablesAgree(tracks'[u])
      /\ \A u \in DOMAIN tracks : tracks'[u].chunkOffsets = tracks[u].chunkOffsets
      /\ open' = NoChunk \/ /\ open'.track \in DOMAIN tracks'
                            /\ open'.sent < Len(tracks'[open'.track].pending)
      /\ open' \in [track : 0..Len(tracks), sent : Nat]
  <2>1. CASE open.sent + 1 < Len(tracks[open.track].pending)
    <3>1. tracks' = tracks /\ open' = [open EXCEPT !.sent = open.sent + 1]
      BY <2>1 DEF WriteMedia
    <3>2. open \in [track : 0..Len(tracks), sent : Nat]
      BY DEF IInv, TypeOK
    <3>3. open'.track = open.track /\ open'.sent = open.sent + 1
      BY <3>1, <3>2
    <3>4. open' \in [track : 0..Len(tracks), sent : Nat]
      BY <1>2, <3>1, <3>2
    <3>5. tracks \in Seq(TrackType) /\ \A u \in DOMAIN tracks : TablesAgree(tracks[u])
      BY DEF IInv, TypeOK
    <3> QED BY <1>2, <2>1, <3>1, <3>3, <3>4, <3>5
  <2>2. CASE ~(open.sent + 1 < Len(tracks[open.track].pending))
    <3>1. /\ tracks' = [tracks EXCEPT ![open.track] = Emptied(tracks[open.track])]
          /\ open' = NoChunk
      BY <2>2 DEF WriteMedia
    <3>2. /\ Emptied(tracks[open.track]) \in TrackType
          /\ TablesAgree(Emptied(tracks[open.track]))
          /\ Emptied(tracks[open.track]).chunkOffsets = tracks[open.track].chunkOffsets
      BY <1>2, EmptiedType
    <3>3. /\ tracks' \in Seq(TrackType) /\ Len(tracks') = Len(tracks)
          /\ DOMAIN tracks' = DOMAIN tracks
          /\ tracks'[open.track] = Emptied(tracks[open.track])
          /\ \A u \in DOMAIN tracks : u # open.track => tracks'[u] = tracks[u]
          /\ \A u \in DOMAIN tracks : TablesAgree(tracks'[u])
      BY <1>2, <3>1, <3>2, ReplaceTrack
    <3>4. NoChunk \in [track : 0..Len(tracks), sent : Nat]
      BY NoCallType DEF IInv, TypeOK
    <3> QED BY <3>1, <3>2, <3>3, <3>4
  <2> QED BY <2>1, <2>2
<1>6. TypeOK'
  BY <1>1, <1>3, <1>4, <1>5 DEF IInv, TypeOK
<1>7. Control'
  BY <1>1, <1>5 DEF IInv, Control
<1>8. OffsetsAscend'
  <2>1. \A u \in DOMAIN tracks : Ascending(tracks[u].chunkOffsets, written)
    BY DEF IInv, OffsetsAscend
  <2>2. \A u \in DOMAIN tracks : Ascending(tracks[u].chunkOffsets, written')
    <3>0. \A u \in DOMAIN tracks : tracks[u] \in TrackType
      BY DEF IInv, TypeOK
    <3>1. \A u \in DOMAIN tracks : tracks[u].chunkOffsets \in Seq(Nat)
      BY <3>0 DEF TrackType
    <3>2. written \in Nat
      BY DEF IInv, TypeOK
    <3> QED BY <1>3, <2>1, <3>1, <3>2 DEF Ascending
  <2> QED BY <1>5, <2>2 DEF OffsetsAscend
<1>9. OffsetsNeverWrap'
  BY <1>1 DEF OffsetsNeverWrap
<1> QED BY <1>4, <1>6, <1>7, <1>8, <1>9 DEF IInv

(* A refused write leaves the chunk entry, which was in order.             *)
LEMMA WriteMediaFailsInv ==
    ASSUME IInv, NEW k \in Partial, WriteMediaFails(k)
    PROVE  IInv'
<1>1. /\ open # NoChunk /\ moov = {}
      /\ pendingBytes' = pendingBytes - Len(NextData)
      /\ open' = NoChunk /\ pc' = "idle" /\ call' = NoCall
      /\ faults' = [faults EXCEPT !.media = faults.media + 1]
      /\ UNCHANGED <<tracks, started, closed, buffered, written, payloadBase, mdat, moov>>
  BY DEF WriteMediaFails, IInv, Control
<1>2. NextData \in Seq(MediaByte) /\ Len(NextData) \in Nat
  BY <1>1, NextDataType
<1>3. (closed \/ file \in Seq(Byte))'
  <2> DEFINE n == IF k < Len(NextData) THEN k ELSE 0
  <2>1. n \in Nat /\ n <= Len(NextData)
    BY <1>2, ProgressiveAssumption
  <2>2. file' = file \o Prefix(NextData, n)
    BY DEF WriteMediaFails
  <2> HIDE DEF n
  <2>3. Prefix(NextData, n) \in Seq(MediaByte)
    BY <1>2, <2>1, PrefixType
  <2>4. Prefix(NextData, n) \in Seq(Byte)
    BY <2>3, MediaAreBytes
  <2> QED BY <1>1, <2>2, <2>4, ConcatType DEF IInv
<1>4. faults' \in [begin : Nat, media : Nat, refused : Nat]
  <2>1. faults \in [begin : Nat, media : Nat, refused : Nat]
    BY DEF IInv, TypeOK
  <2> QED BY <1>1, <2>1
<1>5. pendingBytes' \in Int
  BY <1>1, <1>2 DEF IInv, TypeOK
<1>6. TypeOK'
  <2>1. /\ call' \in [track : 0..Len(tracks), sample : SampleType]
        /\ open' \in [track : 0..Len(tracks), sent : Nat]
    BY <1>1, NoCallType, SMTT(30) DEF IInv, TypeOK
  <2> QED BY <1>1, <1>4, <1>5, <2>1 DEF IInv, TypeOK
<1>7. Control'
  BY <1>1 DEF Control
<1>8. OffsetsAscend' /\ OffsetsNeverWrap'
  BY <1>1, FrameInv DEF IInv
<1> QED BY <1>3, <1>6, <1>7, <1>8 DEF IInv

(* Where flush returns to, nothing of the tracks or the movie changes but  *)
(* for the sample reserve had in hand.                                     *)
LEMMA FlushedInv == IInv /\ (FlushedForRoom \/ FlushedSample) => IInv'
<1> SUFFICES ASSUME IInv, FlushedForRoom \/ FlushedSample PROVE IInv'
  OBVIOUS
<1>1. pc = "flush" /\ open = NoChunk /\ moov = {}
  BY DEF FlushedForRoom, FlushedSample, Flushed, IInv, Control
<1>2. CASE FlushedForRoom /\ Fits(call.sample.len)
  <2>1. call.track \in DOMAIN tracks
    BY <1>2 DEF FlushedForRoom, IInv, Control
  <2>2. Accept
    BY <1>2 DEF FlushedForRoom
  <2> QED BY <1>1, <2>1, <2>2, AcceptInv
<1>3. CASE FlushedForRoom /\ ~Fits(call.sample.len)
  <2>1. /\ pc' = "idle" /\ call' = NoCall
        /\ faults' = [faults EXCEPT !.refused = faults.refused + 1]
        /\ UNCHANGED <<tracks, started, closed, buffered, pendingBytes, written,
                       payloadBase, file, mdat, moov, open>>
    BY <1>3 DEF FlushedForRoom, io
  <2>2. faults' \in [begin : Nat, media : Nat, refused : Nat]
    <3>1. faults \in [begin : Nat, media : Nat, refused : Nat]
      BY DEF IInv, TypeOK
    <3> QED BY <2>1, <3>1
  <2>3. call' \in [track : 0..Len(tracks), sample : SampleType]
    BY <2>1, NoCallType DEF IInv, TypeOK
  <2>4. TypeOK' /\ Control' /\ (closed \/ file \in Seq(Byte))'
    BY <1>1, <2>1, <2>2, <2>3 DEF IInv, TypeOK, Control
  <2>5. OffsetsAscend' /\ OffsetsNeverWrap'
    BY <2>1, FrameInv DEF IInv
  <2> QED BY <2>4, <2>5 DEF IInv
<1>4. CASE FlushedSample
  <2>1. /\ pc' = "idle"
        /\ UNCHANGED <<tracks, started, closed, buffered, pendingBytes, written,
                       payloadBase, file, mdat, moov, call, open, faults>>
    BY <1>4 DEF FlushedSample, io
  <2>2. TypeOK' /\ Control' /\ (closed \/ file \in Seq(Byte))'
    BY <1>1, <2>1 DEF IInv, TypeOK, Control
  <2>3. OffsetsAscend' /\ OffsetsNeverWrap'
    BY <2>1, FrameInv DEF IInv
  <2> QED BY <2>2, <2>3 DEF IInv
<1> QED BY <1>2, <1>3, <1>4

(* Close, and a call refused after it, change no track.                    *)
LEMMA CloseInv == IInv /\ (Close \/ RefuseClosed) => IInv'
<1> SUFFICES ASSUME IInv, Close \/ RefuseClosed PROVE IInv'
  OBVIOUS
<1>1. /\ pc = "idle" /\ pc' \in {"idle", "flush"} /\ closed' = TRUE
      /\ moov # {} => pc' = "idle"
      /\ UNCHANGED <<tracks, started, buffered, pendingBytes, written, payloadBase,
                     file, mdat, moov, call, open, faults>>
  BY DEF Close, RefuseClosed, io, IInv, Control, TypeOK
<1>2. TypeOK' /\ Control' /\ (closed \/ file \in Seq(Byte))'
  BY <1>1 DEF IInv, TypeOK, Control
<1>3. OffsetsAscend' /\ OffsetsNeverWrap'
  BY <1>1, FrameInv DEF IInv
<1> QED BY <1>2, <1>3 DEF IInv

(* Closing the mdat keeps what is typed.                                   *)
LEMMA FinishMdatType ==
    ASSUME IInv, FinishMdat
    PROVE  payloadBase' \in Nat /\ buffered' \in Seq(MediaByte)
<1>1. payloadBase \in Nat /\ buffered \in Seq(MediaByte) /\ MdatHeaderLen \in Nat
  BY ProgressiveAssumption DEF IInv, TypeOK
<1>2. payloadBase' \in {payloadBase, payloadBase + MdatHeaderLen}
  BY DEF FinishMdat
<1>3. buffered' \in {buffered, <<>>}
  BY DEF FinishMdat
<1>4. payloadBase' \in Nat
  BY <1>1, <1>2
<1>5. <<>> \in Seq(MediaByte)
  OBVIOUS
<1>6. buffered' \in Seq(MediaByte)
  BY <1>1, <1>3, <1>5
<1> QED BY <1>4, <1>6

(* Neither Finish nor FinishFails touches a track; both leave the muxer    *)
(* closed and idle.                                                        *)
LEMMA FinishFrame ==
    ASSUME IInv, pc = "flush", open = NoChunk, closed, pc' = "idle",
           payloadBase' \in Nat, buffered' \in Seq(MediaByte),
           faults' \in [begin : Nat, media : Nat, refused : Nat],
           UNCHANGED <<tracks, started, closed, pendingBytes, written, call, open>>
    PROVE  TypeOK' /\ Control' /\ closed' /\ OffsetsAscend'
<1>1. TypeOK'
  BY DEF IInv, TypeOK
<1>2. Control' /\ closed'
  BY DEF IInv, Control
<1>3. OffsetsAscend'
  BY DEF IInv, OffsetsAscend
<1> QED BY <1>1, <1>2, <1>3

(* A chunk offset needsWideOffsets has looked past is stated as it is: the *)
(* last offset of its track stands for it.                                 *)
LEMMA StatedAsItIs ==
    ASSUME NEW k \in TrackType, NEW base \in Nat, NEW end \in Nat,
           Ascending(k.chunkOffsets, end), NEW c \in DOMAIN k.chunkOffsets,
           NEW wide \in BOOLEAN,
           ~wide => base + k.chunkOffsets[Len(k.chunkOffsets)] <= MaxChunkOffset32
    PROVE  StatedOffset(k.chunkOffsets[c], base, wide) = base + k.chunkOffsets[c]
<1>1. k.chunkOffsets \in Seq(Nat)
  BY DEF TrackType
<1>2. /\ c \in 1..Len(k.chunkOffsets) /\ Len(k.chunkOffsets) \in DOMAIN k.chunkOffsets
      /\ k.chunkOffsets[c] \in Nat /\ k.chunkOffsets[Len(k.chunkOffsets)] \in Nat
  BY <1>1
<1>3. k.chunkOffsets[c] <= k.chunkOffsets[Len(k.chunkOffsets)]
  BY <1>2 DEF Ascending
<1>4. CASE ~wide
  <2>1. base + k.chunkOffsets[c] \in Nat /\ base + k.chunkOffsets[c] <= MaxChunkOffset32
    <3> DEFINE o == k.chunkOffsets[c]
               z == k.chunkOffsets[Len(k.chunkOffsets)]
    <3>1. o \in Nat /\ z \in Nat /\ o <= z /\ base + z <= MaxChunkOffset32
      BY <1>2, <1>3, <1>4
    <3>2. MaxChunkOffset32 \in Nat
      BY ProgressiveAssumption
    <3> HIDE DEF o, z
    <3>3. base + o \in Nat /\ base + o <= MaxChunkOffset32
      BY <3>1, <3>2
    <3> QED BY <3>3 DEF o
  <2>2. \A n, m \in Nat : n <= m => n % (m + 1) = n
    BY SMT
  <2> QED BY <1>4, <2>1, <2>2, ProgressiveAssumption DEF StatedOffset
<1> QED BY <1>4 DEF StatedOffset

(* Close builds the moov from tables none of which wraps.                  *)
LEMMA FinishInv == IInv /\ Finish => IInv'
<1> SUFFICES ASSUME IInv, Finish PROVE IInv'
  OBVIOUS
<1>1. /\ pc = "flush" /\ open = NoChunk /\ closed /\ pc' = "idle" /\ FinishMdat
      /\ moov' = {Movie(payloadBase')}
      /\ UNCHANGED <<tracks, started, closed, pendingBytes, written, call, open, faults>>
  BY DEF Finish, Flushed
<1>2. payloadBase' \in Nat /\ buffered' \in Seq(MediaByte)
  BY <1>1, FinishMdatType
<1>3. TypeOK' /\ Control' /\ closed' /\ OffsetsAscend'
  <2>1. faults' \in [begin : Nat, media : Nat, refused : Nat]
    BY <1>1 DEF IInv, TypeOK
  <2> QED BY <1>1, <1>2, <2>1, FinishFrame
<1>4. OffsetsNeverWrap'
  <2> DEFINE base == payloadBase'
             wide == NeedsWideOffsets(base)
  <2>1. SUFFICES ASSUME NEW t \in DOMAIN tracks, NEW c \in DOMAIN tracks[t].chunkOffsets
                 PROVE  Movie(base).traks[t].stbl.offsets[c] = base + tracks[t].chunkOffsets[c]
    BY <1>1 DEF OffsetsNeverWrap
  <2>2. /\ tracks[t] \in TrackType /\ written \in Nat
        /\ Ascending(tracks[t].chunkOffsets, written)
    BY DEF IInv, TypeOK, OffsetsAscend
  <2>3. wide \in BOOLEAN
    BY DEF NeedsWideOffsets
  <2>4. ~wide => base + tracks[t].chunkOffsets[Len(tracks[t].chunkOffsets)] <= MaxChunkOffset32
    <3>1. SUFFICES ASSUME ~wide
                   PROVE  ~(base + tracks[t].chunkOffsets[Len(tracks[t].chunkOffsets)] > MaxChunkOffset32)
      <4>1. tracks[t].chunkOffsets \in Seq(Nat)
        BY <2>2 DEF TrackType
      <4>2. tracks[t].chunkOffsets[Len(tracks[t].chunkOffsets)] \in Nat
        BY <4>1
      <4> QED BY <1>2, <4>2, ProgressiveAssumption, SMTT(30)
    <3>2. tracks[t].chunkOffsets # <<>>
      OBVIOUS
    <3> QED BY <3>1, <3>2 DEF NeedsWideOffsets
  <2>5. Movie(base).traks[t].stbl.offsets[c] =
          StatedOffset(tracks[t].chunkOffsets[c], base, wide)
    BY DEF Movie, TrackBox, SampleTables
  <2> HIDE DEF wide
  <2> QED BY <1>2, <2>2, <2>3, <2>4, <2>5, StatedAsItIs
<1> QED BY <1>3, <1>4 DEF IInv

(* A Close whose writes are refused leaves no moov.                        *)
LEMMA FinishFailsInv == IInv /\ FinishFails => IInv'
<1> SUFFICES ASSUME IInv, FinishFails PROVE IInv'
  OBVIOUS
<1>1. /\ pc = "flush" /\ pc' = "idle" /\ open = NoChunk /\ closed
      /\ faults' = [faults EXCEPT !.media = faults.media + 1]
      /\ UNCHANGED <<tracks, started, closed, pendingBytes, written, moov, call, open>>
      /\ FinishMdat \/ UNCHANGED <<payloadBase, buffered>>
  BY DEF FinishFails, Flushed
<1>2. payloadBase' \in Nat /\ buffered' \in Seq(MediaByte)
  BY <1>1, FinishMdatType DEF IInv, TypeOK
<1>3. faults' \in [begin : Nat, media : Nat, refused : Nat]
  <2>1. faults \in [begin : Nat, media : Nat, refused : Nat]
    BY DEF IInv, TypeOK
  <2> QED BY <1>1, <2>1
<1>4. TypeOK' /\ Control' /\ closed' /\ OffsetsAscend'
  BY <1>1, <1>2, <1>3, FinishFrame
<1>5. OffsetsNeverWrap'
  BY <1>1 DEF OffsetsNeverWrap, IInv, Control
<1> QED BY <1>4, <1>5 DEF IInv

(* Every step keeps the invariant.                                         *)
LEMMA NextInv == IInv /\ [Next]_vars => IInv'
<1> SUFFICES ASSUME IInv, [Next]_vars PROVE IInv'
  OBVIOUS
<1>1. CASE AddTrack
  BY <1>1, AddTrackInv
<1>2. ASSUME NEW t \in 1..Len(Configs), NEW s \in Samples, WriteSample(t, s) PROVE IInv'
  BY <1>2, WriteSampleInv
<1>3. CASE Begin
  BY <1>3, BeginInv
<1>4. ASSUME NEW k \in Partial, BeginFails(k) PROVE IInv'
  BY <1>4, BeginFailsInv
<1>5. CASE Reserve
  BY <1>5, ReserveInv
<1>6. CASE StartChunk
  BY <1>6, StartChunkInv
<1>7. CASE WriteMedia
  BY <1>7, WriteMediaInv
<1>8. ASSUME NEW k \in Partial, WriteMediaFails(k) PROVE IInv'
  BY <1>8, WriteMediaFailsInv
<1>9. CASE FlushedForRoom \/ FlushedSample
  BY <1>9, FlushedInv
<1>10. CASE Close \/ RefuseClosed
  BY <1>10, CloseInv
<1>11. CASE Finish
  BY <1>11, FinishInv
<1>12. CASE FinishFails
  BY <1>12, FinishFailsInv
<1>13. CASE UNCHANGED vars
  <2>1. UNCHANGED <<tracks, started, closed, buffered, pendingBytes, written,
                    payloadBase, file, mdat, moov, pc, call, open, result, faults>>
    BY <1>13 DEF vars, io
  <2>2. TypeOK' /\ Control' /\ (closed \/ file \in Seq(Byte))'
    BY <2>1 DEF IInv, TypeOK, Control
  <2>3. OffsetsAscend' /\ OffsetsNeverWrap'
    BY <2>1, FrameInv DEF IInv
  <2> QED BY <2>2, <2>3 DEF IInv
<1> QED
  BY <1>1, <1>2, <1>3, <1>4, <1>5, <1>6, <1>7, <1>8, <1>9, <1>10, <1>11, <1>12, <1>13
  DEF Next, Step

(* Every state the muxer reaches is well typed, its parallel tables as     *)
(* long as one another, whatever writes are refused.                       *)
THEOREM ProgressiveTypes == Spec => []TypeOK
<1>1. IInv => TypeOK
  BY DEF IInv
<1> QED BY <1>1, InitInv, NextInv, PTL DEF Spec

(* No chunk offset of a file is ever stated modulo 2^32: looking at the    *)
(* last chunk of each track is enough to choose between stco and co64.     *)
THEOREM ProgressiveOffsets == Spec => []OffsetsNeverWrap
<1>1. IInv => OffsetsNeverWrap
  BY DEF IInv
<1> QED BY <1>1, InitInv, NextInv, PTL DEF Spec

(***************************************************************************)
(* The edit a track starts with.                                           *)
(***************************************************************************)
(* A quotient is the greatest multiple that fits, and the rest is smaller. *)
LEMMA Division ==
    ASSUME NEW a \in Nat, NEW b \in Nat \ {0}
    PROVE  /\ (a \div b) \in Nat /\ (a % b) \in Nat
           /\ a = b * (a \div b) + (a % b) /\ (a % b) < b
BY SMT

(* scaleDuration takes a duration apart so that no product overflows; what *)
(* it makes of the parts is the whole rounded down.                        *)
LEMMA ScaleDurationRoundsDown ==
    ASSUME NEW d \in Nat, NEW from \in Nat \ {0}, NEW to \in Nat \ {0}
    PROVE  /\ ScaleDuration(d, from, to) \in Nat
           /\ ScaleDuration(d, from, to) * from <= d * to
           /\ d * to < ScaleDuration(d, from, to) * from + from
<1> DEFINE q == d \div from
           r == d % from
           R == r * to
           a == R \div from
           s == R % from
           P == q * to
<1>1. q \in Nat /\ r \in Nat /\ d = from * q + r
  BY Division
<1> HIDE DEF q, r
<1>2. R \in Nat /\ P \in Nat
  BY <1>1
<1>3. d * to = P * from + R
  <2>1. d * to = (from * q) * to + r * to
    BY <1>1
  <2>2. (from * q) * to = (q * to) * from
    BY <1>1
  <2> QED BY <2>1, <2>2
<1> HIDE DEF R, P
<1>4. a \in Nat /\ s \in Nat /\ R = from * a + s /\ s < from
  BY <1>2, Division
<1> HIDE DEF a, s
<1>5. (P + a) * from = P * from + from * a /\ P * from \in Nat /\ from * a \in Nat
  BY <1>2, <1>4
<1>6. ScaleDuration(d, from, to) = P + a
  BY DEF ScaleDuration, P, a, R, q, r
<1> DEFINE D == d * to
           E == (P + a) * from
           F == P * from
           G == from * a
<1>7. D = F + R /\ E = F + G /\ R = G + s /\ F \in Nat /\ G \in Nat
  BY <1>3, <1>4, <1>5
<1> HIDE DEF D, E, F, G
<1>8. E <= D /\ D < E + from
  BY <1>4, <1>7
<1>9. P + a \in Nat
  BY <1>2, <1>4
<1> QED BY <1>6, <1>8, <1>9 DEF D, E

(* A duration scaled back is the duration it was unless something was lost *)
(* on the way: rounded up it is at least as long, by less than a tick.     *)
LEMMA ScaleDurationUpReaches ==
    ASSUME NEW d \in Nat, NEW from \in Nat \ {0}, NEW to \in Nat \ {0}
    PROVE  /\ ScaleDurationUp(d, from, to) \in Nat
           /\ ScaleDurationUp(d, from, to) * from >= d * to
           /\ (ScaleDurationUp(d, from, to) - 1) * from < d * to
<1> DEFINE down == ScaleDuration(d, from, to)
           back == ScaleDuration(down, to, from)
           D == d * to
           E == down * from
           B == back * to
<1>1. down \in Nat /\ E <= D /\ D < E + from
  BY ScaleDurationRoundsDown
<1> HIDE DEF down
<1>2. back \in Nat /\ B <= E /\ E < B + to
  BY <1>1, ScaleDurationRoundsDown
<1>3. ScaleDurationUp(d, from, to) = IF back < d THEN down + 1 ELSE down
  BY DEF ScaleDurationUp, back, down
<1> HIDE DEF back
<1>4. D \in Nat /\ E \in Nat /\ B \in Nat
  BY <1>1, <1>2
<1>5. (down + 1) * from = E + from /\ (down - 1) * from = E - from
  BY <1>1
<1>6. CASE back < d
  <2>1. B + to <= D
    <3>1. \A m, n \in Nat, t \in Nat : m < n => m * t + t <= n * t
      <4> SUFFICES ASSUME NEW m \in Nat, NEW n \in Nat, NEW t \in Nat, m < n
                   PROVE  m * t + t <= n * t
        OBVIOUS
      <4>1. PICK i \in Nat : n = m + 1 + i
        <5>1. n - m - 1 \in Nat /\ n = m + 1 + (n - m - 1)
          OBVIOUS
        <5> QED BY <5>1
      <4>2. n * t = m * t + t + i * t /\ i * t \in Nat
        BY <4>1
      <4> QED BY <4>2
    <3> QED BY <1>2, <1>6, <3>1
  <2> HIDE DEF D, E, B
  <2>2. E < D
    BY <1>2, <1>4, <2>1
  <2>3. down + 1 \in Nat /\ (down + 1) - 1 = down /\ E + from >= D
    BY <1>1, <1>4
  <2> QED BY <1>3, <1>5, <1>6, <2>2, <2>3 DEF D, E
<1>7. CASE ~(back < d)
  <2>1. D <= B
    <3>1. \A m, n \in Nat, t \in Nat : n <= m => n * t <= m * t
      <4> SUFFICES ASSUME NEW m \in Nat, NEW n \in Nat, NEW t \in Nat, n <= m
                   PROVE  n * t <= m * t
        OBVIOUS
      <4>1. PICK i \in Nat : m = n + i
        <5>1. m - n \in Nat /\ m = n + (m - n)
          OBVIOUS
        <5> QED BY <5>1
      <4>2. m * t = n * t + i * t /\ i * t \in Nat
        BY <4>1
      <4> QED BY <4>2
    <3> QED BY <1>2, <1>7, <3>1
  <2> HIDE DEF D, E, B
  <2>2. D <= E /\ E - from < D
    BY <1>1, <1>2, <1>4, <2>1
  <2> QED BY <1>1, <1>3, <1>5, <1>7, <2>2 DEF D, E
<1> QED BY <1>6, <1>7

(* A track that has taken a sample states its composition offset, and      *)
(* Close goes on only if every track has.                                  *)
Stated == \A t \in DOMAIN tracks : tracks[t].count > 0 => tracks[t].cttsOffsets # <<>>
Complete == closed /\ pc = "flush" => \A t \in DOMAIN tracks : tracks[t].count > 0

EditInv == Stated /\ Complete /\ EditReachesLastFrame

(* No track is taken a sample for.                                         *)
CountsStay ==
    /\ DOMAIN tracks' = DOMAIN tracks
    /\ \A t \in DOMAIN tracks : /\ tracks'[t].count = tracks[t].count
                                /\ tracks'[t].cttsOffsets = tracks[t].cttsOffsets

(* A step that takes no sample keeps what is stated of them; while there   *)
(* is no moov nothing is stated of its edits.                              *)
LEMMA EditFrame ==
    ASSUME EditInv, CountsStay, moov = {} \/ tracks' = tracks, moov' = moov,
           closed' /\ pc' = "flush" => closed /\ pc = "flush"
    PROVE  EditInv'
<1>1. Stated'
  BY DEF EditInv, Stated, CountsStay
<1>2. Complete'
  BY DEF EditInv, Complete, CountsStay
<1>3. EditReachesLastFrame'
  <2>1. CASE moov = {}
    BY <2>1 DEF EditReachesLastFrame
  <2>2. CASE tracks' = tracks
    BY <2>2 DEF EditInv, EditReachesLastFrame
  <2> QED BY <2>1, <2>2
<1> QED BY <1>1, <1>2, <1>3 DEF EditInv

(* Taking a sample states its offset.                                      *)
LEMMA AcceptEditInv ==
    ASSUME IInv, EditInv, pc \in {"reserve", "flush"}, moov = {},
           pc = "reserve" => ~closed, call.track \in DOMAIN tracks, Accept
    PROVE  EditInv'
<1> DEFINE t == call.track
           k == Taken(t, tracks[t], call.sample)
<1>1. /\ tracks \in Seq(TrackType) /\ t \in Nat /\ tracks[t] \in TrackType
      /\ TablesAgree(tracks[t]) /\ call.sample \in SampleType
  BY DEF IInv, TypeOK
<1>2. k \in TrackType /\ TablesAgree(k)
  BY <1>1, TakenType
<1>3. k.count > 0 /\ k.cttsOffsets # <<>>
  <2>1. /\ k.count = tracks[t].count + 1 /\ tracks[t].count \in Nat
        /\ k.cttsOffsets = RunValues(tracks[t].cttsOffsets, call.sample.offset)
    BY <1>1 DEF Taken, TrackType
  <2>2. tracks[t].cttsOffsets \in Seq(Int) /\ call.sample.offset \in Int
    BY <1>1 DEF TrackType, SampleType
  <2>3. RunValues(tracks[t].cttsOffsets, call.sample.offset) # <<>>
    <3> DEFINE values == tracks[t].cttsOffsets
               v == call.sample.offset
    <3>1. values \in Seq(Int) /\ v \in Int
      BY <2>2
    <3> HIDE DEF values, v
    <3>2. Len(Append(values, v)) = Len(values) + 1 /\ Len(values) \in Nat /\ Len(<<>>) = 0
      BY <3>1, AppendProperties, LenProperties, EmptySeq
    <3>3. Append(values, v) # <<>>
      BY <3>2
    <3>4. RunValues(values, v) # <<>>
      BY <3>2, <3>3 DEF RunValues, Extends
    <3> QED BY <3>4 DEF values, v
  <2> HIDE DEF k
  <2> QED BY <2>1, <2>3
<1>4. /\ tracks' = [tracks EXCEPT ![t] = k]
      /\ UNCHANGED <<closed, moov>>
  BY DEF Accept, io
<1> HIDE DEF k, t
<1>5. /\ DOMAIN tracks' = DOMAIN tracks /\ tracks'[t] = k
      /\ \A u \in DOMAIN tracks : u # t => tracks'[u] = tracks[u]
  BY <1>1, <1>4 DEF t
<1>6. Stated'
  BY <1>3, <1>5 DEF EditInv, Stated
<1>7. Complete'
  BY <1>3, <1>4, <1>5 DEF EditInv, Complete
<1>8. EditReachesLastFrame'
  BY <1>4 DEF EditReachesLastFrame
<1> QED BY <1>6, <1>7, <1>8 DEF EditInv

(* The moov states edits that reach the last frame of their track.         *)
LEMMA FinishEditInv == IInv /\ EditInv /\ Finish => EditInv'
<1> SUFFICES ASSUME IInv, EditInv, Finish PROVE EditInv'
  OBVIOUS
<1>1. /\ closed /\ pc = "flush" /\ pc' = "idle" /\ moov' = {Movie(payloadBase')}
      /\ UNCHANGED <<tracks, closed>>
  BY DEF Finish, Flushed
<1>2. Stated' /\ Complete'
  BY <1>1 DEF EditInv, Stated, Complete
<1>3. EditReachesLastFrame'
  <2> DEFINE base == payloadBase'
  <2> SUFFICES ASSUME NEW t \in DOMAIN tracks, NEW e \in Movie(base).traks[t].edits
               PROVE  LET shown == (tracks[t].presentedUntil - e.mediaTime) * MovieTimescale
                      IN  /\ e.duration * tracks[t].timescale >= shown
                          /\ (e.duration - 1) * tracks[t].timescale < shown
    BY <1>1 DEF EditReachesLastFrame
  <2> HIDE DEF base
  <2> DEFINE k == tracks[t]
             start == Greater(k.cttsOffsets[1], 0) + k.priming
             d == k.presentedUntil - start
  <2>1. k \in TrackType /\ k.cttsOffsets # <<>>
    BY <1>1 DEF EditInv, Stated, Complete, IInv, TypeOK
  <2>2. Movie(base).traks[t].edits = Edits(k)
    BY DEF Movie, TrackBox
  <2>3. /\ k.timescale \in Nat \ {0} /\ k.presentedUntil \in Int /\ k.priming \in Nat
        /\ k.cttsOffsets \in Seq(Int)
    BY <2>1 DEF TrackType
  <2> HIDE DEF k
  <2>4. k.cttsOffsets[1] \in Int
    BY <2>1, <2>3
  <2>5. start \in Nat
    BY <2>3, <2>4 DEF Greater
  <2>6. /\ ~(start <= 0 \/ start >= k.presentedUntil)
        /\ e = [mediaTime |-> start,
                duration |-> ScaleDurationUp(d, k.timescale, MovieTimescale)]
    BY <2>2 DEF Edits
  <2> HIDE DEF start
  <2>7. d \in Nat
    BY <2>3, <2>5, <2>6
  <2>8. e.mediaTime = start /\ e.duration = ScaleDurationUp(d, k.timescale, MovieTimescale)
    BY <2>6
  <2> HIDE DEF d
  <2>9. /\ e.duration * k.timescale >= d * MovieTimescale
        /\ (e.duration - 1) * k.timescale < d * MovieTimescale
    BY <2>3, <2>7, <2>8, ScaleDurationUpReaches, ProgressiveAssumption
  <2> QED BY <2>8, <2>9 DEF d, k
<1> QED BY <1>2, <1>3 DEF EditInv

(* Every step keeps what the edits are made from.                          *)
LEMMA NextEditInv == IInv /\ EditInv /\ [Next]_vars => EditInv'
<1> SUFFICES ASSUME IInv, EditInv, [Next]_vars PROVE EditInv'
  OBVIOUS
<1>0. /\ moov = {} \/ (pc = "idle" /\ closed)
      /\ tracks \in Seq(TrackType) /\ \A t \in DOMAIN tracks : tracks[t] \in TrackType
      /\ pc \in {"begin", "reserve"} => ~closed /\ call.track \in DOMAIN tracks
      /\ call = NoCall \/ call.track \in DOMAIN tracks
  BY DEF IInv, TypeOK, Control
<1>1. CASE AddTrack
  <2> DEFINE k == NewTrack(Configs[Len(tracks) + 1])
  <2>1. k.count = 0
    BY DEF NewTrack
  <2>2. tracks' = Append(tracks, k) /\ moov = {} /\ moov' = moov /\ ~closed'
    BY <1>0, <1>1 DEF AddTrack, io
  <2> HIDE DEF k
  <2>3. \A t \in DOMAIN tracks' : (t \in DOMAIN tracks /\ tracks'[t] = tracks[t]) \/ tracks'[t] = k
    BY <1>0, <2>2
  <2>4. Stated'
    BY <2>1, <2>3 DEF EditInv, Stated
  <2> QED BY <2>2, <2>4 DEF EditInv, Complete, EditReachesLastFrame
<1>2. ASSUME NEW t \in 1..Len(Configs), NEW s \in Samples, WriteSample(t, s) PROVE EditInv'
  <2> DEFINE c == ClockSample(tracks[t].clock, s).clock
             k == [tracks[t] EXCEPT !.clock = c]
  <2>1. tracks' = [tracks EXCEPT ![t] = k] /\ t \in DOMAIN tracks
    BY <1>2 DEF WriteSample
  <2>2. ~closed /\ moov = {} /\ moov' = moov /\ closed' = closed
    BY <1>0, <1>2 DEF WriteSample, io
  <2>3. k.count = tracks[t].count /\ k.cttsOffsets = tracks[t].cttsOffsets
    BY <1>0, <2>1 DEF TrackType
  <2> HIDE DEF k, c
  <2>4. CountsStay
    BY <1>0, <2>1, <2>3 DEF CountsStay
  <2> QED BY <2>2, <2>4, EditFrame
<1>3. CASE Begin
  <2>1. UNCHANGED <<tracks, moov>> /\ pc' = "reserve"
    BY <1>3 DEF Begin
  <2> QED BY <2>1, EditFrame DEF CountsStay
<1>4. ASSUME NEW k \in Partial, BeginFails(k) PROVE EditInv'
  <2>1. UNCHANGED <<tracks, moov>> /\ pc' = "idle"
    BY <1>4 DEF BeginFails
  <2> QED BY <2>1, EditFrame DEF CountsStay
<1>5. CASE Reserve
  <2>1. pc = "reserve" /\ moov = {} /\ ~closed /\ call.track \in DOMAIN tracks
    BY <1>0, <1>5 DEF Reserve
  <2>2. CASE Fits(call.sample.len)
    BY <1>5, <2>1, <2>2, AcceptEditInv DEF Reserve
  <2>3. CASE ~Fits(call.sample.len)
    <3>1. UNCHANGED <<tracks, moov, closed>>
      BY <1>5, <2>3 DEF Reserve, io
    <3> QED BY <2>1, <3>1, EditFrame DEF CountsStay
  <2> QED BY <2>2, <2>3
<1>6. CASE StartChunk
  <2>1. PICK t \in DOMAIN tracks : tracks' = [tracks EXCEPT ![t] = WithChunk(tracks[t], written)]
    BY <1>6 DEF StartChunk, Waiting
  <2>2. moov = {} /\ UNCHANGED <<moov, closed, pc>>
    BY <1>0, <1>6 DEF StartChunk, io
  <2>3. /\ WithChunk(tracks[t], written).count = tracks[t].count
        /\ WithChunk(tracks[t], written).cttsOffsets = tracks[t].cttsOffsets
    BY <1>0 DEF WithChunk, TrackType
  <2>4. CountsStay
    BY <1>0, <2>1, <2>3 DEF CountsStay
  <2> QED BY <2>2, <2>4, EditFrame
<1>7. CASE WriteMedia
  <2>1. moov = {} /\ UNCHANGED <<moov, closed, pc>>
    BY <1>0, <1>7 DEF WriteMedia
  <2>2. CASE tracks' = tracks
    BY <2>1, <2>2, EditFrame DEF CountsStay
  <2>3. CASE tracks' # tracks
    <3>1. tracks' = [tracks EXCEPT ![open.track] = Emptied(tracks[open.track])]
      BY <1>7, <2>3 DEF WriteMedia
    <3>2. open.track \in DOMAIN tracks
      BY <1>7 DEF IInv, Control, WriteMedia
    <3>3. /\ Emptied(tracks[open.track]).count = tracks[open.track].count
          /\ Emptied(tracks[open.track]).cttsOffsets = tracks[open.track].cttsOffsets
      BY <1>0, <3>2 DEF Emptied, TrackType
    <3>4. CountsStay
      BY <1>0, <3>1, <3>2, <3>3 DEF CountsStay
    <3> QED BY <2>1, <3>4, EditFrame
  <2> QED BY <2>2, <2>3
<1>8. ASSUME NEW k \in Partial, WriteMediaFails(k) PROVE EditInv'
  <2>1. UNCHANGED <<tracks, moov>> /\ pc' = "idle"
    BY <1>8 DEF WriteMediaFails
  <2> QED BY <2>1, EditFrame DEF CountsStay
<1>9. CASE FlushedForRoom
  <2>1. pc = "flush" /\ moov = {} /\ call.track \in DOMAIN tracks
    BY <1>0, <1>9 DEF FlushedForRoom, Flushed
  <2>2. CASE Fits(call.sample.len)
    BY <1>9, <2>1, <2>2, AcceptEditInv DEF FlushedForRoom
  <2>3. CASE ~Fits(call.sample.len)
    <3>1. UNCHANGED <<tracks, moov>> /\ pc' = "idle"
      BY <1>9, <2>3 DEF FlushedForRoom, io
    <3> QED BY <3>1, EditFrame DEF CountsStay
  <2> QED BY <2>2, <2>3
<1>10. CASE FlushedSample
  <2>1. UNCHANGED <<tracks, moov>> /\ pc' = "idle"
    BY <1>10 DEF FlushedSample, io
  <2> QED BY <2>1, EditFrame DEF CountsStay
<1>11. CASE Close
  <2>1. UNCHANGED <<tracks, moov>> /\ moov = {}
    BY <1>0, <1>11 DEF Close, io
  <2>2. pc' = "flush" => \A t \in DOMAIN tracks : tracks[t].count # 0
    BY <1>11 DEF Close
  <2>3. \A t \in DOMAIN tracks : tracks[t].count \in Nat
    BY <1>0 DEF TrackType
  <2>4. Complete'
    BY <2>1, <2>2, <2>3 DEF Complete
  <2> QED BY <2>1, <2>4 DEF EditInv, Stated, EditReachesLastFrame
<1>12. CASE RefuseClosed \/ UNCHANGED vars
  <2>1. UNCHANGED <<tracks, moov, pc, closed>>
    BY <1>12 DEF RefuseClosed, vars, io
  <2> QED BY <2>1, EditFrame DEF CountsStay
<1>13. CASE Finish
  BY <1>13, FinishEditInv
<1>14. CASE FinishFails
  <2>1. UNCHANGED <<tracks, moov>> /\ pc' = "idle"
    BY <1>14 DEF FinishFails
  <2> QED BY <2>1, EditFrame DEF CountsStay
<1> QED
  BY <1>1, <1>2, <1>3, <1>4, <1>5, <1>6, <1>7, <1>8, <1>9, <1>10, <1>11, <1>12, <1>13, <1>14
  DEF Next, Step

(* In every file the edit of a track ends where its last frame does, or in *)
(* the tick of the movie that follows: rounding the duration of an edit    *)
(* never cuts a frame short (edits, scaleDurationUp).                      *)
THEOREM ProgressiveEdits == Spec => []EditReachesLastFrame
<1>1. Init => EditInv
  BY DEF Init, EditInv, Stated, Complete, EditReachesLastFrame
<1>2. EditInv => EditReachesLastFrame
  BY DEF EditInv
<1> QED BY <1>1, <1>2, InitInv, NextInv, NextEditInv, PTL DEF Spec

(***************************************************************************)
(* The media held in memory.                                               *)
(***************************************************************************)
(* How many bytes a sequence of samples has.                               *)
BytesIn(s) == SumTo([i \in DOMAIN s |-> Len(s[i])], Len(s))

(* The samples of track t flush has not written.                           *)
Unsent(t) ==
    IF open.track = t THEN SubSeq(tracks[t].pending, open.sent + 1, Len(tracks[t].pending))
    ELSE tracks[t].pending

UnsentBytes == [t \in DOMAIN tracks |-> BytesIn(Unsent(t))]

(* What the muxer counts is what it holds, as long as no write of media    *)
(* was refused, and that is never more than the limit.                     *)
HeldInv ==
    /\ setup \in Setups
    /\ faults.media = 0 =>
         /\ pendingBytes = SumTo(UnsentBytes, Len(tracks))
         /\ Held <= MemoryLimit

(* What comes behind the first m of a sequence.                            *)
LEMMA RestOf ==
    ASSUME NEW S, NEW s \in Seq(S), NEW m \in Nat, m <= Len(s)
    PROVE  /\ SubSeq(s, m + 1, Len(s)) \in Seq(S)
           /\ Len(SubSeq(s, m + 1, Len(s))) = Len(s) - m
           /\ \A i \in 1..(Len(s) - m) : SubSeq(s, m + 1, Len(s))[i] = s[m + i]
<1> DEFINE n == Len(s)
           a == m + 1
<1>1. n \in Nat /\ \A i \in 1..n : s[i] \in S
  BY LenProperties, ElementOfSeq
<1>2. a \in Int /\ n \in Int /\ \A i \in a..n : s[i] \in S
  BY <1>1
<1>3. m <= n /\ a = m + 1
  OBVIOUS
<1> HIDE DEF n, a
<1>4. /\ SubSeq(s, a, n) \in Seq(S)
      /\ Len(SubSeq(s, a, n)) = IF a <= n THEN n - a + 1 ELSE 0
      /\ \A i \in 1..(n - a + 1) : SubSeq(s, a, n)[i] = s[a + i - 1]
  <2>1. SubSeq(s, a, n) \in Seq(S)
    BY <1>2, SubSeqProperties
  <2>2. Len(SubSeq(s, a, n)) = IF a <= n THEN n - a + 1 ELSE 0
    BY <1>2, SubSeqProperties
  <2>3. \A i \in 1..(n - a + 1) : SubSeq(s, a, n)[i] = s[a + i - 1]
    BY <1>2, SubSeqProperties
  <2> QED BY <2>1, <2>2, <2>3, Zenon
<1> DEFINE q == SubSeq(s, a, n)
<1> HIDE DEF q
<1>5. q \in Seq(S) /\ Len(q) = n - m /\ \A i \in 1..(n - m) : q[i] = s[m + i]
  <2>1. /\ Len(q) = IF a <= n THEN n - a + 1 ELSE 0
        /\ \A i \in 1..(n - a + 1) : q[i] = s[a + i - 1]
    BY <1>4 DEF q
  <2>2. n - a + 1 = n - m /\ (a <= n \/ n - m = 0)
    BY <1>1, <1>3
  <2>3. \A i \in Int : a + i - 1 = m + i
    BY <1>3
  <2>4. q \in Seq(S)
    BY <1>4 DEF q
  <2>5. Len(q) = n - m
    BY <2>1, <2>2
  <2>6. \A i \in 1..(n - m) : q[i] = s[m + i]
    <3> SUFFICES ASSUME NEW i \in 1..(n - m) PROVE q[i] = s[m + i]
      OBVIOUS
    <3>1. i \in Int /\ i \in 1..(n - a + 1)
      BY <2>2
    <3>2. q[i] = s[a + i - 1]
      BY <2>1, <3>1
    <3> QED BY <2>3, <3>1, <3>2
  <2> QED BY <2>4, <2>5, <2>6
<1> QED BY <1>5 DEF q, a, n

(* No samples have no bytes.                                               *)
LEMMA BytesEmpty == BytesIn(<<>>) = 0
BY SumZero DEF BytesIn

(* A sample more has as many bytes more,                                   *)
LEMMA BytesAppend ==
    ASSUME NEW s \in Seq(Seq(MediaByte)), NEW e \in Seq(MediaByte)
    PROVE  BytesIn(Append(s, e)) = BytesIn(s) + Len(e)
<1> DEFINE n == Len(s)
           se == Append(s, e)
           f == [i \in DOMAIN s |-> Len(s[i])]
           g == [i \in DOMAIN se |-> Len(se[i])]
<1>1. /\ n \in Nat /\ DOMAIN s = 1..n /\ Len(se) = n + 1 /\ DOMAIN se = 1..(n + 1)
      /\ se[n + 1] = e /\ \A i \in 1..n : se[i] = s[i]
  BY AppendProperties, LenProperties
<1>2. BytesIn(s) = SumTo(f, n) /\ BytesIn(se) = SumTo(g, n + 1)
  BY <1>1, Zenon DEF BytesIn
<1>3. n + 1 \in DOMAIN se /\ \A i \in 1..n : i \in DOMAIN se /\ i \in DOMAIN s
  BY <1>1
<1>4. g[n + 1] = Len(e) /\ \A i \in 1..n : f[i] = g[i]
  BY <1>1, <1>3
<1> HIDE DEF f, g, n, se
<1>5. SumTo(g, n + 1) = SumTo(g, n) + g[n + 1]
  BY <1>1, SumStep
<1>6. SumTo(f, n) = SumTo(g, n)
  BY <1>1, <1>4, SumSame
<1> QED BY <1>2, <1>4, <1>5, <1>6 DEF se

(* and the first of those that are left as many as they have more than the *)
(* others.                                                                 *)
LEMMA BytesTail ==
    ASSUME NEW s \in Seq(Seq(MediaByte)), NEW m \in Nat, m < Len(s)
    PROVE  BytesIn(SubSeq(s, m + 1, Len(s))) = Len(s[m + 1]) + BytesIn(SubSeq(s, m + 2, Len(s)))
<1> DEFINE n == Len(s)
           t == SubSeq(s, m + 1, n)
           u == SubSeq(s, m + 2, n)
           k == n - m - 1
<1>1. n \in Nat /\ k \in Nat /\ n = m + 1 + k /\ n - m = k + 1 /\ n - (m + 1) = k
  BY LenProperties
<1>2. m <= n /\ m + 1 \in Nat /\ m + 1 <= n /\ (m + 1) + 1 = m + 2
  BY <1>1
<1>3. /\ t \in Seq(Seq(MediaByte)) /\ Len(t) = n - m
      /\ \A i \in 1..(n - m) : t[i] = s[m + i]
  BY <1>2, RestOf
<1>4. /\ u \in Seq(Seq(MediaByte)) /\ Len(u) = n - (m + 1)
      /\ \A i \in 1..(n - (m + 1)) : u[i] = s[m + 1 + i]
  <2> DEFINE l == m + 1
  <2>1. l \in Nat /\ l <= n
    BY <1>2
  <2> HIDE DEF l
  <2>2. /\ SubSeq(s, l + 1, n) \in Seq(Seq(MediaByte)) /\ Len(SubSeq(s, l + 1, n)) = n - l
        /\ \A i \in 1..(n - l) : SubSeq(s, l + 1, n)[i] = s[l + i]
    BY <2>1, RestOf
  <2>3. u = SubSeq(s, l + 1, n)
    BY <1>2 DEF l
  <2> HIDE DEF u
  <2> QED BY <2>2, <2>3 DEF l
<1> HIDE DEF n, t, u, k
<1>5. /\ Len(t) = k + 1 /\ DOMAIN t = 1..(k + 1) /\ \A i \in 1..(k + 1) : t[i] = s[m + i]
      /\ Len(u) = k /\ DOMAIN u = 1..k /\ \A i \in 1..k : u[i] = s[m + 1 + i]
  BY <1>1, <1>3, <1>4, LenProperties
<1> DEFINE f == [i \in DOMAIN t |-> Len(t[i])]
           g == [i \in DOMAIN u |-> Len(u[i])]
<1>6. BytesIn(t) = SumTo(f, k + 1) /\ BytesIn(u) = SumTo(g, k)
  BY <1>5, Zenon DEF BytesIn
<1>7. \A i \in 1..(k + 1) : f[i] = Len(t[i]) /\ f[i] \in Int
  <2>1. \A i \in 1..(k + 1) : t[i] \in Seq(MediaByte)
    BY <1>3, <1>5, ElementOfSeq
  <2> QED BY <1>5, <2>1, LenProperties
<1>8. \A i \in 1..k : g[i] = Len(u[i])
  BY <1>5
<1> HIDE DEF f, g
<1>9. \A i \in 1..k : g[i] = f[i + 1]
  <2> SUFFICES ASSUME NEW i \in 1..k PROVE g[i] = f[i + 1]
    OBVIOUS
  <2>1. i + 1 \in 1..(k + 1) /\ m + (i + 1) = m + 1 + i
    BY <1>1
  <2>2. t[i + 1] = u[i]
    BY <1>5, <2>1
  <2>3. f[i + 1] = Len(t[i + 1]) /\ g[i] = Len(u[i])
    BY <1>7, <1>8, <2>1
  <2> QED BY <2>2, <2>3, Zenon
<1>10. SumTo(f, k + 1) = f[1] + SumTo(g, k)
  <2>1. k \in Nat /\ \A i \in 1..(k + 1) : f[i] \in Int
    BY <1>1, <1>7
  <2> QED BY <1>9, <2>1, SumTail
<1>11. f[1] = Len(s[m + 1])
  <2>1. 1 \in 1..(k + 1)
    BY <1>1
  <2> QED BY <1>5, <1>7, <2>1
<1> QED BY <1>6, <1>10, <1>11 DEF t, u, n

(* They are a number.                                                      *)
LEMMA BytesType ==
    ASSUME NEW s \in Seq(Seq(MediaByte))
    PROVE  BytesIn(s) \in Int
<1> DEFINE f == [i \in DOMAIN s |-> Len(s[i])]
<1>1. Len(s) \in Nat /\ DOMAIN s = 1..Len(s) /\ \A i \in 1..Len(s) : s[i] \in Seq(MediaByte)
  BY LenProperties, ElementOfSeq
<1>2. \A i \in 1..Len(s) : f[i] \in Int
  BY <1>1, LenProperties
<1> HIDE DEF f
<1>3. SumTo(f, Len(s)) \in Int
  BY <1>1, <1>2, SumIsInt
<1> QED BY <1>3 DEF BytesIn, f

(* What is held is what is counted.                                        *)
LEMMA HeldInvHolds == IInv /\ HeldInv => (faults.media = 0 => MediaWithinLimit)
<1> SUFFICES ASSUME HeldInv, IInv, faults.media = 0 PROVE MediaHeld <= MemoryLimit
  BY DEF MediaWithinLimit
<1>1. MediaHeld = Len(buffered) + SumTo(UnsentBytes, Len(tracks))
  BY Zenon DEF MediaHeld, UnsentBytes, BytesIn, Unsent
<1>2. /\ pendingBytes = SumTo(UnsentBytes, Len(tracks))
      /\ pendingBytes + Len(buffered) <= MemoryLimit
  BY DEF HeldInv, Held
<1>3. pendingBytes \in Int /\ Len(buffered) \in Nat
  BY LenProperties DEF IInv, TypeOK
<1> QED BY <1>1, <1>2, <1>3

(* The samples a track has left are sequences of bytes.                    *)
LEMMA UnsentType ==
    ASSUME IInv
    PROVE  \A t \in DOMAIN tracks :
             Unsent(t) \in Seq(Seq(MediaByte)) /\ BytesIn(Unsent(t)) \in Int
<1> SUFFICES ASSUME NEW t \in DOMAIN tracks
             PROVE  Unsent(t) \in Seq(Seq(MediaByte)) /\ BytesIn(Unsent(t)) \in Int
  OBVIOUS
<1>1. tracks[t].pending \in Seq(Seq(MediaByte))
  <2>1. tracks[t] \in TrackType
    BY DEF IInv, TypeOK
  <2> QED BY <2>1 DEF TrackType
<1>2. Unsent(t) \in Seq(Seq(MediaByte))
  <2>1. CASE open.track = t
    <3>1. open # NoChunk
      <4>1. t # 0
        BY DEF IInv, TypeOK
      <4> QED BY <2>1, <4>1 DEF NoChunk
    <3>2. open.sent \in Nat /\ open.sent <= Len(tracks[t].pending)
      <4>1. open.sent \in Nat /\ open.sent < Len(tracks[t].pending)
        BY <2>1, <3>1 DEF IInv, TypeOK, Control
      <4>2. Len(tracks[t].pending) \in Nat
        BY <1>1, LenProperties
      <4> QED BY <4>1, <4>2
    <3>3. SubSeq(tracks[t].pending, open.sent + 1, Len(tracks[t].pending))
            \in Seq(Seq(MediaByte))
      BY <1>1, <3>2, RestOf
    <3> QED BY <2>1, <3>3, Zenon DEF Unsent
  <2>2. CASE open.track # t
    BY <1>1, <2>2, Zenon DEF Unsent
  <2> QED BY <2>1, <2>2
<1> QED BY <1>2, BytesType

(* A step that leaves every track as many bytes keeps the sum,             *)
LEMMA UnsentStays ==
    ASSUME IInv, DOMAIN tracks' = DOMAIN tracks, Len(tracks') = Len(tracks),
           \A t \in DOMAIN tracks : BytesIn(Unsent(t)') = BytesIn(Unsent(t))
    PROVE  SumTo(UnsentBytes', Len(tracks)) = SumTo(UnsentBytes, Len(tracks))
<1>1. Len(tracks) \in Nat /\ DOMAIN tracks = 1..Len(tracks)
  BY LenProperties DEF IInv, TypeOK
<1>2. \A t \in 1..Len(tracks) : UnsentBytes'[t] = UnsentBytes[t]
  BY <1>1, Zenon DEF UnsentBytes
<1> QED BY <1>1, <1>2, SumSame

(* and one that changes a track changes it by as much.                     *)
LEMMA UnsentChanges ==
    ASSUME IInv, DOMAIN tracks' = DOMAIN tracks,
           NEW u \in DOMAIN tracks, NEW delta \in Int,
           BytesIn(Unsent(u)') = BytesIn(Unsent(u)) + delta,
           \A t \in DOMAIN tracks : t # u => BytesIn(Unsent(t)') = BytesIn(Unsent(t))
    PROVE  SumTo(UnsentBytes', Len(tracks)) = SumTo(UnsentBytes, Len(tracks)) + delta
<1> DEFINE n == Len(tracks)
           f == UnsentBytes
           g == UnsentBytes'
<1>1. n \in Nat /\ DOMAIN tracks = 1..n
  BY LenProperties DEF IInv, TypeOK
<1>2. /\ \A t \in 1..n : f[t] = BytesIn(Unsent(t))
      /\ \A t \in 1..n : g[t] = BytesIn(Unsent(t)')
  BY <1>1, Zenon DEF UnsentBytes
<1> HIDE DEF n, f, g
<1>3. \A t \in 1..n : f[t] \in Int
  BY <1>1, <1>2, UnsentType
<1>4. g[u] = f[u] + delta /\ \A t \in 1..n : t # u => g[t] = f[t]
  BY <1>1, <1>2
<1>5. f[u] \in Int /\ g[u] \in Int /\ u \in 1..n
  BY <1>1, <1>3, <1>4
<1>6. SumTo(g, n) = SumTo(f, n) - f[u] + g[u]
  BY <1>1, <1>3, <1>4, <1>5, SumChange
<1>7. SumTo(f, n) \in Int
  BY <1>1, <1>3, SumIsInt
<1>8. SumTo(g, n) = SumTo(f, n) + delta
  BY <1>4, <1>5, <1>6, <1>7
<1> QED BY <1>8 DEF n, f, g

(* A step that takes and writes nothing holds no more than before.         *)
LEMMA HeldFrame ==
    ASSUME IInv, HeldInv, UNCHANGED <<tracks, open, pendingBytes, setup>>,
           buffered' = buffered \/ buffered' = <<>>,
           faults'.media = 0 => faults.media = 0
    PROVE  HeldInv'
<1>1. UnsentBytes' = UnsentBytes
  BY Zenon DEF UnsentBytes, Unsent
<1>2. Held \in Int /\ pendingBytes \in Int /\ Held' <= Held
  <2>1. /\ pendingBytes \in Int /\ Len(buffered) \in Nat /\ Len(buffered') \in Nat
        /\ Len(buffered') <= Len(buffered)
    <3>1. buffered \in Seq(MediaByte) /\ pendingBytes \in Int
      BY DEF IInv, TypeOK
    <3>2. Len(buffered) \in Nat /\ Len(<<>>) = 0
      BY <3>1, LenProperties
    <3> QED BY <3>1, <3>2
  <2> QED BY <2>1 DEF Held
<1>3. setup' \in Setups /\ MemoryLimit' = MemoryLimit /\ MemoryLimit \in Nat /\ Held' \in Int
  <2>1. setup \in Setups
    BY DEF HeldInv
  <2>2. setup.limit \in Nat
    BY <2>1, ProgressiveAssumption
  <2>3. Held' \in Int
    <3>1. buffered' \in Seq(MediaByte)
      <4>1. buffered \in Seq(MediaByte) /\ <<>> \in Seq(MediaByte)
        BY EmptySeq DEF IInv, TypeOK
      <4> QED BY <4>1
    <3>2. Len(buffered') \in Nat /\ pendingBytes' \in Int
      BY <1>2, <3>1, LenProperties
    <3> QED BY <3>2 DEF Held
  <2> QED BY <2>1, <2>2, <2>3 DEF MemoryLimit
<1>4. ASSUME faults'.media = 0
      PROVE  pendingBytes' = SumTo(UnsentBytes', Len(tracks')) /\ Held' <= MemoryLimit'
  BY <1>1, <1>2, <1>3, <1>4 DEF HeldInv
<1> QED BY <1>3, <1>4 DEF HeldInv

(* A track is declared with nothing to write.                              *)
LEMMA AddTrackHeldInv == IInv /\ HeldInv /\ AddTrack /\ setup' = setup => HeldInv'
<1> SUFFICES ASSUME IInv, HeldInv, AddTrack, setup' = setup PROVE HeldInv'
  OBVIOUS
<1> DEFINE k == NewTrack(Configs[Len(tracks) + 1])
<1>0. PICK n : n = Len(tracks)
  OBVIOUS
<1>1. k.pending = <<>> /\ tracks' = Append(tracks, k)
  BY DEF NewTrack, AddTrack
<1> HIDE DEF k
<1>2. UNCHANGED <<open, pendingBytes, buffered, faults>> /\ open = NoChunk
  BY DEF AddTrack, IInv, Control
<1>3. n \in Nat /\ DOMAIN tracks = 1..n /\ tracks \in Seq(TrackType)
  BY <1>0, LenProperties DEF IInv, TypeOK
<1>4. /\ Len(tracks') = n + 1 /\ DOMAIN tracks' = 1..(n + 1)
      /\ tracks'[n + 1] = k /\ \A t \in 1..n : tracks'[t] = tracks[t]
  BY <1>0, <1>1, <1>3
<1>5. /\ \A t \in 1..n : UnsentBytes'[t] = UnsentBytes[t]
      /\ UnsentBytes'[n + 1] = 0
  <2>1. \A t : t \in 1..(n + 1) => Unsent(t) = tracks[t].pending /\ Unsent(t)' = tracks'[t].pending
    <3>1. \A t \in 1..(n + 1) : open.track # t
      BY <1>2, <1>3 DEF NoChunk
    <3> QED BY <1>2, <3>1, Zenon DEF Unsent
  <2>2. \A t \in 1..n : t \in 1..(n + 1)
    BY <1>3
  <2>3. \A t \in 1..n : UnsentBytes'[t] = UnsentBytes[t]
    <3> SUFFICES ASSUME NEW t \in 1..n PROVE UnsentBytes'[t] = UnsentBytes[t]
      OBVIOUS
    <3>1. UnsentBytes'[t] = BytesIn(Unsent(t)') /\ UnsentBytes[t] = BytesIn(Unsent(t))
      BY <1>3, <1>4, <2>2, Zenon DEF UnsentBytes
    <3> QED BY <1>4, <2>1, <2>2, <3>1, Zenon
  <2>4. n + 1 \in 1..(n + 1)
    BY <1>3
  <2>5. UnsentBytes'[n + 1] = BytesIn(Unsent(n + 1)')
    BY <1>4, <2>4, Zenon DEF UnsentBytes
  <2>6. Unsent(n + 1)' = <<>>
    BY <1>1, <1>4, <2>1, <2>4, Zenon
  <2>7. UnsentBytes'[n + 1] = 0
    BY <2>5, <2>6, BytesEmpty
  <2> QED BY <2>3, <2>7
<1> DEFINE f == UnsentBytes
           g == UnsentBytes'
<1>6. \A t \in 1..n : f[t] \in Int
  <2>1. \A t \in 1..n : f[t] = BytesIn(Unsent(t))
    BY <1>3, Zenon DEF UnsentBytes
  <2> QED BY <1>3, <2>1, UnsentType
<1> HIDE DEF f, g
<1>7. SumTo(g, n + 1) = SumTo(g, n) + g[n + 1] /\ SumTo(g, n) = SumTo(f, n)
  BY <1>3, <1>5, SumStep, SumSame DEF f, g
<1>8. SumTo(g, n + 1) = SumTo(f, n)
  <2>1. SumTo(f, n) \in Int
    BY <1>3, <1>6, SumIsInt
  <2> QED BY <1>5, <1>7, <2>1 DEF g
<1> QED BY <1>0, <1>2, <1>4, <1>8 DEF HeldInv, Held, MemoryLimit, f, g

(* A track one of whose samples goes, or to which one comes, has others    *)
(* left as they were.                                                      *)
LEMMA OneTrackHeld ==
    ASSUME IInv, HeldInv, setup' = setup, faults' = faults,
           DOMAIN tracks' = DOMAIN tracks, Len(tracks') = Len(tracks),
           NEW u \in DOMAIN tracks, NEW delta \in Int,
           BytesIn(Unsent(u)') = BytesIn(Unsent(u)) + delta,
           \A t \in DOMAIN tracks : t # u => BytesIn(Unsent(t)') = BytesIn(Unsent(t)),
           pendingBytes' = pendingBytes + delta,
           Held <= MemoryLimit => Held' <= MemoryLimit
    PROVE  HeldInv'
<1>1. SumTo(UnsentBytes', Len(tracks)) = SumTo(UnsentBytes, Len(tracks)) + delta
  BY UnsentChanges
<1>2. ASSUME faults'.media = 0
      PROVE  pendingBytes' = SumTo(UnsentBytes', Len(tracks')) /\ Held' <= MemoryLimit'
  BY <1>1, <1>2 DEF HeldInv, MemoryLimit
<1> QED BY <1>2 DEF HeldInv

(* A sample is taken where there is room for it.                           *)
LEMMA AcceptHeldInv ==
    ASSUME IInv, HeldInv, open = NoChunk, call.track \in DOMAIN tracks,
           Fits(call.sample.len), Accept, setup' = setup
    PROVE  HeldInv'
<1>0. PICK t, len : t = call.track /\ len = call.sample.len
  OBVIOUS
<1> DEFINE k == Taken(t, tracks[t], call.sample)
           bytes == Data(t, tracks[t].count + 1, len)
<1>1. /\ tracks \in Seq(TrackType) /\ t \in Nat /\ tracks[t] \in TrackType
      /\ TablesAgree(tracks[t]) /\ call.sample \in SampleType /\ t \in DOMAIN tracks
  BY <1>0 DEF IInv, TypeOK
<1>2. len \in Nat /\ tracks[t].count + 1 \in Nat /\ tracks[t].pending \in Seq(Seq(MediaByte))
  <2>1. tracks[t].count \in Nat /\ tracks[t].pending \in Seq(Seq(MediaByte))
    BY <1>1 DEF TrackType
  <2>2. len \in Nat
    BY <1>0, <1>1 DEF SampleType
  <2> QED BY <2>1, <2>2
<1>3. bytes \in Seq(MediaByte) /\ Len(bytes) = len
  BY <1>1, <1>2, DataType
<1>4. k \in TrackType /\ k.pending = Append(tracks[t].pending, bytes)
  <2>1. k \in TrackType
    BY <1>1, TakenType
  <2>2. k.pending = Append(tracks[t].pending, bytes)
    BY <1>0 DEF Taken
  <2> QED BY <2>1, <2>2
<1>5. /\ tracks' = [tracks EXCEPT ![t] = k] /\ pendingBytes' = pendingBytes + len
      /\ UNCHANGED <<buffered, open, faults>>
  BY <1>0 DEF Accept
<1> HIDE DEF k, bytes
<1>6. /\ DOMAIN tracks' = DOMAIN tracks /\ Len(tracks') = Len(tracks) /\ tracks'[t] = k
      /\ \A u \in DOMAIN tracks : u # t => tracks'[u] = tracks[u]
  BY <1>1, <1>4, <1>5
<1>7. \A u \in DOMAIN tracks : Unsent(u) = tracks[u].pending /\ Unsent(u)' = tracks'[u].pending
  <2>1. \A u \in DOMAIN tracks : open.track # u
    BY <1>1 DEF NoChunk
  <2> QED BY <1>5, <2>1, Zenon DEF Unsent
<1>8. t \in DOMAIN tracks
  BY <1>1
<1>9. BytesIn(Unsent(t)') = BytesIn(Unsent(t)) + len
  <2>1. BytesIn(Append(tracks[t].pending, bytes)) = BytesIn(tracks[t].pending) + Len(bytes)
    BY <1>2, <1>3, BytesAppend
  <2> QED BY <1>3, <1>4, <1>6, <1>7, <1>8, <2>1
<1>10. \A u \in DOMAIN tracks : u # t => BytesIn(Unsent(u)') = BytesIn(Unsent(u))
  BY <1>6, <1>7
<1>11. Held' <= MemoryLimit
  <2>1. Held + len <= MemoryLimit
    BY <1>0 DEF Fits
  <2>2. pendingBytes \in Int /\ Len(buffered) \in Nat
    BY LenProperties DEF IInv, TypeOK
  <2>3. Held' = Held + len
    BY <1>2, <1>5, <2>2 DEF Held
  <2> QED BY <2>1, <2>3
<1>12. len \in Int
  BY <1>2
<1> QED BY <1>5, <1>6, <1>8, <1>9, <1>10, <1>11, <1>12, OneTrackHeld

(* A chunk that is opened has all there is to write of its track.          *)
LEMMA StartChunkHeldInv ==
    ASSUME IInv, HeldInv, StartChunk, setup' = setup
    PROVE  HeldInv'
<1>1. PICK t \in Waiting :
        /\ tracks' = [tracks EXCEPT ![t] = WithChunk(tracks[t], written)]
        /\ open' = [track |-> t, sent |-> 0]
  BY DEF StartChunk
<1>2. /\ tracks \in Seq(TrackType) /\ t \in DOMAIN tracks /\ tracks[t] \in TrackType
      /\ TablesAgree(tracks[t]) /\ written \in Nat
  BY DEF IInv, TypeOK, Waiting
<1> DEFINE k == WithChunk(tracks[t], written)
           p == tracks[t].pending
<1>3. k \in TrackType /\ k.pending = p
  BY <1>2, WithChunkType
<1>4. p \in Seq(Seq(MediaByte)) /\ Len(p) \in Nat /\ SubSeq(p, 1, Len(p)) = p
  <2>1. p \in Seq(Seq(MediaByte))
    BY <1>2 DEF TrackType
  <2> HIDE DEF p
  <2> QED BY <2>1, LenProperties, SubSeqFull
<1>5. tracks' = [tracks EXCEPT ![t] = k]
  BY <1>1
<1> HIDE DEF k, p
<1>6. /\ DOMAIN tracks' = DOMAIN tracks /\ Len(tracks') = Len(tracks) /\ tracks'[t] = k
      /\ \A u \in DOMAIN tracks : u # t => tracks'[u] = tracks[u]
  BY <1>2, <1>3, <1>5
<1>7. UNCHANGED <<buffered, pendingBytes, faults>> /\ open = NoChunk
  BY DEF StartChunk
<1>8. \A u \in DOMAIN tracks : open.track # u
  BY <1>2, <1>7 DEF NoChunk
<1>9. \A u \in DOMAIN tracks : BytesIn(Unsent(u)') = BytesIn(Unsent(u))
  <2> SUFFICES ASSUME NEW u \in DOMAIN tracks PROVE BytesIn(Unsent(u)') = BytesIn(Unsent(u))
    OBVIOUS
  <2>1. Unsent(u) = tracks[u].pending
    BY <1>8, Zenon DEF Unsent
  <2>2. CASE u = t
    <3>1. open'.track = t /\ open'.sent + 1 = 1
      BY <1>1
    <3>2. Unsent(t)' = SubSeq(tracks'[t].pending, open'.sent + 1, Len(tracks'[t].pending))
      BY <3>1, Zenon DEF Unsent
    <3>3. Unsent(t)' = SubSeq(p, 1, Len(p))
      BY <1>3, <1>6, <3>1, <3>2, Zenon
    <3> QED BY <1>4, <2>1, <2>2, <3>3, Zenon DEF p
  <2>3. CASE u # t
    <3>1. open'.track # u
      BY <1>1, <2>3
    <3>2. Unsent(u)' = tracks'[u].pending
      BY <3>1, Zenon DEF Unsent
    <3> QED BY <1>6, <2>1, <2>3, <3>2, Zenon
  <2> QED BY <2>2, <2>3
<1>10. SumTo(UnsentBytes', Len(tracks)) = SumTo(UnsentBytes, Len(tracks))
  BY <1>6, <1>9, UnsentStays
<1> QED BY <1>6, <1>7, <1>10 DEF HeldInv, Held, MemoryLimit

(* A sample that is written is no longer pending: it is in the file, or in *)
(* what is buffered of it.                                                 *)
LEMMA WriteMediaHeldInv ==
    ASSUME IInv, HeldInv, WriteMedia, setup' = setup
    PROVE  HeldInv'
<1>1. PICK t, sent, len : t = open.track /\ sent = open.sent /\ len = Len(NextData)
  OBVIOUS
<1> DEFINE p == tracks[t].pending
           n == Len(p)
           rest == SubSeq(p, sent + 2, n)
           delta == 0 - len
<1>2. /\ tracks \in Seq(TrackType) /\ t \in DOMAIN tracks /\ tracks[t] \in TrackType
      /\ TablesAgree(tracks[t]) /\ NextData \in Seq(MediaByte) /\ len \in Nat
  BY <1>1, NextDataType DEF IInv, TypeOK, WriteMedia
<1>3. p \in Seq(Seq(MediaByte)) /\ n \in Nat /\ sent \in Nat /\ sent < n
  <2>1. p \in Seq(Seq(MediaByte))
    BY <1>2 DEF TrackType
  <2>2. sent \in Nat /\ sent < n
    BY <1>1 DEF IInv, TypeOK, Control, WriteMedia
  <2> QED BY <2>1, <2>2, LenProperties
<1>4. /\ pendingBytes' = pendingBytes + delta /\ faults' = faults /\ delta \in Int
  <2>1. pendingBytes' = pendingBytes - len /\ faults' = faults
    BY <1>1 DEF WriteMedia
  <2>2. pendingBytes \in Int
    BY DEF IInv, TypeOK
  <2> QED BY <1>2, <2>1, <2>2
<1>5. Len(p[sent + 1]) = len
  BY <1>1 DEF NextData
<1>6. BytesIn(Unsent(t)) = len + BytesIn(rest)
  <2>1. Unsent(t) = SubSeq(p, sent + 1, n)
    BY <1>1, Zenon DEF Unsent
  <2> HIDE DEF p
  <2>2. BytesIn(SubSeq(p, sent + 1, n)) = Len(p[sent + 1]) + BytesIn(rest)
    BY <1>3, BytesTail
  <2> HIDE DEF n, rest
  <2> QED BY <1>5, <2>1, <2>2
<1>7. rest \in Seq(Seq(MediaByte)) /\ (sent + 1 = n => rest = <<>>)
  <2> DEFINE l == sent + 1
  <2>1. l \in Nat /\ l <= n
    BY <1>3
  <2>2. rest = SubSeq(p, l + 1, n)
    <3>1. l + 1 = sent + 2
      BY <1>3
    <3> HIDE DEF p, n
    <3> QED BY <3>1
  <2> HIDE DEF l, p, rest
  <2>3. SubSeq(p, l + 1, n) \in Seq(Seq(MediaByte))
    BY <1>3, <2>1, RestOf
  <2>4. sent + 1 = n => SubSeq(p, l + 1, n) = <<>>
    <3>1. sent + 1 = n => n < l + 1 /\ l + 1 \in Int /\ n \in Int
      BY <1>3, <2>1 DEF l
    <3> QED BY <3>1, SubSeqEmpty
  <2> QED BY <2>2, <2>3, <2>4
<1>8. /\ DOMAIN tracks' = DOMAIN tracks /\ Len(tracks') = Len(tracks)
      /\ \A u \in DOMAIN tracks : u # t => tracks'[u] = tracks[u]
      /\ BytesIn(Unsent(t)') = BytesIn(rest)
      /\ \A u \in DOMAIN tracks : u # t => open'.track # u
  <2>1. CASE sent + 1 < n
    <3>1. open' = [open EXCEPT !.sent = sent + 1] /\ tracks' = tracks
      BY <1>1, <2>1 DEF WriteMedia
    <3>2. open'.track = t /\ open'.sent = sent + 1
      BY <1>1, <3>1 DEF IInv, TypeOK
    <3>3. sent + 1 + 1 = sent + 2
      BY <1>3
    <3>4. Unsent(t)' = SubSeq(tracks'[t].pending, open'.sent + 1, Len(tracks'[t].pending))
      BY <3>2, Zenon DEF Unsent
    <3>5. Unsent(t)' = rest
      BY <3>1, <3>2, <3>3, <3>4, Zenon
    <3> QED BY <3>1, <3>2, <3>5, Zenon
  <2>2. CASE ~(sent + 1 < n)
    <3>1. open' = NoChunk /\ tracks' = [tracks EXCEPT ![t] = Emptied(tracks[t])]
      BY <1>1, <2>2 DEF WriteMedia
    <3>2. Emptied(tracks[t]).pending = <<>>
      BY <1>2 DEF Emptied, TrackType
    <3>3. /\ DOMAIN tracks' = DOMAIN tracks /\ Len(tracks') = Len(tracks)
          /\ \A u \in DOMAIN tracks : u # t => tracks'[u] = tracks[u]
          /\ tracks'[t] = Emptied(tracks[t])
      <4>1. Emptied(tracks[t]) \in TrackType
        BY <1>2, EmptiedType
      <4> QED BY <1>2, <3>1, <4>1
    <3>4. \A u \in DOMAIN tracks : open'.track # u
      BY <1>2, <3>1 DEF NoChunk
    <3>5. Unsent(t)' = <<>>
      BY <1>2, <3>2, <3>3, <3>4, Zenon DEF Unsent
    <3>6. rest = <<>>
      BY <1>3, <1>7, <2>2
    <3> HIDE DEF rest
    <3> QED BY <3>3, <3>4, <3>5, <3>6
  <2> QED BY <2>1, <2>2
<1>9. BytesIn(Unsent(t)') = BytesIn(Unsent(t)) + delta
  <2>1. BytesIn(rest) \in Int
    BY <1>7, BytesType
  <2> HIDE DEF rest
  <2> QED BY <1>2, <1>6, <1>8, <2>1
<1>10. \A u \in DOMAIN tracks : u # t => BytesIn(Unsent(u)') = BytesIn(Unsent(u))
  <2> SUFFICES ASSUME NEW u \in DOMAIN tracks, u # t
               PROVE  BytesIn(Unsent(u)') = BytesIn(Unsent(u))
    OBVIOUS
  <2>1. Unsent(u)' = tracks'[u].pending
    BY <1>8, Zenon DEF Unsent
  <2>2. Unsent(u) = tracks[u].pending
    <3>1. open.track # u
      BY <1>1
    <3> QED BY <3>1, Zenon DEF Unsent
  <2> QED BY <1>8, <2>1, <2>2, Zenon
<1>11. Held <= MemoryLimit => Held' <= MemoryLimit
  <2>1. buffered \in Seq(MediaByte) /\ pendingBytes \in Int
    BY DEF IInv, TypeOK
  <2>2. buffered' = buffered \/ buffered' = buffered \o NextData
    BY DEF WriteMedia
  <2>3. Len(buffered) \in Nat /\ Len(buffered \o NextData) = Len(buffered) + len
    BY <1>1, <1>2, <2>1, LenProperties, ConcatType
  <2>4. Len(buffered') \in Nat /\ Len(buffered') <= Len(buffered) + len
    BY <1>2, <2>2, <2>3
  <2>5. Held' <= Held /\ Held \in Int /\ Held' \in Int
    BY <1>2, <1>4, <2>1, <2>3, <2>4 DEF Held
  <2>6. MemoryLimit \in Nat
    BY ProgressiveAssumption DEF HeldInv, MemoryLimit
  <2> QED BY <2>5, <2>6
<1> HIDE DEF delta
<1> QED BY <1>2, <1>4, <1>8, <1>9, <1>10, <1>11, OneTrackHeld

(* Every step keeps what is counted what is held.                          *)
LEMMA NextHeldInv == IInv /\ HeldInv /\ [Next]_vars => HeldInv'
<1> SUFFICES ASSUME IInv, HeldInv, [Next]_vars PROVE HeldInv'
  OBVIOUS
<1>0. /\ setup' = setup
      /\ faults \in [begin : Nat, media : Nat, refused : Nat]
      /\ pc \in {"begin", "reserve"} => call.track \in DOMAIN tracks /\ open = NoChunk
      /\ call = NoCall \/ call.track \in DOMAIN tracks
      /\ pc = "idle" => open = NoChunk
      /\ tracks \in Seq(TrackType) /\ \A t \in DOMAIN tracks : tracks[t] \in TrackType
  BY DEF Next, vars, IInv, TypeOK, Control
<1>1. CASE AddTrack
  BY <1>0, <1>1, AddTrackHeldInv
<1>2. ASSUME NEW t \in 1..Len(Configs), NEW s \in Samples, WriteSample(t, s) PROVE HeldInv'
  <2> DEFINE c == ClockSample(tracks[t].clock, s).clock
             k == [tracks[t] EXCEPT !.clock = c]
  <2>1. /\ tracks' = [tracks EXCEPT ![t] = k] /\ t \in DOMAIN tracks
        /\ UNCHANGED <<open, pendingBytes, buffered, faults>>
    BY <1>2 DEF WriteSample
  <2>2. k.pending = tracks[t].pending
    BY <1>0, <2>1 DEF TrackType
  <2> HIDE DEF k, c
  <2>3. /\ DOMAIN tracks' = DOMAIN tracks /\ Len(tracks') = Len(tracks)
        /\ \A u \in DOMAIN tracks : tracks'[u].pending = tracks[u].pending
    BY <1>0, <2>1, <2>2
  <2>4. \A u \in DOMAIN tracks : Unsent(u)' = Unsent(u)
    BY <2>1, <2>3, Zenon DEF Unsent
  <2>5. SumTo(UnsentBytes', Len(tracks)) = SumTo(UnsentBytes, Len(tracks))
    BY <2>3, <2>4, UnsentStays
  <2> QED BY <1>0, <2>1, <2>3, <2>5 DEF HeldInv, Held, MemoryLimit
<1>3. CASE Begin
  BY <1>0, <1>3, HeldFrame DEF Begin
<1>4. ASSUME NEW k \in Partial, BeginFails(k) PROVE HeldInv'
  <2>1. UNCHANGED <<tracks, open, pendingBytes, buffered>>
    BY <1>4 DEF BeginFails
  <2>2. faults'.media = faults.media
    BY <1>0, <1>4 DEF BeginFails
  <2> QED BY <1>0, <2>1, <2>2, HeldFrame
<1>5. CASE Reserve
  <2>1. CASE Fits(call.sample.len)
    BY <1>0, <1>5, <2>1, AcceptHeldInv DEF Reserve
  <2>2. CASE ~Fits(call.sample.len)
    BY <1>0, <1>5, <2>2, HeldFrame DEF Reserve
  <2> QED BY <2>1, <2>2
<1>6. CASE StartChunk
  BY <1>0, <1>6, StartChunkHeldInv
<1>7. CASE WriteMedia
  BY <1>0, <1>7, WriteMediaHeldInv
<1>8. ASSUME NEW k \in Partial, WriteMediaFails(k) PROVE HeldInv'
  <2>1. faults'.media = faults.media + 1 /\ faults.media \in Nat
    BY <1>0, <1>8 DEF WriteMediaFails
  <2>2. faults'.media # 0
    BY <2>1
  <2> QED BY <1>0, <2>2 DEF HeldInv
<1>9. CASE FlushedForRoom
  <2>1. call.track \in DOMAIN tracks /\ open = NoChunk
    BY <1>0, <1>9 DEF FlushedForRoom, Flushed
  <2>2. CASE Fits(call.sample.len)
    BY <1>0, <1>9, <2>1, <2>2, AcceptHeldInv DEF FlushedForRoom
  <2>3. CASE ~Fits(call.sample.len)
    <3>1. UNCHANGED <<tracks, open, pendingBytes, buffered>>
      BY <1>9, <2>3 DEF FlushedForRoom
    <3>2. faults'.media = faults.media
      BY <1>0, <1>9, <2>3 DEF FlushedForRoom
    <3> QED BY <1>0, <3>1, <3>2, HeldFrame
  <2> QED BY <2>2, <2>3
<1>10. CASE FlushedSample
  BY <1>0, <1>10, HeldFrame DEF FlushedSample
<1>11. CASE Close
  BY <1>0, <1>11, HeldFrame DEF Close
<1>12. CASE RefuseClosed
  BY <1>0, <1>12, HeldFrame DEF RefuseClosed
<1>13. CASE Finish
  <2>1. UNCHANGED <<tracks, open, pendingBytes, faults>>
    BY <1>13 DEF Finish
  <2>2. buffered' = buffered \/ buffered' = <<>>
    BY <1>13 DEF Finish, FinishMdat
  <2> QED BY <1>0, <2>1, <2>2, HeldFrame
<1>14. CASE FinishFails
  <2>1. faults'.media = faults.media + 1 /\ faults.media \in Nat
    BY <1>0, <1>14 DEF FinishFails
  <2>2. faults'.media # 0
    BY <2>1
  <2> QED BY <1>0, <2>2 DEF HeldInv
<1>15. CASE UNCHANGED vars
  <2>1. UNCHANGED <<tracks, open, pendingBytes, buffered, faults>>
    BY <1>15 DEF vars
  <2> QED BY <1>0, <2>1, HeldFrame
<1> QED
  BY <1>1, <1>2, <1>3, <1>4, <1>5, <1>6, <1>7, <1>8, <1>9, <1>10, <1>11, <1>12, <1>13,
     <1>14, <1>15
  DEF Next, Step

(* A muxer starts with nothing held.                                       *)
LEMMA InitHeldInv == Init => HeldInv
<1> SUFFICES ASSUME Init PROVE HeldInv
  OBVIOUS
<1>1. /\ setup \in Setups /\ setup.limit \in Nat
      /\ tracks = <<>> /\ pendingBytes = 0 /\ buffered = <<>>
  BY ProgressiveAssumption DEF Init
<1>2. Len(tracks) = 0 /\ Len(buffered) = 0
  BY <1>1
<1>3. SumTo(UnsentBytes, Len(tracks)) = 0
  BY <1>2, SumZero
<1> QED BY <1>1, <1>2, <1>3 DEF HeldInv, Held, MemoryLimit

(* The media a muxer holds never exceeds MediaMemoryLimit, whatever the    *)
(* samples and in whatever order they fill chunks, as long as no write of  *)
(* media was refused: reserve looks at pendingBytes and at what is         *)
(* buffered, and that is what there is.                                    *)
THEOREM ProgressiveMemory == Spec => [](faults.media = 0 => MediaWithinLimit)
BY InitInv, NextInv, InitHeldInv, NextHeldInv, HeldInvHolds, PTL DEF Spec

(***************************************************************************)
(* Decode times through the tables: a run-length table gives back what was *)
(* put into it.                                                            *)
(***************************************************************************)
(* A run-length table: no run is empty, and every run has a value.         *)
RunTable(counts, values) ==
    /\ counts \in Seq(Nat) /\ values \in Seq(Int) /\ Len(counts) = Len(values)
    /\ \A i \in DOMAIN counts : counts[i] > 0

(* The run a number lies in is the one its value is read from.             *)
LEMMA RunValueIs ==
    ASSUME NEW counts, NEW values, RunTable(counts, values),
           NEW i \in DOMAIN counts, NEW n \in Nat,
           SumTo(counts, i - 1) < n, n <= SumTo(counts, i)
    PROVE  RunValue(counts, values, n) = values[i]
<1> DEFINE In(j) == SumTo(counts, j - 1) < n /\ n <= SumTo(counts, j)
           m == Len(counts)
<1>1. m \in Nat /\ DOMAIN counts = 1..m /\ \A j \in 1..m : counts[j] \in Nat
  BY LenProperties DEF RunTable
<1>2. \A a \in Nat : a <= m => SumTo(counts, a) \in Nat
  <2>1. \A a \in 0..m : SumTo(counts, a) \in Nat
    BY <1>1, SumGrows
  <2> QED BY <1>1, <2>1
<1>3. \A a, b \in Nat : a <= b /\ b <= m => SumTo(counts, a) <= SumTo(counts, b)
  <2> SUFFICES ASSUME NEW a \in Nat, NEW b \in Nat, a <= b, b <= m
               PROVE  SumTo(counts, a) <= SumTo(counts, b)
    OBVIOUS
  <2>1. \A j \in 1..b : counts[j] \in Nat
    BY <1>1
  <2> QED BY <2>1, SumGrows
<1>4. ASSUME NEW j \in DOMAIN counts, In(j)
      PROVE  j = i
  <2>1. i \in Nat /\ j \in Nat /\ i - 1 \in Nat /\ j - 1 \in Nat /\ i <= m /\ j <= m
    BY <1>1
  <2>2. CASE j < i
    <3>1. SumTo(counts, j) <= SumTo(counts, i - 1)
      BY <1>3, <2>1, <2>2
    <3> QED BY <1>2, <1>4, <2>1, <3>1
  <2>3. CASE i < j
    <3>1. SumTo(counts, i) <= SumTo(counts, j - 1)
      BY <1>3, <2>1, <2>3
    <3> QED BY <1>2, <1>4, <2>1, <3>1
  <2> QED BY <2>1, <2>2, <2>3
<1>5. In(i)
  OBVIOUS
<1>6. (CHOOSE j \in DOMAIN counts : In(j)) = i
  <2> DEFINE c == CHOOSE j \in DOMAIN counts : In(j)
  <2>1. c \in DOMAIN counts /\ In(c)
    BY <1>5, Zenon
  <2> QED BY <1>4, <2>1
<1> QED BY <1>6, Zenon DEF RunValue

(* Every number up to the sum of the runs lies in one.                     *)
LEMMA RunExists ==
    ASSUME NEW counts \in Seq(Nat)
    PROVE  \A n \in 1..SumTo(counts, Len(counts)) :
             \E i \in DOMAIN counts : SumTo(counts, i - 1) < n /\ n <= SumTo(counts, i)
<1> DEFINE m == Len(counts)
           S == {a \in Nat : a <= m => \A n \in 1..SumTo(counts, a) :
                   \E i \in 1..m : SumTo(counts, i - 1) < n /\ n <= SumTo(counts, i)}
<1>1. m \in Nat /\ DOMAIN counts = 1..m /\ \A j \in 1..m : counts[j] \in Nat
  BY LenProperties
<1>2. 0 \in S
  BY SumZero
<1>3. ASSUME NEW a \in Nat, a \in S
      PROVE  a + 1 \in S
  <2> SUFFICES ASSUME a + 1 <= m, NEW n \in 1..SumTo(counts, a + 1)
               PROVE  \E i \in 1..m : SumTo(counts, i - 1) < n /\ n <= SumTo(counts, i)
    OBVIOUS
  <2>1. \A j \in 1..a : counts[j] \in Int
    BY <1>1
  <2>2. SumTo(counts, a) \in Int
    BY <2>1, SumIsInt
  <2>3. CASE n <= SumTo(counts, a)
    <3>1. n \in 1..SumTo(counts, a) /\ a <= m
      BY <1>1, <2>2, <2>3
    <3> QED BY <1>3, <3>1
  <2>4. CASE SumTo(counts, a) < n
    <3>1. \A j \in 1..(a + 1) : counts[j] \in Int
      BY <1>1
    <3>2. SumTo(counts, a + 1) \in Int
      BY <3>1, SumIsInt
    <3>3. a + 1 \in 1..m /\ (a + 1) - 1 = a /\ n <= SumTo(counts, a + 1)
      BY <1>1, <3>2
    <3> QED BY <2>4, <3>3
  <2> QED BY <2>2, <2>3, <2>4
<1> HIDE DEF S
<1>4. \A a \in Nat : a \in S
  BY <1>2, <1>3, NatSetInduction
<1>5. m \in S
  BY <1>1, <1>4
<1>6. m <= m
  BY <1>1
<1>7. \A n \in 1..SumTo(counts, m) :
        \E i \in 1..m : SumTo(counts, i - 1) < n /\ n <= SumTo(counts, i)
  BY <1>5, <1>6, Zenon DEF S
<1> QED BY <1>1, <1>7, Zenon DEF m

(* A value put behind a table stays a table, of one number more.           *)
LEMMA RunsExtend ==
    ASSUME NEW counts, NEW values, RunTable(counts, values), NEW v \in Int,
           NEW all, all = SumTo(counts, Len(counts)),
           NEW more, more = RunCounts(counts, values, v),
           NEW seen, seen = RunValues(values, v)
    PROVE  /\ RunTable(more, seen)
           /\ all \in Nat
           /\ SumTo(more, Len(more)) = all + 1
           /\ seen # <<>> /\ seen[Len(seen)] = v
           /\ RunValue(more, seen, all + 1) = v
           /\ \A n \in 1..all : RunValue(more, seen, n) = RunValue(counts, values, n)
<1> DEFINE m == Len(counts)
<1>1. /\ m \in Nat /\ DOMAIN counts = 1..m /\ \A j \in 1..m : counts[j] \in Nat
      /\ Len(values) = m /\ DOMAIN values = 1..m
      /\ counts \in Seq(Nat) /\ values \in Seq(Int)
  BY LenProperties DEF RunTable
<1>2. \A a \in 0..m : SumTo(counts, a) \in Nat /\ SumTo(counts, a) <= all
  BY <1>1, SumGrows
<1>3. all \in Nat
  BY <1>1, <1>2
<1>m. m = Len(counts) /\ all = SumTo(counts, m)
  OBVIOUS
<1> HIDE DEF m
<1>4. \E k \in Nat :
        /\ more \in Seq(Nat) /\ seen \in Seq(Int) /\ Len(more) = k /\ Len(seen) = k
        /\ k > 0 /\ m <= k
        /\ \A j \in 1..k : more[j] > 0 /\ (j < k => more[j] = counts[j])
        /\ seen[k] = v /\ \A j \in 1..m : seen[j] = values[j]
        /\ k \in {m, m + 1} /\ (k = m => more[k] = counts[k] + 1) /\ (k = m + 1 => more[k] = 1)
  <2>1. CASE Extends(values, v)
    <3> DEFINE last == counts[m] + 1
    <3>1. m > 0 /\ values[m] = v /\ last \in Nat /\ last > 0 /\ m \in 1..m
      BY <1>1, <2>1 DEF Extends
    <3>2. more = [counts EXCEPT ![m] = last] /\ seen = values
      BY <1>1, <1>m, <2>1 DEF RunCounts, RunValues, Extends
    <3> HIDE DEF last
    <3>3. /\ more \in Seq(Nat) /\ Len(more) = m
          /\ more[m] = last /\ \A j \in 1..m : j # m => more[j] = counts[j]
      BY <1>1, <3>1, <3>2
    <3>4. \A j \in 1..m : counts[j] > 0
      BY <1>1, <1>m DEF RunTable
    <3>5. \A j \in 1..m : more[j] > 0 /\ (j < m => more[j] = counts[j])
      BY <1>1, <3>1, <3>3, <3>4
    <3>6. /\ more \in Seq(Nat) /\ seen \in Seq(Int) /\ Len(more) = m /\ Len(seen) = m
          /\ m > 0 /\ m <= m
          /\ seen[m] = v /\ \A j \in 1..m : seen[j] = values[j]
          /\ m \in {m, m + 1} /\ more[m] = counts[m] + 1 /\ m # m + 1
      BY <1>1, <3>1, <3>2, <3>3 DEF last
    <3> QED BY <1>1, <3>5, <3>6, Zenon
  <2>2. CASE ~Extends(values, v)
    <3>1. more = Append(counts, 1) /\ seen = Append(values, v)
      BY <2>2 DEF RunCounts, RunValues
    <3>2. /\ more \in Seq(Nat) /\ Len(more) = m + 1 /\ more[m + 1] = 1
          /\ \A j \in 1..m : more[j] = counts[j]
      BY <1>1, <3>1, AppendProperties
    <3>3. /\ seen \in Seq(Int) /\ Len(seen) = m + 1 /\ seen[m + 1] = v
          /\ \A j \in 1..m : seen[j] = values[j]
      BY <1>1, <3>1, AppendProperties
    <3>4. \A j \in 1..m : counts[j] > 0
      BY <1>1, <1>m DEF RunTable
    <3>5. \A j \in 1..(m + 1) : more[j] > 0 /\ (j < m + 1 => more[j] = counts[j])
      BY <1>1, <3>2, <3>4
    <3>6. m + 1 \in Nat /\ m + 1 > 0 /\ m <= m + 1 /\ m + 1 \in {m, m + 1} /\ m + 1 # m
      BY <1>1
    <3> QED BY <3>2, <3>3, <3>5, <3>6, Zenon
  <2> QED BY <2>1, <2>2
<1>5. PICK k \in Nat :
        /\ more \in Seq(Nat) /\ seen \in Seq(Int) /\ Len(more) = k /\ Len(seen) = k
        /\ k > 0 /\ m <= k
        /\ \A j \in 1..k : more[j] > 0 /\ (j < k => more[j] = counts[j])
        /\ seen[k] = v /\ \A j \in 1..m : seen[j] = values[j]
        /\ k \in {m, m + 1} /\ (k = m => more[k] = counts[k] + 1) /\ (k = m + 1 => more[k] = 1)
  BY <1>4
<1>6. RunTable(more, seen) /\ DOMAIN more = 1..k
  <2>1. DOMAIN more = 1..k
    BY <1>5, LenProperties
  <2> QED BY <1>5, <2>1 DEF RunTable
<1>7. \A a \in 0..(k - 1) : SumTo(more, a) = SumTo(counts, a)
  <2> SUFFICES ASSUME NEW a \in 0..(k - 1)
               PROVE  SumTo(more, a) = SumTo(counts, a)
    OBVIOUS
  <2>1. a \in Nat /\ \A j \in 1..a : more[j] = counts[j]
    BY <1>5
  <2> QED BY <2>1, SumSame
<1>8. SumTo(more, k) = all + 1
  <2> DEFINE h == k - 1
  <2>1. h \in Nat /\ h + 1 = k /\ h \in 0..(k - 1) /\ h <= m
    BY <1>1, <1>5
  <2> HIDE DEF h
  <2>2. SumTo(more, h + 1) = SumTo(counts, h) + more[h + 1]
    BY <1>7, <2>1, SumStep
  <2>3. SumTo(more, k) = SumTo(counts, h) + more[k]
    BY <2>1, <2>2, Zenon
  <2>4. CASE k = m
    <3>1. SumTo(counts, h + 1) = SumTo(counts, h) + counts[h + 1]
      BY <2>1, SumStep
    <3>2. all = SumTo(counts, h) + counts[k]
      BY <1>m, <2>1, <2>4, <3>1, Zenon
    <3>3. SumTo(counts, h) \in Nat /\ counts[k] \in Nat
      BY <1>1, <1>2, <1>5, <2>1, <2>4
    <3>4. more[k] = counts[k] + 1
      BY <1>5, <2>4
    <3> QED BY <2>3, <3>2, <3>3, <3>4
  <2>5. CASE k = m + 1
    <3>1. h = m
      BY <1>1, <2>1, <2>5
    <3>2. SumTo(counts, h) = all
      BY <1>m, <3>1, Zenon
    <3> QED BY <1>5, <2>3, <2>5, <3>2
  <2> QED BY <1>5, <2>4, <2>5
<1>9. RunValue(more, seen, all + 1) = v
  <2> DEFINE h == k - 1
  <2>1. h \in Nat /\ h \in 0..m /\ h \in 0..(k - 1) /\ k \in DOMAIN more
    BY <1>1, <1>5, <1>6
  <2>h. h = k - 1
    OBVIOUS
  <2> HIDE DEF h
  <2>2. SumTo(more, h) <= all /\ SumTo(more, h) \in Nat
    BY <1>2, <1>7, <2>1
  <2>3. SumTo(more, k - 1) < all + 1 /\ all + 1 <= SumTo(more, k) /\ all + 1 \in Nat
    BY <1>3, <1>8, <2>2, <2>h
  <2>4. RunValue(more, seen, all + 1) = seen[k]
    BY <1>6, <2>1, <2>3, RunValueIs
  <2> QED BY <1>5, <2>4
<1>10. ASSUME NEW n \in 1..all
       PROVE  RunValue(more, seen, n) = RunValue(counts, values, n)
  <2>1. PICK i \in DOMAIN counts : SumTo(counts, i - 1) < n /\ n <= SumTo(counts, i)
    BY <1>1, <1>m, <1>10, RunExists
  <2>2. n \in Nat /\ i \in Nat /\ i - 1 \in 0..m /\ i \in 0..m /\ i \in 1..m /\ i \in 1..k
    <3>1. i \in 1..m /\ m \in Nat
      BY <1>1, <2>1
    <3>2. k \in {m, m + 1}
      BY <1>5
    <3>3. n \in Nat
      BY <1>3, <1>10
    <3> QED BY <3>1, <3>2, <3>3
  <2>3. RunValue(counts, values, n) = values[i]
    BY <2>1, <2>2, RunValueIs
  <2>4. SumTo(more, i - 1) = SumTo(counts, i - 1)
    BY <1>5, <1>7, <2>2
  <2>5. n <= SumTo(more, i)
    <3>1. CASE i <= k - 1
      BY <1>5, <1>7, <2>1, <2>2, <3>1
    <3>2. CASE i = k
      BY <1>2, <1>3, <1>8, <2>2, <3>2
    <3> QED BY <1>5, <2>2, <3>1, <3>2
  <2>6. RunValue(more, seen, n) = seen[i]
    BY <1>6, <2>1, <2>2, <2>4, <2>5, RunValueIs
  <2> QED BY <1>5, <2>2, <2>3, <2>6
<1>11. seen # <<>> /\ seen[Len(seen)] = v
  <2>1. Len(<<>>) = 0
    OBVIOUS
  <2> QED BY <1>5, <2>1
<1> QED BY <1>3, <1>5, <1>6, <1>8, <1>9, <1>10, <1>11 DEF m

(***************************************************************************)
(* The decode times a track's tables state, and its chunks.                *)
(***************************************************************************)
(* How long each sample of track k is, as the table says.                  *)
Durs(k) == [n \in 1..k.count |-> RunValue(k.durCounts, k.durDeltas, n)]

(* When chunk c of track k starts, and when its last sample does.          *)
StartOf(k, c) == SumTo(Durs(k), SumTo(k.chunkSamples, c - 1))
LastAt(k) == k.total - k.durDeltas[Len(k.durDeltas)]

(* The table counts the samples of k, and total is how long they are.      *)
Timed(k) ==
    /\ RunTable(k.durCounts, k.durDeltas)
    /\ SumTo(k.durCounts, Len(k.durCounts)) = k.count
    /\ \A n \in 1..k.count : Durs(k)[n] \in Nat
    /\ k.total = SumTo(Durs(k), k.count)
    /\ k.count > 0 => k.durDeltas # <<>> /\ Durs(k)[k.count] = k.durDeltas[Len(k.durDeltas)]

(* The chunks of k hold the samples that are not pending; within says that *)
(* the pending ones are being written, and have their chunk.               *)
Chunked(k, within) ==
    /\ \A c \in DOMAIN k.chunkSamples : k.chunkSamples[c] > 0
    /\ SumTo(k.chunkSamples, Len(k.chunkSamples)) = IF within THEN k.count ELSE InChunks(k)
    /\ k.pending # <<>> => k.pendingStart = SumTo(Durs(k), InChunks(k))

(* Two states of a track with the same samples in its table.               *)
SameTimes(k, l) ==
    /\ k.count = l.count /\ k.total = l.total
    /\ k.durCounts = l.durCounts /\ k.durDeltas = l.durDeltas

(* They state the same times.                                              *)
LEMMA TimesSame ==
    ASSUME NEW k, NEW l, SameTimes(k, l), Timed(k)
    PROVE  Timed(l) /\ Durs(l) = Durs(k) /\ LastAt(l) = LastAt(k)
<1>1. Durs(l) = Durs(k)
  BY Zenon DEF SameTimes, Durs
<1>2. LastAt(l) = LastAt(k)
  BY Zenon DEF SameTimes, LastAt
<1>3. Timed(l)
  BY <1>1, Zenon DEF Timed, SameTimes
<1> QED BY <1>1, <1>2, <1>3

(* What a track's times are made of.                                       *)
LEMMA TimesType ==
    ASSUME NEW k, k.count \in Nat, Timed(k)
    PROVE  /\ \A n \in 0..k.count : SumTo(Durs(k), n) \in Nat /\ SumTo(Durs(k), n) <= k.total
           /\ k.total \in Nat
           /\ k.count > 0 => /\ LastAt(k) = SumTo(Durs(k), k.count - 1)
                             /\ LastAt(k) \in Nat
<1> DEFINE n == k.count
           d == Durs(k)
<1>1. n \in Nat /\ \A i \in 1..n : d[i] \in Nat
  BY DEF Timed
<1>2. k.total = SumTo(d, n)
  BY DEF Timed
<1>3. \A i \in 0..n : SumTo(d, i) \in Nat /\ SumTo(d, i) <= SumTo(d, n)
  <2> HIDE DEF n, d
  <2> QED BY <1>1, SumGrows
<1>4. ASSUME n > 0
      PROVE  LastAt(k) = SumTo(d, n - 1)
  <2> DEFINE h == n - 1
             last == k.durDeltas[Len(k.durDeltas)]
  <2>1. h \in Nat /\ h + 1 = n
    BY <1>1, <1>4
  <2>2. d[n] = last
    BY <1>4 DEF Timed
  <2>3. LastAt(k) = k.total - last
    BY DEF LastAt
  <2>4. n \in 1..n /\ h \in 0..n
    BY <1>1, <1>4
  <2>5. d[n] \in Nat /\ SumTo(d, h) \in Nat
    BY <1>1, <1>3, <2>4
  <2> HIDE DEF h, last, n, d
  <2>6. SumTo(d, h + 1) = SumTo(d, h) + d[h + 1]
    BY <2>1, SumStep
  <2>7. k.total = SumTo(d, h) + last
    BY <1>2, <2>1, <2>2, <2>6, Zenon
  <2>8. LastAt(k) = SumTo(d, h)
    BY <2>2, <2>3, <2>5, <2>7
  <2> QED BY <2>8 DEF h
<1>5. n \in 0..n /\ (n > 0 => n - 1 \in 0..n)
  BY <1>1
<1> QED BY <1>2, <1>3, <1>4, <1>5

(* A chunk starts no later than the last sample of its track.              *)
LEMMA StartsWithin ==
    ASSUME NEW k \in TrackType, TablesAgree(k), Timed(k), NEW within, Chunked(k, within),
           NEW c \in DOMAIN k.chunkSamples
    PROVE  /\ SumTo(k.chunkSamples, c - 1) \in 0..k.count
           /\ SumTo(k.chunkSamples, c - 1) < k.count
           /\ StartOf(k, c) \in Nat /\ StartOf(k, c) <= LastAt(k)
<1> DEFINE f == k.chunkSamples
           m == Len(f)
           h == c - 1
           b == SumTo(f, h)
           n == k.count
<1>1. /\ f \in Seq(Nat) /\ n \in Nat /\ Len(k.pending) \in Nat
  BY LenProperties DEF TrackType
<1>2. m \in Nat /\ c \in 1..m /\ \A i \in 1..m : f[i] \in Nat
  BY <1>1, LenProperties
<1>3. f[c] > 0
  BY DEF Chunked
<1>4. SumTo(f, m) <= n
  <2>1. SumTo(f, m) \in {n, n - Len(k.pending)}
    BY DEF Chunked, InChunks
  <2> QED BY <1>1, <2>1
<1>5. h \in Nat /\ h + 1 = c /\ h \in 0..m /\ c \in 0..m
  BY <1>2
<1> HIDE DEF f, m, h, n
<1>6. /\ \A i \in 0..m : SumTo(f, i) \in Nat /\ SumTo(f, i) <= SumTo(f, m)
      /\ SumTo(f, h + 1) = b + f[h + 1]
  BY <1>2, <1>5, SumGrows, SumStep
<1>7. SumTo(f, c) = b + f[c]
  BY <1>5, <1>6, Zenon
<1> HIDE DEF b
<1>8. b \in Nat /\ SumTo(f, c) \in Nat /\ SumTo(f, c) <= SumTo(f, m) /\ f[c] \in Nat
  BY <1>2, <1>5, <1>6 DEF b
<1>9. SumTo(f, m) \in Nat
  BY <1>2, <1>6
<1>10. b < n
  BY <1>1, <1>3, <1>4, <1>7, <1>8, <1>9
<1>11. b \in 0..n /\ n > 0
  BY <1>1, <1>8, <1>10
<1>12. SumTo(Durs(k), b) \in Nat /\ SumTo(Durs(k), b) <= SumTo(Durs(k), n - 1)
  <2> DEFINE g == n - 1
             d == Durs(k)
  <2>1. g \in Nat /\ b \in 0..g /\ \A i \in 1..g : d[i] \in Nat
    <3>1. g \in Nat /\ b \in 0..g /\ \A i \in 1..g : i \in 1..n
      BY <1>1, <1>8, <1>10
    <3>2. \A i \in 1..n : d[i] \in Nat
      BY Zenon DEF Timed, n
    <3> QED BY <3>1, <3>2
  <2> HIDE DEF g, d
  <2>2. SumTo(d, b) \in Nat /\ SumTo(d, b) <= SumTo(d, g)
    BY <2>1, SumGrows
  <2> QED BY <2>2 DEF g, d
<1>13. LastAt(k) = SumTo(Durs(k), n - 1)
  BY <1>1, <1>11, TimesType DEF n
<1>14. StartOf(k, c) = SumTo(Durs(k), b)
  BY DEF StartOf, b, h, f
<1> QED BY <1>10, <1>11, <1>12, <1>13, <1>14 DEF b, h, f, n

(* Taking a sample adds its duration at the end, and moves no other.       *)
LEMMA TakenTimed ==
    ASSUME NEW k \in TrackType, TablesAgree(k), Timed(k), NEW t \in Nat,
           NEW s \in SampleType, s.dur \in Nat
    PROVE  LET q == Taken(t, k, s)
           IN  /\ Timed(q) /\ q.count = k.count + 1
               /\ LastAt(q) = k.total
               /\ \A n \in 0..k.count : SumTo(Durs(q), n) = SumTo(Durs(k), n)
<1> DEFINE q == Taken(t, k, s)
           v == s.dur
           n == k.count
           d == Durs(k)
           e == Durs(q)
<1>1. /\ q.count = n + 1 /\ q.total = k.total + v
      /\ q.durCounts = RunCounts(k.durCounts, k.durDeltas, v)
      /\ q.durDeltas = RunValues(k.durDeltas, v)
  BY DEF Taken
<1> HIDE DEF q
<1>2. n \in Nat /\ v \in Nat /\ v \in Int /\ k.total \in Int
  BY DEF TrackType, SampleType
<1>3. RunTable(k.durCounts, k.durDeltas) /\ n = SumTo(k.durCounts, Len(k.durCounts))
  BY DEF Timed
<1> HIDE DEF n, v
<1>4. /\ RunTable(q.durCounts, q.durDeltas)
      /\ SumTo(q.durCounts, Len(q.durCounts)) = n + 1
      /\ q.durDeltas # <<>> /\ q.durDeltas[Len(q.durDeltas)] = v
      /\ RunValue(q.durCounts, q.durDeltas, n + 1) = v
      /\ \A i \in 1..n : RunValue(q.durCounts, q.durDeltas, i)
                           = RunValue(k.durCounts, k.durDeltas, i)
  <2> DEFINE counts == k.durCounts
             values == k.durDeltas
             all == SumTo(counts, Len(counts))
             more == RunCounts(counts, values, v)
             seen == RunValues(values, v)
  <2>1. n = all /\ q.durCounts = more /\ q.durDeltas = seen /\ RunTable(counts, values)
    BY <1>1, <1>3
  <2>2. /\ RunTable(more, seen) /\ SumTo(more, Len(more)) = all + 1
        /\ seen # <<>> /\ seen[Len(seen)] = v
        /\ RunValue(more, seen, all + 1) = v
        /\ \A i \in 1..all : RunValue(more, seen, i) = RunValue(counts, values, i)
    BY <1>2, <2>1, RunsExtend
  <2> HIDE DEF more, seen, all
  <2>3. \A i \in 1..n : RunValue(more, seen, i) = RunValue(counts, values, i)
    BY <2>1, <2>2, Zenon
  <2> QED BY <2>1, <2>2, <2>3, Zenon
<1>5. /\ \A i \in 1..n : d[i] = RunValue(k.durCounts, k.durDeltas, i)
      /\ \A i \in 1..n : d[i] \in Nat
  BY DEF Durs, Timed, n
<1>6. \A i \in 1..(n + 1) : e[i] = RunValue(q.durCounts, q.durDeltas, i)
  BY <1>1, Zenon DEF Durs
<1>t. k.total = SumTo(d, n)
  BY DEF Timed, n
<1> HIDE DEF d, e
<1>7. n + 1 \in 1..(n + 1) /\ \A i \in 1..n : i \in 1..(n + 1)
  BY <1>2
<1>8. e[n + 1] = v /\ \A i \in 1..n : e[i] = d[i]
  BY <1>4, <1>5, <1>6, <1>7
<1>9. ASSUME NEW i \in 0..n
      PROVE  SumTo(e, i) = SumTo(d, i)
  <2>1. i \in Nat /\ \A j \in 1..i : e[j] = d[j]
    BY <1>2, <1>8
  <2> QED BY <2>1, SumSame
<1>10. SumTo(e, n + 1) = k.total + v
  <2>1. SumTo(e, n + 1) = SumTo(e, n) + e[n + 1]
    BY <1>2, SumStep
  <2>2. n \in 0..n
    BY <1>2
  <2> QED BY <1>8, <1>9, <1>t, <2>1, <2>2
<1>11. \A i \in 1..(n + 1) : e[i] \in Nat
  BY <1>2, <1>5, <1>8
<1>12. Timed(q)
  BY <1>1, <1>4, <1>8, <1>10, <1>11, Zenon DEF Timed, e
<1>13. LastAt(q) = k.total
  <2>1. LastAt(q) = q.total - q.durDeltas[Len(q.durDeltas)]
    BY DEF LastAt
  <2> QED BY <1>1, <1>2, <1>4, <2>1
<1> QED BY <1>1, <1>9, <1>12, <1>13 DEF q, d, e, n

(* It goes behind the chunks there are, and where pending starts is where  *)
(* its first sample does.                                                  *)
LEMMA TakenChunked ==
    ASSUME NEW k \in TrackType, TablesAgree(k), Timed(k), Chunked(k, FALSE), NEW t \in Nat,
           NEW s \in SampleType, s.dur \in Nat
    PROVE  LET q == Taken(t, k, s)
           IN  /\ Chunked(q, FALSE)
               /\ \A c \in DOMAIN k.chunkSamples : StartOf(q, c) = StartOf(k, c)
               /\ q.pendingStart = IF k.pending = <<>> THEN k.total ELSE k.pendingStart
<1> DEFINE q == Taken(t, k, s)
<1>1. /\ q.chunkSamples = k.chunkSamples /\ q.count = k.count + 1
      /\ q.pending = Append(k.pending, Data(t, k.count + 1, s.len))
      /\ q.pendingStart = IF k.pending = <<>> THEN k.total ELSE k.pendingStart
  BY DEF Taken
<1> HIDE DEF q
<1>2. \A n \in 0..k.count : SumTo(Durs(q), n) = SumTo(Durs(k), n)
  BY TakenTimed DEF q
<1>3. k.count \in Nat /\ k.pending \in Seq(Seq(MediaByte)) /\ s.len \in Nat /\ k.total \in Int
  BY DEF TrackType, SampleType
<1>4. Len(q.pending) = Len(k.pending) + 1 /\ Len(k.pending) \in Nat
  <2>1. Data(t, k.count + 1, s.len) \in Seq(MediaByte)
    <3>1. k.count + 1 \in Nat
      BY <1>3
    <3> QED BY <1>3, <3>1, DataType
  <2> QED BY <1>1, <1>3, <2>1, AppendProperties, LenProperties
<1>5. InChunks(q) = InChunks(k) /\ InChunks(k) \in 0..k.count
  <2>1. Len(k.pending) <= k.count
    BY DEF TablesAgree
  <2> QED BY <1>1, <1>3, <1>4, <2>1 DEF InChunks
<1>6. ASSUME NEW c \in DOMAIN k.chunkSamples
      PROVE  StartOf(q, c) = StartOf(k, c)
  <2>1. SumTo(k.chunkSamples, c - 1) \in 0..k.count
    BY StartsWithin
  <2> QED BY <1>1, <1>2, <2>1, Zenon DEF StartOf
<1>7. q.pendingStart = SumTo(Durs(q), InChunks(q))
  <2>1. SumTo(Durs(q), InChunks(q)) = SumTo(Durs(k), InChunks(k))
    BY <1>2, <1>5
  <2>2. CASE k.pending = <<>>
    <3>1. InChunks(k) = k.count
      BY <1>3, <2>2 DEF InChunks
    <3>2. k.total = SumTo(Durs(k), k.count)
      BY DEF Timed
    <3> QED BY <1>1, <2>1, <2>2, <3>1, <3>2
  <2>3. CASE k.pending # <<>>
    BY <1>1, <2>1, <2>3 DEF Chunked
  <2> QED BY <2>2, <2>3
<1>8. Chunked(q, FALSE)
  <2>1. /\ \A c \in DOMAIN k.chunkSamples : k.chunkSamples[c] > 0
        /\ SumTo(k.chunkSamples, Len(k.chunkSamples)) = InChunks(k)
    BY DEF Chunked
  <2> QED BY <1>1, <1>5, <1>7, <2>1, Zenon DEF Chunked
<1> QED BY <1>1, <1>6, <1>8 DEF q

(* A track whose samples go into one more chunk: it starts where pending   *)
(* does.                                                                   *)
LEMMA WithChunkTimes ==
    ASSUME NEW k \in TrackType, TablesAgree(k), Timed(k), Chunked(k, FALSE),
           k.pending # <<>>, NEW offset \in Nat
    PROVE  LET q == WithChunk(k, offset)
               m == Len(k.chunkSamples)
           IN  /\ SameTimes(k, q) /\ Chunked(q, TRUE)
               /\ q.timescale = k.timescale /\ q.clock = k.clock
               /\ q.pending = k.pending /\ q.pendingStart = k.pendingStart
               /\ Len(k.chunkOffsets) = m
               /\ q.chunkOffsets = Append(k.chunkOffsets, offset)
               /\ \A c \in 1..m : StartOf(q, c) = StartOf(k, c)
               /\ StartOf(q, m + 1) = k.pendingStart
<1> DEFINE p == Len(k.pending)
           a == Append(k.chunkOffsets, offset)
           b == Append(k.chunkSamples, p)
           f == k.chunkSamples
           m == Len(f)
           q == WithChunk(k, offset)
<1>1. /\ k.chunkOffsets \in Seq(Nat) /\ f \in Seq(Nat) /\ k.count \in Nat
      /\ k.pending \in Seq(Seq(MediaByte)) /\ Len(k.chunkOffsets) = m /\ p <= k.count
  BY DEF TrackType, TablesAgree
<1>2. p \in Nat /\ p > 0
  <2>1. p \in Nat /\ (p = 0 => k.pending = <<>>)
    BY <1>1, LenProperties, EmptySeq
  <2> QED BY <2>1
<1>3. q = [[k EXCEPT !.chunkOffsets = a] EXCEPT !.chunkSamples = b]
  BY DEF WithChunk
<1> HIDE DEF q, a, b
<1>4. /\ q.chunkOffsets = a /\ q.chunkSamples = b
      /\ q.pending = k.pending /\ q.pendingStart = k.pendingStart
      /\ q.timescale = k.timescale /\ q.clock = k.clock
      /\ SameTimes(k, q)
  <2> DEFINE i == [k EXCEPT !.chunkOffsets = a]
  <2>1. /\ i = [i EXCEPT !.chunkOffsets = a] /\ DOMAIN i = DOMAIN k /\ i.chunkOffsets = a
        /\ i.pending = k.pending /\ i.pendingStart = k.pendingStart
        /\ i.timescale = k.timescale /\ i.clock = k.clock
        /\ i.count = k.count /\ i.total = k.total
        /\ i.durCounts = k.durCounts /\ i.durDeltas = k.durDeltas
        /\ "chunkSamples" \in DOMAIN i
    BY DEF TrackType
  <2>2. q = [i EXCEPT !.chunkSamples = b]
    BY <1>3
  <2> HIDE DEF i
  <2> QED BY <2>1, <2>2 DEF SameTimes
<1>5. /\ m \in Nat /\ DOMAIN f = 1..m /\ Len(b) = m + 1 /\ b[m + 1] = p
      /\ \A c \in 1..m : b[c] = f[c]
      /\ DOMAIN b = 1..(m + 1) /\ \A c \in 1..m : f[c] \in Nat
  <2>1. m \in Nat /\ DOMAIN f = 1..m /\ \A c \in 1..m : f[c] \in Nat
    BY <1>1, LenProperties
  <2> HIDE DEF f, m, p
  <2>2. Len(f) = m
    BY DEF m
  <2>3. b \in Seq(Nat) /\ Len(b) = m + 1 /\ b[m + 1] = p /\ \A c \in 1..m : b[c] = f[c]
    BY <1>1, <1>2, <2>2, AppendProperties DEF b, f
  <2>4. DOMAIN b = 1..(m + 1)
    BY <2>3, LenProperties
  <2> QED BY <2>1, <2>3, <2>4
<1>6. /\ \A c \in 1..m : f[c] > 0
      /\ SumTo(f, m) = InChunks(k)
      /\ k.pendingStart = SumTo(Durs(k), InChunks(k))
  BY <1>5 DEF Chunked
<1>7. Durs(q) = Durs(k) /\ InChunks(k) = k.count - p
  BY <1>4, TimesSame DEF InChunks
<1> HIDE DEF f, m, p
<1>8. \A h \in Nat : h <= m => SumTo(b, h) = SumTo(f, h)
  <2> SUFFICES ASSUME NEW h \in Nat, h <= m
               PROVE  SumTo(b, h) = SumTo(f, h)
    OBVIOUS
  <2>1. \A c \in 1..h : b[c] = f[c]
    BY <1>5
  <2> QED BY <2>1, SumSame
<1>9. SumTo(b, m) = InChunks(k)
  BY <1>5, <1>6, <1>8
<1>10. SumTo(b, m + 1) = k.count
  <2>1. SumTo(b, m + 1) = SumTo(b, m) + p
    BY <1>5, SumStep
  <2> QED BY <1>1, <1>2, <1>7, <1>9, <2>1
<1>11. Chunked(q, TRUE)
  <2>1. \A c \in 1..(m + 1) : b[c] > 0
    BY <1>2, <1>5, <1>6
  <2>2. InChunks(q) = InChunks(k) /\ q.count = k.count
    BY <1>4, Zenon DEF InChunks, SameTimes
  <2> QED BY <1>4, <1>5, <1>6, <1>7, <1>10, <2>1, <2>2, Zenon DEF Chunked
<1>12. ASSUME NEW c \in 1..m
       PROVE  StartOf(q, c) = StartOf(k, c)
  <2>1. c - 1 \in Nat /\ c - 1 <= m
    BY <1>5
  <2>2. SumTo(b, c - 1) = SumTo(f, c - 1)
    BY <1>8, <2>1
  <2> QED BY <1>4, <1>7, <2>2, Zenon DEF StartOf, f
<1>13. StartOf(q, m + 1) = k.pendingStart
  <2>1. (m + 1) - 1 = m
    BY <1>5
  <2> QED BY <1>4, <1>6, <1>7, <1>9, <2>1, Zenon DEF StartOf
<1> QED BY <1>1, <1>4, <1>11, <1>12, <1>13, Zenon DEF q, a, m, f

(* A track whose chunk has been written out.                               *)
LEMMA EmptiedTimes ==
    ASSUME NEW k \in TrackType, TablesAgree(k), Chunked(k, TRUE)
    PROVE  LET q == Emptied(k)
           IN  /\ SameTimes(k, q) /\ Chunked(q, FALSE)
               /\ q.timescale = k.timescale /\ q.clock = k.clock /\ q.pending = <<>>
               /\ q.chunkOffsets = k.chunkOffsets /\ q.chunkSamples = k.chunkSamples
<1> DEFINE e == <<>>
           z == 0
           i == [k EXCEPT !.pending = e]
           q == Emptied(k)
<1>1. q = [i EXCEPT !.pendingDur = z]
  BY DEF Emptied
<1> HIDE DEF e, z, q
<1>2. /\ i.timescale = k.timescale /\ i.clock = k.clock /\ i.pending = e
      /\ i.chunkOffsets = k.chunkOffsets /\ i.chunkSamples = k.chunkSamples
      /\ i.count = k.count /\ i.total = k.total
      /\ i.durCounts = k.durCounts /\ i.durDeltas = k.durDeltas
  BY DEF TrackType
<1> HIDE DEF i
<1>3. /\ q.timescale = k.timescale /\ q.clock = k.clock /\ q.pending = e
      /\ q.chunkOffsets = k.chunkOffsets /\ q.chunkSamples = k.chunkSamples
      /\ q.count = k.count /\ q.total = k.total
      /\ q.durCounts = k.durCounts /\ q.durDeltas = k.durDeltas
  BY <1>1, <1>2
<1>4. InChunks(q) = k.count
  <2>1. Len(e) = 0 /\ k.count \in Nat
    BY DEF e, TrackType
  <2> QED BY <1>3, <2>1 DEF InChunks
<1>5. Chunked(q, FALSE)
  BY <1>3, <1>4, Zenon DEF Chunked, e
<1>6. SameTimes(k, q)
  BY <1>3 DEF SameTimes
<1> QED BY <1>3, <1>5, <1>6 DEF q, e

(* Whatever changes but the chunks and the pending samples.                *)
LEMMA ChunksSame ==
    ASSUME NEW k, NEW l, SameTimes(k, l), Timed(k), NEW within, Chunked(k, within),
           l.chunkSamples = k.chunkSamples, l.pending = k.pending,
           l.pendingStart = k.pendingStart
    PROVE  Chunked(l, within) /\ \A c : StartOf(l, c) = StartOf(k, c)
<1>1. Durs(l) = Durs(k)
  BY TimesSame
<1>2. InChunks(l) = InChunks(k)
  BY Zenon DEF InChunks, SameTimes
<1> QED BY <1>1, <1>2, Zenon DEF Chunked, StartOf, SameTimes

(***************************************************************************)
(* The order of the media, of a caller in decode order.                    *)
(***************************************************************************)
(* Every chunk of k starts no later than what l has pending.               *)
Before(k, l) ==
    \A c \in DOMAIN k.chunkOffsets : StartOf(k, c) * l.timescale <= l.pendingStart * k.timescale

(* A chunk of k in front of one of l starts no later.                      *)
InOrder(k, l) ==
    \A c \in DOMAIN k.chunkOffsets, d \in DOMAIN l.chunkOffsets :
        k.chunkOffsets[c] < l.chunkOffsets[d] =>
            StartOf(k, c) * l.timescale <= StartOf(l, d) * k.timescale

(* A clock has made of what it counted what it is at.                      *)
Agrees(c) == c.in \in Nat /\ c.out = ScaleNearest(c.in, c.from, c.to)

(* No sample of k starts later than what l takes next.                     *)
Follows(k, l) == k.count > 0 => LastAt(k) * l.timescale <= l.total * k.timescale

(* The times of the tracks, and of the sample in hand.                     *)
TimesKept ==
    /\ \A t \in DOMAIN tracks : Agrees(tracks[t].clock) /\ Timed(tracks[t])
    /\ pc = "idle" => call = NoCall
    /\ call # NoCall =>
         /\ call.sample.dur \in Nat
         /\ \A u \in DOMAIN tracks : Follows(tracks[u], tracks[call.track])

(* The chunks written, in order, and no later than what is still to be     *)
(* written, as long as no media was refused.                               *)
ChunksKept ==
    \A t \in DOMAIN tracks :
        /\ Chunked(tracks[t], open.track = t)
        /\ \A u \in DOMAIN tracks :
             /\ tracks[u].pending # <<>> /\ open.track # u => Before(tracks[t], tracks[u])
             /\ InOrder(tracks[t], tracks[u])

MediaInv == TimesKept /\ (faults.media = 0 => ChunksKept)

(* A finished file is in order.                                            *)
LEMMA MediaInvHolds == IInv /\ MediaInv => MediaInDecodeOrder
<1> SUFFICES ASSUME IInv, MediaInv, moov # {}, faults.media = 0,
                    NEW t \in DOMAIN tracks, NEW u \in DOMAIN tracks,
                    NEW c \in DOMAIN tracks[t].chunkOffsets,
                    NEW d \in DOMAIN tracks[u].chunkOffsets,
                    tracks[t].chunkOffsets[c] < tracks[u].chunkOffsets[d]
             PROVE  ChunkStart(t, c) * tracks[u].timescale
                      <= ChunkStart(u, d) * tracks[t].timescale
  BY DEF MediaInDecodeOrder
<1>1. ASSUME NEW w \in DOMAIN tracks, NEW b \in DOMAIN tracks[w].chunkOffsets
      PROVE  ChunkStart(w, b) = StartOf(tracks[w], b)
  <2> DEFINE k == tracks[w]
             m == SumTo(k.chunkSamples, b - 1)
             f == [n \in 1..m |-> RunValue(k.durCounts, k.durDeltas, n)]
  <2>1. k \in TrackType /\ TablesAgree(k) /\ Timed(k) /\ Chunked(k, open.track = w)
    BY DEF IInv, TypeOK, MediaInv, TimesKept, ChunksKept
  <2>2. b \in DOMAIN k.chunkSamples
    <3>1. k.chunkOffsets \in Seq(Nat) /\ k.chunkSamples \in Seq(Nat)
      BY <2>1 DEF TrackType
    <3> QED BY <2>1, <3>1, LenProperties DEF TablesAgree
  <2>3. m \in 0..k.count /\ k.count \in Nat
    BY <2>1, <2>2, StartsWithin DEF TrackType
  <2>4. ChunkStart(w, b) = SumTo(f, m)
    BY Zenon DEF ChunkStart
  <2>5. StartOf(k, b) = SumTo(Durs(k), m)
    BY Zenon DEF StartOf
  <2> HIDE DEF m, k
  <2>6. m \in Nat /\ \A n \in 1..m : n \in 1..k.count
    BY <2>3
  <2>7. \A n \in 1..m : f[n] = Durs(k)[n]
    BY <2>6, Zenon DEF Durs
  <2> HIDE DEF f
  <2>8. SumTo(f, m) = SumTo(Durs(k), m)
    BY <2>6, <2>7, SumSame
  <2> QED BY <2>4, <2>5, <2>8 DEF k
<1>2. InOrder(tracks[t], tracks[u])
  BY DEF MediaInv, ChunksKept
<1> QED BY <1>1, <1>2 DEF InOrder

(* What the lemmas about records need of the tracks.                       *)
LEMMA TracksKept ==
    ASSUME IInv, MediaInv
    PROVE  /\ tracks \in Seq(TrackType)
           /\ \A t \in DOMAIN tracks : /\ t \in Nat \ {0} /\ tracks[t] \in TrackType
                                       /\ TablesAgree(tracks[t])
                                       /\ Agrees(tracks[t].clock) /\ Timed(tracks[t])
           /\ \A t \in DOMAIN tracks : NoCall.track # t /\ NoChunk.track # t
<1>1. tracks \in Seq(TrackType) /\ \A t \in DOMAIN tracks : TablesAgree(tracks[t])
  BY DEF IInv, TypeOK
<1>2. \A t \in DOMAIN tracks : t \in Nat \ {0} /\ tracks[t] \in TrackType
  BY <1>1
<1> QED BY <1>1, <1>2 DEF MediaInv, TimesKept, NoCall, NoChunk

(* A step that leaves the tracks alone.                                    *)
LEMMA MediaFrame ==
    ASSUME MediaInv, tracks' = tracks,
           \/ open'.track = open.track
           \/ faults'.media # 0,
           faults'.media = 0 => faults.media = 0,
           \/ call' = call /\ (pc' = "idle" => pc = "idle" \/ call = NoCall)
           \/ call' = NoCall
    PROVE  MediaInv'
<1>1. TimesKept'
  <2>1. call' = call \/ call' = NoCall
    OBVIOUS
  <2>2. pc' = "idle" => call' = NoCall
    BY DEF MediaInv, TimesKept
  <2> QED BY <2>1, <2>2 DEF MediaInv, TimesKept
<1>2. ASSUME faults'.media = 0
      PROVE  ChunksKept'
  <2>1. open'.track = open.track /\ ChunksKept
    BY <1>2 DEF MediaInv
  <2> QED BY <2>1 DEF ChunksKept
<1> QED BY <1>1, <1>2 DEF MediaInv

(* The muxer starts without tracks.                                        *)
LEMMA InitMediaInv == Init => MediaInv
<1> SUFFICES ASSUME Init PROVE MediaInv
  OBVIOUS
<1>1. DOMAIN tracks = {} /\ call = NoCall
  BY DEF Init
<1> QED BY <1>1 DEF MediaInv, TimesKept, ChunksKept

(* The clock of a new track has counted nothing.                           *)
LEMMA NewClock ==
    ASSUME NEW cfg \in ConfigType
    PROVE  Agrees(NewTrack(cfg).clock)
<1> DEFINE c == WithAudioClock(cfg)
<1>1. c \in ClockType /\ c.in = 0 /\ c.out = 0
  BY AudioTimescaleType DEF WithAudioClock, NoClock
<1>2. c.from \in Nat \ {0} /\ c.to \in Nat
  BY <1>1 DEF ClockType
<1> HIDE DEF c
<1>3. ScaleNearest(0, c.from, c.to) = 0
  <2>1. 0 * c.to + c.from \div 2 = c.from \div 2 /\ c.from \div 2 \in Nat
    BY <1>2, QuotientType
  <2>2. c.from \div 2 < c.from
    BY <1>2, SMT
  <2>3. \A h \in Nat : h < c.from => h \div c.from = 0
    BY <1>2, SMT
  <2> QED BY <2>1, <2>2, <2>3 DEF ScaleNearest
<1>4. NewTrack(cfg).clock = c
  BY DEF NewTrack, c
<1> QED BY <1>1, <1>3, <1>4 DEF Agrees

(* A clock that agrees makes a duration of every duration, and agrees.     *)
LEMMA ClockRuns ==
    ASSUME NEW c \in ClockType, Agrees(c), NEW s \in SampleType, s.dur \in Nat
    PROVE  ClockSample(c, s).sample.dur \in Nat /\ Agrees(ClockSample(c, s).clock)
<1>1. CASE ~Converts(c)
  BY <1>1 DEF ClockSample
<1>2. CASE Converts(c)
  <2> DEFINE in == c.in + s.dur
             out == ScaleNearest(in, c.from, c.to)
             a == c.in * c.to + c.from \div 2
             b == in * c.to + c.from \div 2
  <2>1. c.from \in Nat \ {0} /\ c.to \in Nat /\ c.in \in Nat /\ c.from \div 2 \in Nat
    BY QuotientType DEF ClockType, Agrees
  <2>2. in \in Nat /\ c.in <= in
    BY <2>1
  <2>3. c.in * c.to \in Nat /\ in * c.to \in Nat
    BY <2>1, <2>2
  <2>4. c.in * c.to <= in * c.to
    BY <2>1, <2>2, SMT
  <2>5. a \in Nat /\ b \in Nat /\ a <= b
    BY <2>1, <2>3, <2>4
  <2>6. c.out = a \div c.from /\ out = b \div c.from
    BY DEF Agrees, ScaleNearest
  <2>7. ClockSample(c, s).sample.dur = out - c.out
    BY <1>2 DEF ClockSample
  <2>8. Agrees(ClockSample(c, s).clock)
    BY <1>2, <2>2 DEF ClockSample, Agrees
  <2> HIDE DEF a, b, in, out
  <2>9. a \div c.from \in Nat /\ b \div c.from \in Nat /\ a \div c.from <= b \div c.from
    <3> DEFINE n == c.from
               q == a \div n
               r == b \div n
    <3>1. n \in Nat \ {0}
      BY <2>1
    <3>2. q \in Nat /\ r \in Nat /\ n * q <= a /\ b < n * r + n
      <4> HIDE DEF n
      <4>1. /\ a = n * q + (a % n) /\ (a % n) \in Nat /\ q \in Nat
            /\ b = n * r + (b % n) /\ (b % n) < n /\ (b % n) \in Nat /\ r \in Nat
        BY <2>5, <3>1, Division
      <4> HIDE DEF q, r
      <4>2. n * q \in Nat /\ n * r \in Nat
        BY <3>1, <4>1
      <4> QED BY <2>5, <3>1, <4>1, <4>2
    <3> HIDE DEF q, r, n
    <3>3. ~ q > r
      <4> SUFFICES ASSUME q > r PROVE FALSE
        OBVIOUS
      <4>1. n * (r + 1) <= n * q
        BY <3>1, <3>2
      <4>2. n * (r + 1) = n * r + n /\ n * q \in Nat /\ n * r \in Nat
        BY <3>1, <3>2
      <4> QED BY <2>5, <3>1, <3>2, <4>1, <4>2
    <3>4. q <= r
      BY <3>2, <3>3
    <3> QED BY <3>2, <3>4 DEF q, r, n
  <2>10. out - c.out \in Nat
    BY <2>6, <2>9
  <2> QED BY <2>7, <2>8, <2>10
<1> QED BY <1>1, <1>2

(* The chunks of a track, and when they start, where only what is pending  *)
(* changes: each track has the same, or begins something after them all.   *)
LEMMA ChunksMove ==
    ASSUME ChunksKept, DOMAIN tracks' = DOMAIN tracks,
           \A u \in DOMAIN tracks :
             /\ tracks'[u].chunkOffsets = tracks[u].chunkOffsets
             /\ tracks'[u].timescale = tracks[u].timescale
             /\ \A c \in DOMAIN tracks[u].chunkOffsets :
                  StartOf(tracks'[u], c) = StartOf(tracks[u], c)
             /\ Chunked(tracks'[u], open'.track = u)
             /\ tracks'[u].pending # <<>> /\ open'.track # u =>
                  \/ /\ tracks[u].pending # <<>> /\ open.track # u
                     /\ tracks'[u].pendingStart = tracks[u].pendingStart
                  \/ \A t \in DOMAIN tracks : Before(tracks[t], tracks'[u])
    PROVE  ChunksKept'
<1> SUFFICES ASSUME NEW t \in DOMAIN tracks, NEW u \in DOMAIN tracks
             PROVE  /\ tracks'[u].pending # <<>> /\ open'.track # u =>
                         Before(tracks'[t], tracks'[u])
                    /\ InOrder(tracks'[t], tracks'[u])
  BY DEF ChunksKept
<1>1. ASSUME tracks'[u].pending # <<>>, open'.track # u
      PROVE  Before(tracks'[t], tracks'[u])
  <2>1. Before(tracks[t], tracks'[u])
    <3>1. CASE \A v \in DOMAIN tracks : Before(tracks[v], tracks'[u])
      BY <3>1
    <3>2. CASE /\ tracks[u].pending # <<>> /\ open.track # u
               /\ tracks'[u].pendingStart = tracks[u].pendingStart
      <4>1. Before(tracks[t], tracks[u])
        BY <3>2 DEF ChunksKept
      <4> QED BY <3>2, <4>1 DEF Before
    <3> QED BY <1>1, <3>1, <3>2
  <2> QED BY <2>1 DEF Before
<1>2. InOrder(tracks'[t], tracks'[u])
  <2>1. InOrder(tracks[t], tracks[u])
    BY DEF ChunksKept
  <2> QED BY <2>1 DEF InOrder
<1> QED BY <1>1, <1>2

(* A new track has neither samples nor chunks.                             *)
LEMMA AddTrackMedia ==
    ASSUME IInv, MediaInv, AddTrack
    PROVE  MediaInv'
<1> DEFINE cfg == Configs[Len(tracks) + 1]
           k == NewTrack(cfg)
           n == Len(tracks) + 1
<1>1. /\ tracks \in Seq(TrackType) /\ Len(tracks) \in Nat /\ DOMAIN tracks = 1..Len(tracks)
  BY LenProperties DEF IInv, TypeOK
<1>2. cfg \in ConfigType
  <2>1. Configs \in Seq(ConfigType)
    BY ProgressiveAssumption DEF ConfigType
  <2>2. Len(tracks) + 1 \in 1..Len(Configs)
    BY <1>1, <2>1, LenProperties DEF AddTrack
  <2> QED BY <2>1, <2>2, ElementOfSeq
<1>3. /\ k \in TrackType /\ k.count = 0 /\ k.pending = <<>> /\ k.total = 0
      /\ k.durCounts = <<>> /\ k.durDeltas = <<>>
      /\ k.chunkOffsets = <<>> /\ k.chunkSamples = <<>>
      /\ Agrees(k.clock)
  BY <1>2, NewTrackType, NewClock DEF NewTrack
<1>4. /\ tracks' = Append(tracks, k) /\ pc = "idle" /\ UNCHANGED <<pc, call, open, faults>>
  BY DEF AddTrack
<1> HIDE DEF k, cfg
<1>5. /\ DOMAIN tracks' = 1..n /\ n \notin DOMAIN tracks /\ tracks'[n] = k
      /\ \A t \in DOMAIN tracks : t \in DOMAIN tracks' /\ tracks'[t] = tracks[t]
      /\ \A t \in DOMAIN tracks' : t \in DOMAIN tracks \/ t = n
  <2>1. /\ Append(tracks, k) \in Seq(TrackType) /\ Len(Append(tracks, k)) = n
        /\ \A t \in 1..Len(tracks) : Append(tracks, k)[t] = tracks[t]
        /\ Append(tracks, k)[n] = k
    BY <1>1, <1>3, AppendProperties
  <2> QED BY <1>1, <1>4, <2>1, LenProperties
<1> HIDE DEF n
<1>6. Timed(k) /\ Chunked(k, FALSE)
  <2>1. Len(<<>>) = 0 /\ DOMAIN <<>> = {} /\ <<>> \in Seq(Nat) /\ <<>> \in Seq(Int)
    OBVIOUS
  <2>2. RunTable(k.durCounts, k.durDeltas)
    BY <1>3, <2>1 DEF RunTable
  <2>3. SumTo(k.durCounts, 0) = 0 /\ SumTo(Durs(k), 0) = 0 /\ SumTo(k.chunkSamples, 0) = 0
    BY SumZero
  <2>4. Timed(k)
    BY <1>3, <2>1, <2>2, <2>3 DEF Timed
  <2> DEFINE none == <<>>
  <2>5. Len(none) = 0 /\ DOMAIN none = {} /\ k.chunkSamples = none /\ k.pending = none /\ k.count = 0
    BY <1>3
  <2> HIDE DEF none
  <2>6. InChunks(k) = 0
    <3>1. InChunks(k) = k.count - Len(k.pending)
      BY DEF InChunks
    <3>2. k.count - Len(k.pending) = 0 - 0
      BY <2>5, Zenon
    <3> QED BY <3>1, <3>2
  <2>7. SumTo(k.chunkSamples, Len(k.chunkSamples)) = 0
    BY <2>3, <2>5
  <2>8. \A c \in DOMAIN k.chunkSamples : k.chunkSamples[c] > 0
    BY <2>5
  <2> QED BY <1>3, <2>4, <2>6, <2>7, <2>8 DEF Chunked
<1>7. TimesKept'
  <2>1. call = NoCall /\ call' = NoCall
    BY <1>4 DEF MediaInv, TimesKept
  <2>2. \A t \in DOMAIN tracks' : Agrees(tracks'[t].clock) /\ Timed(tracks'[t])
    BY <1>3, <1>5, <1>6 DEF MediaInv, TimesKept
  <2> QED BY <2>1, <2>2 DEF TimesKept
<1>8. open = NoChunk /\ open' = NoChunk
  BY <1>4 DEF IInv, Control
<1>9. ASSUME ChunksKept, NEW t \in DOMAIN tracks', NEW u \in DOMAIN tracks'
      PROVE  /\ Chunked(tracks'[t], FALSE)
             /\ tracks'[u].pending # <<>> => Before(tracks'[t], tracks'[u])
             /\ InOrder(tracks'[t], tracks'[u])
  <2> DEFINE none == <<>>
  <2>1. DOMAIN none = {} /\ k.chunkOffsets = none /\ k.pending = <<>>
    BY <1>3
  <2>2. \A v : Before(k, v) /\ InOrder(k, v) /\ InOrder(v, k)
    <3> HIDE DEF none
    <3> QED BY <2>1 DEF Before, InOrder
  <2>3. NoChunk.track # t /\ NoChunk.track # u
    BY <1>5, <1>1 DEF NoChunk, n
  <2>4. CASE t \in DOMAIN tracks /\ u \in DOMAIN tracks
    <3>1. (open.track = t) = FALSE /\ open.track # u
      BY <1>8, <2>3
    <3>2. /\ Chunked(tracks[t], FALSE)
          /\ tracks[u].pending # <<>> => Before(tracks[t], tracks[u])
          /\ InOrder(tracks[t], tracks[u])
      BY <1>9, <2>4, <3>1 DEF ChunksKept
    <3> QED BY <1>5, <2>4, <3>2
  <2>5. CASE t = n
    BY <1>5, <1>6, <2>2, <2>5
  <2>6. CASE t \in DOMAIN tracks /\ u = n
    <3>1. Chunked(tracks'[t], FALSE)
      <4>1. (open.track = t) = FALSE
        BY <1>8, <2>3
      <4>2. Chunked(tracks[t], FALSE)
        BY <1>9, <2>6, <4>1 DEF ChunksKept
      <4> QED BY <1>5, <2>6, <4>2
    <3> QED BY <1>5, <2>1, <2>2, <2>6, <3>1
  <2> QED BY <1>5, <2>4, <2>5, <2>6
<1>10. ASSUME ChunksKept PROVE ChunksKept'
  <2>1. \A t \in DOMAIN tracks' : open'.track # t
    BY <1>1, <1>5, <1>8 DEF NoChunk, n
  <2>2. \A t \in DOMAIN tracks' : (open'.track = t) = FALSE
    BY <2>1
  <2> QED BY <1>9, <1>10, <2>1, <2>2 DEF ChunksKept
<1> QED BY <1>4, <1>7, <1>10 DEF MediaInv

(* A sample handed over changes a clock; the caller keeps to the order.    *)
LEMMA WriteSampleMedia ==
    ASSUME IInv, MediaInv, NEW t \in 1..Len(Configs), NEW s \in Samples, WriteSample(t, s),
           CallerInOrder
    PROVE  MediaInv'
<1> DEFINE r == ClockSample(tracks[t].clock, s)
           l == r.clock
           k == [tracks[t] EXCEPT !.clock = l]
<1>1. /\ t \in DOMAIN tracks /\ t \in Nat \ {0} /\ tracks[t] \in TrackType
      /\ tracks \in Seq(TrackType) /\ Agrees(tracks[t].clock)
  BY TracksKept DEF WriteSample
<1>2. s \in SampleType /\ s.dur \in Nat
  BY ProgressiveAssumption DEF SampleType
<1>3. r.sample.dur \in Nat /\ Agrees(l)
  <2>1. tracks[t].clock \in ClockType
    BY <1>1 DEF TrackType
  <2> QED BY <1>1, <1>2, <2>1, ClockRuns
<1>4. /\ tracks' = [tracks EXCEPT ![t] = k] /\ call' = [track |-> t, sample |-> r.sample]
      /\ pc = "idle" /\ pc' # "idle" /\ UNCHANGED <<open, faults>>
  BY DEF WriteSample
<1> HIDE DEF r, l
<1>5. /\ k.clock = l /\ SameTimes(tracks[t], k)
      /\ k.timescale = tracks[t].timescale /\ k.pending = tracks[t].pending
      /\ k.pendingStart = tracks[t].pendingStart
      /\ k.chunkOffsets = tracks[t].chunkOffsets /\ k.chunkSamples = tracks[t].chunkSamples
  BY <1>1 DEF TrackType, SameTimes
<1> HIDE DEF k
<1>6. /\ DOMAIN tracks' = DOMAIN tracks /\ tracks'[t] = k
      /\ \A u \in DOMAIN tracks : u # t => tracks'[u] = tracks[u]
  BY <1>1, <1>4
<1>7. \A u \in DOMAIN tracks :
        /\ SameTimes(tracks[u], tracks'[u])
        /\ tracks'[u].timescale = tracks[u].timescale /\ tracks'[u].pending = tracks[u].pending
        /\ tracks'[u].pendingStart = tracks[u].pendingStart
        /\ tracks'[u].chunkOffsets = tracks[u].chunkOffsets
        /\ tracks'[u].chunkSamples = tracks[u].chunkSamples
        /\ Agrees(tracks'[u].clock)
  BY <1>3, <1>5, <1>6, TracksKept DEF SameTimes
<1>8. \A u \in DOMAIN tracks : Timed(tracks'[u]) /\ LastAt(tracks'[u]) = LastAt(tracks[u])
  BY <1>7, TracksKept, TimesSame
<1>9. TimesKept'
  <2>1. call = NoCall /\ call' # NoCall
    BY <1>1, <1>4 DEF MediaInv, TimesKept, NoCall
  <2>2. call'.track = t /\ call'.sample = r.sample
    BY <1>4
  <2>3. ASSUME NEW u \in DOMAIN tracks
        PROVE  Follows(tracks'[u], tracks'[t])
    <3>1. Follows(tracks[u], tracks[t])
      BY <2>1, <2>2 DEF CallerInOrder, Follows, LastStart, LastAt
    <3> QED BY <1>1, <1>7, <1>8, <3>1 DEF Follows, SameTimes
  <2> QED BY <1>3, <1>4, <1>6, <1>7, <1>8, <2>2, <2>3 DEF TimesKept
<1>10. ASSUME ChunksKept
       PROVE  ChunksKept'
  <2>1. \A u \in DOMAIN tracks :
          /\ Chunked(tracks'[u], open'.track = u)
          /\ \A c : StartOf(tracks'[u], c) = StartOf(tracks[u], c)
    <3> SUFFICES ASSUME NEW u \in DOMAIN tracks
                 PROVE  /\ Chunked(tracks'[u], open'.track = u)
                        /\ \A c : StartOf(tracks'[u], c) = StartOf(tracks[u], c)
      OBVIOUS
    <3> DEFINE within == open.track = u
    <3>1. Chunked(tracks[u], within) /\ Timed(tracks[u]) /\ open' = open
      BY <1>4, <1>10, TracksKept DEF ChunksKept
    <3> HIDE DEF within
    <3>2. Chunked(tracks'[u], within) /\ \A c : StartOf(tracks'[u], c) = StartOf(tracks[u], c)
      BY <1>7, <3>1, ChunksSame
    <3> QED BY <3>1, <3>2 DEF within
  <2> QED BY <1>4, <1>6, <1>7, <1>10, <2>1, ChunksMove
<1> QED BY <1>4, <1>9, <1>10 DEF MediaInv

(* A sample taken is behind every other of its track, and starts no        *)
(* earlier than any chunk.                                                 *)
LEMMA AcceptMedia ==
    ASSUME IInv, MediaInv, open = NoChunk, call.track \in DOMAIN tracks, Accept
    PROVE  MediaInv'
<1> DEFINE t == call.track
           s == call.sample
           k == tracks[t]
           q == Taken(t, k, s)
<1>1. /\ t \in DOMAIN tracks /\ t \in Nat /\ k \in TrackType /\ TablesAgree(k) /\ Timed(k)
      /\ tracks \in Seq(TrackType) /\ s \in SampleType /\ Agrees(k.clock)
  BY TracksKept DEF IInv, TypeOK
<1>2. call # NoCall
  <2>1. NoCall.track # t
    BY TracksKept
  <2> QED BY <2>1
<1>3. s.dur \in Nat /\ \A u \in DOMAIN tracks : Follows(tracks[u], k)
  BY <1>2 DEF MediaInv, TimesKept
<1>4. /\ tracks' = [tracks EXCEPT ![t] = q] /\ call' = NoCall /\ UNCHANGED <<open, faults>>
  BY DEF Accept
<1>5. /\ q.timescale = k.timescale /\ q.clock = k.clock
      /\ q.chunkOffsets = k.chunkOffsets /\ q.chunkSamples = k.chunkSamples
  BY DEF Taken
<1>6. Timed(q)
  BY <1>1, <1>3, TakenTimed
<1>7. ASSUME Chunked(k, FALSE)
      PROVE  /\ Chunked(q, FALSE)
             /\ \A c \in DOMAIN k.chunkSamples : StartOf(q, c) = StartOf(k, c)
             /\ q.pendingStart = IF k.pending = <<>> THEN k.total ELSE k.pendingStart
  BY <1>1, <1>3, <1>7, TakenChunked
<1> HIDE DEF q
<1>8. /\ DOMAIN tracks' = DOMAIN tracks /\ tracks'[t] = q
      /\ \A u \in DOMAIN tracks : u # t => tracks'[u] = tracks[u]
  BY <1>1, <1>4
<1>9. TimesKept'
  <2>1. \A u \in DOMAIN tracks : Agrees(tracks'[u].clock) /\ Timed(tracks'[u])
    BY <1>1, <1>5, <1>6, <1>8, TracksKept
  <2> QED BY <1>4, <1>8, <2>1 DEF TimesKept
<1>10. ASSUME ChunksKept
       PROVE  ChunksKept'
  <2>0. \A u \in DOMAIN tracks : (open.track = u) = FALSE /\ (open'.track = u) = FALSE
    BY <1>4, TracksKept
  <2>1. \A u \in DOMAIN tracks : Chunked(tracks[u], FALSE)
    BY <1>10, <2>0 DEF ChunksKept
  <2>2. \A u \in DOMAIN tracks : /\ DOMAIN tracks[u].chunkOffsets = DOMAIN tracks[u].chunkSamples
                                 /\ tracks[u].timescale \in Nat \ {0}
                                 /\ tracks[u].count \in Nat /\ tracks[u].total \in Int
    <3> SUFFICES ASSUME NEW u \in DOMAIN tracks
                 PROVE  /\ DOMAIN tracks[u].chunkOffsets = DOMAIN tracks[u].chunkSamples
                        /\ tracks[u].timescale \in Nat \ {0}
                        /\ tracks[u].count \in Nat /\ tracks[u].total \in Int
      OBVIOUS
    <3>1. tracks[u] \in TrackType /\ TablesAgree(tracks[u])
      BY TracksKept
    <3>2. tracks[u].chunkOffsets \in Seq(Nat) /\ tracks[u].chunkSamples \in Seq(Nat)
      BY <3>1 DEF TrackType
    <3>3. DOMAIN tracks[u].chunkOffsets = DOMAIN tracks[u].chunkSamples
      BY <3>1, <3>2, LenProperties DEF TablesAgree
    <3> QED BY <3>1, <3>3 DEF TrackType
  <2>3. ASSUME k.pending = <<>>, NEW v \in DOMAIN tracks
        PROVE  Before(tracks[v], q)
    <3> SUFFICES ASSUME NEW c \in DOMAIN tracks[v].chunkOffsets
                 PROVE  StartOf(tracks[v], c) * q.timescale <= q.pendingStart * tracks[v].timescale
      BY DEF Before
    <3>1. /\ StartOf(tracks[v], c) \in Nat /\ StartOf(tracks[v], c) <= LastAt(tracks[v])
          /\ tracks[v].count > 0
      <4>1. /\ SumTo(tracks[v].chunkSamples, c - 1) \in 0..tracks[v].count
            /\ SumTo(tracks[v].chunkSamples, c - 1) < tracks[v].count
            /\ StartOf(tracks[v], c) \in Nat /\ StartOf(tracks[v], c) <= LastAt(tracks[v])
        BY <2>1, <2>2, TracksKept, StartsWithin
      <4> QED BY <2>2, <4>1
    <3>2. LastAt(tracks[v]) * k.timescale <= k.total * tracks[v].timescale
      BY <1>3, <3>1 DEF Follows
    <3>3. LastAt(tracks[v]) \in Nat
      BY <2>2, <3>1, TracksKept, TimesType
    <3>4. q.pendingStart = k.total /\ q.timescale = k.timescale
      BY <1>1, <1>5, <1>7, <2>1, <2>3
    <3> DEFINE a == StartOf(tracks[v], c)
               b == LastAt(tracks[v])
               m == k.timescale
               n == tracks[v].timescale
               z == k.total
    <3>5. a \in Nat /\ b \in Nat /\ a <= b /\ m \in Nat /\ n \in Nat /\ z \in Int /\ b * m <= z * n
      BY <1>1, <2>2, <3>1, <3>2, <3>3
    <3> HIDE DEF a, b, m, n, z
    <3>6. a * m <= b * m
      BY <3>5
    <3>7. a * m \in Int /\ b * m \in Int /\ z * n \in Int
      BY <3>5
    <3>8. a * m <= z * n
      BY <3>5, <3>6, <3>7
    <3> QED BY <3>4, <3>8 DEF a, m, n, z
  <2>4. ASSUME NEW u \in DOMAIN tracks
        PROVE  /\ tracks'[u].chunkOffsets = tracks[u].chunkOffsets
               /\ tracks'[u].timescale = tracks[u].timescale
               /\ \A c \in DOMAIN tracks[u].chunkOffsets :
                    StartOf(tracks'[u], c) = StartOf(tracks[u], c)
               /\ Chunked(tracks'[u], open'.track = u)
               /\ tracks'[u].pending # <<>> /\ open'.track # u =>
                    \/ /\ tracks[u].pending # <<>> /\ open.track # u
                       /\ tracks'[u].pendingStart = tracks[u].pendingStart
                    \/ \A v \in DOMAIN tracks : Before(tracks[v], tracks'[u])
    <3>1. CASE u # t
      BY <1>8, <2>0, <2>1, <3>1
    <3>2. CASE u = t
      <4>1. /\ Chunked(q, FALSE)
            /\ \A c \in DOMAIN k.chunkOffsets : StartOf(q, c) = StartOf(k, c)
            /\ q.pendingStart = IF k.pending = <<>> THEN k.total ELSE k.pendingStart
        BY <1>1, <1>7, <2>1, <2>2
      <4>2. CASE k.pending = <<>>
        BY <1>5, <1>8, <2>0, <2>3, <3>2, <4>1, <4>2
      <4>3. CASE k.pending # <<>>
        BY <1>5, <1>8, <2>0, <3>2, <4>1, <4>3
      <4> QED BY <4>2, <4>3
    <3> QED BY <3>1, <3>2
  <2> QED BY <1>8, <1>10, <2>4, ChunksMove
<1> QED BY <1>4, <1>9, <1>10 DEF MediaInv

(* A chunk begins behind every other, and starts no earlier; and no later  *)
(* than what the other tracks have pending, being the first.               *)
LEMMA StartChunkMedia ==
    ASSUME IInv, MediaInv, StartChunk
    PROVE  MediaInv'
<1>1. PICK t \in Waiting :
        /\ \A u \in Waiting : Precedes(t, u)
        /\ tracks' = [tracks EXCEPT ![t] = WithChunk(tracks[t], written)]
        /\ open' = [track |-> t, sent |-> 0]
  BY DEF StartChunk
<1> DEFINE k == tracks[t]
           m == Len(k.chunkSamples)
           q == WithChunk(k, written)
<1>2. /\ t \in DOMAIN tracks /\ k \in TrackType /\ TablesAgree(k) /\ Timed(k) /\ Agrees(k.clock)
      /\ k.pending # <<>> /\ written \in Nat
      /\ tracks \in Seq(TrackType) /\ \A u \in DOMAIN tracks : u # NoChunk.track
  BY TracksKept DEF IInv, TypeOK, Waiting
<1>3. open = NoChunk /\ UNCHANGED <<call, pc, faults>> /\ pc = "flush"
  BY DEF StartChunk
<1>4. q.clock = k.clock /\ q.timescale = k.timescale /\ SameTimes(k, q)
  <2> DEFINE a == Append(k.chunkOffsets, written)
             b == Append(k.chunkSamples, Len(k.pending))
             i == [k EXCEPT !.chunkOffsets = a]
  <2>1. q = [i EXCEPT !.chunkSamples = b]
    BY DEF WithChunk
  <2> HIDE DEF a, b
  <2>2. /\ i.timescale = k.timescale /\ i.clock = k.clock
        /\ i.count = k.count /\ i.total = k.total
        /\ i.durCounts = k.durCounts /\ i.durDeltas = k.durDeltas
    BY <1>2 DEF TrackType
  <2> HIDE DEF i, q
  <2> QED BY <2>1, <2>2 DEF SameTimes
<1>5. ASSUME Chunked(k, FALSE)
      PROVE  /\ Chunked(q, TRUE)
             /\ q.pending = k.pending /\ q.pendingStart = k.pendingStart
             /\ Len(k.chunkOffsets) = m
             /\ q.chunkOffsets = Append(k.chunkOffsets, written)
             /\ \A c \in 1..m : StartOf(q, c) = StartOf(k, c)
             /\ StartOf(q, m + 1) = k.pendingStart
  BY <1>2, <1>5, WithChunkTimes
<1> HIDE DEF q
<1>6. /\ DOMAIN tracks' = DOMAIN tracks /\ tracks'[t] = q
      /\ \A u \in DOMAIN tracks : u # t => tracks'[u] = tracks[u]
  BY <1>1, <1>2 DEF q
<1>7. Timed(q) /\ LastAt(q) = LastAt(k)
  BY <1>2, <1>4, TimesSame
<1>8. TimesKept'
  <2>1. \A u \in DOMAIN tracks :
          /\ Agrees(tracks'[u].clock) /\ Timed(tracks'[u])
          /\ tracks'[u].count = tracks[u].count /\ tracks'[u].total = tracks[u].total
          /\ tracks'[u].timescale = tracks[u].timescale
          /\ LastAt(tracks'[u]) = LastAt(tracks[u])
    BY <1>2, <1>4, <1>6, <1>7, TracksKept DEF SameTimes
  <2>2. call = NoCall \/ call.track \in DOMAIN tracks
    BY DEF IInv, Control
  <2> QED BY <1>3, <1>6, <2>1, <2>2 DEF TimesKept, MediaInv, Follows
<1>9. ASSUME ChunksKept
      PROVE  ChunksKept'
  <2>1. \A u \in DOMAIN tracks : open.track # u /\ (open.track = u) = FALSE
    BY <1>2, <1>3
  <2>2. \A u \in DOMAIN tracks : Chunked(tracks[u], FALSE)
    BY <1>9, <2>1 DEF ChunksKept
  <2>3. /\ k.chunkOffsets \in Seq(Nat) /\ m \in Nat /\ Len(k.chunkOffsets) = m
        /\ DOMAIN k.chunkOffsets = 1..m
        /\ DOMAIN q.chunkOffsets = 1..(m + 1)
        /\ q.chunkOffsets[m + 1] = written
        /\ \A c \in 1..m : q.chunkOffsets[c] = k.chunkOffsets[c]
    <3>1. k.chunkOffsets \in Seq(Nat) /\ Len(k.chunkOffsets) = m
      BY <1>2, <1>5, <2>2 DEF TrackType
    <3>2. q.chunkOffsets = Append(k.chunkOffsets, written)
      BY <1>2, <1>5, <2>2
    <3>3. /\ Append(k.chunkOffsets, written) \in Seq(Nat)
          /\ Len(Append(k.chunkOffsets, written)) = Len(k.chunkOffsets) + 1
          /\ Append(k.chunkOffsets, written)[Len(k.chunkOffsets) + 1] = written
          /\ \A c \in 1..Len(k.chunkOffsets) :
               Append(k.chunkOffsets, written)[c] = k.chunkOffsets[c]
      BY <1>2, <3>1, AppendProperties
    <3>4. m \in Nat /\ DOMAIN k.chunkOffsets = 1..m
      BY <3>1, LenProperties
    <3>5. DOMAIN Append(k.chunkOffsets, written) = 1..(m + 1)
      BY <3>1, <3>3, LenProperties
    <3> QED BY <3>1, <3>2, <3>3, <3>4, <3>5
  <2>4. ASSUME NEW v \in DOMAIN tracks, NEW c \in DOMAIN tracks'[v].chunkOffsets
        PROVE  \/ /\ c \in DOMAIN tracks[v].chunkOffsets
                  /\ tracks'[v].chunkOffsets[c] = tracks[v].chunkOffsets[c]
                  /\ StartOf(tracks'[v], c) = StartOf(tracks[v], c)
               \/ /\ v = t /\ tracks'[v].chunkOffsets[c] = written
                  /\ StartOf(tracks'[v], c) = k.pendingStart
    <3>1. CASE v # t
      BY <1>6, <3>1
    <3>2. CASE v = t
      <4>1. c \in 1..m \/ c = m + 1
        BY <1>6, <2>3, <3>2
      <4>2. /\ \A d \in 1..m : StartOf(q, d) = StartOf(k, d)
            /\ StartOf(q, m + 1) = k.pendingStart
        BY <1>2, <1>5, <2>2
      <4> QED BY <1>6, <2>3, <3>2, <4>1, <4>2
    <3> QED BY <3>1, <3>2
  <2>5. \A v \in DOMAIN tracks : \A c \in DOMAIN tracks'[v].chunkOffsets :
          tracks'[v].chunkOffsets[c] \in Nat /\ tracks'[v].chunkOffsets[c] <= written
    <3>1. OffsetsAscend' /\ TypeOK' /\ written' = written
      BY StartChunkInv DEF StartChunk, IInv
    <3>2. \A v \in DOMAIN tracks' : tracks'[v] \in TrackType
      BY <3>1 DEF TypeOK
    <3>3. \A v \in DOMAIN tracks' : tracks'[v].chunkOffsets \in Seq(Nat)
      BY <3>2 DEF TrackType
    <3>4. \A v \in DOMAIN tracks' : \A c \in DOMAIN tracks'[v].chunkOffsets :
            tracks'[v].chunkOffsets[c] <= written
      BY <3>1 DEF OffsetsAscend, Ascending
    <3>5. \A v \in DOMAIN tracks' : \A c \in DOMAIN tracks'[v].chunkOffsets :
            tracks'[v].chunkOffsets[c] \in Nat
      BY <3>3, ElementOfSeq, LenProperties
    <3> QED BY <1>6, <3>4, <3>5
  <2>6. \A u \in DOMAIN tracks : /\ tracks'[u].timescale = tracks[u].timescale
                                 /\ tracks'[u].pending = tracks[u].pending
                                 /\ tracks'[u].pendingStart = tracks[u].pendingStart
    BY <1>2, <1>4, <1>5, <1>6, <2>2
  <2>7. \A u \in DOMAIN tracks : Chunked(tracks'[u], open'.track = u)
    <3> SUFFICES ASSUME NEW u \in DOMAIN tracks
                 PROVE  Chunked(tracks'[u], open'.track = u)
      OBVIOUS
    <3>1. CASE u = t
      <4>1. (open'.track = u) = TRUE
        BY <1>1, <3>1
      <4> QED BY <1>2, <1>5, <1>6, <2>2, <3>1, <4>1
    <3>2. CASE u # t
      <4>1. (open'.track = u) = FALSE
        BY <1>1, <3>2
      <4> QED BY <1>6, <2>2, <3>2, <4>1
    <3> QED BY <3>1, <3>2
  <2>8. ASSUME NEW v \in DOMAIN tracks, NEW u \in DOMAIN tracks,
               tracks[u].pending # <<>>
        PROVE  /\ Before(tracks[v], tracks[u])
               /\ k.pendingStart * tracks[u].timescale <= tracks[u].pendingStart * k.timescale
    <3>1. Before(tracks[v], tracks[u])
      BY <1>9, <2>1, <2>8 DEF ChunksKept
    <3>2. Precedes(t, u)
      BY <1>1, <2>8 DEF Waiting
    <3>3. /\ k.pendingStart \in Int /\ tracks[u].pendingStart \in Int
          /\ k.timescale \in Int /\ tracks[u].timescale \in Int
      <4>1. tracks[u] \in TrackType
        BY TracksKept
      <4>2. \A l \in TrackType : l.pendingStart \in Int /\ l.timescale \in Int
        BY DEF TrackType
      <4> QED BY <1>2, <4>1, <4>2
    <3>4. /\ k.pendingStart * tracks[u].timescale \in Int
          /\ tracks[u].pendingStart * k.timescale \in Int
      BY <3>3
    <3>5. k.pendingStart * tracks[u].timescale <= tracks[u].pendingStart * k.timescale
      BY <3>2, <3>4 DEF Precedes
    <3> QED BY <3>1, <3>5
  <2>9. ASSUME NEW v \in DOMAIN tracks, NEW u \in DOMAIN tracks,
               tracks'[u].pending # <<>>, open'.track # u
        PROVE  Before(tracks'[v], tracks'[u])
    <3> SUFFICES ASSUME NEW c \in DOMAIN tracks'[v].chunkOffsets
                 PROVE  StartOf(tracks'[v], c) * tracks'[u].timescale
                          <= tracks'[u].pendingStart * tracks'[v].timescale
      BY DEF Before
    <3>1. Before(tracks[v], tracks[u])
          /\ k.pendingStart * tracks[u].timescale <= tracks[u].pendingStart * k.timescale
      BY <2>6, <2>8, <2>9
    <3>2. CASE /\ c \in DOMAIN tracks[v].chunkOffsets
               /\ StartOf(tracks'[v], c) = StartOf(tracks[v], c)
      BY <2>6, <3>1, <3>2 DEF Before
    <3>3. CASE v = t /\ StartOf(tracks'[v], c) = k.pendingStart
      BY <2>6, <3>1, <3>3
    <3> QED BY <2>4, <3>2, <3>3
  <2>10. ASSUME NEW v \in DOMAIN tracks, NEW u \in DOMAIN tracks
         PROVE  InOrder(tracks'[v], tracks'[u])
    <3> SUFFICES ASSUME NEW c \in DOMAIN tracks'[v].chunkOffsets,
                        NEW d \in DOMAIN tracks'[u].chunkOffsets,
                        tracks'[v].chunkOffsets[c] < tracks'[u].chunkOffsets[d]
                 PROVE  StartOf(tracks'[v], c) * tracks'[u].timescale
                          <= StartOf(tracks'[u], d) * tracks'[v].timescale
      BY DEF InOrder
    <3>1. /\ tracks'[v].chunkOffsets[c] \in Nat /\ tracks'[u].chunkOffsets[d] \in Nat
          /\ tracks'[u].chunkOffsets[d] <= written
      BY <2>5
    <3>2. tracks'[v].chunkOffsets[c] # written
      BY <1>2, <3>1
    <3>3. /\ c \in DOMAIN tracks[v].chunkOffsets
          /\ tracks'[v].chunkOffsets[c] = tracks[v].chunkOffsets[c]
          /\ StartOf(tracks'[v], c) = StartOf(tracks[v], c)
      BY <2>4, <3>2
    <3>4. CASE /\ d \in DOMAIN tracks[u].chunkOffsets
               /\ tracks'[u].chunkOffsets[d] = tracks[u].chunkOffsets[d]
               /\ StartOf(tracks'[u], d) = StartOf(tracks[u], d)
      <4>1. InOrder(tracks[v], tracks[u])
        BY <1>9 DEF ChunksKept
      <4> QED BY <2>6, <3>3, <3>4, <4>1 DEF InOrder
    <3>5. CASE u = t /\ StartOf(tracks'[u], d) = k.pendingStart
      <4>1. Before(tracks[v], k)
        BY <1>2, <2>8
      <4> QED BY <2>6, <3>3, <3>5, <4>1 DEF Before
    <3> QED BY <2>4, <3>4, <3>5
  <2> QED BY <1>6, <2>7, <2>9, <2>10 DEF ChunksKept
<1> QED BY <1>3, <1>8, <1>9 DEF MediaInv

(* A sample is written: the last of a chunk leaves nothing of it pending.  *)
LEMMA WriteMediaMedia ==
    ASSUME IInv, MediaInv, WriteMedia
    PROVE  MediaInv'
<1>1. /\ UNCHANGED <<pc, call, faults>> /\ pc = "flush" /\ open # NoChunk
  BY DEF WriteMedia
<1>2. CASE open.sent + 1 < Len(tracks[open.track].pending)
  <2>1. tracks' = tracks /\ open' = [open EXCEPT !.sent = @ + 1]
    BY <1>2 DEF WriteMedia
  <2>2. open'.track = open.track
    <3>1. open \in [track : 0..Len(tracks), sent : Nat]
      BY DEF IInv, TypeOK
    <3> QED BY <2>1, <3>1
  <2> QED BY <1>1, <2>1, <2>2, MediaFrame
<1>3. CASE ~(open.sent + 1 < Len(tracks[open.track].pending))
  <2>0. PICK t : t = open.track
    OBVIOUS
  <2> DEFINE k == tracks[t]
             q == Emptied(k)
  <2>1. tracks' = [tracks EXCEPT ![t] = q] /\ open' = NoChunk
    BY <1>3, <2>0 DEF WriteMedia
  <2>2. /\ t \in DOMAIN tracks /\ k \in TrackType /\ TablesAgree(k) /\ Timed(k)
        /\ Agrees(k.clock)
        /\ tracks \in Seq(TrackType) /\ \A u \in DOMAIN tracks : u # NoChunk.track
    BY <1>1, <2>0, TracksKept DEF IInv, Control
  <2>3. q.clock = k.clock /\ q.timescale = k.timescale /\ SameTimes(k, q)
    <3> DEFINE e == <<>>
               z == 0
               i == [k EXCEPT !.pending = e]
    <3>1. q = [i EXCEPT !.pendingDur = z]
      BY DEF Emptied
    <3> HIDE DEF e, z
    <3>2. /\ i.timescale = k.timescale /\ i.clock = k.clock
          /\ i.count = k.count /\ i.total = k.total
          /\ i.durCounts = k.durCounts /\ i.durDeltas = k.durDeltas
      BY <2>2 DEF TrackType
    <3> HIDE DEF i, q
    <3> QED BY <3>1, <3>2 DEF SameTimes
  <2>4. ASSUME Chunked(k, TRUE)
        PROVE  /\ Chunked(q, FALSE) /\ q.pending = <<>>
               /\ q.chunkOffsets = k.chunkOffsets /\ q.chunkSamples = k.chunkSamples
    BY <2>2, <2>4, EmptiedTimes
  <2>5. Timed(q) /\ LastAt(q) = LastAt(k) /\ Durs(q) = Durs(k)
    BY <2>2, <2>3, TimesSame
  <2> HIDE DEF q
  <2>6. /\ DOMAIN tracks' = DOMAIN tracks /\ tracks'[t] = q
        /\ \A u \in DOMAIN tracks : u # t => tracks'[u] = tracks[u]
    BY <2>1, <2>2
  <2>7. TimesKept'
    <3>1. \A u \in DOMAIN tracks :
            /\ Agrees(tracks'[u].clock) /\ Timed(tracks'[u])
            /\ tracks'[u].count = tracks[u].count /\ tracks'[u].total = tracks[u].total
            /\ tracks'[u].timescale = tracks[u].timescale
            /\ LastAt(tracks'[u]) = LastAt(tracks[u])
      BY <2>2, <2>3, <2>5, <2>6, TracksKept DEF SameTimes
    <3>2. call = NoCall \/ call.track \in DOMAIN tracks
      BY DEF IInv, Control
    <3> QED BY <1>1, <2>6, <3>1, <3>2 DEF TimesKept, MediaInv, Follows
  <2>8. ASSUME ChunksKept
        PROVE  ChunksKept'
    <3>1. Chunked(k, TRUE)
      <4>1. (open.track = t) = TRUE
        BY <2>0
      <4> QED BY <2>2, <2>8, <4>1 DEF ChunksKept
    <3>2. ASSUME NEW u \in DOMAIN tracks
          PROVE  /\ tracks'[u].chunkOffsets = tracks[u].chunkOffsets
                 /\ tracks'[u].timescale = tracks[u].timescale
                 /\ \A c \in DOMAIN tracks[u].chunkOffsets :
                      StartOf(tracks'[u], c) = StartOf(tracks[u], c)
                 /\ Chunked(tracks'[u], open'.track = u)
                 /\ tracks'[u].pending # <<>> /\ open'.track # u =>
                      \/ /\ tracks[u].pending # <<>> /\ open.track # u
                         /\ tracks'[u].pendingStart = tracks[u].pendingStart
                      \/ \A v \in DOMAIN tracks : Before(tracks[v], tracks'[u])
      <4>1. (open'.track = u) = FALSE
        BY <2>1, <2>2
      <4>2. CASE u # t
        <5>1. (open.track = u) = FALSE /\ open.track # u
          BY <2>0, <4>2
        <5>2. Chunked(tracks[u], FALSE)
          BY <2>8, <5>1 DEF ChunksKept
        <5> QED BY <2>6, <4>1, <4>2, <5>1, <5>2
      <4>3. CASE u = t
        <5>1. \A c : StartOf(q, c) = StartOf(k, c)
          BY <2>4, <2>5, <3>1, Zenon DEF StartOf
        <5> QED BY <2>3, <2>4, <2>6, <3>1, <4>1, <4>3, <5>1
      <4> QED BY <4>2, <4>3
    <3> QED BY <2>6, <2>8, <3>2, ChunksMove
  <2> QED BY <1>1, <2>7, <2>8 DEF MediaInv
<1> QED BY <1>2, <1>3

(* Every step of a caller in decode order keeps it.                        *)
LEMMA NextMediaInv == IInv /\ MediaInv /\ [Next /\ CallerInOrder]_vars => MediaInv'
<1> SUFFICES ASSUME IInv, MediaInv, [Next /\ CallerInOrder]_vars PROVE MediaInv'
  OBVIOUS
<1>0. /\ pc = "idle" => call = NoCall
      /\ pc \in {"begin", "reserve"} => call.track \in DOMAIN tracks
      /\ call = NoCall \/ call.track \in DOMAIN tracks
      /\ open = NoChunk \/ pc = "flush"
      /\ faults.media \in Nat /\ faults \in [begin : Nat, media : Nat, refused : Nat]
  BY DEF IInv, TypeOK, Control, MediaInv, TimesKept
<1>1. CASE AddTrack
  BY <1>1, AddTrackMedia
<1>2. CASE CallerInOrder /\ \E t \in 1..Len(Configs), s \in Samples : WriteSample(t, s)
  BY <1>2, WriteSampleMedia
<1>3. CASE Begin
  BY <1>0, <1>3, MediaFrame DEF Begin
<1>4. ASSUME NEW b \in Partial, BeginFails(b)
      PROVE  MediaInv'
  <2>1. faults'.media = faults.media
    BY <1>0, <1>4 DEF BeginFails
  <2>2. tracks' = tracks /\ open' = open /\ call' = NoCall
    BY <1>4 DEF BeginFails
  <2> QED BY <2>1, <2>2, MediaFrame
<1>5. CASE Reserve
  <2>1. pc = "reserve" /\ open = NoChunk /\ call.track \in DOMAIN tracks
    BY <1>0, <1>5 DEF Reserve
  <2>2. CASE Fits(call.sample.len)
    BY <1>5, <2>1, <2>2, AcceptMedia DEF Reserve
  <2>3. CASE ~Fits(call.sample.len)
    BY <1>5, <2>3, MediaFrame DEF Reserve
  <2> QED BY <2>2, <2>3
<1>6. CASE StartChunk
  BY <1>6, StartChunkMedia
<1>7. CASE WriteMedia
  BY <1>7, WriteMediaMedia
<1>8. ASSUME NEW b \in Partial, WriteMediaFails(b)
      PROVE  MediaInv'
  <2>1. faults'.media = faults.media + 1
    BY <1>0, <1>8 DEF WriteMediaFails
  <2>2. faults'.media # 0
    BY <1>0, <2>1
  <2>3. tracks' = tracks /\ call' = NoCall
    BY <1>8 DEF WriteMediaFails
  <2> QED BY <2>2, <2>3, MediaFrame
<1>9. CASE FlushedForRoom
  <2>1. call.track \in DOMAIN tracks /\ open = NoChunk
    BY <1>0, <1>9 DEF FlushedForRoom, Flushed
  <2>2. CASE Fits(call.sample.len)
    BY <1>9, <2>1, <2>2, AcceptMedia DEF FlushedForRoom
  <2>3. CASE ~Fits(call.sample.len)
    <3>1. tracks' = tracks /\ open' = open /\ call' = NoCall
          /\ faults' = [faults EXCEPT !.refused = @ + 1]
      BY <1>9, <2>3 DEF FlushedForRoom
    <3>2. faults'.media = faults.media
      BY <1>0, <3>1
    <3> QED BY <3>1, <3>2, MediaFrame
  <2> QED BY <2>2, <2>3
<1>10. CASE FlushedSample
  BY <1>10, MediaFrame DEF FlushedSample
<1>11. CASE Close
  BY <1>11, MediaFrame DEF Close
<1>12. CASE RefuseClosed
  BY <1>12, MediaFrame DEF RefuseClosed
<1>13. CASE Finish
  BY <1>13, MediaFrame DEF Finish
<1>14. CASE FinishFails
  <2>1. faults'.media = faults.media + 1
    BY <1>0, <1>14 DEF FinishFails
  <2>2. faults'.media # 0
    BY <1>0, <2>1
  <2>3. tracks' = tracks /\ call' = call /\ call = NoCall
    BY <1>14 DEF FinishFails
  <2> QED BY <2>2, <2>3, MediaFrame
<1>15. CASE UNCHANGED vars
  BY <1>15, MediaFrame DEF vars
<1> QED BY <1>1, <1>2, <1>3, <1>4, <1>5, <1>6, <1>7, <1>8, <1>9, <1>10, <1>11, <1>12,
           <1>13, <1>14, <1>15 DEF Next, Step

(* Of a caller that hands its samples over in decode order, to a writer    *)
(* that takes them, the chunks of a finished file lie in the order they    *)
(* start at, whatever the timescales, the sizes and the order of flushes.  *)
THEOREM ProgressiveInterleaves == OrderedSpec => []MediaInDecodeOrder
<1>1. Init => IInv /\ MediaInv
  BY InitInv, InitMediaInv
<1>2. IInv /\ MediaInv /\ [Next /\ CallerInOrder]_vars => (IInv /\ MediaInv)'
  BY NextInv, NextMediaInv
<1>3. IInv /\ MediaInv => MediaInDecodeOrder
  BY MediaInvHolds
<1> QED BY <1>1, <1>2, <1>3, PTL DEF OrderedSpec

(***************************************************************************)
(* Samples through the tables: the other tables of a track give back what  *)
(* was put into them.                                                      *)
(***************************************************************************)
Entry == [first : Nat, samples : Nat]

(* The entries T of a sample-to-chunk table state the first m numbers of s.*)
Covers(T, s, m) ==
    /\ T \in Seq(Entry)
    /\ \A i \in 1..Len(T) : T[i].first \in 1..m
    /\ \A i, j \in 1..Len(T) : i < j => T[i].first < T[j].first
    /\ \A c \in 1..m : \E i \in 1..Len(T) :
         /\ T[i].first <= c /\ (i < Len(T) => T[i + 1].first > c)
         /\ T[i].samples = s[c]
    /\ m > 0 => Len(T) > 0 /\ T[Len(T)].samples = s[m]

(* One chunk more, of as many samples as the one before it.                *)
LEMMA CoversSame ==
    ASSUME NEW T, NEW s, NEW m \in Nat, m > 0, Covers(T, s, m), s[m + 1] = s[m]
    PROVE  Covers(T, s, m + 1)
<1> DEFINE l == Len(T)
<1>1. T \in Seq(Entry) /\ l \in Nat /\ \A i \in 1..l : T[i] \in Entry
  BY LenProperties, ElementOfSeq DEF Covers
<1>2. \A i \in 1..l : T[i].first \in 1..(m + 1)
  BY <1>1 DEF Covers
<1>3. l \in 1..l /\ T[l].samples = s[m + 1] /\ T[l].first <= m + 1
  BY <1>1, <1>2 DEF Covers
<1>4. \A c \in 1..(m + 1) : \E i \in 1..l :
         /\ T[i].first <= c /\ (i < l => T[i + 1].first > c)
         /\ T[i].samples = s[c]
  <2> SUFFICES ASSUME NEW c \in 1..(m + 1)
               PROVE  \E i \in 1..l : /\ T[i].first <= c /\ (i < l => T[i + 1].first > c)
                                      /\ T[i].samples = s[c]
    OBVIOUS
  <2>1. CASE c = m + 1
    BY <1>1, <1>3, <2>1
  <2>2. CASE c # m + 1
    <3>1. c \in 1..m
      BY <2>2
    <3> QED BY <3>1 DEF Covers
  <2> QED BY <2>1, <2>2
<1>5. \A i, j \in 1..l : i < j => T[i].first < T[j].first
  BY DEF Covers
<1> QED BY <1>1, <1>2, <1>3, <1>4, <1>5 DEF Covers

(* What appending does, of entries.                                        *)
LEMMA EntryAppended ==
    ASSUME NEW T \in Seq(Entry), NEW e \in Entry
    PROVE  /\ Append(T, e) \in Seq(Entry) /\ Len(Append(T, e)) = Len(T) + 1
           /\ \A i \in 1..Len(T) : Append(T, e)[i] = T[i]
           /\ Append(T, e)[Len(T) + 1] = e
BY AppendProperties

(* One chunk more, of another number of samples.                           *)
LEMMA CoversMore ==
    ASSUME NEW T, NEW s, NEW m \in Nat, Covers(T, s, m), s[m + 1] \in Nat,
           NEW U, U = Append(T, [first |-> m + 1, samples |-> s[m + 1]])
    PROVE  Covers(U, s, m + 1)
<1> DEFINE l == Len(T)
           e == [first |-> m + 1, samples |-> s[m + 1]]
<1>1. T \in Seq(Entry) /\ l \in Nat /\ \A i \in 1..l : T[i] \in Entry
  BY LenProperties, ElementOfSeq DEF Covers
<1>2. e \in Entry /\ e.first = m + 1 /\ e.samples = s[m + 1]
  BY DEF Entry
<1> HIDE DEF e
<1>3. /\ U \in Seq(Entry) /\ Len(U) = l + 1
      /\ \A i \in 1..l : U[i] = T[i]
      /\ U[l + 1] = e
  BY <1>1, <1>2, EntryAppended DEF e
<1>4. \A i \in 1..l : T[i].first \in 1..m
  BY DEF Covers
<1>5. \A i \in 1..(l + 1) : i \in 1..l \/ i = l + 1
  BY <1>1
<1>6. \A i \in 1..(l + 1) : U[i].first \in 1..(m + 1)
  BY <1>2, <1>3, <1>4, <1>5
<1>7. \A i, j \in 1..(l + 1) : i < j => U[i].first < U[j].first
  <2> SUFFICES ASSUME NEW i \in 1..(l + 1), NEW j \in 1..(l + 1), i < j
               PROVE  U[i].first < U[j].first
    OBVIOUS
  <2>1. i \in 1..l
    BY <1>1
  <2>2. CASE j = l + 1
    BY <1>2, <1>3, <1>4, <2>1, <2>2
  <2>3. CASE j \in 1..l
    BY <1>3, <2>1, <2>3 DEF Covers
  <2> QED BY <1>5, <2>2, <2>3
<1>8. \A c \in 1..(m + 1) : \E i \in 1..(l + 1) :
         /\ U[i].first <= c /\ (i < l + 1 => U[i + 1].first > c)
         /\ U[i].samples = s[c]
  <2> SUFFICES ASSUME NEW c \in 1..(m + 1)
               PROVE  \E i \in 1..(l + 1) : /\ U[i].first <= c
                                            /\ (i < l + 1 => U[i + 1].first > c)
                                            /\ U[i].samples = s[c]
    OBVIOUS
  <2>1. CASE c = m + 1
    <3>1. /\ l + 1 \in 1..(l + 1) /\ U[l + 1].first <= c /\ ~(l + 1 < l + 1)
          /\ U[l + 1].samples = s[c]
      BY <1>1, <1>2, <1>3, <2>1
    <3> QED BY <3>1
  <2>2. CASE c # m + 1
    <3>1. c \in 1..m
      BY <2>2
    <3>2. PICK i \in 1..l : /\ T[i].first <= c /\ (i < l => T[i + 1].first > c)
                            /\ T[i].samples = s[c]
      BY <3>1 DEF Covers
    <3>3. i \in 1..(l + 1) /\ U[i] = T[i]
      BY <1>1, <1>3
    <3>4. U[i + 1].first > c
      <4>1. CASE i < l
        <5>1. i + 1 \in 1..l
          BY <1>1, <4>1
        <5> QED BY <1>3, <3>2, <4>1, <5>1
      <4>2. CASE i = l
        BY <1>2, <1>3, <3>1, <4>2
      <4> QED BY <1>1, <4>1, <4>2
    <3> QED BY <3>2, <3>3, <3>4
  <2> QED BY <2>1, <2>2
<1>9. Len(U) > 0 /\ U[Len(U)].samples = s[m + 1]
  BY <1>1, <1>2, <1>3
<1> QED BY <1>3, <1>6, <1>7, <1>8, <1>9 DEF Covers

(* The sample-to-chunk table states of every chunk what it holds.          *)
LEMMA ChunkTableCovers ==
    ASSUME NEW s \in Seq(Nat)
    PROVE  Covers(ChunkTable(s), s, Len(s))
<1> DEFINE n == Len(s)
           E == ChunkEntries(s)
           e(c) == [first |-> c, samples |-> s[c]]
           S == {m \in Nat : m <= n => Covers(ConcatTo(E, m), s, m)}
<1>1. n \in Nat /\ DOMAIN s = 1..n /\ \A c \in 1..n : s[c] \in Nat
  BY LenProperties, ElementOfSeq
<1>2. \A c \in 1..n : E[c] = IF c > 1 /\ s[c] = s[c - 1] THEN <<>> ELSE <<e(c)>>
  BY <1>1 DEF ChunkEntries
<1>3. \A c \in 1..n : e(c) \in Entry
  BY <1>1 DEF Entry
<1> HIDE DEF E, e
<1>4. 0 \in S
  <2>1. ConcatTo(E, 0) = <<>>
    BY ConcatZero
  <2>2. Covers(<<>>, s, 0)
    <3>1. <<>> \in Seq(Entry) /\ Len(<<>>) = 0
      OBVIOUS
    <3> QED BY <3>1 DEF Covers
  <2> QED BY <2>1, <2>2
<1>5. ASSUME NEW m \in Nat, m \in S
      PROVE  m + 1 \in S
  <2> SUFFICES ASSUME m + 1 <= n
               PROVE  Covers(ConcatTo(E, m + 1), s, m + 1)
    OBVIOUS
  <2> DEFINE T == ConcatTo(E, m)
  <2>1. m + 1 \in 1..n /\ m <= n /\ (m + 1) - 1 = m /\ (m + 1 > 1 <=> m > 0)
    BY <1>1
  <2>2. Covers(T, s, m) /\ T \in Seq(Entry)
    BY <1>5, <2>1 DEF Covers
  <2>3. ConcatTo(E, m + 1) = Then(T, E[m + 1])
    BY ConcatStep
  <2> HIDE DEF T
  <2>4. CASE m > 0 /\ s[m + 1] = s[m]
    <3>1. E[m + 1] = <<>>
      BY <1>2, <2>1, <2>4
    <3>2. Then(T, <<>>) = T
      BY <2>2, ThenProperties
    <3> QED BY <2>2, <2>3, <2>4, <3>1, <3>2, CoversSame
  <2>5. CASE ~(m > 0 /\ s[m + 1] = s[m])
    <3>1. E[m + 1] = <<e(m + 1)>>
      BY <1>2, <2>1, <2>5
    <3>2. Then(T, <<e(m + 1)>>) = Append(T, e(m + 1))
      <4>1. e(m + 1) \in Entry
        BY <1>3, <2>1
      <4> HIDE DEF Entry
      <4> QED BY <2>2, <4>1, AppendIsConcat, Zenon DEF Then
    <3>3. s[m + 1] \in Nat
      BY <1>1, <2>1
    <3>4. ConcatTo(E, m + 1) = Append(T, [first |-> m + 1, samples |-> s[m + 1]])
      BY <2>3, <3>1, <3>2, Zenon DEF e
    <3> QED BY <2>2, <3>3, <3>4, CoversMore
  <2> QED BY <2>4, <2>5
<1> HIDE DEF S
<1>6. \A m \in Nat : m \in S
  BY <1>4, <1>5, NatSetInduction
<1>7. n \in S /\ n <= n
  BY <1>1, <1>6
<1> QED BY <1>7, Zenon DEF S, ChunkTable, E, n

(* It is read as what it states.                                           *)
LEMMA ChunkTableReads ==
    ASSUME NEW s \in Seq(Nat), NEW c \in DOMAIN s
    PROVE  SamplesPerChunk(ChunkTable(s), c) = s[c]
<1> DEFINE T == ChunkTable(s)
           l == Len(T)
           At(i) == T[i].first <= c /\ (i < l => T[i + 1].first > c)
<1>1. Covers(T, s, Len(s))
  BY ChunkTableCovers
<1>2. c \in 1..Len(s)
  BY LenProperties
<1>3. T \in Seq(Entry) /\ l \in Nat /\ DOMAIN T = 1..l
  BY <1>1, LenProperties DEF Covers
<1>4. \A i \in 1..l : T[i].first \in Nat
  <2>1. \A i \in 1..Len(T) : T[i].first \in 1..Len(s)
    BY <1>1 DEF Covers
  <2> HIDE DEF T
  <2> QED BY <2>1
<1>5. \A i, j \in 1..l : i < j => T[i].first < T[j].first
  BY <1>1 DEF Covers
<1>6. PICK i \in 1..l : At(i) /\ T[i].samples = s[c]
  BY <1>1, <1>2 DEF Covers
<1> HIDE DEF T
<1>7. ASSUME NEW j \in 1..l, At(j)
      PROVE  j = i
  <2>1. c \in Nat
    BY <1>2
  <2>2. CASE j < i
    <3>1. j + 1 \in 1..l /\ (j + 1 < i \/ j + 1 = i) /\ j < l
      BY <1>3, <2>2
    <3>2. T[j + 1].first <= T[i].first
      BY <1>4, <1>5, <3>1
    <3> QED BY <1>4, <1>6, <1>7, <2>1, <3>1, <3>2
  <2>3. CASE i < j
    <3>1. i + 1 \in 1..l /\ (i + 1 < j \/ i + 1 = j) /\ i < l
      BY <1>3, <2>3
    <3>2. T[i + 1].first <= T[j].first
      BY <1>4, <1>5, <3>1
    <3> QED BY <1>4, <1>6, <1>7, <2>1, <3>1, <3>2
  <2> QED BY <2>2, <2>3
<1>8. (CHOOSE j \in 1..l : At(j)) = i
  <2> DEFINE d == CHOOSE j \in 1..l : At(j)
  <2>1. d \in 1..l /\ At(d)
    BY <1>6, Zenon
  <2> QED BY <1>7, <2>1
<1>9. SamplesPerChunk(T, c) = T[CHOOSE j \in 1..l : At(j)].samples
  BY <1>3, Zenon DEF SamplesPerChunk
<1> QED BY <1>6, <1>8, <1>9 DEF T

(***************************************************************************)
(* The tables of a track.                                                  *)
(***************************************************************************)
(* A run-length table that counts n samples.                               *)
Counted(counts, values, n) ==
    RunTable(counts, values) /\ SumTo(counts, Len(counts)) = n

(* A track without a composition table presents as it decodes, and one     *)
(* without a table of sync samples has no others.                          *)
Composed(k) ==
    /\ Counted(k.cttsCounts, k.cttsOffsets, k.count)
    /\ ~k.shifted => \A n \in 1..k.count : RunValue(k.cttsCounts, k.cttsOffsets, n) = 0

Marked(k) ==
    /\ Len(k.syncs) <= k.count
    /\ \A i \in DOMAIN k.syncs : k.syncs[i] <= k.count
    /\ Len(k.syncs) = k.count => \A n \in 1..k.count : k.syncs[n] = n

(* Sample n may be started at.                                             *)
Sync(k, n) == \E i \in DOMAIN k.syncs : k.syncs[i] = n

(* The chunks of k hold the first n samples, and none is empty.            *)
Split(k, n) ==
    /\ \A c \in DOMAIN k.chunkSamples : k.chunkSamples[c] > 0
    /\ SumTo(k.chunkSamples, Len(k.chunkSamples)) = n

(* Sample n is in chunk c, and starts at Place.                            *)
Within(k, c, n) == SumTo(k.chunkSamples, c - 1) < n /\ n <= SumTo(k.chunkSamples, c)
Place(k, c, n) ==
    k.chunkOffsets[c] + SumTo(k.sizes, n - 1) - SumTo(k.sizes, SumTo(k.chunkSamples, c - 1))

(* The composition table is read as what it states.                        *)
LEMMA CompositionReads ==
    ASSUME NEW k, Composed(k), NEW n \in 1..k.count, NEW base, NEW wide
    PROVE  SampleCompositionOffset(SampleTables(k, base, wide), n)
             = RunValue(k.cttsCounts, k.cttsOffsets, n)
<1> DEFINE counts == k.cttsCounts
           values == k.cttsOffsets
           box == SampleTables(k, base, wide)
<1>1. RunTable(counts, values) /\ SumTo(counts, Len(counts)) = k.count
  BY Zenon DEF Composed, Counted
<1>2. box.ctts = CompositionTable(k)
  BY Zenon DEF SampleTables
<1>3. CASE ~k.shifted
  <2>1. box.ctts = {}
    BY <1>2, <1>3, Zenon DEF CompositionTable
  <2> HIDE DEF box
  <2>2. SampleCompositionOffset(box, n) = 0
    BY <2>1, Zenon DEF SampleCompositionOffset
  <2>3. RunValue(counts, values, n) = 0
    BY <1>3, Zenon DEF Composed
  <2> QED BY <2>2, <2>3, Zenon DEF box
<1>4. CASE k.shifted
  <2> DEFINE ends == [i \in 1..(Len(counts) + 1) |-> SumTo(counts, i - 1)]
             table == [ends |-> ends, values |-> values]
             In(i) == ends[i] < n /\ n <= ends[i + 1]
  <2>1. box.ctts = {table}
    BY <1>2, <1>4, Zenon DEF CompositionTable
  <2>2. table.ends = ends /\ table.values = values
    BY Zenon
  <2>3. /\ counts \in Seq(Nat) /\ Len(counts) \in Nat /\ DOMAIN counts = 1..Len(counts)
        /\ DOMAIN values = 1..Len(counts)
    BY <1>1, LenProperties DEF RunTable
  <2>4. \A i \in 1..Len(counts) : ends[i] = SumTo(counts, i - 1) /\ ends[i + 1] = SumTo(counts, i)
    <3> SUFFICES ASSUME NEW i \in 1..Len(counts)
                 PROVE  ends[i] = SumTo(counts, i - 1) /\ ends[i + 1] = SumTo(counts, i)
      OBVIOUS
    <3>1. i \in 1..(Len(counts) + 1) /\ i + 1 \in 1..(Len(counts) + 1) /\ (i + 1) - 1 = i
      BY <2>3
    <3>2. ends[i + 1] = SumTo(counts, (i + 1) - 1)
      BY <3>1, Zenon
    <3>3. ends[i] = SumTo(counts, i - 1)
      BY <3>1, Zenon
    <3> QED BY <3>1, <3>2, <3>3
  <2> HIDE DEF ends, box
  <2>5. SampleCompositionOffset(box, n) = values[CHOOSE i \in DOMAIN values : In(i)]
    <3>1. (CHOOSE b \in box.ctts : TRUE) = table
      BY <2>1
    <3>2. box.ctts # {}
      BY <2>1
    <3> HIDE DEF table
    <3>3. SampleCompositionOffset(box, n)
            = table.values[CHOOSE i \in DOMAIN table.values :
                             table.ends[i] < n /\ n <= table.ends[i + 1]]
      BY <3>1, <3>2, Zenon DEF SampleCompositionOffset
    <3> QED BY <2>2, <3>3, Zenon
  <2>6. n \in 1..SumTo(counts, Len(counts))
    BY <1>1
  <2>7. PICK i \in DOMAIN counts : SumTo(counts, i - 1) < n /\ n <= SumTo(counts, i)
    BY <2>3, <2>6, RunExists
  <2>8. \E j \in DOMAIN values : In(j)
    BY <2>3, <2>4, <2>7
  <2> DEFINE d == CHOOSE j \in DOMAIN values : In(j)
  <2>9. d \in DOMAIN values /\ In(d)
    BY <2>8, Zenon
  <2> HIDE DEF d
  <2>10. d \in DOMAIN counts /\ SumTo(counts, d - 1) < n /\ n <= SumTo(counts, d)
    BY <2>3, <2>4, <2>9
  <2>11. n \in Nat
    BY <2>6
  <2>12. RunValue(counts, values, n) = values[d]
    BY <1>1, <2>10, <2>11, RunValueIs
  <2> QED BY <2>5, <2>12 DEF d, box
<1> QED BY <1>3, <1>4

(* So is the table of sync samples.                                        *)
LEMMA SyncReads ==
    ASSUME NEW k, k.syncs \in Seq(Nat), Marked(k), k.count \in Nat,
           NEW n \in 1..k.count, NEW base, NEW wide
    PROVE  SampleIsSync(SampleTables(k, base, wide), n) = Sync(k, n)
<1> DEFINE box == SampleTables(k, base, wide)
<1>1. box.stss = IF Len(k.syncs) # k.count THEN {k.syncs} ELSE {}
  BY Zenon DEF SampleTables
<1> HIDE DEF box
<1>2. SampleIsSync(box, n) <=> Sync(k, n)
  <2>1. CASE Len(k.syncs) # k.count
    <3>1. box.stss = {k.syncs}
      BY <1>1, <2>1
    <3> QED BY <3>1 DEF SampleIsSync, Sync
  <2>2. CASE Len(k.syncs) = k.count
    <3>1. box.stss = {}
      BY <1>1, <2>2
    <3>2. n \in DOMAIN k.syncs /\ k.syncs[n] = n
      BY <2>2, LenProperties DEF Marked
    <3> QED BY <3>1, <3>2, Zenon DEF SampleIsSync, Sync
  <2> QED BY <2>1, <2>2
<1>3. SampleIsSync(box, n) \in BOOLEAN /\ Sync(k, n) \in BOOLEAN
  BY Zenon DEF SampleIsSync, Sync
<1>4. SampleIsSync(box, n) = Sync(k, n)
  <2>1. CASE Sync(k, n)
    <3>1. Sync(k, n) = TRUE /\ SampleIsSync(box, n) = TRUE
      BY <1>2, <1>3, <2>1, Zenon
    <3> QED BY <3>1
  <2>2. CASE ~Sync(k, n)
    <3>1. Sync(k, n) = FALSE /\ SampleIsSync(box, n) = FALSE
      BY <1>2, <1>3, <2>2, Zenon
    <3> QED BY <3>1
  <2> QED BY <2>1, <2>2
<1> QED BY <1>4 DEF box

(* Only one chunk holds a sample.                                          *)
LEMMA OneChunk ==
    ASSUME NEW s \in Seq(Nat), NEW n \in Nat,
           NEW c \in DOMAIN s, SumTo(s, c - 1) < n, n <= SumTo(s, c),
           NEW d \in DOMAIN s, SumTo(s, d - 1) < n, n <= SumTo(s, d)
    PROVE  c = d
<1>1. Len(s) \in Nat /\ DOMAIN s = 1..Len(s) /\ \A j \in 1..Len(s) : s[j] \in Nat
  BY LenProperties, ElementOfSeq
<1>2. ASSUME NEW a \in 1..Len(s), NEW b \in 1..Len(s), a < b,
             n <= SumTo(s, a), SumTo(s, b - 1) < n
      PROVE  FALSE
  <2> DEFINE z == Len(s)
  <2>h. z \in Nat /\ a \in 1..z /\ b \in 1..z /\ \A j \in 1..z : s[j] \in Nat
    BY <1>1, <1>2
  <2> HIDE DEF z
  <2>i. /\ b - 1 \in Nat /\ a \in 0..(b - 1)
        /\ \A j \in 1..(b - 1) : j \in 1..z
    BY <1>2, <2>h
  <2>1. b - 1 \in Nat /\ a \in 0..(b - 1) /\ \A j \in 1..(b - 1) : s[j] \in Nat
    BY <2>h, <2>i
  <2>2. \A m \in 0..(b - 1) : SumTo(s, m) \in Nat /\ SumTo(s, m) <= SumTo(s, b - 1)
    BY <2>1, SumGrows
  <2>3. b - 1 \in 0..(b - 1)
    BY <2>1
  <2> QED BY <1>2, <2>1, <2>2, <2>3
<1> QED BY <1>1, <1>2

(* The bytes of a sample, through the tables of its track.                 *)
LEMMA BytesRead ==
    ASSUME NEW k \in TrackType, TablesAgree(k), NEW base \in Nat, NEW wide,
           \A d \in DOMAIN k.chunkOffsets :
               StatedOffset(k.chunkOffsets[d], base, wide) = base + k.chunkOffsets[d],
           NEW c \in DOMAIN k.chunkOffsets, NEW n \in 1..k.count, Within(k, c, n),
           NEW media
    PROVE  SampleBytes(SampleTables(k, base, wide), media, n)
             = SubSeq(media, base + Place(k, c, n) + 1, base + Place(k, c, n) + k.sizes[n])
<1> DEFINE box == SampleTables(k, base, wide)
           s == k.chunkSamples
<1>1. s \in Seq(Nat) /\ k.chunkOffsets \in Seq(Nat) /\ k.sizes \in Seq(Nat) /\ k.count \in Nat
  BY DEF TrackType
<1>2. /\ Len(s) \in Nat /\ DOMAIN s = 1..Len(s) /\ DOMAIN k.chunkOffsets = DOMAIN s
      /\ DOMAIN k.sizes = 1..k.count
      /\ \A d \in 1..Len(s) : s[d] \in Nat
      /\ \A d \in 1..k.count : k.sizes[d] \in Nat
  BY <1>1, LenProperties DEF TablesAgree
<1>3. box.stsc = ChunkTable(s) /\ box.sizes = k.sizes
  BY Zenon DEF SampleTables
<1>4. box.offsets = [d \in DOMAIN k.chunkOffsets |-> StatedOffset(k.chunkOffsets[d], base, wide)]
  BY Zenon DEF SampleTables
<1>5. DOMAIN box.offsets = DOMAIN s /\ box.offsets[c] = base + k.chunkOffsets[c]
  BY <1>2, <1>4
<1> HIDE DEF box
<1>6. \A d \in DOMAIN s : SamplesPerChunk(box.stsc, d) = s[d]
  BY <1>1, <1>3, ChunkTableReads
<1>7. ASSUME NEW d \in DOMAIN s
      PROVE  /\ SamplesBefore(box, d) = SumTo(s, d - 1)
             /\ SamplesBefore(box, d) + SamplesPerChunk(box.stsc, d) = SumTo(s, d)
  <2> DEFINE f == [e \in 1..(d - 1) |-> SamplesPerChunk(box.stsc, e)]
  <2>1. d - 1 \in Nat /\ (d - 1) + 1 = d
    BY <1>2
  <2>2. \A e \in 1..(d - 1) : f[e] = s[e]
    BY <1>2, <1>6
  <2>3. SamplesBefore(box, d) = SumTo(f, d - 1)
    BY Zenon DEF SamplesBefore
  <2> HIDE DEF f
  <2>4. SumTo(f, d - 1) = SumTo(s, d - 1)
    BY <2>1, <2>2, SumSame
  <2>5. SumTo(s, d) = SumTo(s, d - 1) + s[d]
    BY <2>1, SumStep
  <2> QED BY <1>6, <2>3, <2>4, <2>5
<1>8. ChunkOf(box, n) = c
  <2> DEFINE In(d) == LET before == SamplesBefore(box, d)
                      IN  before < n /\ n <= before + SamplesPerChunk(box.stsc, d)
             d == CHOOSE e \in DOMAIN box.offsets : In(e)
  <2>1. \A e \in DOMAIN s : In(e) <=> SumTo(s, e - 1) < n /\ n <= SumTo(s, e)
    BY <1>7
  <2>2. c \in DOMAIN box.offsets /\ In(c)
    BY <1>2, <1>5, <2>1 DEF Within
  <2> HIDE DEF In
  <2>3. d \in DOMAIN box.offsets /\ In(d)
    BY <2>2, Zenon
  <2>4. ChunkOf(box, n) = d
    BY Zenon DEF ChunkOf, In
  <2> HIDE DEF d
  <2>5. n \in Nat /\ c \in DOMAIN s
    BY <1>2
  <2>6. d \in DOMAIN s /\ SumTo(s, d - 1) < n /\ n <= SumTo(s, d)
    BY <1>5, <2>1, <2>3
  <2>7. SumTo(s, c - 1) < n /\ n <= SumTo(s, c)
    BY DEF Within
  <2> QED BY <1>1, <2>4, <2>5, <2>6, <2>7, OneChunk
<1>9. SampleOffset(box, n)
        = (base + k.chunkOffsets[c]) + SumTo(k.sizes, n - 1) - SumTo(k.sizes, SumTo(s, c - 1))
  <2>1. SamplesBefore(box, c) = SumTo(s, c - 1)
    BY <1>2, <1>7
  <2> QED BY <1>3, <1>5, <1>8, <2>1, Zenon DEF SampleOffset
<1>10. k.chunkOffsets[c] \in Int /\ SumTo(k.sizes, n - 1) \in Int
       /\ SumTo(k.sizes, SumTo(s, c - 1)) \in Int
  <2>1. k.chunkOffsets[c] \in Int
    BY <1>1, ElementOfSeq
  <2>3. \A m \in 0..k.count : SumTo(k.sizes, m) \in Nat
    BY <1>1, <1>2, SumGrows
  <2>4. \A j \in 1..(c - 1) : s[j] \in Nat
    BY <1>2
  <2>5. SumTo(s, c - 1) \in Nat
    <3>1. c - 1 \in Nat /\ c - 1 \in 0..(c - 1)
      BY <1>2
    <3> QED BY <2>4, <3>1, SumGrows
  <2>6. SumTo(s, c - 1) \in 0..k.count /\ n - 1 \in 0..k.count
    BY <2>5, <1>1 DEF Within
  <2> QED BY <2>1, <2>3, <2>6
<1>11. SampleOffset(box, n) = base + Place(k, c, n)
  BY <1>9, <1>10 DEF Place
<1> QED BY <1>3, <1>11, Zenon DEF SampleBytes, box

(* The tables of a track count its samples, and state what they are.       *)
Listed(k) ==
    /\ Counted(k.durCounts, k.durDeltas, k.count)
    /\ Composed(k)
    /\ Marked(k)

(* The samples of track t, in state k, as its tables have them.            *)
Meant(t, k) ==
    [n \in 1..k.count |->
        [data |-> Data(t, n, k.sizes[n]),
         dur |-> RunValue(k.durCounts, k.durDeltas, n),
         offset |-> RunValue(k.cttsCounts, k.cttsOffsets, n),
         sync |-> Sync(k, n)]]

(* A function of one number more is another with an element behind it.     *)
Longer(n, f, g, e) ==
    /\ f = [i \in 1..n |-> f[i]] /\ g = [i \in 1..(n + 1) |-> g[i]]
    /\ \A i \in 1..n : g[i] = f[i]
    /\ g[n + 1] = e

(* So it is with sequences built by counting.                              *)
LEMMA AppendMade ==
    ASSUME NEW n \in Nat, NEW f, NEW g, NEW e, Longer(n, f, g, e)
    PROVE  g = Append(f, e)
<1> USE DEF Longer
<1> DEFINE S == {f[i] : i \in 1..n} \cup {e}
<1>1. f \in [1..n -> S] /\ g \in [1..(n + 1) -> S]
  <2>1. \A i \in 1..n : f[i] \in S
    OBVIOUS
  <2>2. \A i \in 1..(n + 1) : i \in 1..n \/ i = n + 1
    OBVIOUS
  <2>3. e \in S
    OBVIOUS
  <2>4. \A i \in 1..(n + 1) : g[i] \in S
    BY <2>1, <2>2, <2>3
  <2> HIDE DEF S
  <2> QED BY <2>1, <2>4
<1>2. e \in S
  OBVIOUS
<1> HIDE DEF S
<1>3. f \in Seq(S) /\ Len(f) = n /\ g \in Seq(S) /\ Len(g) = n + 1
  BY <1>1, FunctionIsSeq
<1>4. /\ Append(f, e) \in Seq(S) /\ Len(Append(f, e)) = n + 1
      /\ \A i \in 1..n : Append(f, e)[i] = f[i]
      /\ Append(f, e)[n + 1] = e
  BY <1>2, <1>3, AppendProperties
<1>5. \A i \in 1..(n + 1) : Append(f, e)[i] = g[i]
  <2>1. \A i \in 1..(n + 1) : i \in 1..n \/ i = n + 1
    OBVIOUS
  <2> QED BY <1>4, <2>1
<1> QED BY <1>3, <1>4, <1>5, SeqEqual

(* What is as true is the same.                                            *)
LEMMA SyncSame ==
    ASSUME NEW k, NEW q, NEW i, NEW j, Sync(q, i) <=> Sync(k, j)
    PROVE  Sync(q, i) = Sync(k, j)
<1>1. Sync(q, i) \in BOOLEAN /\ Sync(k, j) \in BOOLEAN
  BY Zenon DEF Sync
<1>2. CASE Sync(k, j)
  <2>1. Sync(q, i) = TRUE /\ Sync(k, j) = TRUE
    BY <1>1, <1>2, Zenon
  <2> QED BY <2>1
<1>3. CASE ~Sync(k, j)
  <2>1. Sync(q, i) = FALSE /\ Sync(k, j) = FALSE
    BY <1>1, <1>3, Zenon
  <2> QED BY <2>1
<1> QED BY <1>2, <1>3

(* A track takes a sample: its tables state it behind the others.          *)
LEMMA TakenListed ==
    ASSUME NEW k \in TrackType, TablesAgree(k), Listed(k), NEW t \in Nat,
           NEW s \in SampleType, NEW q, q = Taken(t, k, s)
    PROVE  /\ Listed(q) /\ q.count = k.count + 1
           /\ Meant(t, q) = Append(Meant(t, k),
                                   [data |-> Data(t, k.count + 1, s.len), dur |-> s.dur,
                                    offset |-> s.offset, sync |-> s.sync])
<1> DEFINE n == k.count
           e == [data |-> Data(t, n + 1, s.len), dur |-> s.dur,
                 offset |-> s.offset, sync |-> s.sync]
<1>1. /\ q.count = n + 1 /\ q.sizes = Append(k.sizes, s.len)
      /\ q.durCounts = RunCounts(k.durCounts, k.durDeltas, s.dur)
      /\ q.durDeltas = RunValues(k.durDeltas, s.dur)
      /\ q.cttsCounts = RunCounts(k.cttsCounts, k.cttsOffsets, s.offset)
      /\ q.cttsOffsets = RunValues(k.cttsOffsets, s.offset)
      /\ q.shifted = (k.shifted \/ s.offset # 0)
      /\ q.syncs = IF s.sync THEN Append(k.syncs, n + 1) ELSE k.syncs
  BY Zenon DEF Taken
<1>2. /\ n \in Nat /\ k.sizes \in Seq(Nat) /\ Len(k.sizes) = n /\ k.syncs \in Seq(Nat)
      /\ s.len \in Nat /\ s.dur \in Int /\ s.offset \in Int /\ s.sync \in BOOLEAN
      /\ k.shifted \in BOOLEAN
  BY DEF TrackType, TablesAgree, SampleType
<1>3. /\ RunTable(q.durCounts, q.durDeltas)
      /\ SumTo(q.durCounts, Len(q.durCounts)) = n + 1
      /\ RunValue(q.durCounts, q.durDeltas, n + 1) = s.dur
      /\ \A i \in 1..n : RunValue(q.durCounts, q.durDeltas, i)
                           = RunValue(k.durCounts, k.durDeltas, i)
  <2>1. RunTable(k.durCounts, k.durDeltas) /\ n = SumTo(k.durCounts, Len(k.durCounts))
    BY Zenon DEF Listed, Counted
  <2> QED BY <1>1, <1>2, <2>1, RunsExtend
<1>4. /\ RunTable(q.cttsCounts, q.cttsOffsets)
      /\ SumTo(q.cttsCounts, Len(q.cttsCounts)) = n + 1
      /\ RunValue(q.cttsCounts, q.cttsOffsets, n + 1) = s.offset
      /\ \A i \in 1..n : RunValue(q.cttsCounts, q.cttsOffsets, i)
                           = RunValue(k.cttsCounts, k.cttsOffsets, i)
  <2>1. RunTable(k.cttsCounts, k.cttsOffsets) /\ n = SumTo(k.cttsCounts, Len(k.cttsCounts))
    BY Zenon DEF Listed, Composed, Counted
  <2> QED BY <1>1, <1>2, <2>1, RunsExtend
<1>5. \A i \in 1..(n + 1) : i \in 1..n \/ i = n + 1
  BY <1>2
<1>6. /\ Append(k.sizes, s.len)[n + 1] = s.len
      /\ \A i \in 1..n : Append(k.sizes, s.len)[i] = k.sizes[i]
  BY <1>2, AppendProperties
<1>7. /\ Append(k.syncs, n + 1) \in Seq(Nat)
      /\ Len(Append(k.syncs, n + 1)) = Len(k.syncs) + 1
      /\ DOMAIN k.syncs = 1..Len(k.syncs) /\ Len(k.syncs) \in Nat
      /\ DOMAIN Append(k.syncs, n + 1) = 1..(Len(k.syncs) + 1)
      /\ \A i \in 1..Len(k.syncs) : Append(k.syncs, n + 1)[i] = k.syncs[i]
      /\ Append(k.syncs, n + 1)[Len(k.syncs) + 1] = n + 1
  <2>1. n + 1 \in Nat
    BY <1>2
  <2>2. Append(k.syncs, n + 1) \in Seq(Nat) /\ Len(Append(k.syncs, n + 1)) = Len(k.syncs) + 1
    BY <1>2, <2>1, AppendProperties
  <2> QED BY <1>2, <2>1, <2>2, AppendProperties, LenProperties
<1>8. Marked(k)
  BY DEF Listed
<1>9. \A i \in DOMAIN k.syncs : k.syncs[i] \in Nat /\ k.syncs[i] <= n
  <2> SUFFICES ASSUME NEW i \in DOMAIN k.syncs PROVE k.syncs[i] \in Nat /\ k.syncs[i] <= n
    OBVIOUS
  <2>1. k.syncs[i] <= n
    BY <1>8, Zenon DEF Marked
  <2>2. k.syncs[i] \in Nat
    BY <1>2, <1>7, ElementOfSeq
  <2> QED BY <2>1, <2>2
<1>10. Composed(q)
  <2> SUFFICES ASSUME ~q.shifted
               PROVE  \A i \in 1..(n + 1) : RunValue(q.cttsCounts, q.cttsOffsets, i) = 0
    BY <1>1, <1>4, Zenon DEF Composed, Counted
  <2>1. ~k.shifted /\ s.offset = 0
    BY <1>1
  <2>2. \A i \in 1..n : RunValue(k.cttsCounts, k.cttsOffsets, i) = 0
    BY <2>1, Zenon DEF Listed, Composed
  <2> QED BY <1>4, <1>5, <2>1, <2>2
<1>11. /\ Marked(q)
       /\ Sync(q, n + 1) <=> s.sync
       /\ \A i \in 1..n : Sync(q, i) <=> Sync(k, i)
  <2>1. CASE s.sync
    <3>1. q.syncs = Append(k.syncs, n + 1)
      BY <1>1, <2>1
    <3>2. Marked(q)
      <4>1. Len(q.syncs) <= q.count
        BY <1>1, <1>2, <1>7, <1>8, <3>1 DEF Marked
      <4>2. ASSUME NEW i \in DOMAIN q.syncs PROVE q.syncs[i] <= q.count
        <5>1. i \in 1..(Len(k.syncs) + 1)
          BY <1>7, <3>1
        <5>2. CASE i \in 1..Len(k.syncs)
          <6>1. q.syncs[i] = k.syncs[i] /\ i \in DOMAIN k.syncs
            BY <1>7, <3>1, <5>2
          <6> QED BY <1>1, <1>2, <1>9, <6>1
        <5>3. CASE i = Len(k.syncs) + 1
          BY <1>1, <1>2, <1>7, <3>1, <5>3
        <5> QED BY <1>7, <5>1, <5>2, <5>3
      <4>3. ASSUME Len(q.syncs) = q.count
            PROVE  \A i \in 1..q.count : q.syncs[i] = i
        <5>1. Len(k.syncs) = n
          <6>1. Len(q.syncs) = Len(k.syncs) + 1 /\ q.count = n + 1
            BY <1>1, <1>7, <3>1, Zenon
          <6>2. Len(k.syncs) \in Nat
            BY <1>7
          <6> DEFINE l == Len(k.syncs)
          <6>3. l \in Nat /\ n \in Nat /\ l + 1 = n + 1
            BY <1>2, <4>3, <6>1, <6>2
          <6> HIDE DEF l, n
          <6>4. l = n
            BY <6>3
          <6> QED BY <6>4 DEF l
        <5>2. \A i \in 1..n : k.syncs[i] = i
          BY <1>8, <5>1 DEF Marked
        <5> QED BY <1>1, <1>5, <1>7, <3>1, <5>1, <5>2
      <4> QED BY <4>1, <4>2, <4>3 DEF Marked
    <3>3. Sync(q, n + 1)
      <4>1. Len(k.syncs) + 1 \in DOMAIN q.syncs /\ q.syncs[Len(k.syncs) + 1] = n + 1
        BY <1>7, <3>1
      <4> QED BY <4>1 DEF Sync
    <3>4. \A i \in 1..n : Sync(q, i) <=> Sync(k, i)
      <4> SUFFICES ASSUME NEW i \in 1..n
                   PROVE  Sync(q, i) <=> Sync(k, i)
        OBVIOUS
      <4>1. ASSUME Sync(k, i) PROVE Sync(q, i)
        <5>1. PICK j \in DOMAIN k.syncs : k.syncs[j] = i
          BY <4>1 DEF Sync
        <5>2. j \in DOMAIN q.syncs /\ q.syncs[j] = i
          BY <1>7, <3>1, <5>1
        <5> QED BY <5>2 DEF Sync
      <4>2. ASSUME Sync(q, i) PROVE Sync(k, i)
        <5>1. PICK j \in DOMAIN q.syncs : q.syncs[j] = i
          BY <4>2 DEF Sync
        <5>2. j # Len(k.syncs) + 1
          BY <1>2, <1>7, <3>1, <5>1
        <5>3. j \in DOMAIN k.syncs /\ k.syncs[j] = i
          BY <1>7, <3>1, <5>1, <5>2
        <5> QED BY <5>3 DEF Sync
      <4> QED BY <4>1, <4>2
    <3> QED BY <2>1, <3>2, <3>3, <3>4
  <2>2. CASE ~s.sync
    <3>1. q.syncs = k.syncs
      BY <1>1, <2>2
    <3>2. Marked(q)
      <4>1. Len(q.syncs) <= n /\ n + 1 = q.count
        BY <1>1, <1>8, <3>1 DEF Marked
      <4>2. \A i \in DOMAIN q.syncs : q.syncs[i] \in Nat /\ q.syncs[i] <= n
        BY <1>9, <3>1
      <4>3. Len(q.syncs) \in Nat
        BY <1>7, <3>1
      <4> QED BY <1>2, <4>1, <4>2, <4>3 DEF Marked
    <3>3. ~Sync(q, n + 1)
      BY <1>2, <1>9, <3>1 DEF Sync
    <3>4. \A i \in 1..n : Sync(q, i) <=> Sync(k, i)
      BY <3>1 DEF Sync
    <3> QED BY <2>2, <3>2, <3>3, <3>4
  <2> QED BY <1>2, <2>1, <2>2
<1>12. Listed(q)
  BY <1>1, <1>3, <1>10, <1>11, Zenon DEF Listed, Counted
<1>13. \A i \in 1..n : Meant(t, q)[i] = Meant(t, k)[i]
  <2> SUFFICES ASSUME NEW i \in 1..n
               PROVE  Meant(t, q)[i] = Meant(t, k)[i]
    OBVIOUS
  <2>1. i \in 1..(n + 1) /\ i \in 1..q.count
    BY <1>1, <1>2
  <2>2. Sync(q, i) = Sync(k, i)
    BY <1>11, SyncSame
  <2>3. q.sizes[i] = k.sizes[i]
    BY <1>1, <1>6
  <2>4. /\ RunValue(q.durCounts, q.durDeltas, i) = RunValue(k.durCounts, k.durDeltas, i)
        /\ RunValue(q.cttsCounts, q.cttsOffsets, i) = RunValue(k.cttsCounts, k.cttsOffsets, i)
    BY <1>3, <1>4
  <2> QED BY <2>1, <2>2, <2>3, <2>4, Zenon DEF Meant
<1>14. Meant(t, q)[n + 1] = e
  <2>1. n + 1 \in 1..q.count
    BY <1>1, <1>2
  <2>2. Sync(q, n + 1) = s.sync
    <3>1. Sync(q, n + 1) \in BOOLEAN
      BY Zenon DEF Sync
    <3>2. CASE s.sync
      <4>1. Sync(q, n + 1) = TRUE /\ s.sync = TRUE
        BY <1>2, <1>11, <3>1, <3>2, Zenon
      <4> QED BY <4>1
    <3>3. CASE ~s.sync
      <4>1. Sync(q, n + 1) = FALSE /\ s.sync = FALSE
        BY <1>2, <1>11, <3>1, <3>3, Zenon
      <4> QED BY <4>1
    <3> QED BY <3>2, <3>3
  <2>3. q.sizes[n + 1] = s.len
    BY <1>1, <1>6
  <2> QED BY <1>3, <1>4, <2>1, <2>2, <2>3, Zenon DEF Meant
<1>15. /\ Meant(t, k) = [i \in 1..n |-> Meant(t, k)[i]]
       /\ Meant(t, q) = [i \in 1..(n + 1) |-> Meant(t, q)[i]]
  <2>1. \A r : Meant(t, r) = [i \in 1..r.count |-> Meant(t, r)[i]]
    BY Zenon DEF Meant
  <2> QED BY <1>1, <2>1, Zenon
<1> HIDE DEF e
<1>16. Meant(t, q) = Append(Meant(t, k), e)
  <2> DEFINE f == Meant(t, k)
             g == Meant(t, q)
  <2>1. Longer(n, f, g, e)
    BY <1>13, <1>14, <1>15, Zenon DEF Longer
  <2> HIDE DEF f, g
  <2>2. g = Append(f, e)
    BY <1>2, <2>1, AppendMade
  <2> QED BY <2>2, Zenon DEF f, g
<1> QED BY <1>1, <1>12, <1>16 DEF e

(***************************************************************************)
(* Bytes.                                                                  *)
(***************************************************************************)
(* Bytes stay where they are when others are written behind them.          *)
LEMMA BytesStay ==
    ASSUME NEW S, NEW s \in Seq(S), NEW r \in Seq(S), NEW a \in Nat, NEW l \in Nat,
           a + l <= Len(s)
    PROVE  SubSeq(s \o r, a + 1, a + l) = SubSeq(s, a + 1, a + l)
<1>1. CASE l = 0
  <2>1. a + 1 \in Int /\ a + l \in Int /\ a + l < a + 1
    BY <1>1
  <2>2. SubSeq(s, a + 1, a + l) = <<>> /\ SubSeq(s \o r, a + 1, a + l) = <<>>
    BY <2>1, SubSeqEmpty
  <2> QED BY <2>2
<1>2. CASE l # 0
  <2>1. a + 1 \in 1..Len(s) /\ a + l \in 1..Len(s)
    BY <1>2, LenProperties
  <2> QED BY <2>1, SubSeqOfConcat1
<1> QED BY <1>1, <1>2

(* What is written last is found at the end.                               *)
LEMMA BytesLast ==
    ASSUME NEW S, NEW s \in Seq(S), NEW r \in Seq(S)
    PROVE  SubSeq(s \o r, Len(s) + 1, Len(s) + Len(r)) = r
<1> DEFINE a == Len(s)
           l == Len(r)
<1>1. a \in Nat /\ l \in Nat
  BY LenProperties
<1>2. CASE l = 0
  <2>1. a + 1 \in Int /\ a + l \in Int /\ a + l < a + 1
    BY <1>1, <1>2
  <2>2. SubSeq(s \o r, a + 1, a + l) = <<>>
    BY <2>1, SubSeqEmpty
  <2>3. r = <<>>
    BY <1>2, EmptySeq
  <2> QED BY <2>2, <2>3
<1>3. CASE l # 0
  <2>1. /\ a + 1 \in (Len(s) + 1)..(Len(s) + Len(r)) /\ a + l \in (Len(s) + 1)..(Len(s) + Len(r))
        /\ (a + 1) - Len(s) = 1 /\ (a + l) - Len(s) = l
    BY <1>1, <1>3
  <2>2. SubSeq(s \o r, a + 1, a + l) = SubSeq(r, (a + 1) - Len(s), (a + l) - Len(s))
    BY <2>1, SubSeqOfConcat2
  <2>3. SubSeq(r, 1, Len(r)) = r
    BY SubSeqFull
  <2> QED BY <2>1, <2>2, <2>3
<1> QED BY <1>2, <1>3

(* Bytes of a part of a file are bytes of the file.                        *)
LEMMA BytesBehind ==
    ASSUME NEW S, NEW s \in Seq(S), NEW b \in Nat, b <= Len(s),
           NEW a \in Nat, NEW l \in Nat, a + l <= Len(s) - b
    PROVE  SubSeq(SubSeq(s, b + 1, Len(s)), a + 1, a + l) = SubSeq(s, b + a + 1, b + a + l)
<1> DEFINE n == Len(s)
<1>1. n \in Nat
  BY LenProperties
<1>2. CASE l = 0
  <2>1. a + 1 \in Int /\ a + l \in Int /\ a + l < a + 1
    BY <1>2
  <2>2. b + a + 1 \in Int /\ b + a + l \in Int /\ b + a + l < b + a + 1
    BY <1>2
  <2> QED BY <2>1, <2>2, SubSeqEmpty
<1>3. CASE l # 0
  <2>1. /\ b + 1 \in 1..n /\ n \in 1..n
        /\ a + 1 \in 1..(n - (b + 1) + 1) /\ a + l \in 1..(n - (b + 1) + 1)
        /\ (b + 1) + (a + 1) - 1 = b + a + 1 /\ (b + 1) + (a + l) - 1 = b + a + l
    BY <1>1, <1>3
  <2>2. SubSeq(SubSeq(s, b + 1, n), a + 1, a + l)
          = SubSeq(s, (b + 1) + (a + 1) - 1, (b + 1) + (a + l) - 1)
    BY <2>1, SubSeqOfSubSeq
  <2> QED BY <2>1, <2>2
<1> QED BY <1>2, <1>3

(***************************************************************************)
(* Where the samples of a track are.                                       *)
(***************************************************************************)
(* Sample n of track t lies where chunk c says.                            *)
Lies(t, k, c, n, media) ==
    /\ Place(k, c, n) \in Nat /\ Place(k, c, n) + k.sizes[n] <= Len(media)
    /\ SubSeq(media, Place(k, c, n) + 1, Place(k, c, n) + k.sizes[n]) = Data(t, n, k.sizes[n])

(* The first m samples of track t, as far as they are in chunks.           *)
Placed(t, k, m, media) ==
    \A c \in DOMAIN k.chunkOffsets, n \in 1..m : Within(k, c, n) => Lies(t, k, c, n, media)

(* The samples in no chunk are the ones behind those in chunks.            *)
Waits(t, k) ==
    \A i \in DOMAIN k.pending :
        k.pending[i] = Data(t, InChunks(k) + i, k.sizes[InChunks(k) + i])

(* Where the sample behind the first of the last chunk comes to lie.       *)
NextPlace(k, sent) ==
    k.chunkOffsets[Len(k.chunkSamples)] + SumTo(k.sizes, InChunks(k) + sent)
        - SumTo(k.sizes, InChunks(k))

(* The media reach behind that one.                                        *)
Reaches(t, k, sent, media) ==
    /\ Placed(t, k, InChunks(k) + sent, media)
    /\ Len(media) = NextPlace(k, sent)

(* A track of which no chunk is being written, and one of whose last chunk *)
(* the first samples are.                                                  *)
Resting(t, k, media) ==
    /\ Listed(k) /\ Waits(t, k)
    /\ Split(k, InChunks(k))
    /\ Placed(t, k, InChunks(k), media)

Writing(t, k, sent, media) ==
    /\ Listed(k) /\ Waits(t, k)
    /\ Split(k, k.count)
    /\ Len(k.chunkSamples) > 0 /\ k.chunkSamples[Len(k.chunkSamples)] = Len(k.pending)
    /\ Reaches(t, k, sent, media)

(* What is known of the numbers of a track.                                *)
LEMMA TrackNumbers ==
    ASSUME NEW k \in TrackType, TablesAgree(k)
    PROVE  /\ k.count \in Nat /\ Len(k.pending) \in Nat /\ InChunks(k) \in 0..k.count
           /\ k.sizes \in Seq(Nat) /\ DOMAIN k.sizes = 1..k.count
           /\ \A i \in 1..k.count : k.sizes[i] \in Nat
           /\ DOMAIN k.pending = 1..Len(k.pending)
           /\ InChunks(k) + Len(k.pending) = k.count
           /\ Len(k.chunkSamples) \in Nat /\ k.chunkSamples \in Seq(Nat)
           /\ k.chunkOffsets \in Seq(Nat)
           /\ DOMAIN k.chunkSamples = 1..Len(k.chunkSamples)
           /\ DOMAIN k.chunkOffsets = 1..Len(k.chunkSamples)
           /\ Len(k.chunkOffsets) = Len(k.chunkSamples)
           /\ \A c \in 1..Len(k.chunkSamples) :
                k.chunkSamples[c] \in Nat /\ k.chunkOffsets[c] \in Nat
<1>1. /\ k.count \in Nat /\ k.sizes \in Seq(Nat) /\ k.chunkSamples \in Seq(Nat)
      /\ k.chunkOffsets \in Seq(Nat) /\ k.pending \in Seq(Seq(MediaByte))
  BY DEF TrackType
<1>2. /\ Len(k.sizes) = k.count /\ Len(k.pending) <= k.count
      /\ Len(k.chunkOffsets) = Len(k.chunkSamples)
  BY DEF TablesAgree
<1>3. Len(k.pending) \in Nat /\ DOMAIN k.pending = 1..Len(k.pending)
  BY <1>1, LenProperties
<1>4. InChunks(k) \in 0..k.count /\ InChunks(k) + Len(k.pending) = k.count
  BY <1>1, <1>2, <1>3 DEF InChunks
<1>5. DOMAIN k.sizes = 1..k.count /\ \A i \in 1..k.count : k.sizes[i] \in Nat
  BY <1>1, <1>2, LenProperties
<1>6. /\ Len(k.chunkSamples) \in Nat /\ DOMAIN k.chunkSamples = 1..Len(k.chunkSamples)
      /\ DOMAIN k.chunkOffsets = 1..Len(k.chunkSamples)
  BY <1>1, <1>2, LenProperties
<1>7. \A c \in 1..Len(k.chunkSamples) : k.chunkSamples[c] \in Nat /\ k.chunkOffsets[c] \in Nat
  <2> SUFFICES ASSUME NEW c \in 1..Len(k.chunkSamples)
               PROVE  k.chunkSamples[c] \in Nat /\ k.chunkOffsets[c] \in Nat
    OBVIOUS
  <2>1. k.chunkSamples[c] \in Nat
    BY <1>1, ElementOfSeq
  <2>2. c \in 1..Len(k.chunkOffsets)
    BY <1>2
  <2>3. k.chunkOffsets[c] \in Nat
    BY <1>1, <2>2, ElementOfSeq
  <2> QED BY <2>1, <2>3
<1> QED BY <1>1, <1>2, <1>3, <1>4, <1>5, <1>6, <1>7

(* And of sums of them.                                                    *)
LEMMA TrackSums ==
    ASSUME NEW k \in TrackType, TablesAgree(k)
    PROVE  /\ \A n \in 0..k.count : SumTo(k.sizes, n) \in Nat
           /\ \A c \in 0..Len(k.chunkSamples) : SumTo(k.chunkSamples, c) \in Nat
           /\ \A n \in 0..(k.count - 1) : SumTo(k.sizes, n + 1) = SumTo(k.sizes, n) + k.sizes[n + 1]
<1>1. \A n \in 0..k.count : SumTo(k.sizes, n) \in Nat
  BY TrackNumbers, SumGrows
<1>2. \A c \in 0..Len(k.chunkSamples) : SumTo(k.chunkSamples, c) \in Nat
  BY TrackNumbers, SumGrows
<1>3. \A n \in 0..(k.count - 1) : SumTo(k.sizes, n + 1) = SumTo(k.sizes, n) + k.sizes[n + 1]
  BY TrackNumbers, SumStep
<1> QED BY <1>1, <1>2, <1>3

(* A state of a track that has what another has, and more.                 *)
Keeps(k, q) ==
    /\ \A d \in DOMAIN k.chunkSamples : /\ q.chunkSamples[d] = k.chunkSamples[d]
                                        /\ q.chunkOffsets[d] = k.chunkOffsets[d]
    /\ \A i \in 1..k.count : q.sizes[i] = k.sizes[i]

(* Its samples are where they were.                                        *)
LEMMA LiesKept ==
    ASSUME NEW k \in TrackType, TablesAgree(k), NEW q, Keeps(k, q),
           NEW c \in DOMAIN k.chunkOffsets, NEW n \in 1..k.count, NEW t, NEW media
    PROVE  /\ Within(q, c, n) <=> Within(k, c, n)
           /\ Within(k, c, n) /\ Lies(t, k, c, n, media) => Lies(t, q, c, n, media)
<1> DEFINE s == k.chunkSamples
<1>1. /\ k.count \in Nat /\ c \in 1..Len(s) /\ Len(s) \in Nat /\ DOMAIN s = 1..Len(s)
      /\ c - 1 \in Nat /\ c \in Nat /\ n - 1 \in Nat /\ n - 1 \in 0..k.count
      /\ c - 1 \in 0..Len(s)
  <2>1. /\ k.count \in Nat /\ Len(s) \in Nat /\ DOMAIN s = 1..Len(s)
        /\ DOMAIN k.chunkOffsets = 1..Len(s)
    BY TrackNumbers
  <2> DEFINE l == Len(s)
             m == k.count
  <2>2. c \in 1..l /\ n \in 1..m
    BY <2>1
  <2> HIDE DEF l, m
  <2>3. l \in Nat /\ m \in Nat
    BY <2>1 DEF l, m
  <2>4. c - 1 \in Nat /\ c \in Nat /\ n - 1 \in Nat /\ n - 1 \in 0..m /\ c - 1 \in 0..l
    BY <2>2, <2>3
  <2> QED BY <2>1, <2>2, <2>4 DEF l, m
<1>2. /\ \A d \in 1..c : q.chunkSamples[d] = s[d]
      /\ \A d \in 1..(c - 1) : q.chunkSamples[d] = s[d]
      /\ q.chunkOffsets[c] = k.chunkOffsets[c] /\ q.sizes[n] = k.sizes[n]
      /\ \A i \in 1..(n - 1) : q.sizes[i] = k.sizes[i]
  BY <1>1 DEF Keeps
<1>3. SumTo(q.chunkSamples, c - 1) = SumTo(s, c - 1)
  BY <1>1, <1>2, SumSame
<1>4. SumTo(q.chunkSamples, c) = SumTo(s, c)
  BY <1>1, <1>2, SumSame
<1>5. SumTo(q.sizes, n - 1) = SumTo(k.sizes, n - 1)
  BY <1>1, <1>2, SumSame
<1>6. Within(q, c, n) <=> Within(k, c, n)
  BY <1>3, <1>4, Zenon DEF Within
<1>7. ASSUME Within(k, c, n), Lies(t, k, c, n, media)
      PROVE  Lies(t, q, c, n, media)
  <2> DEFINE m == SumTo(s, c - 1)
  <2>1. m \in Nat /\ m < n
    BY <1>1, <1>7, TrackSums DEF Within
  <2> HIDE DEF m
  <2>2. \A i \in 1..m : q.sizes[i] = k.sizes[i]
    BY <1>1, <2>1 DEF Keeps
  <2>3. SumTo(q.sizes, m) = SumTo(k.sizes, m)
    BY <2>1, <2>2, SumSame
  <2>4. Place(q, c, n) = Place(k, c, n)
    BY <1>2, <1>3, <1>5, <2>3, Zenon DEF Place, m
  <2> QED BY <1>2, <1>7, <2>4, Zenon DEF Lies
<1> QED BY <1>6, <1>7

(* A track takes a sample.                                                 *)
LEMMA TakenRests ==
    ASSUME NEW k \in TrackType, TablesAgree(k), NEW t \in Nat, NEW media,
           Resting(t, k, media), NEW s \in SampleType, NEW q, q = Taken(t, k, s)
    PROVE  Resting(t, q, media)
<1> DEFINE n == k.count
           m == InChunks(k)
           l == Len(k.pending)
           d == Data(t, n + 1, s.len)
<1>1. /\ q.count = n + 1 /\ q.sizes = Append(k.sizes, s.len)
      /\ q.chunkOffsets = k.chunkOffsets /\ q.chunkSamples = k.chunkSamples
      /\ q.pending = Append(k.pending, d)
  BY Zenon DEF Taken
<1>2. /\ n \in Nat /\ l \in Nat /\ m \in 0..n /\ m + l = n /\ k.sizes \in Seq(Nat)
      /\ DOMAIN k.sizes = 1..n /\ DOMAIN k.pending = 1..l
  BY TrackNumbers
<1>3. /\ s.len \in Nat /\ Len(k.sizes) = n /\ k.pending \in Seq(Seq(MediaByte))
  BY DEF TrackType, TablesAgree, SampleType
<1>4. /\ Append(k.sizes, s.len)[n + 1] = s.len
      /\ \A i \in 1..n : Append(k.sizes, s.len)[i] = k.sizes[i]
  BY <1>2, <1>3, AppendProperties
<1>5. d \in Seq(MediaByte)
  <2>1. n + 1 \in Nat
    BY <1>2
  <2> QED BY <1>3, <2>1, DataType
<1> HIDE DEF d
<1>6. /\ Append(k.pending, d) \in Seq(Seq(MediaByte)) /\ Len(Append(k.pending, d)) = l + 1
      /\ \A i \in 1..l : Append(k.pending, d)[i] = k.pending[i]
      /\ Append(k.pending, d)[l + 1] = d
  <2> DEFINE S == Seq(MediaByte)
  <2>1. k.pending \in Seq(S) /\ d \in S
    BY <1>3, <1>5
  <2> HIDE DEF S
  <2>2. /\ Append(k.pending, d) \in Seq(S) /\ Len(Append(k.pending, d)) = l + 1
        /\ \A i \in 1..l : Append(k.pending, d)[i] = k.pending[i]
        /\ Append(k.pending, d)[l + 1] = d
    BY <2>1, AppendProperties
  <2> QED BY <2>2 DEF S
<1>7. InChunks(q) = m
  <2>1. InChunks(q) = (n + 1) - (l + 1)
    BY <1>1, <1>6, Zenon DEF InChunks
  <2> HIDE DEF n, m, l
  <2> QED BY <1>2, <2>1
<1>8. DOMAIN q.pending = 1..(l + 1)
  BY <1>1, <1>6, LenProperties
<1>9. Keeps(k, q)
  BY <1>1, <1>4 DEF Keeps
<1>10. Listed(q)
  BY TakenListed DEF Resting
<1>11. Split(q, InChunks(q))
  BY <1>1, <1>7, Zenon DEF Resting, Split
<1>12. Placed(t, q, InChunks(q), media)
  <2> SUFFICES ASSUME NEW c \in DOMAIN q.chunkOffsets, NEW i \in 1..InChunks(q), Within(q, c, i)
               PROVE  Lies(t, q, c, i, media)
    BY DEF Placed
  <2>1. c \in DOMAIN k.chunkOffsets /\ i \in 1..m /\ i \in 1..n
    BY <1>1, <1>2, <1>7
  <2>2. Within(k, c, i)
    BY <1>9, <2>1, LiesKept
  <2>3. Lies(t, k, c, i, media)
    BY <2>1, <2>2 DEF Resting, Placed
  <2> QED BY <1>9, <2>1, <2>2, <2>3, LiesKept
<1>13. Waits(t, q)
  <2> SUFFICES ASSUME NEW i \in 1..(l + 1)
               PROVE  q.pending[i] = Data(t, m + i, q.sizes[m + i])
    BY <1>7, <1>8 DEF Waits
  <2>1. CASE i \in 1..l
    <3>1. q.pending[i] = k.pending[i]
      BY <1>1, <1>6, <2>1
    <3>2. k.pending[i] = Data(t, m + i, k.sizes[m + i])
      BY <1>2, <2>1 DEF Resting, Waits
    <3>3. m + i \in 1..n
      BY <1>2, <2>1
    <3>4. q.sizes[m + i] = k.sizes[m + i]
      BY <1>1, <1>4, <3>3
    <3> QED BY <3>1, <3>2, <3>4
  <2>2. CASE i = l + 1
    <3>1. m + i = n + 1
      BY <1>2, <2>2
    <3>2. q.sizes[m + i] = s.len /\ q.pending[i] = d
      BY <1>1, <1>4, <1>6, <2>2, <3>1
    <3> QED BY <3>1, <3>2 DEF d
  <2>3. i \in 1..l \/ i = l + 1
    <3> HIDE DEF n, m, l
    <3> QED BY <1>2
  <2> QED BY <2>1, <2>2, <2>3
<1> QED BY <1>10, <1>11, <1>12, <1>13 DEF Resting

(* What is there of a track while its chunk is opened.                     *)
LEMMA ChunkOpens ==
    ASSUME NEW k \in TrackType, TablesAgree(k), NEW t \in Nat, NEW media,
           Resting(t, k, media), k.pending # <<>>, NEW at \in Nat, at = Len(media),
           NEW q, q = WithChunk(k, at)
    PROVE  Writing(t, q, 0, media)
<1> DEFINE n == k.count
           m == InChunks(k)
           l == Len(k.pending)
           z == Len(k.chunkSamples)
           s == k.chunkSamples
<1>1. /\ q.count = n /\ q.sizes = k.sizes /\ q.pending = k.pending /\ q.syncs = k.syncs
      /\ q.durCounts = k.durCounts /\ q.durDeltas = k.durDeltas
      /\ q.cttsCounts = k.cttsCounts /\ q.cttsOffsets = k.cttsOffsets
      /\ q.shifted = k.shifted
      /\ q.chunkOffsets = Append(k.chunkOffsets, at)
      /\ q.chunkSamples = Append(k.chunkSamples, l)
  BY DEF WithChunk, TrackType
<1>2. /\ n \in Nat /\ l \in Nat /\ m \in 0..n /\ m + l = n
      /\ z \in Nat /\ s \in Seq(Nat) /\ k.chunkOffsets \in Seq(Nat)
      /\ Len(k.chunkOffsets) = z
      /\ DOMAIN k.chunkOffsets = 1..z /\ DOMAIN s = 1..z
  BY TrackNumbers
<1>3. /\ Append(s, l) \in Seq(Nat) /\ Len(Append(s, l)) = z + 1
      /\ \A c \in 1..z : Append(s, l)[c] = s[c]
      /\ Append(s, l)[z + 1] = l
  BY <1>2, AppendProperties
<1>4. /\ Append(k.chunkOffsets, at) \in Seq(Nat) /\ Len(Append(k.chunkOffsets, at)) = z + 1
      /\ \A c \in 1..z : Append(k.chunkOffsets, at)[c] = k.chunkOffsets[c]
      /\ Append(k.chunkOffsets, at)[z + 1] = at
  <2> DEFINE o == k.chunkOffsets
  <2>1. o \in Seq(Nat) /\ Len(o) = z
    BY <1>2
  <2> HIDE DEF o, z
  <2>2. /\ Append(o, at) \in Seq(Nat) /\ Len(Append(o, at)) = Len(o) + 1
        /\ \A c \in 1..Len(o) : Append(o, at)[c] = o[c]
        /\ Append(o, at)[Len(o) + 1] = at
    BY <2>1, AppendProperties
  <2> QED BY <2>1, <2>2, Zenon DEF o
<1>5. /\ DOMAIN q.chunkSamples = 1..(z + 1) /\ DOMAIN q.chunkOffsets = 1..(z + 1)
      /\ Len(q.chunkSamples) = z + 1
  BY <1>1, <1>3, <1>4, LenProperties
<1>6. Keeps(k, q)
  BY <1>1, <1>2, <1>3, <1>4 DEF Keeps
<1>7. Listed(q)
  <2>1. Listed(k)
    BY DEF Resting
  <2> QED BY <1>1, <2>1, Zenon DEF Listed, Counted, Composed, Marked
<1>8. InChunks(q) = m
  BY <1>1, Zenon DEF InChunks
<1>9. Waits(t, q)
  <2>1. Waits(t, k)
    BY DEF Resting
  <2> QED BY <1>1, <1>8, <2>1, Zenon DEF Waits
<1>10. SumTo(s, z) = m /\ \A c \in 1..z : s[c] > 0
  BY <1>2 DEF Resting, Split
<1>11. SumTo(q.chunkSamples, z) = m
  <2>1. \A c \in 1..z : q.chunkSamples[c] = s[c]
    BY <1>1, <1>3
  <2> QED BY <1>2, <1>10, <2>1, SumSame
<1>12. Split(q, q.count)
  <2>1. SumTo(q.chunkSamples, z + 1) = SumTo(q.chunkSamples, z) + q.chunkSamples[z + 1]
    BY <1>2, SumStep
  <2>2. SumTo(q.chunkSamples, Len(q.chunkSamples)) = q.count
    BY <1>1, <1>2, <1>3, <1>5, <1>11, <2>1
  <2>3. l > 0
    <3>1. k.pending \in Seq(Seq(MediaByte))
      BY DEF TrackType
    <3> QED BY <1>2, <3>1, EmptySeq
  <2>4. \A c \in 1..(z + 1) : q.chunkSamples[c] > 0
    <3>1. \A c \in 1..(z + 1) : c \in 1..z \/ c = z + 1
      BY <1>2
    <3> QED BY <1>1, <1>3, <1>10, <2>3, <3>1
  <2> QED BY <1>5, <2>2, <2>4 DEF Split
<1>13. Placed(t, q, m, media)
  <2> SUFFICES ASSUME NEW c \in DOMAIN q.chunkOffsets, NEW i \in 1..m, Within(q, c, i)
               PROVE  Lies(t, q, c, i, media)
    BY DEF Placed
  <2>1. c \in 1..(z + 1)
    BY <1>5
  <2>2. c # z + 1
    <3>1. ASSUME c = z + 1 PROVE FALSE
      <4>1. c - 1 = z
        BY <1>2, <3>1
      <4>2. SumTo(q.chunkSamples, z) < i
        BY <4>1 DEF Within
      <4> QED BY <1>2, <1>11, <4>2
    <3> QED BY <3>1
  <2>3. c \in DOMAIN k.chunkOffsets /\ i \in 1..n
    <3> HIDE DEF n, m, l, z, s
    <3> QED BY <1>2, <2>1, <2>2
  <2>4. Within(k, c, i)
    BY <1>6, <2>3, LiesKept
  <2>5. Lies(t, k, c, i, media)
    BY <2>3, <2>4 DEF Resting, Placed
  <2> QED BY <1>6, <2>3, <2>4, <2>5, LiesKept
<1>14. /\ q.chunkSamples[Len(q.chunkSamples)] = Len(q.pending)
       /\ q.chunkOffsets[Len(q.chunkSamples)] = at
  BY <1>1, <1>3, <1>4, <1>5
<1>15. SumTo(k.sizes, m) \in Nat
  BY <1>2, TrackSums
<1>16. /\ m + 0 = m /\ z + 1 > 0
       /\ at = at + SumTo(q.sizes, m) - SumTo(q.sizes, m)
  BY <1>1, <1>2, <1>15
<1>17. at = NextPlace(q, 0)
  BY <1>8, <1>14, <1>16 DEF NextPlace
<1> HIDE DEF n, m, l, z, s
<1> QED BY <1>5, <1>7, <1>8, <1>9, <1>12, <1>13, <1>14, <1>16, <1>17 DEF Writing, Reaches

(* A sample stays where it is when others are written behind it.           *)
LEMMA LiesOn ==
    ASSUME NEW k, NEW t, NEW c, NEW n, k.sizes[n] \in Nat, NEW S,
           NEW media \in Seq(S), NEW more \in Seq(S), Lies(t, k, c, n, media)
    PROVE  Lies(t, k, c, n, media \o more)
<1> DEFINE p == Place(k, c, n)
           l == k.sizes[n]
<1>1. p \in Nat /\ l \in Nat /\ p + l <= Len(media) /\ SubSeq(media, p + 1, p + l) = Data(t, n, l)
  BY Zenon DEF Lies
<1> HIDE DEF p, l
<1>2. SubSeq(media \o more, p + 1, p + l) = SubSeq(media, p + 1, p + l)
  BY <1>1, BytesStay
<1>3. Len(media \o more) = Len(media) + Len(more) /\ Len(media) \in Nat /\ Len(more) \in Nat
  BY ConcatProperties, LenProperties
<1>4. p + l <= Len(media \o more)
  BY <1>1, <1>3
<1> QED BY <1>1, <1>2, <1>4, Zenon DEF Lies, p, l

(* So do all the samples of a track that are in chunks.                    *)
LEMMA PlacedOn ==
    ASSUME NEW k \in TrackType, TablesAgree(k), NEW t, NEW m \in 0..k.count, NEW S,
           NEW media \in Seq(S), NEW more \in Seq(S), Placed(t, k, m, media)
    PROVE  Placed(t, k, m, media \o more)
<1> SUFFICES ASSUME NEW c \in DOMAIN k.chunkOffsets, NEW n \in 1..m, Within(k, c, n)
             PROVE  Lies(t, k, c, n, media \o more)
  BY DEF Placed
<1>1. Lies(t, k, c, n, media)
  BY DEF Placed
<1>2. k.sizes[n] \in Nat
  <2>1. k.count \in Nat /\ \A i \in 1..k.count : k.sizes[i] \in Nat
    BY TrackNumbers
  <2> QED BY <2>1
<1> QED BY <1>1, <1>2, LiesOn

(* So does a track whose samples are not the ones written.                 *)
LEMMA RestsOn ==
    ASSUME NEW k \in TrackType, TablesAgree(k), NEW t, NEW S,
           NEW media \in Seq(S), NEW more \in Seq(S), Resting(t, k, media)
    PROVE  Resting(t, k, media \o more)
<1>1. InChunks(k) \in 0..k.count
  BY TrackNumbers
<1>2. Placed(t, k, InChunks(k), media)
  BY DEF Resting
<1>3. Placed(t, k, InChunks(k), media \o more)
  BY <1>1, <1>2, PlacedOn
<1> QED BY <1>3, Zenon DEF Resting

(* The next sample of the chunk being written comes to lie where the chunk *)
(* says.                                                                   *)
LEMMA SampleWritten ==
    ASSUME NEW k \in TrackType, TablesAgree(k), NEW t \in Nat, NEW S,
           NEW media \in Seq(S), NEW sent \in Nat, Writing(t, k, sent, media),
           sent < Len(k.pending), k.pending[sent + 1] \in Seq(S),
           NEW more, more = media \o k.pending[sent + 1]
    PROVE  Reaches(t, k, sent + 1, more)
<1> DEFINE n == k.count
           m == InChunks(k)
           l == Len(k.pending)
           s == k.chunkSamples
           z == Len(s)
           i == m + (sent + 1)
           d == k.pending[sent + 1]
           at == Len(media)
           a == SumTo(k.sizes, m)
           b == SumTo(k.sizes, m + sent)
           o == k.chunkOffsets[z]
<1>1. /\ n \in Nat /\ l \in Nat /\ m \in 0..n /\ m + l = n /\ z \in Nat
      /\ s \in Seq(Nat) /\ DOMAIN s = 1..z /\ DOMAIN k.chunkOffsets = 1..z
      /\ DOMAIN k.pending = 1..l /\ sent < l
  BY TrackNumbers
<1>2. /\ z > 0 /\ s[z] = l /\ SumTo(s, z) = n
      /\ at = o + b - a
      /\ \A j \in DOMAIN k.pending : k.pending[j] = Data(t, m + j, k.sizes[m + j])
      /\ Placed(t, k, m + sent, media)
  BY DEF Writing, Split, Waits, NextPlace, Reaches
<1>3. /\ i \in 1..n /\ i - 1 = m + sent /\ m + sent \in 0..(n - 1) /\ m + sent \in 0..n
      /\ i = (m + sent) + 1 /\ sent + 1 \in 1..l /\ m \in Nat /\ i > m
      /\ \A j \in 1..i : j \in 1..(m + sent) \/ j = i
  <2> HIDE DEF n, m, l
  <2>1. n \in Nat /\ m \in Nat /\ l \in Nat /\ m + l = n /\ sent < l /\ i = (m + sent) + 1
    BY <1>1 DEF i
  <2> HIDE DEF i
  <2>2. i \in 1..n /\ i - 1 = m + sent /\ i > m /\ i = (m + sent) + 1
    BY <2>1
  <2>3. m + sent \in 0..(n - 1) /\ m + sent \in 0..n /\ sent + 1 \in 1..l
    BY <2>1
  <2>4. \A j \in 1..i : j \in 1..(m + sent) \/ j = i
    BY <2>1
  <2> QED BY <2>1, <2>2, <2>3, <2>4
<1>4. /\ z \in 1..z /\ z - 1 \in Nat /\ z = (z - 1) + 1
  <2> HIDE DEF z
  <2> QED BY <1>1, <1>2
<1>5. o \in Nat
  BY <1>4, TrackNumbers
<1>6. a \in Nat /\ b \in Nat /\ SumTo(k.sizes, i) = b + k.sizes[i] /\ k.sizes[i] \in Nat
  <2>1. /\ \A j \in 0..n : SumTo(k.sizes, j) \in Nat
        /\ \A j \in 0..(n - 1) : SumTo(k.sizes, j + 1) = SumTo(k.sizes, j) + k.sizes[j + 1]
    BY TrackSums
  <2>2. \A j \in 1..n : k.sizes[j] \in Nat
    BY TrackNumbers
  <2> HIDE DEF n, m
  <2> QED BY <1>1, <1>3, <2>1, <2>2
<1>7. d = Data(t, i, k.sizes[i]) /\ Len(d) = k.sizes[i]
  <2>1. d = Data(t, i, k.sizes[i])
    BY <1>1, <1>2, <1>3
  <2>2. i \in Nat
    BY <1>3
  <2> HIDE DEF i, d
  <2>3. Len(Data(t, i, k.sizes[i])) = k.sizes[i]
    BY <1>6, <2>2, DataType
  <2> QED BY <2>1, <2>3
<1>8. SumTo(s, z - 1) = m
  <2>1. SumTo(s, z) = SumTo(s, z - 1) + s[z]
    <3>1. SumTo(s, (z - 1) + 1) = SumTo(s, z - 1) + s[(z - 1) + 1]
      BY <1>4, SumStep
    <3> QED BY <1>4, <3>1
  <2>2. SumTo(s, z - 1) \in Nat
    <3>1. \A c \in 0..z : SumTo(s, c) \in Nat
      BY TrackSums
    <3> HIDE DEF z, s
    <3> QED BY <1>4, <3>1
  <2> HIDE DEF n, m, l, z, s
  <2> QED BY <1>1, <1>2, <2>1, <2>2
<1>9. Place(k, z, i) = at
  <2>1. Place(k, z, i) = o + b - a
    BY <1>3, <1>8, Zenon DEF Place
  <2> QED BY <1>2, <2>1
<1>10. at \in Nat /\ Len(more) = at + k.sizes[i]
  BY <1>7, ConcatProperties, LenProperties
<1>11. Lies(t, k, z, i, more)
  <2>1. SubSeq(media \o d, Len(media) + 1, Len(media) + Len(d)) = d
    BY BytesLast
  <2> HIDE DEF i, z, d
  <2>2. SubSeq(more, at + 1, at + k.sizes[i]) = d
    BY <1>7, <2>1, Zenon DEF d
  <2>3. at + k.sizes[i] <= Len(more)
    BY <1>6, <1>10
  <2> HIDE DEF at
  <2> QED BY <1>7, <1>9, <1>10, <2>2, <2>3, Zenon DEF Lies
<1>12. Placed(t, k, i, more)
  <2> SUFFICES ASSUME NEW c \in DOMAIN k.chunkOffsets, NEW j \in 1..i, Within(k, c, j)
               PROVE  Lies(t, k, c, j, more)
    BY DEF Placed
  <2>1. CASE j \in 1..(m + sent)
    <3>1. Placed(t, k, m + sent, more)
      BY <1>2, <1>3, PlacedOn
    <3> QED BY <2>1, <3>1 DEF Placed
  <2>2. CASE j = i
    <3>1. SumTo(s, z - 1) < i /\ i <= SumTo(s, z)
      <4> HIDE DEF i, m, n, z, s
      <4> QED BY <1>2, <1>3, <1>8
    <3>2. SumTo(s, c - 1) < i /\ i <= SumTo(s, c)
      BY <2>2 DEF Within
    <3>3. c \in DOMAIN s /\ z \in DOMAIN s /\ i \in Nat
      <4> HIDE DEF z, i, s, n
      <4> QED BY <1>1, <1>3, <1>4
    <3> HIDE DEF i, z
    <3>4. c = z
      BY <1>1, <3>1, <3>2, <3>3, OneChunk
    <3> QED BY <1>11, <2>2, <3>4
  <2> QED BY <1>3, <2>1, <2>2
<1>13. Len(more) = o + SumTo(k.sizes, i) - a
  <2>1. at = o + b - a
    BY <1>2
  <2> DEFINE e == SumTo(k.sizes, i)
             w == k.sizes[i]
  <2>2. /\ o \in Nat /\ a \in Nat /\ b \in Nat /\ e = b + w /\ w \in Nat
        /\ Len(more) = at + w
    BY <1>5, <1>6, <1>10
  <2> HIDE DEF o, a, b, at, i, n, m, l, s, z, d, e, w
  <2>3. Len(more) = o + e - a
    BY <2>1, <2>2
  <2> QED BY <2>3 DEF e
<1>14. Len(more) = NextPlace(k, sent + 1)
  BY <1>13, Zenon DEF NextPlace, o, a, i, m, z, s
<1> QED BY <1>12, <1>14 DEF Reaches

(* One sample more of the open chunk is written, right behind those before *)
(* it.                                                                     *)
LEMMA WritesOn ==
    ASSUME NEW k \in TrackType, TablesAgree(k), NEW t \in Nat, NEW S,
           NEW media \in Seq(S), NEW sent \in Nat, Writing(t, k, sent, media),
           sent < Len(k.pending), k.pending[sent + 1] \in Seq(S)
    PROVE  Writing(t, k, sent + 1, media \o k.pending[sent + 1])
<1> DEFINE more == media \o k.pending[sent + 1]
<1>1. Reaches(t, k, sent + 1, more)
  <2>1. more = media \o k.pending[sent + 1]
    OBVIOUS
  <2> HIDE DEF more
  <2> QED BY <2>1, SampleWritten
<1> HIDE DEF more
<1>2. Writing(t, k, sent + 1, more)
  BY <1>1, Zenon DEF Writing
<1> QED BY <1>2 DEF more

(* After its last sample the chunk is closed.                              *)
LEMMA ChunkEnds ==
    ASSUME NEW k \in TrackType, TablesAgree(k), NEW t \in Nat, NEW S,
           NEW media \in Seq(S), NEW sent \in Nat, Writing(t, k, sent, media),
           sent + 1 = Len(k.pending), k.pending[sent + 1] \in Seq(S),
           NEW q, q = Emptied(k)
    PROVE  Resting(t, q, media \o k.pending[sent + 1])
<1> DEFINE more == media \o k.pending[sent + 1]
<1>1. /\ q.count = k.count /\ q.sizes = k.sizes /\ q.syncs = k.syncs
      /\ q.durCounts = k.durCounts /\ q.durDeltas = k.durDeltas
      /\ q.cttsCounts = k.cttsCounts /\ q.cttsOffsets = k.cttsOffsets
      /\ q.shifted = k.shifted /\ q.chunkOffsets = k.chunkOffsets
      /\ q.chunkSamples = k.chunkSamples /\ q.pending = <<>>
  BY DEF Emptied, TrackType
<1>2. k.count \in Nat /\ InChunks(k) + Len(k.pending) = k.count /\ Len(k.pending) \in Nat
  BY TrackNumbers
<1>3. InChunks(q) = k.count
  <2>1. Len(q.pending) = 0
    BY <1>1
  <2>2. InChunks(q) = k.count - 0
    BY <1>1, <2>1, Zenon DEF InChunks
  <2> QED BY <1>2, <2>2
<1>4. Placed(t, k, k.count, more)
  <2>1. Placed(t, k, InChunks(k) + (sent + 1), more)
    <3>1. more = media \o k.pending[sent + 1] /\ sent < Len(k.pending)
      BY <1>2
    <3> HIDE DEF more
    <3>2. Reaches(t, k, sent + 1, more)
      BY <3>1, SampleWritten
    <3> QED BY <3>2 DEF Reaches
  <2> QED BY <1>2, <2>1
<1> HIDE DEF more
<1>5. Listed(q)
  <2>1. Listed(k)
    BY DEF Writing
  <2> QED BY <1>1, <2>1, Zenon DEF Listed, Counted, Composed, Marked
<1>6. Waits(t, q)
  <2>1. DOMAIN q.pending = {}
    BY <1>1
  <2> QED BY <2>1 DEF Waits
<1>7. Split(q, InChunks(q))
  <2>1. Split(k, k.count)
    BY DEF Writing
  <2> QED BY <1>1, <1>3, <2>1, Zenon DEF Split
<1>8. Placed(t, q, InChunks(q), more)
  <2> SUFFICES ASSUME NEW c \in DOMAIN q.chunkOffsets, NEW n \in 1..InChunks(q),
                      Within(q, c, n)
               PROVE  Lies(t, q, c, n, more)
    BY DEF Placed
  <2>1. c \in DOMAIN k.chunkOffsets /\ n \in 1..k.count
    BY <1>1, <1>3
  <2>2. Within(k, c, n)
    BY <1>1, Zenon DEF Within
  <2>3. Lies(t, k, c, n, more)
    BY <1>4, <2>1, <2>2, Zenon DEF Placed
  <2> QED BY <1>1, <2>3, Zenon DEF Lies, Place
<1> QED BY <1>5, <1>6, <1>7, <1>8 DEF Resting, more

(* A track in whose tables nothing changes.                                *)
SameTables(k, q) ==
    /\ q.count = k.count /\ q.sizes = k.sizes /\ q.syncs = k.syncs
    /\ q.durCounts = k.durCounts /\ q.durDeltas = k.durDeltas
    /\ q.cttsCounts = k.cttsCounts /\ q.cttsOffsets = k.cttsOffsets
    /\ q.shifted = k.shifted

(* Its samples rest where they did.                                        *)
LEMMA TablesRest ==
    ASSUME NEW k, NEW q, NEW t, NEW media, Resting(t, k, media), SameTables(k, q),
           q.chunkOffsets = k.chunkOffsets, q.chunkSamples = k.chunkSamples,
           q.pending = k.pending
    PROVE  Resting(t, q, media)
<1>1. InChunks(q) = InChunks(k)
  BY Zenon DEF InChunks, SameTables
<1>2. Listed(q)
  BY Zenon DEF Resting, Listed, Counted, Composed, Marked, SameTables
<1>3. Waits(t, q)
  BY <1>1, Zenon DEF Resting, Waits, SameTables
<1>4. Split(q, InChunks(q))
  BY <1>1, Zenon DEF Resting, Split
<1>5. Placed(t, q, InChunks(q), media)
  <2>1. Placed(t, k, InChunks(k), media)
    BY DEF Resting
  <2> QED BY <1>1, <2>1, Zenon DEF Placed, Within, Lies, Place, SameTables
<1> QED BY <1>2, <1>3, <1>4, <1>5 DEF Resting

(* They mean the same samples.                                             *)
LEMMA MeantSame ==
    ASSUME NEW k, NEW q, NEW t, SameTables(k, q)
    PROVE  Meant(t, q) = Meant(t, k)
BY Zenon DEF SameTables, Meant, Sync

(* A new track has no sample, wherever the media are.                      *)
LEMMA NewRests ==
    ASSUME NEW cfg \in ConfigType, NEW q, q = NewTrack(cfg), NEW t, NEW media
    PROVE  Resting(t, q, media) /\ Meant(t, q) = <<>>
<1> DEFINE none == <<>>
<1>1. /\ q.count = 0 /\ q.sizes = none /\ q.syncs = none
      /\ q.durCounts = none /\ q.durDeltas = none
      /\ q.cttsCounts = none /\ q.cttsOffsets = none
      /\ q.shifted = FALSE /\ q.chunkOffsets = none
      /\ q.chunkSamples = none /\ q.pending = none
  BY Zenon DEF NewTrack
<1>2. Len(none) = 0 /\ DOMAIN none = {} /\ none \in Seq(Nat) /\ none \in Seq(Int)
  OBVIOUS
<1>3. SumTo(none, 0) = 0
  BY SumZero
<1>4. 1..0 = {}
  OBVIOUS
<1>5. Meant(t, q) = <<>>
  <2>1. Meant(t, q) = [n \in {} |-> Meant(t, q)[n]]
    BY <1>1, <1>4 DEF Meant
  <2> QED BY <2>1
<1> HIDE DEF none
<1>6. RunTable(none, none) /\ SumTo(none, Len(none)) = 0
  BY <1>2, <1>3 DEF RunTable
<1>7. Listed(q)
  <2>1. Counted(q.durCounts, q.durDeltas, q.count) /\ Counted(q.cttsCounts, q.cttsOffsets, q.count)
    BY <1>1, <1>6, Zenon DEF Counted
  <2>2. Composed(q)
    BY <1>1, <1>4, <2>1 DEF Composed
  <2>3. Marked(q)
    BY <1>1, <1>2, <1>4 DEF Marked
  <2> QED BY <2>1, <2>2, <2>3 DEF Listed
<1>8. InChunks(q) = 0
  BY <1>1, <1>2 DEF InChunks
<1>9. Waits(t, q)
  BY <1>1, <1>2 DEF Waits
<1>10. Split(q, InChunks(q))
  BY <1>1, <1>2, <1>3, <1>8 DEF Split
<1>11. Placed(t, q, InChunks(q), media)
  BY <1>4, <1>8 DEF Placed
<1> QED BY <1>5, <1>7, <1>9, <1>10, <1>11 DEF Resting

(***************************************************************************)
(* What the muxer holds, state by state.                                   *)
(***************************************************************************)
(* A writer that takes the media, and of which a refused write of begin    *)
(* leaves nothing where a payload without a header is laid out by counting.*)
WritesTaken ==
    faults.media = 0 /\ (Seekable \/ faults.begin = 0 \/ Partial \subseteq {0})

(* Which calls lead where.                                                 *)
Path ==
    /\ pc = "idle" => call = NoCall
    /\ started \/ \A t \in DOMAIN tracks : tracks[t].count = 0
    /\ pc = "begin" => ~started
    /\ pc \in {"reserve", "flush"} => started
    /\ closed /\ pc = "flush" => call = NoCall /\ tracks # <<>>

(* The payload is what has been written since begin.                       *)
FileLaid ==
    /\ file \in Seq(Byte)
    /\ ~started => written = 0
    /\ ~started /\ ~Seekable => file = <<>> /\ payloadBase = 0
    /\ started => Len(file) = payloadBase + (IF Seekable THEN written ELSE 0)
    /\ ~Seekable => Len(buffered) = written

(* Of each track the samples in chunks are where its tables say.           *)
TracksLaid ==
    \A t \in DOMAIN tracks :
        IF open.track = t THEN Writing(t, tracks[t], open.sent, Payload)
        ELSE Resting(t, tracks[t], Payload)

(* In the file they are.                                                   *)
Done ==
    /\ moov = {Movie(payloadBase)}
    /\ \A t \in DOMAIN tracks :
         /\ Listed(tracks[t])
         /\ \A n \in 1..tracks[t].count :
              SampleBytes(SampleTables(tracks[t], payloadBase, NeedsWideOffsets(payloadBase)), file, n)
                = Data(t, n, tracks[t].sizes[n])

(* Calls lead where they do.                                               *)
LEMMA InitPath == Init => Path
BY DEF Init, Path

(* A step that takes no sample, on the way of a call.                      *)
LEMMA AcceptPath ==
    ASSUME IInv, Path, pc \in {"reserve", "flush"}, ~closed, Accept
    PROVE  Path'
<1>1. /\ UNCHANGED <<started, closed>> /\ pc' \in {"flush", "idle"} /\ call' = NoCall
      /\ started /\ ~closed
  BY DEF Accept, Path
<1> QED BY <1>1 DEF Path

(* And no step leads elsewhere.                                            *)
LEMMA NextPath == IInv /\ Path /\ [Next]_vars => Path'
<1> SUFFICES ASSUME IInv, Path, [Next]_vars PROVE Path'
  OBVIOUS
<1>0. /\ tracks \in Seq(TrackType) /\ \A t \in DOMAIN tracks : tracks[t] \in TrackType
      /\ pc \in {"begin", "reserve"} => ~closed
      /\ started \in BOOLEAN
  BY DEF IInv, TypeOK, Control
<1>1. CASE AddTrack
  <2> DEFINE k == NewTrack(Configs[Len(tracks) + 1])
  <2>1. k.count = 0
    BY DEF NewTrack
  <2>2. tracks' = Append(tracks, k) /\ pc = "idle" /\ UNCHANGED <<pc, call, closed, started>> /\ ~started
    BY <1>1 DEF AddTrack
  <2> HIDE DEF k
  <2>3. \A t \in DOMAIN tracks' : (t \in DOMAIN tracks /\ tracks'[t] = tracks[t]) \/ tracks'[t] = k
    BY <1>0, <2>2
  <2>4. \A t \in DOMAIN tracks' : tracks'[t].count = 0
    BY <2>1, <2>2, <2>3 DEF Path
  <2> QED BY <2>2, <2>4 DEF Path
<1>2. ASSUME NEW t \in 1..Len(Configs), NEW s \in Samples, WriteSample(t, s) PROVE Path'
  <2> DEFINE c == ClockSample(tracks[t].clock, s).clock
             k == [tracks[t] EXCEPT !.clock = c]
  <2>1. /\ tracks' = [tracks EXCEPT ![t] = k] /\ t \in DOMAIN tracks
        /\ UNCHANGED <<started, closed>> /\ ~closed
        /\ pc' = IF started THEN "reserve" ELSE "begin"
    BY <1>2 DEF WriteSample
  <2>3. k.count = tracks[t].count
    BY <1>0, <2>1 DEF TrackType
  <2> HIDE DEF k, c
  <2>4. \A u \in DOMAIN tracks' : u \in DOMAIN tracks /\ tracks'[u].count = tracks[u].count
    BY <1>0, <2>1, <2>3
  <2>5. started' \/ \A u \in DOMAIN tracks' : tracks'[u].count = 0
    BY <2>1, <2>4 DEF Path
  <2>6. pc' \in {"reserve", "begin"} /\ (pc' = "begin" => ~started') /\ (pc' = "reserve" => started')
    BY <1>0, <2>1
  <2> QED BY <2>1, <2>5, <2>6 DEF Path
<1>3. CASE Begin
  BY <1>0, <1>3 DEF Begin, Path
<1>4. ASSUME NEW k \in Partial, BeginFails(k) PROVE Path'
  BY <1>4 DEF BeginFails, Path
<1>5. CASE Reserve
  <2>1. CASE Fits(call.sample.len)
    BY <1>0, <1>5, <2>1, AcceptPath DEF Reserve
  <2>2. CASE ~Fits(call.sample.len)
    <3>1. UNCHANGED <<tracks, started, closed, call>> /\ pc = "reserve" /\ pc' = "flush" /\ ~closed
      BY <1>0, <1>5, <2>2 DEF Reserve
    <3> QED BY <3>1 DEF Path
  <2> QED BY <2>1, <2>2
<1>6. CASE StartChunk \/ WriteMedia
  <2>1. /\ started /\ pc = "flush" /\ UNCHANGED <<started, closed, pc, call>>
    BY <1>6 DEF StartChunk, WriteMedia, Path
  <2>2. tracks # <<>> => tracks' # <<>>
    BY <1>0, <1>6 DEF StartChunk, WriteMedia
  <2> QED BY <2>1, <2>2 DEF Path
<1>7. ASSUME NEW k \in Partial, WriteMediaFails(k) PROVE Path'
  BY <1>7 DEF WriteMediaFails, Path
<1>8. CASE FlushedForRoom
  <2>1. pc = "flush" /\ call # NoCall /\ ~closed
    BY <1>8 DEF FlushedForRoom, Flushed, Path
  <2>2. CASE Fits(call.sample.len)
    BY <1>8, <2>1, <2>2, AcceptPath DEF FlushedForRoom
  <2>3. CASE ~Fits(call.sample.len)
    <3>1. UNCHANGED <<tracks, started, closed>> /\ pc' = "idle" /\ call' = NoCall
      BY <1>8, <2>3 DEF FlushedForRoom
    <3> QED BY <3>1 DEF Path
  <2> QED BY <2>2, <2>3
<1>9. CASE FlushedSample
  <2>1. UNCHANGED <<tracks, started, closed, call>> /\ pc' = "idle" /\ call = NoCall
    BY <1>9 DEF FlushedSample
  <2> QED BY <2>1 DEF Path
<1>10. CASE Close
  <2>1. /\ UNCHANGED <<tracks, started, call>> /\ pc = "idle" /\ call = NoCall
        /\ pc' \in {"idle", "flush"}
        /\ pc' = "flush" => tracks # <<>> /\ \A t \in DOMAIN tracks : tracks[t].count # 0
    BY <1>10 DEF Close, Path
  <2>2. tracks # <<>> => 1 \in DOMAIN tracks
    BY <1>0
  <2>3. pc' = "flush" => started
    BY <2>1, <2>2 DEF Path
  <2> QED BY <2>1, <2>3 DEF Path
<1>11. CASE RefuseClosed \/ UNCHANGED vars
  <2>1. UNCHANGED <<tracks, started, closed, call, pc>>
    BY <1>11 DEF RefuseClosed, vars
  <2> QED BY <2>1 DEF Path
<1>12. CASE Finish \/ FinishFails
  <2>1. UNCHANGED <<tracks, started, closed, call>> /\ pc' = "idle" /\ call = NoCall
    BY <1>12 DEF Finish, FinishFails
  <2> QED BY <2>1 DEF Path
<1> QED
  BY <1>1, <1>2, <1>3, <1>4, <1>5, <1>6, <1>7, <1>8, <1>9, <1>10, <1>11, <1>12
  DEF Next, Step

(* A writer that takes what it is handed has taken it.                     *)
LEMMA TakenBefore ==
    ASSUME IInv, [Next]_vars, WritesTaken'
    PROVE  WritesTaken /\ faults'.media = 0
<1>1. faults \in [begin : Nat, media : Nat, refused : Nat]
  BY DEF IInv, TypeOK
<1>2. Seekable' = Seekable
  BY DEF Next, vars, Seekable
<1>3. /\ faults'.media = 0 => faults.media = 0
      /\ faults'.begin = 0 => faults.begin = 0
  <2>1. \/ faults' = faults
        \/ faults' = [faults EXCEPT !.begin = faults.begin + 1]
        \/ faults' = [faults EXCEPT !.media = faults.media + 1]
        \/ faults' = [faults EXCEPT !.refused = faults.refused + 1]
    BY DEF Next, Step, vars, AddTrack, WriteSample, Begin, BeginFails, Reserve, Accept,
           StartChunk, WriteMedia, WriteMediaFails, FlushedForRoom, FlushedSample, Close,
           RefuseClosed, Finish, FinishFails
  <2> QED BY <1>1, <2>1
<1> QED BY <1>2, <1>3 DEF WritesTaken

(* A part of a file up to its end grows with the file.                     *)
LEMMA BytesGrow ==
    ASSUME NEW S, NEW s \in Seq(S), NEW d \in Seq(S), NEW b \in Nat, b <= Len(s)
    PROVE  SubSeq(s \o d, b + 1, Len(s \o d)) = SubSeq(s, b + 1, Len(s)) \o d
<1> DEFINE n == Len(s)
           l == Len(d)
           r == s \o d
<1>1. n \in Nat /\ l \in Nat /\ r \in Seq(S) /\ Len(r) = n + l
  BY LenProperties, ConcatProperties
<1>2. SubSeq(r, n + 1, n + l) = d
  BY BytesLast
<1>3. SubSeq(r, b + 1, n) = SubSeq(s, b + 1, n)
  <2>1. n - b \in Nat /\ b + (n - b) = n /\ b + (n - b) <= n
    BY <1>1
  <2> DEFINE m == n - b
  <2>2. SubSeq(r, b + 1, b + m) = SubSeq(s, b + 1, b + m)
    <3> HIDE DEF m
    <3> QED BY <2>1, BytesStay DEF m
  <2> QED BY <2>1, <2>2
<1>4. /\ b + 1 \in 1..(Len(r) + 1) /\ n \in ((b + 1) - 1)..Len(r) /\ n + l \in n..Len(r)
  BY <1>1
<1> HIDE DEF n, l, r
<1>5. SubSeq(r, b + 1, n) \o SubSeq(r, n + 1, n + l) = SubSeq(r, b + 1, n + l)
  BY <1>1, <1>4, ConcatAdjacentSubSeq
<1>6. SubSeq(r, b + 1, Len(r)) = SubSeq(s, b + 1, n) \o d
  BY <1>1, <1>2, <1>3, <1>5
<1> QED BY <1>6 DEF n, r

(* What the writer holds of the media.                                     *)
LEMMA PayloadIs ==
    ASSUME IInv, FileLaid, started
    PROVE  /\ Payload \in Seq(Byte) /\ Len(Payload) = written
           /\ Seekable => payloadBase <= Len(file)
<1>1. /\ payloadBase \in Nat /\ written \in Nat /\ buffered \in Seq(MediaByte)
      /\ file \in Seq(Byte)
  BY DEF IInv, TypeOK, FileLaid
<1>2. CASE Seekable
  <2> DEFINE b == payloadBase
             n == Len(file)
             p == SubSeq(file, b + 1, n)
  <2>1. n = b + written
    BY <1>2 DEF FileLaid
  <2>2. /\ b + 1 \in Int /\ n \in Int /\ \A i \in (b + 1)..n : i \in 1..n
        /\ b <= n /\ (IF b + 1 <= n THEN n - (b + 1) + 1 ELSE 0) = written
    <3> HIDE DEF b, n
    <3> QED BY <1>1, <2>1 DEF b
  <2>3. \A i \in (b + 1)..n : file[i] \in Byte
    BY <1>1, <2>2, ElementOfSeq
  <2>4. p \in Seq(Byte)
    <3> HIDE DEF b, n
    <3> QED BY <2>2, <2>3, SubSeqProperties
  <2>5. Len(p) = IF b + 1 <= n THEN n - (b + 1) + 1 ELSE 0
    <3> HIDE DEF b, n
    <3> QED BY <2>2, <2>3, SubSeqProperties
  <2> QED BY <1>2, <2>2, <2>4, <2>5 DEF Payload
<1>3. CASE ~Seekable
  BY <1>1, <1>3, MediaAreBytes DEF Payload, FileLaid
<1> QED BY <1>2, <1>3

(* The tracks of a muxer, and that no step is about none of them.          *)
LEMMA TracksTyped ==
    ASSUME IInv
    PROVE  /\ tracks \in Seq(TrackType) /\ Len(tracks) \in Nat /\ DOMAIN tracks = 1..Len(tracks)
           /\ \A t \in DOMAIN tracks : /\ t \in Nat \ {0} /\ t \in Nat /\ tracks[t] \in TrackType
                                       /\ TablesAgree(tracks[t])
           /\ \A t \in DOMAIN tracks : NoCall.track # t /\ NoChunk.track # t
<1>1. tracks \in Seq(TrackType) /\ \A t \in DOMAIN tracks : TablesAgree(tracks[t])
  BY DEF IInv, TypeOK
<1>2. \A t \in DOMAIN tracks : t \in Nat \ {0} /\ tracks[t] \in TrackType
  BY <1>1
<1> QED BY <1>1, <1>2, LenProperties DEF NoCall, NoChunk

(* A track without samples rests wherever the media are.                   *)
LEMMA EmptyRests ==
    ASSUME NEW k \in TrackType, TablesAgree(k), k.count = 0, NEW t,
           NEW media, Resting(t, k, media), NEW other
    PROVE  Resting(t, k, other)
<1>1. InChunks(k) = 0
  <2>1. InChunks(k) \in 0..k.count /\ k.count \in Nat
    BY TrackNumbers
  <2> QED BY <2>1
<1>2. 1..0 = {}
  OBVIOUS
<1>3. Placed(t, k, InChunks(k), other)
  BY <1>1, <1>2, Zenon DEF Placed
<1> QED BY <1>3, Zenon DEF Resting

(* What each track means, as its tables have it.                           *)
Means == [t \in DOMAIN tracks |-> Meant(t, tracks[t])]

(* A step that touches neither the tracks nor the media.                   *)
LEMMA LaidFrame ==
    ASSUME FileLaid, TracksLaid,
           UNCHANGED <<setup, tracks, started, buffered, written, payloadBase, file, open>>
    PROVE  FileLaid' /\ TracksLaid'
<1>1. Seekable' = Seekable
  BY DEF Seekable
<1>2. Payload' = Payload
  BY <1>1 DEF Payload
<1>3. FileLaid'
  BY <1>1 DEF FileLaid
<1>4. TracksLaid'
  BY <1>2 DEF TracksLaid
<1> QED BY <1>3, <1>4

(* While no track changes, none means anything else.                       *)
LEMMA MeansFrame ==
    ASSUME UNCHANGED tracks
    PROVE  Means' = Means
BY DEF Means

(* One track in place of another that means the same.                      *)
LEMMA MeansReplaced ==
    ASSUME NEW t \in DOMAIN tracks, NEW k, tracks' = [tracks EXCEPT ![t] = k],
           tracks \in Seq(TrackType), NEW m, Meant(t, k) = m
    PROVE  Means' = [Means EXCEPT ![t] = m]
<1>1. DOMAIN tracks' = DOMAIN tracks /\ tracks'[t] = k
      /\ \A u \in DOMAIN tracks : u # t => tracks'[u] = tracks[u]
  OBVIOUS
<1>2. Means' = [u \in DOMAIN tracks |-> Meant(u, tracks'[u])]
  BY <1>1 DEF Means
<1>3. [Means EXCEPT ![t] = m] = [u \in DOMAIN tracks |-> IF u = t THEN m ELSE Meant(u, tracks[u])]
  BY DEF Means
<1>4. \A u \in DOMAIN tracks : Meant(u, tracks'[u]) = IF u = t THEN m ELSE Meant(u, tracks[u])
  BY <1>1
<1> QED BY <1>2, <1>3, <1>4, Zenon

(* A new track: nothing is placed yet.                                     *)
LEMMA AddTrackLaid ==
    ASSUME IInv, FileLaid, TracksLaid, AddTrack, setup' = setup
    PROVE  FileLaid' /\ TracksLaid' /\ Means' = Append(Means, <<>>)
<1> DEFINE cfg == Configs[Len(tracks) + 1]
           k == NewTrack(cfg)
           n == Len(tracks)
<1>1. tracks \in Seq(TrackType) /\ n \in Nat /\ DOMAIN tracks = 1..n
  BY TracksTyped
<1>2. cfg \in ConfigType
  <2>1. Configs \in Seq(ConfigType)
    BY ProgressiveAssumption DEF ConfigType
  <2>2. Len(tracks) + 1 \in 1..Len(Configs)
    BY <1>1, <2>1, LenProperties DEF AddTrack
  <2> QED BY <2>1, <2>2, ElementOfSeq
<1>3. k \in TrackType
  BY <1>2, NewTrackType
<1>4. /\ tracks' = Append(tracks, k)
      /\ UNCHANGED <<started, buffered, written, payloadBase, file, open>> /\ pc = "idle"
  BY DEF AddTrack, io
<1>5. Resting(n + 1, k, Payload) /\ Meant(n + 1, k) = <<>>
  BY <1>2, NewRests
<1> HIDE DEF k, cfg
<1>6. /\ DOMAIN tracks' = 1..(n + 1) /\ tracks'[n + 1] = k
      /\ \A t \in 1..n : tracks'[t] = tracks[t]
      /\ \A t \in 1..(n + 1) : t \in 1..n \/ t = n + 1
  <2>1. /\ Append(tracks, k) \in Seq(TrackType) /\ Len(Append(tracks, k)) = n + 1
        /\ \A t \in 1..Len(tracks) : Append(tracks, k)[t] = tracks[t]
        /\ Append(tracks, k)[n + 1] = k
    BY <1>1, <1>3, AppendProperties
  <2> QED BY <1>1, <1>4, <2>1, LenProperties
<1>7. Seekable' = Seekable
  BY DEF Seekable
<1>8. Payload' = Payload
  BY <1>4, <1>7 DEF Payload
<1>9. FileLaid'
  BY <1>4, <1>7 DEF FileLaid
<1>10. open = NoChunk /\ open' = NoChunk /\ NoChunk.track = 0
  BY <1>4 DEF IInv, Control, NoChunk
<1>11. TracksLaid'
  <2> SUFFICES ASSUME NEW t \in 1..(n + 1)
               PROVE  Resting(t, tracks'[t], Payload)
    <3>1. \A t \in 1..(n + 1) : open'.track # t
      BY <1>10
    <3> QED BY <1>6, <1>8, <3>1, Zenon DEF TracksLaid
  <2>1. CASE t \in 1..n
    <3>1. open.track # t
      BY <1>10, <2>1
    <3>2. Resting(t, tracks[t], Payload)
      BY <1>1, <2>1, <3>1, Zenon DEF TracksLaid
    <3> QED BY <1>6, <2>1, <3>2
  <2>2. CASE t = n + 1
    BY <1>5, <1>6, <2>2
  <2> QED BY <1>6, <2>1, <2>2
<1>12. Means' = Append(Means, <<>>)
  <2> DEFINE f == Means
             g == Means'
  <2>1. f = [t \in 1..n |-> Meant(t, tracks[t])] /\ g = [t \in 1..(n + 1) |-> Meant(t, tracks'[t])]
    BY <1>1, <1>6, Zenon DEF Means
  <2>2. /\ f = [t \in 1..n |-> f[t]] /\ g = [t \in 1..(n + 1) |-> g[t]]
        /\ \A t \in 1..n : f[t] = Meant(t, tracks[t])
        /\ \A t \in 1..(n + 1) : g[t] = Meant(t, tracks'[t])
    <3> HIDE DEF f, g
    <3> QED BY <2>1, Zenon
  <2>3. \A t \in 1..n : t \in 1..(n + 1)
    BY <1>1
  <2>4. n + 1 \in 1..(n + 1)
    BY <1>1
  <2>5. \A t \in 1..n : g[t] = f[t]
    <3> HIDE DEF f, g
    <3> QED BY <1>6, <2>2, <2>3, Zenon
  <2>6. g[n + 1] = <<>>
    <3> HIDE DEF f, g
    <3> QED BY <1>5, <1>6, <2>2, <2>4, Zenon
  <2> HIDE DEF f, g
  <2>7. Longer(n, f, g, <<>>)
    BY <2>2, <2>5, <2>6, Zenon DEF Longer
  <2>8. g = Append(f, <<>>)
    BY <1>1, <2>7, AppendMade
  <2> QED BY <2>8, Zenon DEF f, g
<1> QED BY <1>9, <1>11, <1>12

(* One track in place of another, the media as they were.                  *)
LEMMA ReplacedLaid ==
    ASSUME TracksLaid, tracks \in Seq(TrackType), NEW t \in DOMAIN tracks, NEW q,
           tracks' = [tracks EXCEPT ![t] = q], Payload' = Payload,
           \A u \in DOMAIN tracks : u # t => open.track # u /\ open'.track # u,
           IF open'.track = t THEN Writing(t, q, open'.sent, Payload)
           ELSE Resting(t, q, Payload)
    PROVE  TracksLaid'
<1>1. DOMAIN tracks' = DOMAIN tracks /\ tracks'[t] = q
      /\ \A u \in DOMAIN tracks : u # t => tracks'[u] = tracks[u]
  OBVIOUS
<1>2. ASSUME NEW u \in DOMAIN tracks
      PROVE  IF open'.track = u THEN Writing(u, tracks'[u], open'.sent, Payload)
             ELSE Resting(u, tracks'[u], Payload)
  <2>1. CASE u = t
    BY <1>1, <2>1
  <2>2. CASE u # t
    <3>1. open.track # u /\ open'.track # u /\ tracks'[u] = tracks[u]
      BY <1>1, <2>2
    <3>2. Resting(u, tracks[u], Payload)
      BY <3>1, Zenon DEF TracksLaid
    <3> QED BY <3>1, <3>2
  <2> QED BY <2>1, <2>2
<1> QED BY <1>1, <1>2, Zenon DEF TracksLaid

(* A track no chunk of which is being written.                             *)
LEMMA RestsNow ==
    ASSUME IInv, TracksLaid, open = NoChunk, NEW t \in DOMAIN tracks
    PROVE  Resting(t, tracks[t], Payload) /\ \A u \in DOMAIN tracks : open.track # u
<1>1. \A u \in DOMAIN tracks : open.track # u
  BY TracksTyped
<1>2. open.track # t
  BY <1>1
<1> QED BY <1>1, <1>2, Zenon DEF TracksLaid

(* WriteSample changes a clock.                                            *)
LEMMA WriteSampleLaid ==
    ASSUME IInv, FileLaid, TracksLaid, NEW t \in 1..Len(Configs), NEW s \in Samples,
           WriteSample(t, s), setup' = setup
    PROVE  FileLaid' /\ TracksLaid' /\ Means' = Means
<1> DEFINE c == ClockSample(tracks[t].clock, s)
           q == [tracks[t] EXCEPT !.clock = c.clock]
           k == tracks[t]
<1>1. /\ t \in DOMAIN tracks /\ tracks \in Seq(TrackType) /\ k \in TrackType
      /\ open = NoChunk
      /\ UNCHANGED <<started, buffered, written, payloadBase, file, open>>
      /\ tracks' = [tracks EXCEPT ![t] = q]
  BY TracksTyped DEF WriteSample, io, IInv, Control
<1>2. /\ SameTables(k, q)
      /\ q.chunkOffsets = k.chunkOffsets /\ q.chunkSamples = k.chunkSamples
      /\ q.pending = k.pending
  <2> HIDE DEF c
  <2> QED BY <1>1 DEF TrackType, SameTables
<1> HIDE DEF q, c
<1>3. Resting(t, k, Payload) /\ \A u \in DOMAIN tracks : open.track # u
  BY <1>1, RestsNow
<1> HIDE DEF k
<1>4. Resting(t, q, Payload)
  BY <1>2, <1>3, TablesRest
<1>5. Meant(t, q) = Meant(t, k)
  BY <1>2, MeantSame
<1>6. Seekable' = Seekable
  BY DEF Seekable
<1>7. Payload' = Payload
  BY <1>1, <1>6 DEF Payload
<1>8. FileLaid'
  BY <1>1, <1>6 DEF FileLaid
<1>9. TracksLaid'
  <2>1. \A u \in DOMAIN tracks : open'.track # u
    BY <1>1, <1>3
  <2> QED BY <1>1, <1>3, <1>4, <1>7, <2>1, ReplacedLaid
<1>10. Means' = Means
  <2>1. Means' = [Means EXCEPT ![t] = Meant(t, k)]
    BY <1>1, <1>5, MeansReplaced
  <2>2. [Means EXCEPT ![t] = Meant(t, k)] = Means
    BY <1>1 DEF Means, k
  <2> QED BY <2>1, <2>2
<1> QED BY <1>8, <1>9, <1>10

(* Before the first sample the tracks have none, wherever the media are.   *)
LEMMA NoneLaid ==
    ASSUME IInv, TracksLaid, \A t \in DOMAIN tracks : tracks[t].count = 0,
           open = NoChunk, UNCHANGED <<tracks, open>>
    PROVE  TracksLaid'
<1> SUFFICES ASSUME NEW t \in DOMAIN tracks
             PROVE  Resting(t, tracks[t], Payload')
  <2>1. \A t \in DOMAIN tracks : open'.track # t
    BY TracksTyped
  <2> QED BY <2>1 DEF TracksLaid
<1>1. Resting(t, tracks[t], Payload)
  BY RestsNow
<1>2. tracks[t] \in TrackType /\ TablesAgree(tracks[t]) /\ tracks[t].count = 0
  BY TracksTyped
<1> DEFINE k == tracks[t]
<1> HIDE DEF k
<1>3. ASSUME NEW other PROVE Resting(t, k, other)
  BY <1>1, <1>2, EmptyRests DEF k
<1> QED BY <1>3 DEF k

(* begin leaves the payload empty, behind what it wrote.                   *)
LEMMA BeginLaid ==
    ASSUME IInv, Path, FileLaid, TracksLaid, Begin, setup' = setup
    PROVE  FileLaid' /\ TracksLaid' /\ Means' = Means
<1>1. /\ ~started /\ open = NoChunk /\ started'
      /\ \A t \in DOMAIN tracks : tracks[t].count = 0
      /\ UNCHANGED <<tracks, open, written, buffered>>
  BY DEF Begin, Path, IInv, Control
<1>2. TracksLaid'
  BY <1>1, NoneLaid
<1>3. Seekable' = Seekable
  BY DEF Seekable
<1>4. /\ FtypLen \in Nat /\ MdatLargeHeaderLen \in Nat
      /\ Header("ftyp", FtypLen) \in Seq(Byte)
      /\ Header("mdat", MdatLargeHeaderLen) \in Seq(Byte)
      /\ Len(Header("ftyp", FtypLen)) = FtypLen
      /\ Len(Header("mdat", MdatLargeHeaderLen)) = MdatLargeHeaderLen
  <2>1. FtypLen \in Nat /\ MdatLargeHeaderLen \in Nat
    BY ProgressiveAssumption
  <2> QED BY <2>1, HeaderType
<1>5. file \in Seq(Byte) /\ written = 0 /\ Len(file) \in Nat
  BY <1>1, LenProperties DEF FileLaid
<1> DEFINE a == Header("ftyp", FtypLen)
           b == Header("mdat", MdatLargeHeaderLen)
<1>6. file' \in Seq(Byte) /\ Len(file') = payloadBase' + 0
  <2>1. CASE Seekable
    <3>1. file' = file \o a \o b /\ payloadBase' = Len(file) + FtypLen + MdatLargeHeaderLen
      BY <2>1 DEF Begin, BeginBase
    <3> HIDE DEF a, b
    <3>2. file \o a \in Seq(Byte) /\ Len(file \o a) = Len(file) + FtypLen
      BY <1>4, <1>5, ConcatProperties DEF a
    <3>3. /\ file \o a \o b \in Seq(Byte)
          /\ Len(file \o a \o b) = Len(file) + FtypLen + MdatLargeHeaderLen
      <4> DEFINE r == file \o a
      <4> HIDE DEF r
      <4>1. r \in Seq(Byte) /\ b \in Seq(Byte)
        BY <1>4, <3>2 DEF r, b
      <4>2. r \o b \in Seq(Byte) /\ Len(r \o b) = Len(r) + Len(b)
        BY <4>1, ConcatProperties
      <4> QED BY <1>4, <3>2, <4>2 DEF r, b
    <3> QED BY <1>4, <1>5, <3>1, <3>3
  <2>2. CASE ~Seekable
    <3>1. file' = file \o a /\ payloadBase' = payloadBase + FtypLen
      BY <2>2 DEF Begin, BeginBase
    <3>2. file = <<>> /\ payloadBase = 0 /\ Len(file) = 0
      BY <1>1, <2>2 DEF FileLaid
    <3> HIDE DEF a
    <3>3. file \o a \in Seq(Byte) /\ Len(file \o a) = Len(file) + FtypLen
      BY <1>4, <1>5, ConcatProperties DEF a
    <3> QED BY <1>4, <3>1, <3>2, <3>3
  <2> QED BY <2>1, <2>2
<1>7. FileLaid'
  <2>1. ~Seekable => Len(buffered) = written
    BY DEF FileLaid
  <2> QED BY <1>1, <1>3, <1>5, <1>6, <2>1 DEF FileLaid
<1> QED BY <1>1, <1>2, <1>7, MeansFrame

(* A refused write of begin leaves the tracks empty.                       *)
LEMMA BeginFailsLaid ==
    ASSUME IInv, IInv', Path, FileLaid, TracksLaid, NEW k \in Partial, BeginFails(k),
           setup' = setup, WritesTaken'
    PROVE  FileLaid' /\ TracksLaid' /\ Means' = Means
<1>1. /\ ~started /\ open = NoChunk /\ pc = "begin" /\ pc' = "idle" /\ ~closed
      /\ \A t \in DOMAIN tracks : tracks[t].count = 0
      /\ UNCHANGED <<tracks, open, written, buffered, started, closed>>
  BY DEF BeginFails, Path, IInv, Control
<1>2. TracksLaid'
  BY <1>1, NoneLaid
<1>3. Seekable' = Seekable
  BY DEF Seekable
<1>4. file' \in Seq(Byte)
  BY <1>1 DEF IInv
<1>5. ASSUME ~Seekable PROVE file' = <<>> /\ payloadBase' = 0
  <2>1. faults'.begin # 0
    <3>1. faults' = [faults EXCEPT !.begin = faults.begin + 1]
      BY DEF BeginFails
    <3>2. faults \in [begin : Nat, media : Nat, refused : Nat]
      BY DEF IInv, TypeOK
    <3> QED BY <3>1, <3>2
  <2>2. k = 0
    BY <1>3, <1>5, <2>1 DEF WritesTaken
  <2>3. file = <<>> /\ payloadBase = 0
    BY <1>1, <1>5 DEF FileLaid
  <2>4. file' = file \o Prefix(Header("ftyp", FtypLen), k) /\ payloadBase' = payloadBase
    BY <1>5 DEF BeginFails, BeginBase
  <2>5. Prefix(Header("ftyp", FtypLen), 0) = <<>>
    BY SubSeqEmpty DEF Prefix
  <2>6. file \o <<>> = <<>>
    BY <2>3
  <2> QED BY <2>2, <2>3, <2>4, <2>5, <2>6
<1>6. FileLaid'
  BY <1>1, <1>3, <1>4, <1>5 DEF FileLaid
<1> QED BY <1>1, <1>2, <1>6, MeansFrame

(* A sample taken waits behind the others of its track.                    *)
LEMMA AcceptLaid ==
    ASSUME IInv, FileLaid, TracksLaid, open = NoChunk, call.track \in DOMAIN tracks,
           Accept, setup' = setup,
           NEW e, e = [data |-> Data(call.track, tracks[call.track].count + 1, call.sample.len),
                       dur |-> call.sample.dur, offset |-> call.sample.offset,
                       sync |-> call.sample.sync]
    PROVE  /\ FileLaid' /\ TracksLaid'
           /\ Means' = [Means EXCEPT ![call.track] = Append(Means[call.track], e)]
<1> DEFINE t == call.track
           s == call.sample
           k == tracks[t]
           q == Taken(t, k, s)
<1>1. /\ t \in DOMAIN tracks /\ t \in Nat /\ tracks \in Seq(TrackType) /\ k \in TrackType
      /\ TablesAgree(k) /\ s \in SampleType
      /\ UNCHANGED <<started, buffered, written, payloadBase, file, open>>
      /\ tracks' = [tracks EXCEPT ![t] = q]
  BY TracksTyped DEF Accept, io, IInv, TypeOK
<1>2. Resting(t, k, Payload) /\ \A u \in DOMAIN tracks : open.track # u
  BY <1>1, RestsNow
<1>3. q = Taken(t, k, s) /\ Means[t] = Meant(t, k)
  BY <1>1 DEF Means
<1> HIDE DEF k, q, t, s
<1>4. Resting(t, q, Payload)
  BY <1>1, <1>2, <1>3, TakenRests
<1>5. Listed(k)
  BY <1>2 DEF Resting
<1>6. e = [data |-> Data(t, k.count + 1, s.len), dur |-> s.dur, offset |-> s.offset, sync |-> s.sync]
  BY DEF t, s, k
<1>7. Meant(t, q) = Append(Meant(t, k), e)
  BY <1>1, <1>3, <1>5, <1>6, TakenListed
<1>8. Seekable' = Seekable
  BY DEF Seekable
<1>9. Payload' = Payload
  BY <1>1, <1>8 DEF Payload
<1>10. FileLaid'
  BY <1>1, <1>8 DEF FileLaid
<1>11. TracksLaid'
  <2>1. \A u \in DOMAIN tracks : open'.track # u
    BY <1>1, <1>2
  <2> QED BY <1>1, <1>2, <1>4, <1>9, <2>1, ReplacedLaid
<1>12. Means' = [Means EXCEPT ![t] = Append(Means[t], e)]
  <2> DEFINE m == Append(Means[t], e)
  <2>1. Meant(t, q) = m
    BY <1>3, <1>7
  <2> HIDE DEF m
  <2>2. Means' = [Means EXCEPT ![t] = m]
    BY <1>1, <2>1, MeansReplaced
  <2> QED BY <2>2 DEF m
<1> QED BY <1>10, <1>11, <1>12 DEF t

(* A chunk begins where the payload ends.                                  *)
LEMMA StartChunkLaid ==
    ASSUME IInv, Path, FileLaid, TracksLaid, StartChunk, setup' = setup
    PROVE  FileLaid' /\ TracksLaid' /\ Means' = Means
<1>1. PICK t \in Waiting :
        /\ tracks' = [tracks EXCEPT ![t] = WithChunk(tracks[t], written)]
        /\ open' = [track |-> t, sent |-> 0]
  BY DEF StartChunk
<1> DEFINE k == tracks[t]
           q == WithChunk(k, written)
<1>2. /\ t \in DOMAIN tracks /\ t \in Nat /\ tracks \in Seq(TrackType) /\ k \in TrackType
      /\ TablesAgree(k) /\ k.pending # <<>>
      /\ open = NoChunk /\ started /\ written \in Nat
      /\ UNCHANGED <<started, buffered, written, payloadBase, file>>
  BY TracksTyped DEF Waiting, StartChunk, io, Path, IInv, TypeOK
<1>3. open'.track = t /\ open'.sent = 0 /\ tracks' = [tracks EXCEPT ![t] = q]
  BY <1>1
<1>4. Resting(t, k, Payload) /\ \A u \in DOMAIN tracks : open.track # u
  BY <1>2, RestsNow
<1>5. written = Len(Payload)
  BY <1>2, PayloadIs
<1>6. SameTables(k, q)
  BY <1>2 DEF SameTables, WithChunk, TrackType
<1>7. q = WithChunk(k, written) /\ Means[t] = Meant(t, k)
  BY <1>2 DEF Means
<1> HIDE DEF k, q
<1>8. Writing(t, q, 0, Payload)
  BY <1>2, <1>4, <1>5, <1>7, ChunkOpens
<1>9. Meant(t, q) = Meant(t, k)
  BY <1>6, MeantSame
<1>10. Seekable' = Seekable
  BY DEF Seekable
<1>11. Payload' = Payload
  BY <1>2, <1>10 DEF Payload
<1>12. FileLaid'
  BY <1>2, <1>10 DEF FileLaid
<1>13. TracksLaid'
  <2>1. \A u \in DOMAIN tracks : u # t => open'.track # u
    BY <1>3
  <2> QED BY <1>2, <1>3, <1>4, <1>8, <1>11, <2>1, ReplacedLaid
<1>14. Means' = Means
  <2> DEFINE m == Meant(t, k)
  <2>1. Meant(t, q) = m
    BY <1>9
  <2> HIDE DEF m
  <2>3. Means' = [Means EXCEPT ![t] = m]
    BY <1>2, <1>3, <2>1, MeansReplaced
  <2>2. [Means EXCEPT ![t] = Meant(t, k)] = Means
    BY <1>2 DEF Means, k
  <2> QED BY <2>2, <2>3 DEF m
<1> QED BY <1>12, <1>13, <1>14

(* The payload grows by the sample written.                                *)
LEMMA PayloadGrows ==
    ASSUME IInv, Path, FileLaid, WriteMedia, setup' = setup
    PROVE  FileLaid' /\ Payload' = Payload \o NextData
<1>1. /\ open # NoChunk /\ pc = "flush" /\ started
      /\ written' = written + Len(NextData)
      /\ UNCHANGED <<started, payloadBase>>
      /\ IF Seekable THEN file' = file \o NextData /\ buffered' = buffered
         ELSE file' = file /\ buffered' = buffered \o NextData
  BY DEF WriteMedia, Path
<1> DEFINE d == NextData
<1>2. d \in Seq(MediaByte) /\ d \in Seq(Byte) /\ Len(d) \in Nat
  BY <1>1, NextDataType, MediaAreBytes
<1>3. /\ file \in Seq(Byte) /\ buffered \in Seq(MediaByte) /\ payloadBase \in Nat
      /\ written \in Nat /\ Len(file) \in Nat /\ Len(buffered) \in Nat
  BY LenProperties DEF FileLaid, IInv, TypeOK
<1>4. Seekable' = Seekable
  BY DEF Seekable
<1>5. /\ Seekable => payloadBase <= Len(file)
      /\ started => Len(file) = payloadBase + (IF Seekable THEN written ELSE 0)
      /\ ~Seekable => Len(buffered) = written
  BY <1>1, PayloadIs DEF FileLaid
<1> HIDE DEF d
<1>6. CASE Seekable
  <2>1. file' = file \o d
    BY <1>1, <1>6 DEF d
  <2>2. file' \in Seq(Byte) /\ Len(file') = Len(file) + Len(d)
    BY <1>2, <1>3, <2>1, ConcatProperties
  <2>3. SubSeq(file', payloadBase + 1, Len(file')) = SubSeq(file, payloadBase + 1, Len(file)) \o d
    BY <1>2, <1>3, <1>5, <1>6, <2>1, BytesGrow
  <2>4. Payload' = Payload \o d
    BY <1>1, <1>4, <1>6, <2>3 DEF Payload
  <2>5. Len(file') = payloadBase' + written'
    <3>1. written' = written + Len(d) /\ payloadBase' = payloadBase
      BY <1>1 DEF d
    <3>2. Len(file) = payloadBase + written
      BY <1>1, <1>5, <1>6
    <3> QED BY <1>2, <1>3, <2>2, <3>1, <3>2
  <2>6. FileLaid'
    BY <1>1, <1>4, <1>6, <2>2, <2>5 DEF FileLaid
  <2> QED BY <2>4, <2>6 DEF d
<1>7. CASE ~Seekable
  <2>1. buffered' = buffered \o d /\ file' = file
    BY <1>1, <1>7 DEF d
  <2>2. Len(buffered') = Len(buffered) + Len(d)
    BY <1>2, <1>3, <2>1, ConcatProperties
  <2>3. Payload' = Payload \o d
    BY <1>4, <1>7, <2>1 DEF Payload
  <2>4. Len(buffered') = written'
    BY <1>1, <1>2, <1>3, <1>5, <1>7, <2>2 DEF d
  <2>5. Len(file') = payloadBase' + 0
    BY <1>1, <1>5, <1>7, <2>1
  <2>6. FileLaid'
    BY <1>1, <1>3, <1>4, <1>7, <2>1, <2>4, <2>5 DEF FileLaid
  <2> QED BY <2>3, <2>6 DEF d
<1> QED BY <1>6, <1>7

(* writeMedia puts the next sample where its chunk says, and leaves the    *)
(* samples of every other track where they were.                           *)
LEMMA WriteMediaLaid ==
    ASSUME IInv, Path, FileLaid, TracksLaid, WriteMedia, setup' = setup
    PROVE  FileLaid' /\ TracksLaid' /\ Means' = Means
<1> DEFINE t == open.track
           k == tracks[t]
           sent == open.sent
           d == k.pending[sent + 1]
           m == Payload
<1>1. /\ open # NoChunk /\ pc = "flush" /\ started
      /\ IF sent + 1 < Len(k.pending)
         THEN open' = [open EXCEPT !.sent = sent + 1] /\ tracks' = tracks
         ELSE open' = NoChunk /\ tracks' = [tracks EXCEPT ![t] = Emptied(k)]
  BY DEF WriteMedia, Path
<1>2. FileLaid' /\ Payload' = m \o d
  BY PayloadGrows DEF NextData
<1>3. m \in Seq(Byte) /\ t \in DOMAIN tracks /\ tracks \in Seq(TrackType)
  BY <1>1, PayloadIs, NextDataType, TracksTyped
<1>4. /\ k \in TrackType /\ TablesAgree(k) /\ sent \in Nat /\ d \in Seq(Byte) /\ t \in Nat
      /\ sent < Len(k.pending) /\ Len(k.pending) \in Nat
  <2>1. NextData \in Seq(Byte)
    BY <1>1, NextDataType, MediaAreBytes
  <2>2. sent < Len(k.pending)
    BY <1>1 DEF IInv, Control
  <2>3. Len(k.pending) \in Nat
    BY <1>3, TracksTyped, TrackNumbers
  <2> QED BY <1>1, <1>3, <2>1, <2>2, <2>3, NextDataType, TracksTyped DEF NextData
<1>5. Writing(t, k, sent, m)
  BY <1>3, Zenon DEF TracksLaid
<1>6. \A u \in DOMAIN tracks : u # t => Resting(u, tracks[u], m)
  BY <1>3, Zenon DEF TracksLaid
<1>7. \A u \in DOMAIN tracks : u # t => Resting(u, tracks[u], m \o d)
  <2> SUFFICES ASSUME NEW u \in DOMAIN tracks, u # t
               PROVE  Resting(u, tracks[u], m \o d)
    OBVIOUS
  <2> DEFINE v == tracks[u]
  <2>1. v \in TrackType /\ TablesAgree(v) /\ Resting(u, v, m)
    BY <1>6, TracksTyped
  <2> HIDE DEF v, m, d
  <2>2. Resting(u, v, m \o d)
    BY <1>3, <1>4, <2>1, RestsOn
  <2> QED BY <2>2 DEF v
<1>8. CASE sent + 1 < Len(k.pending)
  <2>1. tracks' = tracks /\ open' = [open EXCEPT !.sent = sent + 1]
    BY <1>1, <1>8
  <2>2. open'.track = t /\ open'.sent = sent + 1
    <3>1. open \in [track : 0..Len(tracks), sent : Nat]
      BY DEF IInv, TypeOK
    <3> QED BY <2>1, <3>1
  <2>3. Writing(t, k, sent + 1, m \o d)
    <3> DEFINE i == sent + 1
    <3> HIDE DEF m, k, t, sent
    <3> QED BY <1>3, <1>4, <1>5, WritesOn
  <2>4. Means' = Means
    BY <2>1, MeansFrame
  <2>5. TracksLaid'
    <3> HIDE DEF m, d
    <3> QED BY <1>2, <1>7, <2>1, <2>2, <2>3, Zenon DEF TracksLaid
  <2> QED BY <1>2, <2>4, <2>5
<1>9. CASE ~(sent + 1 < Len(k.pending))
  <2> DEFINE q == Emptied(k)
  <2>1. tracks' = [tracks EXCEPT ![t] = q] /\ open' = NoChunk
    BY <1>1, <1>9
  <2>2. SameTables(k, q)
    BY <1>4 DEF SameTables, Emptied, TrackType
  <2>3. sent + 1 = Len(k.pending)
    <3> DEFINE l == Len(k.pending)
    <3> HIDE DEF l, sent
    <3> QED BY <1>4, <1>9 DEF l
  <2>4. q = Emptied(k) /\ Means[t] = Meant(t, k)
    BY <1>3 DEF Means
  <2> HIDE DEF q
  <2>5. Resting(t, q, m \o d)
    <3> HIDE DEF m, k, t, sent
    <3> QED BY <1>3, <1>4, <1>5, <2>3, <2>4, ChunkEnds
  <2> HIDE DEF m, d, k
  <2>6. Meant(t, q) = Meant(t, k)
    BY <2>2, MeantSame
  <2>7. Means' = Means
    <3>1. Means' = [Means EXCEPT ![t] = Meant(t, k)]
      BY <1>3, <2>1, <2>6, MeansReplaced
    <3>2. [Means EXCEPT ![t] = Meant(t, k)] = Means
      BY <1>3 DEF Means, k
    <3> QED BY <3>1, <3>2
  <2>8. /\ DOMAIN tracks' = DOMAIN tracks /\ tracks'[t] = q
        /\ \A u \in DOMAIN tracks : u # t => tracks'[u] = tracks[u]
        /\ \A u \in DOMAIN tracks : open'.track # u
    BY <1>3, <2>1, TracksTyped
  <2>9. TracksLaid'
    <3>1. \A u \in DOMAIN tracks : Resting(u, tracks'[u], m \o d)
      BY <1>7, <2>5, <2>8
    <3> QED BY <1>2, <2>8, <3>1, Zenon DEF TracksLaid
  <2> QED BY <1>2, <2>7, <2>9
<1> QED BY <1>8, <1>9

(* Every sample in a chunk is where its chunk says.                        *)
LEMMA ChunkHolds ==
    ASSUME NEW k \in TrackType, TablesAgree(k), NEW t, NEW media, NEW sent,
           Resting(t, k, media) \/ (sent \in Nat /\ Writing(t, k, sent, media)),
           NEW n \in 1..InChunks(k)
    PROVE  \E c \in DOMAIN k.chunkOffsets : Within(k, c, n) /\ Lies(t, k, c, n, media)
<1> DEFINE m == InChunks(k)
           s == k.chunkSamples
<1>1. /\ m \in 0..k.count /\ k.count \in Nat /\ s \in Seq(Nat) /\ m \in Nat
      /\ DOMAIN k.chunkOffsets = DOMAIN s
  <2>1. /\ m \in 0..k.count /\ k.count \in Nat /\ s \in Seq(Nat)
        /\ DOMAIN k.chunkOffsets = DOMAIN s
    BY TrackNumbers
  <2> HIDE DEF m
  <2> QED BY <2>1
<1>2. /\ SumTo(s, Len(s)) \in {m, k.count}
      /\ \A c \in DOMAIN k.chunkOffsets : Within(k, c, n) => Lies(t, k, c, n, media)
  <2>1. CASE Resting(t, k, media)
    BY <2>1 DEF Resting, Split, Placed
  <2>2. CASE sent \in Nat /\ Writing(t, k, sent, media)
    <3>1. Placed(t, k, m + sent, media) /\ SumTo(s, Len(s)) = k.count
      BY <2>2 DEF Writing, Split, Reaches
    <3>2. n \in 1..(m + sent)
      <4> HIDE DEF m
      <4>1. n \in 1..m
        BY DEF m
      <4> QED BY <1>1, <2>2, <4>1
    <3> QED BY <3>1, <3>2 DEF Placed
  <2> QED BY <2>1, <2>2
<1>3. n \in 1..SumTo(s, Len(s))
  <2> DEFINE z == SumTo(s, Len(s))
  <2>1. n \in 1..m /\ z \in {m, k.count}
    BY <1>2
  <2> HIDE DEF m, z
  <2>2. n \in 1..z
    BY <1>1, <2>1
  <2> QED BY <2>2 DEF z
<1>4. PICK c \in DOMAIN s : SumTo(s, c - 1) < n /\ n <= SumTo(s, c)
  BY <1>1, <1>3, RunExists
<1>5. Within(k, c, n) /\ c \in DOMAIN k.chunkOffsets
  BY <1>1, <1>4 DEF Within
<1> QED BY <1>2, <1>5

(* So is what Close wrote before the moov: the payload, behind its header. *)
LEMMA MediaBehind ==
    ASSUME IInv, FileLaid, started, FinishMdat, NEW base, base = payloadBase'
    PROVE  /\ WithMedia \in Seq(Byte) /\ base \in Nat /\ Len(WithMedia) = base + written
           /\ SubSeq(WithMedia, base + 1, Len(WithMedia)) = Payload
<1>1. /\ payloadBase \in Nat /\ written \in Nat /\ buffered \in Seq(Byte)
      /\ file \in Seq(Byte) /\ Len(file) \in Nat /\ Len(buffered) \in Nat
  BY MediaAreBytes, LenProperties DEF IInv, TypeOK, FileLaid
<1>2. CASE Seekable
  <2>1. Len(file) = payloadBase + written /\ base = payloadBase
    BY <1>2 DEF FileLaid, FinishMdat
  <2>2. WithMedia = file
    <3>1. SubSeq(file, 1, Len(file)) = file
      BY <1>1, SubSeqFull
    <3> QED BY <1>2, <2>1, <3>1 DEF WithMedia, Prefix
  <2> QED BY <1>1, <1>2, <2>1, <2>2 DEF Payload
<1>3. CASE ~Seekable
  <2> DEFINE h == Header("mdat", MdatHeaderLen)
             r == file \o h
             b == buffered
  <2>1. h \in Seq(Byte) /\ Len(h) = MdatHeaderLen /\ MdatHeaderLen \in Nat
    <3>1. MdatHeaderLen \in Nat
      BY ProgressiveAssumption
    <3> QED BY <3>1, HeaderType
  <2>2. Len(file) = payloadBase /\ base = payloadBase + MdatHeaderLen /\ Len(b) = written
    BY <1>1, <1>3 DEF FileLaid, FinishMdat
  <2>3. WithMedia = r \o b /\ Payload = b
    BY <1>3 DEF WithMedia, Payload
  <2>4. r \in Seq(Byte) /\ Len(r) = base
    <3> HIDE DEF h
    <3>1. r \in Seq(Byte) /\ Len(r) = Len(file) + Len(h)
      BY <1>1, <2>1, ConcatProperties
    <3> HIDE DEF r
    <3> QED BY <1>1, <2>1, <2>2, <3>1
  <2>5. b \in Seq(Byte) /\ base \in Nat
    BY <1>1, <2>1, <2>2
  <2> HIDE DEF r, b
  <2>6. r \o b \in Seq(Byte) /\ Len(r \o b) = base + written
    BY <2>2, <2>4, <2>5, ConcatProperties
  <2>7. SubSeq(r \o b, base + 1, base + written) = b
    <3>1. SubSeq(r \o b, Len(r) + 1, Len(r) + Len(b)) = b
      BY <2>4, <2>5, BytesLast
    <3> QED BY <2>2, <2>4, <3>1
  <2> QED BY <2>3, <2>5, <2>6, <2>7
<1> QED BY <1>2, <1>3

(* Close finds every sample in a chunk, and its bytes in the file where    *)
(* the tables of the moov lead.                                            *)
LEMMA FinishLaid ==
    ASSUME IInv, IInv', Path, FileLaid, TracksLaid, Finish, setup' = setup
    PROVE  Done' /\ Means' = Means
<1>1. /\ pc = "flush" /\ open = NoChunk /\ closed /\ started /\ Waiting = {} /\ FinishMdat
      /\ file' = WithMedia \o <<"moov">> /\ moov' = {Movie(payloadBase')}
      /\ UNCHANGED tracks
  BY DEF Finish, Flushed, Path
<1> DEFINE media == Payload
           w == WithMedia
           tail == <<"moov">>
<1>2. PICK base : base = payloadBase'
  OBVIOUS
<1>3. /\ w \in Seq(Byte) /\ base \in Nat /\ Len(w) = base + written /\ written \in Nat
      /\ SubSeq(w, base + 1, Len(w)) = media
      /\ Len(media) = written
  BY <1>1, <1>2, MediaBehind, PayloadIs DEF IInv, TypeOK
<1>4. tail \in Seq(Byte)
  BY DEF Byte
<1>5. moov' = {Movie(base)}
  BY <1>1, <1>2
<1> DEFINE wide == NeedsWideOffsets(base)
<1>6. /\ Movie(payloadBase)' = Movie(base)
      /\ NeedsWideOffsets(payloadBase)' = NeedsWideOffsets(base)
  BY <1>1, <1>2 DEF Movie, NeedsWideOffsets
<1>7. ASSUME NEW t \in DOMAIN tracks
      PROVE  /\ Listed(tracks[t])
             /\ \A n \in 1..tracks[t].count :
                  SampleBytes(SampleTables(tracks[t], base, wide), file', n)
                    = Data(t, n, tracks[t].sizes[n])
  <2> DEFINE k == tracks[t]
  <2>1. k \in TrackType /\ TablesAgree(k) /\ Resting(t, k, media)
    BY <1>1, TracksTyped, RestsNow
  <2>2. k.pending = <<>>
    BY <1>1 DEF Waiting
  <2>3. \A d \in DOMAIN k.chunkOffsets :
          StatedOffset(k.chunkOffsets[d], base, wide) = base + k.chunkOffsets[d]
    <3>1. \A d \in DOMAIN tracks'[t].chunkOffsets :
            Movie(base).traks[t].stbl.offsets[d] = payloadBase' + tracks'[t].chunkOffsets[d]
      <4>1. OffsetsNeverWrap'
        BY DEF IInv
      <4>2. Movie(base) \in moov' /\ t \in DOMAIN tracks'
        BY <1>1, <1>5
      <4> QED BY <4>1, <4>2, Zenon DEF OffsetsNeverWrap
    <3>2. ASSUME NEW d \in DOMAIN k.chunkOffsets
          PROVE  Movie(base).traks[t].stbl.offsets[d] = StatedOffset(k.chunkOffsets[d], base, wide)
      BY DEF Movie, TrackBox, SampleTables
    <3> QED BY <1>1, <1>2, <3>1, <3>2
  <2> HIDE DEF k, wide, media, w, tail
  <2>4. InChunks(k) = k.count
    <3>1. k.count \in Nat /\ InChunks(k) = k.count - Len(k.pending)
      BY <2>1, TrackNumbers DEF InChunks
    <3>2. Len(k.pending) = 0
      BY <2>2
    <3> QED BY <3>1, <3>2
  <2>5. ASSUME NEW n \in 1..k.count
        PROVE  SampleBytes(SampleTables(k, base, wide), file', n) = Data(t, n, k.sizes[n])
    <3>1. PICK c \in DOMAIN k.chunkOffsets : Within(k, c, n) /\ Lies(t, k, c, n, media)
      BY <2>1, <2>4, ChunkHolds
    <3> DEFINE p == Place(k, c, n)
               l == k.sizes[n]
    <3>2. p \in Nat /\ p + l <= Len(media) /\ SubSeq(media, p + 1, p + l) = Data(t, n, l)
      BY <3>1, Zenon DEF Lies
    <3>3. l \in Nat
      BY <2>1, TrackNumbers
    <3>4. SampleBytes(SampleTables(k, base, wide), file', n) = SubSeq(file', base + p + 1, base + p + l)
      BY <1>3, <2>1, <2>3, <3>1, BytesRead
    <3> HIDE DEF p, l
    <3>5. SubSeq(w, base + p + 1, base + p + l) = Data(t, n, l)
      <4>1. base <= Len(w) /\ p + l <= Len(w) - base
        BY <1>3, <3>2, <3>3
      <4>2. SubSeq(SubSeq(w, base + 1, Len(w)), p + 1, p + l) = SubSeq(w, base + p + 1, base + p + l)
        BY <1>3, <3>2, <3>3, <4>1, BytesBehind
      <4> QED BY <1>3, <3>2, <4>2
    <3>6. SubSeq(w \o tail, base + p + 1, base + p + l) = SubSeq(w, base + p + 1, base + p + l)
      <4> DEFINE a == base + p
      <4>1. a \in Nat /\ a + l <= Len(w)
        BY <1>3, <3>2, <3>3
      <4> HIDE DEF a
      <4>2. SubSeq(w \o tail, a + 1, a + l) = SubSeq(w, a + 1, a + l)
        BY <1>3, <1>4, <3>3, <4>1, BytesStay
      <4> QED BY <4>2 DEF a
    <3>7. file' = w \o tail
      BY <1>1 DEF w, tail
    <3> QED BY <3>4, <3>5, <3>6, <3>7 DEF l
  <2>6. Listed(k)
    BY <2>1 DEF Resting
  <2> QED BY <2>5, <2>6 DEF k
<1>8. Done'
  <2> HIDE DEF wide
  <2> QED BY <1>1, <1>2, <1>5, <1>6, <1>7, Zenon DEF Done, wide
<1> QED BY <1>1, <1>8, MeansFrame

(* A complete file stays as it is.                                         *)
LEMMA DoneFrame ==
    ASSUME Done, UNCHANGED <<tracks, payloadBase, file, moov>>
    PROVE  Done' /\ Means' = Means
<1>1. /\ Movie(payloadBase)' = Movie(payloadBase)
      /\ NeedsWideOffsets(payloadBase)' = NeedsWideOffsets(payloadBase)
  BY DEF Movie, NeedsWideOffsets
<1>2. Done'
  BY <1>1, Zenon DEF Done
<1> QED BY <1>2, MeansFrame

(* What the samples of a track read as, if their bytes are found.          *)
LEMMA TablesMean ==
    ASSUME NEW t, NEW k \in TrackType, TablesAgree(k), Listed(k),
           NEW base, NEW wide, NEW box, box = SampleTables(k, base, wide),
           NEW bytes, \A n \in 1..k.count : bytes[n] = Data(t, n, k.sizes[n])
    PROVE  [n \in 1..Len(box.sizes) |->
               [data |-> bytes[n],
                dur |-> SampleDuration(box, n),
                offset |-> SampleCompositionOffset(box, n),
                sync |-> SampleIsSync(box, n)]] = Meant(t, k)
<1>1. /\ box.sizes = k.sizes /\ box.sttsCounts = k.durCounts /\ box.sttsDeltas = k.durDeltas
      /\ Len(k.sizes) = k.count /\ k.count \in Nat /\ k.syncs \in Seq(Nat)
  BY DEF SampleTables, TablesAgree, TrackType
<1>2. \A n \in 1..k.count : SampleDuration(box, n) = RunValue(k.durCounts, k.durDeltas, n)
  BY <1>1, Zenon DEF SampleDuration
<1>3. \A n \in 1..k.count :
        SampleCompositionOffset(box, n) = RunValue(k.cttsCounts, k.cttsOffsets, n)
  <2>1. Composed(k)
    BY DEF Listed
  <2> QED BY <2>1, CompositionReads
<1>4. \A n \in 1..k.count : SampleIsSync(box, n) = Sync(k, n)
  <2>1. Marked(k)
    BY DEF Listed
  <2> QED BY <1>1, <2>1, SyncReads
<1> QED BY <1>1, <1>2, <1>3, <1>4, Zenon DEF Meant

(* The bytes of every sample are found: in its chunk, or among those that  *)
(* wait.                                                                   *)
LEMMA BytesFound ==
    ASSUME IInv, moov = {}, TracksLaid, NEW t \in DOMAIN tracks,
           NEW n \in 1..tracks[t].count
    PROVE  BytesOf(t, SampleTables(tracks[t], 0, TRUE), Payload, n)
             = Data(t, n, tracks[t].sizes[n])
<1> DEFINE k == tracks[t]
           m == InChunks(k)
           media == Payload
           box == SampleTables(k, 0, TRUE)
<1>1. k \in TrackType /\ TablesAgree(k)
  BY TracksTyped
<1>2. \/ Resting(t, k, media)
      \/ open.sent \in Nat /\ Writing(t, k, open.sent, media)
  <2>1. open.sent \in Nat
    BY DEF IInv, TypeOK
  <2> QED BY <2>1, Zenon DEF TracksLaid
<1>3. /\ k.count \in Nat /\ m \in 0..k.count /\ m + Len(k.pending) = k.count
      /\ Len(k.pending) \in Nat /\ DOMAIN k.pending = 1..Len(k.pending)
      /\ \A i \in 1..k.count : k.sizes[i] \in Nat
  BY <1>1, TrackNumbers
<1>4. BytesOf(t, box, media, n) = IF n > m THEN k.pending[n - m] ELSE SampleBytes(box, media, n)
  BY DEF BytesOf
<1>5. n \in 1..k.count
  OBVIOUS
<1>6. Waits(t, k)
  BY <1>2 DEF Resting, Writing
<1> HIDE DEF k, media
<1>7. CASE n > m
  <2>1. n - m \in 1..Len(k.pending) /\ m + (n - m) = n
    <3> HIDE DEF m
    <3> QED BY <1>3, <1>5, <1>7
  <2>2. k.pending[n - m] = Data(t, m + (n - m), k.sizes[m + (n - m)])
    BY <1>3, <1>6, <2>1 DEF Waits
  <2>3. BytesOf(t, box, media, n) = Data(t, n, k.sizes[n])
    BY <1>4, <1>7, <2>1, <2>2
  <2> QED BY <2>3 DEF k, media
<1>8. CASE ~(n > m)
  <2>1. n \in 1..m
    <3> HIDE DEF m
    <3> QED BY <1>3, <1>5, <1>8
  <2>2. PICK c \in DOMAIN k.chunkOffsets : Within(k, c, n) /\ Lies(t, k, c, n, media)
    BY <1>1, <1>2, <2>1, ChunkHolds
  <2> DEFINE p == Place(k, c, n)
             l == k.sizes[n]
             zero == 0
             all == TRUE
  <2>3. p \in Nat /\ SubSeq(media, p + 1, p + l) = Data(t, n, l)
    BY <2>2, Zenon DEF Lies
  <2>4. zero \in Nat /\ zero = 0 /\ \A d \in DOMAIN k.chunkOffsets :
          StatedOffset(k.chunkOffsets[d], zero, all) = zero + k.chunkOffsets[d]
    BY DEF StatedOffset
  <2> HIDE DEF zero, all
  <2>5. SampleBytes(SampleTables(k, zero, all), media, n)
          = SubSeq(media, zero + p + 1, zero + p + l)
    BY <1>1, <1>5, <2>2, <2>4, BytesRead
  <2>6. l \in Nat
    BY <1>3, <1>5
  <2> HIDE DEF p, l
  <2>7. zero + p + 1 = p + 1 /\ zero + p + l = p + l
    BY <2>3, <2>4, <2>6
  <2>8. SampleBytes(box, media, n) = Data(t, n, l)
    BY <2>3, <2>4, <2>5, <2>7 DEF all
  <2>9. BytesOf(t, box, media, n) = Data(t, n, l)
    BY <1>4, <1>8, <2>8
  <2> QED BY <2>9 DEF k, media, l
<1> QED BY <1>7, <1>8

(* What is laid out.                                                       *)
Laid == IF moov = {} THEN FileLaid /\ TracksLaid ELSE Done

(* What a player reads is what the tables mean, at any time.               *)
LEMMA ContentIsMeant ==
    ASSUME IInv, Laid
    PROVE  Content = Means
<1> SUFFICES ASSUME NEW t \in DOMAIN tracks
             PROVE  ContentOf(t) = Meant(t, tracks[t])
  BY Zenon DEF Content, Means
<1> DEFINE k == tracks[t]
           media == IF moov = {} THEN Payload ELSE file
           bytes == [n \in 1..k.count |-> BytesOf(t, BoxOf(t), media, n)]
<1>1. k \in TrackType /\ TablesAgree(k) /\ Len(k.sizes) = k.count
  BY TracksTyped DEF TablesAgree
<1>2. PICK base, wide :
        /\ BoxOf(t) = SampleTables(k, base, wide) /\ Listed(k)
        /\ \A n \in 1..k.count : BytesOf(t, BoxOf(t), media, n) = Data(t, n, k.sizes[n])
  <2>1. CASE moov = {}
    <3>1. TracksLaid
      BY <2>1 DEF Laid
    <3>2. BoxOf(t) = SampleTables(k, 0, TRUE)
      BY <2>1 DEF BoxOf
    <3>3. \A n \in 1..k.count : BytesOf(t, BoxOf(t), media, n) = Data(t, n, k.sizes[n])
      BY <2>1, <3>1, <3>2, BytesFound
    <3>4. Listed(k)
      BY <3>1, Zenon DEF TracksLaid, Resting, Writing
    <3> QED BY <3>2, <3>3, <3>4
  <2>2. CASE moov # {}
    <3> DEFINE wide == NeedsWideOffsets(payloadBase)
    <3>1. Done
      BY <2>2 DEF Laid
    <3>2. BoxOf(t) = SampleTables(k, payloadBase, wide)
      <4>1. BoxOf(t) = (CHOOSE b \in moov : TRUE).traks[t].stbl
        BY <2>2 DEF BoxOf
      <4>2. moov = {Movie(payloadBase)}
        BY <3>1 DEF Done
      <4> DEFINE movie == Movie(payloadBase)
      <4>3. movie.traks[t].stbl = SampleTables(k, payloadBase, wide)
        BY DEF Movie, TrackBox
      <4> HIDE DEF movie, wide, k
      <4>4. (CHOOSE b \in moov : TRUE) = movie
        BY <4>2 DEF movie
      <4> QED BY <4>1, <4>3, <4>4, Zenon
    <3>3. \A n \in 1..k.count : BytesOf(t, BoxOf(t), media, n) = Data(t, n, k.sizes[n])
      <4>1. \A n \in 1..k.count : BytesOf(t, BoxOf(t), media, n) = SampleBytes(BoxOf(t), file, n)
        BY <2>2 DEF BytesOf
      <4>2. \A n \in 1..k.count :
              SampleBytes(SampleTables(k, payloadBase, wide), file, n) = Data(t, n, k.sizes[n])
        BY <3>1 DEF Done
      <4> QED BY <3>2, <4>1, <4>2
    <3>4. Listed(k)
      BY <3>1 DEF Done
    <3> QED BY <3>2, <3>3, <3>4
  <2> QED BY <2>1, <2>2
<1> DEFINE box == BoxOf(t)
<1>3. box = SampleTables(k, base, wide) /\ Len(box.sizes) = k.count
  BY <1>1, <1>2 DEF SampleTables
<1>4. ContentOf(t) =
        [n \in 1..Len(box.sizes) |->
           [data |-> BytesOf(t, box, media, n), dur |-> SampleDuration(box, n),
            offset |-> SampleCompositionOffset(box, n), sync |-> SampleIsSync(box, n)]]
  BY DEF ContentOf, Once
<1>5. \A n \in 1..k.count : bytes[n] = BytesOf(t, box, media, n)
  OBVIOUS
<1>6. \A n \in 1..k.count : bytes[n] = Data(t, n, k.sizes[n])
  BY <1>2, <1>5
<1> HIDE DEF k, box, bytes, media
<1>7. [n \in 1..Len(box.sizes) |->
         [data |-> bytes[n], dur |-> SampleDuration(box, n),
          offset |-> SampleCompositionOffset(box, n), sync |-> SampleIsSync(box, n)]] = Meant(t, k)
  BY <1>1, <1>2, <1>3, <1>6, TablesMean
<1>8. ContentOf(t) = Meant(t, k)
  BY <1>3, <1>4, <1>5, <1>7, Zenon
<1> QED BY <1>8 DEF k

(***************************************************************************)
(* Every step of the muxer is one of MovieFile, or none.                   *)
(***************************************************************************)
(* What a step promises, where reading gives back what the tables mean.    *)
Honoured ==
    Content = Means /\ Content' = Means'
        => [Promised!Next]_<<Content, Handed, moov # {}>>

(* A step of which a caller sees nothing.                                  *)
LEMMA HonouredSilently ==
    ASSUME Means' = Means, Handed' = Handed, moov' = moov
    PROVE  Honoured
BY DEF Honoured

(* The sample handed over is the same while its track takes none.          *)
LEMMA HandedFrame ==
    ASSUME call' = call,
           call = NoCall \/ tracks'[call.track].count = tracks[call.track].count
    PROVE  Handed' = Handed
BY DEF Handed

(* AddTrack, before the first sample.                                      *)
LEMMA AddTrackHonoured ==
    ASSUME IInv, Path, FileLaid, TracksLaid, moov = {}, AddTrack, setup' = setup
    PROVE  FileLaid' /\ TracksLaid' /\ moov' = {} /\ Honoured
<1>1. FileLaid' /\ TracksLaid' /\ Means' = Append(Means, <<>>)
  BY AddTrackLaid
<1>2. /\ pc = "idle" /\ ~started /\ moov' = moov /\ call = NoCall /\ call' = call
      /\ \A t \in DOMAIN tracks : tracks[t].count = 0
  BY DEF AddTrack, Path, io
<1>3. Handed = {} /\ Handed' = {}
  BY <1>2 DEF Handed
<1>4. \A t \in DOMAIN Means : Means[t] = <<>>
  <2> SUFFICES ASSUME NEW t \in DOMAIN tracks
               PROVE  Meant(t, tracks[t]) = <<>>
    BY DEF Means
  <2>1. tracks[t].count = 0 /\ 1..0 = {}
    BY <1>2
  <2> QED BY <2>1 DEF Meant
<1>5. Honoured
  <2> SUFFICES ASSUME Content = Means, Content' = Means'
               PROVE  Promised!AddTrack
    BY DEF Honoured, Promised!Next
  <2> QED BY <1>1, <1>2, <1>3, <1>4 DEF Promised!AddTrack
<1> QED BY <1>1, <1>2, <1>5

(* WriteSample hands a sample over.                                        *)
LEMMA WriteSampleHonoured ==
    ASSUME IInv, Path, FileLaid, TracksLaid, moov = {},
           NEW t \in 1..Len(Configs), NEW s \in Samples, WriteSample(t, s), setup' = setup
    PROVE  FileLaid' /\ TracksLaid' /\ moov' = {} /\ Honoured
<1>1. FileLaid' /\ TracksLaid' /\ Means' = Means
  BY WriteSampleLaid
<1>2. /\ pc = "idle" /\ moov' = moov /\ call = NoCall /\ t \in DOMAIN tracks /\ call'.track = t
      /\ t # 0
  BY TracksTyped DEF WriteSample, Path, io
<1>3. call' # NoCall
  BY <1>2 DEF NoCall
<1>4. PICK h : Handed' = {h} /\ h.track = t
  <2> DEFINE e == [data |-> Data(call'.track, tracks'[call'.track].count + 1, call'.sample.len),
                   dur |-> call'.sample.dur, offset |-> call'.sample.offset,
                   sync |-> call'.sample.sync]
             h == [track |-> call'.track, sample |-> e]
  <2>1. Handed' = {h}
    BY <1>3 DEF Handed
  <2> HIDE DEF e
  <2>2. h.track = t
    BY <1>2
  <2> QED BY <2>1, <2>2
<1>5. Handed = {} /\ t \in DOMAIN Means
  BY <1>2 DEF Handed, Means
<1>6. Honoured
  <2> SUFFICES ASSUME Content = Means, Content' = Means'
               PROVE  Promised!HandOver
    BY DEF Honoured, Promised!Next
  <2>1. Content' = Content /\ t \in DOMAIN Content
    BY <1>1, <1>5
  <2> QED BY <1>2, <1>4, <1>5, <2>1 DEF Promised!HandOver
<1> QED BY <1>1, <1>2, <1>6

(* A call that ends without having taken its sample.                       *)
LEMMA RefusalHonoured ==
    ASSUME Means' = Means, moov' = moov, call # NoCall, call' = NoCall
    PROVE  Honoured
<1>1. Handed # {} /\ Handed' = {}
  BY DEF Handed
<1> SUFFICES ASSUME Content = Means, Content' = Means'
             PROVE  Promised!Refuse
  BY DEF Honoured, Promised!Next
<1> QED BY <1>1 DEF Promised!Refuse

(* The sample handed over is taken.                                        *)
LEMMA AcceptHonoured ==
    ASSUME IInv, FileLaid, TracksLaid, moov = {}, open = NoChunk,
           call.track \in DOMAIN tracks, Accept, setup' = setup
    PROVE  FileLaid' /\ TracksLaid' /\ moov' = {} /\ Honoured
<1> DEFINE t == call.track
           e == [data |-> Data(call.track, tracks[call.track].count + 1, call.sample.len),
                 dur |-> call.sample.dur, offset |-> call.sample.offset,
                 sync |-> call.sample.sync]
           h == [track |-> t, sample |-> e]
<1>1. call # NoCall /\ call' = NoCall /\ moov' = moov
  <2>1. call.track # NoCall.track
    BY TracksTyped
  <2> QED BY <2>1 DEF Accept, io
<1>2. Handed = {h} /\ Handed' = {} /\ h.track = t /\ h.sample = e
  BY <1>1 DEF Handed
<1>3. e = [data |-> Data(call.track, tracks[call.track].count + 1, call.sample.len),
           dur |-> call.sample.dur, offset |-> call.sample.offset,
           sync |-> call.sample.sync]
  OBVIOUS
<1> HIDE DEF e, h
<1>4. FileLaid' /\ TracksLaid' /\ Means' = [Means EXCEPT ![t] = Append(Means[t], e)]
  BY <1>3, AcceptLaid
<1>5. Honoured
  <2> SUFFICES ASSUME Content = Means, Content' = Means'
               PROVE  Promised!Take
    BY DEF Honoured, Promised!Next
  <2>1. Content' = [Content EXCEPT ![h.track] = Append(Content[h.track], h.sample)]
    BY <1>2, <1>4, Zenon
  <2>2. h \in Handed
    BY <1>2
  <2> QED BY <1>1, <1>2, <2>1, <2>2 DEF Promised!Take
<1> QED BY <1>1, <1>4, <1>5

(* Close completes the file.                                               *)
LEMMA FinishHonoured ==
    ASSUME IInv, IInv', Path, EditInv, FileLaid, TracksLaid, moov = {}, Finish, setup' = setup
    PROVE  Done' /\ moov' # {} /\ Honoured
<1>1. Done' /\ Means' = Means
  BY FinishLaid
<1>2. /\ moov' # {} /\ closed /\ pc = "flush" /\ call = NoCall /\ call' = call
      /\ tracks # <<>> /\ \A t \in DOMAIN tracks : tracks[t].count > 0
  BY DEF Finish, Flushed, EditInv, Complete, Path
<1>3. Handed = {} /\ Handed' = {}
  BY <1>2 DEF Handed
<1>4. \A t \in DOMAIN Means : Means[t] # <<>>
  <2> SUFFICES ASSUME NEW t \in DOMAIN tracks
               PROVE  Meant(t, tracks[t]) # <<>>
    BY DEF Means
  <2>1. tracks[t].count \in Nat /\ tracks[t].count > 0
    BY <1>2, TracksTyped, TrackNumbers
  <2>2. 1 \in 1..tracks[t].count
    BY <2>1
  <2>3. 1 \in DOMAIN Meant(t, tracks[t]) /\ DOMAIN <<>> = {}
    BY <2>2 DEF Meant
  <2> QED BY <2>3
<1>5. Means # <<>>
  <2>1. tracks \in Seq(TrackType) /\ DOMAIN tracks = 1..Len(tracks) /\ Len(tracks) \in Nat
    BY TracksTyped
  <2>2. Len(tracks) > 0
    BY <1>2, <2>1, EmptySeq
  <2>3. 1 \in DOMAIN Means /\ DOMAIN <<>> = {}
    BY <2>1, <2>2 DEF Means
  <2> QED BY <2>3
<1>6. Honoured
  <2> SUFFICES ASSUME Content = Means, Content' = Means'
               PROVE  Promised!Finish
    BY DEF Honoured, Promised!Next
  <2>1. (moov' # {}) = TRUE
    BY <1>2
  <2> QED BY <1>1, <1>2, <1>3, <1>4, <1>5, <2>1 DEF Promised!Finish
<1> QED BY <1>1, <1>2, <1>6

(* A sample taken, or a call that goes on to flush.                        *)
LEMMA ReserveHonoured ==
    ASSUME IInv, Path, FileLaid, TracksLaid, moov = {}, Reserve, setup' = setup
    PROVE  FileLaid' /\ TracksLaid' /\ moov' = {} /\ Honoured
<1>1. pc = "reserve" /\ call.track \in DOMAIN tracks /\ open = NoChunk
  BY DEF Reserve, IInv, Control
<1>2. CASE Fits(call.sample.len)
  BY <1>1, <1>2, AcceptHonoured DEF Reserve
<1>3. CASE ~Fits(call.sample.len)
  <2>1. UNCHANGED <<tracks, started, buffered, written, payloadBase, file, moov, call, open>>
    BY <1>3 DEF Reserve, io
  <2>2. FileLaid' /\ TracksLaid' /\ Means' = Means /\ Handed' = Handed
    BY <2>1, LaidFrame, MeansFrame, HandedFrame
  <2> QED BY <2>1, <2>2, HonouredSilently
<1> QED BY <1>2, <1>3

(* flush has made room for the sample, or there is none for it.            *)
LEMMA FlushedForRoomHonoured ==
    ASSUME IInv, Path, FileLaid, TracksLaid, moov = {}, FlushedForRoom, setup' = setup
    PROVE  FileLaid' /\ TracksLaid' /\ moov' = {} /\ Honoured
<1>1. call # NoCall /\ call.track \in DOMAIN tracks /\ open = NoChunk
  BY DEF FlushedForRoom, Flushed, IInv, Control
<1>2. CASE Fits(call.sample.len)
  BY <1>1, <1>2, AcceptHonoured DEF FlushedForRoom
<1>3. CASE ~Fits(call.sample.len)
  <2>1. /\ UNCHANGED <<tracks, started, buffered, written, payloadBase, file, moov, open>>
        /\ call' = NoCall
    BY <1>3 DEF FlushedForRoom, io
  <2>2. FileLaid' /\ TracksLaid' /\ Means' = Means
    BY <2>1, LaidFrame, MeansFrame
  <2> QED BY <1>1, <2>1, <2>2, RefusalHonoured
<1> QED BY <1>2, <1>3

(* Steps that leave the samples handed over and taken alone.               *)
LEMMA FlushHonoured ==
    ASSUME IInv, Path, FileLaid, TracksLaid, moov = {}, setup' = setup,
           Begin \/ StartChunk \/ WriteMedia
    PROVE  FileLaid' /\ TracksLaid' /\ moov' = {} /\ Honoured
<1>1. FileLaid' /\ TracksLaid' /\ Means' = Means
  BY BeginLaid, StartChunkLaid, WriteMediaLaid
<1>2. moov' = moov /\ call' = call
  BY DEF Begin, StartChunk, WriteMedia, io
<1>3. call = NoCall \/ tracks'[call.track].count = tracks[call.track].count
  <2> SUFFICES ASSUME call # NoCall
               PROVE  tracks'[call.track].count = tracks[call.track].count
    OBVIOUS
  <2>0. /\ call.track \in DOMAIN tracks /\ tracks \in Seq(TrackType)
        /\ \A t \in DOMAIN tracks : tracks[t] \in TrackType
    BY TracksTyped DEF IInv, Control
  <2>1. CASE Begin
    BY <2>1 DEF Begin
  <2>2. CASE StartChunk
    <3>1. PICK t \in DOMAIN tracks : tracks' = [tracks EXCEPT ![t] = WithChunk(tracks[t], written)]
      BY <2>2 DEF StartChunk, Waiting
    <3>2. WithChunk(tracks[t], written).count = tracks[t].count
      BY <2>0 DEF WithChunk, TrackType
    <3> QED BY <2>0, <3>1, <3>2
  <2>3. CASE WriteMedia
    <3>1. CASE tracks' = tracks
      BY <3>1
    <3>2. CASE tracks' # tracks
      <4>1. tracks' = [tracks EXCEPT ![open.track] = Emptied(tracks[open.track])]
        BY <2>3, <3>2 DEF WriteMedia
      <4>2. open.track \in DOMAIN tracks
        BY <2>3 DEF IInv, Control, WriteMedia
      <4>3. Emptied(tracks[open.track]).count = tracks[open.track].count
        BY <2>0, <4>2 DEF Emptied, TrackType
      <4> QED BY <2>0, <4>1, <4>2, <4>3
    <3> QED BY <3>1, <3>2
  <2> QED BY <2>1, <2>2, <2>3
<1> QED BY <1>1, <1>2, <1>3, HandedFrame, HonouredSilently

(* Every step keeps what is laid out, and honours what is promised.        *)
LEMMA NextHonoured ==
    ASSUME IInv, IInv', Path, EditInv, Laid, WritesTaken', [Next]_vars
    PROVE  Laid' /\ Honoured
<1>0. faults'.media = 0
  BY DEF WritesTaken
<1>1. CASE moov # {}
  <2>1. pc = "idle" /\ closed /\ Done
    BY <1>1 DEF IInv, Control, Laid
  <2>2. UNCHANGED <<tracks, payloadBase, file, moov, call>>
    BY <2>1
    DEF Next, Step, vars, io, AddTrack, WriteSample, Begin, BeginFails, Reserve, StartChunk,
        WriteMedia, WriteMediaFails, FlushedForRoom, FlushedSample, Flushed, Close,
        RefuseClosed, Finish, FinishFails
  <2>3. Done' /\ Means' = Means /\ Handed' = Handed
    BY <2>1, <2>2, DoneFrame, HandedFrame
  <2> QED BY <1>1, <2>2, <2>3, HonouredSilently DEF Laid
<1>2. CASE moov = {} /\ Finish /\ setup' = setup
  <2>1. Done' /\ moov' # {} /\ Honoured
    BY <1>2, FinishHonoured DEF Laid
  <2> QED BY <2>1 DEF Laid
<1>3. CASE moov = {} /\ ~Finish
  <2>0. FileLaid /\ TracksLaid /\ moov = {}
    BY <1>3 DEF Laid
  <2>1. ASSUME UNCHANGED <<setup, tracks, started, buffered, written, payloadBase, file, moov, call, open>>
        PROVE  FileLaid' /\ TracksLaid' /\ moov' = {} /\ Honoured
    <3>1. FileLaid' /\ TracksLaid' /\ Means' = Means /\ Handed' = Handed
      BY <2>0, <2>1, LaidFrame, MeansFrame, HandedFrame
    <3> QED BY <2>0, <2>1, <3>1, HonouredSilently
  <2>2. CASE UNCHANGED vars
    BY <2>1, <2>2 DEF vars, io, Laid
  <2>3. ASSUME NEW k \in Partial, BeginFails(k), setup' = setup
        PROVE  FileLaid' /\ TracksLaid' /\ moov' = {} /\ Honoured
    <3>1. FileLaid' /\ TracksLaid' /\ Means' = Means
      BY <2>0, <2>3, BeginFailsLaid
    <3>2. moov' = moov /\ call' = NoCall /\ call.track \in DOMAIN tracks
      BY <2>3 DEF BeginFails, IInv, Control
    <3>3. call # NoCall
      BY <3>2, TracksTyped
    <3> QED BY <2>0, <3>1, <3>2, <3>3, RefusalHonoured
  <2>4. \A k \in Partial : ~WriteMediaFails(k)
    <3> SUFFICES ASSUME NEW k \in Partial, WriteMediaFails(k) PROVE FALSE
      OBVIOUS
    <3>1. faults' = [faults EXCEPT !.media = faults.media + 1]
      BY DEF WriteMediaFails
    <3>2. faults \in [begin : Nat, media : Nat, refused : Nat]
      BY DEF IInv, TypeOK
    <3> QED BY <1>0, <3>1, <3>2
  <2>5. ~FinishFails
    <3> SUFFICES ASSUME FinishFails PROVE FALSE
      OBVIOUS
    <3>1. faults' = [faults EXCEPT !.media = faults.media + 1]
      BY DEF FinishFails
    <3>2. faults \in [begin : Nat, media : Nat, refused : Nat]
      BY DEF IInv, TypeOK
    <3> QED BY <1>0, <3>1, <3>2
  <2>6. CASE setup' = setup /\ AddTrack
    BY <2>0, <2>6, AddTrackHonoured DEF Laid
  <2>7. ASSUME NEW t \in 1..Len(Configs), NEW s \in Samples, WriteSample(t, s), setup' = setup
        PROVE  FileLaid' /\ TracksLaid' /\ moov' = {} /\ Honoured
    BY <2>0, <2>7, WriteSampleHonoured
  <2>8. CASE setup' = setup /\ (Begin \/ StartChunk \/ WriteMedia)
    BY <2>0, <2>8, FlushHonoured DEF Laid
  <2>9. CASE setup' = setup /\ Reserve
    BY <2>0, <2>9, ReserveHonoured DEF Laid
  <2>10. CASE setup' = setup /\ FlushedForRoom
    BY <2>0, <2>10, FlushedForRoomHonoured DEF Laid
  <2>11. CASE setup' = setup /\ (FlushedSample \/ Close \/ RefuseClosed)
    <3>1. UNCHANGED <<tracks, started, buffered, written, payloadBase, file, moov, call, open>>
      BY <2>11 DEF FlushedSample, Close, RefuseClosed, io
    <3> QED BY <2>1, <2>11, <3>1 DEF Laid
  <2>12. CASE Next
    <3>1. setup' = setup /\ Step
      BY <2>12 DEF Next
    <3>2. \/ AddTrack \/ Begin \/ Reserve \/ StartChunk \/ WriteMedia \/ FlushedForRoom
          \/ FlushedSample \/ Close \/ RefuseClosed
          \/ \E t \in 1..Len(Configs), s \in Samples : WriteSample(t, s)
          \/ \E k \in Partial : BeginFails(k)
      BY <1>3, <2>4, <2>5, <3>1 DEF Step
    <3>3. ASSUME NEW t \in 1..Len(Configs), NEW s \in Samples, WriteSample(t, s)
          PROVE  Laid' /\ Honoured
      BY <2>7, <3>1, <3>3 DEF Laid
    <3>4. ASSUME NEW k \in Partial, BeginFails(k)
          PROVE  Laid' /\ Honoured
      BY <2>3, <3>1, <3>4 DEF Laid
    <3> QED BY <2>6, <2>8, <2>9, <2>10, <2>11, <3>1, <3>2, <3>3, <3>4
  <2> QED BY <2>2, <2>12 DEF Laid
<1>4. moov = {} /\ Finish => setup' = setup
  BY DEF Next, vars, Finish
<1> QED BY <1>1, <1>2, <1>3, <1>4

(* The muxer starts with nothing to lay out.                               *)
LEMMA InitLaid == Init => Laid
<1> SUFFICES ASSUME Init PROVE Laid
  OBVIOUS
<1>1. /\ tracks = <<>> /\ started = FALSE /\ buffered = <<>> /\ written = 0 /\ payloadBase = 0
      /\ file = Header("other", setup.start) /\ moov = {} /\ setup \in Setups
  BY DEF Init
<1>2. setup.start \in Nat /\ (~Seekable => setup.start = 0)
  BY <1>1, ProgressiveAssumption DEF Seekable
<1>3. file \in Seq(Byte) /\ Len(file) = setup.start
  BY <1>1, <1>2, HeaderType
<1>4. ~Seekable => file = <<>>
  BY <1>2, <1>3, EmptySeq
<1>5. FileLaid
  BY <1>1, <1>3, <1>4 DEF FileLaid
<1>6. TracksLaid
  <2>1. DOMAIN tracks = {}
    BY <1>1
  <2> QED BY <2>1 DEF TracksLaid
<1> QED BY <1>1, <1>5, <1>6 DEF Laid

(* In a complete file the tables lead to the bytes.                        *)
LEMMA LaidTables == IInv /\ Laid => TablesAddressSamples
<1> SUFFICES ASSUME IInv, Laid, NEW box \in moov, NEW t \in DOMAIN tracks,
                    NEW n \in DOMAIN tracks[t].sizes
             PROVE  SampleBytes(box.traks[t].stbl, file, n) = Data(t, n, tracks[t].sizes[n])
  BY DEF TablesAddressSamples
<1> DEFINE k == tracks[t]
           wide == NeedsWideOffsets(payloadBase)
<1>1. Done
  BY DEF Laid
<1>2. box.traks[t].stbl = SampleTables(k, payloadBase, wide)
  <2>1. box = Movie(payloadBase)
    BY <1>1 DEF Done
  <2>2. Movie(payloadBase).traks[t].stbl = SampleTables(k, payloadBase, wide)
    BY DEF Movie, TrackBox
  <2> QED BY <2>1, <2>2
<1>3. n \in 1..k.count
  BY TracksTyped, TrackNumbers
<1>4. SampleBytes(SampleTables(k, payloadBase, wide), file, n) = Data(t, n, k.sizes[n])
  BY <1>1, <1>3, Zenon DEF Done
<1> QED BY <1>2, <1>4

(* Whatever a player reads is what the tables mean.                        *)
ReadsAsMeant == Content = Means

(* What holds in every state of a muxer whose writer takes the media.      *)
LaidInv == IInv /\ EditInv /\ Path /\ Laid

(* It holds from the start, and every step keeps it.                       *)
LEMMA InitLaidInv == Init => LaidInv
<1>1. Init => EditInv
  BY DEF Init, EditInv, Stated, Complete, EditReachesLastFrame
<1> QED BY <1>1, InitInv, InitPath, InitLaid DEF LaidInv

(* Every step to a writer that takes the media keeps it, and is honoured.  *)
LEMMA NextLaidInv == LaidInv /\ WritesTaken' /\ [Next]_vars => LaidInv' /\ Honoured
<1> SUFFICES ASSUME LaidInv, WritesTaken', [Next]_vars PROVE LaidInv' /\ Honoured
  OBVIOUS
<1>1. IInv /\ EditInv /\ Path /\ Laid
  BY DEF LaidInv
<1>2. IInv' /\ EditInv' /\ Path'
  BY <1>1, NextInv, NextEditInv, NextPath
<1>3. Laid' /\ Honoured
  BY <1>1, <1>2, NextHonoured
<1> QED BY <1>2, <1>3 DEF LaidInv

(* To a writer that takes the media, every entry of every table of a       *)
(* finished file leads to the bytes of the sample it stands for, however   *)
(* many chunks the calls to flush made and in whatever order they were     *)
(* written: progressive.go's "one mdat holding every sample, then a moov   *)
(* whose sample tables address them".                                      *)
THEOREM ProgressiveTables == Spec /\ []WritesTaken => []TablesAddressSamples
<1>1. LaidInv => TablesAddressSamples
  BY LaidTables DEF LaidInv
<1>2. LaidInv /\ WritesTaken' /\ [Next]_vars => LaidInv'
  BY NextLaidInv
<1> QED BY <1>1, <1>2, InitLaidInv, PTL DEF Spec

(* To such a writer the muxer implements MovieFile: whatever is flushed,   *)
(* patched, refused or retried on the way, each track reads as the samples *)
(* accepted for it, in order, with the bytes, durations, offsets and sync  *)
(* flags handed over, and a call that fails leaves none behind.            *)
THEOREM ProgressiveImplements == Spec /\ []WritesTaken => ImplementsMovieFile
<1>1. LaidInv => ReadsAsMeant
  BY ContentIsMeant DEF LaidInv, ReadsAsMeant
<1>2. LaidInv /\ WritesTaken' /\ [Next]_vars => LaidInv'
  BY NextLaidInv
<1>3. (LaidInv /\ WritesTaken' /\ [Next]_vars /\ ReadsAsMeant /\ ReadsAsMeant')
        => [Promised!Next]_<<Content, Handed, moov # {}>>
  <2> SUFFICES ASSUME LaidInv, WritesTaken', [Next]_vars, ReadsAsMeant, ReadsAsMeant'
               PROVE  [Promised!Next]_<<Content, Handed, moov # {}>>
    OBVIOUS
  <2>1. Honoured
    BY NextLaidInv
  <2>2. Content = Means
    BY DEF ReadsAsMeant
  <2>3. Content' = Means'
    BY DEF ReadsAsMeant
  <2>4. (Content = Means /\ Content' = Means') => [Promised!Next]_<<Content, Handed, moov # {}>>
    BY <2>1, Zenon DEF Honoured
  <2> QED BY <2>2, <2>3, <2>4
<1>4. Init => Promised!Init
  <2> SUFFICES ASSUME Init PROVE Promised!Init
    OBVIOUS
  <2>1. DOMAIN tracks = {} /\ call = NoCall /\ moov = {}
    BY DEF Init
  <2>2. Content = <<>>
    BY <2>1 DEF Content
  <2>3. Handed = {} /\ (moov # {}) = FALSE
    BY <2>1 DEF Handed
  <2> QED BY <2>2, <2>3 DEF Promised!Init
<1> QED BY <1>1, <1>2, <1>3, <1>4, InitLaidInv, PTL DEF Spec, ImplementsMovieFile, Promised!Spec
=============================================================================
