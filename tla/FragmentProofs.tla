--------------------------- MODULE FragmentProofs ---------------------------
(***************************************************************************)
(* What holds of FragmentMuxer for every configuration, set of samples,    *)
(* writer, limit and number of refused writes.                             *)
(***************************************************************************)
EXTENDS FragmentFile, SumLemmas

(***************************************************************************)
(* Types.                                                                  *)
(***************************************************************************)
ConfigType == [timescale : Nat \ {0}, rate : Nat, delay : Nat]
ClockType == [from : Nat \ {0}, to : Nat \ {0}, in : Nat, out : Nat]
SampleType == [len : Nat \ {0}, dur : Nat, offset : Int, sync : BOOLEAN]
PendingType == [len : Nat \ {0}, dur : Nat, offset : Int, sync : BOOLEAN, time : Nat]
TrackType == [id : Nat, timescale : Nat \ {0}, clock : ClockType, priming : Nat,
              nextTime : Nat, pending : Seq(PendingType), buffered : Nat,
              firstOffset : Int, written : BOOLEAN]
TrakType == [described : BOOLEAN, edts : SUBSET Int]
CallType == [op : {"none", "write", "flush", "close"}, track : Nat,
             sample : [len : Nat, dur : Nat, offset : Int, sync : BOOLEAN]]

RunType == [id : Nat, base : Nat, samples : Seq(SampleType)]
FragmentBox == [box : {"fragment"}, size : Nat \ {0}, seq : Nat \ {0}, runs : Seq(RunType)]
HeaderBox == [box : {"init"}, size : Nat \ {0}, traks : Seq(TrakType)]
TornBox == [box : {"torn"}, size : {1}]
Box == FragmentBox \cup HeaderBox \cup TornBox

SpanType == [present : BOOLEAN, earliest : Int, end : Int, sap : BOOLEAN, sapType : {0, 1}]
NotedType == [size : Nat \ {0}, spans : Seq(SpanType)]

TypeOK ==
    /\ setup \in [indexed : BOOLEAN, readable : BOOLEAN]
    /\ traks \in Seq(TrakType)
    /\ tracks \in Seq(TrackType)
    /\ {started, headerOut, closed, complete} \subseteq BOOLEAN
    /\ sequence \in Nat
    /\ index \in [start : Nat, held : Seq(FragmentBox), fragments : Seq(NotedType)]
    /\ complete \/ file \in Seq(Box)
    /\ pc \in {"idle", "take", "header", "fragment", "closing", "index"}
    /\ call \in CallType
    /\ faults \in [header : Nat, seek : Nat, media : Nat]

(* Where a call is, what that says of the state.                           *)
Control ==
    /\ pc = "idle" <=> call.op = "none"
    /\ pc \in {"take", "header", "fragment"} => ~closed
    /\ pc = "take" => call.op = "write"
    /\ call.op = "write" =>
         started /\ call.track \in DOMAIN tracks /\ call.sample \in SampleType
    /\ pc = "header" => ~headerOut /\ (Buffering \/ call.op = "close")
    /\ pc = "fragment" => headerOut /\ Buffering
    /\ pc \in {"closing", "index"} => call.op = "close" /\ ~Buffering
    /\ pc = "index" => closed /\ Indexed
    /\ complete => closed /\ pc = "idle"

(* What is written when.                                                   *)
Progress ==
    /\ ~headerOut => sequence = 0 /\ index = [start |-> 0, held |-> <<>>, fragments |-> <<>>]
    /\ ~Indexed => index.fragments = <<>>
    /\ Readable \/ ~Indexed => index.held = <<>>
    /\ ~started => sequence = 0 /\ \A t \in DOMAIN tracks :
                     tracks[t].pending = <<>> /\ tracks[t].nextTime = 0

(* Tracks are told apart by their identifiers.                             *)
TracksApart ==
    /\ \A t \in DOMAIN tracks : tracks[t].id \in 1..Len(traks)
    /\ \A t, u \in DOMAIN tracks : tracks[t].id = tracks[u].id => t = u

(* A clock has counted what it has converted.                              *)
ClocksAgree ==
    \A t \in DOMAIN tracks :
      LET c == tracks[t].clock IN c.out = ScaleNearest(c.in, c.from, c.to)

(* The samples a track buffers decode one after another, up to nextTime.   *)
PendingRunsOn ==
    \A t \in DOMAIN tracks :
      LET p == tracks[t].pending
      IN  \A i \in DOMAIN p :
            p[i].time + p[i].dur = IF i = Len(p) THEN tracks[t].nextTime ELSE p[i + 1].time

(* How far the first k boxes reach.                                        *)
Upto(boxes, k) == SizeOf(SubSeq(boxes, 1, k))

(* The index goes in between two boxes of the file, behind no fragment.    *)
PlaceExists ==
    Readable => \E n \in 0..Len(file) : Upto(file, n) = index.start

(* The fragments of a file that can be read back are behind the place of   *)
(* the index.                                                              *)
NoneBefore ==
    Readable => \A j \in DOMAIN file : file[j].box = "fragment" =>
                   Upto(file, j - 1) >= index.start

(* Where the index goes in, until the file is finished.                    *)
StartInv ==
    ~complete =>
      /\ PlaceExists /\ NoneBefore
      /\ ~headerOut => \A j \in DOMAIN file : file[j].box # "fragment"

(* What every state of the muxer satisfies, where the index goes apart.    *)
Inv ==
    /\ TypeOK
    /\ Control
    /\ Progress
    /\ TracksApart
    /\ ClocksAgree
    /\ PendingRunsOn
    /\ HeldWithinLimit

(***************************************************************************)
(* Arithmetic, and the helpers of AudioClock.                              *)
(***************************************************************************)
(* A quotient is the greatest multiple that fits.                          *)
LEMMA Division ==
    ASSUME NEW a \in Nat, NEW b \in Nat \ {0}
    PROVE  a \div b \in Nat /\ b * (a \div b) <= a /\ a < b * (a \div b) + b
BY SMT

(* A greater number has no smaller quotient.                               *)
LEMMA QuotientGrows ==
    ASSUME NEW a \in Nat, NEW b \in Nat \ {0}, NEW c \in Nat, a <= c
    PROVE  a \div b <= c \div b
<1> DEFINE q == a \div b
           r == c \div b
<1>1. /\ q \in Nat /\ r \in Nat
      /\ b * q <= a /\ c < b * r + b
  BY Division
<1> HIDE DEF q, r
<1>2. SUFFICES ASSUME q > r PROVE FALSE
  BY <1>1 DEF q, r
<1>3. b * (r + 1) <= b * q
  BY <1>1, <1>2
<1>4. b * (r + 1) = b * r + b /\ b * q \in Nat /\ b * r \in Nat
  BY <1>1
<1> QED BY <1>1, <1>3, <1>4

(* A time rescaled is a natural number, no earlier for a later time, and   *)
(* nothing for nothing.                                                    *)
LEMMA ScaleNearestType ==
    ASSUME NEW d \in Nat, NEW from \in Nat \ {0}, NEW to \in Nat
    PROVE  ScaleNearest(d, from, to) \in Nat
<1>1. from \div 2 \in Nat /\ d * to \in Nat
  BY Division
<1> QED BY <1>1, Division DEF ScaleNearest

(* scaleNearest of more is not less.                                       *)
LEMMA ScaleNearestGrows ==
    ASSUME NEW d \in Nat, NEW e \in Nat, d <= e, NEW from \in Nat \ {0}, NEW to \in Nat
    PROVE  ScaleNearest(d, from, to) <= ScaleNearest(e, from, to)
<1>1. from \div 2 \in Nat /\ d * to \in Nat /\ e * to \in Nat
  BY Division
<1>2. d * to <= e * to
  BY SMT
<1>3. d * to + from \div 2 <= e * to + from \div 2
  BY <1>1, <1>2
<1> QED BY <1>1, <1>3, QuotientGrows DEF ScaleNearest

(* scaleNearest of nothing is nothing.                                     *)
LEMMA ScaleNearestZero ==
    ASSUME NEW from \in Nat \ {0}, NEW to \in Nat
    PROVE  ScaleNearest(0, from, to) = 0
<1>1. 0 * to + from \div 2 = from \div 2 /\ from \div 2 \in Nat
  BY Division
<1>2. from \div 2 < from
  BY SMT
<1>3. \A h \in Nat : h < from => h \div from = 0
  BY SMT
<1> QED BY <1>1, <1>2, <1>3 DEF ScaleNearest

(* A track is written in a positive timescale, with a clock that stands at *)
(* nothing.                                                                *)
LEMMA NewClock ==
    ASSUME NEW cfg \in ConfigType
    PROVE  LET c == WithAudioClock(cfg)
           IN  /\ AudioTimescale(cfg) \in Nat \ {0}
               /\ c \in ClockType
               /\ c.out = ScaleNearest(c.in, c.from, c.to)
<1>1. AudioTimescale(cfg) \in Nat \ {0} /\ cfg.timescale \in Nat \ {0}
  BY ClockAssumption DEF AudioTimescale, ConfigType
<1>2. /\ WithAudioClock(cfg) \in ClockType
      /\ WithAudioClock(cfg).in = 0 /\ WithAudioClock(cfg).out = 0
  BY <1>1 DEF WithAudioClock, NoClock, ClockType
<1>3. WithAudioClock(cfg).from \in Nat \ {0} /\ WithAudioClock(cfg).to \in Nat
  BY <1>2 DEF ClockType
<1> QED BY <1>1, <1>2, <1>3, ScaleNearestZero

(* The sample a clock makes of one is one, and the clock still agrees.     *)
LEMMA ClockSampleType ==
    ASSUME NEW c \in ClockType, c.out = ScaleNearest(c.in, c.from, c.to),
           NEW s \in SampleType
    PROVE  LET r == ClockSample(c, s)
           IN  /\ r.sample \in SampleType
               /\ r.clock \in ClockType
               /\ r.clock.out = ScaleNearest(r.clock.in, r.clock.from, r.clock.to)
<1>1. CASE ~Converts(c)
  BY <1>1 DEF ClockSample
<1>2. CASE Converts(c)
  <2> DEFINE in == c.in + s.dur
             out == ScaleNearest(in, c.from, c.to)
             offset == ScaleNearest(Abs(s.offset), c.from, c.to)
  <2>1. /\ c.from \in Nat \ {0} /\ c.to \in Nat \ {0} /\ c.in \in Nat /\ c.out \in Nat
        /\ s.len \in Nat \ {0} /\ s.dur \in Nat /\ s.offset \in Int /\ s.sync \in BOOLEAN
    BY DEF ClockType, SampleType
  <2>2. in \in Nat /\ c.in <= in /\ Abs(s.offset) \in Nat
    BY <2>1 DEF Abs
  <2>3. out \in Nat /\ offset \in Nat
    BY <2>1, <2>2, ScaleNearestType
  <2>4. c.out <= out
    BY <2>1, <2>2, ScaleNearestGrows
  <2>5. ClockSample(c, s) =
          [sample |-> [len |-> s.len, dur |-> out - c.out,
                       offset |-> IF s.offset < 0 THEN -offset ELSE offset,
                       sync |-> s.sync],
           clock  |-> [from |-> c.from, to |-> c.to, in |-> in, out |-> out]]
    BY <1>2 DEF ClockSample
  <2>6. out = ScaleNearest(in, c.from, c.to)
    OBVIOUS
  <2> HIDE DEF in, out, offset
  <2>7. out - c.out \in Nat /\ (IF s.offset < 0 THEN -offset ELSE offset) \in Int
    BY <2>1, <2>3, <2>4
  <2> QED BY <2>1, <2>2, <2>3, <2>5, <2>6, <2>7 DEF ClockType, SampleType
<1> QED BY <1>1, <1>2

(***************************************************************************)
(* Sizes.                                                                  *)
(***************************************************************************)
(* What a box is, from its kind.                                           *)
LEMMA BoxKinds ==
    ASSUME NEW b \in Box
    PROVE  /\ b.size \in Nat \ {0}
           /\ b.box \in {"fragment", "init", "torn"}
           /\ b.box = "fragment" <=> b \in FragmentBox
           /\ b.box # "sidx"
BY DEF Box, FragmentBox, HeaderBox, TornBox

(* The size of a sequence of boxes, and of one box more.                   *)
LEMMA SizeType ==
    ASSUME NEW B, \A b \in B : b.size \in Nat, NEW boxes \in Seq(B)
    PROVE  SizeOf(boxes) \in Nat
<1> DEFINE f == [i \in DOMAIN boxes |-> boxes[i].size]
           n == Len(boxes)
<1>1. n \in Nat /\ \A i \in 1..n : f[i] \in Nat
  BY LenProperties, ElementOfSeq
<1>2. SizeOf(boxes) = SumTo(f, n)
  BY DEF SizeOf
<1> HIDE DEF f, n
<1>3. n \in 0..n
  BY <1>1
<1> QED BY <1>1, <1>2, <1>3, SumGrows

(* No box has no size.                                                     *)
LEMMA SizeOfNone == SizeOf(<<>>) = 0
BY SumZero DEF SizeOf

(* One box more adds its size.                                             *)
LEMMA SizeAppend ==
    ASSUME NEW B, \A b \in B : b.size \in Nat, NEW boxes \in Seq(B), NEW b \in B
    PROVE  SizeOf(Append(boxes, b)) = SizeOf(boxes) + b.size
<1> DEFINE more == Append(boxes, b)
           f == [i \in DOMAIN boxes |-> boxes[i].size]
           g == [i \in DOMAIN more |-> more[i].size]
           n == Len(boxes)
<1>1. n \in Nat /\ Len(more) = n + 1 /\ DOMAIN more = 1..(n + 1) /\ DOMAIN boxes = 1..n
  BY LenProperties, AppendProperties
<1>2. /\ \A i \in 1..n : more[i] = boxes[i]
      /\ more[n + 1] = b
  BY AppendProperties
<1>3. SizeOf(boxes) = SumTo(f, n) /\ SizeOf(more) = SumTo(g, n + 1)
  BY <1>1 DEF SizeOf
<1> HIDE DEF more
<1>4. (\A i \in 1..n : f[i] = g[i]) /\ g[n + 1] = b.size
  BY <1>1, <1>2
<1> HIDE DEF f, g, n
<1>5. SumTo(g, n) = SumTo(f, n)
  BY <1>1, <1>4, SumSame
<1>6. SumTo(g, n + 1) = SumTo(g, n) + g[n + 1]
  BY <1>1, SumStep
<1> QED BY <1>3, <1>4, <1>5, <1>6 DEF more

(* The size of the first boxes of a file is the sum of theirs; it grows    *)
(* with every box.                                                         *)
SizesIn(boxes) == [i \in DOMAIN boxes |-> boxes[i].size]

(* The size of the first n boxes is the sum of the first n sizes.          *)
LEMMA SizePrefix ==
    ASSUME NEW B, NEW boxes \in Seq(B), NEW n \in 0..Len(boxes)
    PROVE  SizeOf(SubSeq(boxes, 1, n)) = SumTo(SizesIn(boxes), n)
<1> DEFINE first == SubSeq(boxes, 1, n)
           f == [i \in DOMAIN first |-> first[i].size]
           g == SizesIn(boxes)
<1>1. Len(boxes) \in Nat /\ DOMAIN boxes = 1..Len(boxes) /\ n \in Nat /\ n <= Len(boxes)
  BY LenProperties
<1>2. \A i \in 1..n : boxes[i] \in B
  BY <1>1, ElementOfSeq
<1>3. Len(first) = n /\ DOMAIN first = 1..n /\ \A i \in 1..n : first[i] = boxes[i]
  <2>1. /\ first \in Seq(B) /\ Len(first) = IF 1 <= n THEN n - 1 + 1 ELSE 0
        /\ \A i \in 1..(n - 1 + 1) : first[i] = boxes[1 + i - 1]
    BY <1>1, <1>2, SubSeqProperties
  <2> HIDE DEF first
  <2> QED BY <1>1, <2>1, LenProperties
<1>4. SizeOf(first) = SumTo(f, n)
  BY <1>3 DEF SizeOf
<1> HIDE DEF first
<1>5. \A i \in 1..n : f[i] = g[i]
  BY <1>1, <1>3 DEF SizesIn
<1> HIDE DEF f, g
<1>6. SumTo(f, n) = SumTo(g, n)
  BY <1>1, <1>5, SumSame
<1> QED BY <1>4, <1>6 DEF first, g

(* The size of all boxes is the sum of all sizes.                          *)
LEMMA SizeWhole ==
    ASSUME NEW B, NEW boxes \in Seq(B)
    PROVE  SizeOf(boxes) = SumTo(SizesIn(boxes), Len(boxes))
BY DEF SizeOf, SizesIn

(* A box more makes the file larger by its size at least.                  *)
LEMMA SizesGrow ==
    ASSUME NEW B, \A b \in B : b.size \in Nat \ {0}, NEW boxes \in Seq(B)
    PROVE  /\ \A n \in 0..Len(boxes) : SumTo(SizesIn(boxes), n) \in Nat
           /\ \A m, n \in 0..Len(boxes) : m <= n =>
                SumTo(SizesIn(boxes), m) <= SumTo(SizesIn(boxes), n)
           /\ \A m, n \in 0..Len(boxes) : m < n =>
                SumTo(SizesIn(boxes), m) + boxes[n].size <= SumTo(SizesIn(boxes), n)
           /\ \A m, n \in 0..Len(boxes) : m < n =>
                SumTo(SizesIn(boxes), m) < SumTo(SizesIn(boxes), n)
<1> DEFINE f == SizesIn(boxes)
           l == Len(boxes)
<1>1. l \in Nat /\ DOMAIN boxes = 1..l /\ \A i \in 1..l : boxes[i].size \in Nat \ {0}
  BY LenProperties, ElementOfSeq
<1>2. \A i \in 1..l : f[i] = boxes[i].size
  BY <1>1 DEF SizesIn
<1> HIDE DEF f, l
<1>3. \A i \in 1..l : f[i] \in Nat
  BY <1>1, <1>2
<1>4. \A n \in 0..l : \A m \in 0..n : SumTo(f, m) \in Nat /\ SumTo(f, m) <= SumTo(f, n)
  <2>1. ASSUME NEW n \in 0..l
        PROVE  \A m \in 0..n : SumTo(f, m) \in Nat /\ SumTo(f, m) <= SumTo(f, n)
    <3>1. n \in Nat /\ \A i \in 1..n : f[i] \in Nat
      BY <1>1, <1>3
    <3> QED BY <3>1, SumGrows
  <2> QED BY <2>1
<1>5. ASSUME NEW n \in 0..l
      PROVE  SumTo(f, n) \in Nat
  <2>1. n \in 0..n
    BY <1>1
  <2> QED BY <1>4, <2>1
<1>6. ASSUME NEW m \in 0..l, NEW n \in 0..l, m <= n
      PROVE  SumTo(f, m) <= SumTo(f, n)
  <2>1. m \in 0..n
    BY <1>6
  <2> QED BY <1>4, <2>1
<1>7. ASSUME NEW m \in 0..l, NEW n \in 0..l, m < n
      PROVE  SumTo(f, m) + boxes[n].size <= SumTo(f, n) /\ SumTo(f, m) < SumTo(f, n)
  <2>1. n - 1 \in Nat /\ n - 1 \in 0..l /\ n \in 1..l /\ (n - 1) + 1 = n /\ m <= n - 1
    BY <1>1, <1>7
  <2>2. SumTo(f, n) = SumTo(f, n - 1) + f[n]
    BY <2>1, SumStep
  <2>3. SumTo(f, m) <= SumTo(f, n - 1)
    BY <1>6, <2>1
  <2>4. SumTo(f, m) \in Nat /\ SumTo(f, n - 1) \in Nat
    BY <1>5, <2>1
  <2> QED BY <1>1, <1>2, <2>1, <2>2, <2>3, <2>4
<1> QED BY <1>5, <1>6, <1>7 DEF f, l

(***************************************************************************)
(* The fragment a track's buffered samples become.                         *)
(***************************************************************************)
(* The fields of a track.                                                  *)
LEMMA TrackTypes ==
    ASSUME TypeOK
    PROVE  /\ Len(tracks) \in Nat /\ DOMAIN tracks = 1..Len(tracks)
           /\ \A t \in DOMAIN tracks :
                /\ tracks[t] \in TrackType
                /\ tracks[t].id \in Nat /\ tracks[t].nextTime \in Nat
                /\ tracks[t].timescale \in Nat \ {0} /\ tracks[t].priming \in Nat
                /\ tracks[t].buffered \in Nat /\ tracks[t].firstOffset \in Int
                /\ tracks[t].written \in BOOLEAN
                /\ tracks[t].clock \in ClockType
                /\ tracks[t].pending \in Seq(PendingType)
                /\ Len(tracks[t].pending) \in Nat
                /\ DOMAIN tracks[t].pending = 1..Len(tracks[t].pending)
                /\ \A i \in DOMAIN tracks[t].pending : tracks[t].pending[i] \in PendingType
<1>1. tracks \in Seq(TrackType)
  BY DEF TypeOK
<1>2. Len(tracks) \in Nat /\ DOMAIN tracks = 1..Len(tracks)
  BY <1>1, LenProperties
<1>3. \A t \in DOMAIN tracks : tracks[t] \in TrackType
  BY <1>1, <1>2, ElementOfSeq
<1>4. ASSUME NEW t \in DOMAIN tracks
      PROVE  /\ Len(tracks[t].pending) \in Nat
             /\ DOMAIN tracks[t].pending = 1..Len(tracks[t].pending)
             /\ \A i \in DOMAIN tracks[t].pending : tracks[t].pending[i] \in PendingType
  <2>1. tracks[t].pending \in Seq(PendingType)
    BY <1>3 DEF TrackType
  <2> QED BY <2>1, LenProperties, ElementOfSeq
<1> QED BY <1>2, <1>3, <1>4 DEF TrackType

(* A run of a track that has samples is one.                               *)
LEMMA RunIsRun ==
    ASSUME TypeOK, NEW t \in DOMAIN tracks, tracks[t].pending # <<>>
    PROVE  /\ Run(t) \in RunType
           /\ Run(t).id = tracks[t].id /\ Run(t).base = tracks[t].pending[1].time
           /\ Len(Run(t).samples) = Len(tracks[t].pending)
           /\ Run(t).samples # <<>>
           /\ Run(t).samples = Bare(tracks[t].pending)
<1> DEFINE p == tracks[t].pending
           r == [i \in DOMAIN p |-> [len |-> p[i].len, dur |-> p[i].dur,
                                     offset |-> p[i].offset, sync |-> p[i].sync]]
<1>1. /\ p \in Seq(PendingType) /\ Len(p) \in Nat /\ DOMAIN p = 1..Len(p)
      /\ \A i \in DOMAIN p : p[i] \in PendingType
      /\ tracks[t].id \in Nat
  BY TrackTypes
<1>2. Run(t) = [id |-> tracks[t].id, base |-> p[1].time, samples |-> r]
  BY DEF Run
<1>3. r = Bare(p)
  BY DEF Bare
<1>4. p # <<>>
  OBVIOUS
<1> HIDE DEF p
<1>5. r \in [1..Len(p) -> SampleType]
  BY <1>1 DEF PendingType, SampleType
<1> HIDE DEF r
<1>6. Len(p) # 0 /\ 1 \in DOMAIN p
  BY <1>1, <1>4, EmptySeq
<1>7. r \in Seq(SampleType) /\ Len(r) = Len(p) /\ r # <<>>
  <2>1. r \in Seq(SampleType) /\ Len(r) = Len(p)
    BY <1>1, <1>5, FunctionIsSeq
  <2> QED BY <1>6, <2>1
<1>8. p[1].time \in Nat
  BY <1>1, <1>6 DEF PendingType
<1>9. Run(t) \in RunType
  BY <1>1, <1>2, <1>7, <1>8 DEF RunType
<1>10. Run(t).id = tracks[t].id /\ Run(t).base = p[1].time /\ Run(t).samples = r
  BY <1>2
<1> QED BY <1>3, <1>7, <1>9, <1>10, Zenon DEF p

(* The runs of a fragment are runs.                                        *)
LEMMA RunsType ==
    ASSUME TypeOK
    PROVE  Runs \in Seq(RunType)
<1> DEFINE f == [t \in DOMAIN tracks |-> IF tracks[t].pending = <<>> THEN <<>> ELSE <<Run(t)>>]
<1>1. Len(tracks) \in Nat /\ DOMAIN tracks = 1..Len(tracks)
  BY TrackTypes
<1>2. ASSUME NEW t \in 1..Len(tracks) PROVE f[t] \in Seq(RunType)
  <2>1. f[t] = IF tracks[t].pending = <<>> THEN <<>> ELSE <<Run(t)>>
    BY <1>1
  <2>2. tracks[t].pending # <<>> => Run(t) \in RunType
    BY <1>1, RunIsRun
  <2> HIDE DEF f
  <2> QED BY <2>1, <2>2
<1>3. Runs = ConcatTo(f, Len(tracks))
  BY Zenon DEF Runs
<1> HIDE DEF f
<1> QED BY <1>1, <1>2, <1>3, ConcatIsSeq

(* What the samples of a track weigh.                                      *)
Weight(t) == LET p == tracks[t].pending IN SumTo([i \in DOMAIN p |-> p[i].len], Len(p))

(* The bytes a track holds: some, when it holds a sample.                  *)
LEMMA WeightType ==
    ASSUME TypeOK, NEW t \in DOMAIN tracks
    PROVE  Weight(t) \in Nat /\ (tracks[t].pending # <<>> => Weight(t) > 0)
<1> DEFINE p == tracks[t].pending
           f == [i \in DOMAIN p |-> p[i].len]
           n == Len(p)
<1>1. /\ p \in Seq(PendingType) /\ n \in Nat /\ DOMAIN p = 1..n
      /\ \A i \in DOMAIN p : p[i] \in PendingType
  BY TrackTypes
<1>2. \A i \in 1..n : f[i] \in Nat /\ f[i] > 0
  <2>1. \A i \in 1..n : f[i] = p[i].len
    BY <1>1, Zenon
  <2>2. \A i \in 1..n : p[i].len \in Nat /\ p[i].len > 0
    <3> HIDE DEF p, n
    <3>1. \A i \in 1..n : p[i] \in PendingType
      BY <1>1
    <3> QED BY ONLY <3>1 DEF PendingType
  <2> QED BY <2>1, <2>2, Zenon
<1>3. Weight(t) = SumTo(f, n)
  BY DEF Weight
<1>4. p # <<>> => n > 0
  BY <1>1, EmptySeq
<1> HIDE DEF f, n, p
<1>5. \A m \in 0..n : SumTo(f, m) \in Nat /\ SumTo(f, m) <= SumTo(f, n)
  BY <1>1, <1>2, SumGrows
<1>6. n > 0 => SumTo(f, n) > 0
  <2>1. SumTo(f, 0 + 1) = SumTo(f, 0) + f[0 + 1]
    BY SumStep
  <2>2. n > 0 => SumTo(f, 1) = f[1]
    <3>1. n > 0 => f[1] \in Nat
      BY <1>1, <1>2
    <3>2. 0 + 1 = 1 /\ SumTo(f, 0) = 0
      BY SumZero
    <3> QED BY <2>1, <3>1, <3>2
  <2> QED BY <1>1, <1>2, <1>5, <2>2
<1>7. n \in 0..n
  BY <1>1
<1> QED BY <1>3, <1>4, <1>5, <1>6, <1>7 DEF p

(* A fragment weighs more than its boxes when a track has samples, and no  *)
(* less however it is tightened.                                           *)
LEMMA FragmentSizeType ==
    ASSUME TypeOK
    PROVE  /\ FragmentSize \in Nat /\ FragmentSize >= FragmentLen
           /\ Buffering => FragmentSize > FragmentLen
<1> DEFINE w == [t \in DOMAIN tracks |-> Weight(t)]
           n == Len(tracks)
<1>1. n \in Nat /\ DOMAIN tracks = 1..n
  BY TrackTypes
<1>2. \A t \in 1..n : w[t] \in Nat /\ (tracks[t].pending # <<>> => w[t] > 0)
  BY <1>1, WeightType
<1>3. FragmentSize = FragmentLen + SumTo(w, n)
  BY DEF FragmentSize, Weight
<1>4. FragmentLen \in Nat
  BY FragmentAssumption
<1> HIDE DEF w, n
<1>5. \A m \in 0..n : SumTo(w, m) \in Nat /\ SumTo(w, m) <= SumTo(w, n)
  BY <1>1, <1>2, SumGrows
<1>6. n \in 0..n
  BY <1>1
<1>7. ASSUME NEW t \in DOMAIN tracks, tracks[t].pending # <<>>
      PROVE  SumTo(w, n) > 0
  <2>1. t \in 1..n /\ t \in 0..n /\ t - 1 \in 0..n /\ t - 1 \in Nat /\ (t - 1) + 1 = t
    BY <1>1, <1>7
  <2>2. SumTo(w, t) = SumTo(w, t - 1) + w[t]
    BY <2>1, SumStep
  <2>3. w[t] > 0 /\ w[t] \in Nat
    BY <1>2, <1>7, <2>1
  <2> QED BY <1>5, <1>6, <2>1, <2>2, <2>3
<1> QED BY <1>3, <1>4, <1>5, <1>6, <1>7 DEF Buffering

(* The fragment flushFragment makes is a fragment, no larger than the      *)
(* estimate, and holds the runs of the tracks under the next number.       *)
LEMMA FragmentType ==
    ASSUME TypeOK, Buffering, NEW k \in Tightening
    PROVE  /\ Fragment(FragmentSize - k) \in FragmentBox
           /\ FragmentSize - k <= FragmentSize
           /\ Fragment(FragmentSize - k).size = FragmentSize - k
           /\ Fragment(FragmentSize - k).seq = sequence + 1
           /\ Fragment(FragmentSize - k).runs = Runs
<1>1. k \in Nat /\ k <= FragmentLen /\ FragmentLen \in Nat
  BY FragmentAssumption
<1>2. FragmentSize \in Nat /\ FragmentSize > FragmentLen
  BY FragmentSizeType
<1>3. FragmentSize - k \in Nat \ {0} /\ FragmentSize - k <= FragmentSize
  BY <1>1, <1>2
<1>4. sequence + 1 \in Nat \ {0}
  BY DEF TypeOK
<1>5. Runs \in Seq(RunType)
  BY RunsType
<1> QED BY <1>3, <1>4, <1>5 DEF Fragment, FragmentBox

(* The first of some numbers, and the last.                                *)
LEMMA SmallestExists ==
    ASSUME NEW n \in Nat, n > 0, NEW f, \A i \in 1..n : f[i] \in Int
    PROVE  /\ \E i \in 1..n : \A j \in 1..n : f[i] <= f[j]
           /\ \E i \in 1..n : \A j \in 1..n : f[j] <= f[i]
<1> DEFINE S == {k \in Nat : k > 0 /\ k <= n =>
                    /\ \E i \in 1..k : \A j \in 1..k : f[i] <= f[j]
                    /\ \E i \in 1..k : \A j \in 1..k : f[j] <= f[i]}
<1>1. 0 \in S
  OBVIOUS
<1>2. ASSUME NEW k \in Nat, k \in S, k + 1 <= n
      PROVE  k + 1 \in S
  <2>1. \A i \in 1..(k + 1) : f[i] \in Int
    BY <1>2
  <2>2. CASE k = 0
    <3>1. \A j \in 1..(k + 1) : f[1] <= f[j] /\ f[j] <= f[1]
      BY <2>1, <2>2
    <3>2. 1 \in 1..(k + 1)
      BY <2>2
    <3> QED BY <3>1, <3>2
  <2>3. CASE k > 0
    <3>1. PICK a \in 1..k : \A j \in 1..k : f[a] <= f[j]
      BY <1>2, <2>3
    <3>2. PICK b \in 1..k : \A j \in 1..k : f[j] <= f[b]
      BY <1>2, <2>3
    <3>3. \A j \in 1..(k + 1) : j \in 1..k \/ j = k + 1
      OBVIOUS
    <3>4. \E i \in 1..(k + 1) : \A j \in 1..(k + 1) : f[i] <= f[j]
      <4>1. CASE f[a] <= f[k + 1]
        <5>1. \A j \in 1..(k + 1) : f[a] <= f[j]
          BY <3>1, <3>3, <4>1
        <5> QED BY <5>1
      <4>2. CASE ~(f[a] <= f[k + 1])
        <5>1. \A j \in 1..(k + 1) : f[k + 1] <= f[j]
          BY <2>1, <3>1, <3>3, <4>2
        <5>2. k + 1 \in 1..(k + 1)
          OBVIOUS
        <5> QED BY <5>1, <5>2
      <4> QED BY <4>1, <4>2
    <3>5. \E i \in 1..(k + 1) : \A j \in 1..(k + 1) : f[j] <= f[i]
      <4>1. CASE f[k + 1] <= f[b]
        <5>1. \A j \in 1..(k + 1) : f[j] <= f[b]
          BY <3>2, <3>3, <4>1
        <5> QED BY <5>1
      <4>2. CASE ~(f[k + 1] <= f[b])
        <5>1. \A j \in 1..(k + 1) : f[j] <= f[k + 1]
          BY <2>1, <3>2, <3>3, <4>2
        <5>2. k + 1 \in 1..(k + 1)
          OBVIOUS
        <5> QED BY <5>1, <5>2
      <4> QED BY <4>1, <4>2
    <3> QED BY <3>4, <3>5
  <2> QED BY <2>2, <2>3
<1> HIDE DEF S
<1>3. \A k \in Nat : k \in S => k + 1 \in S
  <2>1. ASSUME NEW k \in Nat, ~(k + 1 <= n) PROVE k + 1 \in S
    BY <2>1 DEF S
  <2> QED BY <1>2, <2>1
<1>4. \A k \in Nat : k \in S
  BY <1>1, <1>3, NatSetInduction
<1>5. n \in S
  BY <1>4
<1> QED BY <1>5 DEF S

(* What a track contributes to the fragment, for the index.                *)
LEMMA SpanIsSpan ==
    ASSUME TypeOK, NEW t \in DOMAIN tracks
    PROVE  Span(t) \in SpanType
<1> DEFINE p == tracks[t].pending
           start(i) == Greater(p[i].time + p[i].offset, 0)
           earliest == CHOOSE e \in {start(i) : i \in DOMAIN p} : \A i \in DOMAIN p : e <= start(i)
           last == CHOOSE e \in {start(i) + p[i].dur : i \in DOMAIN p} :
                        \A i \in DOMAIN p : start(i) + p[i].dur <= e
           n == Len(p)
<1>1. CASE p = <<>>
  BY <1>1 DEF Span, NoSpan, SpanType
<1>2. CASE p # <<>>
  <2>1. /\ p \in Seq(PendingType) /\ n \in Nat /\ DOMAIN p = 1..n
        /\ \A i \in DOMAIN p : p[i] \in PendingType
    BY TrackTypes
  <2>2. n > 0 /\ 1 \in 1..n
    BY <1>2, <2>1, EmptySeq
  <2>3. \A i \in 1..n : start(i) \in Int /\ start(i) + p[i].dur \in Int /\ p[i].sync \in BOOLEAN
    <3>1. \A i \in 1..n : /\ p[i].time \in Nat /\ p[i].offset \in Int /\ p[i].dur \in Nat
                          /\ p[i].sync \in BOOLEAN
      BY <2>1 DEF PendingType
    <3> HIDE DEF p
    <3> QED BY <3>1 DEF Greater
  <2>4. earliest \in Int
    <3> DEFINE f == [i \in 1..n |-> start(i)]
    <3>1. \A i \in 1..n : f[i] \in Int /\ f[i] = start(i)
      BY <2>3
    <3> HIDE DEF f, n, start
    <3>2. \E i \in 1..n : \A j \in 1..n : f[i] <= f[j]
      BY <2>1, <2>2, <3>1, SmallestExists
    <3>3. \E e \in {start(i) : i \in 1..n} : \A i \in 1..n : e <= start(i)
      BY <3>1, <3>2
    <3>4. (CHOOSE e \in {start(i) : i \in 1..n} : \A i \in 1..n : e <= start(i))
             \in {start(i) : i \in 1..n}
      BY <3>3
    <3> QED BY <2>1, <2>3, <3>4
  <2>5. last \in Int
    <3> DEFINE f == [i \in 1..n |-> start(i) + p[i].dur]
    <3>1. \A i \in 1..n : f[i] \in Int /\ f[i] = start(i) + p[i].dur
      BY <2>3
    <3> HIDE DEF f, n, start
    <3>2. \E i \in 1..n : \A j \in 1..n : f[j] <= f[i]
      BY <2>1, <2>2, <3>1, SmallestExists
    <3>3. \E e \in {start(i) + p[i].dur : i \in 1..n} : \A i \in 1..n : start(i) + p[i].dur <= e
      BY <3>1, <3>2
    <3>4. (CHOOSE e \in {start(i) + p[i].dur : i \in 1..n} :
              \A i \in 1..n : start(i) + p[i].dur <= e)
             \in {start(i) + p[i].dur : i \in 1..n}
      BY <3>3
    <3> QED BY <2>1, <2>3, <3>4
  <2>6. SapType(p[1].sync, start(1), earliest) \in {0, 1}
    BY DEF SapType
  <2>7. p[1].sync \in BOOLEAN
    BY <2>2, <2>3
  <2>8. Span(t) = [present |-> TRUE, earliest |-> earliest, end |-> last, sap |-> p[1].sync,
                   sapType |-> SapType(p[1].sync, start(1), earliest)]
    BY <1>2, Zenon DEF Span
  <2> HIDE DEF p, earliest, last, start
  <2> QED BY <2>4, <2>5, <2>6, <2>7, <2>8 DEF SpanType
<1> QED BY <1>1, <1>2

(* What the index notes of a fragment has the fragment's size.             *)
LEMMA NotedIsNoted ==
    ASSUME TypeOK, NEW frag \in FragmentBox
    PROVE  Noted(frag) \in NotedType /\ Noted(frag).size = frag.size
<1>1. Len(tracks) \in Nat /\ DOMAIN tracks = 1..Len(tracks)
  BY TrackTypes
<1>2. Spans \in [1..Len(tracks) -> SpanType]
  BY <1>1, SpanIsSpan DEF Spans
<1>3. Spans \in Seq(SpanType)
  BY <1>1, <1>2, FunctionIsSeq
<1>4. frag.size \in Nat \ {0}
  BY DEF FragmentBox
<1> QED BY <1>3, <1>4 DEF Noted, NotedType

(***************************************************************************)
(* The invariant holds of Init and of every step.                          *)
(***************************************************************************)
LEMMA InitInv == Init => Inv
<1> SUFFICES ASSUME Init PROVE Inv
  OBVIOUS
<1> USE DEF Init
<1>1. /\ tracks \in Seq(TrackType) /\ traks \in Seq(TrakType) /\ file \in Seq(Box)
      /\ index.held \in Seq(FragmentBox) /\ index.fragments \in Seq(NotedType)
      /\ DOMAIN tracks = {}
  BY EmptySeq
<1>2. TypeOK
  <2>1. index \in [start : Nat, held : Seq(FragmentBox), fragments : Seq(NotedType)]
    BY <1>1
  <2>2. call \in CallType
    BY DEF NoCall, CallType
  <2>3. setup \in [indexed : BOOLEAN, readable : BOOLEAN]
    BY FragmentAssumption
  <2>4. faults \in [header : Nat, seek : Nat, media : Nat]
    OBVIOUS
  <2> QED BY <1>1, <2>1, <2>2, <2>3, <2>4 DEF TypeOK
<1>3. Control
  BY DEF Control, NoCall
<1>4. Progress /\ TracksApart /\ ClocksAgree /\ PendingRunsOn
  BY <1>1 DEF Progress, TracksApart, ClocksAgree, PendingRunsOn
<1>5. HeldWithinLimit
  BY SizeOfNone, FragmentAssumption DEF HeldWithinLimit
<1> QED BY <1>2, <1>3, <1>4, <1>5 DEF Inv

(* A step that leaves the tracks alone leaves alone what is true of them.  *)
LEMMA SameTracks ==
    ASSUME Inv, tracks' = tracks, Len(traks') = Len(traks)
    PROVE  TracksApart' /\ ClocksAgree' /\ PendingRunsOn'
BY DEF Inv, TracksApart, ClocksAgree, PendingRunsOn

(* The tracks when they have given up their samples.                       *)
LEMMA EmptiedTracks ==
    ASSUME Inv, tracks' = Emptied, traks' = traks
    PROVE  /\ tracks' \in Seq(TrackType)
           /\ DOMAIN tracks' = DOMAIN tracks
           /\ \A t \in DOMAIN tracks :
                /\ tracks'[t].pending = <<>>
                /\ tracks'[t].id = tracks[t].id
                /\ tracks'[t].nextTime = tracks[t].nextTime
                /\ tracks'[t].clock = tracks[t].clock
                /\ tracks'[t].priming = tracks[t].priming
           /\ ~Buffering'
           /\ TracksApart' /\ ClocksAgree' /\ PendingRunsOn'
<1>1. TypeOK
  BY DEF Inv
<1>2. Len(tracks) \in Nat /\ DOMAIN tracks = 1..Len(tracks)
  BY <1>1, TrackTypes
<1>3. ASSUME NEW t \in DOMAIN tracks
      PROVE  /\ tracks'[t] = [tracks[t] EXCEPT !.pending = <<>>, !.buffered = 0]
             /\ tracks'[t] \in TrackType
             /\ tracks'[t].pending = <<>>
             /\ tracks'[t].id = tracks[t].id
             /\ tracks'[t].nextTime = tracks[t].nextTime
             /\ tracks'[t].clock = tracks[t].clock
             /\ tracks'[t].priming = tracks[t].priming
  <2> DEFINE k == tracks[t]
             none == <<>>
             r == [k EXCEPT !.pending = none, !.buffered = 0]
  <2>1. tracks'[t] = r
    BY <1>2 DEF Emptied
  <2>2. k \in TrackType /\ none \in Seq(PendingType) /\ 0 \in Nat
    BY <1>1, TrackTypes, EmptySeq
  <2> HIDE DEF k, none
  <2>3. /\ r \in TrackType /\ r.pending = none /\ r.id = k.id /\ r.nextTime = k.nextTime
        /\ r.clock = k.clock /\ r.priming = k.priming
    BY <2>2 DEF TrackType
  <2> HIDE DEF r
  <2>4. r = [k EXCEPT !.pending = none, !.buffered = 0]
    BY Zenon DEF r
  <2> QED BY <2>1, <2>3, <2>4, Zenon DEF k, none
<1>4. tracks' \in [1..Len(tracks) -> TrackType]
  BY <1>2, <1>3 DEF Emptied
<1>5. tracks' \in Seq(TrackType) /\ DOMAIN tracks' = DOMAIN tracks
  BY <1>2, <1>4, FunctionIsSeq
<1>6. ~Buffering'
  BY <1>3, <1>5 DEF Buffering
<1>7. TracksApart'
  <2>1. TracksApart /\ Len(traks') = Len(traks)
    BY DEF Inv
  <2>2. \A t \in DOMAIN tracks' : tracks'[t].id = tracks[t].id
    BY <1>3, <1>5
  <2>3. \A t \in DOMAIN tracks' : tracks'[t].id \in 1..Len(traks')
    BY <1>5, <2>1, <2>2, Zenon DEF TracksApart
  <2>4. \A t, u \in DOMAIN tracks' : tracks'[t].id = tracks'[u].id => t = u
    BY <1>5, <2>1, <2>2, Zenon DEF TracksApart
  <2> QED BY <2>3, <2>4 DEF TracksApart
<1>8. ClocksAgree'
  <2>1. ClocksAgree
    BY DEF Inv
  <2> QED BY <1>3, <1>5, <2>1 DEF ClocksAgree
<1>9. PendingRunsOn'
  <2>1. DOMAIN <<>> = {}
    OBVIOUS
  <2>2. \A t \in DOMAIN tracks' : DOMAIN tracks'[t].pending = {}
    BY <1>3, <1>5, <2>1, Zenon
  <2> QED BY <2>2 DEF PendingRunsOn
<1> QED BY <1>3, <1>5, <1>6, <1>7, <1>8, <1>9

(* AddTrack keeps the invariant.                                           *)
LEMMA AddTrackInv == Inv /\ AddTrack /\ UNCHANGED setup => Inv'
<1> SUFFICES ASSUME Inv, AddTrack, UNCHANGED setup PROVE Inv'
  OBVIOUS
<1> DEFINE cfg == Configs[Len(tracks) + 1]
           to == AudioTimescale(cfg)
           new == [id |-> Len(traks) + 1, timescale |-> to, clock |-> WithAudioClock(cfg),
                   priming |-> PrimingTicks(cfg.delay, to),
                   nextTime |-> 0, pending |-> <<>>, buffered |-> 0,
                   firstOffset |-> 0, written |-> FALSE]
           trak == [described |-> TRUE, edts |-> {}]
<1>1. /\ tracks \in Seq(TrackType) /\ Len(tracks) \in Nat /\ DOMAIN tracks = 1..Len(tracks)
      /\ traks \in Seq(TrakType) /\ Len(traks) \in Nat
  BY LenProperties DEF Inv, TypeOK
<1>2. cfg \in ConfigType
  <2>1. Configs \in Seq(ConfigType)
    BY FragmentAssumption DEF ConfigType
  <2>2. Len(tracks) + 1 \in 1..Len(Configs)
    BY <1>1, <2>1 DEF AddTrack
  <2> QED BY <2>1, <2>2
<1>3. /\ to \in Nat \ {0} /\ WithAudioClock(cfg) \in ClockType
      /\ new.clock.out = ScaleNearest(new.clock.in, new.clock.from, new.clock.to)
  BY <1>2, NewClock
<1>4. PrimingTicks(cfg.delay, to) \in Nat
  <2>1. cfg.delay \in Nat
    BY <1>2 DEF ConfigType
  <2>2. Second \in Nat \ {0} /\ Second \div 2 \in Nat
    BY ClockAssumption, Division
  <2>3. cfg.delay * to + Second \div 2 \in Nat
    BY <1>3, <2>1, <2>2
  <2> QED BY <2>2, <2>3, Division DEF PrimingTicks
<1>5. new \in TrackType
  <2>1. <<>> \in Seq(PendingType) /\ Len(traks) + 1 \in Nat
    BY <1>1, EmptySeq
  <2> HIDE DEF to, cfg
  <2> QED BY <1>3, <1>4, <2>1 DEF TrackType
<1>6. tracks' = Append(tracks, new) /\ traks' = Append(traks, trak)
  BY DEF AddTrack
<1>7. new.id = Len(traks) + 1 /\ new.pending = <<>> /\ new.nextTime = 0
  OBVIOUS
<1>8. trak \in TrakType
  BY DEF TrakType
<1> HIDE DEF new, trak
<1>9. /\ tracks' \in Seq(TrackType) /\ DOMAIN tracks' = 1..(Len(tracks) + 1)
      /\ \A t \in 1..Len(tracks) : tracks'[t] = tracks[t]
      /\ tracks'[Len(tracks) + 1] = new
      /\ traks' \in Seq(TrakType) /\ Len(traks') = Len(traks) + 1
  BY <1>1, <1>5, <1>6, <1>8, AppendProperties, LenProperties
<1>10. /\ \A t \in DOMAIN tracks' : t \in DOMAIN tracks \/ t = Len(tracks) + 1
       /\ DOMAIN tracks \subseteq DOMAIN tracks'
  BY <1>1, <1>9
<1>11. TypeOK'
  BY <1>9 DEF AddTrack, Inv, TypeOK
<1>12. pc = "idle" /\ ~closed /\ ~started /\ call.op = "none"
  BY DEF AddTrack, MayAddTrack, Inv, Control
<1>13. Control'
  BY <1>12 DEF AddTrack, Inv, Control
<1>14. Progress'
  BY <1>1, <1>7, <1>9, <1>10 DEF AddTrack, Inv, Progress, Indexed, Readable
<1>15. TracksApart'
  <2>1. \A t \in 1..Len(tracks) : tracks[t].id \in 1..Len(traks)
    BY <1>1 DEF Inv, TracksApart
  <2>2. \A t, u \in 1..Len(tracks) : tracks[t].id = tracks[u].id => t = u
    BY <1>1 DEF Inv, TracksApart
  <2>3. \A t \in DOMAIN tracks' :
          \/ t \in 1..Len(tracks) /\ tracks'[t] = tracks[t]
          \/ t = Len(tracks) + 1 /\ tracks'[t] = new
    BY <1>9
  <2>4. \A t \in DOMAIN tracks' : tracks'[t].id \in 1..Len(traks')
    BY <1>1, <1>7, <1>9, <2>1, <2>3
  <2>5. ASSUME NEW t \in DOMAIN tracks', NEW u \in DOMAIN tracks',
               tracks'[t].id = tracks'[u].id
        PROVE  t = u
    <3>1. CASE tracks'[t] = tracks[t] /\ t \in 1..Len(tracks)
      BY <1>1, <1>7, <2>1, <2>2, <2>3, <2>5, <3>1
    <3>2. CASE tracks'[t] = new /\ t = Len(tracks) + 1
      BY <1>1, <1>7, <2>1, <2>2, <2>3, <2>5, <3>2
    <3> QED BY <2>3, <3>1, <3>2
  <2> QED BY <2>4, <2>5 DEF TracksApart
<1>16. ClocksAgree'
  BY <1>1, <1>3, <1>9, <1>10 DEF Inv, ClocksAgree, new
<1>17. PendingRunsOn'
  BY <1>1, <1>7, <1>9, <1>10 DEF Inv, PendingRunsOn
<1>18. HeldWithinLimit'
  BY DEF AddTrack, Inv, HeldWithinLimit, SizeOf
<1> QED BY <1>11, <1>13, <1>14, <1>15, <1>16, <1>17, <1>18 DEF Inv

(* A refused track, which changes the initialisation segment, keeps the    *)
(* invariant.                                                              *)
LEMMA AddTrackRefusedInv == Inv /\ AddTrackRefused /\ UNCHANGED setup => Inv'
<1> SUFFICES ASSUME Inv, AddTrackRefused, UNCHANGED setup PROVE Inv'
  OBVIOUS
<1> DEFINE trak == [described |-> FALSE, edts |-> {}]
<1>1. traks \in Seq(TrakType) /\ Len(traks) \in Nat /\ trak \in TrakType
  BY LenProperties DEF Inv, TypeOK, TrakType
<1>2. traks' = Append(traks, trak)
  BY DEF AddTrackRefused
<1> HIDE DEF trak
<1>3. traks' \in Seq(TrakType) /\ Len(traks') = Len(traks) + 1
  BY <1>1, <1>2, AppendProperties
<1>4. TypeOK'
  BY <1>3 DEF AddTrackRefused, Inv, TypeOK
<1>5. Control' /\ Progress'
  BY DEF AddTrackRefused, Inv, Control, Progress, Indexed, Readable, Buffering
<1>6. TracksApart'
  <2>1. 1..Len(traks) \subseteq 1..Len(traks')
    BY <1>1, <1>3
  <2> QED BY <2>1 DEF AddTrackRefused, Inv, TracksApart
<1>7. ClocksAgree' /\ PendingRunsOn' /\ HeldWithinLimit'
  BY DEF AddTrackRefused, Inv, ClocksAgree, PendingRunsOn, HeldWithinLimit, SizeOf
<1> QED BY <1>4, <1>5, <1>6, <1>7 DEF Inv

(* The start of a call to WriteSample keeps the invariant.                 *)
LEMMA WriteSampleInv ==
    ASSUME Inv, NEW t \in 1..Len(Configs), NEW s \in Samples, WriteSample(t, s), UNCHANGED setup
    PROVE  Inv'
<1> DEFINE c == ClockSample(tracks[t].clock, s)
           off == IF tracks[t].written THEN tracks[t].firstOffset ELSE c.sample.offset
           k == [tracks[t] EXCEPT !.clock = c.clock, !.firstOffset = off, !.written = TRUE]
<1>1. TypeOK /\ Control
  BY DEF Inv
<1>2. Len(tracks) \in Nat /\ DOMAIN tracks = 1..Len(tracks) /\ t \in DOMAIN tracks
  BY <1>1, TrackTypes DEF WriteSample
<1>3. /\ tracks[t] \in TrackType /\ tracks[t].clock \in ClockType
      /\ tracks[t].firstOffset \in Int
  BY <1>1, <1>2, TrackTypes
<1>4. /\ c.sample \in SampleType /\ c.clock \in ClockType
      /\ c.clock.out = ScaleNearest(c.clock.in, c.clock.from, c.clock.to)
  <2>1. s \in SampleType
    BY FragmentAssumption DEF SampleType
  <2>2. tracks[t].clock.out
          = ScaleNearest(tracks[t].clock.in, tracks[t].clock.from, tracks[t].clock.to)
    BY <1>2 DEF Inv, ClocksAgree
  <2> QED BY <1>3, <2>1, <2>2, ClockSampleType
<1>5. /\ tracks' = [tracks EXCEPT ![t].clock = c.clock, ![t].firstOffset = off,
                                  ![t].written = TRUE]
      /\ call' = [op |-> "write", track |-> t, sample |-> c.sample]
      /\ pc' = IF ShouldFlush(t, c.sample) THEN FlushStart ELSE "take"
  BY DEF WriteSample
<1>6. /\ started' = TRUE /\ pc = "idle" /\ ~closed
      /\ UNCHANGED <<traks, headerOut, closed, complete, sequence, index, file, faults>>
  BY DEF WriteSample
<1> HIDE DEF c
<1>7. off \in Int
  BY <1>3, <1>4 DEF SampleType
<1> HIDE DEF off
<1>8. /\ k \in TrackType /\ k.clock = c.clock
      /\ k.pending = tracks[t].pending /\ k.id = tracks[t].id
      /\ k.nextTime = tracks[t].nextTime
  BY <1>3, <1>4, <1>7 DEF TrackType
<1>9. tracks' = [tracks EXCEPT ![t] = k]
  BY <1>2, <1>5
<1> HIDE DEF k
<1>10. /\ tracks' \in Seq(TrackType) /\ DOMAIN tracks' = DOMAIN tracks
       /\ tracks'[t] = k
       /\ \A u \in DOMAIN tracks : u # t => tracks'[u] = tracks[u]
  <2>1. tracks \in Seq(TrackType)
    BY <1>1 DEF TypeOK
  <2> QED BY <1>2, <1>8, <1>9, <2>1, ExceptSeq
<1>11. \A u \in DOMAIN tracks :
         /\ tracks'[u].pending = tracks[u].pending /\ tracks'[u].id = tracks[u].id
         /\ tracks'[u].nextTime = tracks[u].nextTime
  BY <1>8, <1>10
<1>12. call' \in CallType /\ call'.op = "write" /\ call'.track = t /\ call'.sample = c.sample
  <2>1. t \in Nat
    BY <1>2
  <2> QED BY <1>4, <1>5, <2>1 DEF CallType, SampleType
<1>13. pc' \in {"take", "header", "fragment"}
  BY <1>5 DEF FlushStart
<1>14. TypeOK'
  BY <1>1, <1>6, <1>10, <1>12, <1>13 DEF TypeOK
<1>15. Buffering' <=> Buffering
  BY <1>10, <1>11 DEF Buffering
<1>16. Control'
  <2>2. pc' = "header" => ~headerOut /\ Buffering
    BY <1>2, <1>5 DEF FlushStart, ShouldFlush, Buffering
  <2>3. pc' = "fragment" => headerOut /\ Buffering
    BY <1>2, <1>5 DEF FlushStart, ShouldFlush, Buffering
  <2>4. ~complete
    BY <1>1, <1>6 DEF Control
  <2> QED BY <1>2, <1>4, <1>6, <1>10, <1>12, <1>13, <1>15, <2>2, <2>3, <2>4 DEF Control
<1>17. Progress'
  BY <1>6 DEF Inv, Progress, Indexed, Readable
<1>18. TracksApart'
  <2>1. TracksApart
    BY DEF Inv
  <2> QED BY <1>6, <1>10, <1>11, <2>1 DEF TracksApart
<1>19. ClocksAgree'
  <2>1. ClocksAgree
    BY DEF Inv
  <2> QED BY <1>4, <1>8, <1>10, <2>1 DEF ClocksAgree
<1>20. PendingRunsOn'
  <2>1. PendingRunsOn
    BY DEF Inv
  <2> QED BY <1>10, <1>11, <2>1 DEF PendingRunsOn
<1>21. HeldWithinLimit'
  BY <1>6 DEF Inv, HeldWithinLimit, SizeOf
<1> QED BY <1>14, <1>16, <1>17, <1>18, <1>19, <1>20, <1>21 DEF Inv

(* What TakeSample makes of the track.                                     *)
LEMMA TakenTrack ==
    ASSUME Inv, TakeSample
    PROVE  LET u == call.track
               s == call.sample
               taken == [len |-> s.len, dur |-> s.dur, offset |-> s.offset, sync |-> s.sync,
                         time |-> tracks[u].nextTime]
           IN  /\ u \in DOMAIN tracks /\ s \in SampleType /\ taken \in PendingType
               /\ tracks' \in Seq(TrackType) /\ DOMAIN tracks' = DOMAIN tracks
               /\ tracks'[u].pending = Append(tracks[u].pending, taken)
               /\ tracks'[u].nextTime = tracks[u].nextTime + s.dur
               /\ tracks'[u].id = tracks[u].id /\ tracks'[u].clock = tracks[u].clock
               /\ tracks'[u].written = tracks[u].written
               /\ tracks'[u].firstOffset = tracks[u].firstOffset
               /\ tracks'[u].priming = tracks[u].priming
               /\ \A v \in DOMAIN tracks : v # u => tracks'[v] = tracks[v]
<1> DEFINE u == call.track
           s == call.sample
           taken == [len |-> s.len, dur |-> s.dur, offset |-> s.offset, sync |-> s.sync,
                     time |-> tracks[u].nextTime]
           p == Append(tracks[u].pending, taken)
           n == tracks[u].nextTime + s.dur
           b == tracks[u].buffered + s.dur
           k == [tracks[u] EXCEPT !.pending = p, !.nextTime = n, !.buffered = b]
<1>1. TypeOK /\ pc = "take"
  BY DEF Inv, TakeSample
<1>2. u \in DOMAIN tracks /\ s \in SampleType
  BY <1>1 DEF Inv, Control
<1>3. /\ tracks[u] \in TrackType /\ tracks[u].nextTime \in Nat /\ tracks[u].buffered \in Nat
      /\ tracks[u].pending \in Seq(PendingType)
  BY <1>1, <1>2, TrackTypes
<1>4. /\ s.len \in Nat \ {0} /\ s.dur \in Nat /\ s.offset \in Int /\ s.sync \in BOOLEAN
  BY <1>2 DEF SampleType
<1>5. taken \in PendingType
  BY <1>3, <1>4 DEF PendingType
<1>6. tracks' = [tracks EXCEPT ![u].pending = p, ![u].nextTime = n, ![u].buffered = b]
  BY DEF TakeSample
<1>7. p \in Seq(PendingType) /\ n \in Nat /\ b \in Nat
  <2>1. n \in Nat /\ b \in Nat
    BY <1>3, <1>4, SMTT(30)
  <2> HIDE DEF taken, n, b
  <2> QED BY <1>3, <1>5, <2>1, AppendProperties
<1> HIDE DEF p, n, b
<1>8. /\ k \in TrackType /\ k.pending = p /\ k.nextTime = n /\ k.id = tracks[u].id
      /\ k.clock = tracks[u].clock /\ k.written = tracks[u].written
      /\ k.firstOffset = tracks[u].firstOffset /\ k.priming = tracks[u].priming
  BY <1>3, <1>7 DEF TrackType
<1>9. tracks' = [tracks EXCEPT ![u] = k]
  BY <1>2, <1>6
<1> HIDE DEF k
<1>10. tracks \in Seq(TrackType) /\ DOMAIN tracks = 1..Len(tracks)
  BY <1>1, TrackTypes DEF TypeOK
<1>11. /\ tracks' \in Seq(TrackType) /\ DOMAIN tracks' = DOMAIN tracks /\ tracks'[u] = k
       /\ \A v \in DOMAIN tracks : v # u => tracks'[v] = tracks[v]
  BY <1>2, <1>8, <1>9, <1>10, ExceptSeq
<1> QED BY <1>2, <1>5, <1>8, <1>11 DEF p, n

(* Taking a sample keeps the invariant: its time is where the track ends,  *)
(* and the held bytes are under the limit or the fragment goes out.        *)
LEMMA TakeSampleInv == Inv /\ TakeSample /\ UNCHANGED setup => Inv'
<1> SUFFICES ASSUME Inv, TakeSample, UNCHANGED setup PROVE Inv'
  OBVIOUS
<1> DEFINE u == call.track
           s == call.sample
           taken == [len |-> s.len, dur |-> s.dur, offset |-> s.offset, sync |-> s.sync,
                     time |-> tracks[u].nextTime]
<1>1. /\ u \in DOMAIN tracks /\ s \in SampleType /\ taken \in PendingType
      /\ tracks' \in Seq(TrackType) /\ DOMAIN tracks' = DOMAIN tracks
      /\ tracks'[u].pending = Append(tracks[u].pending, taken)
      /\ tracks'[u].nextTime = tracks[u].nextTime + s.dur
      /\ tracks'[u].id = tracks[u].id /\ tracks'[u].clock = tracks[u].clock
      /\ \A v \in DOMAIN tracks : v # u => tracks'[v] = tracks[v]
  BY TakenTrack
<1>2. /\ pc' = "idle" /\ call' = NoCall /\ pc = "take"
      /\ UNCHANGED <<traks, started, headerOut, closed, complete, sequence, index, file, faults>>
  BY DEF TakeSample
<1>3. taken.time = tracks[u].nextTime /\ taken.dur = s.dur
  OBVIOUS
<1>4. TypeOK /\ Control /\ Progress /\ TracksApart /\ ClocksAgree /\ PendingRunsOn
  BY DEF Inv
<1> HIDE DEF taken
<1>5. ~complete /\ call.op = "write"
  BY <1>2, <1>4 DEF Control
<1>6. TypeOK'
  <2>1. NoCall \in CallType
    BY DEF NoCall, CallType
  <2> QED BY <1>1, <1>2, <1>4, <2>1 DEF TypeOK
<1>7. Control'
  <2>1. NoCall.op = "none"
    BY DEF NoCall
  <2> QED BY <1>2, <1>5, <2>1 DEF Control
<1>8. Progress'
  <2>1. started
    BY <1>4, <1>5 DEF Progress, Control
  <2> QED BY <1>2, <1>4, <2>1 DEF Progress, Indexed, Readable
<1>9. TracksApart' /\ ClocksAgree'
  <2>1. \A v \in DOMAIN tracks :
          tracks'[v].id = tracks[v].id /\ tracks'[v].clock = tracks[v].clock
    BY <1>1
  <2> QED BY <1>1, <1>2, <1>4, <2>1 DEF TracksApart, ClocksAgree
<1>11. PendingRunsOn'
  <2> SUFFICES ASSUME NEW t \in DOMAIN tracks, NEW i \in DOMAIN tracks'[t].pending
               PROVE  tracks'[t].pending[i].time + tracks'[t].pending[i].dur
                        = IF i = Len(tracks'[t].pending) THEN tracks'[t].nextTime
                          ELSE tracks'[t].pending[i + 1].time
    BY <1>1 DEF PendingRunsOn
  <2>1. CASE t # u
    BY <1>1, <1>4, <2>1 DEF PendingRunsOn
  <2>2. CASE t = u
    <3> DEFINE p == tracks[u].pending
               q == tracks'[u].pending
    <3>1. p \in Seq(PendingType) /\ Len(p) \in Nat /\ DOMAIN p = 1..Len(p)
      BY <1>1, <1>4, TrackTypes
    <3>2. q = Append(p, taken)
      BY <1>1
    <3>3. /\ Len(q) = Len(p) + 1 /\ DOMAIN q = 1..(Len(p) + 1)
          /\ \A j \in 1..Len(p) : q[j] = p[j]
          /\ q[Len(p) + 1] = taken
      <4> HIDE DEF p, q
      <4> QED BY <1>1, <3>1, <3>2, AppendProperties, LenProperties
    <3>4. \A j \in DOMAIN p :
            p[j].time + p[j].dur = IF j = Len(p) THEN tracks[u].nextTime ELSE p[j + 1].time
      BY <1>1, <1>4 DEF PendingRunsOn
    <3>5. i \in DOMAIN q
      BY <2>2
    <3> HIDE DEF p, q
    <3>6. CASE i = Len(p) + 1
      BY <1>1, <1>3, <2>2, <3>3, <3>6 DEF q
    <3>7. CASE i # Len(p) + 1
      <4>1. i \in 1..Len(p) /\ i # Len(q)
        BY <3>1, <3>3, <3>5, <3>7
      <4>2. q[i] = p[i] /\ (i # Len(p) => q[i + 1] = p[i + 1])
        BY <3>1, <3>3, <4>1
      <4>3. q[i].time + q[i].dur = q[i + 1].time
        <5>1. CASE i = Len(p)
          BY <1>3, <3>1, <3>3, <3>4, <4>1, <4>2, <5>1
        <5>2. CASE i # Len(p)
          BY <3>1, <3>4, <4>1, <4>2, <5>2
        <5> QED BY <5>1, <5>2
      <4> QED BY <2>2, <4>1, <4>3 DEF q
    <3> QED BY <3>6, <3>7
  <2> QED BY <2>1, <2>2
<1>12. HeldWithinLimit'
  BY <1>2 DEF Inv, HeldWithinLimit, SizeOf
<1> QED BY <1>6, <1>7, <1>8, <1>9, <1>11, <1>12 DEF Inv

(* The calls Flush and Close make.                                         *)
LEMMA CallsType ==
    /\ NoCall \in CallType /\ NoCall.op = "none"
    /\ \A op \in {"flush", "close"} :
         [NoCall EXCEPT !.op = op] \in CallType /\ [NoCall EXCEPT !.op = op].op = op
<1>1. NoCall \in CallType /\ NoCall.op = "none"
  BY DEF NoCall, CallType
<1> HIDE DEF NoCall
<1> QED BY <1>1 DEF CallType

(* A step that changes nothing a track or the held fragments depend on.    *)
LEMMA QuietStep ==
    ASSUME Inv, UNCHANGED <<setup, traks, tracks, index>>
    PROVE  /\ TracksApart' /\ ClocksAgree' /\ PendingRunsOn' /\ HeldWithinLimit'
           /\ Buffering' <=> Buffering
<1>1. TracksApart' /\ ClocksAgree' /\ PendingRunsOn'
  BY SameTracks
<1>2. HeldWithinLimit'
  BY DEF Inv, HeldWithinLimit, SizeOf
<1> QED BY <1>1, <1>2 DEF Buffering

(* The start of a call to Flush keeps the invariant.                       *)
LEMMA FlushInv == Inv /\ Flush /\ UNCHANGED setup => Inv'
<1> SUFFICES ASSUME Inv, Flush, UNCHANGED setup PROVE Inv'
  OBVIOUS
<1>1. /\ pc = "idle" /\ ~closed /\ Buffering
      /\ call' = [NoCall EXCEPT !.op = "flush"] /\ pc' = FlushStart
      /\ UNCHANGED <<traks, tracks, started, headerOut, closed, complete, sequence, index,
                     file, faults>>
  BY DEF Flush
<1>2. call' \in CallType /\ call'.op = "flush"
  BY <1>1, CallsType
<1>3. /\ TracksApart' /\ ClocksAgree' /\ PendingRunsOn' /\ HeldWithinLimit'
      /\ Buffering' <=> Buffering
  BY <1>1, QuietStep
<1>4. TypeOK'
  BY <1>1, <1>2 DEF Inv, TypeOK, FlushStart
<1>5. Control'
  BY <1>1, <1>2, <1>3 DEF Inv, Control, FlushStart
<1>6. Progress'
  BY <1>1 DEF Inv, Progress, Indexed, Readable
<1> QED BY <1>3, <1>4, <1>5, <1>6 DEF Inv

(* The start of a call to Close keeps the invariant.                       *)
LEMMA CloseInv == Inv /\ Close /\ UNCHANGED setup => Inv'
<1> SUFFICES ASSUME Inv, Close, UNCHANGED setup PROVE Inv'
  OBVIOUS
<1>1. /\ pc = "idle" /\ ~closed
      /\ UNCHANGED <<traks, tracks, started, headerOut, complete, sequence, index, file, faults>>
  BY DEF Close
<1>2. /\ TracksApart' /\ ClocksAgree' /\ PendingRunsOn' /\ HeldWithinLimit'
      /\ Buffering' <=> Buffering
  BY <1>1, QuietStep
<1>3. Progress'
  BY <1>1 DEF Inv, Progress, Indexed, Readable
<1>4. CASE tracks = <<>>
  <2>1. closed' = TRUE /\ UNCHANGED <<pc, call>>
    BY <1>4 DEF Close
  <2>2. TypeOK' /\ Control'
    BY <1>1, <1>2, <2>1 DEF Inv, TypeOK, Control
  <2> QED BY <1>2, <1>3, <2>2 DEF Inv
<1>5. CASE tracks # <<>>
  <2>1. /\ closed' = FALSE /\ call' = [NoCall EXCEPT !.op = "close"]
        /\ pc' = IF headerOut THEN AfterHeader ELSE "header"
    BY <1>5 DEF Close
  <2>2. call' \in CallType /\ call'.op = "close"
    BY <2>1, CallsType
  <2>3. TypeOK'
    BY <1>1, <2>1, <2>2 DEF Inv, TypeOK, AfterHeader
  <2>4. Control'
    BY <1>1, <1>2, <2>1, <2>2 DEF Inv, Control, AfterHeader
  <2> QED BY <1>2, <1>3, <2>3, <2>4 DEF Inv
<1> QED BY <1>4, <1>5

(* The end of a call to Close keeps the invariant.                         *)
LEMMA ClosingInv == Inv /\ Closing /\ UNCHANGED setup => Inv'
<1> SUFFICES ASSUME Inv, Closing, UNCHANGED setup PROVE Inv'
  OBVIOUS
<1>1. /\ pc = "closing" /\ closed' = TRUE
      /\ UNCHANGED <<traks, tracks, started, headerOut, sequence, index, file, faults>>
  BY DEF Closing
<1>2. /\ TracksApart' /\ ClocksAgree' /\ PendingRunsOn' /\ HeldWithinLimit'
      /\ Buffering' <=> Buffering
  BY <1>1, QuietStep
<1>3. Progress'
  BY <1>1 DEF Inv, Progress, Indexed, Readable
<1>4. NoCall \in CallType /\ NoCall.op = "none"
  BY DEF NoCall, CallType
<1>5. TypeOK'
  BY <1>1, <1>4 DEF Closing, Inv, TypeOK, Control
<1>6. Control'
  BY <1>1, <1>2, <1>4 DEF Closing, Inv, Control, Indexed
<1> QED BY <1>2, <1>3, <1>5, <1>6 DEF Inv

(***************************************************************************)
(* The initialisation segment.                                             *)
(***************************************************************************)
LEMMA WithEditsType ==
    ASSUME TypeOK
    PROVE  /\ WithEdits \in Seq(TrakType) /\ Len(WithEdits) = Len(traks)
           /\ InitSegment(WithEdits) \in Box
           /\ InitSegment(WithEdits).box = "init" /\ InitSegment(WithEdits).size = InitLen
<1>1. traks \in Seq(TrakType) /\ Len(traks) \in Nat /\ DOMAIN traks = 1..Len(traks)
  BY LenProperties DEF TypeOK
<1>2. \A t \in DOMAIN tracks : PresentationStart(t) \in Int
  BY TrackTypes DEF PresentationStart, Greater
<1>3. \A id \in DOMAIN traks : traks[id] \in TrakType
  BY <1>1, ElementOfSeq
<1>4. ASSUME NEW id \in DOMAIN traks
      PROVE  WithEdits[id] \in TrakType
  <2> DEFINE starts == {PresentationStart(t) : t \in {u \in DOMAIN tracks : tracks[u].id = id}}
             e == {s \in starts : s > 0}
  <2>1. e \in SUBSET Int
    BY <1>2
  <2>2. WithEdits[id] = IF traks[id].edts # {} THEN traks[id] ELSE [traks[id] EXCEPT !.edts = e]
    BY DEF WithEdits
  <2> HIDE DEF e
  <2> QED BY <1>3, <2>1, <2>2 DEF TrakType
<1>5. WithEdits \in [1..Len(traks) -> TrakType]
  BY <1>1, <1>4 DEF WithEdits
<1>6. WithEdits \in Seq(TrakType) /\ Len(WithEdits) = Len(traks)
  BY <1>1, <1>5, FunctionIsSeq
<1>7. InitLen \in Nat \ {0}
  BY FragmentAssumption
<1> QED BY <1>6, <1>7 DEF InitSegment, Box, HeaderBox

(* A write that breaks off leaves a box of one byte.                       *)
LEMMA TornIsBox == Torn \in Box /\ Torn.box = "torn" /\ Torn.size = 1
BY DEF Torn, Box, TornBox

(* A call that fails leaves the muxer idle.                                *)
LEMMA FailsControl ==
    ASSUME Inv, Fails, pc \notin {"idle", "take"}, headerOut => headerOut',
           DOMAIN tracks' = DOMAIN tracks
    PROVE  Control' /\ call' \in CallType /\ pc' = "idle" /\ complete' = FALSE /\ closed' \in BOOLEAN
<1>1. NoCall \in CallType /\ NoCall.op = "none"
  BY DEF NoCall, CallType
<1> QED BY <1>1 DEF Fails, Control

(* The initialisation segment keeps the invariant.                         *)
LEMMA WriteHeaderInv == Inv /\ WriteHeader /\ UNCHANGED setup => Inv'
<1> SUFFICES ASSUME Inv, WriteHeader, UNCHANGED setup PROVE Inv'
  OBVIOUS
<1> DEFINE seg == InitSegment(WithEdits)
<1>1. /\ pc = "header" /\ traks' = WithEdits /\ file' = Append(file, seg)
      /\ headerOut' = TRUE
      /\ index' = IF Indexed /\ Readable THEN [index EXCEPT !.start = SizeOf(file')] ELSE index
      /\ pc' = AfterHeader
      /\ UNCHANGED <<tracks, started, closed, complete, sequence, call, faults>>
  BY DEF WriteHeader
<1>2. TypeOK /\ Control /\ Progress
  BY DEF Inv
<1>3. ~complete /\ file \in Seq(Box) /\ ~closed /\ ~headerOut
  BY <1>1, <1>2 DEF TypeOK, Control
<1>4. WithEdits \in Seq(TrakType) /\ Len(WithEdits) = Len(traks) /\ seg \in Box
  BY <1>2, WithEditsType
<1> HIDE DEF seg
<1>5. file' \in Seq(Box)
  BY <1>1, <1>3, <1>4, AppendProperties
<1>6. SizeOf(file') \in Nat
  BY <1>5, SizeType, BoxKinds
<1>7. /\ index' \in [start : Nat, held : Seq(FragmentBox), fragments : Seq(NotedType)]
      /\ index'.held = index.held /\ index'.fragments = index.fragments
  <2>1. index \in [start : Nat, held : Seq(FragmentBox), fragments : Seq(NotedType)]
    BY <1>2 DEF TypeOK
  <2> DEFINE size == SizeOf(file')
  <2>2. index' = IF Indexed /\ Readable THEN [index EXCEPT !.start = size] ELSE index
    BY <1>1
  <2> HIDE DEF size
  <2> QED BY <1>6, <2>1, <2>2 DEF size
<1>8. TypeOK'
  BY <1>1, <1>2, <1>4, <1>5, <1>7 DEF TypeOK, AfterHeader
<1>9. Control'
  <2>1. call.op # "none" /\ pc' \in {"fragment", "closing"}
    BY <1>1, <1>2 DEF Control, AfterHeader
  <2>2. pc' = "fragment" => Buffering
    BY <1>1 DEF AfterHeader
  <2>3. pc' = "closing" => call.op = "close" /\ ~Buffering
    BY <1>1, <1>2 DEF Control, AfterHeader, TypeOK
  <2>4. Buffering' <=> Buffering
    BY <1>1 DEF Buffering
  <2> QED BY <1>1, <1>2, <1>3, <2>1, <2>2, <2>3, <2>4 DEF Control
<1>10. Progress'
  BY <1>1, <1>2, <1>3, <1>7 DEF Progress, Indexed, Readable
<1>11. TracksApart' /\ ClocksAgree' /\ PendingRunsOn'
  BY <1>1, <1>4, SameTracks
<1>12. HeldWithinLimit'
  BY <1>7 DEF Inv, HeldWithinLimit
<1> QED BY <1>8, <1>9, <1>10, <1>11, <1>12 DEF Inv

(* A refused initialisation segment keeps the invariant.                   *)
LEMMA HeaderFailsInv == Inv /\ HeaderFails /\ UNCHANGED setup => Inv'
<1> SUFFICES ASSUME Inv, HeaderFails, UNCHANGED setup PROVE Inv'
  OBVIOUS
<1>1. /\ pc = "header" /\ traks' = WithEdits /\ file' \in {file, Append(file, Torn)}
      /\ faults' = [faults EXCEPT !.header = @ + 1] /\ Fails
      /\ UNCHANGED <<tracks, started, headerOut, sequence, index>>
  BY DEF HeaderFails
<1>2. TypeOK /\ Control
  BY DEF Inv
<1>3. ~complete /\ file \in Seq(Box)
  BY <1>1, <1>2 DEF TypeOK, Control
<1>4. WithEdits \in Seq(TrakType) /\ Len(WithEdits) = Len(traks)
  BY <1>2, WithEditsType
<1>5. file' \in Seq(Box)
  BY <1>1, <1>3, TornIsBox, AppendProperties
<1>6. faults' \in [header : Nat, seek : Nat, media : Nat]
  <2>1. faults \in [header : Nat, seek : Nat, media : Nat]
    BY <1>2 DEF TypeOK
  <2> QED BY <1>1, <2>1
<1>7. Control' /\ call' \in CallType /\ pc' = "idle" /\ complete' = FALSE /\ closed' \in BOOLEAN
  BY <1>1, FailsControl
<1>8. TypeOK'
  BY <1>1, <1>2, <1>4, <1>5, <1>6, <1>7 DEF TypeOK
<1>9. Progress' /\ HeldWithinLimit'
  BY <1>1 DEF Inv, Progress, Indexed, Readable, HeldWithinLimit
<1>10. TracksApart' /\ ClocksAgree' /\ PendingRunsOn'
  BY <1>1, <1>4, SameTracks
<1> QED BY <1>7, <1>8, <1>9, <1>10 DEF Inv

(* An index whose place is not found keeps the invariant.                  *)
LEMMA BeginFailsInv == Inv /\ BeginFails /\ UNCHANGED setup => Inv'
<1> SUFFICES ASSUME Inv, BeginFails, UNCHANGED setup PROVE Inv'
  OBVIOUS
<1> DEFINE seg == InitSegment(WithEdits)
<1>1. /\ pc = "header" /\ traks' = WithEdits /\ file' = Append(file, seg)
      /\ headerOut' = TRUE /\ faults' = [faults EXCEPT !.seek = @ + 1] /\ Fails
      /\ UNCHANGED <<tracks, started, sequence, index>>
  BY DEF BeginFails
<1>2. TypeOK /\ Control
  BY DEF Inv
<1>3. ~complete /\ file \in Seq(Box)
  BY <1>1, <1>2 DEF TypeOK, Control
<1>4. WithEdits \in Seq(TrakType) /\ Len(WithEdits) = Len(traks) /\ seg \in Box
  BY <1>2, WithEditsType
<1> HIDE DEF seg
<1>5. file' \in Seq(Box)
  BY <1>1, <1>3, <1>4, AppendProperties
<1>6. faults' \in [header : Nat, seek : Nat, media : Nat]
  <2>1. faults \in [header : Nat, seek : Nat, media : Nat]
    BY <1>2 DEF TypeOK
  <2> QED BY <1>1, <2>1
<1>7. Control' /\ call' \in CallType /\ pc' = "idle" /\ complete' = FALSE /\ closed' \in BOOLEAN
  BY <1>1, FailsControl
<1>8. TypeOK'
  BY <1>1, <1>2, <1>4, <1>5, <1>6, <1>7 DEF TypeOK
<1>9. Progress' /\ HeldWithinLimit'
  BY <1>1 DEF Inv, Progress, Indexed, Readable, HeldWithinLimit
<1>10. TracksApart' /\ ClocksAgree' /\ PendingRunsOn'
  BY <1>1, <1>4, SameTracks
<1> QED BY <1>7, <1>8, <1>9, <1>10 DEF Inv

(***************************************************************************)
(* Fragments.                                                              *)
(***************************************************************************)
LEMMA WriteFragmentInv == Inv /\ WriteFragment /\ UNCHANGED setup => Inv'
<1> SUFFICES ASSUME Inv, WriteFragment, UNCHANGED setup PROVE Inv'
  OBVIOUS
<1>1. /\ pc = "fragment" /\ IndexTakes /\ sequence' = sequence + 1 /\ tracks' = Emptied
      /\ AfterFragment
      /\ UNCHANGED <<traks, started, headerOut, closed, complete, faults>>
  BY DEF WriteFragment
<1>2. PICK k \in Tightening :
        LET frag == Fragment(FragmentSize - k)
            noted == Append(index.fragments, Noted(frag))
        IN  IF Indexed /\ ~Readable
            THEN /\ index' = [index EXCEPT !.held = Append(@, frag), !.fragments = noted]
                 /\ file' = file
            ELSE /\ file' = Append(file, frag)
                 /\ index' = IF Indexed THEN [index EXCEPT !.fragments = noted] ELSE index
  BY DEF WriteFragment
<1> DEFINE frag == Fragment(FragmentSize - k)
           noted == Append(index.fragments, Noted(frag))
           held == Append(index.held, frag)
<1>3. TypeOK /\ Control /\ Progress /\ HeldWithinLimit
  BY DEF Inv
<1>4. Buffering /\ ~complete /\ ~closed /\ headerOut /\ file \in Seq(Box)
  BY <1>1, <1>3 DEF Control, TypeOK
<1>5. /\ frag \in FragmentBox /\ frag.size = FragmentSize - k /\ frag.size <= FragmentSize
      /\ FragmentSize \in Nat
  BY <1>3, <1>4, FragmentType, FragmentSizeType
<1>6. noted \in Seq(NotedType)
  <2>1. index.fragments \in Seq(NotedType)
    BY <1>3 DEF TypeOK
  <2>2. Noted(frag) \in NotedType
    BY <1>3, <1>5, NotedIsNoted
  <2> HIDE DEF frag
  <2> QED BY <2>1, <2>2, AppendProperties
<1>7. held \in Seq(FragmentBox) /\ SizeOf(held) = SizeOf(index.held) + frag.size
  <2>1. index.held \in Seq(FragmentBox)
    BY <1>3 DEF TypeOK
  <2>2. \A b \in FragmentBox : b.size \in Nat
    BY DEF FragmentBox
  <2> HIDE DEF frag
  <2> QED BY <1>5, <2>1, <2>2, AppendProperties, SizeAppend
<1>8. \/ /\ Indexed /\ ~Readable /\ file' = file
         /\ index' = [index EXCEPT !.held = held, !.fragments = noted]
      \/ /\ Indexed /\ Readable /\ file' = Append(file, frag)
         /\ index' = [index EXCEPT !.fragments = noted]
      \/ ~Indexed /\ file' = Append(file, frag) /\ index' = index
  BY <1>2
<1> HIDE DEF frag, noted, held
<1>9. file' \in Seq(Box)
  <2>1. frag \in Box
    BY <1>5 DEF Box
  <2> QED BY <1>4, <1>8, <2>1, AppendProperties
<1>10. /\ index' \in [start : Nat, held : Seq(FragmentBox), fragments : Seq(NotedType)]
       /\ \/ index'.held = index.held
          \/ index'.held = held /\ Indexed /\ ~Readable
       /\ ~Indexed => index' = index
  <2>1. index \in [start : Nat, held : Seq(FragmentBox), fragments : Seq(NotedType)]
    BY <1>3 DEF TypeOK
  <2> QED BY <1>6, <1>7, <1>8, <2>1
<1>11. /\ tracks' \in Seq(TrackType) /\ DOMAIN tracks' = DOMAIN tracks
       /\ \A t \in DOMAIN tracks :
            tracks'[t].pending = <<>> /\ tracks'[t].nextTime = tracks[t].nextTime
       /\ ~Buffering' /\ TracksApart' /\ ClocksAgree' /\ PendingRunsOn'
  BY <1>1, EmptiedTracks
<1>12. /\ call' \in CallType /\ pc' \in {"take", "idle", "closing"}
       /\ pc' = "idle" <=> call'.op = "none"
       /\ pc' = "take" => call'.op = "write"
       /\ pc' = "closing" => call'.op = "close"
       /\ call'.op = "write" => call' = call
  <2>1. call.op \in {"write", "flush", "close"} /\ call \in CallType
    BY <1>1, <1>3 DEF TypeOK, CallType, Control
  <2>2. CASE call.op = "write"
    BY <1>1, <2>1, <2>2 DEF AfterFragment
  <2>3. CASE call.op = "flush"
    BY <1>1, <2>1, <2>3, CallsType DEF AfterFragment
  <2>4. CASE call.op = "close"
    BY <1>1, <2>1, <2>4 DEF AfterFragment
  <2> QED BY <2>1, <2>2, <2>3, <2>4
<1>13. TypeOK'
  <2>1. sequence' \in Nat
    BY <1>1, <1>3 DEF TypeOK
  <2> QED BY <1>1, <1>3, <1>9, <1>10, <1>11, <1>12, <2>1 DEF TypeOK
<1>14. Control'
  BY <1>1, <1>3, <1>4, <1>11, <1>12 DEF Control, Indexed
<1>15. Progress'
  <2>1. started
    BY <1>3, <1>4 DEF Progress, Buffering
  <2> QED BY <1>1, <1>3, <1>4, <1>10, <2>1 DEF Progress, Indexed, Readable
<1>16. HeldWithinLimit'
  <2>1. CASE index'.held = index.held
    BY <1>3, <2>1 DEF HeldWithinLimit
  <2>2. CASE index'.held = held /\ Indexed /\ ~Readable
    <3>1. SizeOf(index.held) + FragmentSize <= IndexMemoryLimit
      BY <1>1, <2>2 DEF IndexTakes
    <3>2. SizeOf(index.held) \in Nat /\ IndexMemoryLimit \in Nat /\ frag.size \in Nat
      <4>1. index.held \in Seq(FragmentBox) /\ \A b \in FragmentBox : b.size \in Nat
        BY <1>3 DEF TypeOK, FragmentBox
      <4>2. SizeOf(index.held) \in Nat
        BY <4>1, SizeType
      <4> QED BY <1>5, <4>1, <4>2, FragmentAssumption
    <3>3. SizeOf(held) <= IndexMemoryLimit
      BY <1>5, <1>7, <3>1, <3>2
    <3> QED BY <2>2, <3>3 DEF HeldWithinLimit
  <2> QED BY <1>10, <2>1, <2>2
<1> QED BY <1>11, <1>13, <1>14, <1>15, <1>16 DEF Inv

(* A fragment that is refused, and one that fails, give up the samples too.*)
LEMMA LostFragment ==
    ASSUME Inv, pc = "fragment", sequence' = sequence + 1, tracks' = Emptied, Fails,
           UNCHANGED <<setup, traks, started, headerOut, index>>,
           ~complete => file' \in Seq(Box),
           faults' \in [header : Nat, seek : Nat, media : Nat]
    PROVE  Inv'
<1>1. TypeOK /\ Control /\ Progress
  BY DEF Inv
<1>2. ~complete /\ headerOut /\ Buffering
  BY <1>1 DEF Control
<1>3. /\ tracks' \in Seq(TrackType) /\ DOMAIN tracks' = DOMAIN tracks
      /\ \A t \in DOMAIN tracks :
           tracks'[t].pending = <<>> /\ tracks'[t].nextTime = tracks[t].nextTime
      /\ TracksApart' /\ ClocksAgree' /\ PendingRunsOn'
  BY EmptiedTracks
<1>4. Control' /\ call' \in CallType /\ pc' = "idle" /\ complete' = FALSE /\ closed' \in BOOLEAN
  BY <1>3, FailsControl
<1>5. TypeOK'
  <2>1. sequence' \in Nat
    BY <1>1 DEF TypeOK
  <2> QED BY <1>1, <1>2, <1>3, <1>4, <2>1 DEF TypeOK
<1>6. Progress'
  <2>1. started
    BY <1>1, <1>2 DEF Progress, Buffering
  <2> QED BY <1>1, <1>2, <2>1 DEF Progress, Indexed, Readable
<1>7. HeldWithinLimit'
  BY DEF Inv, HeldWithinLimit
<1> QED BY <1>3, <1>4, <1>5, <1>6, <1>7 DEF Inv

(* A fragment that is refused keeps the invariant: its samples are gone,   *)
(* and its number with them.                                               *)
LEMMA FragmentRefusedInv == Inv /\ FragmentRefused /\ UNCHANGED setup => Inv'
<1> SUFFICES ASSUME Inv, FragmentRefused, UNCHANGED setup PROVE Inv'
  OBVIOUS
<1>1. /\ pc = "fragment" /\ sequence' = sequence + 1 /\ tracks' = Emptied /\ Fails
      /\ UNCHANGED <<traks, started, headerOut, index, file, faults>>
  BY DEF FragmentRefused
<1>2. (~complete => file' \in Seq(Box)) /\ faults' \in [header : Nat, seek : Nat, media : Nat]
  BY <1>1 DEF Inv, TypeOK
<1> QED BY <1>1, <1>2, LostFragment

(* A fragment that goes out in part keeps the invariant.                   *)
LEMMA FragmentFailsInv == Inv /\ FragmentFails /\ UNCHANGED setup => Inv'
<1> SUFFICES ASSUME Inv, FragmentFails, UNCHANGED setup PROVE Inv'
  OBVIOUS
<1>1. /\ pc = "fragment" /\ sequence' = sequence + 1 /\ tracks' = Emptied /\ Fails
      /\ file' \in {file, Append(file, Torn)} /\ faults' = [faults EXCEPT !.media = @ + 1]
      /\ UNCHANGED <<traks, started, headerOut, index>>
  BY DEF FragmentFails
<1>2. ~complete => file' \in Seq(Box)
  <2>1. ~complete => file \in Seq(Box)
    BY DEF Inv, TypeOK
  <2> QED BY <1>1, <2>1, TornIsBox, AppendProperties
<1>3. faults' \in [header : Nat, seek : Nat, media : Nat]
  <2>1. faults \in [header : Nat, seek : Nat, media : Nat]
    BY DEF Inv, TypeOK
  <2> QED BY <1>1, <2>1
<1> QED BY <1>1, <1>2, <1>3, LostFragment

(***************************************************************************)
(* The index.                                                              *)
(***************************************************************************)
LEMMA FinishIndexInv == Inv /\ FinishIndex /\ UNCHANGED setup => Inv'
<1> SUFFICES ASSUME Inv, FinishIndex, UNCHANGED setup PROVE Inv'
  OBVIOUS
<1>1. /\ pc = "index" /\ index' = [index EXCEPT !.held = <<>>]
      /\ pc' = "idle" /\ call' = NoCall /\ complete' = TRUE
      /\ UNCHANGED <<traks, tracks, started, headerOut, closed, sequence, faults>>
  BY DEF FinishIndex
<1>2. TypeOK /\ Control /\ Progress
  BY DEF Inv
<1>3. /\ index' \in [start : Nat, held : Seq(FragmentBox), fragments : Seq(NotedType)]
      /\ index'.held = <<>> /\ index'.fragments = index.fragments
      /\ index'.start = index.start
  <2>1. index \in [start : Nat, held : Seq(FragmentBox), fragments : Seq(NotedType)]
    BY <1>2 DEF TypeOK
  <2> DEFINE none == <<>>
  <2>2. none \in Seq(FragmentBox) /\ index' = [index EXCEPT !.held = none]
    BY <1>1, EmptySeq
  <2> HIDE DEF none
  <2>3. /\ index' \in [start : Nat, held : Seq(FragmentBox), fragments : Seq(NotedType)]
        /\ index'.held = none /\ index'.fragments = index.fragments
        /\ index'.start = index.start
    BY <2>1, <2>2
  <2> QED BY <2>3 DEF none
<1>4. TypeOK'
  BY <1>1, <1>2, <1>3, CallsType DEF TypeOK
<1>5. Control'
  BY <1>1, <1>2, CallsType DEF Control
<1>6. Progress'
  <2>1. \/ headerOut
        \/ index = [start |-> 0, held |-> <<>>, fragments |-> <<>>]
    BY <1>2 DEF Progress
  <2>2. ~headerOut => index' = [start |-> 0, held |-> <<>>, fragments |-> <<>>]
    BY <1>1, <2>1
  <2> QED BY <1>1, <1>2, <1>3, <2>2 DEF Progress, Indexed, Readable
<1>7. TracksApart' /\ ClocksAgree' /\ PendingRunsOn'
  BY <1>1, SameTracks
<1>8. HeldWithinLimit'
  BY <1>3, SizeOfNone, FragmentAssumption DEF HeldWithinLimit
<1> QED BY <1>4, <1>5, <1>6, <1>7, <1>8 DEF Inv

(***************************************************************************)
(* Where the fragments of the file start.                                  *)
(***************************************************************************)
(* A step that leaves the file and the place of the index alone.           *)
LEMMA StartSame ==
    ASSUME StartInv, UNCHANGED <<setup, file, headerOut>>, index'.start = index.start,
           complete => complete'
    PROVE  StartInv'
BY DEF StartInv, PlaceExists, NoneBefore, Readable

(* Boxes a file begins with start where they did, however it goes on.      *)
LEMMA SameStarts ==
    ASSUME NEW B, NEW boxes \in Seq(B), NEW more \in Seq(B),
           NEW n \in Nat, n <= Len(boxes), n <= Len(more),
           \A i \in 1..n : more[i] = boxes[i]
    PROVE  \A k \in 0..n : Upto(more, k) = Upto(boxes, k)
<1> SUFFICES ASSUME NEW k \in 0..n
             PROVE  Upto(more, k) = Upto(boxes, k)
  OBVIOUS
<1>1. /\ Len(boxes) \in Nat /\ Len(more) \in Nat
      /\ DOMAIN boxes = 1..Len(boxes) /\ DOMAIN more = 1..Len(more)
  BY LenProperties
<1>2. k \in 0..Len(boxes) /\ k \in 0..Len(more) /\ k \in Nat
  BY <1>1
<1>3. \A i \in 1..k : SizesIn(more)[i] = SizesIn(boxes)[i]
  BY <1>1, <1>2 DEF SizesIn
<1>4. SumTo(SizesIn(more), k) = SumTo(SizesIn(boxes), k)
  BY <1>2, <1>3, SumSame
<1> QED BY <1>2, <1>4, SizePrefix DEF Upto

(* Where the boxes of a file with one more start.                          *)
OneMore(boxes, b, more) ==
    /\ more \in Seq(Box) /\ Len(more) = Len(boxes) + 1 /\ Len(boxes) \in Nat
    /\ DOMAIN boxes = 1..Len(boxes) /\ DOMAIN more = 1..(Len(boxes) + 1)
    /\ \A i \in 1..Len(boxes) : more[i] = boxes[i]
    /\ more[Len(boxes) + 1] = b
    /\ \A k \in 0..Len(boxes) : Upto(more, k) = Upto(boxes, k)

(* A box at the end leaves the boxes before it where they are.             *)
LEMMA MoreStarts ==
    ASSUME NEW boxes \in Seq(Box), NEW b \in Box, NEW more, more = Append(boxes, b)
    PROVE  OneMore(boxes, b, more)
<1> DEFINE l == Len(boxes)
<1>1. l \in Nat /\ DOMAIN boxes = 1..l
  BY LenProperties
<1>2. /\ more \in Seq(Box) /\ Len(more) = l + 1 /\ DOMAIN more = 1..(l + 1)
      /\ \A i \in 1..l : more[i] = boxes[i]
      /\ more[l + 1] = b
  BY <1>1, AppendProperties, LenProperties
<1>3. l <= Len(boxes) /\ l <= Len(more)
  BY <1>1, <1>2
<1> HIDE DEF l
<1>4. \A k \in 0..l : Upto(more, k) = Upto(boxes, k)
  BY <1>1, <1>2, <1>3, SameStarts
<1> QED BY <1>1, <1>2, <1>4 DEF l, OneMore

(* Nothing starts behind the end of the file.                              *)
LEMMA StartsWithin ==
    ASSUME NEW boxes \in Seq(Box), NEW n \in 0..Len(boxes)
    PROVE  /\ Upto(boxes, n) \in Nat
           /\ Upto(boxes, n) <= Upto(boxes, Len(boxes))
           /\ Upto(boxes, Len(boxes)) = SizeOf(boxes)
<1>1. Len(boxes) \in Nat /\ Len(boxes) \in 0..Len(boxes) /\ n <= Len(boxes)
  BY LenProperties
<1>2. \A box \in Box : box.size \in Nat \ {0}
  BY BoxKinds
<1>3. /\ SumTo(SizesIn(boxes), n) <= SumTo(SizesIn(boxes), Len(boxes))
      /\ SumTo(SizesIn(boxes), n) \in Nat
  BY <1>1, <1>2, SizesGrow
<1>4. /\ Upto(boxes, n) = SumTo(SizesIn(boxes), n)
      /\ Upto(boxes, Len(boxes)) = SumTo(SizesIn(boxes), Len(boxes))
  BY <1>1, SizePrefix DEF Upto
<1>5. SizeOf(boxes) = SumTo(SizesIn(boxes), Len(boxes))
  BY SizeWhole
<1> QED BY <1>3, <1>4, <1>5

(* A file that has grown by a box.                                         *)
LEMMA StartGrows ==
    ASSUME TypeOK, StartInv, ~complete, NEW b \in Box, file' = Append(file, b),
           index'.start = index.start,
           UNCHANGED setup, headerOut => headerOut', ~headerOut' => b \notin FragmentBox
    PROVE  StartInv'
<1> DEFINE l == Len(file)
<1>1. file \in Seq(Box)
  BY DEF TypeOK
<1>2. /\ file' \in Seq(Box) /\ Len(file') = l + 1 /\ l \in Nat
      /\ DOMAIN file = 1..l /\ DOMAIN file' = 1..(l + 1)
      /\ \A i \in 1..l : file'[i] = file[i]
      /\ file'[l + 1] = b
      /\ \A k \in 0..l : Upto(file', k) = Upto(file, k)
  <2>1. OneMore(file, b, file')
    BY <1>1, MoreStarts
  <2> QED BY <2>1 DEF OneMore
<1>4. PlaceExists /\ NoneBefore /\ (~headerOut => \A j \in DOMAIN file : file[j].box # "fragment")
  BY DEF StartInv
<1>5. Readable' <=> Readable
  BY DEF Readable
<1> HIDE DEF l
<1>6. PlaceExists'
  <2>1. \A n \in 0..l : n \in 0..Len(file')
    BY <1>2
  <2> QED BY <1>2, <1>4, <1>5, <2>1 DEF PlaceExists, l
<1>7. NoneBefore'
  <2> SUFFICES ASSUME Readable, NEW j \in DOMAIN file', file'[j].box = "fragment"
               PROVE  Upto(file', j - 1) >= index.start
    BY <1>5 DEF NoneBefore
  <2>1. j \in 1..l \/ j = l + 1
    BY <1>2
  <2>2. CASE j \in 1..l
    <3>1. j - 1 \in 0..l /\ file[j].box = "fragment" /\ j \in DOMAIN file
      BY <1>2, <2>2
    <3>2. Upto(file, j - 1) >= index.start
      BY <1>4, <3>1 DEF NoneBefore
    <3> QED BY <1>2, <3>1, <3>2
  <2>3. CASE j = l + 1
    <3>1. PICK n \in 0..l : Upto(file, n) = index.start
      BY <1>4 DEF PlaceExists, l
    <3>2. /\ Upto(file, n) \in Nat
          /\ Upto(file, n) <= Upto(file, l)
          /\ Upto(file, l) = SizeOf(file)
      BY <1>1, StartsWithin DEF l
    <3>3. l \in 0..Len(file)
      BY <1>2 DEF l
    <3>4. Upto(file, l) \in Nat
      BY <1>1, <3>3, StartsWithin
    <3>5. j - 1 = l /\ l \in 0..l
      BY <1>2, <2>3
    <3> QED BY <1>2, <3>1, <3>2, <3>4, <3>5
  <2> QED BY <2>1, <2>2, <2>3
<1>8. ~headerOut' => \A j \in DOMAIN file' : file'[j].box # "fragment"
  <2>1. \A j \in DOMAIN file' : j \in 1..l \/ j = l + 1
    BY <1>2
  <2>2. ~headerOut' => b.box # "fragment"
    BY BoxKinds
  <2> QED BY <1>2, <1>4, <2>1, <2>2
<1> QED BY <1>6, <1>7, <1>8 DEF StartInv

(* The initialisation segment, behind which the index is to go.            *)
LEMMA HeaderStart ==
    ASSUME TypeOK, Control, StartInv, WriteHeader, UNCHANGED setup
    PROVE  StartInv'
<1> DEFINE seg == InitSegment(WithEdits)
<1>1. /\ pc = "header" /\ file' = Append(file, seg) /\ headerOut' = TRUE
      /\ index' = IF Indexed /\ Readable THEN [index EXCEPT !.start = SizeOf(file')] ELSE index
  BY DEF WriteHeader
<1>2. ~complete /\ ~headerOut /\ file \in Seq(Box)
  BY <1>1 DEF Control, TypeOK
<1>3. seg \in Box /\ seg.box = "init"
  BY WithEditsType
<1> HIDE DEF seg
<1>4. /\ file' \in Seq(Box) /\ Len(file') = Len(file) + 1 /\ Len(file) \in Nat
      /\ DOMAIN file = 1..Len(file) /\ DOMAIN file' = 1..(Len(file) + 1)
      /\ \A i \in 1..Len(file) : file'[i] = file[i]
      /\ file'[Len(file) + 1] = seg
  <2>1. OneMore(file, seg, file')
    BY <1>1, <1>2, <1>3, MoreStarts
  <2> QED BY <2>1 DEF OneMore
<1>5. CASE Indexed /\ Readable
  <2> DEFINE size == SizeOf(file')
  <2>1. index'.start = size
    <3>1. index' = [index EXCEPT !.start = size]
      BY <1>1, <1>5
    <3>2. index \in [start : Nat, held : Seq(FragmentBox), fragments : Seq(NotedType)]
      BY DEF TypeOK
    <3> HIDE DEF size
    <3> QED BY <3>1, <3>2
  <2>2. Len(file') \in 0..Len(file')
    BY <1>4
  <2>3. Upto(file', Len(file')) = size
    BY <1>4, <2>2, StartsWithin
  <2>4. PlaceExists'
    BY <2>1, <2>2, <2>3 DEF PlaceExists
  <2>5. \A j \in DOMAIN file' : file'[j].box # "fragment"
    <3>1. \A j \in DOMAIN file : file[j].box # "fragment"
      BY <1>2 DEF StartInv
    <3>2. \A j \in DOMAIN file' : j \in 1..Len(file) \/ j = Len(file) + 1
      BY <1>4
    <3> QED BY <1>3, <1>4, <3>1, <3>2
  <2> QED BY <2>4, <2>5 DEF StartInv, NoneBefore
<1>6. CASE ~(Indexed /\ Readable)
  <2>1. index'.start = index.start
    BY <1>1, <1>6
  <2> QED BY <1>1, <1>2, <1>3, <2>1, StartGrows
<1> QED BY <1>5, <1>6

(* The index goes in somewhere within the file.                            *)
LEMMA PlaceType ==
    ASSUME file \in Seq(Box), PlaceExists
    PROVE  /\ InsertAt \in 0..Len(file)
           /\ Readable => Upto(file, InsertAt) = index.start
<1>1. Len(file) \in Nat
  BY LenProperties
<1>2. CASE ~Readable
  BY <1>1, <1>2 DEF InsertAt
<1>3. CASE Readable
  <2>1. \E n \in 0..Len(file) : Upto(file, n) = index.start
    BY <1>3 DEF PlaceExists
  <2>2. /\ BoxesBefore(index.start) \in 0..Len(file)
        /\ Upto(file, BoxesBefore(index.start)) = index.start
    BY <2>1 DEF BoxesBefore, Upto
  <2> QED BY <1>3, <2>2 DEF InsertAt
<1> QED BY <1>2, <1>3

(* The first boxes of a file.                                              *)
LEMMA CutStarts ==
    ASSUME NEW boxes \in Seq(Box), NEW n \in 0..Len(boxes), NEW cut, cut = SubSeq(boxes, 1, n)
    PROVE  /\ cut \in Seq(Box) /\ Len(cut) = n /\ n \in Nat /\ DOMAIN cut = 1..n
           /\ \A i \in 1..n : cut[i] = boxes[i] /\ i \in DOMAIN boxes
           /\ \A k \in 0..n : Upto(cut, k) = Upto(boxes, k)
<1>1. Len(boxes) \in Nat /\ DOMAIN boxes = 1..Len(boxes) /\ n \in Nat /\ n <= Len(boxes)
  BY LenProperties
<1>2. \A i \in 1..n : boxes[i] \in Box
  BY <1>1, ElementOfSeq
<1>3. cut \in Seq(Box) /\ Len(cut) = n /\ \A i \in 1..n : cut[i] = boxes[i]
  <2>1. /\ cut \in Seq(Box) /\ Len(cut) = IF 1 <= n THEN n - 1 + 1 ELSE 0
        /\ \A i \in 1..(n - 1 + 1) : cut[i] = boxes[1 + i - 1]
    BY <1>1, <1>2, SubSeqProperties
  <2> QED BY <1>1, <2>1
<1>4. DOMAIN cut = 1..n
  BY <1>3, LenProperties
<1>5. n <= Len(cut)
  BY <1>1, <1>3
<1>6. \A k \in 0..n : Upto(cut, k) = Upto(boxes, k)
  BY <1>1, <1>3, <1>5, SameStarts
<1> QED BY <1>1, <1>3, <1>4, <1>6

(* An index that fails to be written leaves the file alone, or takes away  *)
(* all behind the place it was to go.                                      *)
LEMMA FailedIndexFile ==
    ASSUME Inv, StartInv, FinishIndexFails, UNCHANGED setup
    PROVE  StartInv' /\ file' \in Seq(Box)
<1>1. /\ pc = "index" /\ Fails /\ UNCHANGED <<headerOut, index>>
      /\ \/ file' = file
         \/ file' = Append(SubSeq(file, 1, InsertAt), Torn)
  BY DEF FinishIndexFails
<1>2. ~complete /\ file \in Seq(Box)
  BY <1>1 DEF Inv, Control, TypeOK
<1>3. CASE file' = file
  BY <1>1, <1>2, <1>3, StartSame
<1>4. CASE file' = Append(SubSeq(file, 1, InsertAt), Torn)
  <2> DEFINE n == InsertAt
             cut == SubSeq(file, 1, n)
  <2>1. PlaceExists /\ NoneBefore /\ (~headerOut => \A j \in DOMAIN file : file[j].box # "fragment")
    BY <1>2 DEF StartInv
  <2>2. n \in 0..Len(file) /\ (Readable => Upto(file, n) = index.start)
    BY <1>2, <2>1, PlaceType
  <2> HIDE DEF n
  <2>3. /\ cut \in Seq(Box) /\ Len(cut) = n /\ n \in Nat /\ DOMAIN cut = 1..n
        /\ \A i \in 1..n : cut[i] = file[i] /\ i \in DOMAIN file
        /\ \A k \in 0..n : Upto(cut, k) = Upto(file, k)
    BY <1>2, <2>2, CutStarts
  <2>4. file' = Append(cut, Torn)
    BY <1>4 DEF n
  <2> HIDE DEF cut
  <2>5. OneMore(cut, Torn, file')
    BY <2>3, <2>4, TornIsBox, MoreStarts
  <2>6. /\ file' \in Seq(Box) /\ Len(file') = n + 1 /\ DOMAIN file' = 1..(n + 1)
        /\ \A i \in 1..n : file'[i] = file[i] /\ i \in DOMAIN file
        /\ file'[n + 1] = Torn
        /\ \A k \in 0..n : Upto(file', k) = Upto(file, k)
    BY <2>3, <2>5 DEF OneMore
  <2>7. \A j \in DOMAIN file' : file'[j].box = "fragment" => j \in 1..n /\ j - 1 \in 0..n
    <3>1. \A j \in DOMAIN file' : j \in 1..n \/ j = n + 1
      BY <2>3, <2>6
    <3>2. file'[n + 1].box # "fragment"
      BY <2>6, TornIsBox
    <3>3. \A j \in 1..n : j - 1 \in 0..n
      BY <2>3
    <3> QED BY <3>1, <3>2, <3>3
  <2>8. PlaceExists'
    <3>1. n \in 0..Len(file') /\ n \in 0..n
      BY <2>3, <2>6
    <3> QED BY <1>1, <2>2, <2>6, <3>1 DEF PlaceExists, Readable
  <2>9. NoneBefore'
    BY <1>1, <2>1, <2>6, <2>7 DEF NoneBefore, Readable
  <2> QED BY <1>1, <2>1, <2>6, <2>7, <2>8, <2>9 DEF StartInv
<1> QED BY <1>1, <1>3, <1>4

(* An index that is not written keeps the invariant.                       *)
LEMMA FinishIndexFailsInv ==
    ASSUME Inv, StartInv, FinishIndexFails, UNCHANGED setup
    PROVE  Inv'
<1>1. /\ pc = "index" /\ Fails
      /\ UNCHANGED <<traks, tracks, started, headerOut, sequence, index>>
      /\ faults' = faults \/ faults' = [faults EXCEPT !.media = @ + 1]
  BY DEF FinishIndexFails
<1>2. TypeOK /\ Control
  BY DEF Inv
<1>3. file' \in Seq(Box)
  BY FailedIndexFile
<1>4. faults' \in [header : Nat, seek : Nat, media : Nat]
  <2>1. faults \in [header : Nat, seek : Nat, media : Nat]
    BY <1>2 DEF TypeOK
  <2> QED BY <1>1, <2>1
<1>5. Control' /\ call' \in CallType /\ pc' = "idle" /\ complete' = FALSE /\ closed' \in BOOLEAN
  BY <1>1, FailsControl
<1>6. TypeOK'
  BY <1>1, <1>2, <1>3, <1>4, <1>5 DEF TypeOK
<1>7. Progress'
  BY <1>1 DEF Inv, Progress, Indexed, Readable
<1>8. TracksApart' /\ ClocksAgree' /\ PendingRunsOn' /\ HeldWithinLimit'
  BY <1>1, QuietStep
<1> QED BY <1>5, <1>6, <1>7, <1>8 DEF Inv

(* Where the fragments start, after every step.                            *)
LEMMA StartStep ==
    ASSUME Inv, StartInv, Next
    PROVE  StartInv'
<1>1. UNCHANGED setup /\ Step /\ TypeOK /\ Control
  BY DEF Next, Inv
<1>2. ~complete => file \in Seq(Box)
  BY <1>1 DEF TypeOK
<1>3. CASE \/ AddTrack \/ AddTrackRefused \/ TakeSample \/ Flush \/ Close \/ Closing
           \/ \E t \in 1..Len(Configs), s \in Samples : WriteSample(t, s)
  <2>1. UNCHANGED <<file, headerOut, index>> /\ (complete => complete')
    <3>1. AddTrack \/ AddTrackRefused \/ TakeSample \/ Flush \/ Close
            => UNCHANGED <<file, headerOut, index, complete>>
      BY DEF AddTrack, AddTrackRefused, TakeSample, Flush, Close
    <3>2. Closing => UNCHANGED <<file, headerOut, index>> /\ ~complete
      BY <1>1 DEF Closing, Control
    <3>3. ASSUME NEW t \in 1..Len(Configs), NEW s \in Samples, WriteSample(t, s)
          PROVE  UNCHANGED <<file, headerOut, index, complete>>
      BY <3>3 DEF WriteSample
    <3> QED BY <1>3, <3>1, <3>2, <3>3
  <2> QED BY <1>1, <2>1, StartSame
<1>4. CASE RefuseClosed
  BY <1>1, <1>4, StartSame DEF RefuseClosed, vars
<1>5. CASE WriteHeader
  BY <1>1, <1>5, HeaderStart
<1>6. CASE HeaderFails
  <2>1. ~complete /\ UNCHANGED <<headerOut, index>> /\ file' \in {file, Append(file, Torn)}
    BY <1>1, <1>6 DEF HeaderFails, Control
  <2>2. Torn \in Box /\ Torn \notin FragmentBox
    BY TornIsBox, BoxKinds
  <2>3. CASE file' = file
    BY <1>1, <2>1, <2>3, StartSame
  <2>4. CASE file' = Append(file, Torn)
    BY <1>1, <2>1, <2>2, <2>4, StartGrows
  <2> QED BY <2>1, <2>3, <2>4
<1>7. CASE BeginFails
  <2> DEFINE seg == InitSegment(WithEdits)
  <2>1. ~complete /\ index' = index /\ headerOut' = TRUE /\ file' = Append(file, seg)
    BY <1>1, <1>7 DEF BeginFails, Control
  <2>2. seg \in Box
    BY <1>1, WithEditsType
  <2> HIDE DEF seg
  <2> QED BY <1>1, <2>1, <2>2, StartGrows
<1>8. CASE WriteFragment
  <2>1. ~complete /\ headerOut /\ headerOut' = headerOut /\ Buffering
    BY <1>1, <1>8 DEF WriteFragment, Control
  <2>2. PICK k \in Tightening :
          /\ \/ file' = file
             \/ file' = Append(file, Fragment(FragmentSize - k))
          /\ \/ index' = index
             \/ \E held, noted : index' = [index EXCEPT !.held = held, !.fragments = noted]
             \/ \E noted : index' = [index EXCEPT !.fragments = noted]
    BY <1>8 DEF WriteFragment
  <2>3. index'.start = index.start
    <3>1. index \in [start : Nat, held : Seq(FragmentBox), fragments : Seq(NotedType)]
      BY <1>1 DEF TypeOK
    <3> QED BY <2>2, <3>1
  <2>4. CASE file' = file
    BY <1>1, <2>1, <2>3, <2>4, StartSame
  <2>5. CASE file' = Append(file, Fragment(FragmentSize - k))
    <3> DEFINE frag == Fragment(FragmentSize - k)
    <3>1. frag \in Box
      BY <1>1, <2>1, FragmentType DEF Box
    <3>2. file' = Append(file, frag)
      BY <2>5
    <3> HIDE DEF frag
    <3> QED BY <1>1, <2>1, <2>3, <3>1, <3>2, StartGrows
  <2> QED BY <2>2, <2>4, <2>5
<1>9. CASE FragmentRefused
  <2>1. ~complete /\ UNCHANGED <<file, headerOut, index>>
    BY <1>1, <1>9 DEF FragmentRefused, Control
  <2> QED BY <1>1, <2>1, StartSame
<1>10. CASE FragmentFails
  <2>1. ~complete /\ headerOut /\ UNCHANGED <<headerOut, index>>
        /\ file' \in {file, Append(file, Torn)}
    BY <1>1, <1>10 DEF FragmentFails, Control
  <2>2. CASE file' = file
    BY <1>1, <2>1, <2>2, StartSame
  <2>3. CASE file' = Append(file, Torn)
    BY <1>1, <2>1, <2>3, TornIsBox, StartGrows
  <2> QED BY <2>1, <2>2, <2>3
<1>11. CASE FinishIndex
  BY <1>11 DEF FinishIndex, StartInv
<1>12. CASE FinishIndexFails
  BY <1>1, <1>12, FailedIndexFile
<1> QED BY <1>1, <1>3, <1>4, <1>5, <1>6, <1>7, <1>8, <1>9, <1>10, <1>11, <1>12 DEF Step

(* The invariant is inductive.                                             *)
LEMMA InitStart == Init => StartInv
<1> SUFFICES ASSUME Init PROVE StartInv
  OBVIOUS
<1>1. file = <<>> /\ index.start = 0 /\ DOMAIN file = {} /\ 0 \in 0..Len(file)
  BY DEF Init
<1>2. SubSeq(file, 1, 0) = <<>>
  BY <1>1
<1>3. Upto(file, 0) = 0
  BY <1>2, SizeOfNone DEF Upto
<1> QED BY <1>1, <1>3 DEF StartInv, PlaceExists, NoneBefore

(* Every step keeps the invariant.                                         *)
LEMMA NextInv ==
    ASSUME Inv, StartInv, Next
    PROVE  Inv'
<1>1. UNCHANGED setup /\ Step
  BY DEF Next
<1>2. CASE RefuseClosed
  BY <1>1, <1>2, QuietStep
    DEF RefuseClosed, vars, Inv, TypeOK, Control, Progress, Indexed, Readable
<1> QED BY <1>1, <1>2, AddTrackInv, AddTrackRefusedInv, WriteSampleInv, TakeSampleInv, FlushInv,
           CloseInv, ClosingInv, WriteHeaderInv, HeaderFailsInv, BeginFailsInv,
           WriteFragmentInv, FragmentRefusedInv, FragmentFailsInv, FinishIndexInv,
           FinishIndexFailsInv DEF Step

(* A step that changes nothing.                                            *)
LEMMA StutterInv ==
    ASSUME Inv, StartInv, UNCHANGED vars
    PROVE  Inv' /\ StartInv'
<1>1. StartInv'
  BY StartSame DEF vars
<1>2. Inv'
  BY QuietStep DEF vars, Inv, TypeOK, Control, Progress, Indexed, Readable
<1> QED BY <1>1, <1>2

(* Types, control and limits hold, whatever is refused: a muxer goes from  *)
(* call to call, and from error to error, in states its methods expect.    *)
THEOREM FragmentInvariant == Spec => [](Inv /\ StartInv)
<1>1. Init => Inv /\ StartInv
  BY InitInv, InitStart
<1>2. Inv /\ StartInv /\ [Next]_vars => (Inv /\ StartInv)'
  BY NextInv, StartStep, StutterInv
<1> QED BY <1>1, <1>2, PTL DEF Spec

(* Every state is well typed.                                              *)
THEOREM FragmentTypes == Spec => []TypeOK
<1>1. Inv => TypeOK
  BY DEF Inv
<1> QED BY <1>1, FragmentInvariant, PTL

(* "the media held may not exceed IndexMemoryLimit": what is held for the  *)
(* index stays within the limit, whatever an encoder tightens and whatever *)
(* is refused.                                                             *)
THEOREM MediaHeldWithinLimit == Spec => []HeldWithinLimit
<1>1. Inv => HeldWithinLimit
  BY DEF Inv
<1> QED BY <1>1, FragmentInvariant, PTL
=============================================================================
