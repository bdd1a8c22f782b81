---------------------------- MODULE CopyingProofs ----------------------------
(***************************************************************************)
(* What holds of Copying for every call, whatever its sources: the copy is *)
(* merged in order.                                                        *)
(***************************************************************************)
EXTENDS CopiedFile, SumLemmas

(***************************************************************************)
(* The invariant.                                                          *)
(***************************************************************************)
WrittenType == [track : Nat \ {0}, input : Nat \ {0}, sample : SampleType]

(* The tracks to copy: as many of every input.                             *)
Paired(all) ==
    /\ all \in Seq(Seq(TrackType))
    /\ \A i \in DOMAIN all : Len(all[i]) = Len(all[1])

TypeOK ==
    /\ job \in JobType /\ (job.op = "cut" => Len(job.sources) = 1)
    /\ pc \in {"read", "declare", "copy", "done", "failed"}
    /\ Paired(inputs)
    /\ input \in Nat \ {0}
    /\ out \in Seq(WrittenType)
    /\ \A j \in DOMAIN out :
         /\ out[j].input \in 1..input
         /\ out[j].input \in DOMAIN inputs
         /\ out[j].track \in DOMAIN inputs[1]
    /\ pc \in {"declare", "copy", "done"} => input \in DOMAIN inputs
    /\ pc \in {"read", "declare"} => out = <<>> /\ input = 1
    /\ pc = "copy" =>
         /\ next \in [DOMAIN inputs[1] -> Nat \ {0}]
         /\ at \in [DOMAIN inputs[1] -> Nat]

(* How long the first n samples of an output make track k of input i.      *)
Written(o, k, i, n) ==
    SumTo([j \in DOMAIN o |-> IF o[j].track = k /\ o[j].input = i
                                THEN o[j].sample.dur ELSE 0], n)

(* A time of a track is not after another, and of two that are the same    *)
(* the track in front comes first.                                         *)
NotAfter(a, aScale, k, b, bScale, l) ==
    a * bScale <= b * aScale /\ (a * bScale = b * aScale => k <= l)

Scale(k) == inputs[input][k].scale

(* The clocks of interleave are how long the tracks are in the output, and *)
(* no track that is left has fallen behind what was written.               *)
ClocksRun ==
    pc = "copy" =>
      /\ \A k \in DOMAIN inputs[1] : at[k] = Written(out, k, input, Len(out))
      /\ \A j \in DOMAIN out : out[j].input = input =>
           \A k \in Left :
             NotAfter(TimeIn(j), Scale(out[j].track), out[j].track, at[k], Scale(k), k)

MergeInv == TypeOK /\ ClocksRun /\ MergedInOrder

(***************************************************************************)
(* Sets of places.                                                         *)
(***************************************************************************)
(* A set of places that is not empty has a last one and a first one.       *)
LEMMA Extremes ==
    ASSUME NEW n \in Nat
    PROVE  \A S \in SUBSET (0..n) : S # {} =>
             /\ \E x \in S : \A y \in S : x >= y
             /\ \E x \in S : \A y \in S : x =< y
<1> DEFINE Good(S) == /\ \E x \in S : \A y \in S : x >= y
                      /\ \E x \in S : \A y \in S : x =< y
           T == {m \in Nat : \A S \in SUBSET (0..m) : S # {} => Good(S)}
<1>1. 0 \in T
  <2> SUFFICES ASSUME NEW S \in SUBSET (0..0), S # {} PROVE Good(S)
    BY Zenon
  <2>1. \A x \in S : x = 0
    OBVIOUS
  <2>2. PICK x \in S : TRUE
    OBVIOUS
  <2> QED BY <2>1, <2>2
<1>2. ASSUME NEW m \in Nat, m \in T
      PROVE  m + 1 \in T
  <2> SUFFICES ASSUME NEW S \in SUBSET (0..(m + 1)), S # {} PROVE Good(S)
    OBVIOUS
  <2> DEFINE R == S \cap 0..m
  <2>1. CASE R = {}
    <3>1. \A x \in S : x = m + 1
      BY <2>1
    <3>2. PICK x \in S : TRUE
      OBVIOUS
    <3>3. x >= x /\ x =< x
      BY <3>1
    <3> QED BY <3>1, <3>2, <3>3
  <2>2. CASE R # {}
    <3>1. Good(R)
      BY <1>2, <2>2, Zenon
    <3>2. \A x \in S : x \in R \/ x = m + 1
      OBVIOUS
    <3>3. PICK x \in R : \A y \in R : x >= y
      BY <3>1
    <3>4. PICK z \in R : \A y \in R : z =< y
      BY <3>1
    <3>5. x \in 0..m /\ z \in 0..m /\ x \in S /\ z \in S
      OBVIOUS
    <3>6. \E w \in S : \A y \in S : w >= y
      <4>1. CASE m + 1 \in S
        <5>1. \A y \in S : m + 1 >= y
          OBVIOUS
        <5> QED BY <4>1, <5>1
      <4>2. CASE m + 1 \notin S
        BY <3>2, <3>3, <3>5, <4>2
      <4> QED BY <4>1, <4>2
    <3>7. \A y \in S : z =< y
      BY <3>2, <3>4, <3>5
    <3> QED BY <3>5, <3>6, <3>7
  <2> QED BY <2>1, <2>2
<1> HIDE DEF T
<1>3. n \in T
  BY <1>1, <1>2, NatSetInduction
<1> QED BY <1>3 DEF T

(* Max and Min give a place of the set.                                    *)
LEMMA PlaceOf ==
    ASSUME NEW n \in Nat, NEW S \in SUBSET (0..n), S # {}
    PROVE  Max(S) \in S /\ Min(S) \in S
<1>1. (\E x \in S : \A y \in S : x >= y) /\ (\E x \in S : \A y \in S : x =< y)
  BY Extremes, Zenon
<1> QED BY <1>1, Zenon DEF Max, Min

(***************************************************************************)
(* Types of what is prepared.                                              *)
(***************************************************************************)
(* The place of a sample and the time it decodes at.                       *)
LEMMA SampleTimes ==
    ASSUME NEW t \in TrackType
    PROVE  /\ Len(t.samples) \in Nat /\ DOMAIN t.samples = 1..Len(t.samples)
           /\ t.samples \in Seq(SampleType)
           /\ \A i \in 1..Len(t.samples) : t.samples[i] \in SampleType
           /\ \A i \in 1..(Len(t.samples) + 1) : DecodeTime(t.samples, i) \in Nat
           /\ TrackLength(t) \in Nat
           /\ t.scale \in Nat \ {0}
<1>1. t.samples \in Seq(SampleType) /\ t.scale \in Nat \ {0}
  BY DEF TrackType
<1> DEFINE s == t.samples
           n == Len(s)
           f == [k \in DOMAIN s |-> s[k].dur]
<1>2. n \in Nat /\ DOMAIN s = 1..n /\ \A i \in 1..n : s[i] \in SampleType
  BY <1>1, LenProperties, ElementOfSeq
<1>3. \A i \in 1..n : f[i] \in Nat
  BY <1>2 DEF SampleType
<1> HIDE DEF f, n, s
<1>4. \A m \in 0..n : SumTo(f, m) \in Nat
  BY <1>2, <1>3, SumGrows
<1>5. \A i \in 1..(n + 1) : i - 1 \in 0..n
  BY <1>2
<1>6. \A i \in 1..(n + 1) : DecodeTime(s, i) \in Nat
  BY <1>4, <1>5 DEF DecodeTime, f
<1>7. n + 1 \in 1..(n + 1)
  BY <1>2
<1> QED BY <1>1, <1>2, <1>6, <1>7 DEF s, n, TrackLength

(* The tracks read from a source are tracks of it.                         *)
LEMMA UndroppedType ==
    ASSUME NEW T, NEW source, source.tracks \in Seq(T), NEW drop
    PROVE  Undropped(source, drop) \in Seq(T)
<1> DEFINE t == source.tracks
           f == [i \in DOMAIN t |-> IF i \in drop THEN <<>> ELSE <<t[i]>>]
<1>1. Len(t) \in Nat /\ DOMAIN t = 1..Len(t) /\ \A i \in 1..Len(t) : t[i] \in T
  BY LenProperties, ElementOfSeq
<1>2. ASSUME NEW i \in 1..Len(t) PROVE f[i] \in Seq(T)
  <2>1. f[i] = IF i \in drop THEN <<>> ELSE <<t[i]>>
    BY <1>1
  <2>2. t[i] \in T
    BY <1>1
  <2> HIDE DEF f, t
  <2> QED BY <2>1, <2>2
<1>3. Undropped(source, drop) = ConcatTo(f, Len(t))
  BY Zenon DEF Undropped
<1> HIDE DEF f
<1> QED BY <1>1, <1>2, <1>3, ConcatIsSeq

(* Those that have samples are among them,                                 *)
LEMMA WithSamplesType ==
    ASSUME NEW T, NEW tracks \in Seq(T)
    PROVE  WithSamples(tracks) \in Seq(T)
<1> DEFINE f == [k \in DOMAIN tracks |-> IF Readable(tracks[k]) THEN <<tracks[k]>> ELSE <<>>]
           n == Len(tracks)
<1>1. n \in Nat /\ DOMAIN tracks = 1..n /\ \A i \in 1..n : tracks[i] \in T
  BY LenProperties, ElementOfSeq
<1>2. ASSUME NEW i \in 1..n PROVE f[i] \in Seq(T)
  <2>1. f[i] = IF Readable(tracks[i]) THEN <<tracks[i]>> ELSE <<>>
    BY <1>1
  <2>2. tracks[i] \in T
    BY <1>1
  <2> HIDE DEF f, n
  <2> QED BY <2>1, <2>2
<1>3. WithSamples(tracks) = ConcatTo(f, n)
  BY Zenon DEF WithSamples
<1> HIDE DEF f, n
<1> QED BY <1>1, <1>2, <1>3, ConcatIsSeq

(* and so are those of all sources, side by side.                          *)
LEMMA SideBySideType ==
    ASSUME NEW T, NEW sources \in Seq(SourceType),
           \A i \in DOMAIN sources : sources[i].tracks \in Seq(T), NEW drop
    PROVE  SideBySide(sources, drop) \in Seq(T)
<1> DEFINE f == [i \in DOMAIN sources |-> WithSamples(Undropped(sources[i], drop))]
           n == Len(sources)
<1>1. n \in Nat /\ DOMAIN sources = 1..n
  BY LenProperties
<1>2. ASSUME NEW i \in 1..n PROVE f[i] \in Seq(T)
  <2>1. Undropped(sources[i], drop) \in Seq(T)
    BY <1>1, UndroppedType
  <2> QED BY <1>1, <2>1, WithSamplesType
<1>3. SideBySide(sources, drop) = ConcatTo(f, n)
  BY Zenon DEF SideBySide
<1> HIDE DEF f, n
<1> QED BY <1>1, <1>2, <1>3, ConcatIsSeq

(* What is described from its samples is a track still.                    *)
LEMMA DescribedType ==
    ASSUME NEW tracks \in Seq(TrackType)
    PROVE  Described(tracks) \in Seq(TrackType) /\ Len(Described(tracks)) = Len(tracks)
<1> DEFINE n == Len(tracks)
<1>1. n \in Nat /\ DOMAIN tracks = 1..n /\ \A i \in 1..n : tracks[i] \in TrackType
  BY LenProperties, ElementOfSeq
<1>2. ASSUME NEW t \in TrackType PROVE DescribeFromSamples(t) \in TrackType
  BY DEF DescribeFromSamples, TrackType
<1>3. Described(tracks) \in [1..n -> TrackType]
  BY <1>1, <1>2 DEF Described
<1> HIDE DEF n
<1> QED BY <1>1, <1>3, FunctionIsSeq DEF n

(* A source that is read gives tracks, or an error and none.               *)
LEMMA ReadSourceType ==
    ASSUME NEW source \in SourceType, NEW drop
    PROVE  LET r == ReadSource(source, drop)
           IN  /\ r.tracks \in Seq(TrackType)
               /\ r.error = "none" => r.tracks # <<>>
<1> DEFINE kept == Undropped(source, drop)
<1>1. kept \in Seq(TrackType)
  BY UndroppedType DEF SourceType
<1> HIDE DEF kept
<1>2. Described(kept) \in Seq(TrackType) /\ Len(Described(kept)) = Len(kept)
  BY <1>1, DescribedType
<1>3. kept # <<>> => Described(kept) # <<>>
  BY <1>1, <1>2, EmptySeq
<1>4. \/ ReadSource(source, drop) = Error("unreadable")
      \/ kept # <<>> /\ ReadSource(source, drop) = Okay(Described(kept))
  BY Zenon DEF ReadSource, kept
<1>5. Error("unreadable").tracks = <<>> /\ Error("unreadable").error = "unreadable"
  BY DEF Error
<1>6. Okay(Described(kept)).tracks = Described(kept)
  BY DEF Okay
<1>7. <<>> \in Seq(TrackType)
  BY EmptySeq
<1>8. "unreadable" # "none"
  OBVIOUS
<1> DEFINE r == ReadSource(source, drop)
<1>9. CASE r = Error("unreadable")
  <2>1. r.tracks = <<>> /\ r.error = "unreadable"
    BY <1>9, <1>5, Zenon
  <2> QED BY <1>7, <1>8, <2>1, Zenon
<1>10. CASE kept # <<>> /\ r = Okay(Described(kept))
  <2>1. r.tracks = Described(kept)
    BY <1>6, <1>10, Zenon
  <2> QED BY <1>2, <1>3, <1>10, <2>1, Zenon
<1> QED BY <1>4, <1>9, <1>10, Zenon

(***************************************************************************)
(* What a cut keeps.                                                       *)
(***************************************************************************)
(* A track that has a sync sample starts at one.                           *)
LEMMA SyncStartType ==
    ASSUME NEW t \in TrackType, Syncs(t) # {}, NEW time, NEW scale
    PROVE  SyncStart(t, time, scale) \in 1..Len(t.samples)
<1> DEFINE n == Len(t.samples)
           early == {i \in Syncs(t) : ~Before(time, scale, DecodeTime(t.samples, i), t.scale)}
<1>1. n \in Nat /\ Syncs(t) \subseteq 1..n
  BY SampleTimes DEF Syncs
<1>2. early \subseteq Syncs(t)
  OBVIOUS
<1>3. SyncStart(t, time, scale) = IF early # {} THEN Max(early) ELSE Min(Syncs(t))
  BY Zenon DEF SyncStart
<1> HIDE DEF early, n
<1>4. Syncs(t) \in SUBSET (0..n) /\ early \in SUBSET (0..n)
  BY <1>1, <1>2
<1>5. Min(Syncs(t)) \in Syncs(t)
  BY <1>1, <1>4, PlaceOf
<1>6. early # {} => Max(early) \in early
  BY <1>1, <1>4, PlaceOf
<1>7. SyncStart(t, time, scale) \in Syncs(t)
  BY <1>2, <1>3, <1>5, <1>6, Zenon
<1> QED BY <1>1, <1>7 DEF n

(* The samples of a range are samples.                                     *)
LEMMA CutRangeType ==
    ASSUME NEW t \in TrackType, NEW from \in 1..Len(t.samples), NEW end
    PROVE  CutRange(t, from, end) \in Seq(SampleType)
<1> DEFINE s == t.samples
           n == Len(s)
           behind == {i \in from..Len(t.samples) :
                        end > 0 /\ ~Before(DecodeTime(t.samples, i), t.scale, end, Second)}
           S == behind \union {Len(t.samples) + 1}
           to == Min(S) - 1
<1>1. n \in Nat /\ DOMAIN s = 1..n /\ \A i \in 1..n : s[i] \in SampleType
  BY SampleTimes
<1>2. behind \subseteq from..n
  OBVIOUS
<1>3. CutRange(t, from, end) = SubSeq(s, from, to)
  BY Zenon DEF CutRange
<1>4. S = behind \union {n + 1} /\ from \in 1..n
  OBVIOUS
<1> HIDE DEF behind, S, s, n
<1>5. n + 1 \in Nat
  BY <1>1
<1>6. S \in SUBSET (0..(n + 1)) /\ S # {} /\ S \subseteq from..(n + 1)
  BY <1>1, <1>2, <1>4
<1>7. Min(S) \in S
  BY <1>5, <1>6, PlaceOf
<1>8. /\ to \in Int /\ to <= n
      /\ from \in Int /\ from >= 1
  <2> DEFINE m == Min(S)
  <2>1. m \in from..(n + 1)
    BY <1>6, <1>7
  <2>2. to = m - 1
    OBVIOUS
  <2> HIDE DEF m
  <2> QED BY <1>1, <1>4, <2>1, <2>2
<1> HIDE DEF to
<1>9. \A i \in from..to : s[i] \in SampleType
  BY <1>1, <1>8
<1> QED BY <1>3, <1>8, <1>9, SubSeqProperties

(* A cue that is shown already is shortened by a part of it.               *)
LEMMA CutCuesType ==
    ASSUME NEW kept \in Seq(SampleType), NEW into
    PROVE  CutCues(kept, into) \in Seq(SampleType)
<1>1. Len(kept) \in Nat /\ DOMAIN kept = 1..Len(kept)
      /\ \A i \in 1..Len(kept) : kept[i] \in SampleType
  BY LenProperties, ElementOfSeq
<1>2. CASE kept = <<>>
  BY <1>2, Zenon DEF CutCues
<1>3. CASE kept # <<>> /\ Ended(kept[1], into)
  BY <1>3, HeadTailProperties DEF CutCues
<1>4. CASE kept # <<>> /\ ~Ended(kept[1], into)
  <2> DEFINE s == kept[1]
             cut == [s EXCEPT !.dur = s.dur - into]
  <2>1. 1 \in 1..Len(kept) /\ s \in SampleType
    BY <1>1, <1>4, EmptySeq
  <2>2. CutCues(kept, into) = [kept EXCEPT ![1] = cut]
    BY <1>1, <1>4, <2>1 DEF CutCues
  <2>3. s.dur \in Nat
    BY <2>1 DEF SampleType
  <2>4. into \in 0..(s.dur - 1)
    BY <1>4 DEF Ended
  <2>5. s.dur - into \in Nat
    BY <2>3, <2>4
  <2>6. cut \in SampleType
    BY <2>1, <2>5 DEF SampleType
  <2> HIDE DEF cut, s
  <2> QED BY <2>1, <2>2, <2>6, ExceptSeq
<1> QED BY <1>2, <1>3, <1>4

(* What is kept of a track.                                                *)
LEMMA TrimTrackType ==
    ASSUME NEW t \in TrackType, Syncs(t) # {}, NEW cutAt, NEW scale, NEW end
    PROVE  TrimTrack(t, cutAt, scale, end).kept \in Seq(SampleType)
<1> DEFINE from == SyncStart(t, cutAt, scale)
           range == CutRange(t, from, end)
           into == Scaled(cutAt, scale, t.scale) - DecodeTime(t.samples, from)
<1>1. range \in Seq(SampleType)
  BY SyncStartType, CutRangeType
<1>2. \/ TrimTrack(t, cutAt, scale, end).kept = range
      \/ TrimTrack(t, cutAt, scale, end).kept = CutCues(range, into)
  BY DEF TrimTrack
<1> HIDE DEF range, into
<1>3. CutCues(range, into) \in Seq(SampleType)
  BY <1>1, CutCuesType
<1> QED BY <1>1, <1>2, <1>3, Zenon

(* What is kept of the tracks.                                             *)
LEMMA TrimmedType ==
    ASSUME NEW tracks \in Seq(TrackType), NEW start, NEW end, NEW strict
    PROVE  LET r == Trimmed(tracks, start, end, strict)
           IN  /\ r.tracks \in Seq(TrackType)
               /\ r.error = "none" => Len(r.tracks) = Len(tracks)
<1> DEFINE primary == tracks[PrimaryIndex(tracks)]
           cutAt == DecodeTime(primary.samples, SyncStart(primary, start, Second))
           kept(i) == TrimTrack(tracks[i], cutAt, primary.scale, end).kept
           t == [i \in DOMAIN tracks |-> [tracks[i] EXCEPT !.samples = kept(i), !.edits = {}]]
           n == Len(tracks)
           r == Trimmed(tracks, start, end, strict)
<1>1. n \in Nat /\ DOMAIN tracks = 1..n /\ \A i \in 1..n : tracks[i] \in TrackType
  BY LenProperties, ElementOfSeq
<1>2. \/ r \in {Error("sync"), Error("text"), Error("edits")}
      \/ (\A i \in DOMAIN tracks : Syncs(tracks[i]) # {}) /\ r = Okay(t)
  BY DEF Trimmed
<1>3. CASE r \in {Error("sync"), Error("text"), Error("edits")}
  <2>1. r.tracks = <<>> /\ r.error # "none"
    BY <1>3 DEF Error
  <2>2. <<>> \in Seq(TrackType)
    BY EmptySeq
  <2> HIDE DEF r
  <2> QED BY <2>1, <2>2, Zenon DEF r
<1>4. CASE (\A i \in DOMAIN tracks : Syncs(tracks[i]) # {}) /\ r = Okay(t)
  <2>1. ASSUME NEW i \in 1..n PROVE t[i] \in TrackType
    <3>1. tracks[i] \in TrackType /\ Syncs(tracks[i]) # {}
      BY <1>1, <1>4
    <3>2. kept(i) \in Seq(SampleType)
      BY <3>1, TrimTrackType
    <3>3. t[i] = [tracks[i] EXCEPT !.samples = kept(i), !.edits = {}]
      BY <1>1
    <3> DEFINE k == kept(i)
    <3> HIDE DEF k, t
    <3>4. [tracks[i] EXCEPT !.samples = k, !.edits = {}] \in TrackType
      BY <3>1, <3>2 DEF TrackType, k
    <3> QED BY <3>3, <3>4 DEF k
  <2>2. t \in [1..n -> TrackType]
    <3>1. t = [i \in 1..n |-> t[i]]
      BY <1>1
    <3> HIDE DEF t
    <3> QED BY <2>1, <3>1
  <2> HIDE DEF t, n, r
  <2>3. r.tracks = t
    BY <1>4 DEF Okay
  <2>4. t \in Seq(TrackType) /\ Len(t) = n
    BY <1>1, <2>2, FunctionIsSeq
  <2> QED BY <2>3, <2>4, Zenon DEF r, n
<1> QED BY <1>2, <1>3, <1>4

(***************************************************************************)
(* Times.                                                                  *)
(***************************************************************************)
(* Products keep the order of their factors.                               *)
LEMMA Products ==
    ASSUME NEW x \in Int, NEW y \in Int, NEW z \in Int, z > 0
    PROVE  /\ x < y => x * z < y * z
           /\ x <= y => x * z <= y * z
           /\ x * z < y * z => x < y
BY SMT

(* Factors may be taken in any order.                                      *)
LEMMA Factors ==
    ASSUME NEW x \in Int, NEW y \in Int, NEW z \in Int
    PROVE  /\ x * y \in Int
           /\ (x * y) * z = (x * z) * y
BY SMT

(* Of three times, the first is before the last when it is before one that *)
(* the last is not before.                                                 *)
LEMMA BeforeThird ==
    ASSUME NEW a \in Int, NEW b \in Int, NEW c \in Int,
           NEW p \in Nat \ {0}, NEW q \in Nat \ {0}, NEW r \in Nat \ {0},
           Before(a, p, b, q), ~Before(c, r, b, q)
    PROVE  Before(a, p, c, r)
<1> DEFINE aq == a * q
           bp == b * p
           cq == c * q
           br == b * r
           ar == a * r
           cp == c * p
<1>1. /\ aq \in Int /\ bp \in Int /\ cq \in Int /\ br \in Int /\ ar \in Int /\ cp \in Int
      /\ p > 0 /\ q > 0 /\ r > 0
  OBVIOUS
<1>2. aq < bp /\ br <= cq
  <2>1. aq < bp /\ ~(cq < br)
    BY DEF Before
  <2> HIDE DEF aq, bp, cq, br
  <2> QED BY <1>1, <2>1
<1>3. /\ aq * r = ar * q /\ bp * r = br * p /\ cq * p = cp * q
  BY Factors
<1> HIDE DEF aq, bp, cq, br, ar, cp
<1>4. aq * r < bp * r /\ br * p <= cq * p
  BY <1>1, <1>2, Products
<1>5. ar * q < cp * q
  BY <1>1, <1>3, <1>4
<1>6. ar < cp
  BY <1>1, <1>5, Products
<1> QED BY <1>6 DEF Before, ar, cp

(* One time is not before and after another.                               *)
LEMMA BeforeOneWay ==
    ASSUME NEW a \in Int, NEW b \in Int, NEW p \in Nat, NEW q \in Nat, Before(a, p, b, q)
    PROVE  ~Before(b, q, a, p)
<1> DEFINE x == a * q
           y == b * p
<1>1. x \in Int /\ y \in Int
  OBVIOUS
<1>2. x < y
  BY DEF Before
<1>3. (b * p < a * q) => y < x
  OBVIOUS
<1> HIDE DEF x, y
<1>4. ~(y < x)
  BY <1>1, <1>2
<1> QED BY <1>3, <1>4, Zenon DEF Before

(* The first of the places that are furthest behind.                       *)
FirstBehind(k, places, time, scale) ==
    \A o \in places :
        IF o < k THEN Before(time[k], scale[k], time[o], scale[o])
                 ELSE ~Before(time[o], scale[o], time[k], scale[k])

(* There is one among any places.                                          *)
LEMMA FirstBehindExists ==
    ASSUME NEW n \in Nat, NEW time \in [1..n -> Int], NEW scale \in [1..n -> Nat \ {0}]
    PROVE  \A places \in SUBSET (1..n) : places # {} =>
             \E k \in places : FirstBehind(k, places, time, scale)
<1> DEFINE First(L) == \E k \in L : FirstBehind(k, L, time, scale)
           T == {m \in Nat : m <= n => \A L \in SUBSET (1..m) : L # {} => First(L)}
<1>1. 0 \in T
  <2>1. \A L \in SUBSET (1..0) : L = {}
    OBVIOUS
  <2> QED BY <2>1, Zenon
<1>2. ASSUME NEW m \in Nat, m \in T
      PROVE  m + 1 \in T
  <2> SUFFICES ASSUME m + 1 <= n, NEW L \in SUBSET (1..(m + 1)), L # {} PROVE First(L)
    OBVIOUS
  <2> DEFINE l == m + 1
             R == L \cap 1..m
  <2>1. /\ l \in 1..n /\ m <= n /\ \A o \in L : o \in 1..n /\ (o \in R \/ o = l)
        /\ \A o \in R : o \in L /\ o < l
    OBVIOUS
  <2>2. /\ time[l] \in Int /\ scale[l] \in Nat \ {0}
        /\ \A o \in L : time[o] \in Int /\ scale[o] \in Nat \ {0}
    BY <2>1
  <2>3. ~Before(time[l], scale[l], time[l], scale[l])
    BY <2>2, BeforeOneWay
  <2>4. CASE R = {}
    <3>1. \A o \in L : o = l
      BY <2>1, <2>4
    <3>2. l \in L
      BY <3>1
    <3>3. ~(l < l)
      OBVIOUS
    <3>4. FirstBehind(l, L, time, scale)
      BY <2>3, <3>1, <3>3 DEF FirstBehind
    <3> QED BY <3>2, <3>4
  <2>5. CASE R # {}
    <3>1. PICK k \in R : FirstBehind(k, R, time, scale)
      BY <1>2, <2>1, <2>5
    <3>2. k \in L /\ k < l /\ k \in 1..m
      BY <2>1
    <3>3. \A o \in R : ~Before(time[o], scale[o], time[k], scale[k])
      <4> SUFFICES ASSUME NEW o \in R PROVE ~Before(time[o], scale[o], time[k], scale[k])
        OBVIOUS
      <4>1. \/ Before(time[k], scale[k], time[o], scale[o])
            \/ ~Before(time[o], scale[o], time[k], scale[k])
        BY <3>1 DEF FirstBehind
      <4> QED BY <2>1, <2>2, <3>2, <4>1, BeforeOneWay
    <3>4. CASE l \in L /\ Before(time[l], scale[l], time[k], scale[k])
      <4>1. \A o \in R : Before(time[l], scale[l], time[o], scale[o])
        <5> SUFFICES ASSUME NEW o \in R PROVE Before(time[l], scale[l], time[o], scale[o])
          OBVIOUS
        <5> HIDE DEF l
        <5> QED BY <2>1, <2>2, <3>2, <3>3, <3>4, BeforeThird
      <4>2. FirstBehind(l, L, time, scale)
        <5> HIDE DEF l
        <5> QED BY <2>1, <2>3, <4>1 DEF FirstBehind
      <4> QED BY <3>4, <4>2
    <3>5. CASE ~(l \in L /\ Before(time[l], scale[l], time[k], scale[k]))
      <4>1. ~(l < k)
        BY <3>2
      <4> HIDE DEF l
      <4>2. FirstBehind(k, L, time, scale)
        BY <2>1, <3>1, <3>5, <4>1 DEF FirstBehind
      <4> QED BY <3>2, <4>2
    <3> QED BY <3>4, <3>5
  <2> QED BY <2>4, <2>5
<1> HIDE DEF T
<1>3. n \in T
  BY <1>1, <1>2, NatSetInduction
<1> QED BY <1>3 DEF T

(* The longest track is one of the tracks.                                 *)
LEMMA LongestExists ==
    ASSUME NEW tracks \in Seq(TrackType), Len(tracks) > 0
    PROVE  Longest(tracks) \in 1..Len(tracks)
<1> DEFINE n == Len(tracks)
           length(k) == TrackLength(tracks[k])
           time == [k \in 1..n |-> -length(k)]
           scale == [k \in 1..n |-> tracks[k].scale]
           Longer(i) == \A j \in DOMAIN tracks :
                          IF j < i THEN Before(length(j), tracks[j].scale, length(i), tracks[i].scale)
                                   ELSE ~Before(length(i), tracks[i].scale, length(j), tracks[j].scale)
<1>1. n \in Nat /\ DOMAIN tracks = 1..n /\ \A i \in 1..n : tracks[i] \in TrackType
  BY LenProperties, ElementOfSeq
<1>2. \A k \in 1..n : length(k) \in Nat /\ tracks[k].scale \in Nat \ {0}
  BY <1>1, SampleTimes
<1>3. time \in [1..n -> Int] /\ scale \in [1..n -> Nat \ {0}]
  BY <1>2
<1>4. 1..n # {}
  BY <1>1
<1>5. PICK k \in 1..n : FirstBehind(k, 1..n, time, scale)
  <2> HIDE DEF n, time, scale
  <2> QED BY <1>1, <1>3, <1>4, FirstBehindExists
<1>6. \A i, j \in 1..n :
        Before(time[i], scale[i], time[j], scale[j])
          <=> Before(length(j), tracks[j].scale, length(i), tracks[i].scale)
  <2> SUFFICES ASSUME NEW i \in 1..n, NEW j \in 1..n
               PROVE  Before(time[i], scale[i], time[j], scale[j])
                        <=> Before(length(j), tracks[j].scale, length(i), tracks[i].scale)
    OBVIOUS
  <2> DEFINE a == length(i)
             b == length(j)
             p == tracks[i].scale
             q == tracks[j].scale
  <2>1. a \in Nat /\ b \in Nat /\ p \in Nat /\ q \in Nat
    BY <1>2
  <2>2. time[i] = -a /\ time[j] = -b /\ scale[i] = p /\ scale[j] = q
    OBVIOUS
  <2> HIDE DEF a, b, p, q, time, scale
  <2>3. (-a) * q < (-b) * p <=> b * p < a * q
    BY <2>1
  <2> QED BY <2>2, <2>3 DEF Before, a, b, p, q
<1>7. Longer(k)
  <2> HIDE DEF n, time, scale, length
  <2> QED BY <1>1, <1>5, <1>6 DEF FirstBehind
<1>8. Longest(tracks) = CHOOSE i \in DOMAIN tracks : Longer(i)
  BY Zenon DEF Longest
<1> HIDE DEF Longer
<1> QED BY <1>1, <1>5, <1>7, <1>8, Zenon

(***************************************************************************)
(* What the calls prepare.                                                 *)
(***************************************************************************)
(* A call prepares tracks to copy, or an error.                            *)
Good(r) == Paired(r.tracks) /\ (r.error = "none" => r.tracks # <<>>)

(* An error has no tracks, and the tracks of one input are paired.         *)
LEMMA SimpleResults ==
    /\ \A why : why # "none" => Good(Error(why))
    /\ \A tracks \in Seq(TrackType) : Good(Okay(<<tracks>>))
<1>1. ASSUME NEW why, why # "none" PROVE Good(Error(why))
  <2>1. Error(why).tracks = <<>> /\ Error(why).error = why
    BY DEF Error
  <2>2. <<>> \in Seq(Seq(TrackType)) /\ DOMAIN <<>> = {}
    BY EmptySeq
  <2>3. Paired(<<>>)
    BY <2>2 DEF Paired
  <2> QED BY <1>1, <2>1, <2>3 DEF Good
<1>2. ASSUME NEW tracks \in Seq(TrackType) PROVE Good(Okay(<<tracks>>))
  <2> DEFINE all == <<tracks>>
             T == Seq(TrackType)
  <2>1. Okay(all).tracks = all
    BY DEF Okay
  <2>2. tracks \in T
    OBVIOUS
  <2> HIDE DEF T
  <2>3. all \in Seq(T) /\ DOMAIN all = {1} /\ Len(all) = 1
    BY <2>2
  <2>4. all # <<>>
    BY <2>3
  <2>5. Paired(all)
    BY <2>3, Zenon DEF Paired, T
  <2> HIDE DEF all
  <2>6. Good(Okay(all))
    BY <2>1, <2>4, <2>5 DEF Good
  <2> QED BY <2>6 DEF all
<1> QED BY <1>1, <1>2

(* Cut prepares the tracks it trimmed.                                     *)
LEMMA CutType ==
    ASSUME NEW j \in JobType, Len(j.sources) = 1
    PROVE  Good(Cut(j))
<1> DEFINE read == ReadSource(j.sources[1], j.drop)
           trimmed == Trimmed(read.tracks, j.start, j.end, j.strict)
<1>1. j.sources[1] \in SourceType
  <2>1. j.sources \in Seq(SourceType)
    BY DEF JobType
  <2> QED BY <2>1, ElementOfSeq
<1>2. read.tracks \in Seq(TrackType)
  BY <1>1, ReadSourceType
<1> HIDE DEF read
<1>3. trimmed.tracks \in Seq(TrackType)
  BY <1>2, TrimmedType
<1>4. read.error # "none" => read = Error(read.error)
  BY DEF read, ReadSource, Error, Okay
<1>5. trimmed.error # "none" => trimmed = Error(trimmed.error)
  BY DEF Trimmed, Error, Okay
<1> HIDE DEF trimmed
<1>6. \/ Cut(j) = Error("range")
      \/ Cut(j) = read /\ read.error # "none"
      \/ Cut(j) = trimmed /\ trimmed.error # "none"
      \/ Cut(j) = Okay(<<trimmed.tracks>>)
  <2> DEFINE first == AndThen(read, LAMBDA tracks : Trimmed(tracks, j.start, j.end, j.strict))
  <2>1. first = IF read.error = "none" THEN trimmed ELSE read
    BY Zenon DEF AndThen, trimmed
  <2>2. \/ Cut(j) = Error("range")
        \/ Cut(j) = IF first.error = "none" THEN Okay(<<first.tracks>>) ELSE first
    BY Zenon DEF Cut, AndThen, read
  <2> HIDE DEF first
  <2> QED BY <2>1, <2>2, Zenon
<1>7. "range" # "none"
  OBVIOUS
<1> QED BY <1>3, <1>4, <1>5, <1>6, <1>7, SimpleResults, Zenon

(* Padding leaves tracks tracks.                                           *)
LEMMA PadType ==
    ASSUME NEW tracks \in Seq(TrackType)
    PROVE  PadTimedText(tracks) \in Seq(TrackType) /\ Len(PadTimedText(tracks)) = Len(tracks)
<1> DEFINE n == Len(tracks)
           l == tracks[Longest(tracks)]
           missing(t) == Scaled(TrackLength(l), l.scale, t.scale) - TrackLength(t)
           padded(t) == IF t.codec \in {"wvtt", "tx3g"} /\ missing(t) > 0
                          THEN [t EXCEPT !.samples = Append(t.samples, Padding(missing(t)))]
                          ELSE t
           f == [i \in DOMAIN tracks |-> padded(tracks[i])]
<1>1. n \in Nat /\ DOMAIN tracks = 1..n /\ \A i \in 1..n : tracks[i] \in TrackType
  BY LenProperties, ElementOfSeq
<1>2. PadTimedText(tracks) = f
  BY DEF PadTimedText
<1>3. ASSUME NEW t \in TrackType, l \in TrackType PROVE padded(t) \in TrackType
  <2> DEFINE m == missing(t)
             s == Append(t.samples, Padding(m))
  <2>1. /\ TrackLength(l) \in Nat /\ l.scale \in Nat \ {0} /\ t.scale \in Nat \ {0}
        /\ TrackLength(t) \in Nat /\ t.samples \in Seq(SampleType)
    BY <1>3, SampleTimes
  <2>2. m \in Int
    BY <2>1 DEF Scaled
  <2> HIDE DEF m
  <2>3. CASE m > 0
    <3>1. Padding(m) \in SampleType
      BY <2>2, <2>3 DEF Padding, SampleType
    <3>2. s \in Seq(SampleType)
      BY <2>1, <3>1, AppendProperties
    <3> HIDE DEF s
    <3>3. [t EXCEPT !.samples = s] \in TrackType
      BY <3>2 DEF TrackType
    <3> QED BY <1>3, <3>3 DEF s, m
  <2>4. CASE ~(m > 0)
    BY <2>4 DEF m
  <2> QED BY <2>3, <2>4
<1> HIDE DEF padded
<1>4. CASE n = 0
  <2>1. tracks = <<>>
    BY <1>4, EmptySeq, SeqEqual
  <2>2. f = <<>>
    BY <1>1, <1>4
  <2> QED BY <1>2, <2>1, <2>2
<1>5. CASE n > 0
  <2>1. Longest(tracks) \in 1..n
    BY <1>1, <1>5, LongestExists
  <2>2. l \in TrackType
    BY <1>1, <2>1
  <2>3. f \in [1..n -> TrackType]
    BY <1>1, <1>3, <2>2
  <2> HIDE DEF f, n
  <2> QED BY <1>1, <1>2, <2>3, FunctionIsSeq DEF n
<1> QED BY <1>1, <1>4, <1>5

(* What inputs are without their edit lists, and with their text padded.   *)
LEMMA WithoutEditsType ==
    ASSUME NEW tracks \in Seq(TrackType)
    PROVE  WithoutEdits(tracks) \in Seq(TrackType) /\ Len(WithoutEdits(tracks)) = Len(tracks)
<1> DEFINE n == Len(tracks)
           bare(t) == [t EXCEPT !.edits = {}]
<1>1. n \in Nat /\ DOMAIN tracks = 1..n /\ \A i \in 1..n : tracks[i] \in TrackType
  BY LenProperties, ElementOfSeq
<1>2. ASSUME NEW t \in TrackType PROVE bare(t) \in TrackType
  BY DEF TrackType
<1>3. WithoutEdits(tracks) = [i \in 1..n |-> bare(tracks[i])]
  BY <1>1 DEF WithoutEdits
<1> HIDE DEF bare
<1>4. WithoutEdits(tracks) \in [1..n -> TrackType]
  BY <1>1, <1>2, <1>3
<1> HIDE DEF n
<1> QED BY <1>1, <1>4, FunctionIsSeq DEF n

(* Inputs that join are prepared, as many tracks of each.                  *)
LEMMA OneBehindTheOtherType ==
    ASSUME NEW all \in Seq(Seq(TrackType)), all # <<>>
    PROVE  Good(OneBehindTheOther(all))
<1> DEFINE n == Len(all)
           T == Seq(TrackType)
           bare == [i \in DOMAIN all |-> IF Len(all) > 1 THEN WithoutEdits(all[i]) ELSE all[i]]
           padded == Padded(bare)
           r == OneBehindTheOther(all)
<1>1. n \in Nat /\ DOMAIN all = 1..n /\ \A i \in 1..n : all[i] \in T
  BY LenProperties, ElementOfSeq
<1>2. n > 0
  BY <1>1, EmptySeq
<1>3. ASSUME NEW i \in 1..n PROVE bare[i] \in T /\ Len(bare[i]) = Len(all[i])
  <2>1. all[i] \in T /\ bare[i] = IF Len(all) > 1 THEN WithoutEdits(all[i]) ELSE all[i]
    BY <1>1
  <2> HIDE DEF bare, n
  <2> QED BY <2>1, WithoutEditsType
<1>4. bare \in Seq(T) /\ Len(bare) = n
  <2>1. bare = [i \in 1..n |-> bare[i]]
    BY <1>1
  <2> HIDE DEF bare, T, n
  <2>2. bare \in [1..n -> T]
    BY <1>3, <2>1
  <2> QED BY <1>1, <2>2, FunctionIsSeq
<1>5. DOMAIN bare = 1..n
  BY <1>1
<1> HIDE DEF bare, n
<1>6. ASSUME NEW i \in 1..n PROVE padded[i] \in T /\ Len(padded[i]) = Len(all[i])
  <2>1. padded[i] = IF i < Len(bare) THEN PadTimedText(bare[i]) ELSE bare[i]
    BY <1>5, Zenon DEF Padded
  <2> HIDE DEF padded
  <2>2. bare[i] \in T /\ Len(bare[i]) = Len(all[i])
    BY <1>3
  <2> QED BY <2>1, <2>2, PadType
<1>7. padded \in Seq(T) /\ Len(padded) = n
  <2>1. padded = [i \in 1..n |-> padded[i]]
    BY <1>5 DEF Padded
  <2> HIDE DEF padded, T
  <2>2. padded \in [1..n -> T]
    BY <1>6, <2>1
  <2> QED BY <1>1, <2>2, FunctionIsSeq
<1>8. \/ r \in {Error("mismatch"), Error("text"), Error("edits")}
      \/ Joinable(all) /\ r = Okay(padded)
  BY Zenon DEF OneBehindTheOther, bare
<1> HIDE DEF padded, r
<1>9. CASE r \in {Error("mismatch"), Error("text"), Error("edits")}
  <2>1. "mismatch" # "none" /\ "text" # "none" /\ "edits" # "none"
    OBVIOUS
  <2>2. Good(r)
    BY <1>9, <2>1, SimpleResults, Zenon
  <2> QED BY <2>2 DEF r
<1>10. CASE Joinable(all) /\ r = Okay(padded)
  <2>1. r.tracks = padded
    BY <1>10 DEF Okay
  <2>2. DOMAIN padded = 1..n /\ 1 \in 1..n
    BY <1>2, <1>7, <1>1, LenProperties
  <2>3. \A i \in 1..n : Len(all[i]) = Len(all[1])
    BY <1>1, <1>10, Zenon DEF Joinable
  <2>4. \A i \in 1..n : Len(padded[i]) = Len(padded[1])
    BY <1>6, <2>2, <2>3, Zenon
  <2>5. Paired(padded)
    BY <1>7, <2>2, <2>4, Zenon DEF Paired
  <2>6. padded # <<>>
    BY <1>2, <1>7, EmptySeq
  <2> QED BY <2>1, <2>5, <2>6, Zenon DEF Good, r
<1> QED BY <1>8, <1>9, <1>10

(* So are those of Concat,                                                 *)
LEMMA ConcatType ==
    ASSUME NEW j \in JobType
    PROVE  Good(Concat(j))
<1> DEFINE s == j.sources
           n == Len(s)
           T == Seq(TrackType)
           read == [i \in DOMAIN j.sources |-> ReadSource(j.sources[i], j.drop)]
           wrong == {i \in DOMAIN read : read[i].error # "none"}
           all == [i \in DOMAIN read |-> read[i].tracks]
<1>1. n \in Nat /\ DOMAIN s = 1..n /\ \A i \in 1..n : s[i] \in SourceType
  <2>1. s \in Seq(SourceType)
    BY DEF JobType
  <2> QED BY <2>1, LenProperties, ElementOfSeq
<1>2. \/ Concat(j) \in {Error("no tracks"), Error("truncated")}
      \/ wrong # {} /\ Concat(j) = read[Min(wrong)]
      \/ s # <<>> /\ Concat(j) = OneBehindTheOther(all)
  BY Zenon DEF Concat
<1>3. DOMAIN read = 1..n /\ DOMAIN all = 1..n
  BY <1>1
<1>4. ASSUME NEW i \in 1..n
      PROVE  /\ read[i].tracks \in T
             /\ read[i].error # "none" => read[i] = Error(read[i].error)
             /\ all[i] = read[i].tracks
  <2>1. read[i] = ReadSource(s[i], j.drop)
    BY <1>1
  <2>2. s[i] \in SourceType
    BY <1>1
  <2>3. read[i].tracks \in T
    <3> HIDE DEF read
    <3> QED BY <2>1, <2>2, ReadSourceType
  <2>4. ReadSource(s[i], j.drop).error # "none" =>
          ReadSource(s[i], j.drop) = Error(ReadSource(s[i], j.drop).error)
    BY DEF ReadSource, Error, Okay
  <2>5. all[i] = read[i].tracks
    BY <1>3
  <2> HIDE DEF read, all
  <2> QED BY <2>1, <2>3, <2>4, <2>5, Zenon
<1>5. all = [i \in 1..n |-> all[i]]
  BY <1>3
<1>6. wrong \subseteq 1..n /\ \A i \in wrong : read[i].error # "none"
  BY <1>3
<1> HIDE DEF read, all, wrong, n, s
<1>7. CASE Concat(j) \in {Error("no tracks"), Error("truncated")}
  <2>1. "no tracks" # "none" /\ "truncated" # "none"
    OBVIOUS
  <2> QED BY <1>7, <2>1, SimpleResults, Zenon
<1>8. CASE wrong # {} /\ Concat(j) = read[Min(wrong)]
  <2>1. wrong \in SUBSET (0..n)
    BY <1>1, <1>6
  <2>2. Min(wrong) \in wrong
    BY <1>1, <1>8, <2>1, PlaceOf
  <2>3. PICK m \in wrong : Concat(j) = read[m]
    BY <1>8, <2>2
  <2>4. read[m].error # "none" /\ read[m] = Error(read[m].error)
    BY <1>4, <1>6
  <2> QED BY <2>3, <2>4, SimpleResults, Zenon
<1>9. CASE s # <<>> /\ Concat(j) = OneBehindTheOther(all)
  <2>1. n > 0
    <3>1. s \in Seq(SourceType)
      BY DEF JobType, s
    <3> QED BY <1>9, <3>1, EmptySeq DEF n
  <2> HIDE DEF T
  <2>2. all \in [1..n -> T]
    BY <1>4, <1>5
  <2>3. all \in Seq(T) /\ Len(all) = n
    BY <1>1, <2>2, FunctionIsSeq
  <2>4. all # <<>>
    BY <2>1, <2>3, EmptySeq
  <2> QED BY <1>9, <2>3, <2>4, OneBehindTheOtherType DEF T
<1> QED BY <1>2, <1>7, <1>8, <1>9

(* of Join,                                                                *)
LEMMA JoinType ==
    ASSUME NEW j \in JobType
    PROVE  Good(Join(j))
<1> DEFINE read == SideBySide(j.sources, j.drop)
<1>1. read \in Seq(TrackType)
  <2>1. j.sources \in Seq(SourceType)
    BY DEF JobType
  <2>2. \A i \in DOMAIN j.sources : j.sources[i] \in SourceType
    BY <2>1, LenProperties, ElementOfSeq
  <2>3. \A i \in DOMAIN j.sources : j.sources[i].tracks \in Seq(TrackType)
    BY <2>2 DEF SourceType
  <2> QED BY <2>1, <2>3, SideBySideType
<1> HIDE DEF read
<1>2. Described(read) \in Seq(TrackType)
  BY <1>1, DescribedType
<1>3. \/ Join(j) \in {Error("no tracks"), Error("truncated"), Error("unreadable")}
      \/ Join(j) = Okay(<<Described(read)>>)
  BY Zenon DEF Join, read
<1>4. "no tracks" # "none" /\ "truncated" # "none" /\ "unreadable" # "none"
  OBVIOUS
<1> QED BY <1>2, <1>3, <1>4, SimpleResults, Zenon

(* and so of every call.                                                   *)
LEMMA PreparedType ==
    ASSUME NEW j \in JobType, j.op = "cut" => Len(j.sources) = 1
    PROVE  Good(Prepared(j))
<1>1. CASE j.op = "cut"
  BY <1>1, CutType DEF Prepared
<1>2. CASE j.op # "cut"
  BY <1>2, ConcatType, JoinType DEF Prepared
<1> QED BY <1>1, <1>2

(***************************************************************************)
(* The sources.                                                            *)
(***************************************************************************)
(* A track whose samples are numbered is a track.                          *)
LEMMA NumberedTrackType ==
    ASSUME NEW t \in TrackType
    PROVE  NumberedTrack(t) \in TrackType
<1> DEFINE s == t.samples
           l == Len(s)
           f == [n \in DOMAIN s |-> [s[n] EXCEPT !.n = n]]
<1>1. l \in Nat /\ DOMAIN s = 1..l /\ \A i \in 1..l : s[i] \in SampleType
  BY SampleTimes
<1>2. ASSUME NEW n \in 1..l PROVE f[n] \in SampleType
  <2>1. f[n] = [s[n] EXCEPT !.n = n]
    BY <1>1
  <2>2. s[n] \in SampleType /\ n \in Nat
    BY <1>1
  <2> DEFINE e == s[n]
  <2>3. e \in SampleType
    BY <2>2
  <2> HIDE DEF e
  <2>4. [e EXCEPT !.n = n] \in SampleType
    BY <2>2, <2>3 DEF SampleType
  <2> HIDE DEF f, s
  <2> QED BY <2>1, <2>4 DEF e
<1>3. f = [n \in 1..l |-> f[n]]
  BY <1>1
<1> HIDE DEF f, l
<1>4. f \in [1..l -> SampleType]
  BY <1>2, <1>3
<1>5. f \in Seq(SampleType)
  BY <1>1, <1>4, FunctionIsSeq
<1> HIDE DEF s
<1>6. [t EXCEPT !.samples = f] \in TrackType
  BY <1>5 DEF TrackType
<1> QED BY <1>6 DEF NumberedTrack, f, s

(* So is a source a source,                                                *)
LEMMA NumberedType ==
    ASSUME NEW source \in SourceType
    PROVE  Numbered(source) \in SourceType
<1> DEFINE t == source.tracks
           l == Len(t)
           f == [k \in DOMAIN t |-> NumberedTrack(t[k])]
<1>1. l \in Nat /\ DOMAIN t = 1..l /\ \A i \in 1..l : t[i] \in TrackType
  <2>1. t \in Seq(TrackType)
    BY DEF SourceType
  <2> QED BY <2>1, LenProperties, ElementOfSeq
<1>2. Numbered(source) = [source EXCEPT !.tracks = f]
  BY DEF Numbered
<1>3. f \in [1..l -> TrackType]
  BY <1>1, NumberedTrackType
<1> HIDE DEF f, l
<1>4. f \in Seq(TrackType)
  BY <1>1, <1>3, FunctionIsSeq
<1> QED BY <1>2, <1>4 DEF SourceType

(* and a call a call.                                                      *)
LEMMA NumberedJob ==
    ASSUME NEW j \in JobType
    PROVE  LET numbered == [j EXCEPT !.sources = [i \in DOMAIN j.sources |-> Numbered(j.sources[i])]]
           IN  /\ numbered \in JobType
               /\ numbered.op = j.op
               /\ Len(numbered.sources) = Len(j.sources)
<1> DEFINE s == j.sources
           l == Len(s)
           f == [i \in DOMAIN s |-> Numbered(s[i])]
<1>1. l \in Nat /\ DOMAIN s = 1..l /\ \A i \in 1..l : s[i] \in SourceType
  <2>1. s \in Seq(SourceType)
    BY DEF JobType
  <2> QED BY <2>1, LenProperties, ElementOfSeq
<1>2. f \in [1..l -> SourceType]
  BY <1>1, NumberedType
<1> HIDE DEF f, l
<1>3. f \in Seq(SourceType) /\ Len(f) = l
  BY <1>1, <1>2, FunctionIsSeq
<1>4. [j EXCEPT !.sources = f] \in JobType
  BY <1>3 DEF JobType
<1>5. /\ [j EXCEPT !.sources = f].op = j.op
      /\ [j EXCEPT !.sources = f].sources = f
  BY DEF JobType
<1> QED BY <1>3, <1>4, <1>5 DEF f, l

(***************************************************************************)
(* Every state is of its type.                                             *)
(***************************************************************************)
LEMMA InitTypeOK == Init => TypeOK
<1> SUFFICES ASSUME Init PROVE TypeOK
  OBVIOUS
<1>1. PICK j \in Jobs : job = [j EXCEPT !.sources = [i \in DOMAIN j.sources |-> Numbered(j.sources[i])]]
  BY DEF Init
<1>2. j \in JobType /\ (j.op = "cut" => Len(j.sources) = 1)
  BY CopyingAssumption
<1>3. job \in JobType /\ (job.op = "cut" => Len(job.sources) = 1)
  BY <1>1, <1>2, NumberedJob
<1>4. Paired(<<>>)
  <2>1. Good(Error("range")) /\ Error("range").tracks = <<>>
    BY SimpleResults DEF Error
  <2> QED BY <2>1, Zenon DEF Good
<1>5. <<>> \in Seq(WrittenType) /\ DOMAIN <<>> = {}
  BY EmptySeq
<1>6. /\ pc = "read" /\ inputs = <<>> /\ input = 1 /\ out = <<>>
  BY DEF Init
<1>7. 1 \in Nat \ {0} /\ pc \in {"read", "declare", "copy", "done", "failed"}
      /\ pc \notin {"declare", "copy", "done"}
  BY <1>6
<1> QED BY <1>3, <1>4, <1>5, <1>6, <1>7, Zenon DEF TypeOK

(* What paired inputs are made of.                                         *)
LEMMA PairedTracks ==
    ASSUME NEW all, Paired(all), NEW i \in DOMAIN all
    PROVE  /\ Len(all) \in Nat /\ DOMAIN all = 1..Len(all) /\ 1 \in DOMAIN all
           /\ Len(all[1]) \in Nat /\ DOMAIN all[1] = 1..Len(all[1])
           /\ DOMAIN all[i] = DOMAIN all[1]
           /\ \A k \in DOMAIN all[i] : all[i][k] \in TrackType
<1> DEFINE T == Seq(TrackType)
<1>1. all \in Seq(T) /\ Len(all[i]) = Len(all[1])
  BY DEF Paired
<1> HIDE DEF T
<1>2. Len(all) \in Nat /\ DOMAIN all = 1..Len(all) /\ \A m \in 1..Len(all) : all[m] \in T
  BY <1>1, LenProperties, ElementOfSeq
<1>3. 1 \in DOMAIN all
  BY <1>2
<1>4. all[i] \in T /\ all[1] \in T
  BY <1>2, <1>3
<1>5. /\ DOMAIN all[i] = 1..Len(all[i]) /\ DOMAIN all[1] = 1..Len(all[1])
      /\ Len(all[1]) \in Nat
      /\ \A k \in 1..Len(all[i]) : all[i][k] \in TrackType
  BY <1>4, LenProperties, ElementOfSeq DEF T
<1> QED BY <1>1, <1>2, <1>3, <1>5, Zenon

(* What is copied, while it is copied.                                     *)
LEMMA CopyTypes ==
    ASSUME TypeOK, pc = "copy"
    PROVE  /\ input \in Nat \ {0} /\ input \in DOMAIN inputs /\ 1 \in DOMAIN inputs
           /\ Len(inputs[1]) \in Nat /\ DOMAIN inputs[1] = 1..Len(inputs[1])
           /\ DOMAIN inputs[input] = DOMAIN inputs[1]
           /\ \A k \in DOMAIN inputs[1] :
                /\ inputs[input][k] \in TrackType
                /\ Scale(k) \in Nat \ {0}
                /\ next[k] \in Nat \ {0} /\ at[k] \in Nat
           /\ next \in [DOMAIN inputs[1] -> Nat \ {0}]
           /\ at \in [DOMAIN inputs[1] -> Nat]
           /\ Left \subseteq DOMAIN inputs[1]
           /\ \A k \in Left : next[k] \in 1..Len(inputs[input][k].samples)
<1>1. /\ Paired(inputs) /\ input \in DOMAIN inputs /\ input \in Nat \ {0}
      /\ next \in [DOMAIN inputs[1] -> Nat \ {0}]
      /\ at \in [DOMAIN inputs[1] -> Nat]
  BY DEF TypeOK
<1>2. /\ 1 \in DOMAIN inputs
      /\ Len(inputs[1]) \in Nat /\ DOMAIN inputs[1] = 1..Len(inputs[1])
      /\ DOMAIN inputs[input] = DOMAIN inputs[1]
      /\ \A k \in DOMAIN inputs[1] : inputs[input][k] \in TrackType
  BY <1>1, PairedTracks
<1>3. \A k \in DOMAIN inputs[1] : next[k] \in Nat \ {0} /\ at[k] \in Nat
  BY <1>1
<1>4. Left \subseteq DOMAIN inputs[1]
  BY <1>2 DEF Left
<1>5. \A k \in Left : next[k] \in 1..Len(inputs[input][k].samples)
  <2> SUFFICES ASSUME NEW k \in Left PROVE next[k] \in 1..Len(inputs[input][k].samples)
    OBVIOUS
  <2>1. next[k] <= Len(inputs[input][k].samples)
    BY DEF Left
  <2>2. next[k] \in Nat \ {0} /\ inputs[input][k] \in TrackType
    BY <1>2, <1>3, <1>4
  <2>3. Len(inputs[input][k].samples) \in Nat
    BY <2>2, SampleTimes
  <2> DEFINE l == Len(inputs[input][k].samples)
             n == next[k]
  <2> HIDE DEF l, n
  <2>4. n \in 1..l
    BY <2>1, <2>2, <2>3 DEF l, n
  <2> QED BY <2>4 DEF l, n
<1>6. \A k \in DOMAIN inputs[1] : Scale(k) \in Nat \ {0}
  BY <1>2, SampleTimes DEF Scale
<1> QED BY <1>1, <1>2, <1>3, <1>4, <1>5, <1>6, Zenon

(* The track that is written to is one of those that are left, and of them *)
(* the first that is furthest behind.                                      *)
LEMMA PickChosen ==
    ASSUME TypeOK, pc = "copy", Left # {}
    PROVE  /\ Pick \in Left /\ Pick \in DOMAIN inputs[1]
           /\ next[Pick] \in 1..Len(inputs[input][Pick].samples)
           /\ inputs[input][Pick].samples[next[Pick]] \in SampleType
           /\ \A o \in Left \ {Pick} :
                IF o < Pick THEN Before(at[Pick], Scale(Pick), at[o], Scale(o))
                            ELSE ~Before(at[o], Scale(o), at[Pick], Scale(Pick))
<1> DEFINE n == Len(inputs[1])
           time == [k \in 1..n |-> at[k]]
           scale == [k \in 1..n |-> Scale(k)]
           Best(k) == \A other \in Left \ {k} :
                        IF other < k THEN Before(at[k], Scale(k), at[other], Scale(other))
                                     ELSE ~Before(at[other], Scale(other), at[k], Scale(k))
<1>1. /\ n \in Nat /\ DOMAIN inputs[1] = 1..n /\ Left \in SUBSET (1..n)
      /\ \A k \in 1..n : Scale(k) \in Nat \ {0} /\ at[k] \in Nat
  BY CopyTypes
<1>2. time \in [1..n -> Int] /\ scale \in [1..n -> Nat \ {0}]
  BY <1>1
<1>3. \A k \in 1..n : time[k] = at[k] /\ scale[k] = Scale(k)
  OBVIOUS
<1> HIDE DEF time, scale, n
<1>4. PICK k \in Left : FirstBehind(k, Left, time, scale)
  BY <1>1, <1>2, FirstBehindExists
<1>5. Best(k)
  BY <1>1, <1>3, <1>4 DEF FirstBehind
<1>6. Pick = CHOOSE l \in Left : Best(l)
  BY DEF Pick, Scale
<1>7. Pick \in Left /\ Best(Pick)
  <2> HIDE DEF Best
  <2> QED BY <1>4, <1>5, <1>6, Zenon
<1>8. /\ Pick \in DOMAIN inputs[1]
      /\ inputs[input][Pick] \in TrackType
      /\ next[Pick] \in 1..Len(inputs[input][Pick].samples)
  BY <1>7, CopyTypes
<1>9. inputs[input][Pick].samples[next[Pick]] \in SampleType
  BY <1>8, SampleTimes
<1> QED BY <1>7, <1>8, <1>9, Zenon

(* Every step keeps the types.                                             *)
LEMMA NextTypeOK == TypeOK /\ [Next]_vars => TypeOK'
<1> SUFFICES ASSUME TypeOK, [Next]_vars PROVE TypeOK'
  OBVIOUS
<1> DEFINE Kept == \A j \in DOMAIN out :
                     /\ out[j].input \in 1..input
                     /\ out[j].input \in DOMAIN inputs
                     /\ out[j].track \in DOMAIN inputs[1]
<1>1. /\ job \in JobType /\ (job.op = "cut" => Len(job.sources) = 1)
      /\ Paired(inputs) /\ input \in Nat \ {0}
      /\ out \in Seq(WrittenType) /\ Kept
      /\ pc \in {"declare", "copy", "done"} => input \in DOMAIN inputs
      /\ pc \in {"read", "declare"} => out = <<>> /\ input = 1
  BY DEF TypeOK
<1> HIDE DEF Kept
<1>2. CASE Prepare
  <2>1. /\ pc = "read" /\ UNCHANGED <<job, input, next, at, out>>
        /\ inputs' = Prepared(job).tracks
        /\ \/ Prepared(job).error = "none" /\ pc' = "declare"
           \/ pc' = "failed"
    BY <1>2 DEF Prepare, Fail
  <2>2. Good(Prepared(job))
    BY <1>1, PreparedType
  <2>3. Paired(inputs') /\ (pc' = "declare" => inputs' # <<>>)
    BY <2>1, <2>2 DEF Good
  <2>4. input = 1 /\ out = <<>>
    BY <1>1, <2>1
  <2>5. pc' = "declare" => input' \in DOMAIN inputs'
    <3> DEFINE T == Seq(TrackType)
    <3>1. inputs' \in Seq(T)
      BY <2>3 DEF Paired
    <3> HIDE DEF T
    <3>2. Len(inputs') \in Nat /\ DOMAIN inputs' = 1..Len(inputs')
      BY <3>1, LenProperties
    <3>3. inputs' # <<>> => Len(inputs') # 0
      BY <3>1, EmptySeq
    <3> QED BY <2>1, <2>3, <2>4, <3>2, <3>3
  <2>6. DOMAIN <<>> = {}
    OBVIOUS
  <2> QED BY <1>1, <2>1, <2>3, <2>4, <2>5, <2>6 DEF TypeOK
<1>3. ASSUME UNCHANGED <<job, pc, inputs, input, next, at, out>>
      PROVE  TypeOK'
  BY <1>3 DEF TypeOK
<1>4. ASSUME pc' \in {"done", "failed"}, pc' = "done" => pc = "copy",
             UNCHANGED <<job, inputs, input, next, at, out>>
      PROVE  TypeOK'
  BY <1>1, <1>4 DEF TypeOK, Kept
<1>5. ASSUME 1 \in DOMAIN inputs, FromStart, UNCHANGED inputs
      PROVE  /\ next' \in [DOMAIN inputs'[1] -> Nat \ {0}]
             /\ at' \in [DOMAIN inputs'[1] -> Nat]
  BY <1>5 DEF FromStart
<1>6. CASE Declare
  <2>1. /\ pc = "declare" /\ pc' = "copy" /\ FromStart
        /\ UNCHANGED <<job, inputs, input, out>>
    BY <1>6 DEF Declare
  <2>2. 1 \in DOMAIN inputs /\ input \in DOMAIN inputs
    BY <1>1, <2>1
  <2> QED BY <1>1, <1>5, <2>1, <2>2 DEF TypeOK, Kept
<1>7. CASE DeclareRefused
  BY <1>4, <1>7 DEF DeclareRefused, Fail
<1>8. CASE WriteSample
  <2> DEFINE sample == inputs[input][Pick].samples[next[Pick]]
             entry == [track |-> Pick, input |-> input, sample |-> sample]
             P == Pick
             D == DOMAIN inputs[1]
  <2>1. /\ pc = "copy" /\ Left # {}
        /\ out' = Append(out, entry)
        /\ at' = [at EXCEPT ![P] = at[P] + sample.dur]
        /\ next' = [next EXCEPT ![P] = next[P] + 1]
        /\ UNCHANGED <<job, pc, inputs, input>>
    BY <1>8 DEF WriteSample
  <2>2. sample \in SampleType /\ P \in D
    BY <2>1, PickChosen
  <2>3. /\ next \in [D -> Nat \ {0}] /\ at \in [D -> Nat]
        /\ D \subseteq Nat \ {0} /\ input \in Nat \ {0} /\ input \in DOMAIN inputs
    <3>1. D = 1..Len(inputs[1]) /\ Len(inputs[1]) \in Nat
      BY <2>1, CopyTypes
    <3>2. D \subseteq Nat \ {0}
      BY <3>1
    <3> QED BY <2>1, <3>2, CopyTypes
  <2> HIDE DEF sample, P, D
  <2>4. sample.dur \in Nat
    BY <2>2 DEF SampleType
  <2>5. next' \in [D -> Nat \ {0}] /\ at' \in [D -> Nat]
    BY <2>1, <2>2, <2>3, <2>4
  <2>6. /\ entry \in WrittenType
        /\ entry.input = input /\ entry.track = P
    BY <2>2, <2>3 DEF WrittenType, P
  <2> HIDE DEF entry
  <2>7. out' \in Seq(WrittenType)
    BY <1>1, <2>1, <2>6, AppendProperties
  <2>8. \A j \in DOMAIN out' :
          /\ out'[j].input \in 1..input
          /\ out'[j].input \in DOMAIN inputs
          /\ out'[j].track \in DOMAIN inputs[1]
    <3> SUFFICES ASSUME NEW j \in DOMAIN out'
                 PROVE  /\ out'[j].input \in 1..input
                        /\ out'[j].input \in DOMAIN inputs
                        /\ out'[j].track \in DOMAIN inputs[1]
      OBVIOUS
    <3>1. \/ j \in DOMAIN out /\ out'[j] = out[j]
          \/ out'[j] = entry
      <4>1. /\ Len(out) \in Nat /\ DOMAIN out = 1..Len(out)
            /\ Len(out') = Len(out) + 1 /\ DOMAIN out' = 1..Len(out')
        BY <1>1, <2>1, <2>6, <2>7, LenProperties, AppendProperties
      <4>2. \A i \in 1..Len(out) : out'[i] = out[i]
        BY <1>1, <2>1, <2>6, AppendProperties
      <4>3. out'[Len(out) + 1] = entry
        BY <1>1, <2>1, <2>6, AppendProperties
      <4> DEFINE l == Len(out)
      <4>4. j \in 1..l \/ j = l + 1
        <5> HIDE DEF l
        <5>1. l \in Nat /\ j \in 1..(l + 1)
          BY <4>1 DEF l
        <5> QED BY <5>1
      <4> QED BY <4>1, <4>2, <4>3, <4>4
    <3>2. input \in 1..input
      BY <2>3
    <3> QED BY <1>1, <2>2, <2>3, <2>6, <3>1, <3>2 DEF Kept, D
  <2>9. pc' = "copy" /\ pc' \notin {"read", "declare"}
    BY <2>1
  <2> QED BY <1>1, <2>1, <2>3, <2>5, <2>7, <2>8, <2>9 DEF TypeOK, D
<1>9. CASE SampleRefused
  BY <1>4, <1>9 DEF SampleRefused, Fail
<1>10. CASE NextInput
  <2>1. /\ pc = "copy" /\ input < Len(inputs) /\ input' = input + 1 /\ FromStart
        /\ UNCHANGED <<job, pc, inputs, out>>
    BY <1>10 DEF NextInput
  <2>2. 1 \in DOMAIN inputs /\ Len(inputs) \in Nat /\ DOMAIN inputs = 1..Len(inputs)
    <3>1. input \in DOMAIN inputs
      BY <1>1, <2>1
    <3> QED BY <1>1, <3>1, PairedTracks
  <2>3. input' \in Nat \ {0} /\ input' \in DOMAIN inputs' /\ 1..input \subseteq 1..input'
    BY <1>1, <2>1, <2>2
  <2> QED BY <1>1, <1>5, <2>1, <2>2, <2>3 DEF TypeOK, Kept
<1>11. CASE CloseMuxer
  BY <1>4, <1>11 DEF CloseMuxer, Fail
<1>12. CASE Returned \/ UNCHANGED vars
  BY <1>3, <1>12 DEF Returned, vars
<1> QED BY <1>2, <1>6, <1>7, <1>8, <1>9, <1>10, <1>11, <1>12 DEF Next

(***************************************************************************)
(* The output is merged.                                                   *)
(***************************************************************************)
(* The time of a sample is how long those before it make its track.        *)
LEMMA TimeWritten ==
    \A i : TimeIn(i) = Written(out, out[i].track, out[i].input, i - 1)
BY Zenon DEF TimeIn, Written

(* A sample that is written makes its own track longer, and no time of     *)
(* those before it is another.                                             *)
Extends(o, p, e, k, i, l) ==
    /\ \A n \in 0..l : Written(p, k, i, n) = Written(o, k, i, n)
    /\ \A n \in 0..l : Written(o, k, i, n) \in Nat
    /\ Written(p, k, i, l + 1)
         = Written(o, k, i, l) + IF e.track = k /\ e.input = i THEN e.sample.dur ELSE 0

(* Appending a sample does.                                                *)
LEMMA WrittenStep ==
    ASSUME NEW o \in Seq(WrittenType), NEW e \in WrittenType,
           NEW k, NEW i
    PROVE  Extends(o, Append(o, e), e, k, i, Len(o))
<1> DEFINE p == Append(o, e)
           l == Len(o)
           f == [j \in DOMAIN o |-> IF o[j].track = k /\ o[j].input = i THEN o[j].sample.dur ELSE 0]
           g == [j \in DOMAIN p |-> IF p[j].track = k /\ p[j].input = i THEN p[j].sample.dur ELSE 0]
<1>1. /\ l \in Nat /\ DOMAIN o = 1..l
      /\ p \in Seq(WrittenType) /\ Len(p) = l + 1 /\ DOMAIN p = 1..(l + 1)
      /\ \A j \in 1..l : p[j] = o[j] /\ o[j] \in WrittenType
      /\ p[l + 1] = e
  BY AppendProperties, LenProperties, ElementOfSeq
<1>2. \A n : Written(o, k, i, n) = SumTo(f, n) /\ Written(p, k, i, n) = SumTo(g, n)
  BY Zenon DEF Written
<1> HIDE DEF p, l
<1>3. l + 1 \in 1..(l + 1) /\ \A j \in 1..l : j \in 1..(l + 1)
  BY <1>1
<1>4. \A j \in 1..l : g[j] = f[j]
  BY <1>1, <1>3
<1>5. g[l + 1] = IF e.track = k /\ e.input = i THEN e.sample.dur ELSE 0
  BY <1>1, <1>3
<1>6. \A j \in 1..l : f[j] \in Nat
  BY <1>1 DEF WrittenType, SampleType
<1> HIDE DEF f, g
<1>7. \A n \in 0..l : SumTo(f, n) \in Nat
  BY <1>1, <1>6, SumGrows
<1>8. \A n \in 0..l : SumTo(g, n) = SumTo(f, n)
  <2> SUFFICES ASSUME NEW n \in 0..l PROVE SumTo(g, n) = SumTo(f, n)
    OBVIOUS
  <2>1. n \in Nat /\ \A j \in 1..n : g[j] = f[j]
    BY <1>1, <1>4
  <2> QED BY <2>1, SumSame
<1>9. SumTo(g, l + 1) = SumTo(g, l) + g[l + 1]
  BY <1>1, SumStep
<1>10. l \in 0..l
  BY <1>1
<1> QED BY <1>2, <1>5, <1>7, <1>8, <1>9, <1>10, Zenon DEF Extends, l, p

(* A track of which nothing is written has no length.                      *)
LEMMA NoneWritten ==
    ASSUME NEW o \in Seq(WrittenType), NEW k, NEW i,
           \A j \in DOMAIN o : o[j].input # i
    PROVE  Written(o, k, i, Len(o)) = 0
<1> DEFINE l == Len(o)
           f == [j \in DOMAIN o |-> IF o[j].track = k /\ o[j].input = i THEN o[j].sample.dur ELSE 0]
           S == {m \in Nat : m <= l => SumTo(f, m) = 0}
<1>1. l \in Nat /\ DOMAIN o = 1..l
  BY LenProperties
<1>2. \A j \in 1..l : f[j] = 0
  BY <1>1
<1>3. Written(o, k, i, l) = SumTo(f, l)
  BY Zenon DEF Written
<1> HIDE DEF f, l
<1>4. 0 \in S
  BY SumZero
<1>5. ASSUME NEW m \in Nat, m \in S
      PROVE  m + 1 \in S
  <2>1. m + 1 <= l => m + 1 \in 1..l /\ m <= l
    BY <1>1
  <2>2. SumTo(f, m + 1) = SumTo(f, m) + f[m + 1]
    BY SumStep
  <2> QED BY <1>2, <1>5, <2>1, <2>2
<1> HIDE DEF S
<1>6. l \in S
  BY <1>1, <1>4, <1>5, NatSetInduction
<1> QED BY <1>1, <1>3, <1>6 DEF S, l

(* A time that is not after another is not after a later one.              *)
LEMMA NotAfterLater ==
    ASSUME NEW a \in Int, NEW b \in Int, NEW c \in Int, b <= c,
           NEW p \in Nat \ {0}, NEW q \in Nat \ {0}, NEW k, NEW l,
           NotAfter(a, p, k, b, q, l)
    PROVE  NotAfter(a, p, k, c, q, l)
<1> DEFINE aq == a * q
           bp == b * p
           cp == c * p
<1>1. aq \in Int /\ bp \in Int /\ cp \in Int /\ p > 0
  OBVIOUS
<1>2. aq <= bp /\ (aq = bp => k <= l)
  BY DEF NotAfter
<1>3. b < c => bp < cp
  BY <1>1, Products
<1> HIDE DEF aq, bp, cp
<1>4. b = c => bp = cp
  BY DEF bp, cp
<1>5. aq <= cp /\ (aq = cp => k <= l)
  BY <1>1, <1>2, <1>3, <1>4
<1> QED BY <1>5 DEF NotAfter, aq, cp

(* What is furthest behind first is not after the others.                  *)
LEMMA FirstNotAfter ==
    ASSUME NEW a \in Int, NEW b \in Int, NEW p \in Nat \ {0}, NEW q \in Nat \ {0},
           NEW k \in Nat, NEW l \in Nat,
           IF l < k THEN Before(a, p, b, q) ELSE ~Before(b, q, a, p)
    PROVE  NotAfter(a, p, k, b, q, l)
<1> DEFINE aq == a * q
           bp == b * p
<1>1. aq \in Int /\ bp \in Int
  OBVIOUS
<1>2. IF l < k THEN aq < bp ELSE ~(bp < aq)
  BY DEF Before
<1> HIDE DEF aq, bp
<1>3. aq <= bp /\ (aq = bp => k <= l)
  BY <1>1, <1>2
<1> QED BY <1>3 DEF NotAfter, aq, bp

(* What a sample that is written changes of the output and its times.      *)
LEMMA WriteTimes ==
    ASSUME TypeOK, WriteSample,
           NEW P, P = Pick, NEW sample, sample = inputs[input][P].samples[next[P]],
           NEW l, l = Len(out)
    PROVE  /\ P \in Left /\ P \in DOMAIN inputs[1] /\ l \in Nat
           /\ DOMAIN out = 1..l /\ DOMAIN out' = 1..(l + 1)
           /\ \A j \in 1..l : out'[j] = out[j] /\ TimeIn(j)' = TimeIn(j) /\ TimeIn(j) \in Nat
           /\ out'[l + 1].track = P /\ out'[l + 1].input = input
           /\ TimeIn(l + 1)' = Written(out, P, input, l)
           /\ sample.dur \in Nat
           /\ \A k : Written(out', k, input, l + 1)
                       = Written(out, k, input, l) + IF P = k THEN sample.dur ELSE 0
<1> DEFINE entry == [track |-> P, input |-> input, sample |-> sample]
<1>1. pc = "copy" /\ Left # {} /\ out' = Append(out, entry)
  BY DEF WriteSample
<1>2. /\ P \in Left /\ P \in DOMAIN inputs[1]
      /\ sample \in SampleType
  BY <1>1, PickChosen
<1>3. out \in Seq(WrittenType) /\ P \in Nat \ {0} /\ input \in Nat \ {0}
  <2>1. /\ DOMAIN inputs[1] = 1..Len(inputs[1]) /\ Len(inputs[1]) \in Nat
        /\ input \in Nat \ {0}
    BY <1>1, CopyTypes
  <2>2. DOMAIN inputs[1] \subseteq Nat \ {0}
    BY <2>1
  <2> QED BY <1>2, <2>1, <2>2 DEF TypeOK
<1>4. entry \in WrittenType /\ entry.track = P /\ entry.input = input /\ entry.sample = sample
  BY <1>2, <1>3 DEF WrittenType
<1>5. sample.dur \in Nat
  BY <1>2 DEF SampleType
<1> HIDE DEF entry
<1>6. /\ l \in Nat /\ DOMAIN out = 1..l /\ DOMAIN out' = 1..(l + 1)
      /\ \A j \in 1..l : out'[j] = out[j]
      /\ out'[l + 1] = entry
  BY <1>1, <1>3, <1>4, AppendProperties, LenProperties
<1>7. \A k, i : /\ \A n \in 0..l : Written(out', k, i, n) = Written(out, k, i, n)
                /\ \A n \in 0..l : Written(out, k, i, n) \in Nat
                /\ Written(out', k, i, l + 1)
                     = Written(out, k, i, l)
                         + IF entry.track = k /\ entry.input = i THEN entry.sample.dur ELSE 0
  <2> SUFFICES ASSUME NEW k, NEW i
               PROVE  /\ \A n \in 0..l : Written(out', k, i, n) = Written(out, k, i, n)
                      /\ \A n \in 0..l : Written(out, k, i, n) \in Nat
                      /\ Written(out', k, i, l + 1)
                           = Written(out, k, i, l)
                               + IF entry.track = k /\ entry.input = i THEN entry.sample.dur ELSE 0
    OBVIOUS
  <2>1. Extends(out, Append(out, entry), entry, k, i, Len(out))
    BY <1>3, <1>4, WrittenStep
  <2>2. Extends(out, out', entry, k, i, l)
    BY <1>1, <2>1, Zenon
  <2> QED BY <2>2, Zenon DEF Extends
<1>8. \A j : /\ TimeIn(j) = Written(out, out[j].track, out[j].input, j - 1)
             /\ TimeIn(j)' = Written(out', out'[j].track, out'[j].input, j - 1)
  BY TimeWritten, Zenon DEF TimeIn, Written
<1>9. ASSUME NEW j \in 1..l PROVE TimeIn(j)' = TimeIn(j) /\ TimeIn(j) \in Nat
  <2>1. j - 1 \in 0..l /\ out'[j] = out[j]
    BY <1>6
  <2>2. TimeIn(j)' = Written(out', out[j].track, out[j].input, j - 1)
    BY <1>8, <2>1, Zenon
  <2>3. TimeIn(j) = Written(out, out[j].track, out[j].input, j - 1)
    BY <1>8, Zenon
  <2>4. /\ Written(out', out[j].track, out[j].input, j - 1)
             = Written(out, out[j].track, out[j].input, j - 1)
        /\ Written(out, out[j].track, out[j].input, j - 1) \in Nat
    BY <1>7, <2>1, Zenon
  <2> QED BY <2>2, <2>3, <2>4, Zenon
<1>10. TimeIn(l + 1)' = Written(out, P, input, l)
  <2>1. l \in 0..l /\ (l + 1) - 1 = l
    BY <1>6
  <2>2. TimeIn(l + 1)' = Written(out', P, input, l)
    BY <1>4, <1>6, <1>8, <2>1, Zenon
  <2> QED BY <1>7, <2>1, <2>2, Zenon
<1>11. \A k : Written(out', k, input, l + 1)
                = Written(out, k, input, l) + IF P = k THEN sample.dur ELSE 0
  BY <1>4, <1>7, Zenon
<1>12. out'[l + 1].track = P /\ out'[l + 1].input = input
  BY <1>4, <1>6
<1> QED BY <1>2, <1>5, <1>6, <1>9, <1>10, <1>11, <1>12

(* What is written next is not before what was written, and leaves no      *)
(* other track behind.                                                     *)
LEMMA WriteMerges ==
    ASSUME TypeOK, TypeOK', ClocksRun, MergedInOrder, WriteSample
    PROVE  ClocksRun' /\ MergedInOrder'
<1>1. /\ pc = "copy" /\ Left # {} /\ UNCHANGED <<pc, inputs, input>>
      /\ at' = [at EXCEPT ![Pick] = at[Pick] + inputs[input][Pick].samples[next[Pick]].dur]
      /\ next' = [next EXCEPT ![Pick] = next[Pick] + 1]
  BY DEF WriteSample
<1> DEFINE D == DOMAIN inputs[1]
<1>2. PICK P \in {Pick}, sample \in {inputs[input][Pick].samples[next[Pick]]},
           l \in {Len(out)}, d \in {inputs[input][Pick].samples[next[Pick]].dur} :
        TRUE
  OBVIOUS
<1> HIDE DEF D
<1>3. /\ P \in Left /\ P \in D /\ l \in Nat /\ d \in Nat
      /\ DOMAIN out = 1..l /\ DOMAIN out' = 1..(l + 1)
      /\ \A j \in 1..l : out'[j] = out[j] /\ TimeIn(j)' = TimeIn(j) /\ TimeIn(j) \in Nat
      /\ out'[l + 1].track = P /\ out'[l + 1].input = input
      /\ TimeIn(l + 1)' = Written(out, P, input, l)
      /\ \A k : Written(out', k, input, l + 1)
                  = Written(out, k, input, l) + IF P = k THEN d ELSE 0
  <2>1. /\ P = Pick /\ sample = inputs[input][P].samples[next[P]] /\ l = Len(out)
        /\ d = sample.dur
    BY <1>2
  <2> QED BY <2>1, WriteTimes DEF D
<1>4. /\ at' = [at EXCEPT ![P] = at[P] + d]
      /\ next' = [next EXCEPT ![P] = next[P] + 1]
      /\ l = Len(out) /\ P = Pick
  BY <1>1, <1>2
<1>5. /\ \A k \in D : at[k] = Written(out, k, input, l)
      /\ \A j \in 1..l : out[j].input = input =>
           \A k \in Left :
             NotAfter(TimeIn(j), Scale(out[j].track), out[j].track, at[k], Scale(k), k)
  BY <1>1, <1>3, <1>4 DEF ClocksRun, D
<1>6. /\ D \subseteq Nat /\ Left \subseteq D
      /\ next \in [D -> Nat \ {0}] /\ at \in [D -> Nat]
      /\ \A k \in D : Scale(k) \in Nat \ {0} /\ at[k] \in Nat /\ next[k] \in Nat
      /\ DOMAIN inputs[input] = D
  <2>1. D = 1..Len(inputs[1]) /\ Len(inputs[1]) \in Nat
    BY <1>1, CopyTypes DEF D
  <2>2. D \subseteq Nat
    BY <2>1
  <2>3. Left \subseteq D
    BY <1>1, CopyTypes DEF D
  <2> QED BY <1>1, <2>2, <2>3, CopyTypes DEF D
<1>7. \A o \in Left \ {P} :
        IF o < P THEN Before(at[P], Scale(P), at[o], Scale(o))
                 ELSE ~Before(at[o], Scale(o), at[P], Scale(P))
  BY <1>1, <1>4, PickChosen
<1>8. \A k : Scale(k)' = Scale(k)
  BY <1>1 DEF Scale
<1>9. \A j \in DOMAIN out : out[j].track \in D
  BY DEF TypeOK, D
<1>10. TimeIn(l + 1)' = at[P]
  BY <1>3, <1>5
<1>11. \A k \in D : at'[k] = at[k] + IF P = k THEN d ELSE 0
  BY <1>4, <1>6
<1>12. \A k \in D : at'[k] \in Nat /\ at[k] <= at'[k]
  BY <1>3, <1>6, <1>11
<1>13. Left' \subseteq Left
  <2> SUFFICES ASSUME NEW k \in Left' PROVE k \in Left
    OBVIOUS
  <2>1. k \in D /\ next'[k] <= Len(inputs[input][k].samples)
    BY <1>1, <1>6 DEF Left
  <2>2. CASE k = P
    BY <1>3, <2>2
  <2>3. CASE k # P
    <3>1. next'[k] = next[k]
      BY <1>4, <1>6, <2>1, <2>3
    <3> QED BY <1>6, <2>1, <3>1 DEF Left
  <2> QED BY <2>2, <2>3
<1>14. \A k \in D : at'[k] = Written(out', k, input, l + 1)
  <2> SUFFICES ASSUME NEW k \in D PROVE at'[k] = Written(out', k, input, l + 1)
    OBVIOUS
  <2>1. at'[k] = Written(out, k, input, l) + IF P = k THEN d ELSE 0
    BY <1>5, <1>11, Zenon
  <2>2. Written(out', k, input, l + 1) = Written(out, k, input, l) + IF P = k THEN d ELSE 0
    BY <1>3, Zenon
  <2> QED BY <2>1, <2>2, Zenon
<1>15. ASSUME NEW j \in 1..(l + 1), out'[j].input = input, NEW k \in Left'
       PROVE  NotAfter(TimeIn(j)', Scale(out'[j].track), out'[j].track, at'[k], Scale(k), k)
  <2>1. k \in Left /\ k \in D /\ k \in Nat
    BY <1>6, <1>13
  <2>2. PICK t \in {TimeIn(j)'}, b \in {at[k]}, c \in {at'[k]}, p \in {Scale(out'[j].track)},
             q \in {Scale(k)}, m \in {out'[j].track} : TRUE
    OBVIOUS
  <2>3. b \in Nat /\ c \in Nat /\ b <= c /\ q \in Nat \ {0}
    BY <1>6, <1>12, <2>1, <2>2
  <2>4. CASE j \in 1..l
    <3>1. t \in Nat /\ t = TimeIn(j) /\ out'[j] = out[j]
      BY <1>3, <2>2, <2>4
    <3>2. p \in Nat \ {0}
      BY <1>3, <1>6, <1>9, <2>2, <2>4, <3>1
    <3>3. NotAfter(t, p, m, b, q, k)
      <4>1. out[j].input = input
        BY <1>15, <3>1
      <4>2. NotAfter(TimeIn(j), Scale(out[j].track), out[j].track, at[k], Scale(k), k)
        BY <1>5, <2>1, <2>4, <4>1, Zenon
      <4>3. p = Scale(out[j].track) /\ m = out[j].track /\ b = at[k] /\ q = Scale(k)
        BY <2>2, <3>1
      <4> QED BY <3>1, <4>2, <4>3, Zenon
    <3>4. NotAfter(t, p, m, c, q, k)
      <4>1. t \in Int /\ b \in Int /\ c \in Int
        BY <2>3, <3>1
      <4> QED BY <2>3, <3>2, <3>3, <4>1, NotAfterLater, Zenon
    <3> QED BY <2>2, <3>4
  <2>5. CASE j = l + 1
    <3>1. t = at[P] /\ m = P /\ p = Scale(P)
      BY <1>3, <1>10, <2>2, <2>5
    <3>2. t \in Nat /\ p \in Nat \ {0} /\ m \in Nat /\ k \in Nat
      BY <1>3, <1>6, <2>1, <3>1
    <3>3. IF k < m THEN Before(t, p, b, q) ELSE ~Before(b, q, t, p)
      <4>1. CASE k = P
        <5>1. b = t /\ q = p /\ ~(k < m)
          BY <2>2, <3>1, <3>2, <4>1
        <5>2. ~Before(t, p, t, p)
          BY <3>2, BeforeOneWay
        <5> QED BY <5>1, <5>2
      <4>2. CASE k # P
        BY <1>7, <2>1, <2>2, <3>1, <4>2
      <4> QED BY <4>1, <4>2
    <3>4. NotAfter(t, p, m, b, q, k)
      <4>1. t \in Int /\ b \in Int
        BY <2>3, <3>2
      <4> QED BY <2>3, <3>2, <3>3, <4>1, FirstNotAfter, Zenon
    <3>5. NotAfter(t, p, m, c, q, k)
      <4>1. t \in Int /\ b \in Int /\ c \in Int
        BY <2>3, <3>2
      <4> QED BY <2>3, <3>2, <3>4, <4>1, NotAfterLater, Zenon
    <3> QED BY <2>2, <3>5
  <2>6. j \in 1..l \/ j = l + 1
    BY <1>3
  <2> QED BY <2>4, <2>5, <2>6
<1>16. ClocksRun'
  <2>1. Len(out') = l + 1
    <3>1. out' \in Seq(WrittenType)
      BY DEF TypeOK
    <3>2. Len(out') \in Nat /\ DOMAIN out' = 1..Len(out')
      BY <3>1, LenProperties
    <3>3. out \in Seq(WrittenType)
      BY DEF TypeOK
    <3> QED BY <1>4, <3>3, AppendProperties DEF WriteSample
  <2> QED BY <1>1, <1>3, <1>8, <1>14, <1>15, <2>1 DEF ClocksRun, D
<1>17. MergedInOrder'
  <2> SUFFICES ASSUME NEW i \in DOMAIN out', NEW j \in 1..(i - 1),
                      out'[i].input = out'[j].input
               PROVE  LET scale(m) == inputs[out'[m].input][out'[m].track].scale
                      IN  /\ ~Before(TimeIn(i)', scale(i), TimeIn(j)', scale(j))
                          /\ TimeIn(i)' * scale(j) = TimeIn(j)' * scale(i)
                               => out'[j].track <= out'[i].track
    BY <1>1 DEF MergedInOrder
  <2>1. j \in 1..l /\ (i \in 1..l \/ i = l + 1)
    BY <1>3
  <2>2. CASE i \in 1..l
    <3>1. out'[i] = out[i] /\ out'[j] = out[j] /\ TimeIn(i)' = TimeIn(i) /\ TimeIn(j)' = TimeIn(j)
      BY <1>3, <2>1, <2>2
    <3> QED BY <1>3, <2>2, <3>1, Zenon DEF MergedInOrder
  <2>3. CASE i = l + 1
    <3>1. /\ out'[j] = out[j] /\ out[j].input = input
          /\ TimeIn(j)' = TimeIn(j) /\ TimeIn(j) \in Nat
          /\ out[j].track \in D
      BY <1>3, <1>9, <2>1, <2>3
    <3>2. NotAfter(TimeIn(j), Scale(out[j].track), out[j].track, at[P], Scale(P), P)
      BY <1>3, <1>5, <2>1, <3>1
    <3> DEFINE ap == TimeIn(j) * Scale(P)
               bp == at[P] * Scale(out[j].track)
    <3>3. ap \in Int /\ bp \in Int
      <4>1. /\ TimeIn(j) \in Int /\ Scale(P) \in Int
            /\ at[P] \in Int /\ Scale(out[j].track) \in Int
        <5>1. /\ TimeIn(j) \in Nat /\ Scale(P) \in Nat \ {0}
              /\ at[P] \in Nat /\ Scale(out[j].track) \in Nat \ {0}
          BY <1>3, <1>6, <3>1, Zenon
        <5> QED BY <5>1
      <4> QED BY <4>1, Factors
    <3>4. ap <= bp /\ (ap = bp => out[j].track <= P)
      BY <3>2 DEF NotAfter
    <3> HIDE DEF ap, bp
    <3>5. ~(bp < ap) /\ (bp = ap => out[j].track <= P)
      BY <3>3, <3>4
    <3>6. /\ inputs[out'[i].input][out'[i].track].scale = Scale(P)
          /\ inputs[out'[j].input][out'[j].track].scale = Scale(out[j].track)
          /\ out'[i].track = P /\ TimeIn(i)' = at[P]
      BY <1>3, <1>10, <2>3, <3>1 DEF Scale
    <3> QED BY <3>1, <3>5, <3>6 DEF Before, ap, bp
  <2> QED BY <2>1, <2>2, <2>3
<1> QED BY <1>16, <1>17

(* Clocks that start again are those of an input nothing is written of.    *)
LEMMA StartMerges ==
    ASSUME TypeOK, TypeOK', FromStart, UNCHANGED <<inputs, out>>, pc' = "copy",
           \A j \in DOMAIN out : out[j].input # input'
    PROVE  ClocksRun'
<1>1. 1 \in DOMAIN inputs
  <2>1. Paired(inputs') /\ input' \in DOMAIN inputs'
    BY DEF TypeOK
  <2> QED BY <2>1, PairedTracks
<1>2. \A k \in DOMAIN inputs'[1] : at'[k] = 0
  BY <1>1 DEF FromStart
<1>3. \A j \in DOMAIN out' : out'[j].input # input'
  OBVIOUS
<1>4. out' \in Seq(WrittenType)
  BY DEF TypeOK
<1>5. \A k \in DOMAIN inputs'[1] : Written(out', k, input', Len(out')) = 0
  <2> SUFFICES ASSUME NEW k \in DOMAIN inputs'[1]
               PROVE  Written(out', k, input', Len(out')) = 0
    OBVIOUS
  <2> QED BY <1>3, <1>4, NoneWritten
<1> QED BY <1>2, <1>3, <1>5 DEF ClocksRun

(* No input is returned to.                                                *)
LEMMA NextInputMerges ==
    ASSUME TypeOK, TypeOK', NextInput
    PROVE  ClocksRun'
<1>1. /\ pc = "copy" /\ pc' = "copy" /\ input' = input + 1 /\ FromStart /\ UNCHANGED <<inputs, out>>
  BY DEF NextInput
<1>2. input \in Nat \ {0} /\ \A j \in DOMAIN out : out[j].input \in 1..input
  BY DEF TypeOK
<1>3. \A j \in DOMAIN out : out[j].input # input'
  BY <1>1, <1>2
<1> QED BY <1>1, <1>3, StartMerges

(* A step that writes nothing leaves the output as it is.                  *)
LEMMA SameOutput ==
    ASSUME MergedInOrder, UNCHANGED out, UNCHANGED inputs \/ out = <<>>
    PROVE  MergedInOrder'
<1>1. CASE UNCHANGED inputs
  <2>1. inputs' = inputs /\ out' = out
    BY <1>1
  <2>2. \A i : TimeIn(i)' = TimeIn(i)
    BY <2>1 DEF TimeIn
  <2> QED BY <2>1, <2>2 DEF MergedInOrder
<1>2. CASE out = <<>>
  <2>1. DOMAIN out' = {}
    BY <1>2
  <2> QED BY <2>1, Zenon DEF MergedInOrder
<1> QED BY <1>1, <1>2

(* Nothing is written at first.                                            *)
LEMMA InitMergeInv == Init => MergeInv
<1> SUFFICES ASSUME Init PROVE MergeInv
  OBVIOUS
<1>1. pc = "read" /\ out = <<>>
  BY DEF Init
<1>2. DOMAIN out = {}
  BY <1>1
<1>3. pc # "copy"
  BY <1>1
<1> QED BY <1>2, <1>3, InitTypeOK, Zenon DEF MergeInv, ClocksRun, MergedInOrder

(* Every step keeps the output merged.                                     *)
LEMMA NextMergeInv == MergeInv /\ [Next]_vars => MergeInv'
<1> SUFFICES ASSUME MergeInv, [Next]_vars PROVE MergeInv'
  OBVIOUS
<1>1. TypeOK /\ TypeOK' /\ ClocksRun /\ MergedInOrder
  BY NextTypeOK DEF MergeInv
<1>2. ASSUME UNCHANGED out, UNCHANGED inputs \/ out = <<>>, pc' # "copy"
      PROVE  ClocksRun' /\ MergedInOrder'
  BY <1>1, <1>2, SameOutput DEF ClocksRun
<1>3. CASE Prepare
  <2>1. pc = "read" /\ pc' # "copy" /\ UNCHANGED out
    BY <1>3 DEF Prepare, Fail
  <2>2. out = <<>>
    BY <1>1, <2>1 DEF TypeOK
  <2> QED BY <1>1, <1>2, <2>1, <2>2 DEF MergeInv
<1>4. CASE Declare
  <2>1. pc = "declare" /\ pc' = "copy" /\ FromStart /\ UNCHANGED <<inputs, input, out>>
    BY <1>4 DEF Declare
  <2>2. DOMAIN out = {}
    <3>1. out = <<>>
      BY <1>1, <2>1 DEF TypeOK
    <3> QED BY <3>1
  <2>3. ClocksRun'
    BY <1>1, <2>1, <2>2, StartMerges
  <2> QED BY <1>1, <2>1, <2>3, SameOutput DEF MergeInv
<1>5. CASE WriteSample
  BY <1>1, <1>5, WriteMerges DEF MergeInv
<1>6. CASE NextInput
  <2>1. UNCHANGED <<inputs, out>>
    BY <1>6 DEF NextInput
  <2> QED BY <1>1, <1>6, <2>1, NextInputMerges, SameOutput DEF MergeInv
<1>7. CASE DeclareRefused \/ SampleRefused \/ CloseMuxer
  <2>1. UNCHANGED <<inputs, out>> /\ pc' # "copy"
    BY <1>7 DEF DeclareRefused, SampleRefused, CloseMuxer, Fail
  <2> QED BY <1>1, <1>2, <2>1 DEF MergeInv
<1>8. CASE Returned \/ UNCHANGED vars
  <2>1. /\ UNCHANGED <<pc, inputs>> /\ input' = input /\ next' = next /\ at' = at
        /\ out' = out
    BY <1>8 DEF Returned, vars
  <2>2. ClocksRun'
    <3>1. \A i : TimeIn(i)' = TimeIn(i)
      BY <2>1 DEF TimeIn
    <3>2. Left' = Left /\ \A k : Scale(k)' = Scale(k)
      BY <2>1 DEF Left, Scale
    <3> QED BY <1>1, <2>1, <3>1, <3>2 DEF ClocksRun
  <2>3. MergedInOrder'
    BY <1>1, <2>1, SameOutput
  <2> QED BY <1>1, <2>2, <2>3 DEF MergeInv
<1> QED BY <1>3, <1>4, <1>5, <1>6, <1>7, <1>8 DEF Next

(* The types of the calls, of what is prepared of their sources and of     *)
(* what is written of it.                                                  *)
THEOREM CopyingTypes == Spec => []TypeOK
BY InitTypeOK, NextTypeOK, PTL DEF Spec

(* The samples of an input are written in the order of their times,        *)
(* whatever the timescales of its tracks, and those of the same time in    *)
(* the order of the tracks (interleave).                                   *)
THEOREM CopyMergedInOrder == Spec => []MergedInOrder
<1>1. MergeInv => MergedInOrder
  BY DEF MergeInv
<1> QED BY <1>1, InitMergeInv, NextMergeInv, PTL DEF Spec

(***************************************************************************)
(* A copy of whole sources: nothing is lost.                               *)
(***************************************************************************)
(* The tracks of sources: their samples have places.                       *)
SourceTrackType == {t \in TrackType : \A n \in DOMAIN t.samples : t.samples[n].n # 0}

(* Samples that are those of a source, and what the copy made up behind.   *)
Carries(samples, source) ==
    /\ source \in Seq(SampleType)
    /\ Len(samples) \in Nat /\ Len(source) <= Len(samples)
    /\ \A n \in 1..Len(source) : samples[n] = source[n] /\ source[n].n # 0
    /\ \A n \in 1..Len(samples) : n > Len(source) => samples[n].n = 0

CarriesAll(tracks, sources) ==
    /\ Len(tracks) = Len(sources)
    /\ \A k \in 1..Len(sources) : Carries(tracks[k].samples, sources[k].samples)

(* What the job reads from one of its inputs.                              *)
Read(j, i) ==
    IF j.op = "join" THEN SideBySide(j.sources, j.drop) ELSE Undropped(j.sources[i], j.drop)

JobNumbered(j) == \A i \in DOMAIN j.sources : j.sources[i].tracks \in Seq(SourceTrackType)

(* Tracks as they are read carry their samples,                            *)
LEMMA DescribedCarries ==
    ASSUME NEW tracks \in Seq(SourceTrackType)
    PROVE  CarriesAll(Described(tracks), tracks)
<1> DEFINE n == Len(tracks)
<1>1. n \in Nat /\ DOMAIN tracks = 1..n /\ \A i \in 1..n : tracks[i] \in SourceTrackType
  BY LenProperties, ElementOfSeq
<1>2. \A i \in 1..n : tracks[i] \in TrackType
  BY <1>1 DEF SourceTrackType
<1>3. tracks \in Seq(TrackType)
  <2>1. SourceTrackType \subseteq TrackType
    BY DEF SourceTrackType
  <2> QED BY <2>1, SeqMonotonic
<1>4. Len(Described(tracks)) = n
  BY <1>3, DescribedType
<1>5. ASSUME NEW k \in 1..n PROVE Carries(Described(tracks)[k].samples, tracks[k].samples)
  <2> DEFINE t == tracks[k]
             s == t.samples
  <2>1. t \in TrackType /\ Described(tracks)[k] = DescribeFromSamples(t)
    BY <1>1, <1>2 DEF Described
  <2>2. DescribeFromSamples(t).samples = s
    <3> HIDE DEF t
    <3> QED BY <2>1 DEF DescribeFromSamples, TrackType
  <2>3. s \in Seq(SampleType) /\ Len(s) \in Nat /\ DOMAIN s = 1..Len(s)
    <3> HIDE DEF t
    <3> QED BY <2>1, SampleTimes
  <2>4. \A m \in DOMAIN s : s[m].n # 0
    BY <1>1 DEF SourceTrackType
  <2> HIDE DEF s, t
  <2>5. Carries(s, s)
    BY <2>3, <2>4 DEF Carries
  <2> QED BY <2>1, <2>2, <2>5 DEF s, t
<1> HIDE DEF n
<1> QED BY <1>4, <1>5 DEF CarriesAll, n

(* tracks without their lists do still,                                    *)
LEMMA WithoutEditsCarries ==
    ASSUME NEW tracks \in Seq(TrackType), NEW sources, CarriesAll(tracks, sources)
    PROVE  CarriesAll(WithoutEdits(tracks), sources)
<1>1. Len(WithoutEdits(tracks)) = Len(tracks)
  BY WithoutEditsType
<1>2. DOMAIN tracks = 1..Len(tracks) /\ Len(tracks) = Len(sources)
  BY LenProperties DEF CarriesAll
<1>3. ASSUME NEW k \in 1..Len(sources)
      PROVE  WithoutEdits(tracks)[k].samples = tracks[k].samples
  <2>1. tracks[k] \in TrackType
    BY <1>2, ElementOfSeq
  <2> DEFINE t == tracks[k]
  <2>2. WithoutEdits(tracks)[k] = [t EXCEPT !.edits = {}]
    BY <1>2 DEF WithoutEdits
  <2>3. t \in TrackType
    BY <2>1
  <2> HIDE DEF t
  <2>4. [t EXCEPT !.edits = {}].samples = t.samples
    BY <2>3 DEF TrackType
  <2> QED BY <2>2, <2>4 DEF t
<1> QED BY <1>1, <1>2, <1>3, Zenon DEF CarriesAll

(* and so do samples with something put behind them that is made up.       *)
LEMMA PaddingCarries ==
    ASSUME NEW samples \in Seq(SampleType), NEW source, Carries(samples, source), NEW m
    PROVE  Carries(Append(samples, Padding(m)), source)
<1> DEFINE p == Append(samples, Padding(m))
           l == Len(samples)
           e == Padding(m)
<1>1. l \in Nat /\ Len(p) = l + 1 /\ p[l + 1] = e /\ \A i \in 1..l : p[i] = samples[i]
  BY AppendProperties, LenProperties
<1>2. e.n = 0
  BY DEF Padding
<1> HIDE DEF p, e
<1>3. /\ source \in Seq(SampleType) /\ Len(source) <= l
      /\ \A n \in 1..Len(source) : samples[n] = source[n] /\ source[n].n # 0
      /\ \A n \in 1..l : n > Len(source) => samples[n].n = 0
  BY DEF Carries
<1> HIDE DEF l
<1> DEFINE k == Len(source)
<1>4. k \in Nat
  BY <1>3, LenProperties
<1> HIDE DEF k
<1>5. /\ k <= l
      /\ \A n \in 1..k : samples[n] = source[n] /\ source[n].n # 0
      /\ \A n \in 1..l : n > k => samples[n].n = 0
  BY <1>3 DEF k
<1>6. k <= l + 1 /\ \A n \in 1..k : p[n] = source[n] /\ source[n].n # 0
  BY <1>1, <1>4, <1>5
<1>7. \A n \in 1..(l + 1) : n > k => p[n].n = 0
  <2> SUFFICES ASSUME NEW n \in 1..(l + 1), n > k PROVE p[n].n = 0
    OBVIOUS
  <2>1. n \in 1..l \/ n = l + 1
    BY <1>1
  <2>2. CASE n \in 1..l
    <3>1. p[n] = samples[n]
      BY <1>1, <2>2, Zenon
    <3>2. samples[n].n = 0
      BY <1>5, <2>2, Zenon
    <3> QED BY <3>1, <3>2, Zenon
  <2>3. CASE n = l + 1
    <3>1. p[n] = e
      BY <1>1, <2>3, Zenon
    <3> QED BY <1>2, <3>1, Zenon
  <2> QED BY <2>1, <2>2, <2>3
<1>8. l + 1 \in Nat
  BY <1>1
<1>9. Carries(p, source)
  BY <1>1, <1>3, <1>6, <1>7, <1>8 DEF Carries, k
<1> QED BY <1>9 DEF p, e

(* so that padding the tracks of timed text loses none of their samples.   *)
LEMMA PadCarries ==
    ASSUME NEW tracks \in Seq(TrackType), NEW sources, CarriesAll(tracks, sources)
    PROVE  CarriesAll(PadTimedText(tracks), sources)
<1> DEFINE longest == tracks[Longest(tracks)]
           missing(t) == Scaled(TrackLength(longest), longest.scale, t.scale) - TrackLength(t)
<1>1. Len(PadTimedText(tracks)) = Len(tracks)
  BY PadType
<1>2. DOMAIN tracks = 1..Len(tracks) /\ Len(tracks) = Len(sources)
      /\ \A k \in 1..Len(sources) : Carries(tracks[k].samples, sources[k].samples)
  BY LenProperties DEF CarriesAll
<1>3. ASSUME NEW k \in 1..Len(sources)
      PROVE  Carries(PadTimedText(tracks)[k].samples, sources[k].samples)
  <2> DEFINE t == tracks[k]
             m == missing(t)
             s == Append(t.samples, Padding(m))
  <2>1. t \in TrackType
    BY <1>2, ElementOfSeq
  <2>2. \/ PadTimedText(tracks)[k] = [t EXCEPT !.samples = s]
        \/ PadTimedText(tracks)[k] = t
    BY <1>2 DEF PadTimedText
  <2> HIDE DEF m, s, t
  <2>3. [t EXCEPT !.samples = s].samples = s
    BY <2>1 DEF TrackType
  <2>4. t.samples \in Seq(SampleType) /\ Carries(t.samples, sources[k].samples)
    BY <1>2, <2>1, SampleTimes DEF t
  <2>5. Carries(s, sources[k].samples)
    BY <2>4, PaddingCarries DEF s
  <2> QED BY <2>2, <2>3, <2>4, <2>5
<1> HIDE DEF missing, longest
<1> QED BY <1>1, <1>2, <1>3, Zenon DEF CarriesAll

(* Several inputs behind one another carry those of each,                  *)
LEMMA OneBehindTheOtherCarries ==
    ASSUME NEW all \in Seq(Seq(TrackType)), all # <<>>,
           OneBehindTheOther(all).error = "none",
           NEW sources, \A i \in 1..Len(all) : CarriesAll(all[i], sources[i])
    PROVE  /\ Len(OneBehindTheOther(all).tracks) = Len(all)
           /\ \A i \in 1..Len(all) : CarriesAll(OneBehindTheOther(all).tracks[i], sources[i])
<1> DEFINE n == Len(all)
           T == Seq(TrackType)
           bare == [i \in DOMAIN all |-> IF Len(all) > 1 THEN WithoutEdits(all[i]) ELSE all[i]]
           padded == Padded(bare)
           r == OneBehindTheOther(all)
<1>1. n \in Nat /\ DOMAIN all = 1..n /\ \A i \in 1..n : all[i] \in T
  BY LenProperties, ElementOfSeq
<1>2. ASSUME NEW i \in 1..n
      PROVE  bare[i] \in T /\ CarriesAll(bare[i], sources[i])
  <2>1. all[i] \in T /\ bare[i] = IF Len(all) > 1 THEN WithoutEdits(all[i]) ELSE all[i]
    BY <1>1
  <2> HIDE DEF bare
  <2> QED BY <2>1, WithoutEditsType, WithoutEditsCarries
<1>3. DOMAIN bare = 1..n
  BY <1>1
<1>4. r.tracks = padded
  <2>1. \/ r \in {Error("mismatch"), Error("text"), Error("edits")}
        \/ r = Okay(padded)
    BY Zenon DEF OneBehindTheOther
  <2> HIDE DEF padded
  <2>2. "mismatch" # "none" /\ "text" # "none" /\ "edits" # "none"
    OBVIOUS
  <2>3. r = Okay(padded)
    BY <2>1, <2>2 DEF Error
  <2> HIDE DEF r
  <2> QED BY <2>3 DEF Okay
<1>5. padded = [i \in 1..n |-> padded[i]]
      /\ \A i \in 1..n : padded[i] = IF i < Len(bare) THEN PadTimedText(bare[i]) ELSE bare[i]
  <2> HIDE DEF bare
  <2> QED BY <1>3 DEF Padded
<1> HIDE DEF bare, padded, r
<1>6. ASSUME NEW i \in 1..n PROVE CarriesAll(padded[i], sources[i]) /\ padded[i] \in T
  BY <1>2, <1>5, PadCarries, PadType
<1>7. Len(padded) = n
  <2> HIDE DEF T, n
  <2>1. padded \in [1..n -> T]
    BY <1>5, <1>6
  <2> QED BY <1>1, <2>1, FunctionIsSeq
<1> QED BY <1>4, <1>6, <1>7 DEF r

(* those that Concat reads,                                                *)
LEMMA ConcatCarries ==
    ASSUME NEW j \in JobType, JobNumbered(j), Concat(j).error = "none"
    PROVE  /\ Len(Concat(j).tracks) = Len(j.sources)
           /\ \A i \in DOMAIN j.sources :
                CarriesAll(Concat(j).tracks[i], Undropped(j.sources[i], j.drop))
<1> DEFINE s == j.sources
           n == Len(s)
           T == Seq(TrackType)
           kept(i) == Undropped(s[i], j.drop)
           read == [i \in DOMAIN j.sources |-> ReadSource(j.sources[i], j.drop)]
           wrong == {i \in DOMAIN read : read[i].error # "none"}
           all == [i \in DOMAIN read |-> read[i].tracks]
           sources == [i \in 1..n |-> kept(i)]
<1>1. n \in Nat /\ DOMAIN s = 1..n
  <2>1. s \in Seq(SourceType)
    BY DEF JobType
  <2> QED BY <2>1, LenProperties
<1>2. \/ Concat(j) \in {Error("no tracks"), Error("truncated")}
      \/ wrong # {} /\ Concat(j) = read[Min(wrong)]
      \/ s # <<>> /\ wrong = {} /\ Concat(j) = OneBehindTheOther(all)
  BY Zenon DEF Concat
<1>3. Concat(j) \notin {Error("no tracks"), Error("truncated")}
  <2>1. "no tracks" # "none" /\ "truncated" # "none"
    OBVIOUS
  <2>2. \A what : Error(what).error = what
    BY DEF Error
  <2> QED BY <2>1, <2>2, Zenon
<1>4. wrong = {}
  <2>1. wrong \subseteq 1..n /\ \A i \in wrong : read[i].error # "none"
    BY <1>1
  <2> HIDE DEF wrong, read
  <2>2. wrong # {} => Min(wrong) \in wrong
    <3>1. wrong \in SUBSET (0..n)
      BY <1>1, <2>1
    <3> QED BY <1>1, <3>1, PlaceOf
  <2> QED BY <1>2, <1>3, <2>1, <2>2
<1>5. Concat(j) = OneBehindTheOther(all) /\ s # <<>>
  BY <1>2, <1>3, <1>4, Zenon
<1>6. ASSUME NEW i \in 1..n
      PROVE  all[i] \in T /\ CarriesAll(all[i], sources[i])
  <2>1. kept(i) \in Seq(SourceTrackType)
    BY <1>1, UndroppedType DEF JobNumbered
  <2>2. sources[i] = kept(i)
    OBVIOUS
  <2>3. ReadSource(s[i], j.drop) = Okay(Described(kept(i)))
    <3>1. read[i].error = "none" /\ read[i] = ReadSource(s[i], j.drop)
      BY <1>1, <1>4
    <3>2. \/ ReadSource(s[i], j.drop) = Error("unreadable")
          \/ ReadSource(s[i], j.drop) = Okay(Described(kept(i)))
      BY Zenon DEF ReadSource
    <3>3. Error("unreadable").error # "none"
      BY DEF Error
    <3> HIDE DEF read, kept
    <3> QED BY <3>1, <3>2, <3>3
  <2>4. all[i] = ReadSource(s[i], j.drop).tracks
    BY <1>1
  <2> HIDE DEF all, kept, sources
  <2>5. all[i] = Described(kept(i))
    BY <2>3, <2>4 DEF Okay
  <2>6. kept(i) \in Seq(TrackType)
    <3>1. SourceTrackType \subseteq TrackType
      BY DEF SourceTrackType
    <3> QED BY <2>1, <3>1, SeqMonotonic
  <2> QED BY <2>1, <2>2, <2>5, <2>6, DescribedType, DescribedCarries
<1>7. all = [i \in 1..n |-> all[i]]
  BY <1>1
<1>8. all \in Seq(T) /\ Len(all) = n
  <2> HIDE DEF all, T, n, sources
  <2>1. all \in [1..n -> T]
    BY <1>6, <1>7
  <2> QED BY <1>1, <2>1, FunctionIsSeq
<1>9. n # 0
  <2>1. s \in Seq(SourceType)
    BY DEF JobType
  <2> QED BY <1>5, <2>1, EmptySeq
<1>10. \A i \in 1..n : sources[i] = Undropped(s[i], j.drop)
  OBVIOUS
<1> HIDE DEF all, sources, wrong, read
<1>11. all # <<>>
  <2> HIDE DEF n, T
  <2> QED BY <1>8, <1>9, EmptySeq
<1>12. OneBehindTheOther(all).error = "none"
  BY <1>5
<1>13. /\ Len(OneBehindTheOther(all).tracks) = n
       /\ \A i \in 1..n : CarriesAll(OneBehindTheOther(all).tracks[i], sources[i])
  <2> HIDE DEF n
  <2> QED BY <1>6, <1>8, <1>11, <1>12, OneBehindTheOtherCarries
<1> QED BY <1>1, <1>5, <1>10, <1>13

(* those of Join,                                                          *)
LEMMA JoinCarries ==
    ASSUME NEW j \in JobType, JobNumbered(j), Join(j).error = "none"
    PROVE  /\ Len(Join(j).tracks) = 1
           /\ CarriesAll(Join(j).tracks[1], SideBySide(j.sources, j.drop))
<1> DEFINE read == SideBySide(j.sources, j.drop)
<1>1. read \in Seq(SourceTrackType)
  <2>1. j.sources \in Seq(SourceType)
    BY DEF JobType
  <2> QED BY <2>1, SideBySideType DEF JobNumbered
<1>2. \/ Join(j) \in {Error("no tracks"), Error("truncated"), Error("unreadable")}
      \/ Join(j) = Okay(<<Described(read)>>)
  BY Zenon DEF Join
<1>3. "no tracks" # "none" /\ "truncated" # "none" /\ "unreadable" # "none"
  OBVIOUS
<1>4. CarriesAll(Described(read), read)
  BY <1>1, DescribedCarries
<1> DEFINE d == Described(read)
<1> HIDE DEF d
<1>5. Join(j) = Okay(<<d>>)
  <2>1. \A what : Error(what).error = what
    BY DEF Error
  <2> QED BY <1>2, <1>3, <2>1, Zenon DEF d
<1>6. Join(j).tracks = <<d>>
  BY <1>5 DEF Okay
<1> QED BY <1>4, <1>6 DEF d

(* and so does what any call but Cut prepares.                             *)
LEMMA PreparedCarries ==
    ASSUME NEW j \in JobType, JobNumbered(j), j.op # "cut", Prepared(j).error = "none"
    PROVE  \A i \in DOMAIN Prepared(j).tracks : CarriesAll(Prepared(j).tracks[i], Read(j, i))
<1>1. Paired(Prepared(j).tracks)
  BY PreparedType DEF Good
<1> DEFINE t == Prepared(j).tracks
           T == Seq(TrackType)
<1>2. t \in Seq(T)
  BY <1>1 DEF Paired
<1> HIDE DEF T, t
<1>3. DOMAIN t = 1..Len(t)
  BY <1>2, LenProperties
<1>4. CASE j.op = "join"
  <2>1. Prepared(j) = Join(j)
    BY <1>4 DEF Prepared
  <2>2. Len(t) = 1 /\ CarriesAll(t[1], SideBySide(j.sources, j.drop))
    BY <2>1, JoinCarries DEF t
  <2>3. \A i \in DOMAIN t : i = 1
    BY <1>3, <2>2
  <2> QED BY <1>4, <2>2, <2>3 DEF Read, t
<1>5. CASE j.op # "join"
  <2>1. Prepared(j) = Concat(j)
    BY <1>5 DEF Prepared
  <2>2. /\ Len(t) = Len(j.sources)
        /\ \A i \in DOMAIN j.sources : CarriesAll(t[i], Undropped(j.sources[i], j.drop))
    BY <2>1, ConcatCarries DEF t
  <2>3. DOMAIN j.sources = 1..Len(j.sources)
    <3>1. j.sources \in Seq(SourceType)
      BY DEF JobType
    <3> QED BY <3>1, LenProperties
  <2> QED BY <1>3, <1>5, <2>2, <2>3 DEF Read, t
<1> QED BY <1>4, <1>5

(* The first n elements of a sequence, all of them when it has no more.    *)
Part(s, n) == SubSeq(s, 1, IF n < Len(s) THEN n ELSE Len(s))

(* A part grows by one element at a time, and then is the whole.           *)
LEMMA PartStep ==
    ASSUME NEW T, NEW s \in Seq(T), NEW n \in Nat
    PROVE  /\ Part(s, n) \in Seq(T)
           /\ Part(s, 0) = <<>>
           /\ n >= Len(s) => Part(s, n) = s
           /\ n < Len(s) => Part(s, n + 1) = Then(Part(s, n), <<s[n + 1]>>)
<1> DEFINE l == Len(s)
<1>1. l \in Nat /\ \A i \in 1..l : s[i] \in T
  BY LenProperties, ElementOfSeq
<1>2. SubSeq(s, 1, l) = s
  BY SubSeqFull
<1> HIDE DEF l
<1>3. \A m \in Nat : Part(s, m) = SubSeq(s, 1, IF m < l THEN m ELSE l)
  BY DEF Part, l
<1>4. n >= l => Part(s, n) = s
  BY <1>1, <1>2, <1>3
<1>5. ASSUME NEW m \in 0..l PROVE SubSeq(s, 1, m) \in Seq(T)
  <2>1. m \in Int /\ 1 \in Int /\ \A i \in 1..m : s[i] \in T
    BY <1>1
  <2> QED BY <2>1, SubSeqProperties
<1>6. Part(s, n) \in Seq(T)
  <2>1. (IF n < l THEN n ELSE l) \in 0..l
    BY <1>1
  <2> QED BY <1>3, <1>5, <2>1
<1>7. Part(s, 0) = <<>>
  <2>1. (IF 0 < l THEN 0 ELSE l) = 0
    BY <1>1
  <2>2. SubSeq(s, 1, 0) = <<>>
    BY SubSeqEmpty
  <2> QED BY <1>3, <2>1, <2>2
<1>8. ASSUME n < l PROVE Part(s, n + 1) = Then(Part(s, n), <<s[n + 1]>>)
  <2>1. n + 1 \in 1..l /\ 1 \in 1..l /\ n + 1 \in Nat /\ (n + 1) - 1 = n
    BY <1>1, <1>8
  <2>2. (IF n + 1 < l THEN n + 1 ELSE l) = n + 1
    BY <1>1, <1>8
  <2>3. Part(s, n + 1) = SubSeq(s, 1, n + 1) /\ Part(s, n) = SubSeq(s, 1, n)
    <3>1. Part(s, n + 1) = SubSeq(s, 1, IF n + 1 < l THEN n + 1 ELSE l)
      BY <1>3, <2>1, Zenon
    <3>2. Part(s, n) = SubSeq(s, 1, IF n < l THEN n ELSE l)
      BY <1>3, Zenon
    <3> QED BY <1>8, <2>2, <3>1, <3>2, Zenon
  <2>4. SubSeq(s, 1, n + 1) = SubSeq(s, 1, (n + 1) - 1) \o <<s[n + 1]>>
    <3>1. 1 \in 1..Len(s) /\ n + 1 \in 1..Len(s)
      BY <2>1 DEF l
    <3> QED BY <3>1, SubSeqRecursiveSecond
  <2> QED BY <2>1, <2>3, <2>4, Zenon DEF Then
<1> QED BY <1>4, <1>6, <1>7, <1>8 DEF l

(* What is in front is a prefix.                                           *)
LEMMA ThenPrefix ==
    ASSUME NEW T, NEW s \in Seq(T), NEW t \in Seq(T)
    PROVE  IsPrefix(s, Then(s, t))
<1> DEFINE l == Len(s)
           st == s \o t
<1>1. l \in Nat /\ Len(t) \in Nat /\ Len(st) = l + Len(t)
  BY ConcatProperties, LenProperties
<1>2. SubSeq(s, 1, l) = s
  BY SubSeqFull
<1>3. SubSeq(st, 1, l) = SubSeq(s, 1, l)
  <2>1. CASE l = 0
    <3>1. SubSeq(st, 1, l) = <<>> /\ SubSeq(s, 1, l) = <<>>
      BY <2>1, SubSeqEmpty
    <3> QED BY <3>1
  <2>2. CASE l # 0
    <3>1. 1 \in 1..l /\ l \in 1..l
      BY <1>1, <2>2
    <3> QED BY <3>1, SubSeqOfConcat1
  <2> QED BY <2>1, <2>2
<1> HIDE DEF l, st
<1>4. l <= Len(st)
  BY <1>1
<1> QED BY <1>3, <1>4 DEF IsPrefix, Then, l, st

(* The first of several sequences are in front of all of them.             *)
LEMMA ConcatInFront ==
    ASSUME NEW T, NEW n \in Nat, NEW f \in Parts(T, n), NEW m \in 0..n
    PROVE  \E t \in Seq(T) : ConcatTo(f, n) = Then(ConcatTo(f, m), t)
<1> DEFINE g == [i \in 1..(n - m) |-> f[m + i]]
           d == n - m
<1>1. m \in Nat /\ d \in Nat /\ n = m + d
  OBVIOUS
<1>2. \A i \in 1..d : g[i] = f[m + i]
  OBVIOUS
<1>3. \A i \in 1..d : m + i \in 1..n
  OBVIOUS
<1> HIDE DEF g, d
<1>4. Splits(f, n, T, m, g, d)
  BY <1>1, <1>2 DEF Splits
<1>5. ConcatTo(f, n) = Then(ConcatTo(f, m), ConcatTo(g, d))
  BY <1>4, ConcatSplit
<1>6. ASSUME NEW i \in 1..d PROVE g[i] \in Seq(T)
  <2> DEFINE k == m + i
  <2>1. k \in 1..n /\ g[i] = f[k]
    BY <1>2, <1>3
  <2> HIDE DEF k
  <2> QED BY <2>1 DEF Parts
<1>7. ConcatTo(g, d) \in Seq(T)
  BY <1>1, <1>6, ConcatIsSeq
<1> QED BY <1>5, <1>7, Zenon

(* What the first n inputs have for a track of the output.                 *)
Behind(j, k, n) == ConcatTo([i \in 1..n |-> Read(j, i)[k].samples], n)

(* What a copy prepares carries its sources, and what it has written is    *)
(* what it has read: the inputs before this one whole, and of this one the *)
(* samples in front of next.                                               *)
LossInv ==
    /\ JobNumbered(job)
    /\ job.op # "cut" =>
         /\ pc \in {"declare", "copy", "done"} =>
              \A i \in DOMAIN inputs : CarriesAll(inputs[i], Read(job, i))
         /\ pc = "copy" => \A k \in DOMAIN inputs[1] :
              Taken(k) = Then(Behind(job, k, input - 1),
                              Part(Read(job, input)[k].samples, next[k] - 1))
         /\ pc = "done" => \A k \in DOMAIN inputs[1] : Taken(k) = Behind(job, k, Len(inputs))

(* The samples of a numbered source have places.                           *)
LEMMA InitNumbered == Init => JobNumbered(job)
<1> SUFFICES ASSUME Init PROVE JobNumbered(job)
  OBVIOUS
<1>1. PICK j \in Jobs : job = [j EXCEPT !.sources = [i \in DOMAIN j.sources |-> Numbered(j.sources[i])]]
  BY DEF Init
<1>2. j \in JobType
  BY CopyingAssumption
<1> DEFINE s == j.sources
           f == [i \in DOMAIN s |-> Numbered(s[i])]
<1>3. job.sources = f
  <2> HIDE DEF f
  <2>1. [j EXCEPT !.sources = f].sources = f
    BY <1>2 DEF JobType
  <2> QED BY <1>1, <2>1 DEF f
<1>4. DOMAIN s = 1..Len(s) /\ \A i \in 1..Len(s) : s[i] \in SourceType
  <2>1. s \in Seq(SourceType)
    BY <1>2 DEF JobType
  <2> QED BY <2>1, LenProperties, ElementOfSeq
<1>5. ASSUME NEW i \in DOMAIN s PROVE Numbered(s[i]).tracks \in Seq(SourceTrackType)
  <2> DEFINE source == s[i]
             t == source.tracks
             l == Len(t)
             g == [k \in DOMAIN t |-> NumberedTrack(t[k])]
  <2>1. source \in SourceType
    BY <1>4
  <2>2. Numbered(source).tracks = g
    <3> HIDE DEF source
    <3> QED BY <2>1 DEF Numbered, SourceType
  <2>3. l \in Nat /\ DOMAIN t = 1..l /\ \A k \in 1..l : t[k] \in TrackType
    <3>1. t \in Seq(TrackType)
      BY <2>1 DEF SourceType
    <3> QED BY <3>1, LenProperties, ElementOfSeq
  <2>4. ASSUME NEW x \in TrackType PROVE NumberedTrack(x) \in SourceTrackType
    <3> DEFINE h == [n \in DOMAIN x.samples |-> [x.samples[n] EXCEPT !.n = n]]
    <3>1. NumberedTrack(x) \in TrackType
      BY NumberedTrackType
    <3>2. DOMAIN x.samples = 1..Len(x.samples) /\ Len(x.samples) \in Nat
          /\ \A n \in DOMAIN x.samples : x.samples[n] \in SampleType
      BY SampleTimes
    <3>3. NumberedTrack(x).samples = h
      <4> HIDE DEF h
      <4>1. [x EXCEPT !.samples = h].samples = h
        BY DEF TrackType
      <4> QED BY <4>1 DEF NumberedTrack, h
    <3>4. ASSUME NEW n \in DOMAIN h PROVE h[n].n # 0
      <4> DEFINE e == x.samples[n]
      <4>1. e \in SampleType /\ n # 0 /\ h[n] = [e EXCEPT !.n = n]
        BY <3>2
      <4> HIDE DEF e, h
      <4>2. [e EXCEPT !.n = n].n = n
        BY <4>1 DEF SampleType
      <4> QED BY <4>1, <4>2
    <3> HIDE DEF h
    <3> QED BY <3>1, <3>3, <3>4 DEF SourceTrackType
  <2> HIDE DEF source, t
  <2>5. g \in [1..l -> SourceTrackType]
    BY <2>3, <2>4
  <2> HIDE DEF g, l
  <2>6. g \in Seq(SourceTrackType)
    BY <2>3, <2>5, FunctionIsSeq
  <2> QED BY <2>2, <2>6 DEF source
<1> QED BY <1>3, <1>5 DEF JobNumbered

(* A sample that is written is one that is taken, unless it is made up.    *)
LEMMA TakenStep ==
    ASSUME out \in Seq(WrittenType), NEW e \in WrittenType, out' = Append(out, e), NEW k
    PROVE  Taken(k)' = IF e.track = k /\ e.sample.n # 0 THEN Then(Taken(k), <<e.sample>>)
                                                        ELSE Taken(k)
<1> DEFINE x(w) == IF w.track = k /\ w.sample.n # 0 THEN <<w.sample>> ELSE <<>>
           f == [j \in DOMAIN out |-> x(out[j])]
           p == out'
           g == [j \in DOMAIN p |-> x(p[j])]
           l == Len(out)
<1>1. /\ l \in Nat /\ DOMAIN out = 1..l /\ Len(p) = l + 1 /\ DOMAIN p = 1..(l + 1)
      /\ \A j \in 1..l : p[j] = out[j] /\ out[j] \in WrittenType
      /\ p[l + 1] = e
  BY AppendProperties, LenProperties, ElementOfSeq
<1>2. Taken(k) = ConcatTo(f, l) /\ Taken(k)' = ConcatTo(g, Len(p))
  BY Zenon DEF Taken
<1>3. ASSUME NEW w \in WrittenType PROVE x(w) \in Seq(SampleType)
  <2>1. w.sample \in SampleType
    BY DEF WrittenType
  <2> QED BY <2>1
<1>4. /\ \A j \in 1..l : f[j] = x(out[j]) /\ g[j] = x(p[j])
      /\ g[l + 1] = x(e)
  <2> HIDE DEF x, p
  <2>1. l + 1 \in 1..(l + 1) /\ \A j \in 1..l : j \in 1..(l + 1)
    BY <1>1
  <2> QED BY <1>1, <2>1
<1> HIDE DEF x, f, g, p, l
<1>5. \A j \in 1..l : g[j] = f[j] /\ f[j] \in Seq(SampleType)
  BY <1>1, <1>3, <1>4
<1>6. ConcatTo(g, l) = ConcatTo(f, l)
  BY <1>1, <1>5, ConcatSame
<1>7. ConcatTo(g, l + 1) = Then(ConcatTo(g, l), g[l + 1])
  BY <1>1, ConcatStep
<1>8. ConcatTo(f, l) \in Seq(SampleType)
  BY <1>1, <1>5, ConcatIsSeq
<1>9. Taken(k)' = Then(Taken(k), x(e))
  BY <1>1, <1>2, <1>4, <1>6, <1>7, Zenon
<1>10. Then(Taken(k), <<>>) = Taken(k)
  <2>1. Taken(k) \in Seq(SampleType)
    BY <1>2, <1>8
  <2> QED BY <2>1, ThenProperties
<1> QED BY <1>9, <1>10, Zenon DEF x

(* What inputs have is samples, and of one input more it is that of the    *)
(* ones before and of it.                                                  *)
LEMMA BehindStep ==
    ASSUME NEW j, NEW k, NEW n \in Nat
    PROVE  /\ Behind(j, k, 0) = <<>>
           /\ Behind(j, k, n + 1) = Then(Behind(j, k, n), Read(j, n + 1)[k].samples)
           /\ (\A i \in 1..n : Read(j, i)[k].samples \in Seq(SampleType))
                => Behind(j, k, n) \in Seq(SampleType)
<1> DEFINE f == [i \in 1..n |-> Read(j, i)[k].samples]
           g == [i \in 1..(n + 1) |-> Read(j, i)[k].samples]
<1>1. Behind(j, k, 0) = <<>>
  BY ConcatZero DEF Behind
<1>2. /\ Behind(j, k, n) = ConcatTo(f, n) /\ Behind(j, k, n + 1) = ConcatTo(g, n + 1)
  BY Zenon DEF Behind
<1>3. /\ \A i \in 1..n : f[i] = Read(j, i)[k].samples /\ g[i] = Read(j, i)[k].samples
      /\ g[n + 1] = Read(j, n + 1)[k].samples
  <2>1. n + 1 \in 1..(n + 1) /\ \A i \in 1..n : i \in 1..(n + 1)
    OBVIOUS
  <2> QED BY <2>1
<1> HIDE DEF f, g
<1>4. ConcatTo(g, n) = ConcatTo(f, n)
  BY <1>3, ConcatSame
<1>5. ConcatTo(g, n + 1) = Then(ConcatTo(g, n), g[n + 1])
  BY ConcatStep
<1>6. (\A i \in 1..n : Read(j, i)[k].samples \in Seq(SampleType)) => ConcatTo(f, n) \in Seq(SampleType)
  BY <1>3, ConcatIsSeq
<1> QED BY <1>1, <1>2, <1>3, <1>4, <1>5, <1>6, Zenon

(* What is copied of a track of an input carries what was read of it.      *)
LEMMA Carried ==
    ASSUME TypeOK, LossInv, job.op # "cut", pc \in {"declare", "copy", "done"},
           NEW i \in DOMAIN inputs, NEW k \in DOMAIN inputs[1]
    PROVE  /\ Carries(inputs[i][k].samples, Read(job, i)[k].samples)
           /\ Read(job, i)[k].samples \in Seq(SampleType)
<1>1. CarriesAll(inputs[i], Read(job, i))
  BY DEF LossInv
<1>2. k \in DOMAIN inputs[i] /\ DOMAIN inputs[i] = 1..Len(inputs[i])
  <2>1. Paired(inputs)
    BY DEF TypeOK
  <2>2. inputs[i] \in Seq(TrackType)
    <3> DEFINE T == Seq(TrackType)
    <3>1. inputs \in Seq(T)
      BY <2>1 DEF Paired
    <3> HIDE DEF T
    <3>2. inputs[i] \in T
      BY <3>1, LenProperties, ElementOfSeq
    <3> QED BY <3>2 DEF T
  <2> QED BY <2>1, <2>2, PairedTracks, LenProperties
<1>3. Carries(inputs[i][k].samples, Read(job, i)[k].samples)
  BY <1>1, <1>2, Zenon DEF CarriesAll
<1> QED BY <1>3 DEF Carries

(* A track that is written to the end has all of its source.               *)
LEMMA InputEnds ==
    ASSUME TypeOK, LossInv, job.op # "cut", pc = "copy", Left = {}
    PROVE  \A k \in DOMAIN inputs[1] : Taken(k) = Behind(job, k, input)
<1> SUFFICES ASSUME NEW k \in DOMAIN inputs[1] PROVE Taken(k) = Behind(job, k, input)
  OBVIOUS
<1> DEFINE s == inputs[input][k].samples
           source == Read(job, input)[k].samples
           n == next[k] - 1
<1>1. input \in DOMAIN inputs /\ input \in Nat \ {0} /\ k \in DOMAIN inputs[input]
      /\ next[k] \in Nat \ {0} /\ inputs[input][k] \in TrackType
  BY CopyTypes
<1>2. Carries(s, source) /\ source \in Seq(SampleType)
  BY <1>1, Carried
<1>3. ~(next[k] <= Len(s))
  BY <1>1 DEF Left
<1>4. Len(s) \in Nat /\ Len(source) \in Nat /\ Len(source) <= Len(s)
  BY <1>2, LenProperties DEF Carries
<1>5. Taken(k) = Then(Behind(job, k, input - 1), Part(source, n))
  BY DEF LossInv
<1> DEFINE x == next[k]
           l == Len(s)
           m == Len(source)
<1>6. n = x - 1
  OBVIOUS
<1> HIDE DEF s, source, n, x, l, m
<1>7. x \in Nat \ {0} /\ ~(x <= l) /\ l \in Nat /\ m \in Nat /\ m <= l
  BY <1>1, <1>3, <1>4 DEF x, l, m
<1>8. n \in Nat /\ n >= m
  BY <1>6, <1>7
<1>9. Part(source, n) = source
  BY <1>2, <1>8, PartStep DEF m
<1> DEFINE before == input - 1
<1>10. before \in Nat /\ before + 1 = input
  BY <1>1
<1> HIDE DEF before
<1>11. Behind(job, k, before + 1) = Then(Behind(job, k, before), Read(job, before + 1)[k].samples)
  BY <1>10, BehindStep
<1> QED BY <1>5, <1>9, <1>10, <1>11, Zenon DEF before, source

(* An input that is started has nothing of its own yet.                    *)
LEMMA InputStarts ==
    ASSUME NEW n \in Nat, NEW k, NEW i, Read(job, i)[k].samples \in Seq(SampleType),
           \A m \in 1..n : Read(job, m)[k].samples \in Seq(SampleType)
    PROVE  Then(Behind(job, k, n), Part(Read(job, i)[k].samples, 0)) = Behind(job, k, n)
<1> DEFINE s == Read(job, i)[k].samples
<1>1. s \in Seq(SampleType)
  OBVIOUS
<1> HIDE DEF s
<1>2. Part(s, 0) = <<>>
  BY <1>1, PartStep
<1>3. Behind(job, k, n) \in Seq(SampleType)
  BY BehindStep
<1>4. Then(Behind(job, k, n), <<>>) = Behind(job, k, n)
  BY <1>3, ThenProperties
<1> QED BY <1>2, <1>4 DEF s

(* A sample that is written is the next of its source, or made up when the *)
(* source has no more.                                                     *)
LEMMA WriteKeeps ==
    ASSUME TypeOK, LossInv, job.op # "cut", WriteSample
    PROVE  \A k \in DOMAIN inputs[1] :
             Taken(k)' = Then(Behind(job, k, input - 1),
                              Part(Read(job, input)[k].samples, next'[k] - 1))
<1>1. /\ pc = "copy" /\ Left # {}
      /\ next' = [next EXCEPT ![Pick] = next[Pick] + 1]
      /\ out' = Append(out, [track |-> Pick, input |-> input,
                             sample |-> inputs[input][Pick].samples[next[Pick]]])
  BY DEF WriteSample
<1>2. PICK P \in {Pick}, e \in {[track |-> Pick, input |-> input,
                                 sample |-> inputs[input][Pick].samples[next[Pick]]]} : TRUE
  OBVIOUS
<1>3. /\ P \in DOMAIN inputs[1] /\ P = Pick
      /\ e.track = P /\ e.sample = inputs[input][P].samples[next[P]] /\ out' = Append(out, e)
      /\ e.sample \in SampleType /\ next[P] \in 1..Len(inputs[input][P].samples)
  BY <1>1, <1>2, PickChosen
<1>4. /\ input \in DOMAIN inputs /\ input \in Nat \ {0}
      /\ next \in [DOMAIN inputs[1] -> Nat \ {0}] /\ DOMAIN inputs[1] \subseteq Nat \ {0}
  <2>1. DOMAIN inputs[1] = 1..Len(inputs[1]) /\ Len(inputs[1]) \in Nat
    BY <1>1, CopyTypes
  <2>2. DOMAIN inputs[1] \subseteq Nat \ {0}
    BY <2>1
  <2> QED BY <1>1, <2>2, CopyTypes
<1>5. e \in WrittenType /\ out \in Seq(WrittenType)
  <2>1. e = [track |-> P, input |-> input, sample |-> e.sample]
    BY <1>2, <1>3
  <2>2. P \in Nat \ {0}
    BY <1>3, <1>4
  <2>3. e \in WrittenType
    BY <1>3, <1>4, <2>1, <2>2 DEF WrittenType
  <2> QED BY <2>3 DEF TypeOK
<1> SUFFICES ASSUME NEW k \in DOMAIN inputs[1]
             PROVE  Taken(k)' = Then(Behind(job, k, input - 1),
                                     Part(Read(job, input)[k].samples, next'[k] - 1))
  OBVIOUS
<1> DEFINE source == Read(job, input)[k].samples
           s == inputs[input][k].samples
           B == Behind(job, k, input - 1)
           n == next[k] - 1
<1>6. Taken(k)' = IF e.track = k /\ e.sample.n # 0 THEN Then(Taken(k), <<e.sample>>) ELSE Taken(k)
  BY <1>3, <1>5, TakenStep
<1>7. Taken(k) = Then(B, Part(source, n))
  BY <1>1 DEF LossInv
<1>8. Carries(s, source) /\ source \in Seq(SampleType)
  BY <1>1, <1>4, Carried
<1>9. B \in Seq(SampleType)
  <2>1. \A m \in 1..(input - 1) : m \in DOMAIN inputs
    <3>1. Len(inputs) \in Nat /\ DOMAIN inputs = 1..Len(inputs)
      BY <1>4, PairedTracks DEF TypeOK
    <3> QED BY <1>4, <3>1
  <2>2. \A m \in 1..(input - 1) : Read(job, m)[k].samples \in Seq(SampleType)
    BY <1>1, <2>1, Carried
  <2>3. input - 1 \in Nat
    BY <1>4
  <2> DEFINE b == input - 1
  <2> HIDE DEF b
  <2> QED BY <2>2, <2>3, BehindStep DEF b
<1>10. n \in Nat /\ next[k] = n + 1
  <2>1. next[k] \in Nat \ {0}
    BY <1>4
  <2> DEFINE x == next[k]
  <2> HIDE DEF x
  <2>2. x - 1 \in Nat /\ x = (x - 1) + 1
    BY <2>1 DEF x
  <2> QED BY <2>2 DEF x
<1> HIDE DEF B, n
<1>11. CASE k # P
  <2>1. next'[k] = next[k]
    BY <1>1, <1>3, <1>4, <1>11
  <2>2. Taken(k)' = Taken(k)
    BY <1>3, <1>6, <1>11
  <2> QED BY <1>7, <2>1, <2>2 DEF B, n
<1>12. CASE k = P
  <2>1. next'[k] - 1 = n + 1
    <3>1. next'[k] = next[k] + 1
      BY <1>1, <1>3, <1>4, <1>12
    <3> QED BY <1>10, <3>1
  <2> DEFINE l == Len(source)
             sample == e.sample
  <2>2. sample = s[n + 1] /\ n + 1 \in 1..Len(s)
    BY <1>3, <1>10, <1>12
  <2> HIDE DEF source, s
  <2>3. l \in Nat
    BY <1>8, LenProperties
  <2> HIDE DEF l
  <2>4. CASE n < l
    <3>1. n + 1 \in 1..l
      BY <1>10, <2>3, <2>4
    <3>2. sample = source[n + 1] /\ sample.n # 0
      BY <1>8, <2>2, <3>1 DEF Carries, l
    <3>3. Part(source, n + 1) = Then(Part(source, n), <<source[n + 1]>>)
          /\ Part(source, n) \in Seq(SampleType)
      BY <1>8, <1>10, <2>4, PartStep DEF l
    <3> DEFINE one == <<sample>>
    <3>4. one \in Seq(SampleType)
      BY <1>3
    <3> HIDE DEF one
    <3>5. Then(Then(B, Part(source, n)), one) = Then(B, Then(Part(source, n), one))
      BY <1>9, <3>3, <3>4, ThenProperties
    <3>6. Taken(k)' = Then(Taken(k), one)
      BY <1>3, <1>6, <1>12, <3>2 DEF one
    <3>7. Part(source, n + 1) = Then(Part(source, n), one)
      BY <3>2, <3>3 DEF one
    <3> QED BY <1>7, <2>1, <3>5, <3>6, <3>7, Zenon DEF B, source
  <2>5. CASE ~(n < l)
    <3>1. n + 1 > l /\ n >= l /\ n + 1 >= l /\ n + 1 \in Nat
      BY <1>10, <2>3, <2>5
    <3>2. sample.n = 0
      BY <1>8, <2>2, <3>1 DEF Carries, l
    <3>3. Part(source, n) = source
      BY <1>8, <1>10, <3>1, PartStep DEF l
    <3>4. Part(source, n + 1) = source
      <4> DEFINE m == n + 1
      <4> HIDE DEF m
      <4>1. m \in Nat /\ m >= Len(source)
        BY <3>1 DEF m, l
      <4>2. Part(source, m) = source
        BY <1>8, <4>1, PartStep
      <4> QED BY <4>2 DEF m
    <3>5. Taken(k)' = Taken(k)
      BY <1>6, <3>2
    <3> QED BY <1>7, <2>1, <3>3, <3>4, <3>5, Zenon DEF B, source
  <2> QED BY <2>4, <2>5
<1> QED BY <1>11, <1>12

(* Before anything is read there is nothing to lose.                       *)
LEMMA InitLossInv == Init => LossInv
<1> SUFFICES ASSUME Init PROVE LossInv
  OBVIOUS
<1>1. pc = "read" /\ pc \notin {"declare", "copy", "done"} /\ pc # "copy" /\ pc # "done"
  BY DEF Init
<1> QED BY <1>1, InitNumbered DEF LossInv

(* Every step keeps what was read and what is written the same.            *)
LEMMA NextLossInv == TypeOK /\ TypeOK' /\ LossInv /\ [Next]_vars => LossInv'
<1> SUFFICES ASSUME TypeOK, TypeOK', LossInv, [Next]_vars PROVE LossInv'
  OBVIOUS
<1>1. JobNumbered(job) /\ job' = job
  BY DEF LossInv, Next, vars, Prepare, Declare, DeclareRefused, WriteSample, SampleRefused,
         NextInput, CloseMuxer, Returned
<1>2. JobNumbered(job)'
  BY <1>1 DEF JobNumbered
<1>3. ASSUME pc' = "failed"
      PROVE  LossInv'
  BY <1>2, <1>3 DEF LossInv
<1>4. ASSUME job.op = "cut"
      PROVE  LossInv'
  BY <1>1, <1>2, <1>4 DEF LossInv
<1>5. ASSUME job.op # "cut", pc \in {"declare", "copy", "done"}, UNCHANGED inputs
      PROVE  \A i \in DOMAIN inputs' : CarriesAll(inputs'[i], Read(job', i))
  BY <1>1, <1>5 DEF LossInv
<1>6. CASE Prepare /\ job.op # "cut"
  <2>1. /\ inputs' = Prepared(job).tracks
        /\ \/ Prepared(job).error = "none" /\ pc' = "declare"
           \/ pc' = "failed"
    BY <1>6 DEF Prepare, Fail
  <2>2. CASE Prepared(job).error = "none" /\ pc' = "declare"
    <3>1. job \in JobType
      BY DEF TypeOK
    <3>2. \A i \in DOMAIN inputs' : CarriesAll(inputs'[i], Read(job', i))
      BY <1>1, <1>6, <2>1, <2>2, <3>1, PreparedCarries
    <3> QED BY <1>2, <2>2, <3>2 DEF LossInv
  <2> QED BY <1>3, <2>1, <2>2
<1>7. ASSUME job.op # "cut", pc' = "copy", FromStart, UNCHANGED inputs,
             pc \in {"declare", "copy"},
             \A k \in DOMAIN inputs[1] : Taken(k)' = Behind(job, k, input' - 1)
      PROVE  LossInv'
  <2>1. /\ input' \in DOMAIN inputs /\ input' \in Nat \ {0}
        /\ Len(inputs) \in Nat /\ DOMAIN inputs = 1..Len(inputs) /\ 1 \in DOMAIN inputs
    <3>1. input' \in DOMAIN inputs' /\ input' \in Nat \ {0} /\ Paired(inputs')
      BY <1>7 DEF TypeOK
    <3> QED BY <1>7, <3>1, PairedTracks
  <2>2. ASSUME NEW k \in DOMAIN inputs'[1]
        PROVE  Taken(k)' = Then(Behind(job', k, input' - 1),
                                Part(Read(job', input')[k].samples, next'[k] - 1))
    <3> DEFINE n == input' - 1
    <3>1. n \in Nat /\ \A m \in 1..n : m \in DOMAIN inputs
      BY <2>1
    <3>2. k \in DOMAIN inputs[1] /\ next'[k] = 1
      BY <1>7, <2>2 DEF FromStart
    <3>3. \A i \in DOMAIN inputs : Read(job, i)[k].samples \in Seq(SampleType)
      BY <1>7, <3>2, Carried
    <3> HIDE DEF n
    <3>4. \A m \in 1..n : Read(job, m)[k].samples \in Seq(SampleType)
      BY <3>1, <3>3
    <3>5. Then(Behind(job, k, n), Part(Read(job, input')[k].samples, 0)) = Behind(job, k, n)
      BY <2>1, <3>1, <3>3, <3>4, InputStarts
    <3>6. next'[k] - 1 = 0
      BY <3>2
    <3>7. Taken(k)' = Behind(job, k, n)
      BY <1>7, <3>2 DEF n
    <3> QED BY <1>1, <3>5, <3>6, <3>7, Zenon DEF n
  <2>3. \A i \in DOMAIN inputs' : CarriesAll(inputs'[i], Read(job', i))
    BY <1>5, <1>7
  <2> QED BY <1>2, <1>7, <2>2, <2>3 DEF LossInv
<1>8. CASE Declare /\ job.op # "cut"
  <2>1. pc = "declare" /\ pc' = "copy" /\ FromStart /\ UNCHANGED <<inputs, input, out>>
    BY <1>8 DEF Declare
  <2>2. out = <<>> /\ input = 1
    BY <2>1 DEF TypeOK
  <2>3. \A k : Taken(k)' = <<>>
    <3>1. out' = <<>> /\ Len(<<>>) = 0
      BY <2>1, <2>2
    <3> QED BY <3>1, ConcatZero DEF Taken
  <2>4. \A k : Behind(job, k, input' - 1) = <<>>
    <3>1. input' - 1 = 0
      BY <2>1, <2>2
    <3> QED BY <3>1, BehindStep
  <2> QED BY <1>7, <1>8, <2>1, <2>3, <2>4
<1>9. CASE WriteSample /\ job.op # "cut"
  <2>1. pc = "copy" /\ UNCHANGED <<pc, inputs, input>>
    BY <1>9 DEF WriteSample
  <2>2. \A k \in DOMAIN inputs[1] :
          Taken(k)' = Then(Behind(job, k, input - 1),
                           Part(Read(job, input)[k].samples, next'[k] - 1))
    BY <1>9, WriteKeeps
  <2>3. \A i \in DOMAIN inputs' : CarriesAll(inputs'[i], Read(job', i))
    BY <1>5, <1>9, <2>1
  <2> QED BY <1>1, <1>2, <2>1, <2>2, <2>3 DEF LossInv
<1>10. CASE NextInput /\ job.op # "cut"
  <2>1. /\ pc = "copy" /\ Left = {} /\ input' = input + 1 /\ FromStart
        /\ UNCHANGED <<pc, inputs, out>>
    BY <1>10 DEF NextInput
  <2>2. input' - 1 = input
    <3>1. input \in Nat \ {0}
      BY <2>1, CopyTypes
    <3> QED BY <2>1, <3>1
  <2>3. \A k \in DOMAIN inputs[1] : Taken(k) = Behind(job, k, input)
    BY <1>10, <2>1, InputEnds
  <2>4. \A k : Taken(k)' = Taken(k)
    <3>1. out' = out
      BY <2>1
    <3> QED BY <3>1 DEF Taken
  <2> QED BY <1>7, <1>10, <2>1, <2>2, <2>3, <2>4
<1>11. CASE CloseMuxer /\ job.op # "cut"
  <2>1. /\ pc = "copy" /\ Left = {} /\ input = Len(inputs) /\ UNCHANGED <<inputs, out>>
        /\ pc' \in {"done", "failed"}
    BY <1>11 DEF CloseMuxer, Fail
  <2>2. \A k \in DOMAIN inputs[1] : Taken(k) = Behind(job, k, input)
    BY <1>11, <2>1, InputEnds
  <2>3. \A k : Taken(k)' = Taken(k)
    <3>1. out' = out
      BY <2>1
    <3> QED BY <3>1 DEF Taken
  <2>4. \A i \in DOMAIN inputs' : CarriesAll(inputs'[i], Read(job', i))
    BY <1>5, <1>11, <2>1
  <2>5. \A k \in DOMAIN inputs'[1] : Taken(k)' = Behind(job', k, Len(inputs'))
    BY <1>1, <2>1, <2>2, <2>3
  <2>6. CASE pc' = "done"
    BY <1>2, <2>4, <2>5, <2>6 DEF LossInv
  <2> QED BY <1>3, <2>1, <2>6
<1>12. CASE DeclareRefused \/ SampleRefused
  BY <1>3, <1>12 DEF DeclareRefused, SampleRefused, Fail
<1>13. CASE Returned \/ UNCHANGED vars
  <2>1. pc' = pc /\ inputs' = inputs /\ input' = input /\ next' = next /\ out' = out
    BY <1>13 DEF Returned, vars
  <2>2. \A k : Taken(k)' = Taken(k)
    BY <2>1 DEF Taken
  <2> QED BY <1>1, <1>2, <2>1, <2>2 DEF LossInv
<1> QED BY <1>4, <1>6, <1>8, <1>9, <1>10, <1>11, <1>12, <1>13 DEF Next

(* What is written is in front of all there is.                            *)
LEMMA LossInvHolds ==
    TypeOK /\ LossInv => (job.op # "cut" => CopyHoldsItsRange)
<1> SUFFICES ASSUME TypeOK, LossInv, job.op # "cut" PROVE CopyHoldsItsRange
  OBVIOUS
<1> DEFINE all(k) == ConcatTo([i \in DOMAIN inputs |-> Source(i, k)], Len(inputs))
<1> SUFFICES ASSUME Copied, NEW k \in DOMAIN inputs[1]
             PROVE  IsPrefix(Taken(k), all(k)) /\ (pc = "done" => Taken(k) = all(k))
  BY DEF CopyHoldsItsRange
<1>1. pc \in {"declare", "copy", "done"}
  BY DEF Copied
<1> DEFINE l == Len(inputs)
           S == Seq(SampleType)
<1>2. /\ input \in DOMAIN inputs /\ input \in Nat \ {0}
      /\ l \in Nat /\ DOMAIN inputs = 1..l
  <2>1. input \in DOMAIN inputs /\ input \in Nat \ {0} /\ Paired(inputs)
    BY <1>1 DEF TypeOK
  <2> QED BY <2>1, PairedTracks
<1>3. \A i \in 1..l : Read(job, i)[k].samples \in S
  BY <1>1, <1>2, Carried
<1> HIDE DEF S
<1> DEFINE f == [i \in 1..l |-> Read(job, i)[k].samples]
<1>4. all(k) = Behind(job, k, l) /\ Behind(job, k, l) = ConcatTo(f, l)
  <2>1. \A i \in DOMAIN inputs : Source(i, k) = Read(job, i)[k].samples
    BY DEF Source, SourceTracks, Read
  <2>2. [i \in DOMAIN inputs |-> Source(i, k)] = f
    <3> HIDE DEF l
    <3> QED BY <1>2, <2>1
  <2>3. Behind(job, k, l) = ConcatTo(f, l)
    BY Zenon DEF Behind
  <2> HIDE DEF l, f
  <2> QED BY <2>2, <2>3 DEF l
<1> HIDE DEF all, l
<1>5. f \in Parts(SampleType, l) /\ \A i \in 1..l : f[i] = Read(job, i)[k].samples
  BY <1>3 DEF Parts, S
<1> HIDE DEF f
<1>6. \A n \in 0..l : Behind(job, k, n) = ConcatTo(f, n) /\ Behind(job, k, n) \in S
  <2> SUFFICES ASSUME NEW n \in 0..l
               PROVE  Behind(job, k, n) = ConcatTo(f, n) /\ Behind(job, k, n) \in S
    OBVIOUS
  <2> DEFINE g == [i \in 1..n |-> Read(job, i)[k].samples]
  <2>1. n \in Nat /\ \A i \in 1..n : i \in 1..l /\ g[i] = Read(job, i)[k].samples
    BY <1>2
  <2>2. Behind(job, k, n) = ConcatTo(g, n)
    BY Zenon DEF Behind
  <2> HIDE DEF g
  <2>3. \A i \in 1..n : g[i] = f[i] /\ g[i] \in Seq(SampleType)
    BY <1>3, <1>5, <2>1 DEF S
  <2>4. ConcatTo(g, n) = ConcatTo(f, n)
    BY <2>1, <2>3, ConcatSame
  <2>5. ConcatTo(g, n) \in Seq(SampleType)
    BY <2>1, <2>3, ConcatIsSeq
  <2> QED BY <2>2, <2>4, <2>5 DEF S
<1>7. all(k) \in S
  BY <1>2, <1>4, <1>6
<1>8. ASSUME NEW t, t \in S, NEW r, r \in S, all(k) = Then(t, r) PROVE IsPrefix(t, all(k))
  BY <1>8, ThenPrefix DEF S
<1>9. /\ <<>> \in S
      /\ \A t \in S : Then(t, <<>>) = t /\ Then(<<>>, t) = t
      /\ \A t, u, v \in S :
            Then(Then(t, u), v) = Then(t, Then(u, v)) /\ Then(t, u) \in S
  <2>1. <<>> \in S
    BY EmptySeq DEF S
  <2>2. ASSUME NEW t \in S
        PROVE  Then(t, <<>>) = t /\ Then(<<>>, t) = t
    <3>1. t \in Seq(SampleType)
      BY DEF S
    <3> QED BY <3>1, ThenProperties
  <2>3. ASSUME NEW t \in S, NEW u \in S, NEW v \in S
        PROVE  Then(Then(t, u), v) = Then(t, Then(u, v)) /\ Then(t, u) \in S
    <3>1. t \in Seq(SampleType) /\ u \in Seq(SampleType) /\ v \in Seq(SampleType)
      BY DEF S
    <3>2. /\ Then(Then(t, u), v) = Then(t, Then(u, v))
          /\ Then(t, u) \in Seq(SampleType)
      BY <3>1, ThenProperties
    <3> QED BY <3>2 DEF S
  <2> QED BY <2>1, <2>2, <2>3
<1>10. CASE pc = "declare"
  <2>1. Taken(k) = <<>>
    <3>1. out = <<>> /\ Len(<<>>) = 0
      BY <1>10 DEF TypeOK
    <3> QED BY <3>1, ConcatZero DEF Taken
  <2>2. all(k) = Then(<<>>, all(k))
    BY <1>7, <1>9
  <2>3. IsPrefix(<<>>, all(k))
    BY <1>7, <1>8, <1>9, <2>2
  <2> QED BY <1>10, <2>1, <2>3
<1>11. CASE pc = "copy"
  <2> DEFINE source == Read(job, input)[k].samples
             n == next[k] - 1
             b == input - 1
             part == Part(source, n)
  <2>1. Taken(k) = Then(Behind(job, k, b), part)
    BY <1>11 DEF LossInv
  <2>2. b \in 0..l /\ b \in Nat /\ b + 1 = input /\ input \in 0..l
    BY <1>2
  <2>3. source \in Seq(SampleType)
    BY <1>2, <1>3 DEF S
  <2>4. n \in Nat
    <3>1. next[k] \in Nat \ {0}
      BY <1>11, CopyTypes
    <3> QED BY <3>1
  <2> HIDE DEF source, n, b
  <2>5. part \in S
    BY <2>3, <2>4, PartStep DEF S
  <2>6. PICK r \in S : source = Then(part, r)
    <3>1. CASE n >= Len(source)
      <4>1. part = source
        BY <2>3, <2>4, <3>1, PartStep
      <4>2. Then(source, <<>>) = source
        BY <1>9, <2>3 DEF S
      <4> HIDE DEF part
      <4> QED BY <1>9, <4>1, <4>2
    <3>2. CASE ~(n >= Len(source))
      <4> DEFINE m == Len(source)
                 u == SubSeq(source, n + 1, m)
      <4>1. m \in Nat /\ (\A i \in 1..m : source[i] \in SampleType) /\ SubSeq(source, 1, m) = source
        BY <2>3, LenProperties, ElementOfSeq, SubSeqFull
      <4>2. 1 \in 1..(m + 1) /\ n \in (1 - 1)..m /\ m \in n..m /\ n < m
        BY <2>4, <3>2, <4>1
      <4>3. SubSeq(source, 1, n) \o u = SubSeq(source, 1, m)
        BY <2>3, <4>2, ConcatAdjacentSubSeq
      <4>4. part = SubSeq(source, 1, n)
        BY <4>2 DEF Part
      <4>5. u \in Seq(SampleType)
        <5>1. n + 1 \in Int /\ m \in Int /\ \A i \in (n + 1)..m : source[i] \in SampleType
          BY <2>4, <4>1
        <5> QED BY <5>1, SubSeqProperties
      <4> HIDE DEF u, part, m
      <4>6. source = Then(part, u)
        BY <4>1, <4>3, <4>4 DEF Then
      <4> QED BY <4>5, <4>6 DEF S
    <3> QED BY <3>1, <3>2
  <2> HIDE DEF part
  <2>7. Behind(job, k, input) = Then(Behind(job, k, b), source)
    <3>1. Behind(job, k, b + 1) = Then(Behind(job, k, b), Read(job, b + 1)[k].samples)
      BY <2>2, BehindStep
    <3> QED BY <2>2, <3>1, Zenon DEF source
  <2>8. PICK t \in S : all(k) = Then(Behind(job, k, input), t)
    <3>1. \E t \in Seq(SampleType) : ConcatTo(f, l) = Then(ConcatTo(f, input), t)
      BY <1>2, <1>5, <2>2, ConcatInFront
    <3> QED BY <1>4, <1>6, <2>2, <3>1, Zenon DEF S
  <2> DEFINE B == Behind(job, k, b)
  <2>9. B \in S
    BY <1>6, <2>2
  <2> HIDE DEF B
  <2>10. Then(Then(B, Then(part, r)), t) = Then(Then(B, part), Then(r, t))
         /\ Then(B, part) \in S /\ Then(r, t) \in S
    <3>1. Then(B, Then(part, r)) = Then(Then(B, part), r)
      BY <1>9, <2>5, <2>9
    <3>2. Then(B, part) \in S /\ Then(r, t) \in S
      BY <1>9, <2>5, <2>9
    <3>3. Then(Then(Then(B, part), r), t) = Then(Then(B, part), Then(r, t))
      BY <1>9, <3>2
    <3> QED BY <3>1, <3>2, <3>3
  <2>11. all(k) = Then(Taken(k), Then(r, t)) /\ Taken(k) \in S
    BY <2>1, <2>6, <2>7, <2>8, <2>10, Zenon DEF B
  <2> QED BY <1>8, <1>11, <2>10, <2>11
<1>12. CASE pc = "done"
  <2>1. Taken(k) = Behind(job, k, l)
    BY <1>12 DEF LossInv, l
  <2>2. all(k) = Then(all(k), <<>>)
    BY <1>7, <1>9
  <2>3. IsPrefix(all(k), all(k))
    BY <1>7, <1>8, <1>9, <2>2
  <2> QED BY <1>4, <2>1, <2>3
<1> QED BY <1>1, <1>10, <1>11, <1>12

(* Remux, Concat and Join lose nothing: of every input each track of the   *)
(* output has every sample once and in order, or, before the copy is done  *)
(* or when it ends early, the first of them; whatever is padded or         *)
(* described on the way.                                                   *)
THEOREM CopiesLoseNothing == Spec => [](job.op # "cut" => CopyHoldsItsRange)
<1>1. TypeOK /\ LossInv => (job.op # "cut" => CopyHoldsItsRange)
  BY LossInvHolds
<1> QED BY <1>1, InitLossInv, NextLossInv, CopyingTypes, PTL DEF Spec
=============================================================================
