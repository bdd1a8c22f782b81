------------------------------ MODULE WebMFile ------------------------------
(***************************************************************************)
(* What a Matroska file is for: a player walks it element by element, or   *)
(* goes where its SeekHead and Cues say.  The module states the properties *)
(* of WebMMuxer and shows that it implements MovieFile.                    *)
(***************************************************************************)
EXTENDS WebMMuxer, FiniteSets, Functions

CONSTANT Foreign  \* tracks of sound another muxer wrote, as [blocks, perFrame]

(***************************************************************************)
(* Reading a file.                                                         *)
(***************************************************************************)
StartOf(j) == Size(SubSeq(file, 1, j - 1))
At(kind) == {j \in DOMAIN file : file[j].el = kind}

(* The blocks of a track, each at the time of its cluster and its own.  A  *)
(* buffered segment's clusters are in m.clusters until it is written.      *)
Elements ==
    IF Buffered /\ ~complete
    THEN FlattenSeq([i \in DOMAIN clusters |-> ClusterBody(clusters[i])]) ELSE file

BlocksIn(elements, t) ==
    LET open(i) == Last(SelectSeq(SubSeq(elements, 1, i), LAMBDA e : e.el = "timecode"))
        on == SelectSeq([i \in DOMAIN elements |-> i],
                        LAMBDA i : elements[i].el = "block" /\ elements[i].track = t)
    IN  [n \in DOMAIN on |-> [block |-> elements[on[n]],
                              tick |-> open(on[n]).time + elements[on[n]].rel]]

(* Bound, the elements are read once.                                      *)
BlocksOn(t) == CHOOSE blocks \in {BlocksIn(elements, t) : elements \in {Elements}} : TRUE

Frame(len, tick, sync) == [len |-> len, tick |-> tick, sync |-> sync]

(* The frames of a track: those written, and the one in hand or held.      *)
FramesOn(t) ==
    LET blocks == BlocksOn(t)
        inHand == SelectSeq(writing, LAMBDA b : b.track = t)
    IN  [i \in DOMAIN blocks |-> Frame(blocks[i].block.data, blocks[i].tick, blocks[i].block.sync)]
          \o [i \in DOMAIN inHand |-> Frame(inHand[i].data, inHand[i].tick, inHand[i].sync)]
          \o SetToSeq({Frame(h.len, h.tick, h.sync) : h \in tracks[t].held})

K == INSTANCE MatroskaReader

FrameTracks == {t \in DOMAIN tracks : ~tracks[t].text}

HandedFrame(t, at, s) == Frame(s.len, Ticks(at, tracks[t].timescale), s.sync)

Promised == INSTANCE MovieFile WITH
    TracksMayBeEmpty <- TRUE,
    content <- [t \in DOMAIN tracks |-> IF tracks[t].text THEN <<>> ELSE FramesOn(t)],
    handed <- IF call.op # "write" \/ tracks[call.track].text THEN {}
              ELSE {[track |-> call.track,
                     sample |-> HandedFrame(call.track, call.at, call.sample)]},
    finished <- complete

(* Every frame taken is in the file once, on its track, in the order it    *)
(* was taken and at the time it presents, to the nearest tick: whichever   *)
(* cluster it was placed in, whether it was held for another of its track, *)
(* became the last or was set aside as a block group.                      *)
ImplementsMovieFile == Promised!Spec

(***************************************************************************)
(* Safety.                                                                 *)
(***************************************************************************)
(* How often a sample of text shows the cue key.                           *)
Shown(s, key) == Cardinality({i \in DOMAIN s.sample.cues : s.sample.cues[i] = key})

(* A cue shown through one sample after another is one block, from the     *)
(* first to the end of the last: as many start with a sample as it shows   *)
(* more of them than the one before it did, and as many end with it as the *)
(* one after it shows fewer, and blocks are in the order they start.       *)
CuesAreWhole ==
    complete =>
        \A t \in DOMAIN tracks \ FrameTracks :
            LET s == taken[t]
                b == BlocksOn(t)
                scale == tracks[t].timescale
                Count(key, Test(_)) ==
                    Cardinality({i \in DOMAIN b : b[i].block.data = key /\ Test(b[i])})
                Before(i, key) == IF i = 1 THEN 0 ELSE Shown(s[i - 1], key)
                After(i, key) == IF i = Len(s) THEN 0 ELSE Shown(s[i + 1], key)
                keys == UNION {Range(s[i].sample.cues) : i \in DOMAIN s}
            IN  /\ \A i \in DOMAIN s, key \in keys :
                     LET from == Ticks(s[i].at, scale)
                         to == Ticks(s[i].at + s[i].sample.dur, scale)
                     IN  /\ Count(key, LAMBDA c : c.tick = from)
                              = Max({0, Shown(s[i], key) - Before(i, key)})
                         /\ Count(key, LAMBDA c : c.tick + c.block.dur = to)
                              = Max({0, Shown(s[i], key) - After(i, key)})
                /\ \A i, j \in DOMAIN b : i < j => b[i].tick <= b[j].tick

(* What a decoder makes of each frame, less what it is told to discard, is *)
(* what is presented of the frame: the edit's end cuts into the frames it  *)
(* falls in, and a last frame stated shorter than its codec decodes it to  *)
(* is not heard any longer for it.                                         *)
PresentedAsEdited ==
    complete =>
        \A t \in FrameTracks :
            LET b == BlocksOn(t)
                k == tracks[t]
                dur(i) == taken[t][i].sample.dur
            IN  \A i \in DOMAIN b :
                  LET start == taken[t][i].at + Max(k.shift)
                      decoded == IF k.fixed /\ i > 1 /\ i = Len(b) THEN Max({dur(i), dur(i - 1)})
                                 ELSE dur(i)
                      kept == Min({dur(i)} \union
                                  {Max({e.end - start, 0}) : e \in {f \in k.edit : f.end > 0}})
                      off == (decoded - kept) * Second - b[i].block.discard * k.timescale
                  IN  2 * off <= k.timescale /\ -2 * off <= k.timescale

(* "Its positions count from the first byte inside the segment": at any    *)
(* time, whatever was refused before, the SeekHead and the Cues lead to    *)
(* the elements they name (one may be left rewritten in part), each        *)
(* cluster there is has its place in the Cues, and "a SeekHead that names  *)
(* every Top-Level Element or none".                                       *)
ContentStartOf(j) == StartOf(j + 2)

PositionsHold ==
    LET segments == At("segment")
        start == ContentStartOf(Max(segments))
        Found(el, at) == {i \in At(el) \union At("rewritten") : StartOf(i) = start + at}
    IN  /\ \A j \in At("seekhead"), n \in 1..8 : n \in DOMAIN file[j].seeks =>
              Found(file[j].seeks[n].el, file[j].seeks[n].at) # {}
        /\ \A j \in At("cues") :
              /\ \A n \in DOMAIN file[j].points :
                   \E i \in Found("cluster", file[j].points[n].at) :
                     file[i + 2].time = file[j].points[n].time
              /\ Len(file[j].points) = Cardinality(At("cluster"))
        /\ complete => \A j \in At("seekhead") :
              {file[j].seeks[n].el : n \in DOMAIN file[j].seeks}
                = {file[i].el : i \in UNION {At(el) : el \in {"info", "tracks", "other", "cues"}}}

(* A size that is stated is the size of what follows: a cluster ends where *)
(* the next one or the Cues begin, the segment at the end of the file; and *)
(* a finished one that states how long it is lasts as long as the track    *)
(* that ends last.                                                         *)
SizesHold ==
    /\ \A j \in At("size") : file[j].states # {} =>
        LET end == StartOf(j + 1) + Max(file[j].states)
            behind == {i \in At("cluster") \union At("cues") : i > j}
        IN  end = IF file[j - 1].el = "segment" \/ behind = {} THEN Size(file)
                  ELSE StartOf(Min(behind))
    /\ complete /\ setup.mode \in {"file", "buffered"} => \A j \in At("info") :
         file[j].duration =
           Max({0} \union UNION {{Ticks(s.at + s.sample.dur, tracks[t].timescale) :
                                    s \in Range(taken[t])} : t \in DOMAIN tracks})

(* Whatever was refused, and however often the caller tried again, the     *)
(* frames of a track are frames it was given, in order, none of them       *)
(* twice: an error may lose the frame that was held, nothing else.         *)
FramesNeverRepeat ==
    \A t \in FrameTracks :
        LET given == [i \in DOMAIN taken[t] |-> HandedFrame(t, taken[t][i].at, taken[t][i].sample)]
            next(n, f) == Min({Len(given) + 1} \union {i \in DOMAIN given : i > n /\ given[i] = f})
        IN  FoldLeft(next, 0, FramesOn(t)) <= Len(given)

(***************************************************************************)
(* The reader of the package.                                              *)
(***************************************************************************)
Content == SelectSeq(file, LAMBDA f : f.el # "before")

(* The samples of a track of frames the file is read to have.              *)
SamplesRead(blocks) == K!SamplesOf(blocks, 0, Max({0} \union {file[j].duration : j \in At("info")}))

(* Where sample i of a track presents, by what was handed over alone: the  *)
(* first frame where the edit list says, or at once.                       *)
Presents(t, i) ==
    LET sample(j) == taken[t][j].sample
        first == Max({sample(1).offset, 0})
        start == Max({0} \union {e.lead + first - Min({e.media, first}) : e \in tracks[t].edit})
    IN  FoldLeft(LAMBDA sum, s : sum + s.sample.dur, 0, SubSeq(taken[t], 1, i - 1))
          + sample(i).offset - first + start

PresentsUntil(t, i) == Presents(t, i) + taken[t][i].sample.dur

PresentsSame(t, blocks, read) ==
    LET s == taken[t]
        tick(i) == Ticks(Presents(t, i), tracks[t].timescale)
        end == Ticks(PresentsUntil(t, Len(s)), tracks[t].timescale)
        ticks == {tick(i) : i \in DOMAIN s}
    IN  Cardinality(ticks) = Len(s) =>
          /\ Len(read) = Len(s)
          /\ \A i \in DOMAIN s :
               /\ read[i].data = s[i].sample.len /\ read[i].sync = s[i].sample.sync
               /\ read[i].dur > 0 /\ read[i].offset >= 0
               /\ K!Start(read, i) - K!Start(read, 1) + blocks[1].time = tick(i)
          /\ tick(Len(s)) = Max(ticks) => read[Len(s)].dur = end - tick(Len(s))

EndsSame(t, blocks, read) ==
    LET k == tracks[t]
        cut == {e.media + e.duration : e \in K!EndTrim(blocks, read, Tick)}
        end == Min({K!PresentedUntil(read)} \union cut) - K!Start(read, 1) + blocks[1].time
        shift == taken[t][1].sample.offset - Presents(t, 1)
        edited == Min({Max({PresentsUntil(t, i) : i \in DOMAIN taken[t]})}
                      \union {e.end - shift : e \in {f \in k.edit : f.end > 0}})
        off == end * k.timescale - edited * TicksPerSecond
    IN  k.edit # {} /\ read # <<>> => off \in (-k.timescale)..k.timescale

(* How often the cue key is on screen at a tick, of samples that each last *)
(* until the tick the next one begins.                                     *)
OnScreenAt(samples, from, to, key, tick) ==
    FoldLeft(LAMBDA n, i : n + IF from[i] <= tick /\ tick < to[i]
                                 THEN Cardinality({c \in DOMAIN samples[i].cues : samples[i].cues[c] = key})
                                 ELSE 0,
             0, [i \in DOMAIN samples |-> i])

ShowsSame(t, read) ==
    LET s == taken[t]
        given == [i \in DOMAIN s |-> s[i].sample]
        from == [i \in DOMAIN s |-> Ticks(Presents(t, i), tracks[t].timescale)]
        to == [i \in DOMAIN s |-> Ticks(PresentsUntil(t, i), tracks[t].timescale)]
        readFrom == [i \in DOMAIN read |-> K!DecodeTime(read, i)]
        readTo == [i \in DOMAIN read |-> K!DecodeTime(read, i + 1)]
    IN  \A tick \in 0..MaxTicks, key \in UNION {Range(given[i].cues) : i \in DOMAIN given} :
          OnScreenAt(given, from, to, key, tick) = OnScreenAt(read, readFrom, readTo, key, tick)

(* Sound of another muxer, which laces frames: blocks that follow one      *)
(* another, each behind what the one before it spans, and frames that last *)
(* a tick or more.  Every frame is read, in its place in the block to less *)
(* than a tick, and however many there were before it; the last ends where *)
(* its block does.  What nothing times is not read.                        *)
LaceReads(blocks, perFrame, read) ==
    LET before(b) == FoldLeft(LAMBDA n, c : n + Len(c.frames), 0, SubSeq(blocks, 1, b - 1))
        place(k) == K!Start(read, k) - K!Start(read, 1) + blocks[1].time
        span(b) == K!Span(blocks[b], perFrame)
    IN  /\ Len(read) = before(Len(blocks) + 1)
        /\ \A b \in DOMAIN blocks : \A j \in DOMAIN blocks[b].frames :
             LET late == (place(before(b) + j) - blocks[b].time) * Len(blocks[b].frames) - span(b) * (j - 1)
             IN  /\ read[before(b) + j].data = blocks[b].frames[j]
                 /\ late <= 0 /\ late > -Len(blocks[b].frames)
        /\ place(Len(read)) + Last(read).dur = Last(blocks).time + span(Len(blocks))

LacesReadEvenly ==
    \A f \in Foreign :
        LET read == K!SamplesOf(f.blocks, f.perFrame, 0)
            span(b) == K!Span(f.blocks[b], f.perFrame)
            spaced == /\ \A b \in DOMAIN f.blocks : span(b) >= Len(f.blocks[b].frames)
                      /\ \A b \in 2..Len(f.blocks) : f.blocks[b].time = f.blocks[b - 1].time + span(b - 1)
        IN  IF \E b \in DOMAIN f.blocks : span(b) = 0 /\ Len(f.blocks[b].frames) > 1 THEN read = <<>>
            ELSE spaced => LaceReads(f.blocks, f.perFrame, read)

(* A finished file reads as the samples that were handed over, each at the *)
(* time it presents, to the tick times are rounded to, the first where the *)
(* edit list starts it, and the last lasting as long as it did; sound ends *)
(* where its edit list ended it; and text shows the same cues at each      *)
(* tick (samples of one tick are not told apart); and the laces of another *)
(* muxer read evenly.                                                      *)
SamplesReadBack ==
    /\ complete =>
        \A t \in DOMAIN tracks : taken[t] # <<>> =>
            LET blocks == K!BlocksOf(Content, t)
            IN  IF tracks[t].text THEN ShowsSame(t, K!WebVTTSamples(blocks, 0))
                ELSE \E read \in {SamplesRead(blocks)} :
                       PresentsSame(t, blocks, read) /\ EndsSame(t, blocks, read)
    /\ LacesReadEvenly

(***************************************************************************)
(* Writing that stopped: of a file the first n fields are there, and maybe *)
(* a part of the next.                                                     *)
(***************************************************************************)
Cut(fields, n, part) == SubSeq(fields, 1, n) \o IF part THEN <<[el |-> "part", size |-> 1]>> ELSE <<>>

(* What was damaged before its end is not what the reader is for.          *)
Undamaged(fields) ==
    \A i \in DOMAIN fields : fields[i].el \in {"rewritten", "damaged", "torn"} =>
                               fields[i].el = "torn" /\ i = Len(fields)

(* The blocks of a track among the first n fields, without those of a      *)
(* cluster that states how long it is and is not all there.                *)
BlocksWithin(fields, n, t) ==
    LET opening == {j \in 1..n : fields[j].el = "cluster"}
        arrived(j) ==
            IF j = n THEN fields[j + 1].states = {}
            ELSE \A size \in fields[j + 1].states : size <= Size(SubSeq(fields, j + 2, n))
        whole == {j \in opening : j + 1 <= Len(fields) /\ arrived(j)}
        blocks == SelectSeq([i \in 1..n |-> i], LAMBDA i : fields[i].el = "block" /\ fields[i].track = t
                                                        /\ Max({j \in opening : j < i}) \in whole)
        at(i) == Max({j \in 1..i : fields[j].el = "timecode"})
    IN  [b \in DOMAIN blocks |-> [data |-> fields[blocks[b]].data,
                                 time |-> fields[at(blocks[b])].time + fields[blocks[b]].rel]]

(* A file that was left at any point, or of which only the first bytes     *)
(* were kept, reads up to there, whole clusters of the sizes stated and    *)
(* every block of one that states none; and it is not taken for a whole    *)
(* one unless nothing in it says that it is not.  (Between two children of *)
(* a segment that states its size, nothing is read at all.)                *)
Cuts(fields) ==
    IF complete THEN {c \in (0..Len(fields)) \X BOOLEAN : c[2] => c[1] < Len(fields)}
    ELSE {<<Len(fields), FALSE>>}

StatesItsSize(fields) ==
    \E s \in DOMAIN fields : fields[s].el = "segment" /\ fields[s + 1].states # {}

BetweenChildren(fields, n, part) ==
    /\ StatesItsSize(fields) /\ ~part /\ n < Len(fields)
    /\ fields[n + 1].el \in {"seekhead", "void", "info", "tracks", "other", "cluster", "cues"}

CutFileReads ==
    \A fields \in {Content} : Undamaged(fields) =>
        \A c \in Cuts(fields) : ~BetweenChildren(fields, c[1], c[2]) =>
            \A cut \in {Cut(fields, c[1], c[2])} : \A read \in {K!NewMatroskaReader(cut)} :
                /\ \A t \in FrameTracks :
                     LET blocks == K!BlocksOf(read.fields, t)
                     IN  [b \in DOMAIN blocks |-> [data |-> blocks[b].frames[1], time |-> blocks[b].time]]
                           = BlocksWithin(fields, c[1], t)
                /\ read.error = "none" =>
                     /\ cut = <<>> \/ Last(cut).el \notin {"part", "torn"}
                     /\ cut # fields => ~StatesItsSize(fields)
=============================================================================
