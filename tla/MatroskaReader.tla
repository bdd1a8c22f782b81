--------------------------- MODULE MatroskaReader ---------------------------
(***************************************************************************)
(* The reader of Matroska files (matroska_read.go, matroska_truncated.go,  *)
(* and the way back of subtitle.go): a file that ends too early is cut     *)
(* behind its last whole element, its blocks are taken apart into frames,  *)
(* and the frames, of which it states when they present, are given the     *)
(* durations and offsets of samples.                                       *)
(*                                                                         *)
(* A file is a sequence of fields as WebMSeek has them; of a field that    *)
(* was cut a "part" is there, which is the last.  A block read is [frames, *)
(* time, stated, sync, discard].                                           *)
(***************************************************************************)
EXTENDS EditLists, SequencesExt

Length(fields) == FoldLeft(LAMBDA n, f : n + f.size, 0, fields)

(***************************************************************************)
(* Files that end too early.                                               *)
(***************************************************************************)
States(fields, i) == IF i \in DOMAIN fields /\ fields[i].el = "size" THEN fields[i].states ELSE {}

(* Whether an element begins at field i and all that it states is there.   *)
Whole(fields, i) ==
    /\ fields[i].el \notin {"part", "torn"}
    /\ fields[i].el \in {"segment", "cluster"} => i + 1 \in DOMAIN fields /\ fields[i + 1].el = "size"
    /\ fields[i].el = "cluster" =>
         \A n \in States(fields, i + 1) : n <= Length(SubSeq(fields, i + 2, Len(fields)))

(* The last field of the last child that is whole.  Of a cluster whose     *)
(* size is unknown every child counts, and its opening does not.           *)
WalkSegmentChildren(fields, first) ==
    LET stop == Min({i \in first..Len(fields) : ~Whole(fields, i)} \union {Len(fields) + 1})
    IN  Max({first - 1} \union {i \in first..(stop - 1) : fields[i].el \notin {"cluster", "size"}})

Segments(fields) == {i \in DOMAIN fields : fields[i].el = "segment" /\ Whole(fields, i)}

(* {} when nothing can be rescued or nothing was dropped.  The segment     *)
(* states the size of what is kept, where it stated one.  (That there may  *)
(* be more behind a segment than it states is left out.)                   *)
CompletePrefix(fields) ==
    {LET kept == SubSeq(fields, 1, WalkSegmentChildren(fields, s + 2))
         content == Length(SubSeq(kept, s + 2, Len(kept)))
     IN  [kept EXCEPT ![s + 1].states = IF @ = {} THEN {} ELSE {content}] :
       s \in {i \in Segments(fields) :
                /\ WalkSegmentChildren(fields, i + 2) > i + 1
                /\ WalkSegmentChildren(fields, i + 2) < Len(fields) \/ States(fields, i + 1) = {}}}

(* ebml.Unmarshal, which forgives nothing: a segment of known size ends    *)
(* with the file, and holds no cluster of unknown size.                    *)
Unmarshals(fields) ==
    /\ \A i \in DOMAIN fields : Whole(fields, i)
    /\ Segments(fields) # {}
    /\ \A s \in Segments(fields) : \A n \in States(fields, s + 1) :
         /\ n = Length(SubSeq(fields, s + 2, Len(fields)))
         /\ \A i \in DOMAIN fields : fields[i].el = "cluster" => States(fields, i + 1) # {}

Document(error, fields) == [error |-> error, fields |-> fields]

NewMatroskaReader(fields) ==
    LET prefixes == {p \in CompletePrefix(fields) : Unmarshals(p)}
    IN  IF Unmarshals(fields) THEN Document("none", fields)
        ELSE IF prefixes = {} THEN Document("unreadable", <<>>)
        ELSE Document("truncated", CHOOSE p \in prefixes : TRUE)

(***************************************************************************)
(* Blocks, in the order they are in the file whichever form they have.     *)
(***************************************************************************)
BlockOf(field, clusterTime) ==
    [frames |-> <<field.data>>, time |-> clusterTime + field.rel, stated |-> field.dur,
     sync |-> IF field.group THEN field.ref = 0 ELSE field.sync, discard |-> field.discard]

BlocksOf(fields, track) ==
    FoldLeft(LAMBDA s, f :
               IF f.el = "timecode" THEN [s EXCEPT !.time = f.time]
               ELSE IF f.el = "block" /\ f.track = track
                 THEN [s EXCEPT !.blocks = Append(@, BlockOf(f, s.time))]
               ELSE s,
             [time |-> 0, blocks |-> <<>>],
             SelectSeq(fields, LAMBDA f : f.el \in {"timecode", "block"})).blocks

(***************************************************************************)
(* Frames.                                                                 *)
(***************************************************************************)
Span(b, perFrame) == IF b.stated # 0 THEN b.stated ELSE perFrame * Len(b.frames)

Laced(b) == Len(b.frames) # 1
Timed(blocks, perFrame) ==
    \A i \in DOMAIN blocks : Laced(blocks[i]) => Span(blocks[i], perFrame) > 0

(* The frames of a lace share what it spans.                               *)
Unlaced(b, perFrame) ==
    LET n == Len(b.frames)
        upto(j) == (Span(b, perFrame) * j) \div n
    IN  [j \in 1..n |-> [data |-> b.frames[j], sync |-> b.sync, pts |-> b.time + upto(j - 1),
                         stated |-> IF Laced(b) THEN upto(j) - upto(j - 1) ELSE b.stated]]

(* Where the time to the next frame does not say it; 0 when nothing does.  *)
LastDuration(stated, perFrame, remaining, written) ==
    IF stated > 0 THEN stated
    ELSE IF perFrame > 0 THEN perFrame
    ELSE IF remaining > 0 THEN remaining
    ELSE IF written # <<>> THEN Last(written).dur
    ELSE 0

(* Mutant: a sample lasts until the frame behind it is presented.          *)
DecodeAsPresented(frames) == [i \in DOMAIN frames |-> frames[i].pts]

DecodeTimes(frames) == SortSeq([i \in DOMAIN frames |-> frames[i].pts], <)

TimeFrames(frames, perFrame, segDuration) ==
    LET decode == DecodeTimes(frames)
        delay == Max({0} \union {decode[i] - frames[i].pts : i \in DOMAIN frames})
        duration(i, written) ==
            LET f == frames[i]
                until == IF i < Len(frames) THEN decode[i + 1] - decode[i] ELSE 0
                remaining == IF i < Len(frames) THEN 0 ELSE segDuration - decode[i]
            IN  IF until > 0 THEN until ELSE LastDuration(f.stated, perFrame, remaining, written)
        samples == FoldLeft(LAMBDA out, i :
                              Append(out, [data |-> frames[i].data, sync |-> frames[i].sync,
                                           dur |-> duration(i, out),
                                           offset |-> frames[i].pts + delay - decode[i]]),
                            <<>>, [i \in DOMAIN frames |-> i])
    IN  IF \E i \in DOMAIN samples : samples[i].dur <= 0 THEN <<>> ELSE samples

(* The samples of a track; one that cannot be read has none.               *)
SamplesOf(blocks, perFrame, segDuration) ==
    IF blocks = <<>> \/ ~Timed(blocks, perFrame) THEN <<>>
    ELSE TimeFrames(FlattenSeq([i \in DOMAIN blocks |-> Unlaced(blocks[i], perFrame)]),
                    perFrame, segDuration)

(***************************************************************************)
(* The end of the sound: of the padding of the last blocks, which is in    *)
(* nanoseconds, the edit that stops where it begins.                       *)
(***************************************************************************)
DecodeTime(samples, i) == FoldLeft(LAMBDA sum, s : sum + s.dur, 0, SubSeq(samples, 1, i - 1))
Start(samples, i) == DecodeTime(samples, i) + samples[i].offset

PresentedUntil(samples) ==
    Max({0} \union {Start(samples, i) + samples[i].dur : i \in DOMAIN samples})

(* Half a tick trims nothing.                                              *)
PaddingTicks(discard, tick) ==
    (discard \div tick) + IF 2 * (discard % tick) > tick THEN 1 ELSE 0

(* {} or {[media, duration]}.                                              *)
EndTrim(blocks, samples, tick) ==
    LET last(j) == FoldLeft(LAMBDA n, b : n + Len(b.frames), 0, SubSeq(blocks, 1, j))
        decoded(k) == IF k = Len(samples) /\ k > 1 THEN Max({samples[k].dur, samples[k - 1].dur})
                      ELSE samples[k].dur
        padded == {j \in DOMAIN blocks : \A i \in j..Len(blocks) : blocks[i].discard > 0}
        ends == {Start(samples, last(j)) + decoded(last(j)) - PaddingTicks(blocks[j].discard, tick) :
                   j \in padded}
        start == PresentationStart(samples[1].offset, 0)
    IN  IF ends = {} \/ Min(ends \union {PresentedUntil(samples)}) = PresentedUntil(samples)
             \/ Min(ends \union {start}) = start
          THEN {} ELSE {[media |-> start, duration |-> Min(ends) - start]}

(***************************************************************************)
(* Cues: each stretch in which the same are shown is a sample.             *)
(***************************************************************************)
CuesOf(blocks, perFrame) ==
    [i \in DOMAIN blocks |->
       LET dur == IF blocks[i].stated > 0 THEN blocks[i].stated ELSE perFrame
       IN  [key |-> blocks[i].frames[1], start |-> blocks[i].time, end |-> blocks[i].time + dur]]

ShownIn(cue, from, to) == cue.start <= from /\ cue.end >= to

(* A cue is a block of its own, not before the segment starts, for a time. *)
CuesReadable(blocks, perFrame) ==
    /\ blocks # <<>>
    /\ \A i \in DOMAIN blocks : /\ ~Laced(blocks[i]) /\ blocks[i].time >= 0
                                /\ blocks[i].stated > 0 \/ perFrame > 0

WebVTTSamples(blocks, perFrame) ==
    IF ~CuesReadable(blocks, perFrame) THEN <<>> ELSE
    LET cues == SortSeq(CuesOf(blocks, perFrame), LAMBDA a, b : a.start < b.start)
        edges == SetToSortSeq({0} \union {cues[i].start : i \in DOMAIN cues}
                                  \union {cues[i].end : i \in DOMAIN cues}, <)
    IN  [n \in 1..(Len(edges) - 1) |->
           [dur |-> edges[n + 1] - edges[n], offset |-> 0, sync |-> TRUE,
            cues |-> LET shown == SelectSeq(cues, LAMBDA c : ShownIn(c, edges[n], edges[n + 1]))
                     IN  [i \in DOMAIN shown |-> shown[i].key]]]
=============================================================================
