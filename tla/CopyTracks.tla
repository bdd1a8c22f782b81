----------------------------- MODULE CopyTracks -----------------------------
(***************************************************************************)
(* What Remux, Cut, Concat and Join make of the tracks they read before a  *)
(* sample is written (remux.go, join.go, dropEditList of editlists.go).    *)
(*                                                                         *)
(* A track is [kind, codec, parameters, frames, scale, samples, edits]:    *)
(* parameters stands for what a decoder is set up from, 0 when the         *)
(* container does not state it, and frames for what the samples say of it. *)
(* A track of no samples is one that cannot be read.  A sample is          *)
(* [dur, offset, sync, timed, n]: timed when its text states times of its  *)
(* own, n its place in the source and 0 when the copy made it up.  edits   *)
(* is {} or one list [movie, edits], an edit [length, media, normal].      *)
(*                                                                         *)
(* An operation on tracks gives [error, tracks].                           *)
(***************************************************************************)
EXTENDS Integers, SequencesExt, FiniteSetsExt, Sums

CONSTANT Second  \* nanoseconds of a second, nsScale

SampleType == [dur : Nat, offset : Int, sync : BOOLEAN, timed : BOOLEAN, n : Nat]
ListType ==
    [movie : Nat \ {0}, edits : Seq([length : Nat, media : Int, normal : BOOLEAN])]
TrackType ==
    [kind : STRING, codec : STRING, parameters : Nat, frames : Nat, scale : Nat \ {0},
     samples : Seq(SampleType), edits : SUBSET ListType]

ASSUME SecondAssumption == Second \in Nat \ {0}

EmptyEdit == -1
Okay(tracks) == [error |-> "none", tracks |-> tracks]
Error(what) == [error |-> what, tracks |-> <<>>]
AndThen(r, op(_)) == IF r.error = "none" THEN op(r.tracks) ELSE r

(***************************************************************************)
(* Times: ticks of two timescales, compared as the rationals they are.     *)
(***************************************************************************)
(* Mutant: the ticks are compared as they are.                             *)
TicksBefore(a, aScale, b, bScale) == a < b

Before(a, aScale, b, bScale) == a * bScale < b * aScale

Scaled(d, from, to) == (d * to) \div from

DecodeTime(samples, i) ==
    SumTo([k \in DOMAIN samples |-> samples[k].dur], i - 1)

TrackLength(t) == DecodeTime(t.samples, Len(t.samples) + 1)

(***************************************************************************)
(* Reading a source.                                                       *)
(***************************************************************************)
IsTimedText(t) == t.codec \in {"wvtt", "tx3g", "stpp"}
Readable(t) == t.samples # <<>>
StatedInFrames(t) == t.codec \in {"ac-3", "vp09"}
Describable(t) == ~(StatedInFrames(t) /\ t.parameters = 0 /\ t.frames = 0)

DescribeFromSamples(t) ==
    IF StatedInFrames(t) /\ t.parameters = 0 THEN [t EXCEPT !.parameters = t.frames] ELSE t

(* The tracks of a source are named by their place in it.                  *)
Undropped(source, drop) ==
    ConcatTo([i \in DOMAIN source.tracks |->
                IF i \in drop THEN <<>> ELSE <<source.tracks[i]>>], Len(source.tracks))

Described(tracks) == [i \in DOMAIN tracks |-> DescribeFromSamples(tracks[i])]

ReadSource(source, drop) ==
    LET kept == Undropped(source, drop)
        read == {i \in DOMAIN kept : ~Readable(kept[i]) \/ ~Describable(kept[i])}
    IN  IF ~(drop \subseteq DOMAIN source.tracks) \/ read # {} \/ kept = <<>>
          THEN Error("unreadable")
          ELSE Okay(Described(kept))

TruncatedAmong(job) ==
    ~job.allowTruncated /\ \E i \in DOMAIN job.sources : job.sources[i].truncated

(***************************************************************************)
(* Timed text.                                                             *)
(***************************************************************************)
(* A TTML document states its times wherever it is; a krok box or a cue    *)
(* timestamp does inside a sample.                                         *)
RefusesShift(t, samples) ==
    t.codec = "stpp" \/ \E i \in DOMAIN samples : samples[i].timed

Padding(dur) == [dur |-> dur, offset |-> 0, sync |-> TRUE, timed |-> FALSE, n |-> 0]

(* The track that lasts longest, the first of those that do.               *)
Longest(tracks) ==
    CHOOSE i \in DOMAIN tracks :
        \A j \in DOMAIN tracks :
            LET length(k) == TrackLength(tracks[k])
            IN  IF j < i THEN Before(length(j), tracks[j].scale, length(i), tracks[i].scale)
                         ELSE ~Before(length(i), tracks[i].scale, length(j), tracks[j].scale)

PadTimedText(tracks) ==
    LET longest == tracks[Longest(tracks)]
        missing(t) == Scaled(TrackLength(longest), longest.scale, t.scale) - TrackLength(t)
    IN  [i \in DOMAIN tracks |->
           IF tracks[i].codec \in {"wvtt", "tx3g"} /\ missing(tracks[i]) > 0
             THEN [tracks[i] EXCEPT !.samples = Append(@, Padding(missing(tracks[i])))]
             ELSE tracks[i]]

(***************************************************************************)
(* Edit lists.                                                             *)
(***************************************************************************)
StartOnly(el) ==
    LET led == el.edits # <<>> /\ Head(el.edits).media = EmptyEdit
        edits == IF led THEN Tail(el.edits) ELSE el.edits
    IN  [ok |-> Len(edits) = 1 /\ edits[1].media >= 0 /\ edits[1].normal,
         lead |-> IF led THEN Head(el.edits).length ELSE 0,
         edit |-> Last(el.edits)]

PresentedUntil(samples) ==
    Max({0} \union {DecodeTime(samples, i) + samples[i].offset + samples[i].dur :
                      i \in DOMAIN samples})

ScaledUp(d, from, to) == (d * to + from - 1) \div from

(* One tick of the movie timescale, in the track's.                        *)
EditSlack(t, el) == ScaledUp(1, el.movie, t.scale)

(* Whether a list says more than what the muxers state on their own.       *)
SaysMore(t, full, keepsTail) ==
    \E el \in t.edits :
        LET s == StartOnly(el)
            end == s.edit.media + ScaledUp(s.edit.length, el.movie, t.scale)
        IN  \/ ~s.ok
            \/ s.lead > 0
            \/ /\ keepsTail /\ s.edit.length > 0
               /\ end + EditSlack(t, el) < PresentedUntil(full)

WithoutEdits(tracks) == [i \in DOMAIN tracks |-> [tracks[i] EXCEPT !.edits = {}]]
=============================================================================
