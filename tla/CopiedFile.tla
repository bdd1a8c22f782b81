----------------------------- MODULE CopiedFile -----------------------------
(***************************************************************************)
(* What a copy promises of the file it writes, against its sources.        *)
(***************************************************************************)
EXTENDS Copying

(* What the job reads for a track of the output from one of its inputs.    *)
SourceTracks(i) ==
    IF job.op = "join"
      THEN SideBySide(job.sources, job.drop)
      ELSE Undropped(job.sources[i], job.drop)

Source(i, k) == SourceTracks(i)[k].samples

(* The samples of its sources that a track of the output has.              *)
Taken(k) ==
    ConcatTo([j \in DOMAIN out |->
                IF out[j].track = k /\ out[j].sample.n # 0 THEN <<out[j].sample>> ELSE <<>>],
             Len(out))

(* When a sample of the output decodes, counted from the start of its      *)
(* input.                                                                  *)
TimeIn(i) ==
    SumTo([j \in DOMAIN out |->
             IF out[j].track = out[i].track /\ out[j].input = out[i].input
               THEN out[j].sample.dur ELSE 0], i - 1)

Copied == pc \in {"declare", "copy", "done"}

(***************************************************************************)
(* Remux, Concat and Join: the output has every sample of every input once *)
(* and in order, or its first ones.  Cut: where it begins is the last sync *)
(* sample of the first video track that is not after start, or the first   *)
(* there is; every track has the samples from there up to the first that   *)
(* starts at the end or after it, and of those before only what a decoder  *)
(* needs; a track begins at a sync sample.                                 *)
(***************************************************************************)
CutPoint ==
    LET primary == PrimaryIndex(SourceTracks(1))
        t == SourceTracks(1)[primary]
        times == {DecodeTime(t.samples, i) : i \in Syncs(t)}
        early == {c \in times : c * Second <= job.start * t.scale}
    IN  [ticks |-> IF early = {} THEN Min(times) ELSE Max(early), scale |-> t.scale]

CutHolds(k) ==
    LET t == SourceTracks(1)[k]
        cut == CutPoint
        taken == {sample.n : sample \in Range(Taken(k))}
        starts(n) == DecodeTime(t.samples, n)
        over(n) == job.end > 0 /\ starts(n) * Second >= job.end * t.scale
        cutBy(ticks) == ticks * cut.scale <= cut.ticks * t.scale
    IN  /\ taken = {} \/ taken = Min(taken)..Max(taken)
        /\ \A n \in taken : ~over(n)
        /\ \A n \in DOMAIN t.samples \ taken :
             \/ over(n)
             \/ IF IsTimedText(t) THEN cutBy(starts(n + 1)) ELSE cutBy(starts(n))
             \/ \A m \in 1..n : ~t.samples[m].sync
        /\ taken # {} /\ ~IsTimedText(t) =>
             /\ t.samples[Min(taken)].sync
             /\ \A n \in taken \ {Min(taken)} : t.samples[n].sync => ~cutBy(starts(n))

CopyHoldsItsRange ==
    IF job.op = "cut"
      THEN pc = "done" =>
             /\ \A k \in DOMAIN inputs[1] : CutHolds(k)
             /\ job.strict => CutPoint.ticks * Second = job.start * CutPoint.scale
      ELSE Copied =>
             \A k \in DOMAIN inputs[1] :
                 LET all == ConcatTo([i \in DOMAIN inputs |-> Source(i, k)], Len(inputs))
                 IN  IsPrefix(Taken(k), all) /\ (pc = "done" => Taken(k) = all)

(* A player reads the samples of an input in the order of their times,     *)
(* whatever the timescales of their tracks, and those of the same time in  *)
(* the order of the tracks.                                                *)
MergedInOrder ==
    \A i \in DOMAIN out : \A j \in 1..(i - 1) :
        LET scale(m) == inputs[out[m].input][out[m].track].scale
        IN  out[i].input = out[j].input =>
              ~Before(TimeIn(i), scale(i), TimeIn(j), scale(j))
                /\ (TimeIn(i) * scale(j) = TimeIn(j) * scale(i) => out[j].track <= out[i].track)

(***************************************************************************)
(* Timed text is shown where the film is.  Of a cut it is as late as it    *)
(* was, less what was cut off, to a tick; in a concatenation the text of   *)
(* an input lasts as long as its longest track, to a tick, so that the     *)
(* text of the next one begins where that does.  Text that states times of *)
(* its own is not moved at all.                                            *)
(***************************************************************************)
Moved(i) ==
    LET w == out[i]
        src == DecodeTime(Source(w.input, w.track), w.sample.n)
        t == inputs[w.input][w.track]
        cut == CutPoint
        late == src * cut.scale - cut.ticks * t.scale
    IN  /\ job.op = "cut" => TimeIn(i) * cut.scale - Max({0, late}) \in 0..(cut.scale - 1)
        /\ w.sample.timed \/ t.codec = "stpp" => TimeIn(i) = src /\ w.input = 1

LastsAsItsInput(k, i) ==
    LET t == inputs[i][k]
        lasts == MapThenSumSet(LAMBDA j : out[j].sample.dur,
                               {j \in DOMAIN out : out[j].track = k /\ out[j].input = i})
        tracks == SourceTracks(i)
    IN  /\ \A m \in DOMAIN tracks : TrackLength(tracks[m]) * t.scale < (lasts + 1) * tracks[m].scale
        /\ \E m \in DOMAIN tracks : TrackLength(tracks[m]) * t.scale >= lasts * tracks[m].scale

TextKeepsPlace ==
    /\ \A i \in DOMAIN out :
         IsTimedText(inputs[out[i].input][out[i].track]) /\ out[i].sample.n # 0 /\ job.op # "join"
           => Moved(i)
    /\ Copied => \A i \in 1..(input - 1) : \A k \in DOMAIN inputs[i] :
         inputs[i][k].codec \in {"wvtt", "tx3g"} => LastsAsItsInput(k, i)

(***************************************************************************)
(* An edit list is carried as it stands by a copy that moves nothing.  One *)
(* that moves samples goes on without a list only when the list shows the  *)
(* media from one point on as it comes, and up to the end when the end is  *)
(* kept, to a tick of either timescale; and no list that does stops a      *)
(* copy.  (Of timed text that was shortened Cut does not see whether its   *)
(* end is kept.)                                                           *)
(***************************************************************************)
ShownAtOnce(el) ==
    LET shown == SelectSeq(el.edits, LAMBDA e : e.media # EmptyEdit)
    IN  /\ Len(shown) = 1 /\ shown[1].normal /\ shown[1].media >= 0
        /\ \A i \in DOMAIN el.edits : el.edits[i] # shown[1] => el.edits[i].length = 0

HidesMore(el, t, ticks) ==
    LET e == Last(el.edits)
    IN  e.length > 0 /\ (PresentedUntil(t.samples) - e.media - ticks) * el.movie > (e.length + 1) * t.scale

Moves == job.op = "cut" \/ Len(inputs) > 1

KeepsEnd(i, k) ==
    IF job.op = "cut"
      THEN /\ ~IsTimedText(inputs[i][k]) /\ inputs[i][k].samples # <<>>
           /\ Last(inputs[i][k].samples) = Last(Source(i, k))
      ELSE TRUE

PresentationKept ==
    /\ Copied =>
         \A i \in DOMAIN inputs : \A k \in DOMAIN inputs[i] :
             LET t == SourceTracks(i)[k]
             IN  IF ~Moves THEN inputs[i][k].edits = t.edits
                 ELSE \A el \in t.edits :
                        ShownAtOnce(el) /\ ~(KeepsEnd(i, k) /\ HidesMore(el, t, 2))
    /\ error = "edits" =>
         \E i \in DOMAIN job.sources : \E k \in DOMAIN SourceTracks(i) :
             \E el \in SourceTracks(i)[k].edits :
                 ~ShownAtOnce(el) \/ HidesMore(el, SourceTracks(i)[k], 0)
=============================================================================
