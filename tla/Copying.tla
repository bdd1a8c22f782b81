------------------------------ MODULE Copying ------------------------------
(***************************************************************************)
(* Remux, Cut, Concat and Join (remux.go, join.go, audiowriter_remux.go):  *)
(* the tracks of the sources are read whole, cut or put one behind the     *)
(* other, declared to a muxer and merged by decode time.  The muxer is     *)
(* what takes a sample or refuses it, which ends the copy.                 *)
(*                                                                         *)
(* A job is [op, sources, start, end, strict, drop, allowTruncated,        *)
(* audio], start and end in nanoseconds; a source [tracks, truncated].     *)
(***************************************************************************)
EXTENDS CopyTracks

CONSTANT Jobs  \* the calls made

SourceType == [tracks : Seq(TrackType), truncated : BOOLEAN]
JobType ==
    [op : {"remux", "cut", "concat", "join"}, sources : Seq(SourceType),
     start : Int, end : Int, strict : BOOLEAN, drop : SUBSET Nat,
     allowTruncated : BOOLEAN, audio : BOOLEAN]

ASSUME CopyingAssumption ==
    \A j \in Jobs : j \in JobType /\ (j.op = "cut" => Len(j.sources) = 1)

VARIABLES
    job,    \* the call
    pc,     \* "read", "declare", "copy", "close", "done" or "failed"
    error,  \* why it failed
    inputs, \* per input, the tracks to copy
    input,  \* the input being written
    next,   \* per track of it, the sample to write next
    at,     \* and its decode time
    out     \* the samples the muxer took, as [track, input, sample]

vars == <<job, pc, error, inputs, input, next, at, out>>

(***************************************************************************)
(* Cut.                                                                    *)
(***************************************************************************)
PrimaryIndex(tracks) ==
    LET videos == {i \in DOMAIN tracks : tracks[i].kind = "video"}
    IN  IF videos = {} THEN 1 ELSE Min(videos)

Syncs(t) == {i \in DOMAIN t.samples : t.samples[i].sync}

(* The sample a track has to begin at for a cut at time/scale.             *)
SyncStart(t, time, scale) ==
    LET early == {i \in Syncs(t) : ~Before(time, scale, DecodeTime(t.samples, i), t.scale)}
    IN  IF early # {} THEN Max(early) ELSE Min(Syncs(t))

(* Mutant: the end is measured from the sample the cut begins at.          *)
CutRangeFromCut(t, from, end) ==
    LET behind == {i \in from..Len(t.samples) : end > 0
                     /\ ~Before(DecodeTime(t.samples, i) - DecodeTime(t.samples, from), t.scale, end, Second)}
    IN  SubSeq(t.samples, from, Min(behind \union {Len(t.samples) + 1}) - 1)

CutRange(t, from, end) ==
    LET behind == {i \in from..Len(t.samples) :
                     end > 0 /\ ~Before(DecodeTime(t.samples, i), t.scale, end, Second)}
    IN  SubSeq(t.samples, from, Min(behind \union {Len(t.samples) + 1}) - 1)

(* Whether a sample ends before it is shown: into is unsigned, and of a    *)
(* sample that starts behind the cut as good as endless.                   *)
Ended(sample, into) == into \notin 0..(sample.dur - 1)

(* Mutant: timed text starts at its sync sample, as sound does.            *)
CutCuesWhole(kept, into) ==
    IF kept # <<>> /\ Ended(kept[1], into) THEN Tail(kept) ELSE kept

(* Timed text starts where the cut does: a sample that is shown already is *)
(* shortened, one that has ended left out.                                 *)
CutCues(kept, into) ==
    IF kept = <<>> THEN kept
    ELSE IF Ended(kept[1], into) THEN Tail(kept)
    ELSE [kept EXCEPT ![1].dur = @ - into]

(* The part of a track that is kept, and whether it is still a slice of    *)
(* the samples it was cut from: the shortened one is a copy of its own.    *)
TrimTrack(t, cutAt, scale, end) ==
    LET from == SyncStart(t, cutAt, scale)
        range == CutRange(t, from, end)
        point == Scaled(cutAt, scale, t.scale)
        moves == IsTimedText(t) /\ point > 0
        into == point - DecodeTime(t.samples, from)
        kept == IF moves THEN CutCues(range, into) ELSE range
    IN  [refused |-> moves /\ RefusesShift(t, range),
         kept |-> kept,
         shared |-> ~moves \/ range = <<>> \/ Ended(range[1], into)]

KeepsTail(trimmed, full) ==
    trimmed.shared /\ trimmed.kept # <<>> /\ Last(trimmed.kept).n = Last(full).n

Trimmed(tracks, start, end, strict) ==
    LET primary == tracks[PrimaryIndex(tracks)]
        cutAt == DecodeTime(primary.samples, SyncStart(primary, start, Second))
        trimmed == [i \in DOMAIN tracks |-> TrimTrack(tracks[i], cutAt, primary.scale, end)]
        exact == cutAt * Second = start * primary.scale
    IN  IF (\E i \in DOMAIN tracks : Syncs(tracks[i]) = {}) \/ (strict /\ ~exact)
          THEN Error("sync")
        ELSE IF \E i \in DOMAIN tracks : trimmed[i].refused
          THEN Error("text")
        ELSE IF \E i \in DOMAIN tracks :
                  SaysMore(tracks[i], tracks[i].samples, KeepsTail(trimmed[i], tracks[i].samples))
          THEN Error("edits")
          ELSE Okay([i \in DOMAIN tracks |->
                       [tracks[i] EXCEPT !.samples = trimmed[i].kept, !.edits = {}]])

(* A cut does not ask whether its source is truncated.                     *)
Cut(j) ==
    IF j.start < 0 \/ (j.end > 0 /\ j.end <= j.start) THEN Error("range")
    ELSE LET trim(tracks) == Trimmed(tracks, j.start, j.end, j.strict)
             one(tracks) == Okay(<<tracks>>)
         IN  AndThen(AndThen(ReadSource(j.sources[1], j.drop), trim), one)

(***************************************************************************)
(* Concat, and Remux, which is the Concat of one source.                   *)
(***************************************************************************)
(* The vpcC record of a VP8 or VP9 track, the parameters of such a track   *)
(* here, is not compared; everything else a decoder is set up from is.     *)
Compared(t) == t.codec \notin {"vp08", "vp09"}

Mismatch(a, b) ==
    \/ a.codec # b.codec \/ a.scale # b.scale
    \/ Compared(a) /\ a.parameters # b.parameters

Joinable(all) ==
    \A i \in DOMAIN all :
        /\ Len(all[i]) = Len(all[1])
        /\ \A k \in DOMAIN all[i] : ~Mismatch(all[1][k], all[i][k])

Padded(all) == [i \in DOMAIN all |-> IF i < Len(all) THEN PadTimedText(all[i]) ELSE all[i]]

(* Mutant: text is padded before its edit list is looked at.               *)
PaddedListsSayMore(all) ==
    \E i \in DOMAIN all : \E k \in DOMAIN all[i] :
        SaysMore(all[i][k], Padded(all)[i][k].samples, TRUE)

ListsSayMore(all) ==
    \E i \in DOMAIN all : \E k \in DOMAIN all[i] : SaysMore(all[i][k], all[i][k].samples, TRUE)

(* Every input but the first is moved, and several have no use for a list. *)
OneBehindTheOther(all) ==
    IF ~Joinable(all) THEN Error("mismatch")
    ELSE IF \E i \in DOMAIN all \ {1} : \E k \in DOMAIN all[i] :
              IsTimedText(all[i][k]) /\ RefusesShift(all[i][k], all[i][k].samples)
      THEN Error("text")
    ELSE IF Len(all) > 1 /\ ListsSayMore(all) THEN Error("edits")
    ELSE Okay(Padded([i \in DOMAIN all |-> IF Len(all) > 1 THEN WithoutEdits(all[i]) ELSE all[i]]))

Concat(j) ==
    LET read == [i \in DOMAIN j.sources |-> ReadSource(j.sources[i], j.drop)]
        wrong == {i \in DOMAIN read : read[i].error # "none"}
    IN  IF j.sources = <<>> THEN Error("no tracks")
        ELSE IF TruncatedAmong(j) THEN Error("truncated")
        ELSE IF wrong # {} THEN read[Min(wrong)]
        ELSE OneBehindTheOther([i \in DOMAIN read |-> read[i].tracks])

(***************************************************************************)
(* Join: the tracks of all sources side by side, without those that cannot *)
(* be read.                                                                *)
(***************************************************************************)
WithSamples(tracks) ==
    ConcatTo([k \in DOMAIN tracks |-> IF Readable(tracks[k]) THEN <<tracks[k]>> ELSE <<>>],
             Len(tracks))

SideBySide(sources, drop) ==
    ConcatTo([i \in DOMAIN sources |-> WithSamples(Undropped(sources[i], drop))], Len(sources))

Join(j) ==
    LET read == SideBySide(j.sources, j.drop)
    IN  IF j.sources = <<>> THEN Error("no tracks")
        ELSE IF TruncatedAmong(j) THEN Error("truncated")
        ELSE IF \E i \in DOMAIN read : ~Describable(read[i]) THEN Error("unreadable")
        ELSE IF read = <<>> THEN Error("no tracks")
        ELSE Okay(<<Described(read)>>)

Prepared(j) ==
    IF j.op = "cut" THEN Cut(j) ELSE IF j.op = "join" THEN Join(j) ELSE Concat(j)

(***************************************************************************)
(* Writing.                                                                *)
(***************************************************************************)
(* The samples of a source know their place in it.                         *)
NumberedTrack(t) ==
    [t EXCEPT !.samples = [n \in DOMAIN t.samples |-> [t.samples[n] EXCEPT !.n = n]]]

Numbered(source) ==
    [source EXCEPT !.tracks = [k \in DOMAIN source.tracks |-> NumberedTrack(source.tracks[k])]]

Init ==
    /\ \E j \in Jobs :
         job = [j EXCEPT !.sources = [i \in DOMAIN j.sources |-> Numbered(j.sources[i])]]
    /\ pc = "read" /\ error = "none" /\ inputs = <<>>
    /\ input = 1 /\ next = <<>> /\ at = <<>> /\ out = <<>>

Fail(why) == pc' = "failed" /\ error' = why

Prepare ==
    /\ pc = "read"
    /\ \E read \in {Prepared(job)} :
        /\ inputs' = read.tracks
        /\ IF read.error = "none" THEN pc' = "declare" /\ UNCHANGED error
           ELSE Fail(read.error)
    /\ UNCHANGED <<job, input, next, at, out>>

FromStart ==
    /\ next' = [k \in DOMAIN inputs[1] |-> 1]
    /\ at' = [k \in DOMAIN inputs[1] |-> 0]

(* Every track is declared before the first sample; an audio output has    *)
(* room for one.                                                           *)
Declare ==
    /\ pc = "declare"
    /\ job.audio => Len(inputs[1]) = 1
    /\ pc' = "copy"
    /\ FromStart
    /\ UNCHANGED <<job, error, inputs, input, out>>

DeclareRefused ==
    /\ pc = "declare"
    /\ Fail("muxer")
    /\ UNCHANGED <<job, inputs, input, next, at, out>>

Left == {k \in DOMAIN inputs[input] : next[k] <= Len(inputs[input][k].samples)}

(* The track that is furthest behind, the first of those that are.  (Join  *)
(* divides, and takes times for the same that a float64 cannot tell.)      *)
Pick ==
    CHOOSE k \in Left : \A other \in Left \ {k} :
        LET scale(i) == inputs[input][i].scale
        IN  IF other < k THEN Before(at[k], scale(k), at[other], scale(other))
                         ELSE ~Before(at[other], scale(other), at[k], scale(k))

WriteSample ==
    /\ pc = "copy" /\ Left # {}
    /\ LET sample == inputs[input][Pick].samples[next[Pick]]
       IN  /\ out' = Append(out, [track |-> Pick, input |-> input, sample |-> sample])
           /\ at' = [at EXCEPT ![Pick] = @ + sample.dur]
           /\ next' = [next EXCEPT ![Pick] = @ + 1]
    /\ UNCHANGED <<job, pc, error, inputs, input>>

SampleRefused ==
    /\ pc = "copy" /\ Left # {}
    /\ Fail("muxer")
    /\ UNCHANGED <<job, inputs, input, next, at, out>>

(* The clocks start again with every input.                                *)
NextInput ==
    /\ pc = "copy" /\ Left = {} /\ input < Len(inputs)
    /\ input' = input + 1
    /\ FromStart
    /\ UNCHANGED <<job, pc, error, inputs, out>>

CloseMuxer ==
    /\ pc = "copy" /\ Left = {} /\ input = Len(inputs)
    /\ (pc' = "done" /\ UNCHANGED error) \/ Fail("muxer")
    /\ UNCHANGED <<job, inputs, input, next, at, out>>

Returned == pc \in {"done", "failed"} /\ UNCHANGED vars

Next ==
    \/ Prepare \/ Declare \/ DeclareRefused
    \/ WriteSample \/ SampleRefused \/ NextInput \/ CloseMuxer
    \/ Returned

Spec == Init /\ [][Next]_vars
=============================================================================
