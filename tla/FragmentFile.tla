---------------------------- MODULE FragmentFile ----------------------------
(***************************************************************************)
(* What a fragmented file is for: a player reads the fragments one after   *)
(* another, or any one of them from the byte range the index states for    *)
(* it.  The module states the properties of FragmentMuxer and shows that   *)
(* it implements MovieFile.                                                *)
(***************************************************************************)
EXTENDS FragmentMuxer

(***************************************************************************)
(* Reading a file.                                                         *)
(***************************************************************************)
Of(boxes, kind) ==
    ConcatTo([j \in DOMAIN boxes |-> IF boxes[j].box = kind THEN <<boxes[j]>> ELSE <<>>],
             Len(boxes))

(* The fragments of the file, and until it is finished those held for it.  *)
Written == IF complete THEN file ELSE file \o index.held
Fragments == Of(Written, "fragment")

(* The runs of the track id in a fragment, and in a sequence of fragments. *)
RunsIn(id, fragment) ==
    ConcatTo([i \in DOMAIN fragment.runs |->
                IF fragment.runs[i].id = id THEN <<fragment.runs[i]>> ELSE <<>>],
             Len(fragment.runs))
RunsOf(id, fragments) ==
    ConcatTo([k \in DOMAIN fragments |-> RunsIn(id, fragments[k])], Len(fragments))

(* The samples of the track id in a fragment, and in a sequence of boxes.  *)
SamplesIn(id, fragment) ==
    ConcatTo([i \in DOMAIN fragment.runs |->
                IF fragment.runs[i].id = id THEN fragment.runs[i].samples ELSE <<>>],
             Len(fragment.runs))
SamplesOf(id, boxes) ==
    ConcatTo([j \in DOMAIN boxes |->
                IF boxes[j].box = "fragment" THEN SamplesIn(id, boxes[j]) ELSE <<>>],
             Len(boxes))

Bare(p) == [i \in DOMAIN p |-> [len |-> p[i].len, dur |-> p[i].dur,
                                offset |-> p[i].offset, sync |-> p[i].sync]]

Content ==
    [t \in DOMAIN tracks |->
        SamplesOf(tracks[t].id, Written)
          \o IF complete THEN <<>> ELSE Bare(tracks[t].pending)]

Handed ==
    IF call.op # "write" THEN {} ELSE {[track |-> call.track, sample |-> call.sample]}

Promised == INSTANCE MovieFile WITH
    TracksMayBeEmpty <- TRUE,
    content <- Content, handed <- Handed, finished <- complete

(* Every sample taken is in exactly one fragment of its track, in order,   *)
(* as it was handed over, wherever fragments are cut, whether they are     *)
(* written as they are made or held for the index, and whichever calls the *)
(* refused initialisation segments and seeks fail.                         *)
ImplementsMovieFile == Promised!Spec

(* Until a fragment is refused, by the writer or by the index, a call that *)
(* failed for the initialisation segment or the place of the index has     *)
(* lost no sample, and has taken none twice: the next call writes them.    *)
RetriesLoseNothing ==
    [][ faults'.media = 0 /\ sequence' = Len(Fragments') =>
          \/ Promised!Next
          \/ UNCHANGED <<Content, Handed, complete>> ]_vars

(***************************************************************************)
(* Safety.                                                                 *)
(***************************************************************************)
RunDuration(r) == SumTo([i \in DOMAIN r.samples |-> r.samples[i].dur], Len(r.samples))

(* A fragment starts where the one before it left its track: decode times  *)
(* run on through tracks absent from some fragments, through samples       *)
(* refused with the flush they triggered and through calls to Flush, until *)
(* a fragment is lost, to the writer or to the limits of the index.        *)
DecodeTimesRunOn ==
    sequence = Len(Fragments) =>
      \A t \in DOMAIN tracks :
        LET runs == RunsOf(tracks[t].id, Fragments)
        IN  \A i \in DOMAIN runs :
              runs[i].base = IF i = 1 THEN 0 ELSE runs[i - 1].base + RunDuration(runs[i - 1])

(* Whatever was refused or lost on the way, a fragment comes after the     *)
(* media of the ones before it in its tracks and carries a later number: a *)
(* muxer used again after an error leaves holes, it never goes back.       *)
FragmentsNeverGoBack ==
    /\ \A j, k \in DOMAIN Fragments : j < k => Fragments[j].seq < Fragments[k].seq
    /\ \A t \in DOMAIN tracks :
        LET runs == RunsOf(tracks[t].id, Fragments)
        IN  \A i \in DOMAIN runs : i > 1 =>
              runs[i].base >= runs[i - 1].base + RunDuration(runs[i - 1])

(* An initialisation segment shows a track from its first sample: the edit *)
(* of a track that begins in the first fragment starts at the composition  *)
(* time of its first sample, then past its priming.  "A track is presented *)
(* from its FIRST sample's composition time ... the MP4 ones with an edit  *)
(* list"; the header is held back for it.                                  *)
HeaderStatesFirstSample ==
    Fragments # <<>> =>
        \A h \in DOMAIN Of(file, "init") : h = Len(Of(file, "init")) =>
            \A i \in DOMAIN Fragments[1].runs :
                LET run == Fragments[1].runs[i]
                    t == CHOOSE u \in DOMAIN tracks : tracks[u].id = run.id
                    start == Greater(run.samples[1].offset, 0) + tracks[t].priming
                IN  run.base = 0 =>
                      Of(file, "init")[h].traks[run.id].edts = {s \in {start} : s > 0}

(* "the media held may not exceed IndexMemoryLimit"                        *)
HeldWithinLimit == SizeOf(index.held) <= IndexMemoryLimit

(* Where box j of the file starts.                                         *)
StartOf(j) == SizeOf(SubSeq(file, 1, j - 1))

(* An index references every fragment of the file by its byte range: going *)
(* first_offset past the end of any index box and the sizes of the         *)
(* references before it, a client finds each fragment, whole and nothing   *)
(* more, whichever boxes the encoder tightened on the way out; unless the  *)
(* muxer could not tell where it was, or a fragment went out in part.      *)
ReferencesFindFragments ==
    faults.media = 0 /\ faults.seek = 0 => \A j \in DOMAIN file : file[j].box = "sidx" =>
        LET at == ConcatTo([i \in DOMAIN file |->
                              IF file[i].box = "fragment" THEN <<i>> ELSE <<>>],
                           Len(file))
            refs == file[j].refs
            from == StartOf(j) + file[j].size + file[j].firstOffset
        IN  /\ Len(refs) = Len(at)
            /\ \A k \in DOMAIN refs :
                 /\ StartOf(at[k]) = from + SumTo([i \in DOMAIN refs |-> refs[i].size], k - 1)
                 /\ file[at[k]].size = refs[k].size

(* When a run presents first, and when it has been presented.              *)
RunStarts(r) ==
    {Greater(r.base + SumTo([n \in DOMAIN r.samples |-> r.samples[n].dur], i - 1)
               + r.samples[i].offset, 0) : i \in DOMAIN r.samples}
RunEnds(r) ==
    {Greater(r.base + SumTo([n \in DOMAIN r.samples |-> r.samples[n].dur], i - 1)
               + r.samples[i].offset, 0) + r.samples[i].dur : i \in DOMAIN r.samples}
FirstOf(S) == CHOOSE e \in S : \A f \in S : e <= f
LastOf(S) == CHOOSE e \in S : \A f \in S : f <= e

(* What an index says of time and of sync samples is so.  A client adding  *)
(* up durations agrees with it: of a track whose fragments present in      *)
(* order, each fragment starts where the index has got to, and the index   *)
(* gets to the end of the track; a track missing from a fragment takes no  *)
(* time in it.                                                             *)
TellsTime(sidx, fragments) ==
    LET RunIn(k) == RunsIn(sidx.id, fragments[k])
        holding == {k \in DOMAIN fragments : RunIn(k) # <<>>}
        start == [k \in holding |-> FirstOf(RunStarts(RunIn(k)[1]))]
        ends == UNION {RunEnds(RunIn(k)[1]) : k \in holding}
        Reached(k) == sidx.ept + SumTo([i \in DOMAIN sidx.refs |-> sidx.refs[i].dur], k - 1)
    IN  (\A k, l \in holding : k < l => start[k] <= start[l]) =>
          /\ \A k \in holding : Reached(k) = start[k]
          /\ Reached(Len(sidx.refs) + 1) = LastOf(ends)

(* And where it is told it can start decoding, the first sample of the     *)
(* track in the fragment is a sync sample; of type 1, where nothing        *)
(* presents before it.                                                     *)
TellsSync(sidx, fragments) ==
    \A k \in DOMAIN sidx.refs :
        LET own == RunsIn(sidx.id, fragments[k])
            ref == sidx.refs[k]
        IN  /\ ref.sap = (own # <<>> /\ own[1].samples[1].sync)
            /\ ref.sapType = 1 =>
                 /\ ref.sap
                 /\ \A s \in RunStarts(own[1]) :
                      Greater(own[1].base + own[1].samples[1].offset, 0) <= s

IndexDescribesFragments ==
    \A j \in DOMAIN file : file[j].box = "sidx" =>
        TellsTime(file[j], Of(file, "fragment")) /\ TellsSync(file[j], Of(file, "fragment"))
=============================================================================
