---------------------------- MODULE FragmentMuxer ----------------------------
(***************************************************************************)
(* The muxer of a fragmented MP4 (mux.go), and the segment index it keeps  *)
(* when it is asked for one (sidx.go): an initialisation segment naming    *)
(* the tracks, then one fragment after another, then at Close the index in *)
(* front of the fragments.                                                 *)
(*                                                                         *)
(* As in ProgressiveMuxer a call is the sequence of its steps between two  *)
(* writes, any of which the writer may refuse; pc names the step a call in *)
(* progress is at.  The file is a sequence of boxes, each with its size; a *)
(* box a refused write left unfinished is a torn one.  A sample's bytes    *)
(* are told apart by how many they are.                                    *)
(***************************************************************************)
EXTENDS AudioClock, Sums

CONSTANTS
    Configs,          \* the configurations the caller declares tracks with, in order
    Samples,          \* [len, dur, offset, sync] records WriteSample may be given
    Setups,           \* the [indexed, readable] NewMuxer may be given: settings.index,
                      \* and whether the writer can be read back and seeked
    FragmentDuration, \* settings.fragmentDuration
    IndexMemoryLimit, \* settings.indexMemoryLimit
    InitLen, FragmentLen, SidxLen, SidxRefLen, \* the sizes of boxes, but for their media
    Tightening,       \* by how much an encoder may shorten a fragment
    MaxReferences,    \* maxIndexReferences
    MaxReferencedSize, \* maxReferencedSize
    MaxTime,          \* bound: how long a track gets
    Undescribable,    \* bound: configurations the caller tries that describe() refuses
    ExplicitFlush,    \* whether the caller calls Flush
    HeaderFaults,     \* bound: refused writes of the initialisation segment
    SeekFaults,       \* bound: refused seeks behind it
    MediaFaults       \* bound: refused writes of fragments and of the index

ASSUME FragmentAssumption ==
    /\ Configs \in Seq([timescale : Nat \ {0}, rate : Nat, delay : Nat])
    /\ Samples \subseteq [len : Nat \ {0}, dur : Nat \ {0}, offset : Int, sync : BOOLEAN]
    /\ Setups \subseteq [indexed : BOOLEAN, readable : BOOLEAN]
    /\ ExplicitFlush \in BOOLEAN
    /\ {InitLen, FragmentLen, SidxLen, SidxRefLen} \subseteq Nat \ {0}
    /\ {FragmentDuration, IndexMemoryLimit, MaxReferences, MaxReferencedSize, MaxTime,
        Undescribable, HeaderFaults, SeekFaults, MediaFaults} \subseteq Nat
    /\ Tightening \subseteq 0..FragmentLen

VARIABLES
    setup,     \* whether m.index and m.index.file are nil, fixed by NewMuxer
    traks,     \* the track boxes of m.init, by track identifier
    tracks,    \* m.tracks
    started,   \* m.started
    headerOut, \* m.headerOut
    closed,    \* m.closed
    complete,  \* whether Close returned nil
    sequence,  \* m.sequence
    index,     \* m.index: [start, held, fragments]
    file,      \* what the writer holds
    pc,        \* the step the call in progress is at
    call,      \* [op, track, sample]: the call in progress
    faults     \* [header, seek, media]: operations the writer has refused

vars == <<setup, traks, tracks, started, headerOut, closed, complete, sequence,
          index, file, pc, call, faults>>

Indexed == setup.indexed
Readable == setup.readable

NoCall == [op |-> "none", track |-> 0,
           sample |-> [len |-> 0, dur |-> 0, offset |-> 0, sync |-> FALSE]]

Torn == [box |-> "torn", size |-> 1]
SizeOf(boxes) == SumTo([i \in DOMAIN boxes |-> boxes[i].size], Len(boxes))

(***************************************************************************)
(* AddTrack.  The track box is added to the initialisation segment before  *)
(* describe() is asked whether its sample entry can be written.            *)
(***************************************************************************)
MayAddTrack == pc = "idle" /\ ~closed /\ ~started

AddTrack ==
    /\ MayAddTrack /\ Len(tracks) < Len(Configs)
    /\ LET cfg == Configs[Len(tracks) + 1]
           to == AudioTimescale(cfg)
       IN  tracks' = Append(tracks,
             [id |-> Len(traks) + 1, timescale |-> to, clock |-> WithAudioClock(cfg),
              priming |-> PrimingTicks(cfg.delay, to),
              nextTime |-> 0, pending |-> <<>>, buffered |-> 0,
              firstOffset |-> 0, written |-> FALSE])
    /\ traks' = Append(traks, [described |-> TRUE, edts |-> {}])
    /\ UNCHANGED <<started, headerOut, closed, complete, sequence, index, file, pc, call, faults>>

AddTrackRefused ==
    /\ MayAddTrack /\ Len(traks) < Len(tracks) + Undescribable
    /\ traks' = Append(traks, [described |-> FALSE, edts |-> {}])
    /\ UNCHANGED <<tracks, started, headerOut, closed, complete, sequence, index, file,
                   pc, call, faults>>

(***************************************************************************)
(* WriteSample.                                                            *)
(***************************************************************************)
Limit(t) == (FragmentDuration * tracks[t].timescale) \div Second

(* A fragment is cut before a sync sample of the first track.              *)
ShouldFlush(t, s) ==
    /\ t = 1 /\ s.sync /\ tracks[t].pending # <<>>
    /\ Limit(t) > 0 /\ tracks[t].buffered >= Limit(t)

Buffering == \E t \in DOMAIN tracks : tracks[t].pending # <<>>

(* Where Flush starts: the initialisation segment goes out first, once.    *)
FlushStart == IF headerOut THEN "fragment" ELSE "header"

WriteSample(t, s) ==
    /\ pc = "idle" /\ ~closed /\ t \in DOMAIN tracks
    /\ tracks[t].nextTime < MaxTime /\ tracks[t].clock.in < MaxTime
    /\ ClockAccepts(tracks[t].clock, s)
    /\ LET c == ClockSample(tracks[t].clock, s)
       IN  /\ tracks' = [tracks EXCEPT
                ![t].clock = c.clock,
                ![t].firstOffset = IF tracks[t].written THEN @ ELSE c.sample.offset,
                ![t].written = TRUE]
           /\ call' = [op |-> "write", track |-> t, sample |-> c.sample]
           /\ pc' = IF ShouldFlush(t, c.sample) THEN FlushStart ELSE "take"
    /\ started' = TRUE
    /\ UNCHANGED <<traks, headerOut, closed, complete, sequence, index, file, faults>>

TakeSample ==
    /\ pc = "take"
    /\ LET s == call.sample
           sample == [len |-> s.len, dur |-> s.dur, offset |-> s.offset, sync |-> s.sync,
                      time |-> tracks[call.track].nextTime]
       IN  tracks' = [tracks EXCEPT ![call.track].pending = Append(@, sample),
                                    ![call.track].nextTime = @ + s.dur,
                                    ![call.track].buffered = @ + s.dur]
    /\ pc' = "idle" /\ call' = NoCall
    /\ UNCHANGED <<traks, started, headerOut, closed, complete, sequence, index, file, faults>>

Flush ==
    /\ ExplicitFlush /\ pc = "idle" /\ ~closed /\ Buffering
    /\ call' = [NoCall EXCEPT !.op = "flush"] /\ pc' = FlushStart
    /\ UNCHANGED <<traks, tracks, started, headerOut, closed, complete, sequence, index,
                   file, faults>>

(* A call that meets an error returns it; Close leaves the muxer closed.   *)
Fails ==
    /\ pc' = "idle" /\ call' = NoCall
    /\ closed' = (call.op = "close")
    /\ complete' = FALSE

(***************************************************************************)
(* writeHeader.  The edit of a track is made on the first attempt, and a   *)
(* track box that has one is left alone.                                   *)
(***************************************************************************)
(* Mutant: an offset before zero eats into the priming.                    *)
PresentationStartBelow(t) == tracks[t].firstOffset + tracks[t].priming
PresentationStart(t) == Greater(tracks[t].firstOffset, 0) + tracks[t].priming

WithEdits ==
    [id \in DOMAIN traks |->
        LET starts == {PresentationStart(t) : t \in {u \in DOMAIN tracks : tracks[u].id = id}}
        IN  IF traks[id].edts # {} THEN traks[id]
            ELSE [traks[id] EXCEPT !.edts = {s \in starts : s > 0}]]

InitSegment(boxes) == [box |-> "init", size |-> InitLen, traks |-> boxes]

AfterHeader == IF Buffering THEN "fragment" ELSE "closing"

WriteHeader ==
    /\ pc = "header"
    /\ traks' = WithEdits
    /\ file' = Append(file, InitSegment(WithEdits))
    /\ headerOut' = TRUE
    /\ index' = IF Indexed /\ Readable THEN [index EXCEPT !.start = SizeOf(file')] ELSE index
    /\ pc' = AfterHeader
    /\ UNCHANGED <<tracks, started, closed, complete, sequence, call, faults>>

HeaderFails ==
    /\ pc = "header" /\ faults.header < HeaderFaults
    /\ traks' = WithEdits
    /\ file' \in {file, Append(file, Torn)}
    /\ faults' = [faults EXCEPT !.header = @ + 1]
    /\ Fails
    /\ UNCHANGED <<tracks, started, headerOut, sequence, index>>

(* The initialisation segment is out, and index.begin cannot tell where.   *)
BeginFails ==
    /\ pc = "header" /\ Indexed /\ Readable /\ faults.seek < SeekFaults
    /\ traks' = WithEdits
    /\ file' = Append(file, InitSegment(WithEdits))
    /\ headerOut' = TRUE
    /\ faults' = [faults EXCEPT !.seek = @ + 1]
    /\ Fails
    /\ UNCHANGED <<tracks, started, sequence, index>>

(***************************************************************************)
(* The fragment: the samples of every track that holds any.  The tracks    *)
(* give up their samples before the fragment is written.                   *)
(***************************************************************************)
(* Mutant: every fragment before this one lasted FragmentDuration.         *)
RunAtLimit(t) == [id |-> tracks[t].id, base |-> sequence * Limit(t),
                  samples |-> [i \in DOMAIN tracks[t].pending |->
                                 [len |-> tracks[t].pending[i].len,
                                  dur |-> tracks[t].pending[i].dur,
                                  offset |-> tracks[t].pending[i].offset,
                                  sync |-> tracks[t].pending[i].sync]]]

Run(t) == [id |-> tracks[t].id, base |-> tracks[t].pending[1].time,
           samples |-> [i \in DOMAIN tracks[t].pending |->
                          [len |-> tracks[t].pending[i].len, dur |-> tracks[t].pending[i].dur,
                           offset |-> tracks[t].pending[i].offset,
                           sync |-> tracks[t].pending[i].sync]]]

Runs ==
    ConcatTo([t \in DOMAIN tracks |-> IF tracks[t].pending = <<>> THEN <<>> ELSE <<Run(t)>>],
             Len(tracks))

FragmentSize ==
    FragmentLen +
    SumTo([t \in DOMAIN tracks |->
             LET p == tracks[t].pending IN SumTo([i \in DOMAIN p |-> p[i].len], Len(p))],
          Len(tracks))

Fragment(size) == [box |-> "fragment", size |-> size, seq |-> sequence + 1, runs |-> Runs]

(* Mutant: the samples are kept.                                           *)
NotEmptied == tracks
Emptied == [t \in DOMAIN tracks |-> [tracks[t] EXCEPT !.pending = <<>>, !.buffered = 0]]

NoSpan == [present |-> FALSE, earliest |-> 0, end |-> 0, sap |-> FALSE, sapType |-> 0]

SapType(sync, first, earliest) == IF sync /\ first = earliest THEN 1 ELSE 0

(* What one track contributes to the fragment about to be written.         *)
Span(t) ==
    LET p == tracks[t].pending
        start(i) == Greater(p[i].time + p[i].offset, 0)
        earliest == CHOOSE e \in {start(i) : i \in DOMAIN p} : \A i \in DOMAIN p : e <= start(i)
    IN  IF p = <<>> THEN NoSpan
        ELSE [present |-> TRUE, earliest |-> earliest,
              end |-> CHOOSE e \in {start(i) + p[i].dur : i \in DOMAIN p} :
                        \A i \in DOMAIN p : start(i) + p[i].dur <= e,
              sap |-> p[1].sync,
              sapType |-> SapType(p[1].sync, start(1), earliest)]

Spans == [t \in DOMAIN tracks |-> Span(t)]

(* What the index notes of a fragment: the size it was written with.       *)
(* Mutant: the size it was stated to have beforehand.                      *)
NotedAsStated(frag) == [size |-> FragmentSize, spans |-> Spans]
Noted(frag) == [size |-> frag.size, spans |-> Spans]

(* Mutant: the fragment in hand does not count towards the limit.          *)
IndexTakesUntilFull ==
    \/ ~Indexed
    \/ /\ Len(index.fragments) # MaxReferences
       /\ FragmentSize <= MaxReferencedSize
       /\ Readable \/ SizeOf(index.held) <= IndexMemoryLimit

(* index.write refuses a fragment it could not reference or hold, judged   *)
(* by the size stated beforehand.                                          *)
IndexTakes ==
    \/ ~Indexed
    \/ /\ Len(index.fragments) # MaxReferences
       /\ FragmentSize <= MaxReferencedSize
       /\ Readable \/ SizeOf(index.held) + FragmentSize <= IndexMemoryLimit

AfterFragment ==
    CASE call.op = "write" -> pc' = "take" /\ call' = call
      [] call.op = "flush" -> pc' = "idle" /\ call' = NoCall
      [] call.op = "close" -> pc' = "closing" /\ call' = call

WriteFragment ==
    /\ pc = "fragment" /\ IndexTakes
    /\ sequence' = sequence + 1
    /\ tracks' = Emptied
    /\ \E k \in Tightening :
         LET frag == Fragment(FragmentSize - k)
             noted == Append(index.fragments, Noted(frag))
         IN  IF Indexed /\ ~Readable
             THEN /\ index' = [index EXCEPT !.held = Append(@, frag), !.fragments = noted]
                  /\ file' = file
             ELSE /\ file' = Append(file, frag)
                  /\ index' = IF Indexed THEN [index EXCEPT !.fragments = noted] ELSE index
    /\ AfterFragment
    /\ UNCHANGED <<traks, started, headerOut, closed, complete, faults>>

FragmentRefused ==
    /\ pc = "fragment" /\ ~IndexTakes
    /\ sequence' = sequence + 1
    /\ tracks' = Emptied
    /\ Fails
    /\ UNCHANGED <<traks, started, headerOut, index, file, faults>>

FragmentFails ==
    /\ pc = "fragment" /\ IndexTakes /\ (Readable \/ ~Indexed)
    /\ faults.media < MediaFaults
    /\ sequence' = sequence + 1
    /\ tracks' = Emptied
    /\ file' \in {file, Append(file, Torn)}
    /\ faults' = [faults EXCEPT !.media = @ + 1]
    /\ Fails
    /\ UNCHANGED <<traks, started, headerOut, index>>

(***************************************************************************)
(* Close.                                                                  *)
(***************************************************************************)
Close ==
    /\ pc = "idle" /\ ~closed
    /\ IF tracks = <<>>
       THEN closed' = TRUE /\ UNCHANGED <<pc, call>>
       ELSE /\ closed' = FALSE
            /\ call' = [NoCall EXCEPT !.op = "close"]
            /\ pc' = IF headerOut THEN AfterHeader ELSE "header"
    /\ UNCHANGED <<traks, tracks, started, headerOut, complete, sequence, index, file, faults>>

RefuseClosed == pc = "idle" /\ closed /\ UNCHANGED vars

(* Nothing is left to write.                                               *)
Closing ==
    /\ pc = "closing"
    /\ closed' = TRUE
    /\ IF Indexed /\ index.fragments # <<>>
       THEN pc' = "index" /\ UNCHANGED <<complete, call>>
       ELSE pc' = "idle" /\ complete' = TRUE /\ call' = NoCall
    /\ UNCHANGED <<traks, tracks, started, headerOut, sequence, index, file, faults>>

(***************************************************************************)
(* The index.  A reference lasts until what presents first among the       *)
(* fragments after it, the last one until the track ends.                  *)
(***************************************************************************)
Presents(t) == {k \in DOMAIN index.fragments : index.fragments[k].spans[t].present}
Earliest(t, k) == index.fragments[k].spans[t].earliest

(* Mutant: a track ends where its last sample stops decoding.              *)
TrackEndDecoded(t) == tracks[t].nextTime

TrackEnd(t) ==
    LET ends == {index.fragments[k].spans[t].end : k \in Presents(t)}
    IN  CHOOSE e \in ends : \A f \in ends : f <= e

NextStart(t, k) ==
    LET after == {Earliest(t, j) : j \in {i \in Presents(t) : i > k}} \cup {TrackEnd(t)}
    IN  CHOOSE e \in after : \A f \in after : e <= f

ReferenceDuration(t, k) ==
    IF k \in Presents(t) /\ Earliest(t, k) < NextStart(t, k)
    THEN NextStart(t, k) - Earliest(t, k)
    ELSE 0

Reference(t, k) ==
    [size |-> index.fragments[k].size, dur |-> ReferenceDuration(t, k),
     sap |-> index.fragments[k].spans[t].sap, sapType |-> index.fragments[k].spans[t].sapType]

SidxSize == SidxLen + SidxRefLen * Len(index.fragments)

(* One box for each track that has samples, first_offset counting over the *)
(* boxes behind it.                                                        *)
Boxes ==
    LET with == ConcatTo([t \in DOMAIN tracks |-> IF Presents(t) = {} THEN <<>> ELSE <<t>>],
                         Len(tracks))
        Box(i) ==
            LET t == with[i]
                first == CHOOSE k \in Presents(t) : \A j \in Presents(t) : k <= j
            IN  [box |-> "sidx", size |-> SidxSize, id |-> tracks[t].id,
                 ept |-> Earliest(t, first), firstOffset |-> SidxSize * (Len(with) - i),
                 refs |-> [k \in DOMAIN index.fragments |-> Reference(t, k)]]
    IN  [i \in DOMAIN with |-> Box(i)]

IndexFits ==
    \A t \in DOMAIN tracks : \A k \in Presents(t) : ReferenceDuration(t, k) <= MaxUint32

(* How many of the boxes of the file lie before offset start.              *)
BoxesBefore(start) == CHOOSE n \in 0..Len(file) : SizeOf(SubSeq(file, 1, n)) = start

InsertAt == IF Readable THEN BoxesBefore(index.start) ELSE Len(file)

(* finish: the index goes in front of the fragments, which are moved       *)
(* forward for it (ShiftForward) or written out behind it.                 *)
FinishIndex ==
    /\ pc = "index" /\ IndexFits
    /\ file' = SubSeq(file, 1, InsertAt) \o Boxes
                 \o SubSeq(file, InsertAt + 1, Len(file)) \o index.held
    /\ index' = [index EXCEPT !.held = <<>>]
    /\ pc' = "idle" /\ call' = NoCall /\ complete' = TRUE
    /\ UNCHANGED <<traks, tracks, started, headerOut, closed, sequence, faults>>

(* It cannot be stated, or the writer fails: what follows start is then    *)
(* whatever the move or the write got to.                                  *)
FinishIndexFails ==
    /\ pc = "index"
    /\ \/ ~IndexFits /\ UNCHANGED <<file, faults>>
       \/ /\ IndexFits /\ faults.media < MediaFaults
          /\ file' \in {file, Append(SubSeq(file, 1, InsertAt), Torn)}
          /\ faults' = [faults EXCEPT !.media = @ + 1]
    /\ Fails
    /\ UNCHANGED <<traks, tracks, started, headerOut, sequence, index>>

Init ==
    /\ setup \in Setups
    /\ traks = <<>> /\ tracks = <<>>
    /\ started = FALSE /\ headerOut = FALSE /\ closed = FALSE /\ complete = FALSE
    /\ sequence = 0
    /\ index = [start |-> 0, held |-> <<>>, fragments |-> <<>>]
    /\ file = <<>>
    /\ pc = "idle" /\ call = NoCall
    /\ faults = [header |-> 0, seek |-> 0, media |-> 0]

Step ==
    \/ AddTrack
    \/ AddTrackRefused
    \/ \E t \in 1..Len(Configs), s \in Samples : WriteSample(t, s)
    \/ TakeSample
    \/ Flush
    \/ WriteHeader
    \/ HeaderFails
    \/ BeginFails
    \/ WriteFragment
    \/ FragmentRefused
    \/ FragmentFails
    \/ Close
    \/ RefuseClosed
    \/ Closing
    \/ FinishIndex
    \/ FinishIndexFails

Next == Step /\ UNCHANGED setup

Spec == Init /\ [][Next]_vars
=============================================================================
