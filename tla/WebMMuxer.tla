----------------------------- MODULE WebMMuxer -----------------------------
(***************************************************************************)
(* The muxer of a Matroska file (webmmux.go, webmseek.go): the header and  *)
(* the opening of the segment, one cluster after another, the Cues that    *)
(* index them, and, for a writer that can seek, what only the end knows    *)
(* written over what held its place.  A buffered segment is written whole  *)
(* at Close.                                                               *)
(*                                                                         *)
(* As in the other muxers a call is the sequence of its steps between two  *)
(* writes, any of which may be refused, and pc names the step a call in    *)
(* progress is at.  The file is a sequence of fields (WebMSeek); the bytes *)
(* of a frame are told apart by how many they are, a cue by its key.       *)
(***************************************************************************)
EXTENDS CueAssembler, EditLists, WebMSeek

CONSTANTS
    Setups,       \* [mode, configs, start]: what NewWebMMuxer and AddTrack are given.
                  \* mode is "buffered", "file" (a writer that can seek), "pipe" (one
                  \* that says it can) or "stream"; start is where the writer is
    Samples,      \* [len, dur, offset, sync] records of frames
    CueSamples,   \* [len, dur, offset, sync, cues] records of samples of text
    Second, Tick, \* a second and settings.tick, in the unit of durations
    ClusterDuration,  \* settings.clusterDuration, in that unit
    MaxBlockTimecode, \* maxBlockTimecode
    MaxTicks,     \* the largest time ticksFor can state
    HeaderLen, TimecodeLen, BlockLen, CuePointLen, \* the sizes of elements, but for data
    SeekFlaps,    \* whether a seek of a file may fail at one attempt and not at another
    MaxTime,      \* bound: how long a track gets
    HeaderFaults, \* bound: refused writes of the header
    MediaFaults   \* bound: refused writes after it

ConfigType == [timescale : Nat \ {0}, kind : {"video", "audio", "text"}, fixed : BOOLEAN,
               edit : SUBSET [scale : Nat \ {0}, lead : Nat, media : Nat, duration : Nat]]

ASSUME WebMAssumption ==
    /\ \A s \in Setups : /\ s.mode \in {"buffered", "file", "pipe", "stream"}
                         /\ \A t \in DOMAIN s.configs :
                              \A e \in s.configs[t].edit : e.scale > 0 /\ e.lead >= 0
                         /\ s.start \in Nat
    /\ \A s \in Samples \union CueSamples : s.len > 0 /\ s.dur > 0
    /\ {Second, Tick, ClusterDuration, MaxBlockTimecode, HeaderLen} \subseteq Nat \ {0}
    /\ Second % Tick = 0
    /\ {MaxTicks, TimecodeLen, BlockLen, CuePointLen, MaxTime, HeaderFaults, MediaFaults}
         \subseteq Nat
    /\ SeekFlaps \in BOOLEAN

VARIABLES
    setup,        \* the writer and the settings
    tracks,       \* m.tracks
    started,      \* m.started
    closed,       \* m.closed
    complete,     \* whether Close returned nil
    cluster,      \* m.clusterOpen and m.clusterStart: {} or {the start}
    clusters,     \* m.clusters, of a buffered segment
    cues,         \* m.cues: [time, at]
    segmentStart, \* m.segmentStart
    head,         \* [seeker, origin, seeks, reserve]: m.seeker # nil, m.origin, m.seeks,
                  \* m.seekReserve
    file,         \* what the writer holds
    pc,           \* the step the call in progress is at
    call,         \* [op, track, sample, at, shift]: the call in progress
    writing,      \* the blocks it has yet to write
    patches,      \* what Close has yet to write over the file: [at, fields]
    faults,       \* [header, media]: writes refused
    taken         \* history: per track the samples accepted, [at, sample]

muxer == <<tracks, started, closed, complete, cluster, clusters, cues, segmentStart, head>>
vars == <<setup, muxer, file, pc, call, writing, patches, faults, taken>>

Buffered == setup.mode = "buffered"

NoCall == [op |-> "none"]

(***************************************************************************)
(* Times.                                                                  *)
(***************************************************************************)
TicksPerSecond == Second \div Tick
ClusterTicks == Max({ClusterDuration \div Tick, 1})

Ticks(units, timescale) == (units * TicksPerSecond + timescale \div 2) \div timescale
TicksFit(units, timescale) ==
    units * TicksPerSecond + timescale \div 2 <= MaxTicks * timescale

(* int16(n)                                                                *)
Int16(n) ==
    ((n + MaxBlockTimecode + 1) % (2 * (MaxBlockTimecode + 1))) - (MaxBlockTimecode + 1)

(***************************************************************************)
(* AddTrack.                                                               *)
(***************************************************************************)
AddTrack ==
    /\ pc = "idle" /\ ~closed /\ ~started
    /\ Len(tracks) < Len(setup.configs)
    /\ LET cfg == setup.configs[Len(tracks) + 1]
       IN  tracks' = Append(tracks,
             [timescale |-> cfg.timescale, text |-> cfg.kind = "text", fixed |-> cfg.fixed,
              edit |-> WebMEdit(cfg), nextTime |-> 0, end |-> 0, endTick |-> 0,
              shift |-> {}, prevUnits |-> 0, held |-> {}, last |-> {}, open |-> <<>>])
    /\ taken' = Append(taken, <<>>)
    /\ UNCHANGED <<started, closed, complete, cluster, clusters, cues, segmentStart, head,
                   file, pc, call, writing, patches, faults>>

(***************************************************************************)
(* WriteSample: a sample whose time can be stated starts the segment.      *)
(***************************************************************************)
NewShift(t, s) ==
    IF tracks[t].shift # {} THEN tracks[t].shift
    ELSE {Shift(tracks[t].edit, PresentationStart(s.offset, 0))}

Presentation(t, s) == tracks[t].nextTime + s.offset - Max(NewShift(t, s))

WriteSample(t, s) ==
    /\ pc = "idle" /\ ~closed /\ t \in DOMAIN tracks
    /\ s \in IF tracks[t].text THEN CueSamples ELSE Samples
    /\ tracks[t].nextTime + s.dur <= MaxTime
    /\ Presentation(t, s) >= 0
    /\ TicksFit(Presentation(t, s), tracks[t].timescale)
    /\ call' = [op |-> "write", track |-> t, sample |-> s, at |-> Presentation(t, s),
                shift |-> NewShift(t, s)]
    /\ pc' = IF started THEN "ready" ELSE "begin"
    /\ UNCHANGED <<tracks, started, closed, complete, cluster, clusters, cues, segmentStart,
                   head, file, writing, patches, faults, taken>>

(* What follows begin: the sample, or the Cues of a segment of none.       *)
AfterBegin == IF call.op = "write" THEN "ready" ELSE "index"

Fails ==
    /\ pc' = "idle" /\ call' = NoCall /\ writing' = <<>> /\ patches' = <<>>
    /\ closed' = (call.op = "close")
    /\ complete' = FALSE

(***************************************************************************)
(* begin: the header, then the opening of the segment, whose content       *)
(* starts past an identifier and an unknown size.  locateOrigin asks a     *)
(* writer that says it can seek where it is.                               *)
(***************************************************************************)
Header == [el |-> "header", size |-> HeaderLen]
Torn == [el |-> "torn", size |-> 1]

Seeks == IF ~head.seeker THEN {FALSE}
         ELSE IF setup.mode = "pipe" THEN {FALSE}
         ELSE IF SeekFlaps THEN BOOLEAN ELSE {TRUE}

Written == Size(file) - setup.start

(* The head of a stream whose writer seeks or does not, and what it is     *)
(* sent.  The room of an earlier attempt is not given up.                  *)
Located(seeks) ==
    LET elements == SegmentHead(0, seeks)
        reserve == SeekReserve(Len(elements) + 1)
    IN  IF seeks
        THEN [seeker |-> TRUE, origin |-> setup.start, reserve |-> reserve,
              seeks |-> PlacedSeeks(elements, reserve)]
        ELSE [head EXCEPT !.seeker = FALSE]

OpenSegment(h) ==
    UnknownSize("segment")
      \o (IF h.seeker THEN SeekRegion(h.seeks, h.reserve) ELSE <<>>)
      \o SegmentHead(0, h.seeker)

ContentStart(h) ==
    Written + HeaderLen + Size(OpenSegment(h))
      - Size(SegmentHead(0, h.seeker)) - h.reserve

Begin ==
    /\ pc = "begin"
    /\ IF Buffered THEN UNCHANGED <<head, segmentStart, file>>
       ELSE \E seeks \in Seeks :
              /\ head' = Located(seeks)
              /\ segmentStart' = ContentStart(head')
              /\ file' = file \o <<Header>> \o OpenSegment(head')
    /\ started' = TRUE
    /\ pc' = AfterBegin
    /\ UNCHANGED <<tracks, closed, complete, cluster, clusters, cues, call, writing,
                   patches, faults, taken>>

BeginFails ==
    /\ pc = "begin" /\ ~Buffered /\ faults.header < HeaderFaults
    /\ faults' = [faults EXCEPT !.header = @ + 1]
    /\ \/ /\ file' \in {file, Append(file, Torn)}
          /\ UNCHANGED <<head, segmentStart>>
       \/ \E seeks \in Seeks :
            /\ head' = Located(seeks)
            /\ segmentStart' = ContentStart(head')
            /\ file' \in {Append(file, Header), file \o <<Header, Torn>>}
    /\ Fails
    /\ UNCHANGED <<tracks, started, cluster, clusters, cues, taken>>

(***************************************************************************)
(* The blocks a call has to write: [track, tick, sync, data, group, dur,   *)
(* discard], dur and discard being 0 where the block states none.          *)
(***************************************************************************)
(* webmDiscard, rounded to the nearest.  Mutant: the last frame decodes to *)
(* what it is stated to last.                                              *)
DiscardAsStated(k, h, last) ==
    (Trim(k.edit, h.start, h.units) * Second + k.timescale \div 2) \div k.timescale
Discard(k, h, last) ==
    LET decoded == IF last THEN h.decoded ELSE h.units
        padding == decoded - (h.units - Trim(k.edit, h.start, h.units))
    IN  (padding * Second + k.timescale \div 2) \div k.timescale

(* flushHeld: the frame held, which is or is not the last of its track.    *)
HeldBlock(t, last) ==
    {[track |-> t, tick |-> h.tick, sync |-> h.sync, data |-> h.len,
      group |-> last \/ Discard(tracks[t], h, last) # 0,
      dur |-> IF last THEN h.dur ELSE 0,
      discard |-> Discard(tracks[t], h, last)] : h \in tracks[t].held}

(* writeCueBlocks: a block group for each finished cue.                    *)
CueBlock(t, c) ==
    LET tick == Ticks(c.start, tracks[t].timescale)
        end == Ticks(c.end, tracks[t].timescale)
    IN  [track |-> t, tick |-> tick, sync |-> TRUE, data |-> c.key, group |-> TRUE,
         dur |-> Max({end - tick, 1}), discard |-> 0]
CueBlocks(t, done) == [i \in DOMAIN done |-> CueBlock(t, done[i])]

AfterBlocks(blocks) ==
    IF blocks # <<>> THEN "place" ELSE IF call.op = "write" THEN "take" ELSE "drain"

Endable == TicksFit(call.at + call.sample.dur, tracks[call.track].timescale)

ReadyText ==
    /\ pc = "ready" /\ Endable /\ tracks[call.track].text
    /\ LET s == call.sample
           added == Add(tracks[call.track].open, call.at, call.at + s.dur, s.cues)
       IN  /\ tracks' = [tracks EXCEPT ![call.track].open = added.open]
           /\ writing' = CueBlocks(call.track, added.done)
    /\ pc' = AfterBlocks(writing')
    /\ UNCHANGED <<started, closed, complete, cluster, clusters, cues, segmentStart, head,
                   file, call, patches, faults, taken>>

(* Mutant: the frame is kept for as long as no other takes its place.      *)
KeptHeld(t) == tracks
GivenUp(t) == [tracks EXCEPT ![t].held = {}]

(* The frame handed over last is written now; it is given up before.       *)
ReadyFrame ==
    /\ pc = "ready" /\ Endable /\ ~tracks[call.track].text
    /\ writing' = SetToSeq(HeldBlock(call.track, FALSE))
    /\ tracks' = GivenUp(call.track)
    /\ pc' = AfterBlocks(writing')
    /\ UNCHANGED <<started, closed, complete, cluster, clusters, cues, segmentStart, head,
                   file, call, patches, faults, taken>>

RefuseUnendable ==
    /\ pc = "ready" /\ ~Endable
    /\ pc' = "idle" /\ call' = NoCall
    /\ UNCHANGED <<muxer, file, writing, patches, faults, taken>>

(***************************************************************************)
(* Placing a block: in the open cluster, unless it needs one of its own.   *)
(***************************************************************************)
(* Mutant: a frame from before the cluster is placed in it all the same.   *)
NeedNewClusterAfter(b) ==
    \A start \in cluster :
        \/ b.tick - start > MaxBlockTimecode
        \/ b.sync /\ b.track = 1 /\ b.tick - start >= ClusterTicks
NeedNewCluster(b) ==
    \A start \in cluster :
        \/ b.tick - start > MaxBlockTimecode
        \/ b.tick - start < -MaxBlockTimecode - 1
        \/ b.sync /\ b.track = 1 /\ b.tick - start >= ClusterTicks

Timecode(tick) == [el |-> "timecode", size |-> TimecodeLen, time |-> tick]

NoteCue(tick, at) == cues' = Append(cues, [time |-> tick, at |-> at])

OpenCluster ==
    /\ pc = "place" /\ NeedNewCluster(Head(writing))
    /\ LET tick == Head(writing).tick
       IN  /\ cluster' = {tick}
           /\ IF Buffered
              THEN /\ clusters' = Append(clusters, [time |-> tick, simple |-> <<>>, groups |-> <<>>])
                   /\ NoteCue(tick, 0)
                   /\ file' = file
              ELSE /\ file' = file \o UnknownSize("cluster") \o <<Timecode(tick)>>
                   /\ NoteCue(tick, Written - segmentStart)
                   /\ clusters' = clusters
    /\ UNCHANGED <<tracks, started, closed, complete, segmentStart, head, pc, call, writing,
                   patches, faults, taken>>

OpenClusterFails ==
    /\ pc = "place" /\ ~Buffered /\ NeedNewCluster(Head(writing))
    /\ faults.media < MediaFaults
    /\ faults' = [faults EXCEPT !.media = @ + 1]
    /\ file' \in {file, Append(file, Torn)}
    /\ Fails
    /\ UNCHANGED <<tracks, started, cluster, clusters, cues, segmentStart, head, taken>>

(* A block group has no flag for a frame that is not a sync sample: it     *)
(* names the frame before it on its track, or the nearest time there is.   *)
Reference(b) ==
    IF ~b.group \/ b.sync THEN 0
    ELSE IF tracks[b.track].last \subseteq {b.tick} THEN -1
    ELSE Max(tracks[b.track].last) - b.tick

Block(b) ==
    [el |-> "block", size |-> BlockLen + b.data, track |-> b.track, sync |-> b.sync,
     data |-> b.data, rel |-> Int16(b.tick - Max(cluster)), group |-> b.group,
     dur |-> b.dur, discard |-> b.discard, ref |-> Reference(b)]

(* flushHeld moves the track on before the write; a cue's track stays.     *)
MovedOn(b) ==
    IF tracks[b.track].text THEN tracks ELSE [tracks EXCEPT ![b.track].last = {b.tick}]

(* In the clusters of a buffered segment blocks and groups are apart.      *)
InCluster(b) ==
    LET n == Len(clusters)
    IN  IF b.group THEN [clusters EXCEPT ![n].groups = Append(@, Block(b))]
        ELSE [clusters EXCEPT ![n].simple = Append(@, Block(b))]

WriteBlock ==
    /\ pc = "place" /\ ~NeedNewCluster(Head(writing))
    /\ LET b == Head(writing)
       IN  /\ tracks' = MovedOn(b)
           /\ IF Buffered THEN clusters' = InCluster(b) /\ file' = file
              ELSE file' = Append(file, Block(b)) /\ clusters' = clusters
    /\ writing' = Tail(writing)
    /\ pc' = AfterBlocks(writing')
    /\ UNCHANGED <<started, closed, complete, cluster, cues, segmentStart, head, call,
                   patches, faults, taken>>

WriteBlockFails ==
    /\ pc = "place" /\ ~Buffered /\ ~NeedNewCluster(Head(writing))
    /\ faults.media < MediaFaults
    /\ faults' = [faults EXCEPT !.media = @ + 1]
    /\ tracks' = MovedOn(Head(writing))
    /\ file' \in {file, Append(file, Torn)}
    /\ Fails
    /\ UNCHANGED <<started, cluster, clusters, cues, segmentStart, head, taken>>

(***************************************************************************)
(* The sample is accepted.                                                 *)
(***************************************************************************)
TakeSample ==
    /\ pc = "take"
    /\ LET t == call.track  k == tracks[t]  s == call.sample
           tick == Ticks(call.at, k.timescale)
           endTick == Ticks(call.at + s.dur, k.timescale)
           frame == [len |-> s.len, tick |-> tick, dur |-> Max({endTick - tick, 1}),
                     sync |-> s.sync, start |-> k.nextTime + s.offset, units |-> s.dur,
                     decoded |-> IF k.fixed THEN Max({s.dur, k.prevUnits}) ELSE s.dur]
           later == call.at + s.dur > k.end
       IN  /\ tracks' = [tracks EXCEPT ![t] =
                [k EXCEPT !.nextTime = @ + s.dur,
                          !.shift = call.shift,
                          !.held = IF k.text THEN {} ELSE {frame},
                          !.prevUnits = IF k.text THEN @ ELSE s.dur,
                          !.end = IF later THEN call.at + s.dur ELSE @,
                          !.endTick = IF later THEN endTick ELSE @]]
           /\ taken' = [taken EXCEPT ![t] = Append(@, [at |-> call.at, sample |-> s])]
    /\ pc' = "idle" /\ call' = NoCall
    /\ UNCHANGED <<started, closed, complete, cluster, clusters, cues, segmentStart, head,
                   file, writing, patches, faults>>

(***************************************************************************)
(* Close: the cues still on screen, track by track, then every held frame  *)
(* in the order of their times, then the end of the file.                  *)
(***************************************************************************)
Close ==
    /\ pc = "idle" /\ ~closed
    /\ IF tracks = <<>> THEN closed' = TRUE /\ UNCHANGED <<pc, call>>
       ELSE closed' = FALSE /\ pc' = "drain" /\ call' = [op |-> "close"]
    /\ UNCHANGED <<tracks, started, complete, cluster, clusters, cues, segmentStart, head,
                   file, writing, patches, faults, taken>>

RefuseClosed == pc = "idle" /\ closed /\ UNCHANGED <<muxer, file, pc, call, writing, patches, faults, taken>>

OnScreen == {t \in DOMAIN tracks : tracks[t].open # <<>>}
Holding == {t \in DOMAIN tracks : tracks[t].held # {}}

DrainCues ==
    /\ pc = "drain" /\ OnScreen # {}
    /\ LET t == Min(OnScreen)
       IN  /\ writing' = CueBlocks(t, tracks[t].open)
           /\ tracks' = [tracks EXCEPT ![t].open = <<>>]
    /\ pc' = "place"
    /\ UNCHANGED <<started, closed, complete, cluster, clusters, cues, segmentStart, head,
                   file, call, patches, faults, taken>>

HeldTick(t) == Max({h.tick : h \in tracks[t].held})
NextTail ==
    Min({t \in Holding : \A u \in Holding : HeldTick(t) <= HeldTick(u)})

TailBlock == HeldBlock(NextTail, TRUE)

FlushTail ==
    /\ pc = "drain" /\ OnScreen = {} /\ Holding # {}
    /\ writing' = SetToSeq(TailBlock)
    /\ tracks' = GivenUp(NextTail)
    /\ pc' = "place"
    /\ UNCHANGED <<started, closed, complete, cluster, clusters, cues, segmentStart, head,
                   file, call, patches, faults, taken>>

TailsOut ==
    /\ pc = "drain" /\ OnScreen = {} /\ Holding = {}
    /\ closed' = TRUE
    /\ pc' = IF Buffered THEN "segment" ELSE IF started THEN "index" ELSE "begin"
    /\ UNCHANGED <<tracks, started, complete, cluster, clusters, cues, segmentStart, head,
                   file, call, writing, patches, faults, taken>>

Duration == Max({tracks[t].endTick : t \in DOMAIN tracks})

CuesField == [el |-> "cues", size |-> 4 + CuePointLen * Len(cues), points |-> cues]
CueIndex == IF cues = <<>> THEN <<>> ELSE <<CuesField>>

(***************************************************************************)
(* The end of a stream: the Cues, and what a writer that can seek is owed. *)
(***************************************************************************)
Done == pc' = "idle" /\ call' = NoCall /\ complete' = TRUE

(* finishSeekable: each element written again at the length it had, the    *)
(* size of the segment after those of the clusters in it.                  *)
SeekHeadPatch(cuesAt) ==
    IF cues = <<>> THEN <<>>
    ELSE <<[at |-> segmentStart,
            fields |-> SeekRegion(Append(head.seeks, CuesSeek(cuesAt)), head.reserve)]>>

InfoPatch ==
    <<[at |-> segmentStart + head.reserve, fields |-> <<Info(Duration, Duration = 0)>>]>>

SizeField(n) == <<[el |-> "size", size |-> 8, states |-> {n}]>>

(* Mutant: the size counts the eight bytes that state it.                  *)
ClusterPatchesOverlong(cuesAt) ==
    [i \in DOMAIN cues |->
        LET stop == IF i < Len(cues) THEN cues[i + 1].at ELSE cuesAt
        IN  [at |-> segmentStart + cues[i].at + 4, fields |-> SizeField(stop - cues[i].at - 4)]]
ClusterPatches(cuesAt) ==
    [i \in DOMAIN cues |->
        LET stop == IF i < Len(cues) THEN cues[i + 1].at ELSE cuesAt
        IN  [at |-> segmentStart + cues[i].at + 4, fields |-> SizeField(stop - cues[i].at - 4 - 8)]]

SegmentPatch(end) == <<[at |-> segmentStart - 8, fields |-> SizeField(end - segmentStart)]>>

(* Mutant: the size of the segment goes first.                             *)
PatchesSegmentFirst(cuesAt, end) ==
    SeekHeadPatch(cuesAt) \o InfoPatch \o SegmentPatch(end) \o ClusterPatches(cuesAt)
Patches(cuesAt, end) ==
    SeekHeadPatch(cuesAt) \o InfoPatch \o ClusterPatches(cuesAt) \o SegmentPatch(end)

WriteCues ==
    /\ pc = "index"
    /\ file' = file \o CueIndex
    /\ IF head.seeker
       THEN /\ patches' = Patches(Written - segmentStart, Written + Size(CueIndex))
            /\ pc' = "patch" /\ UNCHANGED <<call, complete>>
       ELSE Done /\ UNCHANGED patches
    /\ UNCHANGED <<tracks, started, closed, cluster, clusters, cues, segmentStart, head,
                   writing, faults, taken>>

WriteCuesFails ==
    /\ pc = "index" /\ cues # <<>> /\ faults.media < MediaFaults
    /\ faults' = [faults EXCEPT !.media = @ + 1]
    /\ file' \in {file, Append(file, Torn)}
    /\ Fails
    /\ UNCHANGED <<tracks, started, cluster, clusters, cues, segmentStart, head, taken>>

Patch ==
    /\ pc = "patch" /\ patches # <<>>
    /\ file' = Overwritten(file, head.origin + Head(patches).at, Head(patches).fields)
    /\ patches' = Tail(patches)
    /\ IF Tail(patches) = <<>> THEN Done ELSE UNCHANGED <<pc, call, complete>>
    /\ UNCHANGED <<tracks, started, closed, cluster, clusters, cues, segmentStart, head,
                   writing, faults, taken>>

(* The seek back fails, or the write does, in part or as a whole; or the   *)
(* seek to the end of a file that is complete.                             *)
PatchFails ==
    /\ pc = "patch" /\ faults.media < MediaFaults
    /\ faults' = [faults EXCEPT !.media = @ + 1]
    /\ LET p == Head(patches)
           partly == <<[el |-> "rewritten", size |-> Size(p.fields)]>>
       IN  \/ file' \in {file, Overwritten(file, head.origin + p.at, partly)}
           \/ /\ Tail(patches) = <<>>
              /\ file' = Overwritten(file, head.origin + p.at, p.fields)
    /\ Fails
    /\ UNCHANGED <<tracks, started, cluster, clusters, cues, segmentStart, head, taken>>

(***************************************************************************)
(* The end of a buffered segment, written as one document.                 *)
(***************************************************************************)
ClusterBody(c) == <<Timecode(c.time)>> \o c.simple \o c.groups
ClusterFields(c) == KnownSize("cluster", Size(ClusterBody(c))) \o ClusterBody(c)

ClustersUpto(n) == FlattenSeq([i \in 1..n |-> ClusterFields(clusters[i])])

(* Mutant: a cluster is placed from the start of its own content.          *)
PlacedCuesInside(at) ==
    [i \in DOMAIN cues |-> [cues[i] EXCEPT !.at = at + 12 + Size(ClustersUpto(i - 1))]]
PlacedCues(at) ==
    [i \in DOMAIN cues |-> [cues[i] EXCEPT !.at = at + Size(ClustersUpto(i - 1))]]

WriteSegment ==
    /\ pc = "segment"
    /\ LET elements == SegmentHead(Duration, FALSE)
           reserve == SeekReserve(Len(elements) + 1)
           at == reserve + Size(elements)
           all == ClustersUpto(Len(clusters))
           seeks == PlacedSeeks(elements, reserve) \o
                      IF cues = <<>> THEN <<>> ELSE <<CuesSeek(at + Size(all))>>
       IN  /\ cues' = PlacedCues(at)
           /\ LET content == SeekRegion(seeks, reserve) \o elements \o all \o CueIndex'
              IN  file' = file \o <<Header>> \o KnownSize("segment", Size(content)) \o content
    /\ Done
    /\ UNCHANGED <<tracks, started, closed, cluster, clusters, segmentStart, head, writing,
                   patches, faults, taken>>

WriteSegmentFails ==
    /\ pc = "segment" /\ faults.media < MediaFaults
    /\ faults' = [faults EXCEPT !.media = @ + 1]
    /\ file' \in {file, Append(file, Torn)}
    /\ Fails
    /\ cues' = PlacedCues(SeekReserve(Len(SegmentHead(Duration, FALSE)) + 1)
                            + Size(SegmentHead(Duration, FALSE)))
    /\ UNCHANGED <<tracks, started, cluster, clusters, segmentStart, head, taken>>

Init ==
    /\ setup \in Setups
    /\ tracks = <<>> /\ taken = <<>>
    /\ started = FALSE /\ closed = FALSE /\ complete = FALSE
    /\ cluster = {} /\ clusters = <<>> /\ cues = <<>> /\ segmentStart = 0
    /\ head = [seeker |-> setup.mode \in {"file", "pipe"}, origin |-> 0, seeks |-> <<>>,
               reserve |-> 0]
    /\ file = IF setup.start = 0 THEN <<>> ELSE <<[el |-> "before", size |-> setup.start]>>
    /\ pc = "idle" /\ call = NoCall /\ writing = <<>> /\ patches = <<>>
    /\ faults = [header |-> 0, media |-> 0]

Step ==
    \/ AddTrack
    \/ \E t \in DOMAIN tracks, s \in Samples \union CueSamples : WriteSample(t, s)
    \/ Begin \/ BeginFails
    \/ ReadyText \/ ReadyFrame \/ RefuseUnendable
    \/ OpenCluster \/ OpenClusterFails \/ WriteBlock \/ WriteBlockFails
    \/ TakeSample
    \/ Close \/ RefuseClosed
    \/ DrainCues \/ FlushTail \/ TailsOut
    \/ WriteCues \/ WriteCuesFails \/ Patch \/ PatchFails
    \/ WriteSegment \/ WriteSegmentFails

Next == Step /\ UNCHANGED setup

Spec == Init /\ [][Next]_vars
=============================================================================
