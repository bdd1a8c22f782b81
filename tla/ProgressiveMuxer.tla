-------------------------- MODULE ProgressiveMuxer --------------------------
(***************************************************************************)
(* The muxer of a progressive MP4 (progressive.go): ftyp, one mdat holding *)
(* every sample, then a moov whose sample tables address them.             *)
(*                                                                         *)
(* The muxer is driven by one caller and is sequential; what runs against  *)
(* it is the writer, which may refuse any single write.  A call is         *)
(* therefore the sequence of steps between two writes, in the order the    *)
(* code makes them: pc names the step a call in progress is at, and no     *)
(* step of a call is optional.  A call that returns leaves pc = "idle".    *)
(*                                                                         *)
(* The file is the sequence of bytes the writer holds.  A byte of a box    *)
(* header is a string; byte i of the n-th sample accepted on track t is    *)
(* <<t, n, i>>.                                                            *)
(***************************************************************************)
EXTENDS AudioClock, FiniteSets, Sums

CONSTANTS
    Configs,          \* the track configurations the caller declares, in order
    Samples,          \* [len, dur, offset, sync] records WriteSample may be given
    Setups,           \* the [seekable, start, limit] NewProgressiveMuxer may be given:
                      \* whether the writer is also an io.Seeker, where in its file
                      \* it stands, and settings.memoryLimit
    ChunkDuration,    \* settings.chunkDuration
    MovieTimescale,   \* progressiveMovieTimescale
    FtypLen,          \* the size of the ftyp box
    MdatHeaderLen,    \* mdatHeaderLen
    MdatLargeHeaderLen, \* mdatLargeHeaderLen
    MaxChunkOffset32, \* maxChunkOffset32
    MaxSamples,       \* bound: samples accepted on one track
    BeginFaults,      \* bound: writes refused before the media
    MediaFaults,      \* bound: writes refused from the media on
    Refusals,         \* bound: samples the muxer refuses before the caller gives up
    Partial           \* how many bytes a refused write may still put out

ASSUME ProgressiveAssumption ==
    /\ Configs \in Seq([timescale : Nat \ {0}, rate : Nat, delay : Nat])
    /\ Samples \subseteq [len : Nat, dur : Nat, offset : Int, sync : BOOLEAN]
    /\ Setups \subseteq [seekable : BOOLEAN, start : Nat, limit : Nat]
    /\ \A c \in Setups : ~c.seekable => c.start = 0
    /\ ChunkDuration \in Nat
    /\ MovieTimescale \in Nat \ {0}
    /\ FtypLen \in Nat /\ MdatHeaderLen \in Nat /\ MdatLargeHeaderLen \in Nat
    /\ MaxChunkOffset32 \in Nat
    /\ MaxSamples \in Nat
    /\ BeginFaults \in Nat /\ MediaFaults \in Nat /\ Refusals \in Nat
    /\ Partial \subseteq Nat
    /\ \A k \in Partial : k < FtypLen /\ k < MdatLargeHeaderLen

VARIABLES
    setup,        \* m.seeker and m.settings, fixed when the muxer is made
    tracks,       \* m.tracks: one record per declared track, by identifier
    started,      \* m.started
    closed,       \* m.closed
    buffered,     \* m.buffered: the payload of a writer that cannot seek
    pendingBytes, \* m.pendingBytes, as the integer it is congruent to
    written,      \* m.written
    payloadBase,  \* m.payloadBase
    file,         \* what the writer holds
    mdat,         \* {} or the {[at, size]} of the mdat header as patched
    moov,         \* {} or the {box} that was encoded
    pc,           \* the step the call in progress is at
    call,         \* the sample the call in progress was given
    open,         \* flush's loop: [track, sent] of the chunk being written
    result,       \* what the last call returned
    faults        \* [begin, media, refused]: writes and samples refused so far

io == <<file, mdat, moov>>
vars == <<setup, tracks, started, closed, buffered, pendingBytes, written,
          payloadBase, io, pc, call, open, result, faults>>

Seekable == setup.seekable
MemoryLimit == setup.limit

NoCall == [track |-> 0, sample |-> [len |-> 0, dur |-> 0, offset |-> 0, sync |-> FALSE]]
NoChunk == [track |-> 0, sent |-> 0]

Header(name, n) == [i \in 1..n |-> name]
Data(t, n, len) == [i \in 1..len |-> <<t, n, i>>]
Prefix(s, k) == SubSeq(s, 1, k)

(***************************************************************************)
(* Tracks and their tables.                                                *)
(***************************************************************************)
NewTrack(cfg) ==
    LET to == AudioTimescale(cfg)
    IN  [timescale |-> to, clock |-> WithAudioClock(cfg),
         priming |-> PrimingTicks(cfg.delay, to),
         count |-> 0, total |-> 0, sizes |-> <<>>,
         durCounts |-> <<>>, durDeltas |-> <<>>,
         cttsCounts |-> <<>>, cttsOffsets |-> <<>>, shifted |-> FALSE,
         presentedUntil |-> 0, syncs |-> <<>>,
         chunkOffsets |-> <<>>, chunkSamples |-> <<>>,
         pending |-> <<>>, pendingDur |-> 0, pendingStart |-> 0]

(* One more sample in a run-length table.                                  *)
Extends(values, v) == Len(values) > 0 /\ values[Len(values)] = v
RunCounts(counts, values, v) ==
    IF Extends(values, v)
    THEN [counts EXCEPT ![Len(counts)] = @ + 1]
    ELSE Append(counts, 1)
(* Mutant: a run's value stated again for every sample of it.              *)
RunValuesUnmerged(values, v) == Append(values, v)
RunValues(values, v) ==
    IF Extends(values, v) THEN values ELSE Append(values, v)

ChunkLimit(t) ==
    Greater((ChunkDuration * tracks[t].timescale) \div Second, 1)

(* Track t, of state k, once it has taken sample s.                        *)
Taken(t, k, s) ==
    [timescale |-> k.timescale, clock |-> k.clock, priming |-> k.priming,
     count |-> k.count + 1,
     total |-> k.total + s.dur,
     sizes |-> Append(k.sizes, s.len),
     durCounts |-> RunCounts(k.durCounts, k.durDeltas, s.dur),
     durDeltas |-> RunValues(k.durDeltas, s.dur),
     cttsCounts |-> RunCounts(k.cttsCounts, k.cttsOffsets, s.offset),
     cttsOffsets |-> RunValues(k.cttsOffsets, s.offset),
     shifted |-> k.shifted \/ s.offset # 0,
     presentedUntil |-> Greater(k.presentedUntil, k.total + s.offset + s.dur),
     syncs |-> IF s.sync THEN Append(k.syncs, k.count + 1) ELSE k.syncs,
     chunkOffsets |-> k.chunkOffsets, chunkSamples |-> k.chunkSamples,
     pending |-> Append(k.pending, Data(t, k.count + 1, s.len)),
     pendingDur |-> k.pendingDur + s.dur,
     pendingStart |-> IF k.pending = <<>> THEN k.total ELSE k.pendingStart]

(***************************************************************************)
(* AddTrack.  A configuration describe() refuses leaves nothing behind, as *)
(* does a call on a muxer that has started or is closed.                   *)
(***************************************************************************)
AddTrack ==
    /\ pc = "idle" /\ ~closed /\ ~started
    /\ Len(tracks) < Len(Configs)
    /\ tracks' = Append(tracks, NewTrack(Configs[Len(tracks) + 1]))
    /\ result' = "ok"
    /\ UNCHANGED <<started, closed, buffered, pendingBytes, written,
                   payloadBase, io, pc, call, open, faults>>

(***************************************************************************)
(* WriteSample: the checks and the clock, then begin, then reserve.  The   *)
(* clock counts the sample whether or not it is accepted further on.       *)
(***************************************************************************)
WriteSample(t, s) ==
    /\ pc = "idle" /\ ~closed
    /\ t \in DOMAIN tracks
    /\ tracks[t].count < MaxSamples /\ faults.refused <= Refusals
    /\ s.len > 0 /\ s.dur > 0
    /\ ClockAccepts(tracks[t].clock, s)
    /\ LET c == ClockSample(tracks[t].clock, s)
       IN  /\ tracks' = [tracks EXCEPT ![t].clock = c.clock]
           /\ call' = [track |-> t, sample |-> c.sample]
    /\ pc' = IF started THEN "reserve" ELSE "begin"
    /\ result' = "running"
    /\ UNCHANGED <<started, closed, buffered, pendingBytes, written,
                   payloadBase, io, open, faults>>

(* Mutant: a writer that can seek is taken to stand at the start of a file.*)
BeginBaseOfNewFile == payloadBase

(* What begin finds and writes: a writer that can seek says where it is.   *)
BeginBase == IF Seekable THEN Len(file) ELSE payloadBase

Begin ==
    /\ pc = "begin"
    /\ IF Seekable
       THEN /\ file' = file \o Header("ftyp", FtypLen) \o Header("mdat", MdatLargeHeaderLen)
            /\ payloadBase' = BeginBase + FtypLen + MdatLargeHeaderLen
       ELSE /\ file' = file \o Header("ftyp", FtypLen)
            /\ payloadBase' = BeginBase + FtypLen
    /\ started' = TRUE
    /\ pc' = "reserve"
    /\ UNCHANGED <<tracks, closed, buffered, pendingBytes, written, mdat, moov,
                   call, open, result, faults>>

(* A write of begin is refused, the ftyp's or the mdat header's: the call  *)
(* returns the error with nothing marked as started.                       *)
BeginFails(k) ==
    /\ pc = "begin" /\ faults.begin < BeginFaults
    /\ \/ /\ file' = file \o Prefix(Header("ftyp", FtypLen), k)
          /\ payloadBase' = BeginBase
       \/ /\ Seekable
          /\ file' = file \o Header("ftyp", FtypLen)
                          \o Prefix(Header("mdat", MdatLargeHeaderLen), k)
          /\ payloadBase' = BeginBase + FtypLen
    /\ pc' = "idle" /\ call' = NoCall /\ result' = "write error"
    /\ faults' = [faults EXCEPT !.begin = @ + 1]
    /\ UNCHANGED <<tracks, started, closed, buffered, pendingBytes, written,
                   mdat, moov, open>>

(* Mutant: the payload of a writer that cannot seek is forgotten.          *)
HeldPending == pendingBytes
Held == pendingBytes + Len(buffered)

(* held()+n <= memoryLimit in 64-bit arithmetic: a count that has wrapped  *)
(* below zero is a very large one.                                         *)
Fits(n) == 0 <= Held + n /\ Held + n <= MemoryLimit

(* What WriteSample does once there is room.                               *)
Accept ==
    LET t == call.track
        k == Taken(t, tracks[t], call.sample)
    IN  /\ tracks' = [tracks EXCEPT ![t] = k]
        /\ pendingBytes' = pendingBytes + call.sample.len
        /\ IF k.pendingDur >= ChunkLimit(t)
           THEN pc' = "flush" /\ result' = result
           ELSE pc' = "idle" /\ result' = "ok"
        /\ call' = NoCall
        /\ UNCHANGED <<started, closed, buffered, written, payloadBase, io, open, faults>>

Reserve ==
    /\ pc = "reserve"
    /\ IF Fits(call.sample.len)
       THEN Accept
       ELSE /\ pc' = "flush"
            /\ UNCHANGED <<tracks, started, closed, buffered, pendingBytes, written,
                           payloadBase, io, call, open, result, faults>>

(***************************************************************************)
(* flush: one chunk per waiting track, in ascending order of the time its  *)
(* samples start at; ties keep the order the tracks were declared in.      *)
(***************************************************************************)
Waiting == {t \in DOMAIN tracks : tracks[t].pending # <<>>}

(* Mutant: ticks of two timescales compared as they are.                   *)
PrecedesInTicks(t, u) ==
    LET a == tracks[t].pendingStart
        b == tracks[u].pendingStart
    IN  a < b \/ (a = b /\ t <= u)

Precedes(t, u) ==
    LET a == tracks[t].pendingStart * tracks[u].timescale
        b == tracks[u].pendingStart * tracks[t].timescale
    IN  a < b \/ (a = b /\ t <= u)

(* A track whose pending samples make up a chunk starting at offset, and   *)
(* one whose pending samples have all been written.                        *)
WithChunk(k, offset) ==
    [k EXCEPT !.chunkOffsets = Append(@, offset),
              !.chunkSamples = Append(@, Len(k.pending))]
Emptied(k) == [k EXCEPT !.pending = <<>>, !.pendingDur = 0]

StartChunk ==
    /\ pc = "flush" /\ open = NoChunk
    /\ \E t \in Waiting :
        /\ \A u \in Waiting : Precedes(t, u)
        /\ tracks' = [tracks EXCEPT ![t] = WithChunk(@, written)]
        /\ open' = [track |-> t, sent |-> 0]
    /\ UNCHANGED <<started, closed, buffered, pendingBytes, written, payloadBase,
                   io, pc, call, result, faults>>

NextData == tracks[open.track].pending[open.sent + 1]

(* writeMedia, and the chunk closed after its last sample.                 *)
WriteMedia ==
    /\ pc = "flush" /\ open # NoChunk
    /\ pendingBytes' = pendingBytes - Len(NextData)
    /\ written' = written + Len(NextData)
    /\ IF Seekable
       THEN file' = file \o NextData /\ buffered' = buffered
       ELSE file' = file /\ buffered' = buffered \o NextData
    /\ IF open.sent + 1 < Len(tracks[open.track].pending)
       THEN open' = [open EXCEPT !.sent = @ + 1] /\ tracks' = tracks
       ELSE /\ open' = NoChunk
            /\ tracks' = [tracks EXCEPT ![open.track] = Emptied(@)]
    /\ UNCHANGED <<started, closed, payloadBase, mdat, moov, pc, call, result, faults>>

(* The writer refuses a sample: flush returns at once.  The chunk entry    *)
(* and what pendingBytes gave up for the sample stay as they are.          *)
WriteMediaFails(k) ==
    /\ pc = "flush" /\ open # NoChunk
    /\ Seekable /\ faults.media < MediaFaults
    /\ file' = file \o Prefix(NextData, IF k < Len(NextData) THEN k ELSE 0)
    /\ pendingBytes' = pendingBytes - Len(NextData)
    /\ open' = NoChunk /\ pc' = "idle" /\ call' = NoCall /\ result' = "write error"
    /\ faults' = [faults EXCEPT !.media = @ + 1]
    /\ UNCHANGED <<tracks, started, closed, buffered, written, payloadBase, mdat, moov>>

(* flush returns to the call it was made from: reserve has a sample in     *)
(* hand and looks again, WriteSample is done, Close goes on.               *)
Flushed == pc = "flush" /\ open = NoChunk /\ Waiting = {}

(* Mutant: as long as there is no room, flush again.                       *)
FlushedForRoomAgain ==
    /\ Flushed /\ call # NoCall
    /\ IF Fits(call.sample.len)
       THEN Accept
       ELSE /\ pc' = "reserve"
            /\ UNCHANGED <<tracks, started, closed, buffered, pendingBytes, written,
                           payloadBase, io, call, open, result, faults>>

FlushedForRoom ==
    /\ Flushed /\ call # NoCall
    /\ IF Fits(call.sample.len)
       THEN Accept
       ELSE /\ pc' = "idle" /\ call' = NoCall /\ result' = "ErrMediaTooLarge"
            /\ faults' = [faults EXCEPT !.refused = @ + 1]
            /\ UNCHANGED <<tracks, started, closed, buffered, pendingBytes, written,
                           payloadBase, io, open>>

FlushedSample ==
    /\ Flushed /\ call = NoCall /\ ~closed
    /\ pc' = "idle" /\ result' = "ok"
    /\ UNCHANGED <<tracks, started, closed, buffered, pendingBytes, written,
                   payloadBase, io, call, open, faults>>

(***************************************************************************)
(* Close.                                                                  *)
(***************************************************************************)
Close ==
    /\ pc = "idle" /\ ~closed
    /\ closed' = TRUE
    /\ IF tracks = <<>>
       THEN pc' = "idle" /\ result' = "ErrNoTracks"
       ELSE IF \E t \in DOMAIN tracks : tracks[t].count = 0
       THEN pc' = "idle" /\ result' = "ErrNoSamples"
       ELSE pc' = "flush" /\ result' = "running"
    /\ UNCHANGED <<tracks, started, buffered, pendingBytes, written, payloadBase,
                   io, call, open, faults>>

(* Every operation of a closed muxer is refused.                           *)
RefuseClosed ==
    /\ pc = "idle" /\ closed
    /\ result' = "ErrClosed"
    /\ UNCHANGED <<tracks, started, closed, buffered, pendingBytes, written,
                   payloadBase, io, pc, call, open, faults>>

(* The sample-to-chunk table: one entry per run of chunks holding the same *)
(* number of samples, at the first of them.                                *)
ChunkEntries(chunkSamples) ==
    [c \in DOMAIN chunkSamples |->
        IF c > 1 /\ chunkSamples[c] = chunkSamples[c - 1] THEN <<>>
        ELSE <<[first |-> c, samples |-> chunkSamples[c]]>>]

ChunkTable(chunkSamples) == ConcatTo(ChunkEntries(chunkSamples), Len(chunkSamples))

(* A zero, and the number of the last sample of each run.                  *)
CompositionTable(k) ==
    IF ~k.shifted THEN {}
    ELSE {[ends |-> [i \in 1..(Len(k.cttsCounts) + 1) |-> SumTo(k.cttsCounts, i - 1)],
           values |-> k.cttsOffsets]}

ScaleDuration(d, from, to) == (d \div from) * to + ((d % from) * to) \div from

(* Mutant: an edit rounded down, cutting the last frame short.             *)
ScaleDurationDown(d, from, to) == ScaleDuration(d, from, to)

ScaleDurationUp(d, from, to) ==
    LET down == ScaleDuration(d, from, to)
    IN  IF ScaleDuration(down, to, from) < d THEN down + 1 ELSE down

(* The edit a track's presentation starts with, {} when it needs none.     *)
Edits(k) ==
    LET start == Greater(k.cttsOffsets[1], 0) + k.priming
    IN  IF start <= 0 \/ start >= k.presentedUntil THEN {}
        ELSE {[mediaTime |-> start,
               duration |-> ScaleDurationUp(k.presentedUntil - start,
                                            k.timescale, MovieTimescale)]}

(* Mutant: the first chunk of each track looked at instead of the last.    *)
NeedsWideOffsetsAtFirst(base) ==
    \/ base > MaxChunkOffset32
    \/ \E t \in DOMAIN tracks :
         LET within == tracks[t].chunkOffsets
         IN  within # <<>> /\ base + within[1] > MaxChunkOffset32

(* Whether the last chunk of some track starts past what stco can state.   *)
NeedsWideOffsets(base) ==
    \/ base > MaxChunkOffset32
    \/ \E t \in DOMAIN tracks :
         LET within == tracks[t].chunkOffsets
         IN  within # <<>> /\ base + within[Len(within)] > MaxChunkOffset32

(* A chunk offset as its table states it: thirty-two bits unless wide.     *)
StatedOffset(offset, base, wide) ==
    IF wide THEN base + offset ELSE (base + offset) % (MaxChunkOffset32 + 1)

SampleTables(k, base, wide) ==
    [sttsCounts |-> k.durCounts, sttsDeltas |-> k.durDeltas,
     ctts |-> CompositionTable(k),
     stsc |-> ChunkTable(k.chunkSamples),
     sizes |-> k.sizes,
     stss |-> IF Len(k.syncs) # k.count THEN {k.syncs} ELSE {},
     offsets |-> [c \in DOMAIN k.chunkOffsets |-> StatedOffset(k.chunkOffsets[c], base, wide)]]

TrackBox(k, base, wide) ==
    LET edits == Edits(k)
    IN  [stbl |-> SampleTables(k, base, wide),
         edits |-> edits,
         duration |-> IF edits = {} THEN ScaleDuration(k.total, k.timescale, MovieTimescale)
                      ELSE (CHOOSE e \in edits : TRUE).duration]

Movie(base) ==
    LET wide == NeedsWideOffsets(base)
    IN  [wide |-> wide, traks |-> [t \in DOMAIN tracks |-> TrackBox(tracks[t], base, wide)]]

(* finishMdat: a writer that can seek has the size patched into the header *)
(* and is put back behind the media, so that what a refused write left     *)
(* there is overwritten; any other is handed the header and the payload.   *)
FinishMdat ==
    IF Seekable
    THEN /\ mdat' = {[at |-> payloadBase - MdatLargeHeaderLen,
                      size |-> MdatLargeHeaderLen + written]}
         /\ UNCHANGED <<payloadBase, buffered>>
    ELSE /\ mdat' = {[at |-> Len(file), size |-> MdatHeaderLen + written]}
         /\ payloadBase' = payloadBase + MdatHeaderLen
         /\ buffered' = <<>>

WithMedia ==
    IF Seekable THEN Prefix(file, payloadBase + written)
    ELSE file \o Header("mdat", MdatHeaderLen) \o buffered

Finish ==
    /\ Flushed /\ call = NoCall /\ closed
    /\ FinishMdat
    /\ file' = WithMedia \o <<"moov">>
    /\ moov' = {Movie(payloadBase')}
    /\ pc' = "idle" /\ result' = "ok"
    /\ UNCHANGED <<tracks, started, closed, pendingBytes, written, call, open, faults>>

(* Some write or seek of Close is refused, before the mdat is complete or  *)
(* after: the muxer stays closed, without a moov in the file.              *)
FinishFails ==
    /\ Flushed /\ call = NoCall /\ closed
    /\ faults.media < MediaFaults
    /\ \/ UNCHANGED <<file, mdat, payloadBase, buffered>>
       \/ FinishMdat /\ file' = IF Seekable THEN file ELSE WithMedia
    /\ pc' = "idle" /\ result' = "write error"
    /\ faults' = [faults EXCEPT !.media = @ + 1]
    /\ UNCHANGED <<tracks, started, closed, pendingBytes, written, moov, call, open>>

Init ==
    /\ setup \in Setups
    /\ tracks = <<>> /\ started = FALSE /\ closed = FALSE
    /\ buffered = <<>> /\ pendingBytes = 0 /\ written = 0 /\ payloadBase = 0
    /\ file = Header("other", setup.start) /\ mdat = {} /\ moov = {}
    /\ pc = "idle" /\ call = NoCall /\ open = NoChunk /\ result = "ok"
    /\ faults = [begin |-> 0, media |-> 0, refused |-> 0]

Step ==
    \/ AddTrack
    \/ \E t \in 1..Len(Configs), s \in Samples : WriteSample(t, s)
    \/ Begin
    \/ \E k \in Partial : BeginFails(k)
    \/ Reserve
    \/ StartChunk
    \/ WriteMedia
    \/ \E k \in Partial : WriteMediaFails(k)
    \/ FlushedForRoom
    \/ FlushedSample
    \/ Close
    \/ RefuseClosed
    \/ Finish
    \/ FinishFails

Next == Step /\ UNCHANGED setup

Spec == Init /\ [][Next]_vars

(* Every call returns: the muxer never waits for anything but the writer,  *)
(* and a write returns.                                                    *)
FairSpec == Spec /\ WF_vars(pc # "idle" /\ Next)
=============================================================================
