--------------------------- MODULE ProgressiveFile ---------------------------
(***************************************************************************)
(* What a progressive file is for: reading it through its tables gives     *)
(* back what the muxer was handed.  The module states the properties of    *)
(* ProgressiveMuxer and shows that it implements MovieFile.                *)
(***************************************************************************)
EXTENDS ProgressiveMuxer, MovieReader

(***************************************************************************)
(* What the muxer holds, read the way a player would.  Until the moov is   *)
(* out the tables are those in memory, their offsets counted from the      *)
(* start of the payload; the samples no chunk holds yet are in pending.  A *)
(* finished file is read through its tables alone.                         *)
(***************************************************************************)
Payload == IF Seekable THEN SubSeq(file, payloadBase + 1, Len(file)) ELSE buffered

InChunks(k) == k.count - Len(k.pending)

BoxOf(t) ==
    IF moov = {} THEN SampleTables(tracks[t], 0, TRUE)
    ELSE (CHOOSE b \in moov : TRUE).traks[t].stbl

BytesOf(t, box, media, n) ==
    LET k == tracks[t]
    IN  IF moov = {} /\ n > InChunks(k) THEN k.pending[n - InChunks(k)] ELSE SampleBytes(box, media, n)

(* Op(x), with x evaluated once.                                           *)
Once(x, Op(_)) == CHOOSE r \in {Op(y) : y \in {x}} : TRUE

ContentOf(t) ==
    LET media == IF moov = {} THEN Payload ELSE file
        Read(box) ==
            [n \in 1..Len(box.sizes) |->
                [data |-> BytesOf(t, box, media, n),
                 dur |-> SampleDuration(box, n),
                 offset |-> SampleCompositionOffset(box, n),
                 sync |-> SampleIsSync(box, n)]]
    IN  Once(BoxOf(t), Read)

Content == [t \in DOMAIN tracks |-> ContentOf(t)]

(* The sample a call in progress was given, with the times the track's     *)
(* clock made of it.                                                       *)
Handed ==
    IF call = NoCall THEN {}
    ELSE {[track |-> call.track,
           sample |-> [data |-> Data(call.track, tracks[call.track].count + 1, call.sample.len),
                       dur |-> call.sample.dur,
                       offset |-> call.sample.offset,
                       sync |-> call.sample.sync]]}

Promised == INSTANCE MovieFile WITH
    TracksMayBeEmpty <- FALSE,
    content <- Content, handed <- Handed, finished <- moov # {}

(***************************************************************************)
(* The muxer implements MovieFile: whatever is flushed, patched or retried *)
(* on the way, reading the file through stts, ctts, stsc, stsz, stss and   *)
(* the chunk offsets gives each track the samples accepted for it, in      *)
(* order, with the bytes handed over.                                      *)
(***************************************************************************)
ImplementsMovieFile == Promised!Spec

(***************************************************************************)
(* Safety.                                                                 *)
(***************************************************************************)
ClockType == [from : Nat \ {0}, to : Nat \ {0}, in : Int, out : Int]
SampleType == [len : Nat, dur : Int, offset : Int, sync : BOOLEAN]
MediaByte == Nat \X Nat \X Nat
TrackType ==
    [timescale : Nat \ {0}, clock : ClockType, priming : Nat,
     count : Nat, total : Int, sizes : Seq(Nat),
     durCounts : Seq(Nat), durDeltas : Seq(Int),
     cttsCounts : Seq(Nat), cttsOffsets : Seq(Int), shifted : BOOLEAN,
     presentedUntil : Int, syncs : Seq(Nat),
     chunkOffsets : Seq(Nat), chunkSamples : Seq(Nat),
     pending : Seq(Seq(MediaByte)), pendingDur : Int, pendingStart : Int]

(* A size per sample, a count per run, a number of samples per chunk.      *)
TablesAgree(k) ==
    /\ Len(k.sizes) = k.count
    /\ Len(k.pending) <= k.count
    /\ Len(k.durCounts) = Len(k.durDeltas)
    /\ Len(k.cttsCounts) = Len(k.cttsOffsets)
    /\ Len(k.chunkOffsets) = Len(k.chunkSamples)

(* The type of every variable, and what ties the lists of a track together *)
(* (progressiveTrack's parallel slices).                                   *)
TypeOK ==
    /\ tracks \in Seq(TrackType)
    /\ started \in BOOLEAN /\ closed \in BOOLEAN
    /\ buffered \in Seq(MediaByte)
    /\ pendingBytes \in Int /\ written \in Nat /\ payloadBase \in Nat
    /\ pc \in {"idle", "begin", "reserve", "flush"}
    /\ call \in [track : 0..Len(tracks), sample : SampleType]
    /\ open \in [track : 0..Len(tracks), sent : Nat]
    /\ faults \in [begin : Nat, media : Nat, refused : Nat]
    /\ \A t \in DOMAIN tracks : TablesAgree(tracks[t])

(* The media held in memory, counted sample by sample: every pending       *)
(* sample not yet sent, and the payload held for a writer that cannot seek.*)
MediaHeld ==
    LET unsent(t) == IF open.track = t
                     THEN SubSeq(tracks[t].pending, open.sent + 1, Len(tracks[t].pending))
                     ELSE tracks[t].pending
        lengths(t) == [i \in DOMAIN unsent(t) |-> Len(unsent(t)[i])]
    IN  Len(buffered) + SumTo([t \in DOMAIN tracks |-> SumTo(lengths(t), Len(unsent(t)))],
                              Len(tracks))

(* "The media a muxer holds never exceeds MediaMemoryLimit": in whatever   *)
(* order samples fill the chunks of the tracks and chunks are written out. *)
MediaWithinLimit == MediaHeld <= MemoryLimit

(* In a finished file every entry of every table leads to the bytes of the *)
(* sample it stands for: "one mdat holding every sample, then a moov whose *)
(* sample tables address them".                                            *)
TablesAddressSamples ==
    \A box \in moov : \A t \in DOMAIN tracks : \A n \in DOMAIN tracks[t].sizes :
        SampleBytes(box.traks[t].stbl, file, n) = Data(t, n, tracks[t].sizes[n])

(* A chunk offset is never stated modulo 2^32: whether stco suffices is    *)
(* decided from the last chunk of each track alone, and no other chunk of  *)
(* any track reaches further (needsWideOffsets, offsetTable).              *)
OffsetsNeverWrap ==
    \A box \in moov : \A t \in DOMAIN tracks : \A c \in DOMAIN tracks[t].chunkOffsets :
        box.traks[t].stbl.offsets[c] = payloadBase + tracks[t].chunkOffsets[c]

(* The edit a track starts with lasts, in the movie's coarser timescale,   *)
(* at least until its last frame stops being shown, and by less than a     *)
(* tick more (edits, scaleDurationUp).                                     *)
EditReachesLastFrame ==
    \A box \in moov : \A t \in DOMAIN tracks : \A e \in box.traks[t].edits :
        LET shown == (tracks[t].presentedUntil - e.mediaTime) * MovieTimescale
        IN  /\ e.duration * tracks[t].timescale >= shown
            /\ (e.duration - 1) * tracks[t].timescale < shown

(* When chunk c of track t starts, in the track's timescale.               *)
ChunkStart(t, c) ==
    LET k == tracks[t]
        before == SumTo(k.chunkSamples, c - 1)
    IN  SumTo([n \in 1..before |-> RunValue(k.durCounts, k.durDeltas, n)], before)

(* A caller that hands the tracks' samples over in decode order, as the    *)
(* package's own copying does: no sample starts before one already taken.  *)
LastStart(t) ==
    tracks[t].total - tracks[t].durDeltas[Len(tracks[t].durDeltas)]

CallerInOrder ==
    (call = NoCall /\ call' # NoCall) =>
        \A u \in DOMAIN tracks : tracks[u].count > 0 =>
            LastStart(u) * tracks[call'.track].timescale
                <= tracks[call'.track].total * tracks[u].timescale

OrderedSpec == Init /\ [][Next /\ CallerInOrder]_vars

(* Of a caller that hands its samples over in decode order, to a writer    *)
(* that takes them, the chunks of all tracks lie in the file in the order  *)
(* they start at: "a player reading the file front to back meets each      *)
(* track's media where it needs it", across calls to flush and timescales  *)
(* (flush, pendingSeconds).                                                *)
MediaInDecodeOrder ==
    moov # {} /\ faults.media = 0 =>
        \A t, u \in DOMAIN tracks :
            \A c \in DOMAIN tracks[t].chunkOffsets, d \in DOMAIN tracks[u].chunkOffsets :
                tracks[t].chunkOffsets[c] < tracks[u].chunkOffsets[d] =>
                    ChunkStart(t, c) * tracks[u].timescale
                        <= ChunkStart(u, d) * tracks[t].timescale

(***************************************************************************)
(* Every call returns, however many chunks it has to write and whichever   *)
(* of them the writer refuses.                                             *)
(***************************************************************************)
EveryCallReturns == pc # "idle" ~> pc = "idle"
=============================================================================
