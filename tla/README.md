# A model of avkit's containers

This directory holds TLA+ models of [go-avkit/avkit](../src), a Go library that
reads and writes media containers, with the configurations TLC checks them on
and the theorems TLAPS proves about them. Paths below are relative to
`src/container/`.

## The system

avkit is one Go package. It starts no goroutine and takes no lock: a reader or
a writer belongs to one caller, who makes one call at a time. What makes it
hard is not interleaving of threads but

* **a writer that may fail at any write**, in the middle of a call that has
  already changed some of its state, and a caller who may go on afterwards
  (the code says so in several places: "A header that failed to go out is
  written again on the next call", `mux.go:316`);
* **several tracks in timescales of their own**, merged into one file by
  comparing times;
* **things stated before they are known**: sizes, offsets and indexes that are
  patched, held back or inserted at the end;
* **limits**: memory, 32-bit offsets, 16-bit counts, 255-segment pages, clocks
  of 33 bits;
* **files and streams that end, begin or break anywhere**: a program that
  stopped before Close, a stream joined in the middle or with a part lost.

### Components

| component | source | state | operations | what makes it correct |
|---|---|---|---|---|
| Progressive MP4 muxer | `progressive.go` | tracks with tables under construction, open chunks, payload held, position and size of the mdat | AddTrack, WriteSample, Close | the tables of the moov lead to the bytes of every sample taken; memory stays within the limit; offsets never wrap |
| Fragmented MP4 muxer | `mux.go` | the initialisation segment, tracks with pending samples, sequence number | AddTrack, WriteSample, Flush, Close | every sample taken is in one fragment; decode times run on; the header states what the first samples say |
| Segment index | `sidx.go` | where fragments start, their sizes and spans, fragments held | begin, write, finish, shiftForward | a reference finds its fragment byte for byte; times and sync flags are true; the overlapping move loses nothing |
| Audio clock | `audioclock.go` | two totals | sample | rounding does not accumulate |
| Edit lists | `editlist.go`, `editlists.go` | none | presentationStart, setEdits, shift, drop | a presentation starts where the first sample says and reaches the last frame |
| WebM muxer | `webmmux.go`, `webmseek.go`, `matroska.go` | open cluster, a held frame and a shift per track, cues, the seek head | AddTrack, WriteSample, Close | block times fit and come in order; cues and sizes patched at the end are true; a frame that is held goes out once, as the last of its track or not |
| Matroska reader | `matroska_read.go`, `matroska_truncated.go`, `pgs.go` | frames under assembly | Samples, completion of a file that was cut | a file reads as what was written, or as its beginning, and says which |
| MPEG-TS muxer | `tsmux.go`, `tsaudio.go`, `tsav1.go` | start of the timeline, what has been started, PCR track | AddTrack, WriteSample, Close | PCR before PTS and DTS, the 33-bit wrap, tables in front of every place to join at |
| TS and Ogg readers | `ts.go`, `ogg.go` | bytes left over from a unit, a clock per track; an open packet | Samples | frames found wherever units were cut; the distance from decoding to presentation taken modulo the clock; packets put together over pages, and a track made of them once their headers are there |
| Remux, cut, concatenate, join | `remux.go`, `join.go` | position in each track | interleave, trim, Concat, joinInto | output in decode order, cuts at sync samples, no gap and no overlap at a seam, nothing presented that was not |
| Audio writers | `audiowriter*.go` | pages, sizes to patch, a sticky error | AddTrack, WriteSample, Close | packets split and marked right, end of stream on the last page, RF64 when needed, no write after a refused one |
| Subtitles | `subtitle.go`, `tx3g.go` | open cues | add, drain | each cue shown for as long as it lasts, samples that do not overlap |
| MP4 reader | `read.go`, `mp4.go`, `mdats.go` | tables | Samples | what the tables say, within the file |
| Elementary streams | `elementary.go`, `framewalk.go`, `adts.go`, `ac3frame.go`, `mpaframe.go`, `mpegaudio.go`, `aacrates.go`, `flac.go`, `wav.go`, `avi.go` | position | walkFrames, ReadWAV | sizes of an unfinished file, frames found again after junk |
| Codec configuration | `codecconf.go`, `audiocodecs.go`, `hvc1.go` | none | translation of records | |
| Metadata, detection | `metadata*.go`, `container.go` | none | | |

The muxers share the audio clock and `editlist.go`; `Remux`, `Concat` and
`Join` read with a `Reader` and drive a muxer through one interface
(AddTrack, WriteSample, Close); the segment index is owned by a `Muxer` and is
driven from inside its calls.

## The modules

    AudioClock ── AudioTrack ── MCAudioTrack, AudioTrackProofs
        │
        ├── ProgressiveMuxer ── ProgressiveFile ── MCProgressive, ProgressiveProofs
        │                        │   MovieReader ┘
        │                        └ MovieFile (INSTANCE)
        └── FragmentMuxer ───── FragmentFile ───── MCFragment
                 └ Sums          │ └ MovieFile (INSTANCE)
                     └ SumLemmas ┴ FragmentProofs ── FragmentFileProofs
    ShiftForward ── MCShiftForward, ShiftForwardProofs
    CueAssembler, EditLists, WebMSeek ── WebMMuxer ── WebMFile ── MCWebM
                    └ MatroskaReader (INSTANCE) ───────┘ └ MovieFile (INSTANCE)
    AudioWriter ── OggSink, WAVSink, FrameSink ── AudioOutput ── MCAudioOutput, OggProofs
                     OggReader, WAVReader (INSTANCE) ─┘
    Sums ── CopyTracks ── Copying ── CopiedFile ── MCCopying
      └ SumLemmas ──────────────────────┴ CopyingProofs
    TSMuxer ── Transport ── MCTransport
                  └ TSReader (INSTANCE)

**How a call is modelled.** A call is the sequence of its steps between two
operations on the writer, in the order the code makes them; `pc` names the step
a call in progress is at and no step is optional. Where the code may get an
error back there is an action for it (`BeginFails`, `WriteMediaFails`,
`HeaderFails`, `FragmentFails`, ...) that leaves behind exactly what the code
has changed by then. Where every write of a call succeeds or the order between
them cannot be seen, the writes are one step.

**`AudioClock`** is `audioclock.go` and the arithmetic of `editlist.go`:
`AudioTimescale`, `ScaleNearest`, `WithAudioClock`, `ClockSample`. A clock from
a timescale to itself stands for the nil clock.

**`AudioTrack`** runs one clock over a sequence of samples, some of which the
muxer refuses after they were converted, as both MP4 muxers may.

**`ProgressiveMuxer`** is the whole of `progressive.go`. `tracks` is
`m.tracks`, each with the fields of `progressiveTrack`; `started`, `closed`,
`buffered`, `pendingBytes`, `written` and `payloadBase` are the fields of the
same name. `file` is what the writer holds, byte by byte: a byte of media is
named `<<track, sample, i>>`, so that a table that leads to the wrong byte is
seen to. `open` is the loop of `flush`. `pendingBytes` is the integer the
64-bit counter is congruent to, and `Fits` compares it as the code does.

**`MovieReader`** is how a player finds samples from stts, ctts, stsc, stsz,
stss and the chunk offsets. It comes from ISO/IEC 14496-12, not from the
muxer: it is what the muxer's tables are judged by.

**`MovieFile`** is the abstract specification of a muxer: samples are handed
over and taken or refused, and the file holds those taken, in order, per
track. **`ProgressiveFile`** and **`FragmentFile`** map the concrete state to
it by reading the file, and state the other properties.

**`FragmentMuxer`** is `mux.go` (the `Muxer`) and `sidx.go`. The file is a
sequence of boxes with sizes, a box a refused write left unfinished being
"torn". `traks` are the track boxes of the initialisation segment, which may
be more than `tracks`. `index` is `segmentIndex`. The bytes of a sample are
abstracted to how many they are.

**`Sums`** holds the two recursive functions that files and copies are read with: a
sum along a sequence, and sequences put one behind another. **`SumLemmas`** has
what can be said of them (see below), for the proofs about both MP4 muxers and
about copies.

**`ShiftForward`** is `shiftForward` and the end of `segmentIndex.finish` byte
by byte; `FragmentMuxer.FinishIndex` takes its result, which
`ShiftForward!IndexInserted` states and `ShiftForwardProofs` proves.

**`WebMMuxer`** is `webmmux.go` and `finishSeekable`. `tracks` is `m.tracks`
with the fields of `webmTrack` (`held`, `shift` and `last` are sets of at most
one, empty where the code has nil or a flag that is not set; `open` is
`t.cues.open`); `cluster` is `clusterOpen` and `clusterStart`; `head` is what
`locateOrigin` and `openSeekHead` note. The blocks a call has yet to write are
`writing`, what Close has yet to patch is `patches`. The file is a sequence of
fields with sizes, so that positions can be checked byte for byte: the
identifier of a segment or cluster, its size field, and whole elements
otherwise. `setup` chooses between a buffered segment, a file, a stream, and
a pipe that says it can seek.

**`WebMSeek`** is the rest of `webmseek.go`: lengths of EBML elements, the room
for a SeekHead and the Void that fills it, positions of elements.
**`CueAssembler`** is `cueAssembler` of `subtitle.go`, and **`EditLists`** what
`editlists.go` makes of an edit list for Matroska. **`WebMFile`** reads the
file back as a player does, maps it to `MovieFile` and states the properties.

**`MatroskaReader`** is the reader's side: what `NewMatroskaReader` makes of a
file that ends too early, how blocks are taken apart into frames (laces of
other muxers included), what durations and offsets their times are given, what
a discarded end and an edit list make of the end, and how blocks of text
become samples again (`subtitle.go`). `WebMFile` instances it on the very file
its muxer wrote, at the end, where a write was refused, and cut anywhere.

**`AudioWriter`** is `audiowriter.go`: the track, the calls and
`stickyWriter`. Its sinks are **`OggSink`** (`audiowriter_ogg.go`: segments,
pages, the page held back until it is known whether it is the last, granule
positions and the trimmed end), **`WAVSink`** (`audiowriter_wav.go`: the header
with sizes that are not known, bytes swapped, RIFF turned into RF64 at Close)
and **`FrameSink`** (ADTS and MPEG frames, FLAC behind its metadata).
**`OggReader`** and **`WAVReader`** are `ogg.go` and `wav.go`. `OggReader` has two
verdicts, as the reader has: `OggStream` says whether the pages follow from one
another, and `OggTrack` whether their packets are a track, which for the mappings of
Opus, Vorbis and FLAC takes two, three and one header packets, in their order,
and behind them nothing but audio (of FLAC, from the first frame on).
**`AudioOutput`** puts them together: one writer, of whichever format `setup`
says, whose file is read back at every state, so that the file of a program
that stopped, or whose writer refused, is read, too.

**`CopyTracks`** is what `Remux`, `Cut`, `Concat` and `Join` do to tracks before
a sample is written: ranges, snapping, padding, edit lists. **`Copying`** is the
calls themselves (`remux.go`, `join.go`, `audiowriter_remux.go`): read, declare,
interleave, close, each of which may refuse. The muxer behind it is what takes
a sample or refuses it. A sample is known by its place in its source, 0 when
the copy made it up. **`CopiedFile`** has the promises, each stated against the
sources alone.

**`TSMuxer`** is `tsmux.go` with `tsaudio.go` down to the PES unit. The stream is
a sequence of programme tables and units; a unit states its times as the clock
has them, modulo `ClockWrap`. `tracks` are the fields `next`, `start` and
`started` of `tsTrack`. **`TSReader`** is `ts.go` from the PES unit up: the PTS less the DTS taken modulo
the clock (no time is unwrapped, and where the DTS goes back the duration is
made up), parameter sets lifted out, frames carried over from one unit to the next.
**`Transport`** reads what the muxer wrote from its beginning, from any unit a
player may join at and with any one unit lost; and, beside it, streams of
another program that cut its frames into units wherever it liked
(`appendFrames` is made for them, and nothing this muxer writes needs it).

## What the runs check

Every bound is a constant of the configuration. Clocks are slow, so that every
rounding is reached with small numbers, and timescales share no divisor. What a
writer can do, the limit a muxer was given, the tracks and formats are chosen
in `Init` among `Setups` (`Jobs` of `Copying`) and left alone, so that one run
covers several writers.

| run | question | bounds |
|---|---|---|
| `progressive` | does a file give back what was taken | video and audio in timescales 3 and 5 (converted from 2), 3 kinds of frame, 2 samples a track, one header refused whole; a writer that can seek in a file already holding a byte, with a limit of 3 bytes, and one that cannot, with a limit of 8; offsets wide past the middle of the file |
| `progressive_faults` | refused writes of media, calls that return, chunks in decode order | a caller in decode order, one refused write of the header and one of the media, whole or in part |
| `progressive_fault_tables` | what a table says after a refused write | two samples a track, one refused write of media; ends in a counterexample |
| `shift_forward` | the overlapping move | every start, end, room and block of a file of up to 6 bytes, any failure after any prefix |
| `audio_track` | drift | rates of several ratios, 12 ticks, refused samples |
| `fragments` | does a fragmented file give back what was taken, and does its index tell the truth | no index, an index inserted into the file, fragments held; 4 ticks of media a track, key frames, delayed and early frames; an encoder that tightens fragments or not; a refused configuration |
| `fragments_faults` | headers, seeks and fragments refused, limits met | an index inserted or held, 3 ticks, one refusal of each kind, flushes by the caller, memory for one or two fragments, three references, sizes that are refused, a 32-bit field of two ticks |
| `webm` | are frames, cues and times in the file what was handed over, and does the reader make the same samples of them | pictures with sound of an edit list (a buffered segment, a file holding a byte already), pictures with text (buffered, a stream), sound alone to a pipe that says it can seek; 3 units a track in timescales of 3, 4 and 2 with 4 ticks a second, frames presenting out of order, cues that overlap, repeat and are shown twice at once; blocks told at most 2 ticks after their cluster and 3 before it; one refused header, whole or in part; and laces of up to 3 frames, with and without durations, read alone |
| `webm_faults` | does the file tell the truth about itself after a refused write, and wherever it is cut | a buffered segment, a file and a stream; one refused write of the header and one of anything after it, patches included; a largest time that is met; cuts at every field and inside it |
| `audio_output` | do the readers find what was written, in a file that was finished, left or refused | Opus and Vorbis, plain and with an edit, and FLAC, four packet lengths around a full segment (2 bytes) and a full page (3 segments); five forms of WAVE, whose sizes pass the largest of a RIFF; FLAC with three metadata blocks; AAC; 4 samples, one refused write, whole or in part |
| `copying` | what a copy holds, in which order, where its text is and how it is presented | every job of `MCCopying!AllJobs`: pictures whose first frame is not a sync sample or presents late, sound with sync samples or without, four kinds of timed text, edit lists of every shape `startOnly` and `dropEditList` tell apart, every start and end of a two-second film, strict and not, truncated sources, dropped tracks, concatenations of inputs that differ in one thing; any sample refused by the muxer |
| `transport_stream` | does the stream read as what was written, from anywhere | a clock that wraps after 16 ticks, pictures and sound in timescales of 3, 4, 5 and 8, with priming and without; 4 units, one refused write, torn or whole; every unit lost and every place joined; foreign streams of up to 4 frames cut anywhere |

Two samples a track are enough for a chunk to be full and another begun; the
interesting cases of flushing (two tracks waiting, one waiting, none) all
occur, and both forms of the chunk offset table. Fragment runs reach four
fragments, tracks absent from some of them, and fragments whose frames present
before those of the fragment in front.
In the WebM runs a track gets up to three samples, enough for two clusters and
a block that would lie before the one open, for a frame held through them, for
a Void to fill and for an edit that ends inside a frame.
In `audio_output` a packet spans three pages, ends a page exactly, and is
followed by an empty segment; four samples take the WAVE data past the largest
RIFF. In `transport_stream` the PCR, the DTS and the PTS wrap at different
units.

In `progressive` a header is refused whole or not at all. A writer that cannot
seek and put out a part of the ftyp before it refused the rest leaves bytes
the muxer cannot know of, since it asks for its position only of a writer that
can seek (`begin`, line 382), and every offset is then off by them; headers
refused in part are left to `progressive_faults`, which does not read the
file back.

The properties, by hazard:

* *tables against bytes* — `progressive`'s `ImplementsMovieFile`,
  `OffsetsNeverWrap`, `EditReachesLastFrame`, and `TypeOK` of
  `ProgressiveMuxer`, which ties the run-length tables of a track to its
  sample count through refused writes (a chunk that is entered twice it does not
  see; that is `TablesAddressSamples`, below);
* *the memory limit* — `MediaWithinLimit` (of writers that take the media),
  `HeldWithinLimit`, `EveryCallReturns`;
* *interleaving of tracks* — `MediaInDecodeOrder`, `MergedInOrder`;
* *fragments* — `fragments`' `ImplementsMovieFile`, `DecodeTimesRunOn`,
  `FragmentsNeverGoBack`, `RetriesLoseNothing`, `HeaderStatesFirstSample`;
* *the index* — `ReferencesFindFragments`, `IndexDescribesFragments`;
* *the move* — `IndexInserted`, `NothingOverwrittenUnread`,
  `FailureSparesOtherBlocks`;
* *clusters and blocks* — `webm`'s `ImplementsMovieFile` (a time that does not
  fit its block, or an order lost between simple blocks and groups, is a frame
  at another time or place), `PresentedAsEdited`, `FramesNeverRepeat`, and
  `SamplesReadBack`, whose reference is what was handed over and whose other
  side is the reader: it sees durations, offsets and the end of the last frame
  as well;
* *text* — `CuesAreWhole`, and `SamplesReadBack` for the way back;
* *what is patched at the end, and files that were cut* — `PositionsHold`,
  `SizesHold`, `CutFileReads`;
* *pages, headers and refused writes of audio* — `PagesHold`, `OggReadsBack`,
  `WAVReadsBack`, `FramesReadBack`, each at every state, so that they speak of
  files left in the middle;
* *ranges, seams and edit lists of copies* — `CopyHoldsItsRange`,
  `TextKeepsPlace`, `PresentationKept`;
* *the wrapping clock and streams joined in the middle* — `StreamReadsBack`,
  `PresentedTogether`, `ArrivesInTime`, `JoinDescribesItself`,
  `FramesSurviveCutting`;
* *the audio clock* — `DriftBounded`.

### Where the code and its documentation differ

`progressive_fault_tables` ends in a counterexample: a chunk whose write
failed is entered twice in the tables, and Close then succeeds with a table
that addresses bytes of another sample. `PROJECT.json` quotes the sentence and
says what happens.

Others were met while modelling. The models reproduce them, and the runs
bound or exclude them, as said here:

* `Muxer`: a configuration that is refused leaves its track box in the
  initialisation segment (`mux.go:403`), which then names a track no identifier
  was returned for (lines 376-378 say that it names every track that was
  added; `ProgressiveMuxer.AddTrack` leaves nothing behind). `FragmentFile`
  compares samples, which it does not disturb.
* `Muxer`: the header counts as out (`mux.go:332`) before the index knows where
  it ended. When the seek in between fails and the caller goes on, the index
  goes to the front of the file, where `sidx.go:15-17` says that it comes
  behind the initialisation segment. `RetriesLoseNothing` is about samples, and
  `ReferencesFindFragments` speaks of files without a refused seek.
* `Muxer`: what a refused write left of a fragment is not counted
  (`sidx.go:190`), and later references are off by it, which is what lines
  166-170 record the size written to prevent. `ReferencesFindFragments` speaks of
  files without a write of a fragment that was refused.
* `Muxer`: a fragment that is refused, by the writer or by a limit of the index,
  is gone with its samples and its number (`mux.go:1102`), and the tracks go on
  behind it. `FragmentsNeverGoBack` holds all the same; `DecodeTimesRunOn` and
  `RetriesLoseNothing` speak of files with as many fragments as were numbered.
* `Muxer`: a finish that fails may leave some of the boxes of the index, or, of
  fragments that were held, the whole index and some of the fragments
  (`sidx.go:281-286`), and a move that fails leaves the file as `ShiftForward`
  has it. `FinishIndexFails` makes one torn box of all of these, or leaves the
  file alone; what the properties say of an index leaves a failed finish out.
* `WebMMuxer`: a held frame is taken out of its track before its cluster or its
  block is written (`webmmux.go:1133`); refused, it is gone.
  `FramesNeverRepeat` says that no frame goes out twice; that none is lost is
  `ImplementsMovieFile`'s, which is checked without refused media.
* `Cut` does not look at whether its source was truncated (`remux.go:182-207`),
  where the README of the library says that "`Remux`, `Cut`, `Concat` and
  `Join` **refuse** a truncated input" (lines 848-850). The model refuses for
  the other three, as the code does.
* `flush` gives up a sample's bytes in `pendingBytes` before the write that
  frees them (`progressive.go:431`), so that after a refused write of media
  more is held than the limit. `MediaWithinLimit` is checked without refused
  media.
* The clock of an audio track counts a sample that is then refused
  (`audioclock.go:106`). `DriftBounded` allows a tick for each of them.
* An edit made for a header that failed is kept for the next attempt
  (`mux.go:318`), which may know first samples the first did not.
  `HeaderStatesFirstSample` is checked without refused headers.
* When the header of a Matroska file is refused after `locateOrigin` had found
  that the writer can seek, and the seek of the next attempt fails, the room of
  the first attempt is still in `m.seekReserve` (`webmmux.go:1295`) and every
  position is off by it. `SeekFlaps` makes it happen; the runs leave it off.
* A sample of text whose blocks were refused has been added to the cues on
  screen already (`webmmux.go:1095`); handed over again it starts its cues a
  second time. `CuesAreWhole` is checked without refused media.

Of copies:

* `Cut` tells whether it kept a track's last sample by comparing addresses
  (`remux.go`, `keepsTail`), and `cutCues` makes a new slice whenever it
  shortens a sample, so that a list that trims the end of timed text is dropped
  without a word. `PresentationKept` asks nothing of where timed text ends after
  a cut, shortened or not; where each cue is, is `TextKeepsPlace`'s.
* `mismatch` does not compare the `vpcC` record of VP8 and VP9 (`TrackConfig.VPx`),
  where the comment on `sameParameters` has "what a decoder is set up from, and
  what therefore may not change mid-file" (`remux.go:506-507`). `Concat` accepts
  two such tracks and describes both by the record of the first; `Compared`
  leaves it out, and a job of `copying` has it.
* `dropEditList` drops a list whose edit starts before the first composed
  frame; `StartDelay` is kept after a cut in the middle.
* `Join` ignores an id in `DropTracks` that names no track, where the option
  says "an error rather than a silent no-op".
* `Join` compares times as `float64`: two that differ by less than a
  `float64` can tell are taken as equal. The model compares rationals.

Of transport streams:

* Where the clock wraps inside a track, and for a sample shorter than a tick,
  the reader falls back to a default duration, where `tsmux.go:329-331` says
  that it "recovers exactly the samples that were written".
  `StreamReadsBack` asks for durations where the time moved forward.
* Go divides toward zero, so times on either side of the start may be off by
  two ticks; a DTS may be one tick before the PCR. The properties allow them.
* A dependent frame whose independent one was lost takes the time of its unit;
  a unit shorter than the bytes carried over into it loses the time it states.
  `FramesSurviveCutting` judges times from the first independent frame that a
  unit has timed.
* A unit of frames torn by a refused write gives a damaged frame;
  `StreamReadsBack` leaves those streams out.

Of audio files:

* The second page of an Ogg file is held back until audio closes another, or
  Close does. Until then the reader finds one header packet in the file, and an
  Opus or a Vorbis stream malformed rather than truncated (`ogg.go:347`,
  `ogg.go:430`; the tests at `ogg_test.go:296` and `ogg_test.go:364` ask for it).
  That is how a program leaves it that stops behind `AddTrack`. A FLAC stream reads
  with its first header. `OggReadsBack` says when a track is readable: when the
  headers are there, and they are as soon as a page with audio is held back.
* A single Vorbis packet that is cut by one sample has a last granule position
  of -1, which means that there is none; it reads untrimmed.
* `end` may give the last page a position below that of the page before it,
  when the edit ends earlier than that page.
* A write over the header of a WAVE that was refused in part leaves half a
  size. `WAVReadsBack` leaves it out.

Of Matroska files read:

* A file whose segment states its size and that was cut exactly between two
  children is refused as unreadable, not read as truncated
  (`matroska_truncated.go:137`); one whose size is unknown, cut at an element,
  cannot be told from a whole one. `CutFileReads` says both.
* Frames of one tick cannot be told apart: with nothing that states a duration
  the track is unreadable, otherwise what follows is late. Laces shorter than
  a tick a frame are the same. `SamplesReadBack` leaves both out.
* A track that is read begins at zero: what it was late by is gone unless an
  edit list says so.

### Fairness

The library is sequential code that waits for nothing but the writer, and a
write returns, with or without an error. `ProgressiveMuxer!FairSpec` is
therefore weak fairness of the steps of a call in progress (`pc # "idle"`):
nothing obliges the caller to call again; `progressive_faults` states the same
fairness for its caller in decode order (`MCProgressive!OrderedFairSpec`). No other
specification is fair and no other liveness property is stated: the loops of
the other modules go over a sequence that gets shorter, while the one in
`flush` waits for a limit to be kept, which is what may not happen.

`CHECK_DEADLOCK FALSE` is used where the modelled code ends (`ShiftForward`)
or the bound on the media ends it (`AudioTrack`); the muxers and writers always
have an answer, `RefuseClosed` at the least, and a copy that has returned stays so
(`Returned`).

## What is proved

The provers check, for every value of the constants allowed by the `ASSUME`s:

* **`ProgressiveProofs`** — `ProgressiveTypes` (`Spec => []TypeOK`),
  `ProgressiveOffsets` (`Spec => []OffsetsNeverWrap`), `ProgressiveEdits`
  (`Spec => []EditReachesLastFrame`), `ProgressiveMemory`
  (`Spec => [](faults.media = 0 => MediaWithinLimit)`),
  `ProgressiveInterleaves` (`OrderedSpec => []MediaInDecodeOrder`),
  `ProgressiveTables` (`Spec /\ []WritesTaken => []TablesAddressSamples`) and
  `ProgressiveImplements` (`Spec /\ []WritesTaken => ImplementsMovieFile`).
  `ProgressiveOffsets` needs more than types: that offsets are recorded in the order of `written`, so that the
  last chunk of a track is its furthest; that none lies past `written`; and
  that the tables a `moov` was made from do not change after it, since the
  muxer is closed and at rest by then. `needsWideOffsets` looks at the last
  chunk of each track only, and this is what justifies it, failed writes
  included. `ProgressiveEdits` needs that Close goes on only when every track
  has a sample, and so a first offset to start from (`Stated`, `Complete`); the
  rest is arithmetic: the two parts `scaleDuration` makes of a product are its
  quotient, and scaling back tells whether anything was rounded off.
  `ProgressiveMemory` needs that `pendingBytes` is what is pending, less what
  of the open chunk is written (`HeldInv`), a sum over tracks of sums over
  samples; a refused write gives up the bytes of a sample that stays pending,
  and from then on it is not (see the findings above).
  `ProgressiveInterleaves` is about a caller who hands no sample over that starts
  before one already taken (`CallerInOrder`, with which `OrderedSpec` restricts the
  steps of the caller and no step of the muxer), in any timescales. Its
  invariant reads times out of the tables, as the property does: what is read from the run-length
  table is what was put in (`RunsExtend`), the chunks hold the samples that are
  not pending (`Chunked`), and so a chunk starts no later than the last sample of
  its track. `ChunksKept` then says that no chunk written starts later than what
  any track has pending (`Before`): a sample that begins to pend is handed over
  in order, and `flush` writes what starts first, compared across timescales by
  cross multiplication.
  `ProgressiveTables` and `ProgressiveImplements` are about a writer that takes the
  media (`WritesTaken`: no write of media was refused; a refused write of the header
  is tried again, behind what it left where the writer can tell its position,
  and where it cannot the write has left nothing). The hypothesis is needed: a refused
  write of media breaks the first, which is the finding above, and a header left
  in part in front of an offset that is only counted breaks it as well.
  That every step is one of `MovieFile` or none rests on `LaidInv`. While samples are taken it says of every track that
  each sample in a chunk lies where its chunk and the samples before it in the
  chunk place it (`Resting`) and, of the track whose chunk is being written, that
  the samples of the open chunk do so up to the last one written and the next
  goes to the end of the payload (`Writing`); of the file, that the
  payload is what was written since `begin` (`FileLaid`); and that the tables
  count every sample (`Listed`). In a complete file it says that the `moov` was made
  from the tracks as they are and that each sample is read back from the file
  (`Done`), which `Close` establishes when it patches the size of the `mdat`, or
  writes the payload it held back behind a header of whichever length. The reader's side is lemmas about the
  tables: what is read from the run-length tables of `stts` and `ctts`
  is what was put in, a chunk table cut at the changes of its counts still tells
  how many samples each chunk holds (`ChunkEntries`, `SamplesPerChunk`), and a sample is in
  exactly one chunk.
* **`ShiftForwardProofs`** — `IndexGoesInFront`, `ReadBeforeOverwritten` and
  `FailureLosesOneBlock`. The inductive invariant says of each byte of the
  fragments where it is: those before `at` where they were, those behind the
  block in hand where they are to be, and those of the block in `buf`.
* **`AudioTrackProofs`** — `TrackDrift` and `SamplesLast`. The invariant ties
  `clock.out` to `ScaleNearest(clock.in)`, and the distance between the clock
  and what was written to the number of samples refused; the arithmetic is in
  lemmas on `ScaleNearest`. `SamplesLast` (no sample of a converted track is
  rounded to a duration of zero) is stated by no run.
* **`OggProofs`** — `OggPages` (`Spec => []PagesHold`): whatever the sizes of a
  segment and of a page, the packets, where the caller stops and which writes
  are refused, the pages are numbered, hold no more segments than a page can,
  say that they continue a packet when they do, are marked as first and last
  when they are, and state a position unless no packet ends in them.
  `PagesHold` speaks of the file alone; the inductive invariant `OggInv` is
  about the three places a page can be: those written form a chain, the page
  waiting follows the last one written, and the open page continues a packet
  exactly when the page in front of it ends in a full segment. A full segment
  is last in a page only in the middle of a packet, since the packet that ends
  on one is given an empty segment. The first header is assumed to fit its page
  (`OggAssumption`; it is 51 bytes long for FLAC, 30 for Vorbis and for Opus 19
  or, with a channel mapping, some more, and a page takes 255 * 255), and so
  is a page of its own, with the mark of the beginning. Only Close marks the
  end, and nothing is written once a write was refused, which is where the
  stickiness of `stickyWriter` comes in.

* **`FragmentProofs`** — `FragmentInvariant` (`Spec => [](Inv /\ StartInv)`),
  and from it `FragmentTypes` and `MediaHeldWithinLimit`, over `FragmentMuxer` with
  every failure it models. `Inv` is types, where a call can be (`Control`), what
  is written when (`Progress`), that no two tracks share an identifier, that
  each clock has counted what it converted (so that a converted duration is not
  negative), and that what a track buffers decodes one sample after another up
  to `nextTime`. `StartInv` says where an index goes: between two boxes of the
  file, with no fragment in front. It is what makes `FinishIndex` put whole
  boxes on both sides, and no step keeps it by itself: the header must not be
  out, or nothing but fragments may come behind it.
* **`FragmentFileProofs`** — what `FragmentFile` reads out of the file.
  * `FragmentsAscend` (`Spec => []FragmentsNeverGoBack`) and `FragmentsRunOn`
    (`Spec => []DecodeTimesRunOn`). Neither is inductive: `OrderInv` adds that
    the runs a track has in the file end no later than where its buffered
    samples start (`Reached`), and exactly there when as many fragments were
    written as were numbered. `HeldNoted` goes with it: what is held is what
    the index notes, so that Close moves the fragments and makes none.
  * `RetriesKeepSamples` (`Spec => RetriesLoseNothing`, an action property), and
    `FragmentsImplementMovieFile`: of a writer that refuses no fragment, and
    without an index, whose limits may refuse one, `Spec` implements
    `MovieFile!Spec`. The mapping reads each track's samples out of all
    fragments; `ContentHeld` says that it is what was written (`Gone`) and
    what is buffered. `TakeSample` is the step that takes a sample;
    `WriteFragment`, which moves samples from the tracks to the file, and
    `FinishIndex`, which moves the fragments, are stutters, and that is most of
    the proof. With an index it stays with TLC.
  * `IndexFindsFragments` (`Spec => []ReferencesFindFragments`): for any number of
    tracks and fragments of any sizes, `first_offset` and the sizes of the
    references lead from every index box to every fragment. Until Close,
    `PlacedInv` says that the fragments follow the place of the index, in the
    order and of the sizes noted; the rest is arithmetic over sums of sizes of
    an `IndexedFile`: the boxes behind an index box are what its `first_offset`
    counts.
  * `IndexTellsOfFragments` (`Spec => []IndexDescribesFragments`): through any
    failures, of a track whose fragments present in order the durations of the
    references lead from one fragment to the next and to the end of the track,
    and a reference that promises a sync sample leads to one. `SpansInv` says
    that what was noted of each fragment (`Describes`: where each track starts and
    stops presenting in it, and how its first sample is) is so of the
    fragment, until Close has failed. The rest is about `SidxOf`, which reads
    what was noted from the last fragment to the first: the duration it has
    counted so far is the distance from the start of the next fragment that
    holds the track (`NextAt`) to the end, and a fragment without the track takes
    no time.
  * `HeaderShowsFirstSample`: of a writer that refused neither the
    initialisation segment nor a seek, and as long as no fragment was lost, the
    edit list written ahead of the samples is the one the first sample of each
    track calls for. The inductive invariant follows the first offset from the
    sample that was taken (`FirstsNoted`, until the first fragment is cut) to the
    edit of the track (`NoEditYet`: none is made before the header is first
    attempted), to the one initialisation segment of the file (`HeaderKept`: the
    tracks do not change behind it), and to the first sample of the first
    fragment, which goes out right after (`ShownInv`). Each of the three
    hypotheses is needed: the edit of an attempt that failed is kept for the
    next (see the findings above), and when the first fragment was lost the
    first one of the file is another.
* **`CopyingProofs`** — of every list of inputs, of any samples, timescales, edit
  lists and ranges, and whatever samples the muxer refuses:
  * `CopyingTypes` (`Spec => []TypeOK`): whatever is read, cut, padded, joined or
    laid side by side, every input comes to as many tracks, and what is
    written is a sample they have.
  * `CopyMergedInOrder` (`Spec => []MergedInOrder`). That a sample is written by
    the track that is furthest behind is one step of `interleave`; that the
    output is in order needs `MergeInv`: the clock of each track is how long it
    is in the output, and no track with samples left is behind what was
    written. Times are compared across timescales by cross multiplication, and
    that one of finitely many tracks is furthest behind (`FirstBehindExists`)
    is an induction too.
  * `CopiesLoseNothing` (`Spec => [](job.op # "cut" => CopyHoldsItsRange)`): of
    Remux, Concat and Join. What is prepared carries what was read (`Carries`:
    the samples of the source, in front of those that were made up), through
    padding, joining and the dropping of lists; and what a track has in the output
    is all of the inputs before this one and the part of this one in front of
    the next sample (`LossInv`).
* **`SumLemmas`** — induction over sequences, for `SumTo` and `ConcatTo`. A theorem
  of the library that takes an operator cannot be instantiated here, but
  well-founded induction can be stated with a set: a set of naturals that is
  not empty has a least element (`WFMin` and `NatLessThanWellFounded`), so that
  `NatSetInduction` proves `Nat \subseteq S` for a set `S` that holds 0 and is
  closed under successor. From it come the existence and the uniqueness of the
  function each recursion defines, and then what a sum or a concatenation does
  to one element more, to two sequences joined, and to sequences that agree.

The assumptions are those on the constants: sizes, limits and lengths of packets
are natural numbers, timescales, block sizes and the sizes of boxes are not
zero, a refused write of a header leaves less than the header; a cut has
one source, and the tracks and edit lists that are copied have timescales that
are not zero, since the muxers refuse those (`AddTrack`). 64-bit counters
other than `pendingBytes` are integers: `written` and `total` would need 2^64
bytes or ticks to wrap.

Only model-checked:

* what reads a WebM file, an audio file or a stream back
  (`SamplesReadBack`, `CutFileReads`, `OggReadsBack`, `WAVReadsBack`, `FramesReadBack`,
  `StreamReadsBack` and its companions), and the other properties of `WebMMuxer`:
  those modules read with the folds of the community
  modules, whose recursion is local to them; written with the functions of
  `Sums` they could be reasoned about as `FragmentFile` is;
* of copies, what a cut holds (the half of `CopyHoldsItsRange` about `Cut`), where
  its text is (`TextKeepsPlace`) and how it is presented (`PresentationKept`):
  they compare the choices of `trim` with a definition of the same cut by sets;
* liveness, which is out of the provers' reach.

## What is not modelled

* *Codec configuration* (`codecconf.go`, `audiocodecs.go`, `hvc1.go`), *metadata*
  and *detection*: translations of bytes without state or order. With them the
  contents of sample descriptions and track entries, `SetMetadata`, and the tags
  of audio files, which change bytes of a header and no state that the
  modelled code reads.
* *MP4 reader* (`read.go`, `mp4.go`, `mdats.go`): only how tables address samples,
  in `MovieReader`, from the standard and not from the code.
* *Frame walks* (`framewalk.go` and the parsers of frame headers, `elementary.go`,
  `avi.go`): a header is told from junk by bit fields and tables, over data
  that is all in memory.
* *MP4 muxers*: a caller's own `EditList`, and what is read from and written
  to the boxes of one.
* *WebM muxer and reader*: the text of a cue and of its settings; a sample of
  text that cannot be read, which is refused before anything is changed; PGS.
  The reader is given no CodecDelay, so that a trimmed end starts where the
  first frame presents (`EndTrim`).
* *MPEG-TS*: AV1 (`tsav1.go` puts every OBU of a sample behind a start code, and back);
  TS packets below the PES unit, which a library takes apart: a unit is lost as
  a whole or not at all, and start codes inside payload are not looked for.
* *Copies*: `SubtitlesAs`, `ConformHVC1` and `HoldsFragments`, which convert or
  inspect one sample at a time; the seek table a FLAC stream is copied with.
* *Audio writers*: which codec goes in which format (a table). A WAVE is
  written from the start of a file, `base` being zero.

## Plan

What is left, the most state and the most hazards first:

1. **`WebMProofs`** over `WebMMuxer` and `WebMSeek`: that the relative time of a
   block always fits (`Int16` is never reached outside its range), that the
   SeekHead and its Void always fill the room exactly.
2. **What a cut holds**: the half of `CopyHoldsItsRange` that `CopyingProofs`
   leaves to TLC.
3. **A reader of fragments** (`read.go`): defaults of a track, decode times,
   truncated fragments; and with it `FragmentFile` judged by the library's
   own reader.
4. **The frame walk** (`framewalk.go`): finding frames again after junk, with
   headers as members of a small set.
