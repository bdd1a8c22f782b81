---------------------------- MODULE AudioOutput ----------------------------
(***************************************************************************)
(* The audio writer with its sinks, and what the readers of this package   *)
(* make of the file they leave: at any time, so that the file of a program *)
(* that stops before Close, or whose writer refuses, is read, too.         *)
(***************************************************************************)
EXTENDS OggSink, WAVSink, FrameSink

vars == <<setup, opened, closed, complete, medium, pc, taken, oggVars, wavVars, header>>

Init == WriterInit /\ OggInit /\ WAVInit /\ FrameInit

(* Every call after Close returns ErrClosed.                               *)
RefuseClosed == pc = "idle" /\ closed /\ UNCHANGED vars

Next ==
    \/ RefuseClosed
    \/ CloseEmpty /\ UNCHANGED <<oggVars, wavVars, header>>
    \/ OggNext /\ UNCHANGED <<wavVars, header>>
    \/ WAVNext /\ UNCHANGED <<oggVars, header>>
    \/ FrameNext /\ UNCHANGED <<oggVars, wavVars>>

Spec == Init /\ [][Next]_vars

(***************************************************************************)
(* Ogg.                                                                    *)
(***************************************************************************)
Ogg == INSTANCE OggReader

IsOgg == setup.format = "ogg"

(* RFC 3533: every page that was written holds segments, no more than a    *)
(* page can; it is numbered; it goes on with a packet exactly when the     *)
(* page before it ends inside one; the first is the beginning and only the *)
(* last may be the end; and a page inside which no packet ends states no   *)
(* position.                                                               *)
GoesOnBehind(page) == Last(page.segments) = SegmentSize

PagesHold ==
    IsOgg => \A i \in DOMAIN file :
        /\ Len(file[i].segments) \in 1..MaxSegments
        /\ file[i].seq = i - 1
        /\ file[i].continued <=> (i > 1 /\ file[i - 1].segments # <<>>
                                   /\ GoesOnBehind(file[i - 1]))
        /\ file[i].bos <=> i = 1
        /\ file[i].eos => i = Len(file) /\ closed
        /\ (\A n \in DOMAIN file[i].segments : file[i].segments[n] = SegmentSize)
              => file[i].granule = NoGranule

(* The stream is read as it was written: whatever was refused, and         *)
(* wherever the program stopped, its pages are in order but for an early   *)
(* end, the packets of the file are the first of those written, and the    *)
(* track they make is one the reader takes as soon as the file has the     *)
(* headers its mapping asks for.  Unless a write was refused it has them   *)
(* when the first audio waits in the page that is held back; before, an    *)
(* Opus or a Vorbis stream is malformed to the reader, for its second page *)
(* is still held back when AddTrack returns.  A file that Close finished has all packets, each     *)
(* lasting what it decodes to and the last what is presented of it, to a   *)
(* tick of its timescale (and one sample at least).  The one end that      *)
(* cannot be stated is -1, of a single Vorbis packet that is cut by one    *)
(* sample.                                                                 *)
OggWritten ==
    [h \in DOMAIN setup.headers |-> Bytes(-h, setup.headers[h])]
      \o [k \in DOMAIN taken |-> Bytes(k - 1, taken[k].len)]

OggDurations ==
    IF Vorbis THEN Ogg!VorbisDurations(taken, ShortBlock) ELSE [k \in DOMAIN taken |-> taken[k].size]

OggSteps == [k \in DOMAIN taken |-> IF Vorbis /\ k = 1 THEN 0 ELSE OggDurations[k]]

LastPresented(k) ==
    LET start == Ogg!SumOver(OggSteps, k) - OggDurations[k]
        limits == {OggDurations[k]} \union {end - start : end \in PresentedEnd}
        shown == Rescale(taken[k].dur, setup.timescale, setup.second)
    IN  {Max({1, Min(limits \union {d})}) : d \in shown..(shown + Slack)}

AudioWaits == \E page \in pending : \E i \in DOMAIN page.body : page.body[i][1] >= 0

OggReadsBack ==
    IsOgg /\ file # <<>> =>
        LET read == Ogg!OggStream(file, torn)
            data == [i \in DOMAIN read.packets |-> read.packets[i].data]
            track == Ogg!OggTrack(read.packets, setup.codec, OggSteps)
            n == Len(taken)
            durations == Ogg!SampleDurations(track.audio, OggDurations, OggSteps)
        IN  /\ read.error # "malformed"
            /\ IsPrefix(data, OggWritten)
            /\ track.error = "none" <=> Len(data) >= Ogg!HeaderPackets[setup.codec]
            /\ AudioWaits /\ ~failed => track.error = "none"
            /\ complete =>
                 /\ read.error = "none" /\ read.eos
                 /\ data = OggWritten
                 /\ track.error = "none"
                 /\ \A k \in 1..(n - 1) : durations[k] = OggDurations[k]
                 /\ n > 0 => \/ durations[n] \in LastPresented(n)
                             \/ track.audio[n].granule = NoGranule /\ n = 1 /\ Vorbis

(***************************************************************************)
(* WAVE.                                                                   *)
(***************************************************************************)
WAV == INSTANCE WAVReader

(* The samples as they are meant: bytes from the least significant up, a   *)
(* single byte without a sign.                                             *)
Meant(k) ==
    LET place(i) == ((i - 1) \div setup.width) * setup.width
        byte(i) == <<k, IF setup.big THEN place(i) + setup.width - (i - 1 - place(i)) ELSE i>>
    IN  [i \in 1..(taken[k].frames * BlockAlign) |->
           IF setup.signed /\ setup.width = 1 THEN Append(byte(i), 1) ELSE byte(i)]

AudioMeant == FlattenSeq([k \in DOMAIN taken |-> Meant(k)])

(* Whenever the program stops or its writer refuses, from the moment the   *)
(* header is written until all of its sizes are, the file reads as frames  *)
(* that were written, from the first on (and a pad byte behind them, once  *)
(* it is written and not yet told from audio); what Close finished reads   *)
(* as all of them.  Only a part of a size left by a refused write is       *)
(* excepted.                                                               *)
WAVReadsBack ==
    setup.format = "wav" /\ opened /\ ~(closed /\ torn) =>
        LET read == WAV!ReadWAV(file)
            data == FlattenSeq([i \in DOMAIN read.samples |-> read.samples[i].data])
        IN  /\ read.error # "malformed"
            /\ IsPrefix(data, IF closed THEN Append(AudioMeant, <<>>) ELSE AudioMeant)
            /\ Len(AudioMeant) > 0 /\ ~failed => IsPrefix(AudioMeant, data)
            /\ complete =>
                 /\ data = AudioMeant /\ read.error = "none"
                 /\ \A i \in DOMAIN read.samples :
                      read.samples[i].dur * BlockAlign = Len(read.samples[i].data)

(***************************************************************************)
(* Frames.                                                                 *)
(***************************************************************************)
(* A reader of native FLAC takes the blocks up to the one marked as the    *)
(* last for metadata and everything behind it for frames: it finds every   *)
(* frame taken, or the first ones of them, and no block among them or      *)
(* behind the mark.  A seek table, of another file, is none of the blocks. *)
FramesTaken ==
    SelectSeq([k \in DOMAIN taken |-> k], LAMBDA k : ~taken[k].empty)

FramesReadBack ==
    setup.format = "frames" =>
        LET bodies == {i \in DOMAIN file : file[i].unit = "data"}
            ends == {i \in bodies : file[i].last}
            frames == SelectSeq(file, LAMBDA u : u.unit = "frame")
            found == [i \in DOMAIN frames |-> frames[i].of]
        IN  /\ \A i \in DOMAIN file : file[i].unit # "seektable"
            /\ Cardinality(ends) <= 1
            /\ \A i \in DOMAIN file : file[i].unit = "frame" /\ setup.codec = "flac" =>
                 \E e \in ends : e < i /\ \A b \in bodies : b <= e
            /\ IsPrefix(found, FramesTaken)
            /\ complete => found = FramesTaken
=============================================================================
