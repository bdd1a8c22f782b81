------------------------------ MODULE WAVSink ------------------------------
(***************************************************************************)
(* wavSink (audiowriter_wav.go): a header whose sizes are not known, the   *)
(* samples, and at Close, when the output can seek, the sizes written over *)
(* the header: as RIFF, or as RF64 when they pass 32 bits.                 *)
(*                                                                         *)
(* Two bytes of the header are one unit of the file, the first of a field  *)
(* holding its value; a byte of audio is a unit.  A setup is               *)
(*   [format, seeks, rf64, float, channels, width, fast, big, signed]      *)
(* where fast is a rate above 48 kHz, and big and signed say how the       *)
(* track's samples are stored.  A sample is [frames], and a byte of it is  *)
(* <<sample, place>>, with a third member when its sign bit is flipped.    *)
(***************************************************************************)
EXTENDS AudioWriter

CONSTANTS
    RiffMax,      \* wavRIFFMax
    PacketFrames  \* wavPacketFrames, of the reader

ASSUME WAVAssumption == RiffMax \in Nat /\ PacketFrames \in Nat \ {0}

VARIABLES
    patches    \* what Close has yet to write over the header: [at, units]

wavVars == <<patches>>

SizeUnknown == -1

BlockAlign == setup.channels * setup.width

(***************************************************************************)
(* The header.                                                             *)
(***************************************************************************)
Field(kind, value, bytes) ==
    <<[kind |-> kind, value |-> value]>> \o
    [i \in 1..(bytes \div 2 - 1) |-> [kind |-> "rest", value |-> 0]]

Id(name) == Field(name, 0, 4)
Num(n) == Field("num", n, 4)
Num64(n) == Field("num", n, 8)

(* wavFormatChunk: 18 bytes for float, 16 for integers, which are          *)
(* WAVE_FORMAT_EXTENSIBLE in 40 when there are more than two channels,     *)
(* they are wider than two bytes or the rate is high.                      *)
Extensible == setup.channels > 2 \/ setup.fast \/ (setup.width > 2 /\ ~setup.float)

FormatSize == IF Extensible THEN 40 ELSE IF setup.float THEN 18 ELSE 16

FormatChunk == Id("fmt ") \o Num(FormatSize) \o Field("format", BlockAlign, FormatSize)

DS64Chunk(riff, data, samples) ==
    Id("ds64") \o Num(28) \o Num64(riff) \o Num64(data) \o Num64(samples) \o Num(0)

JunkChunk == Id("JUNK") \o Num(28) \o Field("rest", 0, 28)

HasFact == setup.seeks /\ setup.float
FactId == IF HasFact THEN Id("fact") \o Num(4) ELSE <<>>
FactNum == IF HasFact THEN Num(0) ELSE <<>>

Opening ==
    IF setup.rf64 /\ ~setup.seeks
    THEN Id("RF64") \o Num(SizeUnknown) \o Id("WAVE") \o DS64Chunk(0, 0, 0)
    ELSE Id("RIFF") \o Num(SizeUnknown) \o Id("WAVE")

BeforeFact == Opening \o FormatChunk \o (IF setup.seeks THEN JunkChunk ELSE <<>>) \o FactId
BeforeData == BeforeFact \o FactNum \o Id("data")
Header == BeforeData \o Num(SizeUnknown)

(* Offsets of what Close writes over, in units.                            *)
FormatAt == Len(Opening)
FactAt == Len(BeforeFact)
DataAt == Len(BeforeData)

(***************************************************************************)
(* Samples.                                                                *)
(***************************************************************************)
DataOf(k, s) == [i \in 1..(s.frames * BlockAlign) |-> <<k, i>>]

(* The byte order and signedness of WAVE.                                  *)
Swapped(data, width) ==
    [i \in DOMAIN data |->
       data[((i - 1) \div width) * width + (width - ((i - 1) % width))]]

InWaveOrder(data) ==
    LET swapped == IF setup.big THEN Swapped(data, setup.width) ELSE data
    IN  [i \in DOMAIN swapped |->
           IF setup.signed /\ setup.width = 1 THEN Append(swapped[i], 1) ELSE swapped[i]]

Units(data) == [i \in DOMAIN data |-> [kind |-> "byte", value |-> data[i]]]

WAVAddTrack ==
    /\ setup.format = "wav" /\ CanAddTrack
    /\ Write(Header)
    /\ TrackAdded
    /\ UNCHANGED patches

WAVWriteSample(s) ==
    /\ setup.format = "wav" /\ CanWriteSample
    /\ Write(Units(InWaveOrder(DataOf(Len(taken) + 1, s))))
    /\ taken' = Append(taken, s)
    /\ UNCHANGED <<setup, opened, closed, complete, pc, patches>>

(***************************************************************************)
(* finish.  s.written counts the samples whose writing was refused, too:   *)
(* nothing is stated then.                                                 *)
(***************************************************************************)
DataWritten == FoldLeft(LAMBDA n, s : n + s.frames * BlockAlign, 0, taken)

Pad == [kind |-> "byte", value |-> <<>>]

WAVClose ==
    /\ setup.format = "wav" /\ pc = "idle" /\ ~closed /\ opened
    /\ closed' = TRUE
    /\ IF ~setup.seeks \/ failed
       THEN /\ complete' = ~failed
            /\ UNCHANGED <<medium, pc>>
       ELSE /\ IF DataWritten % 2 = 1 THEN Write(<<Pad>>) ELSE UNCHANGED medium
            /\ pc' = "sizes"
            /\ UNCHANGED complete
    /\ UNCHANGED <<setup, opened, taken, patches>>

(* Two bytes a unit up to the audio, one after.                            *)
Total == Len(file) + Len(Header)

Patch(at, units) == [at |-> at, units |-> units]

FactPatch(n) == IF HasFact THEN <<Patch(FactAt, Num(n))>> ELSE <<>>

RiffPatches(riff, samples) ==
    <<Patch(2, Num(riff)), Patch(DataAt, Num(DataWritten))>> \o FactPatch(samples)

(* Mutant: the format chunk is not moved behind the ds64 chunk.            *)
RF64PatchesInPlace(riff, samples) ==
    <<Patch(0, Id("RF64") \o Num(SizeUnknown)),
      Patch(FormatAt, DS64Chunk(riff, DataWritten, samples)),
      Patch(DataAt, Num(SizeUnknown))>> \o FactPatch(SizeUnknown)

RF64Patches(riff, samples) ==
    <<Patch(0, Id("RF64") \o Num(SizeUnknown)),
      Patch(FormatAt, DS64Chunk(riff, DataWritten, samples) \o FormatChunk),
      Patch(DataAt, Num(SizeUnknown))>> \o FactPatch(SizeUnknown)

StateSizes ==
    /\ setup.format = "wav" /\ pc = "sizes"
    /\ UNCHANGED medium
    /\ IF failed
       THEN Finished /\ UNCHANGED patches
       ELSE /\ LET riff == Total - 8
                   samples == DataWritten \div BlockAlign
               IN  patches' = IF ~setup.rf64 /\ riff <= RiffMax
                              THEN RiffPatches(riff, samples) ELSE RF64Patches(riff, samples)
            /\ pc' = "patch"
            /\ UNCHANGED <<setup, opened, closed, complete, taken>>

(* patch: a seek and a write, either of which may be refused.              *)
Over(patch) ==
    [i \in DOMAIN file |->
       IF i - patch.at \in DOMAIN patch.units THEN patch.units[i - patch.at] ELSE file[i]]

PatchHeader ==
    /\ setup.format = "wav" /\ pc = "patch" /\ patches # <<>>
    /\ patches' = Tail(patches)
    /\ \/ failed /\ UNCHANGED medium
       \/ ~failed /\ file' = Over(Head(patches)) /\ UNCHANGED <<torn, failed, refusals>>
       \/ /\ ~failed /\ refusals < MaxRefusals
          /\ refusals' = refusals + 1
          /\ failed' = TRUE
          /\ torn' \in BOOLEAN
          /\ UNCHANGED file
    /\ UNCHANGED <<setup, opened, closed, complete, pc, taken>>

(* The last seek, back to the end, may be refused too.                     *)
WAVFinish ==
    /\ setup.format = "wav" /\ pc = "patch" /\ patches = <<>>
    /\ \/ UNCHANGED medium
       \/ /\ ~failed /\ refusals < MaxRefusals
          /\ failed' = TRUE /\ refusals' = refusals + 1
          /\ UNCHANGED <<file, torn>>
    /\ Finished
    /\ UNCHANGED patches

WAVInit == patches = <<>>

WAVNext ==
    \/ WAVAddTrack \/ WAVClose \/ StateSizes \/ PatchHeader \/ WAVFinish
    \/ \E s \in Samples(setup) : WAVWriteSample(s)
=============================================================================
