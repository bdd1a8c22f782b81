----------------------------- MODULE WAVReader -----------------------------
(***************************************************************************)
(* What readWAV (wav.go) makes of a file of the units of WAVSink.          *)
(***************************************************************************)
EXTENDS Integers, SequencesExt, FiniteSetsExt

CONSTANTS SizeUnknown, PacketFrames

Failed == [error |-> "malformed", samples |-> <<>>]

(* The units a chunk of the header and its own header take.                *)
ChunkHeader == 4
Units(bytes) == bytes \div 2

(* wavTrack: size is what the data chunk states, the audio runs to the end *)
(* of the file.  A size of zero or unknown means all of it.                *)
Usable(payload, size, align) ==
    LET bytes == IF size \in {0, SizeUnknown} THEN Len(payload) ELSE Min({size, Len(payload)})
    IN  (bytes \div align) * align

WAVTrack(payload, size, align) ==
    LET usable == Usable(payload, size, align)
        step == PacketFrames * align
        whole == IF size \in {0, SizeUnknown} THEN Len(payload) ELSE size
        starts == [n \in 1..((usable + step - 1) \div step) |-> (n - 1) * step]
    IN  [error |-> IF usable = whole THEN "none" ELSE "truncated",
         samples |-> [n \in DOMAIN starts |->
            LET end == Min({starts[n] + step, usable})
            IN  [data |-> SubSeq(payload, starts[n] + 1, end),
                 dur |-> (end - starts[n]) \div align]]]

(***************************************************************************)
(* readWAV: the chunks from the twelfth byte on, up to the data or to one  *)
(* that the file ends in.                                                  *)
(***************************************************************************)
Kind(file, at) == file[at + 1].kind
Stated(file, at) == file[at + 3].value
Content(file, at, i) == file[at + ChunkHeader + i].value
Behind(file, at) == at + ChunkHeader + Units(Stated(file, at))

ChunksOf(file) ==
    LET from[at \in 0..Len(file)] ==
          IF at + ChunkHeader > Len(file) THEN <<>>
          ELSE IF Kind(file, at) = "data" \/ Behind(file, at) > Len(file) THEN <<at>>
          ELSE <<at>> \o from[Behind(file, at)]
    IN  from[6]

(* What a ds64 chunk, of a file that is not RIFF, says of the data is its  *)
(* size when the data chunk does not state one.                            *)
DataSize(file, wide, chunks) ==
    LET at == Last(chunks)
        sizes64 == SelectSeq(chunks, LAMBDA c : Kind(file, c) = "ds64")
    IN  CASE Stated(file, at) # SizeUnknown \/ ~wide -> Stated(file, at)
          [] OTHER -> IF sizes64 = <<>> THEN 0 ELSE Content(file, Last(sizes64), 5)

ReadWAV(file) ==
    LET chunks == IF Len(file) < 6 THEN <<>> ELSE ChunksOf(file)
        formats == SelectSeq(chunks, LAMBDA c : Kind(file, c) = "fmt ")
        at == Last(chunks)
    IN  IF chunks = <<>> \/ Kind(file, Last(chunks)) # "data" \/ formats = <<>> THEN Failed
        ELSE WAVTrack([i \in 1..(Len(file) - at - ChunkHeader) |-> Content(file, at, i)],
                      DataSize(file, file[1].kind # "RIFF", chunks),
                      Content(file, Last(formats), 1))
=============================================================================
