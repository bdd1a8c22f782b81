----------------------------- MODULE OggReader -----------------------------
(***************************************************************************)
(* What ogg.go makes of the pages of one logical stream: its packets, the  *)
(* track their mapping makes of them, and how long each packet lasts.  A   *)
(* page is [bos, continued, eos, granule, segments, body, seq].            *)
(***************************************************************************)
EXTENDS Integers, SequencesExt, FiniteSetsExt

CONSTANTS SegmentSize, NoGranule

(***************************************************************************)
(* oggStream.add: a segment that is not full ends a packet.                *)
(***************************************************************************)
EmptyStream ==
    [packets |-> <<>>, partial |-> <<>>, open |-> FALSE, eos |-> FALSE, next |-> {},
     error |-> "none"]

WithSegment(s, piece, len) ==
    IF len = SegmentSize
    THEN [s EXCEPT !.partial = @ \o piece, !.open = TRUE]
    ELSE [s EXCEPT !.packets = Append(@, [data |-> s.partial \o piece, granule |-> NoGranule,
                                          eos |-> FALSE]),
                   !.partial = <<>>, !.open = FALSE]

BodyBefore(page, i) == FoldLeft(LAMBDA n, len : n + len, 0, SubSeq(page.segments, 1, i - 1))

Piece(page, i) ==
    SubSeq(page.body, BodyBefore(page, i) + 1, BodyBefore(page, i) + page.segments[i])

WithSegments(s, page) ==
    FoldLeft(LAMBDA acc, i : WithSegment(acc, Piece(page, i), page.segments[i]),
             s, [i \in DOMAIN page.segments |-> i])

(* The granule position is that of the last packet to end on the page.     *)
WithGranule(s, page) ==
    IF \E i \in DOMAIN page.segments : page.segments[i] < SegmentSize
    THEN [s EXCEPT !.packets[Len(s.packets)].granule = page.granule,
                   !.packets[Len(s.packets)].eos = page.eos]
    ELSE s

(* oggStreams: the pages of the stream in order, up to one that does not   *)
(* follow from those before it.                                            *)
Misplaced(s, page) ==
    \/ s.next = {} /\ ~page.bos
    \/ s.eos
    \/ s.next # {} /\ page.seq \notin s.next
    \/ page.continued # s.open

WithPage(s, page) ==
    IF s.error # "none" THEN s
    ELSE IF Misplaced(s, page) THEN [s EXCEPT !.error = "malformed"]
    ELSE LET read == WithGranule(WithSegments(s, page), page)
         IN  [read EXCEPT !.next = {page.seq + 1}, !.eos = page.eos,
                          !.error = IF read.open /\ page.eos THEN "malformed" ELSE "none"]

(* The packets, and what is wrong with the pages.  Whether the packets are *)
(* a track is for their mapping to say (OggTrack): the reader has the one  *)
(* error and the other.  torn says that part of a page follows.            *)
OggStream(pages, torn) ==
    LET read == FoldLeft(WithPage, EmptyStream, pages)
    IN  IF read.error = "none" /\ (torn \/ read.open)
        THEN [read EXCEPT !.error = "truncated"] ELSE read

(***************************************************************************)
(* vorbisDurations: what a packet adds to the one before it.  A block is   *)
(* [size, before]; only a long one says what came before.                  *)
(***************************************************************************)
VorbisDurations(infos, shortBlock) ==
    LET previous(i) == IF infos[i].size > shortBlock THEN infos[i].before
                       ELSE IF i = 1 THEN shortBlock ELSE infos[i - 1].size
    IN  [i \in DOMAIN infos |-> previous(i) \div 4 + infos[i].size \div 4]

SumOver(f, i) == FoldLeft(LAMBDA n, j : n + f[j], 0, [j \in 1..i |-> j])

(***************************************************************************)
(* checkGranules: between two pages that state a position lie the samples  *)
(* of the packets between them, or fewer on the last page.                 *)
(***************************************************************************)
GranulesAgree(audio, steps) ==
    LET stated == {i \in DOMAIN audio : audio[i].granule # NoGranule}
    IN  \A i, j \in stated :
          (i < j /\ ~\E k \in stated : i < k /\ k < j) =>
             LET next == audio[i].granule + SumOver(steps, j) - SumOver(steps, i)
             IN  audio[j].granule = next \/ (audio[j].eos /\ audio[j].granule < next)

(***************************************************************************)
(* oggTrack and the mappings: the header packets a codec's stream begins   *)
(* with, of which those of a FLAC stream behind the first are only passed  *)
(* over, then packets of audio.  A header packet is known by what its      *)
(* first byte is of: -1, -2 and so on, where audio counts from 0.  steps   *)
(* is what each packet of audio adds to the position.                      *)
(***************************************************************************)
HeaderPackets == [opus |-> 2, vorbis |-> 3, flac |-> 1]

IsHeader(packet, i) == packet.data # <<>> /\ packet.data[1][1] = -i
IsAudio(packet) == packet.data # <<>> /\ packet.data[1][1] >= 0

Audio(packets, codec) ==
    LET behind == SubSeq(packets, HeaderPackets[codec] + 1, Len(packets))
        frames == {i \in DOMAIN behind : IsAudio(behind[i])}
    IN  IF codec # "flac" THEN behind
        ELSE IF frames = {} THEN <<>> ELSE SubSeq(behind, Min(frames), Len(behind))

OggTrack(packets, codec, steps) ==
    LET audio == Audio(packets, codec)
        wellFormed ==
          /\ HeaderPackets[codec] <= Len(packets)
          /\ \A i \in 1..HeaderPackets[codec] : IsHeader(packets[i], i)
          /\ \A i \in DOMAIN audio : IsAudio(audio[i])
          /\ codec = "vorbis" => GranulesAgree(audio, steps)
    IN  [audio |-> audio, error |-> IF wellFormed THEN "none" ELSE "malformed"]

(***************************************************************************)
(* oggSamples: the last packet is cut to the position the last page says.  *)
(***************************************************************************)
StartPosition(audio, steps) ==
    LET stating == {i \in DOMAIN audio : audio[i].granule # NoGranule /\ ~audio[i].eos}
    IN  IF stating = {} THEN 0
        ELSE audio[Min(stating)].granule - SumOver(steps, Min(stating))

SampleDurations(audio, durations, steps) ==
    [i \in DOMAIN audio |->
       LET position == StartPosition(audio, steps) + SumOver(steps, i)
           p == audio[i]
       IN  IF p.eos /\ p.granule # NoGranule /\ p.granule < position /\ i = Len(audio)
           THEN Max({durations[i] - (position - p.granule), 1}) ELSE durations[i]]
=============================================================================
