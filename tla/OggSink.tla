------------------------------ MODULE OggSink ------------------------------
(***************************************************************************)
(* oggSink (audiowriter_ogg.go): packets are laced into segments, segments *)
(* make a page, and a closed page waits for the next one to be closed, in  *)
(* case it is the last: that one says how long the audio is.               *)
(*                                                                         *)
(* A segment is SegmentSize bytes or, at the end of a packet, fewer; a     *)
(* byte is the packet it is of and its place there, the header packets     *)
(* being counted below zero.  A track's setup is                           *)
(*   [format, codec, headers, timescale, second, edit]                     *)
(* with the lengths of its header packets, and edit {} or                  *)
(* {[scale, media, duration]}, an edit at normal rate.  A sample is        *)
(* [len, size, before, dur]: a packet that decodes to size samples or, for *)
(* Vorbis, is a block of size that says what the block before it was.      *)
(***************************************************************************)
EXTENDS AudioWriter

CONSTANTS
    SegmentSize, \* 255: the bytes of a full segment
    MaxSegments, \* 255: the segments of a full page
    ShortBlock   \* blocks[0] of a Vorbis stream

ASSUME OggAssumption ==
    /\ SegmentSize \in Nat \ {0}
    /\ MaxSegments \in Nat \ {0, 1}
    /\ \A s \in Setups : s.format = "ogg" =>
         /\ s.headers \in Seq(Nat \ {0})
         /\ Len(s.headers) > 1
         /\ s.headers[1] < MaxSegments
         /\ \A sample \in Samples(s) : sample.len \in Nat

VARIABLES
    segments, body, continued, granule, pageStart, \* the open page
    pending,        \* o.pending: {} or {a page}
    seq,            \* o.seq
    position, trim, \* o.position, o.trim
    blocks,         \* [previous, first]: what step keeps of a Vorbis stream
    packets,        \* the packets the call in progress has yet to lace
    rest            \* what is left of the one it is lacing

openPage == <<segments, body, continued, granule, pageStart>>
stream == <<position, trim, blocks>>
oggVars == <<openPage, pending, seq, stream, packets, rest>>

NoGranule == -1
MaxBody == SegmentSize * MaxSegments

Bytes(packet, len) == [i \in 1..len |-> <<packet, i>>]

(***************************************************************************)
(* Times.  rescale rounds down.                                            *)
(***************************************************************************)
Rescale(ticks, from, to) == IF from = to THEN ticks ELSE (ticks * to) \div from

(* oggPresentedEnd: {} or {the position where the audio stops}.            *)
PresentedEnd ==
    {Rescale(Rescale(e.duration, e.scale, setup.timescale) + e.media,
             setup.timescale, setup.second) : e \in setup.edit}

(* What step makes of a packet: how long it lasts, and how far it moves    *)
(* the position, which a first Vorbis packet does not.                     *)
Vorbis == setup.codec = "vorbis"

BlockBefore(s) == IF s.size > ShortBlock THEN s.before ELSE blocks.previous

DurationOf(s) == IF Vorbis THEN BlockBefore(s) \div 4 + s.size \div 4 ELSE s.size

StepOf(s) == IF Vorbis /\ blocks.first THEN 0 ELSE DurationOf(s)

(* A tick of a timescale coarser than the positions, in their unit.        *)
Slack ==
    IF setup.timescale >= setup.second THEN 0
    ELSE (setup.second + setup.timescale - 1) \div setup.timescale

(* What is cut off the end of the sample, if it is the last.               *)
Trim(s) ==
    LET short == DurationOf(s) - Rescale(s.dur, setup.timescale, setup.second)
    IN  IF short > Slack THEN short ELSE 0

(***************************************************************************)
(* Pages.  emit numbers a page and writes it.                              *)
(***************************************************************************)
OpenPage(bos) ==
    [bos |-> bos, continued |-> continued, eos |-> FALSE, granule |-> granule,
     segments |-> segments, body |-> body]

Numbered(page) ==
    [bos |-> page.bos, continued |-> page.continued, eos |-> page.eos,
     granule |-> page.granule, segments |-> page.segments, body |-> page.body, seq |-> seq]

Emit(page) ==
    /\ Write(<<Numbered(page)>>)
    /\ seq' = seq + 1

NewPage(goesOn) ==
    /\ segments' = <<>> /\ body' = <<>> /\ continued' = goesOn /\ granule' = NoGranule
    /\ pageStart' = position

(* cut: the page takes the place of the one that waits, which is written.  *)
Cut(page, goesOn) ==
    /\ pending' = {page}
    /\ NewPage(goesOn)
    /\ \/ pending = {} /\ UNCHANGED <<medium, seq>>
       \/ \E waiting \in pending : Emit(waiting)

(***************************************************************************)
(* packet, a step for each turn of its loop.  A packet that would pass     *)
(* what a page can hold starts on a new one.                               *)
(***************************************************************************)
Fits == body = <<>> \/ Len(body) + Len(rest) <= MaxBody

StartPacket ==
    /\ setup.format = "ogg" /\ pc = "packet"
    /\ IF Fits THEN UNCHANGED <<medium, seq, pending, openPage>> ELSE Cut(OpenPage(FALSE), FALSE)
    /\ pc' = "lace"
    /\ UNCHANGED <<setup, opened, closed, complete, taken, stream, packets, rest>>

(* len(p)/255 + 1 segments: the first that is not full is the last.        *)
(* Mutant: a packet of full segments ends with them.                       *)
EndsHereIfEmptied == Len(rest) <= SegmentSize
EndsHere == Len(rest) < SegmentSize

LaceSegment ==
    /\ setup.format = "ogg" /\ pc = "lace" /\ Len(segments) < MaxSegments
    /\ LET n == IF Len(rest) < SegmentSize THEN Len(rest) ELSE SegmentSize
       IN  /\ segments' = Append(segments, n)
           /\ body' = body \o SubSeq(rest, 1, n)
           /\ rest' = SubSeq(rest, n + 1, Len(rest))
    /\ pc' = IF EndsHere THEN "end" ELSE "lace"
    /\ UNCHANGED <<setup, opened, closed, complete, medium, taken, continued, granule,
                   pageStart, pending, seq, stream, packets>>

ContinuePacket ==
    /\ setup.format = "ogg" /\ pc = "lace" /\ Len(segments) = MaxSegments
    /\ Cut(OpenPage(FALSE), TRUE)
    /\ UNCHANGED <<setup, opened, closed, complete, pc, taken, stream, packets, rest>>

(* A packet ends: the page is cut when it is full, when it has lasted a    *)
(* second, and behind the first and the last header packet, the page of    *)
(* the first being marked as the beginning.                                *)
FirstHeader == ~opened /\ packets # <<>> /\ Len(packets) = Len(setup.headers) - 1

EndsPage ==
    \/ Len(segments) = MaxSegments
    \/ FirstHeader \/ (~opened /\ packets = <<>>)
    \/ opened /\ position - pageStart >= setup.second

Ended ==
    [bos |-> FirstHeader, continued |-> continued, eos |-> FALSE, granule |-> position,
     segments |-> segments, body |-> body]

EndPacket ==
    /\ setup.format = "ogg" /\ pc = "end"
    /\ IF EndsPage THEN Cut(Ended, FALSE)
       ELSE /\ granule' = position
            /\ UNCHANGED <<medium, seq, pending, segments, body, continued, pageStart>>
    /\ \/ /\ packets # <<>>
          /\ rest' = Head(packets) /\ packets' = Tail(packets)
          /\ pc' = "packet"
          /\ UNCHANGED <<setup, opened, closed, complete, taken>>
       \/ /\ packets = <<>>
          /\ IF opened THEN SampleWritten ELSE TrackAdded
          /\ UNCHANGED <<packets, rest>>
    /\ UNCHANGED stream

(***************************************************************************)
(* The calls.                                                              *)
(***************************************************************************)
OggAddTrack ==
    /\ setup.format = "ogg" /\ CanAddTrack
    /\ segments' = <<>> /\ body' = <<>> /\ continued' = FALSE /\ granule' = NoGranule
    /\ pageStart' = 0 /\ pending' = {} /\ seq' = 0 /\ position' = 0 /\ trim' = 0
    /\ blocks' = [previous |-> ShortBlock, first |-> TRUE]
    /\ rest' = Bytes(-1, setup.headers[1])
    /\ packets' = [i \in 1..(Len(setup.headers) - 1) |-> Bytes(-i - 1, setup.headers[i + 1])]
    /\ pc' = "packet"
    /\ UNCHANGED <<setup, opened, closed, complete, medium, taken>>

OggWriteSample(s) ==
    /\ setup.format = "ogg" /\ CanWriteSample
    /\ position' = position + StepOf(s)
    /\ trim' = Trim(s)
    /\ blocks' = [previous |-> s.size, first |-> FALSE]
    /\ taken' = Append(taken, s)
    /\ rest' = Bytes(Len(taken), s.len)
    /\ pc' = "packet"
    /\ UNCHANGED <<setup, opened, closed, complete, medium, openPage, pending, seq, packets>>

OggClose ==
    /\ setup.format = "ogg" /\ pc = "idle" /\ ~closed /\ opened
    /\ closed' = TRUE
    /\ IF segments = <<>> THEN UNCHANGED <<medium, seq, pending, openPage>>
       ELSE Cut(OpenPage(FALSE), FALSE)
    /\ pc' = "last"
    /\ UNCHANGED <<setup, opened, complete, taken, stream, packets, rest>>

(* Mutant: the end of the edit takes the place of the last position even   *)
(* when it lies behind it.                                                 *)
LastGranuleOfEdit(g) ==
    IF g = NoGranule THEN g ELSE IF PresentedEnd # {} THEN Max(PresentedEnd) ELSE g - trim

LastGranule(g) ==
    IF g = NoGranule THEN g ELSE Min({g - trim} \union PresentedEnd)

OggFinish ==
    /\ setup.format = "ogg" /\ pc = "last"
    /\ \E page \in pending :
         Emit([bos |-> page.bos, continued |-> page.continued, eos |-> TRUE,
               granule |-> LastGranule(page.granule),
               segments |-> page.segments, body |-> page.body])
    /\ Finished
    /\ UNCHANGED <<openPage, pending, stream, packets, rest>>

OggInit ==
    /\ segments = <<>> /\ body = <<>> /\ continued = FALSE /\ granule = NoGranule
    /\ pageStart = 0 /\ pending = {} /\ seq = 0 /\ position = 0 /\ trim = 0
    /\ blocks = [previous |-> ShortBlock, first |-> TRUE]
    /\ packets = <<>> /\ rest = <<>>

OggNext ==
    \/ OggAddTrack \/ OggClose \/ OggFinish
    \/ StartPacket \/ LaceSegment \/ ContinuePacket \/ EndPacket
    \/ \E s \in Samples(setup) : OggWriteSample(s)
=============================================================================
