----------------------------- MODULE MCCopying -----------------------------
(***************************************************************************)
(* Calls of Remux, Cut, Concat and Join small enough for TLC: a second has *)
(* twelve nanoseconds, and films last about two seconds.                   *)
(***************************************************************************)
EXTENDS CopiedFile

S(dur, sync) == [dur |-> dur, offset |-> 0, sync |-> sync, timed |-> FALSE, n |-> 0]
Track(kind, codec, scale, samples) ==
    [kind |-> kind, codec |-> codec, parameters |-> 1, frames |-> 0, scale |-> scale,
     samples |-> samples, edits |-> {}]

(* Frames with two sync samples; one video begins with a leading one.      *)
Video == Track("video", "avc1", 3, <<S(1, TRUE), S(2, FALSE), S(1, TRUE), S(2, FALSE)>>)
LateVideo == Track("video", "avc1", 3, <<S(1, FALSE), S(2, TRUE), S(1, FALSE), S(2, TRUE)>>)
Reordered == [Video EXCEPT !.samples[1].offset = 1, !.samples[2].offset = 1]
Audio == Track("audio", "mp4a", 4, <<S(2, TRUE), S(2, TRUE), S(1, TRUE), S(2, TRUE)>>)
Web == [Video EXCEPT !.codec = "vp09"]
Coarse == Track("audio", "mp4a", 4, <<S(3, TRUE), S(3, FALSE), S(2, TRUE)>>)
Text == Track("text", "wvtt", 5, <<S(4, TRUE), S(3, TRUE), S(1, TRUE)>>)
Plain == [Text EXCEPT !.codec = "tx3g"]
Timed == [Text EXCEPT !.samples[2].timed = TRUE]
TimedLater == [Text EXCEPT !.samples[3].timed = TRUE]
Document == [Text EXCEPT !.codec = "stpp"]
Empty == [Audio EXCEPT !.samples = <<>>]
Unstated == [Audio EXCEPT !.codec = "ac-3", !.parameters = 0]
Framed == [Unstated EXCEPT !.frames = 1]

WithList(t, movie, edits) == [t EXCEPT !.edits = {[movie |-> movie, edits |-> edits]}]
E(length, media) == [length |-> length, media |-> media, normal |-> TRUE]
Delay(length) == E(length, EmptyEdit)
Dwell == [E(2, 1) EXCEPT !.normal = FALSE]

Lists(t) ==
    {WithList(t, movie, <<E(length, media)>>) : movie \in {2, 7}, length \in {0, 2, 3, 4, 12}, media \in 0..1}
      \union {WithList(t, 2, edits) : edits \in {<<Delay(1), E(4, 0)>>, <<Delay(0), E(4, 0)>>, <<Dwell>>,
                                                 <<E(2, 0), E(2, 2)>>}}

Source1(tracks) == [tracks |-> tracks, truncated |-> FALSE]
Job(op, sources) ==
    [op |-> op, sources |-> sources, start |-> 0, end |-> 0, strict |-> FALSE, drop |-> {},
     allowTruncated |-> FALSE, audio |-> FALSE]

Films ==
    {<<Video, Audio, Text>>, <<Audio, LateVideo, Plain>>, <<Text, Coarse>>, <<Video, Timed>>,
     <<Video, TimedLater>>, <<Video, Document>>}

Cuts ==
    {[Job("cut", <<Source1(film)>>) EXCEPT !.start = start, !.end = end, !.strict = strict] :
       film \in Films, start \in {0, 2, 4, 9, 12, 14, 16, 24}, end \in {0, 8, 16, 21}, strict \in BOOLEAN}

CutLists ==
    {[Job("cut", <<Source1(<<t, Text>>)>>) EXCEPT !.start = 12, !.end = end] :
       t \in Lists(Reordered), end \in {0, 13}}

Concats ==
    {Job("concat", <<Source1(film), Source1(film), Source1(other)>>) :
       film \in Films \union {<<Video, Text, Plain>>}, other \in Films}
      \union {Job("concat", <<Source1(film), Source1(other)>>) :
                film \in {<<Video, Audio, Timed>>}, other \in {<<Video, Audio, Text>>}}
      \union {Job("concat", <<Source1(<<t>>), Source1(<<[t EXCEPT !.parameters = 2]>>)>>) :
                t \in {Video, Web}}
      \union {Job("concat", <<Source1(<<Video, Text>>), Source1(<<Reordered, t>>)>>) : t \in Lists(Text)}
      \union {Job("concat", <<Source1(<<Video, t>>), Source1(<<Video, t>>)>>) : t \in Lists(Text)}

Remuxes == {Job("remux", <<Source1(<<t, Framed>>)>>) : t \in Lists(Video)}

Joins ==
    {Job("join", <<Source1(<<Video, Empty>>), Source1(<<Text, t>>)>>) : t \in {Audio, Unstated, Framed}}

(* Tracks left out, unreadable and undescribable ones, audio on its own.   *)
Odd ==
    {[Job(op, <<Source1(<<Video, t>>), Source1(<<Video, Audio>>)>>) EXCEPT !.drop = drop] :
       op \in {"concat", "join"}, t \in {Audio, Empty, Unstated}, drop \in {{}, {1}, {2}, {3}, {1, 2}}}
      \union {[Job("concat", <<Source1(<<Video, Audio>>)>>) EXCEPT !.audio = TRUE, !.drop = drop] :
                drop \in {{}, {1}}}
      \union {[Job("cut", <<Source1(<<Video, Audio>>)>>) EXCEPT !.start = -1]}

Truncated ==
    {[Job(op, <<[Source1(<<Video, Audio>>) EXCEPT !.truncated = TRUE]>>) EXCEPT !.allowTruncated = allowed] :
       op \in {"remux", "cut", "concat", "join"}, allowed \in BOOLEAN}

AllJobs == Cuts \union CutLists \union Concats \union Remuxes \union Joins \union Odd \union Truncated
=============================================================================
