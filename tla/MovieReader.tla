---------------------------- MODULE MovieReader ----------------------------
(***************************************************************************)
(* How a player finds the samples of a track from its sample tables        *)
(* (ISO/IEC 14496-12 section 8.6 and 8.7): the reference the tables a      *)
(* muxer writes are judged by.  A table is read the way the standard       *)
(* states it, never the way the muxer built it.                            *)
(*                                                                         *)
(* A track box is a record [sttsCounts, sttsDeltas, ctts, stsc, sizes,     *)
(* stss, offsets]; ctts and stss are sets holding the box, empty for a     *)
(* track that has none.                                                    *)
(***************************************************************************)
EXTENDS Integers, Sequences, Sums

(* The value the run-length table (counts, values) states for sample n.    *)
RunValue(counts, values, n) ==
    values[CHOOSE i \in DOMAIN counts : SumTo(counts, i - 1) < n /\ n <= SumTo(counts, i)]

(* How many samples the sample-to-chunk table says chunk c holds: what the *)
(* last entry starting at or before it states.                             *)
SamplesPerChunk(stsc, c) ==
    stsc[CHOOSE i \in DOMAIN stsc :
           /\ stsc[i].first <= c
           /\ i < Len(stsc) => stsc[i + 1].first > c].samples

(* How many samples come before chunk c.                                   *)
SamplesBefore(box, c) ==
    SumTo([d \in 1..(c - 1) |-> SamplesPerChunk(box.stsc, d)], c - 1)

ChunkOf(box, n) ==
    CHOOSE c \in DOMAIN box.offsets :
        LET before == SamplesBefore(box, c)
        IN  before < n /\ n <= before + SamplesPerChunk(box.stsc, c)

(* Where in the file the bytes of sample n start, counted from zero.       *)
SampleOffset(box, n) ==
    LET c == ChunkOf(box, n)
    IN  box.offsets[c] + SumTo(box.sizes, n - 1) - SumTo(box.sizes, SamplesBefore(box, c))

SampleBytes(box, file, n) ==
    LET at == SampleOffset(box, n)
    IN  SubSeq(file, at + 1, at + box.sizes[n])

SampleDuration(box, n) == RunValue(box.sttsCounts, box.sttsDeltas, n)

(* A composition table states the number of the last sample of each run,   *)
(* preceded by a zero.                                                     *)
SampleCompositionOffset(box, n) ==
    IF box.ctts = {} THEN 0
    ELSE LET ctts == CHOOSE b \in box.ctts : TRUE
         IN  ctts.values[CHOOSE i \in DOMAIN ctts.values :
                           ctts.ends[i] < n /\ n <= ctts.ends[i + 1]]

SampleIsSync(box, n) ==
    \/ box.stss = {}
    \/ \E stss \in box.stss : \E i \in DOMAIN stss : stss[i] = n
=============================================================================
