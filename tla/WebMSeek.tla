------------------------------ MODULE WebMSeek ------------------------------
(***************************************************************************)
(* The lengths of EBML elements, and the room the SeekHead of a Matroska   *)
(* segment is given (webmseek.go).  A file is a sequence of fields, each   *)
(* with its size in bytes: the identifier of an element, its size field,   *)
(* or the whole of an element nothing looks into.                          *)
(***************************************************************************)
EXTENDS Integers, SequencesExt

CONSTANTS
    InfoLen,   \* the length of Info without its Duration
    TracksLen, \* of Tracks
    Others     \* of what else precedes the clusters: Attachments, Tags

ASSUME SeekAssumption ==
    InfoLen \in Nat /\ TracksLen \in Nat /\ Others \in Seq(Nat \ {0})

Size(fields) == FoldSeq(LAMBDA f, n : f.size + n, 0, fields)

(* How long the size field of n bytes is: the shortest, with all ones in   *)
(* each length set aside; four bytes are enough for what is modelled.      *)
EbmlSizeOf(n) == Min({w \in 1..4 : n < 2^(7 * w) - 1})

SeekEntrySize == 3 + (3 + 4) + (3 + 8)
SeekSlots == 7
SeekHeadSize(entries) ==
    4 + EbmlSizeOf(entries * SeekEntrySize) + entries * SeekEntrySize
SeekReserve(entries) == SeekHeadSize(Max({entries, SeekSlots}))

(* The payload of the Void that is to be total bytes long, and that Void.  *)
VoidPayload(total) == IF total - 2 < 127 THEN total - 2 ELSE total - 3
Void(total) ==
    IF total = 0 THEN <<>>
    ELSE <<[el |-> "void",
            size |-> 1 + EbmlSizeOf(VoidPayload(total)) + VoidPayload(total)]>>

(* The SeekHead and the Void that fill the room.  A seek is [el, at]: the  *)
(* element, and its position inside the segment.                           *)
SeekRegion(seeks, reserve) ==
    <<[el |-> "seekhead", size |-> SeekHeadSize(Len(seeks)), seeks |-> seeks]>>
      \o Void(reserve - SeekHeadSize(Len(seeks)))

(* Info: a Duration takes eleven bytes, and so does the room for one.  A   *)
(* Duration of zero is left out.                                           *)
Info(duration, room) ==
    [el |-> "info", duration |-> duration,
     size |-> InfoLen + IF duration > 0 \/ room THEN 11 ELSE 0]

(* What precedes the clusters, behind the SeekHead.                        *)
SegmentHead(duration, room) ==
    <<Info(duration, room), [el |-> "tracks", size |-> TracksLen]>>
      \o [i \in DOMAIN Others |-> [el |-> "other", size |-> Others[i]]]

(* measureHead and placeSeeks: where its elements are, behind by bytes.    *)
PlacedSeeks(head, by) ==
    [i \in DOMAIN head |-> [el |-> head[i].el, at |-> by + Size(SubSeq(head, 1, i - 1))]]

CuesSeek(at) == [el |-> "cues", at |-> at]

(* The opening of an element whose size is known, {n}, or left unknown.    *)
Opening(name, size, width) ==
    <<[el |-> name, size |-> 4], [el |-> "size", size |-> width, states |-> size]>>
UnknownSize(name) == Opening(name, {}, 8)
KnownSize(name, n) == Opening(name, {n}, EbmlSizeOf(n))

(* The fields put over what file holds from byte at on.  What they do not  *)
(* cover exactly is damaged.                                               *)
Overwritten(file, at, fields) ==
    LET from == {i \in DOMAIN file : Size(SubSeq(file, 1, i - 1)) = at}
        to == {i \in DOMAIN file : Size(SubSeq(file, 1, i)) = at + Size(fields)}
    IN  IF from = {} \/ to = {} THEN <<[el |-> "damaged", size |-> Size(file)]>>
        ELSE SubSeq(file, 1, Min(from) - 1) \o fields \o SubSeq(file, Min(to) + 1, Len(file))
=============================================================================
