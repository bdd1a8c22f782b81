--------------------------- MODULE MCShiftForward ---------------------------
(***************************************************************************)
(* Every move within a small file: blocks smaller than, equal to and       *)
(* larger than the room, a last block that is short, fragments that end    *)
(* where the file does and fragments that do not, and none at all.         *)
(***************************************************************************)
EXTENDS ShiftForward

CONSTANTS MaxRoom, MaxBlock

EveryCall ==
    {c \in [start : 0..Size, end : 0..Size, room : 1..MaxRoom, block : 1..MaxBlock] :
        c.start <= c.end}
=============================================================================
