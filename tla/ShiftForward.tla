---------------------------- MODULE ShiftForward ----------------------------
(***************************************************************************)
(* How a segment index gets in front of fragments that are already in the  *)
(* file (shiftForward, and the end of segmentIndex.finish, sidx.go): the   *)
(* fragments are moved forward by the size of the index, one block at a    *)
(* time from the last, and the index is written in the room that leaves.   *)
(*                                                                         *)
(* A byte is named after where it comes from: <<"file", i>> is what the    *)
(* file held at offset i when the index was finished.  Any seek, read or   *)
(* write may fail, a write after putting out part of what it was given.    *)
(***************************************************************************)
EXTENDS Integers

CONSTANTS
    Size,    \* how many bytes the file holds
    Calls,   \* the [start, end, room, block] the index may be finished with
    MayFail  \* whether the file may refuse an operation

ASSUME ShiftAssumption ==
    /\ Size \in Nat
    /\ Calls \subseteq [start : Nat, end : Nat, room : Nat, block : Nat \ {0}]
    /\ \A c \in Calls : c.start <= c.end /\ c.end <= Size
    /\ MayFail \in BOOLEAN

VARIABLES
    args,  \* start and end of the fragments, size of the index, shiftBlock
    file,  \* what is at each offset
    at,    \* shiftForward's at
    n,     \* how much of buf the last block takes
    buf,   \* the block last read
    pos,   \* where the writer is left
    pc     \* "read", "write", "seek", "done" or "failed"

vars == <<args, file, at, n, buf, pos, pc>>

Smaller(a, b) == IF a < b THEN a ELSE b
Original == [i \in 0..(Size - 1) |-> <<"file", i>>]
Index == [j \in 0..(args.room - 1) |-> <<"sidx", j>>]
Hole == <<"hole", 0>>

(* f once the first k bytes of data have been written at offset o; what a  *)
(* write past the end of f skips reads as a hole.                          *)
Put(f, o, data, k) ==
    IF k = 0 THEN f
    ELSE [i \in DOMAIN f \cup 0..(o + k - 1) |->
            IF o <= i /\ i < o + k THEN data[i - o]
            ELSE IF i \in DOMAIN f THEN f[i] ELSE Hole]

(* Mutant: a last, shorter block is left where it is.                      *)
MoreThanABlock == at - args.start >= args.block

(* The loop goes on while anything is left before at.                      *)
MoreToMove == at > args.start
BlockLen == Smaller(args.block, at - args.start)

ReadBlock ==
    /\ pc = "read" /\ MoreToMove
    /\ n' = BlockLen
    /\ at' = at - n'
    /\ buf' = [j \in 0..(n' - 1) |-> file[at' + j]]
    /\ pc' = "write"
    /\ UNCHANGED <<args, file, pos>>

(* Mutant: the block goes its own length too far back.                     *)
WriteBlockEarly ==
    /\ pc = "write"
    /\ file' = Put(file, at - n + args.room, buf, n)
    /\ pc' = "read"
    /\ UNCHANGED <<args, at, n, buf, pos>>

WriteBlock ==
    /\ pc = "write"
    /\ file' = Put(file, at + args.room, buf, n)
    /\ pc' = "read"
    /\ UNCHANGED <<args, at, n, buf, pos>>

(* The index goes where the fragments started, and the writer is left      *)
(* behind them.                                                            *)
WriteIndex ==
    /\ pc = "read" /\ ~MoreToMove
    /\ file' = Put(file, args.start, Index, args.room)
    /\ pc' = "seek"
    /\ UNCHANGED <<args, at, n, buf, pos>>

SeekPast ==
    /\ pc = "seek"
    /\ pos' = args.end + args.room
    /\ pc' = "done"
    /\ UNCHANGED <<args, file, at, n, buf>>

(* An operation fails.  What it was asked to write may be there in part,   *)
(* never in whole.                                                         *)
FailsWith(k) ==
    \/ /\ pc = "write" /\ k < n
       /\ file' = Put(file, at + args.room, buf, k)
    \/ /\ pc = "read" /\ ~MoreToMove /\ k < args.room
       /\ file' = Put(file, args.start, Index, k)
    \/ /\ pc \in {"read", "seek"} /\ k = 0
       /\ file' = file

Fails ==
    /\ MayFail
    /\ \E k \in 0..Size : FailsWith(k)
    /\ pc' = "failed"
    /\ UNCHANGED <<args, at, n, buf, pos>>

Init ==
    /\ args \in Calls
    /\ file = Original
    /\ at = args.end /\ n = 0 /\ buf = <<>>
    /\ pos = args.end
    /\ pc = "read"

Next == ReadBlock \/ WriteBlock \/ WriteIndex \/ SeekPast \/ Fails

Spec == Init /\ [][Next]_vars

(***************************************************************************)
(* Properties.                                                             *)
(***************************************************************************)
Holds(i, byte) == i \in DOMAIN file /\ file[i] = byte

(* Byte i of the fragments is where it was, or where it is to be.          *)
Kept(i) == Holds(i, <<"file", i>>) \/ Holds(i + args.room, <<"file", i>>)

(* When finish succeeds the file is what it was with the index inserted at *)
(* start: what precedes the fragments is untouched, the fragments follow   *)
(* the index byte for byte, with no hole left, and the writer stands right *)
(* behind them, whichever of the block and the room is larger.             *)
IndexInserted ==
    pc = "done" =>
        /\ \A i \in 0..(args.start - 1) : Holds(i, <<"file", i>>)
        /\ \A j \in 0..(args.room - 1) : Holds(args.start + j, <<"sidx", j>>)
        /\ \A i \in args.start..(args.end - 1) : Holds(i + args.room, <<"file", i>>)
        /\ pos = args.end + args.room

(* "starting from the end so that nothing is overwritten before it is      *)
(* read": what is still to be read is as the file had it, even when a      *)
(* write has just failed, and so is what the move never touches.           *)
NothingOverwrittenUnread ==
    /\ \A i \in 0..(Smaller(at, args.start) - 1) : Holds(i, <<"file", i>>)
    /\ pc \in {"read", "write"} =>
         \A i \in 0..(at - 1) : Holds(i, <<"file", i>>)

(* Every byte of the fragments can be found again after any failure, but   *)
(* for those of the one block being written.                               *)
FailureSparesOtherBlocks ==
    pc = "failed" =>
        \E o \in args.start..args.end :
            \A i \in args.start..(args.end - 1) :
                i < o \/ i >= o + args.block => Kept(i)
=============================================================================
