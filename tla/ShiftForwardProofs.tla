------------------------- MODULE ShiftForwardProofs -------------------------
(***************************************************************************)
(* That shiftForward inserts the index and loses nothing, for files of     *)
(* every size, blocks and indexes of every length, wherever it may fail.   *)
(***************************************************************************)
EXTENDS ShiftForward, TLAPS

(* A write changes nothing but what it covers.                             *)
LEMMA PutElsewhere ==
    ASSUME NEW f, NEW o \in Nat, NEW data, NEW k \in Nat,
           NEW i \in Nat, i \in DOMAIN f, i < o \/ o + k <= i
    PROVE  i \in DOMAIN Put(f, o, data, k) /\ Put(f, o, data, k)[i] = f[i]
BY DEF Put

(* What a write covers holds what was written.                             *)
LEMMA PutThere ==
    ASSUME NEW f, NEW o \in Nat, NEW data, NEW k \in Nat
    PROVE  \A j \in 0..(k - 1) :
             o + j \in DOMAIN Put(f, o, data, k) /\ Put(f, o, data, k)[o + j] = data[j]
<1> SUFFICES ASSUME NEW j \in 0..(k - 1)
             PROVE  o + j \in DOMAIN Put(f, o, data, k) /\ Put(f, o, data, k)[o + j] = data[j]
  OBVIOUS
<1>1. /\ o + j \in 0..(o + k - 1) /\ o <= o + j /\ o + j < o + k /\ (o + j) - o = j
      /\ k # 0
  OBVIOUS
<1> QED BY <1>1 DEF Put

(***************************************************************************)
(* The invariant: what lies before at is where it was, what lies behind    *)
(* the block in hand is where it is to be, and the block is in buf.        *)
(***************************************************************************)
Unmoved(k) == \A i \in 0..(k - 1) : Holds(i, <<"file", i>>)
MovedFrom(k) == \A i \in k..(args.end - 1) : Holds(i + args.room, <<"file", i>>)
BlockRead ==
    /\ n <= args.block /\ at + n <= args.end
    /\ \A j \in 0..(n - 1) : buf[j] = <<"file", at + j>>
IndexWritten == \A j \in 0..(args.room - 1) : Holds(args.start + j, <<"sidx", j>>)

IInv ==
    /\ args \in Calls
    /\ pc \in {"read", "write", "seek", "done", "failed"}
    /\ at \in Nat /\ n \in Nat /\ args.start <= at /\ at <= args.end
    /\ Unmoved(args.start)
    /\ pc \in {"read", "write"} => Unmoved(at)
    /\ pc = "write" => BlockRead /\ MovedFrom(at + n)
    /\ pc \in {"read", "seek", "done"} => MovedFrom(at)
    /\ pc \in {"seek", "done"} => at = args.start /\ IndexWritten
    /\ pc = "done" => pos = args.end + args.room
    /\ FailureSparesOtherBlocks

(* What the parameters of a call are.                                      *)
LEMMA CallType ==
    ASSUME args \in Calls
    PROVE  /\ args.start \in Nat /\ args.end \in Nat /\ args.room \in Nat
           /\ args.block \in Nat /\ args.block # 0
           /\ args.start <= args.end /\ args.end <= Size
BY ShiftAssumption

(* Nothing has moved when the loop starts.                                 *)
LEMMA InitInv == Init => IInv
<1> SUFFICES ASSUME Init PROVE IInv
  OBVIOUS
<1>1. /\ args \in Calls /\ pc = "read" /\ at = args.end /\ n = 0 /\ file = Original
  BY DEF Init
<1>2. /\ args.start \in Nat /\ args.end \in Nat /\ args.start <= args.end
      /\ args.end <= Size /\ Size \in Nat
  BY <1>1, CallType, ShiftAssumption
<1>3. Unmoved(args.end) /\ Unmoved(args.start)
  <2>1. \A i \in 0..(Size - 1) : Holds(i, <<"file", i>>)
    BY <1>1 DEF Holds, Original
  <2>2. /\ \A i \in 0..(args.end - 1) : i \in 0..(Size - 1)
        /\ \A i \in 0..(args.start - 1) : i \in 0..(Size - 1)
    BY <1>2
  <2> QED BY <2>1, <2>2 DEF Unmoved
<1>4. MovedFrom(at)
  BY <1>1, <1>2 DEF MovedFrom
<1> QED BY <1>1, <1>2, <1>3, <1>4 DEF IInv, FailureSparesOtherBlocks

(* Reading a block leaves the file alone and has the block in hand.        *)
LEMMA ReadBlockInv == IInv /\ ReadBlock => IInv'
<1> SUFFICES ASSUME IInv, ReadBlock PROVE IInv'
  OBVIOUS
<1>1. /\ args \in Calls /\ at \in Nat /\ args.start <= at /\ at <= args.end
      /\ pc = "read" /\ pc' = "write" /\ at > args.start
      /\ n' = BlockLen /\ at' = at - n'
      /\ buf' = [j \in 0..(n' - 1) |-> file[at' + j]]
      /\ UNCHANGED <<args, file, pos>>
  BY DEF IInv, ReadBlock, MoreToMove
<1>2. /\ args.start \in Nat /\ args.end \in Nat /\ args.room \in Nat
      /\ args.block \in Nat /\ args.block # 0
  BY <1>1, CallType
<1>3. /\ n' \in Nat /\ n' <= args.block /\ n' <= at - args.start
      /\ at' \in Nat /\ args.start <= at' /\ at' <= at /\ at' + n' = at
  <2>1. at - args.start \in Nat
    BY <1>1, <1>2
  <2>2. n' \in Nat /\ n' <= args.block /\ n' <= at - args.start
    BY <1>1, <1>2, <2>1 DEF BlockLen, Smaller
  <2> QED BY <1>1, <1>2, <2>2
<1>4. Unmoved(at) /\ MovedFrom(at) /\ Unmoved(args.start)
  BY <1>1 DEF IInv
<1>5. Unmoved(at)' /\ Unmoved(args.start)'
  BY <1>1, <1>2, <1>3, <1>4 DEF Unmoved, Holds
<1>6. MovedFrom(at + n)'
  BY <1>1, <1>2, <1>3, <1>4 DEF MovedFrom, Holds
<1>7. \A j \in 0..(n' - 1) : buf'[j] = <<"file", at' + j>>
  <2> SUFFICES ASSUME NEW j \in 0..(n' - 1) PROVE buf'[j] = <<"file", at' + j>>
    OBVIOUS
  <2>1. at' + j \in 0..(at - 1)
    BY <1>3, <1>1
  <2>2. file[at' + j] = <<"file", at' + j>>
    BY <1>4, <2>1 DEF Unmoved, Holds
  <2> QED BY <1>1, <2>2
<1>8. BlockRead'
  BY <1>1, <1>2, <1>3, <1>7 DEF BlockRead
<1> QED BY <1>1, <1>2, <1>3, <1>5, <1>6, <1>8 DEF IInv, FailureSparesOtherBlocks

(* Writing any number of the bytes of a block puts them where they are to  *)
(* be, and touches neither what is before nor what has been moved.         *)
LEMMA WriteKeeps ==
    ASSUME IInv, pc = "write", NEW k \in Nat, k <= n, args' = args, at' = at, n' = n,
           file' = Put(file, at + args.room, buf, k)
    PROVE  /\ Unmoved(at)' /\ Unmoved(args.start)' /\ MovedFrom(at + n)'
           /\ \A j \in 0..(k - 1) : Holds(at + args.room + j, <<"file", at + j>>)'
<1>1. /\ args \in Calls /\ at \in Nat /\ n \in Nat /\ args.start <= at
      /\ Unmoved(at) /\ BlockRead /\ MovedFrom(at + n)
  BY DEF IInv
<1>2. args.start \in Nat /\ args.end \in Nat /\ args.room \in Nat
  BY <1>1, CallType
<1> DEFINE o == at + args.room
<1>3. o \in Nat /\ at <= o /\ o + k <= at + n + args.room
  BY <1>1, <1>2
<1>4. /\ \A i \in Nat : i \in DOMAIN file /\ (i < o \/ o + k <= i) =>
           i \in DOMAIN file' /\ file'[i] = file[i]
      /\ \A j \in 0..(k - 1) : o + j \in DOMAIN file' /\ file'[o + j] = buf[j]
  <2> HIDE DEF o
  <2>1. file' = Put(file, o, buf, k)
    BY DEF o
  <2>2. ASSUME NEW i \in Nat, i \in DOMAIN file, i < o \/ o + k <= i
        PROVE  i \in DOMAIN file' /\ file'[i] = file[i]
    <3>1. o \in Nat
      BY <1>3
    <3>2. i \in DOMAIN Put(file, o, buf, k) /\ Put(file, o, buf, k)[i] = file[i]
      BY <2>2, <3>1, PutElsewhere
    <3> QED BY <2>1, <3>2
  <2>3. \A j \in 0..(k - 1) : o + j \in DOMAIN file' /\ file'[o + j] = buf[j]
    <3>1. o \in Nat
      BY <1>3
    <3> SUFFICES ASSUME NEW p \in Nat
                 PROVE  \A j \in 0..(k - 1) :
                          /\ p + j \in DOMAIN Put(file, p, buf, k)
                          /\ Put(file, p, buf, k)[p + j] = buf[j]
      BY <2>1, <3>1
    <3> QED BY PutThere
  <2> QED BY <2>2, <2>3
<1>5. Unmoved(at)'
  <2>1. \A i \in 0..(at - 1) : i \in Nat /\ i < o
    BY <1>1, <1>3
  <2> HIDE DEF o
  <2> QED BY <1>1, <1>4, <2>1 DEF Unmoved, Holds
<1>6. Unmoved(args.start)'
  <2>1. \A i \in 0..(args.start - 1) : i \in 0..(at - 1)
    BY <1>1, <1>2
  <2> QED BY <1>5, <2>1 DEF Unmoved
<1>7. MovedFrom(at + n)'
  <2> SUFFICES ASSUME NEW i \in (at + n)..(args.end - 1)
               PROVE  Holds(i + args.room, <<"file", i>>)'
    BY DEF MovedFrom
  <2>1. i + args.room \in Nat /\ o + k <= i + args.room
    BY <1>1, <1>2, <1>3
  <2>2. Holds(i + args.room, <<"file", i>>)
    BY <1>1 DEF MovedFrom
  <2> HIDE DEF o
  <2> QED BY <1>4, <2>1, <2>2 DEF Holds
<1>8. \A j \in 0..(k - 1) : Holds(at + args.room + j, <<"file", at + j>>)'
  <2> SUFFICES ASSUME NEW j \in 0..(k - 1)
               PROVE  Holds(at + args.room + j, <<"file", at + j>>)'
    OBVIOUS
  <2>1. j \in 0..(n - 1)
    BY <1>1
  <2>2. buf[j] = <<"file", at + j>>
    BY <1>1, <2>1 DEF BlockRead
  <2> QED BY <1>4, <2>2 DEF Holds
<1> QED BY <1>5, <1>6, <1>7, <1>8

(* A block written whole is moved.                                         *)
LEMMA WriteBlockInv == IInv /\ WriteBlock => IInv'
<1> SUFFICES ASSUME IInv, WriteBlock PROVE IInv'
  OBVIOUS
<1>1. /\ args \in Calls /\ at \in Nat /\ n \in Nat /\ args.start <= at /\ at <= args.end
      /\ pc = "write" /\ pc' = "read"
      /\ file' = Put(file, at + args.room, buf, n)
      /\ UNCHANGED <<args, at, n, buf, pos>>
  BY DEF IInv, WriteBlock
<1>2. args.start \in Nat /\ args.end \in Nat /\ args.room \in Nat
  BY <1>1, CallType
<1>3. /\ Unmoved(at)' /\ Unmoved(args.start)' /\ MovedFrom(at + n)'
      /\ \A j \in 0..(n - 1) : Holds(at + args.room + j, <<"file", at + j>>)'
  BY <1>1, WriteKeeps
<1>4. MovedFrom(at)'
  <2> SUFFICES ASSUME NEW i \in at..(args.end - 1)
               PROVE  Holds(i + args.room, <<"file", i>>)'
    BY <1>1 DEF MovedFrom
  <2>1. CASE i < at + n
    <3>1. PICK j \in 0..(n - 1) : at + j = i
      <4>1. i - at \in 0..(n - 1) /\ at + (i - at) = i
        BY <1>1, <2>1
      <4> QED BY <4>1
    <3>2. Holds(at + args.room + j, <<"file", at + j>>)'
      BY <1>3
    <3>3. at' + args'.room + j = i + args'.room /\ at' + j = i
      BY <1>1, <1>2, <3>1
    <3> QED BY <3>2, <3>3 DEF Holds
  <2>2. CASE at + n <= i
    <3>1. i \in (at + n)..(args.end - 1)
      BY <1>1, <1>2, <2>2
    <3> QED BY <1>1, <1>3, <3>1 DEF MovedFrom
  <2> QED BY <1>1, <2>1, <2>2
<1> QED BY <1>1, <1>3, <1>4 DEF IInv, FailureSparesOtherBlocks

(* Writing any part of the index touches neither what precedes it nor the  *)
(* fragments, all of which have moved by then.                             *)
LEMMA IndexKeeps ==
    ASSUME IInv, pc = "read", ~MoreToMove, NEW k \in Nat, k <= args.room,
           args' = args, at' = at, file' = Put(file, args.start, Index, k)
    PROVE  /\ at = args.start /\ Unmoved(args.start)' /\ MovedFrom(at)'
           /\ \A j \in 0..(k - 1) : Holds(args.start + j, <<"sidx", j>>)'
<1>1. /\ args \in Calls /\ at \in Nat /\ args.start <= at
      /\ Unmoved(args.start) /\ MovedFrom(at)
  BY DEF IInv
<1>2. args.start \in Nat /\ args.end \in Nat /\ args.room \in Nat
  BY <1>1, CallType
<1>3. at = args.start
  BY <1>1, <1>2 DEF MoreToMove
<1>4. /\ \A i \in Nat : i \in DOMAIN file /\ (i < args.start \/ args.start + k <= i) =>
           i \in DOMAIN file' /\ file'[i] = file[i]
      /\ \A j \in 0..(k - 1) :
           args.start + j \in DOMAIN file' /\ file'[args.start + j] = Index[j]
  <2>1. ASSUME NEW i \in Nat, i \in DOMAIN file, i < args.start \/ args.start + k <= i
        PROVE  i \in DOMAIN file' /\ file'[i] = file[i]
    BY <1>2, <2>1, PutElsewhere
  <2>2. \A j \in 0..(k - 1) :
           args.start + j \in DOMAIN file' /\ file'[args.start + j] = Index[j]
    BY <1>2, PutThere
  <2> QED BY <2>1, <2>2
<1>5. Unmoved(args.start)'
  <2> SUFFICES ASSUME NEW i \in 0..(args.start - 1)
               PROVE  Holds(i, <<"file", i>>)'
    BY DEF Unmoved
  <2>1. i \in Nat /\ i < args.start
    BY <1>2
  <2>2. Holds(i, <<"file", i>>)
    BY <1>1 DEF Unmoved
  <2> QED BY <1>4, <2>1, <2>2 DEF Holds
<1>6. MovedFrom(at)'
  <2> SUFFICES ASSUME NEW i \in at..(args.end - 1)
               PROVE  Holds(i + args.room, <<"file", i>>)'
    BY DEF MovedFrom
  <2>1. i + args.room \in Nat /\ args.start + k <= i + args.room
    BY <1>2, <1>3
  <2>2. Holds(i + args.room, <<"file", i>>)
    BY <1>1 DEF MovedFrom
  <2> QED BY <1>4, <2>1, <2>2 DEF Holds
<1>7. \A j \in 0..(k - 1) : Holds(args.start + j, <<"sidx", j>>)'
  <2> SUFFICES ASSUME NEW j \in 0..(k - 1) PROVE Holds(args.start + j, <<"sidx", j>>)'
    OBVIOUS
  <2>1. j \in 0..(args.room - 1)
    BY <1>2
  <2>2. Index[j] = <<"sidx", j>>
    BY <2>1 DEF Index
  <2> QED BY <1>4, <2>2 DEF Holds
<1> QED BY <1>3, <1>5, <1>6, <1>7

(* The whole index is in the room left for it.                             *)
LEMMA WriteIndexInv == IInv /\ WriteIndex => IInv'
<1> SUFFICES ASSUME IInv, WriteIndex PROVE IInv'
  OBVIOUS
<1>1. /\ args \in Calls /\ pc = "read" /\ pc' = "seek" /\ ~MoreToMove
      /\ file' = Put(file, args.start, Index, args.room)
      /\ UNCHANGED <<args, at, n, buf, pos>>
  BY DEF IInv, WriteIndex
<1>2. args.room \in Nat /\ args.room <= args.room
  BY <1>1, CallType
<1>3. /\ at = args.start /\ Unmoved(args.start)' /\ MovedFrom(at)'
      /\ \A j \in 0..(args.room - 1) : Holds(args.start + j, <<"sidx", j>>)'
  BY <1>1, <1>2, IndexKeeps
<1>4. IndexWritten'
  BY <1>1, <1>3 DEF IndexWritten
<1> QED BY <1>1, <1>3, <1>4 DEF IInv, FailureSparesOtherBlocks

(* Seeking changes no byte.                                                *)
LEMMA SeekPastInv == IInv /\ SeekPast => IInv'
BY DEF IInv, SeekPast, Unmoved, MovedFrom, IndexWritten, Holds, FailureSparesOtherBlocks

(* Whatever fails, what is lost is within one block.                       *)
LEMMA FailsInv == IInv /\ Fails => IInv'
<1> SUFFICES ASSUME IInv, Fails PROVE IInv'
  OBVIOUS
<1>1. /\ args \in Calls /\ at \in Nat /\ n \in Nat /\ args.start <= at /\ at <= args.end
      /\ pc' = "failed" /\ UNCHANGED <<args, at, n, buf, pos>>
  BY DEF IInv, Fails
<1>2. /\ args.start \in Nat /\ args.end \in Nat /\ args.room \in Nat /\ args.block \in Nat
  BY <1>1, CallType
<1>3. PICK k \in 0..Size : FailsWith(k)
  BY DEF Fails
<1>4. k \in Nat
  BY <1>3, ShiftAssumption
<1>5. SUFFICES /\ Unmoved(args.start)'
               /\ \A i \in args.start..(args.end - 1) :
                    i < at \/ i >= at + args.block => Kept(i)'
  <2>1. at \in args.start..args.end
    BY <1>1, <1>2
  <2> QED BY <1>1, <1>5, <2>1 DEF IInv, FailureSparesOtherBlocks
<1>6. CASE pc = "write" /\ k < n /\ file' = Put(file, at + args.room, buf, k)
  <2>1. k <= n
    BY <1>1, <1>4, <1>6
  <2>2. Unmoved(at)' /\ Unmoved(args.start)' /\ MovedFrom(at + n)' /\ n <= args.block
    BY <1>1, <1>4, <1>6, <2>1, WriteKeeps DEF IInv, BlockRead
  <2>3. ASSUME NEW i \in args.start..(args.end - 1), i < at \/ i >= at + args.block
        PROVE  Kept(i)'
    <3>1. CASE i < at
      <4>1. i \in 0..(at' - 1)
        BY <1>1, <1>2, <3>1
      <4> QED BY <2>2, <4>1 DEF Unmoved, Kept
    <3>2. CASE i >= at + args.block
      <4>1. i \in (at' + n')..(args'.end - 1)
        BY <1>1, <1>2, <2>2, <3>2
      <4> QED BY <2>2, <4>1 DEF MovedFrom, Kept
    <3> QED BY <2>3, <3>1, <3>2
  <2> QED BY <2>2, <2>3
<1>7. CASE pc = "read" /\ ~MoreToMove /\ k < args.room /\ file' = Put(file, args.start, Index, k)
  <2>1. k <= args.room
    BY <1>2, <1>4, <1>7
  <2>2. at = args.start /\ Unmoved(args.start)' /\ MovedFrom(at)'
    BY <1>1, <1>4, <1>7, <2>1, IndexKeeps
  <2> QED BY <1>1, <2>2 DEF MovedFrom, Kept
<1>8. CASE pc \in {"read", "seek"} /\ file' = file
  <2>1. Unmoved(args.start) /\ MovedFrom(at)
    BY <1>8 DEF IInv
  <2>2. Unmoved(at)
    BY <1>8 DEF IInv
  <2>3. Unmoved(args.start)'
    BY <1>1, <1>8, <2>1 DEF Unmoved, Holds
  <2>4. ASSUME NEW i \in args.start..(args.end - 1) PROVE Kept(i)'
    <3>1. i \in 0..(at - 1) \/ i \in at..(args.end - 1)
      BY <1>1, <1>2
    <3>2. Kept(i)
      BY <2>1, <2>2, <3>1 DEF Unmoved, MovedFrom, Kept
    <3> QED BY <1>1, <1>8, <3>2 DEF Kept, Holds
  <2> QED BY <2>3, <2>4
<1> QED BY <1>3, <1>6, <1>7, <1>8 DEF FailsWith

(* Every step keeps the invariant.                                         *)
LEMMA NextInv == IInv /\ [Next]_vars => IInv'
<1> SUFFICES ASSUME IInv, [Next]_vars PROVE IInv'
  OBVIOUS
<1>1. CASE UNCHANGED vars
  BY <1>1 DEF IInv, vars, Unmoved, MovedFrom, BlockRead, IndexWritten, Holds,
              FailureSparesOtherBlocks, Kept
<1> QED
  BY <1>1, ReadBlockInv, WriteBlockInv, WriteIndexInv, SeekPastInv, FailsInv DEF Next

(* A finished index has the fragments behind it, byte for byte.            *)
THEOREM IndexGoesInFront == Spec => []IndexInserted
<1>1. IInv => IndexInserted
  <2> SUFFICES ASSUME IInv, pc = "done" PROVE IndexInserted
    BY DEF IndexInserted
  <2>1. /\ Unmoved(args.start) /\ MovedFrom(at) /\ at = args.start /\ IndexWritten
        /\ pos = args.end + args.room
    BY DEF IInv
  <2> QED BY <2>1 DEF IndexInserted, Unmoved, MovedFrom, IndexWritten
<1> QED BY <1>1, InitInv, NextInv, PTL DEF Spec

(* Nothing is overwritten before it is read.                               *)
THEOREM ReadBeforeOverwritten == Spec => []NothingOverwrittenUnread
<1>1. IInv => NothingOverwrittenUnread
  <2> SUFFICES ASSUME IInv PROVE NothingOverwrittenUnread
    OBVIOUS
  <2>1. args \in Calls /\ at \in Nat /\ args.start <= at /\ Unmoved(args.start)
        /\ (pc \in {"read", "write"} => Unmoved(at))
    BY DEF IInv
  <2>2. args.start \in Nat
    BY <2>1, CallType
  <2>3. Smaller(at, args.start) = args.start
    BY <2>1, <2>2 DEF Smaller
  <2> QED BY <2>1, <2>3 DEF NothingOverwrittenUnread, Unmoved
<1> QED BY <1>1, InitInv, NextInv, PTL DEF Spec

(* A failure loses at most the block being written.                        *)
THEOREM FailureLosesOneBlock == Spec => []FailureSparesOtherBlocks
<1>1. IInv => FailureSparesOtherBlocks
  BY DEF IInv
<1> QED BY <1>1, InitInv, NextInv, PTL DEF Spec
=============================================================================
