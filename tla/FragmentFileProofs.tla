------------------------- MODULE FragmentFileProofs -------------------------
(***************************************************************************)
(* What a player finds in a fragmented file, for every configuration, set  *)
(* of samples, writer, limit and number of refused writes: that fragments  *)
(* come in order and run on, that they hold the samples taken, that the    *)
(* index leads to them and describes them, and that the initialisation     *)
(* segment shows the tracks of the first one from their first sample.      *)
(***************************************************************************)
EXTENDS FragmentProofs

(***************************************************************************)
(* The fragments of a sequence of boxes.                                   *)
(***************************************************************************)
FragmentsIn(boxes) == Of(boxes, "fragment")

(* What each box of X adds to them.                                        *)
Kind(X) == [b \in X |-> IF b.box = "fragment" THEN <<b>> ELSE <<>>]

(* What Kind makes of a box is fragments.                                  *)
LEMMA KindMakes ==
    ASSUME NEW X, \A b \in X : b.box = "fragment" => b \in FragmentBox
    PROVE  Kind(X) \in Makers(X, FragmentBox)
<1>1. ASSUME NEW b \in X
      PROVE  (IF b.box = "fragment" THEN <<b>> ELSE <<>>) \in Seq(FragmentBox)
  <2>1. CASE b.box = "fragment"
    <3>1. b \in FragmentBox
      BY <2>1
    <3> HIDE DEF FragmentBox
    <3>2. <<b>> \in Seq(FragmentBox)
      BY <3>1
    <3> QED BY <2>1, <3>2, Zenon
  <2>2. CASE b.box # "fragment"
    BY <2>2, EmptySeq
  <2> QED BY <2>1, <2>2
<1> QED BY <1>1, Zenon DEF Kind, Makers

(* The fragments of a sequence of boxes are gathered from it.              *)
LEMMA FragmentsGathered ==
    ASSUME NEW X, NEW boxes \in Seq(X)
    PROVE  FragmentsIn(boxes) = Gathered(Kind(X), boxes)
<1> DEFINE n == Len(boxes)
           f == [j \in DOMAIN boxes |-> IF boxes[j].box = "fragment" THEN <<boxes[j]>> ELSE <<>>]
           g == [j \in DOMAIN boxes |-> Kind(X)[boxes[j]]]
<1>1. n \in Nat /\ DOMAIN boxes = 1..n /\ \A j \in 1..n : boxes[j] \in X
  BY LenProperties, ElementOfSeq
<1>2. FragmentsIn(boxes) = ConcatTo(f, n) /\ Gathered(Kind(X), boxes) = ConcatTo(g, n)
  BY Zenon DEF FragmentsIn, Of, Gathered
<1>3. ASSUME NEW j \in 1..n
      PROVE  f[j] = g[j]
  <2>1. f[j] = IF boxes[j].box = "fragment" THEN <<boxes[j]>> ELSE <<>>
    BY <1>1, Zenon
  <2>2. g[j] = Kind(X)[boxes[j]]
    BY <1>1, Zenon
  <2>3. Kind(X)[boxes[j]] = IF boxes[j].box = "fragment" THEN <<boxes[j]>> ELSE <<>>
    BY <1>1, Zenon DEF Kind
  <2> QED BY <2>1, <2>2, <2>3, Zenon
<1> HIDE DEF f, g, n
<1>4. ConcatTo(f, n) = ConcatTo(g, n)
  BY <1>1, <1>3, ConcatSame
<1> QED BY <1>2, <1>4, Zenon

(* The fragments among boxes, and among more of them.                      *)
LEMMA FragmentsThen ==
    ASSUME NEW s \in Seq(Box), NEW t \in Seq(Box)
    PROVE  /\ FragmentsIn(s) \in Seq(FragmentBox)
           /\ FragmentsIn(Then(s, t)) = Then(FragmentsIn(s), FragmentsIn(t))
<1>1. Kind(Box) \in Makers(Box, FragmentBox)
  BY KindMakes, BoxKinds
<1>2. Then(s, t) \in Seq(Box)
  BY ThenProperties
<1>3. /\ FragmentsIn(s) = Gathered(Kind(Box), s)
      /\ FragmentsIn(t) = Gathered(Kind(Box), t)
      /\ FragmentsIn(Then(s, t)) = Gathered(Kind(Box), Then(s, t))
  BY <1>2, FragmentsGathered
<1>4. Gathered(Kind(Box), Then(s, t)) = Then(Gathered(Kind(Box), s), Gathered(Kind(Box), t))
  BY <1>1, GatheredThen
<1>5. Gathered(Kind(Box), s) \in Seq(FragmentBox)
  BY <1>1, GatheredType
<1> QED BY <1>3, <1>4, <1>5, Zenon

(* No boxes, no fragments.                                                 *)
LEMMA FragmentsNone == FragmentsIn(<<>>) = <<>>
<1> DEFINE none == <<>>
<1>1. none \in Seq(Box)
  BY EmptySeq
<1>2. Gathered(Kind(Box), none) = <<>>
  BY GatheredEmpty
<1> HIDE DEF none
<1>3. FragmentsIn(none) = Gathered(Kind(Box), none)
  BY <1>1, FragmentsGathered
<1> QED BY <1>2, <1>3, Zenon DEF none

(* One element behind a sequence.                                          *)
LEMMA ThenOne ==
    ASSUME NEW S, NEW s \in Seq(S), NEW e \in S
    PROVE  Then(s, <<e>>) = Append(s, e)
BY DEF Then

(* One box more is one fragment more, or none.                             *)
LEMMA FragmentsAppend ==
    ASSUME NEW s \in Seq(Box), NEW b \in Box
    PROVE  FragmentsIn(Append(s, b))
             = IF b \in FragmentBox THEN Append(FragmentsIn(s), b) ELSE FragmentsIn(s)
<1>1. Kind(Box) \in Makers(Box, FragmentBox)
  BY KindMakes, BoxKinds
<1>2. Append(s, b) \in Seq(Box)
  BY AppendProperties
<1>3. /\ FragmentsIn(s) = Gathered(Kind(Box), s)
      /\ FragmentsIn(Append(s, b)) = Gathered(Kind(Box), Append(s, b))
  BY <1>2, FragmentsGathered
<1>4. Gathered(Kind(Box), Append(s, b)) = Then(Gathered(Kind(Box), s), Kind(Box)[b])
  BY <1>1, GatheredAppend
<1>5. FragmentsIn(s) \in Seq(FragmentBox)
  BY FragmentsThen
<1>6. CASE b \in FragmentBox
  <2>1. b.box = "fragment"
    BY <1>6, BoxKinds
  <2>2. Kind(Box)[b] = <<b>>
    BY <2>1, Zenon DEF Kind
  <2>3. Then(FragmentsIn(s), <<b>>) = Append(FragmentsIn(s), b)
    BY <1>5, <1>6, ThenOne
  <2> QED BY <1>3, <1>4, <1>6, <2>2, <2>3, Zenon
<1>7. CASE b \notin FragmentBox
  <2>1. b.box # "fragment"
    BY <1>7, BoxKinds
  <2>2. Kind(Box)[b] = <<>>
    BY <2>1, Zenon DEF Kind
  <2>3. Then(FragmentsIn(s), <<>>) = FragmentsIn(s)
    BY <1>5, ThenProperties
  <2> QED BY <1>3, <1>4, <1>7, <2>2, <2>3, Zenon
<1> QED BY <1>6, <1>7

(***************************************************************************)
(* What is held for the index, and what is noted of it.                    *)
(***************************************************************************)
(* What is held of a file that cannot be read back has the sizes the index *)
(* notes.                                                                  *)
HeldNoted ==
    ~complete /\ Indexed /\ ~Readable => SizesIn(index.held) = SizesIn(index.fragments)

(* Nothing changes once a file is finished.                                *)
LEMMA Finished ==
    ASSUME Inv, Next, complete
    PROVE  UNCHANGED vars
<1>1. Step /\ closed /\ pc = "idle" /\ UNCHANGED setup
  BY DEF Next, Inv, Control
<1>2. ~(\E t \in 1..Len(Configs), s \in Samples : WriteSample(t, s))
  BY <1>1 DEF WriteSample
<1>3. RefuseClosed
  BY <1>1, <1>2 DEF Step, AddTrack, AddTrackRefused, MayAddTrack, TakeSample, Flush, WriteHeader,
                    HeaderFails, BeginFails, WriteFragment, FragmentRefused, FragmentFails,
                    Close, Closing, FinishIndex, FinishIndexFails
<1> QED BY <1>3 DEF RefuseClosed

(* A fragment goes to the writer, or is held.                              *)
LEMMA FragmentWritten ==
    ASSUME Inv, WriteFragment, UNCHANGED setup
    PROVE  \E frag \in FragmentBox :
             /\ frag.seq = sequence + 1 /\ frag.runs = Runs /\ frag.size <= FragmentSize
             /\ Noted(frag) \in NotedType /\ Noted(frag).size = frag.size
             /\ index'.start = index.start
             /\ \/ /\ Indexed /\ ~Readable /\ file' = file
                   /\ index'.held = Append(index.held, frag)
                   /\ index'.fragments = Append(index.fragments, Noted(frag))
                \/ /\ Indexed /\ Readable /\ file' = Append(file, frag)
                   /\ index'.held = index.held
                   /\ index'.fragments = Append(index.fragments, Noted(frag))
                \/ ~Indexed /\ file' = Append(file, frag) /\ index' = index
<1>1. PICK k \in Tightening :
        LET frag == Fragment(FragmentSize - k)
            noted == Append(index.fragments, Noted(frag))
        IN  IF Indexed /\ ~Readable
            THEN /\ index' = [index EXCEPT !.held = Append(@, frag), !.fragments = noted]
                 /\ file' = file
            ELSE /\ file' = Append(file, frag)
                 /\ index' = IF Indexed THEN [index EXCEPT !.fragments = noted] ELSE index
  BY DEF WriteFragment
<1> DEFINE frag == Fragment(FragmentSize - k)
           noted == Append(index.fragments, Noted(frag))
           held == Append(index.held, frag)
<1>2. TypeOK /\ Buffering
  BY DEF Inv, Control, WriteFragment
<1>3. /\ frag \in FragmentBox /\ frag.size = FragmentSize - k /\ frag.size <= FragmentSize
      /\ frag.seq = sequence + 1 /\ frag.runs = Runs
  BY <1>2, FragmentType
<1>4. \/ /\ Indexed /\ ~Readable /\ file' = file
         /\ index' = [index EXCEPT !.held = held, !.fragments = noted]
      \/ /\ Indexed /\ Readable /\ file' = Append(file, frag)
         /\ index' = [index EXCEPT !.fragments = noted]
      \/ ~Indexed /\ file' = Append(file, frag) /\ index' = index
  BY <1>1
<1> HIDE DEF frag
<1>5. Noted(frag) \in NotedType /\ Noted(frag).size = frag.size
  BY <1>2, <1>3, NotedIsNoted
<1> HIDE DEF noted, held
<1>6. index \in [start : Nat, held : Seq(FragmentBox), fragments : Seq(NotedType)]
  BY <1>2 DEF TypeOK
<1>7. /\ index'.start = index.start
      /\ \/ /\ Indexed /\ ~Readable /\ file' = file
            /\ index'.held = held /\ index'.fragments = noted
         \/ /\ Indexed /\ Readable /\ file' = Append(file, frag)
            /\ index'.held = index.held /\ index'.fragments = noted
         \/ ~Indexed /\ file' = Append(file, frag) /\ index' = index
  BY <1>4, <1>6
<1> QED BY <1>3, <1>5, <1>7 DEF held, noted

(* A range tells where it ends.                                            *)
LEMMA SameRange ==
    ASSUME NEW m \in Nat, NEW n \in Nat, 1..m = 1..n
    PROVE  m = n
<1>1. \A i \in Nat : i > 0 => (i <= m <=> i <= n)
  BY SMT
<1>2. m > 0 => m <= n
  BY <1>1
<1>3. n > 0 => n <= m
  BY <1>1
<1> QED BY <1>2, <1>3

(* One size more.                                                          *)
LEMMA SizesAppend ==
    ASSUME NEW S, NEW s \in Seq(S), NEW d \in S, NEW T, NEW t \in Seq(T), NEW e \in T,
           SizesIn(s) = SizesIn(t), d.size = e.size
    PROVE  SizesIn(Append(s, d)) = SizesIn(Append(t, e))
<1> DEFINE a == Append(s, d)
           b == Append(t, e)
           n == Len(s)
<1>1. n \in Nat /\ DOMAIN s = 1..n /\ Len(t) \in Nat /\ DOMAIN t = 1..Len(t)
  BY LenProperties
<1>2. DOMAIN SizesIn(s) = DOMAIN s /\ DOMAIN SizesIn(t) = DOMAIN t
  BY DEF SizesIn
<1>3. Len(t) = n
  <2>1. DOMAIN SizesIn(s) = DOMAIN SizesIn(t)
    BY Zenon
  <2>2. 1..n = 1..Len(t)
    BY <1>1, <1>2, <2>1, Zenon
  <2> HIDE DEF n
  <2> QED BY <1>1, <2>2, SameRange
<1>4. \A i \in 1..n : s[i].size = t[i].size
  <2>1. \A i \in 1..n : SizesIn(s)[i] = s[i].size /\ SizesIn(t)[i] = t[i].size
    BY <1>1, <1>3 DEF SizesIn
  <2> QED BY <2>1
<1>5. /\ DOMAIN a = 1..(n + 1) /\ \A i \in 1..n : a[i] = s[i]
      /\ a[n + 1] = d
  BY <1>1, AppendProperties, LenProperties
<1>6. /\ DOMAIN b = 1..(n + 1) /\ \A i \in 1..n : b[i] = t[i]
      /\ b[n + 1] = e
  BY <1>1, <1>3, AppendProperties, LenProperties
<1> HIDE DEF a, b, n
<1>7. \A i \in 1..(n + 1) : i \in 1..n \/ i = n + 1
  BY <1>1
<1>8. \A i \in 1..(n + 1) : a[i].size = b[i].size
  BY <1>4, <1>5, <1>6, <1>7
<1>9. SizesIn(a) = SizesIn(b)
  BY <1>5, <1>6, <1>8 DEF SizesIn
<1> QED BY <1>9 DEF a, b

(* Every step keeps what is noted true of what is held.                    *)
LEMMA HeldNotedStep ==
    ASSUME Inv, HeldNoted, Next
    PROVE  HeldNoted'
<1>1. UNCHANGED setup /\ Step /\ TypeOK
  BY DEF Next, Inv
<1>2. (Indexed' <=> Indexed) /\ (Readable' <=> Readable)
  BY <1>1 DEF Indexed, Readable
<1>3. CASE complete
  BY <1>3, Finished DEF HeldNoted, Indexed, Readable, vars
<1>4. CASE ~complete /\ WriteFragment
  <2>1. PICK frag \in FragmentBox :
             /\ Noted(frag) \in NotedType /\ Noted(frag).size = frag.size
             /\ \/ /\ index'.held = Append(index.held, frag)
                   /\ index'.fragments = Append(index.fragments, Noted(frag))
                \/ ~Indexed \/ Readable
    BY <1>1, <1>4, FragmentWritten
  <2>2. index.held \in Seq(FragmentBox) /\ index.fragments \in Seq(NotedType)
    BY <1>1 DEF TypeOK
  <2>3. CASE ~Indexed \/ Readable
    BY <1>2, <2>3 DEF HeldNoted
  <2>4. CASE Indexed /\ ~Readable
    <3>1. SizesIn(index.held) = SizesIn(index.fragments)
      BY <1>4, <2>4 DEF HeldNoted
    <3>2. SizesIn(Append(index.held, frag)) = SizesIn(Append(index.fragments, Noted(frag)))
      BY <2>1, <2>2, <3>1, SizesAppend
    <3> QED BY <2>1, <2>4, <3>2 DEF HeldNoted
  <2> QED BY <2>3, <2>4
<1>5. CASE ~complete /\ WriteHeader
  <2>1. index'.held = index.held /\ index'.fragments = index.fragments
    <3> DEFINE size == SizeOf(file')
    <3>1. index' = [index EXCEPT !.start = size] \/ index' = index
      BY <1>5 DEF WriteHeader
    <3>2. index \in [start : Nat, held : Seq(FragmentBox), fragments : Seq(NotedType)]
      BY <1>1 DEF TypeOK
    <3> HIDE DEF size
    <3> QED BY <3>1, <3>2
  <2> QED BY <1>2, <1>5, <2>1 DEF HeldNoted
<1>6. CASE FinishIndex
  BY <1>6 DEF FinishIndex, HeldNoted
<1>7. CASE index' = index /\ ~complete
  BY <1>2, <1>7 DEF HeldNoted
<1>8. ASSUME Step, ~WriteFragment, ~WriteHeader, ~FinishIndex
      PROVE  index' = index
  <2>1. ASSUME NEW t \in 1..Len(Configs), NEW s \in Samples, WriteSample(t, s)
        PROVE  index' = index
    BY <2>1 DEF WriteSample
  <2> QED BY <1>8, <2>1 DEF Step, AddTrack, AddTrackRefused, TakeSample, Flush,
                    HeaderFails, BeginFails, FragmentRefused, FragmentFails,
                    Close, RefuseClosed, Closing, FinishIndexFails, vars
<1> QED BY <1>1, <1>3, <1>4, <1>5, <1>6, <1>7, <1>8

(* Nothing is held when nothing is noted.                                  *)
LEMMA NothingHeld ==
    ASSUME Inv, HeldNoted, ~complete, ~Indexed \/ Readable \/ index.fragments = <<>>
    PROVE  index.held = <<>>
<1>1. index.held \in Seq(FragmentBox) /\ Len(index.held) \in Nat
      /\ DOMAIN index.held = 1..Len(index.held)
  BY LenProperties DEF Inv, TypeOK
<1>2. CASE ~Indexed \/ Readable
  BY <1>2 DEF Inv, Progress
<1>3. CASE Indexed /\ ~Readable /\ index.fragments = <<>>
  <2>1. SizesIn(index.held) = SizesIn(<<>>)
    BY <1>3 DEF HeldNoted
  <2>2. DOMAIN SizesIn(index.held) = DOMAIN index.held /\ DOMAIN SizesIn(<<>>) = {}
    BY DEF SizesIn
  <2>3. Len(index.held) = 0
    BY <1>1, <2>1, <2>2
  <2> QED BY <1>1, <2>3, EmptySeq
<1> QED BY <1>2, <1>3

(***************************************************************************)
(* What a step does to the fragments written.                              *)
(***************************************************************************)
(* What has been written of an open file is its boxes and the ones held    *)
(* for the index.                                                          *)
WhileOpen ==
    /\ file \in Seq(Box) /\ index.held \in Seq(Box) /\ Written \in Seq(Box)
    /\ Written = Then(file, index.held)
    /\ Fragments = FragmentsIn(Written) /\ Fragments \in Seq(FragmentBox)

(* It follows from the invariant,                                          *)
LEMMA WrittenOpen == Inv /\ ~complete => WhileOpen
<1> SUFFICES ASSUME Inv, ~complete PROVE WhileOpen
  OBVIOUS
<1>1. file \in Seq(Box) /\ index.held \in Seq(FragmentBox)
  BY DEF Inv, TypeOK
<1>2. index.held \in Seq(Box)
  <2>1. FragmentBox \subseteq Box
    BY DEF Box
  <2> QED BY <1>1, <2>1, SeqMonotonic
<1>3. Written = Then(file, index.held)
  BY Zenon DEF Written, Then
<1>4. Written \in Seq(Box)
  BY <1>1, <1>2, <1>3, ThenProperties
<1>5. Fragments = FragmentsIn(Written)
  BY Zenon DEF Fragments, FragmentsIn
<1>6. FragmentsIn(Written) \in Seq(FragmentBox)
  BY <1>4, FragmentsThen
<1> QED BY <1>1, <1>2, <1>3, <1>4, <1>5, <1>6, Zenon DEF WhileOpen

(* and after a step as well.                                               *)
LEMMA WrittenOpenNext == Inv' /\ ~complete' => WhileOpen'
BY WrittenOpen, PTL

(* A box that is none goes to the writer while nothing is held.            *)
LEMMA OtherBox ==
    ASSUME Inv, Inv', ~complete, ~complete', index.held = <<>>, index'.held = <<>>,
           NEW b \in Box, b \notin FragmentBox, file' = file \/ file' = Append(file, b)
    PROVE  Fragments' = Fragments
<1>1. file \in Seq(Box) /\ Written = Then(file, index.held) /\ Fragments = FragmentsIn(Written)
  BY WrittenOpen DEF WhileOpen
<1>2. /\ file' \in Seq(Box) /\ Written' = Then(file', index'.held)
      /\ Fragments' = FragmentsIn(Written')
  BY WrittenOpenNext DEF WhileOpen
<1>3. Then(file, <<>>) = file
  BY <1>1, ThenProperties
<1>4. Then(file', <<>>) = file'
  BY <1>2, ThenProperties
<1>5. FragmentsIn(Append(file, b)) = FragmentsIn(file)
  BY <1>1, FragmentsAppend
<1> QED BY <1>1, <1>2, <1>3, <1>4, <1>5, Zenon

(* The fragment written is the last.                                       *)
LEMMA FragmentAdded ==
    ASSUME Inv, Inv', WriteFragment, UNCHANGED setup
    PROVE  \E frag \in FragmentBox : /\ frag.seq = sequence + 1 /\ frag.runs = Runs
                                     /\ Fragments' = Append(Fragments, frag)
<1>1. PICK frag \in FragmentBox :
             /\ frag.seq = sequence + 1 /\ frag.runs = Runs
             /\ \/ /\ Indexed /\ ~Readable /\ file' = file
                   /\ index'.held = Append(index.held, frag)
                \/ /\ Indexed /\ Readable /\ file' = Append(file, frag)
                   /\ index'.held = index.held
                \/ ~Indexed /\ file' = Append(file, frag) /\ index' = index
  BY FragmentWritten
<1>2. ~complete /\ complete' = complete
  BY DEF Inv, Control, WriteFragment
<1>3. /\ file \in Seq(Box) /\ index.held \in Seq(Box)
      /\ Written = Then(file, index.held) /\ Fragments = FragmentsIn(Written)
      /\ Fragments \in Seq(FragmentBox)
  BY <1>2, WrittenOpen DEF WhileOpen
<1>4. ~complete'
  BY <1>2
<1>5. Written' = Then(file', index'.held) /\ Fragments' = FragmentsIn(Written')
  BY <1>4, WrittenOpenNext DEF WhileOpen
<1>6. frag \in Box
  BY DEF Box
<1>7. Written' = Append(Written, frag)
  <2>1. CASE Indexed /\ ~Readable
    <3>1. file' = file /\ index'.held = Append(index.held, frag)
      BY <1>1, <2>1
    <3>2. Then(file, Append(index.held, frag)) = Append(Then(file, index.held), frag)
      <4> DEFINE one == <<frag>>
      <4>1. one \in Seq(Box)
        BY <1>6
      <4>2. Append(index.held, frag) = Then(index.held, one)
        BY <1>3, <1>6, ThenOne
      <4>3. Then(file, index.held) \in Seq(Box)
        BY <1>3, ThenProperties
      <4>4. Append(Then(file, index.held), frag) = Then(Then(file, index.held), one)
        BY <1>6, <4>3, ThenOne
      <4> HIDE DEF one
      <4>5. Then(Then(file, index.held), one) = Then(file, Then(index.held, one))
        BY <1>3, <4>1, ThenProperties
      <4> QED BY <4>2, <4>4, <4>5, Zenon
    <3> QED BY <1>3, <1>5, <3>1, <3>2, Zenon
  <2>2. CASE ~(Indexed /\ ~Readable)
    <3>1. index.held = <<>>
      BY <2>2 DEF Inv, Progress
    <3>2. file' = Append(file, frag) /\ index'.held = index.held
      BY <1>1, <2>2
    <3>3. Then(file, <<>>) = file
      BY <1>3, ThenProperties
    <3>4. file' \in Seq(Box)
      BY <1>3, <1>6, <3>2, AppendProperties
    <3>5. Then(file', <<>>) = file'
      BY <3>4, ThenProperties
    <3> QED BY <1>3, <1>5, <3>1, <3>2, <3>3, <3>5, Zenon
  <2> QED BY <2>1, <2>2
<1>8. Written \in Seq(Box)
  BY <1>2, WrittenOpen DEF WhileOpen
<1>9. FragmentsIn(Append(Written, frag)) = Append(FragmentsIn(Written), frag)
  BY <1>6, <1>8, FragmentsAppend
<1>10. Fragments' = Append(Fragments, frag)
  BY <1>3, <1>5, <1>7, <1>9, Zenon
<1> QED BY <1>1, <1>10

(* No fragment lies before the place of the index.                         *)
LEMMA NoneCut ==
    ASSUME Inv, StartInv, ~complete, Readable
    PROVE  \A j \in 1..InsertAt : file[j].box # "fragment"
<1>1. file \in Seq(Box) /\ PlaceExists /\ NoneBefore
  BY DEF Inv, TypeOK, StartInv
<1>2. InsertAt \in 0..Len(file) /\ Upto(file, InsertAt) = index.start
  BY <1>1, PlaceType
<1> DEFINE n == InsertAt
<1> SUFFICES ASSUME NEW j \in 1..n, file[j].box = "fragment"
             PROVE  FALSE
  OBVIOUS
<1> HIDE DEF n
<1>3. Len(file) \in Nat /\ DOMAIN file = 1..Len(file) /\ n \in 0..Len(file)
  BY <1>1, <1>2, LenProperties DEF n
<1>4. j \in DOMAIN file /\ j - 1 \in 0..Len(file) /\ j - 1 < n
  BY <1>3
<1>5. Upto(file, j - 1) >= index.start
  BY <1>1, <1>4 DEF NoneBefore
<1>6. \A box \in Box : box.size \in Nat \ {0}
  BY BoxKinds
<1>7. /\ SumTo(SizesIn(file), j - 1) < SumTo(SizesIn(file), n)
      /\ SumTo(SizesIn(file), j - 1) \in Nat /\ SumTo(SizesIn(file), n) \in Nat
  BY <1>1, <1>3, <1>4, <1>6, SizesGrow
<1>8. /\ Upto(file, n) = SumTo(SizesIn(file), n)
      /\ Upto(file, j - 1) = SumTo(SizesIn(file), j - 1)
  BY <1>1, <1>3, <1>4, SizePrefix DEF Upto
<1> QED BY <1>2, <1>5, <1>7, <1>8 DEF n

(* An index that fails takes the fragments behind its place with it.       *)
LEMMA FragmentsCut ==
    ASSUME Inv, Inv', StartInv, FinishIndexFails, UNCHANGED setup
    PROVE  \/ Fragments' = Fragments /\ (file' = file \/ file' = Append(file, Torn))
           \/ Fragments' = <<>>
<1>1. /\ pc = "index" /\ Fails /\ index' = index
      /\ \/ file' = file
         \/ file' = Append(SubSeq(file, 1, InsertAt), Torn)
  BY DEF FinishIndexFails
<1>2. ~complete /\ ~complete' /\ PlaceExists
  BY <1>1 DEF Inv, Control, Fails, StartInv
<1>3. /\ file \in Seq(Box) /\ index.held \in Seq(Box) /\ Written = Then(file, index.held)
      /\ Fragments = FragmentsIn(Written)
  BY <1>2, WrittenOpen DEF WhileOpen
<1>4. Written' = Then(file', index'.held) /\ Fragments' = FragmentsIn(Written')
  BY <1>2, WrittenOpenNext DEF WhileOpen
<1>5. Torn \in Box /\ Torn \notin FragmentBox
  BY TornIsBox, BoxKinds
<1>6. CASE file' = file
  BY <1>1, <1>3, <1>4, <1>6, Zenon
<1>7. CASE file' = Append(SubSeq(file, 1, InsertAt), Torn)
  <2> DEFINE n == InsertAt
             cut == SubSeq(file, 1, n)
  <2>1. n \in 0..Len(file)
    BY <1>2, <1>3, PlaceType
  <2>2. \A j \in 1..n : Readable => file[j].box # "fragment"
    BY <1>2, NoneCut
  <2>3. n = IF Readable THEN n ELSE Len(file)
    BY DEF InsertAt
  <2> HIDE DEF n
  <2>4. /\ cut \in Seq(Box) /\ Len(cut) = n /\ n \in Nat /\ DOMAIN cut = 1..n
        /\ \A i \in 1..n : cut[i] = file[i] /\ i \in DOMAIN file
    BY <1>3, <2>1, CutStarts
  <2>5. FragmentsIn(Append(cut, Torn)) = FragmentsIn(cut)
    <3> HIDE DEF cut
    <3> QED BY <1>5, <2>4, FragmentsAppend
  <2>6. file' = Append(cut, Torn)
    BY <1>7 DEF n
  <2> HIDE DEF cut
  <2>7. Fragments' = Then(FragmentsIn(cut), FragmentsIn(index.held))
    <3>1. file' \in Seq(Box)
      BY <1>5, <2>4, <2>6, AppendProperties
    <3>2. FragmentsIn(Then(file', index.held)) = Then(FragmentsIn(file'), FragmentsIn(index.held))
      BY <1>3, <3>1, FragmentsThen
    <3> QED BY <1>1, <1>4, <2>5, <2>6, <3>2, Zenon
  <2>8. CASE Readable
    <3>1. FragmentsIn(cut) = <<>>
      <4>1. \A j \in 1..n : cut[j] \in Box /\ cut[j].box # "fragment"
        BY <2>2, <2>4, <2>8, ElementOfSeq
      <4>2. ASSUME NEW j \in 1..Len(cut) PROVE Kind(Box)[cut[j]] = <<>>
        <5>1. cut[j] \in Box /\ cut[j].box # "fragment"
          BY <2>4, <4>1
        <5> QED BY <5>1, Zenon DEF Kind
      <4>3. Gathered(Kind(Box), cut) = <<>>
        BY <2>4, <4>2, GatheredNone
      <4> QED BY <2>4, <4>3, FragmentsGathered, Zenon
    <3>2. index.held = <<>>
      BY <2>8 DEF Inv, Progress
    <3>3. Then(<<>>, <<>>) = <<>>
      <4> DEFINE none == <<>>
      <4>1. none \in Seq(Box)
        BY EmptySeq
      <4>2. Then(none, none) = none
        <5> HIDE DEF none
        <5>1. none = <<>>
          BY DEF none
        <5> QED BY <4>1, <5>1, ThenProperties
      <4> QED BY <4>2
    <3> QED BY <2>7, <3>1, <3>2, <3>3, FragmentsNone, Zenon
  <2>9. CASE ~Readable
    <3>1. n = Len(file)
      BY <2>3, <2>9
    <3>2. cut = file
      BY <1>3, <2>4, <3>1, LenProperties, SeqEqual
    <3>3. FragmentsIn(Then(file, index.held)) = Then(FragmentsIn(file), FragmentsIn(index.held))
      BY <1>3, FragmentsThen
    <3>4. Fragments' = Fragments
      BY <1>3, <2>7, <3>2, <3>3, Zenon
    <3> QED BY <2>6, <3>2, <3>4
  <2> QED BY <2>8, <2>9
<1> QED BY <1>1, <1>6, <1>7

(***************************************************************************)
(* The boxes of the index.                                                 *)
(***************************************************************************)
(* The tracks that have samples.                                           *)
IndexedTracks ==
    ConcatTo([t \in DOMAIN tracks |-> IF Presents(t) = {} THEN <<>> ELSE <<t>>], Len(tracks))

(* The boxes of the index: one of SidxSize for every track that has        *)
(* samples, each with a reference for every fragment noted, and each       *)
(* counting the boxes behind it in its first_offset.                       *)
LEMMA BoxesAre ==
    ASSUME TypeOK
    PROVE  /\ IndexedTracks \in Seq(DOMAIN tracks)
           /\ Len(IndexedTracks) \in Nat
           /\ DOMAIN Boxes = 1..Len(IndexedTracks)
           /\ \A i \in DOMAIN Boxes :
                /\ IndexedTracks[i] \in DOMAIN tracks
                /\ Boxes[i].box = "sidx" /\ Boxes[i].size = SidxSize
                /\ Boxes[i].firstOffset = SidxSize * (Len(IndexedTracks) - i)
                /\ DOMAIN Boxes[i].refs = DOMAIN index.fragments
                /\ Len(Boxes[i].refs) = Len(index.fragments)
                /\ \A k \in DOMAIN index.fragments :
                     Boxes[i].refs[k] = Reference(IndexedTracks[i], k)
<1> DEFINE f == [t \in DOMAIN tracks |-> IF Presents(t) = {} THEN <<>> ELSE <<t>>]
           l == Len(tracks)
           with == IndexedTracks
           first(t) == CHOOSE k \in Presents(t) : \A j \in Presents(t) : k <= j
           Made(i) == [box |-> "sidx", size |-> SidxSize, id |-> tracks[with[i]].id,
                       ept |-> Earliest(with[i], first(with[i])),
                       firstOffset |-> SidxSize * (Len(with) - i),
                       refs |-> [k \in DOMAIN index.fragments |-> Reference(with[i], k)]]
<1>1. l \in Nat /\ DOMAIN tracks = 1..l
  BY TrackTypes
<1>2. ASSUME NEW t \in 1..l
      PROVE  f[t] \in Seq(DOMAIN tracks)
  <2>1. f[t] = IF Presents(t) = {} THEN <<>> ELSE <<t>>
    BY <1>1, Zenon
  <2>2. <<t>> \in Seq(DOMAIN tracks) /\ <<>> \in Seq(DOMAIN tracks)
    BY <1>1
  <2> QED BY <2>1, <2>2, Zenon
<1>3. with = ConcatTo(f, l)
  BY Zenon DEF IndexedTracks
<1>4. with \in Seq(DOMAIN tracks)
  <2> HIDE DEF f, with, l
  <2> QED BY <1>1, <1>2, <1>3, ConcatIsSeq
<1>5. Boxes = [i \in DOMAIN with |-> Made(i)]
  BY Zenon DEF Boxes, IndexedTracks
<1> HIDE DEF with
<1>6. Len(with) \in Nat /\ DOMAIN with = 1..Len(with)
      /\ \A i \in DOMAIN with : with[i] \in DOMAIN tracks
  BY <1>4, LenProperties, ElementOfSeq
<1>7. DOMAIN Boxes = DOMAIN with /\ \A i \in DOMAIN with : Boxes[i] = Made(i)
  <2> HIDE DEF Made
  <2> QED BY <1>5
<1>8. ASSUME NEW i \in DOMAIN with
      PROVE  /\ Made(i).box = "sidx" /\ Made(i).size = SidxSize
             /\ Made(i).firstOffset = SidxSize * (Len(with) - i)
             /\ Made(i).refs = [k \in DOMAIN index.fragments |-> Reference(with[i], k)]
  <2> DEFINE a == SidxSize
             b == tracks[with[i]].id
             c == Earliest(with[i], first(with[i]))
             d == SidxSize * (Len(with) - i)
             r == [k \in DOMAIN index.fragments |-> Reference(with[i], k)]
  <2>1. Made(i) = [box |-> "sidx", size |-> a, id |-> b, ept |-> c, firstOffset |-> d, refs |-> r]
    BY Zenon
  <2> HIDE DEF a, b, c, d, r, Made
  <2>2. Made(i).box = "sidx" /\ Made(i).size = a /\ Made(i).firstOffset = d /\ Made(i).refs = r
    BY <2>1
  <2> QED BY <2>2, Zenon DEF a, d, r
<1> HIDE DEF Made
<1>9. ASSUME NEW i \in DOMAIN with
      PROVE  /\ DOMAIN Boxes[i].refs = DOMAIN index.fragments
             /\ Len(Boxes[i].refs) = Len(index.fragments)
             /\ \A k \in DOMAIN index.fragments : Boxes[i].refs[k] = Reference(with[i], k)
  <2>1. Boxes[i].refs = [k \in DOMAIN index.fragments |-> Reference(with[i], k)]
    BY <1>7, <1>8, Zenon
  <2>2. Len(Boxes[i].refs) = Len(index.fragments)
    <3> DEFINE q == Len(index.fragments)
               r == [k \in 1..q |-> Reference(with[i], k)]
               R == {Reference(with[i], k) : k \in 1..q}
    <3>1. index.fragments \in Seq(NotedType)
      BY DEF TypeOK
    <3>2. q \in Nat /\ DOMAIN index.fragments = 1..q
      BY <3>1, LenProperties
    <3>3. Boxes[i].refs = r
      BY <2>1, <3>2, Zenon
    <3>4. r \in [1..q -> R]
      <4> HIDE DEF q
      <4> QED BY Zenon
    <3> HIDE DEF q, r, R
    <3>5. Len(r) = q
      BY <3>2, <3>4, FunctionIsSeq
    <3> QED BY <3>3, <3>5, Zenon DEF q
  <2> QED BY <2>1, <2>2, Zenon
<1>10. \A i \in DOMAIN with :
         /\ Boxes[i].box = "sidx" /\ Boxes[i].size = SidxSize
         /\ Boxes[i].firstOffset = SidxSize * (Len(with) - i)
  BY <1>7, <1>8, Zenon
<1> QED BY <1>4, <1>6, <1>7, <1>9, <1>10, Zenon DEF with

(* A file cut in two is both parts.                                        *)
LEMMA CutParts ==
    ASSUME NEW boxes \in Seq(Box), NEW n \in 0..Len(boxes)
    PROVE  /\ SubSeq(boxes, 1, n) \in Seq(Box) /\ SubSeq(boxes, n + 1, Len(boxes)) \in Seq(Box)
           /\ Then(SubSeq(boxes, 1, n), SubSeq(boxes, n + 1, Len(boxes))) = boxes
<1>1. Len(boxes) \in Nat /\ n \in Int /\ n <= Len(boxes) /\ n >= 0
  BY LenProperties
<1>2. \A i \in 1..Len(boxes) : boxes[i] \in Box
  BY ElementOfSeq
<1>3. SubSeq(boxes, 1, n) \in Seq(Box)
  BY <1>1, <1>2, SubSeqProperties
<1>4. SubSeq(boxes, n + 1, Len(boxes)) \in Seq(Box)
  BY <1>1, <1>2, SubSeqProperties
<1>5. SubSeq(boxes, 1, n) \o SubSeq(boxes, n + 1, Len(boxes)) = SubSeq(boxes, 1, Len(boxes))
  <2>1. 1 \in 1..(Len(boxes) + 1) /\ n \in (1 - 1)..Len(boxes) /\ Len(boxes) \in n..Len(boxes)
    BY <1>1
  <2> QED BY <2>1, ConcatAdjacentSubSeq, Zenon
<1>6. SubSeq(boxes, 1, Len(boxes)) = boxes
  BY SubSeqFull
<1> QED BY <1>3, <1>4, <1>5, <1>6, Zenon DEF Then

(* A sequence of boxes whose fragments are fragments.                      *)
Whole(boxes) ==
    \E X : boxes \in Seq(X) /\ \A b \in X : b.box = "fragment" => b \in FragmentBox

(* The finished file has the fragments written and held, and no other.     *)
LEMMA FragmentsFinished ==
    ASSUME Inv, StartInv, FinishIndex, UNCHANGED setup
    PROVE  Fragments' = Fragments /\ Whole(file')
<1> DEFINE n == InsertAt
           head == SubSeq(file, 1, n)
           tail == SubSeq(file, n + 1, Len(file))
           held == index.held
           boxes == Boxes
           X == Box \cup {boxes[i] : i \in DOMAIN boxes}
<1>1. pc = "index" /\ complete' = TRUE /\ file' = head \o boxes \o tail \o held
  BY DEF FinishIndex
<1>2. ~complete /\ TypeOK
  BY <1>1 DEF Inv, Control
<1>3. /\ file \in Seq(Box) /\ held \in Seq(Box) /\ Written = Then(file, held)
      /\ Fragments = FragmentsIn(Written)
  BY <1>2, WrittenOpen DEF WhileOpen
<1>4. n \in 0..Len(file)
  BY <1>2, <1>3, PlaceType DEF StartInv
<1> HIDE DEF n
<1>5. head \in Seq(Box) /\ tail \in Seq(Box) /\ Then(head, tail) = file
  BY <1>3, <1>4, CutParts
<1>6. /\ DOMAIN boxes = 1..Len(IndexedTracks) /\ Len(IndexedTracks) \in Nat
      /\ \A i \in DOMAIN boxes : boxes[i].box = "sidx"
  BY <1>2, BoxesAre
<1>7. boxes \in Seq(X) /\ \A i \in 1..Len(boxes) : i \in DOMAIN boxes
  <2>1. boxes \in [1..Len(IndexedTracks) -> X]
    <3>1. boxes = [i \in DOMAIN boxes |-> boxes[i]]
      BY Zenon DEF Boxes
    <3> HIDE DEF boxes
    <3> QED BY <1>6, <3>1
  <2> HIDE DEF X, boxes
  <2>2. boxes \in Seq(X) /\ Len(boxes) = Len(IndexedTracks)
    BY <1>6, <2>1, FunctionIsSeq
  <2> QED BY <1>6, <2>2
<1> HIDE DEF head, tail, held, boxes
<1>8. \A b \in X : b.box = "fragment" => b \in FragmentBox
  BY <1>6, BoxKinds
<1>9. Box \subseteq X
  OBVIOUS
<1> HIDE DEF X
<1>10. head \in Seq(X) /\ tail \in Seq(X) /\ held \in Seq(X)
  BY <1>3, <1>5, <1>9, SeqMonotonic
<1> DEFINE G == Kind(X)
<1>11. G \in Makers(X, FragmentBox)
  BY <1>8, KindMakes
<1>12. Gathered(G, boxes) = <<>>
  <2>1. ASSUME NEW i \in 1..Len(boxes) PROVE G[boxes[i]] = <<>>
    <3>1. boxes[i] \in X /\ boxes[i].box # "fragment"
      BY <1>6, <1>7, ElementOfSeq
    <3> QED BY <3>1, Zenon DEF Kind
  <2> HIDE DEF G
  <2> QED BY <1>7, <2>1, GatheredNone
<1> HIDE DEF G
<1> DEFINE a == Then(head, boxes)
           b == Then(a, tail)
           c == Then(b, held)
<1>13. a \in Seq(X) /\ b \in Seq(X) /\ c \in Seq(X)
  <2>1. a \in Seq(X)
    BY <1>7, <1>10, ThenProperties
  <2> HIDE DEF a
  <2>2. b \in Seq(X)
    BY <1>10, <2>1, ThenProperties
  <2> HIDE DEF b
  <2> QED BY <1>10, <2>1, <2>2, ThenProperties
<1>14. Gathered(G, head) \in Seq(FragmentBox)
  BY <1>10, <1>11, GatheredType
<1>15. Gathered(G, a) = Gathered(G, head)
  <2>1. Gathered(G, a) = Then(Gathered(G, head), Gathered(G, boxes))
    BY <1>7, <1>10, <1>11, GatheredThen
  <2>2. Then(Gathered(G, head), <<>>) = Gathered(G, head)
    BY <1>14, ThenProperties
  <2> QED BY <1>12, <2>1, <2>2, Zenon
<1>16. Gathered(G, b) = Gathered(G, file)
  <2>1. Gathered(G, b) = Then(Gathered(G, a), Gathered(G, tail))
    BY <1>10, <1>11, <1>13, GatheredThen
  <2>2. Gathered(G, Then(head, tail)) = Then(Gathered(G, head), Gathered(G, tail))
    BY <1>10, <1>11, GatheredThen
  <2> QED BY <1>5, <1>15, <2>1, <2>2, Zenon
<1>17. file \in Seq(X)
  BY <1>3, <1>9, SeqMonotonic
<1>18. Gathered(G, c) = Gathered(G, Written)
  <2>1. Gathered(G, c) = Then(Gathered(G, b), Gathered(G, held))
    BY <1>10, <1>11, <1>13, GatheredThen
  <2>2. Gathered(G, Then(file, held)) = Then(Gathered(G, file), Gathered(G, held))
    BY <1>10, <1>11, <1>17, GatheredThen
  <2> QED BY <1>3, <1>16, <2>1, <2>2, Zenon
<1>19. Written \in Seq(X)
  BY <1>3, <1>10, <1>17, ThenProperties
<1>20. FragmentsIn(c) = FragmentsIn(Written)
  BY <1>13, <1>18, <1>19, FragmentsGathered, Zenon DEF G
<1>21. file' = c
  BY <1>1, Zenon DEF Then
<1>22. Fragments' = FragmentsIn(file')
  BY <1>1, Zenon DEF Fragments, FragmentsIn, Written
<1>23. Whole(file')
  <2> HIDE DEF c
  <2> QED BY <1>8, <1>13, <1>21 DEF Whole
<1> QED BY <1>3, <1>20, <1>21, <1>22, <1>23, Zenon

(* A step adds the fragment it writes, or none, or takes all away.         *)
LEMMA FragmentsStep ==
    ASSUME Inv, Inv', StartInv, HeldNoted, Next
    PROVE  \/ Fragments' = Fragments /\ ~WriteFragment
           \/ FinishIndexFails /\ Fragments' = <<>>
           \/ WriteFragment /\ \E frag \in FragmentBox :
                /\ frag.seq = sequence + 1 /\ frag.runs = Runs
                /\ Fragments' = Append(Fragments, frag)
<1>1. Step /\ UNCHANGED setup /\ Control
  BY DEF Next, Inv
<1>2. CASE complete
  <2>1. UNCHANGED vars
    BY <1>2, Finished
  <2>2. ~WriteFragment
    BY <1>1, <1>2 DEF Control, WriteFragment
  <2> QED BY <2>1, <2>2 DEF vars, Fragments, Written
<1>3. CASE ~complete /\ UNCHANGED <<file, index, complete>> /\ ~WriteFragment
  BY <1>3 DEF Fragments, Written
<1>4. CASE WriteFragment
  BY <1>1, <1>4, FragmentAdded
<1>5. ASSUME ~complete, pc = "header", index'.held = index.held, ~complete', ~WriteFragment,
             NEW b \in Box, b \notin FragmentBox, file' = file \/ file' = Append(file, b)
      PROVE  Fragments' = Fragments
  <2>1. ~headerOut
    BY <1>1, <1>5 DEF Control
  <2>2. index.held = <<>>
    BY <2>1 DEF Inv, Progress
  <2> QED BY <1>5, <2>2, OtherBox
<1>6. InitSegment(WithEdits) \in Box /\ InitSegment(WithEdits) \notin FragmentBox
  <2>1. InitSegment(WithEdits) \in Box /\ InitSegment(WithEdits).box = "init"
    BY WithEditsType DEF Inv
  <2> DEFINE seg == InitSegment(WithEdits)
  <2> HIDE DEF seg
  <2>2. seg \in Box /\ seg.box = "init"
    BY <2>1 DEF seg
  <2>3. seg \notin FragmentBox
    BY <2>2, BoxKinds
  <2> QED BY <2>2, <2>3 DEF seg
<1>7. Torn \in Box /\ Torn \notin FragmentBox
  BY TornIsBox, BoxKinds
<1>8. CASE WriteHeader \/ HeaderFails \/ BeginFails
  <2>1. /\ pc = "header" /\ ~complete /\ complete' = FALSE
        /\ \/ file' = file
           \/ file' = Append(file, Torn)
           \/ file' = Append(file, InitSegment(WithEdits))
    BY <1>1, <1>8 DEF WriteHeader, HeaderFails, BeginFails, Fails, Control, Inv, TypeOK
  <2>2. index'.held = index.held
    <3> DEFINE size == SizeOf(file')
    <3>1. index' = [index EXCEPT !.start = size] \/ index' = index
      BY <1>8 DEF WriteHeader, HeaderFails, BeginFails
    <3>2. index \in [start : Nat, held : Seq(FragmentBox), fragments : Seq(NotedType)]
      BY DEF Inv, TypeOK
    <3> HIDE DEF size
    <3> QED BY <3>1, <3>2
  <2>3. ~WriteFragment
    BY <2>1 DEF WriteFragment
  <2> QED BY <1>5, <1>6, <1>7, <2>1, <2>2, <2>3
<1>9. CASE FragmentFails
  <2>1. /\ pc = "fragment" /\ complete' = FALSE /\ index' = index
        /\ Readable \/ ~Indexed
        /\ file' \in {file, Append(file, Torn)}
    BY <1>9 DEF FragmentFails, Fails
  <2>2. index.held = <<>> /\ ~complete
    BY <1>1, <1>9 DEF Inv, Progress, Control, FragmentFails
  <2>3. ~WriteFragment
    <3>1. Fails /\ call.op # "none" /\ call'.op = "none" /\ sequence' = sequence + 1
          /\ faults' = [faults EXCEPT !.media = @ + 1]
      BY <1>1, <1>9, CallsType DEF FragmentFails, Fails, Control
    <3>2. faults' # faults
      <4>1. faults \in [header : Nat, seek : Nat, media : Nat]
        BY DEF Inv, TypeOK
      <4> QED BY <3>1, <4>1
    <3> QED BY <3>2 DEF WriteFragment
  <2>4. Fragments' = Fragments
    BY <1>7, <2>1, <2>2, OtherBox
  <2> QED BY <2>3, <2>4
<1>10. CASE Closing
  <2>1. pc = "closing" /\ UNCHANGED <<file, index>> /\ ~complete /\ ~WriteFragment
    BY <1>1, <1>10 DEF Closing, Control, WriteFragment
  <2>2. CASE Indexed /\ index.fragments # <<>>
    BY <1>3, <1>10, <2>1, <2>2 DEF Closing
  <2>3. CASE ~(Indexed /\ index.fragments # <<>>)
    <3>1. index.held = <<>>
      BY <2>1, <2>3, NothingHeld
    <3>2. complete' = TRUE
      BY <1>10, <2>3 DEF Closing
    <3>3. file \in Seq(Box) /\ Written = Then(file, index.held)
      BY <2>1, WrittenOpen DEF WhileOpen
    <3>4. Then(file, <<>>) = file
      BY <3>3, ThenProperties
    <3>5. Written' = file'
      BY <3>2 DEF Written
    <3>6. Written' = Written
      BY <2>1, <3>1, <3>3, <3>4, <3>5, Zenon
    <3> QED BY <2>1, <3>6 DEF Fragments
  <2> QED BY <2>2, <2>3
<1>11. CASE FinishIndex
  <2>1. ~WriteFragment
    BY <1>11 DEF FinishIndex, WriteFragment
  <2> QED BY <1>1, <1>11, <2>1, FragmentsFinished
<1>12. CASE FinishIndexFails
  <2>1. ~WriteFragment
    BY <1>12 DEF FinishIndexFails, WriteFragment
  <2> QED BY <1>1, <1>12, <2>1, FragmentsCut
<1>13. CASE \/ AddTrack \/ AddTrackRefused \/ TakeSample \/ Flush \/ Close
            \/ \E t \in 1..Len(Configs), s \in Samples : WriteSample(t, s)
  <2>1. AddTrack \/ AddTrackRefused \/ TakeSample \/ Flush \/ Close
          => UNCHANGED <<file, index, complete>> /\ pc # "fragment"
    BY DEF AddTrack, AddTrackRefused, MayAddTrack, TakeSample, Flush, Close
  <2>2. ASSUME NEW t \in 1..Len(Configs), NEW s \in Samples, WriteSample(t, s)
        PROVE  UNCHANGED <<file, index, complete>> /\ pc # "fragment"
    BY <2>2 DEF WriteSample
  <2>3. UNCHANGED <<file, index, complete>> /\ ~WriteFragment
    BY <1>13, <2>1, <2>2 DEF WriteFragment
  <2> QED BY <1>2, <1>3, <2>3
<1>14. CASE FragmentRefused
  <2>1. ~complete /\ complete' = FALSE /\ UNCHANGED <<file, index>> /\ ~WriteFragment
    BY <1>1, <1>14 DEF FragmentRefused, Control, Fails, WriteFragment
  <2>2. complete = FALSE
    BY <2>1 DEF Inv, TypeOK
  <2> QED BY <1>3, <2>1, <2>2
<1>15. CASE RefuseClosed
  <2>1. UNCHANGED <<file, index, complete>> /\ ~WriteFragment
    BY <1>15 DEF RefuseClosed, vars, WriteFragment
  <2> QED BY <1>2, <1>3, <2>1
<1> QED BY <1>1, <1>4, <1>8, <1>9, <1>10, <1>11, <1>12, <1>13, <1>14, <1>15 DEF Step

(***************************************************************************)
(* Fragments in order.                                                     *)
(***************************************************************************)
(* Where a sequence of runs ends.                                          *)
EndOf(runs) ==
    IF runs = <<>> THEN 0
    ELSE runs[Len(runs)].base + RunDuration(runs[Len(runs)])

(* Where what a track has not written yet starts.                          *)
Reached(t) ==
    IF tracks[t].pending = <<>> THEN tracks[t].nextTime ELSE tracks[t].pending[1].time

RunsAscend(runs) ==
    \A i \in DOMAIN runs : i > 1 =>
      runs[i].base >= runs[i - 1].base + RunDuration(runs[i - 1])

RunsFollow(runs) ==
    \A i \in DOMAIN runs :
      runs[i].base = IF i = 1 THEN 0 ELSE runs[i - 1].base + RunDuration(runs[i - 1])

(* What the runs written of a track come to, of which none was lost or     *)
(* some.                                                                   *)
RunsReach(runs, reached, whole) ==
    /\ RunsAscend(runs) /\ EndOf(runs) <= reached
    /\ whole => RunsFollow(runs) /\ EndOf(runs) = reached

SeqsAscend(fragments) ==
    \A j, k \in DOMAIN fragments : j < k => fragments[j].seq < fragments[k].seq

(* The fragments written are numbered in order, and each of their tracks   *)
(* has got no further than where what it has not written yet starts, and   *)
(* as far when none was lost.                                              *)
OrderInv ==
    /\ Fragments \in Seq(FragmentBox)
    /\ Len(Fragments) <= sequence
    /\ \A k \in DOMAIN Fragments : Fragments[k].seq <= sequence
    /\ SeqsAscend(Fragments)
    /\ \A t \in DOMAIN tracks :
         RunsReach(RunsOf(tracks[t].id, Fragments), Reached(t), sequence = Len(Fragments))

(* A run lasts some time.                                                  *)
LEMMA DurationType ==
    ASSUME NEW r \in RunType
    PROVE  RunDuration(r) \in Nat /\ r.base \in Nat
<1> DEFINE s == r.samples
           f == [i \in DOMAIN s |-> s[i].dur]
           n == Len(s)
<1>1. s \in Seq(SampleType) /\ r.base \in Nat
  BY DEF RunType
<1>2. n \in Nat /\ DOMAIN s = 1..n /\ \A i \in 1..n : s[i] \in SampleType
  BY <1>1, LenProperties, ElementOfSeq
<1>3. \A i \in 1..n : f[i] \in Nat
  BY <1>2 DEF SampleType
<1>4. RunDuration(r) = SumTo(f, n)
  BY DEF RunDuration
<1> HIDE DEF f, n
<1>5. n \in 0..n
  BY <1>2
<1> QED BY <1>1, <1>2, <1>3, <1>4, <1>5, SumGrows

(* The samples a track buffers last until its next sample.                 *)
LEMMA PendingEnds ==
    ASSUME TypeOK, PendingRunsOn, NEW t \in DOMAIN tracks, tracks[t].pending # <<>>
    PROVE  Run(t).base + RunDuration(Run(t)) = tracks[t].nextTime
<1> DEFINE p == tracks[t].pending
           n == Len(p)
           s == Run(t).samples
           f == [i \in DOMAIN s |-> s[i].dur]
           S == {k \in Nat : k < n => p[1].time + SumTo(f, k) = p[k + 1].time}
<1>1. /\ p \in Seq(PendingType) /\ n \in Nat /\ DOMAIN p = 1..n
      /\ \A i \in DOMAIN p : p[i].time \in Nat /\ p[i].dur \in Nat
      /\ tracks[t].nextTime \in Nat
  <2>1. \A i \in DOMAIN p : p[i] \in PendingType
    BY TrackTypes
  <2> QED BY <2>1, TrackTypes DEF PendingType
<1>2. /\ \A i \in DOMAIN p :
           p[i].time + p[i].dur = IF i = n THEN tracks[t].nextTime ELSE p[i + 1].time
      /\ n > 0
  BY <1>1, EmptySeq DEF PendingRunsOn
<1>3. /\ Run(t).base = p[1].time /\ Len(s) = n /\ s = Bare(p)
  BY RunIsRun
<1>4. /\ \A i \in 1..n : f[i] = p[i].dur
      /\ RunDuration(Run(t)) = SumTo(f, n)
  <2>1. RunDuration(Run(t)) = SumTo(f, n)
    BY <1>3 DEF RunDuration
  <2>2. \A i \in 1..n : f[i] = p[i].dur
    <3> HIDE DEF p, s, n
    <3>1. DOMAIN s = 1..n /\ \A i \in 1..n : s[i].dur = p[i].dur
      BY <1>1, <1>3 DEF Bare
    <3> QED BY <3>1
  <2> QED BY <2>1, <2>2
<1> HIDE DEF f, p, n, s
<1>5. \A i \in 0..n : SumTo(f, i) \in Nat
  <2>1. \A i \in 1..n : f[i] \in Nat
    BY <1>1, <1>4
  <2> QED BY <1>1, <2>1, SumGrows
<1>6. 0 \in S
  BY <1>1, <1>2, SumZero
<1>7. ASSUME NEW k \in Nat, k \in S
      PROVE  k + 1 \in S
  <2> SUFFICES ASSUME k + 1 < n
               PROVE  p[1].time + SumTo(f, k + 1) = p[(k + 1) + 1].time
    OBVIOUS
  <2>1. p[1].time + SumTo(f, k) = p[k + 1].time
    BY <1>1, <1>7
  <2>2. SumTo(f, k + 1) = SumTo(f, k) + f[k + 1]
    BY SumStep
  <2>3. p[k + 1].time + p[k + 1].dur = p[(k + 1) + 1].time /\ f[k + 1] = p[k + 1].dur
    <3>1. k + 1 \in DOMAIN p /\ k + 1 \in 1..n /\ k + 1 # n
      BY <1>1
    <3> QED BY <1>2, <1>4, <3>1
  <2>4. SumTo(f, k) \in Nat /\ p[1].time \in Nat /\ p[k + 1].dur \in Nat
    <3>1. k \in 0..n /\ 1 \in DOMAIN p /\ k + 1 \in DOMAIN p
      BY <1>1
    <3> QED BY <1>1, <1>5, <3>1
  <2> DEFINE a == SumTo(f, k)
             b == p[1].time
             c == p[k + 1].dur
  <2>5. a \in Nat /\ b \in Nat /\ c \in Nat /\ SumTo(f, k + 1) = a + c
        /\ b + a = p[k + 1].time /\ p[k + 1].time + c = p[(k + 1) + 1].time
    BY <2>1, <2>2, <2>3, <2>4, Zenon
  <2> HIDE DEF a, b, c
  <2>6. b + (a + c) = (b + a) + c
    BY <2>5
  <2> QED BY <2>5, <2>6, Zenon DEF b
<1> HIDE DEF S
<1>8. \A k \in Nat : k \in S
  BY <1>6, <1>7, NatSetInduction
<1>9. n - 1 \in Nat /\ n - 1 < n /\ (n - 1) + 1 = n
  BY <1>1, <1>2
<1>10. p[1].time + SumTo(f, n - 1) = p[n].time
  <2>1. n - 1 \in S
    BY <1>8, <1>9
  <2> QED BY <1>9, <2>1 DEF S
<1>11. SumTo(f, n) = SumTo(f, n - 1) + f[n]
  BY <1>9, SumStep
<1>12. /\ f[n] = p[n].dur /\ p[n].time + p[n].dur = tracks[t].nextTime
       /\ SumTo(f, n - 1) \in Nat /\ p[1].time \in Nat /\ p[n].dur \in Nat
  BY <1>1, <1>2, <1>4, <1>5, SMTT(30)
<1> DEFINE a == SumTo(f, n - 1)
           b == p[1].time
           c == p[n].dur
<1>13. a \in Nat /\ b \in Nat /\ c \in Nat /\ RunDuration(Run(t)) = a + c
       /\ Run(t).base = b /\ (b + a) + c = tracks[t].nextTime
  BY <1>3, <1>4, <1>10, <1>11, <1>12, Zenon
<1> HIDE DEF a, b, c
<1>14. b + (a + c) = (b + a) + c
  BY <1>13
<1> QED BY <1>13, <1>14, Zenon

(* Where a track has got to is no later than its next sample.              *)
LEMMA ReachedType ==
    ASSUME TypeOK, PendingRunsOn, NEW t \in DOMAIN tracks
    PROVE  Reached(t) \in Nat /\ Reached(t) <= tracks[t].nextTime /\ tracks[t].nextTime \in Nat
<1>1. tracks[t].nextTime \in Nat
  BY TrackTypes
<1>2. CASE tracks[t].pending = <<>>
  BY <1>1, <1>2 DEF Reached
<1>3. CASE tracks[t].pending # <<>>
  <2>1. Run(t) \in RunType /\ Run(t).base = Reached(t)
    BY <1>3, RunIsRun DEF Reached
  <2>2. Run(t).base + RunDuration(Run(t)) = tracks[t].nextTime
    BY <1>3, PendingEnds
  <2> QED BY <1>1, <2>1, <2>2, DurationType
<1> QED BY <1>2, <1>3

(* One run more.                                                           *)
LEMMA RunsAppend ==
    ASSUME NEW runs \in Seq(RunType), NEW r \in RunType, NEW whole,
           RunsReach(runs, r.base, whole)
    PROVE  RunsReach(Append(runs, r), r.base + RunDuration(r), whole)
<1> DEFINE more == Append(runs, r)
           n == Len(runs)
<1>1. n \in Nat /\ DOMAIN runs = 1..n
  BY LenProperties
<1>2. /\ Len(more) = n + 1 /\ DOMAIN more = 1..(n + 1)
      /\ \A i \in 1..n : more[i] = runs[i]
      /\ more[n + 1] = r
  BY <1>1, AppendProperties, LenProperties
<1>3. n = 0 <=> runs = <<>>
  BY <1>1, EmptySeq
<1>4. RunsAscend(runs) /\ EndOf(runs) <= r.base
      /\ (whole => RunsFollow(runs) /\ EndOf(runs) = r.base)
  BY DEF RunsReach
<1> HIDE DEF more, n
<1>5. more # <<>>
  <2>1. n + 1 \in DOMAIN more
    BY <1>1, <1>2
  <2> QED BY <2>1
<1>6. EndOf(more) = r.base + RunDuration(r)
  BY <1>2, <1>5 DEF EndOf
<1>7. \A i \in DOMAIN more : i \in DOMAIN runs \/ i = n + 1
  BY <1>1, <1>2
<1>8. \A i \in DOMAIN runs : i > 1 => i - 1 \in DOMAIN runs
  BY <1>1
<1>9. RunsAscend(more)
  <2> SUFFICES ASSUME NEW i \in DOMAIN more, i > 1
               PROVE  more[i].base >= more[i - 1].base + RunDuration(more[i - 1])
    BY DEF RunsAscend
  <2>1. CASE i \in DOMAIN runs
    <3>1. more[i] = runs[i] /\ more[i - 1] = runs[i - 1]
      BY <1>1, <1>2, <1>8, <2>1
    <3> QED BY <1>4, <2>1, <3>1 DEF RunsAscend
  <2>2. CASE i = n + 1
    <3>1. i - 1 = n /\ n \in 1..n /\ n # 0
      BY <1>1, <2>2
    <3>2. more[i] = r /\ more[i - 1] = runs[n]
      BY <1>2, <2>2, <3>1
    <3>3. EndOf(runs) = runs[n].base + RunDuration(runs[n])
      BY <1>3, <3>1 DEF EndOf, n
    <3>4. runs[n] \in RunType
      BY <3>1, ElementOfSeq DEF n
    <3> QED BY <1>4, <3>2, <3>3, <3>4, DurationType
  <2> QED BY <1>7, <2>1, <2>2
<1>10. ASSUME whole PROVE RunsFollow(more)
  <2>0. RunsFollow(runs) /\ EndOf(runs) = r.base
    BY <1>4, <1>10
  <2> SUFFICES ASSUME NEW i \in DOMAIN more
               PROVE  more[i].base
                        = IF i = 1 THEN 0 ELSE more[i - 1].base + RunDuration(more[i - 1])
    BY DEF RunsFollow
  <2>1. CASE i \in DOMAIN runs
    <3>1. more[i] = runs[i] /\ (i # 1 => more[i - 1] = runs[i - 1])
      BY <1>1, <1>2, <1>8, <2>1
    <3> QED BY <2>0, <2>1, <3>1 DEF RunsFollow
  <2>2. CASE i = n + 1
    <3>1. more[i] = r
      BY <1>2, <2>2
    <3>2. CASE n = 0
      BY <1>3, <2>0, <2>2, <3>1, <3>2 DEF EndOf
    <3>3. CASE n # 0
      <4>1. i - 1 = n /\ n \in 1..n /\ i # 1
        BY <1>1, <2>2, <3>3
      <4>2. more[i - 1] = runs[n]
        BY <1>2, <4>1
      <4>3. EndOf(runs) = runs[n].base + RunDuration(runs[n])
        BY <1>3, <3>3 DEF EndOf, n
      <4> QED BY <2>0, <3>1, <4>1, <4>2, <4>3
    <3> QED BY <3>2, <3>3
  <2> QED BY <1>7, <2>1, <2>2
<1>11. r.base + RunDuration(r) \in Nat
  BY DurationType
<1> QED BY <1>6, <1>9, <1>10, <1>11 DEF RunsReach, more

(* A track without a run reaches nothing.                                  *)
LEMMA NoRuns ==
    /\ \A whole : RunsReach(<<>>, 0, whole)
    /\ \A n \in Nat : RunsReach(<<>>, n, FALSE)
BY DEF RunsReach, RunsAscend, RunsFollow, EndOf

(* The runs of a track in the fragment its samples are written in: one, or *)
(* none.                                                                   *)
Own(id) == [r \in RunType |-> IF r.id = id THEN <<r>> ELSE <<>>]

(* What Own makes of a run is runs.                                        *)
LEMMA OwnMakes == \A id : Own(id) \in Makers(RunType, RunType)
<1> SUFFICES ASSUME NEW id PROVE Own(id) \in Makers(RunType, RunType)
  OBVIOUS
<1>1. ASSUME NEW r \in RunType PROVE (IF r.id = id THEN <<r>> ELSE <<>>) \in Seq(RunType)
  <2>1. <<r>> \in Seq(RunType) /\ <<>> \in Seq(RunType)
    BY EmptySeq
  <2> QED BY <2>1, Zenon
<1> QED BY <1>1, Zenon DEF Own, Makers

(* The runs of a track in a fragment are gathered from it.                 *)
LEMMA RunsInGathered ==
    ASSUME NEW id, NEW frag \in FragmentBox
    PROVE  RunsIn(id, frag) = Gathered(Own(id), frag.runs) /\ RunsIn(id, frag) \in Seq(RunType)
<1> DEFINE runs == frag.runs
           n == Len(runs)
           f == [i \in DOMAIN runs |-> IF runs[i].id = id THEN <<runs[i]>> ELSE <<>>]
           g == [i \in DOMAIN runs |-> Own(id)[runs[i]]]
<1>1. runs \in Seq(RunType)
  BY DEF FragmentBox
<1>2. n \in Nat /\ DOMAIN runs = 1..n /\ \A i \in 1..n : runs[i] \in RunType
  BY <1>1, LenProperties, ElementOfSeq
<1>3. RunsIn(id, frag) = ConcatTo(f, n) /\ Gathered(Own(id), runs) = ConcatTo(g, n)
  BY Zenon DEF RunsIn, Gathered
<1>4. ASSUME NEW i \in 1..n PROVE f[i] = g[i]
  <2>1. f[i] = IF runs[i].id = id THEN <<runs[i]>> ELSE <<>>
    BY <1>2, Zenon
  <2>2. g[i] = Own(id)[runs[i]]
    BY <1>2, Zenon
  <2>3. Own(id)[runs[i]] = IF runs[i].id = id THEN <<runs[i]>> ELSE <<>>
    BY <1>2, Zenon DEF Own
  <2> QED BY <2>1, <2>2, <2>3, Zenon
<1> HIDE DEF f, g, n, runs
<1>5. ConcatTo(f, n) = ConcatTo(g, n)
  BY <1>2, <1>4, ConcatSame
<1>6. Gathered(Own(id), runs) \in Seq(RunType)
  BY <1>1, OwnMakes, GatheredType
<1> QED BY <1>3, <1>5, <1>6, Zenon DEF runs

(* The fragment made has one run of a track that holds samples, and none   *)
(* of another.                                                             *)
LEMMA RunsInFragment ==
    ASSUME TypeOK, TracksApart, NEW u \in DOMAIN tracks, NEW frag \in FragmentBox,
           frag.runs = Runs
    PROVE  RunsIn(tracks[u].id, frag)
             = IF tracks[u].pending = <<>> THEN <<>> ELSE <<Run(u)>>
<1> DEFINE id == tracks[u].id
           n == Len(tracks)
           f == [t \in DOMAIN tracks |-> IF tracks[t].pending = <<>> THEN <<>> ELSE <<Run(t)>>]
           h == [t \in DOMAIN tracks |-> Gathered(Own(id), f[t])]
<1>1. n \in Nat /\ DOMAIN tracks = 1..n
  BY TrackTypes
<1>2. RunsIn(id, frag) = Gathered(Own(id), Runs)
  BY RunsInGathered
<1>3. Runs = ConcatTo(f, n)
  BY Zenon DEF Runs
<1>4. \A t \in 1..n : f[t] = IF tracks[t].pending = <<>> THEN <<>> ELSE <<Run(t)>>
  BY <1>1, Zenon
<1>5. \A t \in 1..n : h[t] = Gathered(Own(id), f[t])
  BY <1>1, Zenon
<1>6. \A t \in 1..n : tracks[t].pending # <<>> => Run(t) \in RunType /\ Run(t).id = tracks[t].id
  BY <1>1, RunIsRun
<1> HIDE DEF f, h, n
<1>7. \A t \in 1..n : f[t] \in Seq(RunType)
  <2>1. ASSUME NEW t \in 1..n PROVE f[t] \in Seq(RunType)
    <3>1. CASE tracks[t].pending = <<>>
      BY <1>4, <3>1, EmptySeq
    <3>2. CASE tracks[t].pending # <<>>
      <4> DEFINE r == Run(t)
      <4>1. r \in RunType
        BY <1>6, <3>2
      <4>2. f[t] = <<r>>
        BY <1>4, <3>2, Zenon
      <4> HIDE DEF r
      <4> QED BY <4>1, <4>2
    <3> QED BY <3>1, <3>2
  <2> QED BY <2>1
<1>8. Gathered(Own(id), ConcatTo(f, n)) = ConcatTo(h, n)
  <2>1. Own(id) \in Makers(RunType, RunType)
    BY OwnMakes
  <2> HIDE DEF id
  <2> QED BY <1>1, <1>5, <1>7, <2>1, GatheredConcat
<1>9. ASSUME NEW t \in 1..n
      PROVE  h[t] = IF t # u \/ tracks[t].pending = <<>> THEN <<>> ELSE <<Run(t)>>
  <2>1. CASE tracks[t].pending = <<>>
    <3>1. f[t] = <<>>
      BY <1>4, <2>1
    <3> QED BY <1>5, <2>1, <3>1, GatheredEmpty, Zenon
  <2>2. CASE tracks[t].pending # <<>>
    <3> DEFINE r == Run(t)
    <3>1. r \in RunType /\ r.id = tracks[t].id
      BY <1>6, <2>2
    <3>2. f[t] = <<r>>
      BY <1>4, <2>2, Zenon
    <3> HIDE DEF r
    <3>3. Gathered(Own(id), <<r>>) = Own(id)[r]
      <4>1. Own(id) \in Makers(RunType, RunType)
        BY OwnMakes
      <4> QED BY <3>1, <4>1, GatheredOne
    <3>4. Own(id)[r] = IF r.id = id THEN <<r>> ELSE <<>>
      BY <3>1, Zenon DEF Own
    <3>5. r.id = id <=> t = u
      BY <1>1, <3>1 DEF TracksApart
    <3>6. h[t] = IF t = u THEN <<r>> ELSE <<>>
      BY <1>5, <3>2, <3>3, <3>4, <3>5, Zenon
    <3> QED BY <2>2, <3>6, Zenon DEF r
  <2> QED BY <2>1, <2>2
<1>10. u \in 1..n
  BY <1>1
<1>11. ConcatTo(h, n) = h[u]
  <2>1. h[u] \in Seq(RunType)
    <3>1. CASE tracks[u].pending = <<>>
      <4>1. h[u] = <<>>
        BY <1>9, <1>10, <3>1, Zenon
      <4> QED BY <4>1, EmptySeq
    <3>2. CASE tracks[u].pending # <<>>
      <4> DEFINE r == Run(u)
      <4>1. r \in RunType
        BY <1>6, <1>10, <3>2
      <4>2. h[u] = <<r>>
        BY <1>9, <1>10, <3>2, Zenon
      <4> HIDE DEF r
      <4> QED BY <4>1, <4>2
    <3> QED BY <3>1, <3>2
  <2>2. \A t \in 1..n : t # u => h[t] = <<>>
    BY <1>9, Zenon
  <2> QED BY <1>1, <1>10, <2>1, <2>2, ConcatOne
<1> QED BY <1>2, <1>3, <1>8, <1>9, <1>10, <1>11, Zenon

(* The runs of a track, one fragment more.                                 *)
RunsMaker(id) == [frag \in FragmentBox |-> RunsIn(id, frag)]

(* The runs of a track in a file are gathered from its fragments,          *)
LEMMA RunsOfGathered ==
    ASSUME NEW id, NEW fragments \in Seq(FragmentBox)
    PROVE  RunsOf(id, fragments) = Gathered(RunsMaker(id), fragments)
<1> DEFINE n == Len(fragments)
           f == [k \in DOMAIN fragments |-> RunsIn(id, fragments[k])]
           g == [k \in DOMAIN fragments |-> RunsMaker(id)[fragments[k]]]
<1>1. n \in Nat /\ DOMAIN fragments = 1..n /\ \A k \in 1..n : fragments[k] \in FragmentBox
  BY LenProperties, ElementOfSeq
<1>2. RunsOf(id, fragments) = ConcatTo(f, n) /\ Gathered(RunsMaker(id), fragments) = ConcatTo(g, n)
  BY Zenon DEF RunsOf, Gathered
<1>3. ASSUME NEW k \in 1..n PROVE f[k] = g[k]
  <2>1. f[k] = RunsIn(id, fragments[k]) /\ g[k] = RunsMaker(id)[fragments[k]]
    BY <1>1, Zenon
  <2>2. RunsMaker(id)[fragments[k]] = RunsIn(id, fragments[k])
    BY <1>1, Zenon DEF RunsMaker
  <2> QED BY <2>1, <2>2, Zenon
<1> HIDE DEF f, g, n
<1>4. ConcatTo(f, n) = ConcatTo(g, n)
  BY <1>1, <1>3, ConcatSame
<1> QED BY <1>2, <1>4, Zenon

(* one fragment more adds the runs it has of the track,                    *)
LEMMA RunsOfAppend ==
    ASSUME NEW id, NEW fragments \in Seq(FragmentBox), NEW frag \in FragmentBox
    PROVE  /\ RunsOf(id, fragments) \in Seq(RunType)
           /\ RunsOf(id, Append(fragments, frag))
                = Then(RunsOf(id, fragments), RunsIn(id, frag))
<1>1. RunsMaker(id) \in Makers(FragmentBox, RunType)
  <2>1. \A f \in FragmentBox : RunsIn(id, f) \in Seq(RunType)
    BY RunsInGathered
  <2> QED BY <2>1, Zenon DEF RunsMaker, Makers
<1>2. Append(fragments, frag) \in Seq(FragmentBox)
  BY AppendProperties
<1>3. /\ RunsOf(id, fragments) = Gathered(RunsMaker(id), fragments)
      /\ RunsOf(id, Append(fragments, frag)) = Gathered(RunsMaker(id), Append(fragments, frag))
  BY <1>2, RunsOfGathered
<1>4. Gathered(RunsMaker(id), Append(fragments, frag))
        = Then(Gathered(RunsMaker(id), fragments), RunsMaker(id)[frag])
  BY <1>1, GatheredAppend
<1>5. RunsMaker(id)[frag] = RunsIn(id, frag)
  BY Zenon DEF RunsMaker
<1>6. Gathered(RunsMaker(id), fragments) \in Seq(RunType)
  BY <1>1, GatheredType
<1> QED BY <1>3, <1>4, <1>5, <1>6, Zenon

(* they are runs,                                                          *)
LEMMA RunsOfType ==
    ASSUME NEW id, NEW fragments \in Seq(FragmentBox)
    PROVE  RunsOf(id, fragments) \in Seq(RunType)
<1>1. RunsMaker(id) \in Makers(FragmentBox, RunType)
  <2>1. \A f \in FragmentBox : RunsIn(id, f) \in Seq(RunType)
    BY RunsInGathered
  <2> QED BY <2>1, Zenon DEF RunsMaker, Makers
<1>2. Gathered(RunsMaker(id), fragments) \in Seq(RunType)
  BY <1>1, GatheredType
<1> QED BY <1>2, RunsOfGathered

(* Runs end at some time.                                                  *)
LEMMA EndType ==
    ASSUME NEW runs \in Seq(RunType)
    PROVE  EndOf(runs) \in Nat
<1>1. CASE runs = <<>>
  BY <1>1 DEF EndOf
<1>2. CASE runs # <<>>
  <2> DEFINE n == Len(runs)
  <2>1. n \in 1..n
    BY <1>2, LenProperties, EmptySeq
  <2>2. runs[n] \in RunType
    BY <2>1, ElementOfSeq
  <2>3. EndOf(runs) = runs[n].base + RunDuration(runs[n])
    BY <1>2 DEF EndOf
  <2> QED BY <2>2, <2>3, DurationType
<1> QED BY <1>1, <1>2

(* and without fragments there are none.                                   *)
LEMMA RunsOfNone == \A id : RunsOf(id, <<>>) = <<>>
<1> SUFFICES ASSUME NEW id PROVE RunsOf(id, <<>>) = <<>>
  OBVIOUS
<1> DEFINE none == <<>>
<1>1. none \in Seq(FragmentBox)
  BY EmptySeq
<1>2. Gathered(RunsMaker(id), none) = <<>>
  BY GatheredEmpty
<1> HIDE DEF none
<1>3. RunsOf(id, none) = Gathered(RunsMaker(id), none)
  BY <1>1, RunsOfGathered
<1> QED BY <1>2, <1>3, Zenon DEF none

(* The tracks after a step that leaves them, but for clocks, alone, and    *)
(* after one that takes a sample.                                          *)
LEMMA ReachedSame ==
    ASSUME Inv, Next, ~AddTrack, ~WriteFragment, ~FragmentRefused, ~FragmentFails
    PROVE  /\ DOMAIN tracks' = DOMAIN tracks
           /\ \A t \in DOMAIN tracks :
                tracks'[t].id = tracks[t].id /\ Reached(t)' = Reached(t)
<1>1. Step /\ TypeOK
  BY DEF Next, Inv
<1>2. CASE TakeSample
  <2>0. PICK u \in DOMAIN tracks : u = call.track
    BY <1>2, TakenTrack
  <2> DEFINE s == call.sample
             taken == [len |-> s.len, dur |-> s.dur, offset |-> s.offset, sync |-> s.sync,
                       time |-> tracks[u].nextTime]
             p == tracks[u].pending
  <2>1. /\ u \in DOMAIN tracks /\ taken \in PendingType /\ DOMAIN tracks' = DOMAIN tracks
        /\ tracks'[u].pending = Append(p, taken)
        /\ tracks'[u].id = tracks[u].id
        /\ \A v \in DOMAIN tracks : v # u => tracks'[v] = tracks[v]
    BY <1>2, <2>0, TakenTrack
  <2>2. taken.time = tracks[u].nextTime
    OBVIOUS
  <2>3. p \in Seq(PendingType)
    BY <1>1, <2>1, TrackTypes
  <2> HIDE DEF taken, p
  <2>4. Append(p, taken) # <<>>
        /\ Append(p, taken)[1] = IF p = <<>> THEN taken ELSE p[1]
    <3>1. Len(p) \in Nat /\ (Len(p) = 0 <=> p = <<>>) /\ DOMAIN p = 1..Len(p)
      BY <2>3, LenProperties, EmptySeq
    <3>2. /\ Len(Append(p, taken)) = Len(p) + 1
          /\ \A i \in 1..Len(p) : Append(p, taken)[i] = p[i]
          /\ Append(p, taken)[Len(p) + 1] = taken
      BY <2>1, <2>3, AppendProperties
    <3>3. Append(p, taken) # <<>>
      BY <3>1, <3>2
    <3>4. CASE p = <<>>
      <4>1. Len(p) + 1 = 1
        BY <3>1, <3>4
      <4> QED BY <3>2, <3>3, <3>4, <4>1
    <3>5. CASE p # <<>>
      <4>1. 1 \in 1..Len(p)
        BY <3>1, <3>5
      <4> QED BY <3>2, <3>3, <3>5, <4>1
    <3> QED BY <3>4, <3>5
  <2>5. Reached(u)' = Reached(u)
    <3>1. p = tracks[u].pending
      BY DEF p
    <3>2. Reached(u) = IF p = <<>> THEN taken.time ELSE p[1].time
      BY <2>2, <3>1, Zenon DEF Reached
    <3>3. Reached(u)' = Append(p, taken)[1].time
      BY <2>1, <2>4, Zenon DEF Reached
    <3> QED BY <2>4, <3>2, <3>3, Zenon
  <2>6. \A v \in DOMAIN tracks : v # u => Reached(v)' = Reached(v)
    BY <2>1 DEF Reached
  <2>7. \A v \in DOMAIN tracks : tracks'[v].id = tracks[v].id /\ Reached(v)' = Reached(v)
    BY <2>1, <2>5, <2>6
  <2> QED BY <2>1, <2>7
<1>3. ASSUME NEW t \in 1..Len(Configs), NEW s \in Samples, WriteSample(t, s)
      PROVE  /\ DOMAIN tracks' = DOMAIN tracks
             /\ \A u \in DOMAIN tracks :
                  tracks'[u].id = tracks[u].id /\ Reached(u)' = Reached(u)
  <2> DEFINE c == ClockSample(tracks[t].clock, s)
             off == IF tracks[t].written THEN tracks[t].firstOffset ELSE c.sample.offset
             clock == c.clock
             k == [tracks[t] EXCEPT !.clock = clock, !.firstOffset = off, !.written = TRUE]
  <2>1. /\ tracks' = [tracks EXCEPT ![t].clock = clock, ![t].firstOffset = off,
                                    ![t].written = TRUE]
        /\ t \in DOMAIN tracks
    BY <1>3 DEF WriteSample
  <2>2. tracks[t] \in TrackType
    BY <1>1, <2>1, TrackTypes
  <2> HIDE DEF clock, off
  <2>3. k.pending = tracks[t].pending /\ k.id = tracks[t].id /\ k.nextTime = tracks[t].nextTime
    BY <2>2 DEF TrackType
  <2>4. tracks' = [tracks EXCEPT ![t] = k]
    BY <2>1
  <2> HIDE DEF k
  <2>5. /\ DOMAIN tracks' = DOMAIN tracks /\ tracks'[t] = k
        /\ \A u \in DOMAIN tracks : u # t => tracks'[u] = tracks[u]
    BY <2>1, <2>4
  <2>6. \A u \in DOMAIN tracks : /\ tracks'[u].pending = tracks[u].pending
                                 /\ tracks'[u].id = tracks[u].id
                                 /\ tracks'[u].nextTime = tracks[u].nextTime
    BY <2>3, <2>5
  <2> QED BY <2>5, <2>6 DEF Reached
<1>4. CASE tracks' = tracks
  BY <1>4 DEF Reached
<1>5. ASSUME ~TakeSample, ~(\E t \in 1..Len(Configs), s \in Samples : WriteSample(t, s))
      PROVE  tracks' = tracks
  BY <1>1, <1>5 DEF Step, AddTrackRefused, Flush, WriteHeader, HeaderFails, BeginFails,
                    WriteFragment, FragmentRefused, FragmentFails, Close, RefuseClosed, Closing,
                    FinishIndex, FinishIndexFails, vars
<1> QED BY <1>2, <1>3, <1>4, <1>5

(* What else a step does to the count of fragments made.                   *)
LEMMA SequenceStep ==
    ASSUME Next
    PROVE  \/ sequence' = sequence
           \/ /\ WriteFragment \/ FragmentRefused \/ FragmentFails
              /\ sequence' = sequence + 1 /\ tracks' = Emptied /\ traks' = traks
<1>1. Step
  BY DEF Next
<1>2. ASSUME NEW t \in 1..Len(Configs), NEW s \in Samples, WriteSample(t, s)
      PROVE  sequence' = sequence
  BY <1>2 DEF WriteSample
<1> QED BY <1>1, <1>2 DEF Step, AddTrack, AddTrackRefused, TakeSample, Flush, WriteHeader,
                    HeaderFails, BeginFails, WriteFragment, FragmentRefused, FragmentFails,
                    Close, RefuseClosed, Closing, FinishIndex, FinishIndexFails, vars

(* Runs that need not follow each other ask for less.                      *)
LEMMA ReachLess ==
    ASSUME NEW runs, NEW m, NEW v, NEW w, v => w, RunsReach(runs, m, w)
    PROVE  RunsReach(runs, m, v)
BY DEF RunsReach

(* No fragments: every track is where it started.                          *)
LEMMA NoneYet ==
    ASSUME Inv, OrderInv, sequence = 0
    PROVE  Fragments = <<>>
<1>1. Fragments \in Seq(FragmentBox) /\ Len(Fragments) <= 0
  BY DEF OrderInv
<1>2. Len(Fragments) = 0
  BY <1>1, LenProperties
<1> QED BY <1>1, <1>2, EmptySeq

(* A track is added before there are fragments.                            *)
LEMMA OrderAddTrack ==
    ASSUME Inv, OrderInv, AddTrack, Fragments' = Fragments, UNCHANGED setup
    PROVE  OrderInv'
<1> DEFINE cfg == Configs[Len(tracks) + 1]
           to == AudioTimescale(cfg)
           new == [id |-> Len(traks) + 1, timescale |-> to, clock |-> WithAudioClock(cfg),
                   priming |-> PrimingTicks(cfg.delay, to),
                   nextTime |-> 0, pending |-> <<>>, buffered |-> 0,
                   firstOffset |-> 0, written |-> FALSE]
<1>1. ~started /\ sequence' = sequence /\ tracks' = Append(tracks, new)
  BY DEF AddTrack, MayAddTrack
<1>2. new.pending = <<>> /\ new.nextTime = 0
  OBVIOUS
<1> HIDE DEF new
<1>3. sequence = 0 /\ \A t \in DOMAIN tracks : tracks[t].pending = <<>> /\ tracks[t].nextTime = 0
  BY <1>1 DEF Inv, Progress
<1>4. Fragments = <<>>
  BY <1>3, NoneYet
<1>5. \A t \in DOMAIN tracks' : tracks'[t].pending = <<>> /\ tracks'[t].nextTime = 0
  <2>1. tracks \in Seq(TrackType) /\ Len(tracks) \in Nat /\ DOMAIN tracks = 1..Len(tracks)
    BY TrackTypes DEF Inv, TypeOK
  <2>2. \A t \in DOMAIN tracks' :
          (t \in DOMAIN tracks /\ tracks'[t] = tracks[t]) \/ tracks'[t] = new
    BY <1>1, <2>1
  <2> QED BY <1>2, <1>3, <2>2
<1>6. \A t \in DOMAIN tracks' :
        RunsReach(RunsOf(tracks'[t].id, Fragments'), Reached(t)', (sequence = Len(Fragments))')
  <2>1. ASSUME NEW t \in DOMAIN tracks'
        PROVE  /\ RunsOf(tracks'[t].id, Fragments') = <<>>
               /\ Reached(t)' = 0
    <3>1. Reached(t)' = 0
      BY <1>5 DEF Reached
    <3>2. RunsOf(tracks'[t].id, <<>>) = <<>>
      BY RunsOfNone
    <3> QED BY <1>4, <3>1, <3>2, Zenon
  <2> QED BY <2>1, NoRuns
<1>7. Fragments' \in Seq(FragmentBox) /\ Fragments' = Fragments /\ sequence' = sequence
  BY <1>1 DEF OrderInv
<1>8. /\ Len(Fragments') <= sequence'
      /\ \A k \in DOMAIN Fragments' : Fragments'[k].seq <= sequence'
      /\ SeqsAscend(Fragments')
  BY <1>7 DEF OrderInv
<1> QED BY <1>6, <1>7, <1>8 DEF OrderInv

(* A fragment is written.                                                  *)
LEMMA OrderWrite ==
    ASSUME Inv, OrderInv, WriteFragment,
           NEW frag \in FragmentBox, frag.seq = sequence + 1, frag.runs = Runs,
           Fragments' = Append(Fragments, frag)
    PROVE  OrderInv'
<1> DEFINE F == Fragments
           n == Len(F)
           G == Append(F, frag)
<1>1. F \in Seq(FragmentBox) /\ n <= sequence /\ (\A k \in DOMAIN F : F[k].seq <= sequence)
      /\ SeqsAscend(F)
  BY DEF OrderInv
<1>2. /\ TypeOK /\ TracksApart /\ PendingRunsOn /\ sequence \in Nat
      /\ sequence' = sequence + 1 /\ tracks' = Emptied /\ traks' = traks
  BY DEF Inv, TypeOK, WriteFragment
<1>3. /\ DOMAIN tracks' = DOMAIN tracks
      /\ \A t \in DOMAIN tracks :
           /\ tracks'[t].pending = <<>> /\ tracks'[t].id = tracks[t].id
           /\ tracks'[t].nextTime = tracks[t].nextTime
  BY <1>2, EmptiedTracks
<1>4. \A t \in DOMAIN tracks : RunsReach(RunsOf(tracks[t].id, F), Reached(t), sequence = n)
  BY DEF OrderInv
<1>5. Fragments' = G
  OBVIOUS
<1> HIDE DEF F
<1>6. n \in Nat /\ DOMAIN F = 1..n /\ \A k \in 1..n : F[k] \in FragmentBox
  BY <1>1, LenProperties, ElementOfSeq
<1>7. /\ G \in Seq(FragmentBox) /\ Len(G) = n + 1 /\ DOMAIN G = 1..(n + 1)
      /\ \A k \in 1..n : G[k] = F[k]
      /\ G[n + 1] = frag
  BY <1>1, <1>6, AppendProperties, LenProperties
<1>8. \A k \in 1..(n + 1) : k \in 1..n \/ k = n + 1
  BY <1>6
<1>9. \A k \in 1..n : F[k].seq \in Nat
  BY <1>6 DEF FragmentBox
<1> DEFINE now == sequence + 1
<1>10. /\ Len(G) <= now /\ \A k \in DOMAIN G : G[k].seq <= now
  BY <1>1, <1>2, <1>6, <1>7, <1>8, <1>9
<1>11. SeqsAscend(G)
  <2> SUFFICES ASSUME NEW j \in 1..(n + 1), NEW k \in 1..(n + 1), j < k
               PROVE  G[j].seq < G[k].seq
    BY <1>7 DEF SeqsAscend
  <2>1. j \in 1..n
    BY <1>6
  <2>2. CASE k \in 1..n
    BY <1>1, <1>6, <1>7, <2>1, <2>2 DEF SeqsAscend
  <2>3. CASE k = n + 1
    <3>1. G[j].seq = F[j].seq /\ F[j].seq <= sequence /\ F[j].seq \in Nat
      BY <1>1, <1>6, <1>7, <1>9, <2>1
    <3>2. G[k].seq = sequence + 1
      BY <1>7, <2>3
    <3> QED BY <1>2, <3>1, <3>2
  <2> QED BY <1>8, <2>2, <2>3
<1>12. ASSUME NEW t \in DOMAIN tracks
       PROVE  RunsReach(RunsOf(tracks[t].id, G), tracks[t].nextTime, now = Len(G))
  <2> DEFINE id == tracks[t].id
             runs == RunsOf(id, F)
             r == Run(t)
             whole == sequence = n
  <2>1. RunsReach(runs, Reached(t), whole)
    BY <1>4
  <2>2. runs \in Seq(RunType) /\ RunsOf(id, G) = Then(runs, RunsIn(id, frag))
    <3> HIDE DEF id
    <3> QED BY <1>1, RunsOfAppend
  <2>3. RunsIn(id, frag) = IF tracks[t].pending = <<>> THEN <<>> ELSE <<r>>
    BY <1>2, RunsInFragment
  <2>4. (now = Len(G)) => whole
    <3>1. Len(G) = n + 1 /\ n \in Nat /\ sequence \in Nat
      BY <1>2, <1>6, <1>7
    <3> HIDE DEF G, n
    <3> QED BY <3>1
  <2>5. CASE tracks[t].pending = <<>>
    <3>1. Reached(t) = tracks[t].nextTime
      BY <2>5 DEF Reached
    <3>2. Then(runs, <<>>) = runs
      <4> HIDE DEF runs
      <4> QED BY <2>2, ThenProperties
    <3>3. RunsOf(id, G) = runs
      BY <2>2, <2>3, <2>5, <3>2, Zenon
    <3> QED BY <2>1, <2>4, <3>1, <3>3, ReachLess, Zenon
  <2>6. CASE tracks[t].pending # <<>>
    <3>1. r \in RunType /\ r.base = Reached(t)
      BY <1>2, <2>6, RunIsRun DEF Reached
    <3>2. r.base + RunDuration(r) = tracks[t].nextTime
      BY <1>2, <2>6, PendingEnds
    <3> HIDE DEF r, runs
    <3>3. Then(runs, <<r>>) = Append(runs, r)
      BY <2>2, <3>1, ThenOne
    <3>4. RunsReach(runs, r.base, whole)
      BY <2>1, <3>1, Zenon
    <3> HIDE DEF whole
    <3>5. RunsReach(Append(runs, r), r.base + RunDuration(r), whole)
      BY <2>2, <3>1, <3>4, RunsAppend
    <3>6. RunsOf(id, G) = Append(runs, r)
      BY <2>2, <2>3, <2>6, <3>3, Zenon
    <3> QED BY <2>4, <3>2, <3>5, <3>6, ReachLess, Zenon
  <2> QED BY <2>5, <2>6
<1> HIDE DEF G, now
<1>13. \A t \in DOMAIN tracks' :
         RunsReach(RunsOf(tracks'[t].id, Fragments'), Reached(t)', (sequence = Len(Fragments))')
  <2> SUFFICES ASSUME NEW t \in DOMAIN tracks
               PROVE  RunsReach(RunsOf(tracks'[t].id, Fragments'), Reached(t)',
                                sequence' = Len(Fragments'))
    BY <1>3
  <2>1. Reached(t)' = tracks[t].nextTime
    BY <1>3 DEF Reached
  <2>2. sequence' = now
    BY <1>2 DEF now
  <2>3. tracks'[t].id = tracks[t].id
    BY <1>3
  <2> QED BY <1>5, <1>12, <2>1, <2>2, <2>3, Zenon
<1>14. sequence' = now
  BY <1>2 DEF now
<1> QED BY <1>5, <1>7, <1>10, <1>11, <1>13, <1>14, Zenon DEF OrderInv

(* A step that writes no fragment and loses none.                          *)
LEMMA OrderSame ==
    ASSUME Inv, OrderInv, Next, ~AddTrack, ~WriteFragment, ~FragmentRefused, ~FragmentFails,
           Fragments' = Fragments
    PROVE  OrderInv'
<1>1. sequence' = sequence
  BY SequenceStep
<1>2. /\ DOMAIN tracks' = DOMAIN tracks
      /\ \A t \in DOMAIN tracks : tracks'[t].id = tracks[t].id /\ Reached(t)' = Reached(t)
  BY ReachedSame
<1>3. \A t \in DOMAIN tracks :
        RunsReach(RunsOf(tracks[t].id, Fragments), Reached(t), sequence = Len(Fragments))
  BY DEF OrderInv
<1>4. \A t \in DOMAIN tracks' :
        RunsReach(RunsOf(tracks'[t].id, Fragments'), Reached(t)', sequence' = Len(Fragments'))
  BY <1>1, <1>2, <1>3, Zenon
<1>5. /\ Fragments' \in Seq(FragmentBox) /\ Len(Fragments') <= sequence'
      /\ \A k \in DOMAIN Fragments' : Fragments'[k].seq <= sequence'
      /\ SeqsAscend(Fragments')
  BY <1>1, Zenon DEF OrderInv
<1> QED BY <1>4, <1>5, Zenon DEF OrderInv

(* A fragment is lost: its number is, and where its tracks had got to is   *)
(* where its samples ended.                                                *)
LEMMA OrderLost ==
    ASSUME Inv, OrderInv, sequence' = sequence + 1, tracks' = Emptied, traks' = traks,
           Fragments' = Fragments
    PROVE  OrderInv'
<1> DEFINE F == Fragments
           n == Len(F)
<1>1. F \in Seq(FragmentBox) /\ n <= sequence /\ (\A k \in DOMAIN F : F[k].seq <= sequence)
      /\ SeqsAscend(F)
  BY DEF OrderInv
<1>2. TypeOK /\ PendingRunsOn /\ sequence \in Nat
  BY DEF Inv, TypeOK
<1>3. /\ DOMAIN tracks' = DOMAIN tracks
      /\ \A t \in DOMAIN tracks :
           /\ tracks'[t].pending = <<>> /\ tracks'[t].id = tracks[t].id
           /\ tracks'[t].nextTime = tracks[t].nextTime
  BY EmptiedTracks
<1>4. \A t \in DOMAIN tracks : RunsReach(RunsOf(tracks[t].id, F), Reached(t), sequence = n)
  BY DEF OrderInv
<1>5. Fragments' = F
  OBVIOUS
<1> HIDE DEF F
<1>6. n \in Nat /\ DOMAIN F = 1..n /\ \A k \in DOMAIN F : F[k] \in FragmentBox
  BY <1>1, LenProperties, ElementOfSeq
<1>7. \A k \in DOMAIN F : F[k].seq \in Nat
  BY <1>6 DEF FragmentBox
<1>8. n <= sequence + 1 /\ \A k \in DOMAIN F : F[k].seq <= sequence + 1
  BY <1>1, <1>2, <1>6, <1>7
<1>9. ~(sequence + 1 = n)
  <2>1. n <= sequence /\ n \in Nat /\ sequence \in Nat
    BY <1>1, <1>2, <1>6
  <2> HIDE DEF n
  <2> QED BY <2>1
<1>10. ASSUME NEW t \in DOMAIN tracks
       PROVE  RunsReach(RunsOf(tracks[t].id, F), tracks[t].nextTime, FALSE)
  <2> DEFINE runs == RunsOf(tracks[t].id, F)
             m == Reached(t)
             e == EndOf(runs)
  <2>1. m \in Nat /\ tracks[t].nextTime \in Nat /\ m <= tracks[t].nextTime
    BY <1>2, ReachedType
  <2>2. RunsAscend(runs) /\ e <= m
    BY <1>4 DEF RunsReach
  <2>3. e \in Nat
    <3>1. runs \in Seq(RunType)
      <4> DEFINE id == tracks[t].id
      <4> HIDE DEF id
      <4>1. RunsOf(id, F) \in Seq(RunType)
        BY <1>1, RunsOfType
      <4> QED BY <4>1 DEF id
    <3> HIDE DEF runs
    <3> QED BY <3>1, EndType
  <2> HIDE DEF m, e
  <2>4. e <= tracks[t].nextTime
    BY <2>1, <2>2, <2>3
  <2> QED BY <2>2, <2>4 DEF RunsReach, e
<1>11. \A t \in DOMAIN tracks' :
         RunsReach(RunsOf(tracks'[t].id, Fragments'), Reached(t)', (sequence = Len(Fragments))')
  <2> SUFFICES ASSUME NEW t \in DOMAIN tracks
               PROVE  RunsReach(RunsOf(tracks'[t].id, Fragments'), Reached(t)',
                                sequence' = Len(Fragments'))
    BY <1>3
  <2>1. Reached(t)' = tracks[t].nextTime
    BY <1>3 DEF Reached
  <2>2. sequence' = Len(Fragments') => FALSE
    BY <1>5, <1>9
  <2>3. tracks'[t].id = tracks[t].id
    BY <1>3
  <2>4. RunsReach(RunsOf(tracks[t].id, F), tracks[t].nextTime, sequence' = Len(Fragments'))
    BY <1>10, <2>2, ReachLess
  <2> QED BY <1>5, <2>1, <2>3, <2>4, Zenon
<1> QED BY <1>1, <1>5, <1>8, <1>11, Zenon DEF OrderInv

(* An index that fails takes every fragment with it.                       *)
LEMMA OrderCut ==
    ASSUME Inv, OrderInv, Next, FinishIndexFails, Fragments' = <<>>
    PROVE  OrderInv'
<1> DEFINE none == <<>>
<1>1. ~AddTrack /\ ~WriteFragment /\ ~FragmentRefused /\ ~FragmentFails
  BY DEF FinishIndexFails, AddTrack, MayAddTrack, WriteFragment, FragmentRefused, FragmentFails
<1>2. sequence \in Nat /\ sequence' = sequence
  BY <1>1, SequenceStep DEF Inv, TypeOK
<1>3. CASE sequence = 0
  BY <1>1, <1>3, NoneYet, OrderSame
<1>4. CASE sequence # 0
  <2>1. /\ DOMAIN tracks' = DOMAIN tracks
        /\ \A t \in DOMAIN tracks : Reached(t)' = Reached(t)
    BY <1>1, ReachedSame
  <2>2. /\ none \in Seq(FragmentBox) /\ Len(none) = 0 /\ DOMAIN none = {}
    BY EmptySeq
  <2>3. \A t \in DOMAIN tracks : Reached(t) \in Nat
    BY ReachedType DEF Inv
  <2>4. \A id, m : m \in Nat => RunsReach(RunsOf(id, none), m, FALSE)
    BY RunsOfNone, NoRuns
  <2>5. Fragments' = none
    OBVIOUS
  <2> HIDE DEF none
  <2>6. (sequence' = Len(Fragments')) => FALSE
    BY <1>2, <1>4, <2>2, <2>5
  <2>7. \A t \in DOMAIN tracks' :
          RunsReach(RunsOf(tracks'[t].id, Fragments'), Reached(t)', (sequence = Len(Fragments))')
    <3> SUFFICES ASSUME NEW t \in DOMAIN tracks
                 PROVE  RunsReach(RunsOf(tracks'[t].id, Fragments'), Reached(t)',
                                  sequence' = Len(Fragments'))
      BY <2>1
    <3>1. RunsReach(RunsOf(tracks'[t].id, none), Reached(t), FALSE)
      BY <2>3, <2>4
    <3>2. RunsReach(RunsOf(tracks'[t].id, none), Reached(t), sequence' = Len(Fragments'))
      BY <2>6, <3>1, ReachLess
    <3> QED BY <2>1, <2>5, <3>2, Zenon
  <2>8. /\ Fragments' \in Seq(FragmentBox) /\ Len(Fragments') <= sequence'
        /\ \A k \in DOMAIN Fragments' : Fragments'[k].seq <= sequence'
        /\ SeqsAscend(Fragments')
    BY <1>2, <2>2, <2>5 DEF SeqsAscend
  <2> QED BY <2>7, <2>8, Zenon DEF OrderInv
<1> QED BY <1>3, <1>4

(* Every step keeps the fragments in order.                                *)
LEMMA OrderStep ==
    ASSUME Inv, Inv', StartInv, HeldNoted, OrderInv, Next
    PROVE  OrderInv'
<1>1. \/ Fragments' = Fragments /\ ~WriteFragment
      \/ FinishIndexFails /\ Fragments' = <<>>
      \/ WriteFragment /\ \E frag \in FragmentBox :
           /\ frag.seq = sequence + 1 /\ frag.runs = Runs
           /\ Fragments' = Append(Fragments, frag)
  BY FragmentsStep
<1>2. CASE FinishIndexFails /\ Fragments' = <<>>
  BY <1>2, OrderCut
<1>3. CASE WriteFragment /\ \E frag \in FragmentBox :
             /\ frag.seq = sequence + 1 /\ frag.runs = Runs
             /\ Fragments' = Append(Fragments, frag)
  BY <1>3, OrderWrite
<1>4. CASE Fragments' = Fragments /\ ~WriteFragment
  <2>1. CASE AddTrack
    BY <1>4, <2>1, OrderAddTrack DEF Next
  <2>2. CASE FragmentRefused \/ FragmentFails
    <3>1. sequence' = sequence + 1 /\ tracks' = Emptied /\ traks' = traks
      BY <2>2 DEF FragmentRefused, FragmentFails
    <3> QED BY <1>4, <3>1, OrderLost
  <2>3. CASE ~AddTrack /\ ~FragmentRefused /\ ~FragmentFails
    BY <1>4, <2>3, OrderSame
  <2> QED BY <2>1, <2>2, <2>3
<1> QED BY <1>1, <1>2, <1>3, <1>4

(* A new muxer has written nothing.                                        *)
LEMMA NewIsEmpty ==
    ASSUME Init
    PROVE  /\ Written = <<>> /\ Fragments = <<>> /\ DOMAIN tracks = {}
           /\ sequence = 0 /\ index.held = <<>> /\ index.fragments = <<>>
<1> DEFINE none == <<>>
<1>1. file = none /\ index.held = none /\ complete = FALSE /\ tracks = none
      /\ index.fragments = none /\ sequence = 0
  BY DEF Init
<1>2. none \in Seq(Box) /\ DOMAIN none = {}
  BY EmptySeq
<1>3. none \o none = none
  BY <1>2, ConcatEmptySeq
<1>4. Written = none
  BY <1>1, <1>3 DEF Written
<1>5. Fragments = FragmentsIn(none)
  BY <1>4, Zenon DEF Fragments, FragmentsIn
<1>6. Fragments = none
  BY <1>5, FragmentsNone
<1> QED BY <1>1, <1>2, <1>4, <1>6

(* The order holds of a new muxer.                                         *)
LEMMA OrderInit == Init => HeldNoted /\ OrderInv
<1> SUFFICES ASSUME Init PROVE HeldNoted /\ OrderInv
  OBVIOUS
<1> DEFINE none == <<>>
<1>1. Fragments = none /\ DOMAIN tracks = {} /\ sequence = 0 /\ index.held = index.fragments
  BY NewIsEmpty
<1>2. none \in Seq(FragmentBox) /\ Len(none) = 0 /\ DOMAIN none = {}
  BY EmptySeq
<1> HIDE DEF none
<1>3. HeldNoted
  BY <1>1 DEF HeldNoted
<1>4. OrderInv
  BY <1>1, <1>2 DEF OrderInv, SeqsAscend
<1> QED BY <1>3, <1>4

(* The order holds when nothing changes.                                   *)
LEMMA OrderStutter ==
    ASSUME HeldNoted, OrderInv, UNCHANGED vars
    PROVE  HeldNoted' /\ OrderInv'
<1>1. /\ Fragments' = Fragments /\ sequence' = sequence /\ tracks' = tracks
      /\ complete' = complete /\ setup' = setup /\ index' = index
  BY DEF vars, Fragments, Written, Of
<1>2. HeldNoted'
  BY <1>1, Zenon DEF HeldNoted, Indexed, Readable, SizesIn
<1>3. \A t \in DOMAIN tracks : Reached(t)' = Reached(t)
  BY <1>1 DEF Reached
<1>4. \A t \in DOMAIN tracks :
        RunsReach(RunsOf(tracks[t].id, Fragments), Reached(t), sequence = Len(Fragments))
  BY DEF OrderInv
<1>5. \A t \in DOMAIN tracks' :
        RunsReach(RunsOf(tracks'[t].id, Fragments'), Reached(t)', sequence' = Len(Fragments'))
  BY <1>1, <1>3, <1>4, Zenon
<1> QED BY <1>1, <1>2, <1>5, Zenon DEF OrderInv

(* In every state of FragmentMuxer the fragments written are in order, and *)
(* what the index notes of fragments held for it is what they are.         *)
THEOREM FragmentOrder == Spec => [](Inv /\ StartInv /\ HeldNoted /\ OrderInv)
<1>1. Init => HeldNoted /\ OrderInv
  BY OrderInit
<1>2. /\ Inv /\ StartInv /\ HeldNoted /\ OrderInv /\ [Next]_vars
      /\ Inv' /\ StartInv'
      => HeldNoted' /\ OrderInv'
  BY HeldNotedStep, OrderStep, OrderStutter
<1>3. Spec => [](Inv /\ StartInv)
  BY FragmentInvariant
<1> QED BY <1>1, <1>2, <1>3, PTL DEF Spec

(* The invariant gives the two properties the runs check.                  *)
LEMMA OrderHolds == OrderInv => FragmentsNeverGoBack /\ DecodeTimesRunOn
BY DEF OrderInv, FragmentsNeverGoBack, DecodeTimesRunOn, SeqsAscend, RunsReach, RunsAscend,
       RunsFollow

(* FragmentsNeverGoBack, for every configuration, limit and fault: after   *)
(* refused and lost fragments, failed calls to Flush and an index that     *)
(* could not be written, mux.go numbers the fragments that a file has in   *)
(* order and no track starts one before its media in the fragments before. *)
THEOREM FragmentsAscend == Spec => []FragmentsNeverGoBack
BY FragmentOrder, OrderHolds, PTL

(* DecodeTimesRunOn likewise: where no fragment is lost, each starts where *)
(* the one before it left its track (trackState.nextTime, tfdt).           *)
THEOREM FragmentsRunOn == Spec => []DecodeTimesRunOn
BY FragmentOrder, OrderHolds, PTL

(***************************************************************************)
(* The samples of a file.                                                  *)
(***************************************************************************)
(* What a run, and what a fragment adds to the samples of the track id.    *)
OwnSamples(id) == [r \in RunType |-> IF r.id = id THEN r.samples ELSE <<>>]
SamplesMaker(id) == [frag \in FragmentBox |-> SamplesIn(id, frag)]

(* The samples of the track id in a sequence of fragments.                 *)
Taken(id, fragments) == Gathered(SamplesMaker(id), fragments)

(* Runs give samples.                                                      *)
LEMMA OwnSamplesMakes == \A id : OwnSamples(id) \in Makers(RunType, SampleType)
<1> SUFFICES ASSUME NEW id PROVE OwnSamples(id) \in Makers(RunType, SampleType)
  OBVIOUS
<1>1. ASSUME NEW r \in RunType
      PROVE  (IF r.id = id THEN r.samples ELSE <<>>) \in Seq(SampleType)
  <2>1. r.samples \in Seq(SampleType)
    BY DEF RunType
  <2>2. <<>> \in Seq(SampleType)
    BY EmptySeq
  <2> QED BY <2>1, <2>2, Zenon
<1> QED BY <1>1, Zenon DEF OwnSamples, Makers

(* So do fragments, those of their runs.                                   *)
LEMMA SamplesInGathered ==
    ASSUME NEW id, NEW frag \in FragmentBox
    PROVE  /\ SamplesIn(id, frag) = Gathered(OwnSamples(id), frag.runs)
           /\ SamplesIn(id, frag) \in Seq(SampleType)
<1> DEFINE runs == frag.runs
           n == Len(runs)
           f == [i \in DOMAIN runs |-> IF runs[i].id = id THEN runs[i].samples ELSE <<>>]
           g == [i \in DOMAIN runs |-> OwnSamples(id)[runs[i]]]
<1>1. runs \in Seq(RunType)
  BY DEF FragmentBox
<1>2. n \in Nat /\ DOMAIN runs = 1..n /\ \A i \in 1..n : runs[i] \in RunType
  BY <1>1, LenProperties, ElementOfSeq
<1>3. SamplesIn(id, frag) = ConcatTo(f, n) /\ Gathered(OwnSamples(id), runs) = ConcatTo(g, n)
  BY Zenon DEF SamplesIn, Gathered
<1>4. ASSUME NEW i \in 1..n PROVE f[i] = g[i]
  <2>1. f[i] = IF runs[i].id = id THEN runs[i].samples ELSE <<>>
    BY <1>2, Zenon
  <2>2. g[i] = OwnSamples(id)[runs[i]]
    BY <1>2, Zenon
  <2>3. OwnSamples(id)[runs[i]] = IF runs[i].id = id THEN runs[i].samples ELSE <<>>
    BY <1>2, Zenon DEF OwnSamples
  <2> QED BY <2>1, <2>2, <2>3, Zenon
<1> HIDE DEF f, g, n, runs
<1>5. ConcatTo(f, n) = ConcatTo(g, n)
  BY <1>2, <1>4, ConcatSame
<1>6. Gathered(OwnSamples(id), runs) \in Seq(SampleType)
  BY <1>1, OwnSamplesMakes, GatheredType
<1> QED BY <1>3, <1>5, <1>6, Zenon DEF runs

(* What fragments make of samples.                                         *)
LEMMA SamplesMakes == \A id : SamplesMaker(id) \in Makers(FragmentBox, SampleType)
<1> SUFFICES ASSUME NEW id PROVE SamplesMaker(id) \in Makers(FragmentBox, SampleType)
  OBVIOUS
<1>1. \A f \in FragmentBox : SamplesIn(id, f) \in Seq(SampleType)
  BY SamplesInGathered
<1> QED BY <1>1, Zenon DEF SamplesMaker, Makers

(* The samples taken, one fragment more.                                   *)
LEMMA TakenAppend ==
    ASSUME NEW id, NEW fragments \in Seq(FragmentBox), NEW frag \in FragmentBox
    PROVE  /\ Taken(id, fragments) \in Seq(SampleType)
           /\ Taken(id, Append(fragments, frag))
                = Then(Taken(id, fragments), SamplesIn(id, frag))
<1>1. SamplesMaker(id) \in Makers(FragmentBox, SampleType)
  BY SamplesMakes
<1>2. Gathered(SamplesMaker(id), Append(fragments, frag))
        = Then(Gathered(SamplesMaker(id), fragments), SamplesMaker(id)[frag])
  BY <1>1, GatheredAppend
<1>3. SamplesMaker(id)[frag] = SamplesIn(id, frag)
  BY Zenon DEF SamplesMaker
<1>4. Gathered(SamplesMaker(id), fragments) \in Seq(SampleType)
  BY <1>1, GatheredType
<1> QED BY <1>2, <1>3, <1>4, Zenon DEF Taken

(* The samples of a track in fragments are samples.                        *)
LEMMA TakenType ==
    ASSUME NEW id, NEW fragments \in Seq(FragmentBox)
    PROVE  Taken(id, fragments) \in Seq(SampleType)
<1>1. SamplesMaker(id) \in Makers(FragmentBox, SampleType)
  BY SamplesMakes
<1> QED BY <1>1, GatheredType, Zenon DEF Taken

(* Without fragments there are none.                                       *)
LEMMA TakenNone == \A id : Taken(id, <<>>) = <<>>
BY GatheredEmpty, Zenon DEF Taken

(* The samples in a file are those of its fragments.                       *)
LEMMA SamplesOfWhole ==
    ASSUME NEW boxes, Whole(boxes), NEW id
    PROVE  /\ FragmentsIn(boxes) \in Seq(FragmentBox)
           /\ SamplesOf(id, boxes) = Taken(id, FragmentsIn(boxes))
<1>1. PICK X : boxes \in Seq(X) /\ \A b \in X : b.box = "fragment" => b \in FragmentBox
  BY DEF Whole
<1> DEFINE n == Len(boxes)
           f == [j \in DOMAIN boxes |-> IF boxes[j].box = "fragment" THEN <<boxes[j]>> ELSE <<>>]
           h == [j \in DOMAIN boxes |->
                   IF boxes[j].box = "fragment" THEN SamplesIn(id, boxes[j]) ELSE <<>>]
           G == SamplesMaker(id)
<1>2. n \in Nat /\ DOMAIN boxes = 1..n /\ \A j \in 1..n : boxes[j] \in X
  BY <1>1, LenProperties, ElementOfSeq
<1>3. FragmentsIn(boxes) = ConcatTo(f, n) /\ SamplesOf(id, boxes) = ConcatTo(h, n)
  BY Zenon DEF FragmentsIn, Of, SamplesOf
<1>4. G \in Makers(FragmentBox, SampleType)
  BY SamplesMakes
<1>5. \A j \in 1..n :
        /\ f[j] = IF boxes[j].box = "fragment" THEN <<boxes[j]>> ELSE <<>>
        /\ h[j] = IF boxes[j].box = "fragment" THEN SamplesIn(id, boxes[j]) ELSE <<>>
  BY <1>2, Zenon
<1> HIDE DEF f, h, n
<1>6. ASSUME NEW j \in 1..n
      PROVE  f[j] \in Seq(FragmentBox) /\ h[j] = Gathered(G, f[j])
  <2>1. CASE boxes[j].box = "fragment"
    <3> DEFINE frag == boxes[j]
    <3>1. frag \in FragmentBox
      BY <1>1, <1>2, <2>1
    <3>2. f[j] = <<frag>> /\ h[j] = SamplesIn(id, frag)
      BY <1>5, <2>1, Zenon
    <3>3. G[frag] = SamplesIn(id, frag)
      BY <3>1, Zenon DEF SamplesMaker
    <3> HIDE DEF frag, G
    <3>4. Gathered(G, <<frag>>) = G[frag]
      BY <1>4, <3>1, GatheredOne
    <3>5. <<frag>> \in Seq(FragmentBox)
      <4> HIDE DEF FragmentBox
      <4> QED BY <3>1
    <3> QED BY <3>2, <3>3, <3>4, <3>5, Zenon
  <2>2. CASE boxes[j].box # "fragment"
    <3>1. f[j] = <<>> /\ h[j] = <<>>
      BY <1>5, <2>2, Zenon
    <3>2. <<>> \in Seq(FragmentBox)
      BY EmptySeq
    <3> QED BY <3>1, <3>2, GatheredEmpty, Zenon
  <2> QED BY <2>1, <2>2
<1>7. Gathered(G, ConcatTo(f, n)) = ConcatTo(h, n)
  <2> HIDE DEF G
  <2> QED BY <1>2, <1>4, <1>6, GatheredConcat
<1>8. ConcatTo(f, n) \in Seq(FragmentBox)
  BY <1>2, <1>6, ConcatIsSeq
<1> QED BY <1>3, <1>7, <1>8, Zenon DEF Taken

(* The samples of no run.                                                  *)
LEMMA BareNone == Bare(<<>>) = <<>>
<1>1. DOMAIN <<>> = {}
  OBVIOUS
<1> QED BY <1>1 DEF Bare

(* What is buffered of a track, as the file states it.                     *)
LEMMA BareType ==
    ASSUME TypeOK, NEW t \in DOMAIN tracks
    PROVE  Bare(tracks[t].pending) \in Seq(SampleType)
<1>1. CASE tracks[t].pending = <<>>
  <2>1. Bare(tracks[t].pending) = <<>>
    BY <1>1, BareNone, Zenon
  <2> QED BY <2>1, EmptySeq
<1>2. CASE tracks[t].pending # <<>>
  <2>1. Run(t) \in RunType /\ Run(t).samples = Bare(tracks[t].pending)
    BY <1>2, RunIsRun
  <2> QED BY <2>1 DEF RunType
<1> QED BY <1>1, <1>2

(* A fragment takes the samples its track has buffered, all of them and in *)
(* their order.                                                            *)
LEMMA SamplesInFragment ==
    ASSUME TypeOK, TracksApart, NEW u \in DOMAIN tracks, NEW frag \in FragmentBox,
           frag.runs = Runs
    PROVE  SamplesIn(tracks[u].id, frag) = Bare(tracks[u].pending)
<1> DEFINE id == tracks[u].id
           n == Len(tracks)
           f == [t \in DOMAIN tracks |-> IF tracks[t].pending = <<>> THEN <<>> ELSE <<Run(t)>>]
           h == [t \in DOMAIN tracks |-> Gathered(OwnSamples(id), f[t])]
<1>1. n \in Nat /\ DOMAIN tracks = 1..n
  BY TrackTypes
<1>2. SamplesIn(id, frag) = Gathered(OwnSamples(id), Runs)
  BY SamplesInGathered
<1>3. Runs = ConcatTo(f, n)
  BY Zenon DEF Runs
<1>4. \A t \in 1..n : f[t] = IF tracks[t].pending = <<>> THEN <<>> ELSE <<Run(t)>>
  BY <1>1, Zenon
<1>5. \A t \in 1..n : h[t] = Gathered(OwnSamples(id), f[t])
  BY <1>1, Zenon
<1>6. \A t \in 1..n : tracks[t].pending # <<>> =>
        /\ Run(t) \in RunType /\ Run(t).id = tracks[t].id
        /\ Run(t).samples = Bare(tracks[t].pending)
  BY <1>1, RunIsRun
<1> HIDE DEF f, h, n
<1>7. \A t \in 1..n : f[t] \in Seq(RunType)
  <2>1. ASSUME NEW t \in 1..n PROVE f[t] \in Seq(RunType)
    <3>1. CASE tracks[t].pending = <<>>
      BY <1>4, <3>1, EmptySeq
    <3>2. CASE tracks[t].pending # <<>>
      <4> DEFINE r == Run(t)
      <4>1. r \in RunType
        BY <1>6, <3>2
      <4>2. f[t] = <<r>>
        BY <1>4, <3>2, Zenon
      <4> HIDE DEF r
      <4> QED BY <4>1, <4>2
    <3> QED BY <3>1, <3>2
  <2> QED BY <2>1
<1>8. OwnSamples(id) \in Makers(RunType, SampleType)
  BY OwnSamplesMakes
<1>9. Gathered(OwnSamples(id), ConcatTo(f, n)) = ConcatTo(h, n)
  <2> HIDE DEF id
  <2> QED BY <1>1, <1>5, <1>7, <1>8, GatheredConcat
<1>10. ASSUME NEW t \in 1..n
       PROVE  h[t] = IF t # u THEN <<>> ELSE Bare(tracks[t].pending)
  <2>1. CASE tracks[t].pending = <<>>
    <3>1. f[t] = <<>>
      BY <1>4, <2>1
    <3> QED BY <1>5, <2>1, <3>1, GatheredEmpty, BareNone, Zenon
  <2>2. CASE tracks[t].pending # <<>>
    <3> DEFINE r == Run(t)
    <3>1. r \in RunType /\ r.id = tracks[t].id /\ r.samples = Bare(tracks[t].pending)
      BY <1>6, <2>2
    <3>2. f[t] = <<r>>
      BY <1>4, <2>2, Zenon
    <3> HIDE DEF r
    <3>3. Gathered(OwnSamples(id), <<r>>) = OwnSamples(id)[r]
      BY <1>8, <3>1, GatheredOne
    <3>4. OwnSamples(id)[r] = IF r.id = id THEN r.samples ELSE <<>>
      BY <3>1, Zenon DEF OwnSamples
    <3>5. r.id = id <=> t = u
      BY <1>1, <3>1 DEF TracksApart
    <3> QED BY <1>5, <3>1, <3>2, <3>3, <3>4, <3>5, Zenon
  <2> QED BY <2>1, <2>2
<1>11. u \in 1..n
  BY <1>1
<1>12. ConcatTo(h, n) = h[u]
  <2>1. h[u] \in Seq(SampleType)
    BY <1>10, <1>11, BareType
  <2>2. \A t \in 1..n : t # u => h[t] = <<>>
    BY <1>10, Zenon
  <2> QED BY <1>1, <1>11, <2>1, <2>2, ConcatOne
<1> QED BY <1>2, <1>3, <1>9, <1>10, <1>11, <1>12, Zenon

(***************************************************************************)
(* The content of the file being written: what the fragments took, and     *)
(* what is buffered.                                                       *)
(***************************************************************************)
(* The samples of a track that have been written.                          *)
Gone(t) == Taken(tracks[t].id, Fragments)

(* What a track holds is what has been written of it and, until the file   *)
(* is finished, what is buffered.                                          *)
ContentHeld ==
    /\ Content = [t \in DOMAIN tracks |-> Content[t]]
    /\ \A t \in DOMAIN tracks :
         Content[t] = Then(Gone(t), IF complete THEN <<>> ELSE Bare(tracks[t].pending))
    /\ Fragments \in Seq(FragmentBox)

(* While the file is written and when it is finished its fragments are     *)
(* fragments, and a file is closed that has tracks.                        *)
ContentInv ==
    /\ Whole(Written)
    /\ call.op = "close" => DOMAIN tracks # {}

(* It does when the boxes written are boxes,                               *)
LEMMA ContentIs == Whole(Written) => ContentHeld
<1> SUFFICES ASSUME Whole(Written) PROVE ContentHeld
  OBVIOUS
<1>1. FragmentsIn(Written) \in Seq(FragmentBox)
      /\ \A id : SamplesOf(id, Written) = Taken(id, FragmentsIn(Written))
  BY SamplesOfWhole
<1>2. Fragments = FragmentsIn(Written)
  BY Zenon DEF Fragments, FragmentsIn
<1>3. Content = [t \in DOMAIN tracks |-> Content[t]]
  BY Zenon DEF Content
<1>4. ASSUME NEW t \in DOMAIN tracks
      PROVE  Content[t] = Then(Gone(t), IF complete THEN <<>> ELSE Bare(tracks[t].pending))
  BY <1>1, <1>2, <1>4, Zenon DEF Content, Gone, Then
<1> QED BY <1>1, <1>2, <1>3, <1>4, Zenon DEF ContentHeld

(* and after a step as well.                                               *)
LEMMA ContentIsNext == Whole(Written)' => ContentHeld'
BY ContentIs, PTL

(* A step from Close to the end of it, and no other, sets complete.        *)
LEMMA CompletedBy ==
    ASSUME Next, ~complete, complete'
    PROVE  Closing \/ FinishIndex
<1>1. Step
  BY DEF Next
<1>2. \A t, s : ~WriteSample(t, s)
  BY DEF WriteSample
<1> QED BY <1>1, <1>2 DEF Step, AddTrack, AddTrackRefused, TakeSample, Flush,
           WriteHeader, HeaderFails, BeginFails, WriteFragment, FragmentRefused, FragmentFails,
           Close, RefuseClosed, FinishIndexFails, Fails, vars

(* What a step leaves behind has fragments that are fragments.             *)
LEMMA WholeStep ==
    ASSUME Inv, Inv', StartInv, HeldNoted, Whole(Written), Next
    PROVE  Whole(Written)'
<1>1. CASE complete
  <2>1. UNCHANGED vars
    BY <1>1, Finished
  <2>2. Written' = Written
    BY <2>1 DEF vars, Written
  <2> QED BY <2>2
<1>2. CASE ~complete'
  <2>1. Written' \in Seq(Box)
    BY <1>2, WrittenOpenNext DEF WhileOpen
  <2> QED BY <2>1, BoxKinds DEF Whole
<1>3. CASE ~complete /\ complete'
  <2>1. Written' = file'
    BY <1>3 DEF Written
  <2>2. CASE Closing
    <3>1. file' \in Seq(Box)
      BY <1>3, <2>2 DEF Closing, Inv, TypeOK
    <3> QED BY <2>1, <3>1, BoxKinds DEF Whole
  <2>3. CASE FinishIndex
    <3>1. Whole(file')
      BY <2>3, FragmentsFinished DEF Next
    <3> QED BY <2>1, <3>1
  <2> QED BY <1>3, <2>2, <2>3, CompletedBy
<1> QED BY <1>1, <1>2, <1>3

(* No step takes a track away.                                             *)
LEMMA TracksStay ==
    ASSUME Inv, Next
    PROVE  DOMAIN tracks \subseteq DOMAIN tracks'
<1>1. CASE AddTrack
  <2>1. tracks \in Seq(TrackType) /\ \E new : tracks' = Append(tracks, new)
    BY <1>1 DEF AddTrack, Inv, TypeOK
  <2>2. PICK new : tracks' = Append(tracks, new)
    BY <2>1
  <2>3. DOMAIN tracks = 1..Len(tracks) /\ Len(tracks) \in Nat
    BY <2>1, LenProperties
  <2>4. DOMAIN tracks' = 1..(Len(tracks) + 1)
    BY <2>1, <2>2
  <2> QED BY <2>3, <2>4
<1>2. CASE WriteFragment \/ FragmentRefused \/ FragmentFails
  <2>1. tracks' = Emptied
    BY <1>2 DEF WriteFragment, FragmentRefused, FragmentFails
  <2> QED BY <2>1 DEF Emptied
<1>3. CASE ~(AddTrack \/ WriteFragment \/ FragmentRefused \/ FragmentFails)
  BY <1>3, ReachedSame
<1> QED BY <1>1, <1>2, <1>3

(* The call in progress is a Close that began, or one that begins now.     *)
LEMMA CloseBegins ==
    ASSUME Inv, Next, call'.op = "close", call.op # "close"
    PROVE  DOMAIN tracks # {}
<1>1. Step
  BY DEF Next
<1>2. NoCall.op = "none" /\ [NoCall EXCEPT !.op = "flush"].op = "flush"
  BY CallsType
<1>3. \A t, s : ~WriteSample(t, s)
  <2> SUFFICES ASSUME NEW t, NEW s, WriteSample(t, s) PROVE FALSE
    OBVIOUS
  <2> DEFINE c == ClockSample(tracks[t].clock, s).sample
  <2>1. call' = [op |-> "write", track |-> t, sample |-> c]
    BY DEF WriteSample
  <2> HIDE DEF c
  <2> QED BY <2>1
<1>4. CASE Close
  <2>1. tracks # <<>> \/ call' = call
    BY <1>4 DEF Close
  <2>2. tracks # <<>>
    BY <2>1
  <2>3. tracks \in Seq(TrackType) /\ Len(tracks) \in Nat /\ DOMAIN tracks = 1..Len(tracks)
    BY LenProperties DEF Inv, TypeOK
  <2>4. Len(tracks) # 0
    BY <2>2, <2>3, EmptySeq
  <2> QED BY <2>3, <2>4, SMTT(30)
<1> HIDE DEF NoCall
<1>5. call' # call
  OBVIOUS
<1>6. ~Flush
  BY <1>2 DEF Flush
<1>7. ~(AddTrack \/ AddTrackRefused \/ WriteHeader \/ RefuseClosed)
  BY <1>5 DEF AddTrack, AddTrackRefused, WriteHeader, RefuseClosed, vars
<1>8. ~WriteFragment
  <2> SUFFICES ASSUME WriteFragment PROVE FALSE
    OBVIOUS
  <2>1. AfterFragment /\ pc = "fragment" /\ TypeOK /\ Control
    BY DEF WriteFragment, Inv
  <2>2. call.op \in {"write", "flush"}
    BY <2>1 DEF TypeOK, Control, CallType
  <2>3. call' = call \/ call' = NoCall
    BY <2>1, <2>2 DEF AfterFragment
  <2> QED BY <1>2, <1>5, <2>3
<1>9. ~(TakeSample \/ FinishIndex)
  BY <1>2 DEF TakeSample, FinishIndex
<1>10. ~(HeaderFails \/ BeginFails \/ FragmentRefused \/ FragmentFails \/ FinishIndexFails)
  BY <1>2 DEF HeaderFails, BeginFails, FragmentRefused, FragmentFails, FinishIndexFails, Fails
<1>11. ~Closing
  BY <1>2, <1>5 DEF Closing
<1> QED BY <1>1, <1>3, <1>4, <1>6, <1>7, <1>8, <1>9, <1>10, <1>11 DEF Step

(* Every step keeps the content what it is.                                *)
LEMMA ContentInvStep ==
    ASSUME Inv, Inv', StartInv, HeldNoted, ContentInv, Next
    PROVE  ContentInv'
<1>1. Whole(Written)'
  BY WholeStep DEF ContentInv
<1>2. ASSUME call'.op = "close" PROVE DOMAIN tracks' # {}
  <2>1. DOMAIN tracks # {}
    BY <1>2, CloseBegins DEF ContentInv
  <2> QED BY <2>1, TracksStay
<1> QED BY <1>1, <1>2 DEF ContentInv

(***************************************************************************)
(* What each step does to the content.                                     *)
(***************************************************************************)
(* What is buffered of a track, until the file is finished.                *)
Waiting(t) == IF complete THEN <<>> ELSE Bare(tracks[t].pending)

(* Tracks that hold what they held.                                        *)
LEMMA ContentKept ==
    ASSUME ContentHeld, ContentHeld', DOMAIN tracks' = DOMAIN tracks,
           \A t \in DOMAIN tracks : Then(Gone(t)', Waiting(t)') = Then(Gone(t), Waiting(t))
    PROVE  Content' = Content
<1>1. /\ Content = [t \in DOMAIN tracks |-> Content[t]]
      /\ \A t \in DOMAIN tracks : Content[t] = Then(Gone(t), Waiting(t))
  BY Zenon DEF ContentHeld, Waiting
<1>2. /\ Content' = [t \in DOMAIN tracks |-> Content'[t]]
      /\ \A t \in DOMAIN tracks : Content'[t] = Then(Gone(t)', Waiting(t)')
  BY Zenon DEF ContentHeld, Waiting
<1> DEFINE c == Content
           d == Content'
<1>3. \A t \in DOMAIN tracks : d[t] = c[t]
  BY <1>1, <1>2, Zenon
<1>4. c = [t \in DOMAIN tracks |-> c[t]] /\ d = [t \in DOMAIN tracks |-> d[t]]
  BY <1>1, <1>2, Zenon
<1> HIDE DEF c, d
<1>5. d = c
  BY <1>3, <1>4
<1> QED BY <1>5 DEF c, d

(* Steps that write no fragment and take no sample.                        *)
LEMMA ContentQuiet ==
    ASSUME ContentHeld, ContentHeld', Fragments' = Fragments, complete' = complete,
           DOMAIN tracks' = DOMAIN tracks,
           \A t \in DOMAIN tracks :
             tracks'[t].id = tracks[t].id /\ tracks'[t].pending = tracks[t].pending
    PROVE  Content' = Content
<1>1. ASSUME NEW t \in DOMAIN tracks
      PROVE  Gone(t)' = Gone(t) /\ Waiting(t)' = Waiting(t)
  BY Zenon DEF Gone, Waiting
<1> QED BY <1>1, ContentKept

(* A fragment takes what is buffered: no sample is in neither, or in both. *)
LEMMA ContentWritten ==
    ASSUME Inv, ContentHeld, ContentHeld', WriteFragment, Next, NEW frag \in FragmentBox,
           frag.runs = Runs, Fragments' = Append(Fragments, frag)
    PROVE  Content' = Content
<1>1. TypeOK /\ TracksApart /\ ~complete /\ ~complete' /\ tracks' = Emptied
  BY DEF Inv, WriteFragment, Control
<1>2. DOMAIN tracks' = DOMAIN tracks
      /\ \A t \in DOMAIN tracks : tracks'[t].id = tracks[t].id /\ tracks'[t].pending = <<>>
  BY <1>1, EmptiedTracks DEF WriteFragment
<1>3. ASSUME NEW t \in DOMAIN tracks
      PROVE  Then(Gone(t)', Waiting(t)') = Then(Gone(t), Waiting(t))
  <2> DEFINE id == tracks[t].id
             F == Fragments
             rest == Bare(tracks[t].pending)
  <2>1. Gone(t) = Taken(id, F) /\ Gone(t)' = Taken(id, Append(F, frag))
    BY <1>2, Zenon DEF Gone
  <2>2. F \in Seq(FragmentBox)
    BY DEF ContentHeld
  <2>3. rest \in Seq(SampleType) /\ SamplesIn(id, frag) = rest
    BY <1>1, BareType, SamplesInFragment
  <2>4. Taken(id, F) \in Seq(SampleType)
        /\ Taken(id, Append(F, frag)) = Then(Taken(id, F), SamplesIn(id, frag))
    BY <2>2, TakenAppend
  <2>5. Waiting(t) = rest /\ Waiting(t)' = <<>>
    BY <1>1, <1>2, BareNone, Zenon DEF Waiting
  <2> HIDE DEF id, F, rest
  <2>6. Then(Taken(id, F), rest) \in Seq(SampleType)
    BY <2>3, <2>4, ThenProperties
  <2>7. Then(Then(Taken(id, F), rest), <<>>) = Then(Taken(id, F), rest)
    BY <2>6, ThenProperties
  <2> QED BY <2>1, <2>3, <2>4, <2>5, <2>7, Zenon
<1> QED BY <1>2, <1>3, ContentKept

(* A buffered sample is what it was handed over as.                        *)
LEMMA BareAppend ==
    ASSUME NEW p \in Seq(PendingType), NEW e \in PendingType, NEW s \in SampleType,
           s = [len |-> e.len, dur |-> e.dur, offset |-> e.offset, sync |-> e.sync]
    PROVE  Bare(p) \in Seq(SampleType) /\ Bare(Append(p, e)) = Append(Bare(p), s)
<1> DEFINE n == Len(p)
           q == Append(p, e)
           b == Bare(p)
           c == Bare(q)
           d == Append(b, s)
<1>1. /\ n \in Nat /\ DOMAIN p = 1..n /\ \A i \in 1..n : p[i] \in PendingType
      /\ Len(q) = n + 1 /\ q \in Seq(PendingType)
      /\ \A i \in 1..n : q[i] = p[i]
      /\ q[n + 1] = e
  BY LenProperties, ElementOfSeq, AppendProperties
<1>2. DOMAIN q = 1..(n + 1)
  BY <1>1, LenProperties
<1> HIDE DEF q, n
<1>3. \A i \in 1..n :
        b[i] = [len |-> p[i].len, dur |-> p[i].dur, offset |-> p[i].offset, sync |-> p[i].sync]
  BY <1>1 DEF Bare
<1>4. b \in [1..n -> SampleType]
  <2>1. \A i \in 1..n :
          [len |-> p[i].len, dur |-> p[i].dur, offset |-> p[i].offset, sync |-> p[i].sync]
            \in SampleType
    BY <1>1 DEF PendingType, SampleType
  <2> QED BY <1>1, <2>1 DEF Bare
<1>5. \A i \in 1..(n + 1) :
        c[i] = [len |-> q[i].len, dur |-> q[i].dur, offset |-> q[i].offset, sync |-> q[i].sync]
  BY <1>2 DEF Bare
<1>6. \A i \in 1..(n + 1) : q[i] \in PendingType
  BY <1>1, <1>2, LenProperties, ElementOfSeq
<1>7. c \in [1..(n + 1) -> SampleType]
  <2>1. \A i \in 1..(n + 1) :
          [len |-> q[i].len, dur |-> q[i].dur, offset |-> q[i].offset, sync |-> q[i].sync]
            \in SampleType
    BY <1>6 DEF PendingType, SampleType
  <2> QED BY <1>2, <2>1 DEF Bare
<1> HIDE DEF b, c
<1>8. b \in Seq(SampleType) /\ Len(b) = n
  BY <1>1, <1>4, FunctionIsSeq
<1>9. c \in Seq(SampleType) /\ Len(c) = n + 1
  <2>1. n + 1 \in Nat
    BY <1>1
  <2> QED BY <1>7, <2>1, FunctionIsSeq
<1>10. /\ d \in Seq(SampleType) /\ Len(d) = n + 1 /\ d[n + 1] = s
       /\ \A i \in 1..n : d[i] = b[i]
  BY <1>8, AppendProperties
<1>11. \A i \in 1..n : c[i] = b[i]
  <2>1. \A i \in 1..n : i \in 1..(n + 1)
    BY <1>1
  <2> QED BY <1>1, <1>3, <1>5, <2>1
<1>12. c[n + 1] = s
  <2>1. n + 1 \in 1..(n + 1)
    BY <1>1
  <2> QED BY <1>1, <1>5, <2>1
<1> HIDE DEF d
<1>13. \A i \in 1..Len(c) : c[i] = d[i]
  <2>1. \A i \in 1..(n + 1) : i \in 1..n \/ i = n + 1
    BY <1>1
  <2> QED BY <1>9, <1>10, <1>11, <1>12, <2>1
<1>14. c = d
  BY <1>9, <1>10, <1>13, SeqEqual
<1> QED BY <1>8, <1>14 DEF b, c, d, q

(* The sample handed over goes behind the others of its track.             *)
LEMMA ContentTaken ==
    ASSUME Inv, ContentHeld, ContentHeld', TakeSample, Next, Fragments' = Fragments
    PROVE  Content' = [Content EXCEPT ![call.track] = Append(@, call.sample)]
<1> DEFINE u == call.track
           s == call.sample
           e == [len |-> s.len, dur |-> s.dur, offset |-> s.offset, sync |-> s.sync,
                 time |-> tracks[u].nextTime]
           p == tracks[u].pending
<1>1. TypeOK /\ ~complete /\ ~complete' /\ pc = "take"
  BY DEF Inv, TakeSample, Control
<1>2. /\ u \in DOMAIN tracks /\ s \in SampleType /\ e \in PendingType
      /\ DOMAIN tracks' = DOMAIN tracks
      /\ tracks'[u].pending = Append(p, e)
      /\ tracks'[u].id = tracks[u].id
      /\ \A v \in DOMAIN tracks : v # u => tracks'[v] = tracks[v]
  BY TakenTrack
<1>3. p \in Seq(PendingType)
  BY <1>1, <1>2, TrackTypes
<1>4. s = [len |-> e.len, dur |-> e.dur, offset |-> e.offset, sync |-> e.sync]
  BY <1>2 DEF SampleType
<1> HIDE DEF u, s, e, p
<1>5. Bare(p) \in Seq(SampleType) /\ Bare(Append(p, e)) = Append(Bare(p), s)
  BY <1>2, <1>3, <1>4, BareAppend
<1>6. Gone(u) \in Seq(SampleType)
  BY TakenType DEF ContentHeld, Gone
<1>7. \A t \in DOMAIN tracks : Gone(t)' = Gone(t)
  BY <1>2, Zenon DEF Gone
<1>8. \A t \in DOMAIN tracks :
        Content[t] = Then(Gone(t), Bare(tracks[t].pending))
        /\ Content'[t] = Then(Gone(t), Bare(tracks'[t].pending))
  <2>1. \A t \in DOMAIN tracks : Content[t] = Then(Gone(t), Bare(tracks[t].pending))
    BY <1>1, Zenon DEF ContentHeld
  <2>2. \A t \in DOMAIN tracks : Content'[t] = Then(Gone(t)', Bare(tracks'[t].pending))
    BY <1>1, <1>2, Zenon DEF ContentHeld
  <2> QED BY <1>7, <2>1, <2>2, Zenon
<1>9. \A t \in DOMAIN tracks : t # u => Content'[t] = Content[t]
  BY <1>2, <1>8, Zenon
<1>10. Content'[u] = Append(Content[u], s)
  <2>1. Content[u] = Then(Gone(u), Bare(p))
    BY <1>2, <1>8, Zenon DEF p
  <2>2. Content'[u] = Then(Gone(u), Append(Bare(p), s))
    BY <1>2, <1>5, <1>8, Zenon
  <2> DEFINE one == <<s>>
             g == Gone(u)
             b == Bare(p)
  <2>3. one \in Seq(SampleType)
    <3> HIDE DEF SampleType
    <3> QED BY <1>2
  <2> HIDE DEF one, g, b
  <2>4. Append(b, s) = Then(b, one)
    BY <1>2, <1>5, AppendIsConcat DEF Then, one, b
  <2>5. Then(g, Then(b, one)) = Then(Then(g, b), one) /\ Then(g, b) \in Seq(SampleType)
    BY <1>5, <1>6, <2>3, ThenProperties DEF g, b
  <2>6. Append(Then(g, b), s) = Then(Then(g, b), one)
    BY <1>2, <2>5, AppendIsConcat DEF Then, one
  <2> QED BY <2>1, <2>2, <2>4, <2>5, <2>6, Zenon DEF g, b
<1>11. Content = [t \in DOMAIN tracks |-> Content[t]]
       /\ Content' = [t \in DOMAIN tracks |-> Content'[t]]
  BY <1>2, Zenon DEF ContentHeld
<1> DEFINE c == Content
           d == Content'
           w == Append(c[u], s)
<1>12. /\ c = [t \in DOMAIN tracks |-> c[t]] /\ d = [t \in DOMAIN tracks |-> d[t]]
       /\ d[u] = w /\ \A t \in DOMAIN tracks : t # u => d[t] = c[t]
  BY <1>9, <1>10, <1>11, Zenon
<1> HIDE DEF c, d, w
<1>13. d = [c EXCEPT ![u] = w]
  BY <1>2, <1>12
<1> QED BY <1>13, Zenon DEF c, d, w, u, s

(* A track is added to a file that holds nothing yet, and holds nothing.   *)
LEMMA ContentAdded ==
    ASSUME Inv, OrderInv, ContentHeld, ContentHeld', AddTrack, Next, Fragments' = Fragments
    PROVE  /\ \A t \in DOMAIN Content : Content[t] = <<>>
           /\ Content' = Append(Content, <<>>)
<1> DEFINE n == Len(tracks)
           cfg == Configs[n + 1]
           to == AudioTimescale(cfg)
           new == [id |-> Len(traks) + 1, timescale |-> to, clock |-> WithAudioClock(cfg),
                   priming |-> PrimingTicks(cfg.delay, to),
                   nextTime |-> 0, pending |-> <<>>, buffered |-> 0,
                   firstOffset |-> 0, written |-> FALSE]
           none == <<>>
           c == Content
           d == Content'
<1>1. TypeOK /\ ~complete /\ ~complete' /\ ~started
  BY DEF Inv, AddTrack, MayAddTrack, Control
<1>2. sequence = 0 /\ \A t \in DOMAIN tracks : tracks[t].pending = none
  BY <1>1 DEF Inv, Progress
<1>3. Fragments = none
  BY <1>2, NoneYet
<1>4. tracks \in Seq(TrackType) /\ n \in Nat /\ DOMAIN tracks = 1..n
  BY <1>1, LenProperties DEF TypeOK
<1>5. tracks' = Append(tracks, new)
  BY DEF AddTrack
<1>6. new.pending = none
  <2> HIDE DEF none, to, cfg, n
  <2> DEFINE a == Len(traks) + 1
             k == WithAudioClock(cfg)
             r == PrimingTicks(cfg.delay, to)
  <2>1. new = [id |-> a, timescale |-> to, clock |-> k, priming |-> r,
               nextTime |-> 0, pending |-> none, buffered |-> 0,
               firstOffset |-> 0, written |-> FALSE]
    BY DEF none
  <2> HIDE DEF a, k, r, new
  <2> QED BY <2>1
<1> HIDE DEF new, n
<1>7. /\ DOMAIN tracks' = 1..(n + 1)
      /\ \A t \in 1..(n + 1) : tracks'[t].pending = none
  <2>1. /\ DOMAIN tracks' = 1..(n + 1) /\ tracks'[n + 1] = new
        /\ \A t \in 1..n : tracks'[t] = tracks[t]
    BY <1>4, <1>5 DEF n
  <2>2. \A t \in 1..(n + 1) : t \in 1..n \/ t = n + 1
    BY <1>4
  <2> HIDE DEF none
  <2> QED BY <1>2, <1>4, <1>6, <2>1, <2>2
<1>8. Bare(none) = none /\ Then(none, none) = none /\ \A id : Taken(id, none) = none
  <2>1. none \in Seq(SampleType)
    BY EmptySeq
  <2> QED BY <2>1, BareNone, TakenNone, ThenProperties
<1> HIDE DEF none
<1>9. ASSUME NEW t \in 1..n PROVE c[t] = none
  <2>1. c[t] = Then(Gone(t), Bare(tracks[t].pending))
    BY <1>1, <1>4, Zenon DEF ContentHeld
  <2>2. Gone(t) = none
    BY <1>3, <1>8, Zenon DEF Gone
  <2> QED BY <1>2, <1>4, <1>8, <2>1, <2>2, Zenon
<1>10. ASSUME NEW t \in 1..(n + 1) PROVE d[t] = none
  <2>1. d[t] = Then(Gone(t)', Bare(tracks'[t].pending))
    BY <1>1, <1>7, Zenon DEF ContentHeld
  <2>2. Gone(t)' = none
    BY <1>3, <1>8, Zenon DEF Gone
  <2> QED BY <1>7, <1>8, <2>1, <2>2, Zenon
<1>11. c = [t \in 1..n |-> c[t]] /\ d = [t \in 1..(n + 1) |-> d[t]]
  BY <1>4, <1>7, Zenon DEF ContentHeld
<1> HIDE DEF c, d
<1>12. c \in [1..n -> {none}] /\ d \in [1..(n + 1) -> {none}]
  BY <1>9, <1>10, <1>11
<1>13. c \in Seq({none}) /\ Len(c) = n /\ DOMAIN c = 1..n
  BY <1>4, <1>12, FunctionIsSeq
<1>14. d \in Seq({none}) /\ Len(d) = n + 1
  <2>1. n + 1 \in Nat
    BY <1>4
  <2> QED BY <1>12, <2>1, FunctionIsSeq
<1> DEFINE w == Append(c, none)
<1>15. /\ w \in Seq({none}) /\ Len(w) = n + 1 /\ w[n + 1] = none
       /\ \A t \in 1..n : w[t] = c[t]
  <2>1. none \in {none}
    OBVIOUS
  <2> QED BY <1>13, <2>1, AppendProperties
<1> HIDE DEF w
<1>16. \A t \in 1..Len(d) : d[t] = w[t]
  <2>1. \A t \in 1..(n + 1) : t \in 1..n \/ t = n + 1
    BY <1>4
  <2> QED BY <1>9, <1>10, <1>14, <1>15, <2>1
<1>17. d = w
  BY <1>14, <1>15, <1>16, SeqEqual
<1>18. \A t \in DOMAIN c : c[t] = none
  BY <1>9, <1>13
<1> QED BY <1>17, <1>18, Zenon DEF c, d, w, none

(* A file that is finished has lost nothing that was buffered: nothing is. *)
LEMMA ContentDone ==
    ASSUME Inv, ContentHeld, ContentHeld', Closing \/ FinishIndex, complete', Next,
           Fragments' = Fragments
    PROVE  Content' = Content
<1>1. TypeOK /\ ~complete /\ ~Buffering /\ tracks' = tracks
  BY DEF Inv, Closing, FinishIndex, Control
<1>2. ASSUME NEW t \in DOMAIN tracks
      PROVE  Then(Gone(t)', Waiting(t)') = Then(Gone(t), Waiting(t))
  <2>1. tracks[t].pending = <<>>
    BY <1>1 DEF Buffering
  <2>2. Waiting(t) = <<>> /\ Waiting(t)' = <<>>
    BY <1>1, <2>1, BareNone, Zenon DEF Waiting
  <2>3. Gone(t)' = Gone(t)
    BY <1>1, Zenon DEF Gone
  <2> QED BY <2>2, <2>3, Zenon
<1> QED BY <1>1, <1>2, ContentKept

(* A call to WriteSample hands a sample over.                              *)
LEMMA ContentHandedOver ==
    ASSUME Inv, ContentHeld, ContentHeld', NEW u \in 1..Len(Configs), NEW s \in Samples,
           WriteSample(u, s), Next, Fragments' = Fragments
    PROVE  Promised!HandOver
<1> DEFINE c == ClockSample(tracks[u].clock, s)
           k == c.clock
           e == c.sample
           off == IF tracks[u].written THEN tracks[u].firstOffset ELSE e.offset
           h == [track |-> u, sample |-> e]
<1>1. /\ TypeOK /\ ~complete /\ complete' = complete /\ pc = "idle" /\ u \in DOMAIN tracks
      /\ call.op = "none"
  BY DEF Inv, WriteSample, Control
<1>2. tracks' = [tracks EXCEPT ![u].clock = k, ![u].firstOffset = off, ![u].written = TRUE]
      /\ call' = [op |-> "write", track |-> u, sample |-> e]
  BY DEF WriteSample
<1>3. tracks[u] \in TrackType
  BY <1>1, TrackTypes
<1> HIDE DEF k, e, off
<1>4. DOMAIN tracks' = DOMAIN tracks
      /\ \A t \in DOMAIN tracks :
           tracks'[t].id = tracks[t].id /\ tracks'[t].pending = tracks[t].pending
  BY <1>1, <1>2, <1>3 DEF TrackType
<1>5. Content' = Content
  BY <1>1, <1>4, ContentQuiet
<1>6. Handed = {} /\ Handed' = {h}
  BY <1>1, <1>2 DEF Handed
<1>7. u \in DOMAIN Content
  <2> DEFINE b == Content
  <2>1. b = [t \in DOMAIN tracks |-> b[t]]
    BY Zenon DEF ContentHeld
  <2> HIDE DEF b
  <2>2. u \in DOMAIN b
    BY <1>1, <2>1
  <2> QED BY <2>2 DEF b
<1>8. h.track = u /\ h \in {h}
  OBVIOUS
<1> HIDE DEF h
<1> QED BY <1>1, <1>5, <1>6, <1>7, <1>8, Zenon DEF Promised!HandOver

(* A call that meets an error is answered, and what it was to add is not   *)
(* in the file.                                                            *)
LEMMA ContentFails ==
    ASSUME Inv, ContentHeld, ContentHeld', HeaderFails \/ BeginFails \/ FinishIndexFails,
           Next, Fragments' = Fragments
    PROVE  Promised!Refuse \/ UNCHANGED <<Content, Handed, complete>>
<1>1. /\ TypeOK /\ ~complete /\ tracks' = tracks /\ call' = NoCall /\ complete' = FALSE
      /\ complete = FALSE
  BY DEF Inv, HeaderFails, BeginFails, FinishIndexFails, Fails, Control, TypeOK
<1>2. Content' = Content
  BY <1>1, ContentQuiet
<1>3. Handed' = {}
  BY <1>1, CallsType DEF Handed
<1> QED BY <1>1, <1>2, <1>3, Zenon DEF Promised!Refuse

(* The other steps leave the content and what is handed over alone.        *)
LEMMA ContentOther ==
    ASSUME Inv, ContentHeld, ContentHeld',
           AddTrackRefused \/ Flush \/ WriteHeader \/ Close \/ RefuseClosed,
           Next, Fragments' = Fragments
    PROVE  UNCHANGED <<Content, Handed, complete>>
<1>1. CASE RefuseClosed
  BY <1>1 DEF RefuseClosed, vars, Content, Handed, Written, SamplesOf
<1>2. CASE AddTrackRefused \/ Flush \/ WriteHeader \/ Close
  <2>1. tracks' = tracks /\ complete' = complete
    BY <1>2 DEF AddTrackRefused, Flush, WriteHeader, Close
  <2>2. Content' = Content
    BY <2>1, ContentQuiet
  <2>3. call' = call \/ (call.op # "write" /\ call'.op # "write")
    <3>1. CASE AddTrackRefused \/ WriteHeader
      BY <3>1 DEF AddTrackRefused, WriteHeader
    <3>2. CASE Flush \/ Close
      <4>1. pc = "idle" /\ (call' = call \/ call' = [NoCall EXCEPT !.op = "flush"]
                                        \/ call' = [NoCall EXCEPT !.op = "close"])
        BY <3>2 DEF Flush, Close
      <4>2. call.op = "none"
        BY <4>1 DEF Inv, Control
      <4> HIDE DEF NoCall
      <4> QED BY <4>1, <4>2, CallsType
    <3> QED BY <1>2, <3>1, <3>2
  <2>4. Handed' = Handed
    BY <2>3 DEF Handed
  <2> QED BY <2>1, <2>2, <2>4
<1> QED BY <1>1, <1>2

(* What a step that loses no fragment does to the content: as MovieFile    *)
(* says, it takes the sample handed over, or refuses it, or does nothing.  *)
LEMMA ContentStep ==
    ASSUME Inv, Inv', StartInv, HeldNoted, OrderInv, ContentInv, ContentInv', Next,
           faults'.media = 0, sequence' = Len(Fragments')
    PROVE  Promised!Next \/ UNCHANGED <<Content, Handed, complete>>
<1>1. Step /\ TypeOK /\ Control /\ ContentHeld /\ ContentHeld'
  BY ContentIs, ContentIsNext DEF Next, Inv, ContentInv
<1>2. faults \in [header : Nat, seek : Nat, media : Nat]
  BY <1>1 DEF TypeOK
<1>3. CASE WriteFragment
  <2>1. PICK frag \in FragmentBox : frag.runs = Runs /\ Fragments' = Append(Fragments, frag)
    BY <1>3, FragmentAdded DEF Next
  <2>2. Content' = Content
    BY <1>1, <1>3, <2>1, ContentWritten
  <2>3. complete' = complete /\ pc = "fragment" /\ AfterFragment
    BY <1>3 DEF WriteFragment
  <2>4. call.op \in {"write", "flush", "close"}
    BY <1>1, <2>3 DEF TypeOK, Control, CallType
  <2>5. call' = call \/ (call.op = "flush" /\ call'.op = "none")
    BY <2>3, <2>4, CallsType DEF AfterFragment
  <2>6. Handed' = Handed
    BY <2>5 DEF Handed
  <2> QED BY <2>2, <2>3, <2>6
<1>4. ~FragmentFails
  <2>1. FragmentFails => faults' = [faults EXCEPT !.media = @ + 1]
    BY DEF FragmentFails
  <2> QED BY <1>2, <2>1
<1>5. CASE ~WriteFragment
  <2>1. Fragments' = Fragments
    <3>1. CASE FinishIndexFails
      <4>1. UNCHANGED file \/ faults' = [faults EXCEPT !.media = @ + 1]
        BY <3>1 DEF FinishIndexFails
      <4>2. file' = file
        BY <1>2, <4>1
      <4>3. index' = index /\ complete' = FALSE /\ complete = FALSE
        BY <1>1, <3>1 DEF FinishIndexFails, Fails, Control, TypeOK
      <4> QED BY <4>2, <4>3 DEF Fragments, Written
    <3>2. CASE ~FinishIndexFails
      BY <1>5, <3>2, FragmentsStep
    <3> QED BY <3>1, <3>2
  <2>2. ~FragmentRefused
    <3>1. sequence' <= sequence
      BY <1>1, <2>1 DEF OrderInv
    <3>2. sequence \in Nat
      BY <1>1 DEF TypeOK
    <3> QED BY <3>1, <3>2 DEF FragmentRefused
  <2>3. ASSUME NEW t \in 1..Len(Configs), NEW s \in Samples, WriteSample(t, s)
        PROVE  Promised!Next
    BY <1>1, <2>1, <2>3, ContentHandedOver DEF Promised!Next
  <2>4. CASE HeaderFails \/ BeginFails \/ FinishIndexFails
    BY <1>1, <2>1, <2>4, ContentFails DEF Promised!Next
  <2>5. CASE AddTrackRefused \/ Flush \/ WriteHeader \/ Close \/ RefuseClosed
    BY <1>1, <2>1, <2>5, ContentOther
  <2>6. CASE AddTrack
    <3>1. /\ \A t \in DOMAIN Content : Content[t] = <<>>
          /\ Content' = Append(Content, <<>>)
      BY <1>1, <2>1, <2>6, ContentAdded
    <3>2. ~complete /\ complete' = complete /\ call' = call /\ call.op = "none"
      BY <1>1, <2>6 DEF AddTrack, MayAddTrack, Control
    <3>3. Handed = {} /\ Handed' = {}
      BY <3>2 DEF Handed
    <3> QED BY <3>1, <3>2, <3>3, Zenon DEF Promised!AddTrack, Promised!Next
  <2>7. CASE TakeSample
    <3> DEFINE h == [track |-> call.track, sample |-> call.sample]
    <3>1. Content' = [Content EXCEPT ![call.track] = Append(@, call.sample)]
      BY <1>1, <2>1, <2>7, ContentTaken
    <3>2. complete' = complete /\ call' = NoCall /\ call.op = "write"
      BY <1>1, <2>7 DEF TakeSample, Control
    <3>3. Handed = {h} /\ Handed' = {}
      BY <3>2, CallsType DEF Handed
    <3>4. h.track = call.track /\ h.sample = call.sample /\ h \in {h}
      OBVIOUS
    <3> HIDE DEF h
    <3> QED BY <3>1, <3>2, <3>3, <3>4, Zenon DEF Promised!Take, Promised!Next
  <2>8. CASE Closing \/ FinishIndex
    <3>1. pc \in {"closing", "index"} /\ ~complete /\ call.op = "close"
      BY <1>1, <2>8 DEF Closing, FinishIndex, Control
    <3>2. (call' = call /\ complete' = complete) \/ (call' = NoCall /\ complete')
      BY <2>8 DEF Closing, FinishIndex
    <3>3. Handed = {} /\ Handed' = {}
      BY <3>1, <3>2, CallsType DEF Handed
    <3>4. CASE complete'
      <4>1. Content' = Content
        BY <1>1, <2>1, <2>8, <3>4, ContentDone
      <4>2. Content # <<>>
        <5> DEFINE b == Content
        <5>1. DOMAIN tracks # {} /\ b = [t \in DOMAIN tracks |-> b[t]]
          BY <1>1, <3>1, Zenon DEF ContentInv, ContentHeld
        <5> HIDE DEF b
        <5>2. b # <<>>
          BY <5>1
        <5> QED BY <5>2 DEF b
      <4>3. complete' = TRUE
        BY <2>8, <3>1, <3>4 DEF Closing, FinishIndex
      <4> QED BY <3>1, <3>3, <4>1, <4>2, <4>3, Zenon DEF Promised!Finish, Promised!Next
    <3>5. CASE ~complete'
      <4>1. call' = call /\ complete' = complete /\ tracks' = tracks
        BY <2>8, <3>2, <3>5 DEF Closing, FinishIndex
      <4>2. Content' = Content
        BY <1>1, <2>1, <4>1, ContentQuiet
      <4> QED BY <3>3, <4>1, <4>2
    <3> QED BY <3>4, <3>5
  <2> QED BY <1>1, <1>4, <1>5, <2>2, <2>3, <2>4, <2>5, <2>6, <2>7, <2>8 DEF Step
<1> QED BY <1>3, <1>5

(* The content of the file is that of MovieFile, whatever is refused.      *)
THEOREM FragmentContent == Spec => [](Inv /\ StartInv /\ HeldNoted /\ OrderInv /\ ContentInv)
<1>1. Init => ContentInv
  <2> SUFFICES ASSUME Init PROVE ContentInv
    OBVIOUS
  <2>1. Written = <<>> /\ call = NoCall
    BY NewIsEmpty DEF Init
  <2>2. Written \in Seq(Box)
    BY <2>1, EmptySeq
  <2>3. Whole(Written)
    BY <2>2, BoxKinds DEF Whole
  <2> QED BY <2>1, <2>3, CallsType DEF ContentInv
<1>2. (Inv /\ StartInv /\ HeldNoted /\ OrderInv) /\ ContentInv /\ [Next]_vars
      /\ (Inv' /\ StartInv' /\ HeldNoted' /\ OrderInv')
      => ContentInv'
  <2>1. ASSUME ContentInv, UNCHANGED vars
        PROVE  ContentInv'
    <3>1. Written' = Written /\ call' = call /\ tracks' = tracks
      BY <2>1 DEF vars, Written
    <3> QED BY <2>1, <3>1 DEF ContentInv
  <2> QED BY <2>1, ContentInvStep
<1>3. Spec => [](Inv /\ StartInv /\ HeldNoted /\ OrderInv)
  BY FragmentOrder
<1> QED BY <1>1, <1>2, <1>3, PTL DEF Spec

(* RetriesLoseNothing, for every configuration, sample, writer and limit,  *)
(* and any number of calls that fail for the initialisation segment or the *)
(* place of the index: Flush, called again by the next WriteSample or by   *)
(* Close, writes each sample mux.go has buffered once.                     *)
THEOREM RetriesKeepSamples == Spec => RetriesLoseNothing
<1> DEFINE Good == Inv /\ StartInv /\ HeldNoted /\ OrderInv /\ ContentInv
           Kept == faults'.media = 0 /\ sequence' = Len(Fragments') =>
                     \/ Promised!Next
                     \/ UNCHANGED <<Content, Handed, complete>>
<1>1. Good /\ Good' /\ [Next]_vars => [Kept]_vars
  BY ContentStep
<1>2. Spec => []Good
  BY FragmentContent
<1> HIDE DEF Good, Kept
<1>3. Spec => [][Kept]_vars
  BY <1>1, <1>2, PTL DEF Spec
<1> QED BY <1>3 DEF Kept, RetriesLoseNothing

(***************************************************************************)
(* Without an index, and with a writer that takes every fragment, no       *)
(* fragment is refused or lost.                                            *)
(***************************************************************************)
NothingLost == ~Indexed /\ faults.media = 0 /\ sequence = Len(Fragments)

(* Each fragment made is in the file.                                      *)
LEMMA NothingLostStep ==
    ASSUME MediaFaults = 0, Inv, Inv', StartInv, HeldNoted, OrderInv, NothingLost, Next
    PROVE  NothingLost'
<1>1. Step /\ TypeOK /\ Control /\ Indexed' = Indexed
  BY DEF Next, Inv, Indexed
<1>2. faults \in [header : Nat, seek : Nat, media : Nat] /\ sequence \in Nat
      /\ Fragments \in Seq(FragmentBox)
  BY <1>1 DEF TypeOK, OrderInv
<1>3. ~FragmentRefused /\ ~FragmentFails /\ ~FinishIndexFails
  BY <1>1, <1>2 DEF NothingLost, FragmentRefused, IndexTakes, FragmentFails, FinishIndexFails,
                    Control
<1>4. faults'.media = faults.media
  <2>1. \A t, s : WriteSample(t, s) => faults' = faults
    BY DEF WriteSample
  <2>2. \/ faults' = faults
        \/ faults' = [faults EXCEPT !.header = @ + 1]
        \/ faults' = [faults EXCEPT !.seek = @ + 1]
    BY <1>1, <1>3, <2>1 DEF Step, AddTrack, AddTrackRefused, TakeSample, Flush, WriteHeader,
         HeaderFails, BeginFails, WriteFragment, Close, RefuseClosed, Closing, FinishIndex, vars
  <2> QED BY <1>2, <2>2
<1>5. sequence' = Len(Fragments')
  <2>1. CASE WriteFragment
    <3>1. PICK frag \in FragmentBox : Fragments' = Append(Fragments, frag)
      BY <2>1, FragmentAdded DEF Next
    <3>2. Len(Fragments') = Len(Fragments) + 1
      BY <1>2, <3>1, AppendProperties
    <3>3. sequence' = sequence + 1
      BY <2>1 DEF WriteFragment
    <3> QED BY <3>2, <3>3 DEF NothingLost
  <2>2. CASE ~WriteFragment
    <3>1. Fragments' = Fragments
      BY <1>3, <2>2, FragmentsStep
    <3>2. sequence' = sequence
      BY <1>3, <2>2, SequenceStep
    <3> QED BY <3>1, <3>2 DEF NothingLost
  <2> QED BY <2>1, <2>2
<1> QED BY <1>1, <1>4, <1>5 DEF NothingLost

(* ImplementsMovieFile, for every configuration, sample and limit, of a    *)
(* muxer without an index whose writer takes every fragment: AddTrack,     *)
(* WriteSample and Close of mux.go do what MovieFile says, through any     *)
(* number of refused initialisation segments.                              *)
THEOREM FragmentsImplementMovieFile ==
    ASSUME MediaFaults = 0
    PROVE  Spec /\ ~Indexed => ImplementsMovieFile
<1> DEFINE Good == Inv /\ StartInv /\ HeldNoted /\ OrderInv /\ ContentInv
<1>1. Init /\ ~Indexed => NothingLost
  <2> SUFFICES ASSUME Init, ~Indexed PROVE NothingLost
    OBVIOUS
  <2>1. Fragments = <<>> /\ sequence = 0 /\ faults.media = 0
    BY NewIsEmpty DEF Init
  <2>2. Len(<<>>) = 0
    BY EmptySeq
  <2> QED BY <2>1, <2>2, Zenon DEF NothingLost
<1>2. Good /\ Good' /\ NothingLost /\ [Next]_vars => NothingLost'
  <2>1. ASSUME NothingLost, UNCHANGED vars
        PROVE  NothingLost'
    <3>1. Fragments' = Fragments /\ setup' = setup /\ faults' = faults /\ sequence' = sequence
      BY <2>1 DEF vars, Fragments, Written
    <3> QED BY <2>1, <3>1 DEF NothingLost, Indexed
  <2> QED BY <2>1, NothingLostStep
<1>3. Spec => []Good
  BY FragmentContent
<1>4. Init => Promised!Init
  <2> SUFFICES ASSUME Init PROVE Promised!Init
    OBVIOUS
  <2>1. Content = <<>>
    <3>1. DOMAIN tracks = {}
      BY NewIsEmpty
    <3> QED BY <3>1 DEF Content
  <2>2. Handed = {}
    BY CallsType DEF Init, Handed
  <2>3. complete = FALSE
    BY DEF Init
  <2> QED BY <2>1, <2>2, <2>3, Zenon DEF Promised!Init
<1>5. Good /\ Good' /\ NothingLost /\ NothingLost' /\ [Next]_vars
        => [Promised!Next]_<<Content, Handed, complete>>
  <2>1. ASSUME Good, Good', NothingLost', Next
        PROVE  [Promised!Next]_<<Content, Handed, complete>>
    <3>1. faults'.media = 0 /\ sequence' = Len(Fragments')
      BY <2>1 DEF NothingLost
    <3> QED BY <2>1, <3>1, ContentStep
  <2>2. ASSUME UNCHANGED vars
        PROVE  UNCHANGED <<Content, Handed, complete>>
    BY <2>2 DEF vars, Content, Handed, Written, SamplesOf
  <2> QED BY <2>1, <2>2
<1> HIDE DEF Good
<1> QED BY <1>1, <1>2, <1>3, <1>4, <1>5, PTL DEF Spec, ImplementsMovieFile, Promised!Spec

(***************************************************************************)
(* A file with an index: n boxes, m index boxes of size s, q fragments of  *)
(* the sizes noted.                                                        *)
(***************************************************************************)
(* What ReferencesFindFragments says of a file.                            *)
Finds(boxes) ==
    \A j \in DOMAIN boxes : boxes[j].box = "sidx" =>
        LET at == ConcatTo([i \in DOMAIN boxes |->
                              IF boxes[i].box = "fragment" THEN <<i>> ELSE <<>>],
                           Len(boxes))
            refs == boxes[j].refs
            from == Upto(boxes, j - 1) + boxes[j].size + boxes[j].firstOffset
        IN  /\ Len(refs) = Len(at)
            /\ \A k \in DOMAIN refs :
                 /\ Upto(boxes, at[k] - 1) = from + SumTo([i \in DOMAIN refs |-> refs[i].size], k - 1)
                 /\ boxes[at[k]].size = refs[k].size

(* ReferencesFindFragments is Finds of the file.                           *)
LEMMA FindsFragments ==
    ReferencesFindFragments <=> (faults.media = 0 /\ faults.seek = 0 => Finds(file))
BY Zenon DEF ReferencesFindFragments, Finds, StartOf, Upto

(* A sequence of boxes that have a size.                                   *)
Sized(boxes) == \E B : boxes \in Seq(B) /\ \A b \in B : b.size \in Nat

(* A box of the index, of size s, that counts offset bytes behind it and   *)
(* has a reference of the right size for each fragment noted.              *)
IndexBox(b, s, offset, noted) ==
    /\ b.box = "sidx" /\ b.size = s /\ b.firstOffset = offset
    /\ Len(b.refs) = Len(noted) /\ DOMAIN b.refs = 1..Len(noted)
    /\ \A k \in 1..Len(noted) : b.refs[k].size = noted[k].size

(* A fragment of the size noted.                                           *)
IsFragment(b, note) == b.box = "fragment" /\ b.size = note.size

(* A finished file: n boxes, m of the index, and the fragments noted.      *)
IndexedFile(boxes, n, m, s, noted) ==
    /\ n \in Nat /\ m \in Nat /\ s \in Nat /\ Len(noted) \in Nat
    /\ Sized(boxes) /\ Len(boxes) = (n + m) + Len(noted)
    /\ \A i \in 1..n : boxes[i].box \notin {"sidx", "fragment"}
    /\ \A i \in 1..m : IndexBox(boxes[n + i], s, s * (m - i), noted)
    /\ \A k \in 1..Len(noted) : IsFragment(boxes[(n + m) + k], noted[k])

(* Where its boxes start is a sum of sizes.                                *)
LEMMA SizedSizes ==
    ASSUME NEW boxes, Sized(boxes), Len(boxes) \in Nat
    PROVE  /\ DOMAIN boxes = 1..Len(boxes)
           /\ \A i \in 1..Len(boxes) :
                boxes[i].size \in Nat /\ SizesIn(boxes)[i] = boxes[i].size
           /\ \A i \in 0..Len(boxes) :
                Upto(boxes, i) = SumTo(SizesIn(boxes), i) /\ SumTo(SizesIn(boxes), i) \in Nat
<1> DEFINE l == Len(boxes)
           f == SizesIn(boxes)
<1>1. PICK B : boxes \in Seq(B) /\ \A b \in B : b.size \in Nat
  BY DEF Sized
<1>2. DOMAIN boxes = 1..l /\ \A i \in 1..l : boxes[i] \in B
  BY <1>1, LenProperties, ElementOfSeq
<1>3. \A i \in 1..l : boxes[i].size \in Nat /\ f[i] = boxes[i].size
  BY <1>1, <1>2 DEF SizesIn
<1> HIDE DEF f
<1>4. \A i \in 0..l : Upto(boxes, i) = SumTo(f, i)
  BY <1>1, SizePrefix DEF Upto, f
<1>5. \A i \in 0..l : SumTo(f, i) \in Nat
  <2>1. \A i \in 1..l : f[i] \in Nat
    BY <1>3
  <2> HIDE DEF l
  <2> QED BY <2>1, SumGrows DEF l
<1> QED BY <1>2, <1>3, <1>4, <1>5 DEF f

(* Index boxes of one size, one after another.                             *)
LEMMA IndexBoxesReach ==
    ASSUME NEW boxes, NEW n, NEW m, NEW s, NEW noted, IndexedFile(boxes, n, m, s, noted)
    PROVE  \A i \in 0..m : SumTo(SizesIn(boxes), n + i) = SumTo(SizesIn(boxes), n) + s * i
<1> DEFINE f == SizesIn(boxes)
           S == {i \in Nat : i <= m => SumTo(f, n + i) = SumTo(f, n) + s * i}
           a == SumTo(f, n)
<1>1. /\ n \in Nat /\ m \in Nat /\ s \in Nat /\ Len(noted) \in Nat
      /\ Len(boxes) = (n + m) + Len(noted) /\ Sized(boxes)
      /\ \A i \in 1..m : boxes[n + i].size = s
  BY DEF IndexedFile, IndexBox
<1>2. /\ \A i \in 1..Len(boxes) : f[i] = boxes[i].size
      /\ \A i \in 0..Len(boxes) : SumTo(f, i) \in Nat
  <2>1. Len(boxes) \in Nat
    BY <1>1
  <2> QED BY <1>1, <2>1, SizedSizes
<1> HIDE DEF f
<1>3. a \in Nat
  <2>1. n \in 0..Len(boxes)
    BY <1>1
  <2> QED BY <1>2, <2>1
<1> HIDE DEF a
<1>4. 0 \in S
  <2>1. n + 0 = n /\ a + s * 0 = a
    BY <1>1, <1>3
  <2> QED BY <2>1, Zenon DEF a
<1>5. ASSUME NEW i \in Nat, i \in S, i + 1 <= m
      PROVE  SumTo(f, n + (i + 1)) = SumTo(f, n) + s * (i + 1)
  <2>1. i <= m /\ i + 1 \in 1..m /\ n + i \in Nat /\ n + (i + 1) = (n + i) + 1
        /\ n + (i + 1) \in 1..Len(boxes)
    BY <1>1, <1>5
  <2>2. SumTo(f, n + i) = a + s * i
    BY <1>5, <2>1 DEF a
  <2>3. SumTo(f, (n + i) + 1) = SumTo(f, n + i) + f[(n + i) + 1]
    BY <2>1, SumStep
  <2>4. f[n + (i + 1)] = s
    BY <1>1, <1>2, <2>1
  <2>5. s * (i + 1) = s * i + s /\ s * i \in Nat
    BY <1>1
  <2>6. (a + s * i) + s = a + s * (i + 1)
    BY <1>1, <1>3, <2>5
  <2> QED BY <2>1, <2>2, <2>3, <2>4, <2>6 DEF a
<1> HIDE DEF S
<1>6. \A i \in Nat : i \in S => i + 1 \in S
  BY <1>5 DEF S
<1>7. \A i \in Nat : i \in S
  BY <1>4, <1>6, NatSetInduction
<1> QED BY <1>1, <1>7 DEF S, f

(* Fragments of the sizes noted, one after another.                        *)
LEMMA FragmentsReach ==
    ASSUME NEW boxes, NEW n, NEW m, NEW s, NEW noted, IndexedFile(boxes, n, m, s, noted),
           NEW g, \A k \in 1..Len(noted) : g[k] = noted[k].size
    PROVE  \A k \in 0..Len(noted) :
             SumTo(SizesIn(boxes), (n + m) + k) = SumTo(SizesIn(boxes), n + m) + SumTo(g, k)
<1> DEFINE f == SizesIn(boxes)
           h == n + m
           q == Len(noted)
<1>1. /\ h \in Nat /\ q \in Nat /\ Len(boxes) = h + q /\ Sized(boxes)
      /\ \A k \in 1..q : boxes[h + k].size = noted[k].size
  BY DEF IndexedFile, IsFragment
<1>2. \A i \in 1..Len(boxes) : f[i] = boxes[i].size /\ f[i] \in Nat
  BY <1>1, SizedSizes
<1> HIDE DEF f, h, q
<1>3. \A k \in 1..q : g[k] = f[h + k]
  <2>1. \A k \in 1..q : h + k \in 1..Len(boxes)
    BY <1>1
  <2> QED BY <1>1, <1>2, <2>1 DEF q
<1> SUFFICES ASSUME NEW k \in 0..q
             PROVE  SumTo(f, h + k) = SumTo(f, h) + SumTo(g, k)
  BY DEF q, f, h
<1>4. k \in Nat /\ k <= q
  BY <1>1
<1>5. \A i \in 1..(h + k) : f[i] \in Int
  <2>1. \A i \in 1..(h + k) : i \in 1..Len(boxes)
    BY <1>1, <1>4
  <2> QED BY <1>2, <2>1
<1>6. \A i \in 1..k : g[i] = f[h + i]
  BY <1>1, <1>3, <1>4
<1> QED BY <1>1, <1>4, <1>5, <1>6, SumSplit, SMTT(30)

(* An index of such a file finds every fragment.                           *)
LEMMA IndexFinds ==
    ASSUME NEW boxes, NEW n, NEW m, NEW s, NEW noted, IndexedFile(boxes, n, m, s, noted)
    PROVE  Finds(boxes)
<1> DEFINE h == n + m
           q == Len(noted)
           f == SizesIn(boxes)
           w == [i \in DOMAIN boxes |-> IF boxes[i].box = "fragment" THEN <<i>> ELSE <<>>]
           at == ConcatTo(w, Len(boxes))
           g == [k \in 1..q |-> h + k]
<1>1. /\ n \in Nat /\ m \in Nat /\ s \in Nat /\ h \in Nat /\ q \in Nat
      /\ Len(boxes) = h + q /\ Sized(boxes)
      /\ \A i \in 1..n : boxes[i].box \notin {"sidx", "fragment"}
      /\ \A i \in 1..m : IndexBox(boxes[n + i], s, s * (m - i), noted)
      /\ \A k \in 1..q : boxes[h + k].box = "fragment" /\ boxes[h + k].size = noted[k].size
  BY DEF IndexedFile, IsFragment
<1>2. /\ DOMAIN boxes = 1..(h + q)
      /\ \A i \in 0..(h + q) : Upto(boxes, i) = SumTo(f, i) /\ SumTo(f, i) \in Nat
  BY <1>1, SizedSizes
<1>3. \A i \in 0..m : SumTo(f, n + i) = SumTo(f, n) + s * i
  BY IndexBoxesReach
<1>4. \A i \in 1..h : i \in 1..n \/ (i - n \in 1..m /\ n + (i - n) = i)
  BY <1>1
<1>5. \A i \in 1..h : boxes[i].box # "fragment"
  <2>1. \A i \in 1..m : boxes[n + i].box = "sidx"
    BY <1>1 DEF IndexBox
  <2> QED BY <1>1, <1>4, <2>1
<1>6. /\ \A i \in 1..h : w[i] = <<>>
      /\ \A k \in 1..q : g[k] \in Nat /\ w[h + k] = <<g[k]>>
  <2>1. \A i \in 1..h : i \in DOMAIN boxes
    BY <1>1, <1>2
  <2>2. \A k \in 1..q : h + k \in DOMAIN boxes /\ h + k \in Nat
    BY <1>1, <1>2
  <2>3. \A i \in 1..h : w[i] = <<>>
    BY <1>5, <2>1, Zenon
  <2>4. \A k \in 1..q : w[h + k] = <<h + k>>
    BY <1>1, <2>2, Zenon
  <2>5. \A k \in 1..q : g[k] = h + k
    BY Zenon
  <2> HIDE DEF w, g
  <2> QED BY <2>2, <2>3, <2>4, <2>5
<1>7. \A k \in 1..q : g[k] = h + k
  BY Zenon
<1> HIDE DEF f, w, g, h, q
<1>8. Len(at) = q /\ \A k \in 1..q : at[k] = h + k
  <2>1. /\ Len(ConcatTo(w, h + q)) = q
        /\ \A k \in 1..q : ConcatTo(w, h + q)[k] = g[k]
    <3>1. Singles(w, h + q, Nat, h, g, q)
      BY <1>1, <1>6 DEF Singles
    <3> QED BY <3>1, ConcatSingles
  <2> QED BY <1>1, <1>7, <2>1
<1> HIDE DEF at
<1> SUFFICES ASSUME NEW j \in DOMAIN boxes, boxes[j].box = "sidx"
             PROVE  LET refs == boxes[j].refs
                        from == Upto(boxes, j - 1) + boxes[j].size + boxes[j].firstOffset
                    IN  /\ Len(refs) = Len(at)
                        /\ \A k \in DOMAIN refs :
                             /\ Upto(boxes, at[k] - 1)
                                  = from + SumTo([i \in DOMAIN refs |-> refs[i].size], k - 1)
                             /\ boxes[at[k]].size = refs[k].size
  BY Zenon DEF Finds, at, w
<1> DEFINE refs == boxes[j].refs
           rs == [i \in DOMAIN refs |-> refs[i].size]
           i == j - n
           a == SumTo(f, n)
<1>9. i \in 1..m /\ j = n + i /\ i - 1 \in 0..m /\ j - 1 = n + (i - 1) /\ j - 1 \in 0..(h + q)
  <2>1. j \in 1..(h + q)
    BY <1>2
  <2>2. ~(j \in 1..n)
    BY <1>1
  <2>3. \A k \in 1..q : j # h + k
    BY <1>1
  <2>4. j \in 1..h
    <3>1. CASE j > h
      <4>1. j - h \in 1..q /\ h + (j - h) = j
        BY <1>1, <2>1, <3>1
      <4> QED BY <2>3, <4>1
    <3> QED BY <1>1, <2>1, <3>1
  <2>5. j - n \in 1..m /\ n + (j - n) = j
    BY <1>4, <2>2, <2>4
  <2>6. (j - n) - 1 \in 0..m /\ j - 1 = n + ((j - n) - 1) /\ j - 1 \in 0..(h + q)
    BY <1>1, <2>1, <2>5
  <2> QED BY <2>5, <2>6
<1>10. /\ boxes[j].size = s /\ boxes[j].firstOffset = s * (m - i)
       /\ Len(refs) = q /\ DOMAIN refs = 1..q
       /\ \A k \in 1..q : refs[k].size = noted[k].size
  <2>1. IndexBox(boxes[n + i], s, s * (m - i), noted)
    BY <1>1, <1>9
  <2> HIDE DEF i
  <2> QED BY <1>9, <2>1 DEF IndexBox, q
<1>11. \A k \in 1..q : rs[k] = noted[k].size
  <2>1. \A k \in 1..q : rs[k] = refs[k].size
    BY <1>10, Zenon
  <2> QED BY <1>10, <2>1, Zenon
<1> HIDE DEF refs, rs, i, a
<1>12. \A k \in 0..q : SumTo(f, h + k) = SumTo(f, h) + SumTo(rs, k)
  <2>1. \A k \in 1..Len(noted) : rs[k] = noted[k].size
    BY <1>11 DEF q
  <2> QED BY <2>1, FragmentsReach DEF f, h, q
<1>13. a \in Nat /\ Upto(boxes, j - 1) = a + s * (i - 1) /\ SumTo(f, h) = a + s * m
  <2>1. n \in 0..(h + q) /\ m \in 0..m
    BY <1>1 DEF h
  <2>2. a \in Nat
    BY <1>2, <2>1 DEF a
  <2>3. Upto(boxes, j - 1) = SumTo(f, n + (i - 1))
    BY <1>2, <1>9
  <2>4. SumTo(f, n + (i - 1)) = a + s * (i - 1)
    BY <1>3, <1>9 DEF a
  <2>5. SumTo(f, h) = a + s * m
    BY <1>3, <2>1 DEF a, h
  <2> QED BY <2>2, <2>3, <2>4, <2>5
<1>14. Upto(boxes, j - 1) + boxes[j].size + boxes[j].firstOffset = SumTo(f, h)
  <2>1. i \in Int /\ m \in Int /\ s \in Int /\ a \in Int
    BY <1>1, <1>9, <1>13
  <2>2. s * (i - 1) + s + s * (m - i) = s * m
    BY <2>1
  <2>3. s * (i - 1) \in Int /\ s * (m - i) \in Int /\ s * m \in Int
    BY <2>1
  <2>4. (a + s * (i - 1)) + s + s * (m - i) = a + (s * (i - 1) + s + s * (m - i))
    BY <2>1, <2>3
  <2> QED BY <1>10, <1>13, <2>2, <2>4
<1>15. ASSUME NEW k \in 1..q
       PROVE  /\ Upto(boxes, at[k] - 1) = SumTo(f, h) + SumTo(rs, k - 1)
              /\ boxes[at[k]].size = refs[k].size
  <2>1. at[k] = h + k /\ k - 1 \in 0..q /\ at[k] - 1 = h + (k - 1) /\ at[k] - 1 \in 0..(h + q)
    BY <1>1, <1>8
  <2>2. Upto(boxes, at[k] - 1) = SumTo(f, h + (k - 1))
    BY <1>2, <2>1
  <2>3. boxes[at[k]].size = noted[k].size
    BY <1>1, <2>1
  <2> QED BY <1>10, <1>12, <2>1, <2>2, <2>3
<1> QED BY <1>8, <1>10, <1>14, <1>15, Zenon DEF refs, rs

(***************************************************************************)
(* A file that is not finished: as long as no fragment went out in part    *)
(* and the muxer could tell where it was, the fragments the index notes    *)
(* are what follows its place, one box each.                               *)
(***************************************************************************)
Following(boxes, n, noted) ==
    /\ n \in 0..Len(boxes) /\ Len(boxes) = n + Len(noted)
    /\ \A i \in 1..n : boxes[i] \notin FragmentBox
    /\ \A k \in 1..Len(noted) : boxes[n + k] \in FragmentBox /\ boxes[n + k].size = noted[k].size

(* Such a place is where the index starts.                                 *)
Placed ==
    \E n \in 0..Len(file) : Upto(file, n) = index.start /\ Following(file, n, index.fragments)

(* The fragments follow the place of the index in a file that is read      *)
(* back, unless a write failed; in another no fragment is written yet.     *)
PlacedInv ==
    ~complete /\ Indexed =>
      /\ faults.media = 0 /\ faults.seek = 0 /\ Readable /\ headerOut => Placed
      /\ ~Readable => \A j \in DOMAIN file : file[j] \notin FragmentBox

(* A fragment behind the others, and one more noted.                       *)
OneNoted(boxes, noted, more, notes) ==
    \E frag \in FragmentBox, note \in NotedType :
      note.size = frag.size /\ more = Append(boxes, frag) /\ notes = Append(noted, note)

(* They still do when one more is written and noted.                       *)
LEMMA FollowingMore ==
    ASSUME NEW boxes \in Seq(Box), NEW noted \in Seq(NotedType), NEW more, NEW notes,
           OneNoted(boxes, noted, more, notes), NEW n, Following(boxes, n, noted)
    PROVE  Following(more, n, notes) /\ Upto(more, n) = Upto(boxes, n)
<1>0. PICK frag \in FragmentBox, note \in NotedType :
        note.size = frag.size /\ more = Append(boxes, frag) /\ notes = Append(noted, note)
  BY DEF OneNoted
<1> DEFINE l == Len(boxes)
           q == Len(noted)
<1>1. frag \in Box
  BY DEF Box
<1>2. OneMore(boxes, frag, more)
  BY <1>0, <1>1, MoreStarts
<1>3. /\ l \in Nat /\ Len(more) = l + 1 /\ \A i \in 1..l : more[i] = boxes[i]
      /\ more[l + 1] = frag /\ \A k \in 0..l : Upto(more, k) = Upto(boxes, k)
  BY <1>2 DEF OneMore
<1>4. /\ n \in 0..l /\ l = n + q
      /\ \A i \in 1..n : boxes[i] \notin FragmentBox
      /\ \A k \in 1..q : boxes[n + k] \in FragmentBox /\ boxes[n + k].size = noted[k].size
  BY DEF Following
<1>5. /\ q \in Nat /\ Len(notes) = q + 1 /\ notes[q + 1] = note
      /\ \A k \in 1..q : notes[k] = noted[k]
  BY <1>0, LenProperties, AppendProperties
<1> HIDE DEF l, q
<1>6. n \in Nat /\ n \in 0..(l + 1) /\ l + 1 = n + (q + 1)
  BY <1>3, <1>4, <1>5
<1>7. \A i \in 1..n : more[i] \notin FragmentBox
  BY <1>3, <1>4, <1>6
<1>8. ASSUME NEW k \in 1..(q + 1)
      PROVE  more[n + k] \in FragmentBox /\ more[n + k].size = notes[k].size
  <2>1. CASE k \in 1..q
    <3>1. n + k \in 1..l
      BY <1>4, <1>5, <1>6, <2>1
    <3>2. more[n + k] = boxes[n + k] /\ notes[k] = noted[k]
      BY <1>3, <1>5, <2>1, <3>1
    <3> QED BY <1>4, <2>1, <3>2
  <2>2. CASE k = q + 1
    <3>1. n + k = l + 1
      BY <1>4, <1>5, <1>6, <2>2
    <3> QED BY <1>0, <1>3, <1>5, <2>2, <3>1
  <2>3. k \in 1..q \/ k = q + 1
    BY <1>5
  <2> QED BY <2>1, <2>2, <2>3
<1>9. Following(more, n, notes)
  BY <1>3, <1>5, <1>6, <1>7, <1>8 DEF Following
<1> QED BY <1>3, <1>4, <1>9

(* Boxes that are no fragments, and one more.                              *)
LEMMA NoneMore ==
    ASSUME NEW boxes \in Seq(Box), \A j \in DOMAIN boxes : boxes[j] \notin FragmentBox,
           NEW b \in Box, b \notin FragmentBox, NEW more, more = boxes \/ more = Append(boxes, b)
    PROVE  \A j \in DOMAIN more : more[j] \notin FragmentBox
<1>1. CASE more = boxes
  BY <1>1
<1>2. CASE more = Append(boxes, b)
  <2>1. OneMore(boxes, b, more)
    BY <1>2, MoreStarts
  <2>2. \A j \in DOMAIN more : j \in DOMAIN boxes \/ j = Len(boxes) + 1
    BY <2>1 DEF OneMore
  <2> QED BY <2>1, <2>2 DEF OneMore
<1> QED BY <1>1, <1>2

(* A step that leaves the file and the index alone keeps the place.        *)
LEMMA PlacedQuiet ==
    ASSUME PlacedInv, UNCHANGED <<setup, file, headerOut, index>>, complete => complete',
           faults'.media = 0 => faults.media = 0, faults'.seek = 0 => faults.seek = 0
    PROVE  PlacedInv'
BY DEF PlacedInv, Placed, Following, Indexed, Readable

(* The place is the end of the file when the header is written.            *)
LEMMA PlacedHeader ==
    ASSUME Inv, StartInv, PlacedInv, WriteHeader, UNCHANGED setup
    PROVE  PlacedInv'
<1> DEFINE b == InitSegment(WithEdits)
           none == <<>>
<1>1. /\ file' = Append(file, b) /\ complete' = complete /\ ~headerOut /\ ~complete /\ TypeOK
      /\ index' = IF Indexed /\ Readable THEN [index EXCEPT !.start = SizeOf(file')] ELSE index
  BY DEF WriteHeader, Inv, Control
<1>2. b \in Box /\ b.box = "init"
  BY <1>1, WithEditsType
<1>3. b \notin FragmentBox
  BY <1>2 DEF FragmentBox
<1> HIDE DEF b
<1>4. file \in Seq(Box) /\ \A j \in DOMAIN file : file[j] \notin FragmentBox
  <2>1. file \in Seq(Box)
    BY <1>1 DEF TypeOK
  <2>2. \A j \in DOMAIN file : file[j].box # "fragment"
    BY <1>1 DEF StartInv
  <2> QED BY <2>1, <2>2 DEF FragmentBox
<1>5. \A j \in DOMAIN file' : file'[j] \notin FragmentBox
  BY <1>1, <1>2, <1>3, <1>4, NoneMore
<1>6. ASSUME Indexed, Readable PROVE Placed'
  <2> DEFINE l == Len(file')
             start == SizeOf(file')
  <2>1. /\ index \in [start : Nat, held : Seq(FragmentBox), fragments : Seq(NotedType)]
        /\ index.fragments = none
    BY <1>1 DEF TypeOK, Inv, Progress
  <2>2. index' = [index EXCEPT !.start = start]
    BY <1>1, <1>6
  <2> HIDE DEF start, none
  <2>3. index'.start = start /\ index'.fragments = none
    BY <2>1, <2>2
  <2>4. file' \in Seq(Box)
    BY <1>1, <1>2, <1>4, AppendProperties
  <2>5. l \in Nat /\ DOMAIN file' = 1..l /\ l \in 0..l
    BY <2>4, LenProperties
  <2>6. Upto(file', l) = start
    BY <2>4, <2>5, StartsWithin DEF start
  <2>7. Len(none) = 0
    BY EmptySeq DEF none
  <2> HIDE DEF l
  <2>8. l = l + 0 /\ \A k \in 1..0 : FALSE
    BY <2>5
  <2>9. Following(file', l, none)
    BY <1>5, <2>5, <2>7, <2>8 DEF Following, l
  <2> QED BY <2>3, <2>5, <2>6, <2>9 DEF Placed, l
<1>7. Indexed' = Indexed /\ Readable' = Readable
  BY DEF Indexed, Readable
<1> QED BY <1>5, <1>6, <1>7 DEF PlacedInv

(* A fragment goes behind the ones before it, and is noted.                *)
LEMMA PlacedFragment ==
    ASSUME Inv, PlacedInv, WriteFragment, UNCHANGED setup
    PROVE  PlacedInv'
<1>1. /\ TypeOK /\ ~complete /\ headerOut /\ headerOut' = headerOut /\ faults' = faults
      /\ complete' = complete
  BY DEF WriteFragment, Inv, Control
<1>2. PICK frag \in FragmentBox :
             /\ Noted(frag) \in NotedType /\ Noted(frag).size = frag.size
             /\ index'.start = index.start
             /\ \/ Indexed /\ ~Readable /\ file' = file
                \/ /\ Indexed /\ Readable /\ file' = Append(file, frag)
                   /\ index'.fragments = Append(index.fragments, Noted(frag))
                \/ ~Indexed
  BY FragmentWritten
<1>3. Indexed' = Indexed /\ Readable' = Readable
  BY DEF Indexed, Readable
<1>4. CASE Indexed /\ ~Readable
  BY <1>1, <1>2, <1>3, <1>4 DEF PlacedInv
<1>5. CASE Indexed /\ Readable
  <2> SUFFICES ASSUME faults.media = 0, faults.seek = 0 PROVE Placed'
    BY <1>1, <1>3, <1>5 DEF PlacedInv
  <2>1. PICK n \in 0..Len(file) :
               Upto(file, n) = index.start /\ Following(file, n, index.fragments)
    BY <1>1, <1>5 DEF PlacedInv, Placed
  <2>2. file \in Seq(Box) /\ index.fragments \in Seq(NotedType)
    BY <1>1 DEF TypeOK
  <2> DEFINE note == Noted(frag)
  <2>3. note \in NotedType /\ note.size = frag.size
    BY <1>2
  <2>4. file' = Append(file, frag) /\ index'.fragments = Append(index.fragments, note)
        /\ index'.start = index.start
    BY <1>2, <1>5
  <2> HIDE DEF note
  <2>5. Following(file', n, index'.fragments) /\ Upto(file', n) = Upto(file, n)
    <3> DEFINE noted == index.fragments
               notes == index'.fragments
    <3>1. noted \in Seq(NotedType) /\ notes = Append(noted, note)
          /\ Following(file, n, noted)
      BY <2>1, <2>2, <2>4
    <3>2. OneNoted(file, noted, file', notes)
      BY <2>3, <2>4, Zenon DEF OneNoted
    <3> HIDE DEF noted, notes
    <3>3. Following(file', n, notes) /\ Upto(file', n) = Upto(file, n)
      BY <2>2, <3>1, <3>2, FollowingMore
    <3> QED BY <3>3, Zenon DEF notes
  <2>6. n \in 0..Len(file')
    BY <2>5 DEF Following
  <2> QED BY <2>1, <2>4, <2>5, <2>6 DEF Placed
<1>6. CASE ~Indexed
  BY <1>3, <1>6 DEF PlacedInv
<1> QED BY <1>4, <1>5, <1>6

(* After a write that failed nothing is claimed of the place.              *)
LEMMA PlacedFails ==
    ASSUME Inv, StartInv, PlacedInv, HeaderFails \/ BeginFails \/ FragmentFails \/ FinishIndexFails,
           UNCHANGED setup
    PROVE  PlacedInv'
<1>1. /\ Indexed' = Indexed /\ Readable' = Readable /\ TypeOK /\ ~complete
      /\ faults \in [header : Nat, seek : Nat, media : Nat]
  BY DEF Indexed, Readable, Inv, TypeOK, HeaderFails, BeginFails, FragmentFails,
         FinishIndexFails, Control
<1>2. file \in Seq(Box)
  BY <1>1 DEF TypeOK
<1>3. Torn \in Box /\ Torn \notin FragmentBox
  BY TornIsBox DEF FragmentBox
<1>4. CASE HeaderFails
  <2>1. ~headerOut' /\ (file' = file \/ file' = Append(file, Torn))
    BY <1>4 DEF HeaderFails, Inv, Control
  <2>2. Indexed /\ ~Readable => \A j \in DOMAIN file' : file'[j] \notin FragmentBox
    BY <1>1, <1>2, <1>3, <2>1, NoneMore DEF PlacedInv
  <2> QED BY <1>1, <2>1, <2>2 DEF PlacedInv
<1>5. CASE BeginFails
  <2>1. Readable /\ faults' = [faults EXCEPT !.seek = @ + 1]
    BY <1>5 DEF BeginFails
  <2>2. faults'.seek # 0
    BY <1>1, <2>1
  <2> QED BY <1>1, <2>1, <2>2 DEF PlacedInv
<1>6. CASE FragmentFails
  <2>1. Readable \/ ~Indexed
    BY <1>6 DEF FragmentFails
  <2>2. faults' = [faults EXCEPT !.media = @ + 1]
    BY <1>6 DEF FragmentFails
  <2>3. faults'.media # 0
    BY <1>1, <2>2
  <2> QED BY <1>1, <2>1, <2>3 DEF PlacedInv
<1>7. CASE FinishIndexFails
  <2>1. /\ headerOut' = headerOut /\ index' = index
        /\ \/ UNCHANGED <<file, faults>>
           \/ /\ faults' = [faults EXCEPT !.media = @ + 1]
              /\ file' = file \/ file' = Append(SubSeq(file, 1, InsertAt), Torn)
    BY <1>7 DEF FinishIndexFails
  <2>2. CASE UNCHANGED <<file, faults>>
    BY <1>1, <2>1, <2>2, PlacedQuiet
  <2>3. CASE /\ faults' = [faults EXCEPT !.media = @ + 1]
             /\ file' = file \/ file' = Append(SubSeq(file, 1, InsertAt), Torn)
    <3>1. faults'.media # 0
      BY <1>1, <2>3
    <3>2. ASSUME Indexed, ~Readable
          PROVE  \A j \in DOMAIN file' : file'[j] \notin FragmentBox
      <4> DEFINE cut == SubSeq(file, 1, InsertAt)
                 n == InsertAt
      <4>1. \A j \in DOMAIN file : file[j] \notin FragmentBox
        BY <1>1, <3>2 DEF PlacedInv
      <4>2. n \in 0..Len(file)
        BY <1>1, <1>2, PlaceType DEF StartInv
      <4>3. /\ cut \in Seq(Box) /\ DOMAIN cut = 1..n
            /\ \A i \in 1..n : cut[i] = file[i] /\ i \in DOMAIN file
        BY <1>2, <4>2, CutStarts
      <4>4. \A j \in DOMAIN cut : cut[j] \notin FragmentBox
        BY <4>1, <4>3
      <4> HIDE DEF cut
      <4>5. CASE file' = file
        BY <4>1, <4>5
      <4>6. CASE file' = Append(cut, Torn)
        BY <1>3, <4>3, <4>4, <4>6, NoneMore
      <4> QED BY <2>3, <4>5, <4>6 DEF cut
    <3> QED BY <1>1, <3>1, <3>2 DEF PlacedInv
  <2> QED BY <2>1, <2>2, <2>3
<1> QED BY <1>4, <1>5, <1>6, <1>7

(* Every step keeps the place.                                             *)
LEMMA PlacedStep ==
    ASSUME Inv, StartInv, PlacedInv, Next
    PROVE  PlacedInv'
<1>1. Step /\ UNCHANGED setup
  BY DEF Next
<1>2. CASE WriteHeader
  BY <1>1, <1>2, PlacedHeader
<1>3. CASE WriteFragment
  BY <1>1, <1>3, PlacedFragment
<1>4. CASE HeaderFails \/ BeginFails \/ FragmentFails \/ FinishIndexFails
  BY <1>1, <1>4, PlacedFails
<1>5. CASE FinishIndex
  BY <1>5 DEF FinishIndex, PlacedInv
<1>6. ASSUME NEW t \in 1..Len(Configs), NEW s \in Samples, WriteSample(t, s)
      PROVE  PlacedInv'
  <2>1. UNCHANGED <<file, headerOut, index, complete, faults>>
    BY <1>6 DEF WriteSample
  <2> QED BY <1>1, <2>1, PlacedQuiet
<1>7. CASE AddTrack \/ AddTrackRefused \/ TakeSample \/ Flush \/ FragmentRefused
  <2>1. UNCHANGED <<file, headerOut, index, faults>>
    BY <1>7 DEF AddTrack, AddTrackRefused, TakeSample, Flush, FragmentRefused
  <2>2. complete => complete'
    BY <1>7 DEF AddTrack, AddTrackRefused, TakeSample, Flush, FragmentRefused, Inv, Control
  <2> QED BY <1>1, <2>1, <2>2, PlacedQuiet
<1>8. CASE Close \/ RefuseClosed \/ Closing
  <2>1. UNCHANGED <<file, headerOut, index, faults>> /\ (complete => complete')
    BY <1>8 DEF Close, RefuseClosed, Closing, vars
  <2> QED BY <1>1, <2>1, PlacedQuiet
<1> QED BY <1>1, <1>2, <1>3, <1>4, <1>5, <1>6, <1>7, <1>8 DEF Step

(***************************************************************************)
(* The index goes in.                                                      *)
(***************************************************************************)
(* Boxes, index boxes and fragments make a file with an index.             *)
LEMMA PartsMakeFile ==
    ASSUME NEW X, \A b \in X : b.size \in Nat,
           NEW head \in Seq(X), NEW boxes \in Seq(X), NEW rest \in Seq(X),
           NEW s \in Nat, NEW noted, Len(noted) \in Nat,
           \A i \in 1..Len(head) : head[i].box \notin {"sidx", "fragment"},
           \A i \in 1..Len(boxes) : IndexBox(boxes[i], s, s * (Len(boxes) - i), noted),
           Len(rest) = Len(noted),
           \A k \in 1..Len(noted) : IsFragment(rest[k], noted[k])
    PROVE  IndexedFile((head \o boxes) \o rest, Len(head), Len(boxes), s, noted)
<1> DEFINE n == Len(head)
           m == Len(boxes)
           q == Len(noted)
           a == head \o boxes
           f == a \o rest
<1>1. n \in Nat /\ m \in Nat /\ q \in Nat
  BY LenProperties
<1>2. /\ a \in Seq(X) /\ Len(a) = n + m
      /\ \A i \in 1..(n + m) : a[i] = IF i <= n THEN head[i] ELSE boxes[i - n]
  BY ConcatProperties
<1> HIDE DEF a
<1> DEFINE h == Len(a)
<1>3. /\ f \in Seq(X) /\ Len(f) = (n + m) + q
      /\ \A i \in 1..((n + m) + q) : f[i] = IF i <= n + m THEN a[i] ELSE rest[i - (n + m)]
  <2>1. /\ f \in Seq(X) /\ Len(f) = h + Len(rest)
        /\ \A i \in 1..(h + Len(rest)) : f[i] = IF i <= h THEN a[i] ELSE rest[i - h]
    <3>1. a \in Seq(X)
      BY <1>2
    <3> QED BY <3>1, ConcatProperties
  <2>2. h = n + m /\ Len(rest) = q
    BY <1>2
  <2> HIDE DEF f, h, n, m, q
  <2> QED BY <2>1, <2>2
<1> HIDE DEF f
<1>4. Sized(f)
  BY <1>3 DEF Sized
<1>5. ASSUME NEW i \in 1..n
      PROVE  f[i].box \notin {"sidx", "fragment"}
  <2>1. i \in 1..(n + m) /\ i <= n /\ i \in 1..((n + m) + q) /\ i <= n + m
    BY <1>1
  <2> QED BY <1>2, <1>3, <2>1
<1>6. ASSUME NEW i \in 1..m
      PROVE  IndexBox(f[n + i], s, s * (m - i), noted)
  <2>1. n + i \in 1..(n + m) /\ ~(n + i <= n) /\ (n + i) - n = i
        /\ n + i \in 1..((n + m) + q) /\ n + i <= n + m
    BY <1>1
  <2>2. f[n + i] = boxes[i]
    BY <1>2, <1>3, <2>1
  <2> QED BY <2>2
<1>7. ASSUME NEW k \in 1..q
      PROVE  IsFragment(f[(n + m) + k], noted[k])
  <2>1. (n + m) + k \in 1..((n + m) + q) /\ ~((n + m) + k <= n + m)
        /\ ((n + m) + k) - (n + m) = k
    BY <1>1
  <2>2. f[(n + m) + k] = rest[k]
    BY <1>3, <2>1
  <2> QED BY <2>2
<1>8. IndexedFile(f, n, m, s, noted)
  BY <1>1, <1>3, <1>4, <1>5, <1>6, <1>7 DEF IndexedFile
<1> QED BY <1>8 DEF f, a

(* A place in a file is in one place.                                      *)
LEMMA PlaceUnique ==
    ASSUME NEW boxes \in Seq(Box), NEW m \in 0..Len(boxes), NEW n \in 0..Len(boxes),
           Upto(boxes, m) = Upto(boxes, n)
    PROVE  m = n
<1> DEFINE f == SizesIn(boxes)
           l == Len(boxes)
<1>1. l \in Nat /\ m \in 0..l /\ n \in 0..l
  BY LenProperties
<1>2. Upto(boxes, m) = SumTo(f, m) /\ Upto(boxes, n) = SumTo(f, n)
  BY SizePrefix DEF Upto
<1>3. /\ \A j, k \in 0..l : j < k => SumTo(f, j) < SumTo(f, k)
      /\ \A j \in 0..l : SumTo(f, j) \in Nat
  <2>1. \A b \in Box : b.size \in Nat \ {0}
    BY BoxKinds
  <2> QED BY <2>1, SizesGrow
<1> HIDE DEF f, l
<1> DEFINE sm == SumTo(f, m)
           sn == SumTo(f, n)
<1>4. sm = sn /\ sm \in Nat
  BY <1>1, <1>2, <1>3
<1>5. (m < n => sm < sn) /\ (n < m => sn < sm)
  BY <1>1, <1>3
<1> HIDE DEF sm, sn
<1>6. ~(m < n) /\ ~(n < m)
  BY <1>4, <1>5
<1> QED BY <1>1, <1>6

(* Nothing is left to write of a call to Close once the initialisation     *)
(* segment is out.                                                         *)
HeaderFirst == pc \in {"closing", "index"} => headerOut

(* The header goes out before anything a call to Close writes behind it.   *)
LEMMA HeaderFirstStep ==
    ASSUME Inv, HeaderFirst, Next
    PROVE  HeaderFirst'
<1>1. Control /\ Step
  BY DEF Next, Inv
<1>2. ASSUME NEW t \in 1..Len(Configs), NEW s \in Samples, WriteSample(t, s)
      PROVE  HeaderFirst'
  BY <1>2 DEF WriteSample, FlushStart, HeaderFirst
<1>3. CASE AddTrack \/ AddTrackRefused \/ TakeSample \/ Flush \/ WriteHeader
  BY <1>3 DEF AddTrack, AddTrackRefused, TakeSample, Flush, FlushStart, WriteHeader, HeaderFirst
<1>4. CASE HeaderFails \/ BeginFails \/ FragmentRefused \/ FragmentFails \/ FinishIndexFails
  BY <1>4 DEF HeaderFails, BeginFails, FragmentRefused, FragmentFails, FinishIndexFails, Fails,
              HeaderFirst
<1>5. CASE WriteFragment
  BY <1>1, <1>5 DEF WriteFragment, Control, HeaderFirst
<1>6. CASE Close \/ RefuseClosed
  BY <1>6 DEF Close, AfterHeader, RefuseClosed, vars, HeaderFirst
<1>7. CASE Closing \/ FinishIndex
  BY <1>7 DEF Closing, FinishIndex, HeaderFirst
<1> QED BY <1>1, <1>2, <1>3, <1>4, <1>5, <1>6, <1>7 DEF Step

(* The boxes of a file and of its index.                                   *)
AnyBox == Box \cup {Boxes[i] : i \in DOMAIN Boxes}

(* The index is one box after another, all of one size, each counting the  *)
(* ones behind it in its first_offset.                                     *)
LEMMA IndexBoxes ==
    ASSUME TypeOK
    PROVE  /\ Boxes \in Seq(AnyBox)
           /\ \A b \in AnyBox : b.size \in Nat
           /\ SidxSize \in Nat
           /\ \A i \in 1..Len(Boxes) :
                IndexBox(Boxes[i], SidxSize, SidxSize * (Len(Boxes) - i), index.fragments)
<1> DEFINE boxes == Boxes
           w == Len(IndexedTracks)
           noted == index.fragments
           q == Len(noted)
<1>1. /\ w \in Nat /\ DOMAIN boxes = 1..w
      /\ \A i \in DOMAIN boxes :
           /\ boxes[i].box = "sidx" /\ boxes[i].size = SidxSize
           /\ boxes[i].firstOffset = SidxSize * (w - i)
           /\ DOMAIN boxes[i].refs = DOMAIN noted
           /\ Len(boxes[i].refs) = q
           /\ \A k \in DOMAIN noted : boxes[i].refs[k] = Reference(IndexedTracks[i], k)
  BY BoxesAre
<1>2. noted \in Seq(NotedType) /\ q \in Nat /\ DOMAIN noted = 1..q
  BY LenProperties DEF TypeOK
<1>3. SidxSize \in Nat
  <2>1. SidxLen \in Nat /\ SidxRefLen \in Nat
    BY FragmentAssumption
  <2>2. SidxRefLen * q \in Nat
    BY <1>2, <2>1
  <2> HIDE DEF q
  <2> QED BY <2>1, <2>2 DEF SidxSize, q
<1>4. boxes = [i \in DOMAIN boxes |-> boxes[i]]
  BY Zenon DEF Boxes
<1> HIDE DEF boxes
<1>5. boxes \in [1..w -> AnyBox]
  BY <1>1, <1>4 DEF AnyBox, boxes
<1>6. boxes \in Seq(AnyBox) /\ Len(boxes) = w
  BY <1>1, <1>5, FunctionIsSeq
<1>7. \A b \in AnyBox : b.size \in Nat
  BY <1>1, <1>3, BoxKinds DEF AnyBox, boxes
<1>8. \A i \in DOMAIN boxes : \A k \in 1..q : boxes[i].refs[k].size = noted[k].size
  <2>1. \A t, k : Reference(t, k).size = noted[k].size
    BY DEF Reference
  <2> QED BY <1>1, <1>2, <2>1
<1>9. ASSUME NEW i \in DOMAIN boxes
      PROVE  IndexBox(boxes[i], SidxSize, SidxSize * (w - i), noted)
  BY <1>1, <1>2, <1>8 DEF IndexBox
<1> QED BY <1>1, <1>3, <1>6, <1>7, <1>9 DEF boxes

(* The file with the index in it: the boxes before its place, the index,   *)
(* and the fragments it notes.                                             *)
IndexIn(boxes, rest) ==
    /\ rest \in Seq(FragmentBox) /\ Len(rest) = Len(index.fragments)
    /\ \A k \in 1..Len(index.fragments) : rest[k].size = index.fragments[k].size
    /\ \A i \in 1..InsertAt : file[i] \notin FragmentBox
    /\ boxes = Then(Then(SubSeq(file, 1, InsertAt), Boxes), rest)

(* What follows the index, read back or held for it, is what it notes.     *)
LEMMA NotedFollow ==
    ASSUME Inv, StartInv, HeldNoted, PlacedInv, HeaderFirst, FinishIndex,
           faults.media = 0, faults.seek = 0
    PROVE  \E rest : IndexIn(file', rest)
<1> DEFINE n == InsertAt
           l == Len(file)
           head == SubSeq(file, 1, n)
           tail == SubSeq(file, n + 1, l)
           held == index.held
           noted == index.fragments
           q == Len(noted)
           rest == Then(tail, held)
           none == <<>>
<1>1. pc = "index" /\ ~complete /\ TypeOK /\ Indexed /\ headerOut
  BY DEF FinishIndex, Inv, Control, HeaderFirst
<1>2. /\ file \in Seq(Box) /\ held \in Seq(FragmentBox) /\ noted \in Seq(NotedType)
  BY <1>1 DEF TypeOK
<1>3. l \in Nat /\ DOMAIN file = 1..l /\ q \in Nat /\ l \in 0..l
  BY <1>2, LenProperties
<1>4. n \in 0..l /\ (Readable => Upto(file, n) = index.start)
  BY <1>1, <1>2, PlaceType DEF StartInv
<1>5. file' = Then(Then(head, Boxes), rest)
  <2>1. file' = Then(Then(Then(head, Boxes), tail), held)
    BY Zenon DEF FinishIndex, Then
  <2>2. head \in Seq(Box) /\ tail \in Seq(Box)
    BY <1>2, <1>4, CutParts
  <2>3. Box \subseteq AnyBox /\ FragmentBox \subseteq AnyBox
    BY DEF AnyBox, Box
  <2> HIDE DEF n, l, head, tail, held
  <2>4. head \in Seq(AnyBox) /\ tail \in Seq(AnyBox) /\ held \in Seq(AnyBox)
    BY <1>2, <2>2, <2>3, SeqMonotonic
  <2>5. Boxes \in Seq(AnyBox)
    BY <1>1, IndexBoxes
  <2>6. Then(head, Boxes) \in Seq(AnyBox)
    BY <2>4, <2>5, ThenProperties
  <2> QED BY <2>1, <2>4, <2>6, ThenProperties
<1>6. CASE Readable
  <2>1. PICK m \in 0..Len(file) :
               Upto(file, m) = index.start /\ Following(file, m, noted)
    BY <1>1, <1>6 DEF PlacedInv, Placed
  <2>2. m = n
    BY <1>2, <1>4, <1>6, <2>1, PlaceUnique
  <2>3. /\ l = n + q /\ \A i \in 1..n : file[i] \notin FragmentBox
        /\ \A k \in 1..q : file[n + k] \in FragmentBox /\ file[n + k].size = noted[k].size
    BY <2>1, <2>2 DEF Following
  <2>4. tail \in Seq(FragmentBox) /\ Len(tail) = q /\ \A k \in 1..q : tail[k] = file[n + k]
    <3>1. /\ n \in Int /\ n + 1 >= 1 /\ l <= l /\ l \in Int
          /\ \A i \in (n + 1)..l : i - n \in 1..q /\ n + (i - n) = i
      BY <1>3, <1>4, <2>3
    <3>2. \A i \in (n + 1)..l : file[i] \in FragmentBox
      BY <2>3, <3>1
    <3>3. tail \in Seq(FragmentBox)
      BY <1>2, <3>1, <3>2, SubSeqProperties
    <3>4. /\ Len(tail) = (IF n + 1 <= l THEN l - (n + 1) + 1 ELSE 0)
          /\ \A k \in 1..(l - (n + 1) + 1) : tail[k] = file[(n + 1) + k - 1]
      BY <1>2, <3>1, <3>2, SubSeqProperties
    <3> HIDE DEF n, l, q, tail
    <3>5. \A k \in 1..q : (n + 1) + k - 1 = n + k
      BY <1>3, <1>4
    <3> QED BY <1>3, <1>4, <2>3, <3>3, <3>4, <3>5
  <2>5. rest = tail
    <3>1. held = none
      BY <1>6 DEF Inv, Progress
    <3> QED BY <2>4, <3>1, ThenProperties
  <2> HIDE DEF n, l, q, tail, rest
  <2>6. /\ rest \in Seq(FragmentBox) /\ Len(rest) = q
        /\ \A k \in 1..q : rest[k].size = noted[k].size
    BY <2>3, <2>4, <2>5
  <2> QED BY <1>5, <2>3, <2>6 DEF IndexIn, n, l, q, tail
<1>7. CASE ~Readable
  <2>1. n = l /\ \A i \in 1..n : file[i] \notin FragmentBox
    <3>1. n = l
      BY <1>7 DEF InsertAt
    <3> QED BY <1>1, <1>3, <1>7, <3>1 DEF PlacedInv
  <2>2. tail = none
    <3> HIDE DEF n, l
    <3> QED BY <1>2, <1>3, <2>1, SubSeqEmpty
  <2>3. rest = held
    BY <1>2, <2>2, ThenProperties
  <2>4. SizesIn(held) = SizesIn(noted)
    BY <1>1, <1>7 DEF HeldNoted
  <2>5. Len(held) = q /\ \A k \in 1..q : held[k].size = noted[k].size
    <3>1. Len(held) \in Nat /\ DOMAIN held = 1..Len(held) /\ DOMAIN noted = 1..q
      BY <1>2, LenProperties
    <3> HIDE DEF held, noted, q
    <3>2. DOMAIN SizesIn(held) = DOMAIN held /\ DOMAIN SizesIn(noted) = DOMAIN noted
      BY DEF SizesIn
    <3>3. Len(held) = q
      BY <1>3, <2>4, <3>1, <3>2, SameRange
    <3>4. ASSUME NEW k \in 1..q PROVE held[k].size = noted[k].size
      <4>1. SizesIn(held)[k] = held[k].size /\ SizesIn(noted)[k] = noted[k].size
        BY <3>1, <3>3 DEF SizesIn
      <4> QED BY <2>4, <4>1
    <3> QED BY <3>3, <3>4
  <2> HIDE DEF n, l, q, held, rest
  <2>6. /\ rest \in Seq(FragmentBox) /\ Len(rest) = q
        /\ \A k \in 1..q : rest[k].size = noted[k].size
    BY <1>2, <2>3, <2>5
  <2> QED BY <1>5, <2>1, <2>6 DEF IndexIn, n, q
<1> QED BY <1>6, <1>7

(* An index that finish has put in finds every fragment of the file.       *)
LEMMA FinishFinds ==
    ASSUME Inv, StartInv, HeldNoted, PlacedInv, HeaderFirst, FinishIndex,
           faults.media = 0, faults.seek = 0
    PROVE  Finds(file')
<1> DEFINE head == SubSeq(file, 1, InsertAt)
           noted == index.fragments
           s == SidxSize
           more == file'
<1>1. TypeOK /\ ~complete /\ PlaceExists
  BY DEF FinishIndex, Inv, Control, StartInv
<1>2. PICK rest : IndexIn(more, rest)
  BY NotedFollow
<1>3. file \in Seq(Box) /\ InsertAt \in 0..Len(file) /\ Len(noted) \in Nat
  BY <1>1, PlaceType, LenProperties DEF TypeOK
<1>4. Box \subseteq AnyBox /\ FragmentBox \subseteq AnyBox
  BY DEF AnyBox, Box
<1>5. head \in Seq(Box) /\ Len(head) = InsertAt /\ \A i \in 1..InsertAt : head[i] = file[i]
                                                     /\ file[i] \in Box
  <2> DEFINE k == InsertAt
  <2>1. /\ SubSeq(file, 1, k) \in Seq(Box) /\ DOMAIN SubSeq(file, 1, k) = 1..k
        /\ \A i \in 1..k : SubSeq(file, 1, k)[i] = file[i] /\ i \in DOMAIN file
    BY <1>3, CutStarts
  <2>2. \A i \in DOMAIN file : file[i] \in Box
    BY <1>3, LenProperties, ElementOfSeq
  <2>3. Len(SubSeq(file, 1, k)) \in Nat /\ k \in Nat
        /\ DOMAIN SubSeq(file, 1, k) = 1..Len(SubSeq(file, 1, k))
    BY <1>3, <2>1, LenProperties
  <2> HIDE DEF k
  <2>4. Len(SubSeq(file, 1, k)) = k
    BY <2>1, <2>3, SameRange
  <2> QED BY <2>1, <2>2, <2>4 DEF k
<1>6. /\ rest \in Seq(FragmentBox) /\ Len(rest) = Len(noted)
      /\ \A k \in 1..Len(noted) : rest[k].size = noted[k].size
      /\ \A i \in 1..InsertAt : file[i] \notin FragmentBox
      /\ more = Then(Then(head, Boxes), rest)
  BY <1>2 DEF IndexIn
<1> HIDE DEF head, noted, more
<1>7. \A i \in 1..Len(head) : head[i].box \notin {"sidx", "fragment"}
  BY <1>5, <1>6, BoxKinds
<1>8. \A k \in 1..Len(noted) : IsFragment(rest[k], noted[k])
  <2>1. \A k \in 1..Len(noted) : rest[k] \in FragmentBox
    BY <1>3, <1>6, ElementOfSeq
  <2> QED BY <1>6, <2>1 DEF IsFragment, FragmentBox
<1>9. head \in Seq(AnyBox) /\ rest \in Seq(AnyBox)
  BY <1>4, <1>5, <1>6, SeqMonotonic
<1>10. /\ Boxes \in Seq(AnyBox) /\ s \in Nat /\ \A b \in AnyBox : b.size \in Nat
       /\ \A i \in 1..Len(Boxes) : IndexBox(Boxes[i], s, s * (Len(Boxes) - i), noted)
  BY <1>1, IndexBoxes DEF noted
<1> HIDE DEF s
<1>11. IndexedFile((head \o Boxes) \o rest, Len(head), Len(Boxes), s, noted)
  BY <1>3, <1>6, <1>7, <1>8, <1>9, <1>10, PartsMakeFile
<1>12. more = (head \o Boxes) \o rest
  BY <1>6, Zenon DEF Then
<1>13. IndexedFile(more, Len(head), Len(Boxes), s, noted)
  BY <1>11, <1>12, Zenon
<1>14. Finds(more)
  BY <1>13, IndexFinds
<1> QED BY <1>14 DEF more

(* What an index and the fragments behind it are a step from.              *)
IndexInv == HeaderFirst /\ PlacedInv /\ ReferencesFindFragments

(* A file that has no index yet.                                           *)
LEMMA NothingToFind ==
    ASSUME NEW boxes \in Seq(Box)
    PROVE  Finds(boxes)
<1>1. \A j \in DOMAIN boxes : boxes[j] \in Box
  BY LenProperties, ElementOfSeq
<1>2. \A j \in DOMAIN boxes : boxes[j].box # "sidx"
  BY <1>1, BoxKinds
<1> QED BY <1>2, Zenon DEF Finds

(* Every operation keeps the index to the fragments.                       *)
LEMMA IndexStep ==
    ASSUME Inv, Inv', StartInv, HeldNoted, IndexInv, Next
    PROVE  IndexInv'
<1>1. HeaderFirst' /\ PlacedInv'
  BY HeaderFirstStep, PlacedStep DEF IndexInv
<1> SUFFICES ASSUME faults'.media = 0, faults'.seek = 0
             PROVE  Finds(file')
  <2>1. ReferencesFindFragments' <=> (faults'.media = 0 /\ faults'.seek = 0 => Finds(file'))
    BY Zenon DEF ReferencesFindFragments, Finds, StartOf, Upto
  <2> QED BY <1>1, <2>1 DEF IndexInv
<1>2. CASE complete
  <2>1. UNCHANGED vars
    BY <1>2, Finished
  <2>2. file' = file /\ faults' = faults
    BY <2>1 DEF vars
  <2> QED BY <2>2, FindsFragments DEF IndexInv
<1>3. CASE ~complete /\ FinishIndex
  <2>1. faults' = faults
    BY <1>3 DEF FinishIndex
  <2> QED BY <1>3, <2>1, FinishFinds DEF IndexInv
<1>4. CASE ~complete /\ ~FinishIndex
  <2>1. file' \in Seq(Box)
    <3>1. CASE ~complete'
      BY <3>1 DEF Inv, TypeOK
    <3>2. CASE complete'
      <4>1. Step
        BY DEF Next
      <4>2. \A t, s : ~WriteSample(t, s)
        BY <1>4, <3>2 DEF WriteSample
      <4>3. Closing
        BY <1>4, <3>2, <4>1, <4>2 DEF Step, AddTrack, AddTrackRefused, TakeSample, Flush,
           WriteHeader, HeaderFails, BeginFails, WriteFragment, FragmentRefused, FragmentFails,
           Close, RefuseClosed, FinishIndexFails, Fails, vars
      <4> QED BY <1>4, <4>3 DEF Closing, Inv, TypeOK
    <3> QED BY <3>1, <3>2
  <2> QED BY <2>1, NothingToFind
<1> QED BY <1>2, <1>3, <1>4

(* And so it stays.                                                        *)
LEMMA IndexInit == Init => IndexInv
<1> SUFFICES ASSUME Init PROVE IndexInv
  OBVIOUS
<1>1. pc = "idle" /\ ~headerOut /\ file = <<>>
  BY DEF Init
<1>2. HeaderFirst
  BY <1>1 DEF HeaderFirst
<1>3. DOMAIN file = {}
  BY <1>1
<1>4. PlacedInv
  BY <1>1, <1>3 DEF PlacedInv
<1>5. Finds(file)
  BY <1>3, Zenon DEF Finds
<1> QED BY <1>2, <1>4, <1>5, FindsFragments DEF IndexInv

(* No property of the index depends on what a stuttering step leaves.      *)
LEMMA IndexStutter ==
    ASSUME IndexInv, UNCHANGED vars
    PROVE  IndexInv'
<1>1. /\ pc' = pc /\ headerOut' = headerOut /\ complete' = complete /\ file' = file
      /\ setup' = setup /\ index' = index /\ faults' = faults
  BY DEF vars
<1>2. HeaderFirst' /\ PlacedInv'
  BY <1>1, PlacedQuiet DEF HeaderFirst, IndexInv
<1>3. ReferencesFindFragments'
  <2>1. faults.media = 0 /\ faults.seek = 0 => Finds(file)
    BY FindsFragments DEF IndexInv
  <2>2. faults'.media = 0 /\ faults'.seek = 0 => Finds(file')
    BY <1>1, <2>1
  <2>3. ReferencesFindFragments' <=> (faults'.media = 0 /\ faults'.seek = 0 => Finds(file'))
    BY Zenon DEF ReferencesFindFragments, Finds, StartOf, Upto
  <2> QED BY <2>2, <2>3
<1> QED BY <1>2, <1>3 DEF IndexInv

(* The place sidx.go keeps for the index is where the fragments begin, and *)
(* what it notes of them is what they are.                                 *)
THEOREM IndexKept == Spec => [](Inv /\ StartInv /\ HeldNoted /\ OrderInv /\ IndexInv)
<1>1. Init => IndexInv
  BY IndexInit
<1>2. (Inv /\ StartInv /\ HeldNoted /\ OrderInv) /\ IndexInv /\ [Next]_vars
      /\ (Inv' /\ StartInv' /\ HeldNoted' /\ OrderInv')
      => IndexInv'
  BY IndexStep, IndexStutter
<1>3. Spec => [](Inv /\ StartInv /\ HeldNoted /\ OrderInv)
  BY FragmentOrder
<1> QED BY <1>1, <1>2, <1>3, PTL DEF Spec

(* ReferencesFindFragments, for every number of tracks and fragments,      *)
(* sizes of boxes, tightening by the encoder, limits and refused calls:    *)
(* every box of the index sidx.go puts in (segmentIndex.boxes, finish)     *)
(* leads to each fragment of the file, whole and nothing more.             *)
THEOREM IndexFindsFragments == Spec => []ReferencesFindFragments
BY IndexKept, PTL DEF IndexInv

(***************************************************************************)
(* What the index says of time and of sync samples.                        *)
(***************************************************************************)
(* How long each sample of a run lasts.                                    *)
Durations(r) == [n \in DOMAIN r.samples |-> r.samples[n].dur]

(* The samples of a run decode at the times they were buffered with.       *)
LEMMA PendingTimes ==
    ASSUME TypeOK, PendingRunsOn, NEW t \in DOMAIN tracks, tracks[t].pending # <<>>
    PROVE  \A i \in DOMAIN tracks[t].pending :
             /\ Run(t).base + SumTo(Durations(Run(t)), i - 1) = tracks[t].pending[i].time
             /\ SumTo(Durations(Run(t)), i - 1) \in Nat
<1> DEFINE p == tracks[t].pending
           n == Len(p)
           s == Run(t).samples
           f == Durations(Run(t))
           S == {k \in Nat : k < n => p[1].time + SumTo(f, k) = p[k + 1].time}
<1>1. /\ p \in Seq(PendingType) /\ n \in Nat /\ DOMAIN p = 1..n
      /\ \A i \in DOMAIN p : p[i].time \in Nat /\ p[i].dur \in Nat
  <2>1. \A i \in DOMAIN p : p[i] \in PendingType
    BY TrackTypes
  <2> QED BY <2>1, TrackTypes DEF PendingType
<1>2. /\ \A i \in DOMAIN p :
           p[i].time + p[i].dur = IF i = n THEN tracks[t].nextTime ELSE p[i + 1].time
      /\ n > 0
  BY <1>1, EmptySeq DEF PendingRunsOn
<1>3. /\ Run(t).base = p[1].time /\ Len(s) = n /\ s = Bare(p)
  BY RunIsRun
<1>4. \A i \in 1..n : f[i] = p[i].dur
  <2>1. f = [i \in DOMAIN s |-> s[i].dur]
    BY Zenon DEF Durations
  <2> HIDE DEF p, s, n, f
  <2>2. DOMAIN s = 1..n /\ \A i \in 1..n : s[i].dur = p[i].dur
    BY <1>1, <1>3 DEF Bare
  <2> QED BY <2>1, <2>2
<1> HIDE DEF f, p, n, s
<1>5. \A i \in 0..n : SumTo(f, i) \in Nat
  <2>1. \A i \in 1..n : f[i] \in Nat
    BY <1>1, <1>4
  <2> QED BY <1>1, <2>1, SumGrows
<1>6. 0 \in S
  BY <1>1, <1>2, SumZero
<1>7. ASSUME NEW k \in Nat, k \in S
      PROVE  k + 1 \in S
  <2> SUFFICES ASSUME k + 1 < n
               PROVE  p[1].time + SumTo(f, k + 1) = p[(k + 1) + 1].time
    OBVIOUS
  <2>1. p[1].time + SumTo(f, k) = p[k + 1].time
    BY <1>1, <1>7
  <2>2. SumTo(f, k + 1) = SumTo(f, k) + f[k + 1]
    BY SumStep
  <2>3. p[k + 1].time + p[k + 1].dur = p[(k + 1) + 1].time /\ f[k + 1] = p[k + 1].dur
    <3>1. k + 1 \in DOMAIN p /\ k + 1 \in 1..n /\ k + 1 # n
      BY <1>1
    <3> QED BY <1>2, <1>4, <3>1
  <2>4. SumTo(f, k) \in Nat /\ p[1].time \in Nat /\ p[k + 1].dur \in Nat
    <3>1. k \in 0..n /\ 1 \in DOMAIN p /\ k + 1 \in DOMAIN p
      BY <1>1
    <3> QED BY <1>1, <1>5, <3>1
  <2> DEFINE a == SumTo(f, k)
             b == p[1].time
             c == p[k + 1].dur
  <2>5. a \in Nat /\ b \in Nat /\ c \in Nat /\ SumTo(f, k + 1) = a + c
        /\ b + a = p[k + 1].time /\ p[k + 1].time + c = p[(k + 1) + 1].time
    BY <2>1, <2>2, <2>3, <2>4, Zenon
  <2> HIDE DEF a, b, c
  <2>6. b + (a + c) = (b + a) + c
    BY <2>5
  <2> QED BY <2>5, <2>6, Zenon DEF b
<1> HIDE DEF S
<1>8. \A k \in Nat : k \in S
  BY <1>6, <1>7, NatSetInduction
<1>9. ASSUME NEW i \in 1..n
      PROVE  p[1].time + SumTo(f, i - 1) = p[i].time /\ SumTo(f, i - 1) \in Nat
  <2>1. i - 1 \in Nat /\ i - 1 < n /\ (i - 1) + 1 = i /\ i - 1 \in 0..n
    BY <1>1
  <2>2. i - 1 \in S
    BY <1>8, <2>1
  <2> QED BY <1>5, <2>1, <2>2 DEF S
<1>10. \A i \in DOMAIN p : Run(t).base + SumTo(f, i - 1) = p[i].time /\ SumTo(f, i - 1) \in Nat
  BY <1>1, <1>3, <1>9
<1> QED BY <1>10, Zenon DEF p, f

(* When a sample that waits presents.                                      *)
StartAt(t, i) == Greater(tracks[t].pending[i].time + tracks[t].pending[i].offset, 0)
EndAt(t, i) == StartAt(t, i) + tracks[t].pending[i].dur

(* A run presents when its samples do.                                     *)
LEMMA RunPresents ==
    ASSUME TypeOK, PendingRunsOn, NEW t \in DOMAIN tracks, tracks[t].pending # <<>>
    PROVE  /\ RunStarts(Run(t)) = {StartAt(t, i) : i \in DOMAIN tracks[t].pending}
           /\ RunEnds(Run(t)) = {EndAt(t, i) : i \in DOMAIN tracks[t].pending}
           /\ Greater(Run(t).base + Run(t).samples[1].offset, 0) = StartAt(t, 1)
<1> DEFINE p == tracks[t].pending
           r == Run(t)
           s == r.samples
           At(i) == Greater(r.base + SumTo(Durations(r), i - 1) + s[i].offset, 0)
<1>1. /\ p \in Seq(PendingType) /\ Len(p) \in Nat /\ DOMAIN p = 1..Len(p)
      /\ \A i \in DOMAIN p : p[i] \in PendingType
  BY TrackTypes
<1>2. r.base = p[1].time /\ s = Bare(p) /\ p # <<>>
  BY RunIsRun
<1>3. /\ DOMAIN s = DOMAIN p
      /\ \A i \in DOMAIN p : s[i].offset = p[i].offset /\ s[i].dur = p[i].dur
  <2> HIDE DEF p, s
  <2> QED BY <1>2 DEF Bare
<1>4. \A i \in DOMAIN p : r.base + SumTo(Durations(r), i - 1) = p[i].time
  BY PendingTimes
<1>5. \A i \in DOMAIN p : At(i) = StartAt(t, i)
  BY <1>3, <1>4, Zenon DEF StartAt
<1>6. RunStarts(r) = {At(i) : i \in DOMAIN s}
  BY Zenon DEF RunStarts, Durations
<1>7. RunEnds(r) = {At(i) + s[i].dur : i \in DOMAIN s}
  BY Zenon DEF RunEnds, Durations
<1>8. Greater(r.base + s[1].offset, 0) = StartAt(t, 1)
  <2>1. 1 \in DOMAIN p
    BY <1>1, <1>2, EmptySeq
  <2> QED BY <1>2, <1>3, <2>1, Zenon DEF StartAt
<1> HIDE DEF At, s, p, r
<1>9. RunStarts(r) = {StartAt(t, i) : i \in DOMAIN p}
  BY <1>3, <1>5, <1>6
<1>10. \A i \in DOMAIN p : At(i) + s[i].dur = EndAt(t, i)
  BY <1>3, <1>5, Zenon DEF EndAt, p
<1>11. RunEnds(r) = {EndAt(t, i) : i \in DOMAIN p}
  BY <1>3, <1>7, <1>10
<1> QED BY <1>8, <1>9, <1>11, Zenon DEF p, r, s

(* What the index notes of a track in a fragment is so: of a track that is *)
(* not in it, that it is not; of the run of one that is, when it presents  *)
(* first and last, and how decoding may start.                             *)
Describes(span, own) ==
    IF own = <<>> THEN span = NoSpan
    ELSE /\ span.present /\ span.sap \in BOOLEAN /\ span.sap = own[1].samples[1].sync
         /\ span.earliest \in RunStarts(own[1])
         /\ \A e \in RunStarts(own[1]) : span.earliest <= e
         /\ span.end \in RunEnds(own[1])
         /\ \A e \in RunEnds(own[1]) : e <= span.end
         /\ span.earliest \in Int /\ span.end \in Int /\ span.earliest <= span.end
         /\ span.sapType = SapType(span.sap,
                                   Greater(own[1].base + own[1].samples[1].offset, 0),
                                   span.earliest)

(* Samples that wait present at a time, and last.                          *)
LEMMA StartType ==
    ASSUME TypeOK, NEW t \in DOMAIN tracks, NEW i \in DOMAIN tracks[t].pending
    PROVE  StartAt(t, i) \in Int /\ EndAt(t, i) \in Int /\ StartAt(t, i) <= EndAt(t, i)
<1> DEFINE e == tracks[t].pending[i]
<1>1. e \in PendingType
  BY TrackTypes
<1>2. e.time \in Nat /\ e.offset \in Int /\ e.dur \in Nat
  BY <1>1 DEF PendingType
<1>3. StartAt(t, i) = Greater(e.time + e.offset, 0) /\ EndAt(t, i) = StartAt(t, i) + e.dur
  BY Zenon DEF StartAt, EndAt
<1> HIDE DEF e
<1>4. Greater(e.time + e.offset, 0) \in Int
  BY <1>2 DEF Greater
<1> QED BY <1>2, <1>3, <1>4

(* What segmentIndex.note works out of the samples of a track describes    *)
(* the run they become.                                                    *)
LEMMA SpanDescribes ==
    ASSUME TypeOK, PendingRunsOn, NEW t \in DOMAIN tracks
    PROVE  Describes(Span(t), IF tracks[t].pending = <<>> THEN <<>> ELSE <<Run(t)>>)
<1>1. CASE tracks[t].pending = <<>>
  BY <1>1 DEF Span, Describes
<1>2. CASE tracks[t].pending # <<>>
  <2> DEFINE p == tracks[t].pending
             n == Len(p)
             f == [i \in 1..n |-> StartAt(t, i)]
             g == [i \in 1..n |-> EndAt(t, i)]
             earliest == CHOOSE e \in {StartAt(t, i) : i \in DOMAIN p} :
                           \A i \in DOMAIN p : e <= StartAt(t, i)
             last == CHOOSE e \in {EndAt(t, i) : i \in DOMAIN p} :
                           \A i \in DOMAIN p : EndAt(t, i) <= e
  <2>1. n \in Nat /\ DOMAIN p = 1..n /\ p \in Seq(PendingType)
    BY TrackTypes
  <2>2. n > 0 /\ 1 \in 1..n
    BY <1>2, <2>1, EmptySeq
  <2>3. \A i \in 1..n : StartAt(t, i) \in Int /\ EndAt(t, i) \in Int /\ StartAt(t, i) <= EndAt(t, i)
    BY <2>1, StartType
  <2>4. Span(t) = [present |-> TRUE, earliest |-> earliest, end |-> last, sap |-> p[1].sync,
                   sapType |-> SapType(p[1].sync, StartAt(t, 1), earliest)]
    BY <1>2, Zenon DEF Span, StartAt, EndAt
  <2>5. /\ RunStarts(Run(t)) = {StartAt(t, i) : i \in DOMAIN p}
        /\ RunEnds(Run(t)) = {EndAt(t, i) : i \in DOMAIN p}
        /\ Greater(Run(t).base + Run(t).samples[1].offset, 0) = StartAt(t, 1)
    BY <1>2, RunPresents
  <2>6. Run(t).samples[1].sync = p[1].sync
    <3>1. Run(t).samples = Bare(p)
      BY <1>2, RunIsRun
    <3> HIDE DEF p
    <3> QED BY <2>1, <2>2, <3>1 DEF Bare
  <2>7. earliest \in {StartAt(t, i) : i \in DOMAIN p} /\ \A i \in DOMAIN p : earliest <= StartAt(t, i)
    <3>1. \A i \in 1..n : f[i] \in Int /\ f[i] = StartAt(t, i)
      BY <2>3
    <3> HIDE DEF f, n, p
    <3>2. \E i \in 1..n : \A j \in 1..n : f[i] <= f[j]
      BY <2>1, <2>2, <3>1, SmallestExists
    <3>3. \E e \in {StartAt(t, i) : i \in DOMAIN p} : \A i \in DOMAIN p : e <= StartAt(t, i)
      BY <2>1, <3>1, <3>2
    <3> QED BY <3>3, Zenon
  <2>8. last \in {EndAt(t, i) : i \in DOMAIN p} /\ \A i \in DOMAIN p : EndAt(t, i) <= last
    <3>1. \A i \in 1..n : g[i] \in Int /\ g[i] = EndAt(t, i)
      BY <2>3
    <3> HIDE DEF g, n, p
    <3>2. \E i \in 1..n : \A j \in 1..n : g[j] <= g[i]
      BY <2>1, <2>2, <3>1, SmallestExists
    <3>3. \E e \in {EndAt(t, i) : i \in DOMAIN p} : \A i \in DOMAIN p : EndAt(t, i) <= e
      BY <2>1, <3>1, <3>2
    <3> QED BY <3>3, Zenon
  <2>17. p[1].sync \in BOOLEAN
    <3>1. p[1] \in PendingType
      BY <2>1, <2>2, TrackTypes
    <3> HIDE DEF p
    <3> QED BY <3>1 DEF PendingType
  <2> DEFINE first == StartAt(t, 1)
             sync == p[1].sync
             run == Run(t)
             kind == SapType(sync, first, earliest)
             span == Span(t)
             own == <<run>>
  <2>9. earliest \in Int /\ last \in Int /\ earliest <= last
    <3> HIDE DEF earliest, last, p, n
    <3>1. earliest <= StartAt(t, 1) /\ EndAt(t, 1) <= last
      BY <2>1, <2>2, <2>7, <2>8
    <3>2. earliest \in Int /\ last \in Int
      BY <2>1, <2>3, <2>7, <2>8
    <3> QED BY <2>2, <2>3, <3>1, <3>2
  <2>10. /\ earliest \in RunStarts(run) /\ \A e \in RunStarts(run) : earliest <= e
         /\ last \in RunEnds(run) /\ \A e \in RunEnds(run) : e <= last
    <3> HIDE DEF earliest, last, p, n
    <3> QED BY <2>5, <2>7, <2>8, Zenon
  <2>11. span.present = TRUE /\ span.earliest = earliest /\ span.end = last /\ span.sap = sync
         /\ span.sapType = kind
    <3>1. span = [present |-> TRUE, earliest |-> earliest, end |-> last, sap |-> sync, sapType |-> kind]
      BY <2>4, Zenon
    <3> HIDE DEF earliest, last, sync, kind, span
    <3> QED BY <3>1
  <2>12. own[1] = run /\ own # <<>>
    <3> HIDE DEF run
    <3> QED OBVIOUS
  <2>13. (IF tracks[t].pending = <<>> THEN <<>> ELSE <<Run(t)>>) = own
    BY <1>2, Zenon
  <2> HIDE DEF earliest, last, p, n, run, span, own, kind
  <2>14. span.sapType = SapType(span.sap, Greater(own[1].base + own[1].samples[1].offset, 0),
                                span.earliest)
    BY <2>5, <2>11, <2>12, Zenon DEF kind, run
  <2>15. span.sap = own[1].samples[1].sync
    BY <2>6, <2>11, <2>12, Zenon DEF run, p
  <2>16. Describes(span, own)
    BY <2>9, <2>10, <2>11, <2>12, <2>14, <2>15, <2>17, Zenon DEF Describes
  <2> QED BY <2>13, <2>16, Zenon DEF span
<1> QED BY <1>1, <1>2

(* What the index notes of the fragments so far describes them.            *)
Described(noted, fragments) ==
    /\ Len(noted) = Len(fragments)
    /\ \A k \in DOMAIN noted : \A t \in DOMAIN tracks :
         Describes(noted[k].spans[t], RunsIn(tracks[t].id, fragments[k]))

(* Until Close has failed, it does: after that the file may have been cut  *)
(* where the index was to go, and nothing is written any more.             *)
SpansInv ==
    /\ ~complete /\ Indexed /\ (closed => pc = "index") =>
         Described(index.fragments, Fragments)
    /\ pc = "closing" => ~closed

(* SpansInv after a step that leaves fragments and what is noted alone.    *)
LEMMA SpansSame ==
    ASSUME Inv, SpansInv, UNCHANGED <<setup, Fragments>>, index'.fragments = index.fragments,
           ~complete' /\ (closed' => pc' = "index") =>
             ~complete /\ (closed => pc = "index"),
           pc' = "closing" => ~closed',
           \/ index.fragments = <<>>
           \/ DOMAIN tracks' = DOMAIN tracks
              /\ \A t \in DOMAIN tracks : tracks'[t].id = tracks[t].id
    PROVE  SpansInv'
<1> SUFFICES ASSUME ~complete', Indexed', closed' => pc' = "index"
             PROVE  Described(index.fragments, Fragments)'
  BY DEF SpansInv
<1>1. Described(index.fragments, Fragments)
  BY DEF SpansInv, Indexed
<1> DEFINE noted == index.fragments
           notes == index'.fragments
<1>2. Len(notes) = Len(Fragments') /\ Fragments' = Fragments /\ notes = noted
  BY <1>1 DEF Described
<1>3. ASSUME NEW k \in DOMAIN notes, NEW u \in DOMAIN tracks'
      PROVE  Describes(notes[k].spans[u], RunsIn(tracks'[u].id, Fragments'[k]))
  <2>1. DOMAIN tracks' = DOMAIN tracks /\ \A t \in DOMAIN tracks : tracks'[t].id = tracks[t].id
    <3>1. CASE index.fragments = <<>>
      BY <1>3, <3>1
    <3> QED BY <3>1
  <2>2. u \in DOMAIN tracks /\ k \in DOMAIN noted /\ tracks'[u].id = tracks[u].id
    BY <1>3, <2>1
  <2>3. Describes(noted[k].spans[u], RunsIn(tracks[u].id, Fragments[k]))
    BY <1>1, <2>2, Zenon DEF Described
  <2> QED BY <1>2, <2>2, <2>3, Zenon
<1> QED BY <1>2, <1>3, Zenon DEF Described

(* A fragment more is described, as the ones before it are.                *)
LEMMA SpansWrite ==
    ASSUME Inv, SpansInv, WriteFragment, UNCHANGED setup,
           NEW frag \in FragmentBox, frag.runs = Runs, Fragments \in Seq(FragmentBox),
           Fragments' = Append(Fragments, frag)
    PROVE  SpansInv'
<1> SUFFICES ASSUME Indexed
             PROVE  Described(index.fragments, Fragments)'
  <2>1. ~closed' /\ (Indexed' <=> Indexed)
    BY DEF Inv, Control, WriteFragment, Indexed
  <2> QED BY <2>1 DEF SpansInv
<1> DEFINE noted == index.fragments
           n == Len(noted)
           notes == index'.fragments
<1>1. TypeOK /\ TracksApart /\ PendingRunsOn /\ pc = "fragment" /\ ~closed /\ ~complete
  BY DEF Inv, Control, WriteFragment
<1>2. Described(noted, Fragments)
  BY <1>1 DEF SpansInv
<1>3. PICK other \in FragmentBox :
         Noted(other) \in NotedType /\ notes = Append(noted, Noted(other))
  <2>1. PICK other \in FragmentBox :
               /\ Noted(other) \in NotedType
               /\ \/ notes = Append(noted, Noted(other))
                  \/ ~Indexed
    BY FragmentWritten
  <2> QED BY <2>1
<1>4. noted \in Seq(NotedType) /\ n \in Nat /\ DOMAIN noted = 1..n
  BY <1>1 DEF TypeOK
<1>5. DOMAIN tracks' = DOMAIN tracks /\ \A t \in DOMAIN tracks : tracks'[t].id = tracks[t].id
  BY EmptiedTracks DEF WriteFragment
<1> DEFINE note == Noted(other)
<1>6. note \in NotedType /\ note.spans = Spans
  BY <1>3 DEF Noted
<1>7. \A t \in DOMAIN tracks : Describes(note.spans[t], RunsIn(tracks[t].id, frag))
  <2>1. ASSUME NEW t \in DOMAIN tracks
        PROVE  Describes(note.spans[t], RunsIn(tracks[t].id, frag))
    <3>1. note.spans[t] = Span(t)
      BY <1>6, Zenon DEF Spans
    <3>2. RunsIn(tracks[t].id, frag) = IF tracks[t].pending = <<>> THEN <<>> ELSE <<Run(t)>>
      BY <1>1, RunsInFragment
    <3>3. Describes(Span(t), IF tracks[t].pending = <<>> THEN <<>> ELSE <<Run(t)>>)
      BY <1>1, SpanDescribes
    <3> QED BY <3>1, <3>2, <3>3, Zenon
  <2> QED BY <2>1
<1> HIDE DEF note
<1>8. Len(Fragments) = n
  BY <1>2 DEF Described
<1>9. /\ DOMAIN notes = 1..(n + 1) /\ Len(notes) = n + 1 /\ Len(Fragments') = n + 1
      /\ notes[n + 1] = note /\ Fragments'[n + 1] = frag
      /\ \A k \in 1..n : notes[k] = noted[k] /\ Fragments'[k] = Fragments[k]
  <2>1. notes = Append(noted, note)
    BY <1>3 DEF note
  <2>2. Len(notes) = n + 1 /\ DOMAIN notes = 1..(n + 1)
        /\ notes[n + 1] = note /\ \A k \in 1..n : notes[k] = noted[k]
    BY <1>4, <1>6, <2>1, AppendProperties
  <2>3. Len(Fragments') = n + 1 /\ Fragments'[n + 1] = frag
        /\ \A k \in 1..n : Fragments'[k] = Fragments[k]
    BY <1>4, <1>8, AppendProperties
  <2> QED BY <2>2, <2>3
<1> HIDE DEF noted, notes, n
<1>10. ASSUME NEW k \in DOMAIN notes, NEW t \in DOMAIN tracks'
       PROVE  Describes(notes[k].spans[t], RunsIn(tracks'[t].id, Fragments'[k]))
  <2>1. t \in DOMAIN tracks /\ tracks'[t].id = tracks[t].id
    BY <1>5, <1>10
  <2>2. CASE k = n + 1
    BY <1>7, <1>9, <2>1, <2>2
  <2>3. CASE k \in 1..n
    <3>1. k \in DOMAIN noted
      BY <1>4, <2>3
    <3>2. Describes(noted[k].spans[t], RunsIn(tracks[t].id, Fragments[k]))
      BY <1>2, <2>1, <3>1, Zenon DEF Described
    <3> QED BY <1>9, <2>1, <2>3, <3>2, Zenon
  <2>4. k = n + 1 \/ k \in 1..n
    BY <1>4, <1>9, <1>10
  <2> QED BY <2>2, <2>3, <2>4
<1> QED BY <1>9, <1>10, Zenon DEF Described, notes

(* What is noted of the fragments is left alone but by WriteFragment.      *)
LEMMA NotedSame ==
    ASSUME Inv, Next, ~WriteFragment
    PROVE  index'.fragments = index.fragments
<1>1. TypeOK /\ Step
  BY DEF Inv, Next
<1>2. index \in [start : Nat, held : Seq(FragmentBox), fragments : Seq(NotedType)]
  BY <1>1 DEF TypeOK
<1>3. CASE WriteHeader
  <2> DEFINE size == SizeOf(file')
  <2>1. index' = [index EXCEPT !.start = size] \/ index' = index
    BY <1>3 DEF WriteHeader
  <2> HIDE DEF size
  <2> QED BY <1>2, <2>1
<1>4. CASE FinishIndex
  BY <1>2, <1>4 DEF FinishIndex
<1>5. ASSUME ~WriteHeader, ~FinishIndex
      PROVE  index' = index
  <2>1. ASSUME NEW t \in 1..Len(Configs), NEW s \in Samples, WriteSample(t, s)
        PROVE  index' = index
    BY <2>1 DEF WriteSample
  <2> QED BY <1>1, <1>5, <2>1 DEF Step, AddTrack, AddTrackRefused, TakeSample, Flush,
                    HeaderFails, BeginFails, FragmentRefused, FragmentFails,
                    Close, RefuseClosed, Closing, FinishIndexFails, vars
<1> QED BY <1>3, <1>4, <1>5

(* A closed muxer stays closed, and Close goes on while it is not.         *)
LEMMA OpenStep ==
    ASSUME Inv, SpansInv, Next, ~complete
    PROVE  /\ ~complete' /\ (closed' => pc' = "index") => (closed => pc = "index")
           /\ pc' = "closing" => ~closed'
<1>1. Step /\ Control /\ (pc = "closing" => ~closed)
  BY DEF Next, Inv, SpansInv
<1>2. ASSUME NEW t \in 1..Len(Configs), NEW s \in Samples, WriteSample(t, s)
      PROVE  pc = "idle" /\ ~closed /\ pc' # "closing"
  BY <1>2 DEF WriteSample, FlushStart
<1>3. CASE AddTrack \/ AddTrackRefused \/ TakeSample \/ Flush
  BY <1>1, <1>3 DEF AddTrack, AddTrackRefused, MayAddTrack, TakeSample, Flush, FlushStart, Control
<1>4. CASE HeaderFails \/ BeginFails \/ FragmentRefused \/ FragmentFails \/ FinishIndexFails
  <2>1. pc' = "idle" /\ (closed' <=> call.op = "close")
    BY <1>4 DEF HeaderFails, BeginFails, FragmentRefused, FragmentFails, FinishIndexFails, Fails
  <2>2. closed => pc = "index"
    BY <1>1, <1>4 DEF HeaderFails, BeginFails, FragmentRefused, FragmentFails, FinishIndexFails,
                      Control
  <2> QED BY <2>1, <2>2
<1>5. CASE WriteHeader
  BY <1>1, <1>5 DEF WriteHeader, Control
<1>6. CASE WriteFragment
  BY <1>1, <1>6 DEF WriteFragment, Control
<1>7. CASE Close
  BY <1>1, <1>7 DEF Close
<1>8. CASE RefuseClosed
  BY <1>1, <1>8 DEF RefuseClosed, vars
<1>9. CASE Closing
  BY <1>1, <1>9 DEF Closing
<1>10. CASE FinishIndex
  BY <1>1, <1>10 DEF FinishIndex
<1> QED BY <1>1, <1>2, <1>3, <1>4, <1>5, <1>6, <1>7, <1>8, <1>9, <1>10 DEF Step

(* Every step keeps what is noted of the fragments true of them.           *)
LEMMA SpansStep ==
    ASSUME Inv, Inv', StartInv, HeldNoted, OrderInv, SpansInv, Next
    PROVE  SpansInv'
<1>1. Step /\ UNCHANGED setup
  BY DEF Next
<1>2. CASE complete
  BY <1>2, Finished DEF SpansInv, vars
<1>3. CASE ~complete /\ WriteFragment
  <2>1. PICK frag \in FragmentBox : frag.runs = Runs /\ Fragments' = Append(Fragments, frag)
    BY <1>1, <1>3, FragmentAdded
  <2> QED BY <1>1, <1>3, <2>1, SpansWrite DEF OrderInv
<1>4. CASE ~complete /\ ~WriteFragment /\ FinishIndexFails
  <2>1. closed' /\ pc' = "idle"
    <3>1. pc = "index" /\ call.op = "close"
      BY <1>4 DEF FinishIndexFails, Inv, Control
    <3> QED BY <1>4, <3>1 DEF FinishIndexFails, Fails
  <2> QED BY <2>1 DEF SpansInv
<1>5. CASE ~complete /\ ~WriteFragment /\ ~FinishIndexFails
  <2>1. Fragments' = Fragments /\ index'.fragments = index.fragments
    BY <1>5, FragmentsStep, NotedSame
  <2>2. /\ ~complete' /\ (closed' => pc' = "index") => (closed => pc = "index")
        /\ pc' = "closing" => ~closed'
    BY <1>5, OpenStep
  <2>3. SUFFICES ASSUME ~complete', Indexed', closed' => pc' = "index"
                 PROVE  Described(index.fragments, Fragments)'
    BY <2>2 DEF SpansInv
  <2>4. CASE AddTrack
    <3>1. sequence = 0
      BY <2>4 DEF AddTrack, MayAddTrack, Inv, Progress
    <3>2. Fragments = <<>>
      BY <3>1, NoneYet
    <3>3. Described(index.fragments, Fragments)
      BY <1>1, <1>5, <2>2, <2>3 DEF SpansInv, Indexed
    <3>4. Len(index.fragments) = 0 /\ index.fragments \in Seq(NotedType)
      BY <3>2, <3>3 DEF Described, Inv, TypeOK
    <3>5. index.fragments = <<>>
      BY <3>4, EmptySeq
    <3>6. SpansInv'
      BY <1>1, <1>5, <2>1, <2>2, <3>5, SpansSame
    <3> QED BY <2>3, <3>6 DEF SpansInv
  <2>5. CASE ~AddTrack
    <3>1. DOMAIN tracks' = DOMAIN tracks /\ \A t \in DOMAIN tracks : tracks'[t].id = tracks[t].id
      <4>1. CASE FragmentRefused \/ FragmentFails
        <5>1. tracks' = Emptied /\ traks' = traks
          BY <4>1 DEF FragmentRefused, FragmentFails
        <5> QED BY <5>1, EmptiedTracks
      <4>2. CASE ~FragmentRefused /\ ~FragmentFails
        BY <1>5, <2>5, <4>2, ReachedSame
      <4> QED BY <4>1, <4>2
    <3>2. SpansInv'
      BY <1>1, <1>5, <2>1, <2>2, <3>1, SpansSame
    <3> QED BY <2>3, <3>2 DEF SpansInv
  <2> QED BY <2>4, <2>5
<1> QED BY <1>2, <1>3, <1>4, <1>5

(***************************************************************************)
(* What the index says of time.                                            *)
(***************************************************************************)
(* Of finitely many numbers one is the smallest, and one the largest.      *)
LEMMA ExtremesExist ==
    ASSUME NEW n \in Nat, NEW K \in SUBSET (1..n), K # {}, NEW f, \A i \in K : f[i] \in Int
    PROVE  /\ \E i \in K : \A j \in K : f[i] <= f[j]
           /\ \E i \in K : \A j \in K : f[j] <= f[i]
<1>1. PICK c \in K : TRUE
  OBVIOUS
<1> DEFINE g == [i \in 1..n |-> IF i \in K THEN f[i] ELSE f[c]]
           back == [i \in 1..n |-> IF i \in K THEN i ELSE c]
<1>2. /\ \A i \in 1..n : g[i] \in Int /\ back[i] \in K /\ g[i] = f[back[i]]
      /\ \A i \in K : g[i] = f[i] /\ i \in 1..n
      /\ n > 0
  BY <1>1
<1> HIDE DEF g, back
<1>3. /\ \E i \in 1..n : \A j \in 1..n : g[i] <= g[j]
      /\ \E i \in 1..n : \A j \in 1..n : g[j] <= g[i]
  BY <1>2, SmallestExists
<1>4. \E i \in K : \A j \in K : f[i] <= f[j]
  <2>1. PICK i \in 1..n : \A j \in 1..n : g[i] <= g[j]
    BY <1>3
  <2>2. back[i] \in K /\ f[back[i]] = g[i]
    BY <1>2
  <2>3. \A j \in K : f[back[i]] <= f[j]
    BY <1>2, <2>1, <2>2
  <2> QED BY <2>2, <2>3
<1>5. \E i \in K : \A j \in K : f[j] <= f[i]
  <2>1. PICK i \in 1..n : \A j \in 1..n : g[j] <= g[i]
    BY <1>3
  <2>2. back[i] \in K /\ f[back[i]] = g[i]
    BY <1>2
  <2>3. \A j \in K : f[j] <= f[back[i]]
    BY <1>2, <2>1, <2>2
  <2> QED BY <2>2, <2>3
<1> QED BY <1>4, <1>5

(* When a fragment k the track t is in has been presented.                 *)
EndIn(t, k) == index.fragments[k].spans[t].end

(* What is noted of a track, as far as time goes.                          *)
Timed(t, n) ==
    /\ n \in Nat /\ DOMAIN index.fragments = 1..n
    /\ Presents(t) \in SUBSET (1..n)
    /\ \A k \in Presents(t) :
         Earliest(t, k) \in Int /\ EndIn(t, k) \in Int /\ Earliest(t, k) <= EndIn(t, k)

(* A track ends when everything in it has been presented.                  *)
LEMMA TrackEnds ==
    ASSUME NEW t, NEW n, Timed(t, n), Presents(t) # {}
    PROVE  /\ \E k \in Presents(t) : TrackEnd(t) = EndIn(t, k)
           /\ TrackEnd(t) \in Int
           /\ \A k \in Presents(t) : EndIn(t, k) <= TrackEnd(t)
<1> DEFINE K == Presents(t)
           ends == {EndIn(t, k) : k \in K}
           f == [k \in K |-> EndIn(t, k)]
<1>1. n \in Nat /\ K \in SUBSET (1..n) /\ K # {} /\ \A k \in K : EndIn(t, k) \in Int
  BY DEF Timed
<1>2. TrackEnd(t) = CHOOSE e \in ends : \A d \in ends : d <= e
  BY Zenon DEF TrackEnd, EndIn
<1>3. \A k \in K : f[k] = EndIn(t, k)
  OBVIOUS
<1> HIDE DEF K, f
<1>4. \E i \in K : \A j \in K : f[j] <= f[i]
  <2>1. \A i \in K : f[i] \in Int
    BY <1>1, <1>3
  <2> QED BY <1>1, <2>1, ExtremesExist, Zenon
<1>5. \E e \in ends : \A d \in ends : d <= e
  BY <1>3, <1>4
<1> DEFINE last == CHOOSE e \in ends : \A d \in ends : d <= e
<1>6. last \in ends /\ \A d \in ends : d <= last
  BY <1>5, Zenon
<1> HIDE DEF last
<1> QED BY <1>1, <1>2, <1>6, Zenon DEF K, last

(* When the first of the fragments from k on presents, or the track ends.  *)
Upcoming(t, k) == {Earliest(t, j) : j \in {i \in Presents(t) : i >= k}} \cup {TrackEnd(t)}
NextAt(t, k) == CHOOSE e \in Upcoming(t, k) : \A f \in Upcoming(t, k) : e <= f

(* There is one, since the track ends.                                     *)
LEMMA NextExists ==
    ASSUME NEW t, NEW n, Timed(t, n), Presents(t) # {}, NEW k
    PROVE  /\ NextAt(t, k) \in Upcoming(t, k) /\ NextAt(t, k) \in Int
           /\ \A f \in Upcoming(t, k) : f \in Int /\ NextAt(t, k) <= f
<1> DEFINE L == {i \in Presents(t) : i >= k}
           last == TrackEnd(t)
           K == L \cup {n + 1}
           f == [i \in K |-> IF i \in L THEN Earliest(t, i) ELSE last]
           up == Upcoming(t, k)
<1>1. n \in Nat /\ L \subseteq 1..n /\ \A i \in L : Earliest(t, i) \in Int
  BY DEF Timed
<1>2. last \in Int
  BY TrackEnds
<1>3. n + 1 \in Nat /\ K \in SUBSET (1..(n + 1)) /\ K # {} /\ n + 1 \notin L
  BY <1>1
<1>4. /\ \A i \in L : f[i] = Earliest(t, i)
      /\ f[n + 1] = last
      /\ \A i \in K : f[i] \in Int
  BY <1>1, <1>2, <1>3
<1>5. up = {Earliest(t, j) : j \in L} \cup {last}
  BY Zenon DEF Upcoming
<1> HIDE DEF L, last, up
<1>6. up = {f[i] : i \in K}
  BY <1>4, <1>5
<1> HIDE DEF K, f
<1>7. \E i \in K : \A j \in K : f[i] <= f[j]
  BY <1>3, <1>4, ExtremesExist
<1>8. \E e \in up : \A d \in up : e <= d
  BY <1>6, <1>7
<1> DEFINE first == CHOOSE e \in up : \A d \in up : e <= d
<1>9. first \in up /\ \A d \in up : first <= d
  BY <1>8, Zenon
<1>10. NextAt(t, k) = first
  BY Zenon DEF NextAt, up
<1> HIDE DEF first
<1>11. \A d \in up : d \in Int
  BY <1>4, <1>6
<1> QED BY <1>9, <1>10, <1>11, Zenon DEF up

(* The fragments a track is in present in order.                           *)
InOrder(t) == \A j, k \in Presents(t) : j < k => Earliest(t, j) <= Earliest(t, k)

(* Going from one fragment to the next, what is to come first changes only *)
(* by a fragment the track is in, and by what the reference to it lasts.   *)
LEMMA NextStep ==
    ASSUME NEW t, NEW n, Timed(t, n), Presents(t) # {}, InOrder(t), NEW k \in 1..n
    PROVE  /\ NextAt(t, k + 1) = NextAt(t, k) + ReferenceDuration(t, k)
           /\ ReferenceDuration(t, k) \in Int
           /\ k \in Presents(t) => NextAt(t, k) = Earliest(t, k)
<1> DEFINE K == Presents(t)
           here == NextAt(t, k)
           next == NextAt(t, k + 1)
           last == TrackEnd(t)
           own == Earliest(t, k)
<1>1. /\ n \in Nat /\ K \in SUBSET (1..n)
      /\ \A i \in K : Earliest(t, i) \in Int /\ EndIn(t, i) \in Int
                      /\ Earliest(t, i) <= EndIn(t, i)
  BY Zenon DEF Timed
<1>2. k \in Nat /\ k + 1 \in Nat
  BY <1>1
<1>3. last \in Int /\ \A i \in K : EndIn(t, i) <= last
  BY TrackEnds, Zenon
<1>4. /\ next \in Upcoming(t, k + 1) /\ next \in Int
      /\ \A f \in Upcoming(t, k + 1) : next <= f
  BY NextExists, Zenon
<1>5. /\ here \in Upcoming(t, k) /\ here \in Int
      /\ \A f \in Upcoming(t, k) : here <= f
  BY NextExists, Zenon
<1>6. NextStart(t, k) = next
  <2>1. \A i \in K : i > k <=> i >= k + 1
    BY <1>1, <1>2
  <2>2. {i \in K : i > k} = {i \in K : i >= k + 1}
    BY <2>1, Zenon
  <2> QED BY <2>2, Zenon DEF NextStart, NextAt, Upcoming
<1>7. CASE k \in K
  <2>1. own \in Int /\ own <= last
    BY <1>1, <1>3, <1>7
  <2>2. \A i \in K : i >= k => own <= Earliest(t, i)
    <3>1. ASSUME NEW i \in K, i >= k
          PROVE  own <= Earliest(t, i)
      <4>1. i = k \/ k < i
        BY <1>1, <1>2, <3>1
      <4> QED BY <1>7, <2>1, <4>1 DEF InOrder
    <3> QED BY <3>1
  <2>3. \A f \in Upcoming(t, k) : own <= f
    <3> HIDE DEF own, last, K
    <3> QED BY <2>1, <2>2 DEF Upcoming, last, K
  <2>4. own \in Upcoming(t, k)
    BY <1>2, <1>7 DEF Upcoming
  <2>5. here = own
    <3> HIDE DEF here, own
    <3>1. here <= own /\ own <= here
      BY <1>5, <2>3, <2>4
    <3> QED BY <1>5, <2>1, <3>1
  <2>6. own <= next
    <3>1. \A i \in K : i >= k + 1 => i >= k
      BY <1>1, <1>2
    <3>2. Upcoming(t, k + 1) \subseteq Upcoming(t, k)
      BY <3>1, Zenon DEF Upcoming
    <3> QED BY <1>4, <2>3, <3>2
  <2>7. ReferenceDuration(t, k) = IF own < next THEN next - own ELSE 0
    BY <1>6, <1>7 DEF ReferenceDuration
  <2> HIDE DEF own, next, here
  <2>8. next = here + ReferenceDuration(t, k) /\ ReferenceDuration(t, k) \in Int
    BY <1>4, <2>1, <2>5, <2>6, <2>7
  <2> QED BY <2>5, <2>8, Zenon DEF here, next, own
<1>8. CASE k \notin K
  <2>1. ReferenceDuration(t, k) = 0
    BY <1>8, Zenon DEF ReferenceDuration
  <2>2. \A i \in K : i >= k + 1 <=> i >= k
    BY <1>1, <1>2, <1>8
  <2>3. {i \in K : i >= k + 1} = {i \in K : i >= k}
    BY <2>2, Zenon
  <2>4. next = here
    BY <2>3, Zenon DEF NextAt, Upcoming
  <2> HIDE DEF next, here, K
  <2> QED BY <1>5, <1>8, <2>1, <2>4 DEF next, here, K
<1> QED BY <1>7, <1>8

(* Adding up what the references last, a client gets to what is to come.   *)
LEMMA IndexReaches ==
    ASSUME NEW t, NEW n, Timed(t, n), Presents(t) # {}, InOrder(t),
           NEW f, \A k \in 1..n : f[k] = ReferenceDuration(t, k)
    PROVE  \A k \in 0..n : NextAt(t, 1) + SumTo(f, k) = NextAt(t, k + 1)
<1> DEFINE S == {k \in Nat : k <= n => NextAt(t, 1) + SumTo(f, k) = NextAt(t, k + 1)}
<1>1. n \in Nat
  BY Zenon DEF Timed
<1>2. \A k : NextAt(t, k) \in Int
  BY NextExists, Zenon
<1>3. \A k \in 1..n : f[k] \in Int /\ NextAt(t, k + 1) = NextAt(t, k) + f[k]
  BY NextStep, Zenon
<1>4. 0 \in S
  BY <1>2, SumZero
<1>5. ASSUME NEW k \in Nat, k \in S
      PROVE  k + 1 \in S
  <2> SUFFICES ASSUME k + 1 <= n
               PROVE  NextAt(t, 1) + SumTo(f, k + 1) = NextAt(t, (k + 1) + 1)
    OBVIOUS
  <2>1. k + 1 \in 1..n /\ k <= n
    BY <1>1
  <2>2. NextAt(t, 1) + SumTo(f, k) = NextAt(t, k + 1)
    BY <1>5, <2>1
  <2>3. SumTo(f, k + 1) = SumTo(f, k) + f[k + 1]
    BY SumStep
  <2>4. NextAt(t, (k + 1) + 1) = NextAt(t, k + 1) + f[k + 1] /\ f[k + 1] \in Int
    BY <1>3, <2>1, Zenon
  <2>5. SumTo(f, k) \in Int
    <3>1. \A i \in 1..k : f[i] \in Int
      BY <1>1, <1>3, <2>1
    <3> QED BY <3>1, SumIsInt
  <2> DEFINE a == NextAt(t, 1)
             b == SumTo(f, k)
             c == f[k + 1]
  <2>6. a \in Int /\ b \in Int /\ c \in Int /\ a + b = NextAt(t, k + 1)
    BY <1>2, <2>2, <2>4, <2>5, Zenon
  <2> HIDE DEF a, b, c
  <2>7. a + (b + c) = (a + b) + c
    BY <2>6
  <2>8. SumTo(f, k + 1) = b + c /\ NextAt(t, (k + 1) + 1) = (a + b) + c
    BY <2>3, <2>4, <2>6, Zenon DEF b, c
  <2> QED BY <2>7, <2>8, Zenon DEF a
<1> HIDE DEF S
<1>6. \A k \in Nat : k \in S
  BY <1>4, <1>5, NatSetInduction
<1> QED BY <1>1, <1>6 DEF S

(* A track begins with the first fragment it is in, and ends with itself.  *)
LEMMA NextEnds ==
    ASSUME NEW t, NEW n, Timed(t, n), Presents(t) # {}, InOrder(t)
    PROVE  /\ NextAt(t, n + 1) = TrackEnd(t)
           /\ \E k \in Presents(t) : \A j \in Presents(t) : k <= j
           /\ \A k \in Presents(t) :
                (\A j \in Presents(t) : k <= j) => NextAt(t, 1) = Earliest(t, k)
<1> DEFINE K == Presents(t)
<1>1. n \in Nat /\ K \in SUBSET (1..n) /\ \A i \in K : i \in Int
  BY DEF Timed
<1>2. NextAt(t, n + 1) = TrackEnd(t)
  <2>1. {i \in K : i >= n + 1} = {}
    BY <1>1
  <2>2. Upcoming(t, n + 1) = {TrackEnd(t)}
    BY <2>1, Zenon DEF Upcoming
  <2>3. NextAt(t, n + 1) \in Upcoming(t, n + 1)
    BY NextExists, Zenon
  <2> QED BY <2>2, <2>3
<1>3. \E k \in K : \A j \in K : k <= j
  <2> DEFINE f == [i \in K |-> i]
  <2>1. \A i \in K : f[i] \in Int /\ f[i] = i
    BY <1>1
  <2> HIDE DEF f, K
  <2>2. \E i \in K : \A j \in K : f[i] <= f[j]
    BY <1>1, <2>1, ExtremesExist, Zenon DEF K
  <2> QED BY <2>1, <2>2
<1>4. ASSUME NEW k \in K, \A j \in K : k <= j
      PROVE  NextAt(t, 1) = Earliest(t, k)
  <2>1. \A i \in K : i >= k <=> i >= 1
    BY <1>1, <1>4
  <2>2. {i \in K : i >= k} = {i \in K : i >= 1}
    BY <2>1, Zenon
  <2>3. NextAt(t, 1) = NextAt(t, k)
    BY <2>2, Zenon DEF NextAt, Upcoming
  <2>4. k \in 1..n
    BY <1>1, <1>4
  <2> QED BY <1>4, <2>3, <2>4, NextStep, Zenon
<1> QED BY <1>2, <1>3, <1>4, Zenon

(* What the box of a track states of it, and that it is in the file.       *)
FirstPresent(t) == CHOOSE k \in Presents(t) : \A j \in Presents(t) : k <= j

(* What the boxes of the index state: the track, when the first fragment   *)
(* it is in presents, and a reference for every fragment.                  *)
LEMMA BoxesState ==
    ASSUME TypeOK
    PROVE  \A i \in DOMAIN Boxes :
             /\ IndexedTracks[i] \in DOMAIN tracks /\ Presents(IndexedTracks[i]) # {}
             /\ Boxes[i].id = tracks[IndexedTracks[i]].id
             /\ Boxes[i].ept = Earliest(IndexedTracks[i], FirstPresent(IndexedTracks[i]))
             /\ Boxes[i].refs = [k \in DOMAIN index.fragments |-> Reference(IndexedTracks[i], k)]
<1> DEFINE f == [t \in DOMAIN tracks |-> IF Presents(t) = {} THEN <<>> ELSE <<t>>]
           l == Len(tracks)
           T == {t \in DOMAIN tracks : Presents(t) # {}}
           with == IndexedTracks
           Made(i) == [box |-> "sidx", size |-> SidxSize, id |-> tracks[with[i]].id,
                       ept |-> Earliest(with[i], FirstPresent(with[i])),
                       firstOffset |-> SidxSize * (Len(with) - i),
                       refs |-> [k \in DOMAIN index.fragments |-> Reference(with[i], k)]]
<1>1. l \in Nat /\ DOMAIN tracks = 1..l
  BY TrackTypes
<1>2. ASSUME NEW t \in 1..l
      PROVE  f[t] \in Seq(T)
  <2>1. f[t] = IF Presents(t) = {} THEN <<>> ELSE <<t>>
    BY <1>1, Zenon
  <2>2. CASE Presents(t) = {}
    <3>1. f[t] = <<>>
      BY <2>1, <2>2, Zenon
    <3> QED BY <3>1, EmptySeq
  <2>3. CASE Presents(t) # {}
    <3>1. f[t] = <<t>> /\ t \in T
      BY <1>1, <2>1, <2>3, Zenon
    <3> HIDE DEF T, f
    <3> QED BY <3>1
  <2> QED BY <2>2, <2>3
<1>3. with = ConcatTo(f, l)
  BY Zenon DEF IndexedTracks
<1>4. with \in Seq(T)
  <2> HIDE DEF f, with, l, T
  <2> QED BY <1>1, <1>2, <1>3, ConcatIsSeq
<1>5. Boxes = [i \in DOMAIN with |-> Made(i)]
  BY Zenon DEF Boxes, IndexedTracks, FirstPresent
<1> HIDE DEF with
<1>6. \A i \in DOMAIN with : with[i] \in T
  <2> HIDE DEF T
  <2> QED BY <1>4, LenProperties, ElementOfSeq
<1>7. DOMAIN Boxes = DOMAIN with /\ \A i \in DOMAIN with : Boxes[i] = Made(i)
  <2> HIDE DEF Made
  <2> QED BY <1>5
<1>8. ASSUME NEW i \in DOMAIN with
      PROVE  /\ Made(i).id = tracks[with[i]].id
             /\ Made(i).ept = Earliest(with[i], FirstPresent(with[i]))
             /\ Made(i).refs = [k \in DOMAIN index.fragments |-> Reference(with[i], k)]
  <2> DEFINE a == SidxSize
             b == tracks[with[i]].id
             c == Earliest(with[i], FirstPresent(with[i]))
             d == SidxSize * (Len(with) - i)
             r == [k \in DOMAIN index.fragments |-> Reference(with[i], k)]
  <2>1. Made(i) = [box |-> "sidx", size |-> a, id |-> b, ept |-> c, firstOffset |-> d, refs |-> r]
    BY Zenon
  <2> HIDE DEF a, b, c, d, r, Made
  <2>2. Made(i).id = b /\ Made(i).ept = c /\ Made(i).refs = r
    BY <2>1
  <2> QED BY <2>2, Zenon DEF b, c, r
<1> HIDE DEF Made
<1>9. \A i \in DOMAIN with : with[i] \in DOMAIN tracks /\ Presents(with[i]) # {}
  BY <1>6
<1> QED BY <1>7, <1>8, <1>9, Zenon DEF with

(* A run presents at times.                                                *)
LEMMA RunTimes ==
    ASSUME NEW r \in RunType
    PROVE  RunStarts(r) \subseteq Int /\ RunEnds(r) \subseteq Int
<1> DEFINE s == r.samples
           d == Durations(r)
           n == Len(s)
<1>1. r.base \in Nat /\ s \in Seq(SampleType) /\ n \in Nat /\ DOMAIN s = 1..n
  <2>1. r.base \in Nat /\ s \in Seq(SampleType)
    BY DEF RunType
  <2> HIDE DEF s
  <2> QED BY <2>1, LenProperties
<1>2. \A i \in 1..n : s[i].dur \in Nat /\ s[i].offset \in Int /\ d[i] \in Nat
  <2>1. \A i \in 1..n : s[i] \in SampleType
    BY <1>1, ElementOfSeq
  <2>2. \A i \in 1..n : d[i] = s[i].dur
    BY <1>1, Zenon DEF Durations
  <2> HIDE DEF s, d
  <2> QED BY <2>1, <2>2 DEF SampleType
<1> DEFINE At(i) == Greater(r.base + SumTo(d, i - 1) + s[i].offset, 0)
<1>3. \A i \in 1..n : At(i) \in Int
  <2>1. ASSUME NEW i \in 1..n PROVE At(i) \in Int
    <3>1. i - 1 \in 0..n
      BY <1>1
    <3>2. SumTo(d, i - 1) \in Nat
      <4> HIDE DEF d, n
      <4> QED BY <1>1, <1>2, <3>1, SumGrows
    <3> DEFINE c == SumTo(d, i - 1)
               b == r.base
               o == s[i].offset
    <3>3. c \in Nat /\ b \in Nat /\ o \in Int
      BY <1>1, <1>2, <3>2
    <3> HIDE DEF c, b, o
    <3>4. Greater(b + c + o, 0) \in Int
      BY <3>3 DEF Greater
    <3> QED BY <3>4, Zenon DEF c, b, o
  <2> QED BY <2>1
<1>4. RunStarts(r) = {At(i) : i \in DOMAIN s}
  BY Zenon DEF RunStarts, Durations
<1>5. RunEnds(r) = {At(i) + s[i].dur : i \in DOMAIN s}
  BY Zenon DEF RunEnds, Durations
<1> HIDE DEF At, s, d, n
<1>6. RunStarts(r) \subseteq Int
  BY <1>1, <1>3, <1>4
<1>7. RunEnds(r) \subseteq Int
  BY <1>1, <1>2, <1>3, <1>5
<1> QED BY <1>6, <1>7

(* A number no other of a set is below is its first; none above, its last. *)
LEMMA FirstIs ==
    ASSUME NEW S, S \subseteq Int, NEW e \in S
    PROVE  /\ (\A f \in S : e <= f) => FirstOf(S) = e
           /\ (\A f \in S : f <= e) => LastOf(S) = e
<1>1. ASSUME \A f \in S : e <= f PROVE FirstOf(S) = e
  <2> DEFINE g == CHOOSE d \in S : \A f \in S : d <= f
  <2>1. g \in S /\ \A f \in S : g <= f
    BY <1>1, Zenon
  <2>2. FirstOf(S) = g
    BY Zenon DEF FirstOf
  <2> HIDE DEF g
  <2>3. g \in Int /\ e \in Int /\ g <= e /\ e <= g
    BY <1>1, <2>1
  <2> QED BY <2>2, <2>3
<1>2. ASSUME \A f \in S : f <= e PROVE LastOf(S) = e
  <2> DEFINE g == CHOOSE d \in S : \A f \in S : f <= d
  <2>1. g \in S /\ \A f \in S : f <= g
    BY <1>2, Zenon
  <2>2. LastOf(S) = g
    BY Zenon DEF LastOf
  <2> HIDE DEF g
  <2>3. g \in Int /\ e \in Int /\ g <= e /\ e <= g
    BY <1>2, <2>1
  <2> QED BY <2>2, <2>3
<1> QED BY <1>1, <1>2

(* What the fragments of a file tell of a track, and what is noted of it.  *)
Told(t, n) ==
    /\ Timed(t, n) /\ DOMAIN Fragments = 1..n
    /\ \A k \in 1..n :
         LET own == RunsIn(tracks[t].id, Fragments[k])
         IN  /\ Describes(index.fragments[k].spans[t], own)
             /\ k \in Presents(t) <=> own # <<>>
             /\ k \in Presents(t) =>
                  /\ RunStarts(own[1]) \subseteq Int /\ RunEnds(own[1]) \subseteq Int
                  /\ FirstOf(RunStarts(own[1])) = Earliest(t, k)

(* What the index says of a track, from what was noted of its fragments.   *)
LEMMA TrackTold ==
    ASSUME TypeOK, Described(index.fragments, Fragments), Fragments \in Seq(FragmentBox),
           NEW t \in DOMAIN tracks
    PROVE  Told(t, Len(index.fragments))
<1> DEFINE noted == index.fragments
           n == Len(noted)
           own(k) == RunsIn(tracks[t].id, Fragments[k])
<1>1. noted \in Seq(NotedType) /\ n \in Nat /\ DOMAIN noted = 1..n
  <2>1. noted \in Seq(NotedType)
    BY DEF TypeOK
  <2> HIDE DEF noted
  <2> QED BY <2>1, LenProperties
<1>2. DOMAIN Fragments = 1..n /\ \A k \in 1..n : Fragments[k] \in FragmentBox
  <2>1. Len(Fragments) = n
    BY DEF Described
  <2>2. DOMAIN Fragments = 1..Len(Fragments)
    BY LenProperties
  <2> HIDE DEF n
  <2> QED BY <2>1, <2>2, ElementOfSeq
<1>3. \A k \in 1..n : Describes(noted[k].spans[t], own(k))
  BY <1>1, Zenon DEF Described
<1>4. \A k \in 1..n : noted[k].spans[t].present <=> own(k) # <<>>
  <2>1. ~NoSpan.present
    BY DEF NoSpan
  <2> QED BY <1>3, <2>1, Zenon DEF Describes
<1>5. Presents(t) = {k \in 1..n : noted[k].spans[t].present}
  BY <1>1, Zenon DEF Presents
<1> HIDE DEF noted, n
<1>6. \A k \in Presents(t) : k \in 1..n /\ own(k) # <<>>
  BY <1>4, <1>5
<1>7. Presents(t) \in SUBSET (1..n)
  BY <1>5
<1>8. ASSUME NEW k \in Presents(t)
      PROVE  /\ Earliest(t, k) \in Int /\ EndIn(t, k) \in Int /\ Earliest(t, k) <= EndIn(t, k)
             /\ RunStarts(own(k)[1]) \subseteq Int /\ RunEnds(own(k)[1]) \subseteq Int
             /\ FirstOf(RunStarts(own(k)[1])) = Earliest(t, k)
  <2> DEFINE span == noted[k].spans[t]
             r == own(k)[1]
  <2>1. span.earliest = Earliest(t, k) /\ span.end = EndIn(t, k)
    BY Zenon DEF Earliest, EndIn, noted
  <2>2. /\ span.earliest \in RunStarts(r) /\ \A e \in RunStarts(r) : span.earliest <= e
        /\ span.earliest \in Int /\ span.end \in Int /\ span.earliest <= span.end
    BY <1>3, <1>6, Zenon DEF Describes
  <2>3. r \in RunType
    <3>1. own(k) \in Seq(RunType)
      <4>1. Fragments[k] \in FragmentBox
        BY <1>2, <1>6
      <4> QED BY <4>1, RunsInGathered
    <3> DEFINE runs == own(k)
    <3>2. runs \in Seq(RunType) /\ runs # <<>>
      BY <1>6, <3>1
    <3> HIDE DEF runs
    <3>3. runs[1] \in RunType
      BY <3>2
    <3> QED BY <3>3, Zenon DEF runs
  <2> HIDE DEF r, span
  <2>4. RunStarts(r) \subseteq Int /\ RunEnds(r) \subseteq Int
    BY <2>3, RunTimes
  <2>5. FirstOf(RunStarts(r)) = span.earliest
    BY <2>2, <2>4, FirstIs
  <2> QED BY <2>1, <2>2, <2>4, <2>5, Zenon DEF r
<1>9. \A k \in 1..n : k \in Presents(t) <=> own(k) # <<>>
  BY <1>4, <1>5
<1>10. Timed(t, n)
  BY <1>1, <1>7, <1>8, Zenon DEF Timed, noted
<1> QED BY <1>2, <1>3, <1>8, <1>9, <1>10, Zenon DEF Told, n, noted

(* The box of a track: what it states is of that track.                    *)
BoxOf(b, t, n) ==
    /\ b.id = tracks[t].id /\ b.ept = Earliest(t, FirstPresent(t))
    /\ b.refs = [k \in 1..n |-> Reference(t, k)]

(* Such a box tells the time of the fragments.                             *)
LEMMA BoxTellsTime ==
    ASSUME NEW t, NEW n, Told(t, n), Presents(t) # {}, NEW b, BoxOf(b, t, n)
    PROVE  TellsTime(b, Fragments)
<1> DEFINE RunIn(k) == RunsIn(b.id, Fragments[k])
           holding == {k \in DOMAIN Fragments : RunIn(k) # <<>>}
           start == [k \in holding |-> FirstOf(RunStarts(RunIn(k)[1]))]
           ends == UNION {RunEnds(RunIn(k)[1]) : k \in holding}
           f == [i \in DOMAIN b.refs |-> b.refs[i].dur]
           Gets(k) == b.ept + SumTo(f, k - 1)
<1>1. /\ Timed(t, n) /\ n \in Nat /\ DOMAIN Fragments = 1..n
      /\ Presents(t) \in SUBSET (1..n) /\ b.id = tracks[t].id
  BY Zenon DEF Told, Timed, BoxOf
<1>2. holding = Presents(t)
  <2>1. \A k \in 1..n : k \in Presents(t) <=> RunIn(k) # <<>>
    BY <1>1, Zenon DEF Told
  <2> HIDE DEF RunIn
  <2> QED BY <1>1, <2>1
<1>3. \A k \in holding : start[k] = Earliest(t, k)
  BY <1>1, <1>2, Zenon DEF Told
<1>4. (\A k, l \in holding : k < l => start[k] <= start[l]) => InOrder(t)
  BY <1>2, <1>3, Zenon DEF InOrder
<1>5. /\ DOMAIN b.refs = 1..n /\ Len(b.refs) = n
      /\ \A k \in 1..n : b.refs[k] = Reference(t, k)
  <2> DEFINE r == [k \in 1..n |-> Reference(t, k)]
             R == {Reference(t, k) : k \in 1..n}
  <2>1. r \in [1..n -> R] /\ b.refs = r /\ \A k \in 1..n : r[k] = Reference(t, k)
    BY Zenon DEF BoxOf
  <2> HIDE DEF r, R
  <2>2. Len(r) = n /\ DOMAIN r = 1..n
    BY <1>1, <2>1, FunctionIsSeq
  <2> QED BY <2>1, <2>2
<1>6. \A k \in 1..n : f[k] = ReferenceDuration(t, k)
  <2>1. \A k : Reference(t, k).dur = ReferenceDuration(t, k)
    BY DEF Reference
  <2> QED BY <1>5, <2>1, Zenon
<1> HIDE DEF holding, start, f, RunIn
<1>7. ASSUME InOrder(t)
      PROVE  /\ \A k \in holding : Gets(k) = start[k]
             /\ Gets(n + 1) = LastOf(ends)
  <2>1. /\ NextAt(t, n + 1) = TrackEnd(t)
        /\ \E k \in Presents(t) : \A j \in Presents(t) : k <= j
        /\ \A k \in Presents(t) :
             (\A j \in Presents(t) : k <= j) => NextAt(t, 1) = Earliest(t, k)
    BY <1>1, <1>7, NextEnds, Zenon
  <2>2. b.ept = NextAt(t, 1)
    <3>1. FirstPresent(t) \in Presents(t) /\ \A j \in Presents(t) : FirstPresent(t) <= j
      BY <2>1, Zenon DEF FirstPresent
    <3> QED BY <2>1, <3>1, Zenon DEF BoxOf
  <2>3. \A k \in 0..n : NextAt(t, 1) + SumTo(f, k) = NextAt(t, k + 1)
    BY <1>1, <1>6, <1>7, IndexReaches, Zenon
  <2>4. ASSUME NEW k \in 1..(n + 1)
        PROVE  Gets(k) = NextAt(t, k)
    <3>1. k - 1 \in 0..n /\ (k - 1) + 1 = k
      BY <1>1
    <3>2. NextAt(t, 1) + SumTo(f, k - 1) = NextAt(t, (k - 1) + 1)
      BY <2>3, <3>1, Zenon
    <3> QED BY <2>2, <3>1, <3>2, Zenon
  <2>5. \A k \in holding : Gets(k) = start[k]
    <3>1. ASSUME NEW k \in holding PROVE Gets(k) = start[k]
      <4>1. k \in 1..n /\ k \in Presents(t) /\ k \in 1..(n + 1)
        BY <1>1, <1>2
      <4>2. NextAt(t, k) = Earliest(t, k)
        BY <1>1, <1>7, <4>1, NextStep, Zenon
      <4> QED BY <1>3, <2>4, <4>1, <4>2, Zenon
    <3> QED BY <3>1
  <2>6. LastOf(ends) = TrackEnd(t)
    <3>1. \A k \in holding : k \in Presents(t) /\ k \in 1..n /\ RunIn(k) = RunsIn(tracks[t].id, Fragments[k])
      BY <1>1, <1>2 DEF RunIn
    <3>2. \A k \in holding : /\ RunEnds(RunIn(k)[1]) \subseteq Int
                             /\ EndIn(t, k) \in RunEnds(RunIn(k)[1])
                             /\ \A e \in RunEnds(RunIn(k)[1]) : e <= EndIn(t, k)
      BY <3>1, Zenon DEF Told, Describes, EndIn
    <3>3. /\ \E k \in Presents(t) : TrackEnd(t) = EndIn(t, k)
          /\ TrackEnd(t) \in Int
          /\ \A k \in Presents(t) : EndIn(t, k) <= TrackEnd(t) /\ EndIn(t, k) \in Int
      BY <1>1, TrackEnds, Zenon DEF Timed
    <3>4. ends \subseteq Int
      BY <3>2, Zenon
    <3>5. TrackEnd(t) \in ends
      BY <1>2, <3>2, <3>3, Zenon
    <3>6. \A e \in ends : e <= TrackEnd(t)
      <4>1. ASSUME NEW e \in ends PROVE e <= TrackEnd(t)
        <5>1. PICK k \in holding : e \in RunEnds(RunIn(k)[1])
          BY Zenon
        <5>2. e <= EndIn(t, k) /\ e \in Int
          BY <3>2, <5>1, Zenon
        <5>3. EndIn(t, k) <= TrackEnd(t) /\ EndIn(t, k) \in Int /\ TrackEnd(t) \in Int
          BY <1>2, <3>3, Zenon
        <5> QED BY <5>2, <5>3
      <4> QED BY <4>1
    <3> HIDE DEF ends
    <3> QED BY <3>4, <3>5, <3>6, FirstIs, Zenon
  <2>7. n + 1 \in 1..(n + 1)
    BY <1>1
  <2> QED BY <2>1, <2>4, <2>5, <2>6, <2>7, Zenon
<1>8. Len(b.refs) + 1 = n + 1
  BY <1>5
<1> QED BY <1>4, <1>7, <1>8, Zenon DEF TellsTime, holding, start, f, RunIn

(* And where decoding may start.                                           *)
LEMMA BoxTellsSync ==
    ASSUME NEW t, NEW n, Told(t, n), NEW b, BoxOf(b, t, n)
    PROVE  TellsSync(b, Fragments)
<1>1. b.id = tracks[t].id /\ b.refs = [k \in 1..n |-> Reference(t, k)]
  BY Zenon DEF BoxOf
<1>2. DOMAIN b.refs = 1..n /\ \A k \in 1..n : b.refs[k] = Reference(t, k)
  BY <1>1, Zenon
<1> SUFFICES ASSUME NEW k \in 1..n
             PROVE  LET own == RunsIn(b.id, Fragments[k])
                        ref == b.refs[k]
                    IN  /\ ref.sap = (own # <<>> /\ own[1].samples[1].sync)
                        /\ ref.sapType = 1 =>
                             /\ ref.sap
                             /\ \A s \in RunStarts(own[1]) :
                                  Greater(own[1].base + own[1].samples[1].offset, 0) <= s
  BY <1>2, Zenon DEF TellsSync
<1> DEFINE own == RunsIn(b.id, Fragments[k])
           span == index.fragments[k].spans[t]
           ref == b.refs[k]
<1>3. ref.sap = span.sap /\ ref.sapType = span.sapType
  <2>1. ref = Reference(t, k)
    BY <1>2
  <2>2. Reference(t, k).sap = span.sap /\ Reference(t, k).sapType = span.sapType
    BY DEF Reference
  <2> QED BY <2>1, <2>2, Zenon
<1>4. Describes(span, own) /\ (k \in Presents(t) <=> own # <<>>)
  BY <1>1, Zenon DEF Told
<1> HIDE DEF own, span, ref
<1>5. CASE own = <<>>
  <2>1. span.sap = FALSE /\ span.sapType = 0
    BY <1>4, <1>5 DEF Describes, NoSpan
  <2>2. ref.sapType # 1 /\ ref.sap = FALSE
    BY <1>3, <2>1
  <2> QED BY <1>5, <2>2, Zenon DEF own, ref
<1>6. CASE own # <<>>
  <2> DEFINE first == Greater(own[1].base + own[1].samples[1].offset, 0)
  <2>1. /\ span.sap = own[1].samples[1].sync /\ span.sap \in BOOLEAN
        /\ span.sapType = SapType(span.sap, first, span.earliest)
        /\ \A e \in RunStarts(own[1]) : span.earliest <= e
    BY <1>4, <1>6, Zenon DEF Describes
  <2>2. span.sapType = 1 => span.sap /\ first = span.earliest
    <3> HIDE DEF first
    <3> QED BY <2>1 DEF SapType
  <2>3. ref.sapType = 1 => ref.sap /\ \A s \in RunStarts(own[1]) : first <= s
    BY <1>3, <2>1, <2>2, Zenon
  <2>4. ref.sap = (own # <<>> /\ own[1].samples[1].sync)
    <3> DEFINE sync == own[1].samples[1].sync
    <3>1. sync \in BOOLEAN /\ ref.sap = sync
      BY <1>3, <2>1, Zenon
    <3> HIDE DEF sync
    <3>2. sync = (own # <<>> /\ sync)
      BY <1>6, <3>1
    <3> QED BY <3>1, <3>2, Zenon DEF sync
  <2> QED BY <2>3, <2>4, Zenon DEF own, ref
<1> QED BY <1>5, <1>6

(* The index put in the file describes the fragments behind it.            *)
LEMMA FinishTells ==
    ASSUME Inv, StartInv, OrderInv, SpansInv, FinishIndex, UNCHANGED setup
    PROVE  IndexDescribesFragments'
<1> DEFINE n == Len(index.fragments)
           at == InsertAt
           head == SubSeq(file, 1, at)
           tail == SubSeq(file, at + 1, Len(file))
           held == index.held
           all == Then(Then(Then(head, Boxes), tail), held)
<1>1. /\ TypeOK /\ ~complete /\ pc = "index" /\ Indexed
      /\ file \in Seq(Box) /\ held \in Seq(Box)
  <2>1. TypeOK /\ ~complete /\ pc = "index" /\ Indexed
    BY DEF Inv, FinishIndex, Control
  <2> QED BY <2>1, WrittenOpen DEF WhileOpen
<1>2. Described(index.fragments, Fragments) /\ Fragments \in Seq(FragmentBox)
  BY <1>1 DEF SpansInv, OrderInv
<1>3. Fragments' = Fragments /\ complete' = TRUE /\ file' = all
  <2>1. Fragments' = Fragments
    BY FragmentsFinished
  <2> QED BY <2>1, Zenon DEF FinishIndex, Then
<1>4. Of(file', "fragment") = Fragments
  BY <1>3, Zenon DEF Fragments, Written
<1>5. index.fragments \in Seq(NotedType) /\ DOMAIN index.fragments = 1..n
  <2>1. index.fragments \in Seq(NotedType)
    BY <1>1 DEF TypeOK
  <2> QED BY <2>1, LenProperties
<1>6. ASSUME NEW i \in DOMAIN Boxes
      PROVE  TellsTime(Boxes[i], Fragments) /\ TellsSync(Boxes[i], Fragments)
  <2> DEFINE t == IndexedTracks[i]
             b == Boxes[i]
  <2>1. /\ t \in DOMAIN tracks /\ Presents(t) # {} /\ b.id = tracks[t].id
        /\ b.ept = Earliest(t, FirstPresent(t))
        /\ b.refs = [k \in DOMAIN index.fragments |-> Reference(t, k)]
    BY <1>1, <1>6, BoxesState, Zenon
  <2>2. BoxOf(b, t, n)
    BY <1>5, <2>1, Zenon DEF BoxOf
  <2>3. Told(t, n)
    BY <1>1, <1>2, <2>1, TrackTold
  <2> HIDE DEF t, b, n
  <2>4. TellsTime(b, Fragments) /\ TellsSync(b, Fragments)
    BY <2>1, <2>2, <2>3, BoxTellsTime, BoxTellsSync, Zenon
  <2> QED BY <2>4, Zenon DEF b
<1>7. ASSUME NEW j \in DOMAIN all, all[j].box = "sidx"
      PROVE  \E i \in DOMAIN Boxes : all[j] = Boxes[i]
  <2>1. at \in 0..Len(file)
    BY <1>1, PlaceType DEF StartInv
  <2> HIDE DEF at
  <2>2. head \in Seq(Box) /\ tail \in Seq(Box)
    BY <1>1, <2>1, CutParts
  <2>3. Boxes \in Seq(AnyBox)
    BY <1>1, IndexBoxes
  <2>4. Box \subseteq AnyBox
    BY Zenon DEF AnyBox
  <2> HIDE DEF head, tail, held
  <2>5. head \in Seq(AnyBox) /\ tail \in Seq(AnyBox) /\ held \in Seq(AnyBox)
    BY <1>1, <2>2, <2>4, SeqMonotonic
  <2>6. Then(head, Boxes) \in Seq(AnyBox)
    BY <2>3, <2>5, ThenProperties
  <2>7. Then(Then(head, Boxes), tail) \in Seq(AnyBox)
    BY <2>5, <2>6, ThenProperties
  <2>8. all \in Seq(AnyBox)
    BY <2>5, <2>7, ThenProperties
  <2> HIDE DEF all
  <2>9. all[j] \in AnyBox
    BY <1>7, <2>8, LenProperties, ElementOfSeq
  <2>10. all[j] \notin Box
    BY <1>7, BoxKinds
  <2> QED BY <2>9, <2>10, Zenon DEF AnyBox
<1> HIDE DEF all, n
<1>8. ASSUME NEW j \in DOMAIN file', file'[j].box = "sidx"
      PROVE  TellsTime(file'[j], Of(file', "fragment")) /\ TellsSync(file'[j], Of(file', "fragment"))
  <2>1. PICK i \in DOMAIN Boxes : file'[j] = Boxes[i]
    BY <1>3, <1>7, <1>8, Zenon
  <2> QED BY <1>4, <1>6, <2>1, Zenon
<1> QED BY <1>8, Zenon DEF IndexDescribesFragments

(* Until Close has put the index in, the file holds none.                  *)
LEMMA FileOpen ==
    ASSUME Inv, Inv', Next, ~complete, ~FinishIndex
    PROVE  file' \in Seq(Box)
<1>1. CASE ~complete'
  BY <1>1 DEF Inv, TypeOK
<1>2. CASE complete'
  <2>1. Closing
    BY <1>2, CompletedBy
  <2> QED BY <2>1 DEF Closing, Inv, TypeOK
<1> QED BY <1>1, <1>2

(* What the index notes, and what it states, is so.                        *)
TellsInv == SpansInv /\ IndexDescribesFragments

(* While the muxer is open its file holds no index.                        *)
LEMMA NothingToTell ==
    ASSUME file \in Seq(Box)
    PROVE  IndexDescribesFragments
<1>1. \A j \in DOMAIN file : file[j].box # "sidx"
  BY BoxKinds, LenProperties, ElementOfSeq
<1> QED BY <1>1 DEF IndexDescribesFragments

(* Nor does it after a step that leaves only such boxes.                   *)
LEMMA NothingToTellNext ==
    ASSUME file' \in Seq(Box)
    PROVE  IndexDescribesFragments'
<1>1. \A j \in DOMAIN file' : file'[j].box # "sidx"
  BY BoxKinds, LenProperties, ElementOfSeq
<1> QED BY <1>1 DEF IndexDescribesFragments

(* Every step keeps what the index says true: it is noted fragment by      *)
(* fragment and put in the file once, at Close.                            *)
LEMMA TellsStep ==
    ASSUME Inv, Inv', StartInv, HeldNoted, OrderInv, TellsInv, Next
    PROVE  TellsInv'
<1>1. SpansInv'
  BY SpansStep DEF TellsInv
<1>2. IndexDescribesFragments'
  <2>1. CASE complete
    <3>1. file' = file
      BY <2>1, Finished DEF vars
    <3> QED BY <3>1 DEF TellsInv, IndexDescribesFragments
  <2>2. CASE ~complete /\ FinishIndex
    BY <2>2, FinishTells DEF TellsInv, Next
  <2>3. CASE ~complete /\ ~FinishIndex
    <3>1. file' \in Seq(Box)
      BY <2>3, FileOpen
    <3> QED BY <3>1, NothingToTellNext
  <2> QED BY <2>1, <2>2, <2>3
<1> QED BY <1>1, <1>2 DEF TellsInv

(* A new muxer has noted nothing.                                          *)
LEMMA TellsInit == Init => TellsInv
<1> SUFFICES ASSUME Init PROVE TellsInv
  OBVIOUS
<1>1. file = <<>> /\ index.fragments = <<>> /\ Fragments = <<>> /\ pc = "idle"
  BY NewIsEmpty DEF Init
<1>2. IndexDescribesFragments
  BY <1>1, EmptySeq, NothingToTell
<1>3. Described(index.fragments, Fragments)
  BY <1>1 DEF Described
<1> QED BY <1>1, <1>2, <1>3 DEF TellsInv, SpansInv

(* A muxer that does nothing keeps it.                                     *)
LEMMA TellsStutter ==
    ASSUME TellsInv, UNCHANGED vars
    PROVE  TellsInv'
BY DEF TellsInv, SpansInv, IndexDescribesFragments, Described, Fragments, Written, Indexed, vars

(* The states of the muxer, what its index has noted of the fragments, and *)
(* what the finished file says of them.                                    *)
THEOREM IndexTold == Spec => [](Inv /\ StartInv /\ HeldNoted /\ OrderInv /\ TellsInv)
<1>1. Init => TellsInv
  BY TellsInit
<1>2. (Inv /\ StartInv /\ HeldNoted /\ OrderInv) /\ TellsInv /\ [Next]_vars
      /\ (Inv' /\ StartInv' /\ HeldNoted' /\ OrderInv')
      => TellsInv'
  BY TellsStep, TellsStutter
<1>3. Spec => [](Inv /\ StartInv /\ HeldNoted /\ OrderInv)
  BY FragmentOrder
<1> QED BY <1>1, <1>2, <1>3, PTL DEF Spec

(* What the index of a finished file says of time and of sync samples is   *)
(* so, whichever writes and fragments were refused before it: of a track   *)
(* whose fragments present in order, the durations of the references lead  *)
(* from the start of one fragment to the next and to the end of the track, *)
(* and a reference that promises a sync sample leads to one.               *)
THEOREM IndexTellsOfFragments == Spec => []IndexDescribesFragments
BY IndexTold, PTL DEF TellsInv

(***************************************************************************)
(* The edit lists of the initialisation segment.                           *)
(***************************************************************************)
(* The initialisation segments of a sequence of boxes.                     *)
InitsIn(boxes) == Of(boxes, "init")
InitKind(X) == [b \in X |-> IF b.box = "init" THEN <<b>> ELSE <<>>]

(* They are gathered from it.                                              *)
LEMMA InitsGathered ==
    ASSUME NEW X, NEW boxes \in Seq(X)
    PROVE  InitsIn(boxes) = Gathered(InitKind(X), boxes) /\ InitKind(X) \in Makers(X, X)
<1> DEFINE n == Len(boxes)
           f == [j \in DOMAIN boxes |-> IF boxes[j].box = "init" THEN <<boxes[j]>> ELSE <<>>]
           g == [j \in DOMAIN boxes |-> InitKind(X)[boxes[j]]]
<1>1. n \in Nat /\ DOMAIN boxes = 1..n /\ \A j \in 1..n : boxes[j] \in X
  BY LenProperties, ElementOfSeq
<1>2. InitsIn(boxes) = ConcatTo(f, n) /\ Gathered(InitKind(X), boxes) = ConcatTo(g, n)
  BY Zenon DEF InitsIn, Of, Gathered
<1>3. ASSUME NEW j \in 1..n
      PROVE  f[j] = g[j]
  <2>1. f[j] = IF boxes[j].box = "init" THEN <<boxes[j]>> ELSE <<>>
    BY <1>1, Zenon
  <2>2. g[j] = InitKind(X)[boxes[j]]
    BY <1>1, Zenon
  <2>3. InitKind(X)[boxes[j]] = IF boxes[j].box = "init" THEN <<boxes[j]>> ELSE <<>>
    BY <1>1, Zenon DEF InitKind
  <2> QED BY <2>1, <2>2, <2>3, Zenon
<1> HIDE DEF f, g, n
<1>4. ConcatTo(f, n) = ConcatTo(g, n)
  BY <1>1, <1>3, ConcatSame
<1>5. InitKind(X) \in Makers(X, X)
  <2>1. ASSUME NEW b \in X
        PROVE  (IF b.box = "init" THEN <<b>> ELSE <<>>) \in Seq(X)
    <3>1. <<b>> \in Seq(X) /\ <<>> \in Seq(X)
      BY EmptySeq
    <3> QED BY <3>1, Zenon
  <2> QED BY <2>1, Zenon DEF InitKind, Makers
<1> QED BY <1>2, <1>4, <1>5, Zenon

(* One box more is one initialisation segment more, or none.               *)
LEMMA InitsAppend ==
    ASSUME NEW X, NEW s \in Seq(X), NEW b \in X
    PROVE  InitsIn(Append(s, b)) = IF b.box = "init" THEN Append(InitsIn(s), b) ELSE InitsIn(s)
<1>1. Append(s, b) \in Seq(X)
  BY AppendProperties
<1>2. /\ InitsIn(s) = Gathered(InitKind(X), s)
      /\ InitsIn(Append(s, b)) = Gathered(InitKind(X), Append(s, b))
      /\ InitKind(X) \in Makers(X, X)
  BY <1>1, InitsGathered
<1>3. Gathered(InitKind(X), Append(s, b)) = Then(Gathered(InitKind(X), s), InitKind(X)[b])
  BY <1>2, GatheredAppend
<1>4. Gathered(InitKind(X), s) \in Seq(X)
  BY <1>2, GatheredType
<1>5. InitKind(X)[b] = IF b.box = "init" THEN <<b>> ELSE <<>>
  BY Zenon DEF InitKind
<1> DEFINE a == InitsIn(s)
<1>6. a \in Seq(X)
  BY <1>2, <1>4
<1> HIDE DEF a
<1>7. Then(a, <<b>>) = Append(a, b) /\ Then(a, <<>>) = a
  BY <1>6, ThenOne, ThenProperties
<1> QED BY <1>2, <1>3, <1>5, <1>7, Zenon DEF a

(* The index put in the file leaves them as they are.                      *)
LEMMA InitsFinished ==
    ASSUME Inv, StartInv, FinishIndex
    PROVE  InitsIn(file') = InitsIn(file)
<1> DEFINE n == InsertAt
           head == SubSeq(file, 1, n)
           tail == SubSeq(file, n + 1, Len(file))
           held == index.held
           X == AnyBox
           G == InitKind(X)
<1>1. pc = "index" /\ file' = Then(Then(Then(head, Boxes), tail), held)
  BY Zenon DEF FinishIndex, Then
<1>2. ~complete /\ TypeOK
  BY <1>1 DEF Inv, Control
<1>3. file \in Seq(Box) /\ held \in Seq(FragmentBox)
  BY <1>2 DEF TypeOK
<1>4. n \in 0..Len(file)
  BY <1>2, <1>3, PlaceType DEF StartInv
<1> HIDE DEF n
<1>5. head \in Seq(Box) /\ tail \in Seq(Box) /\ Then(head, tail) = file
  BY <1>3, <1>4, CutParts
<1>6. Boxes \in Seq(X) /\ Box \subseteq X /\ FragmentBox \subseteq X
  <2>1. Boxes \in Seq(AnyBox)
    BY <1>2, IndexBoxes
  <2> QED BY <2>1 DEF AnyBox, Box
<1> HIDE DEF head, tail, held, X
<1>7. head \in Seq(X) /\ tail \in Seq(X) /\ held \in Seq(X) /\ file \in Seq(X)
  BY <1>3, <1>5, <1>6, SeqMonotonic
<1> DEFINE a == Then(head, Boxes)
           b == Then(a, tail)
           c == Then(b, held)
<1>8. a \in Seq(X)
  BY <1>6, <1>7, ThenProperties
<1> HIDE DEF a
<1>9. b \in Seq(X)
  BY <1>7, <1>8, ThenProperties
<1> HIDE DEF b
<1>10. c \in Seq(X)
  BY <1>7, <1>9, ThenProperties
<1>11. G \in Makers(X, X)
  BY <1>7, InitsGathered
<1>12. Gathered(G, Boxes) = <<>>
  <2>1. ASSUME NEW i \in 1..Len(Boxes) PROVE G[Boxes[i]] = <<>>
    <3>1. Boxes[i] \in X
      BY <1>6, ElementOfSeq
    <3>2. Boxes[i].box = "sidx"
      <4>1. i \in DOMAIN Boxes
        BY <1>6, LenProperties
      <4> QED BY <1>2, <4>1, BoxesAre
    <3> QED BY <3>1, <3>2, Zenon DEF InitKind
  <2> HIDE DEF G
  <2> QED BY <1>6, <2>1, GatheredNone
<1>13. Gathered(G, held) = <<>>
  <2>1. ASSUME NEW i \in 1..Len(held) PROVE G[held[i]] = <<>>
    <3>1. held[i] \in FragmentBox /\ held[i] \in X
      BY <1>3, <1>6, ElementOfSeq
    <3>2. held[i].box = "fragment"
      BY <3>1 DEF FragmentBox
    <3> QED BY <3>1, <3>2, Zenon DEF InitKind
  <2> HIDE DEF G
  <2> QED BY <1>7, <2>1, GatheredNone
<1> HIDE DEF G
<1>14. Gathered(G, a) = Gathered(G, head)
  <2>1. Gathered(G, a) = Then(Gathered(G, head), Gathered(G, Boxes))
    BY <1>6, <1>7, <1>11, GatheredThen DEF a
  <2>2. Gathered(G, head) \in Seq(X)
    BY <1>7, <1>11, GatheredType
  <2>3. Then(Gathered(G, head), <<>>) = Gathered(G, head)
    BY <2>2, ThenProperties
  <2> QED BY <1>12, <2>1, <2>3, Zenon
<1>15. Gathered(G, b) = Gathered(G, file)
  <2>1. Gathered(G, b) = Then(Gathered(G, a), Gathered(G, tail))
    BY <1>7, <1>8, <1>11, GatheredThen DEF b
  <2>2. Gathered(G, Then(head, tail)) = Then(Gathered(G, head), Gathered(G, tail))
    BY <1>7, <1>11, GatheredThen
  <2> QED BY <1>5, <1>14, <2>1, <2>2, Zenon
<1>16. Gathered(G, c) = Gathered(G, b)
  <2>1. Gathered(G, c) = Then(Gathered(G, b), Gathered(G, held))
    BY <1>7, <1>9, <1>11, GatheredThen
  <2>2. Gathered(G, b) \in Seq(X)
    BY <1>9, <1>11, GatheredType
  <2>3. Then(Gathered(G, b), <<>>) = Gathered(G, b)
    BY <2>2, ThenProperties
  <2> QED BY <1>13, <2>1, <2>3, Zenon
<1>17. InitsIn(c) = Gathered(G, c) /\ InitsIn(file) = Gathered(G, file)
  BY <1>7, <1>10, InitsGathered DEF G
<1> QED BY <1>1, <1>15, <1>16, <1>17, Zenon DEF a, b

(* Nothing has interfered with the initialisation segment.                 *)
Undisturbed == faults.header = 0 /\ faults.seek = 0

EditsOf(t) == {s \in {PresentationStart(t)} : s > 0}

(* What a track remembers as its first sample's composition offset, until  *)
(* the first fragment is cut.                                              *)
FirstNoted(t) ==
    IF tracks[t].pending = <<>>
    THEN /\ tracks[t].written <=> pc = "take" /\ call.track = t
         /\ tracks[t].written => tracks[t].firstOffset = call.sample.offset
    ELSE tracks[t].written /\ tracks[t].firstOffset = tracks[t].pending[1].offset

FirstsNoted == sequence = 0 => \A t \in DOMAIN tracks : FirstNoted(t)

(* No track box has an edit before the first attempt to write them.        *)
NoEditYet == ~headerOut /\ faults.header = 0 => \A id \in DOMAIN traks : traks[id].edts = {}

(* One initialisation segment goes out, of the tracks as they are, and the *)
(* first fragment right behind it.                                         *)
HeaderKept ==
    /\ headerOut => started \/ call.op = "close"
    /\ ~headerOut => InitsIn(file) = <<>>
    /\ Undisturbed /\ headerOut => InitsIn(file) = <<InitSegment(traks)>>
    /\ Undisturbed /\ headerOut /\ sequence = 0 =>
         IF Buffering
         THEN /\ pc = "fragment"
              /\ \A t \in DOMAIN tracks : traks[tracks[t].id].edts = EditsOf(t)
         ELSE pc = "closing"

HeaderInv == ~closed => FirstsNoted /\ NoEditYet /\ HeaderKept

(* A new track has no sample, and a sample handed over first is noted.     *)
LEMMA AddTrackFirsts ==
    ASSUME Inv, FirstsNoted, AddTrack
    PROVE  FirstsNoted'
<1> SUFFICES ASSUME sequence' = 0, NEW t \in DOMAIN tracks'
             PROVE  FirstNoted(t)'
  BY DEF FirstsNoted
<1> DEFINE n == Len(tracks)
           k == tracks'[n + 1]
<1>1. TypeOK /\ sequence = 0 /\ pc = "idle" /\ pc' = "idle" /\ call' = call
  BY DEF Inv, AddTrack, MayAddTrack
<1>2. PICK new : tracks' = Append(tracks, new) /\ new.pending = <<>> /\ new.written = FALSE
  BY DEF AddTrack
<1>3. n \in Nat /\ DOMAIN tracks = 1..n /\ tracks \in Seq(TrackType)
  BY <1>1, TrackTypes DEF TypeOK
<1>4. /\ DOMAIN tracks' = 1..(n + 1) /\ tracks'[n + 1] = new
      /\ \A u \in 1..n : tracks'[u] = tracks[u]
  <2>1. tracks \in Seq(TrackType \cup {new}) /\ new \in TrackType \cup {new}
    BY <1>3, SeqMonotonic
  <2> HIDE DEF n
  <2> DEFINE T == TrackType \cup {new}
  <2>2. tracks \in Seq(T) /\ new \in T
    BY <2>1
  <2> HIDE DEF T
  <2>3. Len(Append(tracks, new)) = Len(tracks) + 1 /\ Append(tracks, new) \in Seq(T)
        /\ Append(tracks, new)[Len(tracks) + 1] = new
        /\ \A u \in 1..Len(tracks) : Append(tracks, new)[u] = tracks[u]
    BY <2>2, AppendProperties
  <2>4. DOMAIN Append(tracks, new) = 1..(Len(tracks) + 1)
    BY <2>3, LenProperties
  <2> QED BY <1>2, <2>3, <2>4 DEF n
<1>5. CASE t = n + 1
  BY <1>1, <1>2, <1>4, <1>5 DEF FirstNoted
<1>6. CASE t \in 1..n
  <2>1. FirstNoted(t) /\ tracks'[t] = tracks[t]
    BY <1>1, <1>3, <1>4, <1>6 DEF FirstsNoted
  <2> QED BY <1>1, <2>1 DEF FirstNoted
<1>7. t = n + 1 \/ t \in 1..n
  BY <1>3, <1>4
<1> QED BY <1>5, <1>6, <1>7

(* What a call does to the track it is for.                                *)
LEMMA HandedTrack ==
    ASSUME Inv, NEW t \in 1..Len(Configs), NEW s \in Samples, WriteSample(t, s)
    PROVE  /\ t \in DOMAIN tracks /\ DOMAIN tracks' = DOMAIN tracks
           /\ tracks'[t].written = TRUE /\ tracks'[t].pending = tracks[t].pending
           /\ tracks'[t].id = tracks[t].id /\ tracks'[t].priming = tracks[t].priming
           /\ tracks'[t].firstOffset = IF tracks[t].written THEN tracks[t].firstOffset
                                       ELSE call'.sample.offset
           /\ call'.track = t
           /\ pc = "idle" /\ pc' = IF ShouldFlush(t, call'.sample) THEN FlushStart ELSE "take"
           /\ \A u \in DOMAIN tracks : u # t => tracks'[u] = tracks[u]
<1> DEFINE c == ClockSample(tracks[t].clock, s)
           o == IF tracks[t].written THEN tracks[t].firstOffset ELSE c.sample.offset
           cl == c.clock
           w == TRUE
           k == [tracks[t] EXCEPT !.clock = cl, !.firstOffset = o, !.written = w]
           cs == c.sample
<1>1. TypeOK /\ t \in DOMAIN tracks /\ pc = "idle"
  BY DEF Inv, WriteSample
<1>2. /\ tracks' = [tracks EXCEPT ![t].clock = cl, ![t].firstOffset = o, ![t].written = w]
      /\ call' = [op |-> "write", track |-> t, sample |-> cs]
      /\ pc' = IF ShouldFlush(t, cs) THEN FlushStart ELSE "take"
  BY DEF WriteSample
<1>3. tracks[t] \in TrackType
  BY <1>1, TrackTypes
<1>4. o = IF tracks[t].written THEN tracks[t].firstOffset ELSE cs.offset
  BY Zenon
<1> HIDE DEF c, cl, o, w, cs
<1>5. /\ k.firstOffset = o /\ k.written = w /\ k.pending = tracks[t].pending
      /\ k.id = tracks[t].id /\ k.priming = tracks[t].priming
  BY <1>3 DEF TrackType
<1>6. call'.track = t /\ call'.sample = cs
  BY <1>2
<1>7. tracks' = [tracks EXCEPT ![t] = k]
  BY <1>1, <1>2
<1> HIDE DEF k
<1>8. DOMAIN tracks' = DOMAIN tracks /\ tracks'[t] = k
      /\ \A u \in DOMAIN tracks : u # t => tracks'[u] = tracks[u]
  BY <1>1, <1>7
<1>9. w = TRUE
  BY DEF w
<1> QED BY <1>1, <1>2, <1>4, <1>5, <1>6, <1>8, <1>9, Zenon

(* A sample handed over to a track that has none is noted as its first.    *)
LEMMA HandedFirsts ==
    ASSUME Inv, FirstsNoted, NEW u \in 1..Len(Configs), NEW s \in Samples, WriteSample(u, s)
    PROVE  FirstsNoted'
<1> SUFFICES ASSUME sequence' = 0, NEW t \in DOMAIN tracks'
             PROVE  FirstNoted(t)'
  BY DEF FirstsNoted
<1>1. /\ u \in DOMAIN tracks /\ DOMAIN tracks' = DOMAIN tracks
      /\ tracks'[u].written = TRUE /\ tracks'[u].pending = tracks[u].pending
      /\ tracks'[u].firstOffset = IF tracks[u].written THEN tracks[u].firstOffset
                                  ELSE call'.sample.offset
      /\ call'.track = u
      /\ pc = "idle" /\ pc' = IF ShouldFlush(u, call'.sample) THEN FlushStart ELSE "take"
      /\ \A v \in DOMAIN tracks : v # u => tracks'[v] = tracks[v]
  BY HandedTrack
<1>2. sequence = 0
  BY DEF WriteSample
<1>3. FirstNoted(t)
  BY <1>1, <1>2 DEF FirstsNoted
<1>4. CASE t = u
  <2>1. CASE tracks[u].pending = <<>>
    <3>1. ~tracks[u].written /\ pc' = "take"
      BY <1>1, <1>3, <1>4, <2>1 DEF FirstNoted, ShouldFlush
    <3> QED BY <1>1, <1>4, <2>1, <3>1 DEF FirstNoted
  <2>2. CASE tracks[u].pending # <<>>
    BY <1>1, <1>3, <1>4, <2>2 DEF FirstNoted
  <2> QED BY <2>1, <2>2
<1>5. CASE t # u
  <2>1. tracks'[t] = tracks[t]
    BY <1>1, <1>5
  <2> QED BY <1>1, <1>3, <1>5, <2>1 DEF FirstNoted
<1> QED BY <1>4, <1>5

(* The first sample a track takes is the one noted.                        *)
LEMMA TakenFirsts ==
    ASSUME Inv, FirstsNoted, TakeSample
    PROVE  FirstsNoted'
<1> SUFFICES ASSUME sequence' = 0, NEW t \in DOMAIN tracks'
             PROVE  FirstNoted(t)'
  BY DEF FirstsNoted
<1>1. PICK u, taken :
         /\ u = call.track /\ taken.offset = call.sample.offset
         /\ u \in DOMAIN tracks /\ taken \in PendingType
         /\ DOMAIN tracks' = DOMAIN tracks
         /\ tracks'[u].pending = Append(tracks[u].pending, taken)
         /\ tracks'[u].written = tracks[u].written
         /\ tracks'[u].firstOffset = tracks[u].firstOffset
         /\ \A v \in DOMAIN tracks : v # u => tracks'[v] = tracks[v]
  <2> DEFINE w == call.track
             s == call.sample
             one == [len |-> s.len, dur |-> s.dur, offset |-> s.offset, sync |-> s.sync,
                     time |-> tracks[w].nextTime]
  <2>1. /\ w \in DOMAIN tracks /\ one \in PendingType
        /\ DOMAIN tracks' = DOMAIN tracks
        /\ tracks'[w].pending = Append(tracks[w].pending, one)
        /\ tracks'[w].written = tracks[w].written
        /\ tracks'[w].firstOffset = tracks[w].firstOffset
        /\ \A v \in DOMAIN tracks : v # w => tracks'[v] = tracks[v]
    BY TakenTrack, Zenon
  <2>2. one.offset = call.sample.offset
    OBVIOUS
  <2> HIDE DEF one, w, s
  <2> QED BY <2>1, <2>2 DEF w
<1>2. sequence = 0 /\ pc = "take" /\ pc' = "idle"
  BY DEF TakeSample
<1>3. FirstNoted(t) /\ t \in DOMAIN tracks
  BY <1>1, <1>2 DEF FirstsNoted
<1>4. CASE t = u
  <2> DEFINE p == tracks[u].pending
  <2>1. p \in Seq(PendingType)
    BY <1>1, TrackTypes DEF Inv
  <2>2. tracks'[u].pending = Append(p, taken)
    BY <1>1
  <2>3. tracks[u].written /\ (p = <<>> => tracks[u].firstOffset = taken.offset)
        /\ (p # <<>> => tracks[u].firstOffset = p[1].offset)
    BY <1>1, <1>2, <1>3, <1>4 DEF FirstNoted
  <2> HIDE DEF p
  <2>4. Append(p, taken) # <<>> /\ Append(p, taken)[1] = IF p = <<>> THEN taken ELSE p[1]
    BY <1>1, <2>1
  <2> QED BY <1>1, <1>4, <2>2, <2>3, <2>4 DEF FirstNoted
<1>5. CASE t # u
  <2>1. tracks'[t] = tracks[t]
    BY <1>1, <1>3, <1>5
  <2> QED BY <1>1, <1>2, <1>3, <1>5, <2>1 DEF FirstNoted
<1> QED BY <1>4, <1>5

(* Between samples nothing is noted, or fragments have gone out.           *)
LEMMA QuietFirsts ==
    ASSUME FirstsNoted, Inv,
           \/ sequence' = sequence + 1
           \/ UNCHANGED <<tracks, sequence>> /\ pc # "take" /\ pc' # "take"
    PROVE  FirstsNoted'
<1>1. CASE sequence' = sequence + 1
  BY <1>1 DEF FirstsNoted, Inv, TypeOK
<1>2. CASE UNCHANGED <<tracks, sequence>> /\ pc # "take" /\ pc' # "take"
  BY <1>2 DEF FirstsNoted, FirstNoted
<1> QED BY <1>1, <1>2

(* A closed muxer is not opened again.                                     *)
LEMMA ClosedStays ==
    ASSUME Inv, Next, closed
    PROVE  closed'
<1>1. Step /\ Control
  BY DEF Next, Inv
<1>2. pc \in {"idle", "closing", "index"} /\ (pc \in {"closing", "index"} => call.op = "close")
  BY <1>1 DEF Control, Inv, TypeOK
<1>3. ASSUME NEW t \in 1..Len(Configs), NEW s \in Samples, WriteSample(t, s)
      PROVE  FALSE
  BY <1>3 DEF WriteSample
<1> QED BY <1>1, <1>2, <1>3 DEF Step, AddTrack, AddTrackRefused, MayAddTrack, TakeSample, Flush,
       WriteHeader, HeaderFails, BeginFails, WriteFragment, FragmentRefused, FragmentFails,
       Close, RefuseClosed, Closing, FinishIndex, FinishIndexFails, Fails, vars

(* FirstsNoted is kept while the muxer is open.                            *)
LEMMA FirstsStep ==
    ASSUME Inv, FirstsNoted, Next, ~closed'
    PROVE  FirstsNoted'
<1>1. Step /\ ~closed
  BY ClosedStays DEF Next
<1>2. ASSUME NEW t \in 1..Len(Configs), NEW s \in Samples, WriteSample(t, s)
      PROVE  FirstsNoted'
  BY <1>2, HandedFirsts
<1>3. CASE AddTrackRefused \/ Flush \/ WriteHeader \/ HeaderFails \/ BeginFails \/ WriteFragment
           \/ FragmentRefused \/ FragmentFails \/ Close \/ RefuseClosed \/ Closing
           \/ FinishIndex \/ FinishIndexFails
  <2>1. \/ sequence' = sequence + 1
        \/ UNCHANGED <<tracks, sequence>> /\ pc # "take" /\ pc' # "take"
    BY <1>1, <1>3 DEF AddTrackRefused, MayAddTrack, Flush, FlushStart,
       WriteHeader, AfterHeader, HeaderFails, BeginFails, WriteFragment, FragmentRefused,
       FragmentFails, Close, RefuseClosed, Closing, FinishIndex, FinishIndexFails, Fails, vars
  <2> QED BY <2>1, QuietFirsts
<1> QED BY <1>1, <1>2, <1>3, AddTrackFirsts, TakenFirsts DEF Step

(* NoEditYet is kept.                                                      *)
LEMMA NoEditStep ==
    ASSUME Inv, NoEditYet, Next
    PROVE  NoEditYet'
<1>1. Step /\ TypeOK
  BY DEF Next, Inv
<1>2. ASSUME NEW new, traks' = Append(traks, new), new.edts = {}, new \in TrakType,
             UNCHANGED <<headerOut, faults>>
      PROVE  NoEditYet'
  <2> SUFFICES ASSUME ~headerOut, faults.header = 0, NEW id \in DOMAIN traks'
               PROVE  traks'[id].edts = {}
    BY <1>2 DEF NoEditYet
  <2>1. traks \in Seq(TrakType)
    BY <1>1 DEF TypeOK
  <2>2. /\ DOMAIN traks = 1..Len(traks) /\ DOMAIN traks' = 1..(Len(traks) + 1) /\ Len(traks) \in Nat
        /\ traks'[Len(traks) + 1] = new
        /\ \A i \in 1..Len(traks) : traks'[i] = traks[i]
    BY <1>2, <2>1, AppendProperties, LenProperties
  <2>3. id \in 1..Len(traks) \/ id = Len(traks) + 1
    BY <2>2
  <2> QED BY <1>2, <2>2, <2>3 DEF NoEditYet
<1>3. CASE AddTrack
  <2> DEFINE new == [described |-> TRUE, edts |-> {}]
  <2>1. new \in TrakType /\ new.edts = {}
    BY DEF TrakType
  <2>2. traks' = Append(traks, new) /\ UNCHANGED <<headerOut, faults>>
    BY <1>3 DEF AddTrack
  <2> HIDE DEF new
  <2> QED BY <1>2, <2>1, <2>2
<1>4. CASE AddTrackRefused
  <2> DEFINE new == [described |-> FALSE, edts |-> {}]
  <2>1. new \in TrakType /\ new.edts = {}
    BY DEF TrakType
  <2>2. traks' = Append(traks, new) /\ UNCHANGED <<headerOut, faults>>
    BY <1>4 DEF AddTrackRefused
  <2> HIDE DEF new
  <2> QED BY <1>2, <2>1, <2>2
<1>5. CASE WriteHeader \/ BeginFails
  BY <1>5 DEF WriteHeader, BeginFails, NoEditYet
<1>6. CASE HeaderFails
  <2>1. faults'.header = faults.header + 1 /\ faults.header \in Nat
    BY <1>1, <1>6 DEF HeaderFails, TypeOK
  <2> QED BY <2>1 DEF NoEditYet
<1>7. ASSUME UNCHANGED <<traks, headerOut>>, faults'.header = faults.header
      PROVE  NoEditYet'
  BY <1>7 DEF NoEditYet
<1>8. CASE FragmentFails \/ FinishIndexFails
  <2>1. UNCHANGED <<traks, headerOut>> /\ faults'.header = faults.header
    BY <1>1, <1>8 DEF FragmentFails, FinishIndexFails, TypeOK
  <2> QED BY <1>7, <2>1
<1>9. ASSUME NEW t \in 1..Len(Configs), NEW s \in Samples, WriteSample(t, s)
      PROVE  NoEditYet'
  BY <1>7, <1>9 DEF WriteSample
<1>10. CASE TakeSample \/ Flush \/ WriteFragment \/ FragmentRefused \/ Close \/ RefuseClosed
            \/ Closing \/ FinishIndex
  <2>1. UNCHANGED <<traks, headerOut, faults>>
    BY <1>10 DEF TakeSample, Flush, WriteFragment, FragmentRefused, Close, RefuseClosed,
                 Closing, FinishIndex, vars
  <2> QED BY <1>7, <2>1
<1> QED BY <1>1, <1>3, <1>4, <1>5, <1>6, <1>8, <1>9, <1>10 DEF Step

(* Once the initialisation segment is out it stays as it is until the      *)
(* first fragment is cut.                                                  *)
LEMMA HeaderQuiet ==
    ASSUME HeaderKept, UNCHANGED <<traks, headerOut>>, InitsIn(file') = InitsIn(file),
           Undisturbed' => Undisturbed, headerOut => started' \/ call'.op = "close",
           headerOut /\ Undisturbed => sequence' # 0
    PROVE  HeaderKept'
BY DEF HeaderKept, InitSegment

(* No track is declared once the initialisation segment is out.            *)
LEMMA HeaderBeforeTracks ==
    ASSUME Inv, HeaderKept, MayAddTrack
    PROVE  ~headerOut
BY DEF Inv, Control, TypeOK, CallType, HeaderKept, MayAddTrack

(* The initialisation segment that goes out has the edits of the tracks.   *)
LEMMA EditsMade ==
    ASSUME Inv, NoEditYet, ~headerOut, faults.header = 0
    PROVE  \A t \in DOMAIN tracks : WithEdits[tracks[t].id].edts = EditsOf(t)
<1> SUFFICES ASSUME NEW t \in DOMAIN tracks
             PROVE  WithEdits[tracks[t].id].edts = EditsOf(t)
  OBVIOUS
<1> DEFINE id == tracks[t].id
           own == {u \in DOMAIN tracks : tracks[u].id = id}
           e == {s \in {PresentationStart(u) : u \in own} : s > 0}
<1>1. TypeOK /\ TracksApart
  BY DEF Inv
<1>2. traks \in Seq(TrakType) /\ DOMAIN traks = 1..Len(traks)
  BY <1>1, LenProperties DEF TypeOK
<1>3. id \in DOMAIN traks
  BY <1>1, <1>2 DEF TracksApart
<1>4. traks[id] \in TrakType /\ traks[id].edts = {}
  BY <1>2, <1>3, ElementOfSeq DEF NoEditYet
<1>5. own = {t}
  BY <1>1 DEF TracksApart
<1>6. WithEdits[id] = [traks[id] EXCEPT !.edts = e]
  BY <1>3, <1>4 DEF WithEdits
<1>7. e = EditsOf(t)
  BY <1>5, Zenon DEF EditsOf
<1> HIDE DEF e, id
<1>8. WithEdits[id].edts = e
  BY <1>4, <1>6 DEF TrakType
<1> QED BY <1>7, <1>8 DEF id

(* The initialisation segment goes out.                                    *)
LEMMA HeaderGoesOut ==
    ASSUME Inv, NoEditYet, HeaderKept, WriteHeader
    PROVE  HeaderKept'
<1> DEFINE seg == InitSegment(WithEdits)
<1>1. /\ TypeOK /\ Control /\ Progress /\ pc = "header" /\ ~headerOut /\ headerOut'
      /\ traks' = WithEdits /\ file' = Append(file, seg) /\ pc' = AfterHeader
      /\ UNCHANGED <<tracks, started, sequence, call, faults>>
  BY DEF Inv, Control, WriteHeader
<1>2. file \in Seq(Box) /\ seg \in Box /\ seg.box = "init"
  BY <1>1, WithEditsType DEF TypeOK, Control
<1>3. InitsIn(file) = <<>>
  BY <1>1 DEF HeaderKept
<1>4. InitsIn(file') = <<seg>>
  <2> HIDE DEF seg
  <2>1. InitsIn(Append(file, seg)) = Append(InitsIn(file), seg)
    BY <1>2, InitsAppend
  <2>2. Append(<<>>, seg) = <<seg>>
    OBVIOUS
  <2> QED BY <1>1, <1>3, <2>1, <2>2, Zenon
<1>5. headerOut' => started' \/ call'.op = "close"
  BY <1>1 DEF Control, Progress, Buffering
<1>6. seg = InitSegment(traks)'
  BY <1>1 DEF InitSegment
<1>7. Undisturbed' => \A t \in DOMAIN tracks' : traks'[tracks'[t].id].edts = EditsOf(t)'
  <2> SUFFICES ASSUME Undisturbed', NEW t \in DOMAIN tracks'
               PROVE  traks'[tracks'[t].id].edts = EditsOf(t)'
    OBVIOUS
  <2>1. faults.header = 0 /\ t \in DOMAIN tracks
    BY <1>1 DEF Undisturbed
  <2>2. WithEdits[tracks[t].id].edts = EditsOf(t)
    BY <1>1, <2>1, EditsMade
  <2>3. EditsOf(t)' = EditsOf(t)
    BY <1>1, Zenon DEF EditsOf, PresentationStart
  <2> QED BY <1>1, <2>2, <2>3
<1>8. IF Buffering' THEN pc' = "fragment" ELSE pc' = "closing"
  BY <1>1 DEF AfterHeader, Buffering
<1> HIDE DEF seg
<1>9. Undisturbed' /\ headerOut' => InitsIn(file') = <<InitSegment(traks)>>'
  BY <1>4, <1>6
<1> QED BY <1>1, <1>5, <1>7, <1>8, <1>9 DEF HeaderKept

(* Every step of an open muxer keeps it.                                   *)
LEMMA HeaderKeptStep ==
    ASSUME Inv, NoEditYet, HeaderKept, Next, ~closed'
    PROVE  HeaderKept'
<1>1. Step /\ ~closed /\ UNCHANGED setup
  BY ClosedStays DEF Next
<1>2. TypeOK /\ Control /\ Progress /\ ~complete /\ file \in Seq(Box)
  BY <1>1 DEF Inv, Control, TypeOK
<1>3. Buffering => started
  BY <1>2 DEF Progress, Buffering
<1>4. pc \notin {"fragment", "closing"} => ~(headerOut /\ Undisturbed /\ sequence = 0)
  BY DEF HeaderKept
<1>5. pc \in {"idle", "take", "header"} => (headerOut => started)
  BY <1>2, <1>3 DEF HeaderKept, Control
<1>6. InitsIn(Append(file, Torn)) = InitsIn(file)
  <2>1. Torn \in Box /\ Torn.box = "torn"
    BY TornIsBox
  <2> QED BY <1>2, <2>1, InitsAppend
<1>7. ASSUME NEW t \in 1..Len(Configs), NEW s \in Samples, WriteSample(t, s)
      PROVE  HeaderKept'
  <2>1. UNCHANGED <<traks, headerOut, file, faults, sequence>> /\ started' /\ pc = "idle"
    BY <1>7 DEF WriteSample
  <2> QED BY <1>4, <2>1, HeaderQuiet DEF Undisturbed
<1>8. CASE AddTrack \/ AddTrackRefused
  <2>1. ~headerOut /\ UNCHANGED <<headerOut, file>>
    BY <1>8, HeaderBeforeTracks DEF AddTrack, AddTrackRefused
  <2> QED BY <2>1 DEF HeaderKept
<1>9. CASE TakeSample \/ Flush \/ Close
  <2>1. UNCHANGED <<traks, headerOut, file, faults, started, sequence>> /\ pc \in {"idle", "take"}
    BY <1>9 DEF TakeSample, Flush, Close
  <2> QED BY <1>4, <1>5, <2>1, HeaderQuiet DEF Undisturbed
<1>10. CASE HeaderFails
  <2>1. ~headerOut /\ ~headerOut' /\ file' \in {file, Append(file, Torn)}
    BY <1>2, <1>10 DEF HeaderFails, Control
  <2> QED BY <1>6, <2>1 DEF HeaderKept
<1>11. CASE BeginFails
  <2>1. ~Undisturbed'
    BY <1>2, <1>11 DEF BeginFails, Undisturbed, TypeOK
  <2>2. call.op # "close" /\ headerOut' /\ started' = started
    BY <1>1, <1>11 DEF BeginFails, Fails
  <2>3. started'
    BY <1>2, <1>3, <1>11, <2>2 DEF BeginFails, Control
  <2> QED BY <2>1, <2>2, <2>3 DEF HeaderKept
<1>12. CASE WriteFragment
  <2>1. PICK frag \in FragmentBox : file' = file \/ file' = Append(file, frag)
    BY <1>1, <1>12, FragmentWritten
  <2>2. frag \in Box /\ frag.box = "fragment"
    BY DEF Box, FragmentBox
  <2>3. InitsIn(file') = InitsIn(file)
    <3>1. InitsIn(Append(file, frag)) = InitsIn(file)
      BY <1>2, <2>2, InitsAppend
    <3> QED BY <2>1, <3>1
  <2>4. /\ UNCHANGED <<traks, headerOut, started, faults>> /\ sequence' = sequence + 1
        /\ Buffering
    BY <1>2, <1>12 DEF WriteFragment, Control
  <2>5. sequence' # 0
    BY <1>2, <2>4 DEF TypeOK
  <2> QED BY <1>3, <2>3, <2>4, <2>5, HeaderQuiet DEF Undisturbed
<1>13. CASE FragmentRefused \/ FragmentFails
  <2>1. /\ UNCHANGED <<traks, headerOut, started>> /\ sequence' = sequence + 1 /\ Buffering
        /\ file' \in {file, Append(file, Torn)}
        /\ faults'.header = faults.header /\ faults'.seek = faults.seek
    BY <1>2, <1>13 DEF FragmentRefused, FragmentFails, Control, TypeOK
  <2>2. sequence' # 0
    BY <1>2, <2>1 DEF TypeOK
  <2> QED BY <1>3, <1>6, <2>1, <2>2, HeaderQuiet DEF Undisturbed
<1>14. CASE RefuseClosed \/ Closing \/ FinishIndex \/ FinishIndexFails
  BY <1>1, <1>2, <1>14 DEF RefuseClosed, Closing, FinishIndex, FinishIndexFails, Fails, Control
<1>15. CASE WriteHeader
  BY <1>15, HeaderGoesOut
<1> QED BY <1>1, <1>7, <1>8, <1>9, <1>10, <1>11, <1>12, <1>13, <1>14, <1>15 DEF Step

(* What an open muxer knows of its initialisation segment.                 *)
LEMMA HeaderStep ==
    ASSUME Inv, HeaderInv, Next
    PROVE  HeaderInv'
<1>1. CASE closed'
  BY <1>1 DEF HeaderInv
<1>2. CASE ~closed'
  <2>1. ~closed
    BY <1>2, ClosedStays
  <2> QED BY <1>2, <2>1, FirstsStep, NoEditStep, HeaderKeptStep DEF HeaderInv
<1> QED BY <1>1, <1>2

(* The runs of a fragment are those of the tracks that have samples.       *)
LEMMA RunsAreTracks ==
    ASSUME TypeOK, NEW i \in DOMAIN Runs
    PROVE  \E t \in DOMAIN tracks : tracks[t].pending # <<>> /\ Runs[i] = Run(t)
<1> DEFINE f == [t \in DOMAIN tracks |-> IF tracks[t].pending = <<>> THEN <<>> ELSE <<Run(t)>>]
           X == {Run(t) : t \in {u \in DOMAIN tracks : tracks[u].pending # <<>>}}
           n == Len(tracks)
<1>1. n \in Nat /\ DOMAIN tracks = 1..n
  BY TrackTypes
<1>2. ASSUME NEW t \in 1..n PROVE f[t] \in Seq(X)
  <2>1. f[t] = IF tracks[t].pending = <<>> THEN <<>> ELSE <<Run(t)>>
    BY <1>1, Zenon
  <2>2. tracks[t].pending # <<>> => Run(t) \in X
    BY <1>1, Zenon
  <2> HIDE DEF X, f
  <2> QED BY <2>1, <2>2
<1>3. Runs = ConcatTo(f, n)
  BY Zenon DEF Runs
<1> HIDE DEF f, X, n
<1>4. Runs \in Seq(X)
  BY <1>1, <1>2, <1>3, ConcatIsSeq
<1>5. Runs[i] \in X
  BY <1>4, LenProperties, ElementOfSeq
<1> QED BY <1>5, Zenon DEF X

(* A run is shown from its first sample, if its track begins with it.      *)
ShownBy(run, t) ==
    /\ tracks[t].id = run.id
    /\ run.base = 0 =>
         traks[run.id].edts = {s \in {Greater(run.samples[1].offset, 0) + tracks[t].priming} : s > 0}

(* The initialisation segment of the tracks as they are shows every track  *)
(* of the first fragment, in the file finished as well.                    *)
ShownNow ==
    /\ InitsIn(file) = <<InitSegment(traks)>>
    /\ \A i \in DOMAIN Fragments[1].runs :
         \E t \in DOMAIN tracks : ShownBy(Fragments[1].runs[i], t)

ShownInv == Undisturbed /\ Fragments # <<>> /\ sequence = Len(Fragments) => ShownNow

(* It stays so while the tracks keep their identifiers and priming.        *)
LEMMA ShownSame ==
    ASSUME ShownNow, traks' = traks, InitsIn(file') = InitsIn(file),
           Fragments[1]' = Fragments[1],
           \A t \in DOMAIN tracks : /\ t \in DOMAIN tracks'
                                    /\ tracks'[t].id = tracks[t].id
                                    /\ tracks'[t].priming = tracks[t].priming
    PROVE  ShownNow'
<1>1. InitsIn(file') = <<InitSegment(traks')>>
  BY DEF ShownNow
<1>2. ASSUME NEW i \in DOMAIN Fragments[1].runs
      PROVE  \E t \in DOMAIN tracks' : ShownBy(Fragments[1].runs[i], t)'
  <2>1. PICK run : run = Fragments[1].runs[i]
    OBVIOUS
  <2>2. PICK t \in DOMAIN tracks : ShownBy(run, t)
    BY <1>2, <2>1 DEF ShownNow
  <2>3. t \in DOMAIN tracks' /\ tracks'[t].id = tracks[t].id /\ tracks'[t].priming = tracks[t].priming
    OBVIOUS
  <2>4. ShownBy(run, t)'
    BY <2>2, <2>3 DEF ShownBy
  <2>5. Fragments[1].runs[i]' = run
    BY <2>1
  <2> QED BY <2>3, <2>4, <2>5 DEF ShownBy
<1> QED BY <1>1, <1>2 DEF ShownNow

(* The first fragment shows every track it has from its first sample.      *)
LEMMA FirstShown ==
    ASSUME Inv, Inv', HeaderInv, WriteFragment, UNCHANGED setup,
           Undisturbed, sequence = 0, InitsIn(file') = InitsIn(file),
           Fragments[1]'.runs = Runs
    PROVE  ShownNow'
<1>1. /\ TypeOK /\ Control /\ TracksApart /\ pc = "fragment" /\ ~closed /\ headerOut /\ Buffering
      /\ traks' = traks /\ tracks' = Emptied
  BY DEF Inv, Control, WriteFragment
<1>2. FirstsNoted /\ HeaderKept
  BY <1>1 DEF HeaderInv
<1>3. /\ InitsIn(file) = <<InitSegment(traks)>>
      /\ \A t \in DOMAIN tracks : traks[tracks[t].id].edts = EditsOf(t) /\ FirstNoted(t)
  BY <1>1, <1>2 DEF HeaderKept, FirstsNoted
<1>4. \A t \in DOMAIN tracks : /\ t \in DOMAIN tracks' /\ tracks'[t].id = tracks[t].id
                               /\ tracks'[t].priming = tracks[t].priming
  BY <1>1, EmptiedTracks
<1>5. ASSUME NEW i \in DOMAIN Runs
      PROVE  \E t \in DOMAIN tracks : ShownBy(Runs[i], t)
  <2>1. PICK t \in DOMAIN tracks : tracks[t].pending # <<>> /\ Runs[i] = Run(t)
    BY <1>1, <1>5, RunsAreTracks
  <2> DEFINE p == tracks[t].pending
             o == p[1].offset
  <2>2. Run(t).id = tracks[t].id /\ Run(t).samples = Bare(p)
    BY <1>1, <2>1, RunIsRun
  <2>3. Bare(p)[1].offset = o
    <3>1. p \in Seq(PendingType) /\ p # <<>>
      BY <1>1, <2>1, TrackTypes
    <3> HIDE DEF p
    <3>2. 1 \in DOMAIN p
      BY <3>1
    <3>3. Bare(p)[1] = [len |-> p[1].len, dur |-> p[1].dur, offset |-> p[1].offset, sync |-> p[1].sync]
      BY <3>2, Zenon DEF Bare
    <3> QED BY <3>3
  <2>4. tracks[t].firstOffset = o
    BY <1>3, <2>1 DEF FirstNoted
  <2> HIDE DEF o, p
  <2>5. traks[tracks[t].id].edts = {s \in {Greater(o, 0) + tracks[t].priming} : s > 0}
    BY <1>3, <2>4, Zenon DEF EditsOf, PresentationStart
  <2>6. Run(t).samples[1].offset = o
    BY <2>2, <2>3
  <2>7. ShownBy(Runs[i], t)
    BY <2>1, <2>2, <2>5, <2>6, Zenon DEF ShownBy
  <2> QED BY <2>7
<1>6. ASSUME NEW i \in DOMAIN Fragments[1]'.runs
      PROVE  \E t \in DOMAIN tracks' : ShownBy(Fragments[1].runs[i], t)'
  <2>1. PICK run : run = Fragments[1]'.runs[i]
    OBVIOUS
  <2>2. i \in DOMAIN Runs /\ run = Runs[i]
    BY <1>6, <2>1
  <2>3. PICK t \in DOMAIN tracks : ShownBy(Runs[i], t)
    BY <1>5, <2>2
  <2>4. ShownBy(run, t)'
    BY <1>1, <1>4, <2>2, <2>3 DEF ShownBy
  <2>5. Fragments[1].runs[i]' = run
    BY <2>1
  <2> QED BY <1>4, <2>3, <2>4, <2>5 DEF ShownBy
<1>7. InitsIn(file') = <<InitSegment(traks')>>
  BY <1>1, <1>3
<1> QED BY <1>6, <1>7 DEF ShownNow

(* Every step keeps it.                                                    *)
LEMMA ShownStep ==
    ASSUME Inv, Inv', StartInv, HeldNoted, OrderInv, OrderInv', HeaderInv, ShownInv, Next
    PROVE  ShownInv'
<1> SUFFICES ASSUME Undisturbed', Fragments' # <<>>, sequence' = Len(Fragments')
             PROVE  ShownNow'
  BY DEF ShownInv
<1>1. Step /\ UNCHANGED setup /\ TypeOK /\ Control /\ Progress
  BY DEF Next, Inv
<1>2. CASE complete
  <2>1. UNCHANGED vars
    BY <1>2, Finished
  <2>2. /\ Fragments' = Fragments /\ UNCHANGED <<file, traks, tracks, faults, sequence>>
    BY <2>1 DEF vars, Fragments, Written
  <2>3. ShownNow
    BY <2>2 DEF ShownInv, Undisturbed
  <2> QED BY <2>2, <2>3, ShownSame
<1>3. CASE ~complete
  <2>1. file \in Seq(Box)
    BY <1>1, <1>3 DEF TypeOK
  <2>2. InitsIn(Append(file, Torn)) = InitsIn(file)
    <3>1. Torn \in Box /\ Torn.box = "torn"
      BY TornIsBox
    <3> QED BY <2>1, <3>1, InitsAppend
  <2>3. Fragments \in Seq(FragmentBox) /\ Len(Fragments) \in Nat /\ Len(Fragments) <= sequence
    BY LenProperties DEF OrderInv
  <2>4. CASE WriteFragment
    <3>1. PICK frag \in FragmentBox : frag.runs = Runs /\ Fragments' = Append(Fragments, frag)
      BY <1>1, <2>4, FragmentAdded
    <3>2. Len(Fragments') = Len(Fragments) + 1 /\ sequence' = sequence + 1
      <4>1. Len(Append(Fragments, frag)) = Len(Fragments) + 1
        BY <2>3, AppendProperties
      <4> QED BY <2>4, <3>1, <4>1, Zenon DEF WriteFragment
    <3>3. sequence = Len(Fragments) /\ Undisturbed
      <4>1. sequence + 1 = Len(Fragments) + 1 /\ sequence \in Nat
        BY <1>1, <3>2, Zenon DEF TypeOK
      <4>2. sequence = Len(Fragments)
        BY <2>3, <4>1
      <4>3. Undisturbed
        BY <2>4, Zenon DEF WriteFragment, Undisturbed
      <4> QED BY <4>2, <4>3
    <3>4. InitsIn(file') = InitsIn(file)
      <4>1. PICK b \in FragmentBox : file' = file \/ file' = Append(file, b)
        BY <1>1, <2>4, FragmentWritten
      <4>2. b \in Box /\ b.box = "fragment"
        BY DEF Box, FragmentBox
      <4>3. InitsIn(Append(file, b)) = InitsIn(file)
        BY <2>1, <4>2, InitsAppend
      <4> QED BY <4>1, <4>3
    <3>5. CASE Fragments = <<>>
      <4>1. Fragments[1]' = frag
        BY <3>1, <3>5
      <4>2. Fragments[1]'.runs = Runs /\ sequence = 0
        BY <3>1, <3>3, <3>5, <4>1
      <4> QED BY <1>1, <2>4, <3>3, <3>4, <4>2, FirstShown
    <3>6. CASE Fragments # <<>>
      <4>1. Fragments[1]' = Fragments[1]
        BY <2>3, <3>1, <3>6
      <4>2. ShownNow
        BY <3>3, <3>6 DEF ShownInv
      <4>3. traks' = traks /\ \A t \in DOMAIN tracks :
              /\ t \in DOMAIN tracks' /\ tracks'[t].id = tracks[t].id
              /\ tracks'[t].priming = tracks[t].priming
        BY <2>4, EmptiedTracks DEF WriteFragment
      <4> QED BY <3>4, <4>1, <4>2, <4>3, ShownSame
    <3> QED BY <3>5, <3>6
  <2>5. CASE ~WriteFragment
    <3>1. Fragments' = Fragments
      BY <2>5, FragmentsStep
    <3>2. ASSUME UNCHANGED <<sequence, traks>>, Undisturbed, InitsIn(file') = InitsIn(file),
                 \A t \in DOMAIN tracks : /\ t \in DOMAIN tracks'
                                          /\ tracks'[t].id = tracks[t].id
                                          /\ tracks'[t].priming = tracks[t].priming
          PROVE  ShownNow'
      <4>1. ShownNow
        BY <3>1, <3>2 DEF ShownInv
      <4> QED BY <3>1, <3>2, <4>1, ShownSame
    <3>3. sequence' # sequence + 1
      BY <1>1, <2>3, <3>1 DEF TypeOK
    <3>4. sequence' = sequence => started /\ headerOut
      <4>1. sequence' = sequence => sequence # 0
        BY <2>3, <3>1, EmptySeq
      <4> QED BY <1>1, <4>1 DEF Progress, TypeOK
    <3>5. ASSUME NEW t \in 1..Len(Configs), NEW s \in Samples, WriteSample(t, s)
          PROVE  ShownNow'
      <4>1. UNCHANGED <<sequence, traks, faults, file>>
        BY <3>5 DEF WriteSample
      <4>2. \A u \in DOMAIN tracks : /\ u \in DOMAIN tracks' /\ tracks'[u].id = tracks[u].id
                                     /\ tracks'[u].priming = tracks[u].priming
        BY <3>5, HandedTrack
      <4> QED BY <3>2, <4>1, <4>2 DEF Undisturbed
    <3>6. CASE TakeSample
      <4>1. UNCHANGED <<sequence, traks, faults, file>>
        BY <3>6 DEF TakeSample
      <4>2. \A u \in DOMAIN tracks : /\ u \in DOMAIN tracks' /\ tracks'[u].id = tracks[u].id
                                     /\ tracks'[u].priming = tracks[u].priming
        BY <3>6, TakenTrack
      <4> QED BY <3>2, <4>1, <4>2 DEF Undisturbed
    <3>7. CASE FinishIndex
      <4>1. UNCHANGED <<sequence, traks, tracks, faults>>
        BY <3>7 DEF FinishIndex
      <4> QED BY <3>2, <3>7, <4>1, InitsFinished DEF Undisturbed
    <3>8. CASE FinishIndexFails
      <4>1. file' = file \/ file' = Append(file, Torn)
        BY <1>1, <3>1, <3>8, FragmentsCut
      <4>2. UNCHANGED <<sequence, traks, tracks>> /\ Undisturbed
        BY <1>1, <3>8 DEF FinishIndexFails, Undisturbed, TypeOK
      <4> QED BY <2>2, <3>2, <4>1, <4>2
    <3>9. CASE AddTrack \/ AddTrackRefused \/ WriteHeader \/ HeaderFails \/ BeginFails
      <4>1. sequence' = sequence /\ (~started \/ ~headerOut)
        BY <1>1, <3>9 DEF AddTrack, AddTrackRefused, MayAddTrack, WriteHeader, HeaderFails,
                          BeginFails, Control
      <4> QED BY <3>4, <4>1
    <3>10. CASE FragmentRefused \/ FragmentFails
      BY <3>3, <3>10 DEF FragmentRefused, FragmentFails
    <3>11. CASE Flush \/ Close \/ RefuseClosed \/ Closing
      <4>1. UNCHANGED <<sequence, traks, tracks, faults, file>>
        BY <3>11 DEF Flush, Close, RefuseClosed, Closing, vars
      <4> QED BY <3>2, <4>1 DEF Undisturbed
    <3> QED BY <1>1, <2>5, <3>5, <3>6, <3>7, <3>8, <3>9, <3>10, <3>11 DEF Step
  <2> QED BY <2>4, <2>5
<1> QED BY <1>2, <1>3

(* A muxer that does nothing keeps both.                                   *)
LEMMA ShownStutter ==
    ASSUME HeaderInv, ShownInv, UNCHANGED vars
    PROVE  HeaderInv' /\ ShownInv'
<1>1. Fragments' = Fragments
  BY DEF vars, Fragments, Written
<1>2. UNCHANGED <<traks, tracks, started, headerOut, closed, sequence, file, pc, call, faults>>
  BY DEF vars
<1>3. FirstsNoted' = FirstsNoted
  BY <1>2, Zenon DEF FirstsNoted, FirstNoted
<1>4. NoEditYet' = NoEditYet
  BY <1>2, Zenon DEF NoEditYet
<1>5. HeaderKept' = HeaderKept
  BY <1>2, Zenon DEF HeaderKept, Undisturbed, InitSegment, InitsIn, Of, Buffering, EditsOf,
                     PresentationStart
<1>6. HeaderInv'
  BY <1>2, <1>3, <1>4, <1>5 DEF HeaderInv
<1>7. ShownInv' = ShownInv
  BY <1>1, <1>2, Zenon DEF ShownInv, ShownNow, ShownBy, Undisturbed, InitSegment, InitsIn, Of
<1> QED BY <1>6, <1>7

(* A new muxer has no header and no fragment.                              *)
LEMMA ShownInit == Init => HeaderInv /\ ShownInv
<1> SUFFICES ASSUME Init PROVE HeaderInv /\ ShownInv
  OBVIOUS
<1>1. Fragments = <<>>
  BY NewIsEmpty
<1>2. /\ tracks = <<>> /\ traks = <<>> /\ ~headerOut /\ file = <<>>
  BY DEF Init
<1>3. InitsIn(<<>>) = <<>>
  <2> DEFINE none == <<>>
  <2>1. none \in Seq(Box) /\ Gathered(InitKind(Box), none) = <<>>
    BY GatheredEmpty
  <2> HIDE DEF none
  <2>2. InitsIn(none) = Gathered(InitKind(Box), none)
    BY <2>1, InitsGathered
  <2> QED BY <2>1, <2>2, Zenon DEF none
<1>4. HeaderInv
  BY <1>2, <1>3 DEF HeaderInv, FirstsNoted, NoEditYet, HeaderKept
<1> QED BY <1>1, <1>4 DEF ShownInv

(* What the initialisation segment says of the tracks that begin in the    *)
(* first fragment.                                                         *)
LEMMA ShownHolds ==
    ASSUME Inv, ShownInv, Undisturbed, sequence = Len(Fragments)
    PROVE  HeaderStatesFirstSample
<1> DEFINE inits == Of(file, "init")
<1> SUFFICES ASSUME Fragments # <<>>, NEW h \in DOMAIN inits, h = Len(inits),
                    NEW i \in DOMAIN Fragments[1].runs, Fragments[1].runs[i].base = 0
             PROVE  LET run == Fragments[1].runs[i]
                        t == CHOOSE u \in DOMAIN tracks : tracks[u].id = run.id
                        start == Greater(run.samples[1].offset, 0) + tracks[t].priming
                    IN  inits[h].traks[run.id].edts = {s \in {start} : s > 0}
  BY Zenon DEF HeaderStatesFirstSample
<1>1. inits = <<InitSegment(traks)>> /\ \E t \in DOMAIN tracks : ShownBy(Fragments[1].runs[i], t)
  BY Zenon DEF ShownInv, ShownNow, InitsIn
<1>2. PICK run : run = Fragments[1].runs[i] /\ run.base = 0
  OBVIOUS
<1>3. PICK t \in DOMAIN tracks : ShownBy(run, t)
  BY <1>1, <1>2
<1> HIDE DEF inits
<1>4. inits[h].traks = traks
  BY <1>1 DEF InitSegment
<1>5. t = CHOOSE u \in DOMAIN tracks : tracks[u].id = run.id
  <2>1. \A u \in DOMAIN tracks : tracks[u].id = run.id => u = t
    BY <1>3 DEF Inv, TracksApart, ShownBy
  <2>2. tracks[t].id = run.id
    BY <1>3 DEF ShownBy
  <2> QED BY <2>1, <2>2, Zenon
<1>6. traks[run.id].edts = {s \in {Greater(run.samples[1].offset, 0) + tracks[t].priming} : s > 0}
  BY <1>2, <1>3, Zenon DEF ShownBy
<1> QED BY <1>2, <1>4, <1>5, <1>6, Zenon

(* The states of the muxer, what its initialisation segment has, and what  *)
(* that says of the first fragment.                                        *)
THEOREM HeaderKnown ==
    Spec => [](Inv /\ StartInv /\ HeldNoted /\ OrderInv /\ HeaderInv /\ ShownInv)
<1>1. Init => HeaderInv /\ ShownInv
  BY ShownInit
<1>2. /\ Inv /\ StartInv /\ HeldNoted /\ OrderInv /\ HeaderInv /\ ShownInv /\ [Next]_vars
      /\ Inv' /\ StartInv' /\ HeldNoted' /\ OrderInv'
      => HeaderInv' /\ ShownInv'
  BY HeaderStep, ShownStep, ShownStutter
<1>3. Spec => [](Inv /\ StartInv /\ HeldNoted /\ OrderInv)
  BY FragmentOrder
<1> QED BY <1>1, <1>2, <1>3, PTL DEF Spec

(* Until the writer refuses an initialisation segment or a seek, or a      *)
(* fragment is lost, a player is shown a track from its first sample: the  *)
(* edit of every track that begins in the first fragment starts at the     *)
(* composition time of its first sample, then past its priming.            *)
THEOREM HeaderShowsFirstSample ==
    Spec => [](faults.header = 0 /\ faults.seek = 0 /\ sequence = Len(Fragments)
                 => HeaderStatesFirstSample)
<1>1. Inv /\ ShownInv =>
        (faults.header = 0 /\ faults.seek = 0 /\ sequence = Len(Fragments)
           => HeaderStatesFirstSample)
  BY ShownHolds DEF Undisturbed
<1> QED BY <1>1, HeaderKnown, PTL
=============================================================================
