----------------------------- MODULE OggProofs -----------------------------
(***************************************************************************)
(* The pages of an Ogg file hold for every size of a segment and a page,   *)
(* every packet and every refused write.                                   *)
(***************************************************************************)
EXTENDS AudioOutput, SequenceTheorems, TLAPS

(***************************************************************************)
(* The inductive invariant.  What a page is made of:                       *)
(***************************************************************************)
Lacing == Seq(0..SegmentSize)
Packet == Seq(Int \X Int)

IsFull(s) == s[Len(s)] = SegmentSize

PageFits(p) ==
    /\ p.segments \in Lacing /\ Len(p.segments) \in 1..MaxSegments
    /\ (\A n \in DOMAIN p.segments : p.segments[n] = SegmentSize) => p.granule = NoGranule

(* A page that may be written behind those of f.                           *)
Follows(p, f) ==
    /\ PageFits(p)
    /\ p.continued <=> f # <<>> /\ IsFull(f[Len(f)].segments)
    /\ p.bos <=> f = <<>>

(* The state as the code has it, whatever was refused.                     *)
OggTypes ==
    /\ file \in Seq(Range(file)) /\ seq \in Nat
    /\ segments \in Lacing /\ continued \in BOOLEAN
    /\ rest \in Packet /\ packets \in Seq(Packet)
    /\ taken \in Seq(Range(taken))
    /\ pc \in {"idle", "packet", "lace", "end", "last"}
    /\ pc = "last" => opened /\ closed
    /\ pc = "idle" /\ ~opened /\ ~failed => file = <<>>

(* The pages written, each behind the one before it.                       *)
Chained(f) ==
    \A i \in DOMAIN f :
        /\ PageFits(f[i])
        /\ f[i].seq = i - 1
        /\ f[i].continued <=> i > 1 /\ IsFull(f[i - 1].segments)
        /\ f[i].bos <=> i = 1

EndIsLast ==
    \A i \in DOMAIN file : file[i].eos => i = Len(file) /\ closed /\ pc = "idle"

(* The page that waits and the one that is open, while nothing was refused *)
(* and the stream has not ended.                                           *)
Alive == ~failed /\ (opened \/ pc # "idle") /\ ~(closed /\ pc = "idle")

Waiting ==
    /\ seq = Len(file)
    /\ \A p, q \in pending : p = q
    /\ \A p \in pending : Follows(p, file) /\ ~p.eos
    /\ continued <=> \E p \in pending : IsFull(p.segments)

Opened ==
    /\ granule # NoGranule => \E n \in DOMAIN segments : segments[n] # SegmentSize
    /\ body # <<>> => segments # <<>>
    /\ pc \in {"packet", "idle"} =>
         /\ Len(segments) < MaxSegments
         /\ segments = <<>> => ~continued
         /\ segments # <<>> => ~IsFull(segments)
    /\ pc = "lace" =>
         /\ Len(segments) <= MaxSegments
         /\ Len(segments) = MaxSegments => IsFull(segments)
    /\ pc = "end" => segments # <<>> /\ Len(segments) <= MaxSegments /\ ~IsFull(segments)

(* No page waits but while the first header is laced, which fits a page.   *)
Beginning ==
    /\ pending = {} =>
         /\ file = <<>> /\ ~opened /\ pc \in {"packet", "lace", "end"}
         /\ Len(packets) = Len(setup.headers) - 1
         /\ pc = "packet" => segments = <<>>
         /\ pc \in {"packet", "lace"} => Len(segments) + Len(rest) < MaxSegments
    /\ pending # {} /\ ~opened => Len(packets) < Len(setup.headers) - 1

OggInv ==
    /\ setup \in Setups
    /\ IsOgg =>
         /\ opened \in BOOLEAN /\ closed \in BOOLEAN /\ failed \in BOOLEAN
         /\ OggTypes /\ Chained(file) /\ EndIsLast
         /\ Alive => Waiting /\ Opened /\ Beginning

(***************************************************************************)
(* Writing a page.                                                         *)
(***************************************************************************)

(* A sequence with something behind it is a sequence.                      *)
LEMMA AppendIsSeq ==
    ASSUME NEW f, f \in Seq(Range(f)), NEW p
    PROVE  /\ Append(f, p) \in Seq(Range(Append(f, p)))
           /\ f \o <<p>> = Append(f, p)
           /\ Len(f) \in Nat /\ Len(Append(f, p)) = Len(f) + 1
           /\ DOMAIN f = 1..Len(f) /\ DOMAIN Append(f, p) = 1..(Len(f) + 1)
           /\ \A i \in 1..Len(f) : Append(f, p)[i] = f[i]
           /\ Append(f, p)[Len(f) + 1] = p
           /\ f = <<>> <=> Len(f) = 0
<1> DEFINE S == Range(f) \union {p}
           g == Append(f, p)
<1>1. \A i \in 1..Len(f) : f[i] \in Range(f)
  BY DEF Range
<1>2. f \in Seq(S) /\ p \in S
  BY SMT DEF Range
<1> HIDE DEF S
<1>3. /\ g \in Seq(S) /\ f \o <<p>> = g
      /\ Len(f) \in Nat /\ Len(g) = Len(f) + 1
      /\ DOMAIN f = 1..Len(f) /\ DOMAIN g = 1..(Len(f) + 1)
      /\ \A i \in 1..Len(f) : g[i] = f[i]
      /\ g[Len(f) + 1] = p
      /\ f = <<>> <=> Len(f) = 0
  BY <1>2
<1>4. g \in Seq(Range(g))
  BY <1>3, SeqOfRange
<1> QED BY <1>3, <1>4

(* stickyWriter.Write writes a page or refuses it, and then everything.    *)
LEMMA WriteStep ==
    ASSUME file \in Seq(Range(file)), failed \in BOOLEAN, NEW p, Write(<<p>>)
    PROVE  /\ failed' \in BOOLEAN
           /\ failed => failed'
           /\ failed' => file' = file
           /\ ~failed' => file' = Append(file, p)
<1>1. file \o <<p>> = Append(file, p)
  BY AppendIsSeq
<1>2. CASE failed /\ UNCHANGED medium
  BY <1>2 DEF medium
<1>3. CASE ~failed /\ Written(<<p>>) /\ failed' = failed
  BY <1>1, <1>3 DEF Written
<1>4. CASE ~failed /\ Refused(<<p>>)
  <2>1. \A n \in 0..(Len(<<p>>) - 1) : file \o SubSeq(<<p>>, 1, n) = file
    <3>1. \A n \in 0..(Len(<<p>>) - 1) : n = 0
      OBVIOUS
    <3>2. SubSeq(<<p>>, 1, 0) = <<>>
      OBVIOUS
    <3> QED BY <3>1, <3>2
  <2> QED BY <1>4, <2>1 DEF Refused
<1> QED BY <1>2, <1>3, <1>4 DEF Write

(* A page that follows a file is chained to it.                            *)
LEMMA ChainAppend ==
    ASSUME NEW f, f \in Seq(Range(f)), Chained(f),
           NEW p, Follows(p, f), p.seq = Len(f)
    PROVE  Chained(Append(f, p))
<1> DEFINE g == Append(f, p)
<1>1. /\ Len(f) \in Nat /\ DOMAIN f = 1..Len(f) /\ DOMAIN g = 1..(Len(f) + 1)
      /\ \A i \in 1..Len(f) : g[i] = f[i]
      /\ g[Len(f) + 1] = p
      /\ f = <<>> <=> Len(f) = 0
  BY AppendIsSeq
<1> HIDE DEF g
<1> SUFFICES ASSUME NEW i \in DOMAIN g
             PROVE  /\ PageFits(g[i])
                    /\ g[i].seq = i - 1
                    /\ g[i].continued <=> i > 1 /\ IsFull(g[i - 1].segments)
                    /\ g[i].bos <=> i = 1
  BY DEF Chained, g
<1>2. CASE i \in 1..Len(f)
  <2>1. g[i] = f[i] /\ (i > 1 => g[i - 1] = f[i - 1])
    BY <1>1, <1>2
  <2> QED BY <1>1, <1>2, <2>1 DEF Chained
<1>3. CASE i = Len(f) + 1
  <2>1. g[i] = p /\ (i > 1 => g[i - 1] = f[Len(f)]) /\ (i > 1 <=> f # <<>>)
    BY <1>1, <1>3
  <2> QED BY <1>1, <1>3, <2>1 DEF Follows
<1> QED BY <1>1, <1>2, <1>3

(* Numbering a page changes nothing else of it.                            *)
LEMMA NumberedFollows ==
    ASSUME NEW p, NEW f, Follows(p, f)
    PROVE  /\ Follows(Numbered(p), f)
           /\ Numbered(p).seq = seq
           /\ Numbered(p).eos = p.eos
           /\ Numbered(p).segments = p.segments
BY DEF Follows, Numbered, PageFits

(* emit writes the page that waits behind the others, or nothing.          *)
LEMMA EmitStep ==
    ASSUME file \in Seq(Range(file)), seq \in Nat, failed \in BOOLEAN,
           Chained(file), NEW p, Emit(p),
           ~failed => Follows(p, file) /\ seq = Len(file)
    PROVE  /\ failed' \in BOOLEAN
           /\ failed => failed'
           /\ file' \in Seq(Range(file')) /\ Chained(file') /\ seq' \in Nat
           /\ failed' => file' = file
           /\ ~failed' => /\ seq' = Len(file') /\ file' # <<>>
                          /\ file' = Append(file, Numbered(p))
                          /\ file'[Len(file')].segments = p.segments
<1>1. /\ failed' \in BOOLEAN
      /\ failed => failed'
      /\ failed' => file' = file
      /\ ~failed' => file' = Append(file, Numbered(p))
      /\ seq' = seq + 1
  BY WriteStep DEF Emit
<1>2. CASE failed'
  BY <1>1, <1>2
<1>3. CASE ~failed'
  <2>1. file' = Append(file, Numbered(p)) /\ ~failed
    BY <1>1, <1>3
  <2>2. Follows(Numbered(p), file) /\ Numbered(p).seq = Len(file)
        /\ Numbered(p).segments = p.segments
    BY <2>1, NumberedFollows
  <2>3. Chained(file')
    BY <2>1, <2>2, ChainAppend
  <2>4. /\ file' \in Seq(Range(file'))
        /\ Len(file') = Len(file) + 1
        /\ file'[Len(file')] = Numbered(p)
        /\ file' # <<>>
    <3>1. Len(file) \in Nat
      BY AppendIsSeq
    <3>2. /\ Append(file, Numbered(p)) \in Seq(Range(Append(file, Numbered(p))))
          /\ Len(Append(file, Numbered(p))) = Len(file) + 1
          /\ Append(file, Numbered(p))[Len(file) + 1] = Numbered(p)
      BY AppendIsSeq
    <3>3. Append(file, Numbered(p)) # <<>>
      BY <3>1, <3>2
    <3> QED BY <2>1, <3>2, <3>3
  <2> QED BY <1>1, <1>3, <2>1, <2>2, <2>3, <2>4
<1> QED BY <1>2, <1>3

NoEnd(f) == \A i \in DOMAIN f : ~f[i].eos

(* cut writes the page that waits, and lets another wait that follows it.  *)
LEMMA CutStep ==
    ASSUME file \in Seq(Range(file)), seq \in Nat, failed \in BOOLEAN,
           Chained(file), NoEnd(file),
           NEW page, NEW goesOn \in BOOLEAN, Cut(page, goesOn),
           ~failed => /\ Waiting
                      /\ PageFits(page) /\ ~page.eos
                      /\ page.continued <=> continued
                      /\ page.bos <=> pending = {}
                      /\ pending = {} => file = <<>>
                      /\ goesOn <=> IsFull(page.segments)
    PROVE  /\ failed' \in BOOLEAN
           /\ failed => failed'
           /\ file' \in Seq(Range(file')) /\ Chained(file') /\ NoEnd(file') /\ seq' \in Nat
           /\ segments' = <<>> /\ body' = <<>> /\ continued' = goesOn /\ granule' = NoGranule
           /\ segments' \in Lacing /\ continued' \in BOOLEAN
           /\ pending' = {page}
           /\ ~failed' => Waiting'
<1>0. <<>> \in Lacing
  BY DEF Lacing
<1>1. /\ segments' = <<>> /\ body' = <<>> /\ continued' = goesOn /\ granule' = NoGranule
      /\ pending' = {page}
  BY DEF Cut, NewPage
<1>4. segments' \in Lacing /\ continued' \in BOOLEAN
  BY <1>0, <1>1
<1>2. CASE pending = {} /\ UNCHANGED <<medium, seq>>
  <2>1. file' = file /\ failed' = failed /\ seq' = seq
    BY <1>2 DEF medium
  <2>2. ASSUME ~failed'
        PROVE  Waiting'
    <3>1. /\ Waiting /\ PageFits(page) /\ ~page.eos
          /\ page.continued <=> continued
          /\ page.bos
          /\ file = <<>>
          /\ goesOn <=> IsFull(page.segments)
      BY <1>2, <2>1, <2>2
    <3>2. ~continued
      BY <1>2, <3>1 DEF Waiting
    <3>3. Follows(page, file)
      BY <3>1, <3>2 DEF Follows
    <3> QED BY <1>1, <2>1, <3>1, <3>3 DEF Waiting
  <2> QED BY <1>1, <1>4, <2>1, <2>2
<1>3. ASSUME NEW waiting \in pending, Emit(waiting)
      PROVE  /\ failed' \in BOOLEAN
             /\ failed => failed'
             /\ file' \in Seq(Range(file')) /\ Chained(file') /\ NoEnd(file') /\ seq' \in Nat
             /\ ~failed' => Waiting'
  <2>1. ~failed => Follows(waiting, file) /\ ~waiting.eos /\ seq = Len(file)
    BY DEF Waiting
  <2>2. /\ failed' \in BOOLEAN
        /\ failed => failed'
        /\ file' \in Seq(Range(file')) /\ Chained(file') /\ seq' \in Nat
        /\ failed' => file' = file
        /\ ~failed' => /\ seq' = Len(file') /\ file' # <<>>
                       /\ file' = Append(file, Numbered(waiting))
                       /\ file'[Len(file')].segments = waiting.segments
    BY <1>3, <2>1, EmitStep
  <2>3. NoEnd(file')
    <3>1. CASE failed'
      BY <2>2, <3>1
    <3>2. CASE ~failed'
      <4>1. ~Numbered(waiting).eos
        BY <2>1, <2>2, <3>2, NumberedFollows
      <4>2. /\ DOMAIN file = 1..Len(file) /\ DOMAIN file' = 1..(Len(file) + 1)
            /\ \A i \in 1..Len(file) : file'[i] = file[i]
            /\ file'[Len(file) + 1] = Numbered(waiting)
            /\ Len(file) \in Nat
        BY <2>2, <3>2, AppendIsSeq
      <4>3. \A i \in DOMAIN file' : i \in 1..Len(file) \/ i = Len(file) + 1
        BY <4>2
      <4> QED BY <4>1, <4>2, <4>3 DEF NoEnd
    <3> QED BY <3>1, <3>2
  <2>4. ASSUME ~failed'
        PROVE  Waiting'
    <3>1. ~failed
      BY <2>2, <2>4
    <3>2. /\ PageFits(page) /\ ~page.eos
          /\ page.continued <=> continued
          /\ ~page.bos
          /\ goesOn <=> IsFull(page.segments)
      BY <3>1
    <3>3. continued <=> IsFull(waiting.segments)
      BY <3>1 DEF Waiting
    <3>4. Follows(page, file')
      BY <2>2, <2>4, <3>2, <3>3 DEF Follows
    <3> QED BY <1>1, <2>2, <2>4, <3>2, <3>4 DEF Waiting
  <2> QED BY <2>2, <2>3, <2>4
<1> QED BY <1>1, <1>2, <1>3, <1>4 DEF Cut

(***************************************************************************)
(* The steps.                                                              *)
(***************************************************************************)

(* What is known inside a call.                                            *)
LEMMA InCall ==
    ASSUME OggInv, IsOgg, pc # "idle"
    PROVE  /\ OggTypes /\ Chained(file) /\ NoEnd(file)
           /\ failed \in BOOLEAN
           /\ ~failed => Waiting /\ Opened /\ Beginning
BY DEF OggInv, EndIsLast, NoEnd, Alive

(* A step inside a call keeps the file free of an end.                     *)
LEMMA NoEndStays ==
    ASSUME NoEnd(file')
    PROVE  EndIsLast'
BY DEF NoEnd, EndIsLast

(* The open page, as cut behind a packet or inside one.                    *)
LEMMA OpenPageFits ==
    ASSUME segments \in Lacing, segments # <<>>, Len(segments) <= MaxSegments,
           granule # NoGranule => \E n \in DOMAIN segments : segments[n] # SegmentSize,
           NEW bos \in BOOLEAN
    PROVE  /\ PageFits(OpenPage(bos)) /\ ~OpenPage(bos).eos
           /\ OpenPage(bos).continued = continued
           /\ OpenPage(bos).bos = bos
           /\ OpenPage(bos).segments = segments
<1>1. Len(segments) \in 1..MaxSegments
  BY DEF Lacing
<1> QED BY <1>1 DEF OpenPage, PageFits

(* packet begins: on the open page, or on a new one.                       *)
LEMMA StartPacketKeeps ==
    ASSUME OggInv, IsOgg, StartPacket
    PROVE  OggInv'
<1> USE DEF StartPacket
<1>1. /\ OggTypes /\ Chained(file) /\ NoEnd(file)
      /\ failed \in BOOLEAN
      /\ ~failed => Waiting /\ Opened /\ Beginning
  BY InCall
<1>2. /\ setup' \in Setups /\ opened' \in BOOLEAN /\ closed' \in BOOLEAN
      /\ setup' = setup /\ taken' = taken /\ pc' = "lace"
      /\ opened' = opened /\ packets' = packets /\ rest' = rest
  BY DEF OggInv
<1>3. CASE Fits
  <2>1. /\ file' = file /\ failed' = failed /\ seq' = seq /\ pending' = pending
        /\ segments' = segments /\ body' = body /\ continued' = continued /\ granule' = granule
    BY <1>3 DEF medium, openPage
  <2>2. OggTypes' /\ Chained(file)' /\ EndIsLast'
    BY <1>1, <1>2, <2>1, NoEndStays DEF OggTypes
  <2>3. ~failed => Waiting' /\ Opened' /\ Beginning'
    <3>1. ASSUME ~failed
          PROVE  Waiting' /\ Opened'
      <4>1. Waiting /\ Opened
        BY <1>1, <3>1
      <4>2. Waiting'
        BY <2>1, <4>1 DEF Waiting
      <4>3. Len(segments) < MaxSegments /\ Len(segments) \in Nat
        BY <1>1, <4>1 DEF Opened, OggTypes, Lacing
      <4>4. Opened'
        BY <1>2, <2>1, <4>1, <4>3, OggAssumption DEF Opened
      <4> QED BY <4>2, <4>4
    <3>2. ASSUME ~failed
          PROVE  Beginning'
      BY <1>1, <1>2, <2>1, <3>2 DEF Beginning
    <3> QED BY <3>1, <3>2
  <2> QED BY <1>1, <1>2, <2>1, <2>2, <2>3 DEF OggInv, Alive
<1>4. CASE ~Fits
  <2>1. Cut(OpenPage(FALSE), FALSE)
    BY <1>4
  <2>2. ASSUME ~failed
        PROVE  /\ Waiting
               /\ PageFits(OpenPage(FALSE)) /\ ~OpenPage(FALSE).eos
               /\ OpenPage(FALSE).continued <=> continued
               /\ OpenPage(FALSE).bos <=> pending = {}
               /\ pending = {} => file = <<>>
               /\ FALSE <=> IsFull(OpenPage(FALSE).segments)
               /\ pending # {}
    <3>1. segments # <<>> /\ Len(segments) < MaxSegments /\ ~IsFull(segments)
      BY <1>1, <1>4, <2>2 DEF Opened, Fits
    <3>2. pending # {}
      BY <1>1, <2>2, <3>1 DEF Beginning
    <3>3. segments \in Lacing /\ Len(segments) <= MaxSegments
      BY <1>1, <3>1, OggAssumption DEF OggTypes, Lacing
    <3>4. /\ PageFits(OpenPage(FALSE)) /\ ~OpenPage(FALSE).eos
          /\ OpenPage(FALSE).continued = continued
          /\ OpenPage(FALSE).bos = FALSE
          /\ OpenPage(FALSE).segments = segments
      BY <1>1, <2>2, <3>1, <3>3, OpenPageFits DEF Opened
    <3> QED BY <1>1, <2>2, <3>1, <3>2, <3>4
  <2>3. /\ failed' \in BOOLEAN
        /\ failed => failed'
        /\ file' \in Seq(Range(file')) /\ Chained(file') /\ NoEnd(file') /\ seq' \in Nat
        /\ segments' = <<>> /\ body' = <<>> /\ continued' = FALSE /\ granule' = NoGranule
        /\ segments' \in Lacing /\ continued' \in BOOLEAN
        /\ pending' = {OpenPage(FALSE)}
        /\ ~failed' => Waiting'
    BY <1>1, <2>1, <2>2, CutStep DEF OggTypes
  <2>4. OggTypes' /\ Chained(file)' /\ EndIsLast'
    <3>1. segments' \in Lacing /\ continued' \in BOOLEAN
      BY <2>3
    <3>2. rest' \in Packet /\ packets' \in Seq(Packet)
      BY <1>1, <1>2 DEF OggTypes
    <3>3. OggTypes'
      BY <1>1, <1>2, <2>3, <3>1, <3>2 DEF OggTypes
    <3> QED BY <2>3, <3>3, NoEndStays
  <2>5. ASSUME ~failed'
        PROVE  Waiting' /\ Opened' /\ Beginning'
    <3>1. Waiting' /\ ~failed
      BY <2>3, <2>5
    <3>2. Opened'
      BY <1>2, <2>3, OggAssumption DEF Opened
    <3>3. Beginning'
      <4>1. pending # {} /\ Beginning
        BY <1>1, <2>2, <3>1
      <4>2. pending' # {}
        BY <2>3
      <4> QED BY <1>2, <4>1, <4>2 DEF Beginning
    <3> QED BY <3>1, <3>2, <3>3
  <2> QED BY <1>2, <2>3, <2>4, <2>5 DEF OggInv, Alive
<1> QED BY <1>3, <1>4

(* What lacing a segment leaves of a packet, and makes of the page.        *)
LEMMA Laced ==
    ASSUME segments \in Lacing, rest \in Packet, NEW n \in 0..SegmentSize, n <= Len(rest),
           segments' = Append(segments, n), rest' = SubSeq(rest, n + 1, Len(rest))
    PROVE  /\ segments' \in Lacing /\ segments' # <<>>
           /\ Len(segments) \in Nat /\ Len(segments') = Len(segments) + 1
           /\ segments'[Len(segments')] = n
           /\ \A i \in DOMAIN segments : i \in DOMAIN segments' /\ segments'[i] = segments[i]
           /\ rest' \in Packet /\ Len(rest) \in Nat /\ Len(rest') = Len(rest) - n
<1>1. Len(segments) \in Nat /\ Len(rest) \in Nat /\ SegmentSize \in Nat
  BY OggAssumption DEF Lacing, Packet
<1>2. /\ segments' \in Lacing
      /\ Len(segments') = Len(segments) + 1
      /\ segments'[Len(segments')] = n
      /\ \A i \in 1..Len(segments) : segments'[i] = segments[i]
      /\ DOMAIN segments = 1..Len(segments) /\ DOMAIN segments' = 1..Len(segments')
  BY DEF Lacing
<1>3. segments' # <<>>
  <2>1. Len(segments') # 0
    BY <1>1, <1>2
  <2> QED BY <2>1
<1>4. \A i \in DOMAIN segments : i \in DOMAIN segments'
  BY <1>1, <1>2
<1>5. rest' \in Packet /\ Len(rest') = Len(rest) - n
  <2>1. n + 1 \in 1..(Len(rest) + 1)
    BY <1>1
  <2>2. /\ SubSeq(rest, n + 1, Len(rest)) \in Packet
        /\ Len(SubSeq(rest, n + 1, Len(rest))) =
             IF n + 1 <= Len(rest) THEN Len(rest) - (n + 1) + 1 ELSE 0
    BY <1>1, <2>1, SMT DEF Packet
  <2> QED BY <1>1, <2>1, <2>2
<1> QED BY <1>1, <1>2, <1>3, <1>4, <1>5

(* A segment laced.                                                        *)
LEMMA LaceSegmentKeeps ==
    ASSUME OggInv, IsOgg, LaceSegment
    PROVE  OggInv'
<1> DEFINE n == IF Len(rest) < SegmentSize THEN Len(rest) ELSE SegmentSize
<1>1. /\ OggTypes /\ Chained(file) /\ NoEnd(file)
      /\ failed \in BOOLEAN
      /\ ~failed => Waiting /\ Opened /\ Beginning
  BY InCall DEF LaceSegment
<1>2. /\ setup' \in Setups /\ opened' \in BOOLEAN /\ closed' \in BOOLEAN
      /\ setup' = setup /\ opened' = opened /\ closed' = closed /\ packets' = packets
      /\ taken' = taken
      /\ file' = file /\ failed' = failed /\ seq' = seq /\ pending' = pending
      /\ continued' = continued /\ granule' = granule
  BY DEF LaceSegment, OggInv, medium
<1>3. /\ pc = "lace" /\ Len(segments) < MaxSegments
      /\ segments' = Append(segments, n) /\ rest' = SubSeq(rest, n + 1, Len(rest))
      /\ pc' = IF Len(rest) < SegmentSize THEN "end" ELSE "lace"
  BY DEF LaceSegment, EndsHere
<1>4. /\ SegmentSize \in Nat \ {0} /\ MaxSegments \in Nat
      /\ segments \in Lacing /\ rest \in Packet /\ Len(rest) \in Nat
  BY <1>1, OggAssumption DEF OggTypes, Packet
<1>5. n \in 0..SegmentSize /\ n <= Len(rest) /\ (n = SegmentSize <=> ~(Len(rest) < SegmentSize))
  BY <1>4
<1>6. /\ segments' \in Lacing /\ segments' # <<>>
      /\ Len(segments) \in Nat /\ Len(segments') = Len(segments) + 1
      /\ segments'[Len(segments')] = n
      /\ \A i \in DOMAIN segments : i \in DOMAIN segments' /\ segments'[i] = segments[i]
      /\ rest' \in Packet /\ Len(rest') = Len(rest) - n
  BY <1>3, <1>4, <1>5, Laced
<1> HIDE DEF n
<1>7. OggTypes' /\ Chained(file)' /\ EndIsLast'
  <2>1. OggTypes'
    BY <1>1, <1>2, <1>3, <1>6 DEF OggTypes
  <2> QED BY <1>1, <1>2, <2>1, NoEndStays
<1>8. ASSUME ~failed
      PROVE  Waiting' /\ Opened' /\ Beginning'
  <2>1. Waiting /\ Opened /\ Beginning
    BY <1>1, <1>8
  <2>2. Waiting'
    BY <1>2, <2>1 DEF Waiting
  <2>3. Opened'
    <3>1. granule' # NoGranule => \E i \in DOMAIN segments' : segments'[i] # SegmentSize
      BY <1>2, <1>6, <2>1 DEF Opened
    <3>2. pc' = "lace" => Len(segments') <= MaxSegments /\ IsFull(segments')
      BY <1>3, <1>4, <1>5, <1>6 DEF IsFull
    <3>3. pc' = "end" => Len(segments') <= MaxSegments /\ ~IsFull(segments')
      BY <1>3, <1>4, <1>5, <1>6 DEF IsFull
    <3> QED BY <1>3, <1>6, <3>1, <3>2, <3>3 DEF Opened
  <2>4. Beginning'
    <3>1. CASE pending = {}
      <4>1. /\ file = <<>> /\ ~opened
            /\ Len(packets) = Len(setup.headers) - 1
            /\ Len(segments) + Len(rest) < MaxSegments
        BY <1>3, <2>1, <3>1 DEF Beginning
      <4>2. pc' = "lace" => Len(segments') + Len(rest') < MaxSegments
        <5>1. pc' = "lace" => n \in Nat \ {0}
          BY <1>3, <1>4, <1>5
        <5>2. n \in Nat \ {0} => Len(segments') + Len(rest') < MaxSegments
          <6>1. Len(segments) \in Nat /\ Len(rest) \in Nat /\ MaxSegments \in Nat
            BY <1>4, <1>6
          <6>2. Len(segments') = Len(segments) + 1 /\ Len(rest') = Len(rest) - n
            BY <1>6
          <6> QED BY <4>1, <6>1, <6>2
        <5> QED BY <5>1, <5>2
      <4> QED BY <1>2, <1>3, <3>1, <4>1, <4>2 DEF Beginning
    <3>2. CASE pending # {}
      BY <1>2, <2>1, <3>2 DEF Beginning
    <3> QED BY <3>1, <3>2
  <2> QED BY <2>2, <2>3, <2>4
<1> QED BY <1>2, <1>7, <1>8 DEF OggInv, Alive

(* A packet that goes on behind a full page.                               *)
LEMMA ContinuePacketKeeps ==
    ASSUME OggInv, IsOgg, ContinuePacket
    PROVE  OggInv'
<1>1. /\ OggTypes /\ Chained(file) /\ NoEnd(file)
      /\ failed \in BOOLEAN
      /\ ~failed => Waiting /\ Opened /\ Beginning
  BY InCall DEF ContinuePacket
<1>2. /\ setup' \in Setups /\ opened' \in BOOLEAN /\ closed' \in BOOLEAN
      /\ setup' = setup /\ taken' = taken /\ pc = "lace" /\ pc' = "lace"
      /\ opened' = opened /\ packets' = packets /\ rest' = rest
      /\ Len(segments) = MaxSegments
      /\ Cut(OpenPage(FALSE), TRUE)
  BY DEF ContinuePacket, OggInv
<1>3. /\ segments \in Lacing /\ Len(segments) <= MaxSegments /\ segments # <<>>
      /\ MaxSegments \in Nat \ {0} /\ Len(rest) \in Nat
  BY <1>1, <1>2, OggAssumption DEF OggTypes, Lacing, Packet
<1>4. ASSUME ~failed
      PROVE  /\ Waiting
             /\ PageFits(OpenPage(FALSE)) /\ ~OpenPage(FALSE).eos
             /\ OpenPage(FALSE).continued <=> continued
             /\ OpenPage(FALSE).bos <=> pending = {}
             /\ pending = {} => file = <<>>
             /\ TRUE <=> IsFull(OpenPage(FALSE).segments)
             /\ pending # {}
  <2>1. Waiting /\ Opened /\ Beginning
    BY <1>1, <1>4
  <2>2. pending # {}
    BY <1>2, <1>3, <2>1 DEF Beginning
  <2>3. IsFull(segments)
    BY <1>2, <2>1 DEF Opened
  <2>4. /\ PageFits(OpenPage(FALSE)) /\ ~OpenPage(FALSE).eos
        /\ OpenPage(FALSE).continued = continued
        /\ OpenPage(FALSE).bos = FALSE
        /\ OpenPage(FALSE).segments = segments
    BY <1>3, <2>1, OpenPageFits DEF Opened
  <2> QED BY <2>1, <2>2, <2>3, <2>4
<1>5. /\ failed' \in BOOLEAN
      /\ failed => failed'
      /\ file' \in Seq(Range(file')) /\ Chained(file') /\ NoEnd(file') /\ seq' \in Nat
      /\ segments' = <<>> /\ body' = <<>> /\ continued' = TRUE /\ granule' = NoGranule
      /\ segments' \in Lacing /\ continued' \in BOOLEAN
      /\ pending' = {OpenPage(FALSE)}
      /\ ~failed' => Waiting'
  BY <1>1, <1>2, <1>4, CutStep DEF OggTypes
<1>6. OggTypes' /\ Chained(file)' /\ EndIsLast'
  <2>1. segments' \in Lacing /\ continued' \in BOOLEAN
    BY <1>5
  <2>2. rest' \in Packet /\ packets' \in Seq(Packet)
    BY <1>1, <1>2 DEF OggTypes
  <2>3. OggTypes'
    BY <1>1, <1>2, <1>5, <2>1, <2>2 DEF OggTypes
  <2> QED BY <1>5, <2>3, NoEndStays
<1>7. ASSUME ~failed'
      PROVE  Waiting' /\ Opened' /\ Beginning'
  <2>1. Waiting' /\ ~failed
    BY <1>5, <1>7
  <2>2. Opened'
    BY <1>2, <1>3, <1>5 DEF Opened
  <2>3. Beginning'
    <3>1. pending # {} /\ Beginning
      BY <1>1, <1>4, <2>1
    <3>2. pending' # {}
      BY <1>5
    <3> QED BY <1>2, <3>1, <3>2 DEF Beginning
  <2> QED BY <2>1, <2>2, <2>3
<1> QED BY <1>2, <1>5, <1>6, <1>7 DEF OggInv, Alive

(* The end of a packet: the page is cut, or stays open; then comes the     *)
(* next packet of the call, or the call returns.                           *)
LEMMA EndPacketKeeps ==
    ASSUME OggInv, IsOgg, EndPacket
    PROVE  OggInv'
<1>1. /\ OggTypes /\ Chained(file) /\ NoEnd(file)
      /\ failed \in BOOLEAN
      /\ ~failed => Waiting /\ Opened /\ Beginning
  BY InCall DEF EndPacket
<1>2. /\ setup' \in Setups /\ setup' = setup /\ taken' = taken /\ pc = "end"
      /\ opened \in BOOLEAN /\ closed' \in BOOLEAN /\ closed' = closed
  BY DEF EndPacket, OggInv, SampleWritten, TrackAdded
<1>3. \/ /\ packets # <<>>
         /\ rest' = Head(packets) /\ packets' = Tail(packets)
         /\ pc' = "packet" /\ opened' = opened
      \/ /\ packets = <<>> /\ packets' = packets /\ rest' = rest
         /\ pc' = "idle"
         /\ IF opened THEN opened' = opened ELSE opened' = ~failed'
  BY DEF EndPacket, SampleWritten, TrackAdded
<1>4. /\ rest' \in Packet /\ packets' \in Seq(Packet)
      /\ Len(packets) \in Nat
      /\ packets # <<>> => Len(packets') = Len(packets) - 1 /\ Len(packets) > 0
      /\ packets = <<>> => Len(packets) = 0
  <2>1. rest \in Packet /\ packets \in Seq(Packet)
    BY <1>1 DEF OggTypes
  <2> QED BY <1>3, <2>1
<1>5. /\ MaxSegments \in Nat \ {0}
      /\ Len(setup.headers) \in Nat /\ Len(setup.headers) > 1
  BY <1>2, OggAssumption DEF OggInv, IsOgg
<1>6. ASSUME ~failed'
      PROVE  opened' \/ packets # <<>>
  BY <1>2, <1>3, <1>6
<1>7. CASE EndsPage
  <2>1. Cut(Ended, FALSE)
    BY <1>7 DEF EndPacket
  <2>2. ASSUME ~failed
        PROVE  /\ Waiting
               /\ PageFits(Ended) /\ ~Ended.eos
               /\ Ended.continued <=> continued
               /\ Ended.bos <=> pending = {}
               /\ pending = {} => file = <<>>
               /\ FALSE <=> IsFull(Ended.segments)
    <3>1. Waiting /\ Opened /\ Beginning
      BY <1>1, <2>2
    <3>2. segments # <<>> /\ Len(segments) <= MaxSegments /\ ~IsFull(segments)
      BY <1>2, <3>1 DEF Opened
    <3>3. segments \in Lacing /\ Len(segments) \in 1..MaxSegments /\ Len(segments) \in DOMAIN segments
      BY <1>1, <1>5, <3>2 DEF OggTypes, Lacing
    <3>4. /\ Ended.segments = segments /\ Ended.continued = continued
          /\ Ended.bos = FirstHeader /\ Ended.eos = FALSE
      BY DEF Ended
    <3>5. PageFits(Ended)
      BY <3>2, <3>3, <3>4 DEF PageFits, IsFull
    <3>6. FirstHeader <=> pending = {}
      <4>1. CASE pending = {}
        <5>1. ~opened /\ Len(packets) = Len(setup.headers) - 1 /\ file = <<>>
          BY <3>1, <4>1 DEF Beginning
        <5>2. packets # <<>>
          BY <1>4, <1>5, <5>1
        <5> QED BY <4>1, <5>1, <5>2 DEF FirstHeader
      <4>2. CASE pending # {}
        <5>1. ~opened => Len(packets) < Len(setup.headers) - 1
          BY <3>1, <4>2 DEF Beginning
        <5> QED BY <1>4, <1>5, <4>2, <5>1 DEF FirstHeader
      <4> QED BY <4>1, <4>2
    <3>7. pending = {} => file = <<>>
      BY <3>1 DEF Beginning
    <3> QED BY <3>1, <3>2, <3>4, <3>5, <3>6, <3>7
  <2>3. /\ failed' \in BOOLEAN
        /\ failed => failed'
        /\ file' \in Seq(Range(file')) /\ Chained(file') /\ NoEnd(file') /\ seq' \in Nat
        /\ segments' = <<>> /\ body' = <<>> /\ continued' = FALSE /\ granule' = NoGranule
        /\ segments' \in Lacing /\ continued' \in BOOLEAN
        /\ pending' = {Ended}
        /\ ~failed' => Waiting'
    BY <1>1, <2>1, <2>2, CutStep DEF OggTypes
  <2>4. OggTypes' /\ Chained(file)' /\ EndIsLast' /\ opened' \in BOOLEAN
    <3>1. opened' \in BOOLEAN
      BY <1>2, <1>3, <2>3
    <3>2. segments' \in Lacing /\ continued' \in BOOLEAN
      BY <2>3
    <3>3. pc' \in {"packet", "idle"} /\ (pc' = "idle" /\ ~opened' => failed')
      BY <1>2, <1>3, <2>3
    <3>4. OggTypes'
      BY <1>1, <1>2, <1>4, <2>3, <3>2, <3>3 DEF OggTypes
    <3> QED BY <2>3, <3>1, <3>4, NoEndStays
  <2>5. ASSUME ~failed'
        PROVE  Waiting' /\ Opened' /\ Beginning'
    <3>1. Waiting' /\ ~failed
      BY <2>3, <2>5
    <3>2. Opened'
      <4>1. pc' \in {"packet", "idle"} /\ Len(segments') = 0
        BY <1>3, <2>3
      <4> QED BY <1>5, <2>3, <4>1 DEF Opened
    <3>3. Beginning'
      <4>1. pending' # {}
        BY <2>3
      <4>2. ~opened' => packets # <<>> /\ ~opened
        BY <1>3, <1>6, <2>5
      <4>3. ~opened /\ packets # <<>> => Len(packets') < Len(setup'.headers) - 1
        <5>1. ~opened => Len(packets) <= Len(setup.headers) - 1
          <6>1. Beginning
            BY <1>1, <3>1
          <6> QED BY <1>4, <1>5, <6>1 DEF Beginning
        <5> QED BY <1>2, <1>4, <1>5, <5>1
      <4> QED BY <4>1, <4>2, <4>3 DEF Beginning
    <3> QED BY <3>1, <3>2, <3>3
  <2> QED BY <1>2, <2>3, <2>4, <2>5 DEF OggInv, Alive
<1>8. CASE ~EndsPage
  <2>1. /\ file' = file /\ failed' = failed /\ seq' = seq /\ pending' = pending
        /\ segments' = segments /\ body' = body /\ continued' = continued /\ granule' = position
    BY <1>8 DEF EndPacket, medium
  <2>2. OggTypes' /\ Chained(file)' /\ EndIsLast' /\ opened' \in BOOLEAN
    <3>1. opened' \in BOOLEAN
      BY <1>1, <1>2, <1>3, <2>1
    <3>2. pc' \in {"packet", "idle"} /\ (pc' = "idle" /\ ~opened' => failed')
      BY <1>1, <1>2, <1>3, <2>1
    <3>3. OggTypes'
      BY <1>1, <1>2, <1>4, <2>1, <3>2 DEF OggTypes
    <3> QED BY <1>1, <2>1, <3>1, <3>3, NoEndStays
  <2>3. ASSUME ~failed'
        PROVE  Waiting' /\ Opened' /\ Beginning'
    <3>1. Waiting /\ Opened /\ Beginning
      BY <1>1, <2>1, <2>3
    <3>2. Waiting'
      BY <2>1, <3>1 DEF Waiting
    <3>3. pending # {}
      <4>1. ASSUME pending = {}
            PROVE  FALSE
        <5>1. ~opened /\ Len(packets) = Len(setup.headers) - 1
          BY <3>1, <4>1 DEF Beginning
        <5>2. packets # <<>>
          BY <1>4, <1>5, <5>1
        <5> QED BY <1>8, <5>1, <5>2 DEF EndsPage, FirstHeader
      <4> QED BY <4>1
    <3>4. Opened'
      <4>1. segments # <<>> /\ Len(segments) <= MaxSegments /\ ~IsFull(segments)
        BY <1>2, <3>1 DEF Opened
      <4>2. Len(segments) < MaxSegments /\ Len(segments) \in DOMAIN segments
        <5>1. Len(segments) # MaxSegments
          BY <1>8 DEF EndsPage
        <5> QED BY <1>1, <1>5, <4>1, <5>1 DEF OggTypes, Lacing
      <4>3. pc' \in {"packet", "idle"}
        BY <1>3
      <4> QED BY <2>1, <4>1, <4>2, <4>3 DEF Opened, IsFull
    <3>5. Beginning'
      <4>1. ~opened' => packets # <<>> /\ ~opened
        BY <1>3, <1>6, <2>3
      <4>2. ~opened /\ packets # <<>> => Len(packets') < Len(setup'.headers) - 1
        <5>1. ~opened => Len(packets) < Len(setup.headers) - 1
          BY <3>1, <3>3 DEF Beginning
        <5> QED BY <1>2, <1>4, <1>5, <5>1
      <4> QED BY <2>1, <3>3, <4>1, <4>2 DEF Beginning
    <3> QED BY <3>2, <3>4, <3>5
  <2> QED BY <1>2, <2>1, <1>1, <2>2, <2>3 DEF OggInv, Alive
<1> QED BY <1>7, <1>8

(* The bytes of a packet.                                                  *)
LEMMA BytesType ==
    ASSUME NEW n \in Int, NEW len \in Nat
    PROVE  Bytes(n, len) \in Packet /\ Len(Bytes(n, len)) = len
BY DEF Bytes, Packet

(* A track is added: its header packets are to be written, the first one   *)
(* of them small enough for a page of its own.                             *)
LEMMA AddTrackKeeps ==
    ASSUME OggInv, IsOgg, OggAddTrack
    PROVE  OggInv'
<1>1. /\ OggTypes /\ Chained(file) /\ EndIsLast /\ failed \in BOOLEAN
      /\ setup \in Setups /\ closed = FALSE /\ opened = FALSE /\ pc = "idle"
  BY DEF OggInv, OggAddTrack, CanAddTrack
<1>2. /\ setup' = setup /\ opened' = opened /\ closed' = closed /\ taken' = taken
      /\ file' = file /\ failed' = failed
      /\ segments' = <<>> /\ body' = <<>> /\ continued' = FALSE /\ granule' = NoGranule
      /\ pending' = {} /\ seq' = 0 /\ pc' = "packet"
      /\ rest' = Bytes(-1, setup.headers[1])
      /\ packets' = [i \in 1..(Len(setup.headers) - 1) |-> Bytes(-i - 1, setup.headers[i + 1])]
  BY DEF OggAddTrack, medium
<1>3. /\ setup.headers \in Seq(Nat \ {0}) /\ Len(setup.headers) > 1
      /\ setup.headers[1] < MaxSegments /\ MaxSegments \in Nat
      /\ Len(setup.headers) \in Nat /\ setup.headers[1] \in Nat
  BY <1>1, OggAssumption DEF IsOgg
<1>4. rest' \in Packet /\ Len(rest') = setup.headers[1]
  <2>1. -1 \in Int
    OBVIOUS
  <2>2. Bytes(-1, setup.headers[1]) \in Packet /\ Len(Bytes(-1, setup.headers[1])) = setup.headers[1]
    BY <1>3, <2>1, BytesType
  <2> QED BY <1>2, <2>2
<1>5. packets' \in Seq(Packet) /\ Len(packets') = Len(setup.headers) - 1
  <2>1. \A i \in 1..(Len(setup.headers) - 1) : Bytes(-i - 1, setup.headers[i + 1]) \in Packet
    <3>1. \A i \in 1..(Len(setup.headers) - 1) : -i - 1 \in Int /\ setup.headers[i + 1] \in Nat
      BY <1>3
    <3> QED BY <3>1, BytesType
  <2> DEFINE n == Len(setup.headers) - 1
             Sent(i) == Bytes(-i - 1, setup.headers[i + 1])
  <2>2. n \in Nat /\ packets' = [i \in 1..n |-> Sent(i)] /\ \A i \in 1..n : Sent(i) \in Packet
    BY <1>2, <1>3, <2>1
  <2> HIDE DEF n, Sent
  <2>3. packets' \in Seq(Packet) /\ Len(packets') = n
    BY <2>2
  <2> QED BY <2>3 DEF n
<1>6. NoEnd(file)
  BY <1>1 DEF EndIsLast, NoEnd
<1>7. OggTypes' /\ Chained(file)' /\ EndIsLast'
  <2>1. segments' \in Lacing
    <3>1. <<>> \in Lacing
      BY DEF Lacing
    <3> QED BY <1>2, <3>1
  <2>2. OggTypes'
    BY <1>1, <1>2, <1>4, <1>5, <2>1 DEF OggTypes
  <2> QED BY <1>1, <1>2, <1>6, <2>2, NoEndStays
<1>8. ASSUME ~failed
      PROVE  Waiting' /\ Opened' /\ Beginning'
  <2>1. file = <<>>
    BY <1>1, <1>8 DEF OggTypes
  <2>2. Waiting'
    BY <1>2, <2>1 DEF Waiting
  <2>3. Opened'
    BY <1>2, <1>3, OggAssumption DEF Opened
  <2>4. Beginning'
    BY <1>1, <1>2, <1>3, <1>4, <1>5, <2>1 DEF Beginning
  <2> QED BY <2>2, <2>3, <2>4
<1> QED BY <1>1, <1>2, <1>7, <1>8 DEF OggInv, Alive

(* A sample is handed over.                                                *)
LEMMA WriteSampleKeeps ==
    ASSUME OggInv, IsOgg, NEW s \in Samples(setup), OggWriteSample(s)
    PROVE  OggInv'
<1>1. /\ OggTypes /\ Chained(file) /\ EndIsLast /\ failed \in BOOLEAN
      /\ setup \in Setups /\ closed = FALSE /\ opened = TRUE /\ pc = "idle"
  BY DEF OggInv, OggWriteSample, CanWriteSample
<1>2. /\ setup' = setup /\ opened' = opened /\ closed' = closed
      /\ file' = file /\ failed' = failed /\ seq' = seq /\ pending' = pending
      /\ segments' = segments /\ body' = body /\ continued' = continued /\ granule' = granule
      /\ packets' = packets /\ pc' = "packet" /\ taken' = Append(taken, s)
      /\ rest' = Bytes(Len(taken), s.len)
  BY DEF OggWriteSample, medium, openPage
<1>3. rest' \in Packet
  <2>1. Len(taken) \in Int
    BY <1>1, AppendIsSeq DEF OggTypes
  <2>2. s.len \in Nat
    BY <1>1, OggAssumption DEF IsOgg
  <2> QED BY <1>2, <2>1, <2>2, BytesType
<1>4. NoEnd(file)
  BY <1>1 DEF EndIsLast, NoEnd
<1>5. OggTypes' /\ Chained(file)' /\ EndIsLast'
  <2>1. taken' \in Seq(Range(taken'))
    BY <1>1, <1>2, AppendIsSeq DEF OggTypes
  <2>2. OggTypes'
    BY <1>1, <1>2, <1>3, <2>1 DEF OggTypes
  <2> QED BY <1>1, <1>2, <1>4, <2>2, NoEndStays
<1>6. ASSUME ~failed
      PROVE  Waiting' /\ Opened' /\ Beginning'
  <2>1. Waiting /\ Opened /\ Beginning
    BY <1>1, <1>6 DEF OggInv, Alive
  <2>2. Waiting'
    BY <1>2, <2>1 DEF Waiting
  <2>3. Opened'
    BY <1>1, <1>2, <2>1 DEF Opened
  <2>4. Beginning'
    BY <1>1, <1>2, <2>1 DEF Beginning
  <2> QED BY <2>2, <2>3, <2>4
<1> QED BY <1>1, <1>2, <1>5, <1>6 DEF OggInv, Alive

(* Close cuts the open page, if anything is on it.                         *)
LEMMA CloseKeeps ==
    ASSUME OggInv, IsOgg, OggClose
    PROVE  OggInv'
<1>1. /\ OggTypes /\ Chained(file) /\ EndIsLast /\ failed \in BOOLEAN
      /\ setup \in Setups /\ closed = FALSE /\ opened = TRUE /\ pc = "idle"
      /\ ~failed => Waiting /\ Opened /\ Beginning
  BY DEF OggInv, OggClose, Alive
<1>2. /\ setup' = setup /\ opened' = opened /\ closed' = TRUE /\ pc' = "last"
      /\ packets' = packets /\ rest' = rest /\ taken' = taken
  BY DEF OggClose
<1>3. NoEnd(file)
  BY <1>1 DEF EndIsLast, NoEnd
<1>4. ~failed => pending # {}
  BY <1>1 DEF Beginning
<1>5. CASE segments = <<>>
  <2>1. /\ file' = file /\ failed' = failed /\ seq' = seq /\ pending' = pending
        /\ segments' = segments /\ body' = body /\ continued' = continued /\ granule' = granule
    BY <1>5 DEF OggClose, medium, openPage
  <2>2. OggTypes' /\ Chained(file)' /\ EndIsLast'
    BY <1>1, <1>2, <1>3, <2>1, NoEndStays DEF OggTypes
  <2>3. ASSUME ~failed
        PROVE  Waiting' /\ Opened' /\ Beginning'
    <3>1. Waiting'
      BY <1>1, <2>1, <2>3 DEF Waiting
    <3>2. Opened'
      BY <1>1, <1>2, <2>1, <2>3 DEF Opened
    <3>3. Beginning'
      BY <1>1, <1>2, <1>4, <2>1, <2>3 DEF Beginning
    <3> QED BY <3>1, <3>2, <3>3
  <2> QED BY <1>1, <1>2, <2>1, <2>2, <2>3 DEF OggInv, Alive
<1>6. CASE segments # <<>>
  <2>1. Cut(OpenPage(FALSE), FALSE)
    BY <1>6 DEF OggClose
  <2>2. ASSUME ~failed
        PROVE  /\ Waiting
               /\ PageFits(OpenPage(FALSE)) /\ ~OpenPage(FALSE).eos
               /\ OpenPage(FALSE).continued <=> continued
               /\ OpenPage(FALSE).bos <=> pending = {}
               /\ pending = {} => file = <<>>
               /\ FALSE <=> IsFull(OpenPage(FALSE).segments)
    <3>1. Len(segments) < MaxSegments /\ ~IsFull(segments)
      BY <1>1, <1>6, <2>2 DEF Opened
    <3>2. segments \in Lacing /\ Len(segments) <= MaxSegments
      BY <1>1, <3>1, OggAssumption DEF OggTypes, Lacing
    <3>3. /\ PageFits(OpenPage(FALSE)) /\ ~OpenPage(FALSE).eos
          /\ OpenPage(FALSE).continued = continued
          /\ OpenPage(FALSE).bos = FALSE
          /\ OpenPage(FALSE).segments = segments
      BY <1>1, <1>6, <2>2, <3>2, OpenPageFits DEF Opened
    <3> QED BY <1>1, <1>4, <2>2, <3>1, <3>3
  <2>3. /\ failed' \in BOOLEAN
        /\ failed => failed'
        /\ file' \in Seq(Range(file')) /\ Chained(file') /\ NoEnd(file') /\ seq' \in Nat
        /\ segments' = <<>> /\ body' = <<>> /\ continued' = FALSE /\ granule' = NoGranule
        /\ segments' \in Lacing /\ continued' \in BOOLEAN
        /\ pending' = {OpenPage(FALSE)}
        /\ ~failed' => Waiting'
    BY <1>1, <1>3, <2>1, <2>2, CutStep DEF OggTypes
  <2>4. OggTypes' /\ Chained(file)' /\ EndIsLast'
    <3>1. segments' \in Lacing /\ continued' \in BOOLEAN
      BY <2>3
    <3>2. rest' \in Packet /\ packets' \in Seq(Packet)
      BY <1>1, <1>2 DEF OggTypes
    <3>3. OggTypes'
      BY <1>1, <1>2, <2>3, <3>1, <3>2 DEF OggTypes
    <3> QED BY <2>3, <3>3, NoEndStays
  <2>5. ASSUME ~failed'
        PROVE  Waiting' /\ Opened' /\ Beginning'
    <3>1. Waiting'
      BY <2>3, <2>5
    <3>2. Opened'
      BY <1>2, <2>3 DEF Opened
    <3>3. Beginning'
      <4>1. pending' # {}
        BY <2>3
      <4> QED BY <1>1, <1>2, <4>1 DEF Beginning
    <3> QED BY <3>1, <3>2, <3>3
  <2> QED BY <1>1, <1>2, <2>3, <2>4, <2>5 DEF OggInv, Alive
<1> QED BY <1>5, <1>6

(* The page that waited is the last, and the end of the stream.            *)
LEMMA FinishKeeps ==
    ASSUME OggInv, IsOgg, OggFinish
    PROVE  OggInv'
<1>1. /\ OggTypes /\ Chained(file) /\ NoEnd(file)
      /\ failed \in BOOLEAN /\ setup \in Setups
      /\ ~failed => Waiting /\ Opened /\ Beginning
      /\ opened = TRUE /\ closed = TRUE
  BY InCall DEF OggFinish, OggInv, OggTypes
<1>2. /\ setup' = setup /\ opened' = opened /\ closed' = closed /\ pc' = "idle"
      /\ taken' = taken /\ packets' = packets /\ rest' = rest
      /\ segments' = segments /\ continued' = continued
  BY DEF OggFinish, Finished, openPage
<1>3. PICK page \in pending :
         Emit([bos |-> page.bos, continued |-> page.continued, eos |-> TRUE,
               granule |-> LastGranule(page.granule),
               segments |-> page.segments, body |-> page.body])
  BY DEF OggFinish
<1> DEFINE last == [bos |-> page.bos, continued |-> page.continued, eos |-> TRUE,
                    granule |-> LastGranule(page.granule),
                    segments |-> page.segments, body |-> page.body]
<1>4. ~failed => Follows(last, file) /\ seq = Len(file)
  <2>1. ~failed => Follows(page, file) /\ seq = Len(file)
    BY <1>1 DEF Waiting
  <2>2. page.granule = NoGranule => LastGranule(page.granule) = NoGranule
    BY DEF LastGranule
  <2> QED BY <2>1, <2>2 DEF Follows, PageFits
<1>5. Emit(last)
  BY <1>3
<1> HIDE DEF last
<1>6. /\ failed' \in BOOLEAN
      /\ failed => failed'
      /\ file' \in Seq(Range(file')) /\ Chained(file') /\ seq' \in Nat
      /\ failed' => file' = file
      /\ ~failed' => file' = Append(file, Numbered(last))
  BY <1>1, <1>4, <1>5, EmitStep DEF OggTypes
<1>7. EndIsLast'
  <2>1. CASE failed'
    BY <1>1, <1>6, <2>1, NoEndStays
  <2>2. CASE ~failed'
    <3>1. /\ DOMAIN file = 1..Len(file) /\ DOMAIN file' = 1..(Len(file) + 1)
          /\ Len(file') = Len(file) + 1
          /\ \A i \in 1..Len(file) : file'[i] = file[i]
          /\ Len(file) \in Nat
      <4>1. file \in Seq(Range(file)) /\ file' = Append(file, Numbered(last))
        BY <1>1, <1>6, <2>2 DEF OggTypes
      <4>2. \A e : /\ Len(Append(file, e)) = Len(file) + 1
                   /\ \A i \in 1..Len(file) : Append(file, e)[i] = file[i]
        BY <4>1, AppendIsSeq
      <4>3. file' \in Seq(Range(file'))
        BY <1>6
      <4>4. DOMAIN file = 1..Len(file) /\ Len(file) \in Nat /\ DOMAIN file' = 1..Len(file')
        BY <4>1, <4>3
      <4> QED BY <4>1, <4>2, <4>4
    <3>2. \A i \in DOMAIN file' : i \in DOMAIN file \/ i = Len(file')
      <4>1. \A n \in Nat : \A i \in 1..(n + 1) : i \in 1..n \/ i = n + 1
        OBVIOUS
      <4>2. \A i \in 1..(Len(file) + 1) : i \in 1..Len(file) \/ i = Len(file) + 1
        BY <3>1, <4>1
      <4> QED BY <3>1, <4>2, Zenon
    <3>3. \A i \in DOMAIN file' : file'[i].eos => i = Len(file')
      BY <1>1, <3>1, <3>2 DEF NoEnd
    <3> QED BY <1>1, <1>2, <3>3 DEF EndIsLast
  <2> QED BY <2>1, <2>2
<1>8. OggTypes'
  BY <1>1, <1>2, <1>6 DEF OggTypes
<1> QED BY <1>1, <1>2, <1>6, <1>7, <1>8 DEF OggInv, Alive

(***************************************************************************)
(* The theorem.                                                            *)
(***************************************************************************)

(* The invariant holds before anything is written.                         *)
LEMMA OggInvInit ==
    ASSUME Init
    PROVE  OggInv
<1>1. /\ setup \in Setups /\ opened = FALSE /\ closed = FALSE /\ failed = FALSE
      /\ file = <<>> /\ pc = "idle" /\ taken = <<>>
  BY DEF Init, WriterInit
<1>2. /\ segments = <<>> /\ continued = FALSE /\ seq = 0 /\ packets = <<>> /\ rest = <<>>
  BY DEF Init, OggInit
<1>3. <<>> \in Lacing /\ <<>> \in Packet /\ <<>> \in Seq(Packet)
      /\ <<>> \in Seq(Range(<<>>))
  BY DEF Lacing, Packet
<1>4. OggTypes
  BY <1>1, <1>2, <1>3 DEF OggTypes
<1>5. Chained(file) /\ EndIsLast /\ ~Alive
  BY <1>1 DEF Chained, EndIsLast, Alive
<1> QED BY <1>1, <1>4, <1>5 DEF OggInv

(* No step of the audio writer breaks it: not those of the Ogg sink, and   *)
(* the others leave a file of another format one.                          *)
LEMMA OggInvNext ==
    ASSUME OggInv, [Next]_vars
    PROVE  OggInv'
<1>1. CASE UNCHANGED vars
  <2>1. /\ setup' = setup /\ opened' = opened /\ closed' = closed /\ failed' = failed
        /\ file' = file /\ pc' = pc /\ taken' = taken
        /\ segments' = segments /\ body' = body /\ continued' = continued /\ granule' = granule
        /\ pending' = pending /\ seq' = seq /\ packets' = packets /\ rest' = rest
    BY <1>1 DEF vars, medium, oggVars, openPage
  <2> QED BY <2>1 DEF OggInv, IsOgg, OggTypes, Chained, EndIsLast, Alive, Waiting, Opened,
                      Beginning
<1>2. CASE CloseEmpty /\ UNCHANGED <<oggVars, wavVars, header>>
  <2>1. /\ setup' = setup /\ opened' = opened /\ ~opened /\ ~closed
        /\ closed' = TRUE /\ failed' = failed
        /\ file' = file /\ pc' = pc /\ pc = "idle" /\ taken' = taken
        /\ segments' = segments /\ continued' = continued
        /\ seq' = seq /\ packets' = packets /\ rest' = rest
    BY <1>2 DEF CloseEmpty, medium, oggVars, openPage, OggInv
  <2>2. ~Alive'
    BY <2>1 DEF Alive
  <2>3. ASSUME IsOgg
        PROVE  OggTypes' /\ Chained(file)' /\ EndIsLast'
    <3>1. OggTypes /\ Chained(file) /\ EndIsLast
      BY <2>3 DEF OggInv
    <3> QED BY <2>1, <3>1 DEF OggTypes, EndIsLast
  <2> QED BY <2>1, <2>2, <2>3 DEF OggInv, IsOgg
<1>3. CASE OggNext
  <2>1. IsOgg
    BY <1>3 DEF OggNext, IsOgg, OggAddTrack, OggClose, OggFinish, StartPacket, LaceSegment,
                ContinuePacket, EndPacket, OggWriteSample
  <2> QED BY <1>3, <2>1, AddTrackKeeps, CloseKeeps, FinishKeeps, StartPacketKeeps,
             LaceSegmentKeeps, ContinuePacketKeeps, EndPacketKeeps, WriteSampleKeeps DEF OggNext
<1>4. CASE WAVNext
  <2>1. setup.format = "wav" /\ setup' = setup
    BY <1>4 DEF WAVNext, WAVAddTrack, WAVClose, StateSizes, PatchHeader, WAVFinish,
                WAVWriteSample, TrackAdded, Finished
  <2> QED BY <2>1 DEF OggInv, IsOgg
<1>5. CASE FrameNext
  <2>1. setup.format = "frames" /\ setup' = setup
    BY <1>5 DEF FrameNext, FrameAddTrack, WriteHeader, FrameClose, FrameWriteSample, TrackAdded
  <2> QED BY <2>1 DEF OggInv, IsOgg
<1> QED BY <1>1, <1>2, <1>3, <1>4, <1>5 DEF Next, RefuseClosed

(* It is more than what is to be shown.                                    *)
LEMMA OggInvImplies ==
    ASSUME OggInv
    PROVE  PagesHold
<1> SUFFICES ASSUME IsOgg, NEW i \in DOMAIN file
             PROVE  /\ Len(file[i].segments) \in 1..MaxSegments
                    /\ file[i].seq = i - 1
                    /\ file[i].continued <=> (i > 1 /\ file[i - 1].segments # <<>>
                                               /\ GoesOnBehind(file[i - 1]))
                    /\ file[i].bos <=> i = 1
                    /\ file[i].eos => i = Len(file) /\ closed
                    /\ (\A n \in DOMAIN file[i].segments : file[i].segments[n] = SegmentSize)
                          => file[i].granule = NoGranule
  BY DEF PagesHold
<1>1. Chained(file) /\ EndIsLast /\ file \in Seq(Range(file))
  BY DEF OggInv, OggTypes
<1>2. DOMAIN file = 1..Len(file) /\ Len(file) \in Nat
  BY <1>1, AppendIsSeq
<1>3. i > 1 => i - 1 \in DOMAIN file
  BY <1>2
<1>4. i > 1 => file[i - 1].segments # <<>>
  <2>1. i > 1 => file[i - 1].segments \in Lacing /\ Len(file[i - 1].segments) \in 1..MaxSegments
    BY <1>1, <1>3 DEF Chained, PageFits
  <2>2. Len(<<>>) \notin 1..MaxSegments
    OBVIOUS
  <2> QED BY <2>1, <2>2
<1> QED BY <1>1, <1>4 DEF Chained, PageFits, EndIsLast, GoesOnBehind, Last, IsFull

(* Every page the Ogg sink writes holds segments, no more than a page can, *)
(* is numbered, marked as going on and as the first or the last when it    *)
(* is, and states no position when no packet ends inside it: for every     *)
(* size of a segment and of a page, every sequence of packets, wherever    *)
(* the caller stops and whichever writes are refused.                      *)
THEOREM OggPages == Spec => []PagesHold
<1>1. Init => OggInv
  BY OggInvInit
<1>2. OggInv /\ [Next]_vars => OggInv'
  BY OggInvNext
<1>3. OggInv => PagesHold
  BY OggInvImplies
<1> QED BY <1>1, <1>2, <1>3, PTL DEF Spec
=============================================================================
