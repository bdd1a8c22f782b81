-------------------------- MODULE AudioTrackProofs --------------------------
(***************************************************************************)
(* What rounding does to an audio track, for every timescale and sample    *)
(* rate, every sequence of durations and every sample refused among them.  *)
(***************************************************************************)
EXTENDS AudioTrack, TLAPS

(* A quotient is the greatest multiple that fits.                          *)
LEMMA Division ==
    ASSUME NEW a \in Nat, NEW b \in Nat \ {0}
    PROVE  a \div b \in Nat /\ b * (a \div b) <= a /\ a < b * (a \div b) + b
BY SMT

(* A number at least one divisor past a multiple has the next quotient.    *)
LEMMA NextQuotient ==
    ASSUME NEW a \in Nat, NEW b \in Nat \ {0}, NEW q \in Nat, b * q + b <= a
    PROVE  a \div b > q
<1>1. a \div b \in Nat /\ a < b * (a \div b) + b
  BY Division
<1>2. b * q < b * (a \div b)
  BY <1>1
<1>3. \A m, k \in Nat : b * m < b * k => m < k
  BY SMT
<1> QED BY <1>1, <1>2, <1>3

(* A converted total is within half a tick of what it converts.            *)
LEMMA HalfATick ==
    ASSUME NEW d \in Nat, NEW from \in Nat \ {0}, NEW to \in Nat \ {0}
    PROVE  /\ ScaleNearest(d, from, to) \in Nat
           /\ 2 * (ScaleNearest(d, from, to) * from - d * to) <= from
           /\ 2 * (d * to - ScaleNearest(d, from, to) * from) <= from
<1> DEFINE h == from \div 2
           p == d * to
           q == (p + h) \div from
<1>1. h \in Nat /\ 2 * h <= from /\ from <= 2 * h + 1
  BY SMT
<1>2. p \in Nat
  OBVIOUS
<1>3. p + h \in Nat
  BY <1>1, <1>2
<1> HIDE DEF h, p
<1>4. q \in Nat /\ from * q <= p + h /\ p + h < from * q + from
  BY <1>3, Division
<1> HIDE DEF q
<1>5. from * q = q * from /\ from * q \in Nat
  BY <1>4
<1>6. 2 * (q * from - p) <= from /\ 2 * (p - q * from) <= from
  BY <1>1, <1>2, <1>4, <1>5
<1>7. ScaleNearest(d, from, to) = q /\ d * to = p
  BY DEF ScaleNearest, h, p, q
<1> QED BY <1>4, <1>6, <1>7

(* A later total converts to a later one when the ticks get finer.         *)
LEMMA Advances ==
    ASSUME NEW d \in Nat, NEW dur \in Nat \ {0},
           NEW from \in Nat \ {0}, NEW to \in Nat \ {0}, from <= to
    PROVE  ScaleNearest(d + dur, from, to) > ScaleNearest(d, from, to)
<1> DEFINE h == from \div 2
           p == d * to
           r == (d + dur) * to
           q == (p + h) \div from
<1>1. h \in Nat /\ p \in Nat /\ r \in Nat
  BY SMT
<1>2. r = p + dur * to
  BY SMT
<1>3. dur * to >= to
  BY SMT
<1>4. r >= p + from
  <2>1. dur * to \in Nat
    OBVIOUS
  <2> HIDE DEF p, r
  <2> QED BY <1>1, <1>2, <1>3, <2>1
<1> HIDE DEF h, p, r
<1>5. q \in Nat /\ from * q <= p + h
  BY <1>1, Division
<1> HIDE DEF q
<1>6. from * q \in Nat /\ from * q + from <= r + h
  BY <1>1, <1>4, <1>5
<1>7. (r + h) \div from > q
  BY <1>1, <1>5, <1>6, NextQuotient
<1> QED BY <1>7 DEF ScaleNearest, h, p, r, q

(***************************************************************************)
(* The invariant.  The clock's totals are within half a tick of one        *)
(* another; what the refused samples account for, which is the clock's     *)
(* totals without the track's, is within a tick of itself for each.        *)
(***************************************************************************)
ClockError == clock.out * clock.from - clock.in * clock.to
SkipError == (clock.out - written) * clock.from - (clock.in - given) * clock.to

Within(error, bound) == 2 * error <= bound /\ -(2 * error) <= bound

ClockInv ==
    /\ clock \in [from : Nat \ {0}, to : Nat \ {0}, in : Nat, out : Nat]
    /\ clock.from < clock.to
    /\ clock.out = ScaleNearest(clock.in, clock.from, clock.to)

IInv ==
    /\ ClockInv
    /\ given \in Nat /\ written \in Nat /\ refused \in Nat
    /\ Within(SkipError, 2 * clock.from * refused)
    /\ NoSampleVanishes

(* A clock is never further off than half a tick.                          *)
LEMMA ClockErrorBound ==
    ASSUME NEW c \in [from : Nat \ {0}, to : Nat \ {0}, in : Nat, out : Nat],
           c.out = ScaleNearest(c.in, c.from, c.to)
    PROVE  /\ c.out * c.from - c.in * c.to \in Int
           /\ Within(c.out * c.from - c.in * c.to, c.from)
<1>1. /\ c.from \in Nat \ {0} /\ c.to \in Nat \ {0} /\ c.in \in Nat /\ c.out \in Nat
  OBVIOUS
<1> DEFINE p == c.out * c.from
           q == c.in * c.to
<1>2. p \in Int /\ q \in Int
  BY <1>1
<1>3. 2 * (p - q) <= c.from /\ 2 * (q - p) <= c.from
  BY <1>1, HalfATick
<1> HIDE DEF p, q
<1>4. p - q \in Int /\ Within(p - q, c.from)
  BY <1>1, <1>2, <1>3 DEF Within
<1> QED BY <1>4 DEF p, q

(* What converting a sample does to the clock, and to the sample.          *)
LEMMA ClockStep ==
    ASSUME ClockInv, NEW dur \in Durations
    PROVE  LET c == ClockSample(clock, Sample(dur))
           IN  /\ dur \in Nat \ {0}
               /\ c.clock.from = clock.from /\ c.clock.to = clock.to
               /\ c.clock.in = clock.in + dur
               /\ c.clock.out = ScaleNearest(clock.in + dur, clock.from, clock.to)
               /\ c.clock \in [from : Nat \ {0}, to : Nat \ {0}, in : Nat, out : Nat]
               /\ c.sample.dur = c.clock.out - clock.out
               /\ c.sample.dur > 0
<1> DEFINE out == ScaleNearest(clock.in + dur, clock.from, clock.to)
<1>1. dur \in Nat \ {0}
  BY AudioTrackAssumption
<1>2. /\ clock.in \in Nat /\ clock.from \in Nat \ {0} /\ clock.to \in Nat \ {0}
      /\ clock.out \in Nat /\ clock.from <= clock.to /\ clock.from # clock.to
      /\ clock.out = ScaleNearest(clock.in, clock.from, clock.to)
  BY DEF ClockInv
<1>3. clock.in + dur \in Nat
  BY <1>1, <1>2
<1>4. out \in Nat
  BY <1>2, <1>3, HalfATick
<1>5. out > clock.out
  BY <1>1, <1>2, Advances
<1>6. /\ ClockSample(clock, Sample(dur)).clock =
           [from |-> clock.from, to |-> clock.to, in |-> clock.in + dur, out |-> out]
      /\ ClockSample(clock, Sample(dur)).sample.dur = out - clock.out
  BY <1>2 DEF ClockSample, Converts, Sample
<1> HIDE DEF out
<1>7. out - clock.out > 0
  BY <1>2, <1>4, <1>5
<1> QED BY <1>1, <1>2, <1>3, <1>4, <1>6, <1>7 DEF out

(* A track starts with nothing given and nothing written.                  *)
LEMMA InitInv == Init => IInv
<1> SUFFICES ASSUME Init PROVE IInv
  OBVIOUS
<1>1. PICK cfg \in Configs : clock = WithAudioClock(cfg)
  BY DEF Init
<1>2. /\ cfg.timescale \in Nat \ {0} /\ cfg.rate \in Nat
      /\ Converts(WithAudioClock(cfg))
  BY AudioTrackAssumption
<1>3. /\ clock = [from |-> cfg.timescale, to |-> cfg.rate, in |-> 0, out |-> 0]
      /\ cfg.timescale < cfg.rate
  BY <1>1, <1>2 DEF WithAudioClock, AudioTimescale, Converts, NoClock
<1>4. ScaleNearest(0, cfg.timescale, cfg.rate) = 0
  <2> DEFINE f == cfg.timescale
  <2>1. f \in Nat \ {0}
    BY <1>2
  <2> HIDE DEF f
  <2>2. f \div 2 \in Nat /\ f \div 2 < f
    BY <2>1
  <2>3. \A a, b \in Nat : a < b => a \div b = 0
    BY SMT
  <2>4. 0 * cfg.rate + f \div 2 = f \div 2
    BY <1>2, <2>2
  <2> QED BY <2>1, <2>2, <2>3, <2>4 DEF ScaleNearest, f
<1>5. ClockInv
  BY <1>2, <1>3, <1>4 DEF ClockInv
<1>6. given = 0 /\ written = 0 /\ refused = 0 /\ last = 1
  BY DEF Init
<1>7. Within(SkipError, 2 * clock.from * refused)
  BY <1>2, <1>3, <1>6 DEF Within, SkipError
<1> QED BY <1>5, <1>6, <1>7 DEF IInv, NoSampleVanishes

(* A sample taken moves the clock and the track by as much.                *)
LEMMA WriteSampleInv ==
    ASSUME IInv, NEW dur \in Durations, WriteSample(dur)
    PROVE  IInv'
<1> DEFINE c == ClockSample(clock, Sample(dur))
<1>1. /\ clock' = c.clock /\ written' = written + c.sample.dur /\ last' = c.sample.dur
      /\ given' = given + dur /\ refused' = refused
  BY DEF WriteSample
<1>2. /\ dur \in Nat \ {0} /\ c.clock.from = clock.from /\ c.clock.to = clock.to
      /\ c.clock.in = clock.in + dur
      /\ c.clock.out = ScaleNearest(clock.in + dur, clock.from, clock.to)
      /\ c.clock \in [from : Nat \ {0}, to : Nat \ {0}, in : Nat, out : Nat]
      /\ c.sample.dur = c.clock.out - clock.out /\ c.sample.dur > 0
  BY ClockStep DEF IInv
<1> HIDE DEF c
<1>3. /\ clock.from \in Nat \ {0} /\ clock.to \in Nat \ {0} /\ clock.in \in Nat
      /\ clock.out \in Nat /\ given \in Nat /\ written \in Nat
  BY DEF IInv, ClockInv
<1>4. ClockInv'
  BY <1>1, <1>2 DEF IInv, ClockInv
<1>5. given' \in Nat /\ written' \in Nat
  <2>1. c.clock.out \in Nat
    BY <1>2
  <2> QED BY <1>1, <1>2, <1>3, <2>1
<1>6. clock'.out - written' = clock.out - written /\ clock'.in - given' = clock.in - given
  <2>1. c.clock.out \in Nat
    BY <1>2
  <2> QED BY <1>1, <1>2, <1>3, <2>1
<1>7. Within(SkipError, 2 * clock.from * refused)'
  <2>1. SkipError' = SkipError
    BY <1>1, <1>2, <1>6 DEF SkipError
  <2> QED BY <1>1, <1>2, <2>1 DEF IInv, Within
<1> QED BY <1>1, <1>2, <1>4, <1>5, <1>7 DEF IInv, NoSampleVanishes

(* A sample refused moves the clock alone, by its error before and after.  *)
LEMMA RefuseSampleInv ==
    ASSUME IInv, NEW dur \in Durations, RefuseSample(dur)
    PROVE  IInv'
<1> DEFINE c == ClockSample(clock, Sample(dur))
<1>1. /\ clock' = c.clock /\ refused' = refused + 1
      /\ UNCHANGED <<given, written, last>>
  BY DEF RefuseSample
<1>2. /\ dur \in Nat \ {0} /\ c.clock.from = clock.from /\ c.clock.to = clock.to
      /\ c.clock.in = clock.in + dur
      /\ c.clock.out = ScaleNearest(clock.in + dur, clock.from, clock.to)
      /\ c.clock \in [from : Nat \ {0}, to : Nat \ {0}, in : Nat, out : Nat]
  BY ClockStep DEF IInv
<1> HIDE DEF c
<1>3. /\ clock.from \in Nat \ {0} /\ clock.to \in Nat \ {0} /\ clock.in \in Nat
      /\ clock.out \in Nat /\ given \in Nat /\ written \in Nat /\ refused \in Nat
  BY DEF IInv, ClockInv
<1>4. ClockInv'
  BY <1>1, <1>2 DEF IInv, ClockInv
<1>5. ClockError \in Int /\ Within(ClockError, clock.from)
  BY ClockErrorBound DEF IInv, ClockInv, ClockError
<1>6. ClockError' \in Int /\ Within(ClockError', clock.from)
  <2>1. c.clock.out = ScaleNearest(c.clock.in, c.clock.from, c.clock.to)
    BY <1>2
  <2>2. /\ c.clock.out * c.clock.from - c.clock.in * c.clock.to \in Int
        /\ Within(c.clock.out * c.clock.from - c.clock.in * c.clock.to, c.clock.from)
    BY <1>2, <2>1, ClockErrorBound
  <2>3. ClockError' = c.clock.out * c.clock.from - c.clock.in * c.clock.to
    BY <1>1 DEF ClockError
  <2> QED BY <1>2, <2>2, <2>3
<1>7. SkipError \in Int /\ Within(SkipError, 2 * clock.from * refused)
  BY <1>3 DEF IInv, SkipError
<1>8. SkipError' = SkipError + ClockError' - ClockError
  <2> DEFINE F == clock.from
             T == clock.to
             o == c.clock.out
  <2>1. F \in Int /\ T \in Int /\ o \in Int /\ dur \in Int
    BY <1>2, <1>3
  <2>2. SkipError' = (o - written) * F - ((clock.in + dur) - given) * T
    BY <1>1, <1>2 DEF SkipError
  <2>3. ClockError' = o * F - (clock.in + dur) * T
    BY <1>1, <1>2 DEF ClockError
  <2>4. /\ SkipError = (clock.out - written) * F - (clock.in - given) * T
        /\ ClockError = clock.out * F - clock.in * T
    BY DEF SkipError, ClockError
  <2> HIDE DEF F, T, o
  <2>5. \A i, w, g, p \in Int :
          (o - w) * F - ((i + dur) - g) * T =
            (p - w) * F - (i - g) * T + (o * F - (i + dur) * T) - (p * F - i * T)
    BY <2>1, SMT
  <2> QED BY <1>3, <2>2, <2>3, <2>4, <2>5
<1>9. Within(SkipError', 2 * clock.from * refused')
  <2> DEFINE b == 2 * clock.from * refused
  <2>1. 2 * clock.from * refused' = b + 2 * clock.from /\ b \in Int
    BY <1>1, <1>3
  <2> HIDE DEF b
  <2>2. Within(SkipError, b)
    BY <1>7 DEF b
  <2> QED BY <1>3, <1>5, <1>6, <1>7, <1>8, <2>1, <2>2 DEF Within
<1> QED BY <1>1, <1>2, <1>3, <1>4, <1>9 DEF IInv, NoSampleVanishes, Within

(* Every step keeps the invariant.                                         *)
LEMMA NextInv == IInv /\ [Next]_vars => IInv'
<1>1. IInv /\ UNCHANGED vars => IInv'
  BY DEF IInv, ClockInv, SkipError, Within, NoSampleVanishes, vars
<1> QED BY <1>1, WriteSampleInv, RefuseSampleInv DEF Next

(* A track keeps its length to half a tick, and to a tick more for every   *)
(* sample refused.                                                         *)
THEOREM TrackDrift == Spec => []DriftBounded
<1>1. IInv => DriftBounded
  <2> SUFFICES ASSUME IInv PROVE DriftBounded
    OBVIOUS
  <2>1. /\ clock.from \in Nat \ {0} /\ clock.to \in Nat \ {0} /\ clock.in \in Nat
        /\ clock.out \in Nat /\ given \in Nat /\ written \in Nat /\ refused \in Nat
    BY DEF IInv, ClockInv
  <2>2. ClockError \in Int /\ Within(ClockError, clock.from)
    BY ClockErrorBound DEF IInv, ClockInv, ClockError
  <2>3. SkipError \in Int /\ Within(SkipError, 2 * clock.from * refused)
    BY <2>1 DEF IInv, SkipError
  <2> DEFINE e == written * clock.from - given * clock.to
  <2>4. e = ClockError - SkipError
    BY <2>1 DEF ClockError, SkipError
  <2>5. clock.from * (1 + 2 * refused) = clock.from + 2 * clock.from * refused
    BY <2>1
  <2>6. e \in Int /\ 2 * clock.from * refused \in Int
    BY <2>1
  <2> HIDE DEF e
  <2>7. 2 * Abs(e) <= clock.from + 2 * clock.from * refused
    BY <2>1, <2>2, <2>3, <2>4, <2>6 DEF Within, Abs
  <2> QED BY <2>5, <2>7 DEF DriftBounded, Drift, e
<1> QED BY <1>1, InitInv, NextInv, PTL DEF Spec

(* No sample of an audio track is ever rounded away.                       *)
THEOREM SamplesLast == Spec => []NoSampleVanishes
<1>1. IInv => NoSampleVanishes
  BY DEF IInv
<1> QED BY <1>1, InitInv, NextInv, PTL DEF Spec
=============================================================================
