---------------------------- MODULE CueAssembler ----------------------------
(***************************************************************************)
(* cueAssembler of subtitle.go: a timed text track cut into samples shows  *)
(* a cue in each sample the cue lasts through, and the assembler puts such *)
(* a cue together again.  A cue is told from another by its key, and two   *)
(* equal cues may be on screen at once; open is cueAssembler.open.         *)
(***************************************************************************)
EXTENDS Integers, SequencesExt

(* What a sample showing cues from start to end makes of the open cue o:   *)
(* acc.open are the cues before o, acc.drawn the cues of the sample that   *)
(* continue one of them.  Mutant: one cue of the sample continues every    *)
(* open cue equal to it.                                                   *)
ContinuedByAny(acc, o, start, end, cues) ==
    LET same == {i \in DOMAIN cues : o.end = start /\ cues[i] = o.key}
    IN  CASE o.closed -> [acc EXCEPT !.open = Append(@, o)]
          [] ~o.closed /\ same = {} -> [acc EXCEPT !.open = Append(@, [o EXCEPT !.closed = TRUE])]
          [] OTHER -> [open |-> Append(acc.open, [o EXCEPT !.end = end]),
                       drawn |-> acc.drawn \union {Min(same)}]

Continued(acc, o, start, end, cues) ==
    LET same == {i \in DOMAIN cues \ acc.drawn : o.end = start /\ cues[i] = o.key}
    IN  CASE o.closed -> [acc EXCEPT !.open = Append(@, o)]
          [] ~o.closed /\ same = {} -> [acc EXCEPT !.open = Append(@, [o EXCEPT !.closed = TRUE])]
          [] OTHER -> [open |-> Append(acc.open, [o EXCEPT !.end = end]),
                       drawn |-> acc.drawn \union {Min(same)}]

(* The open cues once the sample is added.                                 *)
WithSample(open, start, end, cues) ==
    LET acc == FoldLeft(LAMBDA a, o : Continued(a, o, start, end, cues),
                        [open |-> <<>>, drawn |-> {}], open)
        new == SelectSeq([i \in DOMAIN cues |-> i], LAMBDA i : i \notin acc.drawn)
    IN  acc.open \o [i \in DOMAIN new |-> [key |-> cues[new[i]], start |-> start,
                                           end |-> end, closed |-> FALSE]]

(* How many cues at the front have ended: one that has waits behind one    *)
(* that started before it and is still on screen.                          *)
Finished(open) ==
    Max({n \in 0..Len(open) : \A i \in 1..n : open[i].closed})

(* add: the cues it keeps and those it hands over.                         *)
Add(open, start, end, cues) ==
    LET all == WithSample(open, start, end, cues)
        n == Finished(all)
    IN  [open |-> SubSeq(all, n + 1, Len(all)), done |-> SubSeq(all, 1, n)]
=============================================================================
