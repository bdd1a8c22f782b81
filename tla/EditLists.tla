----------------------------- MODULE EditLists -----------------------------
(***************************************************************************)
(* What an edit list of one edit, behind an optional empty one, comes to   *)
(* in a container that has presentation times and no edit lists            *)
(* (editlists.go, editlist.go).  A track's configuration is                *)
(* [timescale, edit, ...], where edit is {} or {[scale, lead, media,       *)
(* duration]}: the list's movie timescale, the length of the empty edit,   *)
(* and the media time and duration of the other.                           *)
(***************************************************************************)
EXTENDS Integers, FiniteSetsExt

(* Where a track is presented from, without an edit list.                  *)
PresentationStart(firstOffset, priming) == Max({firstOffset, 0}) + priming

(* d units of 1/from rounded to units of 1/to.                             *)
ScaleDurationNearest(d, from, to) ==
    (d \div from) * to + ((d % from) * to + from \div 2) \div from

(* webmEdit: only the end of an audio track's edit is kept.                *)
WebMEdit(cfg) ==
    {[media |-> e.media,
      lead |-> (e.lead * cfg.timescale + e.scale \div 2) \div e.scale,
      end |-> IF cfg.kind = "audio" /\ e.duration > 0
              THEN e.media + ScaleDurationNearest(e.duration, e.scale, cfg.timescale)
              ELSE 0] : e \in cfg.edit}

(* How much of a frame lies past the end of the presentation.              *)
Trim(edit, start, duration) ==
    Max({0} \union {Min({Max({start + duration - e.end, 0}), duration}) :
                      e \in {f \in edit : f.end > 0}})

(* How far a track's times move back, given when its first sample presents.*)
Shift(edit, first) ==
    IF edit = {} THEN first
    ELSE LET e == CHOOSE f \in edit : TRUE IN Min({e.media, first}) - e.lead
=============================================================================
