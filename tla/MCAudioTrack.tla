---------------------------- MODULE MCAudioTrack ----------------------------
(***************************************************************************)
(* Tracks whose rate is a multiple of their timescale, barely above it,    *)
(* coprime to it and half a tick away from it.                             *)
(***************************************************************************)
EXTENDS AudioTrack

Rates ==
    {[timescale |-> from, rate |-> to, delay |-> 0] : from \in {2, 3, 4, 7}, to \in {8, 9, 11}}
=============================================================================
