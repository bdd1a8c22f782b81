---------------------------- MODULE MCTransport ----------------------------
(***************************************************************************)
(* Instances of Transport small enough for TLC: four ticks to a second, a  *)
(* delay of two, and a clock that wraps after four seconds.                *)
(***************************************************************************)
EXTENDS Transport

Nal(type, id) == [type |-> type, id |-> id]
VideoOf(timescale) ==
    [kind |-> "video", form |-> "annexb", timescale |-> timescale, delay |-> 0,
     params |-> <<Nal("sps", 1), Nal("pps", 1)>>]
Sound(form, timescale, delay) ==
    [kind |-> "audio", form |-> form, timescale |-> timescale, delay |-> delay, params |-> <<>>]

AllSetups ==
    {<<>>, <<Sound("adts", 4, 0), VideoOf(3)>>, <<VideoOf(5), Sound("frames", 3, 3)>>,
     <<Sound("frames", 8, 5)>>}

Picture(nalus, dur, offset, sync) == [data |-> nalus, dur |-> dur, offset |-> offset, sync |-> sync]
Frame(size, dur, continues) == [size |-> size, dur |-> dur, continues |-> continues, id |-> 1]

SamplesOf(cfg) ==
    CASE cfg.form = "annexb" ->
           {Picture(<<Nal("aud", 1), Nal("idr", 2)>>, 2, 1, TRUE),
            Picture(<<Nal("slice", 5)>>, 1, 2, FALSE),
            Picture(<<Nal("sps", 2), Nal("slice", 6)>>, 3, -1, FALSE),
            Picture(<<Nal("junk", 7)>>, 1, 2, TRUE)}
      [] cfg.form = "adts" ->
           {Picture(<<Frame(2, 2, FALSE)>>, 2, 0, TRUE), Picture(<<Frame(4, 3, FALSE)>>, 3, 0, TRUE)}
      [] cfg.form = "frames" ->
           {Picture(<<Frame(2, 1, FALSE)>>, 1, 0, TRUE),
            Picture(<<Frame(3, 2, FALSE), Frame(2, 2, TRUE)>>, 5, 0, TRUE),
            Picture(<<Frame(2, 1, FALSE)>>, 2, 3, TRUE)}

Streams ==
    {<<>>, <<Frame(4, 2, FALSE), Frame(2, 2, FALSE), Frame(5, 2, FALSE)>>,
     <<Frame(3, 2, FALSE), Frame(2, 2, TRUE), Frame(4, 3, FALSE), Frame(3, 3, TRUE)>>,
     <<Frame(2, 1, TRUE), Frame(3, 1, FALSE), Frame(3, 1, TRUE), Frame(2, 1, FALSE)>>}
=============================================================================
