-------------------------- MODULE MCSampleDecrypt --------------------------
(* Clear bytes up to 3, 4-bit sums, at most 3 entries: a map that fits, one  *)
(* to be extended by one and by two entries, one that becomes too long, one  *)
(* too large, one whose sum wraps to the size of its frame, and two that     *)
(* have one and two entries more than fit.                                 *)
EXTENDS SampleDecrypt

E(c, e) == [clear |-> c, encrypted |-> e]

Frame(size, map) ==
  [size |-> size, map |-> map, key |-> 1, meta |-> TRUE, short |-> FALSE, data |-> "ok",
   subs |-> IF map = <<>> THEN "null" ELSE "ok", iv |-> "ok", kid |-> "ok"]

Fit == Frame(4, <<E(1, 1), E(0, 2)>>)

MCFrames ==
  {Fit, Frame(3, <<>>), Frame(0, <<>>),
   Frame(6, <<E(1, 1)>>), Frame(5, <<E(0, 2), E(1, 1)>>),
   Frame(6, <<E(0, 1), E(1, 0)>>), Frame(2, <<E(2, 1)>>),
   Frame(2, <<E(2, 0)>>),
   Frame(4, <<E(0, 14), E(0, 6)>>), Frame(4, <<E(1, 0), E(0, 1), E(0, 1), E(0, 1)>>),
   Frame(5, <<E(0, 1), E(1, 0), E(0, 1), E(0, 1), E(0, 1)>>),
   [Frame(3, <<>>) EXCEPT !.subs = "ok"],
   [Fit EXCEPT !.key = 2], [Fit EXCEPT !.meta = FALSE], [Fit EXCEPT !.short = TRUE],
   [Fit EXCEPT !.data = "unmappable"], [Fit EXCEPT !.subs = "missing"],
   [Fit EXCEPT !.iv = "missing"],
   [Fit EXCEPT !.kid = "unmappable"], [Fit EXCEPT !.iv = "null"],
   [Fit EXCEPT !.kid = "null"],
   [Frame(3, <<>>) EXCEPT !.iv = "null", !.kid = "null"]}

=============================================================================
