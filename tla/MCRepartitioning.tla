-------------------------- MODULE MCRepartitioning --------------------------
EXTENDS Repartitioning

(* Workloads of four layers and up to four stages: a uniform one and what     *)
(* changes in it.  work and act are prefix sums: <<0, 1, 3, 4, 6>> stands for *)
(* layers of 1, 2, 1 and 2.                                                   *)
Uniform ==
  [work |-> <<0, 1, 3, 4, 6>>, act |-> <<0, 1, 3, 4, 5>>,
   slow |-> <<1, 1, 1, 1>>, mem |-> <<5, 5, 5, 5>>,
   power |-> <<1, 1, 1, 1>>, cap |-> <<2, 2, 2, 2>>, link |-> <<1, 1, 1>>,
   latency |-> <<0, 0, 0>>]

HeavyFirst == [Uniform EXCEPT !.work = <<0, 6, 7, 8, 9>>]
HeavyLast  == [Uniform EXCEPT !.work = <<0, 1, 2, 3, 9>>]
SlowFirst  == [Uniform EXCEPT !.slow = <<4, 1, 1, 1>>]
SlowSecond == [Uniform EXCEPT !.slow = <<1, 4, 1, 1>>]
Congested  == [Uniform EXCEPT !.link = <<0, 5, 1>>, !.latency = <<1, 0, 2>>]
Tight      == [Uniform EXCEPT !.mem = <<1, 3, 5, 2>>]
TooTight   == [Uniform EXCEPT !.mem = <<2, 2, 2, 1>>]
Hungry     == [Uniform EXCEPT !.power = <<2, 1, 1, 0>>]
OverCap    == [Uniform EXCEPT !.power = <<1, 3, 1, 1>>]

(* The context's model replaced by a shorter one.                             *)
Shorter == [Uniform EXCEPT !.work = <<0, 1, 2>>, !.act = <<0, 1, 2>>]

Various ==
  <<Uniform, Shorter, HeavyFirst, SlowSecond, Tight, TooTight, OverCap,
    [HeavyLast EXCEPT !.power = <<2, 1, 2, 1>>, !.mem = <<3, 2, 5, 1>>],
    [SlowFirst EXCEPT !.link = <<4, 4, 0>>, !.mem = <<5, 3, 1, 1>>],
    [Congested EXCEPT !.work = <<0, 0, 3, 3, 4>>],
    [Hungry EXCEPT !.slow = <<3, 1, 2, 1>>]>>
=============================================================================
