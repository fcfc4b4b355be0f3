----------------------------- MODULE PodLedger -----------------------------
(***************************************************************************)
(* PodEnergyLedger: marks at the transitions of a job's lifecycle, and the *)
(* attribution of energy to the intervals between them, either from the    *)
(* meter readings in the marks or again from the recorded power trace and  *)
(* a background.  Watts times seconds; grams are energy times intensity.   *)
(***************************************************************************)
EXTENDS Integers, Sequences, Functions

Mark(phase, t, kwh, intensity) ==
  [phase |-> phase, t |-> t, kwh |-> kwh, intensity |-> intensity]

NonNegative(x) == IF x > 0 THEN x ELSE 0

\* report(): the last interval runs to the terminal reading.
Interval(cur, nxt, kwh) ==
  [phase |-> cur.phase, from |-> cur.t, to |-> nxt.t, kwh |-> kwh, intensity |-> cur.intensity]

Report(marks, t, kwh) ==
  LET sealed == Append(marks, Mark("__end__", t, kwh, 0)) IN
  [i \in 1..Len(marks) |->
     Interval(sealed[i], sealed[i + 1], NonNegative(sealed[i + 1].kwh - sealed[i].kwh))]

\* _assemble: totals, and energy, carbon and time by phase.
Energy(report) == SumFunction([i \in DOMAIN report |-> report[i].kwh])
Carbon(report) == SumFunction([i \in DOMAIN report |-> report[i].kwh * report[i].intensity])
OfPhase(report, phase) == Restrict(report, {i \in DOMAIN report : report[i].phase = phase})

-----------------------------------------------------------------------------
(* Re-attribution from a trace: each sample's power, less the background at  *)
(* that sample, over the part of its slice that lies in the interval.        *)

\* Slip: the power of a slice is that of its left end.
LeftEnd(trace, i) == trace[i]

SliceSample(trace, i) == trace[i + 1]

Overlap(from, to, start, end) ==
  NonNegative((IF to < end THEN to ELSE end) - (IF from > start THEN from ELSE start))

MarginalFromTrace(trace, background, start, end) ==
  SumFunction([i \in 1..(Len(trace) - 1) |->
    NonNegative(SliceSample(trace, i).watts - background)
      * Overlap(trace[i].t, trace[i + 1].t, start, end)])

ReportFromTrace(marks, trace, background, end) ==
  LET sealed == Append(marks, Mark("__end__", end, 0, 0)) IN
  [i \in 1..Len(marks) |->
     Interval(sealed[i], sealed[i + 1],
              MarginalFromTrace(trace, background, sealed[i].t, sealed[i + 1].t))]
=============================================================================
