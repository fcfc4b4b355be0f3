--------------------------- MODULE MeteredEnergy ---------------------------
(***************************************************************************)
(* A job's energy from the device to the report: a meter, or a RAPL        *)
(* counter, and a ledger that marks the job's phases with its readings.    *)
(***************************************************************************)
EXTENDS PolledMeter, PodLedger

CONSTANT MaxMarks      (* bound on the ledger's marks                      *)

VARIABLE marks         (* PodEnergyLedger._marks                           *)

vars == <<meterVars, raplVars, marks>>

Reading == IF source = "marginal" THEN kwh.marginal ELSE kwh.device

\* The driver goes from one phase to the next; a mark reads clock and meter.
Lifecycle == <<"cold_start", "active", "idle">>

MarkPhase ==
  /\ source # "rapl" /\ Len(marks) < MaxMarks
  /\ thread # None /\ joining = None
  /\ marks' = Append(marks, Mark(Lifecycle[(Len(marks) % 3) + 1], clock, Reading, 0))
  /\ UNCHANGED <<meterVars, raplVars>>

\* One source is metered; the other's state stands still.
Init ==
  /\ MeterInit /\ RaplInit /\ marks = <<>>
  /\ IF source = "rapl" THEN <<power, background>> = CHOOSE x \in Powers \X Backgrounds : TRUE
     ELSE package.counter = 0 /\ package.modulus = MaxRange

Next ==
  \/ source # "rapl" /\ MeterNext /\ UNCHANGED <<raplVars, marks>>
  \/ source = "rapl" /\ RaplNext /\ UNCHANGED <<meterVars, marks>>
  \/ MarkPhase

Spec == Init /\ [][Next]_vars

-----------------------------------------------------------------------------
(* A job is never billed for time in which its meter was not running, however *)
(* often it is stopped and started (marginal_meter.py:145 forgets the last    *)
(* sample), as long as every stop() saw the poller end: a straggler of the    *)
(* session before is the one thing that can bring an old sample back.         *)
NothingBilledUnmetered ==
  source = "marginal" /\ ~used.overlapped => used.billed <= used.metered

(* The phases share out the whole reading: the intervals add up to what the   *)
(* meter gained since the first mark, and none is clamped (pod_ledger.py:180),*)
(* even while two pollers integrate into one meter out of order.              *)
LedgerBalances ==
  marks # <<>> => Energy(Report(marks, clock, Reading)) = Reading - marks[1].kwh

\* Only one session was metered, with one background.
OneSession ==
  source = "marginal" /\ Cardinality(used.threads) = 1 /\ thread # None

(* Re-attributing the recorded trace gives what the meter integrated as it    *)
(* went (background.py:79-81), and sharing it out by the marks' time stamps   *)
(* loses and repeats nothing between the first mark and the end.              *)
TraceMatchesMeter ==
  OneSession /\ trace # <<>> =>
    LET end == trace[Len(trace)].t IN
    /\ MarginalFromTrace(trace, background, trace[1].t, end) = kwh.marginal
    /\ marks # <<>> /\ marks[Len(marks)].t <= end =>
         Energy(ReportFromTrace(marks, trace, background, end))
           = MarginalFromTrace(trace, background, marks[1].t, end)

(* Polled before a whole range is spent, a counter that wraps bills the       *)
(* energy spent since the first poll, short of at most one unit a wrap, and   *)
(* never more (telemetry.py:422-427).                                         *)
WrapsAreCounted ==
  source = "rapl" /\ package.unpolled = 0 /\ ~package.missed =>
    cumulative \in (package.spent - package.wraps)..package.spent
=============================================================================
