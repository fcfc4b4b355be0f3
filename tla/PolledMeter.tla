---------------------------- MODULE PolledMeter -----------------------------
(***************************************************************************)
(* MarginalEnergyMeter and NvmlTelemetrySource (of one device): a poller   *)
(* thread samples clock and power and integrates them under a lock.        *)
(* stop() gives up on a poller that does not end in time, and start()      *)
(* clears the stop flag they all watch, so two pollers may run at once.    *)
(* Energies are in watts times the clock's unit, the poll interval.        *)
(***************************************************************************)
EXTENDS Integers, Sequences, FiniteSets

CONSTANTS
  Powers,        (* readings of nvmlDeviceGetPowerUsage                    *)
  Backgrounds,   (* backgrounds that calibrate() may find                  *)
  Pollers,       (* thread ids; a run starts at most that many             *)
  JoinTimeout,   (* thread.join(timeout=...)                               *)
  MaxClock,      (* bound on the clock                                     *)
  MaxTraced      (* bound on the threads of a meter that records a trace   *)

None == -1

ASSUME MeterAssumption ==
  /\ Powers \subseteq Nat /\ Backgrounds \subseteq Nat /\ None \notin Pollers
  /\ {JoinTimeout, MaxClock, MaxTraced} \subseteq Nat

VARIABLES
  source,        (* "marginal" or "nvml": which class; "rapl": see below *)
  clock,         (* time.monotonic()                                       *)
  power,         (* what the device draws                                  *)
  background,    (* background_w                                           *)
  kwh,           (* the cumulative integrals: marginal, device             *)
  last_ts,       (* _last_ts, or None                                      *)
  record_trace,  (* _record_trace: keep the samples                        *)
  trace,         (* _trace: samples in the order they were integrated      *)
  stop_event,    (* _stop_event                                            *)
  thread,        (* _thread, or None                                       *)
  initialized,   (* _initialized: NVML is up                               *)
  poller,        (* each thread: where it is, and the sample in its hands  *)
  joining,       (* when stop() began to join, or None                     *)
  used           (* history: threads started, time metered and billed      *)

meterVars == <<source, clock, power, background, kwh, last_ts, record_trace, trace,
               stop_event, thread, initialized, poller, joining, used>>

Off == [pc |-> "off", now |-> 0, watts |-> 0]
Running == {p \in Pollers : poller[p].pc # "off"}

MeterInit ==
  /\ source \in {"marginal", "nvml", "rapl"}
  /\ clock = 0 /\ power \in Powers /\ background \in Backgrounds
  /\ kwh = [marginal |-> 0, device |-> 0]
  /\ last_ts = None /\ trace = <<>>
  /\ record_trace \in (IF source = "marginal" THEN BOOLEAN ELSE {FALSE})
  /\ stop_event = FALSE /\ thread = None /\ initialized = FALSE
  /\ poller = [p \in Pollers |-> Off]
  /\ joining = None
  /\ used = [threads |-> {}, metered |-> 0, billed |-> 0, overlapped |-> FALSE]

\* Time passes, and the device may draw something else.
Elapse ==
  /\ clock < MaxClock
  /\ clock' = clock + 1
  /\ power' \in Powers
  /\ used' = [used EXCEPT !.metered = IF thread = None THEN @ ELSE @ + 1]
  /\ UNCHANGED <<source, record_trace, background, kwh, last_ts, trace, stop_event, thread,
                 initialized, poller, joining>>

-----------------------------------------------------------------------------
(* The driver's calls.  calibrate() and start() bring NVML up.             *)

Calibrate ==
  /\ source = "marginal" /\ thread = None /\ joining = None
  /\ background' \in Backgrounds \ {background}
  /\ initialized' = TRUE
  /\ UNCHANGED <<source, record_trace, clock, power, kwh, last_ts, trace, stop_event, thread,
                 poller, joining, used>>

\* Slip: the last time stamp of the session before is kept.
FirstStampKept == last_ts

\* The marginal meter forgets the time of its last sample, the NVML source not.
FirstStamp == IF source = "marginal" THEN None ELSE last_ts

\* start() does nothing while the last poller is alive.
Start(p) ==
  /\ source # "rapl" /\ joining = None /\ thread = None
  /\ p \notin used.threads
  /\ record_trace => Cardinality(used.threads) < MaxTraced
  /\ initialized' = TRUE /\ stop_event' = FALSE
  /\ last_ts' = FirstStamp
  /\ thread' = p
  /\ poller' = [poller EXCEPT ![p] = [Off EXCEPT !.pc = "top"]]
  /\ used' = [used EXCEPT !.threads = @ \union {p},
                          !.overlapped = @ \/ Running # {}]
  /\ UNCHANGED <<source, record_trace, clock, power, background, kwh, trace, joining>>

Stop ==
  /\ joining = None /\ thread # None
  /\ stop_event' = TRUE
  /\ joining' = clock
  /\ UNCHANGED <<source, record_trace, clock, power, background, kwh, last_ts, trace, thread,
                 initialized, poller, used>>

\* stop() of a meter without a thread; calibrate() may have left NVML up.
StopIdle ==
  /\ joining = None /\ thread = None /\ initialized
  /\ stop_event' = TRUE /\ initialized' = FALSE
  /\ UNCHANGED <<source, record_trace, clock, power, background, kwh, last_ts, trace,
                 thread, poller, joining, used>>

\* The poller has ended, or join() ran into its timeout.
Joins == poller[thread].pc = "off" \/ clock >= joining + JoinTimeout

Stopped ==
  /\ joining # None /\ Joins
  /\ joining' = None /\ thread' = None /\ initialized' = FALSE
  /\ UNCHANGED <<source, record_trace, clock, power, background, kwh, last_ts, trace, stop_event,
                 poller, used>>

-----------------------------------------------------------------------------
(* A poller thread.                                                        *)

PollerStep(p, next) ==
  /\ poller' = [poller EXCEPT ![p] = next]
  /\ UNCHANGED <<source, record_trace, clock, power, background, stop_event, thread, initialized, joining>>

ReadClock(p) ==
  /\ poller[p].pc = "top" /\ ~stop_event
  /\ PollerStep(p, [pc |-> "power", now |-> clock, watts |-> 0])
  /\ UNCHANGED <<kwh, last_ts, trace, used>>

Leave(p) ==
  /\ poller[p].pc \in {"top", "sleep"} /\ stop_event
  /\ PollerStep(p, Off)
  /\ UNCHANGED <<kwh, last_ts, trace, used>>

\* The marginal meter reads the power after the clock and before the lock.
ReadPower(p) ==
  /\ source = "marginal" /\ initialized /\ poller[p].pc = "power"
  /\ PollerStep(p, [poller[p] EXCEPT !.pc = "integrate", !.watts = power])
  /\ UNCHANGED <<kwh, last_ts, trace, used>>

\* NVML raised: logged, and the thread sleeps.
ReadFails(p) ==
  /\ poller[p].pc = "power"
  /\ PollerStep(p, [poller[p] EXCEPT !.pc = "sleep", !.watts = 0])
  /\ UNCHANGED <<kwh, last_ts, trace, used>>

\* Slip: the time step is not clamped.
SignedStep(now) == IF last_ts = None THEN 0 ELSE now - last_ts

\* dt of one sample: none for the first, never negative.
TimeStep(now) == IF last_ts = None \/ now < last_ts THEN 0 ELSE now - last_ts

Above(watts, floor) == IF watts > floor THEN watts - floor ELSE 0

\* The sample to integrate: the NVML source reads the power under the lock.
Sample(p) ==
  IF source = "marginal" THEN poller[p].watts ELSE power

\* The slice since the last sample, under the lock.  The time stamp is set even
\* to an earlier one.
Integrate(p) ==
  LET now == poller[p].now  watts == Sample(p)  dt == TimeStep(now) IN
  /\ \/ source = "marginal" /\ poller[p].pc = "integrate"
     \/ source = "nvml" /\ initialized /\ poller[p].pc = "power"
  /\ kwh' = [marginal |-> kwh.marginal + Above(watts, background) * dt,
             device |-> kwh.device + watts * dt]
  /\ last_ts' = now
  /\ trace' = IF record_trace THEN Append(trace, [t |-> now, watts |-> watts]) ELSE trace
  /\ used' = [used EXCEPT !.billed = @ + dt]
  /\ PollerStep(p, [pc |-> "sleep", now |-> now, watts |-> 0])

\* _stop_event.wait(timeout=poll interval).
Wake(p) ==
  /\ poller[p].pc = "sleep" /\ ~stop_event /\ clock > poller[p].now
  /\ PollerStep(p, [Off EXCEPT !.pc = "top"])
  /\ UNCHANGED <<kwh, last_ts, trace, used>>

Poll(p) == ReadClock(p) \/ Leave(p) \/ ReadPower(p) \/ ReadFails(p) \/ Integrate(p) \/ Wake(p)

MeterNext ==
  \/ Elapse \/ Calibrate \/ Stop \/ StopIdle \/ Stopped
  \/ \E p \in Pollers : Start(p) \/ Poll(p)

-----------------------------------------------------------------------------
(* RaplTelemetrySource of one CPU package: cumulative energy from a        *)
(* hardware counter that wraps.  The source adds max_energy_range_uj to a  *)
(* negative difference; the counter may wrap at that value or one past it. *)

CONSTANTS
  MaxRange,     (* max_energy_range_uj                                     *)
  MaxSpent      (* bound on the energy the package spends in a behaviour   *)

ASSUME RaplAssumption == MaxRange \in Nat \ {0} /\ MaxSpent \in Nat

VARIABLES
  package,      (* the package itself: modulus, counter, energy spent and
                   wraps since the first poll, energy since the last one   *)
  last_uj,      (* _last_energy_uj, or -1                                  *)
  cumulative    (* _cumulative_kwh                                         *)

raplVars == <<package, last_uj, cumulative>>

RaplInit ==
  /\ \E modulus \in {MaxRange, MaxRange + 1} : \E counter \in 0..(modulus - 1) :
       package = [modulus |-> modulus, counter |-> counter, spent |-> 0, wraps |-> 0,
                  unpolled |-> 0, missed |-> FALSE]
  /\ last_uj = -1 /\ cumulative = 0

\* Energy spent between two polls; a poll as late as a whole range misses it.
Spend(e) ==
  LET c == package.counter + e IN
  /\ last_uj # -1 /\ package.spent + e <= MaxSpent
  /\ package' = [package EXCEPT !.counter = c % package.modulus,
                   !.spent = @ + e,
                   !.wraps = @ + c \div package.modulus,
                   !.unpolled = @ + e,
                   !.missed = @ \/ package.unpolled + e >= MaxRange]
  /\ UNCHANGED <<last_uj, cumulative>>

\* Slip: a wrap-around is taken for a reset.
DeltaReset(uj) == IF uj < last_uj THEN uj ELSE uj - last_uj

Delta(uj) == IF uj < last_uj THEN uj - last_uj + MaxRange ELSE uj - last_uj

\* poll(): the first one only records the counter, whatever it reads.
PollRapl ==
  /\ cumulative' = cumulative + (IF last_uj = -1 THEN 0 ELSE Delta(package.counter))
  /\ last_uj' = package.counter
  /\ package' = [package EXCEPT !.unpolled = 0]

RaplNext == PollRapl \/ \E e \in 1..MaxRange : Spend(e)

=============================================================================
