------------------------- MODULE MonitorClockProofs -------------------------
(***************************************************************************)
(* Theorems about MonitorClock, for every interval and every threshold.    *)
(***************************************************************************)
EXTENDS MonitorClock, TLAPS

USE DEF ClockTypeOK, ClockInv

\* Time passes between two ticks by none or by one interval.
LEMMA ElapsedBound == Elapsed \in Nat /\ Elapsed <= TickMs
  BY ClockAssumption DEF Elapsed

\* The schedule of the updates keeps its types; it touches no timer of the
\* stall detection.
LEMMA ScheduleTypes ==
  ASSUME ClockTypeOK, ScheduleUpdate
  PROVE  tick' \in Nat /\ sinceUpdate' \in Nat
  BY ElapsedBound DEF ScheduleUpdate

\* A tick that starts the timers again cannot report.
LEMMA MovingPreserves == ASSUME ClockInv, TickMoving PROVE ClockInv'
  <1>1. tick' \in Nat /\ sinceUpdate' \in Nat
    BY ScheduleTypes DEF TickMoving
  <1>2. /\ sinceMove' = 0 /\ sinceBuffer' = 0 /\ stalled' = 0
        /\ ~buffering' /\ buffering' \in BOOLEAN /\ over' \in BOOLEAN
    BY DEF TickMoving
  <1>3. ~Threshold(buffering', sinceBuffer', sinceMove')
    BY <1>2, ClockAssumption DEF Threshold
  <1>4. /\ ~reported' /\ reported' \in BOOLEAN
        /\ ~stuckFired' /\ stuckFired' \in BOOLEAN
        /\ halted' \in BOOLEAN /\ revived' \in BOOLEAN
    BY <1>3 DEF TickMoving, CheckStuck
  <1> QED
    BY <1>1, <1>2, <1>4, ClockAssumption

\* A tick of a track that stands still: the buffering phase goes on, begins or
\* is over.
LEMMA StalledPreserves ==
  ASSUME ClockInv, NEW underrun \in BOOLEAN, TickStalled(underrun) PROVE ClockInv'
  <1> DEFINE past == Threshold(buffering', sinceBuffer', sinceMove')
  <1>1. tick' \in Nat /\ sinceUpdate' \in Nat
    BY ScheduleTypes DEF TickStalled
  <1>2. /\ reported' \in BOOLEAN /\ stuckFired' \in BOOLEAN /\ halted' \in BOOLEAN
        /\ revived' \in BOOLEAN
        /\ reported' => past
        /\ ~stuckFired' => ~stuckFired /\ ~past
        /\ stuckFired' => halted' \/ revived'
    BY Zenon DEF TickStalled, CheckStuck, Running
  <1>3. /\ sinceMove' = sinceMove + Elapsed
        /\ sinceBuffer' = IF underrun /\ buffering THEN sinceBuffer + Elapsed ELSE 0
        /\ stalled' = stalled + Elapsed
    BY DEF TickStalled
  <1>4. /\ buffering' \in BOOLEAN /\ over' \in BOOLEAN
        /\ buffering' <=> underrun
    BY DEF TickStalled
  <1>5. /\ sinceMove' \in Nat /\ sinceBuffer' \in Nat /\ stalled' = sinceMove'
        /\ sinceBuffer' <= sinceMove'
    BY <1>3, ElapsedBound
  <1>6. ~buffering' => sinceBuffer' = 0
    BY <1>3, <1>4
  <1>7. past => sinceMove' >= StuckMs
    BY <1>5, ClockAssumption DEF Threshold
  <1>8. ASSUME ~stuckFired'
        PROVE  IF buffering'
                 THEN sinceBuffer' < StuckMs /\ sinceMove' < StuckMs + TickMs + sinceBuffer'
                 ELSE sinceMove' < StuckMs
    <2>1. ~stuckFired /\ ~past
      BY <1>2, <1>8, Zenon
    <2>2. CASE ~underrun
      <3>1. ~buffering'
        BY <1>4, <2>2
      <3>2. ~(sinceMove' >= StuckMs)
        BY <2>1, <3>1 DEF Threshold
      <3>3. sinceMove' < StuckMs
        BY <3>2, <1>5, ClockAssumption
      <3> QED
        BY <3>1, <3>3
    <2>3. CASE underrun /\ buffering
      BY <1>3, <1>4, <1>5, <2>1, <2>3, ElapsedBound, ClockAssumption DEF Threshold
    <2>4. CASE underrun /\ ~buffering
      BY <1>3, <1>4, <1>5, <2>1, <2>4, ElapsedBound, ClockAssumption DEF Threshold
    <2> QED
      BY <2>2, <2>3, <2>4
  <1> QED
    BY <1>1, <1>2, <1>4, <1>5, <1>6, <1>7, <1>8

\* A tick of a paused player keeps the invariant.
LEMMA PausedPreserves == ASSUME ClockInv, TickPaused PROVE ClockInv'
  <1>1. tick' \in Nat /\ sinceUpdate' \in Nat
    BY ScheduleTypes DEF TickPaused
  <1>2. /\ sinceMove' = 0 /\ sinceBuffer' = 0 /\ stalled' = 0
        /\ ~buffering' /\ buffering' \in BOOLEAN /\ over' \in BOOLEAN
        /\ ~reported' /\ reported' \in BOOLEAN /\ revived' \in BOOLEAN
        /\ stuckFired' \in BOOLEAN /\ halted' \in BOOLEAN
        /\ stuckFired' => halted' \/ revived'
    BY DEF TickPaused
  <1> QED
    BY <1>1, <1>2, ClockAssumption

\* Every step of the loop keeps ClockInv.
LEMMA ClockStep == ClockInv /\ [Next]_vars => ClockInv'
  <1> SUFFICES ASSUME ClockInv, [Next]_vars PROVE ClockInv'
    OBVIOUS
  <1>1. CASE TickMoving
    BY <1>1, MovingPreserves
  <1>2. CASE TickPaused
    BY <1>2, PausedPreserves
  <1>3. CASE Ends
    BY <1>3 DEF Ends
  <1>4. CASE Revived
    BY <1>4 DEF Revived
  <1>5. CASE \E underrun \in BOOLEAN : TickStalled(underrun)
    BY <1>5, StalledPreserves
  <1>6. CASE UNCHANGED vars
    BY <1>6 DEF vars
  <1> QED
    BY <1>1, <1>2, <1>3, <1>4, <1>5, <1>6 DEF Next

\* The timers of monitor_loop agree with the stall, whatever the intervals.
THEOREM ClockInvariant == Spec => []ClockInv
  <1>1. ASSUME Init PROVE ClockInv
    <2>1. /\ ~buffering /\ buffering \in BOOLEAN /\ ~reported /\ reported \in BOOLEAN
          /\ ~stuckFired /\ stuckFired \in BOOLEAN /\ halted \in BOOLEAN
          /\ over \in BOOLEAN /\ revived \in BOOLEAN
      BY <1>1, Zenon DEF Init
    <2>2. tick = 0 /\ sinceMove = 0 /\ sinceBuffer = 0 /\ stalled = 0 /\ sinceUpdate = 0
      BY <1>1 DEF Init
    <2> QED
      BY <2>1, <2>2, ClockAssumption
  <1> QED
    BY <1>1, ClockStep, PTL DEF Spec

\* check_stuck reports a track only after a stall of the threshold.
THEOREM StuckDeserved == Spec => []StuckIsDeserved
  <1>1. ClockInv => StuckIsDeserved
    BY DEF StuckIsDeserved
  <1> QED
    BY <1>1, ClockInvariant, PTL

\* monitor_loop stops a track within a stall of twice the threshold and a tick,
\* save one that was stopped as stuck before and has not moved since a client
\* revived it.
THEOREM StuckCaught == Spec => []StuckIsCaught
  <1>1. ClockInv => StuckIsCaught
    BY ClockAssumption DEF StuckIsCaught
  <1> QED
    BY <1>1, ClockInvariant, PTL
=============================================================================
