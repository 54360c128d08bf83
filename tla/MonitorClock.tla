---------------------------- MODULE MonitorClock ----------------------------
(***************************************************************************)
(* What monitor_loop (discord/player/manager/monitor.rs) does by the       *)
(* clock: when it declares a track stuck, and when it sends a player       *)
(* update.  Player has what the monitor does to the track and the player;  *)
(* here one step is one tick of the loop's interval and the inputs are     *)
(* what the loop reads at it.  Times are milliseconds.                     *)
(***************************************************************************)
EXTENDS Naturals

CONSTANTS
    TickMs,         \* the interval of the monitor's loop, 500
    MixerTickMs,    \* the tick update_every_n is computed with, 20
    UpdateMs,       \* server.player_update_interval
    StuckMs,        \* player.stuck_threshold_ms
    MaxMs           \* bound on the time of a behaviour

ASSUME ClockAssumption ==
    /\ TickMs \in Nat \ {0} /\ MixerTickMs \in Nat \ {0}
    /\ UpdateMs \in Nat \ {0} /\ StuckMs \in Nat \ {0}
    /\ MaxMs \in Nat

VARIABLES
    tick,           \* the loop's counter
    sinceMove,      \* the age of last_pos_changed_at
    buffering,      \* is buffering_started_at set
    sinceBuffer,    \* its age, 0 when it is not set
    stuckFired,     \* stuck_fired
    halted,         \* check_stuck has stopped the handle
    revived,        \* a client has revived it, and it has not moved since
    over,           \* the loop has ended
    stalled,        \* how long the track has played without a move of its
                    \* position, at ticks that saw the voice transport ready
    reported,       \* did this tick send TrackStuck
    sinceUpdate     \* the time since the last player update

vars == <<tick, sinceMove, buffering, sinceBuffer, stuckFired, halted, revived,
          over, stalled, reported, sinceUpdate>>

\* start_playback: UpdateMs, at least one mixer tick, in mixer ticks rounded up.
UpdateEveryN ==
    LET ms == IF UpdateMs < MixerTickMs THEN MixerTickMs ELSE UpdateMs
    IN  (ms + MixerTickMs - 1) \div MixerTickMs

ClockTypeOK ==
    /\ tick \in Nat
    /\ sinceMove \in Nat /\ sinceBuffer \in Nat
    /\ stalled \in Nat /\ sinceUpdate \in Nat
    /\ buffering \in BOOLEAN /\ stuckFired \in BOOLEAN
    /\ halted \in BOOLEAN /\ revived \in BOOLEAN
    /\ over \in BOOLEAN /\ reported \in BOOLEAN

Init ==
    /\ tick = 0
    /\ sinceMove = 0 /\ sinceBuffer = 0 /\ stalled = 0 /\ sinceUpdate = 0
    /\ buffering = FALSE /\ stuckFired = FALSE
    /\ halted = FALSE /\ revived = FALSE /\ over = FALSE /\ reported = FALSE

\* tick.is_multiple_of(update_every_n): send_player_update.
UpdateDue(n) == n % UpdateEveryN = 0

\* The interval's first tick comes at once.
Elapsed == IF tick = 0 THEN 0 ELSE TickMs

\* An update is sent with TrackStuck too.
ScheduleUpdate ==
    /\ tick' = tick + 1
    /\ sinceUpdate' = IF UpdateDue(tick + 1) \/ reported' THEN 0 ELSE sinceUpdate + Elapsed

\* Fault: a phase of buffering leaves the threshold out of reach.
ThresholdIgnoringBuffer(buf, sinceBuf, sinceMv) == ~buf /\ sinceMv >= StuckMs

\* Fault: the age of a buffering phase that is over.
ThresholdAnyAge(buf, sinceBuf, sinceMv) == sinceMv + sinceBuf >= StuckMs

\* check_stuck's threshold: the age of the buffering phase, if there is one.
Threshold(buf, sinceBuf, sinceMv) ==
    IF buf THEN sinceBuf >= StuckMs ELSE sinceMv >= StuckMs

\* check_stuck, with the timers as this tick leaves them: TrackStuck, and the
\* handle is stopped.
CheckStuck(fired) ==
    LET stuck == ~fired /\ Threshold(buffering', sinceBuffer', sinceMove')
    IN  /\ reported' = stuck
        /\ stuckFired' = (fired \/ stuck)
        /\ halted' = stuck

Running == ~over /\ ~halted /\ tick * TickMs < MaxMs

\* A tick that finds the track playing and either no voice transport or a new
\* position: the timers start again.
TickMoving ==
    /\ Running
    /\ sinceMove' = 0 /\ buffering' = FALSE /\ sinceBuffer' = 0
    /\ stalled' = 0 /\ revived' = FALSE
    /\ CheckStuck(FALSE)
    /\ ScheduleUpdate
    /\ UNCHANGED over

\* A tick that finds the track playing, the transport ready and the position
\* where it was; `underrun` is whether the mixer says it is buffering.
TickStalled(underrun) ==
    /\ Running
    /\ sinceMove' = sinceMove + Elapsed
    /\ stalled' = stalled + Elapsed
    /\ buffering' = underrun
    /\ sinceBuffer' = IF underrun /\ buffering THEN sinceBuffer + Elapsed ELSE 0
    /\ CheckStuck(stuckFired)
    /\ ScheduleUpdate
    /\ UNCHANGED <<over, revived>>

\* Fault: the time in pause counts.
TickPausedCounting ==
    /\ Running
    /\ sinceMove' = sinceMove + Elapsed
    /\ stalled' = 0
    /\ reported' = FALSE
    /\ ScheduleUpdate
    /\ UNCHANGED <<buffering, sinceBuffer, stuckFired, halted, revived, over>>

\* A tick that finds the track paused, or in a tape effect.
TickPaused ==
    /\ Running
    /\ sinceMove' = 0 /\ buffering' = FALSE /\ sinceBuffer' = 0
    /\ stalled' = 0
    /\ reported' = FALSE
    /\ ScheduleUpdate
    /\ UNCHANGED <<stuckFired, halted, revived, over>>

\* The loop ends: the handle is stopped or the stop signal is set.
Ends ==
    /\ ~over
    /\ over' = TRUE
    /\ reported' = FALSE
    /\ UNCHANGED <<tick, sinceMove, buffering, sinceBuffer, stuckFired, halted,
                   revived, stalled, sinceUpdate>>

\* pause or resume of a handle that check_stuck has stopped, before the loop's
\* next tick: TrackHandle::pause and play store their state over "stopped".
Revived ==
    /\ ~over /\ halted
    /\ halted' = FALSE /\ revived' = TRUE
    /\ UNCHANGED <<tick, sinceMove, buffering, sinceBuffer, stuckFired, over,
                   stalled, reported, sinceUpdate>>

Next ==
    \/ TickMoving \/ TickPaused \/ Ends \/ Revived
    \/ \E underrun \in BOOLEAN : TickStalled(underrun)

Spec == Init /\ [][Next]_vars

-----------------------------------------------------------------------------
\* A track is declared stuck only when it has stood still for the threshold
\* with the voice transport ready: no pause, no seek, no wait for a connection
\* and no mixture of buffering phases adds up to a report.
StuckIsDeserved == reported => stalled >= StuckMs

\* A track that stands still is declared stuck, and stopped, before twice the
\* threshold and one tick have passed, however buffering comes and goes
\* meanwhile: a phase of buffering starts the count once more, a second one
\* cannot.  The exception is a track that was stopped as stuck, that a client
\* has revived (pause or play over "stopped") and that has not moved since:
\* neither pause nor play resets stuck_fired (monitor.rs:102), so check_stuck
\* does not look at it again.
StuckIsCaught == stalled < 2 * StuckMs + TickMs \/ halted \/ revived

\* The strengthening StuckIsCaught needs: the timers agree with the stall, as
\* long as no report was made neither of them has reached the threshold, and
\* after a report the track is stopped unless a client revived it.
ClockInv ==
    /\ ClockTypeOK
    /\ sinceMove = stalled
    /\ ~buffering => sinceBuffer = 0
    /\ sinceBuffer <= sinceMove
    /\ reported => stalled >= StuckMs
    /\ stuckFired => halted \/ revived
    /\ ~stuckFired =>
          IF buffering
            THEN sinceBuffer < StuckMs /\ sinceMove < StuckMs + TickMs + sinceBuffer
            ELSE sinceMove < StuckMs

\* The configuration gives server.player_update_interval in seconds, and
\* start_playback rounds it "so sub-second intervals are not truncated": while
\* the loop runs, two updates are no further apart than that and one tick.
UpdatesOnTime == sinceUpdate <= UpdateMs + TickMs
=============================================================================
