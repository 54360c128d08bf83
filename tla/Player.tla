------------------------------- MODULE Player -------------------------------
(***************************************************************************)
(* The tracks of one guild's player: start_playback, stop_current_track    *)
(* and send_load_failed (discord/player/manager), the monitor task of each *)
(* track (manager/monitor.rs), PlayerContext (player/context.rs), and the  *)
(* requests that change a player (routes/player, ws/opcodes.rs,            *)
(* Session::destroy_player and Session::shutdown).                         *)
(*                                                                         *)
(* A request works on the player context it looked up, under that          *)
(* context's RwLock; the context may leave the players map meanwhile.  A   *)
(* monitor takes the lock only to clear the player, and shares the handle  *)
(* and the stop signal with the requests without it.  Steps split where a  *)
(* task awaits or where such a shared atomic is written before another.    *)
(*                                                                         *)
(* JoinHandle::abort cancels a task that is parked at an await.  A task    *)
(* that is running stops at its next await that is not ready at once.      *)
(*                                                                         *)
(* A PATCH that does several things is several requests here, which lets   *)
(* others come between them that its lock keeps out.  The states of a tape *)
(* effect count as the states they lead to.                                *)
(***************************************************************************)
EXTENDS Naturals, Sequences, FiniteSets

CONSTANTS
    Workers,        \* tasks that serve requests
    Ops,            \* the requests that are made, members of AllOps
    MaxOps,         \* bound on the requests of a behaviour
    MaxPlayers      \* bound on player contexts the guild goes through

Tracks  == 1 .. MaxOps      \* a request starts at most one track
Players == 1 .. MaxPlayers
Nothing == 0

\* The requests, told apart by what they do to tracks.  "play" is a PATCH with
\* a track, or the play op; `decodable` is whether Track::decode accepts it.
AllOps == [kind : {"play"}, noReplace : BOOLEAN, decodable : BOOLEAN]
              \cup [kind : {"stop", "pause", "resume", "wsStop", "wsDestroy",
                            "delete", "shutdown"}]

ASSUME PlayerAssumption ==
    /\ Ops \subseteq AllOps
    /\ MaxOps \in Nat /\ MaxPlayers \in Nat
    /\ IsFiniteSet(Workers) /\ "free" \notin Workers

VARIABLES
    mapped,     \* Session::players: the guild's context, or Nothing
    created,    \* how many contexts were created
    holder,     \* the request that holds each context's write lock
    track,      \* PlayerContext::track of each context
    info,       \* is PlayerContext::track_info set
    handle,     \* PlayerContext::track_handle
    task,       \* PlayerContext::track_task
    psignal,    \* PlayerContext::stop_signal, named by the track it was made for
    paused,     \* PlayerContext::paused
    installed,  \* how many tracks were installed
    decodable,  \* did Track::decode accept the track
    hstate,     \* the playback state in the handle: playing, paused or stopped
    decoder,    \* the decoder thread: none, running, ended or failed
    signal,     \* the stop signal of each track
    mon,        \* where the monitor of each track is
    target,     \* the context a monitor waits to clear
    reason,     \* the reason a monitor is going to report
    aborted,    \* monitors abort() was called on while they ran
    started,    \* tracks TrackStart was sent for
    ends,       \* the reasons of the TrackEnd events of each track
    silent,     \* tracks that left the player by a path that sends no TrackEnd
    pc,         \* where each request is
    op,         \* the request each worker serves
    ctx,        \* the context it looked up
    seen,       \* the track a DELETE saw in the player
    served,     \* how many requests were made
    down        \* Session::shutdown was called

playerVars  == <<mapped, created, holder, track, info, handle, task, psignal, paused>>
trackVars   == <<installed, decodable, hstate, decoder, signal>>
monVars     == <<mon, target, reason, aborted>>
eventVars   == <<started, ends, silent>>
requestVars == <<pc, op, ctx, seen, served, down>>
vars == <<playerVars, trackVars, monVars, eventVars, requestVars>>

Free   == "free"
NoOp   == [kind |-> "none"]
States == {"playing", "paused", "stopped"}

\* A monitor that still runs; at "tick" and "parked" it is at an await.
Monitoring ==
    {"tick", "checked", "stuck", "stopped", "marker", "locking", "parked", "sending"}

Steps == {"idle", "lock", "replace", "install", "resolve", "apply",
          "halting", "reading", "cleanup", "remove"}

PlayerTypeOK ==
    /\ mapped \in {Nothing} \cup Players
    /\ created \in 0 .. MaxPlayers
    /\ holder \in [Players -> Workers \cup {Free}]
    /\ track \in [Players -> {Nothing} \cup Tracks]
    /\ info \in [Players -> BOOLEAN]
    /\ handle \in [Players -> {Nothing} \cup Tracks]
    /\ task \in [Players -> {Nothing} \cup Tracks]
    /\ psignal \in [Players -> {Nothing} \cup Tracks]
    /\ paused \in [Players -> BOOLEAN]
    /\ installed \in 0 .. MaxOps
    /\ decodable \in [Tracks -> BOOLEAN]
    /\ hstate \in [Tracks -> States]
    /\ decoder \in [Tracks -> {"none", "running", "ended", "failed"}]
    /\ signal \in [Tracks -> BOOLEAN]
    /\ mon \in [Tracks -> {"none", "done"} \cup Monitoring]
    /\ target \in [Tracks -> {Nothing} \cup Players]
    /\ reason \in [Tracks -> {"Finished", "LoadFailed"}]
    /\ aborted \subseteq Tracks
    /\ started \subseteq Tracks
    /\ ends \in [Tracks -> Seq({"Finished", "LoadFailed", "Stopped", "Replaced", "Cleanup"})]
    /\ silent \subseteq Tracks
    /\ pc \in [Workers -> Steps]
    /\ op \in [Workers -> Ops \cup {NoOp}]
    /\ ctx \in [Workers -> {Nothing} \cup Players]
    /\ seen \in [Workers -> {Nothing} \cup Tracks]
    /\ served \in 0 .. MaxOps
    /\ down \in BOOLEAN

Init ==
    /\ mapped = Nothing
    /\ created = 0
    /\ holder = [p \in Players |-> Free]
    /\ track = [p \in Players |-> Nothing]
    /\ info = [p \in Players |-> FALSE]
    /\ handle = [p \in Players |-> Nothing]
    /\ task = [p \in Players |-> Nothing]
    /\ psignal = [p \in Players |-> Nothing]
    /\ paused = [p \in Players |-> FALSE]
    /\ installed = 0
    /\ decodable = [i \in Tracks |-> FALSE]
    /\ hstate = [i \in Tracks |-> "playing"]
    /\ decoder = [i \in Tracks |-> "none"]
    /\ signal = [i \in Tracks |-> FALSE]
    /\ mon = [i \in Tracks |-> "none"]
    /\ target = [i \in Tracks |-> Nothing]
    /\ reason = [i \in Tracks |-> "Finished"]
    /\ aborted = {}
    /\ started = {}
    /\ ends = [i \in Tracks |-> <<>>]
    /\ silent = {}
    /\ pc = [w \in Workers |-> "idle"]
    /\ op = [w \in Workers |-> NoOp]
    /\ ctx = [w \in Workers |-> Nothing]
    /\ seen = [w \in Workers |-> Nothing]
    /\ served = 0
    /\ down = FALSE

-----------------------------------------------------------------------------
(***************************************************************************)
(* The handle, the events and the tasks.                                   *)
(***************************************************************************)
\* TrackHandle::get_state: a disconnected command channel counts as stopped.
GetState(i) == IF decoder[i] \in {"ended", "failed"} THEN "stopped" ELSE hstate[i]

\* JoinHandle::abort on the monitors of a set of tracks.
Abort(is) ==
    /\ mon' = [i \in Tracks |->
                  IF i \in is /\ mon[i] \in {"tick", "parked"} THEN "done" ELSE mon[i]]
    /\ aborted' = aborted \cup {i \in is : mon[i] \in Monitoring \ {"tick", "parked"}}

\* An event TrackEnd for track i; no event for Nothing.
SendEnd(i, why) ==
    ends' = IF i = Nothing THEN ends ELSE [ends EXCEPT ![i] = Append(@, why)]

\* The request of w is over; it drops the lock of its context.
Release(w) ==
    /\ holder' = [holder EXCEPT ![ctx[w]] = Free]
    /\ pc' = [pc EXCEPT ![w] = "idle"]
    /\ op' = [op EXCEPT ![w] = NoOp]
    /\ ctx' = [ctx EXCEPT ![w] = Nothing]
    /\ UNCHANGED <<seen, served, down>>

Goto(w, step) ==
    /\ pc' = [pc EXCEPT ![w] = step]
    /\ UNCHANGED <<op, ctx, seen, served, down>>

-----------------------------------------------------------------------------
(***************************************************************************)
(* The decoder thread and the mixer.                                       *)
(***************************************************************************)
\* The decoder reaches the end of its input or fails; it reports a failure
\* before it drops its end of the command channel.  Only a monitor and a handle
\* can tell, so the end of a decoder that none refers to is not a step.
DecoderEnds(i, how) ==
    /\ decoder[i] = "running"
    /\ mon[i] \in Monitoring \/ \E p \in Players : handle[p] = i
    /\ decoder' = [decoder EXCEPT ![i] = how]
    /\ UNCHANGED <<playerVars, installed, decodable, hstate, signal, monVars,
                   eventVars, requestVars>>

\* The mixer drops a stopped track, and the decoder's next frame has no reader.
MixerDrops(i) ==
    /\ hstate[i] = "stopped"
    /\ DecoderEnds(i, "ended")

-----------------------------------------------------------------------------
(***************************************************************************)
(* The monitor of track i.                                                 *)
(***************************************************************************)
MonitorTick(i) ==
    /\ mon[i] = "tick"
    /\ mon' = [mon EXCEPT ![i] = IF signal[i] THEN "done" ELSE "checked"]
    /\ UNCHANGED <<playerVars, trackVars, target, reason, aborted, eventVars, requestVars>>

\* The end of the loop's body: back to the await of the next tick.
NextTick(i) == [mon EXCEPT ![i] = IF i \in aborted THEN "done" ELSE "tick"]

\* get_state says stopped, and stores it.
MonitorSeesStop(i) ==
    /\ mon[i] = "checked"
    /\ GetState(i) = "stopped"
    /\ hstate' = [hstate EXCEPT ![i] = "stopped"]
    /\ mon' = [mon EXCEPT ![i] = "stopped"]
    /\ UNCHANGED <<playerVars, installed, decodable, decoder, signal, target,
                   reason, aborted, eventVars, requestVars>>

\* A playing track passed its end time.
MonitorSeesMarker(i) ==
    /\ mon[i] = "checked"
    /\ GetState(i) = "playing"
    /\ mon' = [mon EXCEPT ![i] = "marker"]
    /\ UNCHANGED <<playerVars, trackVars, target, reason, aborted, eventVars, requestVars>>

\* A playing track stalled past the threshold: TrackStuck is sent.
MonitorSeesStuck(i) ==
    /\ mon[i] = "checked"
    /\ GetState(i) = "playing"
    /\ mon' = [mon EXCEPT ![i] = "stuck"]
    /\ UNCHANGED <<playerVars, trackVars, target, reason, aborted, eventVars, requestVars>>

\* check_stuck then stops the handle, whatever its state is by now.
MonitorStuck(i) ==
    /\ mon[i] = "stuck"
    /\ hstate' = [hstate EXCEPT ![i] = "stopped"]
    /\ mon' = NextTick(i)
    /\ UNCHANGED <<playerVars, installed, decodable, decoder, signal, target,
                   reason, aborted, eventVars, requestVars>>

\* A player update, lyrics, a SponsorBlock seek: nothing that ends the track.
MonitorGoesOn(i) ==
    /\ mon[i] = "checked"
    /\ GetState(i) # "stopped"
    /\ mon' = NextTick(i)
    /\ UNCHANGED <<playerVars, trackVars, target, reason, aborted, eventVars, requestVars>>

\* clear_player_state, session.get_player: the guild's context of this moment.
SeekPlayer(i) ==
    /\ target' = [target EXCEPT ![i] = mapped]
    /\ mon' = [mon EXCEPT ![i] = IF mapped = Nothing THEN "sending" ELSE "locking"]

\* handle_playback_stopped, up to the await of the player's lock.
MonitorStopped(i) ==
    /\ mon[i] = "stopped"
    /\ \/ /\ signal[i]
          /\ mon' = [mon EXCEPT ![i] = "done"]
          /\ UNCHANGED <<target, reason>>
       \/ /\ ~signal[i]
          /\ reason' = [reason EXCEPT ![i] =
                           IF decoder[i] = "failed" THEN "LoadFailed" ELSE "Finished"]
          /\ SeekPlayer(i)
    /\ UNCHANGED <<playerVars, trackVars, aborted, eventVars, requestVars>>

\* handle_track_end_marker, up to the await of the player's lock.
MonitorMarker(i) ==
    /\ mon[i] = "marker"
    /\ signal' = [signal EXCEPT ![i] = TRUE]
    /\ hstate' = [hstate EXCEPT ![i] = "stopped"]
    /\ reason' = [reason EXCEPT ![i] = "Finished"]
    /\ SeekPlayer(i)
    /\ UNCHANGED <<playerVars, installed, decodable, decoder, aborted, eventVars, requestVars>>

\* Fault: the player is not cleared.
ClearPlayerNot(i) ==
    /\ mon' = [mon EXCEPT ![i] = "sending"]
    /\ UNCHANGED <<track, info, handle>>

\* clear_player_state under the lock: only the monitor's own track is cleared.
ClearPlayer(i) ==
    LET p == target[i]
        mine == handle[p] = i
    IN  /\ track' = IF mine THEN [track EXCEPT ![p] = Nothing] ELSE track
        /\ info' = IF mine THEN [info EXCEPT ![p] = FALSE] ELSE info
        /\ handle' = IF mine THEN [handle EXCEPT ![p] = Nothing] ELSE handle
        /\ mon' = [mon EXCEPT ![i] = "sending"]

\* The first poll of the lock: free, or the task parks, or it is cancelled.
MonitorLocks(i) ==
    /\ mon[i] = "locking"
    /\ IF holder[target[i]] = Free
         THEN ClearPlayer(i)
         ELSE /\ mon' = [mon EXCEPT ![i] = IF i \in aborted THEN "done" ELSE "parked"]
              /\ UNCHANGED <<track, info, handle>>
    /\ UNCHANGED <<mapped, created, holder, task, psignal, paused, trackVars, target, reason,
                   aborted, eventVars, requestVars>>

MonitorWakes(i) ==
    /\ mon[i] = "parked"
    /\ holder[target[i]] = Free
    /\ ClearPlayer(i)
    /\ UNCHANGED <<mapped, created, holder, task, psignal, paused, trackVars, target, reason,
                   aborted, eventVars, requestVars>>

\* The TrackEnd of the monitor, its last step.
MonitorSends(i) ==
    /\ mon[i] = "sending"
    /\ SendEnd(i, reason[i])
    /\ mon' = [mon EXCEPT ![i] = "done"]
    /\ target' = [target EXCEPT ![i] = Nothing]
    /\ reason' = [reason EXCEPT ![i] = "Finished"]
    /\ aborted' = aborted \ {i}
    /\ UNCHANGED <<playerVars, trackVars, started, silent, requestVars>>

Monitor(i) ==
    \/ MonitorTick(i) \/ MonitorSeesStop(i) \/ MonitorSeesMarker(i)
    \/ MonitorSeesStuck(i) \/ MonitorStuck(i) \/ MonitorGoesOn(i) \/ MonitorStopped(i)
    \/ MonitorMarker(i) \/ MonitorLocks(i) \/ MonitorWakes(i) \/ MonitorSends(i)

-----------------------------------------------------------------------------
(***************************************************************************)
(* Requests.                                                               *)
(***************************************************************************)
\* A request of kind k arrives at worker w, and goes to `step` on context p.
Arrive(w, k, p, step) ==
    /\ pc[w] = "idle"
    /\ served < MaxOps
    /\ ~down
    /\ \E o \in Ops : o.kind = k /\ op' = [op EXCEPT ![w] = o]
    /\ served' = served + 1
    /\ ctx' = [ctx EXCEPT ![w] = p]
    /\ pc' = [pc EXCEPT ![w] = step]
    /\ UNCHANGED <<seen, down, holder, track, info, handle, task, psignal,
                   paused, trackVars, monVars, eventVars>>

\* get_or_create_player.
BeginOnPlayer(w) ==
    /\ \E k \in {"play", "stop", "pause", "resume"} :
          \/ /\ mapped # Nothing
             /\ Arrive(w, k, mapped, "lock")
             /\ UNCHANGED <<mapped, created>>
          \/ /\ mapped = Nothing
             /\ created < MaxPlayers
             /\ Arrive(w, k, created + 1, "lock")
             /\ mapped' = created + 1
             /\ created' = created + 1

\* The stop op and DELETE look the player up; without one they do nothing.
BeginOnExisting(w) ==
    /\ mapped # Nothing
    /\ \/ Arrive(w, "wsStop", mapped, "lock")
       \/ Arrive(w, "delete", mapped, "reading")
    /\ UNCHANGED <<mapped, created>>

\* The destroy op removes the player from the map.
BeginDestroy(w) ==
    /\ Arrive(w, "wsDestroy", Nothing, "remove")
    /\ UNCHANGED <<mapped, created>>

\* Fault: only the task of the guild's present context is aborted.
StopMappedPlayer == Abort({i \in Tracks : mapped # Nothing /\ task[mapped] = i})

\* Session::stop_all_players: every task that was registered.
StopAllPlayers == Abort(Tracks)

\* Session::shutdown: every registered task is aborted, then the players are
\* destroyed.  A PATCH keeps the session's entry of AppState::sessions locked
\* and the socket's ops end before its task closes the session, so only
\* DELETEs can still be under way.
Shutdown(w) ==
    /\ pc[w] = "idle"
    /\ [kind |-> "shutdown"] \in Ops
    /\ served < MaxOps
    /\ ~down
    /\ \A v \in Workers : pc[v] = "idle" \/ op[v].kind = "delete"
    /\ down' = TRUE
    /\ StopAllPlayers
    /\ op' = [op EXCEPT ![w] = [kind |-> "shutdown"]]
    /\ pc' = [pc EXCEPT ![w] = "remove"]
    /\ served' = served + 1
    /\ UNCHANGED <<playerVars, trackVars, target, reason, eventVars, ctx, seen>>

\* The write lock of the looked-up context is granted.
Acquire(w) ==
    /\ pc[w] = "lock"
    /\ holder[ctx[w]] = Free
    /\ holder' = [holder EXCEPT ![ctx[w]] = w]
    /\ Goto(w, CASE op[w].kind = "play" -> "replace"
                 [] op[w].kind \in {"stop", "pause", "resume"} -> "apply"
                 [] OTHER -> "halting")
    /\ UNCHANGED <<mapped, created, track, info, handle, task, psignal, paused,
                   trackVars, monVars, eventVars>>

\* apply_track_update: noReplace leaves a player that has a track alone.
KeepTrack(w) ==
    /\ pc[w] = "replace"
    /\ op[w].noReplace
    /\ track[ctx[w]] # Nothing
    /\ Release(w)
    /\ UNCHANGED <<mapped, created, track, info, handle, task, psignal, paused,
                   trackVars, monVars, eventVars>>

\* Fault: a paused track is not reported.
ReportReplacedPlaying(w) ==
    LET p == ctx[w]
        i == handle[p]
    IN  /\ pc[w] = "replace"
        /\ ~(op[w].noReplace /\ track[p] # Nothing)
        /\ SendEnd(IF i # Nothing /\ GetState(i) = "playing" THEN i ELSE Nothing, "Replaced")
        /\ Goto(w, "install")
        /\ UNCHANGED <<playerVars, trackVars, monVars, started, silent>>

\* stop_current_track, its first half: TrackEnd Replaced for a track that is
\* not stopped and has track info.
ReportReplaced(w) ==
    LET p == ctx[w]
        i == handle[p]
        active == i # Nothing /\ GetState(i) # "stopped" /\ info[p]
    IN  /\ pc[w] = "replace"
        /\ ~(op[w].noReplace /\ track[p] # Nothing)
        /\ SendEnd(IF active THEN i ELSE Nothing, "Replaced")
        /\ silent' = IF i # Nothing /\ ~active THEN silent \cup {i} ELSE silent
        /\ hstate' = IF i # Nothing THEN [hstate EXCEPT ![i] =
                                             IF GetState(i) = "stopped" THEN "stopped" ELSE @]
                                    ELSE hstate
        /\ Goto(w, "install")
        /\ UNCHANGED <<playerVars, installed, decodable, decoder, signal, monVars, started>>

\* Fault: the new track shares the stop signal of the old one.
HaltTrackSharing(p, n) ==
    /\ signal' = [i \in Tracks |-> signal[i] \/ i \in {psignal[p], n}]
    /\ Abort({task[p]} \cap Tracks)
    /\ hstate' = [i \in Tracks |-> IF i = handle[p] THEN "stopped" ELSE hstate[i]]

\* Fault: the old track is neither signalled nor aborted nor stopped.
HaltTrackNot(p, n) == UNCHANGED <<signal, mon, aborted, hstate>>

\* stop_current_track, its second half: signal, abort and stop the old track,
\* before track n takes its place.
HaltTrack(p, n) ==
    /\ signal' = [i \in Tracks |-> signal[i] \/ i = psignal[p]]
    /\ Abort({task[p]} \cap Tracks)
    /\ hstate' = [i \in Tracks |-> IF i = handle[p] THEN "stopped" ELSE hstate[i]]

\* The metadata and the stop signal of the new track.
Install(w) ==
    LET p == ctx[w]
        n == installed + 1
    IN  /\ pc[w] = "install"
        /\ installed' = n
        /\ HaltTrack(p, n)
        /\ task' = [task EXCEPT ![p] = Nothing]
        /\ handle' = [handle EXCEPT ![p] = Nothing]
        /\ track' = [track EXCEPT ![p] = n]
        /\ info' = [info EXCEPT ![p] = op[w].decodable]
        /\ decodable' = [decodable EXCEPT ![n] = op[w].decodable]
        /\ psignal' = [psignal EXCEPT ![p] = n]
        /\ Goto(w, "resolve")
        /\ UNCHANGED <<mapped, created, holder, paused, decoder, target, reason, eventVars>>

\* Fault: the metadata stays after the failure.
ResolveFailsKeepingTrack(w) ==
    /\ pc[w] = "resolve"
    /\ SendEnd(track[ctx[w]], "LoadFailed")
    /\ Release(w)
    /\ UNCHANGED <<mapped, created, track, info, handle, task, psignal, paused,
                   trackVars, monVars, started, silent>>

\* resolve_track failed or timed out: send_load_failed, which returns early
\* when the player has no track info.
ResolveFails(w) ==
    LET p == ctx[w]
    IN  /\ pc[w] = "resolve"
        /\ IF info[p]
             THEN /\ SendEnd(track[p], "LoadFailed")
                  /\ track' = [track EXCEPT ![p] = Nothing]
                  /\ info' = [info EXCEPT ![p] = FALSE]
                  /\ signal' = [signal EXCEPT ![psignal[p]] = TRUE]
             ELSE UNCHANGED <<ends, track, info, signal>>
        /\ Release(w)
        /\ UNCHANGED <<mapped, created, handle, task, psignal, paused, installed,
                       decodable, hstate, decoder, monVars, started, silent>>

\* The decoder and the handle exist; TrackStart and the monitor need track info.
ResolveSucceeds(w) ==
    LET p == ctx[w]
        n == track[p]
    IN  /\ pc[w] = "resolve"
        /\ decoder' = [decoder EXCEPT ![n] = "running"]
        /\ hstate' = [hstate EXCEPT ![n] = IF paused[p] THEN "paused" ELSE "playing"]
        /\ handle' = [handle EXCEPT ![p] = n]
        /\ IF info[p]
             THEN /\ started' = started \cup {n}
                  /\ mon' = [mon EXCEPT ![n] = "tick"]
                  /\ task' = [task EXCEPT ![p] = n]
             ELSE UNCHANGED <<started, mon, task>>
        /\ Release(w)
        /\ UNCHANGED <<mapped, created, track, info, psignal, paused, installed,
                       decodable, signal, target, reason, aborted, ends, silent>>

\* set_paused: nothing when the flag has the value already.
SetPaused(w) ==
    LET p == ctx[w]
        i == handle[p]
        value == op[w].kind = "pause"
    IN  /\ pc[w] = "apply"
        /\ op[w].kind \in {"pause", "resume"}
        /\ paused' = [paused EXCEPT ![p] = value]
        /\ hstate' = IF i # Nothing /\ paused[p] # value
                       THEN [hstate EXCEPT ![i] = IF value THEN "paused" ELSE "playing"]
                       ELSE hstate
        /\ Release(w)
        /\ UNCHANGED <<mapped, created, track, info, handle, task, psignal,
                       installed, decodable, decoder, signal, monVars, eventVars>>

\* Fault: neither the signal nor the handle is touched.
StopPlayerQuietly(w) ==
    /\ pc[w] = "apply"
    /\ op[w].kind = "stop"
    /\ Goto(w, "cleanup")
    /\ UNCHANGED <<playerVars, trackVars, monVars, eventVars>>

\* stop_player: the signal and the handle, before it awaits the mixer.
StopPlayer(w) ==
    LET p == ctx[w]
        i == handle[p]
    IN  /\ pc[w] = "apply"
        /\ op[w].kind = "stop"
        /\ signal' = [j \in Tracks |-> signal[j] \/ (i # Nothing /\ j = psignal[p])]
        /\ hstate' = [j \in Tracks |-> IF j = i THEN "stopped" ELSE hstate[j]]
        /\ Goto(w, "cleanup")
        /\ UNCHANGED <<playerVars, installed, decodable, decoder, monVars, eventVars>>

\* Fault: the track stays in the player.
ReportStoppedKeepingTrack(w) ==
    /\ pc[w] = "cleanup"
    /\ op[w].kind = "stop"
    /\ SendEnd(track[ctx[w]], "Stopped")
    /\ handle' = [handle EXCEPT ![ctx[w]] = Nothing]
    /\ Release(w)
    /\ UNCHANGED <<mapped, created, track, info, task, psignal, paused, trackVars,
                   monVars, started, silent>>

\* stop_player: the player is cleared and TrackEnd Stopped is sent.
ReportStopped(w) ==
    LET p == ctx[w]
    IN  /\ pc[w] = "cleanup"
        /\ op[w].kind = "stop"
        /\ SendEnd(track[p], "Stopped")
        /\ handle' = [handle EXCEPT ![p] = Nothing]
        /\ track' = [track EXCEPT ![p] = Nothing]
        /\ info' = [info EXCEPT ![p] = FALSE]
        /\ Release(w)
        /\ UNCHANGED <<mapped, created, task, psignal, paused, trackVars, monVars,
                       started, silent>>

\* stop_track, of the stop op or of destroy: the handle is stopped first.
StopTrack(w) ==
    LET p == ctx[w]
        i == handle[p]
    IN  /\ pc[w] = "halting"
        /\ \/ i # Nothing
           \/ track[p] # Nothing
        /\ hstate' = [j \in Tracks |-> IF j = i THEN "stopped" ELSE hstate[j]]
        /\ silent' = IF i # Nothing THEN silent \cup {i} ELSE silent
        /\ track' = [track EXCEPT ![p] = Nothing]
        /\ info' = [info EXCEPT ![p] = FALSE]
        /\ handle' = [handle EXCEPT ![p] = Nothing]
        /\ UNCHANGED <<mapped, created, holder, task, psignal, paused, installed,
                       decodable, decoder, signal, monVars, started, ends, requestVars>>

\* stop_track: then the monitor is aborted and the signal set.
AbortTrack(w) ==
    LET p == ctx[w]
    IN  /\ pc[w] = "halting"
        /\ handle[p] = Nothing /\ track[p] = Nothing
        /\ Abort({task[p]} \cap Tracks)
        /\ task' = [task EXCEPT ![p] = Nothing]
        /\ signal' = [j \in Tracks |-> signal[j] \/ j = psignal[p]]
        /\ Release(w)
        /\ UNCHANGED <<mapped, created, track, info, handle, psignal, paused,
                       installed, decodable, hstate, decoder, target, reason, eventVars>>

\* Fault: the guard is kept while the player is destroyed.
ReadTrackKeepingGuard(w) ==
    LET p == ctx[w]
    IN  /\ pc[w] = "reading"
        /\ holder[p] = Free
        /\ holder' = [holder EXCEPT ![p] = w]
        /\ seen' = [seen EXCEPT ![w] = IF info[p] THEN track[p] ELSE Nothing]
        /\ pc' = [pc EXCEPT ![w] = "cleanup"]
        /\ UNCHANGED <<mapped, created, track, info, handle, task, psignal, paused,
                       trackVars, monVars, eventVars, op, ctx, served, down>>

\* DELETE: the read lock, to look at the track.
ReadTrack(w) ==
    LET p == ctx[w]
    IN  /\ pc[w] = "reading"
        /\ holder[p] = Free
        /\ seen' = [seen EXCEPT ![w] = IF info[p] THEN track[p] ELSE Nothing]
        /\ pc' = [pc EXCEPT ![w] = "cleanup"]
        /\ UNCHANGED <<playerVars, trackVars, monVars, eventVars, op, ctx, served, down>>

\* DELETE: TrackEnd Cleanup for the track it saw, without the lock.
ReportCleanup(w) ==
    /\ pc[w] = "cleanup"
    /\ op[w].kind = "delete"
    /\ SendEnd(seen[w], "Cleanup")
    /\ seen' = [seen EXCEPT ![w] = Nothing]
    /\ pc' = [pc EXCEPT ![w] = "remove"]
    /\ UNCHANGED <<playerVars, trackVars, monVars, started, silent, op, ctx, served, down>>

\* Session::destroy_player: the entry is removed, then the context is locked.
RemovePlayer(w) ==
    /\ pc[w] = "remove"
    /\ mapped' = Nothing
    /\ ctx' = [ctx EXCEPT ![w] = mapped]
    /\ pc' = [pc EXCEPT ![w] = IF mapped = Nothing THEN "idle" ELSE "lock"]
    /\ op' = [op EXCEPT ![w] = IF mapped = Nothing THEN NoOp ELSE @]
    /\ UNCHANGED <<created, holder, track, info, handle, task, psignal, paused,
                   trackVars, monVars, eventVars, seen, served, down>>

Request(w) ==
    \/ KeepTrack(w) \/ ReportReplaced(w) \/ Install(w) \/ ResolveFails(w)
    \/ ResolveSucceeds(w) \/ SetPaused(w) \/ StopPlayer(w) \/ ReportStopped(w)
    \/ StopTrack(w) \/ AbortTrack(w) \/ ReportCleanup(w) \/ RemovePlayer(w)
    \/ Acquire(w) \/ ReadTrack(w)

Begin(w) ==
    \/ BeginOnPlayer(w) \/ BeginOnExisting(w) \/ BeginDestroy(w) \/ Shutdown(w)

Next ==
    \/ \E w \in Workers : Begin(w) \/ Request(w)
    \/ \E i \in Tracks : \/ Monitor(i) \/ MixerDrops(i)
                         \/ \E how \in {"ended", "failed"} : DecoderEnds(i, how)

(***************************************************************************)
(* tokio polls a task that can go on, its RwLock is granted in the order   *)
(* of the requests for it, and a resolution has a timeout of 30 s.  A      *)
(* bounded number of requests cannot keep a lock busy for ever, so weak    *)
(* fairness is enough for the tasks that wait for one.  Nothing obliges a  *)
(* decoder to reach the end of its input, or a client to send a request.   *)
(***************************************************************************)
Fairness ==
    /\ \A w \in Workers : WF_vars(Request(w))
    /\ \A i \in Tracks : WF_vars(Monitor(i))

Spec == Init /\ [][Next]_vars
FairSpec == Spec /\ Fairness

-----------------------------------------------------------------------------
(***************************************************************************)
(* Properties.                                                             *)
(***************************************************************************)
\* The context of the guild, when no request holds its lock.
Settled(p) == p = mapped /\ p # Nothing /\ holder[p] = Free /\ ~down

\* The track a client can see in a player has a monitor that will end it: no
\* interleaving of a monitor's last steps with requests leaves a track that
\* was announced in the player after its monitor is gone.
ShownTrackIsMonitored ==
    \A p \in Players :
        Settled(p) /\ handle[p] # Nothing /\ info[p]
            => /\ track[p] = handle[p]
               /\ mon[handle[p]] \in Monitoring \ {"sending"}
               /\ task[p] = handle[p]

\* A monitor without a stop signal is the track_task of a context, so that the
\* next start, stop or destroy of that context reaches it.
MonitorIsReachable ==
    \A i \in Tracks :
        mon[i] \in Monitoring /\ ~signal[i] => \E p \in Players : task[p] = i

\* What a context holds is of one track, the last one that was installed in it,
\* and contexts share no track.
OneTrackPerPlayer ==
    /\ \A p \in Players :
          /\ track[p] \in {Nothing, psignal[p]} /\ task[p] \in {Nothing, psignal[p]}
          /\ handle[p] \in {Nothing, track[p]}
          /\ info[p] <=> track[p] # Nothing /\ decodable[track[p]]
    /\ \A p, q \in Players : psignal[p] = psignal[q] /\ psignal[p] # Nothing => p = q

\* A track that was not installed and a context that was not created yet are as
\* they were at first.
FreshIsUntouched ==
    /\ \A i \in Tracks :
          /\ i > installed => /\ mon[i] = "none" /\ ~signal[i]
                              /\ ends[i] = <<>> /\ i \notin started
          /\ i \in aborted => mon[i] # "none"
    /\ \A p \in Players :
          /\ psignal[p] <= installed
          /\ p > created => psignal[p] = Nothing /\ holder[p] = Free
    /\ mapped <= created
    /\ \A w \in Workers : ctx[w] <= created /\ seen[w] <= installed

\* Request w holds the lock of its context.
Locks(w) ==
    \/ pc[w] \in {"replace", "install", "resolve", "apply", "halting"}
    \/ pc[w] = "cleanup" /\ op[w].kind = "stop"

\* The kinds of request that come to a step.
KindsAt(step) ==
    CASE step = "idle" -> {"none"}
      [] step \in {"replace", "install", "resolve"} -> {"play"}
      [] step = "apply" -> {"stop", "pause", "resume"}
      [] step = "cleanup" -> {"stop", "delete"}
      [] step = "reading" -> {"delete"}
      [] step = "halting" -> {"wsStop", "wsDestroy", "delete", "shutdown"}
      [] step = "remove" -> {"wsDestroy", "delete", "shutdown"}
      [] step = "lock" -> {"play", "stop", "pause", "resume", "wsStop", "wsDestroy",
                           "delete", "shutdown"}

\* A lock is held by the request that is working under it, on its context, and
\* a request is where its kind takes it.
RequestsInShape ==
    /\ \A p \in Players : holder[p] # Free => ctx[holder[p]] = p /\ Locks(holder[p])
    /\ \A w \in Workers :
          /\ Locks(w) => ctx[w] # Nothing /\ holder[ctx[w]] = w
          /\ pc[w] \in {"lock", "reading"} => ctx[w] # Nothing
          /\ pc[w] = "idle" => ctx[w] = Nothing
          /\ op[w].kind \in KindsAt(pc[w])

\* Every track that may still be installed has a request of its own.
Starting == {w \in Workers : op[w].kind = "play" /\ pc[w] \in {"lock", "replace", "install"}}
RequestPerTrack == installed + Cardinality(Starting) <= served

\* While a track is resolved nothing has seen it, and outside that time only a
\* track that does not decode is without a handle.
ResolvingIsNew ==
    /\ \A w \in Workers :
          pc[w] = "resolve" =>
            LET p == ctx[w]
            IN  /\ track[p] # Nothing /\ handle[p] = Nothing /\ task[p] = Nothing
                /\ mon[track[p]] = "none" /\ ~signal[track[p]]
    /\ \A p \in Players :
          info[p] /\ handle[p] = Nothing => holder[p] # Free /\ pc[holder[p]] = "resolve"

\* Until stop_player has signalled it, the monitor of the guild's track runs, was
\* not aborted, and heeds no signal but its own at the end of the track.
ShownIsWatched ==
    \A p \in Players :
        LET i == handle[p]
        IN  /\ p = mapped /\ ~down /\ i # Nothing /\ info[p]
            /\ holder[p] # Free => pc[holder[p]] # "cleanup"
            => /\ task[p] = i /\ i \notin aborted
               /\ mon[i] \in Monitoring \ {"sending"}
               /\ IF mon[i] \in {"locking", "parked"} THEN target[i] = p ELSE ~signal[i]

\* A monitor that waits for a lock waits for that of a context.
TargetIsPlayer == \A i \in Tracks : mon[i] \in {"locking", "parked"} => target[i] # Nothing

\* A track without a handle that was announced is in its monitor's last step,
\* reported, or silent; one that is about to be replaced is one of the last two.
LeftIsReported ==
    /\ \A i \in started :
          (\A p \in Players : handle[p] # i)
             => mon[i] = "sending" \/ ends[i] # <<>> \/ i \in silent
    /\ \A w \in Workers :
          pc[w] = "install" /\ handle[ctx[w]] # Nothing
             => ends[handle[ctx[w]]] # <<>> \/ handle[ctx[w]] \in silent

\* What a request that takes a track out says, and what the track's end says.
OutReasons == {"Replaced", "Stopped"}
EndReasons == {"Finished", "LoadFailed"}

\* Track i was reported for one of the reasons in R.
Reported(i, R) == \E k \in DOMAIN ends[i] : ends[i][k] \in R

\* A track that was reported as replaced or stopped is on its way out; one that
\* was reported as finished or failed is out, and its monitor done.
ReportedLeaves ==
    /\ \A p \in Players :
          track[p] # Nothing /\ Reported(track[p], OutReasons)
             => holder[p] # Free /\ pc[holder[p]] = "install"
    /\ \A i \in Tracks :
          Reported(i, EndReasons)
             => \/ mon[i] = "done"
                \/ mon[i] = "none" /\ \A p \in Players : track[p] # i

\* After the shutdown no request starts a track, and what still runs is aborted.
DownIsQuiet ==
    down => /\ \A w \in Workers : op[w].kind \in {"none", "delete", "shutdown"}
            /\ \A i \in Tracks : mon[i] \in Monitoring =>
                  i \in aborted /\ mon[i] \notin {"tick", "parked"}

\* The state of the player is well formed, and no running monitor is out of
\* reach of the requests that must end it.
PlayerInv ==
    /\ PlayerTypeOK
    /\ MonitorIsReachable
    /\ OneTrackPerPlayer
    /\ FreshIsUntouched
    /\ RequestsInShape
    /\ RequestPerTrack
    /\ ResolvingIsNew
    /\ ShownIsWatched
    /\ TargetIsPlayer
    /\ LeftIsReported
    /\ ReportedLeaves
    /\ DownIsQuiet

\* Clearing and installing keep track and handle together: a player whose track
\* has no handle got it from a track that does not decode.
OnlyUndecodedGhosts ==
    \A p \in Players :
        Settled(p) /\ track[p] # Nothing
            => handle[p] = track[p] \/ ~decodable[track[p]]

\* A request that takes a track out of the player reports it once, and no
\* second request reports it as replaced or stopped; nor is it reported twice
\* as finished or failed.
ReportedOnce(i, R) ==
    \A k, l \in DOMAIN ends[i] : ends[i][k] \in R /\ ends[i][l] \in R => k = l
TakenOutOnce ==
    \A i \in Tracks : /\ ReportedOnce(i, OutReasons)
                      /\ ReportedOnce(i, EndReasons)

\* A track whose start was announced and that is gone, with its monitor, had
\* its end announced, unless it left by stop_track or had stopped just before
\* it was replaced.
EndAnnounced ==
    \A i \in started :
        (\A p \in Players : handle[p] # i) /\ mon[i] = "done"
            => ends[i] # <<>> \/ i \in silent

\* Session::shutdown reaches every monitor, those of contexts that had left the
\* map before included: none is left that would tick again or wait for a lock.
ShutdownReachesAll ==
    down => \A i \in Tracks : mon[i] \notin {"tick", "parked"}

\* A track that get_state says is stopped (its decoder has ended, or its handle
\* was stopped) leaves its player, or a pause or resume stores over the handle's
\* state while the decoder still runs; a decoder that ended is never revived.
EndedTrackLeaves ==
    \A p \in Players, i \in Tracks :
        Settled(p) /\ handle[p] = i /\ info[p] /\ GetState(i) = "stopped"
            ~> mapped # p \/ handle[p] # i \/ GetState(i) # "stopped"

\* A monitor does not outlive its track: once the track is in no player, its
\* monitor ends, whichever of the signal, the abort and the handle reached it.
AbandonedMonitorEnds ==
    \A i \in Tracks :
        i \in started /\ (\A p \in Players : handle[p] # i) ~> mon[i] = "done"

\* No request waits for ever for a player's lock.
RequestsEnd == \A w \in Workers : pc[w] # "idle" ~> pc[w] = "idle"
=============================================================================
