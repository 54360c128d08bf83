---------------------------- MODULE PlayerProofs ----------------------------
(***************************************************************************)
(* Proofs about Player for every set of requests, every number of them,    *)
(* every number of contexts and every finite set of workers.               *)
(*                                                                         *)
(* PlayerInv together with TakenOutOnce is inductive.  A track's signal is *)
(* in at most one context and a new track has a number nothing has used    *)
(* (FreshIsUntouched), so what a request does to the track of its context  *)
(* reaches no other track.  A track that leaves a context was signalled    *)
(* or its monitor was aborted (MonitorIsReachable), and what was reported  *)
(* as taken out is in no context (ReportedLeaves), so it is not reported   *)
(* again.  The lemmas on frames (MonitorMoves, OthersKept, OutsideInv) say *)
(* once what a step of a monitor, of the holder of a context's lock and of *)
(* a request outside of locks leaves alone; the lemma of each action adds  *)
(* what that action changes.                                               *)
(***************************************************************************)
EXTENDS Player, FiniteSetTheorems, TLAPS

\* The inductive invariant.
TrackInv == PlayerInv /\ TakenOutOnce

-----------------------------------------------------------------------------
(***************************************************************************)
(* Counting the requests that may still install a track.                   *)
(***************************************************************************)

\* Sets of workers are finite, and a smaller one has no more elements.
LEMMA WorkersCount ==
  ASSUME NEW S \in SUBSET Workers, NEW T \in SUBSET S
  PROVE  /\ IsFiniteSet(S)
         /\ Cardinality(S) \in Nat
         /\ Cardinality(T) \in Nat
         /\ Cardinality(T) <= Cardinality(S)
<1>1. IsFiniteSet(S)
  BY PlayerAssumption, FS_Subset
<1>2. IsFiniteSet(T) /\ Cardinality(T) <= Cardinality(S)
  BY <1>1, FS_Subset
<1> QED BY <1>1, <1>2, FS_CardinalityType

\* One more worker.
LEMMA WorkerJoins ==
  ASSUME NEW S \in SUBSET Workers, NEW w \in Workers, NEW T \in SUBSET (S \cup {w})
  PROVE  /\ Cardinality(S) \in Nat /\ Cardinality(T) \in Nat
         /\ Cardinality(T) <= Cardinality(S) + 1
<1>1. IsFiniteSet(S) /\ Cardinality(S) \in Nat
  BY WorkersCount
<1>2. Cardinality(S \cup {w}) \in {Cardinality(S), Cardinality(S) + 1}
  BY <1>1, FS_AddElement
<1>3. Cardinality(T) \in Nat /\ Cardinality(T) <= Cardinality(S \cup {w})
  BY WorkersCount
<1> QED BY <1>1, <1>2, <1>3

\* One worker less.
LEMMA WorkerLeaves ==
  ASSUME NEW S \in SUBSET Workers, NEW w \in S, NEW T \in SUBSET (S \ {w})
  PROVE  /\ Cardinality(S) \in Nat /\ Cardinality(T) \in Nat
         /\ Cardinality(T) + 1 <= Cardinality(S)
<1>1. IsFiniteSet(S) /\ Cardinality(S) \in Nat
  BY WorkersCount
<1>2. Cardinality(S \ {w}) = Cardinality(S) - 1
  BY <1>1, FS_RemoveElement
<1>3. Cardinality(T) \in Nat /\ Cardinality(T) <= Cardinality(S \ {w})
  <2>1. S \ {w} \in SUBSET Workers
    OBVIOUS
  <2> QED BY <2>1, WorkersCount
<1> QED BY <1>1, <1>2, <1>3

\* A request that has still to install its track has a number for it.
LEMMA RoomToInstall ==
  ASSUME PlayerInv, NEW w \in Starting
  PROVE  installed + 1 \in Tracks
<1>1. Starting \in SUBSET Workers /\ {} \in SUBSET (Starting \ {w})
  BY DEF Starting
<1>2. Cardinality({}) = 0
  BY FS_EmptySet
<1>3. Cardinality(Starting) \in Nat /\ 1 <= Cardinality(Starting)
  BY <1>1, <1>2, WorkerLeaves
<1>4. installed \in 0 .. MaxOps /\ served \in 0 .. MaxOps
      /\ installed + Cardinality(Starting) <= served
  BY DEF PlayerInv, PlayerTypeOK, RequestPerTrack
<1> QED BY <1>3, <1>4, PlayerAssumption DEF Tracks

-----------------------------------------------------------------------------
(***************************************************************************)
(* The requests.                                                           *)
(***************************************************************************)

\* Nothing is no track, no context and no worker.
LEMMA NothingApart == Nothing \notin Tracks /\ Nothing \notin Players /\ Free \notin Workers
BY PlayerAssumption DEF Nothing, Tracks, Players, Free

\* A member of Ops has one of the kinds; a play says what it plays.
LEMMA OpKinds ==
  ASSUME NEW o \in Ops
  PROVE  /\ o.kind \in {"play", "stop", "pause", "resume", "wsStop", "wsDestroy",
                        "delete", "shutdown"}
         /\ o.kind = "play" => o.noReplace \in BOOLEAN /\ o.decodable \in BOOLEAN
<1>1. o \in AllOps
  BY PlayerAssumption
<1>2. CASE o \in [kind : {"play"}, noReplace : BOOLEAN, decodable : BOOLEAN]
  BY <1>2
<1>3. CASE o \in [kind : {"stop", "pause", "resume", "wsStop", "wsDestroy",
                          "delete", "shutdown"}]
  BY <1>3
<1> QED BY <1>1, <1>2, <1>3 DEF AllOps

\* A request that holds a lock holds that of its context, alone.
LEMMA LockHeld ==
  ASSUME PlayerInv, NEW w \in Workers, Locks(w)
  PROVE  /\ ctx[w] \in Players /\ holder[ctx[w]] = w /\ holder[ctx[w]] # Free
         /\ \A v \in Workers : Locks(v) /\ ctx[v] = ctx[w] => v = w
         /\ \A q \in Players : holder[q] = w => q = ctx[w]
<1> USE DEF PlayerInv, PlayerTypeOK, RequestsInShape
<1>1. ctx[w] \in Players /\ holder[ctx[w]] = w
  OBVIOUS
<1>2. w # Free
  BY PlayerAssumption DEF Free
<1>3. \A v \in Workers : Locks(v) /\ ctx[v] = ctx[w] => v = w
  BY <1>1
<1>4. \A q \in Players : holder[q] = w => q = ctx[w]
  BY <1>2
<1> QED BY <1>1, <1>2, <1>3, <1>4

\* No request, no context and no track.
LEMMA InitInv == Init => TrackInv
<1> SUFFICES ASSUME Init PROVE TrackInv
  OBVIOUS
<1> USE PlayerAssumption DEF Init, Nothing
<1>1. PlayerTypeOK
  <2>1. 0 \in 0 .. MaxPlayers /\ 0 \in 0 .. MaxOps
    OBVIOUS
  <2>2. /\ mapped \in {Nothing} \cup Players /\ created \in 0 .. MaxPlayers
        /\ holder \in [Players -> Workers \cup {Free}]
        /\ track \in [Players -> {Nothing} \cup Tracks]
        /\ info \in [Players -> BOOLEAN]
        /\ handle \in [Players -> {Nothing} \cup Tracks]
        /\ task \in [Players -> {Nothing} \cup Tracks]
        /\ psignal \in [Players -> {Nothing} \cup Tracks]
        /\ paused \in [Players -> BOOLEAN]
    BY <2>1
  <2>3. /\ installed \in 0 .. MaxOps /\ served \in 0 .. MaxOps /\ down \in BOOLEAN
        /\ decodable \in [Tracks -> BOOLEAN]
        /\ hstate \in [Tracks -> States]
        /\ decoder \in [Tracks -> {"none", "running", "ended", "failed"}]
        /\ signal \in [Tracks -> BOOLEAN]
    BY <2>1 DEF States
  <2>4. /\ mon \in [Tracks -> {"none", "done"} \cup Monitoring]
        /\ target \in [Tracks -> {Nothing} \cup Players]
        /\ reason \in [Tracks -> {"Finished", "LoadFailed"}]
        /\ aborted \subseteq Tracks /\ started \subseteq Tracks /\ silent \subseteq Tracks
    OBVIOUS
  <2>5. ends \in [Tracks -> Seq({"Finished", "LoadFailed", "Stopped", "Replaced", "Cleanup"})]
    OBVIOUS
  <2>6. /\ pc \in [Workers -> Steps]
        /\ op \in [Workers -> Ops \cup {NoOp}]
        /\ ctx \in [Workers -> {Nothing} \cup Players]
        /\ seen \in [Workers -> {Nothing} \cup Tracks]
    BY DEF Steps
  <2> QED BY <2>2, <2>3, <2>4, <2>5, <2>6 DEF PlayerTypeOK
<1>2. MonitorIsReachable /\ OneTrackPerPlayer /\ TargetIsPlayer /\ DownIsQuiet
  BY DEF MonitorIsReachable, OneTrackPerPlayer, TargetIsPlayer, DownIsQuiet, Monitoring
<1>3. FreshIsUntouched
  BY DEF FreshIsUntouched, Tracks, Players
<1>4. RequestsInShape
  BY DEF RequestsInShape, NoOp, Locks, KindsAt
<1>5. RequestPerTrack
  <2>1. Starting = {}
    BY DEF Starting, NoOp
  <2>2. Cardinality(Starting) = 0
    BY <2>1, FS_EmptySet
  <2> QED BY <2>2 DEF RequestPerTrack
<1>6. ResolvingIsNew /\ ShownIsWatched
  BY DEF ResolvingIsNew, ShownIsWatched
<1>7. LeftIsReported /\ ReportedLeaves /\ TakenOutOnce
  BY DEF LeftIsReported, ReportedLeaves, Reported, TakenOutOnce, ReportedOnce
<1> QED BY <1>1, <1>2, <1>3, <1>4, <1>5, <1>6, <1>7 DEF TrackInv, PlayerInv

-----------------------------------------------------------------------------
(***************************************************************************)
(* The decoder and the monitor.                                            *)
(***************************************************************************)

\* A step that the invariant does not notice: the handle's state, the decoder.
LEMMA QuietInv ==
  ASSUME TrackInv,
         UNCHANGED <<playerVars, installed, decodable, signal, monVars, eventVars, requestVars>>,
         hstate' \in [Tracks -> States],
         decoder' \in [Tracks -> {"none", "running", "ended", "failed"}]
  PROVE  TrackInv'
<1> USE DEF TrackInv, PlayerInv, playerVars, monVars, eventVars, requestVars
<1>1. PlayerTypeOK'
  BY DEF PlayerTypeOK
<1>2. MonitorIsReachable' /\ OneTrackPerPlayer' /\ FreshIsUntouched' /\ TargetIsPlayer'
  BY DEF MonitorIsReachable, OneTrackPerPlayer, FreshIsUntouched, TargetIsPlayer
<1>3. RequestsInShape' /\ DownIsQuiet'
  BY DEF RequestsInShape, DownIsQuiet, Locks
<1>4. RequestPerTrack' /\ ResolvingIsNew' /\ ShownIsWatched'
  BY DEF RequestPerTrack, Starting, ResolvingIsNew, ShownIsWatched
<1>5. LeftIsReported' /\ ReportedLeaves' /\ TakenOutOnce'
  BY DEF LeftIsReported, ReportedLeaves, Reported, TakenOutOnce, ReportedOnce
<1> QED BY <1>1, <1>2, <1>3, <1>4, <1>5

\* The decoder and the mixer.
LEMMA DecoderEndsInv ==
  ASSUME TrackInv, NEW i \in Tracks, NEW how \in {"ended", "failed"}, DecoderEnds(i, how)
  PROVE  TrackInv'
<1>1. decoder' \in [Tracks -> {"none", "running", "ended", "failed"}]
      /\ hstate' \in [Tracks -> States]
  BY DEF DecoderEnds, TrackInv, PlayerInv, PlayerTypeOK
<1> QED BY <1>1, QuietInv DEF DecoderEnds

\* A monitor that does not wait for a lock goes to m.  It ends only by a signal
\* or an abort, sets no signal but its own, at the end of its track, and then
\* goes for the guild's context.
LEMMA MonitorMoves ==
  ASSUME TrackInv, NEW i \in Tracks,
         NEW m \in {"done", "tick", "checked", "stuck", "stopped", "marker", "locking",
                    "sending"},
         mon[i] \in {"tick", "checked", "stuck", "stopped", "marker"},
         m = "done" => signal[i] \/ i \in aborted,
         m = "tick" => i \notin aborted,
         mon' = [mon EXCEPT ![i] = m],
         signal' = signal \/ signal' = [signal EXCEPT ![i] = TRUE],
         target' = target \/ target' = [target EXCEPT ![i] = mapped],
         m \notin {"locking", "sending"} => signal' = signal,
         m = "locking" => mapped # Nothing /\ target' = [target EXCEPT ![i] = mapped],
         m = "sending" => mapped = Nothing,
         hstate' \in [Tracks -> States],
         reason' \in [Tracks -> {"Finished", "LoadFailed"}],
         UNCHANGED <<playerVars, installed, decodable, decoder, aborted, eventVars, requestVars>>
  PROVE  TrackInv'
<1> USE DEF TrackInv, PlayerInv, playerVars, eventVars, requestVars
<1>0. PlayerTypeOK
  OBVIOUS
<1>1. /\ mon' \in [Tracks -> {"none", "done"} \cup Monitoring]
      /\ mon'[i] = m
      /\ \A j \in Tracks : j # i => mon'[j] = mon[j]
  BY <1>0 DEF PlayerTypeOK, Monitoring
<1>a. /\ signal \in [Tracks -> BOOLEAN] /\ target \in [Tracks -> {Nothing} \cup Players]
      /\ mapped \in {Nothing} \cup Players
  BY <1>0 DEF PlayerTypeOK
<1>b. /\ signal' \in [Tracks -> BOOLEAN]
      /\ target' \in [Tracks -> {Nothing} \cup Players]
  BY <1>a
<1>2. /\ signal' \in [Tracks -> BOOLEAN]
      /\ target' \in [Tracks -> {Nothing} \cup Players]
      /\ \A j \in Tracks : j # i => signal'[j] = signal[j] /\ target'[j] = target[j]
      /\ \A j \in Tracks : signal[j] => signal'[j]
      /\ m \notin {"locking", "sending"} => signal'[i] = signal[i]
      /\ m = "locking" => mapped # Nothing /\ target'[i] = mapped
      /\ m = "sending" => mapped = Nothing
  BY <1>a, <1>b
<1>3. PlayerTypeOK'
  BY <1>0, <1>1, <1>2 DEF PlayerTypeOK
<1>4. MonitorIsReachable'
  BY <1>0, <1>1, <1>2 DEF MonitorIsReachable, Monitoring, PlayerTypeOK
<1>5. /\ OneTrackPerPlayer'
      /\ RequestsInShape'
      /\ RequestPerTrack'
  <2>1. OneTrackPerPlayer'
    BY DEF OneTrackPerPlayer
  <2>2. RequestsInShape'
    BY DEF RequestsInShape, Locks
  <2>3. RequestPerTrack'
    BY DEF RequestPerTrack, Starting
  <2> QED BY <2>1, <2>2, <2>3
<1>6. FreshIsUntouched'
  BY <1>1, <1>2 DEF FreshIsUntouched
<1>7. ResolvingIsNew'
  BY <1>0, <1>1, <1>2 DEF ResolvingIsNew, RequestsInShape, Locks, PlayerTypeOK
<1>8. ShownIsWatched'
  <2> SUFFICES ASSUME NEW p \in Players, handle[p] # Nothing, p = mapped, ~down, info[p],
                      holder[p] # Free => pc[holder[p]] # "cleanup"
               PROVE  /\ task[p] = handle[p] /\ handle[p] \notin aborted
                      /\ mon'[handle[p]] \in Monitoring \ {"sending"}
                      /\ IF mon'[handle[p]] \in {"locking", "parked"}
                           THEN target'[handle[p]] = p ELSE ~signal'[handle[p]]
    BY DEF ShownIsWatched
  <2>1. /\ task[p] = handle[p] /\ handle[p] \notin aborted
        /\ mon[handle[p]] \in Monitoring \ {"sending"}
        /\ IF mon[handle[p]] \in {"locking", "parked"}
             THEN target[handle[p]] = p ELSE ~signal[handle[p]]
    BY DEF ShownIsWatched
  <2>2. handle[p] \in Tracks
    BY <1>0 DEF PlayerTypeOK
  <2>3. CASE handle[p] = i
    BY <2>1, <2>3, <1>1, <1>2, NothingApart DEF Monitoring
  <2>4. CASE handle[p] # i
    BY <2>1, <2>2, <2>4, <1>1, <1>2
  <2> QED BY <2>3, <2>4
<1>9. TargetIsPlayer' /\ DownIsQuiet'
  BY <1>1, <1>2 DEF TargetIsPlayer, DownIsQuiet, Monitoring
<1>10. LeftIsReported'
  BY <1>0, <1>1 DEF LeftIsReported, PlayerTypeOK
<1>11. ReportedLeaves' /\ TakenOutOnce'
  BY <1>1 DEF ReportedLeaves, Reported, TakenOutOnce, ReportedOnce
<1> QED BY <1>3, <1>4, <1>5, <1>6, <1>7, <1>8, <1>9, <1>10, <1>11

\* The steps of a monitor up to its wait for the player's lock.
LEMMA MonitorTickInv ==
  ASSUME TrackInv, NEW i \in Tracks, MonitorTick(i)
  PROVE  TrackInv'
<1>1. hstate' \in [Tracks -> States] /\ reason' \in [Tracks -> {"Finished", "LoadFailed"}]
  BY DEF MonitorTick, trackVars, TrackInv, PlayerInv, PlayerTypeOK
<1> DEFINE m == IF signal[i] THEN "done" ELSE "checked"
<1>2. m \in {"done", "checked"} /\ (m = "done" => signal[i])
  OBVIOUS
<1>3. mon' = [mon EXCEPT ![i] = m]
  BY DEF MonitorTick
<1>4. /\ mon[i] = "tick"
      /\ signal' = signal /\ target' = target
      /\ UNCHANGED <<playerVars, installed, decodable, decoder, aborted, eventVars, requestVars>>
  BY DEF MonitorTick, trackVars
<1> HIDE DEF m
<1> QED BY <1>1, <1>2, <1>3, <1>4, MonitorMoves

\* The checks of one tick of monitor_loop that do not end it (or choose how it
\* ends): each moves the monitor alone.
LEMMA MonitorChecksInv ==
  ASSUME TrackInv, NEW i \in Tracks,
         \/ MonitorSeesStop(i) \/ MonitorSeesMarker(i)
         \/ MonitorSeesStuck(i) \/ MonitorStuck(i) \/ MonitorGoesOn(i)
  PROVE  TrackInv'
<1>0. /\ hstate \in [Tracks -> States]
      /\ reason \in [Tracks -> {"Finished", "LoadFailed"}]
  BY DEF TrackInv, PlayerInv, PlayerTypeOK
<1>1. /\ hstate' \in [Tracks -> States]
      /\ reason' \in [Tracks -> {"Finished", "LoadFailed"}]
      /\ mon[i] \in {"checked", "stuck"}
      /\ signal' = signal /\ target' = target
      /\ UNCHANGED <<playerVars, installed, decodable, decoder, aborted, eventVars, requestVars>>
  BY <1>0 DEF MonitorSeesStop, MonitorSeesMarker, MonitorSeesStuck, MonitorStuck,
     MonitorGoesOn, trackVars, States
<1>2. PICK m \in {"done", "tick", "stuck", "stopped", "marker"} :
         /\ mon' = [mon EXCEPT ![i] = m]
         /\ m = "done" => i \in aborted
         /\ m = "tick" => i \notin aborted
  BY DEF MonitorSeesStop, MonitorSeesMarker, MonitorSeesStuck, MonitorStuck, MonitorGoesOn,
     NextTick
<1> QED BY <1>1, <1>2, MonitorMoves

\* The monitor of a track that stopped, or whose marker was reached, ends if it
\* was signalled, and else looks for its player.
LEMMA MonitorEndsInv ==
  ASSUME TrackInv, NEW i \in Tracks, MonitorStopped(i) \/ MonitorMarker(i)
  PROVE  TrackInv'
<1>0. /\ hstate \in [Tracks -> States]
      /\ reason \in [Tracks -> {"Finished", "LoadFailed"}]
  BY DEF TrackInv, PlayerInv, PlayerTypeOK
<1>1. /\ hstate' \in [Tracks -> States]
      /\ reason' \in [Tracks -> {"Finished", "LoadFailed"}]
      /\ mon[i] \in {"stopped", "marker"}
      /\ UNCHANGED <<playerVars, installed, decodable, decoder, aborted, eventVars, requestVars>>
  BY <1>0 DEF MonitorStopped, MonitorMarker, trackVars, States
<1>2. CASE mon' = [mon EXCEPT ![i] = "done"] /\ signal[i] /\ signal' = signal /\ target' = target
  BY <1>1, <1>2, MonitorMoves
<1>3. CASE SeekPlayer(i) /\ (signal' = signal \/ signal' = [signal EXCEPT ![i] = TRUE])
  <2> DEFINE m == IF mapped = Nothing THEN "sending" ELSE "locking"
  <2>1. m \in {"sending", "locking"} /\ (m = "sending" <=> mapped = Nothing)
    OBVIOUS
  <2>2. mon' = [mon EXCEPT ![i] = m] /\ target' = [target EXCEPT ![i] = mapped]
    BY <1>3 DEF SeekPlayer
  <2> HIDE DEF m
  <2> QED BY <1>1, <1>3, <2>1, <2>2, MonitorMoves
<1> QED BY <1>2, <1>3 DEF MonitorStopped, MonitorMarker, trackVars

\* The monitor finds the lock taken: it parks, or is cancelled.
LEMMA MonitorParksInv ==
  ASSUME TrackInv, NEW i \in Tracks, NEW m,
         mon[i] = "locking",
         m = IF i \in aborted THEN "done" ELSE "parked",
         mon' = [mon EXCEPT ![i] = m],
         UNCHANGED <<playerVars, trackVars, target, reason, aborted, eventVars, requestVars>>
  PROVE  TrackInv'
<1> USE DEF TrackInv, PlayerInv, playerVars, trackVars, eventVars, requestVars
<1>0. PlayerTypeOK
  OBVIOUS
<1>1. /\ mon' \in [Tracks -> {"none", "done"} \cup Monitoring]
      /\ mon'[i] = m
      /\ \A j \in Tracks : j # i => mon'[j] = mon[j]
  BY <1>0 DEF PlayerTypeOK, Monitoring
<1>2. PlayerTypeOK'
  BY <1>0, <1>1 DEF PlayerTypeOK
<1>3. MonitorIsReachable' /\ OneTrackPerPlayer' /\ FreshIsUntouched' /\ TargetIsPlayer'
  BY <1>1 DEF MonitorIsReachable, OneTrackPerPlayer, FreshIsUntouched, TargetIsPlayer, Monitoring
<1>4. RequestsInShape'
  BY DEF RequestsInShape, Locks
<1>5. RequestPerTrack'
  BY DEF RequestPerTrack, Starting
<1>6. ResolvingIsNew'
  BY <1>0, <1>1 DEF ResolvingIsNew, RequestsInShape, Locks, PlayerTypeOK
<1>7. ShownIsWatched'
  BY <1>0, <1>1 DEF ShownIsWatched, Monitoring, PlayerTypeOK
<1>8. DownIsQuiet'
  BY <1>1 DEF DownIsQuiet, Monitoring
<1>9. LeftIsReported'
  BY <1>0, <1>1 DEF LeftIsReported, PlayerTypeOK
<1>10. ReportedLeaves' /\ TakenOutOnce'
  BY <1>1 DEF ReportedLeaves, Reported, TakenOutOnce, ReportedOnce
<1> QED BY <1>2, <1>3, <1>4, <1>5, <1>6, <1>7, <1>8, <1>9, <1>10

\* The monitor clears its own track under the lock of the context it waited for.
LEMMA ClearPlayerInv ==
  ASSUME TrackInv, NEW i \in Tracks, mon[i] \in {"locking", "parked"},
         holder[target[i]] = Free, ClearPlayer(i),
         UNCHANGED <<mapped, created, holder, task, psignal, paused, trackVars, target, reason,
                     aborted, eventVars, requestVars>>
  PROVE  TrackInv'
<1> USE DEF TrackInv, PlayerInv, trackVars, eventVars, requestVars
<1> DEFINE p == target[i]
<1>0. PlayerTypeOK
  OBVIOUS
<1>1. p \in Players
  BY <1>0 DEF TargetIsPlayer, PlayerTypeOK
<1>2. /\ mon' \in [Tracks -> {"none", "done"} \cup Monitoring]
      /\ mon'[i] = "sending"
      /\ \A j \in Tracks : j # i => mon'[j] = mon[j]
  BY <1>0 DEF ClearPlayer, PlayerTypeOK, Monitoring
<1>3. /\ track' \in [Players -> {Nothing} \cup Tracks]
      /\ info' \in [Players -> BOOLEAN]
      /\ handle' \in [Players -> {Nothing} \cup Tracks]
  BY <1>0, <1>1 DEF ClearPlayer, PlayerTypeOK
<1>4. /\ \A q \in Players : q # p =>
            track'[q] = track[q] /\ info'[q] = info[q] /\ handle'[q] = handle[q]
      /\ handle[p] = i => track'[p] = Nothing /\ info'[p] = FALSE /\ handle'[p] = Nothing
      /\ handle[p] # i => track'[p] = track[p] /\ info'[p] = info[p] /\ handle'[p] = handle[p]
  BY <1>0, <1>1 DEF ClearPlayer, PlayerTypeOK
<1>5. \A w \in Workers : Locks(w) => ctx[w] \in Players /\ ctx[w] # p
  BY LockHeld
<1> HIDE DEF p
<1>6. PlayerTypeOK'
  BY <1>0, <1>2, <1>3 DEF PlayerTypeOK
<1>7. MonitorIsReachable' /\ FreshIsUntouched' /\ TargetIsPlayer'
  BY <1>2 DEF MonitorIsReachable, FreshIsUntouched, TargetIsPlayer, Monitoring
<1>8. OneTrackPerPlayer'
  BY <1>1, <1>3, <1>4 DEF OneTrackPerPlayer
<1>9. RequestsInShape'
  BY DEF RequestsInShape, Locks
<1>10. RequestPerTrack'
  BY DEF RequestPerTrack, Starting
<1>11. ResolvingIsNew'
  <2>1. ASSUME NEW w \in Workers, pc[w] = "resolve"
        PROVE  /\ track'[ctx[w]] # Nothing /\ handle'[ctx[w]] = Nothing /\ task[ctx[w]] = Nothing
               /\ mon'[track'[ctx[w]]] = "none" /\ ~signal[track'[ctx[w]]]
    <3>1. /\ track[ctx[w]] # Nothing /\ handle[ctx[w]] = Nothing /\ task[ctx[w]] = Nothing
          /\ mon[track[ctx[w]]] = "none" /\ ~signal[track[ctx[w]]]
      BY <2>1 DEF ResolvingIsNew
    <3>2. ctx[w] \in Players /\ ctx[w] # p
      BY <1>5, <2>1 DEF Locks
    <3>3. track[ctx[w]] \in Tracks
      BY <1>0, <3>1, <3>2 DEF PlayerTypeOK
    <3> QED BY <3>1, <3>2, <3>3, <1>2, <1>4
  <2>2. \A q \in Players : info'[q] /\ handle'[q] = Nothing => holder[q] # Free /\ pc[holder[q]] = "resolve"
    BY <1>4 DEF ResolvingIsNew
  <2> QED BY <2>1, <2>2 DEF ResolvingIsNew
<1>12. ShownIsWatched'
  <2>1. ASSUME NEW q \in Players, handle'[q] # Nothing, q = mapped, ~down, info'[q],
               holder[q] # Free => pc[holder[q]] # "cleanup"
        PROVE  /\ task[q] = handle'[q] /\ handle'[q] \notin aborted
               /\ mon'[handle'[q]] \in Monitoring \ {"sending"}
               /\ IF mon'[handle'[q]] \in {"locking", "parked"}
                    THEN target[handle'[q]] = q ELSE ~signal[handle'[q]]
    <3>0. q # p \/ handle[p] # i
      BY <1>4, <2>1
    <3>a. handle'[q] = handle[q] /\ info'[q] = info[q]
      BY <1>4, <3>0
    <3>b. handle[q] \in Tracks
      BY <1>0, <2>1, <3>a DEF PlayerTypeOK
    <3>1. handle'[q] = handle[q] /\ info'[q] = info[q] /\ handle[q] \in Tracks
      BY <3>a, <3>b
    <3>2. /\ task[q] = handle[q] /\ handle[q] \notin aborted
          /\ mon[handle[q]] \in Monitoring \ {"sending"}
          /\ IF mon[handle[q]] \in {"locking", "parked"}
               THEN target[handle[q]] = q ELSE ~signal[handle[q]]
      BY <2>1, <3>1 DEF ShownIsWatched
    <3>3. handle[q] # i
      BY <1>1, <1>4, <2>1, <3>2 DEF p
    <3> QED BY <1>2, <3>1, <3>2, <3>3
  <2> QED BY <2>1 DEF ShownIsWatched
<1>13. LeftIsReported'
  <2>1. \A j \in started : (\A q \in Players : handle'[q] # j)
           => mon'[j] = "sending" \/ ends[j] # <<>> \/ j \in silent
    BY <1>0, <1>1, <1>2, <1>4 DEF LeftIsReported, PlayerTypeOK
  <2>2. \A w \in Workers : pc[w] = "install" => handle'[ctx[w]] = handle[ctx[w]]
    BY <1>4, <1>5 DEF Locks
  <2> QED BY <2>1, <2>2 DEF LeftIsReported
<1>14. ReportedLeaves'
  <2>1. \A q \in Players : track'[q] \in {Nothing, track[q]}
    BY <1>1, <1>4
  <2>2. \A q \in Players : track'[q] # Nothing /\ Reported(track'[q], OutReasons)
           => holder[q] # Free /\ pc[holder[q]] = "install"
    BY <2>1 DEF ReportedLeaves
  <2>3. \A j \in Tracks : Reported(j, EndReasons)
           => mon'[j] = "done" \/ (mon'[j] = "none" /\ \A q \in Players : track'[q] # j)
    <3> SUFFICES ASSUME NEW j \in Tracks, Reported(j, EndReasons)
                 PROVE  mon'[j] = "done" \/ (mon'[j] = "none" /\ \A q \in Players : track'[q] # j)
      OBVIOUS
    <3>1. mon[j] = "done" \/ (mon[j] = "none" /\ \A q \in Players : track[q] # j)
      BY DEF ReportedLeaves
    <3>2. mon'[j] = mon[j]
      BY <1>2, <3>1
    <3> QED BY <3>1, <3>2, <2>1, NothingApart
  <2> QED BY <2>2, <2>3 DEF ReportedLeaves, Reported
<1>15. DownIsQuiet' /\ TakenOutOnce'
  BY <1>2 DEF DownIsQuiet, TakenOutOnce, ReportedOnce, Monitoring
<1> QED BY <1>6, <1>7, <1>8, <1>9, <1>10, <1>11, <1>12, <1>13, <1>14, <1>15

\* The wait for the lock.
LEMMA MonitorLocksInv ==
  ASSUME TrackInv, NEW i \in Tracks, MonitorLocks(i) \/ MonitorWakes(i)
  PROVE  TrackInv'
<1>1. CASE mon[i] = "locking" /\ holder[target[i]] # Free
  <2> DEFINE m == IF i \in aborted THEN "done" ELSE "parked"
  <2>1. m = IF i \in aborted THEN "done" ELSE "parked"
    OBVIOUS
  <2>2. mon' = [mon EXCEPT ![i] = m]
    BY <1>1 DEF MonitorLocks, MonitorWakes
  <2>3. UNCHANGED <<playerVars, trackVars, target, reason, aborted, eventVars, requestVars>>
    BY <1>1 DEF MonitorLocks, MonitorWakes, playerVars
  <2> HIDE DEF m
  <2> QED BY <1>1, <2>1, <2>2, <2>3, MonitorParksInv
<1>2. CASE /\ mon[i] \in {"locking", "parked"}
           /\ holder[target[i]] = Free
           /\ ClearPlayer(i)
           /\ UNCHANGED <<mapped, created, holder, task, psignal, paused, trackVars, target, reason,
                     aborted, eventVars, requestVars>>
  BY <1>2, ClearPlayerInv
<1> QED BY <1>1, <1>2 DEF MonitorLocks, MonitorWakes

Reasons == {"Finished", "LoadFailed", "Stopped", "Replaced", "Cleanup"}

\* One more TrackEnd of a track.
LEMMA EndSent ==
  ASSUME TrackInv, NEW i \in Tracks, NEW why \in Reasons, SendEnd(i, why)
  PROVE  /\ ends' \in [Tracks -> Seq(Reasons)]
         /\ ends'[i] # <<>>
         /\ \A j \in Tracks : j # i => ends'[j] = ends[j]
         /\ \A R \in SUBSET Reasons : why \notin R =>
               /\ Reported(i, R)' => Reported(i, R)
               /\ ReportedOnce(i, R) => ReportedOnce(i, R)'
         /\ \A R \in SUBSET Reasons : ~Reported(i, R) => ReportedOnce(i, R)'
<1>1. /\ ends \in [Tracks -> Seq(Reasons)]
      /\ ends' = [ends EXCEPT ![i] = Append(ends[i], why)]
  BY NothingApart DEF SendEnd, TrackInv, PlayerInv, PlayerTypeOK, Reasons
<1>2. ends[i] \in Seq(Reasons)
  BY <1>1
<1> DEFINE e == ends[i]
           f == ends'[i]
<1>3. f = Append(e, why) /\ ends' \in [Tracks -> Seq(Reasons)]
      /\ \A j \in Tracks : j # i => ends'[j] = ends[j]
  BY <1>1, <1>2
<1>4. /\ f # <<>> /\ DOMAIN e = 1 .. Len(e) /\ DOMAIN f = 1 .. Len(e) + 1 /\ Len(e) \in Nat
      /\ f[Len(e) + 1] = why /\ \A k \in 1 .. Len(e) : f[k] = e[k]
  BY <1>2, <1>3
<1>5. ASSUME NEW R \in SUBSET Reasons, why \notin R
      PROVE  /\ Reported(i, R)' => Reported(i, R)
             /\ ReportedOnce(i, R) => ReportedOnce(i, R)'
  <2>1. \A k \in DOMAIN f : f[k] \in R => k \in DOMAIN e /\ f[k] = e[k]
    BY <1>4, <1>5
  <2> HIDE DEF e, f
  <2>2. \A k \in DOMAIN f : f[k] \in R => k \in DOMAIN e /\ e[k] \in R
    BY <2>1
  <2> QED BY <2>2 DEF Reported, ReportedOnce, e, f
<1>6. ASSUME NEW R \in SUBSET Reasons, ~Reported(i, R)
      PROVE  ReportedOnce(i, R)'
  <2>1. \A k \in DOMAIN e : e[k] \notin R
    BY <1>6 DEF Reported
  <2>2. \A k \in DOMAIN f : f[k] \in R => k = Len(e) + 1
    BY <1>4, <2>1
  <2> QED BY <2>2 DEF ReportedOnce
<1> QED BY <1>3, <1>4, <1>5, <1>6

\* The same for a track that may be Nothing, and for every track.
LEMMA EndsGrow ==
  ASSUME TrackInv, NEW i \in {Nothing} \cup Tracks, NEW why \in Reasons, SendEnd(i, why)
  PROVE  /\ ends' \in [Tracks -> Seq(Reasons)]
         /\ i # Nothing => ends'[i] # <<>>
         /\ \A j \in Tracks : j # i => ends'[j] = ends[j]
         /\ \A j \in Tracks : ends[j] # <<>> => ends'[j] # <<>>
         /\ \A j \in Tracks, R \in {OutReasons, EndReasons} :
               /\ j # i \/ why \notin R => (Reported(j, R)' => Reported(j, R))
               /\ j # i \/ why \notin R \/ ~Reported(j, R)
                     => (ReportedOnce(j, R) => ReportedOnce(j, R)')
<1>0. ends \in [Tracks -> Seq(Reasons)]
  BY DEF TrackInv, PlayerInv, PlayerTypeOK, Reasons
<1>1. CASE i = Nothing
  <2>1. ends' = ends
    BY <1>1 DEF SendEnd
  <2> QED BY <1>0, <1>1, <2>1 DEF Reported, ReportedOnce
<1>2. CASE i \in Tracks
  <2>1. /\ ends' \in [Tracks -> Seq(Reasons)] /\ ends'[i] # <<>>
        /\ \A j \in Tracks : j # i => ends'[j] = ends[j]
    BY <1>2, EndSent
  <2>2. ASSUME NEW R \in {OutReasons, EndReasons}
        PROVE  /\ why \notin R => (Reported(i, R)' => Reported(i, R))
               /\ why \notin R \/ ~Reported(i, R) => (ReportedOnce(i, R) => ReportedOnce(i, R)')
    <3>1. R \in SUBSET Reasons
      BY DEF Reasons, OutReasons, EndReasons
    <3> QED BY <1>2, <3>1, EndSent
  <2>3. ASSUME NEW R \in {OutReasons, EndReasons}, NEW j \in Tracks, j # i
        PROVE  /\ Reported(j, R)' => Reported(j, R)
               /\ ReportedOnce(j, R) => ReportedOnce(j, R)'
    BY <2>1, <2>3 DEF Reported, ReportedOnce
  <2> QED BY <2>1, <2>2, <2>3
<1> QED BY <1>1, <1>2

\* The last step of a monitor.
LEMMA MonitorSendsInv ==
  ASSUME TrackInv, NEW i \in Tracks, MonitorSends(i)
  PROVE  TrackInv'
<1> USE DEF TrackInv, PlayerInv, playerVars, trackVars, requestVars
<1>0. PlayerTypeOK /\ mon[i] = "sending"
  BY DEF MonitorSends
<1>1. reason[i] \in EndReasons /\ SendEnd(i, reason[i])
  BY <1>0 DEF PlayerTypeOK, MonitorSends, EndReasons
<1>2. /\ ends' \in [Tracks -> Seq(Reasons)]
      /\ ends'[i] # <<>>
      /\ \A j \in Tracks : j # i => ends'[j] = ends[j]
      /\ Reported(i, OutReasons)' => Reported(i, OutReasons)
      /\ ReportedOnce(i, OutReasons) => ReportedOnce(i, OutReasons)'
      /\ ~Reported(i, EndReasons) => ReportedOnce(i, EndReasons)'
  <2>1. OutReasons \in SUBSET Reasons /\ EndReasons \in SUBSET Reasons /\ reason[i] \in Reasons
        /\ reason[i] \notin OutReasons
    BY <1>1 DEF Reasons, OutReasons, EndReasons
  <2> QED BY <1>1, <2>1, EndSent
<1>3. /\ mon' \in [Tracks -> {"none", "done"} \cup Monitoring]
      /\ mon'[i] = "done"
      /\ \A j \in Tracks : j # i => mon'[j] = mon[j]
  BY <1>0 DEF PlayerTypeOK, MonitorSends
<1>4. /\ target' \in [Tracks -> {Nothing} \cup Players]
      /\ reason' \in [Tracks -> {"Finished", "LoadFailed"}]
      /\ \A j \in Tracks : j # i => target'[j] = target[j]
      /\ aborted' = aborted \ {i}
      /\ UNCHANGED <<playerVars, trackVars, started, silent, requestVars>>
  BY <1>0 DEF PlayerTypeOK, MonitorSends
<1>5. PlayerTypeOK'
  <2>1. UNCHANGED <<mapped, created, holder, track, info, handle, task, psignal, paused,
           installed, decodable, hstate, decoder, signal, started, silent, pc, op, ctx, seen,
           served, down>>
    BY <1>4
  <2> QED BY <1>0, <1>2, <1>3, <1>4, <2>1 DEF PlayerTypeOK, Reasons
<1>6. MonitorIsReachable' /\ TargetIsPlayer'
  BY <1>3, <1>4 DEF MonitorIsReachable, TargetIsPlayer, Monitoring
<1>7. FreshIsUntouched'
  BY <1>0, <1>2, <1>3, <1>4 DEF FreshIsUntouched
<1>8. OneTrackPerPlayer' /\ RequestPerTrack'
  BY <1>4 DEF OneTrackPerPlayer, RequestPerTrack, Starting
<1>9. RequestsInShape'
  BY <1>4 DEF RequestsInShape, Locks
<1>10. ResolvingIsNew'
  BY <1>0, <1>3, <1>4 DEF ResolvingIsNew, RequestsInShape, Locks, PlayerTypeOK
<1>11. ShownIsWatched'
  BY <1>0, <1>3, <1>4 DEF ShownIsWatched, PlayerTypeOK
<1>12. LeftIsReported'
  <2>1. \A j \in Tracks : ends[j] # <<>> => ends'[j] # <<>>
    BY <1>2
  <2>2. \A j \in started : (\A q \in Players : handle[q] # j)
           => mon'[j] = "sending" \/ ends'[j] # <<>> \/ j \in silent
    BY <1>0, <1>2, <1>3, <2>1 DEF LeftIsReported, PlayerTypeOK
  <2>3. ASSUME NEW w \in Workers, pc[w] = "install", handle[ctx[w]] # Nothing
        PROVE  ends'[handle[ctx[w]]] # <<>> \/ handle[ctx[w]] \in silent
    <3>1. ctx[w] \in Players
      BY <2>3, LockHeld DEF Locks
    <3>2. handle[ctx[w]] \in Tracks
      BY <1>0, <2>3, <3>1 DEF PlayerTypeOK
    <3> QED BY <2>1, <2>3, <3>2 DEF LeftIsReported
  <2> QED BY <1>4, <2>2, <2>3 DEF LeftIsReported
<1>13. ReportedLeaves' /\ TakenOutOnce'
  <2>0. \A j \in Tracks : j # i =>
           /\ Reported(j, OutReasons)' => Reported(j, OutReasons)
           /\ Reported(j, EndReasons)' => Reported(j, EndReasons)
           /\ ReportedOnce(j, OutReasons) => ReportedOnce(j, OutReasons)'
           /\ ReportedOnce(j, EndReasons) => ReportedOnce(j, EndReasons)'
    BY <1>2 DEF Reported, ReportedOnce
  <2>1. ~Reported(i, EndReasons)
    BY <1>0 DEF ReportedLeaves
  <2>2. TakenOutOnce'
    BY <1>2, <2>0, <2>1 DEF TakenOutOnce
  <2>3. \A q \in Players : track[q] # Nothing /\ Reported(track[q], OutReasons)'
           => holder[q] # Free /\ pc[holder[q]] = "install"
    <3> SUFFICES ASSUME NEW q \in Players, track[q] # Nothing, Reported(track[q], OutReasons)'
                 PROVE  holder[q] # Free /\ pc[holder[q]] = "install"
      BY <1>4
    <3>1. track[q] \in Tracks
      BY <1>0 DEF PlayerTypeOK
    <3>2. Reported(track[q], OutReasons)
      BY <1>2, <1>4, <2>0, <3>1
    <3> QED BY <3>2 DEF ReportedLeaves
  <2>4. \A j \in Tracks : Reported(j, EndReasons)'
           => mon'[j] = "done" \/ (mon'[j] = "none" /\ \A q \in Players : track[q] # j)
    BY <1>3, <2>0, <2>1 DEF ReportedLeaves
  <2> QED BY <1>4, <2>2, <2>3, <2>4 DEF ReportedLeaves, Reported
<1>14. DownIsQuiet'
  BY <1>3, <1>4 DEF DownIsQuiet, Monitoring
<1> QED BY <1>5, <1>6, <1>7, <1>8, <1>9, <1>10, <1>11, <1>12, <1>13, <1>14

-----------------------------------------------------------------------------
(***************************************************************************)
(* What the parts of a request's step do.                                  *)
(***************************************************************************)

\* A step of request w keeps the requests in shape when it does so for w, and
\* takes or drops no lock but that of w.
LEMMA ShapeKept ==
  ASSUME TrackInv, NEW w \in Workers,
         holder' \in [Players -> Workers \cup {Free}],
         \A v \in Workers : v # w => pc'[v] = pc[v] /\ op'[v] = op[v] /\ ctx'[v] = ctx[v],
         \A q \in Players : holder'[q] = holder[q]
                          \/ (holder[q] \in {w, Free} /\ holder'[q] \in {w, Free}),
         \A q \in Players : holder'[q] = w => ctx'[w] = q /\ Locks(w)',
         Locks(w)' => ctx'[w] # Nothing /\ holder'[ctx'[w]] = w,
         pc'[w] \in {"lock", "reading"} => ctx'[w] # Nothing,
         pc'[w] = "idle" => ctx'[w] = Nothing,
         op'[w].kind \in KindsAt(pc'[w])
  PROVE  RequestsInShape'
<1> USE DEF TrackInv, PlayerInv
<1>1. \A v \in Workers : v # w => (Locks(v)' <=> Locks(v))
  BY DEF Locks
<1>2. ASSUME NEW q \in Players, NEW h \in Workers, holder'[q] = h
      PROVE  ctx'[h] = q /\ Locks(h)'
  <2>1. CASE h = w
    BY <1>2, <2>1
  <2>2. CASE h # w
    <3>1. holder[q] = h
      BY <1>2, <2>2, NothingApart
    <3>2. ctx[h] = q /\ Locks(h)
      BY <3>1, NothingApart DEF RequestsInShape
    <3> QED BY <1>1, <2>2, <3>2
  <2> QED BY <2>1, <2>2
<1>3. \A q \in Players : holder'[q] # Free => ctx'[holder'[q]] = q /\ Locks(holder[q])'
  BY <1>2
<1>4. ASSUME NEW v \in Workers, Locks(v)'
      PROVE  ctx'[v] # Nothing /\ holder'[ctx'[v]] = v
  <2>1. CASE v = w
    BY <1>4, <2>1
  <2>2. CASE v # w
    <3>1. Locks(v) /\ ctx'[v] = ctx[v]
      BY <1>1, <1>4, <2>2
    <3>2. ctx[v] \in Players /\ holder[ctx[v]] = v
      BY <3>1, LockHeld
    <3>3. holder'[ctx[v]] = v
      BY <2>2, <3>2, NothingApart
    <3> QED BY <3>1, <3>2, <3>3, NothingApart
  <2> QED BY <2>1, <2>2
<1>5. ASSUME NEW v \in Workers
      PROVE  /\ pc'[v] \in {"lock", "reading"} => ctx'[v] # Nothing
             /\ pc'[v] = "idle" => ctx'[v] = Nothing
             /\ op'[v].kind \in KindsAt(pc'[v])
  <2>1. CASE v = w
    BY <2>1
  <2>2. CASE v # w
    BY <2>2 DEF RequestsInShape
  <2> QED BY <2>1, <2>2
<1> QED BY <1>3, <1>4, <1>5 DEF RequestsInShape

\* The end of a request: its lock is free, and the others are where they were.
LEMMA ReleaseShape ==
  ASSUME TrackInv, NEW w \in Workers, Locks(w), Release(w),
         installed' = installed, created' = created
  PROVE  /\ holder' \in [Players -> Workers \cup {Free}] /\ pc' \in [Workers -> Steps]
         /\ op' \in [Workers -> Ops \cup {NoOp}] /\ ctx' \in [Workers -> {Nothing} \cup Players]
         /\ seen' = seen /\ served' = served /\ down' = down
         /\ holder'[ctx[w]] = Free
         /\ \A q \in Players : q # ctx[w] => holder'[q] = holder[q] /\ holder[q] # w
         /\ pc'[w] = "idle" /\ op'[w] = NoOp /\ op'[w].kind = "none" /\ ctx'[w] = Nothing
         /\ \A v \in Workers : v # w => pc'[v] = pc[v] /\ op'[v] = op[v] /\ ctx'[v] = ctx[v]
         /\ \A q \in Players : q > created => holder'[q] = Free
         /\ \A v \in Workers : ctx'[v] <= created
         /\ RequestsInShape' /\ RequestPerTrack'
<1>0. PlayerTypeOK
  BY DEF TrackInv, PlayerInv
<1>1. ctx[w] \in Players /\ holder[ctx[w]] = w /\ w # Free
      /\ \A q \in Players : holder[q] = w => q = ctx[w]
  BY LockHeld DEF TrackInv
<1>2. /\ holder' \in [Players -> Workers \cup {Free}] /\ pc' \in [Workers -> Steps]
      /\ ctx' \in [Workers -> {Nothing} \cup Players]
  BY <1>0, <1>1 DEF PlayerTypeOK, Release, Steps
<1>3. op' \in [Workers -> Ops \cup {NoOp}]
  BY <1>0 DEF PlayerTypeOK, Release
<1>4. /\ holder'[ctx[w]] = Free
      /\ \A q \in Players : q # ctx[w] => holder'[q] = holder[q] /\ holder[q] # w
      /\ pc'[w] = "idle" /\ op'[w] = NoOp /\ ctx'[w] = Nothing
      /\ \A v \in Workers : v # w => pc'[v] = pc[v] /\ op'[v] = op[v] /\ ctx'[v] = ctx[v]
  BY <1>0, <1>1 DEF PlayerTypeOK, Release
<1>5. NoOp.kind = "none" /\ NoOp.kind \in KindsAt("idle") /\ ~Locks(w)'
  BY <1>4 DEF NoOp, KindsAt, Locks
<1>6. RequestsInShape'
  BY <1>1, <1>2, <1>4, <1>5, ShapeKept
<1>7. RequestPerTrack'
  <2>1. Starting \in SUBSET Workers /\ Starting' \in SUBSET Starting
    BY <1>4, <1>5 DEF Starting
  <2>2. /\ Cardinality(Starting) \in Nat /\ Cardinality(Starting') \in Nat
        /\ Cardinality(Starting') <= Cardinality(Starting)
    BY <2>1, WorkersCount
  <2>3. installed + Cardinality(Starting) <= served /\ served' = served
    BY DEF TrackInv, PlayerInv, RequestPerTrack, Release
  <2> QED BY <1>0, <2>2, <2>3 DEF RequestPerTrack, PlayerTypeOK
<1>8. \A q \in Players : q > created => holder'[q] = Free
  BY <1>4 DEF TrackInv, PlayerInv, FreshIsUntouched
<1>9. \A v \in Workers : ctx'[v] <= created
  <2>1. 0 <= created
    BY <1>0, PlayerAssumption DEF PlayerTypeOK
  <2> QED BY <1>4, <2>1 DEF TrackInv, PlayerInv, FreshIsUntouched, Nothing
<1> QED BY <1>2, <1>3, <1>4, <1>5, <1>6, <1>7, <1>8, <1>9 DEF Release

\* A request goes on under its lock.
LEMMA GotoShape ==
  ASSUME TrackInv, NEW w \in Workers, Locks(w), NEW step \in Steps, Goto(w, step),
         holder' = holder,
         \/ step = "install" /\ pc[w] = "replace"
         \/ step = "resolve" /\ pc[w] = "install"
         \/ step = "cleanup" /\ op[w].kind = "stop"
  PROVE  /\ pc' \in [Workers -> Steps]
         /\ op' = op /\ ctx' = ctx /\ seen' = seen /\ served' = served /\ down' = down
         /\ pc'[w] = step
         /\ \A v \in Workers : v # w => pc'[v] = pc[v]
         /\ RequestsInShape'
         /\ installed' = installed \/ (pc[w] = "install" /\ installed' = installed + 1)
               => RequestPerTrack'
<1>0. PlayerTypeOK
  BY DEF TrackInv, PlayerInv
<1>1. ctx[w] \in Players /\ holder[ctx[w]] = w /\ w # Free
      /\ \A q \in Players : holder[q] = w => q = ctx[w]
  BY LockHeld DEF TrackInv
<1>2. /\ pc' \in [Workers -> Steps] /\ pc'[w] = step
      /\ \A v \in Workers : v # w => pc'[v] = pc[v]
      /\ op' = op /\ ctx' = ctx /\ seen' = seen /\ served' = served /\ down' = down
  BY <1>0 DEF Goto, PlayerTypeOK
<1>3. Locks(w)'
  BY <1>2 DEF Locks
<1>4. op[w].kind \in KindsAt(pc[w])
  BY DEF TrackInv, PlayerInv, RequestsInShape
<1>5. op[w].kind \in KindsAt(step)
  BY <1>4 DEF KindsAt
<1>6. step \notin {"idle", "lock", "reading"}
  OBVIOUS
<1>7. holder' \in [Players -> Workers \cup {Free}]
  BY <1>0 DEF PlayerTypeOK
<1>8. RequestsInShape'
  BY <1>1, <1>2, <1>3, <1>5, <1>6, <1>7, ShapeKept, NothingApart
<1>9. Starting' \in SUBSET Starting
  BY <1>2 DEF Starting
<1>10. pc[w] = "install" => w \in Starting /\ w \notin Starting'
  BY <1>2, <1>4 DEF Starting, KindsAt
<1>11. Starting \in SUBSET Workers /\ installed \in Nat /\ served \in Nat
       /\ installed + Cardinality(Starting) <= served
  BY <1>0, PlayerAssumption DEF Starting, PlayerTypeOK, TrackInv, PlayerInv, RequestPerTrack
<1>12. ASSUME installed' = installed PROVE RequestPerTrack'
  <2>1. /\ Cardinality(Starting) \in Nat /\ Cardinality(Starting') \in Nat
        /\ Cardinality(Starting') <= Cardinality(Starting)
    BY <1>9, <1>11, WorkersCount
  <2> QED BY <1>2, <1>11, <1>12, <2>1 DEF RequestPerTrack
<1>13. ASSUME pc[w] = "install", installed' = installed + 1 PROVE RequestPerTrack'
  <2>1. w \in Starting /\ Starting' \in SUBSET (Starting \ {w})
    BY <1>9, <1>10, <1>13
  <2>2. /\ Cardinality(Starting) \in Nat /\ Cardinality(Starting') \in Nat
        /\ Cardinality(Starting') + 1 <= Cardinality(Starting)
    BY <1>11, <2>1, WorkerLeaves
  <2> QED BY <1>2, <1>11, <1>13, <2>2 DEF RequestPerTrack
<1> QED BY <1>2, <1>8, <1>12, <1>13

\* abort() of the monitors of a set of tracks.
LEMMA Aborted ==
  ASSUME TrackInv, NEW is \in SUBSET Tracks, Abort(is)
  PROVE  /\ mon' \in [Tracks -> {"none", "done"} \cup Monitoring]
         /\ aborted' \in SUBSET Tracks
         /\ \A j \in Tracks : mon'[j] = mon[j] \/ (j \in is /\ mon[j] \in {"tick", "parked"} /\ mon'[j] = "done")
         /\ \A j \in is : mon'[j] \in Monitoring => j \in aborted' /\ mon'[j] \notin {"tick", "parked"}
         /\ \A j \in Tracks : j \in aborted => j \in aborted'
         /\ \A j \in Tracks : j \in aborted' => j \in aborted \/ (j \in is /\ mon[j] \in Monitoring)
<1>1. mon \in [Tracks -> {"none", "done"} \cup Monitoring] /\ aborted \in SUBSET Tracks
  BY DEF TrackInv, PlayerInv, PlayerTypeOK
<1>2. mon' \in [Tracks -> {"none", "done"} \cup Monitoring] /\ aborted' \in SUBSET Tracks
  BY <1>1 DEF Abort
<1>3. \A j \in Tracks : mon'[j] = IF j \in is /\ mon[j] \in {"tick", "parked"} THEN "done" ELSE mon[j]
  BY <1>1 DEF Abort
<1>4. \A j \in Tracks : j \in aborted' <=>
         \/ j \in aborted
         \/ j \in is /\ mon[j] \in Monitoring /\ mon[j] \notin {"tick", "parked"}
  BY DEF Abort
<1>5. \A j \in is : mon'[j] \in Monitoring => mon[j] \in Monitoring /\ mon[j] \notin {"tick", "parked"}
                                          /\ mon'[j] = mon[j]
  BY <1>3 DEF Monitoring
<1>6. \A j \in is : mon'[j] \in Monitoring => j \in aborted' /\ mon'[j] \notin {"tick", "parked"}
  BY <1>4, <1>5
<1>7. \A j \in Tracks : mon'[j] = mon[j] \/ (j \in is /\ mon[j] \in {"tick", "parked"} /\ mon'[j] = "done")
  BY <1>3
<1>8. \A j \in Tracks : j \in aborted' => j \in aborted \/ (j \in is /\ mon[j] \in Monitoring)
  BY <1>4
<1>9. \A j \in Tracks : j \in aborted => j \in aborted'
  BY <1>4
<1> QED BY <1>2, <1>6, <1>7, <1>8, <1>9

\* Contexts have tracks of their own: what the context of w shows was made for
\* it, and is known to no other.
LEMMA OwnTrack ==
  ASSUME TrackInv, NEW p \in Players
  PROVE  /\ track[p] \in {Nothing, psignal[p]} /\ task[p] \in {Nothing, psignal[p]}
         /\ handle[p] \in {Nothing, track[p]} /\ handle[p] \in {Nothing, psignal[p]}
         /\ psignal[p] \in {Nothing} \cup Tracks /\ psignal[p] <= installed
         /\ \A q \in Players : q # p /\ psignal[p] # Nothing =>
               track[q] # psignal[p] /\ task[q] # psignal[p] /\ handle[q] # psignal[p]
<1>1. psignal[p] \in {Nothing} \cup Tracks /\ psignal[p] <= installed
  BY DEF TrackInv, PlayerInv, PlayerTypeOK, FreshIsUntouched
<1> QED BY <1>1 DEF TrackInv, PlayerInv, OneTrackPerPlayer

\* The parts of the invariant that are about one request or one context.
NewAt(w) ==
    pc[w] = "resolve" =>
       /\ track[ctx[w]] # Nothing /\ handle[ctx[w]] = Nothing /\ task[ctx[w]] = Nothing
       /\ mon[track[ctx[w]]] = "none" /\ ~signal[track[ctx[w]]]
ReplacedAt(w) ==
    pc[w] = "install" /\ handle[ctx[w]] # Nothing
       => ends[handle[ctx[w]]] # <<>> \/ handle[ctx[w]] \in silent
GhostAt(p) ==
    info[p] /\ handle[p] = Nothing => holder[p] # Free /\ pc[holder[p]] = "resolve"
WatchedAt(p) ==
    /\ p = mapped /\ ~down /\ handle[p] # Nothing /\ info[p]
    /\ holder[p] # Free => pc[holder[p]] # "cleanup"
    => /\ task[p] = handle[p] /\ handle[p] \notin aborted
       /\ mon[handle[p]] \in Monitoring \ {"sending"}
       /\ IF mon[handle[p]] \in {"locking", "parked"}
            THEN target[handle[p]] = p ELSE ~signal[handle[p]]
OutAt(p) ==
    track[p] # Nothing /\ Reported(track[p], OutReasons)
       => holder[p] # Free /\ pc[holder[p]] = "install"

LeftAt(i) ==
    i \in started /\ (\A p \in Players : handle[p] # i)
       => mon[i] = "sending" \/ ends[i] # <<>> \/ i \in silent
OverAt(i) ==
    Reported(i, EndReasons)
       => mon[i] = "done" \/ (mon[i] = "none" /\ \A p \in Players : track[p] # i)

\* The parts follow from the invariant.
LEMMA PartsSplit ==
  ASSUME TrackInv
  PROVE  /\ \A w \in Workers : NewAt(w) /\ ReplacedAt(w)
         /\ \A p \in Players : GhostAt(p) /\ WatchedAt(p) /\ OutAt(p)
         /\ \A i \in Tracks : LeftAt(i) /\ OverAt(i)
<1> USE DEF TrackInv, PlayerInv
<1>1. \A w \in Workers : NewAt(w) /\ ReplacedAt(w)
  BY DEF ResolvingIsNew, NewAt, LeftIsReported, ReplacedAt
<1>2. \A p \in Players : GhostAt(p) /\ WatchedAt(p) /\ OutAt(p)
  BY DEF ResolvingIsNew, GhostAt, ShownIsWatched, WatchedAt, ReportedLeaves, OutAt
<1>3. \A i \in Tracks : LeftAt(i) /\ OverAt(i)
  BY DEF LeftIsReported, LeftAt, ReportedLeaves, OverAt
<1> QED BY <1>1, <1>2, <1>3

\* The parts, in the next state, give back the invariant's conjuncts.
LEMMA PartsJoined ==
  ASSUME PlayerTypeOK',
         \A w \in Workers : NewAt(w)' /\ ReplacedAt(w)',
         \A p \in Players : GhostAt(p)' /\ WatchedAt(p)' /\ OutAt(p)',
         \A i \in Tracks : LeftAt(i)' /\ OverAt(i)'
  PROVE  ResolvingIsNew' /\ ShownIsWatched' /\ LeftIsReported' /\ ReportedLeaves'
<1>1. ResolvingIsNew'
  BY DEF ResolvingIsNew, NewAt, GhostAt
<1>2. ShownIsWatched'
  BY DEF ShownIsWatched, WatchedAt
<1>3. LeftIsReported'
  BY DEF LeftIsReported, LeftAt, ReplacedAt, PlayerTypeOK
<1>4. ReportedLeaves'
  BY DEF ReportedLeaves, OutAt, OverAt
<1> QED BY <1>1, <1>2, <1>3, <1>4

\* A request that works under its lock, on its own context and its track, keeps
\* what the invariant says of the other requests and contexts.
LEMMA OthersKept ==
  ASSUME TrackInv, NEW w \in Workers, Locks(w), NEW p \in Players, p = ctx[w],
         UNCHANGED <<mapped, down>>,
         \A v \in Workers : v # w => pc'[v] = pc[v] /\ ctx'[v] = ctx[v],
         \A q \in Players : q # p => /\ holder'[q] = holder[q] /\ track'[q] = track[q]
                                     /\ info'[q] = info[q] /\ handle'[q] = handle[q]
                                     /\ task'[q] = task[q],
         \A j \in Tracks : j # psignal[p] /\ j <= installed =>
            /\ mon'[j] = mon[j] /\ signal'[j] = signal[j] /\ target'[j] = target[j]
            /\ ends'[j] = ends[j] /\ (j \in silent => j \in silent')
            /\ (j \in aborted' => j \in aborted)
  PROVE  /\ \A v \in Workers : v # w => NewAt(v)' /\ ReplacedAt(v)'
         /\ \A q \in Players : q # p => GhostAt(q)' /\ WatchedAt(q)' /\ OutAt(q)'
<1> USE DEF TrackInv, PlayerInv
<1>0. PlayerTypeOK
  OBVIOUS
<1>1. holder[p] = w /\ \A v \in Workers : Locks(v) /\ ctx[v] = p => v = w
  BY LockHeld
<1>2. ASSUME NEW q \in Players, q # p
      PROVE  /\ track[q] # Nothing => track[q] \in Tracks /\ track[q] # psignal[p] /\ track[q] <= installed
             /\ handle[q] # Nothing => handle[q] \in Tracks /\ handle[q] # psignal[p] /\ handle[q] <= installed
             /\ holder[q] # Free => holder[q] \in Workers /\ holder[q] # w
  <2>1. /\ track[q] \in {Nothing, psignal[q]} /\ handle[q] \in {Nothing, psignal[q]}
        /\ psignal[q] \in {Nothing} \cup Tracks /\ psignal[q] <= installed
        /\ psignal[q] = psignal[p] => psignal[q] = Nothing
    BY <1>2, OwnTrack DEF OneTrackPerPlayer
  <2>2. holder[q] # Free => holder[q] \in Workers /\ holder[q] # w
    BY <1>0, <1>2 DEF PlayerTypeOK, RequestsInShape
  <2> QED BY <2>1, <2>2
<1>3. ASSUME NEW v \in Workers, v # w
      PROVE  NewAt(v)' /\ ReplacedAt(v)'
  <2>1. pc[v] \in {"resolve", "install"} => ctx[v] \in Players /\ ctx[v] # p
    BY <1>1, <1>3, LockHeld DEF Locks
  <2>2. NewAt(v) /\ ReplacedAt(v)
    BY PartsSplit
  <2>3. NewAt(v)'
    <3> SUFFICES ASSUME pc'[v] = "resolve"
                 PROVE  /\ track'[ctx'[v]] # Nothing /\ handle'[ctx'[v]] = Nothing
                        /\ task'[ctx'[v]] = Nothing
                        /\ mon'[track'[ctx'[v]]] = "none" /\ ~signal'[track'[ctx'[v]]]
      BY DEF NewAt
    <3>1. pc[v] = "resolve" /\ ctx'[v] = ctx[v] /\ ctx[v] \in Players /\ ctx[v] # p
      BY <1>3, <2>1
    <3>2. track'[ctx[v]] = track[ctx[v]] /\ handle'[ctx[v]] = handle[ctx[v]]
          /\ task'[ctx[v]] = task[ctx[v]]
      BY <3>1
    <3>3. /\ track[ctx[v]] # Nothing /\ handle[ctx[v]] = Nothing /\ task[ctx[v]] = Nothing
          /\ mon[track[ctx[v]]] = "none" /\ ~signal[track[ctx[v]]]
      BY <2>2, <3>1 DEF NewAt
    <3>4. track[ctx[v]] \in Tracks /\ track[ctx[v]] # psignal[p] /\ track[ctx[v]] <= installed
      BY <1>2, <3>1, <3>3
    <3> QED BY <3>1, <3>2, <3>3, <3>4
  <2>4. ReplacedAt(v)'
    <3> SUFFICES ASSUME pc'[v] = "install", handle'[ctx'[v]] # Nothing
                 PROVE  ends'[handle'[ctx'[v]]] # <<>> \/ handle'[ctx'[v]] \in silent'
      BY DEF ReplacedAt
    <3>1. pc[v] = "install" /\ ctx'[v] = ctx[v] /\ ctx[v] \in Players /\ ctx[v] # p
      BY <1>3, <2>1
    <3>2. handle'[ctx'[v]] = handle[ctx[v]]
      BY <3>1
    <3>3. ends[handle[ctx[v]]] # <<>> \/ handle[ctx[v]] \in silent
      BY <2>2, <3>1, <3>2 DEF ReplacedAt
    <3>4. handle[ctx[v]] \in Tracks /\ handle[ctx[v]] # psignal[p] /\ handle[ctx[v]] <= installed
      BY <1>2, <3>1, <3>2
    <3> QED BY <3>1, <3>2, <3>3, <3>4
  <2> QED BY <2>3, <2>4
<1>4. ASSUME NEW q \in Players, q # p
      PROVE  GhostAt(q)' /\ WatchedAt(q)' /\ OutAt(q)'
  <2>1. GhostAt(q) /\ WatchedAt(q) /\ OutAt(q)
    BY PartsSplit
  <2>2. /\ holder'[q] = holder[q] /\ track'[q] = track[q] /\ info'[q] = info[q]
        /\ handle'[q] = handle[q] /\ task'[q] = task[q]
        /\ holder[q] # Free => pc'[holder[q]] = pc[holder[q]]
    BY <1>2, <1>4
  <2>3. GhostAt(q)'
    BY <2>1, <2>2 DEF GhostAt
  <2>4. WatchedAt(q)'
    BY <1>2, <1>4, <2>1, <2>2 DEF WatchedAt
  <2>5. OutAt(q)'
    <3>1. track[q] # Nothing => ends'[track[q]] = ends[track[q]]
      BY <1>2, <1>4
    <3> QED BY <2>1, <2>2, <3>1 DEF OutAt, Reported
  <2> QED BY <2>3, <2>4, <2>5
<1> QED BY <1>3, <1>4

-----------------------------------------------------------------------------
(***************************************************************************)
(* The requests that leave the track alone.                                *)
(***************************************************************************)

\* The lock is dropped: KeepTrack, SetPaused, and a resolution that failed for a
\* track without track info.
LEMMA LockDroppedInv ==
  ASSUME TrackInv, NEW w \in Workers, Release(w),
         pc[w] \in {"replace", "apply"} \/ (pc[w] = "resolve" /\ ~info[ctx[w]]),
         UNCHANGED <<mapped, created, track, info, handle, task, psignal, installed, decodable,
                     decoder, signal, monVars, eventVars>>,
         paused' \in [Players -> BOOLEAN],
         hstate' \in [Tracks -> States]
  PROVE  TrackInv'
<1> USE DEF TrackInv, PlayerInv, monVars, eventVars
<1>0. PlayerTypeOK
  OBVIOUS
<1>1. Locks(w)
  BY DEF Locks
<1>2. PICK p \in Players : p = ctx[w] /\ holder[p] = w /\ w # Free
  BY <1>1, LockHeld
<1>3. /\ holder' \in [Players -> Workers \cup {Free}] /\ pc' \in [Workers -> Steps]
      /\ op' \in [Workers -> Ops \cup {NoOp}] /\ ctx' \in [Workers -> {Nothing} \cup Players]
      /\ seen' = seen /\ served' = served /\ down' = down
  BY <1>1, ReleaseShape
<1>4. /\ holder'[p] = Free
      /\ \A q \in Players : q # p => holder'[q] = holder[q] /\ holder[q] # w
      /\ pc'[w] = "idle" /\ op'[w].kind = "none" /\ ctx'[w] = Nothing
      /\ \A v \in Workers : v # w => pc'[v] = pc[v] /\ op'[v] = op[v] /\ ctx'[v] = ctx[v]
  BY <1>1, <1>2, ReleaseShape
<1>a. /\ \A v \in Workers : v # w => NewAt(v)' /\ ReplacedAt(v)'
      /\ \A q \in Players : q # p => GhostAt(q)' /\ WatchedAt(q)' /\ OutAt(q)'
  BY <1>1, <1>2, <1>3, <1>4, OthersKept
<1>b. NewAt(w)' /\ ReplacedAt(w)'
  BY <1>4 DEF NewAt, ReplacedAt
<1>c. GhostAt(p)' /\ WatchedAt(p)' /\ OutAt(p)'
  <2>1. GhostAt(p) /\ WatchedAt(p) /\ OutAt(p)
    BY <1>2, PartsSplit
  <2>2. GhostAt(p)' /\ WatchedAt(p)'
    BY <1>2, <1>3, <1>4, <2>1 DEF GhostAt, WatchedAt
  <2>3. OutAt(p)'
    BY <1>2, <1>3, <1>4, <2>1 DEF OutAt, Reported
  <2> QED BY <2>2, <2>3
<1>d. \A j \in Tracks : LeftAt(j)' /\ OverAt(j)'
  BY PartsSplit DEF LeftAt, OverAt, Reported
<1>5. PlayerTypeOK'
  BY <1>0, <1>3 DEF PlayerTypeOK
<1>6. MonitorIsReachable' /\ OneTrackPerPlayer' /\ TargetIsPlayer'
  BY DEF MonitorIsReachable, OneTrackPerPlayer, TargetIsPlayer
<1>7. FreshIsUntouched'
  <2>1. /\ \A q \in Players : q > created => holder'[q] = Free
        /\ \A v \in Workers : ctx'[v] <= created
    BY <1>1, ReleaseShape
  <2> QED BY <1>3, <2>1 DEF FreshIsUntouched
<1>8. RequestsInShape' /\ RequestPerTrack'
  BY <1>1, ReleaseShape
<1>9. ResolvingIsNew' /\ ShownIsWatched' /\ LeftIsReported' /\ ReportedLeaves'
  BY <1>5, <1>a, <1>b, <1>c, <1>d, PartsJoined
<1>10. DownIsQuiet' /\ TakenOutOnce'
  BY <1>3, <1>4 DEF DownIsQuiet, TakenOutOnce, ReportedOnce
<1> QED BY <1>5, <1>6, <1>7, <1>8, <1>9, <1>10

\* Requests that change no track: one that finds nothing to do under the
\* lock, and pause or resume, which writes only the handle's state.
LEMMA KeepTrackInv ==
  ASSUME TrackInv, NEW w \in Workers, KeepTrack(w) \/ SetPaused(w)
  PROVE  TrackInv'
<1>0. /\ hstate \in [Tracks -> States] /\ paused \in [Players -> BOOLEAN]
      /\ handle \in [Players -> {Nothing} \cup Tracks]
  BY DEF TrackInv, PlayerInv, PlayerTypeOK
<1>1. CASE KeepTrack(w)
  BY <1>0, <1>1, LockDroppedInv DEF KeepTrack, trackVars
<1>2. CASE SetPaused(w)
  <2>1. hstate' \in [Tracks -> States]
    BY <1>0, <1>2 DEF SetPaused, States
  <2>2. paused' \in [Players -> BOOLEAN]
    BY <1>0, <1>2 DEF SetPaused
  <2> QED BY <1>2, <2>1, <2>2, LockDroppedInv DEF SetPaused
<1> QED BY <1>1, <1>2

\* The lock is granted: the request held none, and no one else held this one.
LEMMA AcquireInv ==
  ASSUME TrackInv, NEW w \in Workers, Acquire(w)
  PROVE  TrackInv'
<1> USE DEF TrackInv, PlayerInv, trackVars, monVars, eventVars
<1>0. PlayerTypeOK
  OBVIOUS
<1>1. PICK p \in Players : p = ctx[w] /\ holder[p] = Free
  BY <1>0 DEF Acquire, RequestsInShape, PlayerTypeOK
<1>2. w # Free /\ pc[w] = "lock"
  BY NothingApart DEF Acquire
<1>3. op[w].kind \in KindsAt(pc[w]) /\ ~Locks(w)
  BY <1>2 DEF RequestsInShape, Locks
<1>4. PICK step \in {"replace", "apply", "halting"} : Goto(w, step) /\ op[w].kind \in KindsAt(step)
  BY <1>2, <1>3 DEF Acquire, KindsAt
<1>5. /\ pc' \in [Workers -> Steps] /\ pc'[w] = step
      /\ \A v \in Workers : v # w => pc'[v] = pc[v]
      /\ op' = op /\ ctx' = ctx /\ seen' = seen /\ served' = served /\ down' = down
  BY <1>0, <1>4 DEF Goto, PlayerTypeOK, Steps
<1>6. /\ holder' \in [Players -> Workers \cup {Free}] /\ holder'[p] = w
      /\ \A q \in Players : q # p => holder'[q] = holder[q]
  BY <1>0, <1>1 DEF Acquire, PlayerTypeOK
<1>7. UNCHANGED <<mapped, created, track, info, handle, task, psignal, paused, installed,
                  decodable, hstate, decoder, signal, mon, target, reason, aborted, started,
                  ends, silent>>
  BY DEF Acquire
<1>8. PlayerTypeOK'
  BY <1>0, <1>5, <1>6, <1>7 DEF PlayerTypeOK
<1>9. MonitorIsReachable' /\ OneTrackPerPlayer' /\ TargetIsPlayer' /\ TakenOutOnce'
  BY <1>7 DEF MonitorIsReachable, OneTrackPerPlayer, TargetIsPlayer, TakenOutOnce, ReportedOnce
<1>10. FreshIsUntouched'
  <2>1. p <= created
    BY <1>1 DEF FreshIsUntouched
  <2>2. \A q \in Players : q > created => holder'[q] = Free
    BY <1>0, <1>6, <2>1 DEF FreshIsUntouched, PlayerTypeOK, Players
  <2> QED BY <1>5, <1>7, <2>2 DEF FreshIsUntouched
<1>11. RequestsInShape'
  <2>1. Locks(w)'
    BY <1>5 DEF Locks
  <2>2. \A q \in Players : holder[q] # w
    BY <1>2, <1>3 DEF RequestsInShape
  <2>3. \A q \in Players : holder'[q] = w => ctx'[w] = q
    BY <1>1, <1>5, <1>6, <2>2
  <2>4. ctx'[w] # Nothing /\ holder'[ctx'[w]] = w
    BY <1>1, <1>5, <1>6, NothingApart
  <2>5. op'[w].kind \in KindsAt(pc'[w]) /\ pc'[w] \notin {"idle", "lock", "reading"}
    BY <1>4, <1>5
  <2>6. \A q \in Players : holder'[q] = holder[q]
                          \/ (holder[q] \in {w, Free} /\ holder'[q] \in {w, Free})
    BY <1>1, <1>6
  <2> QED BY <1>5, <1>6, <2>1, <2>3, <2>4, <2>5, <2>6, ShapeKept
<1>12. RequestPerTrack'
  <2>1. Starting' = Starting
    BY <1>2, <1>3, <1>4, <1>5 DEF Starting, KindsAt
  <2> QED BY <1>5, <1>7, <2>1 DEF RequestPerTrack
<1>13. \A v \in Workers : NewAt(v)' /\ ReplacedAt(v)'
  BY <1>4, <1>5, <1>7, PartsSplit DEF NewAt, ReplacedAt
<1>14. \A q \in Players : GhostAt(q)' /\ WatchedAt(q)' /\ OutAt(q)'
  <2> SUFFICES ASSUME NEW q \in Players PROVE GhostAt(q)' /\ WatchedAt(q)' /\ OutAt(q)'
    OBVIOUS
  <2>1. GhostAt(q) /\ WatchedAt(q) /\ OutAt(q)
    BY PartsSplit
  <2>2. holder[q] = Free \/ (q # p /\ holder[q] \in Workers /\ holder[q] # w)
    BY <1>0, <1>1, <1>2, <1>3 DEF PlayerTypeOK, RequestsInShape
  <2>3. holder[q] # Free => holder'[q] = holder[q] /\ pc'[holder[q]] = pc[holder[q]]
    BY <1>1, <1>5, <1>6, <2>2
  <2>4. GhostAt(q)'
    BY <1>7, <2>1, <2>3 DEF GhostAt
  <2>5. WatchedAt(q)'
    BY <1>2, <1>5, <1>6, <1>7, <2>1, <2>3 DEF WatchedAt
  <2>6. OutAt(q)'
    BY <1>7, <2>1, <2>3 DEF OutAt, Reported
  <2> QED BY <2>4, <2>5, <2>6
<1>15. \A j \in Tracks : LeftAt(j)' /\ OverAt(j)'
  BY <1>7, PartsSplit DEF LeftAt, OverAt, Reported
<1>16. ResolvingIsNew' /\ ShownIsWatched' /\ LeftIsReported' /\ ReportedLeaves'
  BY <1>8, <1>13, <1>14, <1>15, PartsJoined
<1>17. DownIsQuiet'
  BY <1>5, <1>7 DEF DownIsQuiet
<1> QED BY <1>8, <1>9, <1>10, <1>11, <1>12, <1>16, <1>17

-----------------------------------------------------------------------------
(***************************************************************************)
(* The requests that change the track.                                     *)
(***************************************************************************)

\* stop_current_track, its first half.  The old track is still in the player, so
\* it was not reported as taken out before.
LEMMA ReportReplacedInv ==
  ASSUME TrackInv, NEW w \in Workers, ReportReplaced(w)
  PROVE  TrackInv'
<1> USE DEF TrackInv, PlayerInv, playerVars, monVars
<1>0. PlayerTypeOK
  OBVIOUS
<1>1. Locks(w) /\ pc[w] = "replace"
  BY DEF Locks, ReportReplaced
<1>2. PICK p \in Players : p = ctx[w] /\ holder[p] = w /\ w # Free
  BY <1>1, LockHeld
<1>3. PICK i \in {Nothing} \cup Tracks : i = handle[p]
  BY <1>0 DEF PlayerTypeOK
<1>4. /\ Goto(w, "install")
      /\ UNCHANGED <<mapped, created, holder, track, info, handle, task, psignal, paused,
                     installed, decodable, decoder, signal, mon, target, reason, aborted, started>>
  BY DEF ReportReplaced
<1>5. /\ pc' \in [Workers -> Steps] /\ pc'[w] = "install"
      /\ op' = op /\ ctx' = ctx /\ seen' = seen /\ served' = served /\ down' = down
      /\ \A v \in Workers : v # w => pc'[v] = pc[v]
      /\ RequestsInShape' /\ RequestPerTrack'
  BY <1>1, <1>4, GotoShape DEF Steps
<1>6. PICK k \in {Nothing, i} : /\ SendEnd(k, "Replaced")
                                /\ silent' = IF i # Nothing /\ k = Nothing THEN silent \cup {i} ELSE silent
  BY <1>2, <1>3 DEF ReportReplaced
<1>7. /\ ends' \in [Tracks -> Seq(Reasons)] /\ silent' \in SUBSET Tracks
      /\ hstate' \in [Tracks -> States]
      /\ i # Nothing => ends'[i] # <<>> \/ i \in silent'
      /\ \A j \in Tracks : /\ j # i => ends'[j] = ends[j]
                           /\ ends[j] # <<>> => ends'[j] # <<>>
                           /\ j \in silent => j \in silent'
                           /\ Reported(j, EndReasons)' => Reported(j, EndReasons)
                           /\ ReportedOnce(j, EndReasons) => ReportedOnce(j, EndReasons)'
                           /\ ~Reported(j, OutReasons) \/ j # i =>
                                 (ReportedOnce(j, OutReasons) => ReportedOnce(j, OutReasons)')
  <2>1. hstate' \in [Tracks -> States]
    BY <1>0, <1>2, <1>3 DEF ReportReplaced, PlayerTypeOK, States
  <2>2. "Replaced" \in Reasons /\ "Replaced" \notin EndReasons /\ k \in {Nothing} \cup Tracks
    BY <1>3, <1>6 DEF Reasons, EndReasons
  <2>3. /\ ends' \in [Tracks -> Seq(Reasons)]
        /\ k # Nothing => ends'[k] # <<>>
        /\ \A j \in Tracks : j # k => ends'[j] = ends[j]
        /\ \A j \in Tracks : ends[j] # <<>> => ends'[j] # <<>>
        /\ \A j \in Tracks : /\ Reported(j, EndReasons)' => Reported(j, EndReasons)
                             /\ ReportedOnce(j, EndReasons) => ReportedOnce(j, EndReasons)'
                             /\ ~Reported(j, OutReasons) \/ j # k =>
                                   (ReportedOnce(j, OutReasons) => ReportedOnce(j, OutReasons)')
    BY <1>6, <2>2, EndsGrow
  <2>4. silent' \in SUBSET Tracks /\ \A j \in Tracks : j \in silent => j \in silent'
    BY <1>0, <1>3, <1>6 DEF PlayerTypeOK
  <2>5. \A j \in Tracks : j # i => j # k
    BY <1>6, NothingApart
  <2>6. i # Nothing => ends'[i] # <<>> \/ i \in silent'
    BY <1>6, <2>3
  <2> QED BY <2>1, <2>3, <2>4, <2>5, <2>6
<1>8. /\ \A v \in Workers : v # w => NewAt(v)' /\ ReplacedAt(v)'
      /\ \A q \in Players : q # p => GhostAt(q)' /\ WatchedAt(q)' /\ OutAt(q)'
  <2>1. i \in {Nothing, psignal[p]}
    BY <1>3, OwnTrack
  <2>2. \A j \in Tracks : j # psignal[p] => ends'[j] = ends[j] /\ (j \in silent => j \in silent')
    BY <1>7, <2>1, NothingApart
  <2> QED BY <1>1, <1>2, <1>4, <1>5, <2>2, OthersKept
<1>9. NewAt(w)' /\ ReplacedAt(w)'
  <2>1. NewAt(w)'
    BY <1>5 DEF NewAt
  <2>2. ReplacedAt(w)'
    BY <1>2, <1>3, <1>4, <1>5, <1>7 DEF ReplacedAt
  <2> QED BY <2>1, <2>2
<1>10. GhostAt(p)' /\ WatchedAt(p)' /\ OutAt(p)'
  <2>1. GhostAt(p) /\ WatchedAt(p)
    BY PartsSplit
  <2>2. GhostAt(p)' /\ WatchedAt(p)'
    BY <1>1, <1>2, <1>4, <1>5, <2>1 DEF GhostAt, WatchedAt
  <2>3. OutAt(p)'
    BY <1>2, <1>4, <1>5 DEF OutAt
  <2> QED BY <2>2, <2>3
<1>11. \A j \in Tracks : LeftAt(j)' /\ OverAt(j)'
  BY <1>4, <1>7, PartsSplit DEF LeftAt, OverAt
<1>12. PlayerTypeOK'
  BY <1>0, <1>4, <1>5, <1>7 DEF PlayerTypeOK, Reasons
<1>13. ResolvingIsNew' /\ ShownIsWatched' /\ LeftIsReported' /\ ReportedLeaves'
  BY <1>8, <1>9, <1>10, <1>11, <1>12, PartsJoined
<1>14. MonitorIsReachable' /\ OneTrackPerPlayer' /\ TargetIsPlayer' /\ DownIsQuiet'
  BY <1>4, <1>5 DEF MonitorIsReachable, OneTrackPerPlayer, TargetIsPlayer, DownIsQuiet
<1>15. FreshIsUntouched'
  <2>1. \A j \in Tracks : j > installed => ends'[j] = <<>>
    <3>1. i \in {Nothing, psignal[p]} /\ psignal[p] <= installed
      BY <1>3, OwnTrack
    <3>2. \A j \in Tracks : j > installed => j # i
      BY <1>0, <1>3, <3>1, NothingApart DEF PlayerTypeOK, Tracks, Nothing
    <3> QED BY <1>7, <3>2 DEF FreshIsUntouched
  <2> QED BY <1>4, <1>5, <2>1 DEF FreshIsUntouched
<1>16. TakenOutOnce'
  <2>1. OutAt(p) /\ (i # Nothing => track[p] = i)
    BY <1>3, PartsSplit, OwnTrack
  <2>2. i # Nothing => ~Reported(i, OutReasons)
    BY <1>1, <1>2, <2>1 DEF OutAt
  <2>3. \A j \in Tracks : ReportedOnce(j, OutReasons)' /\ ReportedOnce(j, EndReasons)'
    BY <1>7, <2>2, NothingApart DEF TakenOutOnce
  <2> QED BY <2>3 DEF TakenOutOnce
<1> QED BY <1>5, <1>12, <1>13, <1>14, <1>15, <1>16

\* stop_current_track, its second half, and the metadata of the new track.  The
\* signal of the old track is set, so its monitor may go out of reach; the new
\* track has a number that nothing refers to.
LEMMA InstallInv ==
  ASSUME TrackInv, NEW w \in Workers, Install(w)
  PROVE  TrackInv'
<1> USE DEF TrackInv, PlayerInv, eventVars
<1>0. PlayerTypeOK
  OBVIOUS
<1>1. Locks(w) /\ pc[w] = "install"
  BY DEF Locks, Install
<1>2. PICK p \in Players : p = ctx[w] /\ holder[p] = w /\ w # Free
  BY <1>1, LockHeld
<1>3. PICK o \in {Nothing} \cup Tracks : o = psignal[p]
  BY <1>0 DEF PlayerTypeOK
<1>4. op[w].kind = "play" /\ op[w].decodable \in BOOLEAN
  <2>1. op[w].kind \in KindsAt("install")
    BY <1>1 DEF RequestsInShape
  <2>2. op[w].kind = "play"
    BY <2>1 DEF KindsAt
  <2>3. op[w] \in Ops
    BY <1>0, <2>2 DEF PlayerTypeOK, NoOp
  <2> QED BY <2>2, <2>3, OpKinds
<1>5. PICK n \in Tracks : n = installed + 1
  <2>1. w \in Starting
    BY <1>1, <1>4 DEF Starting
  <2> QED BY <2>1, RoomToInstall
<1>6. installed \in Nat /\ n \in Nat /\ n > installed
  BY <1>0, <1>5, PlayerAssumption DEF PlayerTypeOK
<1>7. /\ Goto(w, "resolve") /\ installed' = n
      /\ UNCHANGED <<mapped, created, holder, paused, decoder, target, reason, started, ends, silent>>
  BY <1>5 DEF Install
<1>8. /\ pc' \in [Workers -> Steps] /\ pc'[w] = "resolve"
      /\ op' = op /\ ctx' = ctx /\ seen' = seen /\ served' = served /\ down' = down
      /\ \A v \in Workers : v # w => pc'[v] = pc[v]
      /\ RequestsInShape' /\ RequestPerTrack'
  BY <1>1, <1>5, <1>7, GotoShape DEF Steps
<1>9. /\ task' \in [Players -> {Nothing} \cup Tracks] /\ task'[p] = Nothing
      /\ handle' \in [Players -> {Nothing} \cup Tracks] /\ handle'[p] = Nothing
      /\ track' \in [Players -> {Nothing} \cup Tracks] /\ track'[p] = n
      /\ psignal' \in [Players -> {Nothing} \cup Tracks] /\ psignal'[p] = n
      /\ \A q \in Players : q # p => /\ task'[q] = task[q] /\ handle'[q] = handle[q]
                                     /\ track'[q] = track[q] /\ psignal'[q] = psignal[q]
  BY <1>0, <1>2, <1>5 DEF Install, PlayerTypeOK
<1>10. /\ info' \in [Players -> BOOLEAN] /\ info'[p] = op[w].decodable
       /\ decodable' \in [Tracks -> BOOLEAN] /\ decodable'[n] = op[w].decodable
       /\ \A q \in Players : q # p => info'[q] = info[q]
       /\ \A j \in Tracks : j # n => decodable'[j] = decodable[j]
  BY <1>0, <1>2, <1>4, <1>5 DEF Install, PlayerTypeOK
<1>11. /\ signal' \in [Tracks -> BOOLEAN] /\ hstate' \in [Tracks -> States]
       /\ \A j \in Tracks : signal'[j] <=> signal[j] \/ j = o
  BY <1>0, <1>2, <1>3 DEF Install, HaltTrack, PlayerTypeOK, States
<1>12. /\ mon' \in [Tracks -> {"none", "done"} \cup Monitoring]
       /\ aborted' \in SUBSET Tracks
       /\ \A j \in Tracks : \/ mon'[j] = mon[j]
                            \/ (j = o /\ mon[j] \in {"tick", "parked"} /\ mon'[j] = "done")
       /\ \A j \in Tracks : j \in aborted' => j \in aborted \/ (j = o /\ mon[j] \in Monitoring)
  <2>1. Abort({task[p]} \cap Tracks)
    BY <1>2 DEF Install, HaltTrack
  <2>2. \A j \in {task[p]} \cap Tracks : j = o
    BY <1>3, OwnTrack, NothingApart
  <2>3. {task[p]} \cap Tracks \in SUBSET Tracks
    OBVIOUS
  <2> DEFINE is == {task[p]} \cap Tracks
  <2> HIDE DEF is
  <2>4. Abort(is) /\ is \in SUBSET Tracks /\ \A j \in is : j = o
    BY <2>1, <2>2, <2>3 DEF is
  <2> QED BY <2>4, Aborted
<1>13. /\ mon[n] = "none" /\ ~signal[n] /\ ends[n] = <<>> /\ n \notin started /\ n \notin aborted
       /\ n # o /\ \A q \in Players : psignal[q] # n /\ track[q] # n /\ handle[q] # n /\ task[q] # n
  <2>1. /\ mon[n] = "none" /\ ~signal[n] /\ ends[n] = <<>> /\ n \notin started /\ n \notin aborted
    BY <1>6 DEF FreshIsUntouched
  <2>2. \A q \in Players : psignal[q] \in Nat /\ psignal[q] <= installed
    BY <1>0, PlayerAssumption DEF PlayerTypeOK, FreshIsUntouched, Nothing, Tracks
  <2>3. \A q \in Players : psignal[q] # n
    BY <1>6, <2>2
  <2> QED BY <1>3, <2>1, <2>3, OwnTrack, NothingApart
<1>14. PlayerTypeOK'
  <2>1. n \in 0 .. MaxOps
    BY <1>5, <1>6, PlayerAssumption DEF Tracks
  <2> QED BY <1>0, <1>7, <1>8, <1>9, <1>10, <1>11, <1>12, <2>1 DEF PlayerTypeOK
<1>15. MonitorIsReachable'
  <2> SUFFICES ASSUME NEW j \in Tracks, mon'[j] \in Monitoring, ~signal'[j]
               PROVE  \E q \in Players : task'[q] = j
    BY DEF MonitorIsReachable
  <2>1. mon[j] \in Monitoring /\ ~signal[j] /\ j # o
    BY <1>11, <1>12 DEF Monitoring
  <2>2. PICK q \in Players : task[q] = j
    BY <2>1 DEF MonitorIsReachable
  <2>3. q # p
    BY <1>3, <2>1, <2>2, OwnTrack, NothingApart
  <2> QED BY <1>9, <2>2, <2>3
<1>16. OneTrackPerPlayer'
  <2>1. ASSUME NEW q \in Players
        PROVE  /\ track'[q] \in {Nothing, psignal'[q]} /\ task'[q] \in {Nothing, psignal'[q]}
               /\ handle'[q] \in {Nothing, track'[q]}
               /\ info'[q] <=> track'[q] # Nothing /\ decodable'[track'[q]]
    <3>1. CASE q = p
      BY <1>9, <1>10, <3>1, NothingApart
    <3>2. CASE q # p
      <4>1. /\ track[q] \in {Nothing, psignal[q]} /\ task[q] \in {Nothing, psignal[q]}
            /\ handle[q] \in {Nothing, track[q]}
            /\ info[q] <=> track[q] # Nothing /\ decodable[track[q]]
        BY DEF OneTrackPerPlayer
      <4>2. track[q] # Nothing => decodable'[track[q]] = decodable[track[q]]
        BY <1>0, <1>10, <1>13 DEF PlayerTypeOK
      <4> QED BY <1>9, <1>10, <3>2, <4>1, <4>2
    <3> QED BY <3>1, <3>2
  <2>2. \A q, r \in Players : psignal'[q] = psignal'[r] /\ psignal'[q] # Nothing => q = r
    BY <1>9, <1>13 DEF OneTrackPerPlayer
  <2> QED BY <2>1, <2>2 DEF OneTrackPerPlayer
<1>17. FreshIsUntouched'
  <2>1. ASSUME NEW j \in Tracks, j > n
        PROVE  mon'[j] = "none" /\ ~signal'[j] /\ ends[j] = <<>> /\ j \notin started
    <3>1. j > installed
      BY <1>6, <2>1 DEF Tracks
    <3>2. mon[j] = "none" /\ ~signal[j] /\ ends[j] = <<>> /\ j \notin started
      BY <3>1 DEF FreshIsUntouched
    <3>3. psignal[p] <= installed
      BY OwnTrack
    <3>4. j # o
      BY <1>3, <1>6, <3>1, <3>3 DEF Tracks
    <3> QED BY <1>11, <1>12, <3>2, <3>4
  <2>2. \A j \in Tracks : j \in aborted' => mon'[j] # "none"
    BY <1>12 DEF FreshIsUntouched, Monitoring
  <2>3. \A q \in Players : psignal'[q] <= n
    <3>1. \A q \in Players : psignal[q] \in Nat /\ psignal[q] <= installed
      BY <1>0, PlayerAssumption DEF PlayerTypeOK, FreshIsUntouched, Nothing, Tracks
    <3> QED BY <1>6, <1>9, <3>1
  <2>4. \A q \in Players : q > created => psignal'[q] = Nothing /\ holder[q] = Free
    BY <1>2, <1>9 DEF FreshIsUntouched
  <2>5. \A v \in Workers : ctx[v] <= created /\ seen[v] <= n
    <3>1. \A v \in Workers : seen[v] \in Nat /\ seen[v] <= installed
      BY <1>0, PlayerAssumption DEF PlayerTypeOK, FreshIsUntouched, Nothing, Tracks
    <3> QED BY <1>6, <3>1 DEF FreshIsUntouched
  <2>6. mapped <= created
    BY DEF FreshIsUntouched
  <2> QED BY <1>7, <1>8, <2>1, <2>2, <2>3, <2>4, <2>5, <2>6 DEF FreshIsUntouched
<1>18. /\ \A v \in Workers : v # w => NewAt(v)' /\ ReplacedAt(v)'
       /\ \A q \in Players : q # p => GhostAt(q)' /\ WatchedAt(q)' /\ OutAt(q)'
  <2>1. \A j \in Tracks : j # psignal[p] /\ j <= installed =>
            /\ mon'[j] = mon[j] /\ signal'[j] = signal[j] /\ target'[j] = target[j]
            /\ ends'[j] = ends[j] /\ (j \in silent => j \in silent')
            /\ (j \in aborted' => j \in aborted)
    <3>1. \A j \in Tracks : signal[j] \in BOOLEAN /\ signal'[j] \in BOOLEAN
      BY <1>0, <1>11 DEF PlayerTypeOK
    <3>2. \A j \in Tracks : j # o => (signal'[j] <=> signal[j])
      BY <1>11
    <3>3. \A j \in Tracks : j # o => signal'[j] = signal[j]
      BY <3>1, <3>2
    <3>4. \A j \in Tracks : j # o => mon'[j] = mon[j] /\ (j \in aborted' => j \in aborted)
      BY <1>12
    <3> QED BY <1>3, <1>7, <3>3, <3>4
  <2>2. \A q \in Players : q # p => /\ holder'[q] = holder[q] /\ track'[q] = track[q]
                                    /\ info'[q] = info[q] /\ handle'[q] = handle[q]
                                    /\ task'[q] = task[q]
    BY <1>7, <1>9, <1>10
  <2> QED BY <1>1, <1>2, <1>7, <1>8, <2>1, <2>2, OthersKept
<1>19. NewAt(w)' /\ ReplacedAt(w)'
  BY <1>2, <1>8, <1>9, <1>11, <1>12, <1>13, NothingApart DEF NewAt, ReplacedAt
<1>20. GhostAt(p)' /\ WatchedAt(p)' /\ OutAt(p)'
  <2>1. GhostAt(p)' /\ WatchedAt(p)'
    BY <1>2, <1>7, <1>8, <1>9 DEF GhostAt, WatchedAt
  <2>2. OutAt(p)'
    BY <1>7, <1>9, <1>13 DEF OutAt, Reported
  <2> QED BY <2>1, <2>2
<1>21. ASSUME NEW j \in Tracks PROVE LeftAt(j)' /\ OverAt(j)'
  <2>1. LeftAt(j) /\ OverAt(j) /\ ReplacedAt(w)
    BY PartsSplit
  <2>2. LeftAt(j)'
    BY <1>1, <1>2, <1>7, <1>9, <1>12, <2>1 DEF LeftAt, ReplacedAt
  <2>3. OverAt(j)'
    <3>1. Reported(j, EndReasons)' => Reported(j, EndReasons) /\ j # n
      BY <1>7, <1>13 DEF Reported
    <3> QED BY <1>9, <1>12, <2>1, <3>1 DEF OverAt
  <2> QED BY <2>2, <2>3
<1>22. ResolvingIsNew' /\ ShownIsWatched' /\ LeftIsReported' /\ ReportedLeaves'
  BY <1>14, <1>18, <1>19, <1>20, <1>21, PartsJoined
<1>23. TargetIsPlayer' /\ TakenOutOnce'
  <2>1. TargetIsPlayer'
    BY <1>7, <1>12 DEF TargetIsPlayer
  <2>2. TakenOutOnce'
    BY <1>7 DEF TakenOutOnce, ReportedOnce
  <2> QED BY <2>1, <2>2
<1>24. DownIsQuiet'
  BY <1>4, <1>8 DEF DownIsQuiet
<1> QED BY <1>8, <1>14, <1>15, <1>16, <1>17, <1>22, <1>23, <1>24

\* A track that could not be resolved: nothing had seen it, so this is its only
\* TrackEnd of that kind.
LEMMA ResolveFailsInv ==
  ASSUME TrackInv, NEW w \in Workers, ResolveFails(w)
  PROVE  TrackInv'
<1> USE DEF TrackInv, PlayerInv, monVars
<1>0. PlayerTypeOK
  OBVIOUS
<1>1. Locks(w) /\ pc[w] = "resolve" /\ Release(w)
  BY DEF Locks, ResolveFails
<1>2. PICK p \in Players : p = ctx[w] /\ holder[p] = w /\ w # Free
  BY <1>1, LockHeld
<1>3. CASE ~info[p]
  <2>1. /\ UNCHANGED <<mapped, created, track, info, handle, task, psignal, installed, decodable,
                     decoder, signal, monVars, eventVars>>
        /\ paused' \in [Players -> BOOLEAN]
        /\ hstate' \in [Tracks -> States]
    BY <1>0, <1>2, <1>3 DEF ResolveFails, eventVars, PlayerTypeOK
  <2> QED BY <1>1, <1>2, <1>3, <2>1, LockDroppedInv
<1>4. CASE info[p]
  <2>1. PICK i \in Tracks : /\ i = track[p] /\ i = psignal[p] /\ i <= installed
                            /\ handle[p] = Nothing /\ task[p] = Nothing
                            /\ mon[i] = "none" /\ ~signal[i]
    <3>1. NewAt(w)
      BY PartsSplit
    <3> QED BY <1>0, <1>1, <1>2, <3>1, OwnTrack DEF NewAt, PlayerTypeOK
  <2>2. /\ holder' \in [Players -> Workers \cup {Free}] /\ pc' \in [Workers -> Steps]
        /\ op' \in [Workers -> Ops \cup {NoOp}] /\ ctx' \in [Workers -> {Nothing} \cup Players]
        /\ seen' = seen /\ served' = served /\ down' = down
        /\ holder'[p] = Free
        /\ \A q \in Players : q # p => holder'[q] = holder[q] /\ holder[q] # w
        /\ pc'[w] = "idle" /\ op'[w].kind = "none" /\ ctx'[w] = Nothing
        /\ \A v \in Workers : v # w => pc'[v] = pc[v] /\ op'[v] = op[v] /\ ctx'[v] = ctx[v]
        /\ \A q \in Players : q > created => holder'[q] = Free
        /\ \A v \in Workers : ctx'[v] <= created
        /\ RequestsInShape' /\ RequestPerTrack'
    BY <1>1, <1>2, ReleaseShape DEF ResolveFails
  <2>3. UNCHANGED <<mapped, created, handle, task, psignal, paused, installed, decodable, hstate,
                    decoder, mon, target, reason, aborted, started, silent>>
    BY DEF ResolveFails
  <2>4. /\ track' \in [Players -> {Nothing} \cup Tracks] /\ track'[p] = Nothing
        /\ info' \in [Players -> BOOLEAN] /\ info'[p] = FALSE
        /\ \A q \in Players : q # p => track'[q] = track[q] /\ info'[q] = info[q]
    <3>1. track' = [track EXCEPT ![p] = Nothing] /\ info' = [info EXCEPT ![p] = FALSE]
      BY <1>2, <1>4 DEF ResolveFails
    <3> QED BY <1>0, <3>1 DEF PlayerTypeOK
  <2>5. /\ signal' \in [Tracks -> BOOLEAN] /\ signal'[i] = TRUE
        /\ \A j \in Tracks : j # i => signal'[j] = signal[j]
    BY <1>0, <1>2, <1>4, <2>1 DEF ResolveFails, PlayerTypeOK
  <2>6. ~Reported(i, EndReasons)
    <3>1. OverAt(i)
      BY PartsSplit
    <3> QED BY <2>1, <3>1 DEF OverAt
  <2>7. /\ ends' \in [Tracks -> Seq(Reasons)] /\ ends'[i] # <<>>
        /\ \A j \in Tracks : /\ j # i => ends'[j] = ends[j]
                             /\ ends[j] # <<>> => ends'[j] # <<>>
                             /\ j # i => (Reported(j, EndReasons)' => Reported(j, EndReasons))
                             /\ ReportedOnce(j, EndReasons) => ReportedOnce(j, EndReasons)'
                             /\ ReportedOnce(j, OutReasons) => ReportedOnce(j, OutReasons)'
    <3>1. SendEnd(i, "LoadFailed") /\ "LoadFailed" \in Reasons /\ "LoadFailed" \notin OutReasons
      BY <1>2, <1>4, <2>1 DEF ResolveFails, Reasons, OutReasons
    <3> QED BY <2>6, <3>1, EndsGrow, NothingApart
  <2>8. PlayerTypeOK'
    BY <1>0, <2>2, <2>3, <2>4, <2>5, <2>7 DEF PlayerTypeOK, Reasons
  <2>9. MonitorIsReachable' /\ TargetIsPlayer'
    BY <2>1, <2>3, <2>5 DEF MonitorIsReachable, TargetIsPlayer, Monitoring
  <2>10. OneTrackPerPlayer'
    BY <2>1, <2>3, <2>4 DEF OneTrackPerPlayer
  <2>11. FreshIsUntouched'
    <3>1. \A j \in Tracks : j > installed => j # i
      BY <1>0, <2>1 DEF PlayerTypeOK, Tracks
    <3> QED BY <2>2, <2>3, <2>5, <2>7, <3>1 DEF FreshIsUntouched
  <2>12. /\ \A v \in Workers : v # w => NewAt(v)' /\ ReplacedAt(v)'
         /\ \A q \in Players : q # p => GhostAt(q)' /\ WatchedAt(q)' /\ OutAt(q)'
    <3>1. \A j \in Tracks : j # psignal[p] /\ j <= installed =>
              /\ mon'[j] = mon[j] /\ signal'[j] = signal[j] /\ target'[j] = target[j]
              /\ ends'[j] = ends[j] /\ (j \in silent => j \in silent')
              /\ (j \in aborted' => j \in aborted)
      BY <2>1, <2>3, <2>5, <2>7
    <3>2. \A q \in Players : q # p => /\ holder'[q] = holder[q] /\ track'[q] = track[q]
                                      /\ info'[q] = info[q] /\ handle'[q] = handle[q]
                                      /\ task'[q] = task[q]
      BY <2>2, <2>3, <2>4
    <3> QED BY <1>1, <1>2, <2>2, <2>3, <3>1, <3>2, OthersKept
  <2>13. NewAt(w)' /\ ReplacedAt(w)' /\ GhostAt(p)' /\ WatchedAt(p)' /\ OutAt(p)'
    BY <2>1, <2>2, <2>3, <2>4 DEF NewAt, ReplacedAt, GhostAt, WatchedAt, OutAt
  <2>14. ASSUME NEW j \in Tracks PROVE LeftAt(j)' /\ OverAt(j)'
    <3>1. LeftAt(j) /\ OverAt(j)
      BY PartsSplit
    <3>2. LeftAt(j)'
      BY <2>3, <2>7, <3>1 DEF LeftAt
    <3>3. CASE j = i
      <4>1. \A q \in Players : q # p => track[q] # i
        BY <2>1, OwnTrack, NothingApart
      <4>2. \A q \in Players : track'[q] # i
        BY <2>4, <4>1, NothingApart
      <4> QED BY <2>1, <2>3, <3>2, <3>3, <4>2 DEF OverAt
    <3>4. CASE j # i
      <4>1. \A q \in Players : track[q] # j => track'[q] # j
        BY <2>4, NothingApart
      <4>2. Reported(j, EndReasons)' => Reported(j, EndReasons)
        BY <2>7, <3>4
      <4> QED BY <2>3, <3>1, <3>2, <4>1, <4>2 DEF OverAt
    <3> QED BY <3>2, <3>3, <3>4
  <2>15. ResolvingIsNew' /\ ShownIsWatched' /\ LeftIsReported' /\ ReportedLeaves'
    BY <2>8, <2>12, <2>13, <2>14, PartsJoined
  <2>16. DownIsQuiet'
    BY <2>2, <2>3 DEF DownIsQuiet
  <2>17. TakenOutOnce'
    BY <2>7 DEF TakenOutOnce
  <2> QED BY <2>2, <2>8, <2>9, <2>10, <2>11, <2>15, <2>16, <2>17
<1> QED BY <1>3, <1>4

\* The new track has its handle, and if it was announced its monitor, which no
\* signal and no abort of an earlier track can reach.
LEMMA ResolveSucceedsInv ==
  ASSUME TrackInv, NEW w \in Workers, ResolveSucceeds(w)
  PROVE  TrackInv'
<1> USE DEF TrackInv, PlayerInv
<1>0. PlayerTypeOK
  OBVIOUS
<1>1. Locks(w) /\ pc[w] = "resolve" /\ Release(w)
  BY DEF Locks, ResolveSucceeds
<1>2. PICK p \in Players : p = ctx[w] /\ holder[p] = w /\ w # Free
  BY <1>1, LockHeld
<1>3. PICK n \in Tracks : /\ n = track[p] /\ n = psignal[p] /\ n <= installed
                          /\ handle[p] = Nothing /\ task[p] = Nothing
                          /\ mon[n] = "none" /\ ~signal[n] /\ n \notin aborted
  <2>1. NewAt(w)
    BY PartsSplit
  <2>2. \A j \in Tracks : j \in aborted => mon[j] # "none"
    BY DEF FreshIsUntouched
  <2> QED BY <1>0, <1>1, <1>2, <2>1, <2>2, OwnTrack DEF NewAt, PlayerTypeOK
<1>4. /\ holder' \in [Players -> Workers \cup {Free}] /\ pc' \in [Workers -> Steps]
      /\ op' \in [Workers -> Ops \cup {NoOp}] /\ ctx' \in [Workers -> {Nothing} \cup Players]
      /\ seen' = seen /\ served' = served /\ down' = down
      /\ holder'[p] = Free
      /\ \A q \in Players : q # p => holder'[q] = holder[q] /\ holder[q] # w
      /\ pc'[w] = "idle" /\ op'[w].kind = "none" /\ ctx'[w] = Nothing
      /\ \A v \in Workers : v # w => pc'[v] = pc[v] /\ op'[v] = op[v] /\ ctx'[v] = ctx[v]
      /\ \A q \in Players : q > created => holder'[q] = Free
      /\ \A v \in Workers : ctx'[v] <= created
      /\ RequestsInShape' /\ RequestPerTrack'
  BY <1>1, <1>2, ReleaseShape DEF ResolveSucceeds
<1>5. UNCHANGED <<mapped, created, track, info, psignal, paused, installed, decodable, signal,
                  target, reason, aborted, ends, silent>>
  BY DEF ResolveSucceeds
<1>6. /\ handle' \in [Players -> {Nothing} \cup Tracks] /\ handle'[p] = n
      /\ \A q \in Players : q # p => handle'[q] = handle[q]
      /\ hstate' \in [Tracks -> States]
      /\ decoder' \in [Tracks -> {"none", "running", "ended", "failed"}]
  BY <1>0, <1>2, <1>3 DEF ResolveSucceeds, PlayerTypeOK, States
<1>7. /\ started' \in SUBSET Tracks /\ started' \subseteq started \cup {n}
      /\ mon' \in [Tracks -> {"none", "done"} \cup Monitoring]
      /\ task' \in [Players -> {Nothing} \cup Tracks]
      /\ \A j \in Tracks : j # n => mon'[j] = mon[j]
      /\ \A q \in Players : q # p => task'[q] = task[q]
      /\ info[p] => mon'[n] = "tick" /\ task'[p] = n
      /\ ~info[p] => mon'[n] = "none" /\ task'[p] = Nothing
  <2>0. /\ started \in SUBSET Tracks
        /\ mon \in [Tracks -> {"none", "done"} \cup Monitoring]
        /\ task \in [Players -> {Nothing} \cup Tracks]
    BY <1>0 DEF PlayerTypeOK
  <2>1. CASE info[p]
    <3>1. started' = started \cup {n} /\ mon' = [mon EXCEPT ![n] = "tick"]
          /\ task' = [task EXCEPT ![p] = n]
      BY <1>2, <1>3, <2>1 DEF ResolveSucceeds
    <3> QED BY <2>0, <2>1, <3>1 DEF Monitoring
  <2>2. CASE ~info[p]
    <3>1. started' = started /\ mon' = mon /\ task' = task
      BY <1>2, <2>2 DEF ResolveSucceeds
    <3> QED BY <1>3, <2>0, <2>2, <3>1
  <2> QED BY <2>1, <2>2
<1>8. PlayerTypeOK'
  BY <1>0, <1>4, <1>5, <1>6, <1>7 DEF PlayerTypeOK
<1>9. MonitorIsReachable'
  <2> SUFFICES ASSUME NEW j \in Tracks, mon'[j] \in Monitoring, ~signal'[j]
               PROVE  \E q \in Players : task'[q] = j
    BY DEF MonitorIsReachable
  <2>1. CASE j = n
    BY <1>7, <2>1 DEF Monitoring
  <2>2. CASE j # n
    <3>1. PICK q \in Players : task[q] = j
      BY <1>5, <1>7, <2>2 DEF MonitorIsReachable
    <3>2. q # p
      BY <1>3, <3>1, NothingApart
    <3> QED BY <1>7, <3>1, <3>2
  <2> QED BY <2>1, <2>2
<1>10. OneTrackPerPlayer'
  BY <1>3, <1>5, <1>6, <1>7 DEF OneTrackPerPlayer
<1>11. FreshIsUntouched'
  <2>1. \A j \in Tracks : j > installed => j # n
    BY <1>0, <1>3 DEF PlayerTypeOK, Tracks
  <2>2. \A j \in Tracks : /\ j > installed => mon'[j] = "none" /\ j \notin started'
                          /\ j \in aborted => mon'[j] # "none"
    BY <1>3, <1>7, <2>1 DEF FreshIsUntouched
  <2> QED BY <1>4, <1>5, <2>2 DEF FreshIsUntouched
<1>12. TargetIsPlayer' /\ TakenOutOnce'
  BY <1>5, <1>7 DEF TargetIsPlayer, TakenOutOnce, ReportedOnce
<1>13. /\ \A v \in Workers : v # w => NewAt(v)' /\ ReplacedAt(v)'
       /\ \A q \in Players : q # p => GhostAt(q)' /\ WatchedAt(q)' /\ OutAt(q)'
  <2>1. \A j \in Tracks : j # psignal[p] /\ j <= installed =>
            /\ mon'[j] = mon[j] /\ signal'[j] = signal[j] /\ target'[j] = target[j]
            /\ ends'[j] = ends[j] /\ (j \in silent => j \in silent')
            /\ (j \in aborted' => j \in aborted)
    BY <1>3, <1>5, <1>7
  <2>2. \A q \in Players : q # p => /\ holder'[q] = holder[q] /\ track'[q] = track[q]
                                    /\ info'[q] = info[q] /\ handle'[q] = handle[q]
                                    /\ task'[q] = task[q]
    BY <1>4, <1>5, <1>6, <1>7
  <2> QED BY <1>1, <1>2, <1>4, <1>5, <2>1, <2>2, OthersKept
<1>14. NewAt(w)' /\ ReplacedAt(w)' /\ GhostAt(p)' /\ WatchedAt(p)' /\ OutAt(p)'
  <2>1. NewAt(w)' /\ ReplacedAt(w)'
    BY <1>4 DEF NewAt, ReplacedAt
  <2>2. GhostAt(p)'
    BY <1>6, NothingApart DEF GhostAt
  <2>3. WatchedAt(p)'
    BY <1>3, <1>5, <1>6, <1>7 DEF WatchedAt, Monitoring
  <2>4. OutAt(p)'
    <3>1. OutAt(p)
      BY PartsSplit
    <3> QED BY <1>1, <1>2, <1>5, <3>1 DEF OutAt, Reported
  <2> QED BY <2>1, <2>2, <2>3, <2>4
<1>15. ASSUME NEW j \in Tracks PROVE LeftAt(j)' /\ OverAt(j)'
  <2>1. LeftAt(j) /\ OverAt(j)
    BY PartsSplit
  <2>2. LeftAt(j)'
    BY <1>3, <1>5, <1>6, <1>7, <2>1, NothingApart DEF LeftAt
  <2>3. Reported(j, EndReasons)' => Reported(j, EndReasons) /\ j # n
    BY <1>3, <1>5, <2>1 DEF OverAt, Reported
  <2>4. OverAt(j)'
    BY <1>5, <1>7, <2>1, <2>3 DEF OverAt
  <2> QED BY <2>2, <2>4
<1>16. ResolvingIsNew' /\ ShownIsWatched' /\ LeftIsReported' /\ ReportedLeaves'
  BY <1>8, <1>13, <1>14, <1>15, PartsJoined
<1>17. DownIsQuiet'
  <2>1. op[w].kind \in KindsAt("resolve")
    BY <1>1 DEF RequestsInShape
  <2>2. ~down
    BY <2>1 DEF DownIsQuiet, KindsAt
  <2> QED BY <1>4, <2>2 DEF DownIsQuiet
<1> QED BY <1>4, <1>8, <1>9, <1>10, <1>11, <1>12, <1>16, <1>17

\* stop_player, its first half: from here on the track's monitor heeds a signal,
\* which ShownIsWatched allows to a request at its cleanup.
LEMMA StopPlayerInv ==
  ASSUME TrackInv, NEW w \in Workers, StopPlayer(w)
  PROVE  TrackInv'
<1> USE DEF TrackInv, PlayerInv, playerVars, monVars, eventVars
<1>0. PlayerTypeOK
  OBVIOUS
<1>1. Locks(w) /\ pc[w] = "apply" /\ op[w].kind = "stop"
  BY DEF Locks, StopPlayer
<1>2. PICK p \in Players : p = ctx[w] /\ holder[p] = w /\ w # Free
  BY <1>1, LockHeld
<1>3. /\ Goto(w, "cleanup")
      /\ UNCHANGED <<mapped, created, holder, track, info, handle, task, psignal, paused,
                     installed, decodable, decoder, mon, target, reason, aborted, started,
                     ends, silent>>
  BY DEF StopPlayer
<1>4. /\ pc' \in [Workers -> Steps] /\ pc'[w] = "cleanup"
      /\ op' = op /\ ctx' = ctx /\ seen' = seen /\ served' = served /\ down' = down
      /\ \A v \in Workers : v # w => pc'[v] = pc[v]
      /\ RequestsInShape' /\ RequestPerTrack'
  BY <1>1, <1>3, GotoShape DEF Steps
<1>5. /\ signal' \in [Tracks -> BOOLEAN] /\ hstate' \in [Tracks -> States]
      /\ \A j \in Tracks : j # psignal[p] => signal'[j] = signal[j]
      /\ \A j \in Tracks : signal[j] => signal'[j]
  <2>1. signal' = [j \in Tracks |-> signal[j] \/ (handle[p] # Nothing /\ j = psignal[p])]
    BY <1>2 DEF StopPlayer
  <2>2. \A j \in Tracks : signal[j] \in BOOLEAN
    BY <1>0 DEF PlayerTypeOK
  <2>3. hstate' \in [Tracks -> States]
    BY <1>0 DEF StopPlayer, PlayerTypeOK, States
  <2> QED BY <2>1, <2>2, <2>3
<1>6. PlayerTypeOK'
  BY <1>0, <1>3, <1>4, <1>5 DEF PlayerTypeOK
<1>7. MonitorIsReachable' /\ OneTrackPerPlayer' /\ TargetIsPlayer' /\ DownIsQuiet'
  BY <1>3, <1>4, <1>5 DEF MonitorIsReachable, OneTrackPerPlayer, TargetIsPlayer, DownIsQuiet
<1>8. FreshIsUntouched'
  <2>1. psignal[p] \in {Nothing} \cup Tracks /\ psignal[p] <= installed
    BY OwnTrack
  <2>2. \A j \in Tracks : j > installed => j # psignal[p]
    BY <1>0, <2>1 DEF PlayerTypeOK, Tracks, Nothing
  <2>3. \A j \in Tracks : j > installed => ~signal'[j]
    BY <1>5, <2>2 DEF FreshIsUntouched
  <2> QED BY <1>3, <1>4, <2>3 DEF FreshIsUntouched
<1>9. /\ \A v \in Workers : v # w => NewAt(v)' /\ ReplacedAt(v)'
      /\ \A q \in Players : q # p => GhostAt(q)' /\ WatchedAt(q)' /\ OutAt(q)'
  BY <1>1, <1>2, <1>3, <1>4, <1>5, OthersKept
<1>10. NewAt(w)' /\ ReplacedAt(w)' /\ GhostAt(p)' /\ WatchedAt(p)' /\ OutAt(p)'
  <2>1. NewAt(w)' /\ ReplacedAt(w)' /\ WatchedAt(p)'
    BY <1>2, <1>3, <1>4 DEF NewAt, ReplacedAt, WatchedAt
  <2>2. GhostAt(p) /\ OutAt(p)
    BY PartsSplit
  <2>3. GhostAt(p)' /\ OutAt(p)'
    BY <1>1, <1>2, <1>3, <2>2 DEF GhostAt, OutAt, Reported
  <2> QED BY <2>1, <2>3
<1>11. \A j \in Tracks : LeftAt(j)' /\ OverAt(j)'
  BY <1>3, PartsSplit DEF LeftAt, OverAt, Reported
<1>12. ResolvingIsNew' /\ ShownIsWatched' /\ LeftIsReported' /\ ReportedLeaves'
  BY <1>6, <1>9, <1>10, <1>11, PartsJoined
<1>13. TakenOutOnce'
  BY <1>3 DEF TakenOutOnce, ReportedOnce
<1> QED BY <1>4, <1>6, <1>7, <1>8, <1>12, <1>13

\* stop_player, its second half: the track was in the player, so no request had
\* reported it.
LEMMA ReportStoppedInv ==
  ASSUME TrackInv, NEW w \in Workers, ReportStopped(w)
  PROVE  TrackInv'
<1> USE DEF TrackInv, PlayerInv, trackVars, monVars
<1>0. PlayerTypeOK
  OBVIOUS
<1>1. Locks(w) /\ pc[w] = "cleanup" /\ op[w].kind = "stop" /\ Release(w)
  BY DEF Locks, ReportStopped
<1>2. PICK p \in Players : p = ctx[w] /\ holder[p] = w /\ w # Free
  BY <1>1, LockHeld
<1>3. /\ holder' \in [Players -> Workers \cup {Free}] /\ pc' \in [Workers -> Steps]
      /\ op' \in [Workers -> Ops \cup {NoOp}] /\ ctx' \in [Workers -> {Nothing} \cup Players]
      /\ seen' = seen /\ served' = served /\ down' = down
      /\ holder'[p] = Free
      /\ \A q \in Players : q # p => holder'[q] = holder[q] /\ holder[q] # w
      /\ pc'[w] = "idle" /\ op'[w].kind = "none" /\ ctx'[w] = Nothing
      /\ \A v \in Workers : v # w => pc'[v] = pc[v] /\ op'[v] = op[v] /\ ctx'[v] = ctx[v]
      /\ \A q \in Players : q > created => holder'[q] = Free
      /\ \A v \in Workers : ctx'[v] <= created
      /\ RequestsInShape' /\ RequestPerTrack'
  BY <1>1, <1>2, ReleaseShape DEF ReportStopped, trackVars
<1>4. UNCHANGED <<mapped, created, task, psignal, paused, installed, decodable, hstate, decoder,
                  signal, mon, target, reason, aborted, started, silent>>
  BY DEF ReportStopped
<1>5. /\ track' \in [Players -> {Nothing} \cup Tracks] /\ track'[p] = Nothing
      /\ info' \in [Players -> BOOLEAN] /\ info'[p] = FALSE
      /\ handle' \in [Players -> {Nothing} \cup Tracks] /\ handle'[p] = Nothing
      /\ \A q \in Players : q # p =>
            track'[q] = track[q] /\ info'[q] = info[q] /\ handle'[q] = handle[q]
  BY <1>0, <1>2 DEF ReportStopped, PlayerTypeOK
<1>6. PICK i \in {Nothing} \cup Tracks : i = track[p] /\ SendEnd(i, "Stopped")
  BY <1>0, <1>2 DEF ReportStopped, PlayerTypeOK
<1>7. i \in {Nothing, psignal[p]} /\ handle[p] \in {Nothing, i} /\ psignal[p] <= installed
  BY <1>6, OwnTrack
<1>8. i # Nothing => ~Reported(i, OutReasons)
  <2>1. OutAt(p)
    BY PartsSplit
  <2> QED BY <1>1, <1>2, <1>6, <2>1 DEF OutAt
<1>9. /\ ends' \in [Tracks -> Seq(Reasons)] /\ (i # Nothing => ends'[i] # <<>>)
      /\ \A j \in Tracks : /\ j # i => ends'[j] = ends[j]
                           /\ ends[j] # <<>> => ends'[j] # <<>>
                           /\ Reported(j, EndReasons)' => Reported(j, EndReasons)
                           /\ ReportedOnce(j, EndReasons) => ReportedOnce(j, EndReasons)'
                           /\ ReportedOnce(j, OutReasons) => ReportedOnce(j, OutReasons)'
  <2>1. "Stopped" \in Reasons /\ "Stopped" \notin EndReasons
    BY DEF Reasons, EndReasons
  <2> QED BY <1>6, <1>8, <2>1, EndsGrow, NothingApart
<1>10. PlayerTypeOK'
  BY <1>0, <1>3, <1>4, <1>5, <1>9 DEF PlayerTypeOK, Reasons
<1>11. MonitorIsReachable' /\ TargetIsPlayer'
  BY <1>4 DEF MonitorIsReachable, TargetIsPlayer
<1>12. OneTrackPerPlayer'
  BY <1>4, <1>5 DEF OneTrackPerPlayer
<1>13. FreshIsUntouched'
  <2>1. \A j \in Tracks : j > installed => j # i
    BY <1>0, <1>6, <1>7 DEF PlayerTypeOK, Tracks, Nothing
  <2>2. \A j \in Tracks : j > installed => ends'[j] = <<>>
    BY <1>9, <2>1 DEF FreshIsUntouched
  <2> QED BY <1>3, <1>4, <2>2 DEF FreshIsUntouched
<1>14. /\ \A v \in Workers : v # w => NewAt(v)' /\ ReplacedAt(v)'
       /\ \A q \in Players : q # p => GhostAt(q)' /\ WatchedAt(q)' /\ OutAt(q)'
  <2>1. \A j \in Tracks : j # psignal[p] => ends'[j] = ends[j]
    BY <1>7, <1>9, NothingApart
  <2> QED BY <1>1, <1>2, <1>3, <1>4, <1>5, <2>1, OthersKept
<1>15. NewAt(w)' /\ ReplacedAt(w)' /\ GhostAt(p)' /\ WatchedAt(p)' /\ OutAt(p)'
  BY <1>3, <1>5 DEF NewAt, ReplacedAt, GhostAt, WatchedAt, OutAt
<1>16. ASSUME NEW j \in Tracks PROVE LeftAt(j)' /\ OverAt(j)'
  <2>1. LeftAt(j) /\ OverAt(j)
    BY PartsSplit
  <2>2. CASE handle[p] = j
    <3>1. ends'[j] # <<>>
      BY <1>7, <1>9, <2>2, NothingApart
    <3> QED BY <1>4, <1>5, <1>9, <2>1, <3>1, NothingApart DEF LeftAt, OverAt
  <2>3. CASE handle[p] # j
    <3>1. LeftAt(j)'
      BY <1>4, <1>5, <1>9, <2>1, <2>3 DEF LeftAt
    <3> QED BY <1>4, <1>5, <1>9, <2>1, <3>1, NothingApart DEF OverAt
  <2> QED BY <2>2, <2>3
<1>17. ResolvingIsNew' /\ ShownIsWatched' /\ LeftIsReported' /\ ReportedLeaves'
  BY <1>10, <1>14, <1>15, <1>16, PartsJoined
<1>18. DownIsQuiet'
  BY <1>3, <1>4 DEF DownIsQuiet
<1>19. TakenOutOnce'
  BY <1>9 DEF TakenOutOnce
<1> QED BY <1>3, <1>10, <1>11, <1>12, <1>13, <1>17, <1>18, <1>19

\* stop_track, its first half.
LEMMA StopTrackInv ==
  ASSUME TrackInv, NEW w \in Workers, StopTrack(w)
  PROVE  TrackInv'
<1> USE DEF TrackInv, PlayerInv, monVars, requestVars
<1>0. PlayerTypeOK
  OBVIOUS
<1>1. Locks(w) /\ pc[w] = "halting"
  BY DEF Locks, StopTrack
<1>2. PICK p \in Players : p = ctx[w] /\ holder[p] = w /\ w # Free
  BY <1>1, LockHeld
<1>3. UNCHANGED <<mapped, created, holder, task, psignal, paused, installed, decodable, decoder,
                  signal, mon, target, reason, aborted, started, ends, pc, op, ctx, seen,
                  served, down>>
  BY DEF StopTrack
<1>4. /\ track' \in [Players -> {Nothing} \cup Tracks] /\ track'[p] = Nothing
      /\ info' \in [Players -> BOOLEAN] /\ info'[p] = FALSE
      /\ handle' \in [Players -> {Nothing} \cup Tracks] /\ handle'[p] = Nothing
      /\ \A q \in Players : q # p =>
            track'[q] = track[q] /\ info'[q] = info[q] /\ handle'[q] = handle[q]
  BY <1>0, <1>2 DEF StopTrack, PlayerTypeOK
<1>5. /\ silent' \in SUBSET Tracks /\ silent \subseteq silent'
      /\ handle[p] # Nothing => handle[p] \in silent'
      /\ hstate' \in [Tracks -> States]
  BY <1>0, <1>2 DEF StopTrack, PlayerTypeOK, States
<1>6. PlayerTypeOK'
  BY <1>0, <1>3, <1>4, <1>5 DEF PlayerTypeOK
<1>7. MonitorIsReachable' /\ FreshIsUntouched' /\ TargetIsPlayer' /\ DownIsQuiet'
  BY <1>3 DEF MonitorIsReachable, FreshIsUntouched, TargetIsPlayer, DownIsQuiet
<1>8. OneTrackPerPlayer'
  BY <1>3, <1>4 DEF OneTrackPerPlayer
<1>9. RequestsInShape'
  BY <1>3 DEF RequestsInShape, Locks
<1>10. RequestPerTrack'
  BY <1>3 DEF RequestPerTrack, Starting
<1>11. /\ \A v \in Workers : v # w => NewAt(v)' /\ ReplacedAt(v)'
       /\ \A q \in Players : q # p => GhostAt(q)' /\ WatchedAt(q)' /\ OutAt(q)'
  BY <1>1, <1>2, <1>3, <1>4, <1>5, OthersKept
<1>12. NewAt(w)' /\ ReplacedAt(w)' /\ GhostAt(p)' /\ WatchedAt(p)' /\ OutAt(p)'
  BY <1>1, <1>3, <1>4 DEF NewAt, ReplacedAt, GhostAt, WatchedAt, OutAt
<1>13. ASSUME NEW j \in Tracks PROVE LeftAt(j)' /\ OverAt(j)'
  <2>1. LeftAt(j) /\ OverAt(j)
    BY PartsSplit
  <2>2. LeftAt(j)'
    BY <1>3, <1>4, <1>5, <2>1, NothingApart DEF LeftAt
  <2>3. OverAt(j)'
    BY <1>3, <1>4, <2>1, NothingApart DEF OverAt, Reported
  <2> QED BY <2>2, <2>3
<1>14. ResolvingIsNew' /\ ShownIsWatched' /\ LeftIsReported' /\ ReportedLeaves'
  BY <1>6, <1>11, <1>12, <1>13, PartsJoined
<1>15. TakenOutOnce'
  BY <1>3 DEF TakenOutOnce, ReportedOnce
<1> QED BY <1>6, <1>7, <1>8, <1>9, <1>10, <1>14, <1>15

\* stop_track, its second half: as in Install, the signal is set with the abort.
LEMMA AbortTrackInv ==
  ASSUME TrackInv, NEW w \in Workers, AbortTrack(w)
  PROVE  TrackInv'
<1> USE DEF TrackInv, PlayerInv, eventVars
<1>0. PlayerTypeOK
  OBVIOUS
<1>1. Locks(w) /\ pc[w] = "halting" /\ Release(w)
  BY DEF Locks, AbortTrack
<1>2. PICK p \in Players : p = ctx[w] /\ holder[p] = w /\ w # Free
  BY <1>1, LockHeld
<1>3. /\ holder' \in [Players -> Workers \cup {Free}] /\ pc' \in [Workers -> Steps]
      /\ op' \in [Workers -> Ops \cup {NoOp}] /\ ctx' \in [Workers -> {Nothing} \cup Players]
      /\ seen' = seen /\ served' = served /\ down' = down
      /\ holder'[p] = Free
      /\ \A q \in Players : q # p => holder'[q] = holder[q] /\ holder[q] # w
      /\ pc'[w] = "idle" /\ op'[w].kind = "none" /\ ctx'[w] = Nothing
      /\ \A v \in Workers : v # w => pc'[v] = pc[v] /\ op'[v] = op[v] /\ ctx'[v] = ctx[v]
      /\ \A q \in Players : q > created => holder'[q] = Free
      /\ \A v \in Workers : ctx'[v] <= created
      /\ RequestsInShape' /\ RequestPerTrack'
  BY <1>1, <1>2, ReleaseShape DEF AbortTrack
<1>4. /\ handle[p] = Nothing /\ track[p] = Nothing
      /\ UNCHANGED <<mapped, created, track, info, handle, psignal, paused, installed, decodable,
                     hstate, decoder, target, reason, started, ends, silent>>
  BY <1>2 DEF AbortTrack
<1>5. PICK o \in {Nothing} \cup Tracks : o = psignal[p]
  BY <1>0 DEF PlayerTypeOK
<1>6. /\ task' \in [Players -> {Nothing} \cup Tracks] /\ task'[p] = Nothing
      /\ \A q \in Players : q # p => task'[q] = task[q]
  BY <1>0, <1>2 DEF AbortTrack, PlayerTypeOK
<1>7. /\ signal' \in [Tracks -> BOOLEAN]
      /\ \A j \in Tracks : j # o => signal'[j] = signal[j]
      /\ o # Nothing => signal'[o]
      /\ \A j \in Tracks : signal[j] => signal'[j]
  <2>1. signal' = [j \in Tracks |-> signal[j] \/ j = o]
    BY <1>2, <1>5 DEF AbortTrack
  <2>2. \A j \in Tracks : signal[j] \in BOOLEAN
    BY <1>0 DEF PlayerTypeOK
  <2> QED BY <2>1, <2>2
<1>8. /\ mon' \in [Tracks -> {"none", "done"} \cup Monitoring]
      /\ aborted' \in SUBSET Tracks
      /\ \A j \in Tracks : \/ mon'[j] = mon[j]
                           \/ (j = o /\ mon[j] \in {"tick", "parked"} /\ mon'[j] = "done")
      /\ \A j \in Tracks : j \in aborted => j \in aborted'
      /\ \A j \in Tracks : j \in aborted' => j \in aborted \/ (j = o /\ mon[j] \in Monitoring)
  <2> DEFINE is == {task[p]} \cap Tracks
  <2>1. Abort(is) /\ is \in SUBSET Tracks
    BY <1>2 DEF AbortTrack
  <2>2. \A j \in is : j = o
    BY <1>5, OwnTrack, NothingApart
  <2> HIDE DEF is
  <2> QED BY <2>1, <2>2, Aborted
<1>9. PlayerTypeOK'
  BY <1>0, <1>3, <1>4, <1>6, <1>7, <1>8 DEF PlayerTypeOK
<1>10. MonitorIsReachable'
  <2> SUFFICES ASSUME NEW j \in Tracks, mon'[j] \in Monitoring, ~signal'[j]
               PROVE  \E q \in Players : task'[q] = j
    BY DEF MonitorIsReachable
  <2>1. mon[j] \in Monitoring /\ ~signal[j] /\ j # o
    BY <1>7, <1>8, NothingApart DEF Monitoring
  <2>2. PICK q \in Players : task[q] = j
    BY <2>1 DEF MonitorIsReachable
  <2>3. q # p
    BY <1>5, <2>1, <2>2, OwnTrack, NothingApart
  <2> QED BY <1>6, <2>2, <2>3
<1>11. OneTrackPerPlayer'
  BY <1>4, <1>6 DEF OneTrackPerPlayer
<1>12. FreshIsUntouched'
  <2>1. psignal[p] <= installed
    BY OwnTrack
  <2>2. \A j \in Tracks : j > installed => j # o
    BY <1>0, <1>5, <2>1 DEF PlayerTypeOK, Tracks, Nothing
  <2>3. \A j \in Tracks : /\ j > installed => mon'[j] = "none" /\ ~signal'[j]
                          /\ j \in aborted' => mon'[j] # "none"
    BY <1>7, <1>8, <2>2 DEF FreshIsUntouched, Monitoring
  <2> QED BY <1>3, <1>4, <2>3 DEF FreshIsUntouched
<1>13. TargetIsPlayer' /\ TakenOutOnce'
  <2>1. TargetIsPlayer'
    BY <1>4, <1>8 DEF TargetIsPlayer
  <2>2. TakenOutOnce'
    BY <1>4 DEF TakenOutOnce, ReportedOnce
  <2> QED BY <2>1, <2>2
<1>14. /\ \A v \in Workers : v # w => NewAt(v)' /\ ReplacedAt(v)'
       /\ \A q \in Players : q # p => GhostAt(q)' /\ WatchedAt(q)' /\ OutAt(q)'
  <2>1. \A j \in Tracks : j # psignal[p] =>
           mon'[j] = mon[j] /\ signal'[j] = signal[j] /\ (j \in aborted' => j \in aborted)
    BY <1>5, <1>7, <1>8
  <2> QED BY <1>1, <1>2, <1>3, <1>4, <1>6, <2>1, OthersKept
<1>15. NewAt(w)' /\ ReplacedAt(w)' /\ GhostAt(p)' /\ WatchedAt(p)' /\ OutAt(p)'
  <2>1. NewAt(w)' /\ ReplacedAt(w)' /\ WatchedAt(p)' /\ OutAt(p)'
    BY <1>3, <1>4 DEF NewAt, ReplacedAt, WatchedAt, OutAt
  <2>2. ~info[p]
    BY <1>4 DEF OneTrackPerPlayer
  <2> QED BY <1>4, <2>1, <2>2 DEF GhostAt
<1>16. ASSUME NEW j \in Tracks PROVE LeftAt(j)' /\ OverAt(j)'
  <2>1. LeftAt(j) /\ OverAt(j)
    BY PartsSplit
  <2>2. LeftAt(j)'
    BY <1>4, <1>8, <2>1 DEF LeftAt
  <2>3. OverAt(j)'
    BY <1>4, <1>8, <2>1 DEF OverAt, Reported
  <2> QED BY <2>2, <2>3
<1>17. ResolvingIsNew' /\ ShownIsWatched' /\ LeftIsReported' /\ ReportedLeaves'
  BY <1>9, <1>14, <1>15, <1>16, PartsJoined
<1>18. DownIsQuiet'
  BY <1>3, <1>8 DEF DownIsQuiet, Monitoring
<1> QED BY <1>3, <1>9, <1>10, <1>11, <1>12, <1>13, <1>17, <1>18

-----------------------------------------------------------------------------
(***************************************************************************)
(* The requests outside the locks.                                         *)
(***************************************************************************)

\* A request without a lock comes to a step without a lock.  It touches no
\* context; it may put a new one into the map or take one out, send a TrackEnd
\* Cleanup, and, as the shutdown, abort every monitor.
LEMMA OutsideInv ==
  ASSUME TrackInv, NEW w \in Workers, ~Locks(w), ~Locks(w)',
         UNCHANGED <<holder, track, info, handle, task, psignal, paused, installed, decodable,
                     hstate, decoder, signal, target, reason, started, silent>>,
         pc' \in [Workers -> Steps], op' \in [Workers -> Ops \cup {NoOp}],
         ctx' \in [Workers -> {Nothing} \cup Players], seen' \in [Workers -> {Nothing} \cup Tracks],
         \A v \in Workers : v # w => /\ pc'[v] = pc[v] /\ op'[v] = op[v]
                                     /\ ctx'[v] = ctx[v] /\ seen'[v] = seen[v],
         pc'[w] \in {"lock", "reading"} => ctx'[w] # Nothing,
         pc'[w] = "idle" => ctx'[w] = Nothing,
         op'[w].kind \in KindsAt(pc'[w]),
         created' \in 0 .. MaxPlayers, created <= created', ctx'[w] <= created',
         mapped' \in {Nothing} \cup Players, mapped' <= created',
         mapped' = mapped \/ mapped' = Nothing \/ mapped' > created,
         seen'[w] <= installed,
         served' \in 0 .. MaxOps,
         served' = served + 1 \/ (served' = served /\ w \notin Starting'),
         NEW k \in {Nothing} \cup Tracks, k <= installed, SendEnd(k, "Cleanup"),
         down' \in BOOLEAN,
         \/ UNCHANGED <<mon, aborted, down>>
         \/ down' /\ Abort(Tracks),
         down' => \A v \in Workers : op'[v].kind \in {"none", "delete", "shutdown"}
  PROVE  TrackInv'
<1> USE DEF TrackInv, PlayerInv
<1>0. PlayerTypeOK
  OBVIOUS
<1>1. \A q \in Players : holder[q] # w
  BY NothingApart DEF RequestsInShape
<1>2. /\ mon' \in [Tracks -> {"none", "done"} \cup Monitoring]
      /\ aborted' \in SUBSET Tracks
      /\ \A j \in Tracks : \/ mon'[j] = mon[j]
                           \/ (mon[j] \in {"tick", "parked"} /\ mon'[j] = "done")
      /\ \A j \in Tracks : j \in aborted' => j \in aborted \/ mon[j] \in Monitoring
  <2>1. CASE UNCHANGED <<mon, aborted, down>>
    BY <1>0, <2>1 DEF PlayerTypeOK
  <2>2. CASE Abort(Tracks)
    <3> DEFINE is == Tracks
    <3>1. is \in SUBSET Tracks /\ Abort(is)
      BY <2>2
    <3> HIDE DEF is
    <3> QED BY <3>1, Aborted
  <2> QED BY <2>1, <2>2
<1>3. /\ ends' \in [Tracks -> Seq(Reasons)]
      /\ \A j \in Tracks : /\ j # k => ends'[j] = ends[j]
                           /\ ends[j] # <<>> => ends'[j] # <<>>
                           /\ Reported(j, EndReasons)' => Reported(j, EndReasons)
                           /\ Reported(j, OutReasons)' => Reported(j, OutReasons)
                           /\ ReportedOnce(j, EndReasons) => ReportedOnce(j, EndReasons)'
                           /\ ReportedOnce(j, OutReasons) => ReportedOnce(j, OutReasons)'
  <2>1. "Cleanup" \in Reasons /\ "Cleanup" \notin EndReasons /\ "Cleanup" \notin OutReasons
    BY DEF Reasons, EndReasons, OutReasons
  <2> QED BY <2>1, EndsGrow
<1>4. PlayerTypeOK'
  BY <1>0, <1>2, <1>3 DEF PlayerTypeOK, Reasons
<1>5. MonitorIsReachable' /\ TargetIsPlayer'
  BY <1>2 DEF MonitorIsReachable, TargetIsPlayer, Monitoring
<1>6. OneTrackPerPlayer'
  BY DEF OneTrackPerPlayer
<1>7. FreshIsUntouched'
  <2>1. ASSUME NEW j \in Tracks, j > installed
        PROVE  mon'[j] = "none" /\ ~signal[j] /\ ends'[j] = <<>> /\ j \notin started
    <3>1. mon[j] = "none" /\ ~signal[j] /\ ends[j] = <<>> /\ j \notin started
      BY <2>1 DEF FreshIsUntouched
    <3>2. j # k
      BY <1>0, <2>1 DEF PlayerTypeOK, Tracks, Nothing
    <3> QED BY <1>2, <1>3, <3>1, <3>2
  <2>2. \A j \in Tracks : j \in aborted' => mon'[j] # "none"
    BY <1>2 DEF FreshIsUntouched, Monitoring
  <2>3. \A q \in Players : q > created' => q > created
    BY <1>0, PlayerAssumption DEF PlayerTypeOK, Players
  <2>4. \A v \in Workers : ctx'[v] <= created' /\ seen'[v] <= installed
    <3>1. \A v \in Workers : ctx[v] \in Nat /\ ctx[v] <= created /\ seen[v] <= installed
      BY <1>0, PlayerAssumption DEF PlayerTypeOK, FreshIsUntouched, Players, Nothing
    <3>2. created \in Nat /\ created' \in Nat
      BY <1>0, PlayerAssumption DEF PlayerTypeOK
    <3> QED BY <3>1, <3>2
  <2> QED BY <2>1, <2>2, <2>3, <2>4 DEF FreshIsUntouched
<1>8. RequestsInShape'
  <2>1. holder' \in [Players -> Workers \cup {Free}]
    BY <1>0 DEF PlayerTypeOK
  <2>2. \A q \in Players : holder'[q] = holder[q] /\ holder'[q] # w
    BY <1>1
  <2> QED BY <2>1, <2>2, ShapeKept
<1>9. RequestPerTrack'
  <2>0. /\ Starting \in SUBSET Workers /\ installed \in Nat /\ served \in Nat
        /\ installed + Cardinality(Starting) <= served
    BY <1>0, PlayerAssumption DEF Starting, PlayerTypeOK, RequestPerTrack
  <2>1. \A v \in Workers : v # w => (v \in Starting' <=> v \in Starting)
    BY DEF Starting
  <2>2. CASE served' = served + 1
    <3>1. Starting' \in SUBSET (Starting \cup {w})
      BY <2>1 DEF Starting
    <3>2. /\ Cardinality(Starting) \in Nat /\ Cardinality(Starting') \in Nat
          /\ Cardinality(Starting') <= Cardinality(Starting) + 1
      BY <2>0, <3>1, WorkerJoins
    <3> QED BY <2>0, <2>2, <3>2 DEF RequestPerTrack
  <2>3. CASE served' = served /\ w \notin Starting'
    <3>1. Starting' \in SUBSET Starting
      BY <2>1, <2>3 DEF Starting
    <3>2. /\ Cardinality(Starting) \in Nat /\ Cardinality(Starting') \in Nat
          /\ Cardinality(Starting') <= Cardinality(Starting)
      BY <2>0, <3>1, WorkersCount
    <3> QED BY <2>0, <2>3, <3>2 DEF RequestPerTrack
  <2> QED BY <2>2, <2>3
<1>10. ASSUME NEW v \in Workers PROVE NewAt(v)' /\ ReplacedAt(v)'
  <2>1. CASE v = w
    BY <2>1 DEF NewAt, ReplacedAt, Locks
  <2>2. CASE v # w
    <3>1. NewAt(v) /\ ReplacedAt(v)
      BY PartsSplit
    <3>2. pc[v] \in {"resolve", "install"} => ctx[v] \in Players
      BY LockHeld DEF Locks
    <3>3. NewAt(v)'
      <4>1. pc[v] = "resolve" => track[ctx[v]] \in Tracks
        BY <1>0, <3>1, <3>2 DEF PlayerTypeOK, NewAt
      <4> QED BY <1>2, <2>2, <3>1, <4>1 DEF NewAt
    <3>4. ReplacedAt(v)'
      <4>1. pc[v] = "install" => handle[ctx[v]] \in {Nothing} \cup Tracks
        BY <1>0, <3>2 DEF PlayerTypeOK
      <4> QED BY <1>3, <2>2, <3>1, <4>1 DEF ReplacedAt
    <3> QED BY <3>3, <3>4
  <2> QED BY <2>1, <2>2
<1>11. ASSUME NEW q \in Players PROVE GhostAt(q)' /\ WatchedAt(q)' /\ OutAt(q)'
  <2>1. GhostAt(q) /\ WatchedAt(q) /\ OutAt(q)
    BY PartsSplit
  <2>2. holder[q] # Free => holder[q] \in Workers /\ pc'[holder[q]] = pc[holder[q]]
    BY <1>0, <1>1 DEF PlayerTypeOK
  <2>3. GhostAt(q)'
    BY <2>1, <2>2 DEF GhostAt
  <2>4. OutAt(q)'
    <3>1. track[q] # Nothing => track[q] \in Tracks
      BY <1>0 DEF PlayerTypeOK
    <3> QED BY <1>3, <2>1, <2>2, <3>1 DEF OutAt
  <2>5. WatchedAt(q)'
    <3> SUFFICES ASSUME q = mapped', ~down', handle[q] # Nothing, info[q],
                        holder[q] # Free => pc[holder[q]] # "cleanup"
                 PROVE  /\ task[q] = handle[q] /\ handle[q] \notin aborted'
                        /\ mon'[handle[q]] \in Monitoring \ {"sending"}
                        /\ IF mon'[handle[q]] \in {"locking", "parked"}
                             THEN target[handle[q]] = q ELSE ~signal[handle[q]]
      BY <2>2 DEF WatchedAt
    <3>1. UNCHANGED <<mon, aborted, down>>
      OBVIOUS
    <3>2. ~(q > created)
      BY OwnTrack DEF FreshIsUntouched
    <3>3. q = mapped
      BY <3>2, NothingApart
    <3> QED BY <2>1, <3>1, <3>3 DEF WatchedAt
  <2> QED BY <2>3, <2>4, <2>5
<1>12. ASSUME NEW j \in Tracks PROVE LeftAt(j)' /\ OverAt(j)'
  <2>1. LeftAt(j) /\ OverAt(j)
    BY PartsSplit
  <2>2. LeftAt(j)'
    BY <1>2, <1>3, <2>1 DEF LeftAt
  <2>3. OverAt(j)'
    BY <1>2, <1>3, <2>1 DEF OverAt
  <2> QED BY <2>2, <2>3
<1>13. ResolvingIsNew' /\ ShownIsWatched' /\ LeftIsReported' /\ ReportedLeaves'
  BY <1>4, <1>10, <1>11, <1>12, PartsJoined
<1>14. DownIsQuiet'
  <2>1. CASE UNCHANGED <<mon, aborted, down>>
    BY <2>1 DEF DownIsQuiet
  <2>2. CASE Abort(Tracks)
    <3> DEFINE is == Tracks
    <3>1. is \in SUBSET Tracks /\ Abort(is)
      BY <2>2
    <3> HIDE DEF is
    <3>2. \A j \in is : mon'[j] \in Monitoring => j \in aborted' /\ mon'[j] \notin {"tick", "parked"}
      BY <3>1, Aborted
    <3> QED BY <3>2 DEF is, DownIsQuiet
  <2> QED BY <2>1, <2>2
<1>15. TakenOutOnce'
  BY <1>3 DEF TakenOutOnce
<1> QED BY <1>4, <1>5, <1>6, <1>7, <1>8, <1>9, <1>13, <1>14, <1>15

\* DELETE reads the track under a read lock that it drops at once.
LEMMA ReadTrackInv ==
  ASSUME TrackInv, NEW w \in Workers, ReadTrack(w)
  PROVE  TrackInv'
<1> USE DEF playerVars, trackVars, monVars, eventVars
<1>0. PlayerTypeOK
  BY DEF TrackInv, PlayerInv
<1>1. PICK p \in Players : p = ctx[w]
  BY <1>0 DEF TrackInv, PlayerInv, RequestsInShape, PlayerTypeOK, ReadTrack
<1>2. op[w].kind \in KindsAt("reading") /\ pc[w] = "reading" /\ pc'[w] = "cleanup"
  BY <1>0 DEF TrackInv, PlayerInv, RequestsInShape, PlayerTypeOK, ReadTrack
<1>3. op[w].kind = "delete" /\ op[w].kind \in KindsAt("cleanup")
  BY <1>2 DEF KindsAt
<1>4. /\ UNCHANGED <<holder, track, info, handle, task, psignal, paused, installed, decodable,
                     hstate, decoder, signal, target, reason, started, silent>>
      /\ mapped' = mapped /\ created' = created /\ op' = op /\ ctx' = ctx
      /\ served' = served /\ down' = down
      /\ UNCHANGED <<mon, aborted, down>>
      /\ ends' = ends
  BY DEF ReadTrack
<1>5. ~Locks(w) /\ ~Locks(w)'
  BY <1>2, <1>3, <1>4 DEF Locks
<1>6. PICK i \in {Nothing} \cup Tracks : /\ i \in {Nothing, track[p]} /\ seen' = [seen EXCEPT ![w] = i]
  BY <1>0, <1>1 DEF ReadTrack, PlayerTypeOK
<1>7. i <= installed /\ Nothing <= installed
  <2>1. installed \in 0 .. MaxOps /\ MaxOps \in Nat
    BY <1>0, PlayerAssumption DEF PlayerTypeOK
  <2>2. Nothing <= installed
    BY <2>1 DEF Nothing
  <2>3. track[p] \in {Nothing, psignal[p]} /\ psignal[p] <= installed
    BY OwnTrack
  <2> QED BY <1>6, <2>2, <2>3
<1>8. /\ pc' \in [Workers -> Steps] /\ op' \in [Workers -> Ops \cup {NoOp}]
      /\ ctx' \in [Workers -> {Nothing} \cup Players] /\ seen' \in [Workers -> {Nothing} \cup Tracks]
      /\ \A v \in Workers : v # w => /\ pc'[v] = pc[v] /\ op'[v] = op[v]
                                     /\ ctx'[v] = ctx[v] /\ seen'[v] = seen[v]
      /\ seen'[w] = i
  BY <1>0, <1>4, <1>6 DEF ReadTrack, PlayerTypeOK, Steps
<1>9. SendEnd(Nothing, "Cleanup")
  BY <1>4 DEF SendEnd
<1>10. /\ created' \in 0 .. MaxPlayers /\ created <= created' /\ ctx'[w] <= created'
       /\ mapped' \in {Nothing} \cup Players /\ mapped' <= created'
       /\ served' \in 0 .. MaxOps /\ down' \in BOOLEAN
  BY <1>0, <1>4, PlayerAssumption DEF TrackInv, PlayerInv, PlayerTypeOK, FreshIsUntouched
<1>11. w \notin Starting'
  BY <1>2 DEF Starting
<1>12. down' => \A v \in Workers : op'[v].kind \in {"none", "delete", "shutdown"}
  BY <1>4 DEF TrackInv, PlayerInv, DownIsQuiet
<1>13. op'[w].kind \in KindsAt(pc'[w]) /\ pc'[w] \notin {"idle", "lock", "reading"}
  BY <1>2, <1>3, <1>4
<1>14. Nothing \in {Nothing} \cup Tracks
  OBVIOUS
<1> QED BY <1>4, <1>5, <1>7, <1>8, <1>9, <1>10, <1>11, <1>12, <1>13, <1>14, OutsideInv

\* DELETE reports the track that it saw, which may have left the player.
LEMMA ReportCleanupInv ==
  ASSUME TrackInv, NEW w \in Workers, ReportCleanup(w)
  PROVE  TrackInv'
<1> USE DEF playerVars, trackVars, monVars
<1>0. PlayerTypeOK
  BY DEF TrackInv, PlayerInv
<1>1. op[w].kind = "delete" /\ pc[w] = "cleanup" /\ pc'[w] = "remove"
      /\ op[w].kind \in KindsAt("remove")
  BY <1>0 DEF PlayerTypeOK, ReportCleanup, KindsAt
<1>2. /\ UNCHANGED <<holder, track, info, handle, task, psignal, paused, installed, decodable,
                     hstate, decoder, signal, target, reason, started, silent>>
      /\ mapped' = mapped /\ created' = created /\ op' = op /\ ctx' = ctx
      /\ served' = served /\ down' = down
      /\ UNCHANGED <<mon, aborted, down>>
  BY DEF ReportCleanup
<1>3. ~Locks(w) /\ ~Locks(w)'
  BY <1>1, <1>2 DEF Locks
<1>4. PICK k \in {Nothing} \cup Tracks : k = seen[w] /\ k <= installed /\ SendEnd(k, "Cleanup")
  BY <1>0 DEF ReportCleanup, PlayerTypeOK, TrackInv, PlayerInv, FreshIsUntouched
<1>5. Nothing <= installed
  BY <1>0, PlayerAssumption DEF PlayerTypeOK, Nothing
<1>6. /\ pc' \in [Workers -> Steps] /\ op' \in [Workers -> Ops \cup {NoOp}]
      /\ ctx' \in [Workers -> {Nothing} \cup Players] /\ seen' \in [Workers -> {Nothing} \cup Tracks]
      /\ \A v \in Workers : v # w => /\ pc'[v] = pc[v] /\ op'[v] = op[v]
                                     /\ ctx'[v] = ctx[v] /\ seen'[v] = seen[v]
      /\ seen'[w] = Nothing
  BY <1>0, <1>2 DEF ReportCleanup, PlayerTypeOK, Steps
<1>7. /\ created' \in 0 .. MaxPlayers /\ created <= created' /\ ctx'[w] <= created'
      /\ mapped' \in {Nothing} \cup Players /\ mapped' <= created'
      /\ served' \in 0 .. MaxOps /\ down' \in BOOLEAN
  BY <1>0, <1>2, PlayerAssumption DEF TrackInv, PlayerInv, PlayerTypeOK, FreshIsUntouched
<1>8. w \notin Starting'
  BY <1>1 DEF Starting
<1>9. down' => \A v \in Workers : op'[v].kind \in {"none", "delete", "shutdown"}
  BY <1>2 DEF TrackInv, PlayerInv, DownIsQuiet
<1>10. op'[w].kind \in KindsAt(pc'[w]) /\ pc'[w] \notin {"idle", "lock", "reading"}
  BY <1>1, <1>2
<1> QED BY <1>2, <1>3, <1>4, <1>5, <1>6, <1>7, <1>8, <1>9, <1>10, OutsideInv

\* destroy_player takes the context out of the map.
LEMMA RemovePlayerInv ==
  ASSUME TrackInv, NEW w \in Workers, RemovePlayer(w)
  PROVE  TrackInv'
<1> USE DEF trackVars, monVars, eventVars
<1>0. PlayerTypeOK
  BY DEF TrackInv, PlayerInv
<1>1. /\ UNCHANGED <<holder, track, info, handle, task, psignal, paused, installed, decodable,
                     hstate, decoder, signal, target, reason, started, silent>>
      /\ mapped' = Nothing /\ created' = created /\ seen' = seen
      /\ served' = served /\ down' = down
      /\ UNCHANGED <<mon, aborted, down>>
      /\ ends' = ends
  BY DEF RemovePlayer
<1>2. op[w].kind \in {"wsDestroy", "delete", "shutdown"} /\ pc[w] = "remove"
  <2>1. pc[w] = "remove" /\ op[w].kind \in KindsAt("remove")
    BY DEF RemovePlayer, TrackInv, PlayerInv, RequestsInShape
  <2> QED BY <2>1 DEF KindsAt
<1>3. /\ ctx'[w] = mapped
      /\ mapped = Nothing => pc'[w] = "idle" /\ op'[w] = NoOp
      /\ mapped # Nothing => pc'[w] = "lock" /\ op'[w] = op[w]
  BY <1>0 DEF RemovePlayer, PlayerTypeOK
<1>4. op'[w].kind \in KindsAt(pc'[w])
  BY <1>2, <1>3 DEF KindsAt, NoOp
<1>5. ~Locks(w) /\ ~Locks(w)'
  BY <1>2, <1>3 DEF Locks
<1>6. /\ pc' \in [Workers -> Steps]
      /\ ctx' \in [Workers -> {Nothing} \cup Players] /\ seen' \in [Workers -> {Nothing} \cup Tracks]
  BY <1>0, <1>1 DEF RemovePlayer, PlayerTypeOK, Steps
<1>7. op' \in [Workers -> Ops \cup {NoOp}]
  BY <1>0 DEF RemovePlayer, PlayerTypeOK
<1>8. \A v \in Workers : v # w => /\ pc'[v] = pc[v] /\ op'[v] = op[v]
                                  /\ ctx'[v] = ctx[v] /\ seen'[v] = seen[v]
  BY <1>0, <1>1 DEF RemovePlayer, PlayerTypeOK
<1>9. /\ created' \in 0 .. MaxPlayers /\ created <= created' /\ ctx'[w] <= created'
      /\ mapped' \in {Nothing} \cup Players /\ mapped' <= created' /\ Nothing <= installed
      /\ served' \in 0 .. MaxOps /\ down' \in BOOLEAN /\ seen'[w] <= installed
  BY <1>0, <1>1, <1>3, PlayerAssumption
     DEF TrackInv, PlayerInv, PlayerTypeOK, FreshIsUntouched, Nothing
<1>10. w \notin Starting'
  BY <1>2, <1>3 DEF Starting, NoOp
<1>11. down' => \A v \in Workers : op'[v].kind \in {"none", "delete", "shutdown"}
  <2>1. op'[w].kind \in {"none", op[w].kind}
    BY <1>3 DEF NoOp
  <2>2. down => \A v \in Workers : op[v].kind \in {"none", "delete", "shutdown"}
    BY DEF TrackInv, PlayerInv, DownIsQuiet
  <2>3. \A v \in Workers : op'[v].kind \in {"none", op[v].kind}
    BY <1>8, <2>1
  <2> QED BY <1>1, <2>2, <2>3
<1>12. SendEnd(Nothing, "Cleanup") /\ Nothing \in {Nothing} \cup Tracks
  BY <1>1 DEF SendEnd
<1> QED BY <1>1, <1>3, <1>4, <1>5, <1>6, <1>7, <1>8, <1>9, <1>10, <1>11, <1>12, OutsideInv

\* A request arrives, on the guild's context, on a new one or on none.
LEMMA ArriveInv ==
  ASSUME TrackInv, NEW w \in Workers, NEW k, NEW p \in {Nothing} \cup Players,
         NEW step \in {"lock", "reading", "remove"},
         Arrive(w, k, p, step), k \in KindsAt(step), step # "remove" => p # Nothing,
         created' \in 0 .. MaxPlayers, created <= created', p <= created',
         mapped' \in {Nothing} \cup Players, mapped' <= created',
         mapped' = mapped \/ mapped' > created
  PROVE  TrackInv'
<1> USE DEF trackVars, monVars, eventVars
<1>0. PlayerTypeOK
  BY DEF TrackInv, PlayerInv
<1>1. /\ UNCHANGED <<holder, track, info, handle, task, psignal, paused, installed, decodable,
                     hstate, decoder, signal, target, reason, started, silent>>
      /\ seen' = seen /\ served' = served + 1 /\ served < MaxOps /\ down' = down /\ ~down
      /\ UNCHANGED <<mon, aborted, down>>
      /\ ends' = ends
      /\ pc[w] = "idle"
  BY DEF Arrive
<1>2. PICK o \in Ops : o.kind = k /\ op' = [op EXCEPT ![w] = o]
  BY DEF Arrive
<1>3. /\ pc' \in [Workers -> Steps] /\ op' \in [Workers -> Ops \cup {NoOp}]
      /\ ctx' \in [Workers -> {Nothing} \cup Players] /\ seen' \in [Workers -> {Nothing} \cup Tracks]
      /\ pc'[w] = step /\ op'[w] = o /\ ctx'[w] = p /\ seen'[w] = seen[w]
      /\ \A v \in Workers : v # w => /\ pc'[v] = pc[v] /\ op'[v] = op[v]
                                     /\ ctx'[v] = ctx[v] /\ seen'[v] = seen[v]
  BY <1>0, <1>1, <1>2 DEF Arrive, PlayerTypeOK, Steps
<1>4. ~Locks(w) /\ ~Locks(w)'
  BY <1>1, <1>3 DEF Locks
<1>5. served' \in 0 .. MaxOps /\ down' \in BOOLEAN /\ seen'[w] <= installed /\ Nothing <= installed
  BY <1>0, <1>1, <1>3, PlayerAssumption
     DEF TrackInv, PlayerInv, PlayerTypeOK, FreshIsUntouched, Nothing
<1>6. SendEnd(Nothing, "Cleanup") /\ Nothing \in {Nothing} \cup Tracks
  BY <1>1 DEF SendEnd
<1>7. op'[w].kind \in KindsAt(pc'[w]) /\ pc'[w] # "idle"
      /\ (pc'[w] \in {"lock", "reading"} => ctx'[w] # Nothing)
  BY <1>2, <1>3
<1> QED BY <1>1, <1>3, <1>4, <1>5, <1>6, <1>7, OutsideInv

\* A request arrives, finds or creates its context and waits for the lock, or
\* goes to the step that needs none.
LEMMA BeginInv ==
  ASSUME TrackInv, NEW w \in Workers,
         BeginOnPlayer(w) \/ BeginOnExisting(w) \/ BeginDestroy(w)
  PROVE  TrackInv'
<1>0. /\ created \in 0 .. MaxPlayers /\ created \in Nat /\ MaxPlayers \in Nat
      /\ mapped \in {Nothing} \cup Players /\ mapped <= created
      /\ Nothing <= created
  BY PlayerAssumption DEF TrackInv, PlayerInv, PlayerTypeOK, FreshIsUntouched, Nothing
<1>1. /\ \A k \in {"play", "stop", "pause", "resume", "wsStop"} : k \in KindsAt("lock")
      /\ "delete" \in KindsAt("reading") /\ "wsDestroy" \in KindsAt("remove")
  BY DEF KindsAt
<1>2. ASSUME NEW k \in {"play", "stop", "pause", "resume", "wsStop"}, mapped # Nothing,
             Arrive(w, k, mapped, "lock"), UNCHANGED <<mapped, created>>
      PROVE  TrackInv'
  <2>1. created' = created /\ mapped' = mapped
    BY <1>2
  <2> QED BY <1>0, <1>1, <1>2, <2>1, ArriveInv
<1>3. ASSUME NEW k \in {"play", "stop", "pause", "resume"}, created < MaxPlayers,
             Arrive(w, k, created + 1, "lock"), mapped' = created + 1, created' = created + 1
      PROVE  TrackInv'
  <2>1. created + 1 \in Players /\ created + 1 # Nothing /\ created + 1 \in 0 .. MaxPlayers
        /\ created <= created + 1 /\ created + 1 <= created + 1 /\ created + 1 > created
    BY <1>0, <1>3 DEF Players, Nothing
  <2> QED BY <1>1, <1>3, <2>1, ArriveInv
<1>4. ASSUME mapped # Nothing, Arrive(w, "delete", mapped, "reading"), UNCHANGED <<mapped, created>>
      PROVE  TrackInv'
  <2>1. created' = created /\ mapped' = mapped
    BY <1>4
  <2> QED BY <1>0, <1>1, <1>4, <2>1, ArriveInv
<1>5. ASSUME Arrive(w, "wsDestroy", Nothing, "remove"), UNCHANGED <<mapped, created>>
      PROVE  TrackInv'
  <2>1. created' = created /\ mapped' = mapped /\ Nothing \in {Nothing} \cup Players
    BY <1>5
  <2> QED BY <1>0, <1>1, <1>5, <2>1, ArriveInv
<1>6. CASE BeginOnPlayer(w)
  BY <1>2, <1>3, <1>6 DEF BeginOnPlayer
<1>7. CASE BeginOnExisting(w)
  BY <1>2, <1>4, <1>7 DEF BeginOnExisting
<1>8. CASE BeginDestroy(w)
  BY <1>5, <1>8 DEF BeginDestroy
<1> QED BY <1>6, <1>7, <1>8

\* Session::shutdown: only DELETEs are under way.
LEMMA ShutdownInv ==
  ASSUME TrackInv, NEW w \in Workers, Shutdown(w)
  PROVE  TrackInv'
<1> USE DEF playerVars, trackVars, eventVars
<1>0. PlayerTypeOK
  BY DEF TrackInv, PlayerInv
<1>1. /\ UNCHANGED <<holder, track, info, handle, task, psignal, paused, installed, decodable,
                     hstate, decoder, signal, target, reason, started, silent>>
      /\ mapped' = mapped /\ created' = created /\ ctx' = ctx /\ seen' = seen
      /\ served' = served + 1 /\ served < MaxOps /\ down' /\ down' \in BOOLEAN
      /\ ends' = ends
      /\ pc[w] = "idle"
  BY DEF Shutdown
<1>2. Abort(Tracks)
  BY DEF Shutdown, StopAllPlayers
<1>3. PICK o \in Ops : o.kind = "shutdown" /\ op' = [op EXCEPT ![w] = o]
  BY DEF Shutdown
<1>4. /\ pc' \in [Workers -> Steps] /\ op' \in [Workers -> Ops \cup {NoOp}]
      /\ ctx' \in [Workers -> {Nothing} \cup Players] /\ seen' \in [Workers -> {Nothing} \cup Tracks]
      /\ pc'[w] = "remove" /\ op'[w] = o /\ ctx'[w] = ctx[w] /\ seen'[w] = seen[w]
      /\ \A v \in Workers : v # w => /\ pc'[v] = pc[v] /\ op'[v] = op[v]
                                     /\ ctx'[v] = ctx[v] /\ seen'[v] = seen[v]
  BY <1>0, <1>1, <1>3 DEF Shutdown, PlayerTypeOK, Steps
<1>5. ~Locks(w) /\ ~Locks(w)'
  BY <1>1, <1>4 DEF Locks
<1>6. /\ created' \in 0 .. MaxPlayers /\ created <= created' /\ ctx'[w] <= created'
      /\ mapped' \in {Nothing} \cup Players /\ mapped' <= created' /\ Nothing <= installed
      /\ served' \in 0 .. MaxOps /\ seen'[w] <= installed
  BY <1>0, <1>1, <1>4, PlayerAssumption
     DEF TrackInv, PlayerInv, PlayerTypeOK, FreshIsUntouched, Nothing
<1>7. \A v \in Workers : op'[v].kind \in {"none", "delete", "shutdown"}
  <2>1. \A v \in Workers : pc[v] = "idle" => op[v].kind = "none"
    <3>1. \A v \in Workers : pc[v] = "idle" => op[v].kind \in KindsAt("idle")
      BY DEF TrackInv, PlayerInv, RequestsInShape
    <3> QED BY <3>1 DEF KindsAt
  <2>2. \A v \in Workers : pc[v] = "idle" \/ op[v].kind = "delete"
    BY DEF Shutdown
  <2> QED BY <1>3, <1>4, <2>1, <2>2
<1>8. SendEnd(Nothing, "Cleanup") /\ Nothing \in {Nothing} \cup Tracks
  BY <1>1 DEF SendEnd
<1>9. op'[w].kind \in KindsAt(pc'[w]) /\ pc'[w] \notin {"idle", "lock", "reading"}
  BY <1>3, <1>4 DEF KindsAt
<1> QED BY <1>1, <1>2, <1>4, <1>5, <1>6, <1>7, <1>8, <1>9, OutsideInv

-----------------------------------------------------------------------------
(***************************************************************************)
(* The theorems.                                                           *)
(***************************************************************************)

\* A step that changes nothing.
LEMMA StutterInv ==
  ASSUME TrackInv, UNCHANGED vars
  PROVE  TrackInv'
<1>1. /\ UNCHANGED <<playerVars, installed, decodable, signal, monVars, eventVars, requestVars>>
      /\ hstate' = hstate /\ decoder' = decoder
  BY DEF vars, trackVars
<1>2. /\ hstate' \in [Tracks -> States]
      /\ decoder' \in [Tracks -> {"none", "running", "ended", "failed"}]
  BY <1>1 DEF TrackInv, PlayerInv, PlayerTypeOK
<1> QED BY <1>1, <1>2, QuietInv

\* The invariant is inductive.
THEOREM TracksInvariant == Spec => []TrackInv
<1>1. Init => TrackInv
  BY InitInv
<1>2. TrackInv /\ [Next]_vars => TrackInv'
  <2> SUFFICES ASSUME TrackInv, [Next]_vars PROVE TrackInv'
    OBVIOUS
  <2>1. ASSUME NEW w \in Workers, Begin(w) PROVE TrackInv'
    BY <2>1, BeginInv, ShutdownInv DEF Begin
  <2>2. ASSUME NEW w \in Workers, Request(w) PROVE TrackInv'
    BY <2>2, KeepTrackInv, ReportReplacedInv, InstallInv, ResolveFailsInv, ResolveSucceedsInv,
       StopPlayerInv, ReportStoppedInv, StopTrackInv, AbortTrackInv, ReportCleanupInv,
       RemovePlayerInv, AcquireInv, ReadTrackInv DEF Request
  <2>3. ASSUME NEW i \in Tracks, Monitor(i) PROVE TrackInv'
    BY <2>3, MonitorTickInv, MonitorChecksInv, MonitorEndsInv, MonitorLocksInv, MonitorSendsInv
       DEF Monitor
  <2>4. ASSUME NEW i \in Tracks, MixerDrops(i) PROVE TrackInv'
    BY <2>4, DecoderEndsInv DEF MixerDrops
  <2>5. CASE UNCHANGED vars
    BY <2>5, StutterInv
  <2> QED BY <2>1, <2>2, <2>3, <2>4, <2>5, DecoderEndsInv DEF Next
<1> QED BY <1>1, <1>2, PTL DEF Spec

\* The state of the player is well formed and every running monitor that was
\* not signalled is the task of a context, so that start_playback, stop and
\* destroy reach it.
THEOREM MonitorsAreReachable == Spec => []PlayerInv
<1>1. TrackInv => PlayerInv
  BY DEF TrackInv
<1> QED BY <1>1, TracksInvariant, PTL

\* The track a client sees in a settled player has a monitor that runs and was
\* neither signalled nor aborted by what happened to earlier tracks.
THEOREM ShownIsMonitored == Spec => []ShownTrackIsMonitored
<1>1. TrackInv => ShownTrackIsMonitored
  <2> SUFFICES ASSUME TrackInv, NEW p \in Players, Settled(p), handle[p] # Nothing, info[p]
               PROVE  /\ track[p] = handle[p]
                      /\ mon[handle[p]] \in Monitoring \ {"sending"}
                      /\ task[p] = handle[p]
    BY DEF ShownTrackIsMonitored
  <2>1. WatchedAt(p)
    BY PartsSplit
  <2>2. track[p] = handle[p]
    BY OwnTrack
  <2> QED BY <2>1, <2>2 DEF WatchedAt, Settled
<1> QED BY <1>1, TracksInvariant, PTL

\* A track without a handle in a settled player is one that does not decode.
THEOREM GhostsAreUndecoded == Spec => []OnlyUndecodedGhosts
<1>1. TrackInv => OnlyUndecodedGhosts
  <2> SUFFICES ASSUME TrackInv, NEW p \in Players, Settled(p), track[p] # Nothing,
                      decodable[track[p]]
               PROVE  handle[p] = track[p]
    BY DEF OnlyUndecodedGhosts
  <2>1. info[p] /\ handle[p] \in {Nothing, track[p]}
    BY DEF TrackInv, PlayerInv, OneTrackPerPlayer
  <2>2. GhostAt(p)
    BY PartsSplit
  <2> QED BY <2>1, <2>2 DEF GhostAt, Settled
<1> QED BY <1>1, TracksInvariant, PTL

\* No track is reported twice as replaced or stopped, or twice as ended.
THEOREM ReportedAtMostOnce == Spec => []TakenOutOnce
<1>1. TrackInv => TakenOutOnce
  BY DEF TrackInv
<1> QED BY <1>1, TracksInvariant, PTL

\* A track that was announced and is gone had its end announced, or left by one
\* of the paths that report nothing.
THEOREM EndIsAnnounced == Spec => []EndAnnounced
<1>1. TrackInv => EndAnnounced
  BY DEF TrackInv, PlayerInv, LeftIsReported, EndAnnounced
<1> QED BY <1>1, TracksInvariant, PTL

\* After Session::shutdown no monitor ticks or waits for a lock.
THEOREM ShutdownEndsMonitors == Spec => []ShutdownReachesAll
<1>1. TrackInv => ShutdownReachesAll
  BY DEF TrackInv, PlayerInv, DownIsQuiet, ShutdownReachesAll, Monitoring
<1> QED BY <1>1, TracksInvariant, PTL
=============================================================================
