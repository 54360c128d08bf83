------------------------------- MODULE Session -------------------------------
(***************************************************************************)
(* The life of a client session of the node: the WebSocket upgrade         *)
(* (api/ws/mod.rs), resolve_session and handle_session_close               *)
(* (api/ws/handler.rs), the resume-window timer, and the PATCH that makes  *)
(* a session resumable (api/rest/routes/player/update.rs).                 *)
(*                                                                         *)
(* Every socket task, every request and every timer runs on its own tokio  *)
(* task of a multi-threaded runtime, so each access to a shared map or     *)
(* atomic is a step of its own.  Two accesses share a step only where one  *)
(* lock covers both.                                                       *)
(*                                                                         *)
(* A session is created by exactly one connection and its random id is     *)
(* never generated twice, so a session is named by the connection that     *)
(* created it, and Arc::ptr_eq on two sessions of one id always holds.     *)
(***************************************************************************)
EXTENDS Naturals, FiniteSets

CONSTANTS
    Conns,      \* WebSocket connections; each one is opened at most once
    NoSession   \* no Session-Id header, no session

ASSUME ConnsAssumption == NoSession \notin Conns

Sessions == Conns

VARIABLES
    pc,             \* where the task of each connection is
    want,           \* the Session-Id header the client sent
    header,         \* the Session-Resumed header of the upgrade response
    sess,           \* the session the connection resolved to
    resumed,        \* the "resumed" field of the Ready message
    sessions,       \* AppState::sessions
    resumable,      \* AppState::resumable_sessions
    sender,         \* Session::sender, named by the connection that reads it
    paused,         \* Session::paused
    mayResume,      \* Session::resumable
    generation,     \* Session::resume_generation
    myGeneration,   \* the generation a closing connection opened its window at
    timers,         \* sleeping clean-up tasks, one per window that was opened
    down            \* sessions on which Session::shutdown was called

connVars == <<pc, want, header, sess, resumed, myGeneration>>
mapVars  == <<sessions, resumable, timers, down>>
sessVars == <<sender, paused, mayResume, generation>>
vars     == <<connVars, mapVars, sessVars>>

-----------------------------------------------------------------------------
(***************************************************************************)
(* Where a connection can be.                                              *)
(***************************************************************************)
\* resolve_session after it took the session out of resumable_sessions
Resuming == {"taken", "bumped", "swapped"}

\* the socket is served: greeting the client, the select! loop, the wait for
\* the writer task after the loop ended
Serving == {"greeting", "open", "closing"}

\* handle_session_close of a resumable session, up to the map insertion
Detaching == {"marked", "unlisted", "cleared", "counted"}

Phases == {"idle", "upgrading"} \cup Resuming \cup Serving \cup Detaching
              \cup {"listed", "gone"}

\* Connection c is the one that holds session s in its hands.
Holds(c, s) == sess[c] = s /\ pc[c] \in Resuming \cup Serving \cup Detaching

Created(s) == \E c \in Conns : sess[c] = s

TypeOK ==
    /\ pc \in [Conns -> Phases]
    /\ want \in [Conns -> Sessions \cup {NoSession}]
    /\ header \in [Conns -> BOOLEAN]
    /\ sess \in [Conns -> Sessions \cup {NoSession}]
    /\ resumed \in [Conns -> BOOLEAN]
    /\ myGeneration \in [Conns -> Nat]
    /\ sessions \subseteq Sessions
    /\ resumable \subseteq Sessions
    /\ timers \subseteq [sess : Sessions, gen : Nat]
    /\ down \subseteq Sessions
    /\ sender \in [Sessions -> Conns]
    /\ paused \in [Sessions -> BOOLEAN]
    /\ mayResume \in [Sessions -> BOOLEAN]
    /\ generation \in [Sessions -> Nat]

Init ==
    /\ pc = [c \in Conns |-> "idle"]
    /\ want = [c \in Conns |-> NoSession]
    /\ header = [c \in Conns |-> FALSE]
    /\ sess = [c \in Conns |-> NoSession]
    /\ resumed = [c \in Conns |-> FALSE]
    /\ myGeneration = [c \in Conns |-> 0]
    /\ sessions = {}
    /\ resumable = {}
    /\ timers = {}
    /\ down = {}
    /\ sender = [s \in Sessions |-> s]
    /\ paused = [s \in Sessions |-> FALSE]
    /\ mayResume = [s \in Sessions |-> FALSE]
    /\ generation = [s \in Sessions |-> 0]

-----------------------------------------------------------------------------
(***************************************************************************)
(* Opening a connection.                                                   *)
(***************************************************************************)
\* websocket_handler: the Session-Resumed header is decided here, from a look
\* at resumable_sessions; the session is resolved by a later task.
Upgrade(c, sid) ==
    /\ pc[c] = "idle"
    /\ sid = NoSession \/ Created(sid)
    /\ pc' = [pc EXCEPT ![c] = "upgrading"]
    /\ want' = [want EXCEPT ![c] = sid]
    /\ header' = [header EXCEPT ![c] = sid \in resumable]
    /\ UNCHANGED <<sess, resumed, myGeneration, mapVars, sessVars>>

\* resolve_session, the id is not in resumable_sessions: a fresh session.
ResolveNew(c) ==
    /\ pc[c] = "upgrading"
    /\ want[c] \notin resumable
    /\ sess' = [sess EXCEPT ![c] = c]
    /\ sessions' = sessions \cup {c}
    /\ sender' = [sender EXCEPT ![c] = c]
    /\ pc' = [pc EXCEPT ![c] = "greeting"]
    /\ UNCHANGED <<want, header, resumed, myGeneration, resumable, timers,
                   down, paused, mayResume, generation>>

\* Fault: a lookup in place of the removal.
ResolveTakeByLookup(c) ==
    /\ pc[c] = "upgrading"
    /\ want[c] \in resumable
    /\ sess' = [sess EXCEPT ![c] = want[c]]
    /\ resumed' = [resumed EXCEPT ![c] = TRUE]
    /\ pc' = [pc EXCEPT ![c] = "taken"]
    /\ UNCHANGED <<want, header, myGeneration, mapVars, sessVars>>

\* resolve_session: resumable_sessions.remove(sid) hit.
ResolveTake(c) ==
    /\ pc[c] = "upgrading"
    /\ want[c] \in resumable
    /\ resumable' = resumable \ {want[c]}
    /\ sess' = [sess EXCEPT ![c] = want[c]]
    /\ resumed' = [resumed EXCEPT ![c] = TRUE]
    /\ pc' = [pc EXCEPT ![c] = "taken"]
    /\ UNCHANGED <<want, header, myGeneration, sessions, timers, down, sessVars>>

\* resolve_session: resume_generation.fetch_add(1).
ResolveBump(c) ==
    /\ pc[c] = "taken"
    /\ generation' = [generation EXCEPT ![sess[c]] = @ + 1]
    /\ pc' = [pc EXCEPT ![c] = "bumped"]
    /\ UNCHANGED <<want, header, sess, resumed, myGeneration, mapVars,
                   sender, paused, mayResume>>

\* resolve_session: under the sender's write lock, the new channel replaces
\* the old one and the session is unpaused.
ResolveSwap(c) ==
    /\ pc[c] = "bumped"
    /\ sender' = [sender EXCEPT ![sess[c]] = c]
    /\ paused' = [paused EXCEPT ![sess[c]] = FALSE]
    /\ pc' = [pc EXCEPT ![c] = "swapped"]
    /\ UNCHANGED <<want, header, sess, resumed, myGeneration, mapVars,
                   mayResume, generation>>

\* resolve_session: sessions.insert(sid, existing).
ResolveJoin(c) ==
    /\ pc[c] = "swapped"
    /\ sessions' = sessions \cup {sess[c]}
    /\ pc' = [pc EXCEPT ![c] = "greeting"]
    /\ UNCHANGED <<want, header, sess, resumed, myGeneration, resumable,
                   timers, down, sessVars>>

\* send_initial_state is over and handle_socket enters its select! loop.
Greet(c) ==
    /\ pc[c] = "greeting"
    /\ pc' = [pc EXCEPT ![c] = "open"]
    /\ UNCHANGED <<want, header, sess, resumed, myGeneration, mapVars, sessVars>>

\* PATCH /v4/sessions/{id}: finds the session in `sessions` and stores the
\* flag while it holds the map's guard.
UpdateSession(s, resuming) ==
    /\ s \in sessions
    /\ mayResume' = [mayResume EXCEPT ![s] = resuming]
    /\ UNCHANGED <<connVars, mapVars, sender, paused, generation>>

-----------------------------------------------------------------------------
(***************************************************************************)
(* Closing a connection.                                                   *)
(***************************************************************************)
\* The select! loop ends: pong watchdog, closed channel, socket error or end,
\* Close frame, rate limit.  The Close frame is queued and the task waits at
\* most 500 ms for the writer task.
LeaveLoop(c) ==
    /\ pc[c] = "open"
    /\ pc' = [pc EXCEPT ![c] = "closing"]
    /\ UNCHANGED <<want, header, sess, resumed, myGeneration, mapVars, sessVars>>

\* Fault: the session leaves the map and is not shut down.
CloseFinalWithoutShutdown(c) ==
    /\ pc[c] = "closing"
    /\ ~mayResume[sess[c]]
    /\ sessions' = sessions \ {sess[c]}
    /\ pc' = [pc EXCEPT ![c] = "gone"]
    /\ UNCHANGED <<want, header, sess, resumed, myGeneration, resumable,
                   timers, down, sessVars>>

\* handle_session_close, not resumable: sessions.remove(id), then shutdown.  One
\* step: between the three accesses only a PATCH could write resumable, which is
\* not read again, and a session that is out of the map is this task's alone.
CloseFinal(c) ==
    /\ pc[c] = "closing"
    /\ ~mayResume[sess[c]]
    /\ sessions' = sessions \ {sess[c]}
    /\ down' = IF sess[c] \in sessions THEN down \cup {sess[c]} ELSE down
    /\ pc' = [pc EXCEPT ![c] = "gone"]
    /\ UNCHANGED <<want, header, sess, resumed, myGeneration, resumable,
                   timers, sessVars>>

\* Fault: paused is not set.
CloseMarkUnpaused(c) ==
    /\ pc[c] = "closing"
    /\ mayResume[sess[c]]
    /\ pc' = [pc EXCEPT ![c] = IF sender[sess[c]] = c THEN "marked" ELSE "gone"]
    /\ UNCHANGED <<want, header, sess, resumed, myGeneration, mapVars, sessVars>>

\* handle_session_close, resumable: under the sender's read lock, a task whose
\* channel was replaced leaves the session alone; otherwise it sets paused.
CloseMark(c) ==
    /\ pc[c] = "closing"
    /\ mayResume[sess[c]]
    /\ IF sender[sess[c]] = c
         THEN /\ paused' = [paused EXCEPT ![sess[c]] = TRUE]
              /\ pc' = [pc EXCEPT ![c] = "marked"]
         ELSE /\ pc' = [pc EXCEPT ![c] = "gone"]
              /\ UNCHANGED paused
    /\ UNCHANGED <<want, header, sess, resumed, myGeneration, mapVars,
                   sender, mayResume, generation>>

\* handle_session_close: sessions.remove_if(id, same session and channel).
CloseUnlist(c) ==
    /\ pc[c] = "marked"
    /\ sessions' = IF sender[sess[c]] = c THEN sessions \ {sess[c]} ELSE sessions
    /\ pc' = [pc EXCEPT ![c] = "unlisted"]
    /\ UNCHANGED <<want, header, sess, resumed, myGeneration, resumable,
                   timers, down, sessVars>>

\* handle_session_close: whatever resumable_sessions held under this id is
\* removed and shut down.
CloseClear(c) ==
    /\ pc[c] = "unlisted"
    /\ resumable' = resumable \ {sess[c]}
    /\ down' = IF sess[c] \in resumable THEN down \cup {sess[c]} ELSE down
    /\ pc' = [pc EXCEPT ![c] = "cleared"]
    /\ UNCHANGED <<want, header, sess, resumed, myGeneration, sessions,
                   timers, sessVars>>

\* Fault: the window keeps the value fetch_add returned, without the + 1.
CloseCountOffByOne(c) ==
    /\ pc[c] = "cleared"
    /\ generation' = [generation EXCEPT ![sess[c]] = @ + 1]
    /\ myGeneration' = [myGeneration EXCEPT ![c] = generation[sess[c]]]
    /\ pc' = [pc EXCEPT ![c] = "counted"]
    /\ UNCHANGED <<want, header, sess, resumed, mapVars, sender, paused,
                   mayResume>>

\* handle_session_close: this window's generation.
CloseCount(c) ==
    /\ pc[c] = "cleared"
    /\ generation' = [generation EXCEPT ![sess[c]] = @ + 1]
    /\ myGeneration' = [myGeneration EXCEPT ![c] = generation[sess[c]] + 1]
    /\ pc' = [pc EXCEPT ![c] = "counted"]
    /\ UNCHANGED <<want, header, sess, resumed, mapVars, sender, paused,
                   mayResume>>

\* Fault: the detached session is put in no map.
CloseListNowhere(c) ==
    /\ pc[c] = "counted"
    /\ pc' = [pc EXCEPT ![c] = "listed"]
    /\ UNCHANGED <<want, header, sess, resumed, myGeneration, mapVars, sessVars>>

\* handle_session_close: resumable_sessions.insert.  From here a client may
\* resume the session.
CloseList(c) ==
    /\ pc[c] = "counted"
    /\ resumable' = resumable \cup {sess[c]}
    /\ pc' = [pc EXCEPT ![c] = "listed"]
    /\ UNCHANGED <<want, header, sess, resumed, myGeneration, sessions,
                   timers, down, sessVars>>

\* handle_session_close: the clean-up task is spawned and starts to sleep.
CloseSpawn(c) ==
    /\ pc[c] = "listed"
    /\ timers' = timers \cup {[sess |-> sess[c], gen |-> myGeneration[c]]}
    /\ pc' = [pc EXCEPT ![c] = "gone"]
    /\ UNCHANGED <<want, header, sess, resumed, myGeneration, sessions,
                   resumable, down, sessVars>>

\* Fault: the generation is not compared.
WindowExpiredAnyGeneration(t) == t.sess \in resumable /\ paused[t.sess]

\* Fault: the session is checked without looking it up in the map.
WindowExpiredUnlisted(t) == generation[t.sess] = t.gen /\ paused[t.sess]

\* The condition of remove_if in the clean-up task.
WindowExpired(t) ==
    /\ t.sess \in resumable
    /\ generation[t.sess] = t.gen
    /\ paused[t.sess]

\* Fault: the expired session is shut down and stays in the map.
ExpireKeepingEntry(t) ==
    /\ t \in timers
    /\ timers' = timers \ {t}
    /\ down' = IF WindowExpired(t) THEN down \cup {t.sess} ELSE down
    /\ UNCHANGED <<connVars, sessions, resumable, sessVars>>

\* The clean-up task wakes: remove_if holds the map's lock over the condition
\* and the removal; the session it removes is shut down.
Expire(t) ==
    /\ t \in timers
    /\ timers' = timers \ {t}
    /\ \/ /\ WindowExpired(t)
          /\ resumable' = resumable \ {t.sess}
          /\ down' = down \cup {t.sess}
       \/ /\ ~WindowExpired(t)
          /\ UNCHANGED <<resumable, down>>
    /\ UNCHANGED <<connVars, sessions, sessVars>>

-----------------------------------------------------------------------------
Close(c) ==
    \/ CloseFinal(c) \/ CloseMark(c) \/ CloseUnlist(c) \/ CloseClear(c)
    \/ CloseCount(c) \/ CloseList(c) \/ CloseSpawn(c)

Resolve(c) ==
    \/ ResolveNew(c) \/ ResolveTake(c) \/ ResolveBump(c)
    \/ ResolveSwap(c) \/ ResolveJoin(c)

Next ==
    \/ \E c \in Conns :
          \/ \E sid \in Sessions \cup {NoSession} : Upgrade(c, sid)
          \/ Resolve(c)
          \/ Greet(c)
          \/ LeaveLoop(c)
          \/ Close(c)
    \/ \E s \in Sessions, resuming \in BOOLEAN : UpdateSession(s, resuming)
    \/ \E t \in timers : Expire(t)

(***************************************************************************)
(* A tokio task that is not waiting for a peer is polled again, and a      *)
(* sleep ends: resolving, closing and the timers make progress.  Nothing   *)
(* obliges a client to connect, to disconnect or to send a PATCH.          *)
(***************************************************************************)
Fairness ==
    /\ \A c \in Conns : WF_vars(Resolve(c)) /\ WF_vars(Close(c))
    /\ \A s \in Sessions : WF_vars(\E t \in timers : t.sess = s /\ Expire(t))

Spec == Init /\ [][Next]_vars
FairSpec == Spec /\ Fairness
-----------------------------------------------------------------------------
(***************************************************************************)
(* Properties.                                                             *)
(***************************************************************************)
\* A session that a connection is resuming, serving or detaching has not been
\* shut down: neither the timer of an earlier window nor another connection's
\* close reaches it (the generation and paused checks of the clean-up task).
HeldSessionIsUp ==
    \A c \in Conns, s \in Sessions : Holds(c, s) => s \notin down

\* Two connections never have one session in their hands: of two clients that
\* present the same Session-Id, one resumes and the other gets a new session.
SoleHolder ==
    \A c, d \in Conns, s \in Sessions : Holds(c, s) /\ Holds(d, s) => c = d

\* While a connection serves or detaches its session, the session's events go
\* to that connection's channel, so the "replaced by a new connection" return
\* of handle_session_close is never taken.
OwnChannel ==
    \A c \in Conns :
        pc[c] \in {"swapped"} \cup Serving \cup Detaching
            => sender[sess[c]] = c

\* No session is forgotten: one that was created and not shut down is in the
\* hands of a connection or waits in resumable_sessions.
NoSessionLost ==
    \A s \in Sessions :
        Created(s) => \/ s \in down
                      \/ s \in resumable
                      \/ \E c \in Conns : Holds(c, s)

\* A session that waits for a client has a timer of its present generation, or
\* the closing task is about to start it: a window cannot stay open for ever.
WindowHasTimer ==
    \A s \in resumable :
        /\ paused[s]
        /\ \/ [sess |-> s, gen |-> generation[s]] \in timers
           \/ \E c \in Conns : /\ pc[c] = "listed"
                               /\ sess[c] = s
                               /\ myGeneration[c] = generation[s]

\* A client whose session id is in `sessions` is connected: REST requests find
\* exactly the sessions that a socket serves.
ListedIsServed ==
    \A s \in Sessions :
        s \in sessions <=> \E c \in Conns : /\ sess[c] = s
                                            /\ pc[c] \in Serving \cup {"marked"}

\* The parts of the inductive invariant that are not properties of their own.
\* A connection has a session exactly when it resolved one, and the session was
\* created by the connection that names it.
SessionOfConn ==
    \A c \in Conns :
        /\ sess[c] = NoSession <=> pc[c] \in {"idle", "upgrading"}
        /\ sess[c] # NoSession => sess[sess[c]] = sess[c]

\* The maps and the shut-down sessions only name sessions that were created;
\* a resumable session is neither held nor shut down.
MapsAgree ==
    /\ \A s \in sessions \cup resumable \cup down : Created(s)
    /\ \A s \in resumable : s \notin down /\ \A c \in Conns : ~Holds(c, s)

\* A session is paused while it is being detached, and its window's generation
\* is the present one until a client can take it.
DetachingIsPaused ==
    \A c \in Conns :
        /\ pc[c] \in Detaching => paused[sess[c]]
        /\ pc[c] = "counted" => myGeneration[c] = generation[sess[c]]

\* The inductive invariant: what all interleavings of resolving, closing and
\* expiring preserve.
SessionInv ==
    /\ TypeOK
    /\ SessionOfConn
    /\ MapsAgree
    /\ DetachingIsPaused
    /\ HeldSessionIsUp
    /\ SoleHolder
    /\ OwnChannel
    /\ NoSessionLost
    /\ WindowHasTimer
    /\ ListedIsServed

\* A step that shuts a session down ends its window or its last connection;
\* a session that was shut down is never resumed, listed or served again.
ShutdownIsFinal ==
    [][/\ down \subseteq down'
       /\ \A s \in down : s \notin resumable' \cup sessions']_vars

\* A session that waits for its client is shut down by the timer of the window
\* it waits in: neither a timer left over from an earlier window nor the
\* clean-up at the start of handle_session_close cuts the window short.
WindowRunsItsTime ==
    [][\A s \in resumable :
          s \in down' => [sess |-> s, gen |-> generation[s]] \in timers \ timers']_vars

\* A window that opened closes: the client resumes or the timeout shuts the
\* session down.
WindowCloses == \A s \in Sessions : s \in resumable ~> s \notin resumable

\* A connection that ended leaves its session shut down or resumable.
CloseSettles ==
    \A c \in Conns :
        pc[c] = "closing" ~> (sess[c] \in down \/ sess[c] \in resumable)

-----------------------------------------------------------------------------
(***************************************************************************)
(* The maps, atomics and tasks implement SessionLife.                      *)
(***************************************************************************)
\* The phase of s as a client can tell it.
PhaseOf(s) ==
    IF s \in down           THEN "ended"
    ELSE IF s \in resumable THEN "detached"
    ELSE IF Created(s)      THEN "held"
    ELSE "none"

\* The connection that holds s.
HolderOf(s) ==
    IF \E c \in Conns : Holds(c, s)
      THEN CHOOSE c \in Conns : Holds(c, s)
      ELSE NoSession

Life == INSTANCE SessionLife WITH
            phase  <- [s \in Sessions |-> PhaseOf(s)],
            holder <- [s \in Sessions |-> HolderOf(s)]

\* Every step of the tasks is a step of SessionLife or changes nothing a client
\* can see.
ImplementsLife == Life!LifeSpec
=============================================================================
