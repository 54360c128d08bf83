---------------------------- MODULE VoiceConnect ----------------------------
(***************************************************************************)
(* The voice gateway tasks of one guild: who starts them, who ends them,   *)
(* and what a player says about them.  handle_voice_update (ws/opcodes.rs) *)
(* and handle_voice (routes/player/update.rs) give the player new voice    *)
(* credentials and start a gateway with connect_voice (server/voice.rs);   *)
(* a null channel, DELETE, the destroy op and Session::shutdown end it.    *)
(*                                                                         *)
(* The socket's ops run one after the other on the socket's own task; REST *)
(* requests run beside it.  handle_voice keeps the player's lock while it  *)
(* connects.  handle_voice_update drops the lock, connects, and takes the  *)
(* lock again to install the task: that window is what this module is for. *)
(*                                                                         *)
(* Of a gateway only the connection and its speak task are kept, and what  *)
(* they write to voice_ready, which they share with the player.  Dropping  *)
(* a gateway aborts its speak task without waiting for it, so a speak task *)
(* that has just found the DAVE gate open still writes its flag.           *)
(*                                                                         *)
(* The session has a user id; without one neither path starts a gateway.   *)
(* A request that is rejected (no token, no endpoint, a partial state)     *)
(* changes nothing here and is not a step.                                 *)
(***************************************************************************)
EXTENDS Naturals, FiniteSets

CONSTANTS
    Socket,         \* the task of the session's WebSocket
    Rest,           \* tasks that serve REST requests
    Creds,          \* voice credentials: token, endpoint, session and channel
    BadCreds,       \* the ones whose channel_id is not a number
    NoVoice,        \* VoiceConnectionState::default
    MaxOps,         \* bound on the requests of a behaviour
    MaxPlayers      \* bound on player contexts the guild goes through

Workers == Rest \cup {Socket}
Tasks   == 1 .. MaxOps          \* a request starts at most one gateway
Players == 1 .. MaxPlayers
Nothing == 0
Free    == "free"
NoOp    == [kind |-> "none"]

Ops == [kind : {"update"}, cred : Creds] \cup [kind : {"leave", "destroy", "shutdown"}]

ASSUME VoiceAssumption ==
    /\ IsFiniteSet(Rest)
    /\ Socket \notin Rest /\ Free \notin Rest \cup {Socket}
    /\ BadCreds \subseteq Creds
    /\ NoVoice \notin Creds
    /\ MaxOps \in Nat /\ MaxPlayers \in Nat

VARIABLES
    mapped,     \* Session::players: the guild's context, or Nothing
    created,    \* how many contexts were created
    holder,     \* the request that holds each context's write lock
    voice,      \* PlayerContext::voice
    gtask,      \* PlayerContext::gateway_task
    dave,       \* VoiceEngine::dave, named by the gateway it belongs to
    ready,      \* PlayerContext::voice_ready
    spawned,    \* how many gateway tasks were spawned
    gw,         \* each gateway task: none, running or finished
    cred,       \* the credentials it was given
    home,       \* the context whose engine and voice_ready it shares
    speak,      \* its speak task: none, waiting, open (the gate was found
                \* open) or doomed (the same, and aborted)
    registered, \* Session::task_handles
    pc,         \* where each request is
    op,         \* the request each worker serves
    ctx,        \* the context it looked up
    new,        \* the gateway task it has spawned and not installed yet
    served,     \* how many requests were made
    down        \* Session::shutdown was called

playerVars  == <<mapped, created, holder, voice, gtask, dave>>
taskVars    == <<spawned, gw, cred, home, speak, registered>>
requestVars == <<pc, op, ctx, new, served, down>>
vars == <<playerVars, ready, taskVars, requestVars>>

VoiceTypeOK ==
    /\ mapped \in {Nothing} \cup Players
    /\ created \in 0 .. MaxPlayers
    /\ holder \in [Players -> Workers \cup {Free}]
    /\ voice \in [Players -> Creds \cup {NoVoice}]
    /\ gtask \in [Players -> {Nothing} \cup Tasks]
    /\ dave \in [Players -> {Nothing} \cup Tasks]
    /\ ready \in [Players -> BOOLEAN]
    /\ spawned \in 0 .. MaxOps
    /\ gw \in [Tasks -> {"none", "running", "finished"}]
    /\ cred \in [Tasks -> Creds \cup {NoVoice}]
    /\ home \in [Tasks -> {Nothing} \cup Players]
    /\ speak \in [Tasks -> {"none", "waiting", "open", "doomed"}]
    /\ registered \subseteq Tasks
    /\ pc \in [Workers -> {"idle", "update", "connect", "reinstall", "stop",
                           "clear", "install", "remove"}]
    /\ op \in [Workers -> Ops \cup {NoOp}]
    /\ ctx \in [Workers -> {Nothing} \cup Players]
    /\ new \in [Workers -> {Nothing} \cup Tasks]
    /\ served \in 0 .. MaxOps
    /\ down \in BOOLEAN

Init ==
    /\ mapped = Nothing
    /\ created = 0
    /\ holder = [p \in Players |-> Free]
    /\ voice = [p \in Players |-> NoVoice]
    /\ gtask = [p \in Players |-> Nothing]
    /\ dave = [p \in Players |-> Nothing]
    /\ ready = [p \in Players |-> FALSE]
    /\ spawned = 0
    /\ gw = [t \in Tasks |-> "none"]
    /\ cred = [t \in Tasks |-> NoVoice]
    /\ home = [t \in Tasks |-> Nothing]
    /\ speak = [t \in Tasks |-> "none"]
    /\ registered = {}
    /\ pc = [w \in Workers |-> "idle"]
    /\ op = [w \in Workers |-> NoOp]
    /\ ctx = [w \in Workers |-> Nothing]
    /\ new = [w \in Workers |-> Nothing]
    /\ served = 0
    /\ down = FALSE

-----------------------------------------------------------------------------
(***************************************************************************)
(* A gateway task.                                                         *)
(***************************************************************************)
Running(t) == gw[t] = "running"

SetReady(t, value) == ready' = [ready EXCEPT ![home[t]] = value]

\* abort() of a set of gateway tasks.  Each drops its SessionState, which
\* aborts the speak task; that one stops at its next await.
Abort(ts) ==
    /\ gw' = [t \in Tasks |-> IF t \in ts THEN "finished" ELSE gw[t]]
    /\ speak' = [t \in Tasks |->
                    CASE t \in ts /\ speak[t] = "waiting" -> "none"
                      [] t \in ts /\ speak[t] = "open" -> "doomed"
                      [] OTHER -> speak[t]]

\* start_voice, after a session description or a resume.
StartVoice(t) ==
    /\ Running(t)
    /\ speak[t] = "none"
    /\ SetReady(t, FALSE)
    /\ speak' = [speak EXCEPT ![t] = "waiting"]
    /\ UNCHANGED <<playerVars, spawned, gw, cred, home, registered, requestVars>>

\* A tick of the speak task: the DAVE gate is closed.
GateClosed(t) ==
    /\ speak[t] = "waiting"
    /\ ready[home[t]]
    /\ SetReady(t, FALSE)
    /\ UNCHANGED <<playerVars, taskVars, requestVars>>

\* A tick of the speak task: the DAVE gate is open, and then the flag is set.
GateOpen(t) ==
    /\ speak[t] = "waiting"
    /\ speak' = [speak EXCEPT ![t] = "open"]
    /\ UNCHANGED <<playerVars, ready, spawned, gw, cred, home, registered, requestVars>>

MarkReady(t) ==
    /\ speak[t] \in {"open", "doomed"}
    /\ SetReady(t, TRUE)
    /\ speak' = [speak EXCEPT ![t] = IF @ = "open" THEN "waiting" ELSE "none"]
    /\ UNCHANGED <<playerVars, spawned, gw, cred, home, registered, requestVars>>

\* The connection ends; SessionState::shutdown waits for the speak task.  A
\* speak task that fails has cleared the flag itself and cancels the connection.
Disconnect(t) ==
    /\ Running(t)
    /\ speak[t] = "waiting"
    /\ speak' = [speak EXCEPT ![t] = "none"]
    /\ SetReady(t, FALSE)
    /\ UNCHANGED <<playerVars, spawned, gw, cred, home, registered, requestVars>>

\* A connection that never started its voice ends; the flag is cleared.
DialFails(t) ==
    /\ Running(t)
    /\ speak[t] = "none"
    /\ ready[home[t]]
    /\ SetReady(t, FALSE)
    /\ UNCHANGED <<playerVars, taskVars, requestVars>>

\* run returns after a terminal close code or the last attempt; the end of the
\* connection before it has cleared the flag.
GatewayEnds(t) ==
    /\ Running(t)
    /\ speak[t] = "none"
    /\ SetReady(t, FALSE)
    /\ gw' = [gw EXCEPT ![t] = "finished"]
    /\ UNCHANGED <<playerVars, spawned, cred, home, speak, registered, requestVars>>

Gateway(t) ==
    \/ StartVoice(t) \/ GateClosed(t) \/ GateOpen(t) \/ MarkReady(t)
    \/ Disconnect(t) \/ DialFails(t) \/ GatewayEnds(t)

-----------------------------------------------------------------------------
(***************************************************************************)
(* Requests.                                                               *)
(***************************************************************************)
\* A request o arrives at worker w, and goes to `step` on context p.
Arrive(w, o, p, step) ==
    /\ pc[w] = "idle"
    /\ served < MaxOps
    /\ ~down
    /\ served' = served + 1
    /\ op' = [op EXCEPT ![w] = o]
    /\ ctx' = [ctx EXCEPT ![w] = p]
    /\ pc' = [pc EXCEPT ![w] = step]
    /\ UNCHANGED <<holder, voice, gtask, dave, ready, taskVars, new>>

\* get_or_create_player: a voice update of either kind, and a REST leave.
BeginOnPlayer(w, o) ==
    /\ \/ o.kind = "update"
       \/ o.kind = "leave" /\ w # Socket
    /\ \/ /\ mapped # Nothing
          /\ Arrive(w, o, mapped, IF w = Socket THEN "update" ELSE "stop")
          /\ UNCHANGED <<mapped, created, down>>
       \/ /\ mapped = Nothing
          /\ created < MaxPlayers
          /\ Arrive(w, o, created + 1, IF w = Socket THEN "update" ELSE "stop")
          /\ mapped' = created + 1
          /\ created' = created + 1
          /\ UNCHANGED down

\* A leave on the socket looks the player up.
BeginOnExisting(w, o) ==
    /\ o.kind = "leave" /\ w = Socket
    /\ mapped # Nothing
    /\ Arrive(w, o, mapped, "stop")
    /\ UNCHANGED <<mapped, created, down>>

BeginDestroy(w, o) ==
    /\ o.kind = "destroy"
    /\ Arrive(w, o, Nothing, "remove")
    /\ UNCHANGED <<mapped, created, down>>

\* Fault: the registered tasks are left alone.
StopNoPlayers == UNCHANGED <<gw, speak, registered>>

\* Session::stop_all_players aborts every registered task.
StopAllPlayers ==
    /\ Abort({t \in registered : Running(t)})
    /\ registered' = {}

\* Session::shutdown: the registered tasks are aborted, then the players are
\* destroyed.  A PATCH keeps the session's entry locked, so only DELETEs can
\* still be under way.
Shutdown(w, o) ==
    /\ o.kind = "shutdown" /\ w = Socket
    /\ pc[w] = "idle"
    /\ served < MaxOps
    /\ ~down
    /\ \A v \in Workers : pc[v] = "idle" \/ op[v].kind = "destroy"
    /\ down' = TRUE
    /\ StopAllPlayers
    /\ served' = served + 1
    /\ op' = [op EXCEPT ![w] = o]
    /\ pc' = [pc EXCEPT ![w] = "remove"]
    /\ UNCHANGED <<playerVars, ready, spawned, cred, home, ctx, new>>

Begin(w, o) ==
    \/ BeginOnPlayer(w, o) \/ BeginOnExisting(w, o)
    \/ BeginDestroy(w, o) \/ Shutdown(w, o)

Goto(w, step) == pc' = [pc EXCEPT ![w] = step]

\* The request of w is over.
Finish(w) ==
    /\ pc' = [pc EXCEPT ![w] = "idle"]
    /\ op' = [op EXCEPT ![w] = NoOp]
    /\ ctx' = [ctx EXCEPT ![w] = Nothing]

\* connect_voice: the engine gets the DAVE state of the new gateway, and the
\* task is spawned.  Without a channel number the task ends at once.
Connect(w) ==
    LET t == spawned + 1
        bad == op[w].cred \in BadCreds
    IN  /\ spawned' = t
        /\ gw' = [gw EXCEPT ![t] = IF bad THEN "finished" ELSE "running"]
        /\ cred' = [cred EXCEPT ![t] = op[w].cred]
        /\ home' = [home EXCEPT ![t] = ctx[w]]
        /\ dave' = IF bad THEN dave ELSE [dave EXCEPT ![ctx[w]] = t]

\* Fault: the task is not registered.
RegisterNot(t) == UNCHANGED registered

\* Session::register_task prunes the handles of finished tasks.
Register(t) == registered' = {r \in registered : gw[r] # "finished"} \cup {t}

\* handle_voice_update under the lock: is a gateway to be started?
Changed(w) == voice[ctx[w]] # op[w].cred \/ gtask[ctx[w]] = Nothing

\* It is: the old task is aborted and awaited, and the lock is dropped.
UpdateVoice(w) ==
    LET p == ctx[w]
    IN  /\ pc[w] = "update"
        /\ holder[p] = Free
        /\ Changed(w)
        /\ voice' = [voice EXCEPT ![p] = op[w].cred]
        /\ Abort({gtask[p]} \cap Tasks)
        /\ gtask' = [gtask EXCEPT ![p] = Nothing]
        /\ Goto(w, "connect")
        /\ UNCHANGED <<mapped, created, holder, dave, ready, spawned, cred, home,
                       registered, op, ctx, new, served, down>>

\* It is not: an update that changes nothing keeps the task.
KeepGateway(w) ==
    /\ pc[w] = "update"
    /\ holder[ctx[w]] = Free
    /\ ~Changed(w)
    /\ Finish(w)
    /\ UNCHANGED <<playerVars, ready, taskVars, new, served, down>>

\* Fault: the task that is installed has to go.
TakeOver(w) ==
    /\ Abort({gtask[ctx[w]]})
    /\ gtask' = [gtask EXCEPT ![ctx[w]] = new[w]]

\* The task of w lost to the one that is installed.
GiveWay(w) == Abort({new[w]}) /\ UNCHANGED gtask

\* handle_voice_update without the lock.
ConnectUnlocked(w) ==
    /\ pc[w] = "connect"
    /\ Connect(w)
    /\ new' = [new EXCEPT ![w] = spawned + 1]
    /\ Goto(w, "reinstall")
    /\ UNCHANGED <<mapped, created, holder, voice, gtask, ready, speak, registered,
                   op, ctx, served, down>>

\* The lock again, and another task is installed: this one is dropped.
DropTask(w) ==
    /\ pc[w] = "reinstall"
    /\ holder[ctx[w]] = Free
    /\ gtask[ctx[w]] # Nothing
    /\ GiveWay(w)
    /\ new' = [new EXCEPT ![w] = Nothing]
    /\ Finish(w)
    /\ UNCHANGED <<mapped, created, holder, voice, dave, ready, spawned, cred, home,
                   registered, served, down>>

\* The lock again, and no task is installed: this one is.
InstallTask(w) ==
    /\ pc[w] = "reinstall"
    /\ holder[ctx[w]] = Free
    /\ gtask[ctx[w]] = Nothing
    /\ gtask' = [gtask EXCEPT ![ctx[w]] = new[w]]
    /\ Register(new[w])
    /\ new' = [new EXCEPT ![w] = Nothing]
    /\ Finish(w)
    /\ UNCHANGED <<mapped, created, holder, voice, dave, ready, spawned, gw, cred, home,
                   speak, served, down>>

\* handle_voice, a leave and destroy take the lock; the task is aborted and
\* awaited, and the lock is kept meanwhile.
StopGateway(w) ==
    LET p == ctx[w]
    IN  /\ pc[w] = "stop"
        /\ holder[p] = Free
        /\ holder' = [holder EXCEPT ![p] = w]
        /\ voice' = IF op[w].kind = "update" THEN [voice EXCEPT ![p] = op[w].cred] ELSE voice
        /\ Abort({gtask[p]} \cap Tasks)
        /\ gtask' = [gtask EXCEPT ![p] = Nothing]
        /\ Goto(w, "clear")
        /\ UNCHANGED <<mapped, created, dave, ready, spawned, cred, home, registered,
                       op, ctx, new, served, down>>

\* A leave forgets the credentials.
ForgetVoice(w) ==
    voice' = IF op[w].kind = "leave" THEN [voice EXCEPT ![ctx[w]] = NoVoice] ELSE voice

\* Fault: the lock is not given back.
KeepLock(w) == UNCHANGED holder

Unlock(w) == holder' = [holder EXCEPT ![ctx[w]] = Free]

\* voice_ready is cleared, and a leave or destroy is over.
ClearReady(w) ==
    /\ pc[w] = "clear"
    /\ ready' = [ready EXCEPT ![ctx[w]] = FALSE]
    /\ ForgetVoice(w)
    /\ IF op[w].kind = "update"
         THEN Goto(w, "install") /\ UNCHANGED <<holder, op, ctx>>
         ELSE Finish(w) /\ Unlock(w)
    /\ UNCHANGED <<mapped, created, gtask, dave, taskVars, new, served, down>>

\* handle_voice connects, registers and installs with the lock still held.
ConnectLocked(w) ==
    /\ pc[w] = "install"
    /\ Connect(w)
    /\ Register(spawned + 1)
    /\ gtask' = [gtask EXCEPT ![ctx[w]] = spawned + 1]
    /\ Unlock(w)
    /\ Finish(w)
    /\ UNCHANGED <<mapped, created, voice, ready, speak, new, served, down>>

\* Session::destroy_player removes the entry, then locks the context.
RemovePlayer(w) ==
    /\ pc[w] = "remove"
    /\ mapped' = Nothing
    /\ IF mapped = Nothing
         THEN Finish(w)
         ELSE /\ ctx' = [ctx EXCEPT ![w] = mapped]
              /\ Goto(w, "stop")
              /\ UNCHANGED op
    /\ UNCHANGED <<created, holder, voice, gtask, dave, ready, taskVars, new, served, down>>

Request(w) ==
    \/ UpdateVoice(w) \/ KeepGateway(w) \/ ConnectUnlocked(w) \/ DropTask(w)
    \/ InstallTask(w) \/ StopGateway(w) \/ ClearReady(w) \/ ConnectLocked(w) \/ RemovePlayer(w)

Next ==
    \/ \E w \in Workers : Request(w) \/ \E o \in Ops : Begin(w, o)
    \/ \E t \in Tasks : Gateway(t)

(***************************************************************************)
(* tokio polls a task that can go on and grants the lock in the order of   *)
(* the requests for it.  connect_voice only waits for the engine's mutex.  *)
(* Nothing is assumed of a gateway: it depends on the network.             *)
(***************************************************************************)
Spec == Init /\ [][Next]_vars
FairSpec == Spec /\ \A w \in Workers : WF_vars(Request(w))

-----------------------------------------------------------------------------
(***************************************************************************)
(* Properties.                                                             *)
(***************************************************************************)
\* A gateway runs only while someone can end it: it is the gateway_task of its
\* context or the task a voice update is about to install.  Two updates that
\* cross never leave a second gateway of the same context behind.
NoStrayGateway ==
    \A t \in Tasks :
        Running(t) => gtask[home[t]] = t \/ \E w \in Workers : new[w] = t

\* Session::shutdown can reach every gateway, also one whose context has left
\* the players map while it was connecting.
EveryGatewayRegistered ==
    \A t \in Tasks :
        Running(t) => t \in registered \/ \E w \in Workers : new[w] = t

\* What a request is doing at each of its steps; only the socket's own task
\* drops the lock to connect, and so has a task that is not installed.
RequestsInShape ==
    \A w \in Workers :
        /\ pc[w] \in {"update", "connect", "reinstall"} => w = Socket
        /\ pc[w] \in {"update", "connect", "reinstall", "install"} => op[w].kind = "update"
        /\ pc[w] \in {"stop", "clear"} => op[w] # NoOp
        /\ pc[w] = "remove" => op[w].kind \in {"destroy", "shutdown"}
        /\ pc[w] \notin {"idle", "remove"} => ctx[w] # Nothing
        /\ (pc[w] = "reinstall") <=> (new[w] # Nothing)

\* A context's lock is held by the request that is between stopping its
\* gateway and letting go, and no gateway is installed meanwhile.
LockIsHeld ==
    /\ \A w \in Workers : pc[w] \in {"clear", "install"} => holder[ctx[w]] = w
    /\ \A p \in Players : holder[p] # Free =>
           /\ pc[holder[p]] \in {"clear", "install"}
           /\ ctx[holder[p]] = p
           /\ gtask[p] = Nothing

\* The requests that have still to spawn a gateway.
Connecting == {w \in Workers : op[w].kind = "update" /\ pc[w] # "reinstall"}

\* Tasks and contexts are named in the order they are made, so that a new one
\* is nobody's yet; a request spawns at most one task.
NamesAreFresh ==
    /\ spawned + Cardinality(Connecting) <= served
    /\ \A p \in Players : gtask[p] <= spawned /\ (p > created => gtask[p] = Nothing)
    /\ \A w \in Workers : new[w] <= spawned /\ ctx[w] <= created
    /\ \A w \in Workers : new[w] # Nothing =>
           home[new[w]] = ctx[w] /\ cred[new[w]] = op[w].cred
    /\ \A t \in Tasks : Running(t) => home[t] # Nothing
    /\ mapped <= created

\* A voice update that is under way gave the player's credentials, or they were
\* replaced by a request that installs its own task or leaves; a context that is
\* being destroyed is not the guild's any more.
UpdateIsLatest ==
    \A w \in Workers :
        /\ /\ pc[w] \in {"connect", "reinstall"}
           /\ ctx[w] = mapped /\ holder[mapped] = Free /\ gtask[mapped] = Nothing
           => voice[mapped] \in {op[w].cred, NoVoice}
        /\ pc[w] \in {"clear", "install"} /\ op[w].kind = "update" => voice[ctx[w]] = op[w].cred
        /\ pc[w] \in {"stop", "clear"} /\ op[w].kind \in {"destroy", "shutdown"} => ctx[w] # mapped

\* Once the session is shut down nothing runs and nothing will be started.
DownIsQuiet ==
    down => /\ \A t \in Tasks : ~Running(t)
            /\ \A w \in Workers : pc[w] = "idle" \/ op[w].kind \in {"destroy", "shutdown"}

\* What a player reports of its voice comes from gateways of its own and never
\* from an older one than runs: the DAVE state it shows is that of the newest
\* gateway started in it, which may be one that has given way since
\* (opcodes.rs:197), and connected is only said after such a gateway.  A speak
\* task without its gateway is one that was aborted, with a write to come.
ReportsFollow ==
    /\ \A t \in Tasks :
          /\ speak[t] \in {"waiting", "open"} => Running(t)
          /\ Running(t) \/ speak[t] # "none" => home[t] # Nothing /\ t <= dave[home[t]]
    /\ \A p \in Players :
          /\ dave[p] <= spawned
          /\ dave[p] # Nothing => home[dave[p]] = p
          /\ ready[p] => dave[p] # Nothing

\* Whatever requests cross in the window without the lock, every running gateway
\* can be ended, through its player and through the session; the other conjuncts
\* are what this rests on.
TasksInv ==
    /\ VoiceTypeOK
    /\ NoStrayGateway
    /\ EveryGatewayRegistered
    /\ RequestsInShape
    /\ LockIsHeld
    /\ NamesAreFresh
    /\ UpdateIsLatest
    /\ DownIsQuiet

\* Gateways can be ended, and what a player reports is of its own gateways.
VoiceInv == TasksInv /\ ReportsFollow

\* An update that is older never wins over a newer one: a gateway installed in
\* the guild's player has the credentials the player shows, unless it shows none.
NewestCredentials ==
    \A p \in Players :
        p = mapped /\ holder[p] = Free /\ gtask[p] # Nothing
            => voice[p] \in {cred[gtask[p]], NoVoice}

\* A session that was shut down has no gateway, also of contexts that left the
\* map before, once its destroy is over.
ShutdownEndsGateways ==
    down /\ pc[Socket] = "idle" => \A t \in Tasks : ~Running(t)

\* Every voice request comes to its end.
VoiceRequestsEnd == \A w \in Workers : pc[w] # "idle" ~> pc[w] = "idle"
=============================================================================
