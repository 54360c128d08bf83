------------------------- MODULE VoiceConnectProofs -------------------------
(***************************************************************************)
(* Proofs about VoiceConnect for every number of requests, contexts and    *)
(* workers.  TasksInv is inductive: the window without the lock is safe    *)
(* because only the socket's task is ever in it (RequestsInShape), because *)
(* a held lock means that no gateway is installed (LockIsHeld), and        *)
(* because a destroyed context never comes back (UpdateIsLatest).  What a  *)
(* player reports (ReportsFollow) is proved on top of it.                  *)
(***************************************************************************)
EXTENDS VoiceConnect, FiniteSetTheorems, TLAPS

-----------------------------------------------------------------------------
(***************************************************************************)
(* Counting the requests that have still to connect.                       *)
(***************************************************************************)

\* Sets of workers are finite, and a smaller one has no more elements.
LEMMA WorkersCount ==
  ASSUME NEW S \in SUBSET Workers, NEW T \in SUBSET S
  PROVE  /\ IsFiniteSet(S)
         /\ Cardinality(S) \in Nat
         /\ Cardinality(T) \in Nat
         /\ Cardinality(T) <= Cardinality(S)
<1>1. IsFiniteSet(Workers)
  BY VoiceAssumption, FS_AddElement DEF Workers
<1>2. IsFiniteSet(S)
  BY <1>1, FS_Subset
<1>3. IsFiniteSet(T) /\ Cardinality(T) <= Cardinality(S)
  BY <1>2, FS_Subset
<1> QED BY <1>2, <1>3, FS_CardinalityType

\* One more worker.
LEMMA WorkerJoins ==
  ASSUME NEW S \in SUBSET Workers, NEW w \in Workers, NEW T \in SUBSET (S \cup {w})
  PROVE  Cardinality(T) \in Nat /\ Cardinality(T) <= Cardinality(S) + 1
<1>1. IsFiniteSet(S) /\ Cardinality(S) \in Nat
  BY WorkersCount
<1>2. Cardinality(S \cup {w}) \in {Cardinality(S), Cardinality(S) + 1}
  BY <1>1, FS_AddElement
<1>3. Cardinality(T) \in Nat /\ Cardinality(T) <= Cardinality(S \cup {w})
  BY WorkersCount
<1> QED BY <1>1, <1>2, <1>3

\* One worker less.
LEMMA WorkerLeaves ==
  ASSUME NEW S \in SUBSET Workers, NEW w \in S, NEW T \in SUBSET (S \ {w})
  PROVE  /\ Cardinality(S) \in Nat /\ Cardinality(T) \in Nat
         /\ Cardinality(T) + 1 <= Cardinality(S)
<1>1. IsFiniteSet(S) /\ Cardinality(S) \in Nat
  BY WorkersCount
<1>2. Cardinality(S \ {w}) = Cardinality(S) - 1
  BY <1>1, FS_RemoveElement
<1>3. Cardinality(T) \in Nat /\ Cardinality(T) <= Cardinality(S \ {w})
  <2>1. S \ {w} \in SUBSET Workers
    OBVIOUS
  <2> QED BY <2>1, WorkersCount
<1> QED BY <1>1, <1>2, <1>3

-----------------------------------------------------------------------------
(***************************************************************************)
(* The steps.                                                              *)
(***************************************************************************)

\* A request is one of the four kinds, or none.
LEMMA OpKinds ==
  ASSUME NEW o \in Ops \cup {NoOp}
  PROVE  /\ o.kind \in {"none", "update", "leave", "destroy", "shutdown"}
         /\ o.kind = "none" <=> o = NoOp
         /\ o.kind = "update" => o \in Ops /\ o.cred \in Creds
BY DEF Ops, NoOp

\* A request that has still to connect leaves room for its gateway.
LEMMA RoomToConnect ==
  ASSUME TasksInv, NEW w \in Connecting
  PROVE  spawned + 1 \in Tasks
<1>1. Connecting \in SUBSET Workers /\ {} \in SUBSET (Connecting \ {w})
  BY DEF Connecting
<1>2. Cardinality({}) = 0
  BY FS_EmptySet
<1>3. Cardinality(Connecting) \in Nat /\ 1 <= Cardinality(Connecting)
  BY <1>1, <1>2, WorkerLeaves
<1> QED BY <1>3, VoiceAssumption DEF TasksInv, VoiceTypeOK, NamesAreFresh, Tasks

\* No request, no context and no task.
LEMMA InitInv == Init => TasksInv
<1> SUFFICES ASSUME Init PROVE TasksInv
  OBVIOUS
<1> USE VoiceAssumption DEF Init
<1>1. VoiceTypeOK
  <2>1. 0 \in 0 .. MaxPlayers /\ 0 \in 0 .. MaxOps
    OBVIOUS
  <2> QED BY <2>1 DEF VoiceTypeOK
<1>2. NamesAreFresh
  <2>1. Connecting = {}
    BY DEF Connecting, NoOp
  <2>2. Cardinality(Connecting) = 0
    BY <2>1, FS_EmptySet
  <2> QED BY <2>2 DEF NamesAreFresh, Running, Players, Nothing
<1>3. RequestsInShape /\ LockIsHeld /\ UpdateIsLatest /\ DownIsQuiet
  BY DEF RequestsInShape, LockIsHeld, UpdateIsLatest, DownIsQuiet
<1>4. NoStrayGateway /\ EveryGatewayRegistered
  BY DEF NoStrayGateway, EveryGatewayRegistered, Running
<1> QED BY <1>1, <1>2, <1>3, <1>4 DEF TasksInv

\* A step of a gateway: it may end, and writes its flag and its speak task.
LEMMA QuietInv ==
  ASSUME TasksInv, UNCHANGED <<playerVars, spawned, cred, home, registered, requestVars>>,
         ready' \in [Players -> BOOLEAN],
         gw' \in [Tasks -> {"none", "running", "finished"}],
         speak' \in [Tasks -> {"none", "waiting", "open", "doomed"}],
         \A t \in Tasks : Running(t)' => Running(t)
  PROVE  TasksInv'
<1> USE DEF TasksInv, playerVars, requestVars
<1>1. VoiceTypeOK'
  BY DEF VoiceTypeOK
<1>2. NoStrayGateway' /\ EveryGatewayRegistered'
  BY DEF NoStrayGateway, EveryGatewayRegistered
<1>3. RequestsInShape' /\ LockIsHeld' /\ UpdateIsLatest'
  BY DEF RequestsInShape, LockIsHeld, UpdateIsLatest
<1>4. NamesAreFresh'
  BY DEF NamesAreFresh, Connecting
<1>5. DownIsQuiet'
  BY DEF DownIsQuiet
<1> QED BY <1>1, <1>2, <1>3, <1>4, <1>5

\* The steps of a gateway.
LEMMA GatewayInv ==
  ASSUME TasksInv, NEW t \in Tasks, Gateway(t)
  PROVE  TasksInv'
<1>0. /\ ready \in [Players -> BOOLEAN]
      /\ gw \in [Tasks -> {"none", "running", "finished"}]
      /\ speak \in [Tasks -> {"none", "waiting", "open", "doomed"}]
  BY DEF TasksInv, VoiceTypeOK
<1>1. /\ ready' \in [Players -> BOOLEAN]
      /\ gw' \in [Tasks -> {"none", "running", "finished"}]
      /\ speak' \in [Tasks -> {"none", "waiting", "open", "doomed"}]
  BY <1>0 DEF Gateway, StartVoice, GateClosed, GateOpen, MarkReady, Disconnect, DialFails,
      GatewayEnds, SetReady, taskVars
<1>2. \A u \in Tasks : Running(u)' => Running(u)
  BY <1>0 DEF Running, Gateway, StartVoice, GateClosed, GateOpen, MarkReady, Disconnect,
      DialFails, GatewayEnds, taskVars
<1>3. UNCHANGED <<playerVars, spawned, cred, home, registered, requestVars>>
  BY DEF Gateway, StartVoice, GateClosed, GateOpen, MarkReady, Disconnect, DialFails,
      GatewayEnds, taskVars
<1> QED BY <1>1, <1>2, <1>3, QuietInv

\* abort() ends the tasks it is given and no other.
LEMMA AbortEnds ==
  ASSUME TasksInv, NEW ts, Abort(ts)
  PROVE  /\ gw' \in [Tasks -> {"none", "running", "finished"}]
         /\ speak' \in [Tasks -> {"none", "waiting", "open", "doomed"}]
         /\ \A t \in Tasks : Running(t)' <=> Running(t) /\ t \notin ts
<1>0. /\ gw \in [Tasks -> {"none", "running", "finished"}]
      /\ speak \in [Tasks -> {"none", "waiting", "open", "doomed"}]
  BY DEF TasksInv, VoiceTypeOK
<1>1. gw' = [t \in Tasks |-> IF t \in ts THEN "finished" ELSE gw[t]]
  BY DEF Abort
<1>2. \A t \in Tasks : gw'[t] = IF t \in ts THEN "finished" ELSE gw[t]
  BY <1>1
<1>3. speak' \in [Tasks -> {"none", "waiting", "open", "doomed"}]
  BY <1>0 DEF Abort
<1> QED BY <1>0, <1>1, <1>2, <1>3 DEF Running

\* A request arrives, on a context that exists by then.
LEMMA ArriveInv ==
  ASSUME TasksInv, NEW w \in Workers, NEW o \in Ops, NEW p \in {Nothing} \cup Players,
         NEW step \in {"update", "stop", "remove"}, Arrive(w, o, p, step),
         down' = down,
         \/ /\ mapped' = mapped /\ created' = created /\ p \in {Nothing, mapped}
         \/ /\ mapped = Nothing /\ created < MaxPlayers
            /\ mapped' = created + 1 /\ created' = created + 1 /\ p = created + 1,
         step = "update" => w = Socket /\ o.kind = "update" /\ p # Nothing,
         step = "stop" => o.kind \in {"update", "leave"} /\ p # Nothing,
         step = "remove" => o.kind = "destroy"
  PROVE  TasksInv'
<1> USE VoiceAssumption DEF TasksInv, Arrive, taskVars
<1>0. /\ created \in Nat /\ mapped \in {Nothing} \cup Players /\ mapped <= created
      /\ created' \in 0 .. MaxPlayers /\ mapped' \in {Nothing} \cup Players
      /\ created <= created' /\ p <= created' /\ mapped' <= created'
  BY DEF VoiceTypeOK, NamesAreFresh, Players, Nothing
<1>a. o.kind \in {"update", "leave", "destroy", "shutdown"} /\ o # NoOp
  BY OpKinds DEF Ops, NoOp
<1>b. /\ op' = [op EXCEPT ![w] = o] /\ op'[w] = o
      /\ ctx' = [ctx EXCEPT ![w] = p] /\ ctx'[w] = p
      /\ pc' = [pc EXCEPT ![w] = step] /\ pc'[w] = step
      /\ \A v \in Workers \ {w} : op'[v] = op[v] /\ ctx'[v] = ctx[v] /\ pc'[v] = pc[v]
      /\ pc[w] = "idle" /\ new[w] = Nothing
  BY DEF VoiceTypeOK, RequestsInShape
<1>1. VoiceTypeOK'
  <2>1. served' \in 0 .. MaxOps
    BY DEF VoiceTypeOK
  <2> QED BY <1>0, <1>b, <2>1 DEF VoiceTypeOK
<1>2. NoStrayGateway' /\ EveryGatewayRegistered'
  BY DEF NoStrayGateway, EveryGatewayRegistered, Running
<1>3. RequestsInShape'
  BY <1>a, <1>b DEF RequestsInShape
<1>4. LockIsHeld'
  BY <1>b DEF LockIsHeld, VoiceTypeOK
<1>5. NamesAreFresh'
  <2>1. Connecting \in SUBSET Workers /\ Connecting' \in SUBSET (Connecting \cup {w})
    BY <1>b DEF Connecting
  <2>2. /\ Cardinality(Connecting') \in Nat /\ Cardinality(Connecting) \in Nat
        /\ Cardinality(Connecting') <= Cardinality(Connecting) + 1
    BY <2>1, WorkerJoins, WorkersCount
  <2>3. spawned + Cardinality(Connecting') <= served'
    BY <2>2 DEF NamesAreFresh, VoiceTypeOK
  <2>4. \A q \in Players : gtask[q] <= spawned /\ (q > created' => gtask[q] = Nothing)
    BY <1>0 DEF NamesAreFresh, Players
  <2>5. \A v \in Workers : new[v] <= spawned /\ ctx'[v] <= created'
    <3>1. \A v \in Workers : ctx[v] <= created /\ ctx[v] \in Nat
      BY DEF NamesAreFresh, VoiceTypeOK, Players, Nothing
    <3>2. \A v \in Workers : ctx'[v] <= created'
      BY <1>0, <1>b, <3>1
    <3> QED BY <3>2 DEF NamesAreFresh
  <2>6. \A v \in Workers : new[v] # Nothing =>
           home[new[v]] = ctx'[v] /\ cred[new[v]] = op'[v].cred
    BY <1>b DEF NamesAreFresh
  <2>7. \A t \in Tasks : Running(t)' => home[t] # Nothing
    BY DEF NamesAreFresh, Running
  <2> QED BY <1>0, <2>3, <2>4, <2>5, <2>6, <2>7 DEF NamesAreFresh
<1>6. UpdateIsLatest'
  <2>1. \A v \in Workers : ctx[v] <= created /\ ctx[v] \in {Nothing} \cup Players
    BY DEF NamesAreFresh, VoiceTypeOK
  <2>2. mapped' # mapped => \A v \in Workers : ctx[v] # mapped'
    BY <1>0, <2>1 DEF Players, Nothing
  <2> QED BY <1>b, <2>2 DEF UpdateIsLatest
<1>7. DownIsQuiet'
  BY DEF DownIsQuiet, Running
<1> QED BY <1>1, <1>2, <1>3, <1>4, <1>5, <1>6, <1>7

\* The requests that begin.
LEMMA BeginInv ==
  ASSUME TasksInv, NEW w \in Workers, NEW o \in Ops,
         BeginOnPlayer(w, o) \/ BeginOnExisting(w, o) \/ BeginDestroy(w, o)
  PROVE  TasksInv'
<1>0. mapped \in {Nothing} \cup Players /\ created \in 0 .. MaxPlayers
  BY DEF TasksInv, VoiceTypeOK
<1>1. CASE BeginOnPlayer(w, o)
  <2>1. o.kind = "update" \/ (o.kind = "leave" /\ w # Socket)
    BY <1>1 DEF BeginOnPlayer
  <2>2. CASE mapped # Nothing
    <3>1. /\ Arrive(w, o, mapped, IF w = Socket THEN "update" ELSE "stop")
          /\ mapped' = mapped /\ created' = created /\ down' = down
      BY <1>1, <2>2 DEF BeginOnPlayer
    <3> QED BY <1>0, <2>1, <2>2, <3>1, ArriveInv
  <2>3. CASE mapped = Nothing
    <3>1. /\ Arrive(w, o, created + 1, IF w = Socket THEN "update" ELSE "stop")
          /\ mapped' = created + 1 /\ created' = created + 1 /\ down' = down
          /\ created < MaxPlayers
      BY <1>1, <2>3 DEF BeginOnPlayer
    <3>2. created + 1 \in {Nothing} \cup Players /\ created + 1 # Nothing
      BY <1>0, <3>1, VoiceAssumption DEF Players, Nothing
    <3> QED BY <2>1, <2>3, <3>1, <3>2, ArriveInv
  <2> QED BY <2>2, <2>3
<1>2. CASE BeginOnExisting(w, o)
  BY <1>0, <1>2, ArriveInv DEF BeginOnExisting
<1>3. CASE BeginDestroy(w, o)
  BY <1>0, <1>3, ArriveInv DEF BeginDestroy
<1> QED BY <1>1, <1>2, <1>3

\* Session::shutdown: what runs is registered, and all of it is aborted.
LEMMA ShutdownInv ==
  ASSUME TasksInv, NEW w \in Workers, NEW o \in Ops, Shutdown(w, o)
  PROVE  TasksInv'
<1> USE VoiceAssumption DEF TasksInv, Shutdown, playerVars
<1> DEFINE ts == {t \in registered : Running(t)}
<1>1. /\ gw' \in [Tasks -> {"none", "running", "finished"}]
      /\ speak' \in [Tasks -> {"none", "waiting", "open", "doomed"}]
      /\ \A t \in Tasks : Running(t)' <=> Running(t) /\ t \notin ts
  BY AbortEnds DEF StopAllPlayers
<1>2. w = Socket /\ o.kind = "shutdown" /\ o # NoOp
  BY DEF NoOp
<1>3. \A v \in Workers : new[v] = Nothing
  BY <1>2 DEF RequestsInShape
<1>4. \A t \in Tasks : ~Running(t)'
  <2>1. \A t \in Tasks : Running(t) => t \in registered
    BY <1>3 DEF EveryGatewayRegistered, Tasks, Nothing
  <2> QED BY <1>1, <2>1
<1>b. /\ op' = [op EXCEPT ![w] = o] /\ op'[w] = o
      /\ pc' = [pc EXCEPT ![w] = "remove"] /\ pc'[w] = "remove"
      /\ \A v \in Workers \ {w} : op'[v] = op[v] /\ pc'[v] = pc[v]
      /\ pc[w] = "idle" /\ registered' = {}
  BY DEF VoiceTypeOK, StopAllPlayers
<1>5. VoiceTypeOK'
  <2>1. served' \in 0 .. MaxOps
    BY DEF VoiceTypeOK
  <2> QED BY <1>1, <1>b, <2>1 DEF VoiceTypeOK
<1>6. NoStrayGateway' /\ EveryGatewayRegistered'
  BY <1>4 DEF NoStrayGateway, EveryGatewayRegistered
<1>7. RequestsInShape'
  BY <1>2, <1>3, <1>b DEF RequestsInShape
<1>8. LockIsHeld'
  BY <1>b DEF LockIsHeld, VoiceTypeOK
<1>9. NamesAreFresh'
  <2>1. Connecting \in SUBSET Workers /\ Connecting' \in SUBSET Connecting
    BY <1>2, <1>b DEF Connecting
  <2>2. /\ Cardinality(Connecting') \in Nat /\ Cardinality(Connecting) \in Nat
        /\ Cardinality(Connecting') <= Cardinality(Connecting)
    BY <2>1, WorkersCount
  <2>3. spawned + Cardinality(Connecting') <= served'
    BY <2>2 DEF NamesAreFresh, VoiceTypeOK
  <2> QED BY <1>3, <1>4, <2>3 DEF NamesAreFresh
<1>10. UpdateIsLatest'
  BY <1>b DEF UpdateIsLatest
<1>11. DownIsQuiet'
  BY <1>2, <1>4, <1>b DEF DownIsQuiet
<1> QED BY <1>5, <1>6, <1>7, <1>8, <1>9, <1>10, <1>11

\* What a worker at one of these steps has: a context that exists.
LEMMA AtContext ==
  ASSUME TasksInv, NEW w \in Workers, pc[w] \notin {"idle", "remove"}
  PROVE  /\ ctx[w] \in Players
         /\ op[w] \in Ops /\ op[w] # NoOp
         /\ gtask[ctx[w]] \in {Nothing} \cup Tasks
BY DEF TasksInv, VoiceTypeOK, RequestsInShape, NoOp, Ops

\* Tasks and contexts are numbered from one.
LEMMA NamesAreNotNothing == Nothing \notin Tasks /\ Nothing \notin Players
BY DEF Tasks, Players, Nothing

\* An update under the lock: the old gateway goes, the credentials come.
LEMMA UpdateVoiceInv ==
  ASSUME TasksInv, NEW w \in Workers, UpdateVoice(w)
  PROVE  TasksInv'
<1> USE VoiceAssumption DEF TasksInv, UpdateVoice, Goto
<1> DEFINE p == ctx[w]
<1>0. p \in Players /\ w = Socket /\ op[w].kind = "update" /\ op[w].cred \in Creds
  BY AtContext, OpKinds DEF RequestsInShape
<1>1. /\ gw' \in [Tasks -> {"none", "running", "finished"}]
      /\ speak' \in [Tasks -> {"none", "waiting", "open", "doomed"}]
      /\ \A t \in Tasks : Running(t)' <=> Running(t) /\ t \notin ({gtask[p]} \cap Tasks)
  BY AbortEnds
<1>b. /\ voice' = [voice EXCEPT ![p] = op[w].cred] /\ voice'[p] = op[w].cred
      /\ gtask' = [gtask EXCEPT ![p] = Nothing] /\ gtask'[p] = Nothing
      /\ pc' = [pc EXCEPT ![w] = "connect"] /\ pc'[w] = "connect"
      /\ \A q \in Players \ {p} : voice'[q] = voice[q] /\ gtask'[q] = gtask[q]
      /\ \A v \in Workers \ {w} : pc'[v] = pc[v]
      /\ holder[p] = Free /\ pc[w] = "update"
  BY <1>0 DEF VoiceTypeOK
<1> HIDE DEF p
<1>2. VoiceTypeOK'
  <2>1. voice' \in [Players -> Creds \cup {NoVoice}]
    BY <1>0, <1>b DEF VoiceTypeOK
  <2>2. gtask' \in [Players -> {Nothing} \cup Tasks]
    BY <1>b DEF VoiceTypeOK
  <2>3. pc' \in [Workers -> {"idle", "update", "connect", "reinstall", "stop",
                             "clear", "install", "remove"}]
    BY <1>b DEF VoiceTypeOK
  <2> QED BY <1>1, <2>1, <2>2, <2>3 DEF VoiceTypeOK
<1>3. NoStrayGateway'
  BY <1>0, <1>1, <1>b DEF NoStrayGateway, NamesAreFresh, VoiceTypeOK
<1>4. EveryGatewayRegistered'
  BY <1>1 DEF EveryGatewayRegistered
<1>5. RequestsInShape'
  BY <1>0, <1>b DEF RequestsInShape, p
<1>6. LockIsHeld'
  BY <1>0, <1>b DEF LockIsHeld, VoiceTypeOK
<1>7. NamesAreFresh'
  <2>1. Connecting' = Connecting
    BY <1>0, <1>b DEF Connecting
  <2>2. \A q \in Players : gtask'[q] <= spawned /\ (q > created => gtask'[q] = Nothing)
    BY <1>b DEF NamesAreFresh, VoiceTypeOK, Nothing
  <2> QED BY <1>1, <2>1, <2>2 DEF NamesAreFresh
<1>8. UpdateIsLatest'
  <2>1. \A v \in Workers : pc'[v] \in {"connect", "reinstall"} => v = w
    BY <1>0, <1>5 DEF RequestsInShape
  <2>2. \A v \in Workers : pc'[v] \in {"clear", "install"} =>
           v # w /\ ctx[v] \in Players \ {p}
    <3>1. \A v \in Workers : v # Free
      BY DEF Workers
    <3>2. \A v \in Workers : pc'[v] \in {"clear", "install"} => v # w /\ ctx[v] # Nothing
      BY <1>b DEF RequestsInShape
    <3>3. \A v \in Workers : pc'[v] \in {"clear", "install"} => ctx[v] # p
      BY <1>b, <3>1, <3>2 DEF LockIsHeld
    <3> QED BY <3>2, <3>3 DEF VoiceTypeOK
  <2>3. \A v \in Workers : ctx'[v] = ctx[v] /\ op'[v] = op[v]
    OBVIOUS
  <2>4. mapped' = mapped
    OBVIOUS
  <2>5. \A v \in Workers :
          /\ pc'[v] \in {"connect", "reinstall"} /\ ctx[v] = mapped
             => voice'[mapped] \in {op[v].cred, NoVoice}
          /\ pc'[v] \in {"clear", "install"} /\ op[v].kind = "update"
             => voice'[ctx[v]] = op[v].cred
          /\ pc'[v] \in {"stop", "clear"} /\ op[v].kind \in {"destroy", "shutdown"}
             => ctx[v] # mapped
    BY <1>0, <1>b, <2>1, <2>2 DEF UpdateIsLatest, p
  <2> QED BY <2>3, <2>4, <2>5 DEF UpdateIsLatest
<1>9. DownIsQuiet'
  BY <1>1, <1>b DEF DownIsQuiet
<1> QED BY <1>2, <1>3, <1>4, <1>5, <1>6, <1>7, <1>8, <1>9

\* A request that ends without a change but its own, and holds nothing.
LEMMA FinishInv ==
  ASSUME TasksInv, NEW w \in Workers, Finish(w), new[w] = Nothing,
         pc[w] \notin {"clear", "install"},
         UNCHANGED <<created, holder, voice, gtask, dave, ready, taskVars, new, served, down>>,
         mapped' \in {mapped, Nothing}
  PROVE  TasksInv'
<1> USE VoiceAssumption DEF TasksInv, Finish, taskVars
<1>b. /\ op' = [op EXCEPT ![w] = NoOp] /\ op'[w] = NoOp
      /\ ctx' = [ctx EXCEPT ![w] = Nothing] /\ ctx'[w] = Nothing
      /\ pc' = [pc EXCEPT ![w] = "idle"] /\ pc'[w] = "idle"
      /\ \A v \in Workers \ {w} : op'[v] = op[v] /\ ctx'[v] = ctx[v] /\ pc'[v] = pc[v]
  BY DEF VoiceTypeOK
<1>1. VoiceTypeOK'
  BY <1>b DEF VoiceTypeOK
<1>2. NoStrayGateway' /\ EveryGatewayRegistered'
  BY DEF NoStrayGateway, EveryGatewayRegistered, Running
<1>3. RequestsInShape'
  BY <1>b DEF RequestsInShape
<1>4. LockIsHeld'
  BY <1>b DEF LockIsHeld, VoiceTypeOK
<1>5. NamesAreFresh'
  <2>1. Connecting \in SUBSET Workers /\ Connecting' \in SUBSET Connecting
    BY <1>b DEF Connecting, NoOp
  <2>2. /\ Cardinality(Connecting') \in Nat /\ Cardinality(Connecting) \in Nat
        /\ Cardinality(Connecting') <= Cardinality(Connecting)
    BY <2>1, WorkersCount
  <2>3. spawned + Cardinality(Connecting') <= served'
    BY <2>2 DEF NamesAreFresh, VoiceTypeOK
  <2>4. mapped' <= created /\ \A v \in Workers : ctx'[v] <= created
    <3>1. Nothing <= created
      BY DEF VoiceTypeOK, Nothing
    <3> QED BY <1>b, <3>1 DEF NamesAreFresh
  <2>5. \A v \in Workers : new[v] # Nothing =>
           home[new[v]] = ctx'[v] /\ cred[new[v]] = op'[v].cred
    BY <1>b DEF NamesAreFresh
  <2> QED BY <2>3, <2>4, <2>5 DEF NamesAreFresh, Running
<1>6. UpdateIsLatest'
  <2>1. \A v \in Workers : pc[v] \notin {"idle", "remove"} => ctx[v] # Nothing
    BY DEF RequestsInShape
  <2> QED BY <1>b, <2>1 DEF UpdateIsLatest
<1>7. DownIsQuiet'
  BY <1>b DEF DownIsQuiet, Running
<1> QED BY <1>1, <1>2, <1>3, <1>4, <1>5, <1>6, <1>7

\* destroy_player takes the context out of the map; it never comes back.
LEMMA RemovePlayerInv ==
  ASSUME TasksInv, NEW w \in Workers, RemovePlayer(w)
  PROVE  TasksInv'
<1>0. pc[w] = "remove" /\ new[w] = Nothing /\ op[w].kind \in {"destroy", "shutdown"}
  BY DEF RemovePlayer, TasksInv, RequestsInShape
<1>1. CASE mapped = Nothing
  BY <1>0, <1>1, FinishInv DEF RemovePlayer
<1>2. CASE mapped # Nothing
  <2> USE VoiceAssumption DEF TasksInv, RemovePlayer, Goto, taskVars
  <2>b. /\ mapped' = Nothing /\ op' = op
        /\ ctx' = [ctx EXCEPT ![w] = mapped] /\ ctx'[w] = mapped
        /\ pc' = [pc EXCEPT ![w] = "stop"] /\ pc'[w] = "stop"
        /\ \A v \in Workers \ {w} : ctx'[v] = ctx[v] /\ pc'[v] = pc[v]
    BY <1>2 DEF VoiceTypeOK
  <2>1. VoiceTypeOK'
    BY <2>b DEF VoiceTypeOK
  <2>2. NoStrayGateway' /\ EveryGatewayRegistered'
    BY DEF NoStrayGateway, EveryGatewayRegistered, Running
  <2>3. RequestsInShape'
    BY <1>0, <1>2, <2>b DEF RequestsInShape, NoOp
  <2>4. LockIsHeld'
    BY <1>0, <2>b DEF LockIsHeld, VoiceTypeOK
  <2>5. NamesAreFresh'
    <3>1. Connecting' = Connecting
      BY <1>0, <2>b DEF Connecting
    <3>2. mapped' <= created /\ \A v \in Workers : ctx'[v] <= created
      BY <2>b DEF NamesAreFresh, VoiceTypeOK, Nothing
    <3>3. \A v \in Workers : new[v] # Nothing =>
             home[new[v]] = ctx'[v] /\ cred[new[v]] = op'[v].cred
      BY <1>0, <2>b DEF NamesAreFresh
    <3> QED BY <3>1, <3>2, <3>3 DEF NamesAreFresh, Running
  <2>6. UpdateIsLatest'
    <3>1. \A v \in Workers : pc[v] \notin {"idle", "remove"} => ctx[v] # Nothing
      BY DEF RequestsInShape
    <3> QED BY <1>0, <1>2, <2>b, <3>1 DEF UpdateIsLatest
  <2>7. DownIsQuiet'
    BY <1>0, <2>b DEF DownIsQuiet, Running
  <2> QED BY <2>1, <2>2, <2>3, <2>4, <2>5, <2>6, <2>7
<1> QED BY <1>1, <1>2

\* connect_voice gives the next name to a new gateway of the worker's context.
LEMMA ConnectParts ==
  ASSUME TasksInv, NEW w \in Workers, pc[w] \in {"connect", "install"}, Connect(w)
  PROVE  LET t == spawned + 1
         IN  /\ t \in Tasks /\ spawned' = t /\ w \in Connecting /\ t # Nothing
             /\ gw' \in [Tasks -> {"none", "running", "finished"}]
             /\ \A u \in Tasks \ {t} : Running(u)' <=> Running(u)
             /\ cred' \in [Tasks -> Creds \cup {NoVoice}] /\ cred'[t] = op[w].cred
             /\ home' \in [Tasks -> {Nothing} \cup Players] /\ home'[t] = ctx[w]
             /\ \A u \in Tasks \ {t} : cred'[u] = cred[u] /\ home'[u] = home[u]
             /\ dave' \in [Players -> {Nothing} \cup Tasks]
<1> DEFINE t == spawned + 1
<1>1. /\ w \in Connecting /\ op[w].cred \in Creds /\ ctx[w] \in Players
  BY AtContext, OpKinds DEF TasksInv, RequestsInShape, Connecting
<1>2. t \in Tasks
  BY <1>1, RoomToConnect
<1>3. t # Nothing
  BY DEF TasksInv, VoiceTypeOK, Nothing
<1> HIDE DEF t
<1>4. /\ spawned' = t
      /\ gw' = [gw EXCEPT ![t] = IF op[w].cred \in BadCreds THEN "finished" ELSE "running"]
      /\ cred' = [cred EXCEPT ![t] = op[w].cred]
      /\ home' = [home EXCEPT ![t] = ctx[w]]
      /\ dave' = IF op[w].cred \in BadCreds THEN dave ELSE [dave EXCEPT ![ctx[w]] = t]
  BY DEF Connect, t
<1>5. /\ gw \in [Tasks -> {"none", "running", "finished"}]
      /\ cred \in [Tasks -> Creds \cup {NoVoice}]
      /\ home \in [Tasks -> {Nothing} \cup Players]
      /\ dave \in [Players -> {Nothing} \cup Tasks]
  BY DEF TasksInv, VoiceTypeOK
<1>6. /\ spawned' = t
      /\ gw' \in [Tasks -> {"none", "running", "finished"}]
      /\ \A u \in Tasks \ {t} : Running(u)' <=> Running(u)
      /\ cred' \in [Tasks -> Creds \cup {NoVoice}] /\ cred'[t] = op[w].cred
      /\ home' \in [Tasks -> {Nothing} \cup Players] /\ home'[t] = ctx[w]
      /\ \A u \in Tasks \ {t} : cred'[u] = cred[u] /\ home'[u] = home[u]
      /\ dave' \in [Players -> {Nothing} \cup Tasks]
  BY <1>1, <1>2, <1>4, <1>5 DEF Running
<1> QED BY <1>1, <1>2, <1>3, <1>6 DEF t

\* The socket's task connects without the lock.
LEMMA ConnectUnlockedInv ==
  ASSUME TasksInv, NEW w \in Workers, ConnectUnlocked(w)
  PROVE  TasksInv'
<1> USE VoiceAssumption DEF TasksInv, ConnectUnlocked, Goto
<1> DEFINE t == spawned + 1
<1>0. w = Socket /\ op[w].kind = "update" /\ ctx[w] \in Players /\ pc[w] = "connect"
  BY AtContext DEF RequestsInShape
<1>1. /\ t \in Tasks /\ spawned' = t /\ w \in Connecting /\ t # Nothing
      /\ gw' \in [Tasks -> {"none", "running", "finished"}]
      /\ \A u \in Tasks \ {t} : Running(u)' <=> Running(u)
      /\ cred' \in [Tasks -> Creds \cup {NoVoice}] /\ cred'[t] = op[w].cred
      /\ home' \in [Tasks -> {Nothing} \cup Players] /\ home'[t] = ctx[w]
      /\ \A u \in Tasks \ {t} : cred'[u] = cred[u] /\ home'[u] = home[u]
      /\ dave' \in [Players -> {Nothing} \cup Tasks]
  BY <1>0, ConnectParts
<1>b. /\ new' = [new EXCEPT ![w] = t] /\ new'[w] = t
      /\ pc' = [pc EXCEPT ![w] = "reinstall"] /\ pc'[w] = "reinstall"
      /\ \A v \in Workers \ {w} : new'[v] = new[v] /\ pc'[v] = pc[v] /\ new[v] = Nothing
      /\ new[w] = Nothing
  BY <1>0 DEF VoiceTypeOK, RequestsInShape
<1> HIDE DEF t
<1>2. VoiceTypeOK'
  <2>1. spawned' \in 0 .. MaxOps
    BY <1>1 DEF Tasks
  <2>2. new' \in [Workers -> {Nothing} \cup Tasks]
    BY <1>1, <1>b DEF VoiceTypeOK
  <2>3. pc' \in [Workers -> {"idle", "update", "connect", "reinstall", "stop",
                             "clear", "install", "remove"}]
    BY <1>b DEF VoiceTypeOK
  <2> QED BY <1>1, <2>1, <2>2, <2>3 DEF VoiceTypeOK
<1>c. gtask' = gtask /\ registered' = registered
  OBVIOUS
<1> HIDE DEF ConnectUnlocked
<1>3. NoStrayGateway'
  <2>1. \A u \in Tasks : Running(u) => gtask[home[u]] = u
    BY <1>b, NamesAreNotNothing DEF NoStrayGateway
  <2> QED BY <1>1, <1>b, <1>c, <2>1 DEF NoStrayGateway
<1>4. EveryGatewayRegistered'
  <2>1. \A u \in Tasks : Running(u) => u \in registered
    BY <1>b, NamesAreNotNothing DEF EveryGatewayRegistered
  <2> QED BY <1>1, <1>b, <1>c, <2>1 DEF EveryGatewayRegistered
<1> USE DEF ConnectUnlocked
<1>5. RequestsInShape'
  BY <1>0, <1>1, <1>b DEF RequestsInShape
<1>6. LockIsHeld'
  BY <1>0, <1>b DEF LockIsHeld, VoiceTypeOK
<1>7. NamesAreFresh'
  <2>1. Connecting \in SUBSET Workers /\ Connecting' \in SUBSET (Connecting \ {w})
    BY <1>b DEF Connecting
  <2>2. /\ Cardinality(Connecting') \in Nat /\ Cardinality(Connecting) \in Nat
        /\ Cardinality(Connecting') + 1 <= Cardinality(Connecting)
    BY <1>1, <2>1, WorkerLeaves
  <2>3. spawned' + Cardinality(Connecting') <= served'
    BY <1>1, <2>2 DEF NamesAreFresh, VoiceTypeOK, t
  <2>4. \A q \in Players : gtask'[q] <= spawned' /\ (q > created' => gtask'[q] = Nothing)
    <3>1. \A q \in Players : gtask[q] \in Nat
      BY DEF VoiceTypeOK, Tasks, Nothing
    <3> QED BY <1>1, <3>1 DEF NamesAreFresh, VoiceTypeOK, t
  <2>5. \A v \in Workers : new'[v] <= spawned' /\ ctx'[v] <= created'
    <3>1. Nothing <= t /\ t <= t
      BY <1>1 DEF Tasks, Nothing
    <3> QED BY <1>1, <1>b, <3>1 DEF NamesAreFresh
  <2>6. \A v \in Workers : new'[v] # Nothing =>
           home'[new'[v]] = ctx'[v] /\ cred'[new'[v]] = op'[v].cred
    BY <1>1, <1>b
  <2>7. \A u \in Tasks : Running(u)' => home'[u] # Nothing
    BY <1>0, <1>1 DEF NamesAreFresh, Players, Nothing
  <2> QED BY <2>3, <2>4, <2>5, <2>6, <2>7 DEF NamesAreFresh
<1>8. UpdateIsLatest'
  BY <1>0, <1>b DEF UpdateIsLatest
<1>9. DownIsQuiet'
  BY <1>0 DEF DownIsQuiet
<1> QED BY <1>2, <1>3, <1>4, <1>5, <1>6, <1>7, <1>8, <1>9

\* What the two ends of a voice update have in common: the request is over.
LEMMA ReinstalledParts ==
  ASSUME TasksInv, NEW w \in Workers, pc[w] = "reinstall", Finish(w),
         new' = [new EXCEPT ![w] = Nothing]
  PROVE  /\ w = Socket /\ op[w].kind = "update" /\ ctx[w] \in Players
         /\ new[w] \in Tasks
         /\ op' \in [Workers -> Ops \cup {NoOp}] /\ op'[w] = NoOp
         /\ ctx' \in [Workers -> {Nothing} \cup Players] /\ ctx'[w] = Nothing
         /\ pc' \in [Workers -> {"idle", "update", "connect", "reinstall", "stop",
                                 "clear", "install", "remove"}] /\ pc'[w] = "idle"
         /\ new' \in [Workers -> {Nothing} \cup Tasks]
         /\ \A v \in Workers \ {w} : op'[v] = op[v] /\ ctx'[v] = ctx[v] /\ pc'[v] = pc[v]
         /\ \A v \in Workers : new'[v] = Nothing
         /\ \A v \in Workers \ {w} : new[v] = Nothing
<1>1. /\ w = Socket /\ op[w].kind = "update" /\ ctx[w] \in Players
  BY AtContext DEF TasksInv, RequestsInShape
<1>2. \A v \in Workers \ {w} : new[v] = Nothing
  BY <1>1 DEF TasksInv, RequestsInShape
<1>3. new \in [Workers -> {Nothing} \cup Tasks] /\ new[w] # Nothing
  BY DEF TasksInv, VoiceTypeOK, RequestsInShape
<1>4. new[w] \in Tasks
  BY <1>3
<1>5. /\ op \in [Workers -> Ops \cup {NoOp}]
      /\ ctx \in [Workers -> {Nothing} \cup Players]
      /\ pc \in [Workers -> {"idle", "update", "connect", "reinstall", "stop",
                             "clear", "install", "remove"}]
  BY DEF TasksInv, VoiceTypeOK
<1>6. /\ op' \in [Workers -> Ops \cup {NoOp}] /\ op'[w] = NoOp
      /\ \A v \in Workers \ {w} : op'[v] = op[v]
  BY <1>5 DEF Finish
<1>7. /\ ctx' \in [Workers -> {Nothing} \cup Players] /\ ctx'[w] = Nothing
      /\ \A v \in Workers \ {w} : ctx'[v] = ctx[v]
  BY <1>5 DEF Finish
<1>8. /\ pc' \in [Workers -> {"idle", "update", "connect", "reinstall", "stop",
                              "clear", "install", "remove"}] /\ pc'[w] = "idle"
      /\ \A v \in Workers \ {w} : pc'[v] = pc[v]
  BY <1>5 DEF Finish
<1>9. /\ new' \in [Workers -> {Nothing} \cup Tasks]
      /\ \A v \in Workers : new'[v] = Nothing
  BY <1>2, <1>3
<1> QED BY <1>1, <1>2, <1>4, <1>6, <1>7, <1>8, <1>9

\* Another gateway was installed meanwhile: the new one is aborted.
LEMMA DropTaskInv ==
  ASSUME TasksInv, NEW w \in Workers, DropTask(w)
  PROVE  TasksInv'
<1> USE VoiceAssumption DEF TasksInv
<1>1. /\ gw' \in [Tasks -> {"none", "running", "finished"}]
      /\ speak' \in [Tasks -> {"none", "waiting", "open", "doomed"}]
      /\ \A t \in Tasks : Running(t)' <=> Running(t) /\ t \notin {new[w]}
  BY AbortEnds DEF DropTask, GiveWay
<1>2. /\ pc[w] = "reinstall" /\ Finish(w) /\ new' = [new EXCEPT ![w] = Nothing]
      /\ UNCHANGED <<mapped, created, holder, voice, gtask, dave, ready, spawned, cred, home,
                     registered, served, down>>
  BY DEF DropTask, GiveWay
<1>b. /\ w = Socket /\ op[w].kind = "update" /\ new[w] \in Tasks
      /\ op' \in [Workers -> Ops \cup {NoOp}] /\ op'[w] = NoOp
      /\ ctx' \in [Workers -> {Nothing} \cup Players] /\ ctx'[w] = Nothing
      /\ pc' \in [Workers -> {"idle", "update", "connect", "reinstall", "stop",
                              "clear", "install", "remove"}] /\ pc'[w] = "idle"
      /\ new' \in [Workers -> {Nothing} \cup Tasks]
      /\ \A v \in Workers \ {w} : op'[v] = op[v] /\ ctx'[v] = ctx[v] /\ pc'[v] = pc[v]
      /\ \A v \in Workers : new'[v] = Nothing
      /\ \A v \in Workers \ {w} : new[v] = Nothing
  BY <1>2, ReinstalledParts
<1>3. VoiceTypeOK'
  BY <1>1, <1>2, <1>b DEF VoiceTypeOK
<1>4. NoStrayGateway'
  BY <1>1, <1>2, <1>b DEF NoStrayGateway, Tasks, Nothing
<1>5. EveryGatewayRegistered'
  BY <1>1, <1>2, <1>b DEF EveryGatewayRegistered, Tasks, Nothing
<1>6. RequestsInShape'
  BY <1>b DEF RequestsInShape
<1>7. LockIsHeld'
  BY <1>2, <1>b DEF LockIsHeld, VoiceTypeOK
<1>8. NamesAreFresh'
  <2>1. Connecting' = Connecting
    BY <1>2, <1>b DEF Connecting, NoOp
  <2>2. \A v \in Workers : new'[v] <= spawned' /\ ctx'[v] <= created'
    <3>1. Nothing <= spawned /\ Nothing <= created
      BY DEF VoiceTypeOK, Nothing
    <3> QED BY <1>2, <1>b, <3>1 DEF NamesAreFresh
  <2> QED BY <1>1, <1>2, <1>b, <2>1, <2>2 DEF NamesAreFresh
<1>9. UpdateIsLatest'
  BY <1>2, <1>b DEF UpdateIsLatest
<1>10. DownIsQuiet'
  BY <1>1, <1>2, <1>b DEF DownIsQuiet
<1> QED BY <1>3, <1>4, <1>5, <1>6, <1>7, <1>8, <1>9, <1>10

\* No gateway was installed meanwhile: the new one is, with credentials that
\* are still the player's.
LEMMA InstallTaskInv ==
  ASSUME TasksInv, NEW w \in Workers, InstallTask(w)
  PROVE  TasksInv'
<1> USE VoiceAssumption DEF TasksInv
<1> DEFINE p == ctx[w]
<1>2. /\ pc[w] = "reinstall" /\ Finish(w) /\ new' = [new EXCEPT ![w] = Nothing]
      /\ UNCHANGED <<mapped, created, holder, voice, dave, ready, spawned, gw, cred, home,
                     speak, served, down>>
      /\ holder[p] = Free /\ gtask[p] = Nothing
      /\ gtask' = [gtask EXCEPT ![p] = new[w]]
      /\ registered' = {r \in registered : gw[r] # "finished"} \cup {new[w]}
  BY DEF InstallTask, Register
<1>b. /\ w = Socket /\ op[w].kind = "update" /\ p \in Players /\ new[w] \in Tasks
      /\ op' \in [Workers -> Ops \cup {NoOp}] /\ op'[w] = NoOp
      /\ ctx' \in [Workers -> {Nothing} \cup Players] /\ ctx'[w] = Nothing
      /\ pc' \in [Workers -> {"idle", "update", "connect", "reinstall", "stop",
                              "clear", "install", "remove"}] /\ pc'[w] = "idle"
      /\ new' \in [Workers -> {Nothing} \cup Tasks]
      /\ \A v \in Workers \ {w} : op'[v] = op[v] /\ ctx'[v] = ctx[v] /\ pc'[v] = pc[v]
      /\ \A v \in Workers : new'[v] = Nothing
      /\ \A v \in Workers \ {w} : new[v] = Nothing
  BY <1>2, ReinstalledParts
<1>c. home[new[w]] = p /\ new[w] <= spawned
  BY <1>b DEF NamesAreFresh, Tasks, Nothing
<1> HIDE DEF p
<1>1. /\ gtask' \in [Players -> {Nothing} \cup Tasks] /\ gtask'[p] = new[w]
      /\ \A q \in Players \ {p} : gtask'[q] = gtask[q]
  BY <1>2, <1>b DEF VoiceTypeOK
<1>3. VoiceTypeOK'
  <2>1. registered' \subseteq Tasks
    BY <1>2, <1>b DEF VoiceTypeOK
  <2> QED BY <1>1, <1>2, <1>b, <2>1 DEF VoiceTypeOK
<1>4. NoStrayGateway'
  <2>1. \A t \in Tasks : Running(t) =>
           t = new[w] \/ (gtask[home[t]] = t /\ home[t] \in Players \ {p})
    BY <1>2, <1>b, NamesAreNotNothing DEF NoStrayGateway, NamesAreFresh, VoiceTypeOK
  <2> QED BY <1>1, <1>2, <1>c, <2>1 DEF NoStrayGateway, Running
<1>5. EveryGatewayRegistered'
  <2>1. \A t \in Tasks : Running(t) => t = new[w] \/ t \in registered
    BY <1>b DEF EveryGatewayRegistered, Tasks, Nothing
  <2> QED BY <1>2, <2>1 DEF EveryGatewayRegistered, Running
<1>6. RequestsInShape'
  BY <1>b DEF RequestsInShape
<1>7. LockIsHeld'
  BY <1>1, <1>2, <1>b DEF LockIsHeld, VoiceTypeOK
<1>8. NamesAreFresh'
  <2>1. Connecting' = Connecting
    BY <1>2, <1>b DEF Connecting, NoOp
  <2>2. \A v \in Workers : new'[v] <= spawned' /\ ctx'[v] <= created'
    <3>1. Nothing <= spawned /\ Nothing <= created
      BY DEF VoiceTypeOK, Nothing
    <3> QED BY <1>2, <1>b, <3>1 DEF NamesAreFresh
  <2>3. \A q \in Players : gtask'[q] <= spawned' /\ (q > created' => gtask'[q] = Nothing)
    <3>1. p <= created
      BY DEF NamesAreFresh, p
    <3> QED BY <1>1, <1>2, <1>b, <1>c, <3>1 DEF NamesAreFresh, VoiceTypeOK, Players
  <2> QED BY <1>2, <1>b, <2>1, <2>2, <2>3 DEF NamesAreFresh, Running
<1>9. UpdateIsLatest'
  <2>1. \A v \in Workers \ {w} : pc'[v] \notin {"connect", "reinstall"}
    BY <1>b DEF RequestsInShape
  <2> QED BY <1>2, <1>b, <2>1 DEF UpdateIsLatest
<1>10. DownIsQuiet'
  BY <1>2, <1>b DEF DownIsQuiet, Running
<1> QED BY <1>3, <1>4, <1>5, <1>6, <1>7, <1>8, <1>9, <1>10

\* A request under the lock stops the gateway, and keeps the lock.
LEMMA StopGatewayInv ==
  ASSUME TasksInv, NEW w \in Workers, StopGateway(w)
  PROVE  TasksInv'
<1> USE VoiceAssumption DEF TasksInv
<1> DEFINE p == ctx[w]
<1>0. p \in Players /\ op[w] # NoOp /\ (op[w].kind = "update" => op[w].cred \in Creds)
  BY AtContext, OpKinds DEF StopGateway
<1>1. /\ gw' \in [Tasks -> {"none", "running", "finished"}]
      /\ speak' \in [Tasks -> {"none", "waiting", "open", "doomed"}]
      /\ \A t \in Tasks : Running(t)' <=> Running(t) /\ t \notin ({gtask[p]} \cap Tasks)
  BY AbortEnds DEF StopGateway
<1>2. /\ pc[w] = "stop" /\ holder[p] = Free
      /\ holder' = [holder EXCEPT ![p] = w]
      /\ voice' = IF op[w].kind = "update" THEN [voice EXCEPT ![p] = op[w].cred] ELSE voice
      /\ gtask' = [gtask EXCEPT ![p] = Nothing]
      /\ pc' = [pc EXCEPT ![w] = "clear"]
      /\ UNCHANGED <<mapped, created, dave, ready, spawned, cred, home, registered,
                     op, ctx, new, served, down>>
  BY DEF StopGateway, Goto
<1> HIDE DEF p
<1>b. /\ holder' \in [Players -> Workers \cup {Free}] /\ holder'[p] = w
      /\ voice' \in [Players -> Creds \cup {NoVoice}]
      /\ op[w].kind = "update" => voice'[p] = op[w].cred
      /\ gtask' \in [Players -> {Nothing} \cup Tasks] /\ gtask'[p] = Nothing
      /\ \A q \in Players \ {p} :
            holder'[q] = holder[q] /\ voice'[q] = voice[q] /\ gtask'[q] = gtask[q]
  BY <1>0, <1>2 DEF VoiceTypeOK
<1>c. /\ pc' \in [Workers -> {"idle", "update", "connect", "reinstall", "stop",
                              "clear", "install", "remove"}] /\ pc'[w] = "clear"
      /\ \A v \in Workers \ {w} : pc'[v] = pc[v]
  BY <1>2 DEF VoiceTypeOK
<1>d. w # Free /\ \A v \in Workers : pc[v] \in {"clear", "install"} => ctx[v] # p
  BY <1>2 DEF LockIsHeld, Workers
<1>3. VoiceTypeOK'
  BY <1>1, <1>2, <1>b, <1>c DEF VoiceTypeOK
<1>4. NoStrayGateway'
  BY <1>0, <1>1, <1>2, <1>b DEF NoStrayGateway, NamesAreFresh, VoiceTypeOK
<1>5. EveryGatewayRegistered'
  BY <1>1, <1>2 DEF EveryGatewayRegistered
<1>6. RequestsInShape'
  BY <1>0, <1>2, <1>c DEF RequestsInShape, p
<1>7. LockIsHeld'
  <2>1. \A v \in Workers : pc'[v] \in {"clear", "install"} => holder'[ctx[v]] = v
    <3>1. \A v \in Workers \ {w} : pc[v] \in {"clear", "install"} => ctx[v] \in Players \ {p}
      BY <1>d DEF RequestsInShape, VoiceTypeOK
    <3> QED BY <1>b, <1>c, <3>1 DEF LockIsHeld, p
  <2>2. \A q \in Players : holder'[q] # Free =>
           pc'[holder'[q]] \in {"clear", "install"} /\ ctx[holder'[q]] = q /\ gtask'[q] = Nothing
    <3>1. \A q \in Players \ {p} : holder[q] # Free => holder[q] # w /\ holder[q] \in Workers
      BY <1>2 DEF LockIsHeld, VoiceTypeOK
    <3> QED BY <1>b, <1>c, <3>1 DEF LockIsHeld, p
  <2> QED BY <1>2, <2>1, <2>2 DEF LockIsHeld
<1>8. NamesAreFresh'
  <2>1. Connecting' = Connecting
    BY <1>2, <1>c DEF Connecting
  <2>2. \A q \in Players : gtask'[q] <= spawned /\ (q > created => gtask'[q] = Nothing)
    BY <1>b DEF NamesAreFresh, VoiceTypeOK, Nothing
  <2> QED BY <1>1, <1>2, <2>1, <2>2 DEF NamesAreFresh
<1>9. UpdateIsLatest'
  <2>1. \A v \in Workers :
          /\ pc'[v] \in {"connect", "reinstall"} /\ ctx[v] = mapped
             /\ holder'[mapped] = Free /\ gtask'[mapped] = Nothing
             => voice'[mapped] \in {op[v].cred, NoVoice}
    <3>1. \A v \in Workers : pc'[v] \in {"connect", "reinstall"} =>
             v # w /\ pc'[v] = pc[v] /\ ctx[v] \in Players
      BY <1>c DEF RequestsInShape, VoiceTypeOK
    <3> QED BY <1>b, <1>d, <3>1 DEF UpdateIsLatest
  <2>2. \A v \in Workers : pc'[v] \in {"clear", "install"} /\ op[v].kind = "update"
           => voice'[ctx[v]] = op[v].cred
    <3>1. \A v \in Workers \ {w} : pc[v] \in {"clear", "install"} => ctx[v] \in Players \ {p}
      BY <1>d DEF RequestsInShape, VoiceTypeOK
    <3> QED BY <1>b, <1>c, <3>1 DEF UpdateIsLatest, p
  <2>3. \A v \in Workers : pc'[v] \in {"stop", "clear"} /\ op[v].kind \in {"destroy", "shutdown"}
           => ctx[v] # mapped
    BY <1>2, <1>c DEF UpdateIsLatest
  <2> QED BY <1>2, <2>1, <2>2, <2>3 DEF UpdateIsLatest
<1>10. DownIsQuiet'
  BY <1>1, <1>2, <1>c DEF DownIsQuiet
<1> QED BY <1>3, <1>4, <1>5, <1>6, <1>7, <1>8, <1>9, <1>10

\* The flag is cleared.  An update goes on with the lock; a leave, which forgets
\* the credentials, and a destroy give it back.
LEMMA ClearReadyInv ==
  ASSUME TasksInv, NEW w \in Workers, ClearReady(w)
  PROVE  TasksInv'
<1> USE VoiceAssumption DEF TasksInv
<1> DEFINE p == ctx[w]
<1>0. p \in Players /\ holder[p] = w /\ gtask[p] = Nothing /\ new[w] = Nothing /\ w # Free
  BY AtContext DEF ClearReady, LockIsHeld, RequestsInShape, Workers
<1>1. /\ pc[w] = "clear" /\ ready' \in [Players -> BOOLEAN]
      /\ UNCHANGED <<mapped, created, gtask, dave, taskVars, new, served, down>>
  BY <1>0 DEF ClearReady, VoiceTypeOK
<1>2. /\ voice' = IF op[w].kind = "leave" THEN [voice EXCEPT ![p] = NoVoice] ELSE voice
      /\ voice' \in [Players -> Creds \cup {NoVoice}]
      /\ \A q \in Players \ {p} : voice'[q] = voice[q]
      /\ op[w].kind = "leave" => voice'[p] = NoVoice
  BY <1>0 DEF ClearReady, ForgetVoice, VoiceTypeOK
<1>3. NoStrayGateway' /\ EveryGatewayRegistered'
  BY <1>1 DEF NoStrayGateway, EveryGatewayRegistered, Running, taskVars
<1>s. \A v \in Workers \ {w} : pc[v] \in {"clear", "install"} => ctx[v] \in Players \ {p}
  BY <1>0 DEF LockIsHeld, RequestsInShape, VoiceTypeOK
<1>4. CASE op[w].kind = "update"
  <2>1. /\ pc' = [pc EXCEPT ![w] = "install"] /\ UNCHANGED <<holder, op, ctx>> /\ voice' = voice
    BY <1>2, <1>4 DEF ClearReady, Goto
  <2>b. /\ pc' \in [Workers -> {"idle", "update", "connect", "reinstall", "stop",
                                "clear", "install", "remove"}] /\ pc'[w] = "install"
        /\ \A v \in Workers \ {w} : pc'[v] = pc[v]
    BY <2>1 DEF VoiceTypeOK
  <2>2. VoiceTypeOK'
    BY <1>1, <1>2, <2>1, <2>b DEF VoiceTypeOK, taskVars
  <2>3. RequestsInShape'
    BY <1>0, <1>1, <1>4, <2>1, <2>b DEF RequestsInShape
  <2>4. LockIsHeld'
    BY <1>0, <1>1, <2>1, <2>b DEF LockIsHeld, VoiceTypeOK
  <2>5. NamesAreFresh'
    <3>1. Connecting' = Connecting
      BY <1>1, <2>1, <2>b DEF Connecting
    <3> QED BY <1>1, <2>1, <3>1 DEF NamesAreFresh, Running, taskVars
  <2>6. UpdateIsLatest'
    BY <1>1, <1>4, <2>1, <2>b DEF UpdateIsLatest
  <2>7. DownIsQuiet'
    BY <1>1, <2>1, <2>b DEF DownIsQuiet, Running, taskVars
  <2> QED BY <1>3, <2>2, <2>3, <2>4, <2>5, <2>6, <2>7
<1>5. CASE op[w].kind # "update"
  <2>1. Finish(w) /\ holder' = [holder EXCEPT ![p] = Free]
    BY <1>5 DEF ClearReady, Unlock
  <2>b. /\ op' \in [Workers -> Ops \cup {NoOp}] /\ op'[w] = NoOp
        /\ ctx' \in [Workers -> {Nothing} \cup Players] /\ ctx'[w] = Nothing
        /\ pc' \in [Workers -> {"idle", "update", "connect", "reinstall", "stop",
                                "clear", "install", "remove"}] /\ pc'[w] = "idle"
        /\ \A v \in Workers \ {w} : op'[v] = op[v] /\ ctx'[v] = ctx[v] /\ pc'[v] = pc[v]
    BY <2>1 DEF Finish, VoiceTypeOK
  <2>c. /\ holder' \in [Players -> Workers \cup {Free}] /\ holder'[p] = Free
        /\ \A q \in Players \ {p} : holder'[q] = holder[q]
    BY <1>0, <2>1 DEF VoiceTypeOK
  <2> HIDE DEF p
  <2>2. VoiceTypeOK'
    BY <1>1, <1>2, <2>b, <2>c DEF VoiceTypeOK, taskVars
  <2>3. RequestsInShape'
    BY <1>0, <1>1, <2>b DEF RequestsInShape
  <2>4. LockIsHeld'
    <3>1. \A v \in Workers : pc'[v] \in {"clear", "install"} => holder'[ctx'[v]] = v
      BY <1>s, <2>b, <2>c DEF LockIsHeld
    <3>2. \A q \in Players : holder'[q] # Free =>
             pc'[holder'[q]] \in {"clear", "install"} /\ ctx'[holder'[q]] = q /\ gtask[q] = Nothing
      <4>1. \A q \in Players \ {p} : holder[q] # Free =>
               holder[q] # w /\ holder[q] \in Workers /\ ctx[holder[q]] = q
        BY DEF LockIsHeld, VoiceTypeOK, p
      <4> QED BY <2>b, <2>c, <4>1 DEF LockIsHeld
    <3> QED BY <1>1, <3>1, <3>2 DEF LockIsHeld
  <2>5. NamesAreFresh'
    <3>1. Connecting' = Connecting
      BY <1>5, <2>b DEF Connecting, NoOp
    <3>2. \A v \in Workers : ctx'[v] <= created
      <4>1. Nothing <= created
        BY DEF VoiceTypeOK, Nothing
      <4> QED BY <2>b, <4>1 DEF NamesAreFresh
    <3>3. \A v \in Workers : new[v] # Nothing =>
             home[new[v]] = ctx'[v] /\ cred[new[v]] = op'[v].cred
      BY <1>0, <2>b DEF NamesAreFresh
    <3> QED BY <1>1, <3>1, <3>2, <3>3 DEF NamesAreFresh, Running, taskVars
  <2>6. UpdateIsLatest'
    <3>0. \A v \in Workers : pc'[v] # "idle" => v # w /\ pc'[v] = pc[v]
      BY <2>b
    <3>1. \A v \in Workers :
            /\ pc'[v] \in {"connect", "reinstall"} /\ ctx'[v] = mapped
               /\ holder'[mapped] = Free /\ gtask[mapped] = Nothing
               => voice'[mapped] \in {op'[v].cred, NoVoice}
      <4>1. CASE mapped = p
        <5>1. op[w].kind = "leave"
          <6>1. op[w].kind \in {"none", "update", "leave", "destroy", "shutdown"} /\ op[w] # NoOp
            BY <1>1, OpKinds DEF VoiceTypeOK, RequestsInShape
          <6> QED BY <1>1, <1>5, <4>1, <6>1, OpKinds DEF UpdateIsLatest, VoiceTypeOK, p
        <5> QED BY <1>2, <4>1, <5>1
      <4>2. CASE mapped # p
        <5>1. \A v \in Workers : pc'[v] \in {"connect", "reinstall"} =>
                 ctx[v] \in Players /\ v # w /\ pc'[v] = pc[v]
          BY <3>0 DEF RequestsInShape, VoiceTypeOK
        <5> QED BY <1>2, <2>b, <2>c, <4>2, <5>1 DEF UpdateIsLatest
      <4> QED BY <4>1, <4>2
    <3>2. \A v \in Workers : pc'[v] \in {"clear", "install"} /\ op'[v].kind = "update"
             => voice'[ctx'[v]] = op'[v].cred
      BY <1>2, <1>s, <2>b, <3>0 DEF UpdateIsLatest
    <3>3. \A v \in Workers : pc'[v] \in {"stop", "clear"} /\ op'[v].kind \in {"destroy", "shutdown"}
             => ctx'[v] # mapped
      BY <2>b, <3>0 DEF UpdateIsLatest
    <3> QED BY <1>1, <3>1, <3>2, <3>3 DEF UpdateIsLatest
  <2>7. DownIsQuiet'
    BY <1>1, <2>b DEF DownIsQuiet, Running, taskVars
  <2> QED BY <1>3, <2>2, <2>3, <2>4, <2>5, <2>6, <2>7
<1> QED BY <1>4, <1>5

\* handle_voice connects with the lock held, and gives it back.
LEMMA ConnectLockedInv ==
  ASSUME TasksInv, NEW w \in Workers, ConnectLocked(w)
  PROVE  TasksInv'
<1> USE VoiceAssumption DEF TasksInv
<1> DEFINE p == ctx[w]
           t == spawned + 1
<1>0. /\ p \in Players /\ holder[p] = w /\ gtask[p] = Nothing /\ new[w] = Nothing /\ w # Free
      /\ pc[w] = "install" /\ op[w].kind = "update"
  BY AtContext DEF ConnectLocked, LockIsHeld, RequestsInShape, Workers
<1>1. /\ t \in Tasks /\ spawned' = t /\ w \in Connecting /\ t # Nothing
      /\ gw' \in [Tasks -> {"none", "running", "finished"}]
      /\ \A u \in Tasks \ {t} : Running(u)' <=> Running(u)
      /\ cred' \in [Tasks -> Creds \cup {NoVoice}] /\ cred'[t] = op[w].cred
      /\ home' \in [Tasks -> {Nothing} \cup Players] /\ home'[t] = p
      /\ \A u \in Tasks \ {t} : cred'[u] = cred[u] /\ home'[u] = home[u]
      /\ dave' \in [Players -> {Nothing} \cup Tasks]
  BY <1>0, ConnectParts DEF ConnectLocked
<1>2. /\ registered' = {r \in registered : gw[r] # "finished"} \cup {t}
      /\ gtask' = [gtask EXCEPT ![p] = t]
      /\ holder' = [holder EXCEPT ![p] = Free]
      /\ Finish(w)
      /\ UNCHANGED <<mapped, created, voice, ready, speak, new, served, down>>
  BY DEF ConnectLocked, Register, Unlock
<1>t. t > spawned /\ t \in Nat
  BY DEF VoiceTypeOK
<1> HIDE DEF p, t
<1>b. /\ op' \in [Workers -> Ops \cup {NoOp}] /\ op'[w] = NoOp
      /\ ctx' \in [Workers -> {Nothing} \cup Players] /\ ctx'[w] = Nothing
      /\ pc' \in [Workers -> {"idle", "update", "connect", "reinstall", "stop",
                              "clear", "install", "remove"}] /\ pc'[w] = "idle"
      /\ \A v \in Workers \ {w} : op'[v] = op[v] /\ ctx'[v] = ctx[v] /\ pc'[v] = pc[v]
  BY <1>2 DEF Finish, VoiceTypeOK
<1>c. /\ holder' \in [Players -> Workers \cup {Free}] /\ holder'[p] = Free
      /\ gtask' \in [Players -> {Nothing} \cup Tasks] /\ gtask'[p] = t
      /\ \A q \in Players \ {p} : holder'[q] = holder[q] /\ gtask'[q] = gtask[q]
  BY <1>0, <1>1, <1>2 DEF VoiceTypeOK
<1>s. \A v \in Workers \ {w} : pc[v] \in {"clear", "install"} => ctx[v] \in Players \ {p}
  BY <1>0 DEF LockIsHeld, RequestsInShape, VoiceTypeOK
<1>n. \A v \in Workers : new[v] # t
  <2>1. \A v \in Workers : new[v] \in Nat /\ new[v] <= spawned
    BY DEF VoiceTypeOK, NamesAreFresh, Tasks, Nothing
  <2> QED BY <1>t, <2>1 DEF VoiceTypeOK
<1>3. VoiceTypeOK'
  <2>1. registered' \subseteq Tasks
    BY <1>1, <1>2 DEF VoiceTypeOK
  <2>2. spawned' \in 0 .. MaxOps
    BY <1>1 DEF Tasks
  <2> QED BY <1>1, <1>2, <1>b, <1>c, <2>1, <2>2 DEF VoiceTypeOK
<1>4. NoStrayGateway'
  <2>1. \A u \in Tasks \ {t} : Running(u) =>
           \/ gtask[home[u]] = u /\ home[u] \in Players \ {p}
           \/ \E v \in Workers : new[v] = u
    BY <1>0, NamesAreNotNothing DEF NoStrayGateway, NamesAreFresh, VoiceTypeOK
  <2> QED BY <1>1, <1>2, <1>c, <2>1 DEF NoStrayGateway
<1>5. EveryGatewayRegistered'
  <2>1. \A u \in Tasks \ {t} : Running(u) =>
           u \in registered' \/ \E v \in Workers : new[v] = u
    BY <1>2 DEF EveryGatewayRegistered, Running
  <2> QED BY <1>1, <1>2, <2>1 DEF EveryGatewayRegistered
<1>6. RequestsInShape'
  BY <1>0, <1>2, <1>b DEF RequestsInShape
<1>7. LockIsHeld'
  <2>1. \A v \in Workers : pc'[v] \in {"clear", "install"} => holder'[ctx'[v]] = v
    BY <1>s, <1>b, <1>c DEF LockIsHeld
  <2>2. \A q \in Players : holder'[q] # Free =>
           pc'[holder'[q]] \in {"clear", "install"} /\ ctx'[holder'[q]] = q /\ gtask'[q] = Nothing
    <3>1. \A q \in Players \ {p} : holder[q] # Free =>
             holder[q] # w /\ holder[q] \in Workers /\ ctx[holder[q]] = q
      BY DEF LockIsHeld, VoiceTypeOK, p
    <3> QED BY <1>b, <1>c, <3>1 DEF LockIsHeld
  <2> QED BY <2>1, <2>2 DEF LockIsHeld
<1>8. NamesAreFresh'
  <2>1. Connecting \in SUBSET Workers /\ Connecting' \in SUBSET (Connecting \ {w})
    BY <1>b DEF Connecting, NoOp
  <2>2. /\ Cardinality(Connecting') \in Nat /\ Cardinality(Connecting) \in Nat
        /\ Cardinality(Connecting') + 1 <= Cardinality(Connecting)
    BY <1>1, <2>1, WorkerLeaves
  <2>3. spawned' + Cardinality(Connecting') <= served'
    BY <1>1, <1>2, <2>2 DEF NamesAreFresh, VoiceTypeOK, t
  <2>4. \A q \in Players : gtask'[q] <= spawned' /\ (q > created' => gtask'[q] = Nothing)
    <3>1. \A q \in Players : gtask[q] \in Nat /\ gtask[q] <= spawned
      BY DEF VoiceTypeOK, NamesAreFresh, Tasks, Nothing
    <3>2. \A q \in Players : gtask[q] <= t
      BY <1>t, <3>1 DEF VoiceTypeOK
    <3>3. p <= created /\ p \in Nat /\ created \in Nat
      BY <1>0 DEF NamesAreFresh, p, VoiceTypeOK, Players
    <3>4. ~(p > created)
      BY <3>3
    <3>5. t <= t
      BY <1>t
    <3> QED BY <1>1, <1>2, <1>c, <3>2, <3>4, <3>5 DEF NamesAreFresh
  <2>5. \A v \in Workers : new'[v] <= spawned' /\ ctx'[v] <= created'
    <3>1. \A v \in Workers : new[v] \in Nat /\ new[v] <= spawned
      BY DEF VoiceTypeOK, NamesAreFresh, Tasks, Nothing
    <3>2. \A v \in Workers : new[v] <= t
      BY <1>t, <3>1 DEF VoiceTypeOK
    <3>3. Nothing <= created
      BY DEF VoiceTypeOK, Nothing
    <3> QED BY <1>1, <1>2, <1>b, <3>2, <3>3 DEF NamesAreFresh
  <2>6. \A v \in Workers : new'[v] # Nothing =>
           home'[new'[v]] = ctx'[v] /\ cred'[new'[v]] = op'[v].cred
    <3>1. \A v \in Workers : new[v] # Nothing => v # w /\ new[v] \in Tasks \ {t}
      BY <1>0, <1>n DEF VoiceTypeOK
    <3> QED BY <1>1, <1>2, <1>b, <3>1 DEF NamesAreFresh
  <2>7. \A u \in Tasks : Running(u)' => home'[u] # Nothing
    BY <1>0, <1>1, NamesAreNotNothing DEF NamesAreFresh
  <2> QED BY <1>2, <2>3, <2>4, <2>5, <2>6, <2>7 DEF NamesAreFresh
<1>9. UpdateIsLatest'
  <2>0. \A v \in Workers : pc'[v] # "idle" => v # w /\ pc'[v] = pc[v]
    BY <1>b
  <2>1. \A v \in Workers :
          pc'[v] \in {"connect", "reinstall"} /\ ctx'[v] = mapped
             /\ holder'[mapped] = Free /\ gtask'[mapped] = Nothing
             => voice[mapped] \in {op'[v].cred, NoVoice}
    <3>1. \A v \in Workers : pc'[v] \in {"connect", "reinstall"} =>
             ctx[v] \in Players /\ v # w /\ pc'[v] = pc[v]
      BY <2>0 DEF RequestsInShape, VoiceTypeOK
    <3> QED BY <1>1, <1>b, <1>c, <3>1 DEF UpdateIsLatest
  <2>2. \A v \in Workers : pc'[v] \in {"clear", "install"} /\ op'[v].kind = "update"
           => voice[ctx'[v]] = op'[v].cred
    BY <1>b, <2>0 DEF UpdateIsLatest
  <2>3. \A v \in Workers : pc'[v] \in {"stop", "clear"} /\ op'[v].kind \in {"destroy", "shutdown"}
           => ctx'[v] # mapped
    BY <1>b, <2>0 DEF UpdateIsLatest
  <2> QED BY <1>2, <2>1, <2>2, <2>3 DEF UpdateIsLatest
<1>10. DownIsQuiet'
  BY <1>0, <1>2 DEF DownIsQuiet
<1> QED BY <1>3, <1>4, <1>5, <1>6, <1>7, <1>8, <1>9, <1>10

\* Every step.
LEMMA StepInv == TasksInv /\ [Next]_vars => TasksInv'
<1> SUFFICES ASSUME TasksInv, [Next]_vars PROVE TasksInv'
  OBVIOUS
<1>1. ASSUME NEW w \in Workers, Request(w)
      PROVE  TasksInv'
  <2>1. CASE KeepGateway(w)
    <3>1. new[w] = Nothing
      BY <2>1 DEF KeepGateway, TasksInv, RequestsInShape
    <3> QED BY <2>1, <3>1, FinishInv DEF KeepGateway, playerVars
  <2> QED BY <1>1, <2>1, UpdateVoiceInv, ConnectUnlockedInv, DropTaskInv, InstallTaskInv,
             StopGatewayInv, ClearReadyInv, ConnectLockedInv, RemovePlayerInv DEF Request
<1>2. ASSUME NEW w \in Workers, NEW o \in Ops, Begin(w, o)
      PROVE  TasksInv'
  BY <1>2, BeginInv, ShutdownInv DEF Begin
<1>3. ASSUME NEW t \in Tasks, Gateway(t)
      PROVE  TasksInv'
  BY <1>3, GatewayInv
<1>4. CASE UNCHANGED vars
  <2>1. /\ UNCHANGED <<playerVars, spawned, cred, home, registered, requestVars>>
        /\ ready' = ready /\ gw' = gw /\ speak' = speak
    BY <1>4 DEF vars, taskVars
  <2>2. /\ ready \in [Players -> BOOLEAN]
        /\ gw \in [Tasks -> {"none", "running", "finished"}]
        /\ speak \in [Tasks -> {"none", "waiting", "open", "doomed"}]
    BY DEF TasksInv, VoiceTypeOK
  <2> QED BY <2>1, <2>2, QuietInv DEF Running
<1> QED BY <1>1, <1>2, <1>3, <1>4 DEF Next

-----------------------------------------------------------------------------
(***************************************************************************)
(* What a player reports of its voice.                                     *)
(***************************************************************************)

\* An abort leaves a speak task only its pending write.
LEMMA AbortReports ==
  ASSUME TasksInv, ReportsFollow, NEW ts \in SUBSET Tasks, Abort(ts),
         UNCHANGED <<dave, ready, spawned, home>>
  PROVE  ReportsFollow'
<1>1. \A t \in Tasks :
         /\ speak'[t] # "none" => speak[t] # "none"
         /\ speak'[t] \in {"waiting", "open"} => speak[t] = speak'[t] /\ t \notin ts
         /\ gw'[t] = IF t \in ts THEN "finished" ELSE gw[t]
  BY DEF Abort
<1> QED BY <1>1 DEF ReportsFollow, Running

\* A gateway that is started becomes the one its player reports of.
LEMMA ConnectReports ==
  ASSUME TasksInv, ReportsFollow, NEW w \in Workers, pc[w] \in {"connect", "install"},
         Connect(w), UNCHANGED <<ready, speak>>
  PROVE  ReportsFollow'
<1> DEFINE t == spawned + 1
<1>1. /\ t \in Tasks /\ t # Nothing /\ spawned' = t /\ home'[t] = ctx[w] /\ ctx[w] \in Players
      /\ \A u \in Tasks \ {t} : home'[u] = home[u] /\ (Running(u)' <=> Running(u))
  BY ConnectParts, AtContext
<1>2. /\ dave \in [Players -> {Nothing} \cup Tasks] /\ home \in [Tasks -> {Nothing} \cup Players]
      /\ gw \in [Tasks -> {"none", "running", "finished"}] /\ spawned \in Nat
  BY DEF TasksInv, VoiceTypeOK
<1>3. \/ dave' = dave /\ gw'[t] = "finished"
      \/ dave' = [dave EXCEPT ![ctx[w]] = t]
  BY <1>1, <1>2 DEF Connect
<1>4. \A p \in Players : /\ dave[p] \in Nat /\ dave[p] <= spawned /\ dave[p] # t
                         /\ dave'[p] \in {dave[p], t} /\ (dave'[p] = t => p = ctx[w])
  <2>1. \A p \in Players : dave[p] \in Nat /\ dave[p] <= spawned
    BY <1>2 DEF ReportsFollow, Nothing, Tasks
  <2>2. \A p \in Players : dave[p] # t
    BY <1>2, <2>1
  <2> QED BY <1>1, <1>2, <1>3, <2>1, <2>2
<1>5. speak[t] = "none" /\ speak' = speak
  <2>1. home[t] # Nothing => home[t] \in Players
    BY <1>1, <1>2
  <2>2. home[t] \in Players => ~(t <= dave[home[t]])
    BY <1>2, <1>4
  <2> QED BY <1>1, <2>1, <2>2 DEF ReportsFollow
<1>6. \A u \in Tasks \ {t} : Running(u) \/ speak[u] # "none"
         => home'[u] \in Players /\ home'[u] = home[u] /\ u <= dave'[home[u]]
  <2> SUFFICES ASSUME NEW u \in Tasks \ {t}, Running(u) \/ speak[u] # "none"
               PROVE  home'[u] \in Players /\ home'[u] = home[u] /\ u <= dave'[home[u]]
    OBVIOUS
  <2>1. home[u] \in Players /\ u <= dave[home[u]] /\ home'[u] = home[u]
    BY <1>1, <1>2 DEF ReportsFollow
  <2>2. u \in Nat /\ dave[home[u]] \in Nat /\ dave[home[u]] <= spawned
        /\ dave'[home[u]] \in {dave[home[u]], t}
    BY <1>4, <2>1 DEF Tasks
  <2> QED BY <1>2, <2>1, <2>2
<1>7. gw'[t] = "running" => t <= dave'[ctx[w]]
  BY <1>1, <1>2, <1>3 DEF Running
<1>8. \A p \in Players : /\ dave'[p] <= spawned'
                         /\ dave'[p] # Nothing => home'[dave'[p]] = p
                         /\ ready'[p] => dave'[p] # Nothing
  <2> SUFFICES ASSUME NEW p \in Players
               PROVE  /\ dave'[p] <= t
                      /\ dave'[p] # Nothing => home'[dave'[p]] = p
                      /\ ready[p] => dave'[p] # Nothing
    BY <1>1
  <2>1. CASE dave'[p] = t
    BY <1>1, <1>2, <1>4, <2>1
  <2>2. CASE dave'[p] = dave[p]
    <3>1. dave[p] # Nothing => dave[p] \in Tasks \ {t} /\ home[dave[p]] = p
      BY <1>2, <1>4 DEF ReportsFollow
    <3> QED BY <1>1, <1>2, <1>4, <2>2, <3>1 DEF ReportsFollow
  <2> QED BY <1>4, <2>1, <2>2
<1>9. \A u \in Tasks : speak'[u] \in {"waiting", "open"} => Running(u)'
  BY <1>1, <1>5 DEF ReportsFollow
<1>10. \A u \in Tasks : Running(u)' \/ speak'[u] # "none"
         => home'[u] # Nothing /\ u <= dave'[home'[u]]
  BY <1>1, <1>5, <1>6, <1>7, NamesAreNotNothing DEF Running
<1> QED BY <1>8, <1>9, <1>10 DEF ReportsFollow

\* A step of a gateway writes to the context it was started in.
LEMMA GatewayReports ==
  ASSUME TasksInv, ReportsFollow, NEW t \in Tasks, Gateway(t)
  PROVE  ReportsFollow'
<1>1. /\ ready \in [Players -> BOOLEAN]
      /\ gw \in [Tasks -> {"none", "running", "finished"}]
      /\ speak \in [Tasks -> {"none", "waiting", "open", "doomed"}]
      /\ dave \in [Players -> {Nothing} \cup Tasks]
      /\ home \in [Tasks -> {Nothing} \cup Players]
  BY DEF TasksInv, VoiceTypeOK
<1>2. UNCHANGED <<dave, home, spawned>>
  BY DEF Gateway, StartVoice, GateClosed, GateOpen, MarkReady, Disconnect, DialFails,
     GatewayEnds, playerVars, taskVars
<1>3. \A u \in Tasks :
         /\ Running(u)' => Running(u)
         /\ speak'[u] \in {"waiting", "open"} => Running(u)'
         /\ speak'[u] # "none" => Running(u) \/ speak[u] # "none"
  BY <1>1 DEF Gateway, StartVoice, GateClosed, GateOpen, MarkReady, Disconnect, DialFails,
     GatewayEnds, taskVars, Running, ReportsFollow
<1>4. \A p \in Players : ready'[p] => ready[p] \/ (p = home[t] /\ speak[t] # "none")
  BY <1>1 DEF Gateway, StartVoice, GateClosed, GateOpen, MarkReady, Disconnect, DialFails,
     GatewayEnds, SetReady, taskVars
<1>5. speak[t] # "none" => home[t] \in Players /\ dave[home[t]] # Nothing
  <2>1. speak[t] # "none" => home[t] \in Players /\ t <= dave[home[t]]
    BY <1>1 DEF ReportsFollow
  <2>2. t \in Nat /\ ~(t <= Nothing)
    BY DEF Tasks, Nothing
  <2> QED BY <2>1, <2>2
<1> QED BY <1>2, <1>3, <1>4, <1>5 DEF ReportsFollow

\* Every step.
LEMMA ReportsStep == TasksInv /\ ReportsFollow /\ [Next]_vars => ReportsFollow'
<1> SUFFICES ASSUME TasksInv, ReportsFollow, [Next]_vars PROVE ReportsFollow'
  OBVIOUS
<1>q. CASE UNCHANGED <<dave, ready, spawned, home, gw, speak>>
  BY <1>q DEF ReportsFollow, Running
<1>1. ASSUME NEW w \in Workers, Request(w)
      PROVE  ReportsFollow'
  <2>1. CASE UpdateVoice(w) \/ StopGateway(w)
    <3>1. Abort({gtask[ctx[w]]} \cap Tasks) /\ UNCHANGED <<dave, ready, spawned, home>>
      BY <2>1 DEF UpdateVoice, StopGateway
    <3>2. {gtask[ctx[w]]} \cap Tasks \in SUBSET Tasks
      OBVIOUS
    <3> QED BY <3>1, <3>2, AbortReports
  <2>2. CASE DropTask(w)
    <3>1. Abort({new[w]}) /\ UNCHANGED <<dave, ready, spawned, home>>
      BY <2>2 DEF DropTask, GiveWay
    <3>2. {new[w]} \in SUBSET Tasks
      BY <2>2 DEF DropTask, TasksInv, VoiceTypeOK, RequestsInShape
    <3> QED BY <3>1, <3>2, AbortReports
  <2>3. CASE ConnectUnlocked(w) \/ ConnectLocked(w)
    BY <2>3, ConnectReports DEF ConnectUnlocked, ConnectLocked
  <2>4. CASE ClearReady(w)
    <3>1. /\ UNCHANGED <<dave, spawned, home, gw, speak>>
          /\ ready' = [ready EXCEPT ![ctx[w]] = FALSE]
      BY <2>4 DEF ClearReady, taskVars
    <3>2. \A p \in Players : ready'[p] => ready[p]
      BY <3>1 DEF TasksInv, VoiceTypeOK
    <3> QED BY <3>1, <3>2 DEF ReportsFollow, Running
  <2>5. CASE KeepGateway(w) \/ InstallTask(w) \/ RemovePlayer(w)
    BY <1>q, <2>5 DEF KeepGateway, InstallTask, RemovePlayer, playerVars, taskVars
  <2> QED BY <1>1, <2>1, <2>2, <2>3, <2>4, <2>5 DEF Request
<1>2. ASSUME NEW w \in Workers, NEW o \in Ops, Begin(w, o)
      PROVE  ReportsFollow'
  <2>1. CASE Shutdown(w, o)
    <3>1. Abort({t \in registered : Running(t)}) /\ UNCHANGED <<dave, ready, spawned, home>>
      BY <2>1 DEF Shutdown, StopAllPlayers, playerVars
    <3>2. {t \in registered : Running(t)} \in SUBSET Tasks
      BY DEF TasksInv, VoiceTypeOK
    <3> QED BY <3>1, <3>2, AbortReports
  <2>2. CASE BeginOnPlayer(w, o) \/ BeginOnExisting(w, o) \/ BeginDestroy(w, o)
    BY <1>q, <2>2 DEF BeginOnPlayer, BeginOnExisting, BeginDestroy, Arrive, taskVars
  <2> QED BY <1>2, <2>1, <2>2 DEF Begin
<1>3. ASSUME NEW t \in Tasks, Gateway(t)
      PROVE  ReportsFollow'
  BY <1>3, GatewayReports
<1>4. CASE UNCHANGED vars
  BY <1>4, <1>q DEF vars, playerVars, taskVars
<1> QED BY <1>1, <1>2, <1>3, <1>4 DEF Next

\* A gateway that runs can be ended, through its player and through the session,
\* and a player reports only of its own gateways and never of an older one than
\* runs, whatever requests cross in the window without the lock (opcodes.rs,
\* voice.rs), for any number of requests, workers and contexts.
THEOREM VoiceCorrect == Spec => []VoiceInv
<1>1. Init => ReportsFollow
  BY DEF Init, ReportsFollow, Running, Nothing
<1> QED BY <1>1, InitInv, StepInv, ReportsStep, PTL DEF Spec, VoiceInv

\* A session that was shut down has no gateway (session.rs, shutdown): what ran
\* was registered, and no request that is left starts another.
THEOREM ShutdownEndsAll == Spec => []ShutdownEndsGateways
<1>1. VoiceInv => ShutdownEndsGateways
  BY DEF VoiceInv, TasksInv, DownIsQuiet, ShutdownEndsGateways
<1> QED BY <1>1, VoiceCorrect, PTL

\* A gateway of a context is older than the next name.
LEMMA InstalledIsOlder ==
  ASSUME TasksInv, NEW p \in Players, gtask[p] # Nothing
  PROVE  gtask[p] \in Tasks \ {spawned + 1}
<1>1. gtask[p] \in Tasks /\ gtask[p] <= spawned /\ spawned \in Nat
  BY DEF TasksInv, VoiceTypeOK, NamesAreFresh
<1> QED BY <1>1 DEF Tasks

\* The step proof of NewestCredentials: the lock is what makes it inductive.
LEMMA NewestStep == TasksInv /\ NewestCredentials /\ [Next]_vars => NewestCredentials'
<1> SUFFICES ASSUME TasksInv, NewestCredentials, [Next]_vars, NEW p \in Players,
                    p = mapped', holder'[p] = Free, gtask'[p] # Nothing
             PROVE  voice'[p] \in {cred'[gtask'[p]], NoVoice}
  BY DEF NewestCredentials
<1> USE VoiceAssumption
<1>0. /\ holder \in [Players -> Workers \cup {Free}] /\ voice \in [Players -> Creds \cup {NoVoice}]
      /\ gtask \in [Players -> {Nothing} \cup Tasks]
  BY DEF TasksInv, VoiceTypeOK
<1>q. CASE UNCHANGED <<holder, voice, gtask, cred>> /\ mapped' \in {mapped, Nothing}
  <2>1. mapped' = mapped
    BY <1>q, NamesAreNotNothing
  <2> QED BY <1>q, <2>1 DEF NewestCredentials
<1>1. ASSUME NEW w \in Workers, NEW o \in Ops, Begin(w, o)
      PROVE  voice'[p] \in {cred'[gtask'[p]], NoVoice}
  <2>1. UNCHANGED <<holder, voice, gtask, cred>>
    BY <1>1 DEF Begin, BeginOnPlayer, BeginOnExisting, BeginDestroy, Shutdown, Arrive,
        taskVars, playerVars
  <2>2. mapped' = mapped \/ mapped' = created + 1
    BY <1>1 DEF Begin, BeginOnPlayer, BeginOnExisting, BeginDestroy, Shutdown, playerVars
  <2>3. CASE mapped' = created + 1
    <3>1. gtask[p] = Nothing
      BY <2>3 DEF TasksInv, VoiceTypeOK, NamesAreFresh
    <3> QED BY <2>1, <3>1
  <2> QED BY <1>q, <2>1, <2>2, <2>3
<1>2. ASSUME NEW t \in Tasks, Gateway(t)
      PROVE  voice'[p] \in {cred'[gtask'[p]], NoVoice}
  BY <1>2, <1>q DEF Gateway, StartVoice, GateClosed, GateOpen, MarkReady, Disconnect, DialFails,
      GatewayEnds, playerVars, taskVars
<1>3. ASSUME NEW w \in Workers, Request(w)
      PROVE  voice'[p] \in {cred'[gtask'[p]], NoVoice}
  <2>1. CASE UpdateVoice(w) \/ StopGateway(w)
    <3>1. CASE p = ctx[w]
      BY <1>0, <2>1, <3>1 DEF UpdateVoice, StopGateway
    <3>2. CASE p # ctx[w]
      <4>1. /\ mapped' = mapped /\ cred' = cred /\ holder'[p] = holder[p]
            /\ voice'[p] = voice[p] /\ gtask'[p] = gtask[p]
        BY <1>0, <2>1, <3>2 DEF UpdateVoice, StopGateway
      <4> QED BY <4>1 DEF NewestCredentials
    <3> QED BY <3>1, <3>2
  <2>2. CASE ConnectUnlocked(w)
    <3>1. \A u \in Tasks \ {spawned + 1} : cred'[u] = cred[u]
      BY <2>2, ConnectParts DEF ConnectUnlocked
    <3>2. UNCHANGED <<mapped, holder, voice, gtask>>
      BY <2>2 DEF ConnectUnlocked
    <3>3. gtask[p] \in Tasks \ {spawned + 1}
      BY <3>2, InstalledIsOlder
    <3> QED BY <3>1, <3>2, <3>3 DEF NewestCredentials
  <2>3. CASE InstallTask(w)
    <3>1. /\ UNCHANGED <<mapped, holder, voice, cred>> /\ pc[w] = "reinstall"
          /\ gtask[ctx[w]] = Nothing /\ gtask' = [gtask EXCEPT ![ctx[w]] = new[w]]
      BY <2>3 DEF InstallTask
    <3>2. CASE p = ctx[w]
      <4>1. voice[p] \in {op[w].cred, NoVoice}
        BY <3>1, <3>2 DEF TasksInv, UpdateIsLatest
      <4>2. cred[new[w]] = op[w].cred
        BY <3>1 DEF TasksInv, NamesAreFresh, RequestsInShape
      <4> QED BY <1>0, <3>1, <3>2, <4>1, <4>2
    <3>3. CASE p # ctx[w]
      BY <1>0, <3>1, <3>3 DEF NewestCredentials
    <3> QED BY <3>2, <3>3
  <2>4. CASE ClearReady(w)
    <3>1. /\ gtask[ctx[w]] = Nothing /\ UNCHANGED <<mapped, gtask, cred>>
      BY <2>4, AtContext DEF ClearReady, TasksInv, LockIsHeld, Workers, taskVars
    <3>2. p # ctx[w]
      BY <3>1
    <3>3. holder'[p] = holder[p] /\ voice'[p] = voice[p]
      BY <1>0, <2>4, <3>2 DEF ClearReady, ForgetVoice, Unlock
    <3> QED BY <3>1, <3>3 DEF NewestCredentials
  <2>5. CASE ConnectLocked(w)
    <3>1. /\ spawned + 1 \in Tasks /\ cred'[spawned + 1] = op[w].cred
          /\ \A u \in Tasks \ {spawned + 1} : cred'[u] = cred[u]
      BY <2>5, ConnectParts DEF ConnectLocked
    <3>2. /\ mapped' = mapped /\ voice' = voice /\ pc[w] = "install" /\ ctx[w] \in Players
          /\ gtask' = [gtask EXCEPT ![ctx[w]] = spawned + 1]
          /\ holder' = [holder EXCEPT ![ctx[w]] = Free]
      BY <2>5, AtContext DEF ConnectLocked, Unlock
    <3>3. CASE p = ctx[w]
      <4>1. voice[p] = op[w].cred
        BY <3>2, <3>3 DEF TasksInv, UpdateIsLatest, RequestsInShape
      <4> QED BY <1>0, <3>1, <3>2, <3>3, <4>1
    <3>4. CASE p # ctx[w]
      <4>1. holder'[p] = holder[p] /\ gtask'[p] = gtask[p]
        BY <1>0, <3>2, <3>4
      <4>2. gtask[p] \in Tasks \ {spawned + 1}
        BY <4>1, InstalledIsOlder
      <4> QED BY <3>1, <3>2, <4>1, <4>2 DEF NewestCredentials
    <3> QED BY <3>3, <3>4
  <2>6. CASE KeepGateway(w) \/ DropTask(w) \/ RemovePlayer(w)
    BY <1>q, <2>6 DEF KeepGateway, DropTask, RemovePlayer, GiveWay, playerVars, taskVars
  <2> QED BY <1>3, <2>1, <2>2, <2>3, <2>4, <2>5, <2>6 DEF Request
<1>4. CASE UNCHANGED vars
  BY <1>4, <1>q DEF vars, playerVars, taskVars
<1> QED BY <1>1, <1>2, <1>3, <1>4 DEF Next

\* An older voice update never wins over a newer one: the gateway installed in
\* the guild's player has the credentials the player shows (opcodes.rs:63-213).
THEOREM NewestWins == Spec => []NewestCredentials
<1>1. Init => NewestCredentials
  BY DEF Init, NewestCredentials
<1> QED BY <1>1, NewestStep, VoiceCorrect, PTL DEF Spec, VoiceInv
=============================================================================
