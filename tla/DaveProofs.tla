----------------------------- MODULE DaveProofs -----------------------------
(***************************************************************************)
(* Proofs about Dave for every set of transitions, senders and users and   *)
(* every limit: DaveInv is inductive, and Dave implements MediaGate.       *)
(*                                                                         *)
(* The handler is one record and its operations are functions of it, so    *)
(* that each operation has a lemma: it keeps HandlerInv.  A step of the    *)
(* specification is one of them, and the lemma is all its proof needs.     *)
(***************************************************************************)
EXTENDS Dave, TLAPS

-----------------------------------------------------------------------------
(***************************************************************************)
(* Maps and sessions.                                                      *)
(***************************************************************************)

\* HashMap::insert stays in the type.
LEMMA PutType ==
  ASSUME NEW D, NEW R, NEW f \in Maps(D, R), NEW t \in D, NEW x \in R
  PROVE  Put(f, t, x) \in Maps(D, R)
<1>1. PICK T \in SUBSET D : f \in [T -> R]
  BY DEF Maps
<1>2. Put(f, t, x) \in [T \cup {t} -> R] /\ T \cup {t} \in SUBSET D
  BY <1>1 DEF Put
<1> QED BY <1>2 DEF Maps

\* HashMap::remove stays in the type.
LEMMA DropType ==
  ASSUME NEW D, NEW R, NEW f \in Maps(D, R), NEW t
  PROVE  Drop(f, t) \in Maps(D, R)
<1>1. PICK T \in SUBSET D : f \in [T -> R]
  BY DEF Maps
<1>2. Drop(f, t) \in [T \ {t} -> R] /\ T \ {t} \in SUBSET D
  BY <1>1 DEF Drop
<1> QED BY <1>2 DEF Maps

\* The empty map.
LEMMA NoKeysType ==
  ASSUME NEW D, NEW R
  PROVE  NoKeys \in Maps(D, R) /\ DOMAIN NoKeys = {}
<1>1. NoKeys \in [{} -> R] /\ {} \in SUBSET D
  BY DEF NoKeys
<1>2. NoKeys \in Maps(D, R)
  BY <1>1 DEF Maps
<1> QED BY <1>2 DEF NoKeys

\* A value of a map is in its range, a key in its domain.
LEMMA MapValue ==
  ASSUME NEW D, NEW R, NEW f \in Maps(D, R)
  PROVE  DOMAIN f \subseteq D /\ \A t \in DOMAIN f : f[t] \in R
BY DEF Maps

\* No session is not one of the sessions.
LEMMA NoSessionIsNone == NoSession \notin SessionType
BY DEF NoSession, SessionType

\* DaveSession::new.
LEMMA NewSessionType ==
  /\ NewSession \in SessionType
  /\ NewSession.sender = NoSender
  /\ NewSession.staged = NoKeys
<1>1. 0 \in 0 .. MaxKeys
  BY DaveAssumption
<1>2. NoKeys \in Maps(Tids \ {0}, 1 .. MaxKeys)
  BY NoKeysType
<1> QED BY <1>1, <1>2 DEF NewSession, SessionType

\* reinit_inner keeps the sender and drops what was staged.
LEMMA ReinitType ==
  ASSUME NEW s \in SessionType, NEW b \in BOOLEAN
  PROVE  /\ Reinit(s, b) \in SessionType
         /\ Reinit(s, b).sender = s.sender
         /\ Reinit(s, b).staged = NoKeys
         /\ s.sender # NoSender => Reinit(s, b).status # "inactive"
         /\ Reinit(s, b).ratchet \in {s.ratchet, 0}
<1>1. 0 \in 0 .. MaxKeys
  BY DaveAssumption
<1>2. NoKeys \in Maps(Tids \ {0}, 1 .. MaxKeys)
  BY NoKeysType
<1> QED BY <1>1, <1>2 DEF Reinit, SessionType

\* set_external_sender gives the session a sender and a group of its own.
LEMMA SetSenderType ==
  ASSUME NEW s \in SessionType, NEW x \in Senders
  PROVE  /\ SetSender(s, x) \in SessionType
         /\ SetSender(s, x).sender = x
         /\ SetSender(s, x).status = "pending"
         /\ SetSender(s, x).staged = s.staged
         /\ SetSender(s, x).ratchet = s.ratchet
         /\ SetSender(s, x).ready = s.ready
BY DEF SetSender, SessionType

\* process_proposals changes the queue and, with it, the status.
LEMMA ProposeType ==
  ASSUME NEW s \in SessionType, NEW p \in Proposals, s.status # "inactive"
  PROVE  /\ Propose(s, p) \in SessionType
         /\ Propose(s, p).status # "inactive"
         /\ Propose(s, p).sender = s.sender
         /\ Propose(s, p).staged = s.staged
         /\ Propose(s, p).ratchet = s.ratchet
         /\ Propose(s, p).ready = s.ready
<1> DEFINE q == IF p.op = "append" THEN s.queued \cup {p.user} ELSE s.queued \ {p.user}
           st == CASE q # {} -> "awaiting"
                   [] q = {} /\ s.status = "awaiting" ->
                            IF s.ready THEN "active" ELSE "pending"
                   [] OTHER -> s.status
<1>1. q \in SUBSET Users
  BY DEF SessionType, Proposals
<1>2. st \in {"pending", "awaiting", "active"}
  BY DEF SessionType
<1>3. Propose(s, p) = [s EXCEPT !.queued = q, !.status = st]
  BY DEF Propose
<1> HIDE DEF q, st
<1> QED BY <1>1, <1>2, <1>3 DEF SessionType

\* A handshake stages the key for its transition or, for id zero, uses it.
LEMMA JoinType ==
  ASSUME NEW s \in SessionType, NEW t \in Tids, NEW k \in 1 .. MaxKeys
  PROVE  /\ Join(s, t, k) \in SessionType
         /\ Join(s, t, k).status = "active"
         /\ Join(s, t, k).sender = s.sender
         /\ DOMAIN Join(s, t, k).staged \subseteq DOMAIN s.staged \cup {t}
         /\ t = 0 => Join(s, t, k).staged = NoKeys
<1> DEFINE st == IF t = 0 THEN NoKeys ELSE Put(s.staged, t, k)
           rt == IF t = 0 THEN k ELSE s.ratchet
<1>0. s.staged \in Maps(Tids \ {0}, 1 .. MaxKeys)
  BY DEF SessionType
<1>1. CASE t = 0
  <2>1. st \in Maps(Tids \ {0}, 1 .. MaxKeys) /\ DOMAIN st = {}
    BY <1>1, NoKeysType
  <2>2. rt \in 0 .. MaxKeys
    BY <1>1, DaveAssumption
  <2>3. Join(s, t, k) = [s EXCEPT !.status = "active", !.queued = {}, !.ready = TRUE,
                                  !.staged = st, !.ratchet = rt]
    BY DEF Join
  <2>4. st = NoKeys
    BY <1>1
  <2> HIDE DEF st, rt
  <2> QED BY <1>1, <2>1, <2>2, <2>3, <2>4 DEF SessionType
<1>2. CASE t # 0
  <2>1. /\ st \in Maps(Tids \ {0}, 1 .. MaxKeys)
        /\ DOMAIN st = DOMAIN s.staged \cup {t}
    <3>1. t \in Tids \ {0}
      BY <1>2
    <3>2. st = Put(s.staged, t, k)
      BY <1>2
    <3> HIDE DEF st
    <3>3. st \in Maps(Tids \ {0}, 1 .. MaxKeys)
      BY <1>0, <3>1, <3>2, PutType
    <3>4. DOMAIN st = DOMAIN s.staged \cup {t}
      BY <3>2 DEF Put
    <3> QED BY <3>3, <3>4
  <2>2. rt \in 0 .. MaxKeys
    BY <1>2 DEF SessionType
  <2> QED BY <1>2, <2>1, <2>2 DEF Join, SessionType
<1> QED BY <1>1, <1>2

\* The staged key of a transition is used or thrown away, and is gone.
LEMMA ExecuteStagedType ==
  ASSUME NEW s \in SessionType, NEW t, NEW v
  PROVE  /\ ExecuteStaged(s, t, v) \in SessionType
         /\ ExecuteStaged(s, t, v).status = s.status
         /\ ExecuteStaged(s, t, v).sender = s.sender
         /\ DOMAIN ExecuteStaged(s, t, v).staged = DOMAIN s.staged \ {t}
         /\ v = 0 \/ t \notin DOMAIN s.staged => ExecuteStaged(s, t, v).ratchet = s.ratchet
<1> DEFINE rt == IF v # 0 /\ t \in DOMAIN s.staged THEN s.staged[t] ELSE s.ratchet
<1>1. s.staged \in Maps(Tids \ {0}, 1 .. MaxKeys)
  BY DEF SessionType
<1>2. rt \in 0 .. MaxKeys
  <2>1. CASE v # 0 /\ t \in DOMAIN s.staged
    <3>1. s.staged[t] \in 1 .. MaxKeys
      BY <1>1, <2>1, MapValue
    <3> QED BY <2>1, <3>1, DaveAssumption
  <2>2. CASE ~(v # 0 /\ t \in DOMAIN s.staged)
    BY <2>2 DEF SessionType
  <2> QED BY <2>1, <2>2
<1>3. /\ Drop(s.staged, t) \in Maps(Tids \ {0}, 1 .. MaxKeys)
      /\ DOMAIN Drop(s.staged, t) = DOMAIN s.staged \ {t}
  <2>1. Drop(s.staged, t) \in Maps(Tids \ {0}, 1 .. MaxKeys)
    BY <1>1, DropType
  <2> QED BY <2>1 DEF Drop
<1>4. ExecuteStaged(s, t, v) = [s EXCEPT !.ratchet = rt, !.staged = Drop(s.staged, t)]
  BY DEF ExecuteStaged
<1>5. v = 0 \/ t \notin DOMAIN s.staged => rt = s.ratchet
  OBVIOUS
<1> HIDE DEF rt
<1> QED BY <1>2, <1>3, <1>4, <1>5 DEF SessionType

-----------------------------------------------------------------------------
(***************************************************************************)
(* The operations of the handler.                                          *)
(***************************************************************************)

\* DaveHandler::new.
LEMMA DaveInitInv == HandlerInv(DaveInit)
<1>1. NoKeys \in Maps(Tids, 0 .. Version)
  BY NoKeysType
<1>2. 0 \in 0 .. MaxKeys /\ 0 \in 0 .. Version
  BY DaveAssumption DEF Version
<1>3. DaveInit \in DaveType
  BY <1>1, <1>2 DEF DaveInit, DaveType
<1> QED BY <1>3, DaveAssumption
  DEF HandlerInv, SenderSetIsUsable, BuffersDrained, StagedIsPending,
      PreparedBeforeSession, HasSession, DaveInit

\* reset leaves a handler without a session, with the requirement it had.
LEMMA ResetInv ==
  ASSUME NEW d, HandlerInv(d)
  PROVE  /\ HandlerInv(Reset(d))
         /\ ~HasSession(Reset(d))
         /\ Reset(d).required = d.required
         /\ Reset(d).pending = NoKeys
         /\ ~Reset(d).replaying
<1>1. d.required \in BOOLEAN /\ d.users \in SUBSET Users /\ d.keys \in 0 .. MaxKeys
  BY DEF HandlerInv, DaveType
<1>2. DaveInit \in DaveType
  BY DaveInitInv DEF HandlerInv
<1>3. Reset(d) \in DaveType
  BY <1>1, <1>2 DEF Reset, DaveType
<1>4. /\ Reset(d).session = NoSession /\ Reset(d).saved = NoSender
      /\ Reset(d).senderSet = FALSE /\ Reset(d).replaying = FALSE
      /\ Reset(d).proposals = <<>> /\ Reset(d).handshakes = <<>>
      /\ Reset(d).keys = d.keys /\ Reset(d).required = d.required
      /\ Reset(d).pending = NoKeys
  BY DEF Reset, DaveInit
<1> QED BY <1>1, <1>3, <1>4, DaveAssumption
  DEF HandlerInv, SenderSetIsUsable, BuffersDrained, StagedIsPending,
      PreparedBeforeSession, HasSession

\* setup_session leaves a prepared session, encryption required and the buffers
\* empty.  A sender that is saved is the session's, and gives it a group.
LEMMA SetupInv ==
  ASSUME NEW d, HandlerInv(d), ~d.replaying
  PROVE  /\ HandlerInv(Setup(d))
         /\ HasSession(Setup(d))
         /\ Setup(d).required
         /\ Setup(d).pending = d.pending
         /\ ~Setup(d).replaying
         /\ Setup(d).session.ratchet \in {0} \cup
               (IF HasSession(d) THEN {d.session.ratchet} ELSE {})
<1> DEFINE s == IF HasSession(d) THEN Reinit(d.session, d.version # 0) ELSE NewSession
           b == HasSession(d) /\ d.saved # NoSender
<1>1. /\ s \in SessionType /\ DOMAIN s.staged = {} /\ s.sender = d.saved
      /\ b => s.status # "inactive"
      /\ s.ratchet \in {0} \cup (IF HasSession(d) THEN {d.session.ratchet} ELSE {})
  <2>1. CASE HasSession(d)
    <3>1. d.session \in SessionType /\ (d.version # 0) \in BOOLEAN
      BY <2>1 DEF HandlerInv, DaveType, HasSession
    <3>2. d.session.sender = d.saved
      BY <2>1 DEF HandlerInv, SenderSetIsUsable
    <3>3. s = Reinit(d.session, d.version # 0)
      BY <2>1
    <3>4. DOMAIN s.staged = {}
      BY <3>1, <3>3, ReinitType DEF NoKeys
    <3> HIDE DEF s
    <3> QED BY <2>1, <3>1, <3>2, <3>3, <3>4, ReinitType
  <2>2. CASE ~HasSession(d)
    <3>1. d.saved = NoSender
      BY <2>2 DEF HandlerInv, SenderSetIsUsable
    <3>2. s = NewSession /\ NewSession.ratchet = 0 /\ DOMAIN s.staged = {}
      BY <2>2 DEF NewSession, NoKeys
    <3> HIDE DEF s
    <3> QED BY <2>2, <3>1, <3>2, NewSessionType
  <2> QED BY <2>1, <2>2
<1>2. Setup(d) = [d EXCEPT !.session = s, !.required = TRUE, !.prepared = Version,
                           !.senderSet = b, !.proposals = <<>>, !.handshakes = <<>>]
  BY DEF Setup
<1>3. b \in BOOLEAN /\ (b => d.saved # NoSender)
  OBVIOUS
<1> HIDE DEF s, b
<1>4. /\ Setup(d).session = s /\ Setup(d).required = TRUE
      /\ Setup(d).prepared = Version /\ Setup(d).senderSet = b
      /\ Setup(d).proposals = <<>> /\ Setup(d).handshakes = <<>>
      /\ Setup(d).pending = d.pending /\ Setup(d).replaying = d.replaying
      /\ Setup(d).saved = d.saved /\ Setup(d).keys = d.keys
  BY <1>2 DEF HandlerInv, DaveType
<1>5. Setup(d) \in DaveType
  <2>1. Version \in 0 .. Version
    BY DEF Version
  <2>2. <<>> \in Seq(Proposals) /\ <<>> \in Seq(Handshakes)
    OBVIOUS
  <2>3. d \in DaveType
    BY DEF HandlerInv
  <2> QED BY <1>1, <1>2, <1>3, <2>1, <2>2, <2>3 DEF DaveType
<1>6. HasSession(Setup(d))
  BY <1>1, <1>4, NoSessionIsNone DEF HasSession
<1>7. SenderSetIsUsable(Setup(d))
  BY <1>1, <1>3, <1>4, <1>6 DEF SenderSetIsUsable
<1>8. BuffersDrained(Setup(d))
  BY <1>4, DaveAssumption DEF HandlerInv, DaveType, BuffersDrained
<1>9. StagedIsPending(Setup(d)) /\ PreparedBeforeSession(Setup(d))
  BY <1>1, <1>4 DEF StagedIsPending, PreparedBeforeSession
<1> QED BY <1>1, <1>4, <1>5, <1>6, <1>7, <1>8, <1>9 DEF HandlerInv

\* A failed message: a new session, no key and no transition.
LEMMA RestartInv ==
  ASSUME NEW d, HandlerInv(d)
  PROVE  /\ HandlerInv(Restart(d))
         /\ HasSession(Restart(d))
         /\ Restart(d).required
         /\ Restart(d).pending = NoKeys
         /\ ~Restart(d).replaying
         /\ Restart(d).session.ratchet = 0
<1>1. /\ HandlerInv(Reset(d)) /\ ~HasSession(Reset(d))
      /\ Reset(d).pending = NoKeys /\ ~Reset(d).replaying
  BY ResetInv
<1> QED BY <1>1, SetupInv DEF Restart
\* execute_transition of a transition that is pending, in every part.
LEMMA ExecuteParts ==
  ASSUME NEW d, HandlerInv(d), NEW t \in DOMAIN d.pending
  PROVE  LET v == d.pending[t]
             e == Execute(d, t)
         IN  /\ v \in 0 .. Version
             /\ e = [d EXCEPT !.pending = Drop(d.pending, t),
                              !.session = e.session,
                              !.version = v,
                              !.required = (v # 0)]
             /\ e.session = IF HasSession(d) THEN ExecuteStaged(d.session, t, v) ELSE NoSession
<1> DEFINE v == d.pending[t]
           x == IF HasSession(d) THEN ExecuteStaged(d.session, t, v) ELSE d.session
<1>1. d \in DaveType
  BY DEF HandlerInv
<1>2. d.pending \in Maps(Tids, 0 .. Version)
  BY <1>1 DEF DaveType
<1>3. v \in 0 .. Version
  BY <1>2, MapValue
<1>4. Execute(d, t) = [d EXCEPT !.pending = Drop(d.pending, t), !.session = x,
                                !.version = v, !.required = (v # 0)]
  BY DEF Execute
<1>5. x = IF HasSession(d) THEN ExecuteStaged(d.session, t, v) ELSE NoSession
  BY DEF HasSession
<1> HIDE DEF v, x
<1>6. Execute(d, t).session = x
  BY <1>1, <1>4 DEF DaveType
<1> QED BY <1>3, <1>4, <1>5, <1>6 DEF v

\* It keeps the handler sound: the staged key goes with its transition.
LEMMA ExecuteInv ==
  ASSUME NEW d, HandlerInv(d), NEW t
  PROVE  HandlerInv(Execute(d, t)) /\ Execute(d, t).replaying = d.replaying
<1>1. CASE t \notin DOMAIN d.pending
  BY <1>1 DEF Execute
<1>2. CASE t \in DOMAIN d.pending
  <2> DEFINE v == d.pending[t]
             e == Execute(d, t)
             x == e.session
  <2>1. /\ v \in 0 .. Version
        /\ e = [d EXCEPT !.pending = Drop(d.pending, t), !.session = x,
                         !.version = v, !.required = (v # 0)]
        /\ x = IF HasSession(d) THEN ExecuteStaged(d.session, t, v) ELSE NoSession
    BY <1>2, ExecuteParts
  <2> HIDE DEF v, e, x
  <2>2. d \in DaveType
    BY DEF HandlerInv
  <2>3. Drop(d.pending, t) \in Maps(Tids, 0 .. Version)
    BY <2>2, DropType DEF DaveType
  <2>4. /\ x \in SessionType \cup {NoSession}
        /\ (x # NoSession) <=> HasSession(d)
        /\ HasSession(d) => /\ x.sender = d.session.sender
                            /\ x.status = d.session.status
                            /\ DOMAIN x.staged = DOMAIN d.session.staged \ {t}
    <3>1. CASE HasSession(d)
      <4>1. d.session \in SessionType /\ x = ExecuteStaged(d.session, t, v)
        BY <2>1, <2>2, <3>1 DEF DaveType, HasSession
      <4>2. /\ x \in SessionType /\ x.sender = d.session.sender
            /\ x.status = d.session.status
        BY <4>1, ExecuteStagedType
      <4>3. DOMAIN x.staged = DOMAIN d.session.staged \ {t}
        BY <4>1 DEF ExecuteStaged, SessionType, Drop
      <4>4. x # NoSession
        BY <4>2, NoSessionIsNone
      <4> QED BY <3>1, <4>2, <4>3, <4>4
    <3>2. CASE ~HasSession(d)
      <4>1. x = NoSession
        BY <2>1, <3>2
      <4> QED BY <3>2, <4>1
    <3> QED BY <3>1, <3>2
  <2>5. (v # 0) \in BOOLEAN
    OBVIOUS
  <2>6. e \in DaveType
    BY <2>1, <2>2, <2>3, <2>4, <2>5 DEF DaveType
  <2>7. /\ e.session = x /\ e.pending = Drop(d.pending, t) /\ e.saved = d.saved
        /\ e.senderSet = d.senderSet /\ e.replaying = d.replaying
        /\ e.proposals = d.proposals /\ e.handshakes = d.handshakes
        /\ e.keys = d.keys /\ e.prepared = d.prepared
    BY <2>1, <2>2 DEF DaveType
  <2>8. HasSession(e) <=> HasSession(d)
    BY <2>4, <2>7 DEF HasSession
  <2>9. SenderSetIsUsable(e) /\ BuffersDrained(e) /\ PreparedBeforeSession(e)
    BY <2>4, <2>7, <2>8
    DEF HandlerInv, SenderSetIsUsable, BuffersDrained, PreparedBeforeSession
  <2>10. StagedIsPending(e)
    BY <2>4, <2>7, <2>8 DEF HandlerInv, StagedIsPending, Drop
  <2> QED BY <2>6, <2>7, <2>9, <2>10 DEF HandlerInv, e
<1> QED BY <1>1, <1>2

\* A transition is noted: nothing but the pending ones changes.
LEMMA NotedInv ==
  ASSUME NEW d, HandlerInv(d), NEW t \in Tids, NEW v \in 0 .. Version
  PROVE  HandlerInv([d EXCEPT !.pending = Put(@, t, v)])
<1> DEFINE e == [d EXCEPT !.pending = Put(@, t, v)]
<1>1. d \in DaveType
  BY DEF HandlerInv
<1>2. Put(d.pending, t, v) \in Maps(Tids, 0 .. Version)
  BY <1>1, PutType DEF DaveType
<1>3. e \in DaveType
  BY <1>1, <1>2 DEF DaveType
<1>4. /\ e.session = d.session /\ e.saved = d.saved
      /\ e.senderSet = d.senderSet /\ e.replaying = d.replaying
      /\ e.proposals = d.proposals /\ e.handshakes = d.handshakes
      /\ e.keys = d.keys /\ e.prepared = d.prepared
      /\ DOMAIN e.pending = DOMAIN d.pending \cup {t}
  BY <1>1 DEF DaveType, Put
<1> HIDE DEF e
<1>5. SenderSetIsUsable(e) /\ BuffersDrained(e) /\ PreparedBeforeSession(e)
  BY <1>4
  DEF HandlerInv, SenderSetIsUsable, BuffersDrained, PreparedBeforeSession, HasSession
<1>6. StagedIsPending(e)
  BY <1>4 DEF HandlerInv, StagedIsPending, HasSession
<1>7. HandlerInv(e)
  BY <1>3, <1>5, <1>6 DEF HandlerInv
<1> QED BY <1>7 DEF e

\* prepare_transition.
LEMMA PrepareInv ==
  ASSUME NEW d, HandlerInv(d), NEW t \in Tids, NEW v
  PROVE  HandlerInv(Prepare(d, t, v)) /\ Prepare(d, t, v).replaying = d.replaying
<1> DEFINE noted == [d EXCEPT !.pending = Put(@, t, v)]
<1>1. CASE ~Supported(v)
  BY <1>1 DEF Prepare
<1>2. CASE Supported(v)
  <2>1. v \in 0 .. Version
    BY <1>2 DEF Supported, Version
  <2>2. HandlerInv(noted)
    BY <2>1, NotedInv
  <2>3. noted.replaying = d.replaying
    BY DEF HandlerInv, DaveType
  <2> HIDE DEF noted
  <2>4. Prepare(d, t, v) = IF t = 0 THEN Execute(noted, 0) ELSE noted
    BY <1>2 DEF Prepare, noted
  <2> QED BY <2>2, <2>3, <2>4, ExecuteInv
<1> QED BY <1>1, <1>2
\* The session changes and its sender stays.
LEMMA SessionInv ==
  ASSUME NEW d, HandlerInv(d), HasSession(d), NEW s \in SessionType,
         s.sender = d.session.sender, s.status # "inactive",
         DOMAIN s.staged \subseteq DOMAIN d.pending
  PROVE  /\ HandlerInv([d EXCEPT !.session = s])
         /\ HasSession([d EXCEPT !.session = s])
<1> DEFINE e == [d EXCEPT !.session = s]
<1>1. d \in DaveType
  BY DEF HandlerInv
<1>2. e \in DaveType
  BY <1>1 DEF DaveType
<1>3. /\ e.session = s /\ e.saved = d.saved /\ e.senderSet = d.senderSet
      /\ e.replaying = d.replaying /\ e.proposals = d.proposals
      /\ e.handshakes = d.handshakes /\ e.keys = d.keys
      /\ e.prepared = d.prepared /\ e.pending = d.pending
  BY <1>1 DEF DaveType
<1> HIDE DEF e
<1>4. HasSession(e)
  BY <1>3, NoSessionIsNone DEF HasSession
<1>5. HandlerInv(e)
  BY <1>2, <1>3, <1>4
  DEF HandlerInv, SenderSetIsUsable, BuffersDrained, StagedIsPending, PreparedBeforeSession
<1> QED BY <1>4, <1>5 DEF e

\* A handshake that is accepted, with a key left to give it.
LEMMA HandshakeInv ==
  ASSUME NEW d, HandlerInv(d), HasSession(d), NEW m \in Handshakes,
         d.keys + Len(d.handshakes) < MaxKeys
  PROVE  /\ HandlerInv(Handshake(d, m)) /\ Handshake(d, m).replaying = d.replaying
         /\ Handshake(d, m).required = d.required
         /\ HasSession(Handshake(d, m))
         /\ Offered(Handshake(d, m)) = Offered(d)
         /\ m.tid # 0 => Key(Handshake(d, m)) = Key(d)
<1> DEFINE k == d.keys + 1
           v == IF m.tid # 0 /\ m.tid \in DOMAIN d.pending THEN d.pending[m.tid] ELSE d.prepared
           s == Join(d.session, m.tid, k)
           n == IF m.tid = 0 THEN v ELSE d.version
           p == IF m.tid = 0 THEN d.pending ELSE Put(d.pending, m.tid, v)
           e == Handshake(d, m)
<1>1. d \in DaveType /\ m.tid \in Tids /\ d.session \in SessionType
  BY DEF HandlerInv, DaveType, HasSession, Handshakes
<1>2. k \in 1 .. MaxKeys /\ k + Len(d.handshakes) <= MaxKeys /\ k \in 0 .. MaxKeys
  BY <1>1, DaveAssumption DEF DaveType
<1>3. v \in 0 .. Version /\ (m.tid # 0 /\ m.tid \in DOMAIN d.pending => v = d.pending[m.tid])
  <2>1. d.pending \in Maps(Tids, 0 .. Version) /\ d.prepared \in 0 .. Version
    BY <1>1 DEF DaveType
  <2> QED BY <2>1, MapValue
<1>4. m.tid = 0 \/ m.tid \notin DOMAIN d.pending => v = Version
  BY DEF HandlerInv, PreparedBeforeSession
<1>5. e = [d EXCEPT !.session = s, !.keys = k, !.version = n, !.pending = p]
  BY DEF Handshake
<1> HIDE DEF k, v, e
<1>6. s \in SessionType /\ s.status = "active" /\ s.sender = d.session.sender
  BY <1>1, <1>2, JoinType
<1>7. DOMAIN s.staged \subseteq DOMAIN p
  <2>1. DOMAIN d.session.staged \subseteq DOMAIN d.pending
    BY DEF HandlerInv, StagedIsPending
  <2>2. CASE m.tid = 0
    BY <1>1, <2>2 DEF Join, SessionType, NoKeys
  <2>3. CASE m.tid # 0
    BY <1>1, <2>1, <2>3 DEF Join, SessionType, Put
  <2> QED BY <2>2, <2>3
<1>8. p \in Maps(Tids, 0 .. Version)
  BY <1>1, <1>3, PutType DEF DaveType
<1>9. n \in 0 .. Version
  BY <1>1, <1>3 DEF DaveType
<1>10. {t \in DOMAIN p : p[t] = 0} = Offered(d)
  <2>1. CASE m.tid = 0
    BY <2>1 DEF Offered
  <2>2. CASE m.tid # 0 /\ m.tid \in DOMAIN d.pending
    BY <1>3, <2>2 DEF Offered, Put
  <2>3. CASE m.tid # 0 /\ m.tid \notin DOMAIN d.pending
    <3>1. v = 1
      BY <1>4, <2>3 DEF Version
    <3> QED BY <2>3, <3>1 DEF Offered, Put
  <2> QED BY <2>1, <2>2, <2>3
<1>17. m.tid # 0 => s.ratchet = d.session.ratchet
  BY <1>1 DEF Join, SessionType
<1> HIDE DEF s, n, p
<1>11. e \in DaveType
  BY <1>1, <1>2, <1>5, <1>6, <1>8, <1>9 DEF DaveType
<1>12. /\ e.session = s /\ e.saved = d.saved /\ e.senderSet = d.senderSet
       /\ e.replaying = d.replaying /\ e.proposals = d.proposals
       /\ e.handshakes = d.handshakes /\ e.keys = k
       /\ e.prepared = d.prepared /\ e.pending = p /\ e.required = d.required
  BY <1>1, <1>5 DEF DaveType
<1>13. HasSession(e)
  BY <1>6, <1>12, NoSessionIsNone DEF HasSession
<1>14. SenderSetIsUsable(e) /\ StagedIsPending(e) /\ PreparedBeforeSession(e)
  BY <1>6, <1>7, <1>12, <1>13
  DEF HandlerInv, SenderSetIsUsable, StagedIsPending, PreparedBeforeSession
<1>15. BuffersDrained(e)
  BY <1>2, <1>12 DEF HandlerInv, BuffersDrained
<1>16. Offered(e) = Offered(d)
  BY <1>10, <1>12 DEF Offered
<1>18. m.tid # 0 => Key(e) = Key(d)
  BY <1>12, <1>13, <1>17 DEF Key
<1> QED BY <1>11, <1>12, <1>13, <1>14, <1>15, <1>16, <1>18 DEF HandlerInv, e

\* A message is taken from the front of its buffer while they are replayed.
LEMMA TailInv ==
  ASSUME NEW d, HandlerInv(d), d.replaying
  PROVE  /\ d.proposals # <<>> =>
              /\ Head(d.proposals) \in Proposals
              /\ HandlerInv([d EXCEPT !.proposals = Tail(@)])
         /\ d.handshakes # <<>> =>
              /\ Head(d.handshakes) \in Handshakes
              /\ HandlerInv([d EXCEPT !.handshakes = Tail(@)])
              /\ d.keys + Len(Tail(d.handshakes)) < MaxKeys
<1>1. d \in DaveType /\ BuffersDrained(d)
  BY DEF HandlerInv
<1>2. /\ d.proposals \in Seq(Proposals) /\ d.handshakes \in Seq(Handshakes)
      /\ d.keys \in Nat
  BY <1>1 DEF DaveType
<1>3. ASSUME d.proposals # <<>>
      PROVE  /\ Head(d.proposals) \in Proposals
             /\ HandlerInv([d EXCEPT !.proposals = Tail(@)])
  <2> DEFINE e == [d EXCEPT !.proposals = Tail(@)]
  <2>1. /\ Head(d.proposals) \in Proposals /\ Tail(d.proposals) \in Seq(Proposals)
        /\ Len(Tail(d.proposals)) <= MaxPending
    BY <1>1, <1>2, <1>3, DaveAssumption DEF BuffersDrained
  <2>2. e \in DaveType
    BY <1>1, <2>1 DEF DaveType
  <2>3. /\ e.session = d.session /\ e.saved = d.saved /\ e.senderSet = d.senderSet
        /\ e.replaying = d.replaying /\ e.proposals = Tail(d.proposals)
        /\ e.handshakes = d.handshakes /\ e.keys = d.keys
        /\ e.prepared = d.prepared /\ e.pending = d.pending
    BY <1>1 DEF DaveType
  <2> HIDE DEF e
  <2>4. HandlerInv(e)
    BY <2>1, <2>2, <2>3
    DEF HandlerInv, SenderSetIsUsable, BuffersDrained, StagedIsPending,
        PreparedBeforeSession, HasSession
  <2> QED BY <2>1, <2>4 DEF e
<1>4. ASSUME d.handshakes # <<>>
      PROVE  /\ Head(d.handshakes) \in Handshakes
             /\ HandlerInv([d EXCEPT !.handshakes = Tail(@)])
             /\ d.keys + Len(Tail(d.handshakes)) < MaxKeys
  <2> DEFINE e == [d EXCEPT !.handshakes = Tail(@)]
  <2>1. /\ Head(d.handshakes) \in Handshakes /\ Tail(d.handshakes) \in Seq(Handshakes)
        /\ Len(Tail(d.handshakes)) <= MaxPending
        /\ d.keys + Len(Tail(d.handshakes)) < MaxKeys
    BY <1>1, <1>2, <1>4, DaveAssumption DEF BuffersDrained
  <2>2. e \in DaveType
    BY <1>1, <2>1 DEF DaveType
  <2>3. /\ e.session = d.session /\ e.saved = d.saved /\ e.senderSet = d.senderSet
        /\ e.replaying = d.replaying /\ e.proposals = d.proposals
        /\ e.handshakes = Tail(d.handshakes) /\ e.keys = d.keys
        /\ e.prepared = d.prepared /\ e.pending = d.pending
    BY <1>1 DEF DaveType
  <2> HIDE DEF e
  <2>4. HandlerInv(e)
    BY <1>2, <2>1, <2>2, <2>3, DaveAssumption
    DEF HandlerInv, SenderSetIsUsable, BuffersDrained, StagedIsPending,
        PreparedBeforeSession, HasSession
  <2> QED BY <2>1, <2>4 DEF e
<1> QED BY <1>3, <1>4
-----------------------------------------------------------------------------
(***************************************************************************)
(* The steps keep DaveInv.                                                 *)
(***************************************************************************)

\* A step after which nothing is replayed has only the handler to look after.
LEMMA QuietInv ==
  ASSUME HandlerInv(dave'), ~dave'.replaying, speak' \in {"idle", "open", "failed"}
  PROVE  DaveInv'
BY DEF DaveInv

\* A failed message restarts the session.
LEMMA FailInv ==
  ASSUME DaveInv, NEW kind, Fail(kind)
  PROVE  DaveInv'
BY RestartInv, QuietInv DEF Fail, DaveInv

\* The session description, with and without a version.
LEMMA DescribeInv ==
  ASSUME DaveInv, ~dave.replaying, (\E v \in Versions : Describe(v)) \/ DescribeLegacy
  PROVE  DaveInv'
<1>1. ASSUME NEW v \in Versions, Describe(v)
      PROVE  DaveInv'
  <2>1. CASE v = 0
    <3> DEFINE r == Reset(dave)
    <3>1. HandlerInv(r) /\ ~HasSession(r) /\ ~r.replaying
      BY ResetInv DEF DaveInv
    <3>2. dave' = [r EXCEPT !.required = FALSE]
      BY <1>1, <2>1 DEF Describe, Version
    <3> HIDE DEF r
    <3>3. dave' \in DaveType
      BY <3>1, <3>2 DEF HandlerInv, DaveType
    <3>4. /\ dave'.session = r.session /\ dave'.saved = r.saved
          /\ dave'.senderSet = r.senderSet /\ dave'.replaying = r.replaying
          /\ dave'.proposals = r.proposals /\ dave'.handshakes = r.handshakes
          /\ dave'.keys = r.keys /\ dave'.prepared = r.prepared
      BY <3>1, <3>2 DEF HandlerInv, DaveType
    <3>5. HandlerInv(dave')
      BY <3>1, <3>3, <3>4
      DEF HandlerInv, SenderSetIsUsable, BuffersDrained, StagedIsPending,
          PreparedBeforeSession, HasSession
    <3> QED BY <1>1, <3>1, <3>4, <3>5, QuietInv DEF DaveInv, Describe
  <2>2. CASE v = Version
    <3>1. dave' = Setup(dave)
      BY <1>1, <2>2 DEF Describe, Version
    <3> QED BY <1>1, <3>1, SetupInv, QuietInv DEF DaveInv, Describe
  <2>3. CASE v # 0 /\ v # Version
    <3> DEFINE r == [dave EXCEPT !.required = TRUE]
    <3>1. dave' = Reset(r)
      <4>1. dave' = CASE v = 0 -> [Reset(dave) EXCEPT !.required = FALSE]
                      [] v = Version -> Setup(dave)
                      [] OTHER -> Reset(r)
        BY <1>1 DEF Describe
      <4> HIDE DEF r
      <4> QED BY <2>3, <4>1
    <3>2. r.users = dave.users /\ r.keys = dave.keys /\ r.required = TRUE
      BY DEF DaveInv, HandlerInv, DaveType
    <3>3. r \in DaveType
      BY DEF DaveInv, HandlerInv, DaveType
    <3>4. /\ r.session = dave.session /\ r.saved = dave.saved
          /\ r.senderSet = dave.senderSet /\ r.replaying = dave.replaying
          /\ r.proposals = dave.proposals /\ r.handshakes = dave.handshakes
          /\ r.keys = dave.keys /\ r.prepared = dave.prepared
          /\ r.pending = dave.pending
      BY DEF DaveInv, HandlerInv, DaveType
    <3> HIDE DEF r
    <3>5. HandlerInv(r)
      BY <3>3, <3>4
      DEF DaveInv, HandlerInv, SenderSetIsUsable, BuffersDrained, StagedIsPending,
          PreparedBeforeSession, HasSession
    <3> QED BY <1>1, <3>1, <3>5, ResetInv, QuietInv DEF DaveInv, Describe
  <2> QED BY <2>1, <2>2, <2>3
<1>2. CASE DescribeLegacy
  BY <1>2, ResetInv, QuietInv DEF DescribeLegacy, DaveInv
<1> QED BY <1>1, <1>2

\* Transitions and epochs.
LEMMA TransitionInv ==
  ASSUME DaveInv, ~dave.replaying,
         \/ \E t \in Tids, v \in Versions : PrepareTransition(t, v)
         \/ \E t \in Tids : ExecuteTransition(t)
         \/ PrepareGroup
         \/ \E t \in Tids : PrepareEpoch(t)
  PROVE  DaveInv'
<1>1. ASSUME NEW t \in Tids, NEW v \in Versions, PrepareTransition(t, v)
      PROVE  DaveInv'
  BY <1>1, PrepareInv, QuietInv DEF PrepareTransition, DaveInv
<1>2. ASSUME NEW t \in Tids, ExecuteTransition(t)
      PROVE  DaveInv'
  BY <1>2, ExecuteInv, QuietInv DEF ExecuteTransition, DaveInv
<1>3. CASE PrepareGroup
  BY <1>3, SetupInv, QuietInv DEF PrepareGroup, DaveInv
<1>4. ASSUME NEW t \in Tids, PrepareEpoch(t)
      PROVE  DaveInv'
  <2>1. dave' = dave
    BY <1>4
    DEF PrepareEpoch, DaveInv, HandlerInv, PreparedBeforeSession, DaveType
  <2> QED BY <1>4, <2>1, QuietInv DEF PrepareEpoch, DaveInv
<1> QED BY <1>1, <1>2, <1>3, <1>4

\* The external sender: the session takes it, and the replay begins.
LEMMA ExternalSenderInv ==
  ASSUME DaveInv, ~dave.replaying, NEW x \in Senders, NEW ok \in BOOLEAN,
         ExternalSender(x, ok)
  PROVE  DaveInv'
<1>1. CASE (dave.senderSet /\ dave.saved = x) \/ ~HasSession(dave)
  BY <1>1, QuietInv DEF ExternalSender, DaveInv
<1>2. CASE Fail("sender")
  BY <1>2, FailInv
<1>3. CASE /\ HasSession(dave)
           /\ dave' = [dave EXCEPT !.session = SetSender(@, x), !.senderSet = TRUE,
                                   !.saved = x, !.replaying = TRUE]
           /\ Says("sender", NoTid) /\ UNCHANGED <<speak, wire>>
  <2> DEFINE s == SetSender(dave.session, x)
  <2>1. dave \in DaveType /\ dave.session \in SessionType
    BY <1>3 DEF DaveInv, HandlerInv, DaveType, HasSession
  <2>2. /\ s \in SessionType /\ s.sender = x /\ s.status = "pending"
        /\ s.staged = dave.session.staged
    BY <2>1, SetSenderType
  <2>3. dave' = [dave EXCEPT !.session = s, !.senderSet = TRUE,
                             !.saved = x, !.replaying = TRUE]
    BY <1>3
  <2> HIDE DEF s
  <2>4. dave' \in DaveType
    BY <2>1, <2>2, <2>3 DEF DaveType
  <2>5. /\ dave'.session = s /\ dave'.saved = x
        /\ dave'.senderSet = TRUE /\ dave'.replaying = TRUE
        /\ dave'.proposals = dave.proposals /\ dave'.handshakes = dave.handshakes
        /\ dave'.keys = dave.keys /\ dave'.prepared = dave.prepared
        /\ dave'.pending = dave.pending
    BY <2>1, <2>3 DEF DaveType
  <2>6. HasSession(dave') /\ x # NoSender
    BY <2>2, <2>5, NoSessionIsNone, DaveAssumption DEF HasSession
  <2>7. SenderSetIsUsable(dave') /\ StagedIsPending(dave') /\ PreparedBeforeSession(dave')
    BY <1>3, <2>2, <2>5, <2>6
    DEF DaveInv, HandlerInv, SenderSetIsUsable, StagedIsPending, PreparedBeforeSession
  <2>8. BuffersDrained(dave')
    BY <2>5 DEF DaveInv, HandlerInv, BuffersDrained
  <2>9. HandlerInv(dave')
    BY <2>4, <2>7, <2>8 DEF HandlerInv
  <2>10. speak' = speak /\ said'.kind = "sender"
    BY <1>3 DEF Says
  <2> QED BY <2>9, <2>10 DEF DaveInv
<1> QED BY <1>1, <1>2, <1>3 DEF ExternalSender
\* Proposals: buffered before the sender is known, then committed to.
LEMMA ProposalsInv ==
  ASSUME DaveInv, ~dave.replaying, NEW p \in Proposals, ProcessProposals(p)
  PROVE  DaveInv'
<1>0. dave \in DaveType
  BY DEF DaveInv, HandlerInv
<1>1. CASE ~dave.senderSet
  <2> DEFINE q == IF Len(dave.proposals) < MaxPending THEN Append(dave.proposals, p)
                                                      ELSE dave.proposals
  <2>1. q \in Seq(Proposals) /\ Len(q) <= MaxPending
    <3>1. dave.proposals \in Seq(Proposals) /\ Len(dave.proposals) <= MaxPending
      BY <1>0 DEF DaveType, DaveInv, HandlerInv, BuffersDrained
    <3> QED BY <3>1, DaveAssumption
  <2>2. dave' = [dave EXCEPT !.proposals = q]
    BY <1>1 DEF ProcessProposals
  <2> HIDE DEF q
  <2>3. dave' \in DaveType
    BY <1>0, <2>1, <2>2 DEF DaveType
  <2>4. /\ dave'.session = dave.session /\ dave'.saved = dave.saved
        /\ dave'.senderSet = FALSE /\ dave'.replaying = dave.replaying
        /\ dave'.proposals = q /\ dave'.handshakes = dave.handshakes
        /\ dave'.keys = dave.keys /\ dave'.prepared = dave.prepared
        /\ dave'.pending = dave.pending
    BY <1>0, <1>1, <2>2 DEF DaveType
  <2>5. HandlerInv(dave')
    BY <2>1, <2>3, <2>4
    DEF DaveInv, HandlerInv, SenderSetIsUsable, BuffersDrained, StagedIsPending,
        PreparedBeforeSession, HasSession
  <2>6. speak' = speak
    BY <1>1 DEF ProcessProposals
  <2> QED BY <2>4, <2>5, <2>6, QuietInv DEF DaveInv
<1>2. CASE dave.senderSet /\ CanPropose(dave.session, p, dave.users)
  <2> DEFINE s == Propose(dave.session, p)
  <2>1. /\ HasSession(dave) /\ dave.session \in SessionType
        /\ dave.session.status # "inactive"
    BY <1>0, <1>2 DEF DaveInv, HandlerInv, SenderSetIsUsable, DaveType, HasSession
  <2>2. /\ s \in SessionType /\ s.status # "inactive"
        /\ s.sender = dave.session.sender /\ s.staged = dave.session.staged
    BY <2>1, ProposeType
  <2>3. dave' = [dave EXCEPT !.session = s]
    BY <1>2 DEF ProcessProposals
  <2> HIDE DEF s
  <2>4. DOMAIN s.staged \subseteq DOMAIN dave.pending
    BY <2>1, <2>2 DEF DaveInv, HandlerInv, StagedIsPending
  <2>5. HandlerInv(dave')
    BY <2>1, <2>2, <2>3, <2>4, SessionInv DEF DaveInv
  <2>6. dave'.replaying = dave.replaying
    BY <1>0, <2>3 DEF DaveType
  <2>7. speak' = speak
    BY <1>2 DEF ProcessProposals
  <2> QED BY <2>5, <2>6, <2>7, QuietInv DEF DaveInv
<1>3. CASE Fail("proposals")
  BY <1>3, FailInv
<1> QED BY <1>1, <1>2, <1>3 DEF ProcessProposals

\* Commits and welcomes: buffered before the sender is known, then joined.
LEMMA ProcessHandshakeInv ==
  ASSUME DaveInv, ~dave.replaying, NEW m \in Handshakes, ProcessHandshake(m)
  PROVE  DaveInv'
<1>0. dave \in DaveType /\ dave.keys + Len(dave.handshakes) < MaxKeys
  BY DEF DaveInv, HandlerInv, ProcessHandshake
<1>1. CASE ~dave.senderSet
  <2> DEFINE q == IF Len(dave.handshakes) < MaxPending THEN Append(dave.handshakes, m)
                                                       ELSE dave.handshakes
  <2>1. q \in Seq(Handshakes) /\ Len(q) <= MaxPending /\ dave.keys + Len(q) <= MaxKeys
    <3>1. /\ dave.handshakes \in Seq(Handshakes) /\ Len(dave.handshakes) <= MaxPending
          /\ dave.keys \in 0 .. MaxKeys
      BY <1>0 DEF DaveType, DaveInv, HandlerInv, BuffersDrained
    <3> QED BY <1>0, <3>1, DaveAssumption
  <2>2. dave' = [dave EXCEPT !.handshakes = q]
    BY <1>1 DEF ProcessHandshake
  <2> HIDE DEF q
  <2>3. dave' \in DaveType
    BY <1>0, <2>1, <2>2 DEF DaveType
  <2>4. /\ dave'.session = dave.session /\ dave'.saved = dave.saved
        /\ dave'.senderSet = FALSE /\ dave'.replaying = dave.replaying
        /\ dave'.proposals = dave.proposals /\ dave'.handshakes = q
        /\ dave'.keys = dave.keys /\ dave'.prepared = dave.prepared
        /\ dave'.pending = dave.pending
    BY <1>0, <1>1, <2>2 DEF DaveType
  <2>5. HandlerInv(dave')
    BY <2>1, <2>3, <2>4
    DEF DaveInv, HandlerInv, SenderSetIsUsable, BuffersDrained, StagedIsPending,
        PreparedBeforeSession, HasSession
  <2>6. speak' = speak
    BY <1>1 DEF ProcessHandshake
  <2> QED BY <2>4, <2>5, <2>6, QuietInv DEF DaveInv
<1>2. CASE dave.senderSet /\ CanJoin(dave.session, m)
  <2>1. HasSession(dave)
    BY <1>2 DEF DaveInv, HandlerInv, SenderSetIsUsable
  <2>2. dave' = Handshake(dave, m) /\ speak' = speak
    BY <1>2 DEF ProcessHandshake
  <2> QED BY <1>0, <2>1, <2>2, HandshakeInv, QuietInv DEF DaveInv
<1>3. CASE Fail("handshake")
  BY <1>3, FailInv
<1> QED BY <1>1, <1>2, <1>3 DEF ProcessHandshake

\* The users that openmls is told of.
LEMMA UsersInv ==
  ASSUME DaveInv, ~dave.replaying, NEW u \in Users, AddUser(u) \/ RemoveUser(u)
  PROVE  DaveInv'
<1>0. dave \in DaveType
  BY DEF DaveInv, HandlerInv
<1>1. PICK U \in SUBSET Users : dave' = [dave EXCEPT !.users = U]
  <2>1. dave.users \in SUBSET Users
    BY <1>0 DEF DaveType
  <2> QED BY <2>1 DEF AddUser, RemoveUser
<1>2. dave' \in DaveType
  BY <1>0, <1>1 DEF DaveType
<1>3. /\ dave'.session = dave.session /\ dave'.saved = dave.saved
      /\ dave'.senderSet = dave.senderSet /\ dave'.replaying = dave.replaying
      /\ dave'.proposals = dave.proposals /\ dave'.handshakes = dave.handshakes
      /\ dave'.keys = dave.keys /\ dave'.prepared = dave.prepared
      /\ dave'.pending = dave.pending
  BY <1>0, <1>1 DEF DaveType
<1>4. HandlerInv(dave')
  BY <1>2, <1>3
  DEF DaveInv, HandlerInv, SenderSetIsUsable, BuffersDrained, StagedIsPending,
      PreparedBeforeSession, HasSession
<1>5. speak' = speak
  BY DEF AddUser, RemoveUser
<1> QED BY <1>3, <1>4, <1>5, QuietInv DEF DaveInv

\* The replay of the buffers, up to its end.
LEMMA ReplayInv ==
  ASSUME DaveInv, dave.replaying, Replay
  PROVE  DaveInv'
<1>0. /\ dave \in DaveType /\ HandlerInv(dave)
      /\ dave.senderSet /\ HasSession(dave)
  BY DEF DaveInv, HandlerInv, BuffersDrained, SenderSetIsUsable
<1>1. speak' = speak /\ said'.kind \in {"sender", "handshake"}
  BY DEF Replay, ReplayProposal, ReplayHandshake, ReplayEnds, Says, DaveInv
<1>2. SUFFICES HandlerInv(dave')
  BY <1>1 DEF DaveInv
<1>3. CASE dave' = Restart(dave)
  BY <1>0, <1>3, RestartInv
<1>4. CASE /\ dave.proposals # <<>>
           /\ dave' = [dave EXCEPT !.session = Propose(@, Head(dave.proposals)),
                                   !.proposals = Tail(@)]
  <2> DEFINE p == Head(dave.proposals)
             d == [dave EXCEPT !.proposals = Tail(@)]
             s == Propose(dave.session, p)
  <2>1. p \in Proposals /\ HandlerInv(d)
    BY <1>0, <1>4, TailInv
  <2>2. /\ d.session = dave.session /\ d.pending = dave.pending
        /\ dave.session \in SessionType /\ dave.session.status # "inactive"
    BY <1>0 DEF DaveType, HandlerInv, SenderSetIsUsable, HasSession
  <2>3. dave' = [d EXCEPT !.session = s]
    BY <1>0, <1>4 DEF DaveType
  <2>4. /\ s \in SessionType /\ s.status # "inactive"
        /\ s.sender = dave.session.sender /\ s.staged = dave.session.staged
    BY <2>1, <2>2, ProposeType
  <2> HIDE DEF p, d, s
  <2>5. HasSession(d) /\ DOMAIN s.staged \subseteq DOMAIN d.pending
    BY <1>0, <2>2, <2>4 DEF HandlerInv, StagedIsPending, HasSession
  <2> QED BY <2>1, <2>2, <2>3, <2>4, <2>5, SessionInv
<1>5. CASE /\ dave.handshakes # <<>>
           /\ dave' = Handshake([dave EXCEPT !.handshakes = Tail(@)], Head(dave.handshakes))
  <2> DEFINE m == Head(dave.handshakes)
             d == [dave EXCEPT !.handshakes = Tail(@)]
  <2>1. /\ m \in Handshakes /\ HandlerInv(d)
        /\ dave.keys + Len(Tail(dave.handshakes)) < MaxKeys
    BY <1>0, <1>5, TailInv
  <2>2. /\ d.session = dave.session /\ d.keys = dave.keys
        /\ d.handshakes = Tail(dave.handshakes)
    BY <1>0 DEF DaveType
  <2>3. dave' = Handshake(d, m)
    BY <1>5
  <2> HIDE DEF m, d
  <2>4. HasSession(d) /\ d.keys + Len(d.handshakes) < MaxKeys
    BY <1>0, <2>1, <2>2 DEF HasSession
  <2> QED BY <2>1, <2>3, <2>4, HandshakeInv
<1>6. CASE ReplayEnds
  <2>1. dave' = [dave EXCEPT !.replaying = FALSE]
    BY <1>6 DEF ReplayEnds
  <2>2. dave' \in DaveType
    BY <1>0, <2>1 DEF DaveType
  <2>3. /\ dave'.session = dave.session /\ dave'.saved = dave.saved
        /\ dave'.senderSet = dave.senderSet /\ dave'.replaying = FALSE
        /\ dave'.proposals = dave.proposals /\ dave'.handshakes = dave.handshakes
        /\ dave'.keys = dave.keys /\ dave'.prepared = dave.prepared
        /\ dave'.pending = dave.pending
    BY <1>0, <2>1 DEF DaveType
  <2>4. dave.proposals = <<>> /\ dave.handshakes = <<>>
    BY <1>6 DEF ReplayEnds
  <2> QED BY <1>0, <2>2, <2>3, <2>4
    DEF HandlerInv, SenderSetIsUsable, BuffersDrained, StagedIsPending,
        PreparedBeforeSession, HasSession
<1> QED BY <1>3, <1>4, <1>5, <1>6 DEF Replay, ReplayProposal, ReplayHandshake

\* Every step.
LEMMA StepInv == DaveInv /\ [Next]_vars => DaveInv'
<1> SUFFICES ASSUME DaveInv, [Next]_vars PROVE DaveInv'
  OBVIOUS
<1>1. CASE dave.replaying /\ Replay
  BY <1>1, ReplayInv
<1>2. CASE ~dave.replaying /\ GatewayNext
  <2>1. CASE Reidentify
    BY <2>1, ResetInv, QuietInv DEF Reidentify, DaveInv
  <2>2. CASE InvalidCommitWelcome
    BY <2>2, FailInv DEF InvalidCommitWelcome
  <2> QED BY <1>2, <2>1, <2>2, DescribeInv, TransitionInv, ExternalSenderInv,
             ProposalsInv, ProcessHandshakeInv, UsersInv DEF GatewayNext
<1>3. CASE ~dave.replaying /\ (Tick \/ \E s \in BOOLEAN : SendRaw(s))
  <2>1. dave' = dave /\ speak' \in {"idle", "open", "failed"}
    BY <1>3 DEF Tick, SendRaw
  <2> QED BY <1>3, <2>1, QuietInv DEF DaveInv
<1>4. CASE UNCHANGED vars
  BY <1>4 DEF vars, DaveInv
<1> QED BY <1>1, <1>2, <1>3, <1>4 DEF Next

\* The handler and its MLS session agree at every point: a usable sender, empty
\* buffers behind it, no stranded key, and a version that was prepared
\* (dave.rs:110-409), for any number of transitions, senders and users.
THEOREM DaveCorrect == Spec => []DaveInv
<1>1. Init => DaveInv
  BY DaveInitInv DEF Init, DaveInv, DaveInit
<1> QED BY <1>1, StepInv, PTL DEF Spec
-----------------------------------------------------------------------------
(***************************************************************************)
(* Dave implements MediaGate.  Most steps are Secure: encryption stays     *)
(* required, no transition to the clear is announced, and the key goes or  *)
(* stays.  What remains is the gateway's word, a new key and a packet.     *)
(***************************************************************************)

\* The mode of a handler of the right type.
LEMMA ModeIs ==
  ASSUME NEW d
  PROVE  /\ Mode(d) \in {"clear", "closed", "sealed"}
         /\ Mode(d) = "clear" <=> ~d.required
BY DEF Mode

\* Transitions are announced only in pending_transitions.
LEMMA OfferedIs ==
  ASSUME NEW d, NEW e
  PROVE  /\ e.pending = d.pending => Offered(e) = Offered(d)
         /\ e.pending = NoKeys => Offered(e) = {}
BY DEF Offered, NoKeys

\* A step that keeps the requirement and announces nothing.
LEMMA SecureStep ==
  ASSUME dave.required => dave'.required,
         Offered(dave') \subseteq Offered(dave),
         \/ Key(dave') \in {Key(dave), 0}
         \/ said'.kind = "execute"
         \/ said'.kind = "handshake" /\ said'.tid = 0,
         wire' = wire
  PROVE  Gate!GateNext
<1>1. /\ Mode(dave') \in {"clear", "closed", "sealed"}
      /\ Mode(dave') = "clear" <=> ~dave'.required
      /\ Mode(dave) = "clear" <=> ~dave.required
  BY ModeIs
<1>2. Gate!Secure
  BY <1>1 DEF Gate!Secure, Gate!Modes
<1> QED BY <1>2 DEF Gate!GateNext

\* A failed message: no transition and no key are left.
LEMMA FailGate ==
  ASSUME DaveInv, NEW kind, Fail(kind)
  PROVE  Gate!GateNext
<1>1. dave'.required /\ dave'.pending = NoKeys /\ Key(dave') = 0
  BY RestartInv DEF Fail, DaveInv, Key
<1>2. Offered(dave') \subseteq Offered(dave)
  BY <1>1, OfferedIs
<1> QED BY <1>1, <1>2, SecureStep DEF Fail

\* reset: the requirement stays, the rest is gone.
LEMMA ResetGate ==
  ASSUME DaveInv, dave' = Reset(dave), wire' = wire
  PROVE  Gate!GateNext
<1>1. dave'.required = dave.required /\ dave'.pending = NoKeys /\ Key(dave') = 0
  BY ResetInv DEF DaveInv, Key
<1>2. Offered(dave') \subseteq Offered(dave)
  BY <1>1, OfferedIs
<1> QED BY <1>1, <1>2, SecureStep

\* setup_session: encryption is required, the key is kept or gone.
LEMMA SetupGate ==
  ASSUME DaveInv, ~dave.replaying, dave' = Setup(dave), wire' = wire
  PROVE  Gate!GateNext
<1>1. /\ dave'.required /\ dave'.pending = dave.pending /\ HasSession(dave')
      /\ dave'.session.ratchet \in {0} \cup
            (IF HasSession(dave) THEN {dave.session.ratchet} ELSE {})
  BY SetupInv DEF DaveInv
<1>2. Key(dave') \in {Key(dave), 0}
  BY <1>1 DEF Key
<1>3. Offered(dave') \subseteq Offered(dave)
  BY <1>1, OfferedIs
<1> QED BY <1>1, <1>2, <1>3, SecureStep

\* The session description: version zero is the gateway's word for the clear.
LEMMA DescribeGate ==
  ASSUME DaveInv, ~dave.replaying, (\E v \in Versions : Describe(v)) \/ DescribeLegacy
  PROVE  Gate!GateNext
<1>1. ASSUME NEW v \in Versions, Describe(v)
      PROVE  Gate!GateNext
  <2>0. wire' = wire
    BY <1>1 DEF Describe
  <2>1. CASE v = 0
    <3> DEFINE r == Reset(dave)
    <3>1. HandlerInv(r) /\ ~HasSession(r) /\ r.pending = NoKeys
      BY ResetInv DEF DaveInv
    <3>2. dave' = [r EXCEPT !.required = FALSE] /\ said'.kind = "describe_clear"
      BY <1>1, <2>1 DEF Describe, Version, Says
    <3> HIDE DEF r
    <3>3. /\ dave'.required = FALSE /\ dave'.session = r.session
          /\ dave'.pending = NoKeys
      BY <3>1, <3>2 DEF HandlerInv, DaveType
    <3>4. Mode(dave') = "clear" /\ Key(dave') = 0 /\ Offered(dave') = {}
      BY <3>1, <3>3, OfferedIs DEF Mode, Key, HasSession
    <3>5. Gate!Allow
      BY <2>0, <3>2, <3>4 DEF Gate!Allow
    <3> QED BY <3>5 DEF Gate!GateNext
  <2>2. CASE v = Version
    <3>1. dave' = Setup(dave)
      BY <1>1, <2>2 DEF Describe, Version
    <3> QED BY <2>0, <3>1, SetupGate
  <2>3. CASE v # 0 /\ v # Version
    <3> DEFINE r == [dave EXCEPT !.required = TRUE]
    <3>1. dave' = Reset(r)
      <4>1. dave' = CASE v = 0 -> [Reset(dave) EXCEPT !.required = FALSE]
                      [] v = Version -> Setup(dave)
                      [] OTHER -> Reset(r)
        BY <1>1 DEF Describe
      <4> HIDE DEF r
      <4> QED BY <2>3, <4>1
    <3>2. r.required = TRUE
      BY DEF DaveInv, HandlerInv, DaveType
    <3> HIDE DEF r
    <3>3. dave'.required /\ dave'.pending = NoKeys /\ dave'.session = NoSession
      BY <3>1, <3>2 DEF Reset, DaveInit
    <3>4. Key(dave') = 0 /\ Offered(dave') \subseteq Offered(dave)
      BY <3>3, OfferedIs DEF Key, HasSession
    <3> QED BY <2>0, <3>3, <3>4, SecureStep
  <2> QED BY <2>1, <2>2, <2>3
<1>2. CASE DescribeLegacy
  BY <1>2, ResetGate DEF DescribeLegacy
<1> QED BY <1>1, <1>2

\* The step of a transition that is executed: to the clear, which was announced,
\* or to a version, with the key that was staged for it.
LEMMA ExecuteGate ==
  ASSUME DaveInv, NEW t, t \in DOMAIN dave.pending, ExecuteTransition(t)
  PROVE  Gate!GateNext
<1> DEFINE v == dave.pending[t]
<1>1. /\ v \in 0 .. Version
      /\ dave' = [dave EXCEPT !.pending = Drop(dave.pending, t),
                              !.session = dave'.session,
                              !.version = v,
                              !.required = (v # 0)]
      /\ dave'.session = IF HasSession(dave) THEN ExecuteStaged(dave.session, t, v)
                                             ELSE NoSession
  BY ExecuteParts DEF ExecuteTransition, DaveInv
<1>2. said'.kind = "execute" /\ said'.tid = t /\ wire' = wire
  BY DEF ExecuteTransition, Says
<1> HIDE DEF v
<1>3. dave'.required = (v # 0) /\ dave'.pending = Drop(dave.pending, t)
  BY <1>1 DEF DaveInv, HandlerInv, DaveType
<1>4. Offered(dave') \subseteq Offered(dave)
  BY <1>3 DEF Offered, Drop
<1>5. CASE v = 0
  <2>1. t \in Offered(dave)
    BY <1>5 DEF Offered, v
  <2>2. Key(dave') \in {Key(dave), 0}
    <3>1. CASE HasSession(dave)
      <4>1. dave.session \in SessionType /\ dave'.session = ExecuteStaged(dave.session, t, v)
        BY <1>1, <3>1 DEF DaveInv, HandlerInv, DaveType, HasSession
      <4>2. dave'.session \in SessionType /\ dave'.session.ratchet = dave.session.ratchet
        BY <1>5, <4>1, ExecuteStagedType
      <4> QED BY <3>1, <4>2 DEF Key
    <3>2. CASE ~HasSession(dave)
      BY <1>1, <3>2 DEF Key, HasSession
    <3> QED BY <3>1, <3>2
  <2>3. Mode(dave') = "clear"
    BY <1>3, <1>5 DEF Mode
  <2>4. Gate!Allow
    BY <1>2, <1>4, <2>1, <2>2, <2>3 DEF Gate!Allow
  <2> QED BY <2>4 DEF Gate!GateNext
<1>6. CASE v # 0
  BY <1>2, <1>3, <1>4, <1>6, SecureStep
<1> QED BY <1>5, <1>6
\* A transition is announced, or with id zero announced and executed.
LEMMA PrepareGate ==
  ASSUME DaveInv, NEW t \in Tids, NEW v \in Versions, PrepareTransition(t, v)
  PROVE  Gate!GateNext
<1> DEFINE noted == [dave EXCEPT !.pending = Put(@, t, v)]
<1>0. dave \in DaveType /\ HandlerInv(dave)
  BY DEF DaveInv, HandlerInv
<1>1. wire' = wire /\ said'.kind = "prepare" /\ said'.tid = t
  BY DEF PrepareTransition, Says
<1>2. noted.pending = Put(dave.pending, t, v) /\ noted.session = dave.session
      /\ noted.required = dave.required /\ noted.version = dave.version
  BY <1>0 DEF DaveType
<1>3. CASE ~Supported(v)
  <2>1. dave' = dave
    BY <1>3 DEF PrepareTransition, Prepare
  <2> QED BY <1>1, <2>1, SecureStep
<1>4. CASE Supported(v) /\ t # 0
  <2>1. dave' = noted
    BY <1>4 DEF PrepareTransition, Prepare
  <2> HIDE DEF noted
  <2>2. Mode(dave') = Mode(dave) /\ Key(dave') = Key(dave)
    BY <1>2, <2>1 DEF Mode, Key, CanSendMedia, HasSession
  <2>3. Offered(dave') \in {Offered(dave) \cup {t}, Offered(dave) \ {t}}
    <3>1. CASE v = 0
      <4>1. Offered(dave') = Offered(dave) \cup {t}
        BY <1>2, <2>1, <3>1 DEF Offered, Put
      <4> QED BY <4>1
    <3>2. CASE v # 0
      <4>1. Offered(dave') = Offered(dave) \ {t}
        BY <1>2, <2>1, <3>2 DEF Offered, Put
      <4> QED BY <4>1
    <3> QED BY <3>1, <3>2
  <2>4. Gate!Offer
    BY <1>1, <2>2, <2>3 DEF Gate!Offer
  <2> QED BY <2>4 DEF Gate!GateNext
<1>5. CASE Supported(v) /\ t = 0
  <2>1. dave' = Execute(noted, 0)
    BY <1>5 DEF PrepareTransition, Prepare
  <2>2. HandlerInv(noted)
    <3>1. v \in 0 .. Version
      BY <1>5 DEF Supported, Version
    <3> QED BY <1>0, <3>1, NotedInv
  <2> HIDE DEF noted
  <2>3. 0 \in DOMAIN noted.pending /\ noted.pending[0] = v
    BY <1>2, <1>5 DEF Put
  <2>4. /\ dave' = [noted EXCEPT !.pending = Drop(noted.pending, 0),
                                 !.session = dave'.session,
                                 !.version = v,
                                 !.required = (v # 0)]
        /\ dave'.session = IF HasSession(noted) THEN ExecuteStaged(noted.session, 0, v)
                                                ELSE NoSession
    BY <2>1, <2>2, <2>3, ExecuteParts
  <2>5. dave'.required = (v # 0) /\ dave'.pending = Drop(noted.pending, 0)
    BY <2>2, <2>4 DEF HandlerInv, DaveType
  <2>6. Offered(dave') \subseteq Offered(dave)
    BY <1>2, <1>5, <2>5 DEF Offered, Drop, Put
  <2>7. Key(dave') \in {Key(dave), 0}
    <3>1. CASE HasSession(dave)
      <4>1. /\ dave.session \in SessionType
            /\ dave'.session = ExecuteStaged(dave.session, 0, v)
        BY <1>0, <1>2, <2>4, <3>1 DEF DaveType, HasSession
      <4>2. 0 \notin DOMAIN dave.session.staged
        <5>1. dave.session.staged \in Maps(Tids \ {0}, 1 .. MaxKeys)
          BY <4>1 DEF SessionType
        <5>2. DOMAIN dave.session.staged \subseteq Tids \ {0}
          BY <5>1, MapValue
        <5> QED BY <5>2
      <4>3. dave'.session \in SessionType /\ dave'.session.ratchet = dave.session.ratchet
        BY <4>1, <4>2, ExecuteStagedType
      <4> QED BY <3>1, <4>3 DEF Key
    <3>2. CASE ~HasSession(dave)
      BY <1>2, <2>4, <3>2 DEF Key, HasSession
    <3> QED BY <3>1, <3>2
  <2>8. CASE v = 0
    <3>1. Mode(dave') = "clear"
      BY <2>5, <2>8 DEF Mode
    <3>2. Gate!Allow
      BY <1>1, <1>5, <2>6, <2>7, <3>1 DEF Gate!Allow
    <3> QED BY <3>2 DEF Gate!GateNext
  <2>9. CASE v # 0
    BY <1>1, <2>5, <2>6, <2>7, <2>9, SecureStep
  <2> QED BY <2>8, <2>9
<1> QED BY <1>3, <1>4, <1>5

\* A step that leaves the requirement, the transitions and the key alone.
LEMMA SameGate ==
  ASSUME dave'.required = dave.required, dave'.pending = dave.pending,
         Key(dave') = Key(dave), wire' = wire
  PROVE  Gate!GateNext
BY OfferedIs, SecureStep

\* The sender and the messages of openmls.
LEMMA MlsGate ==
  ASSUME DaveInv, ~dave.replaying,
         \/ \E x \in Senders, ok \in BOOLEAN : ExternalSender(x, ok)
         \/ \E p \in Proposals : ProcessProposals(p)
         \/ \E m \in Handshakes : ProcessHandshake(m)
  PROVE  Gate!GateNext
<1>0. dave \in DaveType /\ HandlerInv(dave)
      /\ (HasSession(dave) => dave.session \in SessionType)
  BY DEF DaveInv, HandlerInv, DaveType, HasSession
<1>1. ASSUME NEW x \in Senders, NEW ok \in BOOLEAN, ExternalSender(x, ok)
      PROVE  Gate!GateNext
  <2>1. CASE dave' = dave /\ wire' = wire
    BY <2>1, SecureStep
  <2>2. CASE Fail("sender")
    BY <2>2, FailGate
  <2>3. CASE /\ HasSession(dave)
             /\ dave' = [dave EXCEPT !.session = SetSender(@, x), !.senderSet = TRUE,
                                     !.saved = x, !.replaying = TRUE]
             /\ wire' = wire
    <3>1. /\ dave'.required = dave.required /\ dave'.pending = dave.pending
          /\ dave'.session = SetSender(dave.session, x)
      BY <1>0, <2>3 DEF DaveType
    <3>2. dave'.session \in SessionType /\ dave'.session.ratchet = dave.session.ratchet
      BY <1>0, <2>3, <3>1, SetSenderType
    <3>3. Key(dave') = Key(dave)
      BY <2>3, <3>2, NoSessionIsNone DEF Key, HasSession
    <3> QED BY <2>3, <3>1, <3>3, SameGate
  <2> QED BY <1>1, <2>1, <2>2, <2>3 DEF ExternalSender
<1>2. ASSUME NEW p \in Proposals, ProcessProposals(p)
      PROVE  Gate!GateNext
  <2>1. CASE ~dave.senderSet
    <3>1. /\ dave'.required = dave.required /\ dave'.pending = dave.pending
          /\ dave'.session = dave.session /\ wire' = wire
      BY <1>0, <1>2, <2>1 DEF ProcessProposals, DaveType
    <3> QED BY <3>1, SameGate DEF Key, HasSession
  <2>2. CASE dave.senderSet /\ CanPropose(dave.session, p, dave.users)
    <3>1. /\ dave'.required = dave.required /\ dave'.pending = dave.pending
          /\ dave'.session = Propose(dave.session, p) /\ wire' = wire
      BY <1>0, <1>2, <2>2 DEF ProcessProposals, DaveType
    <3>2. HasSession(dave) /\ dave.session.status # "inactive"
      BY <1>0, <2>2 DEF HandlerInv, SenderSetIsUsable
    <3>3. dave'.session \in SessionType /\ dave'.session.ratchet = dave.session.ratchet
      BY <1>0, <3>1, <3>2, ProposeType
    <3>4. Key(dave') = Key(dave)
      BY <3>2, <3>3, NoSessionIsNone DEF Key, HasSession
    <3> QED BY <3>1, <3>4, SameGate
  <2>3. CASE Fail("proposals")
    BY <2>3, FailGate
  <2> QED BY <1>2, <2>1, <2>2, <2>3 DEF ProcessProposals
<1>3. ASSUME NEW m \in Handshakes, ProcessHandshake(m)
      PROVE  Gate!GateNext
  <2>1. CASE ~dave.senderSet
    <3>1. /\ dave'.required = dave.required /\ dave'.pending = dave.pending
          /\ dave'.session = dave.session /\ wire' = wire
      BY <1>0, <1>3, <2>1 DEF ProcessHandshake, DaveType
    <3> QED BY <3>1, SameGate DEF Key, HasSession
  <2>2. CASE dave.senderSet /\ CanJoin(dave.session, m)
    <3>1. /\ dave' = Handshake(dave, m) /\ wire' = wire
          /\ said'.kind = "handshake" /\ said'.tid = m.tid
      BY <1>3, <2>2 DEF ProcessHandshake, Says
    <3>2. HasSession(dave) /\ dave.keys + Len(dave.handshakes) < MaxKeys
      BY <1>0, <1>3, <2>2 DEF HandlerInv, SenderSetIsUsable, ProcessHandshake
    <3>3. /\ dave'.required = dave.required /\ Offered(dave') = Offered(dave)
          /\ m.tid # 0 => Key(dave') = Key(dave)
      BY <1>0, <3>1, <3>2, HandshakeInv
    <3> QED BY <3>1, <3>3, SecureStep
  <2>3. CASE Fail("handshake")
    BY <2>3, FailGate
  <2> QED BY <1>3, <2>1, <2>2, <2>3 DEF ProcessHandshake
<1> QED BY <1>1, <1>2, <1>3

\* A buffered message does what it would have done on its own.
LEMMA ReplayGate ==
  ASSUME DaveInv, dave.replaying, Replay
  PROVE  Gate!GateNext
<1>0. /\ dave \in DaveType /\ HandlerInv(dave) /\ HasSession(dave)
  BY DEF DaveInv, HandlerInv, BuffersDrained, SenderSetIsUsable
<1>1. wire' = wire
  BY DEF Replay
<1>2. CASE dave' = Restart(dave)
  <2>1. dave'.required /\ dave'.pending = NoKeys /\ Key(dave') = 0
    BY <1>0, <1>2, RestartInv DEF Key
  <2>2. Offered(dave') \subseteq Offered(dave)
    BY <2>1, OfferedIs
  <2> QED BY <1>1, <2>1, <2>2, SecureStep
<1>3. CASE /\ dave.proposals # <<>>
           /\ dave' = [dave EXCEPT !.session = Propose(@, Head(dave.proposals)),
                                   !.proposals = Tail(@)]
  <2> DEFINE p == Head(dave.proposals)
  <2>1. /\ dave'.required = dave.required /\ dave'.pending = dave.pending
        /\ dave'.session = Propose(dave.session, p)
    BY <1>0, <1>3 DEF DaveType
  <2>2. /\ p \in Proposals /\ dave.session \in SessionType
        /\ dave.session.status # "inactive"
    BY <1>0, <1>3, TailInv
    DEF DaveType, HandlerInv, BuffersDrained, SenderSetIsUsable, HasSession
  <2> HIDE DEF p
  <2>3. dave'.session \in SessionType /\ dave'.session.ratchet = dave.session.ratchet
    BY <2>1, <2>2, ProposeType
  <2>4. Key(dave') = Key(dave)
    BY <1>0, <2>3, NoSessionIsNone DEF Key, HasSession
  <2> QED BY <1>1, <2>1, <2>4, SameGate
<1>4. CASE /\ dave.handshakes # <<>>
           /\ dave' = Handshake([dave EXCEPT !.handshakes = Tail(@)], Head(dave.handshakes))
           /\ Says("handshake", Head(dave.handshakes).tid)
  <2> DEFINE m == Head(dave.handshakes)
             d == [dave EXCEPT !.handshakes = Tail(@)]
  <2>1. /\ m \in Handshakes /\ HandlerInv(d)
        /\ dave.keys + Len(Tail(dave.handshakes)) < MaxKeys
    BY <1>0, <1>4, TailInv
  <2>2. /\ d.session = dave.session /\ d.keys = dave.keys
        /\ d.handshakes = Tail(dave.handshakes)
        /\ d.required = dave.required /\ d.pending = dave.pending
    BY <1>0 DEF DaveType
  <2>3. dave' = Handshake(d, m)
    BY <1>4
  <2> HIDE DEF m, d
  <2>4. HasSession(d) /\ d.keys + Len(d.handshakes) < MaxKeys
    BY <1>0, <2>1, <2>2 DEF HasSession
  <2>5. /\ dave'.required = d.required /\ Offered(dave') = Offered(d)
        /\ m.tid # 0 => Key(dave') = Key(d)
    BY <2>1, <2>3, <2>4, HandshakeInv
  <2>6. Offered(d) = Offered(dave) /\ Key(d) = Key(dave)
    BY <2>2, OfferedIs DEF Key, HasSession
  <2>7. said'.kind = "handshake" /\ said'.tid = m.tid
    BY <1>4 DEF Says, m
  <2> QED BY <1>1, <2>2, <2>5, <2>6, <2>7, SecureStep
<1>5. CASE ReplayEnds
  <2>1. /\ dave'.required = dave.required /\ dave'.pending = dave.pending
        /\ dave'.session = dave.session
    BY <1>0, <1>5 DEF ReplayEnds, DaveType
  <2> QED BY <1>1, <2>1, SameGate DEF Key, HasSession
<1> QED BY <1>2, <1>3, <1>4, <1>5 DEF Replay, ReplayProposal, ReplayHandshake

\* The speak loop sends what the gate lets pass, under the key of that moment.
LEMMA SendGate ==
  ASSUME DaveInv, NEW silence \in BOOLEAN, SendRaw(silence)
  PROVE  Gate!GateNext \/ UNCHANGED Gate!gateVars
<1>1. dave' = dave /\ said' = said
  BY DEF SendRaw
<1>2. CASE CanEncrypt(dave, silence)
  <2>1. wire' = Packet(dave, silence)
    BY <1>2 DEF SendRaw
  <2>2. CASE ~dave.required
    <3>1. Mode(dave) = "clear" /\ wire' = [kind |-> "clear", key |-> 0]
      BY <2>1, <2>2 DEF Packet, Mode
    <3>2. Gate!Send
      BY <1>1, <3>1 DEF Gate!Send
    <3> QED BY <3>2 DEF Gate!GateNext
  <2>3. CASE dave.required /\ silence
    <3>1. Mode(dave) = "sealed" /\ wire' = [kind |-> "silence", key |-> 0]
      BY <1>2, <2>1, <2>3 DEF Packet, Mode, CanEncrypt
    <3>2. Gate!Send
      BY <1>1, <3>1 DEF Gate!Send
    <3> QED BY <3>2 DEF Gate!GateNext
  <2>4. CASE dave.required /\ ~silence
    <3>1. /\ Mode(dave) = "sealed" /\ HasSession(dave) /\ dave.session.ratchet # 0
      BY <1>2, <2>4 DEF Mode, CanEncrypt, CanSendMedia
    <3>2. wire' = [kind |-> "sealed", key |-> dave.session.ratchet]
      BY <2>1, <2>4 DEF Packet
    <3>3. Key(dave) = dave.session.ratchet
      BY <3>1 DEF Key
    <3>4. Gate!Send
      BY <1>1, <3>1, <3>2, <3>3 DEF Gate!Send
    <3> QED BY <3>4 DEF Gate!GateNext
  <2> QED BY <2>2, <2>3, <2>4
<1>3. CASE ~CanEncrypt(dave, silence)
  BY <1>1, <1>3 DEF SendRaw, Gate!gateVars
<1> QED BY <1>2, <1>3

\* Every step of Dave is a step of MediaGate, or none.
LEMMA StepGate == DaveInv /\ [Next]_vars => [Gate!GateNext]_Gate!gateVars
<1> SUFFICES ASSUME DaveInv, [Next]_vars
             PROVE  Gate!GateNext \/ UNCHANGED Gate!gateVars
  OBVIOUS
<1>1. CASE dave.replaying /\ Replay
  BY <1>1, ReplayGate
<1>2. CASE ~dave.replaying /\ GatewayNext
  <2>1. ASSUME NEW t \in Tids, ExecuteTransition(t)
        PROVE  Gate!GateNext
    <3>1. CASE t \in DOMAIN dave.pending
      BY <2>1, <3>1, ExecuteGate
    <3>2. CASE t \notin DOMAIN dave.pending
      BY <2>1, <3>2, SecureStep DEF ExecuteTransition, Execute
    <3> QED BY <3>1, <3>2
  <2>2. CASE PrepareGroup
    BY <1>2, <2>2, SetupGate DEF PrepareGroup
  <2>3. ASSUME NEW t \in Tids, PrepareEpoch(t)
        PROVE  Gate!GateNext
    <3>1. dave' = dave
      BY <2>3
      DEF PrepareEpoch, DaveInv, HandlerInv, PreparedBeforeSession, DaveType
    <3> QED BY <2>3, <3>1, SecureStep DEF PrepareEpoch
  <2>4. CASE InvalidCommitWelcome
    BY <2>4, FailGate DEF InvalidCommitWelcome
  <2>5. ASSUME NEW u \in Users, AddUser(u) \/ RemoveUser(u)
        PROVE  Gate!GateNext
    <3>1. /\ dave'.required = dave.required /\ dave'.pending = dave.pending
          /\ dave'.session = dave.session /\ wire' = wire
      BY <2>5 DEF AddUser, RemoveUser, DaveInv, HandlerInv, DaveType
    <3> QED BY <3>1, SameGate DEF Key, HasSession
  <2>6. CASE Reidentify
    BY <2>6, ResetGate DEF Reidentify
  <2> QED BY <1>2, <2>1, <2>2, <2>3, <2>4, <2>5, <2>6,
             DescribeGate, PrepareGate, MlsGate DEF GatewayNext
<1>3. CASE Tick \/ \E s \in BOOLEAN : SendRaw(s)
  <2>1. CASE Tick
    BY <2>1 DEF Tick, Gate!gateVars
  <2> QED BY <1>3, <2>1, SendGate
<1>4. CASE UNCHANGED vars
  BY <1>4 DEF vars, Gate!gateVars
<1> QED BY <1>1, <1>2, <1>3, <1>4 DEF Next

\* The media gate is kept: audio goes back to the clear only on the gateway's
\* word, packets leave as the gate stands when they are encrypted, and a key
\* changes only with a transition or an initial handshake (dave.rs:110-462).
THEOREM GateRefinement == Spec => ImplementsGate
<1>1. Init => Gate!GateInit
  BY DEF Init, DaveInit, Gate!GateInit, Mode, Offered, Key, HasSession, NoKeys
<1> QED BY <1>1, StepGate, DaveCorrect, PTL DEF Spec, ImplementsGate, Gate!GateSpec
=============================================================================
