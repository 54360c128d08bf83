---------------------------- MODULE SessionProofs ----------------------------
(***************************************************************************)
(* Proofs about Session for every set of connections.  SessionInv is       *)
(* inductive; the properties are its conjuncts.  The step proof has one    *)
(* lemma per action.                                                       *)
(***************************************************************************)
EXTENDS Session, TLAPS

\* The initial state: no connection, empty maps.
LEMMA InitInv == Init => SessionInv
  BY ConnsAssumption
  DEF Init, SessionInv, TypeOK, SessionOfConn, MapsAgree, DetachingIsPaused,
      HeldSessionIsUp, SoleHolder, OwnChannel, NoSessionLost, WindowHasTimer,
      ListedIsServed, Created, Holds, Sessions, Phases, Resuming, Serving, Detaching

USE DEF connVars, mapVars, sessVars, Sessions, Phases, Resuming, Serving, Detaching

\* The upgrade only fills in what the client asked for.
LEMMA UpgradeInv ==
  ASSUME SessionInv, NEW c \in Conns, NEW sid \in Sessions \cup {NoSession},
         Upgrade(c, sid)
  PROVE  SessionInv'
<1> USE ConnsAssumption DEF SessionInv, Upgrade
<1>1. TypeOK'
  BY DEF TypeOK, SessionOfConn
<1>2. SessionOfConn'
  BY DEF TypeOK, SessionOfConn
<1>3. MapsAgree'
  BY DEF TypeOK, SessionOfConn, MapsAgree, Created, Holds
<1>4. DetachingIsPaused'
  BY DEF TypeOK, SessionOfConn, DetachingIsPaused
<1>5. HeldSessionIsUp'
  BY DEF TypeOK, SessionOfConn, HeldSessionIsUp, Holds
<1>6. SoleHolder'
  BY DEF TypeOK, SessionOfConn, SoleHolder, Holds
<1>7. OwnChannel'
  BY DEF TypeOK, SessionOfConn, OwnChannel
<1>8. NoSessionLost'
  BY DEF TypeOK, SessionOfConn, NoSessionLost, Created, Holds
<1>9. WindowHasTimer'
  BY DEF TypeOK, SessionOfConn, WindowHasTimer
<1>10. ListedIsServed'
  BY DEF TypeOK, SessionOfConn, ListedIsServed
<1> QED BY <1>1, <1>2, <1>3, <1>4, <1>5, <1>6, <1>7, <1>8, <1>9, <1>10

\* A fresh session: nothing knows its id before, because a session is created
\* by the connection that names it.
LEMMA ResolveNewInv ==
  ASSUME SessionInv, NEW c \in Conns, ResolveNew(c)
  PROVE  SessionInv'
<1> USE ConnsAssumption DEF SessionInv, ResolveNew
<1>1. TypeOK'
  BY DEF TypeOK, SessionOfConn
<1>2. SessionOfConn'
  BY DEF TypeOK, SessionOfConn
<1>3. MapsAgree'
  BY DEF TypeOK, SessionOfConn, MapsAgree, Created, Holds
<1>4. DetachingIsPaused'
  BY DEF TypeOK, SessionOfConn, DetachingIsPaused
<1>5. HeldSessionIsUp'
  BY DEF TypeOK, SessionOfConn, HeldSessionIsUp, Holds, MapsAgree, Created
<1>6. SoleHolder'
  BY DEF TypeOK, SessionOfConn, SoleHolder, Holds
<1>7. OwnChannel'
  BY DEF TypeOK, SessionOfConn, OwnChannel
<1>8. NoSessionLost'
  BY DEF TypeOK, SessionOfConn, NoSessionLost, Created, Holds
<1>9. WindowHasTimer'
  BY DEF TypeOK, SessionOfConn, WindowHasTimer
<1>10. ListedIsServed'
  BY DEF TypeOK, SessionOfConn, ListedIsServed
<1> QED BY <1>1, <1>2, <1>3, <1>4, <1>5, <1>6, <1>7, <1>8, <1>9, <1>10

\* Taking a session out of resumable_sessions makes this connection its only
\* holder, because a resumable session has none.
LEMMA ResolveTakeInv ==
  ASSUME SessionInv, NEW c \in Conns, ResolveTake(c)
  PROVE  SessionInv'
<1> USE ConnsAssumption DEF SessionInv, ResolveTake
<1>1. TypeOK'
  BY DEF TypeOK, SessionOfConn
<1>2. SessionOfConn'
  BY DEF TypeOK, SessionOfConn, MapsAgree, Created
<1>3. MapsAgree'
  BY DEF TypeOK, SessionOfConn, MapsAgree, Created, Holds
<1>4. DetachingIsPaused'
  BY DEF TypeOK, SessionOfConn, DetachingIsPaused
<1>5. HeldSessionIsUp'
  BY DEF TypeOK, SessionOfConn, HeldSessionIsUp, Holds, MapsAgree
<1>6. SoleHolder'
  BY DEF TypeOK, SessionOfConn, SoleHolder, Holds, MapsAgree
<1>7. OwnChannel'
  BY DEF TypeOK, SessionOfConn, OwnChannel
<1>8. NoSessionLost'
  BY DEF TypeOK, SessionOfConn, NoSessionLost, Created, Holds
<1>9. WindowHasTimer'
  BY DEF TypeOK, SessionOfConn, WindowHasTimer
<1>10. ListedIsServed'
  BY DEF TypeOK, SessionOfConn, ListedIsServed, MapsAgree, Holds
<1> QED BY <1>1, <1>2, <1>3, <1>4, <1>5, <1>6, <1>7, <1>8, <1>9, <1>10

\* The generation moves on while the session is in no map.
LEMMA ResolveBumpInv ==
  ASSUME SessionInv, NEW c \in Conns, ResolveBump(c)
  PROVE  SessionInv'
<1> USE ConnsAssumption DEF SessionInv, ResolveBump
<1>1. TypeOK'
  BY DEF TypeOK, SessionOfConn
<1>2. SessionOfConn'
  BY DEF TypeOK, SessionOfConn
<1>3. MapsAgree'
  BY DEF TypeOK, SessionOfConn, MapsAgree, Created, Holds
<1>4. DetachingIsPaused'
  BY DEF TypeOK, SessionOfConn, DetachingIsPaused, SoleHolder, Holds
<1>5. HeldSessionIsUp'
  BY DEF TypeOK, SessionOfConn, HeldSessionIsUp, Holds
<1>6. SoleHolder'
  BY DEF TypeOK, SessionOfConn, SoleHolder, Holds
<1>7. OwnChannel'
  BY DEF TypeOK, SessionOfConn, OwnChannel
<1>8. NoSessionLost'
  BY DEF TypeOK, SessionOfConn, NoSessionLost, Created, Holds
<1>9. WindowHasTimer'
  BY DEF TypeOK, SessionOfConn, WindowHasTimer, MapsAgree, Holds
<1>10. ListedIsServed'
  BY DEF TypeOK, SessionOfConn, ListedIsServed
<1> QED BY <1>1, <1>2, <1>3, <1>4, <1>5, <1>6, <1>7, <1>8, <1>9, <1>10

\* The channel and paused change under one lock, while the session is held.
LEMMA ResolveSwapInv ==
  ASSUME SessionInv, NEW c \in Conns, ResolveSwap(c)
  PROVE  SessionInv'
<1> USE ConnsAssumption DEF SessionInv, ResolveSwap
<1>1. TypeOK'
  BY DEF TypeOK, SessionOfConn
<1>2. SessionOfConn'
  BY DEF TypeOK, SessionOfConn
<1>3. MapsAgree'
  BY DEF TypeOK, SessionOfConn, MapsAgree, Created, Holds
<1>4. DetachingIsPaused'
  BY DEF TypeOK, SessionOfConn, DetachingIsPaused, SoleHolder, Holds
<1>5. HeldSessionIsUp'
  BY DEF TypeOK, SessionOfConn, HeldSessionIsUp, Holds
<1>6. SoleHolder'
  BY DEF TypeOK, SessionOfConn, SoleHolder, Holds
<1>7. OwnChannel'
  BY DEF TypeOK, SessionOfConn, OwnChannel, SoleHolder, Holds
<1>8. NoSessionLost'
  BY DEF TypeOK, SessionOfConn, NoSessionLost, Created, Holds
<1>9. WindowHasTimer'
  BY DEF TypeOK, SessionOfConn, WindowHasTimer, MapsAgree, Holds
<1>10. ListedIsServed'
  BY DEF TypeOK, SessionOfConn, ListedIsServed
<1> QED BY <1>1, <1>2, <1>3, <1>4, <1>5, <1>6, <1>7, <1>8, <1>9, <1>10

\* The resumed session is listed again.
LEMMA ResolveJoinInv ==
  ASSUME SessionInv, NEW c \in Conns, ResolveJoin(c)
  PROVE  SessionInv'
<1> USE ConnsAssumption DEF SessionInv, ResolveJoin
<1>1. TypeOK'
  BY DEF TypeOK, SessionOfConn
<1>2. SessionOfConn'
  BY DEF TypeOK, SessionOfConn
<1>3. MapsAgree'
  BY DEF TypeOK, SessionOfConn, MapsAgree, Created, Holds
<1>4. DetachingIsPaused'
  BY DEF TypeOK, SessionOfConn, DetachingIsPaused
<1>5. HeldSessionIsUp'
  BY DEF TypeOK, SessionOfConn, HeldSessionIsUp, Holds
<1>6. SoleHolder'
  BY DEF TypeOK, SessionOfConn, SoleHolder, Holds
<1>7. OwnChannel'
  BY DEF TypeOK, SessionOfConn, OwnChannel
<1>8. NoSessionLost'
  BY DEF TypeOK, SessionOfConn, NoSessionLost, Created, Holds
<1>9. WindowHasTimer'
  BY DEF TypeOK, SessionOfConn, WindowHasTimer
<1>10. ListedIsServed'
  BY DEF TypeOK, SessionOfConn, ListedIsServed
<1> QED BY <1>1, <1>2, <1>3, <1>4, <1>5, <1>6, <1>7, <1>8, <1>9, <1>10

\* The greeting leaves the maps alone.
LEMMA GreetInv ==
  ASSUME SessionInv, NEW c \in Conns, Greet(c)
  PROVE  SessionInv'
<1> USE ConnsAssumption DEF SessionInv, Greet
<1>1. TypeOK'
  BY DEF TypeOK, SessionOfConn
<1>2. SessionOfConn'
  BY DEF TypeOK, SessionOfConn
<1>3. MapsAgree'
  BY DEF TypeOK, SessionOfConn, MapsAgree, Created, Holds
<1>4. DetachingIsPaused'
  BY DEF TypeOK, SessionOfConn, DetachingIsPaused
<1>5. HeldSessionIsUp'
  BY DEF TypeOK, SessionOfConn, HeldSessionIsUp, Holds
<1>6. SoleHolder'
  BY DEF TypeOK, SessionOfConn, SoleHolder, Holds
<1>7. OwnChannel'
  BY DEF TypeOK, SessionOfConn, OwnChannel
<1>8. NoSessionLost'
  BY DEF TypeOK, SessionOfConn, NoSessionLost, Created, Holds
<1>9. WindowHasTimer'
  BY DEF TypeOK, SessionOfConn, WindowHasTimer
<1>10. ListedIsServed'
  BY DEF TypeOK, SessionOfConn, ListedIsServed
<1> QED BY <1>1, <1>2, <1>3, <1>4, <1>5, <1>6, <1>7, <1>8, <1>9, <1>10

\* Leaving the loop leaves the maps alone.
LEMMA LeaveLoopInv ==
  ASSUME SessionInv, NEW c \in Conns, LeaveLoop(c)
  PROVE  SessionInv'
<1> USE ConnsAssumption DEF SessionInv, LeaveLoop
<1>1. TypeOK'
  BY DEF TypeOK, SessionOfConn
<1>2. SessionOfConn'
  BY DEF TypeOK, SessionOfConn
<1>3. MapsAgree'
  BY DEF TypeOK, SessionOfConn, MapsAgree, Created, Holds
<1>4. DetachingIsPaused'
  BY DEF TypeOK, SessionOfConn, DetachingIsPaused
<1>5. HeldSessionIsUp'
  BY DEF TypeOK, SessionOfConn, HeldSessionIsUp, Holds
<1>6. SoleHolder'
  BY DEF TypeOK, SessionOfConn, SoleHolder, Holds
<1>7. OwnChannel'
  BY DEF TypeOK, SessionOfConn, OwnChannel
<1>8. NoSessionLost'
  BY DEF TypeOK, SessionOfConn, NoSessionLost, Created, Holds
<1>9. WindowHasTimer'
  BY DEF TypeOK, SessionOfConn, WindowHasTimer
<1>10. ListedIsServed'
  BY DEF TypeOK, SessionOfConn, ListedIsServed
<1> QED BY <1>1, <1>2, <1>3, <1>4, <1>5, <1>6, <1>7, <1>8, <1>9, <1>10

\* A close that is not resumable ends the only holder and the listing.
LEMMA CloseFinalInv ==
  ASSUME SessionInv, NEW c \in Conns, CloseFinal(c)
  PROVE  SessionInv'
<1> USE ConnsAssumption DEF SessionInv, CloseFinal
<1>1. TypeOK'
  BY DEF TypeOK, SessionOfConn
<1>2. SessionOfConn'
  BY DEF TypeOK, SessionOfConn
<1>3. MapsAgree'
  BY DEF TypeOK, SessionOfConn, MapsAgree, Created, Holds, SoleHolder
<1>4. DetachingIsPaused'
  BY DEF TypeOK, SessionOfConn, DetachingIsPaused
<1>5. HeldSessionIsUp'
  BY DEF TypeOK, SessionOfConn, HeldSessionIsUp, Holds, SoleHolder
<1>6. SoleHolder'
  BY DEF TypeOK, SessionOfConn, SoleHolder, Holds
<1>7. OwnChannel'
  BY DEF TypeOK, SessionOfConn, OwnChannel
<1>8. NoSessionLost'
  BY DEF TypeOK, SessionOfConn, NoSessionLost, Created, Holds, ListedIsServed
<1>9. WindowHasTimer'
  BY DEF TypeOK, SessionOfConn, WindowHasTimer
<1>10. ListedIsServed'
  BY DEF TypeOK, SessionOfConn, ListedIsServed, SoleHolder, Holds
<1> QED BY <1>1, <1>2, <1>3, <1>4, <1>5, <1>6, <1>7, <1>8, <1>9, <1>10

\* The closing task finds its own channel, so it pauses the session.
LEMMA CloseMarkInv ==
  ASSUME SessionInv, NEW c \in Conns, CloseMark(c)
  PROVE  SessionInv'
<1> USE ConnsAssumption DEF SessionInv, CloseMark
<1>0. sender[sess[c]] = c
  BY DEF OwnChannel
<1>1. TypeOK'
  <2>1. sess[c] \in Sessions
    BY DEF TypeOK, SessionOfConn
  <2>2. /\ paused' = [paused EXCEPT ![sess[c]] = TRUE]
        /\ pc' = [pc EXCEPT ![c] = "marked"]
    BY <1>0
  <2>3. paused' \in [Sessions -> BOOLEAN]
    BY <2>1, <2>2 DEF TypeOK
  <2>4. pc' \in [Conns -> Phases]
    BY <2>2 DEF TypeOK
  <2> QED BY <2>3, <2>4 DEF TypeOK
<1>2. SessionOfConn'
  BY DEF TypeOK, SessionOfConn
<1>3. MapsAgree'
  BY DEF TypeOK, SessionOfConn, MapsAgree, Created, Holds
<1>4. DetachingIsPaused'
  BY DEF TypeOK, SessionOfConn, DetachingIsPaused
<1>5. HeldSessionIsUp'
  BY DEF TypeOK, SessionOfConn, HeldSessionIsUp, Holds
<1>6. SoleHolder'
  BY DEF TypeOK, SessionOfConn, SoleHolder, Holds
<1>7. OwnChannel'
  BY DEF TypeOK, SessionOfConn, OwnChannel
<1>8. NoSessionLost'
  BY DEF TypeOK, SessionOfConn, NoSessionLost, Created, Holds, OwnChannel
<1>9. WindowHasTimer'
  BY DEF TypeOK, SessionOfConn, WindowHasTimer
<1>10. ListedIsServed'
  BY DEF TypeOK, SessionOfConn, ListedIsServed, OwnChannel
<1> QED BY <1>1, <1>2, <1>3, <1>4, <1>5, <1>6, <1>7, <1>8, <1>9, <1>10

\* The session leaves `sessions` in the hands of its only holder.
LEMMA CloseUnlistInv ==
  ASSUME SessionInv, NEW c \in Conns, CloseUnlist(c)
  PROVE  SessionInv'
<1> USE ConnsAssumption DEF SessionInv, CloseUnlist
<1>1. TypeOK'
  BY DEF TypeOK, SessionOfConn
<1>2. SessionOfConn'
  BY DEF TypeOK, SessionOfConn
<1>3. MapsAgree'
  BY DEF TypeOK, SessionOfConn, MapsAgree, Created, Holds
<1>4. DetachingIsPaused'
  BY DEF TypeOK, SessionOfConn, DetachingIsPaused
<1>5. HeldSessionIsUp'
  BY DEF TypeOK, SessionOfConn, HeldSessionIsUp, Holds
<1>6. SoleHolder'
  BY DEF TypeOK, SessionOfConn, SoleHolder, Holds
<1>7. OwnChannel'
  BY DEF TypeOK, SessionOfConn, OwnChannel
<1>8. NoSessionLost'
  BY DEF TypeOK, SessionOfConn, NoSessionLost, Created, Holds
<1>9. WindowHasTimer'
  BY DEF TypeOK, SessionOfConn, WindowHasTimer
<1>10. ListedIsServed'
  BY DEF TypeOK, SessionOfConn, ListedIsServed, SoleHolder, Holds, OwnChannel
<1> QED BY <1>1, <1>2, <1>3, <1>4, <1>5, <1>6, <1>7, <1>8, <1>9, <1>10

\* The id is not in resumable_sessions: a held session is not resumable.
LEMMA CloseClearInv ==
  ASSUME SessionInv, NEW c \in Conns, CloseClear(c)
  PROVE  SessionInv'
<1> USE ConnsAssumption DEF SessionInv, CloseClear
<1>1. TypeOK'
  BY DEF TypeOK, SessionOfConn
<1>2. SessionOfConn'
  BY DEF TypeOK, SessionOfConn
<1>3. MapsAgree'
  BY DEF TypeOK, SessionOfConn, MapsAgree, Created, Holds
<1>4. DetachingIsPaused'
  BY DEF TypeOK, SessionOfConn, DetachingIsPaused
<1>5. HeldSessionIsUp'
  BY DEF TypeOK, SessionOfConn, HeldSessionIsUp, Holds, MapsAgree
<1>6. SoleHolder'
  BY DEF TypeOK, SessionOfConn, SoleHolder, Holds
<1>7. OwnChannel'
  BY DEF TypeOK, SessionOfConn, OwnChannel
<1>8. NoSessionLost'
  BY DEF TypeOK, SessionOfConn, NoSessionLost, Created, Holds, MapsAgree
<1>9. WindowHasTimer'
  BY DEF TypeOK, SessionOfConn, WindowHasTimer
<1>10. ListedIsServed'
  BY DEF TypeOK, SessionOfConn, ListedIsServed
<1> QED BY <1>1, <1>2, <1>3, <1>4, <1>5, <1>6, <1>7, <1>8, <1>9, <1>10

\* The new window's generation.
LEMMA CloseCountInv ==
  ASSUME SessionInv, NEW c \in Conns, CloseCount(c)
  PROVE  SessionInv'
<1> USE ConnsAssumption DEF SessionInv, CloseCount
<1>1. TypeOK'
  BY DEF TypeOK, SessionOfConn
<1>2. SessionOfConn'
  BY DEF TypeOK, SessionOfConn
<1>3. MapsAgree'
  BY DEF TypeOK, SessionOfConn, MapsAgree, Created, Holds
<1>4. DetachingIsPaused'
  BY DEF TypeOK, SessionOfConn, DetachingIsPaused, SoleHolder, Holds
<1>5. HeldSessionIsUp'
  BY DEF TypeOK, SessionOfConn, HeldSessionIsUp, Holds
<1>6. SoleHolder'
  BY DEF TypeOK, SessionOfConn, SoleHolder, Holds
<1>7. OwnChannel'
  BY DEF TypeOK, SessionOfConn, OwnChannel
<1>8. NoSessionLost'
  BY DEF TypeOK, SessionOfConn, NoSessionLost, Created, Holds
<1>9. WindowHasTimer'
  BY DEF TypeOK, SessionOfConn, WindowHasTimer, MapsAgree, Holds
<1>10. ListedIsServed'
  BY DEF TypeOK, SessionOfConn, ListedIsServed
<1> QED BY <1>1, <1>2, <1>3, <1>4, <1>5, <1>6, <1>7, <1>8, <1>9, <1>10

\* The session is handed over from its holder to resumable_sessions.
LEMMA CloseListInv ==
  ASSUME SessionInv, NEW c \in Conns, CloseList(c)
  PROVE  SessionInv'
<1> USE ConnsAssumption DEF SessionInv, CloseList
<1>1. TypeOK'
  BY DEF TypeOK, SessionOfConn
<1>2. SessionOfConn'
  BY DEF TypeOK, SessionOfConn
<1>3. MapsAgree'
  BY DEF TypeOK, SessionOfConn, MapsAgree, Created, Holds, SoleHolder, HeldSessionIsUp
<1>4. DetachingIsPaused'
  BY DEF TypeOK, SessionOfConn, DetachingIsPaused
<1>5. HeldSessionIsUp'
  BY DEF TypeOK, SessionOfConn, HeldSessionIsUp, Holds
<1>6. SoleHolder'
  BY DEF TypeOK, SessionOfConn, SoleHolder, Holds
<1>7. OwnChannel'
  BY DEF TypeOK, SessionOfConn, OwnChannel
<1>8. NoSessionLost'
  BY DEF TypeOK, SessionOfConn, NoSessionLost, Created, Holds
<1>9. WindowHasTimer'
  BY DEF TypeOK, SessionOfConn, WindowHasTimer, DetachingIsPaused
<1>10. ListedIsServed'
  BY DEF TypeOK, SessionOfConn, ListedIsServed
<1> QED BY <1>1, <1>2, <1>3, <1>4, <1>5, <1>6, <1>7, <1>8, <1>9, <1>10

\* The timer of the window takes over from the closing task.
LEMMA CloseSpawnInv ==
  ASSUME SessionInv, NEW c \in Conns, CloseSpawn(c)
  PROVE  SessionInv'
<1> USE ConnsAssumption DEF SessionInv, CloseSpawn
<1>1. TypeOK'
  BY DEF TypeOK, SessionOfConn
<1>2. SessionOfConn'
  BY DEF TypeOK, SessionOfConn
<1>3. MapsAgree'
  BY DEF TypeOK, SessionOfConn, MapsAgree, Created, Holds
<1>4. DetachingIsPaused'
  BY DEF TypeOK, SessionOfConn, DetachingIsPaused
<1>5. HeldSessionIsUp'
  BY DEF TypeOK, SessionOfConn, HeldSessionIsUp, Holds
<1>6. SoleHolder'
  BY DEF TypeOK, SessionOfConn, SoleHolder, Holds
<1>7. OwnChannel'
  BY DEF TypeOK, SessionOfConn, OwnChannel
<1>8. NoSessionLost'
  BY DEF TypeOK, SessionOfConn, NoSessionLost, Created, Holds
<1>9. WindowHasTimer'
  BY DEF TypeOK, SessionOfConn, WindowHasTimer
<1>10. ListedIsServed'
  BY DEF TypeOK, SessionOfConn, ListedIsServed
<1> QED BY <1>1, <1>2, <1>3, <1>4, <1>5, <1>6, <1>7, <1>8, <1>9, <1>10

\* A PATCH only changes the resumable flag.
LEMMA UpdateSessionInv ==
  ASSUME SessionInv, NEW s \in Sessions, NEW resuming \in BOOLEAN,
         UpdateSession(s, resuming)
  PROVE  SessionInv'
<1> USE ConnsAssumption DEF SessionInv, UpdateSession
<1>1. TypeOK'
  BY DEF TypeOK, SessionOfConn
<1>2. SessionOfConn'
  BY DEF TypeOK, SessionOfConn
<1>3. MapsAgree'
  BY DEF TypeOK, SessionOfConn, MapsAgree, Created, Holds
<1>4. DetachingIsPaused'
  BY DEF TypeOK, SessionOfConn, DetachingIsPaused
<1>5. HeldSessionIsUp'
  BY DEF TypeOK, SessionOfConn, HeldSessionIsUp, Holds
<1>6. SoleHolder'
  BY DEF TypeOK, SessionOfConn, SoleHolder, Holds
<1>7. OwnChannel'
  BY DEF TypeOK, SessionOfConn, OwnChannel
<1>8. NoSessionLost'
  BY DEF TypeOK, SessionOfConn, NoSessionLost, Created, Holds
<1>9. WindowHasTimer'
  BY DEF TypeOK, SessionOfConn, WindowHasTimer
<1>10. ListedIsServed'
  BY DEF TypeOK, SessionOfConn, ListedIsServed
<1> QED BY <1>1, <1>2, <1>3, <1>4, <1>5, <1>6, <1>7, <1>8, <1>9, <1>10

\* Only the timer of the present window removes a session; the timers of
\* earlier windows find another generation.
LEMMA ExpireInv ==
  ASSUME SessionInv, NEW t \in timers, Expire(t)
  PROVE  SessionInv'
<1> USE ConnsAssumption DEF SessionInv, Expire
<1>1. TypeOK'
  BY DEF TypeOK, SessionOfConn, WindowExpired
<1>2. SessionOfConn'
  BY DEF TypeOK, SessionOfConn
<1>3. MapsAgree'
  BY DEF TypeOK, SessionOfConn, MapsAgree, Created, Holds, WindowExpired
<1>4. DetachingIsPaused'
  BY DEF TypeOK, SessionOfConn, DetachingIsPaused
<1>5. HeldSessionIsUp'
  BY DEF TypeOK, SessionOfConn, HeldSessionIsUp, Holds, WindowExpired, MapsAgree
<1>6. SoleHolder'
  BY DEF TypeOK, SessionOfConn, SoleHolder, Holds
<1>7. OwnChannel'
  BY DEF TypeOK, SessionOfConn, OwnChannel
<1>8. NoSessionLost'
  BY DEF TypeOK, SessionOfConn, NoSessionLost, Created, Holds, WindowExpired
<1>9. WindowHasTimer'
  BY DEF TypeOK, SessionOfConn, WindowHasTimer, WindowExpired
<1>10. ListedIsServed'
  BY DEF TypeOK, SessionOfConn, ListedIsServed
<1> QED BY <1>1, <1>2, <1>3, <1>4, <1>5, <1>6, <1>7, <1>8, <1>9, <1>10

\* Every step of Next, and stuttering, preserves the invariant.
LEMMA StepInv == SessionInv /\ [Next]_vars => SessionInv'
<1> SUFFICES ASSUME SessionInv, [Next]_vars PROVE SessionInv'
  OBVIOUS
<1>1. CASE UNCHANGED vars
  BY <1>1 DEF vars, SessionInv, TypeOK, SessionOfConn, MapsAgree,
              DetachingIsPaused, HeldSessionIsUp, SoleHolder, OwnChannel,
              NoSessionLost, WindowHasTimer, ListedIsServed, Created, Holds
<1>2. ASSUME NEW c \in Conns, NEW sid \in Sessions \cup {NoSession}, Upgrade(c, sid)
      PROVE  SessionInv'
  BY <1>2, UpgradeInv
<1>3. ASSUME NEW c \in Conns, Resolve(c) PROVE SessionInv'
  BY <1>3, ResolveNewInv, ResolveTakeInv, ResolveBumpInv, ResolveSwapInv,
     ResolveJoinInv DEF Resolve
<1>4. ASSUME NEW c \in Conns, Greet(c) \/ LeaveLoop(c) PROVE SessionInv'
  BY <1>4, GreetInv, LeaveLoopInv
<1>5. ASSUME NEW c \in Conns, Close(c) PROVE SessionInv'
  BY <1>5, CloseFinalInv, CloseMarkInv, CloseUnlistInv, CloseClearInv,
     CloseCountInv, CloseListInv, CloseSpawnInv DEF Close
<1>6. ASSUME NEW s \in Sessions, NEW resuming \in BOOLEAN, UpdateSession(s, resuming)
      PROVE  SessionInv'
  BY <1>6, UpdateSessionInv
<1>7. ASSUME NEW t \in timers, Expire(t) PROVE SessionInv'
  BY <1>7, ExpireInv
<1> QED BY <1>1, <1>2, <1>3, <1>4, <1>5, <1>6, <1>7 DEF Next

\* SessionInv holds in every reachable state, for any set of connections.
THEOREM SessionInvariant == Spec => []SessionInv
<1>1. Init => SessionInv
  BY InitInv
<1>2. SessionInv /\ [Next]_vars => SessionInv'
  BY StepInv
<1> QED BY <1>1, <1>2, PTL DEF Spec

\* The state variables keep their types.
THEOREM TypeCorrect == Spec => []TypeOK
<1>1. SessionInv => TypeOK
  BY DEF SessionInv
<1> QED BY <1>1, SessionInvariant, PTL

\* No timer and no other connection's close shuts down a session that a
\* connection resumes, serves or detaches.
THEOREM NoStaleShutdown == Spec => []HeldSessionIsUp
<1>1. SessionInv => HeldSessionIsUp
  BY DEF SessionInv
<1> QED BY <1>1, SessionInvariant, PTL

\* One connection at a time holds a session, and its channel is the session's.
THEOREM SingleOwner == Spec => [](SoleHolder /\ OwnChannel)
<1>1. SessionInv => SoleHolder /\ OwnChannel
  BY DEF SessionInv
<1> QED BY <1>1, SessionInvariant, PTL

\* No session is forgotten, and every open window has a timer that ends it.
THEOREM NothingLeaks == Spec => [](NoSessionLost /\ WindowHasTimer)
<1>1. SessionInv => NoSessionLost /\ WindowHasTimer
  BY DEF SessionInv
<1> QED BY <1>1, SessionInvariant, PTL

\* A session that was shut down stays so and is never listed again.
THEOREM ShutdownStays == Spec => ShutdownIsFinal
<1> DEFINE Final == /\ down \subseteq down'
                    /\ \A s \in down : s \notin resumable' \cup sessions'
<1>1. SessionInv /\ SessionInv' /\ [Next]_vars => [Final]_vars
  <2> SUFFICES ASSUME SessionInv, SessionInv', Next PROVE Final
    OBVIOUS
  <2>1. down \subseteq down'
    BY DEF Next, Upgrade, Resolve, ResolveNew, ResolveTake, ResolveBump,
           ResolveSwap, ResolveJoin, Greet, LeaveLoop, Close, CloseFinal,
           CloseMark, CloseUnlist, CloseClear, CloseCount, CloseList,
           CloseSpawn, UpdateSession, Expire
  <2>2. \A s \in down' : s \notin resumable' \cup sessions'
    BY DEF SessionInv, TypeOK, MapsAgree, ListedIsServed, HeldSessionIsUp, Holds
  <2> QED BY <2>1, <2>2
<1> QED BY <1>1, SessionInvariant, PTL DEF Spec, ShutdownIsFinal

\* A waiting session is shut down by the timer of its present window only.
THEOREM WindowsRunTheirTime == Spec => WindowRunsItsTime
<1> DEFINE Own == \A s \in resumable :
                     s \in down' => [sess |-> s, gen |-> generation[s]] \in timers \ timers'
<1>1. SessionInv /\ [Next]_vars => [Own]_vars
  <2> SUFFICES ASSUME SessionInv, Next, NEW s \in resumable, s \in down'
               PROVE  [sess |-> s, gen |-> generation[s]] \in timers \ timers'
    OBVIOUS
  <2>1. s \notin down /\ s \in Sessions /\ \A c \in Conns : ~Holds(c, s)
    BY DEF SessionInv, TypeOK, MapsAgree
  <2>2. ASSUME NEW c \in Conns, CloseFinal(c) PROVE FALSE
    <3>1. sess[c] = s
      BY <2>1, <2>2 DEF CloseFinal
    <3> QED BY <3>1, <2>1, <2>2 DEF CloseFinal, Holds, Serving
  <2>3. ASSUME NEW c \in Conns, CloseClear(c) PROVE FALSE
    <3>1. sess[c] = s
      BY <2>1, <2>3 DEF CloseClear
    <3> QED BY <3>1, <2>1, <2>3 DEF CloseClear, Holds, Detaching
  <2>4. PICK t \in timers : Expire(t)
    BY <2>1, <2>2, <2>3
       DEF Next, Upgrade, Resolve, ResolveNew, ResolveTake, ResolveBump,
           ResolveSwap, ResolveJoin, Greet, LeaveLoop, Close,
           CloseMark, CloseUnlist, CloseCount, CloseList,
           CloseSpawn, UpdateSession
  <2>5. t.sess = s /\ t.gen = generation[s] /\ timers' = timers \ {t}
    BY <2>1, <2>4 DEF Expire, WindowExpired
  <2>6. t = [sess |-> s, gen |-> generation[s]]
    BY <2>5 DEF SessionInv, TypeOK
  <2> QED BY <2>5, <2>6
<1> QED BY <1>1, SessionInvariant, PTL DEF Spec, WindowRunsItsTime

-----------------------------------------------------------------------------
(***************************************************************************)
(* Session implements SessionLife.                                         *)
(***************************************************************************)
\* With one holder at a time, the CHOOSE of HolderOf is that holder.
LEMMA HolderIsUnique ==
  ASSUME SoleHolder, NEW c \in Conns, NEW s \in Sessions, Holds(c, s)
  PROVE  HolderOf(s) = c
  BY DEF SoleHolder, HolderOf

\* The same of the state after a step.
LEMMA HolderIsUniqueNext ==
  ASSUME SoleHolder', NEW c \in Conns, NEW s \in Sessions, Holds(c, s)'
  PROVE  HolderOf(s)' = c
  BY DEF SoleHolder, HolderOf

\* The phase of a session whose place in the maps is known.
LEMMA PhaseCases ==
  ASSUME NEW s \in Sessions
  PROVE  /\ s \in down => PhaseOf(s) = "ended"
         /\ s \notin down /\ s \in resumable => PhaseOf(s) = "detached"
         /\ s \notin down /\ s \notin resumable /\ Created(s) => PhaseOf(s) = "held"
         /\ s \notin down /\ s \notin resumable /\ ~Created(s) => PhaseOf(s) = "none"
         /\ (s \in down)' => PhaseOf(s)' = "ended"
         /\ (s \notin down /\ s \in resumable)' => PhaseOf(s)' = "detached"
         /\ (s \notin down /\ s \notin resumable /\ Created(s))' => PhaseOf(s)' = "held"
         /\ (s \notin down /\ s \notin resumable /\ ~Created(s))' => PhaseOf(s)' = "none"
  BY DEF PhaseOf

\* A step that leaves the maps, the creation and the holders of s as they are
\* is not visible in SessionLife.
LEMMA SameView ==
  ASSUME SoleHolder, SoleHolder', NEW s \in Sessions,
         (s \in down)' <=> s \in down,
         (s \in resumable)' <=> s \in resumable,
         Created(s)' <=> Created(s),
         \A c \in Conns : Holds(c, s)' <=> Holds(c, s)
  PROVE  PhaseOf(s)' = PhaseOf(s) /\ HolderOf(s)' = HolderOf(s)
<1>1. PhaseOf(s)' = PhaseOf(s)
  BY PhaseCases
<1>2. CASE \E c \in Conns : Holds(c, s)
  <2>1. PICK c \in Conns : Holds(c, s)
    BY <1>2
  <2>2. HolderOf(s) = c /\ HolderOf(s)' = c
    BY <2>1, HolderIsUnique, HolderIsUniqueNext
  <2> QED BY <1>1, <2>2
<1>3. CASE ~\E c \in Conns : Holds(c, s)
  BY <1>1, <1>3 DEF HolderOf
<1> QED BY <1>2, <1>3

\* The initial state has no session.
LEMMA LifeInitially == Init => Life!LifeInit
<1> SUFFICES ASSUME Init
             PROVE  \A s \in Sessions : PhaseOf(s) = "none" /\ HolderOf(s) = NoSession
  BY DEF Life!LifeInit
<1> QED BY ConnsAssumption DEF Init, PhaseOf, HolderOf, Created, Holds

\* The steps that SessionLife sees nothing of.
LEMMA Invisible ==
  ASSUME SessionInv, SessionInv',
         \/ \E c \in Conns :
              \/ \E sid \in Sessions \cup {NoSession} : Upgrade(c, sid)
              \/ ResolveBump(c) \/ ResolveSwap(c) \/ ResolveJoin(c) \/ Greet(c)
              \/ LeaveLoop(c) \/ CloseMark(c) \/ CloseUnlist(c) \/ CloseClear(c)
              \/ CloseCount(c) \/ CloseSpawn(c)
         \/ \E s \in Sessions, resuming \in BOOLEAN : UpdateSession(s, resuming)
         \/ \E t \in timers : Expire(t) /\ ~WindowExpired(t)
         \/ UNCHANGED vars
  PROVE  UNCHANGED Life!lifeVars
<1>1. \A s \in Sessions : (s \in down)' <=> s \in down
  BY DEF Upgrade, ResolveBump, ResolveSwap, ResolveJoin, Greet, LeaveLoop,
         CloseMark, CloseUnlist, CloseClear, CloseCount, CloseSpawn,
         UpdateSession, Expire, vars, SessionInv, TypeOK, SessionOfConn, MapsAgree, Holds
<1>2. \A s \in Sessions : (s \in resumable)' <=> s \in resumable
  BY DEF Upgrade, ResolveBump, ResolveSwap, ResolveJoin, Greet, LeaveLoop,
         CloseMark, CloseUnlist, CloseClear, CloseCount, CloseSpawn,
         UpdateSession, Expire, vars, SessionInv, TypeOK, SessionOfConn, MapsAgree, Holds
<1>3. sess' = sess
  BY DEF Upgrade, ResolveBump, ResolveSwap, ResolveJoin, Greet, LeaveLoop,
         CloseMark, CloseUnlist, CloseClear, CloseCount, CloseSpawn,
         UpdateSession, Expire, vars
<1>4. \A c \in Conns, s \in Sessions : Holds(c, s)' <=> Holds(c, s)
  BY DEF Upgrade, ResolveBump, ResolveSwap, ResolveJoin, Greet, LeaveLoop,
         CloseMark, CloseUnlist, CloseClear, CloseCount, CloseSpawn,
         UpdateSession, Expire, vars, SessionInv, TypeOK, OwnChannel, Holds
<1>5. \A s \in Sessions : Created(s)' <=> Created(s)
  BY <1>3 DEF Created
<1>6. \A s \in Sessions : PhaseOf(s)' = PhaseOf(s) /\ HolderOf(s)' = HolderOf(s)
  BY <1>1, <1>2, <1>4, <1>5, SameView DEF SessionInv
<1> QED BY <1>6 DEF Life!lifeVars

\* A step that changes what SessionLife sees of s0 alone is the abstract step
\* that changes s0 in the same way.
LEMMA VisibleAt ==
  ASSUME NEW s0 \in Sessions,
         \A s \in Sessions \ {s0} :
            PhaseOf(s)' = PhaseOf(s) /\ HolderOf(s)' = HolderOf(s)
  PROVE  /\ PhaseOf(s0) = "none" /\ PhaseOf(s0)' = "held" /\ HolderOf(s0)' = s0
               => Life!Open(s0)
         /\ PhaseOf(s0) = "held" /\ PhaseOf(s0)' = "detached"
               /\ HolderOf(s0)' = NoSession => Life!Detach(s0)
         /\ PhaseOf(s0) \in {"held", "detached"} /\ PhaseOf(s0)' = "ended"
               /\ HolderOf(s0)' = NoSession => Life!End(s0)
         /\ \A c \in Conns : PhaseOf(s0) = "detached" /\ PhaseOf(s0)' = "held"
               /\ HolderOf(s0)' = c => Life!Resume(c, s0)
  BY DEF Life!Open, Life!Detach, Life!End, Life!Resume

\* A new connection opens its own session.
LEMMA ResolveNewOpens ==
  ASSUME SessionInv, SessionInv', NEW c \in Conns, ResolveNew(c)
  PROVE  Life!Open(c)
<1> USE ConnsAssumption DEF ResolveNew, SessionInv, TypeOK
<1>1. ~Created(c) /\ c \notin down /\ c \notin resumable
  BY DEF SessionOfConn, MapsAgree, Created
<1>2. Created(c)' /\ Holds(c, c)'
  BY DEF Created, Holds
<1>3. \A s \in Sessions \ {c} : /\ Created(s)' <=> Created(s)
                                /\ \A d \in Conns : Holds(d, s)' <=> Holds(d, s)
  BY DEF SessionOfConn, Created, Holds
<1>4. PhaseOf(c) = "none" /\ PhaseOf(c)' = "held" /\ HolderOf(c)' = c
  BY <1>1, <1>2, PhaseCases, HolderIsUniqueNext
<1>5. \A s \in Sessions \ {c} : PhaseOf(s)' = PhaseOf(s) /\ HolderOf(s)' = HolderOf(s)
  BY <1>3, SameView
<1> QED BY <1>4, <1>5, VisibleAt

\* Taking a session out of resumable_sessions resumes it.
LEMMA ResolveTakeResumes ==
  ASSUME SessionInv, SessionInv', NEW c \in Conns, ResolveTake(c)
  PROVE  want[c] \in Conns /\ Life!Resume(c, want[c])
<1> USE ConnsAssumption DEF ResolveTake, SessionInv, TypeOK
<1> DEFINE w == want[c]
<1>1. w \in Sessions /\ w \notin down /\ w \in resumable /\ Created(w)
  BY DEF MapsAgree
<1>2. w \notin resumable' /\ w \notin down' /\ Created(w)' /\ Holds(c, w)'
  BY <1>1 DEF Created, Holds
<1>3. \A s \in Sessions \ {w} : /\ Created(s)' <=> Created(s)
                                /\ s \in resumable' <=> s \in resumable
                                /\ \A d \in Conns : Holds(d, s)' <=> Holds(d, s)
  BY <1>1 DEF SessionOfConn, Created, Holds
<1>4. PhaseOf(w) = "detached" /\ PhaseOf(w)' = "held" /\ HolderOf(w)' = c
  BY <1>1, <1>2, PhaseCases, HolderIsUniqueNext
<1>5. \A s \in Sessions \ {w} : PhaseOf(s)' = PhaseOf(s) /\ HolderOf(s)' = HolderOf(s)
  BY <1>3, SameView
<1> QED BY <1>1, <1>4, <1>5, VisibleAt

\* A close that is not resumable ends the session.
LEMMA CloseFinalEnds ==
  ASSUME SessionInv, SessionInv', NEW c \in Conns, CloseFinal(c)
  PROVE  sess[c] \in Conns /\ Life!End(sess[c])
<1> USE ConnsAssumption DEF CloseFinal, SessionInv, TypeOK
<1> DEFINE w == sess[c]
<1>1. w \in Sessions /\ w \notin down /\ w \notin resumable /\ Created(w) /\ Holds(c, w)
  BY DEF SessionOfConn, MapsAgree, HeldSessionIsUp, Created, Holds
<1>2. w \in down'
  BY <1>1 DEF ListedIsServed
<1>3. \A d \in Conns : ~Holds(d, w)'
  BY <1>1, <1>2 DEF HeldSessionIsUp
<1>4. \A s \in Sessions \ {w} : /\ Created(s)' <=> Created(s)
                                /\ s \in down' <=> s \in down
                                /\ \A d \in Conns : Holds(d, s)' <=> Holds(d, s)
  BY <1>1 DEF Created, Holds
<1>5. PhaseOf(w) = "held" /\ PhaseOf(w)' = "ended" /\ HolderOf(w)' = NoSession
  BY <1>1, <1>2, <1>3, PhaseCases DEF HolderOf
<1>6. \A s \in Sessions \ {w} : PhaseOf(s)' = PhaseOf(s) /\ HolderOf(s)' = HolderOf(s)
  BY <1>4, SameView
<1> QED BY <1>1, <1>5, <1>6, VisibleAt

\* Listing a closed session in resumable_sessions detaches it.
LEMMA CloseListDetaches ==
  ASSUME SessionInv, SessionInv', NEW c \in Conns, CloseList(c)
  PROVE  sess[c] \in Conns /\ Life!Detach(sess[c])
<1> USE ConnsAssumption DEF CloseList, SessionInv, TypeOK
<1> DEFINE w == sess[c]
<1>1. w \in Sessions /\ w \notin down /\ w \notin resumable /\ Created(w) /\ Holds(c, w)
  BY DEF SessionOfConn, MapsAgree, HeldSessionIsUp, Created, Holds
<1>2. w \in resumable' /\ w \notin down'
  BY <1>1
<1>3. \A d \in Conns : ~Holds(d, w)'
  BY <1>1, <1>2 DEF MapsAgree
<1>4. \A s \in Sessions \ {w} : /\ Created(s)' <=> Created(s)
                                /\ s \in resumable' <=> s \in resumable
                                /\ \A d \in Conns : Holds(d, s)' <=> Holds(d, s)
  BY <1>1 DEF Created, Holds
<1>5. PhaseOf(w) = "held" /\ PhaseOf(w)' = "detached" /\ HolderOf(w)' = NoSession
  BY <1>1, <1>2, <1>3, PhaseCases DEF HolderOf
<1>6. \A s \in Sessions \ {w} : PhaseOf(s)' = PhaseOf(s) /\ HolderOf(s)' = HolderOf(s)
  BY <1>4, SameView
<1> QED BY <1>1, <1>5, <1>6, VisibleAt

\* The timer of the present window ends the session.
LEMMA ExpireEnds ==
  ASSUME SessionInv, SessionInv', NEW t \in timers, Expire(t), WindowExpired(t)
  PROVE  t.sess \in Conns /\ Life!End(t.sess)
<1> USE ConnsAssumption DEF Expire, WindowExpired, SessionInv, TypeOK
<1> DEFINE w == t.sess
<1>1. w \in Sessions /\ w \notin down /\ w \in resumable /\ \A d \in Conns : ~Holds(d, w)
  BY DEF MapsAgree
<1>2. w \in down' /\ \A d \in Conns : ~Holds(d, w)'
  BY <1>1 DEF Holds
<1>3. \A s \in Sessions \ {w} : /\ Created(s)' <=> Created(s)
                                /\ s \in down' <=> s \in down
                                /\ s \in resumable' <=> s \in resumable
                                /\ \A d \in Conns : Holds(d, s)' <=> Holds(d, s)
  BY DEF Created, Holds
<1>4. PhaseOf(w) = "detached" /\ PhaseOf(w)' = "ended" /\ HolderOf(w)' = NoSession
  BY <1>1, <1>2, PhaseCases DEF HolderOf
<1>5. \A s \in Sessions \ {w} : PhaseOf(s)' = PhaseOf(s) /\ HolderOf(s)' = HolderOf(s)
  BY <1>3, SameView
<1> QED BY <1>1, <1>4, <1>5, VisibleAt

\* Every step of the implementation is a step of SessionLife or a stutter.
LEMMA LifeStepwise ==
  SessionInv /\ SessionInv' /\ [Next]_vars => [Life!LifeNext]_(Life!lifeVars)
<1> SUFFICES ASSUME SessionInv, SessionInv', [Next]_vars
             PROVE  Life!LifeNext \/ UNCHANGED Life!lifeVars
  OBVIOUS
<1>1. ASSUME NEW c \in Conns, ResolveNew(c) PROVE Life!LifeNext
  BY <1>1, ResolveNewOpens DEF Life!LifeNext
<1>2. ASSUME NEW c \in Conns, ResolveTake(c) PROVE Life!LifeNext
  BY <1>2, ResolveTakeResumes DEF Life!LifeNext
<1>3. ASSUME NEW c \in Conns, CloseFinal(c) PROVE Life!LifeNext
  BY <1>3, CloseFinalEnds DEF Life!LifeNext
<1>4. ASSUME NEW c \in Conns, CloseList(c) PROVE Life!LifeNext
  BY <1>4, CloseListDetaches DEF Life!LifeNext
<1>5. ASSUME NEW t \in timers, Expire(t), WindowExpired(t) PROVE Life!LifeNext
  BY <1>5, ExpireEnds DEF Life!LifeNext
<1> QED BY <1>1, <1>2, <1>3, <1>4, <1>5, Invisible DEF Next, Resolve, Close

\* The tasks, maps and atomics of the server implement SessionLife.
THEOREM SessionImplementsLife == Spec => ImplementsLife
<1>1. Init => Life!LifeInit
  BY LifeInitially
<1>2. SessionInv /\ SessionInv' /\ [Next]_vars => [Life!LifeNext]_(Life!lifeVars)
  BY LifeStepwise
<1> QED BY <1>1, <1>2, SessionInvariant, PTL DEF Spec, ImplementsLife, Life!LifeSpec
=============================================================================
