------------------------- MODULE VoiceGatewayProofs -------------------------
(***************************************************************************)
(* Proofs about VoiceGateway for every number of attempts and every RTP    *)
(* modulus.  ConnectionInv, GatewayInv with the two properties it          *)
(* supports, is inductive; the step proof has one lemma per action, and    *)
(* one for the end of a connection, which many handlers share.             *)
(***************************************************************************)
EXTENDS VoiceGateway, TLAPS

ConnectionInv == GatewayInv /\ IdentifyIsFresh /\ ReadyOnlyLive

Outcomes == {"none", "reconnect", "identify", "shutdown", "error"}
Gates    == {"clear", "closed", "sealed"}
Tellings == {"none", "quiet", "told"}

-----------------------------------------------------------------------------
(* The records of the model are of their types.                            *)

\* The values a connection starts with.
LEMMA NullTypes ==
  /\ NoSaved \in KeptType
  /\ NewConn \in ConnType
  /\ [NewConn EXCEPT !.cancelled = TRUE] \in ConnType
  /\ NoLoop \in LoopType
  /\ NoBeat \in BeatType
  /\ [NoBeat EXCEPT !.pc = "idle"] \in BeatType
<1> USE GatewayAssumption DEF NoRtp
<1>1. NoSaved \in KeptType
  BY DEF NoSaved, KeptType
<1>2. NewConn \in ConnType /\ [NewConn EXCEPT !.cancelled = TRUE] \in ConnType
  BY DEF NewConn, ConnType
<1>3. NoLoop \in LoopType
  BY DEF NoLoop, LoopType
<1>4. NoBeat \in BeatType /\ [NoBeat EXCEPT !.pc = "idle"] \in BeatType
  BY DEF NoBeat, BeatType
<1> QED BY <1>1, <1>2, <1>3, <1>4

USE DEF Outcomes, Gates, Tellings, Sending

\* No connection yet.
LEMMA InitInv == Init => ConnectionInv
<1> SUFFICES ASSUME Init PROVE ConnectionInv
  OBVIOUS
<1> USE GatewayAssumption DEF Init
<1>1. GatewayTypeOK
  <2>1. 0 \in 0 .. PersistEvery - 1 /\ 0 \in 0 .. MaxAttempts /\ NoRtp \in 0 .. RtpMod
    BY DEF NoRtp
  <2> QED BY <2>1, NullTypes DEF GatewayTypeOK
<1>2. LastCloseIsTold /\ TasksAreLive /\ IdentifyIsFresh /\ ReadyOnlyLive
  BY DEF LastCloseIsTold, TasksAreLive, IdentifyIsFresh, ReadyOnlyLive, NoLoop,
         NewConn, NoBeat, NoSaved
<1>3. MissedCounts /\ DeadPeerNoticed
  BY DEF MissedCounts, DeadPeerNoticed, NoBeat, NewConn
<1> QED BY <1>1, <1>2, <1>3 DEF ConnectionInv, GatewayInv

USE DEF retryVars, voiceVars, vars

\* The types of the parts, one by one.
LEMMA PartTypes ==
  ASSUME ConnectionInv
  PROVE  /\ hb \in BeatType /\ conn \in ConnType /\ speak \in LoopType
         /\ saved \in KeptType /\ last \in 0 .. RtpMod /\ stray \in 0 .. RtpMod
         /\ gate \in Gates /\ backoff \in 0 .. MaxAttempts
         /\ frames \in 0 .. PersistEvery - 1
         /\ voiceReady \in BOOLEAN /\ told \in Tellings /\ resume \in BOOLEAN
  BY DEF ConnectionInv, GatewayInv, GatewayTypeOK

\* A message that is not an acknowledgment leaves the counters as they are.
LEMMA HandledBeat ==
  ASSUME MissedCounts, hb' = hb, conn.busy \notin {"acked", "ticked"},
         conn'.busy = "none"
  PROVE  MissedCounts'
  BY DEF MissedCounts

\* Whatever ends a connection leaves its tasks to be drained.
LEMMA EndsInv ==
  ASSUME ConnectionInv, NEW o \in Outcomes, Ends(o),
         conn.busy \notin {"acked", "ticked"},
         told' \in Tellings, o = "shutdown" => told' = "told",
         told' = "quiet" => backoff' < MaxRetries,
         backoff' \in 0 .. MaxAttempts, gate' \in Gates, saved' \in KeptType
  PROVE  ConnectionInv'
<1> USE DEF ConnectionInv, GatewayInv, Ends
<1>0. conn' \in ConnType /\ conn'.busy = "none"
  BY PartTypes DEF ConnType
<1>1. GatewayTypeOK'
  BY <1>0 DEF GatewayTypeOK
<1>2. LastCloseIsTold' /\ TasksAreLive' /\ IdentifyIsFresh' /\ ReadyOnlyLive'
  BY DEF LastCloseIsTold, TasksAreLive, IdentifyIsFresh, ReadyOnlyLive
<1>3. MissedCounts'
  BY <1>0, HandledBeat
<1>4. DeadPeerNoticed'
  BY DEF DeadPeerNoticed
<1> QED BY <1>1, <1>2, <1>3, <1>4

\* shutdown() drains both tasks and clears voice_ready.
LEMMA DrainInv == ASSUME ConnectionInv, Drain PROVE ConnectionInv'
<1> USE DEF ConnectionInv, GatewayInv, Drain
<1>1. GatewayTypeOK'
  BY NullTypes DEF GatewayTypeOK
<1>2. LastCloseIsTold' /\ TasksAreLive' /\ IdentifyIsFresh' /\ ReadyOnlyLive'
  BY DEF LastCloseIsTold, TasksAreLive, IdentifyIsFresh, ReadyOnlyLive, NoLoop,
         NewConn, NoBeat
<1>3. MissedCounts' /\ DeadPeerNoticed'
  BY DEF MissedCounts, DeadPeerNoticed, NoBeat, NewConn
<1> QED BY <1>1, <1>2, <1>3

\* A step that touches the heartbeat and the message at hand only.
LEMMA QuietInv ==
  ASSUME ConnectionInv, UNCHANGED <<retryVars, voiceVars, told>>,
         hb' \in BeatType, conn' \in ConnType, conn'.addr = conn.addr, MissedCounts',
         \/ phase \in {"live", "draining"}
         \/ hb'.pc = "off" /\ hb'.missed = 0 /\ hb'.silent = 0
  PROVE  ConnectionInv'
<1> USE DEF ConnectionInv, GatewayInv
<1>1. GatewayTypeOK'
  BY DEF GatewayTypeOK
<1>2. LastCloseIsTold' /\ TasksAreLive' /\ IdentifyIsFresh' /\ ReadyOnlyLive'
  BY DEF LastCloseIsTold, TasksAreLive, IdentifyIsFresh, ReadyOnlyLive
<1>3. DeadPeerNoticed'
  BY DEF BeatType, MissedCounts, DeadPeerNoticed
<1> QED BY <1>1, <1>2, <1>3

\* A step after which the connection is live, or still being drained.
LEMMA LiveInv ==
  ASSUME ConnectionInv,
         \/ phase \in {"hello", "live"} /\ phase' = "live"
         \/ phase = "draining" /\ phase' = "draining" /\ backoff' = backoff,
         UNCHANGED <<outcome, told>>, resume' \in BOOLEAN,
         backoff' \in 0 .. MaxAttempts, saved' \in KeptType,
         last' \in 0 .. RtpMod, stray' \in 0 .. RtpMod, conn' \in ConnType,
         speak' \in LoopType, frames' \in 0 .. PersistEvery - 1, hb' \in BeatType,
         gate' \in Gates, voiceReady' \in BOOLEAN, MissedCounts'
  PROVE  ConnectionInv'
<1> USE DEF ConnectionInv, GatewayInv
<1>1. GatewayTypeOK'
  BY DEF GatewayTypeOK
<1>2. LastCloseIsTold' /\ TasksAreLive' /\ IdentifyIsFresh' /\ ReadyOnlyLive'
  BY DEF LastCloseIsTold, TasksAreLive, IdentifyIsFresh, ReadyOnlyLive
<1>3. DeadPeerNoticed'
  BY DEF BeatType, MissedCounts, DeadPeerNoticed
<1> QED BY <1>1, <1>2, <1>3

-----------------------------------------------------------------------------
(* The heartbeat task and its acknowledgments.                             *)

\* A heartbeat is counted before it is sent, or the peer is given up.
LEMMA TickBeatInv == ASSUME ConnectionInv, TickBeat PROVE ConnectionInv'
<1> USE DEF TickBeat
<1>1. hb \in BeatType /\ conn \in ConnType /\ MissedCounts /\ TasksAreLive
  BY PartTypes DEF ConnectionInv, GatewayInv
<1>2. hb' \in BeatType
  <2>1. hb.missed + 1 \in Nat
    BY <1>1 DEF BeatType
  <2> QED BY <1>1, <2>1 DEF BeatType
<1>3. conn' \in ConnType /\ conn'.addr = conn.addr
  BY <1>1 DEF ConnType
<1>4. CASE hb.missed >= 2
  <2>1. hb'.pc = "dead" /\ hb'.missed = hb.missed /\ hb'.silent = hb.silent
    BY <1>1, <1>4 DEF BeatType
  <2>2. conn'.busy = conn.busy
    BY <1>1, <1>4 DEF ConnType
  <2>3. MissedCounts'
    BY <1>1, <1>4, <2>1, <2>2 DEF MissedCounts, BeatType
  <2> QED BY <1>1, <1>2, <1>3, <2>3, QuietInv DEF TasksAreLive
<1>5. CASE ~(hb.missed >= 2)
  <2>1. hb'.pc = "send" /\ hb'.missed = hb.missed + 1 /\ hb'.silent = hb.silent
    BY <1>1, <1>5 DEF BeatType
  <2>2. conn'.busy = IF conn.busy = "acked" THEN "ticked" ELSE conn.busy
    BY <1>1, <1>5 DEF ConnType
  <2>3. MissedCounts'
    BY <1>1, <1>5, <2>1, <2>2 DEF MissedCounts, BeatType
  <2> QED BY <1>1, <1>2, <1>3, <2>3, QuietInv DEF TasksAreLive
<1> QED BY <1>4, <1>5

\* The heartbeat goes out: what was counted becomes silence until it is answered.
LEMMA SendBeatInv == ASSUME ConnectionInv, SendBeat PROVE ConnectionInv'
<1> USE DEF SendBeat
<1>1. hb \in BeatType /\ conn \in ConnType /\ MissedCounts /\ TasksAreLive
  BY PartTypes DEF ConnectionInv, GatewayInv
<1>2. hb' \in BeatType
  <2>1. hb.silent + 1 \in Nat
    BY <1>1 DEF BeatType
  <2> QED BY <1>1, <2>1 DEF BeatType
<1>3. conn' \in ConnType /\ conn'.addr = conn.addr
  BY <1>1 DEF ConnType
<1>4. hb'.pc = "idle" /\ hb'.missed = hb.missed /\ hb'.silent = hb.silent + 1
  BY <1>1 DEF BeatType
<1>5. conn'.busy = IF conn.busy = "acked" THEN "ticked" ELSE conn.busy
  BY <1>1 DEF ConnType
<1>6. MissedCounts'
  BY <1>1, <1>4, <1>5 DEF MissedCounts, BeatType
<1> QED BY <1>1, <1>2, <1>3, <1>6, QuietInv DEF TasksAreLive

\* The write queue is gone: the task ends and the connection with it.
LEMMA SendBeatFailsInv == ASSUME ConnectionInv, SendBeatFails PROVE ConnectionInv'
<1> USE DEF SendBeatFails
<1>1. hb \in BeatType /\ conn \in ConnType /\ MissedCounts /\ TasksAreLive
  BY PartTypes DEF ConnectionInv, GatewayInv
<1>2. hb' \in BeatType /\ conn' \in ConnType /\ conn'.addr = conn.addr
  BY <1>1 DEF BeatType, ConnType
<1>3. /\ hb'.pc = "dead" /\ hb'.missed = hb.missed /\ hb'.silent = hb.silent
      /\ conn'.busy = conn.busy
  BY <1>1 DEF BeatType, ConnType
<1>4. MissedCounts'
  BY <1>1, <1>3 DEF MissedCounts, BeatType
<1> QED BY <1>1, <1>2, <1>4, QuietInv DEF TasksAreLive

\* The two halves of an acknowledgment.
LEMMA AckInv ==
  ASSUME ConnectionInv, AckMatches \/ AckResets
  PROVE  ConnectionInv'
<1>1. hb \in BeatType /\ conn \in ConnType /\ MissedCounts /\ TasksAreLive
  BY PartTypes DEF ConnectionInv, GatewayInv
<1>2. CASE AckMatches
  <2> USE <1>2 DEF AckMatches
  <2>1. hb' \in BeatType /\ conn' \in ConnType /\ conn'.addr = conn.addr
    BY <1>1 DEF BeatType, ConnType
  <2>2. /\ hb'.pc = hb.pc /\ hb'.missed = hb.missed /\ hb'.silent = 0
        /\ conn'.busy = "acked"
    BY <1>1 DEF BeatType, ConnType
  <2>3. MissedCounts'
    BY <1>1, <2>2 DEF MissedCounts, BeatType
  <2> QED BY <1>1, <2>1, <2>2, <2>3, QuietInv
<1>3. CASE AckResets
  <2> USE <1>3 DEF AckResets
  <2>1. hb' \in BeatType /\ conn' \in ConnType /\ conn'.addr = conn.addr
    BY <1>1 DEF BeatType, ConnType
  <2>2. /\ hb'.pc = hb.pc /\ hb'.missed = 0 /\ hb'.silent = hb.silent
        /\ conn'.busy = "none" /\ conn.busy \in {"acked", "ticked"}
    BY <1>1 DEF BeatType, ConnType, Handles
  <2>3. MissedCounts'
    BY <1>1, <2>2 DEF MissedCounts, BeatType
  <2> QED BY <1>1, <2>1, <2>2, <2>3, QuietInv DEF TasksAreLive
<1> QED BY <1>2, <1>3

-----------------------------------------------------------------------------
(* The speak loop: it runs in a live connection, or until it is drained.   *)

\* The counters of the heartbeat see the message at hand and nothing else.
LEMMA SameBeat ==
  ASSUME MissedCounts, hb' = hb, conn'.busy = conn.busy
  PROVE  MissedCounts'
  BY DEF MissedCounts

\* A step of the loop, whatever it saves or sends.
LEMMA LoopInv ==
  ASSUME ConnectionInv, speak.pc # "none", UNCHANGED <<retryVars, gate, stray, hb, told>>,
         saved' \in KeptType, last' \in 0 .. RtpMod, speak' \in LoopType,
         frames' \in 0 .. PersistEvery - 1, voiceReady' \in BOOLEAN,
         conn' \in ConnType, conn'.busy = conn.busy
  PROVE  ConnectionInv'
<1>1. phase \in {"live", "draining"} /\ MissedCounts
  BY DEF ConnectionInv, GatewayInv, TasksAreLive
<1>2. MissedCounts'
  BY <1>1, SameBeat
<1> QED BY <1>1, <1>2, PartTypes, LiveInv

\* The RTP state that follows is one.
LEMMA NextRtpType ==
  ASSUME NEW r \in 0 .. RtpMod
  PROVE  NextRtp(r) \in 0 .. RtpMod
  BY GatewayAssumption DEF NextRtp

\* A tick behind a closed gate, a save, the two ends of the loop.
LEMMA QuietLoopInv ==
  ASSUME ConnectionInv, TickClosed \/ Persist \/ LoopExits \/ LoopFails
  PROVE  ConnectionInv'
<1> USE PartTypes DEF AtTop
<1>1. CASE TickClosed
  <2>1. speak' \in LoopType
    BY <1>1 DEF TickClosed, LoopType
  <2> QED BY <1>1, <2>1, LoopInv DEF TickClosed
<1>2. CASE Persist
  <2>1. speak' \in LoopType /\ saved' \in KeptType
    BY <1>2 DEF Persist, LoopType, KeptType
  <2> QED BY <1>2, <2>1, LoopInv DEF Persist
<1>3. CASE LoopExits
  <2>1. speak' \in LoopType /\ saved' \in KeptType
    BY <1>3, NullTypes DEF LoopExits, LoopType, KeptType
  <2> QED BY <1>3, <2>1, LoopInv DEF LoopExits
<1>4. CASE LoopFails
  <2>1. speak' \in LoopType /\ conn' \in ConnType /\ conn'.busy = conn.busy
    BY <1>4, NullTypes DEF LoopFails, ConnType
  <2> QED BY <1>4, <2>1, LoopInv DEF LoopFails
<1> QED BY <1>1, <1>2, <1>3, <1>4

\* A tick that may send a packet.
LEMMA TickOpenInv ==
  ASSUME ConnectionInv, NEW audio \in BOOLEAN, NEW packet \in BOOLEAN,
         TickOpen(audio, packet)
  PROVE  ConnectionInv'
<1> USE PartTypes DEF TickOpen, AtTop
<1> DEFINE r == IF packet THEN NextRtp(speak.rtp) ELSE speak.rtp
<1>1. speak.rtp \in 0 .. RtpMod
  BY DEF LoopType
<1>2. r \in 0 .. RtpMod
  BY <1>1, NextRtpType
<1>3. frames' \in 0 .. PersistEvery - 1
  BY GatewayAssumption
<1>4. last' \in 0 .. RtpMod
  BY <1>2
<1>5. speak' \in LoopType
  <2>1. speak' = [speak EXCEPT !.waited = FALSE, !.rtp = r,
                               !.pc = IF frames' = 0 THEN "persist" ELSE AtTop]
    OBVIOUS
  <2> HIDE DEF r
  <2> QED BY <1>2, <2>1 DEF LoopType
<1> QED BY <1>3, <1>4, <1>5, LoopInv

\* A loop that outlived its abort ends, or the player takes frames_sent: what the
\* connection has is left alone, but for an RTP state that is marked as late.
LEMMA StrayInv ==
  ASSUME ConnectionInv, TakeFrames \/ \E a \in BOOLEAN : StrayEnds(a)
  PROVE  ConnectionInv'
<1> USE PartTypes
<1>1. frames' \in 0 .. PersistEvery - 1
  <2>1. frames' \in {0, frames, (frames + 1) % PersistEvery}
    BY DEF TakeFrames, StrayEnds
  <2>2. (frames + 1) % PersistEvery \in 0 .. PersistEvery - 1
    BY GatewayAssumption
  <2>3. 0 \in 0 .. PersistEvery - 1
    BY GatewayAssumption
  <2> QED BY <2>1, <2>2, <2>3
<1>2. /\ saved' \in KeptType
      /\ saved'.key = saved.key /\ (saved'.rtp = saved.rtp \/ saved'.late)
      /\ (saved.late => saved'.late)
  <2>1. CASE TakeFrames
    BY <2>1 DEF TakeFrames
  <2>2. CASE \E a \in BOOLEAN : StrayEnds(a)
    <3>1. saved' = saved \/ \E r \in {stray, NextRtp(stray)} :
                              saved' = [saved EXCEPT !.rtp = r, !.late = TRUE]
      BY <2>2 DEF StrayEnds
    <3>2. CASE saved' = saved
      BY <3>2
    <3>3. ASSUME NEW r \in {stray, NextRtp(stray)},
                 saved' = [saved EXCEPT !.rtp = r, !.late = TRUE]
          PROVE  /\ saved' \in KeptType
                 /\ saved'.key = saved.key /\ (saved'.rtp = saved.rtp \/ saved'.late)
                 /\ (saved.late => saved'.late)
      <4>1. r \in 0 .. RtpMod
        BY NextRtpType
      <4> QED BY <3>3, <4>1 DEF KeptType
    <3> QED BY <3>1, <3>2, <3>3
  <2> QED BY <2>1, <2>2
<1>3. /\ UNCHANGED <<retryVars, speak, last, gate, conn, hb, told>>
      /\ stray' \in {stray, NoRtp} /\ voiceReady' \in {voiceReady, FALSE}
  BY Zenon DEF TakeFrames, StrayEnds
<1>8. stray' \in 0 .. RtpMod
  BY <1>3, GatewayAssumption DEF NoRtp
<1>9. voiceReady' \in BOOLEAN /\ (voiceReady' => voiceReady)
  <2>1. CASE voiceReady' = voiceReady
    BY <2>1
  <2>2. CASE voiceReady' = FALSE
    BY <2>2
  <2> QED BY <1>3, <2>1, <2>2
<1> USE DEF ConnectionInv, GatewayInv
<1>4. GatewayTypeOK'
  BY <1>1, <1>2, <1>3, <1>8, <1>9 DEF GatewayTypeOK
<1>5. LastCloseIsTold' /\ TasksAreLive' /\ ReadyOnlyLive'
  BY <1>3, <1>9 DEF LastCloseIsTold, TasksAreLive, ReadyOnlyLive
<1>6. IdentifyIsFresh'
  BY <1>2, <1>3 DEF IdentifyIsFresh
<1>7. MissedCounts' /\ DeadPeerNoticed'
  BY <1>3 DEF MissedCounts, DeadPeerNoticed
<1> QED BY <1>4, <1>5, <1>6, <1>7

-----------------------------------------------------------------------------
(* The handlers.                                                           *)

\* A handler that ends the connection and changes nothing else.
LEMMA JustEndsInv ==
  ASSUME ConnectionInv, NEW o \in Outcomes \ {"shutdown"}, JustEnds(o),
         phase \in {"hello", "live"}, conn.busy \notin {"acked", "ticked"}
  PROVE  ConnectionInv'
<1>1. told = "none"
  BY DEF ConnectionInv, GatewayInv, LastCloseIsTold
<1> QED BY <1>1, PartTypes, EndsInv DEF JustEnds

\* A message is taken, or the cancelled token is seen.
LEMMA SelectInv ==
  ASSUME ConnectionInv, CancelSeen \/ WriteFails \/ \E m \in Messages : Receive(m)
  PROVE  ConnectionInv'
<1> USE PartTypes
<1>0. MissedCounts /\ TasksAreLive
  BY DEF ConnectionInv, GatewayInv
<1>1. CASE CancelSeen
  BY <1>1, JustEndsInv DEF CancelSeen
<1>2. CASE WriteFails
  <2>1. conn' \in ConnType /\ conn'.addr = conn.addr /\ conn'.busy = conn.busy
    BY <1>2 DEF WriteFails, ConnType
  <2> QED BY <1>0, <1>2, <2>1, SameBeat, QuietInv DEF WriteFails, TasksAreLive
<1>3. ASSUME NEW m \in Messages, Receive(m) PROVE ConnectionInv'
  <2>1. conn' \in ConnType /\ conn'.addr = conn.addr /\ conn'.busy = m
    BY <1>3 DEF Receive, ConnType
  <2>2. MissedCounts'
    BY <1>0, <1>3, <2>1 DEF Receive, Reads, MissedCounts, Messages
  <2> QED BY <1>0, <1>3, <2>1, <2>2, QuietInv DEF Receive, Reads, TasksAreLive
<1> QED BY <1>1, <1>2, <1>3

\* A handler that lets a live connection go on.
LEMMA GoesOnInv ==
  ASSUME ConnectionInv, NEW c \in ConnType, GoesOn(c), phase \in {"hello", "live"},
         conn.busy \notin {"acked", "ticked"}, told' = told,
         backoff' \in 0 .. MaxAttempts, gate' \in Gates
  PROVE  ConnectionInv'
<1> USE PartTypes DEF GoesOn
<1>1. CASE phase = "live"
  <2>1. conn' \in ConnType /\ conn'.busy = "none"
    BY <1>1 DEF ConnType
  <2>2. MissedCounts'
    BY <1>1, <2>1, HandledBeat DEF ConnectionInv, GatewayInv
  <2> QED BY <1>1, <2>1, <2>2, LiveInv
<1>2. CASE phase # "live"
  <2>1. told = "none"
    BY <1>2 DEF ConnectionInv, GatewayInv, LastCloseIsTold
  <2> QED BY <1>2, <2>1, EndsInv
<1> QED BY <1>1, <1>2

\* HELLO starts the heartbeat, and a second one ends the connection.
LEMMA OnHelloInv == ASSUME ConnectionInv, OnHello PROVE ConnectionInv'
<1> USE PartTypes DEF OnHello, Reads
<1>1. CASE hb.pc # "off"
  BY <1>1, JustEndsInv
<1>2. CASE hb.pc = "off"
  <2>1. conn' \in ConnType /\ conn'.busy = "none" /\ hb' \in BeatType
    BY <1>2, NullTypes DEF ConnType
  <2>2. hb'.pc = "idle" /\ hb'.missed = 0 /\ hb'.silent = 0
    BY <1>2 DEF NoBeat
  <2>3. MissedCounts'
    BY <2>1, <2>2 DEF MissedCounts
  <2> QED BY <1>2, <2>1, <2>3, LiveInv
<1> QED BY <1>1, <1>2

\* READY, a DAVE message, and the messages that only fail.
LEMMA OnMessageInv ==
  ASSUME ConnectionInv, OnReady \/ OnDave \/ OnBroken
  PROVE  ConnectionInv'
<1> USE PartTypes DEF Handles
<1>1. CASE OnReady
  <2>1. [conn EXCEPT !.addr = TRUE] \in ConnType
    BY DEF ConnType
  <2>2. 0 \in 0 .. MaxAttempts
    BY GatewayAssumption
  <2> QED BY <1>1, <2>1, <2>2, GoesOnInv DEF OnReady
<1>2. CASE OnDave
  BY <1>2, GoesOnInv DEF OnDave
<1>3. CASE OnBroken
  BY <1>3, JustEndsInv DEF OnBroken
<1> QED BY <1>1, <1>2, <1>3

\* start_voice leaves the parts of the connection of their types.
LEMMA StartVoiceTypes ==
  ASSUME ConnectionInv, NEW key \in {"new", "used"}, StartVoice(key)
  PROVE  /\ speak' \in LoopType /\ conn' \in ConnType /\ saved' \in KeptType
         /\ stray' \in 0 .. RtpMod /\ last' \in 0 .. RtpMod
         /\ conn'.busy = "none" /\ voiceReady' = FALSE
<1>0. /\ conn \in ConnType /\ saved \in KeptType /\ speak \in LoopType
      /\ saved.rtp \in 0 .. RtpMod /\ speak.rtp \in 0 .. RtpMod
      /\ stray \in 0 .. RtpMod /\ last \in 0 .. RtpMod /\ NoRtp \in 0 .. RtpMod
  BY PartTypes, GatewayAssumption DEF KeptType, LoopType, NoRtp
<1>1. /\ conn' \in ConnType /\ conn'.busy = "none" /\ voiceReady' = FALSE
  BY <1>0 DEF StartVoice, ConnType
<1>2. saved' \in KeptType
  BY <1>0 DEF StartVoice, KeptType
<1>3. stray' \in 0 .. RtpMod /\ last' \in 0 .. RtpMod
  BY <1>0 DEF StartVoice
<1>4. CASE \E r \in IF saved.rtp = NoRtp THEN Started ELSE {saved.rtp} :
             speak' = [NoLoop EXCEPT !.pc = AtTop, !.rtp = r]
  <2>1. PICK r \in IF saved.rtp = NoRtp THEN Started ELSE {saved.rtp} :
             speak' = [NoLoop EXCEPT !.pc = AtTop, !.rtp = r]
    BY <1>4
  <2>2. r \in 0 .. RtpMod
    <3>1. r \in Started \/ r = saved.rtp
      OBVIOUS
    <3>2. Started \subseteq 0 .. RtpMod
      BY GatewayAssumption DEF Started
    <3> QED BY <1>0, <3>1, <3>2
  <2>3. AtTop \in {"wait", "exit"}
    BY DEF AtTop
  <2>4. speak' \in LoopType
    BY <2>1, <2>2, <2>3 DEF NoLoop, LoopType
  <2> QED BY <1>1, <1>2, <1>3, <2>4
<1>5. CASE speak' = NoLoop
  BY <1>1, <1>2, <1>3, <1>5, NullTypes
<1> QED BY <1>4, <1>5 DEF StartVoice

\* The session description: the connection goes on with a new loop, or ends.
LEMMA OnDescriptionInv ==
  ASSUME ConnectionInv, NEW v \in Descriptions, OnDescription(v)
  PROVE  ConnectionInv'
<1> USE PartTypes DEF OnDescription, Handles
<1>1. CASE ~conn.addr
  BY <1>1, JustEndsInv
<1>2. CASE conn.addr
  <2>1. [saved EXCEPT !.key = "new"] \in KeptType
    BY DEF KeptType
  <2>2. phase = "live" /\ MissedCounts /\ told = "none" /\ told' = told
    BY <1>2 DEF ConnectionInv, GatewayInv, TasksAreLive, LastCloseIsTold
  <2>3. CASE /\ Ends("reconnect") \/ Ends("identify")
             /\ saved' = [saved EXCEPT !.key = "new"]
             /\ gate' \in Gates /\ UNCHANGED backoff
    BY <1>2, <2>1, <2>2, <2>3, EndsInv
  <2>4. CASE /\ gate' \in Gates /\ StartVoice("new") /\ backoff' = 0
             /\ UNCHANGED <<phase, outcome, resume, frames, hb>>
    <3>1. /\ speak' \in LoopType /\ conn' \in ConnType /\ saved' \in KeptType
          /\ stray' \in 0 .. RtpMod /\ last' \in 0 .. RtpMod
          /\ conn'.busy = "none" /\ voiceReady' = FALSE
      BY <2>4, StartVoiceTypes
    <3>2. MissedCounts'
      BY <2>2, <2>4, <3>1, HandledBeat
    <3>3. 0 \in 0 .. MaxAttempts
      BY GatewayAssumption
    <3> QED BY <1>2, <2>2, <2>4, <3>1, <3>2, <3>3, LiveInv
  <2> QED BY <1>2, <2>3, <2>4
<1> QED BY <1>1, <1>2

\* RESUMED: the loop goes on or is started with the saved key, or there is none.
LEMMA OnResumedInv == ASSUME ConnectionInv, OnResumed PROVE ConnectionInv'
<1> USE PartTypes DEF OnResumed, Handles
<1>1. CASE saved.key = "none"
  BY <1>1, JustEndsInv
<1>2. CASE saved.key # "none" /\ phase = "hello"
  BY <1>2, JustEndsInv
<1>3. CASE saved.key # "none" /\ phase # "hello"
  <2>1. phase = "live" /\ MissedCounts /\ saved.key \in {"new", "used"}
    BY <1>3 DEF ConnectionInv, GatewayInv, KeptType
  <2>2. /\ speak' \in LoopType /\ conn' \in ConnType /\ saved' \in KeptType
        /\ stray' \in 0 .. RtpMod /\ last' \in 0 .. RtpMod
        /\ conn'.busy = "none" /\ voiceReady' \in BOOLEAN
    <3>1. CASE speak.pc # "none"
      BY <1>3, <3>1 DEF ConnType
    <3>2. CASE speak.pc = "none"
      BY <1>3, <2>1, <3>2, StartVoiceTypes
    <3> QED BY <3>1, <3>2
  <2>3. MissedCounts'
    BY <1>3, <2>1, <2>2, HandledBeat
  <2> QED BY <1>3, <2>1, <2>2, <2>3, LiveInv
<1> QED BY <1>1, <1>2, <1>3

\* A close frame is told, or it is retried.
LEMMA OnCloseInv ==
  ASSUME ConnectionInv, NEW code \in CloseCodes, OnClose(code)
  PROVE  ConnectionInv'
<1>1. code.class \in Outcomes /\ (code.class = "shutdown" => ~code.retryable)
  BY DEF CloseCodes
<1>2. /\ told' \in Tellings /\ (code.class = "shutdown" => told' = "told")
      /\ told' = "quiet" => backoff' < MaxRetries
  BY <1>1 DEF OnClose
<1> QED BY <1>1, <1>2, PartTypes, EndsInv DEF OnClose, Reads

-----------------------------------------------------------------------------
(* run().                                                                  *)

\* A connection is dialled; nothing is at hand and nothing is known.
LEMMA DialInv == ASSUME ConnectionInv, Dial \/ DialFails PROVE ConnectionInv'
<1> USE DEF ConnectionInv, GatewayInv
<1>1. GatewayTypeOK'
  BY NullTypes DEF Dial, DialFails, GatewayTypeOK
<1>2. LastCloseIsTold' /\ TasksAreLive' /\ IdentifyIsFresh' /\ ReadyOnlyLive'
  BY DEF Dial, DialFails, LastCloseIsTold, TasksAreLive, IdentifyIsFresh,
         ReadyOnlyLive, NewConn
<1>3. MissedCounts' /\ DeadPeerNoticed'
  BY DEF Dial, DialFails, MissedCounts, DeadPeerNoticed, NewConn, TasksAreLive
<1> QED BY <1>1, <1>2, <1>3

\* The player aborts the task.
LEMMA AbortInv == ASSUME ConnectionInv, Abort PROVE ConnectionInv'
<1> USE DEF ConnectionInv, GatewayInv, Abort
<1>1. GatewayTypeOK'
  BY NullTypes DEF GatewayTypeOK
<1>2. LastCloseIsTold' /\ TasksAreLive' /\ IdentifyIsFresh' /\ ReadyOnlyLive'
  BY DEF LastCloseIsTold, TasksAreLive, IdentifyIsFresh, ReadyOnlyLive, NoLoop,
         NewConn, NoBeat
<1>3. MissedCounts' /\ DeadPeerNoticed'
  BY DEF MissedCounts, DeadPeerNoticed, NoBeat, NewConn
<1> QED BY <1>1, <1>2, <1>3

\* The next attempt: only a reconnect keeps what the session had.
LEMMA RetryInv == ASSUME ConnectionInv, Retry PROVE ConnectionInv'
<1> USE DEF ConnectionInv, GatewayInv, Retry
<1>1. GatewayTypeOK'
  <2>1. backoff' \in 0 .. MaxAttempts
    BY PartTypes, GatewayAssumption
  <2>2. saved' \in KeptType /\ gate' \in Gates
    BY PartTypes, NullTypes DEF GateReset
  <2> QED BY <2>1, <2>2 DEF GatewayTypeOK
<1>2. LastCloseIsTold' /\ TasksAreLive'
  BY PartTypes, GatewayAssumption DEF LastCloseIsTold, TasksAreLive
<1>3. IdentifyIsFresh'
  <2>1. phase' \in {"dial", "hello"} /\ ~resume' => saved' = NoSaved /\ gate' = GateReset
    OBVIOUS
  <2>2. GateReset # "sealed" /\ NoSaved.key = "none" /\ NoSaved.rtp = NoRtp
    BY DEF GateReset, NoSaved
  <2> QED BY <2>1, <2>2 DEF IdentifyIsFresh
<1>4. ReadyOnlyLive'
  BY DEF ReadyOnlyLive
<1>5. MissedCounts' /\ DeadPeerNoticed'
  BY DEF MissedCounts, DeadPeerNoticed
<1> QED BY <1>1, <1>2, <1>3, <1>4, <1>5

-----------------------------------------------------------------------------
(* The theorems.                                                           *)

\* Every step of the gateway keeps the invariant.
LEMMA StepInv == ConnectionInv /\ [Next]_vars => ConnectionInv'
<1> SUFFICES ASSUME ConnectionInv, [Next]_vars PROVE ConnectionInv'
  OBVIOUS
<1>1. CASE UNCHANGED vars
  BY <1>1 DEF ConnectionInv, GatewayInv, GatewayTypeOK, LastCloseIsTold, TasksAreLive,
              DeadPeerNoticed, MissedCounts, IdentifyIsFresh, ReadyOnlyLive
<1>2. CASE ReadNext
  BY <1>2, SelectInv, OnHelloInv, OnMessageInv, OnResumedInv, OnDescriptionInv,
     OnCloseInv, AckInv DEF ReadNext
<1>3. CASE SpeakNext
  BY <1>3, QuietLoopInv, TickOpenInv, StrayInv DEF SpeakNext
<1>4. CASE Dial \/ DialFails \/ Drain \/ Retry \/ Abort \/ CancelSeen \/ WriteFails
  BY <1>4, DialInv, DrainInv, RetryInv, AbortInv, SelectInv
<1>5. CASE TickBeat \/ SendBeat \/ SendBeatFails
  BY <1>5, TickBeatInv, SendBeatInv, SendBeatFailsInv
<1> QED BY <1>1, <1>2, <1>3, <1>4, <1>5 DEF Next

\* ConnectionInv holds of every behaviour.
THEOREM ConnectionInvariant == Spec => []ConnectionInv
<1>1. Init => ConnectionInv
  BY InitInv
<1>2. ConnectionInv /\ [Next]_vars => ConnectionInv'
  BY StepInv
<1> QED BY <1>1, <1>2, PTL DEF Spec

\* A close after which the gateway does not come back is told, a speak loop
\* belongs to a connection that is live or being drained, and a silent peer is
\* given up after three heartbeats at most.
THEOREM GatewayCorrect == Spec => []GatewayInv
<1>1. ConnectionInv => GatewayInv
  BY DEF ConnectionInv
<1> QED BY <1>1, ConnectionInvariant, PTL

\* A connection that identifies starts without the key, the RTP state and the
\* DAVE keys of the session before it, on whichever path it got there; only a
\* loop that outlived its abort can have stored an RTP state since.
THEOREM IdentifyStartsFresh == Spec => []IdentifyIsFresh
<1>1. ConnectionInv => IdentifyIsFresh
  BY DEF ConnectionInv
<1> QED BY <1>1, ConnectionInvariant, PTL

\* voice_ready says connected during a connection only, unless the player has
\* aborted the gateway.
THEOREM ReadyIsLive == Spec => []ReadyOnlyLive
<1>1. ConnectionInv => ReadyOnlyLive
  BY DEF ConnectionInv
<1> QED BY <1>1, ConnectionInvariant, PTL

\* The heartbeat gives a peer up for two unanswered heartbeats only, or for one
\* whose answer is being read.
THEOREM AnswersKeepAlive == Spec => AnswerKeepsAlive
<1>1. ConnectionInv /\ [Next]_vars =>
        [hb.pc = "idle" /\ hb'.pc = "dead" => hb.silent >= 2 \/ conn.busy = "acked"]_vars
  <2> SUFFICES ASSUME ConnectionInv, [Next]_vars, hb.pc = "idle", hb'.pc = "dead"
               PROVE  hb.silent >= 2 \/ conn.busy = "acked"
    OBVIOUS
  <2>1. hb \in BeatType /\ MissedCounts
    BY PartTypes DEF ConnectionInv, GatewayInv
  <2>2. TickBeat
    <3>1. hb' # hb
      OBVIOUS
    <3>2. hb' # NoBeat /\ hb' # [NoBeat EXCEPT !.pc = "idle"]
      BY DEF NoBeat
    <3>3. ~SendBeat /\ ~SendBeatFails
      BY DEF SendBeat, SendBeatFails
    <3>4. ~AckMatches /\ ~AckResets
      BY <2>1 DEF AckMatches, AckResets, BeatType
    <3>5. \A o : ~Ends(o)
      BY <3>1 DEF Ends
    <3>6. ~ReadNext
      BY <3>1, <3>2, <3>4, <3>5
      DEF ReadNext, Receive, OnHello, OnBroken, OnReady, OnResumed, OnDave,
          OnDescription, OnClose, JustEnds, GoesOn
    <3>7. ~SpeakNext
      BY <3>1 DEF SpeakNext, TickClosed, Persist, LoopExits, LoopFails, TickOpen,
                  StrayEnds, TakeFrames
    <3>8. ~(Dial \/ DialFails \/ Drain \/ Retry \/ Abort \/ CancelSeen \/ WriteFails)
      BY <3>1, <3>2, <3>5
      DEF Dial, DialFails, Drain, Retry, Abort, CancelSeen, WriteFails, JustEnds
    <3> QED BY <3>1, <3>3, <3>6, <3>7, <3>8 DEF Next
  <2>3. hb.missed >= 2 /\ conn.busy # "ticked"
    BY <2>1, <2>2 DEF TickBeat, BeatType
  <2> QED BY <2>1, <2>3 DEF MissedCounts, BeatType
<1> QED BY <1>1, ConnectionInvariant, PTL DEF Spec, AnswerKeepsAlive
=============================================================================
