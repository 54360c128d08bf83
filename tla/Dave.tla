-------------------------------- MODULE Dave --------------------------------
(***************************************************************************)
(* End-to-end encryption of a voice connection: DaveHandler                *)
(* (discord/crypto/dave.rs) over a DaveSession (vendor/davey), driven by   *)
(* the handlers of the voice gateway (gateway/session/handler.rs) and read *)
(* by the speak loop (gateway/session/voice.rs).                           *)
(*                                                                         *)
(* The gateway is the environment: any message may come at any time.  An   *)
(* MLS message is reduced to whether openmls accepts it, and what an epoch *)
(* gives us, its key, to a number; key generation and storage do not fail. *)
(* A handler runs with the DaveHandler locked, so it is one step, save     *)
(* that of the external sender: it works off its buffers message by message*)
(* and nothing else happens until it is done.  The speak loop takes the    *)
(* lock twice, once to look at the gate and once to encrypt, and anything  *)
(* may happen in between.                                                  *)
(***************************************************************************)
EXTENDS Naturals, Sequences

CONSTANTS
    Tids,           \* transition ids, with 0 for the initial transition
    NoTid,
    Senders,        \* external sender packages
    NoSender,
    Users,          \* the other users of the channel
    MaxPending,     \* MAX_PENDING_PROPOSALS, for each of the two buffers
    MaxKeys         \* bound on the MLS epochs of a behaviour

Version  == 1                   \* DAVE_INITIAL_VERSION
Versions == 0 .. Version + 1    \* what the gateway may name
NoSession == [status |-> "none"]

Proposals  == [op : {"append", "revoke"}, user : Users, ok : BOOLEAN]
Handshakes == [tid : Tids, welcome : BOOLEAN, ok : BOOLEAN]

ASSUME DaveAssumption ==
    /\ 0 \in Tids /\ NoTid \notin Tids
    /\ NoSender \notin Senders
    /\ MaxPending \in Nat /\ MaxKeys \in Nat

VARIABLES
    dave,       \* the DaveHandler, a record; see DaveInit
    speak,      \* the speak loop: idle, open (it found the gate open) or failed
    wire,       \* the last packet it sent
    said        \* the gateway's message that was handled last

vars == <<dave, speak, wire, said>>

-----------------------------------------------------------------------------
(***************************************************************************)
(* DaveSession.  status tells whether there is a group: INACTIVE has none, *)
(* PENDING is our own group of one, AWAITING has a commit of ours on its   *)
(* way, ACTIVE is a group we are a member of.                              *)
(***************************************************************************)
NoKeys == [t \in {} |-> 0]

\* HashMap::insert and remove.
Put(f, t, x) == [u \in DOMAIN f \cup {t} |-> IF u = t THEN x ELSE f[u]]
Drop(f, t)   == [u \in DOMAIN f \ {t} |-> f[u]]

NewSession ==
    [status |-> "inactive", sender |-> NoSender, ready |-> FALSE, ratchet |-> 0,
     staged |-> NoKeys, queued |-> {}]

\* reinit_inner: the group goes, the media keys stay when they are preserved,
\* and a sender that is known gives a new group at once.
Reinit(s, preserve) ==
    [status  |-> IF s.sender # NoSender THEN "pending" ELSE "inactive",
     sender  |-> s.sender,
     ready   |-> preserve /\ s.ready,
     ratchet |-> IF preserve THEN s.ratchet ELSE 0,
     staged  |-> NoKeys,
     queued  |-> {}]

CanSetSender(s) == s.status \notin {"awaiting", "active"}

SetSender(s, x) == [s EXCEPT !.sender = x, !.status = "pending", !.queued = {}]

CanPropose(s, p, users) ==
    /\ s.status # "inactive"
    /\ p.ok
    /\ IF p.op = "append" THEN p.user \in users ELSE p.user \in s.queued

\* process_proposals: a commit to whatever is queued, or back to where we were.
Propose(s, p) ==
    LET q == IF p.op = "append" THEN s.queued \cup {p.user} ELSE s.queued \ {p.user}
    IN  [s EXCEPT !.queued = q,
                  !.status = CASE q # {} -> "awaiting"
                               [] q = {} /\ s.status = "awaiting" ->
                                        IF s.ready THEN "active" ELSE "pending"
                               [] OTHER -> s.status]

CanJoin(s, m) ==
    /\ m.ok
    /\ IF m.welcome
       THEN s.status # "active" /\ s.sender # NoSender
       ELSE s.status \notin {"inactive", "pending"}

\* process_welcome_inner and process_commit_inner end in update_ratchets:
\* the key is staged for its transition, or used at once for id zero.
Join(s, tid, k) ==
    [s EXCEPT !.status = "active",
              !.queued = {},
              !.ready = TRUE,
              !.staged = IF tid = 0 THEN NoKeys ELSE Put(s.staged, tid, k),
              !.ratchet = IF tid = 0 THEN k ELSE s.ratchet]

\* execute_transition and discard_transition of a session.
ExecuteStaged(s, tid, v) ==
    [s EXCEPT !.ratchet = IF v # 0 /\ tid \in DOMAIN s.staged THEN s.staged[tid] ELSE @,
              !.staged = Drop(@, tid)]

-----------------------------------------------------------------------------
(***************************************************************************)
(* DaveHandler.                                                            *)
(***************************************************************************)
DaveInit ==
    [session  |-> NoSession,
     version  |-> 0,        \* protocol_version
     required |-> FALSE,    \* encryption_required
     prepared |-> 0,        \* prepared_protocol_version
     pending  |-> NoKeys,   \* pending_transitions: id to version
     senderSet |-> FALSE,   \* external_sender_set
     saved    |-> NoSender, \* saved_external_sender
     proposals |-> <<>>,    \* pending_proposals
     handshakes |-> <<>>,   \* pending_handshake
     replaying |-> FALSE,   \* process_external_sender is at its buffers
     users    |-> {},       \* recognized_users, without ourselves
     keys     |-> 0]        \* epochs so far: the next key is keys + 1

HasSession(d) == d.session # NoSession

\* Fault: a reset forgets that encryption was negotiated.
ResetToClear(d) == [DaveInit EXCEPT !.users = d.users, !.keys = d.keys]

Reset(d) ==
    [DaveInit EXCEPT !.required = d.required, !.users = d.users, !.keys = d.keys]

\* setup_session with a supported version.  The requirement comes first; a
\* version that is active keeps the media keys until the next transition.
Setup(d) ==
    [d EXCEPT !.session = IF HasSession(d) THEN Reinit(d.session, d.version # 0)
                                           ELSE NewSession,
              !.required = TRUE,
              !.prepared = Version,
              !.senderSet = HasSession(d) /\ d.saved # NoSender,
              !.proposals = <<>>,
              !.handshakes = <<>>]

\* reset_dave_locked: what every failed MLS message leads to.
Restart(d) == Setup(Reset(d))

\* execute_transition.
Execute(d, tid) ==
    IF tid \notin DOMAIN d.pending THEN d
    ELSE LET v == d.pending[tid]
         IN  [d EXCEPT !.pending = Drop(@, tid),
                       !.session = IF HasSession(d) THEN ExecuteStaged(@, tid, v) ELSE @,
                       !.version = v,
                       !.required = (v # 0)]

Supported(v) == v \in {0, Version}

\* prepare_transition: id zero is executed at once.
Prepare(d, tid, v) ==
    LET noted == [d EXCEPT !.pending = Put(@, tid, v)]
    IN  CASE ~Supported(v) -> d
          [] Supported(v) /\ tid = 0 -> Execute(noted, 0)
          [] OTHER -> noted

\* do_process_handshake of a message the session accepts.
Handshake(d, m) ==
    LET k == d.keys + 1
        v == IF m.tid # 0 /\ m.tid \in DOMAIN d.pending THEN d.pending[m.tid]
                                                        ELSE d.prepared
    IN  [d EXCEPT !.session = Join(@, m.tid, k),
                  !.keys = k,
                  !.version = IF m.tid = 0 THEN v ELSE @,
                  !.pending = IF m.tid = 0 THEN @ ELSE Put(@, m.tid, v)]

CanSendMedia(d) ==
    \/ ~d.required
    \/ d.version # 0 /\ HasSession(d) /\ d.session.ready

-----------------------------------------------------------------------------
(***************************************************************************)
(* The gateway's messages.  Each names what it was in said.                *)
(***************************************************************************)
Says(kind, tid) == said' = [kind |-> kind, tid |-> tid]

\* on_session_description, with a version.  An unsupported one fails after it
\* has recorded the requirement, and the connection identifies anew.
Describe(v) ==
    /\ Says(IF v = 0 THEN "describe_clear" ELSE "describe", NoTid)
    /\ dave' = CASE v = 0 -> [Reset(dave) EXCEPT !.required = FALSE]
                 [] v = Version -> Setup(dave)
                 [] OTHER -> Reset([dave EXCEPT !.required = TRUE])
    /\ UNCHANGED <<speak, wire>>

\* The same from a legacy gateway, with no version: allowed before encryption
\* was ever required, else the connection identifies anew.
DescribeLegacy ==
    /\ Says("describe_legacy", NoTid)
    /\ dave' = Reset(dave)
    /\ UNCHANGED <<speak, wire>>

\* on_dave_prepare_transition, and on_mls_transition with a version.
PrepareTransition(tid, v) ==
    /\ Says("prepare", tid)
    /\ dave' = Prepare(dave, tid, v)
    /\ UNCHANGED <<speak, wire>>

\* on_dave_execute_transition.
ExecuteTransition(tid) ==
    /\ Says("execute", tid)
    /\ dave' = Execute(dave, tid)
    /\ UNCHANGED <<speak, wire>>

\* on_dave_prepare_epoch with epoch 1: the group is created anew.
PrepareGroup ==
    /\ Says("epoch", NoTid)
    /\ dave' = Setup(dave)
    /\ UNCHANGED <<speak, wire>>

\* The same with a later epoch: the group stays.
PrepareEpoch(tid) ==
    /\ HasSession(dave)
    /\ Says("epoch", tid)
    /\ dave' = [dave EXCEPT !.prepared = Version]
    /\ UNCHANGED <<speak, wire>>

\* reset_dave: op 31 from the gateway, and any MLS message that fails.
Fail(kind) ==
    /\ Says(kind, NoTid)
    /\ dave' = Restart(dave)
    /\ UNCHANGED <<speak, wire>>

InvalidCommitWelcome == Fail("invalid")

\* Op 25.  Without a session the package is not even kept.  With one, the
\* buffered messages come next, under the same lock.
ExternalSender(x, ok) ==
    IF (dave.senderSet /\ dave.saved = x) \/ ~HasSession(dave)
    THEN /\ Says("sender", NoTid)
         /\ UNCHANGED <<dave, speak, wire>>
    ELSE IF ~ok \/ ~CanSetSender(dave.session)
    THEN Fail("sender")
    ELSE /\ Says("sender", NoTid)
         /\ dave' = [dave EXCEPT !.session = SetSender(@, x),
                                 !.senderSet = TRUE,
                                 !.saved = x,
                                 !.replaying = TRUE]
         /\ UNCHANGED <<speak, wire>>

\* A buffered message is taken out and processed.  The first that fails ends
\* the replay: the error restarts the session, which empties the buffers.
ReplayProposal ==
    LET p == Head(dave.proposals)
    IN  /\ dave.proposals # <<>>
        /\ dave' = IF CanPropose(dave.session, p, dave.users)
                   THEN [dave EXCEPT !.session = Propose(@, p), !.proposals = Tail(@)]
                   ELSE Restart(dave)
        /\ UNCHANGED said

ReplayHandshake ==
    LET m == Head(dave.handshakes)
    IN  /\ dave.proposals = <<>> /\ dave.handshakes # <<>>
        /\ dave' = IF CanJoin(dave.session, m)
                   THEN Handshake([dave EXCEPT !.handshakes = Tail(@)], m)
                   ELSE Restart(dave)
        /\ Says("handshake", m.tid)

ReplayEnds ==
    /\ dave.proposals = <<>> /\ dave.handshakes = <<>>
    /\ dave' = [dave EXCEPT !.replaying = FALSE]
    /\ UNCHANGED said

\* Fault: the proposals are replayed, the handshakes left in their buffer.
ReplayProposals ==
    /\ \/ ReplayProposal
       \/ dave.proposals = <<>> /\ dave' = [dave EXCEPT !.replaying = FALSE] /\ UNCHANGED said
    /\ UNCHANGED <<speak, wire>>

\* The rest of process_external_sender: the proposals first.
Replay ==
    /\ ReplayProposal \/ ReplayHandshake \/ ReplayEnds
    /\ UNCHANGED <<speak, wire>>

\* Op 27.  Before the sender is known proposals are buffered, up to a limit.
ProcessProposals(p) ==
    IF ~dave.senderSet
    THEN /\ Says("proposals", NoTid)
         /\ dave' = [dave EXCEPT !.proposals =
                        IF Len(@) < MaxPending THEN Append(@, p) ELSE @]
         /\ UNCHANGED <<speak, wire>>
    ELSE IF CanPropose(dave.session, p, dave.users)
    THEN /\ Says("proposals", NoTid)
         /\ dave' = [dave EXCEPT !.session = Propose(@, p)]
         /\ UNCHANGED <<speak, wire>>
    ELSE Fail("proposals")

\* Ops 29 and 30.  A message that comes before the sender is buffered, or
\* dropped when the buffer is full.
ProcessHandshake(m) ==
    /\ dave.keys + Len(dave.handshakes) < MaxKeys
    /\ IF ~dave.senderSet
       THEN /\ Says("handshake", m.tid)
            /\ dave' = [dave EXCEPT !.handshakes =
                           IF Len(@) < MaxPending THEN Append(@, m) ELSE @]
            /\ UNCHANGED <<speak, wire>>
       ELSE IF CanJoin(dave.session, m)
       THEN /\ Says("handshake", m.tid)
            /\ dave' = Handshake(dave, m)
            /\ UNCHANGED <<speak, wire>>
       ELSE Fail("handshake")

\* on_user_connect and on_user_disconnect.
AddUser(u) ==
    /\ u \notin dave.users
    /\ Says("users", NoTid)
    /\ dave' = [dave EXCEPT !.users = @ \cup {u}]
    /\ UNCHANGED <<speak, wire>>

RemoveUser(u) ==
    /\ u \in dave.users
    /\ Says("users", NoTid)
    /\ dave' = [dave EXCEPT !.users = @ \ {u}]
    /\ UNCHANGED <<speak, wire>>

\* The connection ended and run() identifies anew; the speak loop is gone.
Reidentify ==
    /\ Says("identify", NoTid)
    /\ dave' = Reset(dave)
    /\ speak' = "idle"
    /\ UNCHANGED wire

-----------------------------------------------------------------------------
(***************************************************************************)
(* The speak loop.                                                         *)
(***************************************************************************)
Tick ==
    /\ speak = "idle"
    /\ CanSendMedia(dave)
    /\ speak' = "open"
    /\ UNCHANGED <<dave, wire, said>>

\* encrypt_opus for a frame of audio or of silence; the lock was free since
\* Tick.  davey lets silence pass once it is ready.
Packet(d, silence) ==
    CASE ~d.required -> [kind |-> "clear", key |-> 0]
      [] d.required /\ silence -> [kind |-> "silence", key |-> 0]
      [] OTHER -> [kind |-> "sealed", key |-> d.session.ratchet]

CanEncrypt(d, silence) ==
    /\ CanSendMedia(d)
    /\ ~d.required \/ silence \/ d.session.ratchet # 0

SendRaw(silence) ==
    /\ speak = "open"
    /\ IF CanEncrypt(dave, silence)
       THEN wire' = Packet(dave, silence) /\ speak' = "idle"
       ELSE speak' = "failed" /\ UNCHANGED wire
    /\ UNCHANGED <<dave, said>>

-----------------------------------------------------------------------------
Init ==
    /\ dave = DaveInit
    /\ speak = "idle"
    /\ wire = [kind |-> "none", key |-> 0]
    /\ said = [kind |-> "none", tid |-> NoTid]

GatewayNext ==
    \/ \E v \in Versions : Describe(v)
    \/ DescribeLegacy
    \/ \E t \in Tids, v \in Versions : PrepareTransition(t, v)
    \/ \E t \in Tids : ExecuteTransition(t)
    \/ PrepareGroup
    \/ \E t \in Tids : PrepareEpoch(t)
    \/ InvalidCommitWelcome
    \/ \E x \in Senders, ok \in BOOLEAN : ExternalSender(x, ok)
    \/ \E p \in Proposals : ProcessProposals(p)
    \/ \E m \in Handshakes : ProcessHandshake(m)
    \/ \E u \in Users : AddUser(u) \/ RemoveUser(u)
    \/ Reidentify

\* The lock of the DaveHandler is held until the replay is over.
Next ==
    \/ dave.replaying /\ Replay
    \/ ~dave.replaying /\ (GatewayNext \/ Tick \/ \E s \in BOOLEAN : SendRaw(s))

Spec == Init /\ [][Next]_vars

-----------------------------------------------------------------------------
\* The maps with keys in D and values in R.
Maps(D, R) == UNION {[T -> R] : T \in SUBSET D}

SessionType ==
    [status : {"inactive", "pending", "awaiting", "active"},
     sender : Senders \cup {NoSender}, ready : BOOLEAN, ratchet : 0 .. MaxKeys,
     staged : Maps(Tids \ {0}, 1 .. MaxKeys),
     queued : SUBSET Users]

DaveType ==
    [session : SessionType \cup {NoSession},
     version : 0 .. Version, required : BOOLEAN, prepared : 0 .. Version,
     pending : Maps(Tids, 0 .. Version),
     senderSet : BOOLEAN, saved : Senders \cup {NoSender},
     proposals : Seq(Proposals), handshakes : Seq(Handshakes), replaying : BOOLEAN,
     users : SUBSET Users, keys : 0 .. MaxKeys]

\* With an external sender there is a session with that sender and a group, so
\* that proposals and commits never fail for want of one (dave.rs:137, 282).
\* The sender that is saved is the session's at any time.
SenderSetIsUsable(d) ==
    /\ d.saved = IF HasSession(d) THEN d.session.sender ELSE NoSender
    /\ d.senderSet => /\ HasSession(d)
                      /\ d.saved # NoSender
                      /\ d.session.status # "inactive"

\* Both buffers are empty once the sender is known, and bounded before: no
\* message waits behind one that was handled directly (dave.rs:285, 302).
BuffersDrained(d) ==
    /\ d.senderSet /\ ~d.replaying => d.proposals = <<>> /\ d.handshakes = <<>>
    /\ d.replaying => d.senderSet
    /\ Len(d.proposals) <= MaxPending
    /\ Len(d.handshakes) <= MaxPending
    /\ d.keys + Len(d.handshakes) <= MaxKeys

\* A staged key belongs to a pending transition, so that executing it brings
\* the key into use; none is stranded (dave.rs:193, 373).
StagedIsPending(d) ==
    HasSession(d) => DOMAIN d.session.staged \subseteq DOMAIN d.pending

\* An established session was prepared for a real version: a handshake can
\* then never record a transition to plaintext on its own (dave.rs:345).
PreparedBeforeSession(d) == HasSession(d) => d.prepared = Version

\* What holds of the handler between two steps.
HandlerInv(d) ==
    /\ d \in DaveType
    /\ SenderSetIsUsable(d)
    /\ BuffersDrained(d)
    /\ StagedIsPending(d)
    /\ PreparedBeforeSession(d)

\* The handler is sound, the speak loop is in one of its states, and only the
\* handler of an external sender replays (dave.rs:260-304).
DaveInv ==
    /\ HandlerInv(dave)
    /\ speak \in {"idle", "open", "failed"}
    /\ dave.replaying => said.kind \in {"sender", "handshake"}

\* What MediaGate sees of a handler.
Mode(d) ==
    IF ~d.required THEN "clear" ELSE IF CanSendMedia(d) THEN "sealed" ELSE "closed"

Offered(d) == {t \in DOMAIN d.pending : d.pending[t] = 0}

Key(d) == IF HasSession(d) THEN d.session.ratchet ELSE 0

\* Encryption that is required is dropped for the clear only by the gateway's
\* word, packets go out as the gate says, and the key changes on cue.
Gate == INSTANCE MediaGate WITH
    mode <- Mode(dave), offered <- Offered(dave), key <- Key(dave)

ImplementsGate == Gate!GateSpec
=============================================================================
