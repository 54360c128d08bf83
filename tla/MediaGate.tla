------------------------------ MODULE MediaGate -----------------------------
(***************************************************************************)
(* What DAVE promises the people in a voice channel, without MLS, buffers  *)
(* or sessions.  Audio leaves in one of three modes: in the clear, not at  *)
(* all, or under a key.  The voice gateway decides; the client may stop    *)
(* sending whenever it likes, but it may go back to the clear only when    *)
(* the gateway has said so: by a session description with version zero, or *)
(* by executing a transition that it had announced with version zero.      *)
(***************************************************************************)
EXTENDS Naturals

CONSTANTS
    Tids,       \* transition ids
    NoTid       \* no transition

VARIABLES
    mode,       \* "clear", "closed" or "sealed"
    offered,    \* announced transitions to the clear, not executed yet
    key,        \* the outbound key, 0 for none
    wire,       \* the last packet: its kind and the key it is sealed with
    said        \* the message the client handles: its kind and its transition

gateVars == <<mode, offered, key, wire, said>>

Modes == {"clear", "closed", "sealed"}

GateInit ==
    /\ mode = "clear"
    /\ offered = {}
    /\ key = 0
    /\ wire = [kind |-> "none", key |-> 0]
    /\ said = [kind |-> "none", tid |-> NoTid]

\* The gateway announces a transition, to the clear or away from it.
Offer ==
    /\ said'.kind = "prepare"
    /\ said'.tid \in Tids
    /\ offered' \in {offered \cup {said'.tid}, offered \ {said'.tid}}
    /\ UNCHANGED <<mode, key, wire>>

\* It allows plaintext.  A transition announced with id zero is executed at once.
Allow ==
    /\ \/ said'.kind = "describe_clear"
       \/ said'.kind = "execute" /\ said'.tid \in offered
       \/ said'.kind = "prepare" /\ said'.tid = 0
    /\ mode' = "clear"
    /\ offered' \subseteq offered
    /\ key' \in {key, 0}
    /\ UNCHANGED wire

\* Anything else may close the gate, open it sealed, or change nothing; the
\* key is new only when a transition is executed or a handshake has id zero.
Secure ==
    /\ mode = "clear" => mode' \in Modes
    /\ mode # "clear" => mode' \in Modes \ {"clear"}
    /\ offered' \subseteq offered
    /\ \/ key' \in {key, 0}
       \/ said'.kind = "execute"
       \/ said'.kind = "handshake" /\ said'.tid = 0
    /\ UNCHANGED wire

\* A packet is sent.  Opus silence is not sealed.
Send ==
    /\ \/ mode = "clear" /\ wire' = [kind |-> "clear", key |-> 0]
       \/ mode = "sealed" /\ wire' = [kind |-> "silence", key |-> 0]
       \/ mode = "sealed" /\ key # 0 /\ wire' = [kind |-> "sealed", key |-> key]
    /\ UNCHANGED <<mode, offered, key, said>>

GateNext == Offer \/ Allow \/ Secure \/ Send

GateSpec == GateInit /\ [][GateNext]_gateVars
=============================================================================
