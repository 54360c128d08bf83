----------------------------- MODULE SessionLife -----------------------------
(***************************************************************************)
(* What the node promises about a session, without the maps, atomics and   *)
(* tasks that implement it: a session is held by at most one connection,   *)
(* a connection that drops may leave it detached, a detached session is    *)
(* resumed by one connection or ends, and an ended session stays ended.    *)
(***************************************************************************)
CONSTANTS
    Conns,      \* connections, which also name the sessions they open
    NoSession   \* no holder

VARIABLES
    phase,      \* "none", "held", "detached" or "ended", for each session
    holder      \* the connection that holds a session

lifeVars == <<phase, holder>>

LifeInit ==
    /\ phase = [s \in Conns |-> "none"]
    /\ holder = [s \in Conns |-> NoSession]

\* A connection opens a session of its own.
Open(c) ==
    /\ phase[c] = "none"
    /\ phase' = [phase EXCEPT ![c] = "held"]
    /\ holder' = [holder EXCEPT ![c] = c]

\* The holder drops and leaves the session for a client to come back to.
Detach(s) ==
    /\ phase[s] = "held"
    /\ phase' = [phase EXCEPT ![s] = "detached"]
    /\ holder' = [holder EXCEPT ![s] = NoSession]

\* A connection takes a detached session over.
Resume(c, s) ==
    /\ phase[s] = "detached"
    /\ phase' = [phase EXCEPT ![s] = "held"]
    /\ holder' = [holder EXCEPT ![s] = c]

\* The holder drops for good, or the resume window closes.
End(s) ==
    /\ phase[s] \in {"held", "detached"}
    /\ phase' = [phase EXCEPT ![s] = "ended"]
    /\ holder' = [holder EXCEPT ![s] = NoSession]

LifeNext ==
    \E s \in Conns : \/ Open(s) \/ Detach(s) \/ End(s)
                     \/ \E c \in Conns : Resume(c, s)

LifeSpec == LifeInit /\ [][LifeNext]_lifeVars
=============================================================================
