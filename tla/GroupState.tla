----------------------------- MODULE GroupState -----------------------------
(***************************************************************************)
(* What the OMAP, its version key and update() promise a gateway group:    *)
(* one linear history of the group's state, written one change at a time   *)
(* by a gateway that has seen all of it, and followed by every gateway.    *)
(***************************************************************************)
EXTENDS Naturals

CONSTANTS
    Gateways,     \* gateway processes of the group
    Subsystems    \* the keys of the state

VARIABLES
    latest,       \* the newest version
    history,      \* history[v] is the state at version v
    seen,         \* seen[g] is the version gateway g works from
    copy          \* copy[g] is what it believes that version to be

stateVars == <<latest, history, seen, copy>>

Content == [Subsystems -> Nat]
Empty == [s \in Subsystems |-> 0]

StateInit ==
    /\ latest = 1
    /\ history = [v \in 1..1 |-> Empty]
    /\ seen = [g \in Gateways |-> 1]
    /\ copy = [g \in Gateways |-> Empty]

\* A gateway that has seen the newest state changes one key of it.
Publish(g) ==
    /\ seen[g] = latest
    /\ copy[g] = history[latest]
    /\ latest' = latest + 1
    /\ history' \in [1..latest' -> Content]
    /\ \A v \in 1..latest : history'[v] = history[v]
    /\ \E s \in Subsystems : \A t \in Subsystems \ {s} :
          history'[latest'][t] = history[latest][t]
    /\ seen' = [seen EXCEPT ![g] = latest']
    /\ copy' = [copy EXCEPT ![g] = history'[latest']]

\* A gateway goes forward, over as many versions as it has missed.
CatchUp(g) ==
    /\ seen' \in {[seen EXCEPT ![g] = v] : v \in (seen[g] + 1)..latest}
    /\ copy' = [copy EXCEPT ![g] = history[seen'[g]]]
    /\ UNCHANGED <<latest, history>>

\* Only a new process starts from the beginning.
Restart(g) ==
    /\ seen' = [seen EXCEPT ![g] = 1]
    /\ copy' = [copy EXCEPT ![g] = history[1]]
    /\ UNCHANGED <<latest, history>>

StateNext == \E g \in Gateways : Publish(g) \/ CatchUp(g) \/ Restart(g)

StateSpec == StateInit /\ [][StateNext]_stateVars

=============================================================================
