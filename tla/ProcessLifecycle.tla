-------------------------- MODULE ProcessLifecycle --------------------------
(***************************************************************************)
(* What the process tree promises, with locks, tasks and syscall steps    *)
(* abstracted away: a pid is created alive by its parent, exits to a      *)
(* zombie, and is reaped at most once, by its parent, while the parent is *)
(* alive.  Init exiting shuts the machine down.                           *)
(***************************************************************************)
CONSTANTS Pids, InitPid, NoParent

VARIABLES life, parentOf, down

Init ==
    /\ life = [p \in Pids |-> IF p = InitPid THEN "alive" ELSE "none"]
    /\ parentOf = [p \in Pids |-> NoParent]
    /\ down = FALSE

Spawn(p, n) ==
    /\ life[p] = "alive"
    /\ life[n] = "none"
    /\ life' = [life EXCEPT ![n] = "alive"]
    /\ parentOf' = [parentOf EXCEPT ![n] = p]
    /\ UNCHANGED down

Exit(q) ==
    /\ q # InitPid
    /\ life[q] = "alive"
    /\ life' = [life EXCEPT ![q] = "zombie"]
    /\ UNCHANGED <<parentOf, down>>

Shutdown ==
    /\ down' = TRUE
    /\ UNCHANGED <<life, parentOf>>

Reap(p, z) ==
    /\ life[p] = "alive"
    /\ parentOf[z] = p
    /\ life[z] = "zombie"
    /\ life' = [life EXCEPT ![z] = "reaped"]
    /\ UNCHANGED <<parentOf, down>>

Next ==
    /\ ~down
    /\ \/ \E p, n \in Pids : Spawn(p, n)
       \/ \E q \in Pids : Exit(q)
       \/ Shutdown
       \/ \E p, z \in Pids : Reap(p, z)

Spec == Init /\ [][Next]_<<life, parentOf, down>>

=============================================================================
