----------------------------- MODULE TargetLease -----------------------------
(***************************************************************************)
(* What the target locks of the automation worker promise, apart from how  *)
(* they keep it: a writer may start on a target only when every writer     *)
(* still at work there started more than Lease ticks ago.  Writers stop    *)
(* when they like, several at once when the process crashes.  There is no  *)
(* lock table here.                                                        *)
(***************************************************************************)
EXTENDS Integers

CONSTANTS
    Run, Target,
    NoTarget,    \* not a Target
    Lease        \* a number of ticks

VARIABLES
    writing,     \* the target each run is at work on, or NoTarget
    since,       \* when each run began to write, last
    clock

leaseVars == <<writing, since, clock>>

LeaseInit ==
    /\ writing = [r \in Run |-> NoTarget]
    /\ since = [r \in Run |-> 0]
    /\ clock = 0

Begin(r, t) ==
    /\ writing[r] = NoTarget
    /\ \A s \in Run : writing[s] = t => clock - since[s] > Lease
    /\ writing' = [writing EXCEPT ![r] = t]
    /\ since' = [since EXCEPT ![r] = clock]
    /\ UNCHANGED clock

End(S) ==
    /\ writing' = [r \in Run |-> IF r \in S THEN NoTarget ELSE writing[r]]
    /\ UNCHANGED <<since, clock>>

Pass ==
    /\ clock' = clock + 1
    /\ UNCHANGED <<writing, since>>

LeaseNext ==
    \/ \E r \in Run, t \in Target : Begin(r, t)
    \/ \E S \in SUBSET Run : End(S)
    \/ Pass

LeaseSpec == LeaseInit /\ [][LeaseNext]_leaseVars
=============================================================================
