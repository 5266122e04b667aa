--------------------------- MODULE OperationContract ---------------------------
(***************************************************************************)
(* What the tool boundary promises about every operation an agent run may  *)
(* ask for, with no clients, requests, retries or providers:               *)
(*                                                                         *)
(*   - an operation is performed at most once, however often it is asked   *)
(*     for, and only while its run is open;                                *)
(*   - it is performed under a permit that was given while the run had     *)
(*     authority for it, and that one performance consumes;                *)
(*   - a caller is told that it was performed only after it was.           *)
(*                                                                         *)
(* A permit may outlive the authority it was given under. CreditExecution  *)
(* and AgentRun are shown to implement this module.                        *)
(***************************************************************************)
EXTENDS Naturals

CONSTANTS
    Runs,           \* agent runs
    Operations,     \* logical operations: those with one idempotency key are one
    RunOf,          \* RunOf[o]: the run an operation belongs to
    Callers         \* tool calls

VARIABLES
    phase,          \* phase[r]: "new", "open" or "closed"
    authorized,     \* operations their runs have authority for
    permits,        \* operations permitted and not yet performed
    count,          \* count[o]: how often o was performed
    told            \* <<caller, o>>: the caller knows that o was performed

vars == <<phase, authorized, permits, count, told>>

Init ==
    /\ phase = [r \in Runs |-> "new"]
    /\ authorized = {}
    /\ permits = {}
    /\ count = [o \in Operations |-> 0]
    /\ told = {}

(* A run starts, with authority for some of its operations.                  *)
Open(r) ==
    /\ phase[r] = "new"
    /\ phase' = [phase EXCEPT ![r] = "open"]
    /\ UNCHANGED <<permits, count, told>>
    /\ authorized \subseteq authorized'
    /\ \A o \in authorized' \ authorized : o \in Operations /\ RunOf[o] = r

Close(r) ==
    /\ phase[r] = "open"
    /\ phase' = [phase EXCEPT ![r] = "closed"]
    /\ UNCHANGED <<permits, count, told, authorized>>

(* Authority ends.                                                           *)
Withdraw ==
    /\ UNCHANGED <<phase, permits, count, told>>
    /\ authorized' \subseteq authorized

Permit(o) ==
    /\ permits' = permits \cup {o}
    /\ o \in authorized
    /\ phase[RunOf[o]] = "open"
    /\ UNCHANGED <<phase, count, told, authorized>>

(* A permit is given up: the operation failed, or had been performed before. *)
Drop(o) ==
    /\ permits' = permits \ {o}
    /\ UNCHANGED <<phase, count, told, authorized>>

Perform(o) ==
    /\ o \in permits
    /\ phase[RunOf[o]] = "open"
    /\ count[o] = 0
    /\ count' = [count EXCEPT ![o] = 1]
    /\ permits' = permits \ {o}
    /\ UNCHANGED <<phase, told, authorized>>

Tell(c, o) ==
    /\ count[o] = 1
    /\ told' = told \cup {<<c, o>>}
    /\ UNCHANGED <<phase, permits, count, authorized>>

Next ==
    \/ Withdraw
    \/ \E r \in Runs : Open(r) \/ Close(r)
    \/ \E o \in Operations :
           \/ Permit(o) \/ Drop(o) \/ Perform(o)
           \/ \E c \in Callers : Tell(c, o)

Spec == Init /\ [][Next]_vars

--------------------------------------------------------------------------------
(* What follows for the operations, whatever the boundary is built of.       *)

(* An operation is performed at most once, and whoever was told that it was  *)
(* was told the truth (registry.py, guest_operations.py, guest_credit.py).   *)
OnceAndTruly ==
    \A o \in Operations :
        /\ count[o] \in {0, 1}
        /\ \A c \in Callers : <<c, o>> \in told => count[o] = 1

(* A step leaves an operation of a run that has ended as it is.              *)
Rests(o) ==
    phase[RunOf[o]] = "closed" => phase'[RunOf[o]] = "closed" /\ count'[o] = count[o]

(* When a run has ended, so has every change it makes: no request of it that *)
(* is still under way is performed (registry.py, run_agent).                 *)
EndedRunsRest == [][\A o \in Operations : Rests(o)]_vars

(* Authority that is gone for good takes the operation with it, unless it    *)
(* was permitted or performed before: however often it is asked for again,   *)
(* it is never performed (execution admission and revalidation in the tools).*)
Untouched(o) == o \notin permits /\ count[o] = 0

RevocationHolds ==
    \A o \in Operations : [](Untouched(o) /\ [](o \notin authorized) => []Untouched(o))
================================================================================
