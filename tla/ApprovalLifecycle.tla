--------------------------- MODULE ApprovalLifecycle ---------------------------
(***************************************************************************)
(* What the human approval workflow promises about a guest credit, with no *)
(* threads, no provider protocol and no restarts:                          *)
(*                                                                         *)
(*   - one approval record per logical credit (a task, a reservation, an   *)
(*     amount);                                                            *)
(*   - a pending record is approved or denied by somebody who holds the    *)
(*     approval scope, once, and a denied record is never credited;        *)
(*   - an approved record is credited at most once, and is marked executed *)
(*     only after the credit exists.                                       *)
(*                                                                         *)
(* ApprovalWorkflow is shown to implement it.                              *)
(***************************************************************************)
EXTENDS Naturals

CONSTANTS
    Approvals,      \* approval identifiers
    Subjects,       \* logical credits: (task, reservation, amount)
    Approvers,      \* the humans whose token carries asante:approve
    NoSubject,      \* the subject of a record that does not exist yet
    NoOne           \* the decider of a record nobody decided

VARIABLES
    status,         \* status[a]: "absent" or the record's ApprovalStatus
    subject,        \* subject[a]: the logical credit the record is for
    decidedBy,      \* decidedBy[a]: who approved or denied it
    credits         \* credits[a]: credits issued for it

vars == <<status, subject, decidedBy, credits>>

Init ==
    /\ status = [a \in Approvals |-> "absent"]
    /\ subject = [a \in Approvals |-> NoSubject]
    /\ decidedBy = [a \in Approvals |-> NoOne]
    /\ credits = [a \in Approvals |-> 0]

Request(a, k) ==
    /\ status[a] = "absent"
    /\ \A b \in Approvals : subject[b] # k
    /\ status' = [status EXCEPT ![a] = "pending"]
    /\ subject' = [subject EXCEPT ![a] = k]
    /\ UNCHANGED <<decidedBy, credits>>

Decide(a, decision, human) ==
    /\ status[a] = "pending"
    /\ status' = [status EXCEPT ![a] = decision]
    /\ decidedBy' = [decidedBy EXCEPT ![a] = human]
    /\ UNCHANGED <<subject, credits>>

Issue(a) ==
    /\ status[a] = "approved"
    /\ credits[a] = 0
    /\ credits' = [credits EXCEPT ![a] = 1]
    /\ UNCHANGED <<status, subject, decidedBy>>

Execute(a) ==
    /\ status[a] = "approved"
    /\ credits[a] = 1
    /\ status' = [status EXCEPT ![a] = "executed"]
    /\ UNCHANGED <<subject, decidedBy, credits>>

Next ==
    \E a \in Approvals :
        \/ \E k \in Subjects : Request(a, k)
        \/ \E human \in Approvers, d \in {"approved", "denied"} : Decide(a, d, human)
        \/ Issue(a)
        \/ Execute(a)

Spec == Init /\ [][Next]_vars
================================================================================
