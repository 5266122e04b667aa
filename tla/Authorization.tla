----------------------------- MODULE Authorization -----------------------------
(***************************************************************************)
(* Who may do what, and for how much: the workload identities, the         *)
(* delegation chains the application issues for a task, the tools it       *)
(* registers, the policy rules, and the decision Ruhusa takes on them.     *)
(*                                                                         *)
(* Amounts are in tenths of a cent. Every scope and every rule is about    *)
(* resources "reservation:...", and every request names one: the prefixes  *)
(* are left out. Grants that were revoked or have expired are in the set   *)
(* "revoked" that a decision takes as a parameter.                         *)
(***************************************************************************)
EXTENDS Integers, Sequences

Dollars(n) == 1000 * n

Workloads == {"supervisor", "guest-support", "property-operations",
              "reservations", "service-recovery", "approval-executor"}

(* The SPIFFE ID of a workload, without its trust domain.                    *)
Identity ==
    [w \in Workloads |-> <<IF w = "approval-executor" THEN "services" ELSE "agents", w>>]

--------------------------------------------------------------------------------
(* Scopes and delegation chains.                                             *)

(* max_numeric_arguments is a set of upper bounds for the amount.            *)
Scope(action, bounds) == [actions |-> {action}, bounds |-> bounds]

ReservationReadScope == Scope("reservation.read", {})
MaintenanceScope == Scope("maintenance.create", {})
GuestMessageScope == Scope("guest.message.send", {})
CreditScope(limit) == Scope("guest.credit.issue", {limit})
CreditRequestScope(limit) == Scope("guest.credit.request", {limit})
ApprovedCreditScope(limit) == Scope("guest.credit.issue.approved", {limit})

Grant(id, grantor, grantee, task, scope) ==
    [id |-> id, grantor |-> grantor, grantee |-> grantee, task |-> task.id, scope |-> scope]

(* Mutant: the specialist's grant carries the supervisor's scope.            *)
IssueChain_SupervisorScope(task, name, workload, rootScope, childScope) ==
    << Grant(<<task.id, name, 1>>, task.initiated_by, Identity["supervisor"], task, rootScope),
       Grant(<<task.id, name, 2>>, Identity["supervisor"], Identity[workload], task, rootScope) >>

(* The human delegates to the supervisor, the supervisor to a specialist.    *)
(* The name, in place of random identifiers, keeps a task's grants apart.    *)
IssueChain(task, name, workload, rootScope, childScope) ==
    << Grant(<<task.id, name, 1>>, task.initiated_by, Identity["supervisor"], task, rootScope),
       Grant(<<task.id, name, 2>>, Identity["supervisor"], Identity[workload], task, childScope) >>

IssueSpecialistChain(task, name, workload, scope) ==
    IssueChain(task, name, workload, scope, scope)

Reservations(task) ==
    IssueSpecialistChain(task, "reservations", "reservations", ReservationReadScope)

PropertyOperations(task) ==
    IssueSpecialistChain(task, "maintenance", "property-operations", MaintenanceScope)

GuestSupportMessage(task) ==
    IssueSpecialistChain(task, "message", "guest-support", GuestMessageScope)

(* The limits a chain for automatic credits is refused with a ValueError.    *)
LimitsAccepted(supervisorLimit, recoveryLimit) ==
    0 < recoveryLimit /\ recoveryLimit <= supervisorLimit

ServiceRecovery(task, supervisorLimit, recoveryLimit) ==
    IssueChain(task, "credit", "service-recovery",
               CreditScope(supervisorLimit), CreditScope(recoveryLimit))

ServiceRecoveryCreditRequest(task, limit) ==
    IssueSpecialistChain(task, "credit_request", "service-recovery", CreditRequestScope(limit))

(* The approving human delegates to the executor service directly.           *)
ApprovalExecutor(task, limit) ==
    << Grant(<<task.id, "approved_credit", 1>>, task.initiated_by,
             Identity["approval-executor"], task, ApprovedCreditScope(limit)) >>

SupervisorCreditLimit == Dollars(100)
ServiceRecoveryCreditLimit == Dollars(25)
ApprovalRequestLimit == Dollars(100)

--------------------------------------------------------------------------------
(* Tools and policy.                                                         *)

ToolActions ==
    [t \in {"asante.guest-credit", "asante.reservation-reader",
            "asante.guest-operations", "asante.approved-credit"} |->
        CASE t = "asante.guest-credit" -> {"guest.credit.issue"}
          [] t = "asante.reservation-reader" -> {"reservation.read"}
          [] t = "asante.guest-operations" ->
                 {"maintenance.create", "guest.message.send", "guest.credit.request"}
          [] t = "asante.approved-credit" -> {"guest.credit.issue.approved"}]

(* Conditions on the amount: the bands it must be in, open below.            *)
NoCondition == {}
(* Mutant: the condition is forgotten.                                       *)
CreditAtMost_Anything(limit) == {<<0, 1000 * limit>>}
CreditAtMost(limit) == {<<0, limit>>}
(* Mutant: the lower end of the band belongs to it.                          *)
CreditRequestBetween_From(low, high) == {<<low - 1, high>>}
CreditRequestBetween(low, high) == {<<low, high>>}
VerifiedApprovedCredit(limit) == {<<0, limit>>}

Rule(effect, action, workload, bands) ==
    [effect |-> effect, action |-> action, principal |-> Identity[workload], bands |-> bands]

(* The rules, in the order of the store. Only the executor's asks for        *)
(* evidence of an approval, which the executor alone puts in a request.      *)
Policies ==
    << Rule("allow", "reservation.read", "reservations", NoCondition),
       Rule("allow", "maintenance.create", "property-operations", NoCondition),
       Rule("allow", "guest.message.send", "guest-support", NoCondition),
       Rule("allow", "guest.credit.request", "service-recovery",
            CreditRequestBetween(Dollars(25), Dollars(100))),
       Rule("allow", "guest.credit.issue", "service-recovery", CreditAtMost(Dollars(25))),
       Rule("require_approval", "guest.credit.issue", "service-recovery",
            CreditAtMost(Dollars(100))),
       Rule("allow", "guest.credit.issue.approved", "approval-executor",
            VerifiedApprovedCredit(Dollars(100))) >>

--------------------------------------------------------------------------------
(* A request, and Ruhusa's decision on it.                                   *)

Request(workload, task, action, amount, tool) ==
    [principal |-> Identity[workload], task |-> task, action |-> action,
     amount |-> amount, tool |-> tool]

Within(child, parent) ==
    /\ child.actions \subseteq parent.actions
    /\ \A b \in parent.bounds : \E c \in child.bounds : c <= b

Covers(scope, request) ==
    /\ request.action \in scope.actions
    /\ \A b \in scope.bounds : request.amount <= b

(* The chain leads from the human who started the task to the principal that *)
(* executes, is for this task, is alive, narrows, and covers the request.    *)
ChainValid(chain, request, revoked) ==
    /\ chain[1].grantor = request.task.initiated_by
    /\ chain[Len(chain)].grantee = request.principal
    /\ \A i \in DOMAIN chain :
           /\ chain[i].task = request.task.id
           /\ chain[i].id \notin revoked
           /\ Covers(chain[i].scope, request)
    /\ \A i \in 1..(Len(chain) - 1) :
           /\ chain[i + 1].grantor = chain[i].grantee
           /\ Within(chain[i + 1].scope, chain[i].scope)

Matches(rule, request) ==
    /\ rule.action = request.action
    /\ rule.principal = request.principal
    /\ \A b \in rule.bands : b[1] < request.amount /\ request.amount <= b[2]

Matching(request) == {i \in DOMAIN Policies : Matches(Policies[i], request)}

(* The first rule that matches decides; without one the answer is no.        *)
PolicyEffect(request) ==
    IF Matching(request) = {}
    THEN "deny"
    ELSE Policies[CHOOSE i \in Matching(request) : \A j \in Matching(request) : i <= j].effect

Authorize(request, chain, revoked) ==
    IF request.action \in ToolActions[request.tool] /\ ChainValid(chain, request, revoked)
    THEN PolicyEffect(request)
    ELSE "deny"

Allowed(request, chain, revoked) == Authorize(request, chain, revoked) = "allow"
================================================================================
