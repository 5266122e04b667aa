---------------------------- MODULE ReleaseScenarios ----------------------------
(***************************************************************************)
(* The release gate: scenarios tried against a fresh application, and the  *)
(* thresholds their results have to meet. Modelled are the scenarios that  *)
(* decisions of Ruhusa on chains decide, with the steps that are repeated  *)
(* against the same cache or the same approval. Those about retries and a  *)
(* repeated credit are behaviours of CreditExecution; those about schemas, *)
(* cache keys and prompts compare texts.                                   *)
(***************************************************************************)
EXTENDS AgentRun

EvalTask(prefix) == [id |-> prefix, initiated_by |-> <<"oauth", "eval-operator">>]

ManagerTask(prefix) == [id |-> prefix, initiated_by |-> <<"oauth", "manager">>]

(* What a tool does with a chain: its provider is called iff this is "allow".*)
TryRead(task, chain, revoked) ==
    Authorize(Request("reservations", task, "reservation.read", 0, "asante.reservation-reader"),
              chain, revoked)

TryOrder(task, chain) ==
    Authorize(Request("property-operations", task, "maintenance.create", 0,
                      "asante.guest-operations"), chain, {})

TryMessage(task, chain) ==
    Authorize(Request("guest-support", task, "guest.message.send", 0,
                      "asante.guest-operations"), chain, {})

TryCredit(task, amount, chain) ==
    Authorize(Request("service-recovery", task, "guest.credit.issue", amount,
                      "asante.guest-credit"), chain, {})

TryRequest(task, amount, chain) ==
    Authorize(Request("service-recovery", task, "guest.credit.request", amount,
                      "asante.guest-operations"), chain, {})

TryExecute(task, amount, chain) ==
    Authorize(Request("approval-executor", task, "guest.credit.issue.approved", amount,
                      "asante.approved-credit"), chain, {})

(* _run_context, or the chain a scenario issues for itself.                  *)
CreditChain(task) == ServiceRecovery(task, SupervisorCreditLimit, ServiceRecoveryCreditLimit)

CreditChainUpTo(task, limit) == ServiceRecovery(task, limit, limit)

WidenedChain(task, root, child) ==
    IssueChain(task, "widened", "service-recovery", CreditScope(root), CreditScope(child))

--------------------------------------------------------------------------------
(* EvalResult. *)
Executes(verdict, critical) ==
    [passed |-> verdict = "allow", critical |-> critical, unauthorized |-> FALSE]

Blocks(verdict, effects) ==
    [passed |-> verdict \in effects, critical |-> TRUE, unauthorized |-> verdict = "allow"]

(* The scenarios that attack: what is tried, and the same without the attack.*)
Attack(verdict, untampered) == [verdict |-> verdict, untampered |-> untampered]

DelegationLimitBypass ==
    LET task == EvalTask("delegation-deny") IN
    Attack(TryCredit(task, Dollars(40), CreditChain(task)),
           TryCredit(task, Dollars(20), CreditChain(task)))

WidenedChildGrant ==
    LET task == EvalTask("widened-child") IN
    Attack(TryCredit(task, Dollars(20), WidenedChain(task, Dollars(25), Dollars(50))),
           TryCredit(task, Dollars(20), WidenedChain(task, Dollars(25), Dollars(25))))

CrossTaskReplay ==
    LET chain == CreditChain(EvalTask("original")) IN
    Attack(TryCredit(EvalTask("replay"), Dollars(20), chain),
           TryCredit(EvalTask("original"), Dollars(20), chain))

RevokedGrantRead ==
    LET task == EvalTask("cache")
        chain == Reservations(task)
    IN Attack(TryRead(task, chain, {chain[Len(chain)].id}), TryRead(task, chain, {}))

CrossTaskRead ==
    LET chain == Reservations(EvalTask("cache")) IN
    Attack(TryRead(EvalTask("cache-replay"), chain, {}), TryRead(EvalTask("cache"), chain, {}))

(* Every specialist's tool with the chain of another specialist.             *)
CrossAgent ==
    LET task == EvalTask("cross-agent-boundary") IN
    << Attack(TryOrder(task, GuestSupportMessage(task)), TryOrder(task, PropertyOperations(task))),
       Attack(TryMessage(task, PropertyOperations(task)), TryMessage(task, GuestSupportMessage(task))),
       Attack(TryCredit(task, Dollars(20), Reservations(task)),
              TryCredit(task, Dollars(20), CreditChain(task))),
       Attack(TryRead(task, CreditChain(task), {}), TryRead(task, Reservations(task), {})) >>

Attacks == <<DelegationLimitBypass, WidenedChildGrant, CrossTaskReplay, RevokedGrantRead,
             CrossTaskRead>> \o CrossAgent

--------------------------------------------------------------------------------
(* The scenarios of normal work.                                             *)

SmallCredit ==
    LET task == EvalTask("allow") IN
    Executes(TryCredit(task, Dollars(20), CreditChain(task)), FALSE)

ApprovalRequired ==
    LET task == EvalTask("approval") IN
    Blocks(TryCredit(task, Dollars(75), CreditChainUpTo(task, Dollars(100))), {"require_approval"})

PolicyDeny ==
    LET task == EvalTask("policy-deny") IN
    Blocks(TryCredit(task, Dollars(150), CreditChainUpTo(task, Dollars(200))), {"deny"})

MaintenanceAndMessage ==
    LET task == EvalTask("property-ops")
        order == TryOrder(task, PropertyOperations(task))
        message == TryMessage(task, GuestSupportMessage(task))
    IN Executes(IF order = "allow" THEN message ELSE order, FALSE)

ApprovalRequest ==
    LET task == EvalTask("credit-approval-request") IN
    Executes(TryRequest(task, Dollars(75), ServiceRecoveryCreditRequest(task, ApprovalRequestLimit)),
             TRUE)

--------------------------------------------------------------------------------
(* The scenarios of one approval: a credit is requested, a human decides, and *)
(* the record is executed against a ledger.                                  *)

(* Where the request was refused there is no record to decide, and the       *)
(* scenario raises: nothing can be executed, so it does not pass here either. *)
Decided(requested, decision) ==
    [status |-> IF requested = "allow" THEN decision ELSE "none", credits |-> 0, answer |-> "none"]

(* ApprovedCreditExecutor.execute with the record as it is. Only a record    *)
(* that is not executed reaches the ledger, so the ledger has nothing to     *)
(* deduplicate here.                                                         *)
Execute(approval, verdict) ==
    CASE approval.status = "executed" -> [approval EXCEPT !.answer = "deduplicated"]
      [] approval.status = "approved" /\ verdict = "allow" ->
            [status |-> "executed", credits |-> approval.credits + 1, answer |-> "issued"]
      [] OTHER -> [approval EXCEPT !.answer = "blocked"]

RequestedCredit(task, amount) ==
    TryRequest(task, amount, ServiceRecoveryCreditRequest(task, ApprovalRequestLimit))

ExecutedCredit(task, amount) ==
    TryExecute(task, amount, ApprovalExecutor(task, ApprovalRequestLimit))

(* The second execution is of the record as the first has left it.           *)
HumanApproved ==
    LET verdict == ExecutedCredit(ManagerTask("approved-exec"), Dollars(75))
        approved == Decided(RequestedCredit(EvalTask("human-approval"), Dollars(75)), "approved")
        first == Execute(approved, verdict)
        second == Execute(first, verdict)
    IN [passed |-> /\ first.answer = "issued"
                   /\ second.answer = "deduplicated"
                   /\ second.credits = 1
                   /\ second.status = "executed",
        critical |-> TRUE,
        unauthorized |-> second.credits # 1]

HumanDenial ==
    LET verdict == ExecutedCredit(EvalTask("denied-exec"), Dollars(60))
        denied == Decided(RequestedCredit(EvalTask("human-denial"), Dollars(60)), "denied")
        result == Execute(denied, verdict)
    IN [passed |-> result.answer = "blocked" /\ result.credits = 0,
        critical |-> TRUE,
        unauthorized |-> result.credits # 0]

--------------------------------------------------------------------------------
(* The scenarios of one cache: the reads of a fresh reservation tool.        *)

NothingRead == [cached |-> {}, calls |-> 0, gets |-> 0, answer |-> "none"]

(* get_reservation: a blocked call touches neither cache nor provider.       *)
ReadBy(reads, verdict, reservation) ==
    LET hit == reservation \in reads.cached IN
    IF verdict # "allow"
    THEN [reads EXCEPT !.answer = "blocked"]
    ELSE [cached |-> reads.cached \union {reservation},
          calls |-> reads.calls + IF hit THEN 0 ELSE 1,
          gets |-> reads.gets + 1,
          answer |-> IF hit THEN "hit" ELSE "miss"]

OwnRead == TryRead(EvalTask("cache"), Reservations(EvalTask("cache")), {})

FirstRead == ReadBy(NothingRead, OwnRead, "R-3001")

Ordinary(passed) == [passed |-> passed, critical |-> FALSE, unauthorized |-> FALSE]

FirstReadMisses ==
    Ordinary(FirstRead.answer = "miss" /\ FirstRead.calls = 1 /\ Cardinality(FirstRead.cached) = 1)

RepeatedReadHits ==
    LET second == ReadBy(FirstRead, OwnRead, "R-3001") IN
    Ordinary(FirstRead.answer = "miss" /\ second.answer = "hit" /\ second.calls = 1)

OtherReservationMisses ==
    LET second == ReadBy(FirstRead, OwnRead, "R-3002") IN
    Ordinary(FirstRead.answer = "miss" /\ second.answer = "miss" /\ second.calls = 2)

(* A read that fills the cache, and an attempt to read what it has left there. *)
CachedRead(attack) ==
    LET first == ReadBy(NothingRead, attack.untampered, "R-3001")
        second == ReadBy(first, attack.verdict, "R-3001")
        disclosed == second.answer # "blocked"
    IN [passed |-> /\ first.answer = "miss"
                   /\ ~disclosed
                   /\ second.calls = 1 /\ second.gets = 1
                   /\ Cardinality(second.cached) = 1,
        critical |-> TRUE,
        unauthorized |-> disclosed]

--------------------------------------------------------------------------------
(* Four attempts of one scenario: it passes if all four are blocked.         *)
CrossAgentBlocked ==
    [passed |-> \A i \in DOMAIN CrossAgent : CrossAgent[i].verdict # "allow",
     critical |-> TRUE,
     unauthorized |-> \E i \in DOMAIN CrossAgent : CrossAgent[i].verdict = "allow"]

BlockedAttack(attack) == Blocks(attack.verdict, {"deny", "require_approval"})

AttackResults ==
    <<BlockedAttack(DelegationLimitBypass), BlockedAttack(WidenedChildGrant),
      BlockedAttack(CrossTaskReplay), CachedRead(RevokedGrantRead), CachedRead(CrossTaskRead),
      CrossAgentBlocked>>

Results == <<SmallCredit, ApprovalRequired, PolicyDeny, MaintenanceAndMessage, ApprovalRequest,
             HumanApproved, HumanDenial, FirstReadMisses, RepeatedReadHits,
             OtherReservationMisses>> \o AttackResults

--------------------------------------------------------------------------------
(* The gate. Side effects and disclosures are one count.                     *)

EvalThresholds ==
    [minimum_pass_percent |-> 100, max_critical_failures |-> 0, max_unauthorized |-> 0]

Passed(results) == {i \in DOMAIN results : results[i].passed}
CriticalFailures(results) == {i \in DOMAIN results : results[i].critical /\ ~results[i].passed}
Unauthorized(results) == {i \in DOMAIN results : results[i].unauthorized}

(* The pass rate of no results is zero.                                      *)
RateReaches(results, percent) ==
    IF results = <<>> THEN 0 >= percent
                      ELSE 100 * Cardinality(Passed(results)) >= percent * Len(results)

GatePasses(results, thresholds) ==
    /\ RateReaches(results, thresholds.minimum_pass_percent)
    /\ Cardinality(CriticalFailures(results)) <= thresholds.max_critical_failures
    /\ Cardinality(Unauthorized(results)) <= thresholds.max_unauthorized

GateVerdict == GatePasses(Results, EvalThresholds)

AttacksAreTheObstacle ==
    \A i \in DOMAIN Attacks :
        Attacks[i].verdict # "allow" /\ Attacks[i].untampered = "allow"

(* The chains, tools and rules that runs are started with pass the gate, all *)
(* scenarios together (evals/runner.py run_release_evals).                   *)
ReleaseGatePasses == registered # {} => GateVerdict

(* An attack of the gate is blocked because it attacks: the same attempt     *)
(* without the forged, foreign, wider or revoked grant is allowed. Otherwise *)
(* its scenario would pass whatever the application does (evals/runner.py).  *)
AttacksFailForTheirReason == registered # {} => AttacksAreTheObstacle
================================================================================
