------------------------ MODULE ReleaseScenarios_proofs -------------------------
(***************************************************************************)
(* The release gate passes, and its attacks fail because they attack. Both *)
(* follow from what Authorization_proofs shows of every chain and request; *)
(* how a verdict becomes a result and results a decision of the gate is    *)
(* shown here, for every sequence of results.                              *)
(***************************************************************************)
EXTENDS ReleaseScenarios, Authorization_proofs, FiniteSetTheorems, SequenceTheorems

--------------------------------------------------------------------------------
(* The gate. *)

(* With the thresholds of a release the gate passes exactly if there are     *)
(* results, every one has passed, and none is of an effect nobody was        *)
(* authorized to have. No results are no pass (evals/runner.py               *)
(* run_release_evals).                                                       *)
THEOREM GateIsStrict ==
    ASSUME NEW S, NEW results \in Seq(S)
    PROVE  GatePasses(results, EvalThresholds)
               <=> /\ results # <<>>
                   /\ \A i \in DOMAIN results : results[i].passed /\ ~results[i].unauthorized
<1> DEFINE n == Len(results)
<1>0. n \in Nat /\ DOMAIN results = 1..n
    OBVIOUS
<1> HIDE DEF n
<1>1. IsFiniteSet(1..n) /\ Cardinality(1..n) = n
    BY <1>0, FS_Interval
<1>2. /\ Passed(results) \subseteq 1..n
      /\ CriticalFailures(results) \subseteq 1..n
      /\ Unauthorized(results) \subseteq 1..n
    BY <1>0 DEF Passed, CriticalFailures, Unauthorized
<1>3. /\ IsFiniteSet(Passed(results)) /\ IsFiniteSet(CriticalFailures(results))
      /\ IsFiniteSet(Unauthorized(results))
      /\ Cardinality(Passed(results)) <= n
      /\ Cardinality(Passed(results)) = n => Passed(results) = 1..n
    BY <1>1, <1>2, FS_Subset
<1>4. /\ Cardinality(Passed(results)) \in Nat
      /\ Cardinality(CriticalFailures(results)) \in Nat
      /\ Cardinality(Unauthorized(results)) \in Nat
    BY <1>3, FS_CardinalityType
<1>5. /\ Cardinality(CriticalFailures(results)) = 0 <=> CriticalFailures(results) = {}
      /\ Cardinality(Unauthorized(results)) = 0 <=> Unauthorized(results) = {}
    BY <1>3, FS_EmptySet
<1>6. GatePasses(results, EvalThresholds)
          <=> /\ results # <<>>
              /\ Cardinality(Passed(results)) = n
              /\ CriticalFailures(results) = {}
              /\ Unauthorized(results) = {}
    <2>1. /\ EvalThresholds.minimum_pass_percent = 100
          /\ EvalThresholds.max_critical_failures = 0 /\ EvalThresholds.max_unauthorized = 0
        BY DEF EvalThresholds
    <2> DEFINE p == Cardinality(Passed(results))
               c == Cardinality(CriticalFailures(results))
               u == Cardinality(Unauthorized(results))
    <2>2. GatePasses(results, EvalThresholds)
              <=> /\ IF results = <<>> THEN 0 >= 100 ELSE 100 * p >= 100 * n
                  /\ c <= 0
                  /\ u <= 0
        BY <2>1 DEF GatePasses, RateReaches, n
    <2>3. p \in Nat /\ c \in Nat /\ u \in Nat /\ n \in Nat /\ p <= n
        BY <1>0, <1>3, <1>4
    <2> HIDE DEF p, c, u
    <2>4. GatePasses(results, EvalThresholds) <=> results # <<>> /\ p = n /\ c = 0 /\ u = 0
        BY <2>2, <2>3
    <2> QED
        BY <1>5, <2>4 DEF p, c, u
<1>7. Cardinality(Passed(results)) = n <=> \A i \in 1..n : results[i].passed
    BY <1>0, <1>1, <1>3 DEF Passed
<1>8. CriticalFailures(results) = {} <=> \A i \in 1..n : results[i].critical => results[i].passed
    BY <1>0 DEF CriticalFailures
<1>9. Unauthorized(results) = {} <=> \A i \in 1..n : ~results[i].unauthorized
    BY <1>0 DEF Unauthorized
<1> QED
    BY <1>0, <1>6, <1>7, <1>8, <1>9

--------------------------------------------------------------------------------
(* Attempts. *)

(* A credit on a chain of the given limits, whatever the chain is called:    *)
(* what its specialist gets is what the rules say.                           *)
LEMMA CreditAttempt ==
    ASSUME NEW task, NEW name, NEW root \in Int, NEW child \in Int, child <= root,
           NEW amount \in Int, amount <= child
    PROVE  TryCredit(task, amount,
                     IssueChain(task, name, "service-recovery", CreditScope(root),
                                CreditScope(child)))
               = PolicyEffect(Request("service-recovery", task, "guest.credit.issue", amount,
                                      "asante.guest-credit"))
<1> DEFINE request == Request("service-recovery", task, "guest.credit.issue", amount,
                              "asante.guest-credit")
           chain == IssueChain(task, name, "service-recovery", CreditScope(root),
                               CreditScope(child))
<1>1. "service-recovery" \in Workloads
    BY DEF Workloads
<1>2. amount <= root
    OBVIOUS
<1>3. /\ Covers(CreditScope(root), request) /\ Covers(CreditScope(child), request)
      /\ Within(CreditScope(child), CreditScope(root))
    BY <1>2, BoundedScope, NarrowerScope DEF CreditScope
<1>4. ChainValid(chain, request, {})
    BY <1>1, <1>3, IssuedChainValid
<1>5. request.action \in ToolActions[request.tool]
    BY RegisteredActions DEF Request
<1> HIDE DEF request, chain
<1>6. Authorize(request, chain, {}) = PolicyEffect(request)
    BY <1>4, <1>5 DEF Authorize
<1> QED
    BY <1>6 DEF TryCredit, request, chain

(* Up to 25 dollars the rules allow it.                                      *)
LEMMA SmallCreditAttempt ==
    ASSUME NEW task, NEW name, NEW root \in Int, NEW child \in Int, child <= root,
           NEW amount \in Int, amount <= child, 0 < amount, amount <= Dollars(25)
    PROVE  TryCredit(task, amount,
                     IssueChain(task, name, "service-recovery", CreditScope(root),
                                CreditScope(child))) = "allow"
<1>1. "service-recovery" \in Workloads
    BY DEF Workloads
<1> QED
    BY <1>1, CreditAttempt, PolicyAllows

(* A request of another principal than the chain's, or of another task, is   *)
(* refused.                                                                  *)
LEMMA ForeignChain ==
    ASSUME NEW task, NEW name, NEW owner \in Workloads, NEW rootScope, NEW childScope,
           NEW workload \in Workloads, NEW attempt, NEW action, NEW amount, NEW tool,
           NEW revoked,
           \/ workload # owner
           \/ attempt.id # task.id
           \/ <<task.id, name, 2>> \in revoked
    PROVE  Authorize(Request(workload, attempt, action, amount, tool),
                     IssueChain(task, name, owner, rootScope, childScope), revoked) = "deny"
<1> DEFINE request == Request(workload, attempt, action, amount, tool)
<1>1. request.principal = Identity[workload] /\ request.task = attempt
    BY DEF Request
<1> HIDE DEF request
<1>2. ChainValid(IssueChain(task, name, owner, rootScope, childScope), request, revoked)
          <=> /\ request.task.id = task.id
              /\ request.task.initiated_by = task.initiated_by
              /\ request.principal = Identity[owner]
              /\ <<task.id, name, 1>> \notin revoked
              /\ <<task.id, name, 2>> \notin revoked
              /\ Covers(rootScope, request) /\ Covers(childScope, request)
              /\ Within(childScope, rootScope)
    BY IssuedChainValidFor
<1>3. workload # owner => request.principal # Identity[owner]
    BY <1>1, DistinctIdentities
<1>4. attempt.id # task.id => request.task.id # task.id
    BY <1>1
<1>5. ~ChainValid(IssueChain(task, name, owner, rootScope, childScope), request, revoked)
    BY <1>2, <1>3, <1>4
<1> QED
    BY <1>5 DEF Authorize, request

--------------------------------------------------------------------------------
(* The attacks. *)

(* An attack that fails because it attacks.                                  *)
Failing == {Attack("deny", "allow")}

LEMMA WorkloadsAre ==
    /\ "guest-support" \in Workloads /\ "property-operations" \in Workloads
    /\ "reservations" \in Workloads /\ "service-recovery" \in Workloads
    /\ "approval-executor" \in Workloads
BY DEF Workloads

(* What the specialists do with the chains that are theirs.                  *)
LEMMA OwnChains ==
    ASSUME NEW prefix
    PROVE  LET task == EvalTask(prefix) IN
           /\ TryRead(task, Reservations(task), {}) = "allow"
           /\ TryOrder(task, PropertyOperations(task)) = "allow"
           /\ TryMessage(task, GuestSupportMessage(task)) = "allow"
           /\ TryCredit(task, Dollars(20), CreditChain(task)) = "allow"
<1> DEFINE task == EvalTask(prefix)
<1>1. 0 \in Int /\ Dollars(20) \in Int /\ 0 < Dollars(20) /\ Dollars(20) <= Dollars(25)
    BY DEF Dollars
<1> HIDE DEF task
<1>2. /\ Allowed(Request("reservations", task, "reservation.read", 0,
                         "asante.reservation-reader"), Reservations(task), {})
      /\ Allowed(Request("property-operations", task, "maintenance.create", 0,
                         "asante.guest-operations"), PropertyOperations(task), {})
      /\ Allowed(Request("guest-support", task, "guest.message.send", 0,
                         "asante.guest-operations"), GuestSupportMessage(task), {})
    BY <1>1, SpecialistBand
<1>3. Allowed(Request("service-recovery", task, "guest.credit.issue", Dollars(20),
                      "asante.guest-credit"), CreditChain(task), {})
    BY <1>1, DefaultBands DEF CreditChain
<1> QED
    BY <1>2, <1>3 DEF task, Allowed, TryRead, TryOrder, TryMessage, TryCredit

(* 40 dollars with a limit of 25.                                            *)
LEMMA BypassFails ==
    DelegationLimitBypass = Attack("deny", "allow")
<1> DEFINE task == EvalTask("delegation-deny")
           request == Request("service-recovery", task, "guest.credit.issue", Dollars(40),
                              "asante.guest-credit")
<1>1. DelegationLimitBypass = Attack(TryCredit(task, Dollars(40), CreditChain(task)),
                                     TryCredit(task, Dollars(20), CreditChain(task)))
    BY DEF DelegationLimitBypass
<1>2. TryCredit(task, Dollars(20), CreditChain(task)) = "allow"
    BY OwnChains
<1>3. ~Covers(CreditScope(ServiceRecoveryCreditLimit), request)
    <2>1. ~(Dollars(40) <= ServiceRecoveryCreditLimit)
        BY DEF ServiceRecoveryCreditLimit, Dollars
    <2> QED
        BY <2>1, BoundedScope DEF CreditScope
<1>4. ~ChainValid(CreditChain(task), request, {})
    BY <1>3, WorkloadsAre, IssuedChainValid DEF CreditChain, ServiceRecovery
<1> HIDE DEF request
<1>5. Authorize(request, CreditChain(task), {}) = "deny"
    BY <1>4 DEF Authorize
<1>6. TryCredit(task, Dollars(40), CreditChain(task)) = "deny"
    BY <1>5 DEF TryCredit, request
<1> QED
    BY <1>1, <1>2, <1>6

(* A child grant of 50 dollars under one of 25.                              *)
LEMMA WideningFails ==
    WidenedChildGrant = Attack("deny", "allow")
<1> DEFINE task == EvalTask("widened-child")
<1>1. WidenedChildGrant
          = Attack(TryCredit(task, Dollars(20), WidenedChain(task, Dollars(25), Dollars(50))),
                   TryCredit(task, Dollars(20), WidenedChain(task, Dollars(25), Dollars(25))))
    BY DEF WidenedChildGrant
<1>2. /\ Dollars(25) \in Int /\ Dollars(50) \in Int /\ Dollars(20) \in Int
      /\ Dollars(25) < Dollars(50) /\ 0 < Dollars(20) /\ Dollars(20) <= Dollars(25)
      /\ Dollars(25) <= Dollars(25)
    BY DEF Dollars
<1> HIDE DEF task
<1>3. TryCredit(task, Dollars(20), WidenedChain(task, Dollars(25), Dollars(50))) = "deny"
    BY <1>2, WorkloadsAre, WidenedChainIsDead DEF TryCredit, WidenedChain, CreditScope
<1>4. TryCredit(task, Dollars(20), WidenedChain(task, Dollars(25), Dollars(25))) = "allow"
    BY <1>2, SmallCreditAttempt DEF WidenedChain
<1> QED
    BY <1>1, <1>3, <1>4

(* The grants of one task, presented in another.                             *)
LEMMA ReplaysFail ==
    /\ CrossTaskReplay = Attack("deny", "allow")
    /\ CrossTaskRead = Attack("deny", "allow")
<1>1. /\ EvalTask("replay").id # EvalTask("original").id
      /\ EvalTask("cache-replay").id # EvalTask("cache").id
      /\ "service-recovery" \in Workloads /\ "reservations" \in Workloads
    BY WorkloadsAre DEF EvalTask
<1>2. TryCredit(EvalTask("replay"), Dollars(20), CreditChain(EvalTask("original"))) = "deny"
    BY <1>1, ForeignChain DEF TryCredit, CreditChain, ServiceRecovery
<1>3. TryRead(EvalTask("cache-replay"), Reservations(EvalTask("cache")), {}) = "deny"
    BY <1>1, ForeignChain DEF TryRead, Reservations, IssueSpecialistChain
<1>4. /\ TryCredit(EvalTask("original"), Dollars(20), CreditChain(EvalTask("original"))) = "allow"
      /\ TryRead(EvalTask("cache"), Reservations(EvalTask("cache")), {}) = "allow"
    BY OwnChains
<1> QED
    BY <1>2, <1>3, <1>4 DEF CrossTaskReplay, CrossTaskRead

(* A grant that was revoked.                                                 *)
LEMMA RevokedReadFails ==
    RevokedGrantRead = Attack("deny", "allow")
<1> DEFINE task == EvalTask("cache")
           chain == Reservations(task)
<1>1. RevokedGrantRead = Attack(TryRead(task, chain, {chain[Len(chain)].id}),
                                TryRead(task, chain, {}))
    BY DEF RevokedGrantRead
<1>2. TryRead(task, chain, {}) = "allow"
    BY OwnChains
<1>3. chain[Len(chain)].id = <<task.id, "reservations", 2>>
    BY GrantParts DEF Reservations, IssueSpecialistChain, IssueChain
<1>4. /\ <<task.id, "reservations", 2>> \in {<<task.id, "reservations", 2>>}
      /\ "reservations" \in Workloads
    BY WorkloadsAre
<1>5. TryRead(task, chain, {<<task.id, "reservations", 2>>}) = "deny"
    BY <1>4, ForeignChain DEF TryRead, Reservations, IssueSpecialistChain
<1> HIDE DEF task, chain
<1> QED
    BY <1>1, <1>2, <1>3, <1>5

(* Every specialist with the chain of another.                               *)
LEMMA ExchangesFail ==
    CrossAgent \in Seq(Failing) /\ Len(CrossAgent) = 4
<1> DEFINE task == EvalTask("cross-agent-boundary")
           first == Attack(TryOrder(task, GuestSupportMessage(task)),
                           TryOrder(task, PropertyOperations(task)))
           second == Attack(TryMessage(task, PropertyOperations(task)),
                            TryMessage(task, GuestSupportMessage(task)))
           third == Attack(TryCredit(task, Dollars(20), Reservations(task)),
                           TryCredit(task, Dollars(20), CreditChain(task)))
           fourth == Attack(TryRead(task, CreditChain(task), {}),
                            TryRead(task, Reservations(task), {}))
<1>1. CrossAgent = <<first, second, third, fourth>>
    BY DEF CrossAgent
<1>2. /\ TryRead(task, Reservations(task), {}) = "allow"
      /\ TryOrder(task, PropertyOperations(task)) = "allow"
      /\ TryMessage(task, GuestSupportMessage(task)) = "allow"
      /\ TryCredit(task, Dollars(20), CreditChain(task)) = "allow"
    BY OwnChains
<1> HIDE DEF task
<1>3. TryOrder(task, GuestSupportMessage(task)) = "deny"
    <2>1. /\ "property-operations" # "guest-support"
          /\ "property-operations" \in Workloads /\ "guest-support" \in Workloads
        BY WorkloadsAre
    <2> QED
        BY <2>1, ForeignChain DEF TryOrder, GuestSupportMessage, IssueSpecialistChain
<1>4. TryMessage(task, PropertyOperations(task)) = "deny"
    <2>1. /\ "guest-support" # "property-operations"
          /\ "guest-support" \in Workloads /\ "property-operations" \in Workloads
        BY WorkloadsAre
    <2> QED
        BY <2>1, ForeignChain DEF TryMessage, PropertyOperations, IssueSpecialistChain
<1>5. TryCredit(task, Dollars(20), Reservations(task)) = "deny"
    <2>1. /\ "service-recovery" # "reservations"
          /\ "service-recovery" \in Workloads /\ "reservations" \in Workloads
        BY WorkloadsAre
    <2> QED
        BY <2>1, ForeignChain DEF TryCredit, Reservations, IssueSpecialistChain
<1>6. TryRead(task, CreditChain(task), {}) = "deny"
    <2>1. /\ "reservations" # "service-recovery"
          /\ "reservations" \in Workloads /\ "service-recovery" \in Workloads
        BY WorkloadsAre
    <2> QED
        BY <2>1, ForeignChain DEF TryRead, CreditChain, ServiceRecovery
<1>7. first = Attack("deny", "allow") /\ second = Attack("deny", "allow")
    BY <1>2, <1>3, <1>4
<1>8. third = Attack("deny", "allow") /\ fourth = Attack("deny", "allow")
    BY <1>2, <1>5, <1>6
<1> HIDE DEF first, second, third, fourth
<1> QED
    BY <1>1, <1>7, <1>8 DEF Failing

(* All attempts in a row.                                                    *)
LEMMA AttacksInARow ==
    Attacks \in Seq(Failing) /\ Len(Attacks) = 9
<1> DEFINE alone == <<DelegationLimitBypass, WidenedChildGrant, CrossTaskReplay,
                      RevokedGrantRead, CrossTaskRead>>
<1>1. alone \in Seq(Failing) /\ Len(alone) = 5
    BY BypassFails, WideningFails, ReplaysFail, RevokedReadFails DEF Failing
<1>2. Attacks = alone \o CrossAgent
    BY DEF Attacks
<1> HIDE DEF alone
<1>3. alone \o CrossAgent \in Seq(Failing)
    BY <1>1, ExchangesFail, ConcatProperties
<1>4. Len(alone \o CrossAgent) = 9
    <2>1. Len(alone \o CrossAgent) = Len(alone) + Len(CrossAgent)
        BY <1>1, ExchangesFail, ConcatProperties
    <2> QED
        BY <1>1, <2>1, ExchangesFail
<1> QED
    BY <1>2, <1>3, <1>4

--------------------------------------------------------------------------------
(* Normal work. *)

(* A result the gate has nothing against.                                    *)
Good == [passed : {TRUE}, critical : BOOLEAN, unauthorized : {FALSE}]

LEMMA GoodResults ==
    /\ \A critical \in BOOLEAN : Executes("allow", critical) \in Good
    /\ Blocks("require_approval", {"require_approval"}) \in Good
    /\ Blocks("deny", {"deny"}) \in Good
    /\ Blocks("deny", {"deny", "require_approval"}) \in Good
BY DEF Executes, Blocks, Good

(* A credit between the limits waits for a human, one above them is refused. *)
LEMMA LargeCredits ==
    ApprovalRequired \in Good /\ PolicyDeny \in Good
<1>1. /\ Dollars(75) \in Int /\ Dollars(100) \in Int /\ Dollars(150) \in Int
      /\ Dollars(200) \in Int
      /\ Dollars(25) < Dollars(75) /\ Dollars(75) <= Dollars(100)
      /\ Dollars(100) < Dollars(150) /\ Dollars(150) <= Dollars(200)
      /\ Dollars(100) <= Dollars(100) /\ Dollars(200) <= Dollars(200)
    BY DEF Dollars
<1>2. ASSUME NEW task
      PROVE  TryCredit(task, Dollars(75), CreditChainUpTo(task, Dollars(100)))
                 = "require_approval"
    BY <1>1, CreditAttempt, PolicyAsks DEF CreditChainUpTo, ServiceRecovery
<1>3. ASSUME NEW task
      PROVE  TryCredit(task, Dollars(150), CreditChainUpTo(task, Dollars(200))) = "deny"
    BY <1>1, CreditAttempt, PolicyDenies DEF CreditChainUpTo, ServiceRecovery
<1> QED
    BY <1>2, <1>3, GoodResults DEF ApprovalRequired, PolicyDeny

(* A credit between the limits may be requested, and executed once approved. *)
LEMMA CreditsOfAnApproval ==
    ASSUME NEW task, NEW amount \in Int, 0 < amount, Dollars(25) < amount, amount <= Dollars(100)
    PROVE  RequestedCredit(task, amount) = "allow" /\ ExecutedCredit(task, amount) = "allow"
<1>1. /\ <<task.id, "credit_request", 1>> \notin {}
      /\ <<task.id, "credit_request", 2>> \notin {}
      /\ <<task.id, "approved_credit", 1>> \notin {}
    OBVIOUS
<1>2. Allowed(Request("service-recovery", task, "guest.credit.request", amount,
                      "asante.guest-operations"),
              ServiceRecoveryCreditRequest(task, ApprovalRequestLimit), {})
    BY <1>1, DefaultBands
<1>3. Allowed(Request("approval-executor", task, "guest.credit.issue.approved", amount,
                      "asante.approved-credit"),
              ApprovalExecutor(task, ApprovalRequestLimit), {})
    BY <1>1, DefaultBands
<1> QED
    BY <1>2, <1>3 DEF Allowed, TryRequest, TryExecute, RequestedCredit, ExecutedCredit

(* An approved credit is issued by the first execution and only found by the *)
(* second; a denied one is never issued.                                     *)
LEMMA ApprovalsAreKept ==
    HumanApproved \in Good /\ HumanDenial \in Good
<1>1. /\ Dollars(75) \in Int /\ 0 < Dollars(75) /\ Dollars(25) < Dollars(75)
      /\ Dollars(75) <= Dollars(100)
      /\ Dollars(60) \in Int /\ 0 < Dollars(60) /\ Dollars(25) < Dollars(60)
      /\ Dollars(60) <= Dollars(100)
    BY DEF Dollars
<1>2. /\ RequestedCredit(EvalTask("human-approval"), Dollars(75)) = "allow"
      /\ RequestedCredit(EvalTask("human-denial"), Dollars(60)) = "allow"
      /\ ExecutedCredit(ManagerTask("approved-exec"), Dollars(75)) = "allow"
      /\ ExecutedCredit(EvalTask("denied-exec"), Dollars(60)) = "allow"
    BY <1>1, CreditsOfAnApproval
<1> DEFINE Approval(standing, number, reply) ==
               [status |-> standing, credits |-> number, answer |-> reply]
<1>3. HumanApproved \in Good
    <2>1. Decided("allow", "approved") = Approval("approved", 0, "none")
        BY DEF Decided
    <2>2. Execute(Approval("approved", 0, "none"), "allow") = Approval("executed", 1, "issued")
        BY DEF Execute
    <2>3. Execute(Approval("executed", 1, "issued"), "allow")
              = Approval("executed", 1, "deduplicated")
        BY DEF Execute
    <2>4. HumanApproved = [passed |-> TRUE, critical |-> TRUE, unauthorized |-> FALSE]
        <3>1. /\ Approval("executed", 1, "issued").answer = "issued"
              /\ Approval("executed", 1, "deduplicated").answer = "deduplicated"
              /\ Approval("executed", 1, "deduplicated").credits = 1
              /\ Approval("executed", 1, "deduplicated").status = "executed"
            OBVIOUS
        <3> HIDE DEF Approval
        <3> QED
            BY <1>2, <2>1, <2>2, <2>3, <3>1 DEF HumanApproved
    <2> QED
        BY <2>4 DEF Good
<1>4. HumanDenial \in Good
    <2>1. Decided("allow", "denied") = Approval("denied", 0, "none")
        BY DEF Decided
    <2>2. Execute(Approval("denied", 0, "none"), "allow") = Approval("denied", 0, "blocked")
        BY DEF Execute
    <2>3. HumanDenial = [passed |-> TRUE, critical |-> TRUE, unauthorized |-> FALSE]
        <3>1. /\ Approval("denied", 0, "blocked").answer = "blocked"
              /\ Approval("denied", 0, "blocked").credits = 0
            OBVIOUS
        <3> HIDE DEF Approval
        <3> QED
            BY <1>2, <2>1, <2>2, <3>1 DEF HumanDenial
    <2> QED
        BY <2>3 DEF Good
<1> QED
    BY <1>3, <1>4

(* What is to be done is done: small credits, orders and messages, and       *)
(* requests for a credit.                                                    *)
LEMMA WorkIsDone ==
    SmallCredit \in Good /\ MaintenanceAndMessage \in Good /\ ApprovalRequest \in Good
<1>1. SmallCredit \in Good
    BY OwnChains, GoodResults DEF SmallCredit
<1>2. MaintenanceAndMessage \in Good
    BY OwnChains, GoodResults DEF MaintenanceAndMessage
<1>3. /\ Dollars(75) \in Int /\ 0 < Dollars(75) /\ Dollars(25) < Dollars(75)
      /\ Dollars(75) <= Dollars(100)
    BY DEF Dollars
<1>4. RequestedCredit(EvalTask("credit-approval-request"), Dollars(75)) = "allow"
    BY <1>3, CreditsOfAnApproval
<1>5. ApprovalRequest \in Good
    BY <1>4, GoodResults DEF ApprovalRequest, RequestedCredit
<1> QED
    BY <1>1, <1>2, <1>5

(* The cache is filled once, found by the same read, and of no use to        *)
(* another, to a revoked grant or to another task.                           *)
LEMMA ReadsAreCounted ==
    /\ FirstReadMisses \in Good /\ RepeatedReadHits \in Good /\ OtherReservationMisses \in Good
    /\ CachedRead(RevokedGrantRead) \in Good /\ CachedRead(CrossTaskRead) \in Good
<1> DEFINE one == [cached |-> {"R-3001"}, calls |-> 1, gets |-> 1, answer |-> "miss"]
<1>1. Cardinality({"R-3001"}) = 1
    BY FS_Singleton
<1>2. ReadBy(NothingRead, "allow", "R-3001") = one
    <2>1. {} \union {"R-3001"} = {"R-3001"} /\ 0 + 1 = 1 /\ "R-3001" \notin {}
        OBVIOUS
    <2>2. /\ NothingRead.cached = {} /\ NothingRead.calls = 0 /\ NothingRead.gets = 0
        BY DEF NothingRead
    <2> QED
        BY <2>1, <2>2 DEF ReadBy
<1>3. OwnRead = "allow"
    BY OwnChains DEF OwnRead
<1>4. FirstRead = one
    BY <1>2, <1>3 DEF FirstRead
<1>5. FirstReadMisses \in Good
    BY <1>1, <1>4 DEF FirstReadMisses, Ordinary, Good
<1>6. RepeatedReadHits \in Good
    <2>1. one.cached = {"R-3001"} /\ one.calls = 1 /\ one.answer = "miss" /\ 1 + 0 = 1
        OBVIOUS
    <2> HIDE DEF one
    <2>2. ReadBy(one, "allow", "R-3001").answer = "hit"
        BY <2>1 DEF ReadBy
    <2>3. ReadBy(one, "allow", "R-3001").calls = 1
        BY <2>1 DEF ReadBy
    <2>4. RepeatedReadHits = Ordinary(TRUE)
        BY <1>3, <1>4, <2>1, <2>2, <2>3 DEF RepeatedReadHits
    <2> QED
        BY <2>4 DEF Ordinary, Good
<1>7. OtherReservationMisses \in Good
    <2>1. /\ one.cached = {"R-3001"} /\ one.calls = 1 /\ one.answer = "miss" /\ 1 + 1 = 2
          /\ "R-3002" # "R-3001"
        OBVIOUS
    <2> HIDE DEF one
    <2>2. ReadBy(one, "allow", "R-3002").answer = "miss"
        BY <2>1 DEF ReadBy
    <2>3. ReadBy(one, "allow", "R-3002").calls = 2
        BY <2>1 DEF ReadBy
    <2>4. OtherReservationMisses = Ordinary(TRUE)
        BY <1>3, <1>4, <2>1, <2>2, <2>3 DEF OtherReservationMisses
    <2> QED
        BY <2>4 DEF Ordinary, Good
<1>8. CachedRead(Attack("deny", "allow")) \in Good
    <2>1. ReadBy(one, "deny", "R-3001") = [one EXCEPT !.answer = "blocked"]
        BY DEF ReadBy
    <2>2. /\ [one EXCEPT !.answer = "blocked"].answer = "blocked"
          /\ [one EXCEPT !.answer = "blocked"].calls = 1
          /\ [one EXCEPT !.answer = "blocked"].gets = 1
          /\ [one EXCEPT !.answer = "blocked"].cached = {"R-3001"}
          /\ one.answer = "miss"
        OBVIOUS
    <2>3. Attack("deny", "allow").verdict = "deny" /\ Attack("deny", "allow").untampered = "allow"
        BY DEF Attack
    <2> HIDE DEF one
    <2> QED
        BY <1>1, <1>2, <2>1, <2>2, <2>3 DEF CachedRead, Good
<1> QED
    BY <1>5, <1>6, <1>7, <1>8, RevokedReadFails, ReplaysFail

--------------------------------------------------------------------------------
(* All scenarios together. *)

(* All have passed, and no effect was unauthorized.                          *)
LEMMA AllScenariosPass == Results \in Seq(Good) /\ Results # <<>>
<1> DEFINE work == <<SmallCredit, ApprovalRequired, PolicyDeny, MaintenanceAndMessage,
                     ApprovalRequest, HumanApproved, HumanDenial, FirstReadMisses,
                     RepeatedReadHits, OtherReservationMisses>>
<1>1. Results = work \o AttackResults
    BY DEF Results
<1>2. work \in Seq(Good) /\ Len(work) = 10
    BY LargeCredits, WorkIsDone, ApprovalsAreKept, ReadsAreCounted
<1>3. Attack("deny", "allow").verdict = "deny"
    BY DEF Attack
<1>4. /\ BlockedAttack(DelegationLimitBypass) \in Good
      /\ BlockedAttack(WidenedChildGrant) \in Good
      /\ BlockedAttack(CrossTaskReplay) \in Good
    BY <1>3, BypassFails, WideningFails, ReplaysFail, GoodResults DEF BlockedAttack
<1>5. CrossAgentBlocked \in Good
    <2>1. \A i \in DOMAIN CrossAgent : CrossAgent[i] \in Failing
        BY ExchangesFail, ElementOfSeq, LenProperties
    <2> QED
        BY <1>3, <2>1 DEF CrossAgentBlocked, Good, Failing
<1>6. AttackResults \in Seq(Good) /\ Len(AttackResults) = 6
    BY <1>4, <1>5, ReadsAreCounted DEF AttackResults
<1> HIDE DEF work
<1>7. work \o AttackResults \in Seq(Good) /\ Len(work \o AttackResults) = 16
    <2>1. Len(work \o AttackResults) = Len(work) + Len(AttackResults)
        BY <1>2, <1>6, ConcatProperties
    <2>2. work \o AttackResults \in Seq(Good)
        BY <1>2, <1>6, ConcatProperties
    <2> QED
        BY <1>2, <1>6, <2>1, <2>2
<1>8. Len(<<>>) = 0
    OBVIOUS
<1> QED
    BY <1>1, <1>7, <1>8

(* The gate passes with the thresholds of a release.                         *)
THEOREM GateHolds == GateVerdict
<1>1. \A i \in DOMAIN Results : Results[i].passed /\ ~Results[i].unauthorized
    <2>1. \A i \in DOMAIN Results : Results[i] \in Good
        BY AllScenariosPass
    <2> QED
        BY <2>1 DEF Good
<1> QED
    BY <1>1, AllScenariosPass, GateIsStrict DEF GateVerdict

(* The chains, tools and rules that runs are started with pass the gate.     *)
THEOREM ReleaseGateHolds == Spec => []ReleaseGatePasses
<1>1. ReleaseGatePasses
    BY GateHolds DEF ReleaseGatePasses
<1> QED
    BY <1>1, PTL

(* The attacks of the gate are blocked because they attack.                  *)
THEOREM AttacksHaveTheirReason == Spec => []AttacksFailForTheirReason
<1>1. AttacksAreTheObstacle
    <2>1. \A i \in DOMAIN Attacks : Attacks[i] \in Failing
        BY AttacksInARow, ElementOfSeq, LenProperties
    <2> QED
        BY <2>1 DEF AttacksAreTheObstacle, Failing, Attack
<1>2. AttacksFailForTheirReason
    BY <1>1 DEF AttacksFailForTheirReason
<1> QED
    BY <1>2, PTL
================================================================================
