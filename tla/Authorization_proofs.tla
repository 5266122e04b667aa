-------------------------- MODULE Authorization_proofs --------------------------
(***************************************************************************)
(* Proofs about Authorization, for every task, every amount and every set  *)
(* of grants that have ended: when a chain the application issues holds,   *)
(* what the policy answers, and so what each workload may do.              *)
(***************************************************************************)
EXTENDS Authorization, TLAPS

--------------------------------------------------------------------------------
(* Chains. *)

(* The parts of a grant.                                                     *)
LEMMA GrantParts ==
    ASSUME NEW id, NEW grantor, NEW grantee, NEW task, NEW scope
    PROVE  /\ Grant(id, grantor, grantee, task, scope).id = id
           /\ Grant(id, grantor, grantee, task, scope).grantor = grantor
           /\ Grant(id, grantor, grantee, task, scope).grantee = grantee
           /\ Grant(id, grantor, grantee, task, scope).task = task.id
           /\ Grant(id, grantor, grantee, task, scope).scope = scope
BY DEF Grant

(* A chain the supervisor passes on to a specialist holds for a request      *)
(* exactly if the request is of that specialist, in that task of that human, *)
(* neither grant has ended, both scopes cover the request and the second is  *)
(* within the first.                                                         *)
LEMMA IssuedChainValidFor ==
    ASSUME NEW task, NEW name, NEW workload \in Workloads, NEW rootScope, NEW childScope,
           NEW request, NEW revoked
    PROVE  ChainValid(IssueChain(task, name, workload, rootScope, childScope), request, revoked)
               <=> /\ request.task.id = task.id
                   /\ request.task.initiated_by = task.initiated_by
                   /\ request.principal = Identity[workload]
                   /\ <<task.id, name, 1>> \notin revoked
                   /\ <<task.id, name, 2>> \notin revoked
                   /\ Covers(rootScope, request) /\ Covers(childScope, request)
                   /\ Within(childScope, rootScope)
<1> DEFINE chain == IssueChain(task, name, workload, rootScope, childScope)
           holds == /\ request.task.id = task.id
                    /\ request.task.initiated_by = task.initiated_by
                    /\ request.principal = Identity[workload]
                    /\ <<task.id, name, 1>> \notin revoked
                    /\ <<task.id, name, 2>> \notin revoked
                    /\ Covers(rootScope, request) /\ Covers(childScope, request)
                    /\ Within(childScope, rootScope)
<1>1. DOMAIN chain = {1, 2} /\ Len(chain) = 2 /\ 1..(Len(chain) - 1) = {1}
    BY DEF IssueChain
<1>2. /\ chain[1] = Grant(<<task.id, name, 1>>, task.initiated_by, Identity["supervisor"],
                          task, rootScope)
      /\ chain[2] = Grant(<<task.id, name, 2>>, Identity["supervisor"], Identity[workload],
                          task, childScope)
    BY DEF IssueChain
<1>3. /\ chain[1].id = <<task.id, name, 1>> /\ chain[2].id = <<task.id, name, 2>>
      /\ chain[1].task = task.id /\ chain[2].task = task.id
      /\ chain[1].grantor = task.initiated_by /\ chain[2].grantee = Identity[workload]
      /\ chain[2].grantor = chain[1].grantee
      /\ chain[1].scope = rootScope /\ chain[2].scope = childScope
    BY <1>2, GrantParts
<1> HIDE DEF chain
<1>4. 1 + 1 = 2 /\ chain[Len(chain)] = chain[2]
    BY <1>1
<1>5. /\ \A i \in DOMAIN chain : i = 1 \/ i = 2
      /\ 1 \in DOMAIN chain /\ 2 \in DOMAIN chain
      /\ \A i \in 1..(Len(chain) - 1) : i = 1
      /\ 1 \in 1..(Len(chain) - 1)
    BY <1>1
<1>6. ASSUME ChainValid(chain, request, revoked) PROVE holds
    BY <1>3, <1>4, <1>5, <1>6 DEF ChainValid
<1>7. ASSUME holds PROVE ChainValid(chain, request, revoked)
    <2>1. \A i \in DOMAIN chain :
              /\ chain[i].task = request.task.id
              /\ chain[i].id \notin revoked
              /\ Covers(chain[i].scope, request)
        BY <1>3, <1>5, <1>7
    <2>2. \A i \in 1..(Len(chain) - 1) :
              /\ chain[i + 1].grantor = chain[i].grantee
              /\ Within(chain[i + 1].scope, chain[i].scope)
        BY <1>3, <1>4, <1>5, <1>7
    <2>3. /\ chain[1].grantor = request.task.initiated_by
          /\ chain[Len(chain)].grantee = request.principal
        BY <1>3, <1>4, <1>7
    <2> QED
        BY <2>1, <2>2, <2>3 DEF ChainValid
<1> QED
    BY <1>6, <1>7 DEF chain

(* The same for a request of that specialist in that task.                   *)
LEMMA IssuedChainValid ==
    ASSUME NEW task, NEW name, NEW workload \in Workloads, NEW rootScope, NEW childScope,
           NEW action, NEW amount, NEW tool, NEW revoked
    PROVE  LET request == Request(workload, task, action, amount, tool) IN
           ChainValid(IssueChain(task, name, workload, rootScope, childScope), request, revoked)
               <=> /\ <<task.id, name, 1>> \notin revoked
                   /\ <<task.id, name, 2>> \notin revoked
                   /\ Covers(rootScope, request) /\ Covers(childScope, request)
                   /\ Within(childScope, rootScope)
<1> DEFINE request == Request(workload, task, action, amount, tool)
<1>1. request.task = task /\ request.principal = Identity[workload]
    BY DEF Request
<1> HIDE DEF request
<1>2. ChainValid(IssueChain(task, name, workload, rootScope, childScope), request, revoked)
          <=> /\ <<task.id, name, 1>> \notin revoked
              /\ <<task.id, name, 2>> \notin revoked
              /\ Covers(rootScope, request) /\ Covers(childScope, request)
              /\ Within(childScope, rootScope)
    BY <1>1, IssuedChainValidFor
<1> QED
    BY <1>2 DEF request

(* The executor's chain is one grant of the human.                           *)
LEMMA ExecutorChainValid ==
    ASSUME NEW task, NEW limit, NEW action, NEW amount, NEW tool, NEW revoked
    PROVE  LET request == Request("approval-executor", task, action, amount, tool) IN
           ChainValid(ApprovalExecutor(task, limit), request, revoked)
               <=> /\ <<task.id, "approved_credit", 1>> \notin revoked
                   /\ Covers(ApprovedCreditScope(limit), request)
<1> DEFINE request == Request("approval-executor", task, action, amount, tool)
           chain == ApprovalExecutor(task, limit)
<1>1. DOMAIN chain = {1} /\ Len(chain) = 1 /\ 1..(Len(chain) - 1) = {}
    BY DEF ApprovalExecutor
<1>2. chain[1] = Grant(<<task.id, "approved_credit", 1>>, task.initiated_by,
                       Identity["approval-executor"], task, ApprovedCreditScope(limit))
    BY DEF ApprovalExecutor
<1> HIDE DEF chain
<1>3. /\ chain[1].id = <<task.id, "approved_credit", 1>> /\ chain[1].task = task.id
      /\ chain[1].grantor = task.initiated_by
      /\ chain[1].grantee = Identity["approval-executor"]
      /\ chain[1].scope = ApprovedCreditScope(limit)
    BY <1>2 DEF Grant
<1>4. request.task = task /\ request.principal = Identity["approval-executor"]
    BY DEF Request
<1> HIDE DEF request
<1>5. /\ \A i \in DOMAIN chain : i = 1
      /\ 1 \in DOMAIN chain /\ chain[Len(chain)] = chain[1]
    BY <1>1
<1>6. ChainValid(chain, request, revoked)
          <=> /\ <<task.id, "approved_credit", 1>> \notin revoked
              /\ Covers(ApprovedCreditScope(limit), request)
    BY <1>1, <1>3, <1>4, <1>5 DEF ChainValid
<1> QED
    BY <1>6 DEF chain, request

(* A scope with one bound covers what it names up to the bound.              *)
LEMMA BoundedScope ==
    ASSUME NEW workload, NEW task, NEW action, NEW amount, NEW tool, NEW limit
    PROVE  Covers(Scope(action, {limit}), Request(workload, task, action, amount, tool))
               <=> amount <= limit
BY DEF Covers, Scope, Request

LEMMA UnboundedScope ==
    ASSUME NEW workload, NEW task, NEW action, NEW amount, NEW tool
    PROVE  /\ Covers(Scope(action, {}), Request(workload, task, action, amount, tool))
           /\ Within(Scope(action, {}), Scope(action, {}))
BY DEF Covers, Scope, Request, Within

LEMMA NarrowerScope ==
    ASSUME NEW action, NEW low \in Int, NEW high \in Int, low <= high
    PROVE  Within(Scope(action, {low}), Scope(action, {high}))
BY DEF Within, Scope

--------------------------------------------------------------------------------
(* Policy. *)

(* No two workloads have one identity.                                       *)
LEMMA DistinctIdentities ==
    ASSUME NEW v \in Workloads, NEW w \in Workloads, Identity[v] = Identity[w]
    PROVE  v = w
BY DEF Identity, Workloads

(* The rules that match a request are about its action.                      *)
LEMMA MatchingRules ==
    ASSUME NEW workload \in Workloads, NEW task, NEW action, NEW amount \in Int, NEW tool
    PROVE  LET request == Request(workload, task, action, amount, tool) IN
           \A i \in 1..7 : i \in Matching(request) <=>
               \/ i = 1 /\ action = "reservation.read" /\ workload = "reservations"
               \/ i = 2 /\ action = "maintenance.create" /\ workload = "property-operations"
               \/ i = 3 /\ action = "guest.message.send" /\ workload = "guest-support"
               \/ /\ i = 4 /\ action = "guest.credit.request" /\ workload = "service-recovery"
                  /\ Dollars(25) < amount /\ amount <= Dollars(100)
               \/ /\ i = 5 /\ action = "guest.credit.issue" /\ workload = "service-recovery"
                  /\ 0 < amount /\ amount <= Dollars(25)
               \/ /\ i = 6 /\ action = "guest.credit.issue" /\ workload = "service-recovery"
                  /\ 0 < amount /\ amount <= Dollars(100)
               \/ /\ i = 7 /\ action = "guest.credit.issue.approved"
                  /\ workload = "approval-executor"
                  /\ 0 < amount /\ amount <= Dollars(100)
<1> DEFINE request == Request(workload, task, action, amount, tool)
<1>1. /\ request.action = action /\ request.amount = amount
      /\ request.principal = Identity[workload]
    BY DEF Request
<1>2. DOMAIN Policies = 1..7
    BY DEF Policies
<1>3. ASSUME NEW effect, NEW a, NEW w \in Workloads, NEW bands
      PROVE  Matches(Rule(effect, a, w, bands), request) <=>
                 /\ a = action /\ w = workload
                 /\ \A b \in bands : b[1] < amount /\ amount <= b[2]
    BY <1>1, DistinctIdentities DEF Matches, Rule
<1>4. ASSUME NEW effect, NEW a, NEW w \in Workloads, NEW low \in Int, NEW high \in Int
      PROVE  Matches(Rule(effect, a, w, {<<low, high>>}), request) <=>
                 a = action /\ w = workload /\ low < amount /\ amount <= high
    <2>1. (\A b \in {<<low, high>>} : b[1] < amount /\ amount <= b[2])
              <=> low < amount /\ amount <= high
        OBVIOUS
    <2>2. Matches(Rule(effect, a, w, {<<low, high>>}), request) <=>
              /\ a = action /\ w = workload
              /\ \A b \in {<<low, high>>} : b[1] < amount /\ amount <= b[2]
        BY <1>3, Zenon
    <2> QED
        BY <2>1, <2>2, Zenon
<1> HIDE DEF request
<1>a. /\ Policies[1] = Rule("allow", "reservation.read", "reservations", {})
      /\ Policies[2] = Rule("allow", "maintenance.create", "property-operations", {})
      /\ Policies[3] = Rule("allow", "guest.message.send", "guest-support", {})
    BY DEF Policies, NoCondition
<1>b. /\ Policies[4] = Rule("allow", "guest.credit.request", "service-recovery",
                           {<<Dollars(25), Dollars(100)>>})
      /\ Policies[5] = Rule("allow", "guest.credit.issue", "service-recovery",
                           {<<0, Dollars(25)>>})
      /\ Policies[6] = Rule("require_approval", "guest.credit.issue", "service-recovery",
                           {<<0, Dollars(100)>>})
      /\ Policies[7] = Rule("allow", "guest.credit.issue.approved", "approval-executor",
                           {<<0, Dollars(100)>>})
    BY DEF Policies, CreditRequestBetween, CreditAtMost, VerifiedApprovedCredit
<1>c. Dollars(25) \in Int /\ Dollars(100) \in Int
    BY DEF Dollars
<1>5. Matches(Policies[1], request)
          <=> /\ action = "reservation.read" /\ workload = "reservations"
    <2>1. Matches(Rule("allow", "reservation.read", "reservations",
                       {}), request)
              <=> "reservation.read" = action /\ "reservations" = workload
        <3>1. "reservations" \in Workloads
            BY DEF Workloads
        <3> QED
            BY <1>3, <3>1
    <2> QED
        BY <1>a, <2>1
<1>6. Matches(Policies[2], request)
          <=> /\ action = "maintenance.create" /\ workload = "property-operations"
    <2>1. Matches(Rule("allow", "maintenance.create", "property-operations",
                       {}), request)
              <=> "maintenance.create" = action /\ "property-operations" = workload
        <3>1. "property-operations" \in Workloads
            BY DEF Workloads
        <3> QED
            BY <1>3, <3>1
    <2> QED
        BY <1>a, <2>1
<1>7. Matches(Policies[3], request)
          <=> /\ action = "guest.message.send" /\ workload = "guest-support"
    <2>1. Matches(Rule("allow", "guest.message.send", "guest-support",
                       {}), request)
              <=> "guest.message.send" = action /\ "guest-support" = workload
        <3>1. "guest-support" \in Workloads
            BY DEF Workloads
        <3> QED
            BY <1>3, <3>1
    <2> QED
        BY <1>a, <2>1
<1>8. Matches(Policies[4], request)
          <=> /\ action = "guest.credit.request" /\ workload = "service-recovery"
              /\ Dollars(25) < amount /\ amount <= Dollars(100)
    <2>1. Matches(Rule("allow", "guest.credit.request", "service-recovery",
                       {<<Dollars(25), Dollars(100)>>}), request)
              <=> "guest.credit.request" = action /\ "service-recovery" = workload /\ Dollars(25) < amount /\ amount <= Dollars(100)
        <3>1. "service-recovery" \in Workloads
            BY DEF Workloads
        <3> QED
            BY <1>4, <1>c, <3>1
    <2> QED
        BY <1>b, <2>1
<1>9. Matches(Policies[5], request)
          <=> /\ action = "guest.credit.issue" /\ workload = "service-recovery"
              /\ 0 < amount /\ amount <= Dollars(25)
    <2>1. Matches(Rule("allow", "guest.credit.issue", "service-recovery",
                       {<<0, Dollars(25)>>}), request)
              <=> "guest.credit.issue" = action /\ "service-recovery" = workload /\ 0 < amount /\ amount <= Dollars(25)
        <3>1. "service-recovery" \in Workloads
            BY DEF Workloads
        <3> QED
            BY <1>4, <1>c, <3>1
    <2> QED
        BY <1>b, <2>1
<1>10. Matches(Policies[6], request)
          <=> /\ action = "guest.credit.issue" /\ workload = "service-recovery"
              /\ 0 < amount /\ amount <= Dollars(100)
    <2>1. Matches(Rule("require_approval", "guest.credit.issue", "service-recovery",
                       {<<0, Dollars(100)>>}), request)
              <=> "guest.credit.issue" = action /\ "service-recovery" = workload /\ 0 < amount /\ amount <= Dollars(100)
        <3>1. "service-recovery" \in Workloads
            BY DEF Workloads
        <3> QED
            BY <1>4, <1>c, <3>1
    <2> QED
        BY <1>b, <2>1
<1>11. Matches(Policies[7], request)
          <=> /\ action = "guest.credit.issue.approved" /\ workload = "approval-executor"
              /\ 0 < amount /\ amount <= Dollars(100)
    <2>1. Matches(Rule("allow", "guest.credit.issue.approved", "approval-executor",
                       {<<0, Dollars(100)>>}), request)
              <=> "guest.credit.issue.approved" = action /\ "approval-executor" = workload /\ 0 < amount /\ amount <= Dollars(100)
        <3>1. "approval-executor" \in Workloads
            BY DEF Workloads
        <3> QED
            BY <1>4, <1>c, <3>1
    <2> QED
        BY <1>b, <2>1
<1>12. \A i \in 1..7 : i \in Matching(request) <=> Matches(Policies[i], request)
    BY <1>2 DEF Matching
<1>13. \A i \in 1..7 : i = 1 \/ i = 2 \/ i = 3 \/ i = 4 \/ i = 5 \/ i = 6 \/ i = 7
    OBVIOUS
<1> QED
    BY <1>5, <1>6, <1>7, <1>8, <1>9, <1>10, <1>11, <1>12, <1>13 DEF request

(* The first rule that matches decides.                                      *)
LEMMA FirstRuleDecides ==
    ASSUME NEW request, NEW i \in Matching(request), \A j \in Matching(request) : i <= j
    PROVE  PolicyEffect(request) = Policies[i].effect
<1> DEFINE first == CHOOSE k \in Matching(request) : \A j \in Matching(request) : k <= j
<1>1. Matching(request) \subseteq 1..7
    BY DEF Matching, Policies
<1>2. first \in Matching(request) /\ \A j \in Matching(request) : first <= j
    BY Zenon
<1> HIDE DEF first
<1>3. first = i
    BY <1>1, <1>2
<1>4. Matching(request) # {}
    OBVIOUS
<1> QED
    BY <1>3, <1>4, Zenon DEF PolicyEffect, first

(* The effects of the rules.                                                 *)
LEMMA Effects ==
    /\ \A i \in 1..7 : (Policies[i].effect = "allow") <=> i # 6
    /\ \A request : Matching(request) \subseteq 1..7
<1>1. \A effect, action, workload, bands : Rule(effect, action, workload, bands).effect = effect
    BY DEF Rule
<1>2. /\ Policies[1].effect = "allow" /\ Policies[2].effect = "allow"
      /\ Policies[3].effect = "allow" /\ Policies[4].effect = "allow"
      /\ Policies[5].effect = "allow" /\ Policies[6].effect = "require_approval"
      /\ Policies[7].effect = "allow"
    BY <1>1 DEF Policies
<1>3. \A i \in 1..7 : i = 1 \/ i = 2 \/ i = 3 \/ i = 4 \/ i = 5 \/ i = 6 \/ i = 7
    OBVIOUS
<1> QED
    BY <1>2, <1>3 DEF Matching, Policies

(* What the policy allows: the credit rule for small amounts comes before    *)
(* the one that asks for approval, and no other action has two rules.        *)
LEMMA PolicyAllows ==
    ASSUME NEW workload \in Workloads, NEW task, NEW action, NEW amount \in Int, NEW tool
    PROVE  (PolicyEffect(Request(workload, task, action, amount, tool)) = "allow") <=>
               \/ action = "reservation.read" /\ workload = "reservations"
               \/ action = "maintenance.create" /\ workload = "property-operations"
               \/ action = "guest.message.send" /\ workload = "guest-support"
               \/ /\ action = "guest.credit.request" /\ workload = "service-recovery"
                  /\ Dollars(25) < amount /\ amount <= Dollars(100)
               \/ /\ action = "guest.credit.issue" /\ workload = "service-recovery"
                  /\ 0 < amount /\ amount <= Dollars(25)
               \/ /\ action = "guest.credit.issue.approved" /\ workload = "approval-executor"
                  /\ 0 < amount /\ amount <= Dollars(100)
<1> DEFINE request == Request(workload, task, action, amount, tool)
           M == Matching(request)
<1>1. \A i \in 1..7 : i \in M <=>
          \/ i = 1 /\ action = "reservation.read" /\ workload = "reservations"
          \/ i = 2 /\ action = "maintenance.create" /\ workload = "property-operations"
          \/ i = 3 /\ action = "guest.message.send" /\ workload = "guest-support"
          \/ /\ i = 4 /\ action = "guest.credit.request" /\ workload = "service-recovery"
             /\ Dollars(25) < amount /\ amount <= Dollars(100)
          \/ /\ i = 5 /\ action = "guest.credit.issue" /\ workload = "service-recovery"
             /\ 0 < amount /\ amount <= Dollars(25)
          \/ /\ i = 6 /\ action = "guest.credit.issue" /\ workload = "service-recovery"
             /\ 0 < amount /\ amount <= Dollars(100)
          \/ /\ i = 7 /\ action = "guest.credit.issue.approved"
             /\ workload = "approval-executor"
             /\ 0 < amount /\ amount <= Dollars(100)
    BY MatchingRules
<1>2. M \subseteq 1..7
    BY Effects
<1>3. ASSUME NEW i \in M, \A j \in M : i <= j
      PROVE  (PolicyEffect(request) = "allow") <=> i # 6
    BY <1>2, <1>3, FirstRuleDecides, Effects
<1>4. CASE M = {}
    <2>1. PolicyEffect(request) = "deny"
        BY <1>4 DEF PolicyEffect
    <2>2. "deny" # "allow" /\ \A i \in 1..7 : i \notin M
        BY <1>4
    <2>3. 1 \in 1..7 /\ 2 \in 1..7 /\ 3 \in 1..7 /\ 4 \in 1..7 /\ 5 \in 1..7 /\ 7 \in 1..7
        OBVIOUS
    <2> HIDE DEF request, M
    <2> QED
        BY <1>1, <2>1, <2>2, <2>3 DEF request
<1>5. CASE M # {}
    <2>1. PICK k \in M : TRUE
        BY <1>5
    <2>2. Dollars(25) = 25000 /\ Dollars(100) = 100000
        BY DEF Dollars
    <2> HIDE DEF request, M
    <2>3. CASE k # 5 /\ k # 6
        <3>1. \A j \in M : k <= j
            BY <1>1, <1>2, <2>1, <2>3
        <3> QED
            BY <1>1, <1>2, <1>3, <2>1, <2>3, <3>1 DEF request
    <2>4. CASE 5 \in M
        <3>1. \A j \in M : 5 <= j
            BY <1>1, <1>2, <2>4
        <3> QED
            BY <1>1, <1>2, <1>3, <2>4, <3>1 DEF request
    <2>5. CASE k = 6 /\ 5 \notin M
        <3>1. \A j \in M : 6 <= j
            BY <1>1, <1>2, <2>5
        <3>2. PolicyEffect(request) # "allow"
            BY <1>3, <2>1, <2>5, <3>1
        <3>3. /\ action = "guest.credit.issue" /\ workload = "service-recovery"
              /\ ~(0 < amount /\ amount <= Dollars(25))
            BY <1>1, <1>2, <2>1, <2>5
        <3> QED
            BY <3>2, <3>3 DEF request
    <2> QED
        BY <2>1, <2>3, <2>4, <2>5
<1> QED
    BY <1>4, <1>5

--------------------------------------------------------------------------------
(* Decisions. *)

(* What the tools are registered for.                                        *)
LEMMA RegisteredActions ==
    /\ "guest.credit.issue" \in ToolActions["asante.guest-credit"]
    /\ "reservation.read" \in ToolActions["asante.reservation-reader"]
    /\ "maintenance.create" \in ToolActions["asante.guest-operations"]
    /\ "guest.message.send" \in ToolActions["asante.guest-operations"]
    /\ "guest.credit.request" \in ToolActions["asante.guest-operations"]
    /\ "guest.credit.issue.approved" \in ToolActions["asante.approved-credit"]
BY DEF ToolActions

(* The service recovery specialist may issue a credit by itself exactly if   *)
(* both grants are alive and the amount is positive, within its limit and at *)
(* most 25 dollars: whatever the limits of the chain are, as long as the     *)
(* specialist's is not above the supervisor's.                               *)
THEOREM AutomaticBand ==
    ASSUME NEW task, NEW revoked, NEW amount \in Int,
           NEW supervisorLimit \in Int, NEW recoveryLimit \in Int,
           LimitsAccepted(supervisorLimit, recoveryLimit)
    PROVE  Allowed(Request("service-recovery", task, "guest.credit.issue", amount,
                           "asante.guest-credit"),
                   ServiceRecovery(task, supervisorLimit, recoveryLimit), revoked)
               <=> /\ <<task.id, "credit", 1>> \notin revoked
                   /\ <<task.id, "credit", 2>> \notin revoked
                   /\ 0 < amount /\ amount <= recoveryLimit /\ amount <= Dollars(25)
<1> DEFINE request == Request("service-recovery", task, "guest.credit.issue", amount,
                              "asante.guest-credit")
           chain == ServiceRecovery(task, supervisorLimit, recoveryLimit)
<1>1. "service-recovery" \in Workloads
    BY DEF Workloads
<1>2. recoveryLimit <= supervisorLimit
    BY DEF LimitsAccepted
<1>3. /\ Covers(CreditScope(supervisorLimit), request) <=> amount <= supervisorLimit
      /\ Covers(CreditScope(recoveryLimit), request) <=> amount <= recoveryLimit
      /\ Within(CreditScope(recoveryLimit), CreditScope(supervisorLimit))
    BY <1>2, BoundedScope, NarrowerScope DEF CreditScope
<1>4. ChainValid(chain, request, revoked)
          <=> /\ <<task.id, "credit", 1>> \notin revoked
              /\ <<task.id, "credit", 2>> \notin revoked
              /\ Covers(CreditScope(supervisorLimit), request)
              /\ Covers(CreditScope(recoveryLimit), request)
              /\ Within(CreditScope(recoveryLimit), CreditScope(supervisorLimit))
    BY <1>1, IssuedChainValid DEF ServiceRecovery
<1>5. (PolicyEffect(request) = "allow") <=> 0 < amount /\ amount <= Dollars(25)
    BY <1>1, PolicyAllows
<1>6. request.action \in ToolActions[request.tool]
    BY RegisteredActions DEF Request
<1> HIDE DEF request, chain
<1>7. Allowed(request, chain, revoked)
          <=> ChainValid(chain, request, revoked) /\ PolicyEffect(request) = "allow"
    BY <1>6 DEF Allowed, Authorize
<1>8. amount <= recoveryLimit => amount <= supervisorLimit
    BY <1>2
<1>9. Allowed(request, chain, revoked)
          <=> /\ <<task.id, "credit", 1>> \notin revoked
              /\ <<task.id, "credit", 2>> \notin revoked
              /\ 0 < amount /\ amount <= recoveryLimit /\ amount <= Dollars(25)
    BY <1>3, <1>4, <1>5, <1>7, <1>8, Zenon
<1> QED
    BY <1>9 DEF request, chain

(* The specialist may request a credit exactly if both grants are alive and  *)
(* the amount is within the delegated limit, above 25 and at most 100        *)
(* dollars.                                                                  *)
THEOREM RequestBand ==
    ASSUME NEW task, NEW revoked, NEW amount \in Int, NEW limit \in Int
    PROVE  Allowed(Request("service-recovery", task, "guest.credit.request", amount,
                           "asante.guest-operations"),
                   ServiceRecoveryCreditRequest(task, limit), revoked)
               <=> /\ <<task.id, "credit_request", 1>> \notin revoked
                   /\ <<task.id, "credit_request", 2>> \notin revoked
                   /\ Dollars(25) < amount /\ amount <= limit /\ amount <= Dollars(100)
<1> DEFINE request == Request("service-recovery", task, "guest.credit.request", amount,
                              "asante.guest-operations")
           chain == ServiceRecoveryCreditRequest(task, limit)
<1>1. "service-recovery" \in Workloads
    BY DEF Workloads
<1>2. /\ Covers(CreditRequestScope(limit), request) <=> amount <= limit
      /\ Within(CreditRequestScope(limit), CreditRequestScope(limit))
    BY BoundedScope, NarrowerScope DEF CreditRequestScope
<1>3. ChainValid(chain, request, revoked)
          <=> /\ <<task.id, "credit_request", 1>> \notin revoked
              /\ <<task.id, "credit_request", 2>> \notin revoked
              /\ Covers(CreditRequestScope(limit), request)
              /\ Within(CreditRequestScope(limit), CreditRequestScope(limit))
    BY <1>1, IssuedChainValid DEF ServiceRecoveryCreditRequest, IssueSpecialistChain
<1>4. (PolicyEffect(request) = "allow") <=> Dollars(25) < amount /\ amount <= Dollars(100)
    BY <1>1, PolicyAllows
<1>5. request.action \in ToolActions[request.tool]
    BY RegisteredActions DEF Request
<1> HIDE DEF request, chain
<1>6. Allowed(request, chain, revoked)
          <=> ChainValid(chain, request, revoked) /\ PolicyEffect(request) = "allow"
    BY <1>5 DEF Allowed, Authorize
<1>7. Allowed(request, chain, revoked)
          <=> /\ <<task.id, "credit_request", 1>> \notin revoked
              /\ <<task.id, "credit_request", 2>> \notin revoked
              /\ Dollars(25) < amount /\ amount <= limit /\ amount <= Dollars(100)
    BY <1>2, <1>3, <1>4, <1>6, Zenon
<1> QED
    BY <1>7 DEF request, chain

(* The executor may issue an approved credit exactly if its grant is alive   *)
(* and the amount is positive, within the delegated limit and at most 100    *)
(* dollars.                                                                  *)
THEOREM ApprovedBand ==
    ASSUME NEW task, NEW revoked, NEW amount \in Int, NEW limit \in Int
    PROVE  Allowed(Request("approval-executor", task, "guest.credit.issue.approved", amount,
                           "asante.approved-credit"),
                   ApprovalExecutor(task, limit), revoked)
               <=> /\ <<task.id, "approved_credit", 1>> \notin revoked
                   /\ 0 < amount /\ amount <= limit /\ amount <= Dollars(100)
<1> DEFINE request == Request("approval-executor", task, "guest.credit.issue.approved",
                              amount, "asante.approved-credit")
           chain == ApprovalExecutor(task, limit)
<1>1. "approval-executor" \in Workloads
    BY DEF Workloads
<1>2. Covers(ApprovedCreditScope(limit), request) <=> amount <= limit
    BY BoundedScope DEF ApprovedCreditScope
<1>3. ChainValid(chain, request, revoked)
          <=> /\ <<task.id, "approved_credit", 1>> \notin revoked
              /\ Covers(ApprovedCreditScope(limit), request)
    BY ExecutorChainValid
<1>4. (PolicyEffect(request) = "allow") <=> 0 < amount /\ amount <= Dollars(100)
    BY <1>1, PolicyAllows
<1>5. request.action \in ToolActions[request.tool]
    BY RegisteredActions DEF Request
<1> HIDE DEF request, chain
<1>6. Allowed(request, chain, revoked)
          <=> ChainValid(chain, request, revoked) /\ PolicyEffect(request) = "allow"
    BY <1>5 DEF Allowed, Authorize
<1>7. Allowed(request, chain, revoked)
          <=> /\ <<task.id, "approved_credit", 1>> \notin revoked
              /\ 0 < amount /\ amount <= limit /\ amount <= Dollars(100)
    BY <1>2, <1>3, <1>4, <1>6, Zenon
<1> QED
    BY <1>7 DEF request, chain

(* The other specialists may do their one thing as long as their grants are  *)
(* alive: the amount, which they do not have, does not matter.               *)
LEMMA UnboundedSpecialist ==
    ASSUME NEW task, NEW revoked, NEW amount \in Int, NEW workload \in Workloads, NEW name,
           NEW action, NEW tool, action \in ToolActions[tool],
           \/ action = "reservation.read" /\ workload = "reservations"
           \/ action = "maintenance.create" /\ workload = "property-operations"
           \/ action = "guest.message.send" /\ workload = "guest-support"
    PROVE  Allowed(Request(workload, task, action, amount, tool),
                   IssueSpecialistChain(task, name, workload, Scope(action, {})), revoked)
               <=> /\ <<task.id, name, 1>> \notin revoked
                   /\ <<task.id, name, 2>> \notin revoked
<1> DEFINE request == Request(workload, task, action, amount, tool)
           chain == IssueSpecialistChain(task, name, workload, Scope(action, {}))
<1>1. Covers(Scope(action, {}), request) /\ Within(Scope(action, {}), Scope(action, {}))
    BY UnboundedScope
<1>2. ChainValid(chain, request, revoked)
          <=> /\ <<task.id, name, 1>> \notin revoked
              /\ <<task.id, name, 2>> \notin revoked
              /\ Covers(Scope(action, {}), request)
              /\ Within(Scope(action, {}), Scope(action, {}))
    BY IssuedChainValid DEF IssueSpecialistChain
<1>3. PolicyEffect(request) = "allow"
    BY PolicyAllows
<1>4. request.action \in ToolActions[request.tool]
    BY DEF Request
<1> HIDE DEF request, chain
<1>5. Allowed(request, chain, revoked) <=> ChainValid(chain, request, revoked)
    BY <1>3, <1>4 DEF Allowed, Authorize
<1> QED
    BY <1>1, <1>2, <1>5 DEF request, chain

(* Reservations, maintenance and messages, each with its own chain.          *)
THEOREM SpecialistBand ==
    ASSUME NEW task, NEW revoked, NEW amount \in Int
    PROVE  /\ Allowed(Request("reservations", task, "reservation.read", amount,
                              "asante.reservation-reader"), Reservations(task), revoked)
                  <=> /\ <<task.id, "reservations", 1>> \notin revoked
                      /\ <<task.id, "reservations", 2>> \notin revoked
           /\ Allowed(Request("property-operations", task, "maintenance.create", amount,
                              "asante.guest-operations"), PropertyOperations(task), revoked)
                  <=> /\ <<task.id, "maintenance", 1>> \notin revoked
                      /\ <<task.id, "maintenance", 2>> \notin revoked
           /\ Allowed(Request("guest-support", task, "guest.message.send", amount,
                              "asante.guest-operations"), GuestSupportMessage(task), revoked)
                  <=> /\ <<task.id, "message", 1>> \notin revoked
                      /\ <<task.id, "message", 2>> \notin revoked
<1>1. /\ "reservations" \in Workloads /\ "property-operations" \in Workloads
      /\ "guest-support" \in Workloads
    BY DEF Workloads
<1> QED
    BY <1>1, RegisteredActions, UnboundedSpecialist
       DEF Reservations, PropertyOperations, GuestSupportMessage,
           ReservationReadScope, MaintenanceScope, GuestMessageScope

(* The bands with the limits the application delegates.                      *)
LEMMA DefaultBands ==
    ASSUME NEW task, NEW revoked, NEW amount \in Int
    PROVE  /\ Allowed(Request("service-recovery", task, "guest.credit.issue", amount,
                              "asante.guest-credit"),
                      ServiceRecovery(task, SupervisorCreditLimit, ServiceRecoveryCreditLimit),
                      revoked)
                  <=> /\ <<task.id, "credit", 1>> \notin revoked
                      /\ <<task.id, "credit", 2>> \notin revoked
                      /\ 0 < amount /\ amount <= Dollars(25)
           /\ Allowed(Request("service-recovery", task, "guest.credit.request", amount,
                              "asante.guest-operations"),
                      ServiceRecoveryCreditRequest(task, ApprovalRequestLimit), revoked)
                  <=> /\ <<task.id, "credit_request", 1>> \notin revoked
                      /\ <<task.id, "credit_request", 2>> \notin revoked
                      /\ Dollars(25) < amount /\ amount <= Dollars(100)
           /\ Allowed(Request("approval-executor", task, "guest.credit.issue.approved", amount,
                              "asante.approved-credit"),
                      ApprovalExecutor(task, ApprovalRequestLimit), revoked)
                  <=> /\ <<task.id, "approved_credit", 1>> \notin revoked
                      /\ 0 < amount /\ amount <= Dollars(100)
<1>1. /\ ServiceRecoveryCreditLimit = Dollars(25) /\ SupervisorCreditLimit = Dollars(100)
      /\ ApprovalRequestLimit = Dollars(100)
    BY DEF ServiceRecoveryCreditLimit, SupervisorCreditLimit, ApprovalRequestLimit
<1>2. /\ Dollars(25) \in Int /\ Dollars(100) \in Int
      /\ LimitsAccepted(Dollars(100), Dollars(25))
    BY DEF Dollars, LimitsAccepted
<1>3. Allowed(Request("service-recovery", task, "guest.credit.issue", amount,
                      "asante.guest-credit"),
              ServiceRecovery(task, Dollars(100), Dollars(25)), revoked)
          <=> /\ <<task.id, "credit", 1>> \notin revoked
              /\ <<task.id, "credit", 2>> \notin revoked
              /\ 0 < amount /\ amount <= Dollars(25) /\ amount <= Dollars(25)
    BY <1>2, AutomaticBand
<1>4. Allowed(Request("service-recovery", task, "guest.credit.request", amount,
                      "asante.guest-operations"),
              ServiceRecoveryCreditRequest(task, Dollars(100)), revoked)
          <=> /\ <<task.id, "credit_request", 1>> \notin revoked
              /\ <<task.id, "credit_request", 2>> \notin revoked
              /\ Dollars(25) < amount /\ amount <= Dollars(100) /\ amount <= Dollars(100)
    BY <1>2, RequestBand
<1>5. Allowed(Request("approval-executor", task, "guest.credit.issue.approved", amount,
                      "asante.approved-credit"),
              ApprovalExecutor(task, Dollars(100)), revoked)
          <=> /\ <<task.id, "approved_credit", 1>> \notin revoked
              /\ 0 < amount /\ amount <= Dollars(100) /\ amount <= Dollars(100)
    BY <1>2, ApprovedBand
<1>6. /\ ServiceRecovery(task, SupervisorCreditLimit, ServiceRecoveryCreditLimit)
             = ServiceRecovery(task, Dollars(100), Dollars(25))
      /\ ServiceRecoveryCreditRequest(task, ApprovalRequestLimit)
             = ServiceRecoveryCreditRequest(task, Dollars(100))
      /\ ApprovalExecutor(task, ApprovalRequestLimit) = ApprovalExecutor(task, Dollars(100))
    BY <1>1
<1> QED
    BY <1>3, <1>4, <1>5, <1>6

--------------------------------------------------------------------------------
(* What a chain is good for, whoever presents it.                            *)

(* A chain the application issued lets through, or passes on to a human, no  *)
(* request but those of the specialist it was issued to, in that task, for   *)
(* that human, within both scopes, while both grants are alive: for every    *)
(* request there can be, the ones that forge, replay or exchange included.   *)
THEOREM OnlyTheDelegatedAct ==
    ASSUME NEW task, NEW name, NEW workload \in Workloads, NEW rootScope, NEW childScope,
           NEW request, NEW revoked,
           Authorize(request, IssueChain(task, name, workload, rootScope, childScope), revoked)
               # "deny"
    PROVE  /\ request.principal = Identity[workload]
           /\ request.task.id = task.id
           /\ request.task.initiated_by = task.initiated_by
           /\ {<<task.id, name, 1>>, <<task.id, name, 2>>} \cap revoked = {}
           /\ request.action \in childScope.actions
           /\ childScope.actions \subseteq rootScope.actions
           /\ \A b \in childScope.bounds \cup rootScope.bounds : request.amount <= b
<1> DEFINE chain == IssueChain(task, name, workload, rootScope, childScope)
<1> HIDE DEF chain
<1>1. ChainValid(chain, request, revoked)
    BY DEF Authorize, chain
<1>2. /\ request.principal = Identity[workload]
      /\ request.task.id = task.id
      /\ request.task.initiated_by = task.initiated_by
      /\ <<task.id, name, 1>> \notin revoked
      /\ <<task.id, name, 2>> \notin revoked
      /\ Covers(rootScope, request) /\ Covers(childScope, request)
      /\ Within(childScope, rootScope)
    BY <1>1, IssuedChainValidFor DEF chain
<1>3. {<<task.id, name, 1>>, <<task.id, name, 2>>} \cap revoked = {}
    BY <1>2
<1>4. /\ request.action \in childScope.actions
      /\ childScope.actions \subseteq rootScope.actions
      /\ \A b \in childScope.bounds \cup rootScope.bounds : request.amount <= b
    BY <1>2 DEF Covers, Within
<1> QED
    BY <1>2, <1>3, <1>4

(* A chain that widens on its way is good for nothing: a specialist whose    *)
(* bound is above the supervisor's is refused even what both would cover.    *)
THEOREM WidenedChainIsDead ==
    ASSUME NEW task, NEW name, NEW workload \in Workloads, NEW action,
           NEW low \in Int, NEW high \in Int, low < high, NEW request, NEW revoked
    PROVE  Authorize(request, IssueChain(task, name, workload, Scope(action, {low}),
                                         Scope(action, {high})), revoked) = "deny"
<1> DEFINE chain == IssueChain(task, name, workload, Scope(action, {low}), Scope(action, {high}))
<1>1. ~Within(Scope(action, {high}), Scope(action, {low}))
    BY DEF Within, Scope
<1> HIDE DEF chain
<1>2. ~ChainValid(chain, request, revoked)
    BY <1>1, IssuedChainValidFor DEF chain
<1> QED
    BY <1>2 DEF Authorize, chain

(* The rules hold whatever chain is presented, a forged one included: only   *)
(* service recovery issues credits by itself, up to 25 dollars, only the     *)
(* executor issues approved ones, up to 100, and none is without an amount.  *)
THEOREM RulesCapCredits ==
    ASSUME NEW workload \in Workloads, NEW task, NEW action, NEW amount \in Int, NEW tool,
           NEW chain, NEW revoked,
           action \in {"guest.credit.issue", "guest.credit.issue.approved"},
           Allowed(Request(workload, task, action, amount, tool), chain, revoked)
    PROVE  \/ /\ action = "guest.credit.issue" /\ workload = "service-recovery"
              /\ 0 < amount /\ amount <= Dollars(25)
           \/ /\ action = "guest.credit.issue.approved" /\ workload = "approval-executor"
              /\ 0 < amount /\ amount <= Dollars(100)
<1>1. PolicyEffect(Request(workload, task, action, amount, tool)) = "allow"
    BY DEF Allowed, Authorize
<1> QED
    BY <1>1, PolicyAllows

(* A credit of service recovery between the two limits waits for a human.    *)
LEMMA PolicyAsks ==
    ASSUME NEW task, NEW amount \in Int, NEW tool,
           Dollars(25) < amount, amount <= Dollars(100)
    PROVE  PolicyEffect(Request("service-recovery", task, "guest.credit.issue", amount, tool))
               = "require_approval"
<1> DEFINE request == Request("service-recovery", task, "guest.credit.issue", amount, tool)
           M == Matching(request)
<1>1. "service-recovery" \in Workloads
    BY DEF Workloads
<1>2. Dollars(25) = 25000 /\ Dollars(100) = 100000
    BY DEF Dollars
<1> HIDE DEF request, M
<1>3. M \subseteq 1..7
    BY Effects DEF M
<1>4. \A i \in 1..7 : i \in M <=> i = 6
    BY <1>1, <1>2, MatchingRules DEF M, request
<1>5. 6 \in M /\ \A j \in M : 6 <= j
    BY <1>3, <1>4
<1>6. PolicyEffect(request) = Policies[6].effect
    BY <1>5, FirstRuleDecides DEF M
<1>7. Policies[6].effect = "require_approval"
    BY DEF Policies, Rule
<1> QED
    BY <1>6, <1>7 DEF request

(* Above the highest limit no rule is about it.                              *)
LEMMA PolicyDenies ==
    ASSUME NEW task, NEW amount \in Int, NEW tool, Dollars(100) < amount
    PROVE  PolicyEffect(Request("service-recovery", task, "guest.credit.issue", amount, tool))
               = "deny"
<1> DEFINE request == Request("service-recovery", task, "guest.credit.issue", amount, tool)
           M == Matching(request)
<1>1. "service-recovery" \in Workloads
    BY DEF Workloads
<1>2. Dollars(25) = 25000 /\ Dollars(100) = 100000
    BY DEF Dollars
<1> HIDE DEF request, M
<1>3. M \subseteq 1..7
    BY Effects DEF M
<1>4. \A i \in 1..7 : i \notin M
    BY <1>1, <1>2, MatchingRules DEF M, request
<1>5. M = {}
    BY <1>3, <1>4
<1> QED
    BY <1>5 DEF PolicyEffect, M, request
================================================================================
