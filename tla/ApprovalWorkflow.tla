---------------------------- MODULE ApprovalWorkflow ----------------------------
(***************************************************************************)
(* The durable human approval of a guest credit, from the specialist's     *)
(* request to the credit in the ledger.                                    *)
(*                                                                         *)
(* RequestCredit runs on the event loop (an MCP tool). The approve and     *)
(* deny endpoints are plain functions, which FastAPI runs in a thread      *)
(* pool: each of the Workers below is such a thread, and a step of a       *)
(* worker is the code between two points where another thread may see or   *)
(* change shared state: one locked section of SQLiteApprovalStore, one     *)
(* Ruhusa call, one access to the credit ledger.                           *)
(*                                                                         *)
(* The ledger is behind the CreditProvider protocol. Two constants say     *)
(* which provider stands there:                                            *)
(*   LedgerAtomic   the provider tests and records an idempotency key in   *)
(*                  one step. GuestCreditLedger.issue does not: it looks   *)
(*                  the key up, then appends, then records it.             *)
(*   LedgerDurable  credits and keys survive a restart of the application. *)
(*                  GuestCreditLedger lives in the process: they do not.   *)
(*                                                                         *)
(* Ruhusa's decisions, a provider that fails, an execution that does not   *)
(* complete and a restart are choices of the environment, capped by        *)
(* MaxFaults and MaxCrashes.                                               *)
(***************************************************************************)
EXTENDS Naturals, FiniteSets

CONSTANTS
    Approvals,      \* approval identifiers the store can hand out
    Subjects,       \* logical credits: (task, reservation, amount)
    Workers,        \* threads that serve the approve and deny endpoints
    Operators,      \* authenticated humans
    Approvers,      \* those whose token carries the asante:approve scope
    NoSubject,
    NoOne,
    NoCall,
    LedgerAtomic,
    LedgerDurable,
    MaxFaults,      \* bound: denials by Ruhusa and provider failures
    MaxCrashes      \* bound: restarts

ASSUME ConstantsAssumption ==
    /\ Approvers \subseteq Operators
    /\ NoSubject \notin Subjects
    /\ NoOne \notin Operators
    /\ NoCall \notin [kind : {"approve", "deny"}, approval : Approvals,
                       operator : Operators]
    /\ LedgerAtomic \in BOOLEAN
    /\ LedgerDurable \in BOOLEAN
    /\ MaxFaults \in Nat
    /\ MaxCrashes \in Nat
    /\ IsFiniteSet(Workers)

VARIABLES
    (* SQLiteApprovalStore, on disk. *)
    status,         \* status[a]: "absent" (no row) or the row's status
    subject,        \* subject[a]: the row's task, reservation and amount
    decidedBy,      \* decidedBy[a]: the row's decided_by
    stored,         \* stored[a]: the row's execution result
    (* The credit provider. *)
    credits,        \* credits[a]: credits it holds for approval a
    keys,           \* the approvals whose idempotency key it has recorded
    (* The endpoint threads. *)
    pc,             \* pc[w]: the next step of worker w
    call,           \* call[w]: the call it serves or served last, or NoCall
    seen,           \* seen[w]: the status in the record it holds
    outcome,        \* outcome[w]: what the executor returned to it
    reply,          \* reply[w]: its last answer
    (* Environment. *)
    faults,
    crashes

store == <<status, subject, decidedBy, stored>>
ledger == <<credits, keys>>
threads == <<pc, call, seen, outcome, reply>>
env == <<faults, crashes>>
vars == <<store, ledger, threads, env>>

Statuses == {"absent", "pending", "approved", "denied", "executed"}

(* "issued" is a result with deduplicated False, "deduplicated" one with     *)
(* deduplicated True.                                                        *)
Outcomes == {"none", "issued", "deduplicated", "blocked"}

Steps == {"idle", "require", "decide", "reread", "execute", "revalidate",
          "lookup", "record", "settle", "refresh"}

Calls == [kind : {"approve", "deny"}, approval : Approvals, operator : Operators]

NoReply == [code |-> 0, approval |-> "absent", execution |-> "none"]

Replies == [code : {0, 200, 403, 404, 409, 500},
            approval : Statuses, execution : Outcomes]

Target(w) == call[w].approval

--------------------------------------------------------------------------------

Init ==
    /\ status = [a \in Approvals |-> "absent"]
    /\ subject = [a \in Approvals |-> NoSubject]
    /\ decidedBy = [a \in Approvals |-> NoOne]
    /\ stored = [a \in Approvals |-> "none"]
    /\ credits = [a \in Approvals |-> 0]
    /\ keys = {}
    /\ pc = [w \in Workers |-> "idle"]
    /\ call = [w \in Workers |-> NoCall]
    /\ seen = [w \in Workers |-> "absent"]
    /\ outcome = [w \in Workers |-> "none"]
    /\ reply = [w \in Workers |-> NoReply]
    /\ faults = 0
    /\ crashes = 0

--------------------------------------------------------------------------------
(* A specialist asks for approval.                                           *)

(* Mutant: the search skips records that were already decided.               *)
KnownRequests_PendingOnly(k) ==
    {a \in Approvals : status[a] = "pending" /\ subject[a] = k}

(* find_credit_request: the records of a logical credit, whatever their      *)
(* state.                                                                    *)
KnownRequests(k) == {a \in Approvals : status[a] # "absent" /\ subject[a] = k}

(* request_guest_credit and create_credit_request: the store's lock covers   *)
(* the search and the insertion, and the identifier is fresh. A repeated     *)
(* request returns the record found and changes nothing.                     *)
RequestCredit(k) ==
    /\ KnownRequests(k) = {}
    /\ \E a \in Approvals :
           /\ status[a] = "absent"
           /\ status' = [status EXCEPT ![a] = "pending"]
           /\ subject' = [subject EXCEPT ![a] = k]
    /\ UNCHANGED <<decidedBy, stored, ledger, threads, env>>

--------------------------------------------------------------------------------
(* The endpoints: a worker takes a call and, in the end, answers it.         *)

Goto(w, step) ==
    /\ pc' = [pc EXCEPT ![w] = step]
    /\ UNCHANGED <<call, reply>>

Answer(w, code, approval, execution) ==
    /\ pc' = [pc EXCEPT ![w] = "idle"]
    /\ reply' = [reply EXCEPT ![w] = [code |-> code, approval |-> approval,
                                      execution |-> execution]]
    /\ UNCHANGED call

(* An answer after which the worker forgets its local variables.             *)
Done(w, code, approval, execution) ==
    /\ Answer(w, code, approval, execution)
    /\ seen' = [seen EXCEPT ![w] = "absent"]
    /\ outcome' = [outcome EXCEPT ![w] = "none"]

(* Mutant: any authenticated human may decide.                               *)
MayDecide_Anyone(human) == human \in Operators

(* _require_approval_scope.                                                  *)
MayDecide(human) == human \in Approvers

(* approve_credit_request and deny_credit_request up to their first use of   *)
(* the store; without the scope the answer is 403.                           *)
TakeCall(w, c) ==
    /\ pc[w] = "idle"
    /\ call' = [call EXCEPT ![w] = c]
    /\ IF MayDecide(c.operator)
       THEN /\ pc' = [pc EXCEPT ![w] = IF c.kind = "approve" THEN "require" ELSE "decide"]
            /\ reply' = [reply EXCEPT ![w] = NoReply]
       ELSE /\ reply' = [reply EXCEPT ![w] = [NoReply EXCEPT !.code = 403]]
            /\ UNCHANGED pc
    /\ UNCHANGED <<store, ledger, seen, outcome, env>>

(* Mutant: a record that is approved already is replayed too.                *)
Require_ReplaysApproved(w) ==
    /\ pc[w] = "require"
    /\ \/ status[Target(w)] = "absent" /\ Answer(w, 404, "absent", "none")
       \/ /\ status[Target(w)] \in {"approved", "executed"}
          /\ Answer(w, 200, status[Target(w)], "deduplicated")
       \/ status[Target(w)] \in {"pending", "denied"} /\ Goto(w, "decide")
    /\ UNCHANGED <<store, ledger, seen, outcome, env>>

(* The approve endpoint's first read: an unknown identifier is 404, an       *)
(* executed record is replayed with deduplicated True.                       *)
Require(w) ==
    /\ pc[w] = "require"
    /\ \/ status[Target(w)] = "absent" /\ Answer(w, 404, "absent", "none")
       \/ status[Target(w)] = "executed" /\ Answer(w, 200, "executed", "deduplicated")
       \/ status[Target(w)] \notin {"absent", "executed"} /\ Goto(w, "decide")
    /\ UNCHANGED <<store, ledger, seen, outcome, env>>

Decision(w) == IF call[w].kind = "approve" THEN "approved" ELSE "denied"

(* What an endpoint does with the record decide() gave it: approve executes  *)
(* it, deny returns it.                                                      *)
Proceed(w, record) ==
    IF call[w].kind = "approve"
    THEN /\ Goto(w, "execute")
         /\ seen' = [seen EXCEPT ![w] = record]
         /\ UNCHANGED outcome
    ELSE Done(w, 200, record, "none")

(* Mutant: a repeated decision is refused like a conflicting one.            *)
AlreadyDecidedSo_Never(record, target) == FALSE

(* Mutant: only an executed record is closed for decisions.                  *)
Open_UntilExecuted(record) == record # "executed"

(* Mutant: a denial can be reversed.                                         *)
Open_AfterDenial(record) == record \in {"pending", "denied"}

(* decide: a record already in the target state is returned as it is, one in *)
(* another decided state is refused with ApprovalStateError (409).           *)
AlreadyDecidedSo(record, target) == record = target

Open(record) == record = "pending"

(* SQLiteApprovalStore.decide under the lock.                                *)
Decide(w) ==
    LET a == Target(w) IN
    /\ pc[w] = "decide"
    /\ \/ /\ status[a] = "absent"
          /\ Done(w, 404, "absent", "none")
          /\ UNCHANGED <<status, decidedBy>>
       \/ /\ AlreadyDecidedSo(status[a], Decision(w))
          /\ Proceed(w, status[a])
          /\ UNCHANGED <<status, decidedBy>>
       \/ /\ Open(status[a])
          /\ status' = [status EXCEPT ![a] = Decision(w)]
          /\ decidedBy' = [decidedBy EXCEPT ![a] = call[w].operator]
          /\ Goto(w, "reread")
          /\ UNCHANGED <<seen, outcome>>
       \/ /\ status[a] # "absent"
          /\ ~AlreadyDecidedSo(status[a], Decision(w))
          /\ ~Open(status[a])
          /\ Done(w, 409, status[a], "none")
          /\ UNCHANGED <<status, decidedBy>>
    /\ UNCHANGED <<subject, stored, ledger, env>>

(* decide() returns require(approval_id), read after the lock is released:   *)
(* another worker may have executed the record by then.                      *)
Reread(w) ==
    /\ pc[w] = "reread"
    /\ Proceed(w, status[Target(w)])
    /\ UNCHANGED <<store, ledger, env>>

--------------------------------------------------------------------------------
(* ApprovedCreditExecutor.execute.                                           *)

Fault ==
    /\ faults < MaxFaults
    /\ faults' = faults + 1
    /\ UNCHANGED crashes

Result(w, result) == outcome' = [outcome EXCEPT ![w] = result]

(* ExecutionController.begin and revalidate_before_execution: Ruhusa allows  *)
(* the invocation, or the executor returns a blocked result.                 *)
Authorize(w, step) ==
    \/ /\ Goto(w, step)
       /\ UNCHANGED <<outcome, env>>
    \/ /\ Fault
       /\ Result(w, "blocked")
       /\ Goto(w, "refresh")

Admissible(record) == record = "approved"

(* The record the worker holds decides: an executed one is replayed, one     *)
(* that is not approved is blocked, an approved one goes to admission.       *)
Execute(w) ==
    /\ pc[w] = "execute"
    /\ IF Admissible(seen[w])
       THEN Authorize(w, "revalidate")
       ELSE /\ Result(w, IF seen[w] = "executed" THEN "deduplicated" ELSE "blocked")
            /\ Goto(w, "refresh")
            /\ UNCHANGED env
    /\ UNCHANGED <<store, ledger, seen>>

Revalidate(w) ==
    /\ pc[w] = "revalidate"
    /\ Authorize(w, "lookup")
    /\ UNCHANGED <<store, ledger, seen>>

(* Mutant: the ledger ignores the idempotency key.                           *)
KeyKnown_Never(a) == FALSE

(* GuestCreditLedger._by_idempotency_key.get of f"approved-credit:{id}".     *)
KeyKnown(a) == a \in keys

(* The append to GuestCreditLedger.credits and the key that is recorded for  *)
(* it. Nothing that the workflow does depends on credits, so the append and  *)
(* the recording of the key are one step.                                    *)
IssueCredit(a) ==
    /\ credits' = [credits EXCEPT ![a] = @ + 1]
    /\ keys' = keys \cup {a}

(* CreditProvider.issue. A known key is answered with the credit there is.   *)
Lookup(w) ==
    /\ pc[w] = "lookup"
    /\ \/ /\ KeyKnown(Target(w))
          /\ Result(w, "deduplicated")
          /\ Goto(w, "settle")
          /\ UNCHANGED ledger
       \/ /\ ~KeyKnown(Target(w)) /\ LedgerAtomic
          /\ IssueCredit(Target(w))
          /\ Result(w, "issued")
          /\ Goto(w, "settle")
       \/ /\ ~KeyKnown(Target(w)) /\ ~LedgerAtomic
          /\ Goto(w, "record")
          /\ UNCHANGED <<ledger, outcome>>
    /\ UNCHANGED <<store, seen, env>>

(* GuestCreditLedger.issue after its lookup: the key may be known by now.    *)
Record(w) ==
    /\ pc[w] = "record"
    /\ IssueCredit(Target(w))
    /\ Result(w, "issued")
    /\ Goto(w, "settle")
    /\ UNCHANGED <<store, seen, env>>

(* Mutant: the provider keeps the key of a credit it refused.                *)
Fail_KeepsKey(w) ==
    /\ Fault
    /\ Done(w, 500, "absent", "none")
    /\ keys' = keys \cup {Target(w)}
    /\ UNCHANGED <<store, credits>>

(* An exception leaves execute() and the endpoint: HTTP 500. The approval    *)
(* stays approved. (mark_unknown, which the executor calls first when the    *)
(* provider raised, changes only Ruhusa's execution store.)                  *)
Fail(w) ==
    /\ Fault
    /\ Done(w, 500, "absent", "none")
    /\ UNCHANGED <<store, ledger>>

(* The provider raises before it did anything.                               *)
ProviderRefuses(w) == pc[w] = "lookup" /\ Fail(w)

(* The credit exists, but the provider's answer is lost, or                  *)
(* ExecutionController.complete returns False.                               *)
FailAfterIssue(w) == pc[w] = "settle" /\ Fail(w)

(* Mutant: the result's status is written into the record's status.          *)
ExecutedStatus_OfResult == "issued"

ExecutedStatus == "executed"

(* Mutant: mark_executed overwrites the result of an executed record.        *)
MarkExecuted_Overwrites(w) ==
    LET a == Target(w) IN
    /\ pc[w] = "settle"
    /\ status[a] \in {"approved", "executed"}
    /\ Goto(w, "refresh")
    /\ status' = [status EXCEPT ![a] = ExecutedStatus]
    /\ stored' = [stored EXCEPT ![a] = outcome[w]]
    /\ UNCHANGED <<subject, decidedBy, seen, outcome, ledger, env>>

(* Mutant: mark_executed waits for a record that is approved.                *)
MarkExecuted_WaitsForApproved(w) ==
    LET a == Target(w) IN
    /\ pc[w] = "settle"
    /\ status[a] = "approved"
    /\ Goto(w, "refresh")
    /\ status' = [status EXCEPT ![a] = ExecutedStatus]
    /\ stored' = [stored EXCEPT ![a] = outcome[w]]
    /\ UNCHANGED <<subject, decidedBy, seen, outcome, ledger, env>>

(* complete() succeeded; mark_executed under the lock. An executed record is *)
(* left as it is, one that is not approved raises ApprovalStateError.        *)
MarkExecuted(w) ==
    LET a == Target(w) IN
    /\ pc[w] = "settle"
    /\ IF status[a] \in {"approved", "executed"}
       THEN Goto(w, "refresh") /\ UNCHANGED <<seen, outcome>>
       ELSE Done(w, 500, "absent", "none")
    /\ IF status[a] = "approved"
       THEN /\ status' = [status EXCEPT ![a] = ExecutedStatus]
            /\ stored' = [stored EXCEPT ![a] = outcome[w]]
       ELSE UNCHANGED <<status, stored>>
    /\ UNCHANGED <<subject, decidedBy, ledger, env>>

(* The endpoint reads the record again and answers.                          *)
Refresh(w) ==
    /\ pc[w] = "refresh"
    /\ Done(w, 200, status[Target(w)], outcome[w])
    /\ UNCHANGED <<store, ledger, env>>

--------------------------------------------------------------------------------
(* The process stops between two steps and starts again: the database file   *)
(* is there, the threads are not. A shutdown is the same: lifespan() closes  *)
(* the database under the threads that still run.                            *)
Crash ==
    /\ crashes < MaxCrashes
    /\ crashes' = crashes + 1
    /\ pc' = [w \in Workers |-> "idle"]
    /\ call' = [w \in Workers |-> NoCall]
    /\ seen' = [w \in Workers |-> "absent"]
    /\ outcome' = [w \in Workers |-> "none"]
    /\ reply' = [w \in Workers |-> NoReply]
    /\ IF LedgerDurable
       THEN UNCHANGED ledger
       ELSE credits' = [a \in Approvals |-> 0] /\ keys' = {}
    /\ UNCHANGED <<store, faults>>

(* What a worker does for a call it has taken.                               *)
Serve(w) ==
    \/ Require(w)
    \/ Decide(w)
    \/ Reread(w)
    \/ Execute(w)
    \/ Revalidate(w)
    \/ Lookup(w)
    \/ Record(w)
    \/ MarkExecuted(w)
    \/ Refresh(w)

Next ==
    \/ \E k \in Subjects : RequestCredit(k)
    \/ \E w \in Workers, c \in Calls : TakeCall(w, c)
    \/ \E w \in Workers : Serve(w) \/ ProviderRefuses(w) \/ FailAfterIssue(w)
    \/ Crash

Spec == Init /\ [][Next]_vars

(* A thread of the pool is scheduled until it answers, and an operator asks  *)
(* again for an approved credit that was not executed. Nothing else is fair. *)
Retry(a) ==
    \E w \in Workers, c \in Calls :
        /\ c.kind = "approve" /\ c.approval = a /\ c.operator \in Approvers
        /\ status[a] = "approved"
        /\ TakeCall(w, c)

Scheduled(w) == WF_vars(Serve(w))
Persistent(a) == SF_vars(Retry(a))

FairSpec ==
    /\ Spec
    /\ \A w \in Workers : Scheduled(w)
    /\ \A a \in Approvals : Persistent(a)

--------------------------------------------------------------------------------
(* Type invariant. *)
TypeOK ==
    /\ status \in [Approvals -> Statuses]
    /\ subject \in [Approvals -> Subjects \cup {NoSubject}]
    /\ decidedBy \in [Approvals -> Operators \cup {NoOne}]
    /\ stored \in [Approvals -> Outcomes]
    /\ credits \in [Approvals -> Nat]
    /\ keys \subseteq Approvals
    /\ pc \in [Workers -> Steps]
    /\ call \in [Workers -> Calls \cup {NoCall}]
    /\ \A w \in Workers : pc[w] # "idle" => call[w] \in Calls
    /\ seen \in [Workers -> Statuses]
    /\ outcome \in [Workers -> Outcomes]
    /\ reply \in [Workers -> Replies]
    /\ faults \in 0..MaxFaults
    /\ crashes \in 0..MaxCrashes

(* The inductive invariant: what the rows, the ledger and every thread know  *)
(* of each other.                                                            *)
Executing == {"execute", "revalidate", "lookup", "record", "settle", "refresh"}
Issued == {"issued", "deduplicated"}

StoreInv ==
    /\ \A a \in Approvals :
           /\ status[a] = "absent" <=> subject[a] = NoSubject
           /\ status[a] \notin {"absent", "pending"} => decidedBy[a] \in Approvers
           /\ status[a] = "executed" => stored[a] \in Issued
    /\ \A a, b \in Approvals :
           status[a] # "absent" /\ status[b] # "absent" /\ subject[a] = subject[b] => a = b

LedgerInv ==
    \A a \in Approvals :
        /\ a \in keys <=> credits[a] > 0
        /\ credits[a] > 0 => status[a] \in {"approved", "executed"}
        /\ LedgerDurable /\ status[a] = "executed" => credits[a] > 0

(* A worker holds the authority of an approver, and what it has learnt of    *)
(* its record is still true or has been overtaken by an execution.           *)
WorkerInv(w) ==
    /\ pc[w] # "idle" => call[w].operator \in Approvers
    /\ pc[w] \in {"require"} \cup Executing => call[w].kind = "approve"
    /\ pc[w] = "reread" => \/ status[Target(w)] = Decision(w)
                           \/ call[w].kind = "approve" /\ status[Target(w)] = "executed"
    /\ pc[w] \in Executing => status[Target(w)] \in {"approved", "executed"}
    /\ pc[w] = "execute" => \/ seen[w] = "approved"
                            \/ seen[w] = "executed" /\ status[Target(w)] = "executed"
    /\ pc[w] = "settle" => outcome[w] \in Issued /\ credits[Target(w)] > 0
    /\ pc[w] = "refresh" => \/ outcome[w] = "blocked"
                            \/ outcome[w] \in Issued /\ status[Target(w)] = "executed"
    /\ pc[w] = "record" => ~LedgerAtomic
    /\ reply[w].execution \in Issued =>
           /\ call[w] \in Calls
           /\ reply[w].approval = "executed"
           /\ status[Target(w)] = "executed"

IndInv ==
    /\ TypeOK
    /\ StoreInv
    /\ LedgerInv
    /\ \A w \in Workers : WorkerInv(w)
    /\ LedgerAtomic => \A a \in Approvals : credits[a] <= 1

(* A credit exists only for a record that is approved or executed, and that  *)
(* was decided by a human who holds asante:approve: no order of requests,    *)
(* denials, retries and restarts credits a denied or a pending record        *)
(* (approved_credit.py, main.py approve/deny).                               *)
CreditOnlyAfterApproval ==
    \A a \in Approvals : credits[a] > 0 =>
        /\ status[a] \in {"approved", "executed"}
        /\ decidedBy[a] \in Approvers

(* A logical credit (task, reservation, amount) is issued at most once, over *)
(* every approval record there is for it (store.py:120-122).                 *)
OneCreditPerSubject ==
    /\ \A a \in Approvals : credits[a] <= 1
    /\ \A a, b \in Approvals :
           credits[a] > 0 /\ credits[b] > 0 /\ subject[a] = subject[b] => a = b

(* An executed record has its credit in the ledger and its result in the     *)
(* row, so that replaying it tells the truth.                                *)
ExecutedMeansCredited ==
    \A a \in Approvals : status[a] = "executed" =>
        credits[a] > 0 /\ stored[a] \in {"issued", "deduplicated"}

(* A caller told that the credit was issued, by this call or by an earlier   *)
(* one, can rely on it: the credit exists and the record it was shown is     *)
(* executed. A blocked execution is never shown as issued.                   *)
HonestReplies ==
    \A w \in Workers : reply[w].execution \in {"issued", "deduplicated"} =>
        /\ credits[Target(w)] > 0
        /\ reply[w].approval = "executed"

(* With a ledger that tests and records a key in two steps, retries and      *)
(* repeated calls add nothing: only workers that overlapped before the first *)
(* credit can duplicate it, one credit each.                                 *)
DuplicatesOnlyByOverlap ==
    \A a \in Approvals : credits[a] <= Cardinality(Workers)

(* A decision is final: a denied or executed record never changes, an        *)
(* approved one can only become executed, and who decided is never rewritten *)
(* by a repeated or a conflicting decision (store.py decide, mark_executed). *)
DecisionsAreFinal ==
    [][\A a \in Approvals : status[a] \notin {"absent", "pending"} =>
           /\ status'[a] = status[a] \/ (status[a] = "approved" /\ status'[a] = "executed")
           /\ decidedBy'[a] = decidedBy[a]
           /\ subject'[a] = subject[a]
           /\ status[a] = "executed" => stored'[a] = stored[a]]_store

(* An approve call is refused with 409 only for a record that was denied: a  *)
(* repeated approval is a replay (README.md, main.py approve).               *)
ConflictOnlyIfDenied ==
    \A w \in Workers : reply[w].code = 409 /\ call[w].kind = "approve" =>
        reply[w].approval = "denied"

(* The workflow implements the abstract life cycle of an approval.           *)
Lifecycle == INSTANCE ApprovalLifecycle WITH
    Approvals <- Approvals,
    Subjects <- Subjects,
    Approvers <- Approvers,
    NoSubject <- NoSubject,
    NoOne <- NoOne,
    status <- status,
    subject <- subject,
    decidedBy <- decidedBy,
    credits <- credits

ImplementsLifecycle == Lifecycle!Spec

(* No thread waits for another: whatever the others have done to its record  *)
(* meanwhile, an endpoint that has taken a call has a next step, and that is *)
(* one that changes something (store.py, approved_credit.py, main.py).       *)
ThreadsNeverStuck == \A w \in Workers : pc[w] # "idle" => ENABLED <<Serve(w)>>_vars

(* A call gives up when it is answered without a result, or its execution is *)
(* blocked.                                                                  *)
GivesUp(w) ==
    \/ pc'[w] = "idle" /\ outcome[w] # "blocked"
    \/ outcome'[w] = "blocked" /\ outcome[w] # "blocked"

(* An approved record that was not executed stays open for another approval, *)
(* the only way it still gets its credit: whatever failed before, and        *)
(* whatever other threads do to it meanwhile, an approve call that leaves it *)
(* approved was stopped by a failure or a denial of its own time, or by a    *)
(* restart, and never by the state of the store, of the ledger or of another *)
(* thread (store.py decide, approved_credit.py, main.py approve).            *)
StoppedOnlyByFailure ==
    [][\A w \in Workers :
           pc[w] # "idle" /\ call[w].kind = "approve" /\ status'[Target(w)] = "approved" =>
               (GivesUp(w) => env' # env)]_vars

(* Every call is answered, or dies in a restart.                             *)
EveryCallAnswered == \A w \in Workers : pc[w] # "idle" ~> pc[w] = "idle"

(* Failures and restarts wedge nothing: as long as the operator asks again,  *)
(* an approved credit is executed in the end.                                *)
ApprovedIsExecuted ==
    \A a \in Approvals : status[a] = "approved" ~> status[a] = "executed"
================================================================================
