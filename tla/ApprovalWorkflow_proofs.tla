------------------------- MODULE ApprovalWorkflow_proofs -------------------------
(***************************************************************************)
(* Proofs about ApprovalWorkflow, for every set of approvals, logical      *)
(* credits, workers and operators, every bound, and both kinds of ledger.  *)
(***************************************************************************)
EXTENDS ApprovalWorkflow, FiniteSetTheorems, TLAPS

USE DEF Statuses, Outcomes, Steps

--------------------------------------------------------------------------------
(* Type correctness. *)

(* An answer is a reply of the right type, and leaves the worker idle.       *)
LEMMA AnswerType ==
    ASSUME TypeOK, NEW w \in Workers, NEW code \in {0, 200, 403, 404, 409, 500},
           NEW approval \in Statuses, NEW execution \in Outcomes,
           Answer(w, code, approval, execution)
    PROVE  /\ pc' = [pc EXCEPT ![w] = "idle"]
           /\ call' = call
           /\ reply' \in [Workers -> Replies]
BY DEF Answer, Replies, TypeOK

(* What an endpoint does with decide()'s record keeps the local variables    *)
(* well typed.                                                               *)
LEMMA ProceedType ==
    ASSUME TypeOK, NEW w \in Workers, pc[w] # "idle", NEW record \in Statuses,
           Proceed(w, record)
    PROVE  /\ pc' \in [Workers -> Steps]
           /\ call' = call
           /\ \A v \in Workers : pc'[v] # "idle" => call'[v] \in Calls
           /\ reply' \in [Workers -> Replies]
           /\ seen' \in [Workers -> Statuses]
           /\ outcome' \in [Workers -> Outcomes]
<1>1. CASE call[w].kind = "approve"
    BY <1>1 DEF Proceed, Goto, TypeOK
<1>2. CASE call[w].kind # "approve"
    <2>1. /\ Answer(w, 200, record, "none")
          /\ seen' = [seen EXCEPT ![w] = "absent"]
          /\ outcome' = [outcome EXCEPT ![w] = "none"]
        BY <1>2 DEF Proceed, Done
    <2>2. /\ pc' = [pc EXCEPT ![w] = "idle"]
          /\ call' = call
          /\ reply' \in [Workers -> Replies]
        BY <2>1, AnswerType
    <2> QED
        BY <2>1, <2>2 DEF TypeOK
<1> QED
    BY <1>1, <1>2

(* Every variable keeps its type under every step of the workflow.           *)
LEMMA TypeNext == TypeOK /\ [Next]_vars => TypeOK'
<1> SUFFICES ASSUME TypeOK, [Next]_vars PROVE TypeOK'
    OBVIOUS
<1> USE ConstantsAssumption
<1>1. ASSUME NEW k \in Subjects, RequestCredit(k) PROVE TypeOK'
    BY <1>1 DEF TypeOK, RequestCredit, ledger, threads, env
<1>2. ASSUME NEW w \in Workers, NEW c \in Calls, TakeCall(w, c) PROVE TypeOK'
    <2>1. NoReply \in Replies /\ [NoReply EXCEPT !.code = 403] \in Replies
        BY DEF NoReply, Replies
    <2>2. reply' \in [Workers -> Replies]
        BY <1>2, <2>1 DEF TakeCall, TypeOK
    <2> QED
        BY <1>2, <2>2 DEF TypeOK, TakeCall, store, ledger, env
<1>3. ASSUME NEW w \in Workers, Require(w) PROVE TypeOK'
    <2>1. CASE status[Target(w)] = "absent"
        <3>1. Answer(w, 404, "absent", "none")
            BY <1>3, <2>1 DEF Require
        <3> QED
            BY <1>3, <3>1, AnswerType DEF Require, TypeOK, store, ledger, env
    <2>2. CASE status[Target(w)] = "executed"
        <3>1. Answer(w, 200, "executed", "deduplicated")
            BY <1>3, <2>2 DEF Require
        <3> QED
            BY <1>3, <3>1, AnswerType DEF Require, TypeOK, store, ledger, env
    <2>3. CASE status[Target(w)] \notin {"absent", "executed"}
        BY <1>3, <2>3 DEF Require, Goto, TypeOK, store, ledger, env
    <2> QED
        BY <2>1, <2>2, <2>3
<1>4. ASSUME NEW w \in Workers, Decide(w) PROVE TypeOK'
    <2> DEFINE a == Target(w)
    <2>0. /\ a \in Approvals /\ call[w].operator \in Operators /\ Decision(w) \in Statuses
          /\ status[a] \in Statuses /\ pc[w] # "idle"
        BY <1>4 DEF TypeOK, Decide, Target, Calls, Decision
    <2> HIDE DEF a
    <2>1. ASSUME NEW code \in {0, 200, 403, 404, 409, 500}, NEW record \in Statuses,
                 Done(w, code, record, "none"), UNCHANGED <<status, decidedBy>>
          PROVE  TypeOK'
        BY <1>4, <2>1, AnswerType DEF Decide, Done, TypeOK, ledger, env
    <2>2. ASSUME Proceed(w, status[a]), UNCHANGED <<status, decidedBy>> PROVE TypeOK'
        BY <1>4, <2>0, <2>2, ProceedType DEF Decide, TypeOK, ledger, env
    <2>3. ASSUME status' = [status EXCEPT ![a] = Decision(w)],
                 decidedBy' = [decidedBy EXCEPT ![a] = call[w].operator],
                 Goto(w, "reread"), UNCHANGED <<seen, outcome>>
          PROVE  TypeOK'
        BY <1>4, <2>0, <2>3 DEF Decide, Goto, TypeOK, ledger, env
    <2> QED
        BY <1>4, <2>0, <2>1, <2>2, <2>3 DEF Decide, a
<1>5. ASSUME NEW w \in Workers, Reread(w) PROVE TypeOK'
    <2>1. status[Target(w)] \in Statuses
        BY <1>5 DEF Reread, TypeOK, Target, Calls
    <2> QED
        BY <1>5, <2>1, ProceedType DEF Reread, TypeOK, store, ledger, env
<1>6. ASSUME NEW w \in Workers, Execute(w) PROVE TypeOK'
    BY <1>6 DEF TypeOK, Execute, Authorize, Fault, Result, Goto, store, ledger, env
<1>7. ASSUME NEW w \in Workers, Revalidate(w) PROVE TypeOK'
    BY <1>7 DEF TypeOK, Revalidate, Authorize, Fault, Result, Goto, store, ledger, env
<1>8. ASSUME NEW w \in Workers, Lookup(w) PROVE TypeOK'
    BY <1>8 DEF TypeOK, Lookup, IssueCredit, Result, Goto, store, ledger, env, Target, Calls
<1>9. ASSUME NEW w \in Workers, Record(w) PROVE TypeOK'
    BY <1>9 DEF TypeOK, Record, IssueCredit, Result, Goto, store, ledger, env, Target, Calls
<1>10. ASSUME NEW w \in Workers, MarkExecuted(w) PROVE TypeOK'
    <2>1. status' \in [Approvals -> Statuses] /\ stored' \in [Approvals -> Outcomes]
        BY <1>10 DEF MarkExecuted, ExecutedStatus, TypeOK
    <2>2. CASE status[Target(w)] \in {"approved", "executed"}
        BY <1>10, <2>1, <2>2 DEF MarkExecuted, Goto, TypeOK, ledger, env
    <2>3. CASE status[Target(w)] \notin {"approved", "executed"}
        <3>1. Done(w, 500, "absent", "none")
            BY <1>10, <2>3 DEF MarkExecuted
        <3>2. /\ pc' = [pc EXCEPT ![w] = "idle"]
              /\ call' = call
              /\ reply' \in [Workers -> Replies]
              /\ seen' = [seen EXCEPT ![w] = "absent"]
              /\ outcome' = [outcome EXCEPT ![w] = "none"]
            BY <3>1, AnswerType DEF Done
        <3> QED
            BY <1>10, <2>1, <2>3, <3>2 DEF MarkExecuted, TypeOK, ledger, env
    <2> QED
        BY <2>2, <2>3
<1>11. ASSUME NEW w \in Workers, Refresh(w) PROVE TypeOK'
    <2>1. status[Target(w)] \in Statuses /\ outcome[w] \in Outcomes
        BY <1>11 DEF Refresh, TypeOK, Target, Calls
    <2>2. /\ pc' = [pc EXCEPT ![w] = "idle"]
          /\ call' = call
          /\ reply' \in [Workers -> Replies]
        BY <1>11, <2>1, AnswerType DEF Refresh, Done
    <2> QED
        BY <1>11, <2>2 DEF TypeOK, Refresh, Done, store, ledger, env
<1>12. ASSUME NEW w \in Workers, ProviderRefuses(w) \/ FailAfterIssue(w) PROVE TypeOK'
    <2>1. Fail(w) /\ Answer(w, 500, "absent", "none")
        BY <1>12 DEF ProviderRefuses, FailAfterIssue, Fail, Done
    <2> QED
        BY <2>1, AnswerType DEF Fail, Fault, Done, TypeOK, store, ledger
<1>13. CASE Crash
    BY <1>13 DEF TypeOK, Crash, store, ledger, NoReply, Replies
<1>14. CASE UNCHANGED vars
    BY <1>14 DEF TypeOK, vars, store, ledger, threads, env
<1> QED
    BY <1>1, <1>2, <1>3, <1>4, <1>5, <1>6, <1>7, <1>8, <1>9, <1>10, <1>11, <1>12, <1>13,
       <1>14 DEF Next, Serve

LEMMA TypeInit == Init => TypeOK
BY ConstantsAssumption DEF Init, TypeOK, NoReply, Replies

(* Every variable of the workflow has its type in every reachable state.     *)
THEOREM TypeCorrect == Spec => []TypeOK
BY TypeInit, TypeNext, PTL DEF Spec

--------------------------------------------------------------------------------
(* The inductive invariant. The rows change in three actions only, the       *)
(* ledger in three, and the local variables of a worker only in its own      *)
(* steps and in a restart.                                                   *)

(* How one row may change in one step.                                       *)
Moves(a) ==
    \/ /\ status'[a] = status[a] /\ subject'[a] = subject[a]
       /\ decidedBy'[a] = decidedBy[a] /\ stored'[a] = stored[a]
    \/ status[a] = "absent" /\ status'[a] = "pending"
    \/ /\ status[a] = "pending" /\ status'[a] \in {"approved", "denied"}
       /\ subject'[a] = subject[a]
    \/ /\ status[a] = "approved" /\ status'[a] = "executed"
       /\ subject'[a] = subject[a] /\ decidedBy'[a] = decidedBy[a]

LEMMA StoreWriters ==
    ASSUME [Next]_vars
    PROVE  \/ UNCHANGED store
           \/ \E k \in Subjects : RequestCredit(k)
           \/ \E w \in Workers : Decide(w) \/ MarkExecuted(w)
BY DEF Next, Serve, vars, store, TakeCall, Require, Reread, Execute, Revalidate, Lookup, Record,
       Refresh, ProviderRefuses, FailAfterIssue, Fail, Crash

(* A row keeps its own invariants, and moves forward or not at all.          *)
LEMMA StoreStep ==
    ASSUME IndInv, [Next]_vars
    PROVE  StoreInv' /\ \A a \in Approvals : Moves(a)
<1> USE ConstantsAssumption
<1>1. CASE UNCHANGED store
    BY <1>1 DEF IndInv, StoreInv, Moves, store
<1>2. ASSUME NEW k \in Subjects, RequestCredit(k)
      PROVE  StoreInv' /\ \A a \in Approvals : Moves(a)
    <2>1. PICK a \in Approvals : /\ status[a] = "absent"
                                 /\ status' = [status EXCEPT ![a] = "pending"]
                                 /\ subject' = [subject EXCEPT ![a] = k]
        BY <1>2 DEF RequestCredit
    <2>2. \A b \in Approvals : status[b] = "absent" \/ subject[b] # k
        BY <1>2 DEF RequestCredit, KnownRequests
    <2>3. UNCHANGED <<decidedBy, stored>>
        BY <1>2 DEF RequestCredit
    <2>4. \A b \in Approvals : Moves(b)
        BY <2>1, <2>3 DEF Moves, IndInv, TypeOK
    <2>5. StoreInv'
        BY <2>1, <2>2, <2>3 DEF IndInv, StoreInv, TypeOK
    <2> QED
        BY <2>4, <2>5
<1>3. ASSUME NEW w \in Workers, Decide(w)
      PROVE  StoreInv' /\ \A a \in Approvals : Moves(a)
    <2>1. /\ Target(w) \in Approvals /\ call[w].operator \in Approvers
          /\ Decision(w) \in {"approved", "denied"}
        BY <1>3 DEF IndInv, TypeOK, WorkerInv, Decide, Target, Calls, Decision
    <2>2. UNCHANGED <<subject, stored>>
        BY <1>3 DEF Decide
    <2>3. CASE UNCHANGED <<status, decidedBy>>
        BY <2>2, <2>3 DEF IndInv, StoreInv, Moves
    <2>4. CASE /\ status[Target(w)] = "pending"
               /\ status' = [status EXCEPT ![Target(w)] = Decision(w)]
               /\ decidedBy' = [decidedBy EXCEPT ![Target(w)] = call[w].operator]
        BY <2>1, <2>2, <2>4 DEF IndInv, StoreInv, TypeOK, Moves
    <2> QED
        BY <1>3, <2>3, <2>4 DEF Decide, Open
<1>4. ASSUME NEW w \in Workers, MarkExecuted(w)
      PROVE  StoreInv' /\ \A a \in Approvals : Moves(a)
    <2>1. Target(w) \in Approvals /\ outcome[w] \in Issued
        BY <1>4 DEF IndInv, TypeOK, WorkerInv, MarkExecuted, Target, Calls
    <2>2. UNCHANGED <<subject, decidedBy>>
        BY <1>4 DEF MarkExecuted
    <2>3. CASE UNCHANGED <<status, stored>>
        BY <2>2, <2>3 DEF IndInv, StoreInv, Moves
    <2>4. CASE /\ status[Target(w)] = "approved"
               /\ status' = [status EXCEPT ![Target(w)] = "executed"]
               /\ stored' = [stored EXCEPT ![Target(w)] = outcome[w]]
        BY <2>1, <2>2, <2>4 DEF IndInv, StoreInv, TypeOK, Moves
    <2> QED
        BY <1>4, <2>3, <2>4 DEF MarkExecuted, ExecutedStatus
<1> QED
    BY <1>1, <1>2, <1>3, <1>4, StoreWriters

(* The part of the invariant about the ledger.                               *)
Ledgers == LedgerInv /\ (LedgerAtomic => \A a \in Approvals : credits[a] <= 1)

LEMMA LedgerWriters ==
    ASSUME [Next]_vars
    PROVE  \/ UNCHANGED ledger
           \/ \E w \in Workers : Lookup(w) \/ Record(w)
           \/ Crash
BY DEF Next, Serve, vars, ledger, RequestCredit, TakeCall, Require, Decide, Reread, Execute,
       Revalidate, MarkExecuted, Refresh, ProviderRefuses, FailAfterIssue, Fail

(* A credit is issued only for an approved or executed record.               *)
LEMMA IssueStep ==
    ASSUME IndInv, NEW a \in Approvals, IssueCredit(a), UNCHANGED store,
           status[a] \in {"approved", "executed"},
           LedgerAtomic => a \notin keys
    PROVE  Ledgers'
<1>1. \A b \in Approvals : credits'[b] = IF b = a THEN credits[a] + 1 ELSE credits[b]
    BY DEF IssueCredit, IndInv, TypeOK
<1>2. keys' = keys \cup {a} /\ UNCHANGED status
    BY DEF IssueCredit, store
<1>3. \A b \in Approvals : credits[b] \in Nat
    BY DEF IndInv, TypeOK
<1> QED
    BY <1>1, <1>2, <1>3 DEF Ledgers, LedgerInv, IndInv

LEMMA LedgerStep == ASSUME IndInv, [Next]_vars PROVE Ledgers'
<1>1. CASE UNCHANGED ledger
    <2> SUFFICES ASSUME NEW a \in Approvals
                 PROVE  /\ credits[a] > 0 => status'[a] \in {"approved", "executed"}
                        /\ LedgerDurable /\ status'[a] = "executed" => credits[a] > 0
        BY <1>1 DEF Ledgers, LedgerInv, IndInv, ledger
    <2>1. Moves(a)
        BY StoreStep
    <2>2. ASSUME status[a] # "executed", status'[a] = "executed" PROVE credits[a] > 0
        <3>1. PICK w \in Workers : Decide(w) \/ MarkExecuted(w)
            BY <2>2, StoreWriters DEF store, RequestCredit, IndInv, TypeOK
        <3>2. ~Decide(w)
            BY <2>2 DEF Decide, Decision, IndInv, TypeOK
        <3>3. MarkExecuted(w) /\ a = Target(w)
            BY <2>2, <3>1, <3>2 DEF MarkExecuted, IndInv, TypeOK
        <3> QED
            BY <3>3 DEF MarkExecuted, IndInv, WorkerInv
    <2> QED
        BY <2>1, <2>2 DEF Moves, IndInv, LedgerInv
<1>2. ASSUME NEW w \in Workers, Lookup(w) \/ Record(w) PROVE Ledgers'
    <2>1. /\ Target(w) \in Approvals /\ status[Target(w)] \in {"approved", "executed"}
          /\ UNCHANGED store
        BY <1>2 DEF Lookup, Record, IndInv, TypeOK, WorkerInv, Executing, Target, Calls
    <2>2. \/ UNCHANGED ledger
          \/ IssueCredit(Target(w)) /\ (LedgerAtomic => Target(w) \notin keys)
        BY <1>2 DEF Lookup, Record, KeyKnown, IndInv, WorkerInv
    <2> QED
        BY <1>1, <2>1, <2>2, IssueStep
<1>3. CASE Crash /\ ~LedgerDurable
    BY <1>3 DEF Crash, Ledgers, LedgerInv
<1> QED
    BY <1>1, <1>2, <1>3, LedgerWriters DEF Crash

--------------------------------------------------------------------------------
(* A worker that does not move keeps its invariant: rows only move forward   *)
(* and, but for a restart, credits stay.                                     *)
SameLocals(w) ==
    /\ pc'[w] = pc[w]
    /\ call'[w] = call[w]
    /\ seen'[w] = seen[w]
    /\ outcome'[w] = outcome[w]
    /\ reply'[w] = reply[w]

CreditsStay == \A a \in Approvals : credits[a] > 0 => credits'[a] > 0

LEMMA Frame ==
    ASSUME TypeOK, NEW w \in Workers, WorkerInv(w), SameLocals(w), CreditsStay,
           \A a \in Approvals : Moves(a)
    PROVE  WorkerInv(w)'
<1>1. pc[w] # "idle" \/ reply[w].execution \in Issued => Target(w) \in Approvals
    BY DEF TypeOK, WorkerInv, Target, Calls
<1>2. Target(w)' = Target(w) /\ Decision(w)' = Decision(w)
    BY DEF SameLocals, Target, Decision
<1>3. pc[w] # "idle" => pc[w] \in Steps \ {"idle"}
    BY DEF TypeOK
<1>4. CASE pc[w] # "idle" \/ reply[w].execution \in Issued
    BY <1>1, <1>2, <1>3, <1>4 DEF SameLocals, CreditsStay, Moves, WorkerInv, Executing, Decision
<1>5. CASE pc[w] = "idle" /\ reply[w].execution \notin Issued
    BY <1>5 DEF SameLocals, WorkerInv, Executing
<1> QED
    BY <1>4, <1>5

(* A step of one worker leaves the local variables of the others alone.      *)
LEMMA OthersStay ==
    ASSUME TypeOK, NEW w \in Workers, NEW v \in Workers, v # w,
           \/ Serve(w) \/ ProviderRefuses(w) \/ FailAfterIssue(w)
           \/ \E c \in Calls : TakeCall(w, c)
    PROVE  SameLocals(v)
BY DEF TypeOK, SameLocals, Serve, Require, Decide, Proceed, Reread, Execute, Authorize, Revalidate,
       Lookup, Record, MarkExecuted, Refresh, ProviderRefuses, FailAfterIssue, Fail, TakeCall,
       Goto, Result, Done, Answer

LEMMA CreditsStayOrCrash ==
    ASSUME TypeOK, [Next]_vars, ~Crash PROVE CreditsStay
<1>1. CASE UNCHANGED ledger
    BY <1>1 DEF CreditsStay, ledger
<1>2. ASSUME NEW a, IssueCredit(a) PROVE CreditsStay
    BY <1>2 DEF CreditsStay, IssueCredit, TypeOK
<1> QED
    BY <1>1, <1>2, LedgerWriters DEF Lookup, Record

(* Answering a call: only the reply is left to justify.                      *)
LEMMA AnswerKeeps ==
    ASSUME TypeOK, TypeOK', NEW w \in Workers, pc[w] # "idle",
           NEW code, NEW approval, NEW execution,
           Answer(w, code, approval, execution),
           execution \in Issued =>
               approval = "executed" /\ status'[Target(w)] = "executed"
    PROVE  WorkerInv(w)'
<1>1. /\ pc'[w] = "idle" /\ call'[w] = call[w] /\ call[w] \in Calls
      /\ reply'[w] = [code |-> code, approval |-> approval, execution |-> execution]
    BY DEF Answer, TypeOK
<1> QED
    BY <1>1 DEF WorkerInv, Executing, Target

(* What an endpoint does with the record of decide().                        *)
LEMMA ProceedKeeps ==
    ASSUME TypeOK, TypeOK', NEW w \in Workers, pc[w] # "idle", WorkerInv(w), NEW record,
           Proceed(w, record), UNCHANGED status,
           \/ record = Decision(w)
           \/ call[w].kind = "approve" /\ record = "executed",
           status[Target(w)] = record
    PROVE  WorkerInv(w)'
<1>1. CASE call[w].kind = "approve"
    <2>1. /\ pc'[w] = "execute" /\ call'[w] = call[w] /\ seen'[w] = record
          /\ reply'[w] = reply[w]
        BY <1>1 DEF Proceed, Goto, TypeOK
    <2>2. record \in {"approved", "executed"}
        BY <1>1 DEF Decision
    <2> QED
        BY <1>1, <2>1, <2>2 DEF WorkerInv, Executing, Target
<1>2. CASE call[w].kind # "approve"
    <2>1. Answer(w, 200, record, "none")
        BY <1>2 DEF Proceed, Done
    <2> QED
        BY <2>1, AnswerKeeps DEF Issued
<1> QED
    BY <1>1, <1>2

(* The worker that moves keeps its own invariant.                            *)
LEMMA MoverKeeps ==
    ASSUME IndInv, TypeOK', CreditsStay, NEW w \in Workers,
           \/ Serve(w) \/ ProviderRefuses(w) \/ FailAfterIssue(w)
           \/ \E c \in Calls : TakeCall(w, c)
    PROVE  WorkerInv(w)'
<1> USE DEF IndInv
<1>0. WorkerInv(w) /\ (pc[w] # "idle" => Target(w) \in Approvals)
    BY DEF TypeOK, Target, Calls
<1>1. ASSUME NEW c \in Calls, TakeCall(w, c) PROVE WorkerInv(w)'
    <2>1. call'[w] = c /\ reply'[w].execution = "none" /\ pc[w] = "idle"
        BY <1>1 DEF TakeCall, TypeOK, NoReply
    <2>2. \/ pc'[w] = "idle"
          \/ /\ c.operator \in Approvers
             /\ pc'[w] = IF c.kind = "approve" THEN "require" ELSE "decide"
        BY <1>1 DEF TakeCall, TypeOK, MayDecide
    <2> QED
        BY <2>1, <2>2 DEF WorkerInv, Executing, Issued
<1>2. CASE Require(w)
    <2>1. UNCHANGED status
        BY <1>2 DEF Require, store
    <2>2. ASSUME NEW code, NEW approval, NEW execution,
                 Answer(w, code, approval, execution),
                 execution \in Issued => approval = "executed" /\ status[Target(w)] = "executed"
          PROVE  WorkerInv(w)'
        BY <1>2, <2>1, <2>2, AnswerKeeps DEF Require
    <2>3. CASE Goto(w, "decide")
        BY <1>0, <1>2, <2>1, <2>3 DEF Require, Goto, TypeOK, WorkerInv, Executing, Target
    <2> QED
        BY <1>2, <2>2, <2>3 DEF Require, Issued
<1>3. CASE Decide(w)
    <2>1. ASSUME NEW code, NEW approval, Done(w, code, approval, "none")
          PROVE  WorkerInv(w)'
        BY <1>3, <2>1, AnswerKeeps DEF Decide, Done, Issued
    <2>2. CASE /\ Proceed(w, status[Target(w)]) /\ UNCHANGED status
               /\ AlreadyDecidedSo(status[Target(w)], Decision(w))
        BY <1>0, <1>3, <2>2, ProceedKeeps DEF Decide, AlreadyDecidedSo
    <2>3. CASE /\ Open(status[Target(w)])
               /\ status' = [status EXCEPT ![Target(w)] = Decision(w)]
               /\ Goto(w, "reread") /\ UNCHANGED <<seen, outcome>>
        <3>1. /\ pc'[w] = "reread" /\ call'[w] = call[w] /\ reply'[w] = reply[w]
              /\ pc[w] # "idle" /\ Target(w) \in Approvals
            BY <1>0, <1>3, <2>3 DEF Decide, Goto, TypeOK
        <3>2. status'[Target(w)] = Decision(w) /\ Target(w)' = Target(w)
              /\ Decision(w)' = Decision(w)
            BY <2>3, <3>1 DEF TypeOK, Target, Decision
        <3>3. reply[w].execution \notin Issued
            BY <1>0, <2>3 DEF WorkerInv, Open
        <3> QED
            BY <1>0, <3>1, <3>2, <3>3 DEF WorkerInv, Executing
    <2> QED
        BY <1>3, <2>1, <2>2, <2>3 DEF Decide
<1>4. CASE Reread(w)
    BY <1>0, <1>4, ProceedKeeps DEF Reread, store, WorkerInv
<1>5. CASE Execute(w)
    <2>1. /\ UNCHANGED status /\ call'[w] = call[w] /\ reply'[w] = reply[w]
          /\ status[Target(w)] \in {"approved", "executed"} /\ call[w].kind = "approve"
        BY <1>0, <1>5 DEF Execute, Authorize, Goto, store, WorkerInv, Executing
    <2>2. \/ pc'[w] = "revalidate"
          \/ pc'[w] = "refresh" /\ outcome'[w] = "blocked"
          \/ pc'[w] = "refresh" /\ outcome'[w] \in Issued /\ status[Target(w)] = "executed"
        BY <1>0, <1>5
        DEF Execute, Authorize, Result, Goto, TypeOK, WorkerInv, Admissible, Issued
    <2> QED
        BY <1>0, <1>5, <2>1, <2>2 DEF Execute, WorkerInv, Executing, Issued, Target
<1>6. CASE Revalidate(w)
    <2>1. /\ UNCHANGED status /\ call'[w] = call[w] /\ reply'[w] = reply[w]
          /\ status[Target(w)] \in {"approved", "executed"} /\ call[w].kind = "approve"
        BY <1>0, <1>6 DEF Revalidate, Authorize, Goto, store, WorkerInv, Executing
    <2>2. \/ pc'[w] = "lookup"
          \/ pc'[w] = "refresh" /\ outcome'[w] = "blocked"
        BY <1>6 DEF Revalidate, Authorize, Result, Goto, TypeOK
    <2> QED
        BY <1>0, <1>6, <2>1, <2>2 DEF Revalidate, WorkerInv, Executing, Issued, Target
<1>7. CASE Lookup(w) \/ Record(w)
    <2>1. /\ UNCHANGED status /\ call'[w] = call[w] /\ reply'[w] = reply[w]
          /\ status[Target(w)] \in {"approved", "executed"} /\ call[w].kind = "approve"
          /\ pc[w] # "idle"
        BY <1>0, <1>7 DEF Lookup, Record, Goto, store, WorkerInv, Executing
    <2>2. \/ pc'[w] = "record" /\ ~LedgerAtomic
          \/ pc'[w] = "settle" /\ outcome'[w] \in Issued /\ credits'[Target(w)] > 0
        <3>1. CASE UNCHANGED ledger /\ KeyKnown(Target(w))
            BY <1>0, <1>7, <2>1, <3>1
               DEF Lookup, Record, Goto, Result, TypeOK, KeyKnown, LedgerInv, ledger, Issued,
                   IssueCredit
        <3>2. CASE IssueCredit(Target(w))
            BY <1>0, <1>7, <2>1, <3>2
               DEF Lookup, Record, Goto, Result, TypeOK, Issued, IssueCredit, ledger
        <3> QED
            BY <1>7, <3>1, <3>2 DEF Lookup, Record, Goto, TypeOK
    <2> QED
        BY <1>0, <2>1, <2>2 DEF WorkerInv, Executing, Issued, Target
<1>8. CASE MarkExecuted(w)
    <2>1. /\ status'[Target(w)] = "executed" /\ pc'[w] = "refresh" /\ call'[w] = call[w]
          /\ reply'[w] = reply[w] /\ call[w].kind = "approve" /\ pc[w] # "idle"
          /\ outcome'[w] \in Issued
        BY <1>0, <1>8 DEF MarkExecuted, ExecutedStatus, Goto, TypeOK, WorkerInv, Executing
    <2> QED
        BY <1>0, <2>1 DEF WorkerInv, Executing, Target
<1>9. CASE Refresh(w)
    <2>1. Answer(w, 200, status[Target(w)], outcome[w]) /\ UNCHANGED status /\ pc[w] # "idle"
        BY <1>9 DEF Refresh, Done, store
    <2> QED
        BY <1>0, <1>9, <2>1, AnswerKeeps DEF Refresh, WorkerInv, Issued
<1>10. CASE ProviderRefuses(w) \/ FailAfterIssue(w)
    <2>1. Answer(w, 500, "absent", "none") /\ pc[w] # "idle"
        BY <1>10 DEF ProviderRefuses, FailAfterIssue, Fail, Done
    <2> QED
        BY <2>1, AnswerKeeps DEF Issued
<1> QED
    BY <1>1, <1>2, <1>3, <1>4, <1>5, <1>6, <1>7, <1>8, <1>9, <1>10 DEF Serve

LEMMA WorkersStep ==
    ASSUME IndInv, [Next]_vars, TypeOK' PROVE \A v \in Workers : WorkerInv(v)'
<1> SUFFICES ASSUME NEW v \in Workers PROVE WorkerInv(v)'
    OBVIOUS
<1>0. \A a \in Approvals : Moves(a)
    BY StoreStep
<1>1. CASE Crash
    BY <1>1 DEF Crash, WorkerInv, Executing, NoReply, Issued
<1>2. ASSUME NEW k \in Subjects, RequestCredit(k) PROVE WorkerInv(v)'
    <2>1. SameLocals(v) /\ CreditsStay
        BY <1>2 DEF RequestCredit, SameLocals, CreditsStay, threads, ledger
    <2> QED
        BY <1>0, <2>1, Frame DEF IndInv
<1>3. ASSUME NEW w \in Workers, ~Crash,
             \/ Serve(w) \/ ProviderRefuses(w) \/ FailAfterIssue(w)
             \/ \E c \in Calls : TakeCall(w, c)
      PROVE  WorkerInv(v)'
    <2>1. CreditsStay
        BY <1>3, CreditsStayOrCrash DEF IndInv
    <2>2. CASE v = w
        BY <1>3, <2>1, <2>2, MoverKeeps
    <2>3. CASE v # w
        BY <1>0, <1>3, <2>1, <2>3, OthersStay, Frame DEF IndInv
    <2> QED
        BY <2>2, <2>3
<1>4. CASE UNCHANGED vars
    <2>1. SameLocals(v) /\ CreditsStay
        BY <1>4 DEF vars, threads, ledger, SameLocals, CreditsStay
    <2> QED
        BY <1>0, <2>1, Frame DEF IndInv
<1> QED
    BY <1>1, <1>2, <1>3, <1>4 DEF Next

LEMMA IndInvInit == Init => IndInv
<1> SUFFICES ASSUME Init PROVE IndInv
    OBVIOUS
<1>1. TypeOK
    BY TypeInit
<1>2. StoreInv /\ LedgerInv /\ (LedgerAtomic => \A a \in Approvals : credits[a] <= 1)
    BY DEF Init, StoreInv, LedgerInv
<1>3. \A w \in Workers : WorkerInv(w)
    BY DEF Init, WorkerInv, Executing, NoReply, Issued
<1> QED
    BY <1>1, <1>2, <1>3 DEF IndInv

LEMMA IndInvNext == IndInv /\ [Next]_vars => IndInv'
<1> SUFFICES ASSUME IndInv, [Next]_vars PROVE IndInv'
    OBVIOUS
<1>1. TypeOK'
    BY TypeNext DEF IndInv
<1> QED
    BY <1>1, StoreStep, LedgerStep, WorkersStep DEF IndInv, Ledgers

(* The inductive invariant holds in every reachable state, with every        *)
(* provider and any number of threads, failures and restarts.                *)
THEOREM Inductive == Spec => []IndInv
BY IndInvInit, IndInvNext, PTL DEF Spec

(* No credit without the approval of somebody who may approve.               *)
THEOREM Approved == Spec => []CreditOnlyAfterApproval
<1>1. IndInv => CreditOnlyAfterApproval
    BY DEF IndInv, StoreInv, LedgerInv, CreditOnlyAfterApproval
<1> QED
    BY <1>1, Inductive, PTL

(* A decision is final.                                                      *)
THEOREM Final == Spec => DecisionsAreFinal
<1>1. IndInv /\ [Next]_vars =>
          [\A a \in Approvals : status[a] \notin {"absent", "pending"} =>
               /\ status'[a] = status[a] \/ (status[a] = "approved" /\ status'[a] = "executed")
               /\ decidedBy'[a] = decidedBy[a]
               /\ subject'[a] = subject[a]
               /\ status[a] = "executed" => stored'[a] = stored[a]]_store
    BY StoreStep DEF Moves
<1> QED
    BY <1>1, Inductive, PTL DEF Spec, DecisionsAreFinal

(* A thread that serves an approve call gives up on a record that stays      *)
(* approved only in a step in which something failed.                        *)
LEMMA GivesUpByFailure ==
    ASSUME IndInv, NEW w \in Workers, pc[w] # "idle", call[w].kind = "approve",
           Serve(w), status'[Target(w)] = "approved"
    PROVE  GivesUp(w) => env' # env
<1>0. TypeOK /\ WorkerInv(w) /\ Target(w) \in Approvals
    BY DEF IndInv, TypeOK, Target, Calls
<1>1. CASE Require(w)
    BY <1>0, <1>1 DEF Require, Goto, GivesUp, TypeOK, store
<1>2. CASE Decide(w)
    <2>1. AlreadyDecidedSo(status[Target(w)], Decision(w)) => status[Target(w)] = "approved"
        BY DEF AlreadyDecidedSo, Decision
    <2>2. CASE status' = status
        BY <1>0, <1>2, <2>1, <2>2
        DEF Decide, AlreadyDecidedSo, Open, Decision, Proceed, Goto, GivesUp, TypeOK
    <2>3. CASE Goto(w, "reread") /\ UNCHANGED <<seen, outcome>>
        BY <1>0, <2>3 DEF Goto, GivesUp, TypeOK
    <2> QED
        BY <1>2, <2>2, <2>3 DEF Decide
<1>3. CASE Reread(w)
    BY <1>0, <1>3 DEF Reread, Proceed, Goto, GivesUp, TypeOK
<1>4. CASE Execute(w)
    <2>1. seen[w] = "approved"
        BY <1>0, <1>4 DEF Execute, WorkerInv, store
    <2>2. Authorize(w, "revalidate")
        BY <1>4, <2>1 DEF Execute, Admissible
    <2> QED
        BY <1>0, <2>2 DEF Authorize, Goto, Fault, GivesUp, TypeOK, env
<1>5. CASE Revalidate(w)
    BY <1>0, <1>5 DEF Revalidate, Authorize, Goto, Fault, GivesUp, TypeOK, env
<1>6. CASE Lookup(w)
    BY <1>0, <1>6 DEF Lookup, Result, Goto, GivesUp, TypeOK
<1>7. CASE Record(w)
    BY <1>0, <1>7 DEF Record, Result, Goto, GivesUp, TypeOK
<1>8. CASE MarkExecuted(w)
    BY <1>0, <1>8 DEF MarkExecuted, ExecutedStatus, Goto, GivesUp, TypeOK
<1>9. CASE Refresh(w)
    BY <1>0, <1>9 DEF Refresh, Done, Answer, GivesUp, WorkerInv, Issued, TypeOK, store
<1> QED
    BY <1>1, <1>2, <1>3, <1>4, <1>5, <1>6, <1>7, <1>8, <1>9 DEF Serve

(* An approved record stays open for approval, with any provider and any     *)
(* number of threads, failures and restarts.                                 *)
THEOREM StaysOpen == Spec => StoppedOnlyByFailure
<1>1. ASSUME IndInv, [Next]_vars, NEW w \in Workers,
             pc[w] # "idle", call[w].kind = "approve", status'[Target(w)] = "approved"
      PROVE  GivesUp(w) => env' # env \/ UNCHANGED vars
    <2>1. faults \in Nat /\ crashes \in Nat
        BY <1>1, ConstantsAssumption DEF IndInv, TypeOK
    <2>2. ASSUME NEW k \in Subjects, RequestCredit(k) PROVE ~GivesUp(w)
        BY <1>1, <2>2 DEF RequestCredit, threads, GivesUp
    <2>3. ASSUME NEW v \in Workers, v # w,
                 \/ Serve(v) \/ ProviderRefuses(v) \/ FailAfterIssue(v)
                 \/ \E c \in Calls : TakeCall(v, c)
          PROVE  ~GivesUp(w)
        BY <1>1, <2>3, OthersStay DEF SameLocals, GivesUp, IndInv
    <2>4. ASSUME NEW c \in Calls PROVE ~TakeCall(w, c)
        BY <1>1 DEF TakeCall
    <2>5. CASE Serve(w)
        BY <1>1, <2>5, GivesUpByFailure
    <2>6. CASE ProviderRefuses(w) \/ FailAfterIssue(w)
        BY <2>1, <2>6 DEF ProviderRefuses, FailAfterIssue, Fail, Fault, env
    <2>7. CASE Crash
        BY <2>1, <2>7 DEF Crash, env
    <2> QED
        BY <1>1, <2>2, <2>3, <2>4, <2>5, <2>6, <2>7 DEF Next
<1>2. IndInv /\ [Next]_vars =>
          [\A w \in Workers :
               pc[w] # "idle" /\ call[w].kind = "approve" /\ status'[Target(w)] = "approved" =>
                   (GivesUp(w) => env' # env)]_vars
    BY <1>1
<1> QED
    BY <1>2, Inductive, PTL DEF Spec, StoppedOnlyByFailure

(* Over a provider that tests and records a key in one step, a logical       *)
(* credit is issued at most once.                                            *)
THEOREM OneCredit == ASSUME LedgerAtomic PROVE Spec => []OneCreditPerSubject
<1>1. IndInv => OneCreditPerSubject
    BY DEF IndInv, StoreInv, LedgerInv, OneCreditPerSubject
<1> QED
    BY <1>1, Inductive, PTL

(* Over a provider that survives restarts, executed means credited.          *)
THEOREM Executed == ASSUME LedgerDurable PROVE Spec => []ExecutedMeansCredited
<1>1. IndInv => ExecutedMeansCredited
    BY DEF IndInv, StoreInv, LedgerInv, ExecutedMeansCredited, Issued
<1> QED
    BY <1>1, Inductive, PTL

(* Over a provider that survives restarts, a reply that says issued is true. *)
THEOREM Honest == ASSUME LedgerDurable PROVE Spec => []HonestReplies
<1>1. IndInv => HonestReplies
    BY DEF IndInv, TypeOK, LedgerInv, WorkerInv, HonestReplies, Issued, Target, Calls
<1> QED
    BY <1>1, Inductive, PTL

--------------------------------------------------------------------------------
(* Refinement. *)

LEMMA LifecycleInit == Init => Lifecycle!Init
BY DEF Init, Lifecycle!Init

LEMMA LifecycleStep ==
    ASSUME LedgerAtomic, LedgerDurable, IndInv, [Next]_vars
    PROVE  [Lifecycle!Next]_(Lifecycle!vars)
<1> USE ConstantsAssumption DEF Lifecycle!vars
<1> DEFINE Quiet == UNCHANGED <<status, subject, decidedBy, credits>>
<1>1. ASSUME NEW k \in Subjects, RequestCredit(k) PROVE Lifecycle!Next
    <2>1. PICK a \in Approvals : /\ status[a] = "absent"
                                 /\ status' = [status EXCEPT ![a] = "pending"]
                                 /\ subject' = [subject EXCEPT ![a] = k]
        BY <1>1 DEF RequestCredit
    <2>2. \A b \in Approvals : subject[b] # k
        BY <1>1 DEF RequestCredit, KnownRequests, IndInv, StoreInv
    <2>3. Lifecycle!Request(a, k)
        BY <1>1, <2>1, <2>2 DEF RequestCredit, ledger, Lifecycle!Request
    <2> QED
        BY <2>3 DEF Lifecycle!Next
<1>2. ASSUME NEW w \in Workers, Decide(w) PROVE Lifecycle!Next \/ Quiet
    <2>1. /\ Target(w) \in Approvals /\ call[w].operator \in Approvers
          /\ Decision(w) \in {"approved", "denied"} /\ UNCHANGED <<subject, credits>>
        BY <1>2 DEF IndInv, TypeOK, WorkerInv, Decide, Target, Calls, Decision, ledger
    <2>2. CASE UNCHANGED <<status, decidedBy>>
        BY <2>1, <2>2
    <2>3. CASE /\ Open(status[Target(w)])
               /\ status' = [status EXCEPT ![Target(w)] = Decision(w)]
               /\ decidedBy' = [decidedBy EXCEPT ![Target(w)] = call[w].operator]
        <3>1. Lifecycle!Decide(Target(w), Decision(w), call[w].operator)
            BY <2>1, <2>3 DEF Lifecycle!Decide, Open
        <3> QED
            BY <2>1, <3>1 DEF Lifecycle!Next
    <2> QED
        BY <1>2, <2>2, <2>3 DEF Decide
<1>3. ASSUME NEW w \in Workers, Lookup(w) \/ Record(w) PROVE Lifecycle!Next \/ Quiet
    <2>1. /\ Target(w) \in Approvals /\ status[Target(w)] \in {"approved", "executed"}
          /\ UNCHANGED <<status, subject, decidedBy>>
        BY <1>3 DEF Lookup, Record, IndInv, TypeOK, WorkerInv, Executing, Target, Calls, store
    <2>2. CASE UNCHANGED ledger
        BY <2>1, <2>2 DEF ledger
    <2>3. CASE IssueCredit(Target(w)) /\ Target(w) \notin keys
        <3>1. credits[Target(w)] = 0 /\ status[Target(w)] = "approved"
            BY <2>1, <2>3 DEF IndInv, LedgerInv, TypeOK
        <3>2. Lifecycle!Issue(Target(w))
            BY <2>1, <2>3, <3>1 DEF Lifecycle!Issue, IssueCredit
        <3> QED
            BY <2>1, <3>2 DEF Lifecycle!Next
    <2> QED
        BY <1>3, <2>2, <2>3 DEF Lookup, Record, KeyKnown, IndInv, WorkerInv
<1>4. ASSUME NEW w \in Workers, MarkExecuted(w) PROVE Lifecycle!Next \/ Quiet
    <2>1. /\ Target(w) \in Approvals /\ credits[Target(w)] = 1
          /\ UNCHANGED <<subject, decidedBy, credits>>
        BY <1>4 DEF IndInv, TypeOK, WorkerInv, MarkExecuted, Target, Calls, ledger
    <2>2. CASE UNCHANGED status
        BY <2>1, <2>2
    <2>3. CASE /\ status[Target(w)] = "approved"
               /\ status' = [status EXCEPT ![Target(w)] = "executed"]
        <3>1. Lifecycle!Execute(Target(w))
            BY <2>1, <2>3 DEF Lifecycle!Execute
        <3> QED
            BY <2>1, <3>1 DEF Lifecycle!Next
    <2> QED
        BY <1>4, <2>2, <2>3 DEF MarkExecuted, ExecutedStatus
<1>5. CASE UNCHANGED store /\ UNCHANGED ledger
    BY <1>5 DEF store, ledger
<1>6. CASE Crash
    BY <1>6 DEF Crash, store, ledger
<1> QED
    BY <1>1, <1>2, <1>3, <1>4, <1>5, <1>6, StoreWriters, LedgerWriters

(* Over a durable provider with atomic idempotency the threads, failures and *)
(* restarts of the workflow implement the abstract life cycle.               *)
THEOREM Refinement == ASSUME LedgerAtomic, LedgerDurable PROVE Spec => ImplementsLifecycle
<1>1. IndInv /\ [Next]_vars => [Lifecycle!Next]_(Lifecycle!vars)
    BY LifecycleStep
<1> QED
    BY <1>1, LifecycleInit, Inductive, PTL DEF Spec, ImplementsLifecycle, Lifecycle!Spec

--------------------------------------------------------------------------------
(* How many credits a ledger can hold that tests and records a key in two    *)
(* steps: each credit of an approval was recorded by a worker that had       *)
(* looked before the first of them was recorded.                             *)
Recorders(a) == {w \in Workers : pc[w] = "record" /\ Target(w) = a}

OverlapInv ==
    \A a \in Approvals :
        a \in keys => credits[a] + Cardinality(Recorders(a)) <= Cardinality(Workers)

LEMMA RecordersFinite ==
    \A a : IsFiniteSet(Recorders(a)) /\ Cardinality(Recorders(a)) \in Nat
BY ConstantsAssumption, FS_Subset, FS_CardinalityType DEF Recorders

(* Nobody starts to record a key that is known.                              *)
LEMMA RecordersShrink ==
    ASSUME IndInv, [Next]_vars, NEW a \in keys PROVE Recorders(a)' \subseteq Recorders(a)
<1> SUFFICES ASSUME NEW v \in Workers, v \in Recorders(a)' PROVE v \in Recorders(a)
    BY DEF Recorders
<1>1. ASSUME SameLocals(v) PROVE v \in Recorders(a)
    BY <1>1 DEF SameLocals, Recorders, Target
<1>2. ASSUME NEW w \in Workers,
             \/ Serve(w) \/ ProviderRefuses(w) \/ FailAfterIssue(w)
             \/ \E c \in Calls : TakeCall(w, c)
      PROVE  v \in Recorders(a)
    <2>1. CASE v # w
        BY <1>1, <1>2, <2>1, OthersStay DEF IndInv
    <2>2. CASE v = w
        <3>1. pc'[w] = "record"
            BY <2>2 DEF Recorders
        <3>2. pc'[w] # "record"
            BY <1>2, <2>2, <3>1
               DEF IndInv, TypeOK, Recorders, Serve, Require, Decide, Proceed, Reread, Execute,
                   Authorize, Revalidate, Lookup, Record, MarkExecuted, Refresh,
                   ProviderRefuses, FailAfterIssue, Fail, TakeCall, Goto, Done, Answer,
                   Target, KeyKnown
        <3> QED
            BY <3>1, <3>2
    <2> QED
        BY <2>1, <2>2
<1>3. ASSUME UNCHANGED threads PROVE v \in Recorders(a)
    BY <1>1, <1>3 DEF threads, SameLocals
<1>4. ~Crash
    BY DEF Crash, Recorders
<1> QED
    BY <1>2, <1>3, <1>4 DEF Next, RequestCredit, vars

(* A worker that issues a credit is not a recorder afterwards.               *)
LEMMA IssuerLeaves ==
    ASSUME IndInv, NEW w \in Workers, Lookup(w) \/ Record(w),
           NEW a \in Approvals, a = Target(w), IssueCredit(a)
    PROVE  /\ w \notin Recorders(a)'
           /\ a \in keys => w \in Recorders(a)
BY DEF IndInv, TypeOK, Lookup, Record, IssueCredit, Goto, Recorders, Target, Calls, KeyKnown, ledger

LEMMA OverlapStep == ASSUME IndInv, OverlapInv, [Next]_vars PROVE OverlapInv'
<1> SUFFICES ASSUME NEW a \in Approvals, a \in keys'
             PROVE  credits'[a] + Cardinality(Recorders(a)') <= Cardinality(Workers)
    BY DEF OverlapInv
<1> USE ConstantsAssumption
<1>0. /\ credits[a] \in Nat /\ Cardinality(Workers) \in Nat
      /\ IsFiniteSet(Recorders(a)) /\ Cardinality(Recorders(a)) \in Nat
      /\ IsFiniteSet(Recorders(a)') /\ Cardinality(Recorders(a)') \in Nat
      /\ Recorders(a)' \subseteq Workers
    <2>1. Recorders(a)' \subseteq Workers
        BY DEF Recorders
    <2> QED
        BY <2>1, RecordersFinite, FS_Subset, FS_CardinalityType DEF IndInv, TypeOK
<1>1. CASE credits'[a] = credits[a] /\ a \in keys
    <2>1. Cardinality(Recorders(a)') <= Cardinality(Recorders(a))
        BY <1>0, <1>1, RecordersShrink, FS_Subset
    <2> QED
        BY <1>0, <1>1, <2>1 DEF OverlapInv
<1>2. ASSUME NEW w \in Workers, Lookup(w) \/ Record(w), IssueCredit(Target(w)), a = Target(w)
      PROVE  credits'[a] + Cardinality(Recorders(a)') <= Cardinality(Workers)
    <2>1. credits'[a] = credits[a] + 1 /\ w \notin Recorders(a)'
        BY <1>2, IssuerLeaves DEF IssueCredit, IndInv, TypeOK
    <2>2. CASE a \in keys
        <3>1. Recorders(a)' \subseteq Recorders(a) \ {w} /\ w \in Recorders(a)
            BY <1>2, <2>1, <2>2, RecordersShrink, IssuerLeaves
        <3>2. Cardinality(Recorders(a) \ {w}) = Cardinality(Recorders(a)) - 1
            BY <1>0, <3>1, FS_RemoveElement
        <3>3. Cardinality(Recorders(a)') <= Cardinality(Recorders(a) \ {w})
            BY <1>0, <3>1, FS_Subset, FS_RemoveElement
        <3> QED
            BY <1>0, <2>1, <2>2, <3>2, <3>3 DEF OverlapInv
    <2>3. CASE a \notin keys
        <3>1. credits[a] = 0
            BY <1>0, <2>3 DEF IndInv, LedgerInv
        <3>2. Cardinality(Workers \ {w}) = Cardinality(Workers) - 1
            BY <1>0, FS_RemoveElement
        <3>3. Cardinality(Recorders(a)') <= Cardinality(Workers \ {w})
            BY <1>0, <2>1, FS_Subset, FS_RemoveElement
        <3> QED
            BY <1>0, <2>1, <3>1, <3>2, <3>3
    <2> QED
        BY <2>2, <2>3
<1>3. CASE UNCHANGED ledger
    BY <1>1, <1>3 DEF ledger
<1>4. ASSUME NEW w \in Workers, Lookup(w) \/ Record(w)
      PROVE  credits'[a] + Cardinality(Recorders(a)') <= Cardinality(Workers)
    <2>1. CASE IssueCredit(Target(w)) /\ a # Target(w)
        BY <1>1, <2>1 DEF IssueCredit, IndInv, TypeOK
    <2> QED
        BY <1>2, <1>3, <1>4, <2>1 DEF Lookup, Record
<1>5. CASE Crash
    BY <1>3, <1>5 DEF Crash
<1> QED
    BY <1>3, <1>4, <1>5, LedgerWriters

(* The ledger as it is, in the process and without a lock: however often an  *)
(* approval is retried, it is credited at most once per thread of the pool.  *)
THEOREM Overlap == Spec => []DuplicatesOnlyByOverlap
<1>1. Init => OverlapInv
    BY DEF Init, OverlapInv
<1>2. IndInv /\ OverlapInv => DuplicatesOnlyByOverlap
    BY RecordersFinite, ConstantsAssumption, FS_CardinalityType
       DEF IndInv, TypeOK, LedgerInv, OverlapInv, DuplicatesOnlyByOverlap
<1>3. IndInv /\ OverlapInv /\ [Next]_vars => OverlapInv'
    BY OverlapStep
<1> QED
    BY <1>1, <1>2, <1>3, Inductive, PTL DEF Spec

--------------------------------------------------------------------------------
(* What goes wrong in this workflow takes two threads. A thread that serves  *)
(* an approve call has seen a record that was not executed before it         *)
(* decides, and no other thread is there to execute it meanwhile.            *)
Alone == \A v, w \in Workers : v = w

UndecidedInv ==
    \A w \in Workers : pc[w] = "decide" /\ call[w].kind = "approve" =>
        status[Target(w)] # "executed"

(* A record becomes executed only at a thread that then answers its call.    *)
LEMMA AloneStep ==
    ASSUME Alone, IndInv, UndecidedInv, ConflictOnlyIfDenied, [Next]_vars
    PROVE  UndecidedInv' /\ ConflictOnlyIfDenied'
<1> SUFFICES ASSUME NEW w \in Workers
             PROVE  /\ pc'[w] = "decide" /\ call'[w].kind = "approve" =>
                            status'[call'[w].approval] # "executed"
                    /\ reply'[w].code = 409 /\ call'[w].kind = "approve" =>
                            reply'[w].approval = "denied"
    BY DEF UndecidedInv, ConflictOnlyIfDenied, Target
<1>0. /\ pc[w] = "decide" /\ call[w].kind = "approve" => status[Target(w)] # "executed"
      /\ reply[w].code = 409 /\ call[w].kind = "approve" => reply[w].approval = "denied"
      /\ TypeOK /\ WorkerInv(w)
    BY DEF UndecidedInv, ConflictOnlyIfDenied, IndInv
<1>1. CASE UNCHANGED vars
    BY <1>0, <1>1 DEF vars, store, threads, Target
<1>2. ASSUME NEW k \in Subjects, RequestCredit(k)
      PROVE  /\ UNCHANGED threads
             /\ \A a \in Approvals : status'[a] = "executed" => status[a] = "executed"
    BY <1>0, <1>2 DEF RequestCredit, TypeOK, threads
<1>3. CASE \E k \in Subjects : RequestCredit(k)
    BY <1>0, <1>2, <1>3 DEF threads, Target, TypeOK, Calls
<1>4. ASSUME NEW c \in Calls, TakeCall(w, c)
      PROVE  reply'[w].code \in {0, 403} /\ (pc'[w] = "decide" => call'[w].kind # "approve")
    BY <1>0, <1>4 DEF TakeCall, TypeOK, NoReply
<1>5. CASE Require(w) \/ Decide(w)
    BY <1>0, <1>5 DEF Require, Decide, TypeOK, Goto, Done, Answer, Proceed, Open, AlreadyDecidedSo,
                      Decision, Target, Calls, store, Statuses
<1>6. CASE Reread(w) \/ Execute(w) \/ Revalidate(w) \/ Lookup(w) \/ Record(w)
    BY <1>0, <1>6 DEF Reread, Execute, Revalidate, Lookup, Record, TypeOK, WorkerInv, Proceed,
                      Authorize, Goto, Done, Answer, Executing
<1>7. CASE MarkExecuted(w) \/ Refresh(w) \/ ProviderRefuses(w) \/ FailAfterIssue(w)
    BY <1>0, <1>7 DEF MarkExecuted, Refresh, ProviderRefuses, FailAfterIssue, Fail, TypeOK,
                      Goto, Done, Answer
<1>8. CASE Crash
    BY <1>8 DEF Crash, NoReply
<1> QED
    BY <1>1, <1>3, <1>4, <1>5, <1>6, <1>7, <1>8 DEF Next, Serve, Alone

(* With one thread, that is when calls are served one after the other, both  *)
(* promises of the documentation are kept, by every provider: a credit is    *)
(* not duplicated although the ledger tests and records a key in two steps,  *)
(* and a repeated approval is a replay, never a conflict (main.py approve,   *)
(* credit_ledger.py issue). The two runs that expect a violation show that   *)
(* two threads are enough to break them.                                     *)
THEOREM OneThreadKeepsPromises ==
    Alone => (Spec => [](OneCreditPerSubject /\ ConflictOnlyIfDenied))
<1> SUFFICES ASSUME Alone PROVE Spec => [](OneCreditPerSubject /\ ConflictOnlyIfDenied)
    OBVIOUS
<1>1. Init => UndecidedInv /\ ConflictOnlyIfDenied
    BY DEF Init, UndecidedInv, ConflictOnlyIfDenied, NoReply
<1>2. IndInv /\ UndecidedInv /\ ConflictOnlyIfDenied /\ [Next]_vars
          => (UndecidedInv /\ ConflictOnlyIfDenied)'
    BY AloneStep
<1>3. Cardinality(Workers) <= 1
    <2>1. CASE Workers = {}
        BY <2>1, FS_EmptySet
    <2>2. ASSUME NEW w \in Workers PROVE Cardinality(Workers) <= 1
        <3>1. Workers = {w}
            BY DEF Alone
        <3>2. Cardinality({w}) = 1
            BY FS_Singleton
        <3> QED
            BY <3>1, <3>2
    <2> QED
        BY <2>1, <2>2
<1>4. IndInv /\ DuplicatesOnlyByOverlap => OneCreditPerSubject
    BY <1>3, ConstantsAssumption, FS_CardinalityType
       DEF IndInv, TypeOK, StoreInv, LedgerInv, DuplicatesOnlyByOverlap, OneCreditPerSubject
<1> QED
    BY <1>1, <1>2, <1>4, Inductive, Overlap, PTL DEF Spec

--------------------------------------------------------------------------------
(* Every call is answered. *)

(* A thread at a step.                                                       *)
At(w, step) == pc[w] = step

(* Where a thread can be when it was at one of these steps and has moved on. *)
After(step) ==
    CASE step = "require" -> {"decide", "idle"}
      [] step = "decide" -> {"reread", "execute", "idle"}
      [] step = "reread" -> {"execute", "idle"}
      [] step = "execute" -> {"revalidate", "refresh", "idle"}
      [] step = "revalidate" -> {"lookup", "refresh", "idle"}
      [] step = "lookup" -> {"record", "settle", "idle"}
      [] step = "record" -> {"settle", "idle"}
      [] step = "settle" -> {"refresh", "idle"}
      [] step = "refresh" -> {"idle"}

(* A thread past a step.                                                     *)
Past(w, step) == pc[w] \in After(step)

(* In the end the thread is past the step, in the end it has answered.       *)
Leaves(w, step) == At(w, step) ~> Past(w, step)
Answers(w) == ~At(w, "idle") ~> At(w, "idle")

(* A call only moves on: its thread stays where it is, or is further on. And *)
(* if it is the thread that is scheduled, it does not stay.                  *)
LEMMA CallMoves ==
    ASSUME TypeOK, NEW w \in Workers, NEW step \in Steps \ {"idle"}, pc[w] = step
    PROVE  /\ [Next]_vars => pc'[w] \in {step} \cup After(step)
           /\ Serve(w) => pc'[w] \in After(step)
<1>1. Serve(w) => pc'[w] \in After(step)
    BY DEF TypeOK, After, Serve, Require, Decide, Reread, Execute, Revalidate, Lookup, Record,
           MarkExecuted, Refresh, Proceed, Authorize, Goto, Done, Answer
<1>2. UNCHANGED vars => pc'[w] = pc[w]
    BY DEF vars, threads
<1>3. \A k \in Subjects : RequestCredit(k) => pc'[w] = pc[w]
    BY DEF RequestCredit, threads
<1>4. Crash => pc'[w] = "idle"
    BY DEF Crash
<1>5. ASSUME NEW v \in Workers, NEW c \in Calls, TakeCall(v, c) PROVE pc'[w] = pc[w]
    BY <1>5 DEF TakeCall, TypeOK
<1>6. ASSUME NEW v \in Workers, ProviderRefuses(v) \/ FailAfterIssue(v)
      PROVE  pc'[w] \in {pc[w], "idle"}
    BY <1>6 DEF ProviderRefuses, FailAfterIssue, Fail, Done, Answer, TypeOK
<1>7. ASSUME NEW v \in Workers, v # w, Serve(v) PROVE pc'[w] = pc[w]
    BY <1>7 DEF TypeOK, Serve, Require, Decide, Reread, Execute, Revalidate, Lookup, Record,
                MarkExecuted, Refresh, Proceed, Authorize, Goto, Done, Answer
<1>8. "idle" \in After(step)
    BY DEF After
<1>9. [Next]_vars => pc'[w] \in {step} \cup After(step)
    BY <1>1, <1>2, <1>3, <1>4, <1>5, <1>6, <1>7, <1>8 DEF Next
<1> QED
    BY <1>1, <1>9

(* A thread that is scheduled leaves the step it is at, for a later one: it  *)
(* is never stuck there, and no step of another takes it back.               *)
LEMMA StepEnds ==
    ASSUME NEW w \in Workers, NEW step \in Steps \ {"idle"}
    PROVE  Spec /\ Scheduled(w) /\ []ThreadsNeverStuck => Leaves(w, step)
<1>1. TypeOK /\ At(w, step) /\ [Next]_vars => At(w, step)' \/ Past(w, step)'
    BY CallMoves DEF At, Past, After
<1>2. TypeOK /\ At(w, step) /\ <<Serve(w)>>_vars => Past(w, step)'
    BY CallMoves DEF At, Past, After
<1>3. ThreadsNeverStuck /\ At(w, step) => ENABLED <<Serve(w)>>_vars
    BY DEF ThreadsNeverStuck, At
<1> QED
    BY <1>1, <1>2, <1>3, TypeCorrect, PTL DEF Spec, Scheduled, Leaves

(* The steps of a call, the last first: each leads to a later one or to the  *)
(* answer, hence to the answer.                                              *)
LEMMA CallEnds ==
    ASSUME NEW w \in Workers
    PROVE  Spec /\ Scheduled(w) /\ []ThreadsNeverStuck => Answers(w)
<1>1. Spec /\ Scheduled(w) /\ []ThreadsNeverStuck =>
          /\ Leaves(w, "require")
          /\ Leaves(w, "decide")
          /\ Leaves(w, "reread")
          /\ Leaves(w, "execute")
          /\ Leaves(w, "revalidate")
          /\ Leaves(w, "lookup")
          /\ Leaves(w, "record")
          /\ Leaves(w, "settle")
          /\ Leaves(w, "refresh")
    BY StepEnds DEF Steps
<1>2. /\ Past(w, "refresh") => At(w, "idle")
      /\ Past(w, "settle") => At(w, "refresh") \/ At(w, "idle")
      /\ Past(w, "record") => At(w, "settle") \/ At(w, "idle")
      /\ Past(w, "lookup") => At(w, "record") \/ At(w, "settle") \/ At(w, "idle")
      /\ Past(w, "revalidate") => At(w, "lookup") \/ At(w, "refresh") \/ At(w, "idle")
      /\ Past(w, "execute") => At(w, "revalidate") \/ At(w, "refresh") \/ At(w, "idle")
      /\ Past(w, "reread") => At(w, "execute") \/ At(w, "idle")
      /\ Past(w, "decide") => At(w, "reread") \/ At(w, "execute") \/ At(w, "idle")
      /\ Past(w, "require") => At(w, "decide") \/ At(w, "idle")
    BY DEF At, Past, After
<1>3. TypeOK => \/ At(w, "require") \/ At(w, "decide") \/ At(w, "reread")
                \/ At(w, "execute") \/ At(w, "revalidate") \/ At(w, "lookup")
                \/ At(w, "record") \/ At(w, "settle") \/ At(w, "refresh")
                \/ At(w, "idle")
    BY DEF TypeOK, At, Steps
<1> QED
    BY <1>1, <1>2, <1>3, TypeCorrect, PTL DEF Leaves, Answers

(* Every call is answered, or dies in a restart: if the thread pool          *)
(* schedules its threads and no thread is ever left without a next step,     *)
(* which the run approval_liveness checks, a call takes at most nine steps   *)
(* to its answer, whatever the other threads do (main.py approve and deny).  *)
THEOREM CallsAnswered == FairSpec /\ []ThreadsNeverStuck => EveryCallAnswered
<1> SUFFICES ASSUME NEW w \in Workers
             PROVE  FairSpec /\ []ThreadsNeverStuck
                        => (pc[w] # "idle" ~> pc[w] = "idle")
    BY DEF EveryCallAnswered
<1>1. FairSpec => Spec /\ Scheduled(w)
    BY DEF FairSpec
<1>2. pc[w] # "idle" => ~At(w, "idle")
    BY DEF At
<1>3. At(w, "idle") => pc[w] = "idle"
    BY DEF At
<1>4. Spec /\ Scheduled(w) /\ []ThreadsNeverStuck => Answers(w)
    BY CallEnds
<1> QED
    BY <1>1, <1>2, <1>3, <1>4, PTL DEF Answers

--------------------------------------------------------------------------------
(* An approved credit is executed. *)

(* Nothing fails and the application does not restart, from now on.          *)
Undisturbed == [][UNCHANGED env]_vars

(* ... and what holds of every behaviour from any moment on.                 *)
Course == []IndInv /\ [][Next]_vars /\ []ThreadsNeverStuck /\ Undisturbed

(* In the end nothing does any more. The model's bounds on faults and        *)
(* restarts make it so; of the program it is a hypothesis.                   *)
FailuresCease == <>Undisturbed

Completed(a) == status[a] = "executed"
WillComplete(a) == <>Completed(a)

(* A thread on its way, at this step, to execute an approved record.         *)
Tries(w, a, step) ==
    /\ At(w, step)
    /\ call[w].kind = "approve" /\ Target(w) = a
    /\ status[a] = "approved"
    /\ step = "execute" => seen[w] = "approved"

(* The steps of such a thread, and where each of them takes it.              *)
Way == {"require", "decide", "execute", "revalidate", "lookup", "record", "settle"}

Onward(w, a, step) ==
    \/ step = "require" /\ Tries(w, a, "decide")
    \/ step = "decide" /\ Tries(w, a, "execute")
    \/ step = "execute" /\ Tries(w, a, "revalidate")
    \/ step = "revalidate" /\ Tries(w, a, "lookup")
    \/ step = "lookup" /\ (Tries(w, a, "record") \/ Tries(w, a, "settle"))
    \/ step = "record" /\ Tries(w, a, "settle")

(* The thread's own step takes it there, unless another has executed the     *)
(* record meanwhile, ...                                                     *)
LEMMA OwnStep ==
    ASSUME IndInv, NEW w \in Workers, NEW a \in Approvals, NEW step \in Way,
           Tries(w, a, step), Serve(w), UNCHANGED env
    PROVE  Onward(w, a, step)' \/ Completed(a)'
<1>0. /\ faults \in Nat /\ faults' = faults
      /\ pc \in [Workers -> Steps] /\ pc[w] = step
      /\ seen \in [Workers -> Statuses]
      /\ status \in [Approvals -> Statuses] /\ status[a] = "approved"
      /\ call[w].kind = "approve" /\ call[w].approval = a
      /\ step = "execute" => seen[w] = "approved"
    BY ConstantsAssumption DEF Tries, At, IndInv, TypeOK, Target, env
<1>1. ASSUME NEW next \in Steps, Goto(w, next), status'[a] = "approved",
             next = "execute" => seen'[w] = "approved"
      PROVE  Tries(w, a, next)'
    BY <1>0, <1>1 DEF Goto, Tries, At, Target
<1>2. CASE step = "require"
    <2>1. Require(w)
        BY <1>0, <1>2 DEF Serve, Require, Decide, Reread, Execute, Revalidate, Lookup, Record,
                          MarkExecuted, Refresh
    <2>2. Goto(w, "decide") /\ status' = status
        BY <1>0, <2>1 DEF Require, Target, store
    <2> QED
        BY <1>0, <1>1, <1>2, <2>2 DEF Onward
<1>3. CASE step = "decide"
    <2>1. Decide(w)
        BY <1>0, <1>3 DEF Serve, Require, Decide, Reread, Execute, Revalidate, Lookup, Record,
                          MarkExecuted, Refresh
    <2>2. Proceed(w, "approved") /\ status' = status
        BY <1>0, <2>1 DEF Decide, Target, Decision, AlreadyDecidedSo, Open
    <2>3. Goto(w, "execute") /\ seen'[w] = "approved"
        BY <1>0, <2>2 DEF Proceed
    <2> QED
        BY <1>0, <1>1, <1>3, <2>2, <2>3 DEF Onward
<1>4. ASSUME NEW next \in Steps, Authorize(w, next) PROVE Goto(w, next)
    BY <1>0, <1>4 DEF Authorize, Fault
<1>5. CASE step = "execute"
    <2>1. Execute(w)
        BY <1>0, <1>5 DEF Serve, Require, Decide, Reread, Execute, Revalidate, Lookup, Record,
                          MarkExecuted, Refresh
    <2>2. Goto(w, "revalidate") /\ status' = status
        BY <1>0, <1>4, <1>5, <2>1 DEF Execute, Admissible, store
    <2> QED
        BY <1>0, <1>1, <1>5, <2>2 DEF Onward
<1>6. CASE step = "revalidate"
    <2>1. Revalidate(w)
        BY <1>0, <1>6 DEF Serve, Require, Decide, Reread, Execute, Revalidate, Lookup, Record,
                          MarkExecuted, Refresh
    <2>2. Goto(w, "lookup") /\ status' = status
        BY <1>4, <2>1 DEF Revalidate, store
    <2> QED
        BY <1>0, <1>1, <1>6, <2>2 DEF Onward
<1>7. CASE step = "lookup"
    <2>1. Lookup(w)
        BY <1>0, <1>7 DEF Serve, Require, Decide, Reread, Execute, Revalidate, Lookup, Record,
                          MarkExecuted, Refresh
    <2>2. (Goto(w, "settle") \/ Goto(w, "record")) /\ status' = status
        BY <2>1 DEF Lookup, store
    <2> QED
        BY <1>0, <1>1, <1>7, <2>2 DEF Onward
<1>8. CASE step = "record"
    <2>1. Record(w)
        BY <1>0, <1>8 DEF Serve, Require, Decide, Reread, Execute, Revalidate, Lookup, Record,
                          MarkExecuted, Refresh
    <2>2. Goto(w, "settle") /\ status' = status
        BY <2>1 DEF Record, store
    <2> QED
        BY <1>0, <1>1, <1>8, <2>2 DEF Onward
<1>9. CASE step = "settle"
    <2>1. MarkExecuted(w)
        BY <1>0, <1>9 DEF Serve, Require, Decide, Reread, Execute, Revalidate, Lookup, Record,
                          MarkExecuted, Refresh
    <2>2. status' = [status EXCEPT ![a] = "executed"]
        BY <1>0, <2>1 DEF MarkExecuted, Target, ExecutedStatus
    <2> QED
        BY <1>0, <2>2 DEF Completed
<1> QED
    BY <1>2, <1>3, <1>5, <1>6, <1>7, <1>8, <1>9 DEF Way

(* ... and nobody else's step takes the thread off its way.                  *)
LEMMA OthersStep ==
    ASSUME IndInv, [Next]_vars, NEW w \in Workers, NEW a \in Approvals, NEW step \in Way,
           Tries(w, a, step), UNCHANGED env, ~Serve(w)
    PROVE  Tries(w, a, step)' \/ Completed(a)'
<1>0. faults \in Nat /\ faults' = faults /\ crashes \in Nat /\ crashes' = crashes
    BY ConstantsAssumption DEF IndInv, TypeOK, env
<1>1. status'[a] \in {"approved", "executed"}
    BY StoreStep DEF Moves, Tries
<1>2. ASSUME SameLocals(w) PROVE Tries(w, a, step)' \/ Completed(a)'
    BY <1>1, <1>2 DEF SameLocals, Tries, At, Target, Completed
<1>3. ASSUME NEW v \in Workers, v # w, Serve(v) \/ \E c \in Calls : TakeCall(v, c)
      PROVE  SameLocals(w)
    BY <1>3, OthersStay DEF IndInv
<1>4. ~\E v \in Workers : ProviderRefuses(v) \/ FailAfterIssue(v)
    BY <1>0 DEF ProviderRefuses, FailAfterIssue, Fail, Fault
<1>5. ~Crash
    BY <1>0 DEF Crash
<1>6. ~\E c \in Calls : TakeCall(w, c)
    BY DEF TakeCall, Tries, At, Way
<1>7. UNCHANGED threads => SameLocals(w)
    BY DEF threads, SameLocals
<1> QED
    BY <1>2, <1>3, <1>4, <1>5, <1>6, <1>7 DEF Next, RequestCredit, vars

(* A thread at this step of its way is taken further, or its record executed.*)
Leads(w, a, step) == Tries(w, a, step) ~> (Onward(w, a, step) \/ Completed(a))

LEMMA TryLeads ==
    ASSUME NEW w \in Workers, NEW a \in Approvals, NEW step \in Way
    PROVE  Course /\ Scheduled(w) => Leads(w, a, step)
<1>1. IndInv /\ Tries(w, a, step) /\ [Next]_vars /\ [UNCHANGED env]_vars
          => Tries(w, a, step)' \/ Onward(w, a, step)' \/ Completed(a)'
    <2> SUFFICES ASSUME IndInv, Tries(w, a, step), [Next]_vars, [UNCHANGED env]_vars
                 PROVE  Tries(w, a, step)' \/ Onward(w, a, step)' \/ Completed(a)'
        OBVIOUS
    <2>1. UNCHANGED env
        BY DEF vars, env
    <2> QED
        BY <2>1, OwnStep, OthersStep
<1>2. IndInv /\ Tries(w, a, step) /\ <<Serve(w)>>_vars /\ [UNCHANGED env]_vars
          => Onward(w, a, step)' \/ Completed(a)'
    <2> SUFFICES ASSUME IndInv, Tries(w, a, step), <<Serve(w)>>_vars, [UNCHANGED env]_vars
                 PROVE  Onward(w, a, step)' \/ Completed(a)'
        OBVIOUS
    <2>1. UNCHANGED env
        BY DEF vars, env
    <2> QED
        BY <2>1, OwnStep
<1>3. ThreadsNeverStuck /\ Tries(w, a, step) => ENABLED <<Serve(w)>>_vars
    BY DEF ThreadsNeverStuck, Tries, At, Way
<1> QED
    BY <1>1, <1>2, <1>3, PTL DEF Course, Scheduled, Undisturbed, Leads

(* Approving again an approved record leads to its execution, along every    *)
(* step of the way, the last first.                                          *)
LEMMA TryEnds ==
    ASSUME NEW w \in Workers, NEW a \in Approvals
    PROVE  Course /\ Scheduled(w) /\ Tries(w, a, "require") => WillComplete(a)
<1>1. Course /\ Scheduled(w) =>
          /\ Leads(w, a, "require")
          /\ Leads(w, a, "decide")
          /\ Leads(w, a, "execute")
          /\ Leads(w, a, "revalidate")
          /\ Leads(w, a, "lookup")
          /\ Leads(w, a, "record")
          /\ Leads(w, a, "settle")
    BY TryLeads DEF Way
<1>2. /\ Onward(w, a, "require") => Tries(w, a, "decide")
      /\ Onward(w, a, "decide") => Tries(w, a, "execute")
      /\ Onward(w, a, "execute") => Tries(w, a, "revalidate")
      /\ Onward(w, a, "revalidate") => Tries(w, a, "lookup")
      /\ Onward(w, a, "lookup") => Tries(w, a, "record") \/ Tries(w, a, "settle")
      /\ Onward(w, a, "record") => Tries(w, a, "settle")
      /\ ~Onward(w, a, "settle")
    BY DEF Onward
<1> QED
    BY <1>1, <1>2, PTL DEF Leads, WillComplete

(* Some thread has just been asked to approve an approved record again.      *)
IsApproved(a) == status[a] = "approved"
Attempt(a) == \E w \in Workers : Tries(w, a, "require")
AllScheduled == \A w \in Workers : Scheduled(w)

LEMMA AttemptEnds ==
    ASSUME NEW a \in Approvals
    PROVE  Course /\ AllScheduled /\ Attempt(a) => WillComplete(a)
BY TryEnds DEF AllScheduled, Attempt

(* Without threads nobody decides.                                           *)
LEMMA NoThreads ==
    ASSUME NEW a \in Approvals, Workers = {}
    PROVE  Spec => []~IsApproved(a)
<1>1. Init => ~IsApproved(a)
    BY DEF Init, IsApproved
<1>2. IndInv /\ ~IsApproved(a) /\ [Next]_vars => ~IsApproved(a)'
    BY StoreWriters DEF IsApproved, store, RequestCredit, IndInv, TypeOK
<1> QED
    BY <1>1, <1>2, Inductive, PTL DEF Spec

(* Asking again makes an attempt of a free thread, and can be done as long   *)
(* as the record is not executed.                                            *)
LEMMA RetryAttempts ==
    ASSUME NEW a \in Approvals, IndInv, <<Retry(a)>>_vars
    PROVE  Attempt(a)'
<1>1. PICK w \in Workers, c \in Calls :
          /\ c.kind = "approve" /\ c.approval = a /\ c.operator \in Approvers
          /\ status[a] = "approved"
          /\ TakeCall(w, c)
    BY DEF Retry
<1>2. pc'[w] = "require" /\ call'[w] = c /\ status' = status
    BY <1>1 DEF TakeCall, MayDecide, IndInv, TypeOK, store
<1>3. Tries(w, a, "require")'
    BY <1>1, <1>2 DEF Tries, At, Target
<1> QED
    BY <1>3 DEF Attempt

LEMMA StaysApproved ==
    ASSUME NEW a \in Approvals, IndInv, [Next]_vars, IsApproved(a)
    PROVE  IsApproved(a)' \/ Completed(a)'
BY StoreStep DEF Moves, IsApproved, Completed

(* A free thread takes the call of an operator who asks again. This is what  *)
(* the guards of TakeCall and Retry say, but it says it with ENABLED, which  *)
(* the prover cannot unfold: it is a hypothesis of the theorem below.        *)
RetryPossible ==
    \A a \in Approvals :
        status[a] = "approved" /\ (\E w \in Workers : pc[w] = "idle")
            => ENABLED <<Retry(a)>>_vars

(* Since some thread is free again and again, the operator goes on asking    *)
(* until the record is executed; and one attempt after the last failure is   *)
(* enough.                                                                   *)
LEMMA ApprovedEnds ==
    ASSUME NEW a \in Approvals, NEW w \in Workers
    PROVE  Spec /\ []AllScheduled /\ Persistent(a) /\ Answers(w)
               /\ []ThreadsNeverStuck /\ []RetryPossible /\ FailuresCease
               => (IsApproved(a) ~> Completed(a))
<1>1. RetryPossible /\ IsApproved(a) /\ At(w, "idle") => ENABLED <<Retry(a)>>_vars
    BY DEF RetryPossible, IsApproved, At
<1>2. IndInv /\ <<Retry(a)>>_vars => Attempt(a)'
    BY RetryAttempts
<1>3. IndInv /\ [Next]_vars /\ IsApproved(a) => IsApproved(a)' \/ Completed(a)'
    BY StaysApproved
<1>4. Course /\ AllScheduled /\ Attempt(a) => WillComplete(a)
    BY AttemptEnds
<1> QED
    BY <1>1, <1>2, <1>3, <1>4, Inductive, PTL
    DEF Spec, Course, FailuresCease, Undisturbed, Persistent, Answers, WillComplete

(* Failures and restarts wedge nothing: once they cease, an approved record  *)
(* is executed as long as the operator asks again, whatever the threads have *)
(* done to it and to each other before (main.py approve, approved_credit.py, *)
(* store.py). The threads are scheduled as in FairSpec; weak fairness that   *)
(* holds once holds for ever, and the box only says so in a form that can be *)
(* used for all the threads at once.                                         *)
THEOREM ApprovalsComplete ==
    FairSpec /\ []AllScheduled /\ []ThreadsNeverStuck /\ []RetryPossible /\ FailuresCease
        => ApprovedIsExecuted
<1> SUFFICES ASSUME NEW a \in Approvals
             PROVE  FairSpec /\ []AllScheduled /\ []ThreadsNeverStuck /\ []RetryPossible
                        /\ FailuresCease
                        => (status[a] = "approved" ~> status[a] = "executed")
    BY DEF ApprovedIsExecuted
<1>1. FairSpec => Spec /\ AllScheduled /\ Persistent(a)
    BY DEF FairSpec, AllScheduled
<1>2. status[a] = "approved" => IsApproved(a)
    BY DEF IsApproved
<1>3. Completed(a) => status[a] = "executed"
    BY DEF Completed
<1>4. CASE Workers = {}
    <2>1. Spec => []~IsApproved(a)
        BY <1>4, NoThreads
    <2> QED
        BY <1>1, <1>2, <2>1, PTL
<1>5. ASSUME NEW w \in Workers
      PROVE  FairSpec /\ []AllScheduled /\ []ThreadsNeverStuck /\ []RetryPossible /\ FailuresCease
                 => (status[a] = "approved" ~> status[a] = "executed")
    <2>1. Spec /\ Scheduled(w) /\ []ThreadsNeverStuck => Answers(w)
        BY CallEnds
    <2>2. AllScheduled => Scheduled(w)
        BY DEF AllScheduled
    <2>3. Spec /\ []AllScheduled /\ Persistent(a) /\ Answers(w)
              /\ []ThreadsNeverStuck /\ []RetryPossible /\ FailuresCease
              => (IsApproved(a) ~> Completed(a))
        BY ApprovedEnds
    <2> QED
        BY <1>1, <1>2, <1>3, <2>1, <2>2, <2>3, PTL
<1> QED
    BY <1>4, <1>5
================================================================================
