------------------------- MODULE CreditExecution_proofs -------------------------
(***************************************************************************)
(* Proofs about CreditExecution, for every set of runs and credits, every  *)
(* retry budget of the client and the tool, and both kinds of provider; and*)
(* that it implements OperationContract.                                   *)
(***************************************************************************)
EXTENDS CreditContract, FiniteSetTheorems, FunctionTheorems, TLAPS

--------------------------------------------------------------------------------
(* The parts of a request. *)

(* A request belongs to a call of a run.                                     *)
LEMMA RequestParts ==
    ASSUME NEW m \in Requests
    PROVE  Call(m) \in Calls /\ Call(m).run \in Runs /\ m[2] \in 1..(MaxRetries + 1)
BY DEF Requests, Call, Calls

(* The logical credit of a request that asks for one.                        *)
LEMMA LogicalType ==
    ASSUME NEW m \in Requests, asked[Call(m)] \in Credits
    PROVE  Logical(m) \in Runs \X Credits
BY RequestParts DEF Logical

(* An answer is what the tool told, or what it was before.                   *)
LEMMA AnsweredType ==
    ASSUME TypeOK, NEW m \in Requests,
           NEW told \in {"issued", "deduplicated", "blocked", "error"}, Answered(m, told)
    PROVE  /\ answer' \in [Calls -> {"none", "waiting", "issued", "deduplicated",
                                     "blocked", "error"}]
           /\ \A c \in Calls : \/ answer'[c] = answer[c]
                               \/ c = Call(m) /\ answer[c] = "waiting" /\ answer'[c] = told
BY RequestParts DEF Answered, TypeOK

--------------------------------------------------------------------------------
(* The invariant holds initially and is kept by every action. *)

(* The inductive invariant holds in the initial state.                       *)
LEMMA IndInvInit == Init => IndInv
BY ConstantsAssumption
   DEF Init, IndInv, TypeOK, ClientInv, ToolInv, ProviderInv, Calls

(* A step that leaves the tool and the provider alone, and the asked credits *)
(* of calls that were asked, keeps what is known about them.                 *)
LEMMA ToolFrame ==
    ASSUME IndInv, UNCHANGED <<tool, provider>>,
           \A c \in Calls : asked[c] \in Credits => asked'[c] = asked[c],
           pc # "idle" => phase' = phase
    PROVE  ToolInv' /\ ProviderInv'
<1>1. execution # "none" => Call(request) \in Calls /\ asked[Call(request)] \in Credits
    BY RequestParts DEF IndInv, ToolInv
<1>2. execution # "none" => Logical(request)' = Logical(request)
    BY <1>1 DEF Logical, Call, tool
<1>3. ToolInv'
    BY <1>1, <1>2 DEF IndInv, ToolInv, tool, provider, Call
<1> QED
    BY <1>3 DEF IndInv, ProviderInv, provider

(* The registry and the grants.                                              *)
LEMMA AppStep ==
    ASSUME IndInv, NEW r \in Runs, StartRun(r) \/ EndRun(r) \/ EndAuthority(r)
    PROVE  IndInv'
<1>1. ToolInv' /\ ProviderInv'
    <2>1. UNCHANGED <<tool, provider, asked>> /\ (pc # "idle" => phase' = phase)
        BY DEF StartRun, EndRun, EndAuthority, client
    <2> QED
        BY <2>1, ToolFrame
<1>2. TypeOK'
    <2>1. CASE StartRun(r)
        BY <2>1 DEF IndInv, TypeOK, StartRun, client, tool, provider
    <2>2. CASE EndRun(r)
        <3>1. answer' \in [Calls -> {"none", "waiting", "issued", "deduplicated",
                                    "blocked", "error"}]
            BY <2>2 DEF IndInv, TypeOK, EndRun
        <3>2. phase' \in [Runs -> {"new", "running", "ended", "direct"}]
            BY <2>2 DEF IndInv, TypeOK, EndRun
        <3>3. /\ registered' \subseteq Runs
              /\ UNCHANGED <<authorized, asked, copies, wire, tool, provider>>
            BY <2>2 DEF IndInv, TypeOK, EndRun
        <3> QED
            BY <3>1, <3>2, <3>3 DEF IndInv, TypeOK, tool, provider
    <2>3. CASE EndAuthority(r)
        BY <2>3 DEF IndInv, TypeOK, EndAuthority, client, tool, provider
    <2> QED
        BY <2>1, <2>2, <2>3
<1>3. ClientInv'
    <2>1. UNCHANGED <<asked, wire, credits>>
        BY DEF StartRun, EndRun, EndAuthority, client, provider
    <2>2. \A q \in registered' : phase'[q] = "running"
        <3>1. /\ phase \in [Runs -> {"new", "running", "ended", "direct"}]
              /\ registered \subseteq Runs
              /\ \A q \in registered : phase[q] = "running"
            BY DEF IndInv, TypeOK, ClientInv
        <3>2. CASE StartRun(r)
            BY <3>1, <3>2 DEF StartRun
        <3>3. CASE EndRun(r)
            BY <3>1, <3>3 DEF EndRun
        <3>4. CASE EndAuthority(r)
            BY <3>1, <3>4 DEF EndAuthority
        <3> QED
            BY <3>2, <3>3, <3>4
    <2>3. \A c \in Calls : \/ answer'[c] = answer[c]
                           \/ answer[c] = "waiting" /\ answer'[c] = "error"
        <3>1. CASE EndRun(r)
            BY <3>1 DEF EndRun
        <3>2. CASE ~EndRun(r)
            BY <3>2 DEF StartRun, EndAuthority, client
        <3> QED
            BY <3>1, <3>2
    <2> QED
        BY <2>1, <2>2, <2>3 DEF IndInv, ClientInv, Call
<1> QED
    BY <1>1, <1>2, <1>3 DEF IndInv

(* The client sends, sends again and gives up.                               *)
LEMMA ClientStep ==
    ASSUME IndInv, NEW c \in Calls, NEW k \in Credits,
           CallTool(c, k) \/ Resend(c) \/ GiveUp(c)
    PROVE  IndInv'
<1> USE ConstantsAssumption
<1>1. ToolInv' /\ ProviderInv'
    <2>1. /\ UNCHANGED <<tool, provider>> /\ phase' = phase
          /\ \A d \in Calls : asked[d] \in Credits => asked'[d] = asked[d]
        BY DEF CallTool, Resend, GiveUp, app, IndInv, TypeOK
    <2> QED
        BY <2>1, ToolFrame
<1>2. TypeOK'
    <2>1. CASE CallTool(c, k)
        BY <2>1 DEF IndInv, TypeOK, CallTool, app, tool, provider, Requests
    <2>2. CASE Resend(c)
        BY <2>2 DEF IndInv, TypeOK, Resend, app, tool, provider, Requests
    <2>3. CASE GiveUp(c)
        BY <2>3 DEF IndInv, TypeOK, GiveUp, app, tool, provider
    <2> QED
        BY <2>1, <2>2, <2>3
<1>3. ClientInv'
    <2>1. UNCHANGED <<registered, phase, credits>>
        BY DEF CallTool, Resend, GiveUp, app, provider
    <2>2. \A m \in wire : Call(m) \in Calls /\ asked[Call(m)] \in Credits
        BY RequestParts DEF IndInv, TypeOK, ClientInv
    <2>3. \A d \in Calls : asked[d] \in Credits => asked'[d] = asked[d]
        BY DEF CallTool, Resend, GiveUp, IndInv, TypeOK
    <2>4. asked'[c] \in Credits
        BY DEF CallTool, Resend, GiveUp, IndInv, TypeOK, ClientInv
    <2>5. \A m \in wire' : m \in wire \/ Call(m) = c
        BY DEF CallTool, Resend, GiveUp, Call
    <2>6. \A d \in Calls : \/ answer'[d] = answer[d]
                           \/ d = c /\ answer'[d] \in {"waiting", "error"}
        BY DEF CallTool, Resend, GiveUp, IndInv, TypeOK
    <2>7. \A m \in wire' : asked'[Call(m)] \in Credits
        BY <2>2, <2>3, <2>4, <2>5
    <2>8. \A d \in Calls :
              /\ answer'[d] # "none" => asked'[d] \in Credits
              /\ answer'[d] \in {"issued", "deduplicated"} => credits'[d.run, asked'[d]] > 0
        BY <2>1, <2>3, <2>4, <2>6 DEF IndInv, ClientInv
    <2> QED
        BY <2>1, <2>7, <2>8 DEF IndInv, ClientInv, Call
<1> QED
    BY <1>1, <1>2, <1>3 DEF IndInv

(* A request reaches the server.                                             *)
LEMMA DeliverStep == ASSUME IndInv, NEW m \in wire, Deliver(m) PROVE IndInv'
<1>0. /\ m \in Requests /\ Call(m) \in Calls /\ asked[Call(m)] \in Credits
      /\ Call(m).run \in Runs
      /\ TypeOK
    BY RequestParts DEF IndInv, TypeOK, ClientInv
<1>1. /\ answer' \in [Calls -> {"none", "waiting", "issued", "deduplicated",
                                "blocked", "error"}]
      /\ \A c \in Calls : \/ answer'[c] = answer[c]
                          \/ answer[c] = "waiting" /\ answer'[c] \in {"blocked", "error"}
    BY <1>0, AnsweredType DEF Deliver, TypeOK
<1>2. TypeOK'
    BY <1>0, <1>1, ConstantsAssumption DEF TypeOK, Deliver, Begin, app, tool, provider
<1>3. ClientInv'
    BY <1>0, <1>1 DEF IndInv, ClientInv, Deliver, app, provider, Call
<1>4. ToolInv' /\ ProviderInv'
    <2>1. CASE Call(m).run \notin registered
        BY <2>1, ToolFrame DEF Deliver, Begin, app
    <2>2. CASE Call(m).run \in registered
        <3>1. phase[Call(m).run] = "running"
            BY <2>2 DEF IndInv, ClientInv
        <3>2. ToolInv'
            BY <1>0, <2>2, <3>1 DEF ToolInv, Deliver, Begin, app, Call
        <3> QED
            BY <3>2, <2>2 DEF IndInv, ProviderInv, Deliver, provider
    <2> QED
        BY <2>1, <2>2
<1> QED
    BY <1>2, <1>3, <1>4 DEF IndInv

(* A direct request begins.                                                  *)
LEMMA DirectStep ==
    ASSUME IndInv, NEW c \in Calls, NEW k \in Credits, DirectCredit(c, k)
    PROVE  IndInv'
<1> USE ConstantsAssumption
<1>0. /\ <<c, 1>> \in Requests /\ Call(<<c, 1>>) = c /\ c.run \in Runs
      /\ TypeOK
    BY DEF Requests, Call, Calls, IndInv
<1>1. TypeOK'
    BY <1>0 DEF TypeOK, DirectCredit, Begin, provider
<1>2. ClientInv'
    <2>1. \A m \in wire : Call(m) \in Calls
        BY <1>0, RequestParts DEF TypeOK
    <2>2. /\ \A r \in registered' : phase'[r] = "running"
          /\ \A m \in wire' : asked'[Call(m)] \in Credits
        BY <1>0, <2>1 DEF IndInv, ClientInv, TypeOK, DirectCredit, Call
    <2>3. \A d \in Calls :
              /\ answer'[d] # "none" => asked'[d] \in Credits
              /\ answer'[d] \in {"issued", "deduplicated"} => credits'[d.run, asked'[d]] > 0
        BY <1>0 DEF IndInv, ClientInv, TypeOK, DirectCredit, provider
    <2> QED
        BY <2>2, <2>3 DEF ClientInv, Call
<1>3. ToolInv'
    BY <1>0 DEF ToolInv, TypeOK, DirectCredit, Begin, Call
<1>4. ProviderInv'
    BY DEF IndInv, ProviderInv, DirectCredit, provider
<1> QED
    BY <1>1, <1>2, <1>3, <1>4 DEF IndInv

(* The tool's own steps, once a request is being served.                     *)
Serving == pc # "idle"

(* What is known while the tool serves a request.                            *)
LEMMA ServingFacts ==
    ASSUME IndInv, Serving
    PROVE  /\ request \in Requests
           /\ Call(request) \in Calls
           /\ Call(request).run \in Runs
           /\ asked[Call(request)] \in Credits
           /\ Logical(request) \in Runs \X Credits
<1>1. request \in Requests /\ asked[Call(request)] \in Credits
    BY DEF IndInv, ToolInv, Serving
<1> QED
    BY <1>1, RequestParts, LogicalType

(* A step that answers keeps the clients' view, if what it tells is true.    *)
LEMMA FinishClient ==
    ASSUME IndInv, Serving, UNCHANGED app,
           NEW told \in {"issued", "deduplicated", "blocked", "error"},
           NEW state \in {"completed", "unknown", "denied", "executing"},
           Finish(told, state),
           \A l \in Runs \X Credits : credits[l] > 0 => credits'[l] > 0,
           told \in {"issued", "deduplicated"} => credits'[Logical(request)] > 0
    PROVE  /\ ClientInv'
           /\ asked' = asked /\ copies' = copies /\ wire' = wire
           /\ answer' \in [Calls -> {"none", "waiting", "issued", "deduplicated",
                                     "blocked", "error"}]
<1>1. /\ answer' \in [Calls -> {"none", "waiting", "issued", "deduplicated",
                                "blocked", "error"}]
      /\ \A c \in Calls : \/ answer'[c] = answer[c]
                          \/ c = Call(request) /\ answer[c] = "waiting" /\ answer'[c] = told
    BY ServingFacts, AnsweredType DEF Finish, IndInv
<1>2. asked' = asked /\ copies' = copies /\ wire' = wire /\ registered' = registered
      /\ phase' = phase
    BY DEF Finish, app
<1>3. \A c \in Calls :
          /\ answer'[c] # "none" => asked'[c] \in Credits
          /\ answer'[c] \in {"issued", "deduplicated"} => credits'[c.run, asked'[c]] > 0
    <2> TAKE c \in Calls
    <2>1. asked[c] \in Credits => <<c.run, asked[c]>> \in Runs \X Credits
        BY DEF Calls
    <2>2. CASE answer'[c] = answer[c]
        BY <1>2, <2>1, <2>2 DEF IndInv, ClientInv
    <2>3. CASE c = Call(request) /\ answer[c] = "waiting" /\ answer'[c] = told
        BY <1>2, <2>3, ServingFacts DEF Logical
    <2> QED
        BY <1>1, <2>2, <2>3
<1> QED
    BY <1>1, <1>2, <1>3 DEF IndInv, ClientInv, Call

(* What the provider knows after it was called.                              *)
LEMMA ApplyStep ==
    ASSUME IndInv, Serving, ~Known, Apply
    PROVE  /\ ProviderInv'
           /\ credits' \in [Runs \X Credits -> Nat]
           /\ keys' \subseteq Runs \X Credits
           /\ \A l \in Runs \X Credits : credits[l] > 0 => credits'[l] > 0
           /\ credits'[Logical(request)] > 0
           /\ applied' = applied + 1
<1> DEFINE l == Logical(request)
<1>1. l \in Runs \X Credits
    BY ServingFacts
<1>2. credits \in [Runs \X Credits -> Nat] /\ keys \subseteq Runs \X Credits
    BY DEF IndInv, TypeOK
<1>3. credits' = [credits EXCEPT ![l] = @ + 1] /\ keys' = keys \cup {l}
      /\ applied' = applied + 1
    BY DEF Apply, IdempotencyKey
<1>4. ProviderKeyed => l \notin keys
    BY DEF Known, IdempotencyKey
<1>5. \A k \in Runs \X Credits :
          (k \in keys <=> credits[k] > 0) /\ (ProviderKeyed => credits[k] <= 1)
    BY DEF IndInv, ProviderInv
<1> HIDE DEF l
<1>6. ProviderInv'
    BY <1>1, <1>2, <1>3, <1>4, <1>5 DEF ProviderInv
<1>7. credits'[l] > 0
    BY <1>1, <1>2, <1>3
<1> QED
    BY <1>1, <1>2, <1>3, <1>6, <1>7 DEF l

(* Revalidation: the tool goes on, or answers that it was blocked.           *)
LEMMA RevalidateStep == ASSUME IndInv, Revalidate PROVE IndInv'
<1>1. Serving /\ UNCHANGED <<app, provider, applied>> /\ pc = "revalidate"
    BY DEF Revalidate, Serving
<1>2. CASE Permitted(Call(request).run, asked[Call(request)])
    <2>1. /\ pc' = "issue" /\ attempt' = 1
          /\ UNCHANGED <<request, execution, result, client>>
        BY <1>2 DEF Revalidate
    <2>2. TypeOK'
        BY <1>1, <2>1, ConstantsAssumption DEF IndInv, TypeOK, app, client, provider
    <2>3. ClientInv'
        BY <1>1, <2>1 DEF IndInv, ClientInv, app, client, provider, Call
    <2>4. ProviderInv'
        BY <1>1 DEF IndInv, ProviderInv, provider
    <2>5. ToolInv'
        BY <1>1, <2>1 DEF IndInv, ToolInv, app, client, provider, Call, Logical
    <2> QED
        BY <2>2, <2>3, <2>4, <2>5 DEF IndInv
<1>3. CASE ~Permitted(Call(request).run, asked[Call(request)])
    <2>1. Finish("blocked", "denied")
        BY <1>3 DEF Revalidate
    <2>2. /\ ClientInv'
          /\ asked' = asked /\ copies' = copies /\ wire' = wire
          /\ answer' \in [Calls -> {"none", "waiting", "issued", "deduplicated",
                                    "blocked", "error"}]
        BY <1>1, <2>1, FinishClient DEF provider
    <2>3. TypeOK' /\ ProviderInv'
        BY <1>1, <2>1, <2>2, ConstantsAssumption
           DEF IndInv, TypeOK, ProviderInv, Finish, app, provider
    <2>4. ToolInv'
        BY <1>1, <2>1, <2>2 DEF IndInv, ToolInv, Finish, Call
    <2> QED
        BY <2>2, <2>3, <2>4 DEF IndInv
<1> QED
    BY <1>2, <1>3

(* The provider call succeeds.                                               *)
LEMMA IssueStep == ASSUME IndInv, Issue PROVE IndInv'
<1>1. /\ Serving /\ pc = "issue" /\ pc' = "settle"
      /\ UNCHANGED <<request, attempt, execution, client, app>>
    BY DEF Issue, Serving
<1>2. /\ ProviderInv'
      /\ credits' \in [Runs \X Credits -> Nat]
      /\ keys' \subseteq Runs \X Credits
      /\ \A l \in Runs \X Credits : credits[l] > 0 => credits'[l] > 0
      /\ credits'[Logical(request)] > 0
      /\ applied' \in {applied, applied + 1}
      /\ result' \in {"issued", "deduplicated"}
    <2>1. CASE Known /\ result' = "deduplicated" /\ UNCHANGED <<applied, provider>>
        <3>1. credits[Logical(request)] > 0
            BY <1>1, <2>1, ServingFacts DEF Known, IdempotencyKey, IndInv, ProviderInv
        <3> QED
            BY <2>1, <3>1 DEF provider, IndInv, TypeOK, ProviderInv
    <2>2. CASE ~Known /\ Apply /\ result' = "issued"
        BY <1>1, <2>2, ApplyStep
    <2> QED
        BY <2>1, <2>2 DEF Issue
<1>3. TypeOK'
    BY <1>1, <1>2 DEF IndInv, TypeOK, app, client
<1>4. ClientInv'
    <2>1. \A c \in Calls : asked[c] \in Credits => <<c.run, asked[c]>> \in Runs \X Credits
        BY DEF Calls
    <2> QED
        BY <1>1, <1>2, <2>1 DEF IndInv, ClientInv, app, client, Call
<1>5. ToolInv'
    <2>1. Logical(request)' = Logical(request)
        BY <1>1 DEF Logical, Call, client
    <2>2. applied = 0 /\ applied' <= 1
        BY <1>1, <1>2 DEF IndInv, ToolInv
    <2> QED
        BY <1>1, <1>2, <2>1, <2>2 DEF IndInv, ToolInv, app, client, Call
<1> QED
    BY <1>2, <1>3, <1>4, <1>5 DEF IndInv

(* A transient failure and the sleep after it.                               *)
LEMMA RetryStep == ASSUME IndInv, Transient \/ Backoff PROVE IndInv'
<1>1. /\ Serving /\ pc \in {"issue", "backoff"} /\ pc' \in {"issue", "backoff"}
      /\ UNCHANGED <<request, execution, result, applied, client, app, provider>>
      /\ attempt' \in 1..MaxAttempts
      /\ pc' = "backoff" => attempt' < MaxAttempts
    BY ConstantsAssumption DEF Transient, Backoff, Serving, IndInv, TypeOK, ToolInv
<1>2. TypeOK'
    BY <1>1, ConstantsAssumption DEF IndInv, TypeOK, app, client, provider
<1>3. ClientInv' /\ ProviderInv'
    BY <1>1 DEF IndInv, ClientInv, ProviderInv, app, client, provider, Call
<1>4. ToolInv'
    BY <1>1, ConstantsAssumption
       DEF IndInv, TypeOK, ToolInv, app, client, provider, Call, Logical
<1> QED
    BY <1>2, <1>3, <1>4 DEF IndInv

(* A failure that leaves the tool, with or without an effect.                *)
LEMMA FailureStep == ASSUME IndInv, TransientExhausted \/ UnknownOutcome PROVE IndInv'
<1>1. Serving /\ pc = "issue" /\ UNCHANGED app /\ Finish("error", "unknown")
    BY DEF TransientExhausted, UnknownOutcome, Serving
<1>2. /\ ProviderInv'
      /\ credits' \in [Runs \X Credits -> Nat]
      /\ keys' \subseteq Runs \X Credits
      /\ \A l \in Runs \X Credits : credits[l] > 0 => credits'[l] > 0
      /\ applied' \in {applied, applied + 1}
    <2>1. CASE UNCHANGED <<applied, provider>>
        BY <2>1 DEF provider, IndInv, TypeOK, ProviderInv
    <2>2. CASE ~Known /\ Apply
        BY <1>1, <2>2, ApplyStep
    <2> QED
        BY <2>1, <2>2 DEF TransientExhausted, UnknownOutcome
<1>3. /\ ClientInv'
      /\ asked' = asked /\ copies' = copies /\ wire' = wire
      /\ answer' \in [Calls -> {"none", "waiting", "issued", "deduplicated",
                                "blocked", "error"}]
    BY <1>1, <1>2, FinishClient
<1>4. applied = 0 /\ applied' \in {0, 1}
    BY <1>1, <1>2 DEF IndInv, ToolInv
<1>5. TypeOK'
    BY <1>1, <1>2, <1>3, <1>4, ConstantsAssumption DEF IndInv, TypeOK, Finish, app
<1>6. ToolInv'
    BY <1>1, <1>3, <1>4 DEF IndInv, ToolInv, Finish, Call
<1> QED
    BY <1>2, <1>3, <1>5, <1>6 DEF IndInv

(* Completion.                                                               *)
LEMMA SettleStep == ASSUME IndInv, Settle PROVE IndInv'
<1>1. /\ Serving /\ pc = "settle" /\ UNCHANGED <<applied, app, provider>>
      /\ result \in {"issued", "deduplicated"} /\ credits[Logical(request)] > 0
    BY DEF Settle, Serving, IndInv, ToolInv
<1>2. ASSUME NEW told \in {result, "error"}, NEW state \in {"completed", "executing"},
             Finish(told, state)
      PROVE  IndInv'
    <2>1. /\ ClientInv'
          /\ asked' = asked /\ copies' = copies /\ wire' = wire
          /\ answer' \in [Calls -> {"none", "waiting", "issued", "deduplicated",
                                    "blocked", "error"}]
        BY <1>1, <1>2, FinishClient DEF provider
    <2>2. TypeOK' /\ ProviderInv'
        BY <1>1, <1>2, <2>1, ConstantsAssumption
           DEF IndInv, TypeOK, ProviderInv, Finish, app, provider
    <2>3. Logical(request)' = Logical(request)
        BY <1>2, <2>1 DEF Logical, Call, Finish
    <2>4. ToolInv'
        BY <1>1, <1>2, <2>1, <2>3 DEF IndInv, ToolInv, Finish, Call, provider
    <2> QED
        BY <2>1, <2>2, <2>4 DEF IndInv
<1> QED
    BY <1>2 DEF Settle

(* Every step keeps the inductive invariant.                                 *)
LEMMA IndInvNext == IndInv /\ [Next]_vars => IndInv'
<1> SUFFICES ASSUME IndInv, [Next]_vars PROVE IndInv'
    OBVIOUS
<1>1. CASE UNCHANGED vars
    BY <1>1 DEF IndInv, TypeOK, ClientInv, ToolInv, ProviderInv, vars, app, client, tool,
                provider, Call, Logical
<1>2. CASE Serve
    BY <1>2, RevalidateStep, IssueStep, RetryStep, FailureStep, SettleStep DEF Serve
<1>3. ASSUME NEW r \in Runs, StartRun(r) \/ EndRun(r) \/ EndAuthority(r) PROVE IndInv'
    BY <1>3, AppStep
<1>4. ASSUME NEW c \in Calls, NEW k \in Credits, CallTool(c, k) \/ DirectCredit(c, k)
      PROVE  IndInv'
    BY <1>4, ClientStep, DirectStep
<1>5. ASSUME NEW c \in Calls, Resend(c) \/ GiveUp(c) PROVE IndInv'
    <2>1. asked[c] \in Credits
        BY <1>5 DEF Resend, GiveUp, IndInv, ClientInv
    <2> QED
        BY <1>5, <2>1, ClientStep
<1>6. ASSUME NEW m \in wire, Deliver(m) PROVE IndInv'
    BY <1>6, DeliverStep
<1> QED
    BY <1>1, <1>2, <1>3, <1>4, <1>5, <1>6 DEF Next

(* The inductive invariant holds in every reachable state.                   *)
THEOREM Inductive == Spec => []IndInv
BY IndInvInit, IndInvNext, PTL DEF Spec

(* Every variable has its type, and the retry loop keeps to its budget.      *)
THEOREM TypeCorrect == Spec => []TypeOK
<1>1. IndInv => TypeOK
    BY DEF IndInv
<1> QED
    BY <1>1, Inductive, PTL

(* Over a provider that honours its keys, no repetition credits twice.       *)
THEOREM OneCredit == ASSUME ProviderKeyed PROVE Spec => []OneCreditPerKey
<1>1. IndInv => OneCreditPerKey
    BY DEF IndInv, ProviderInv, OneCreditPerKey
<1> QED
    BY <1>1, Inductive, PTL

(* With any provider, an invocation causes at most one credit.               *)
THEOREM OneEffect == Spec => []OneEffectPerInvocation
<1>1. IndInv => OneEffectPerInvocation
    BY DEF IndInv, ToolInv, OneEffectPerInvocation
<1> QED
    BY <1>1, Inductive, PTL

(* With any provider, what an agent is told and what Ruhusa records as       *)
(* completed is true.                                                        *)
THEOREM Honest == Spec => []HonestAnswers
<1>1. IndInv => HonestAnswers
    BY DEF IndInv, ClientInv, ToolInv, HonestAnswers
<1> QED
    BY <1>1, Inductive, PTL

(* With any provider, a credit comes into being only while its run lasts.    *)
THEOREM WithinTheRun == Spec => NoCreditAfterTheRun
<1>1. IndInv /\ [Next]_vars =>
          [\A l \in Runs \X Credits : credits'[l] > credits[l] =>
               phase[l[1]] \in {"running", "direct"}]_vars
    <2> SUFFICES ASSUME IndInv, Next, NEW l \in Runs \X Credits, credits'[l] > credits[l]
                 PROVE  phase[l[1]] \in {"running", "direct"}
        BY DEF vars
    <2>1. credits \in [Runs \X Credits -> Nat]
        BY DEF IndInv, TypeOK
    <2>2. Issue \/ UnknownOutcome
        <3>1. provider' # provider
            BY <2>1 DEF provider
        <3>2. Serve
            BY <3>1 DEF Next, StartRun, EndRun, EndAuthority, CallTool, Resend, GiveUp,
                        Deliver, DirectCredit
        <3> QED
            BY <3>1, <3>2 DEF Serve, Revalidate, Transient, Backoff,
                              TransientExhausted, Settle
    <2>3. pc = "issue" /\ Apply
        BY <2>1, <2>2 DEF Issue, UnknownOutcome, provider
    <2>4. l = Logical(request)
        BY <2>1, <2>3, ServingFacts DEF Apply, Serving
    <2> QED
        BY <2>3, <2>4 DEF Logical, IndInv, ToolInv
<1> QED
    BY <1>1, Inductive, PTL DEF Spec, NoCreditAfterTheRun

--------------------------------------------------------------------------------
(* Credits and requests: what bounds the credits when keys do not. *)

(* The requests for a credit that may have had their effect: they were sent, *)
(* have arrived, and their invocation is not on its way to the provider.     *)
Pending == pc \in {"revalidate", "issue", "backoff"}
Served(l) == {m \in Sent(l) : m \notin wire /\ (Pending => m # request)}

(* What is asked was sent by a run that had begun, each request is on its    *)
(* way, being served or served, and none is served twice.                    *)
RequestInv ==
    /\ \A c \in Calls :
           /\ asked[c] = NoCredit => copies[c] = 0
           /\ phase[c.run] = "new" => asked[c] = NoCredit
    /\ \A m \in wire : m[2] <= copies[Call(m)]
    /\ pc # "idle" => request[2] <= copies[Call(request)] /\ request \notin wire
    /\ \A l \in Runs \X Credits : credits[l] <= Cardinality(Served(l))

(* A run can send finitely many requests.                                    *)
LEMMA RequestsOfARun ==
    ASSUME NEW r \in Runs, NEW S \in SUBSET Requests, \A m \in S : Call(m).run = r
    PROVE  IsFiniteSet(S)
<1> USE ConstantsAssumption
<1> DEFINE P == (1..MaxCalls) \X (1..(MaxRetries + 1))
           f == [p \in P |-> <<[run |-> r, number |-> p[1]], p[2]>>]
           T == {f[p] : p \in P}
<1>1. IsFiniteSet(P)
    <2>1. 1 \in Int /\ MaxCalls \in Int /\ MaxRetries + 1 \in Int
        OBVIOUS
    <2>2. IsFiniteSet(1..MaxCalls) /\ IsFiniteSet(1..(MaxRetries + 1))
        BY <2>1, FS_Interval
    <2> QED
        BY <2>2, FS_Product
<1>2. f \in Surjection(P, T)
    <2>1. f \in [P -> T] /\ \A t \in T : \E p \in P : f[p] = t
        OBVIOUS
    <2> QED
        BY <2>1, Fun_IsSurj
<1>3. IsFiniteSet(T)
    BY <1>1, <1>2, FS_Surjection
<1>4. S \subseteq T
    <2> SUFFICES ASSUME NEW m \in S PROVE m \in T
        OBVIOUS
    <2>1. m = <<m[1], m[2]>> /\ m[1] \in Calls /\ m[2] \in 1..(MaxRetries + 1) /\ m[1].run = r
        BY DEF Requests, Call
    <2>2. m[1] = [run |-> r, number |-> m[1].number] /\ m[1].number \in 1..MaxCalls
        BY <2>1 DEF Calls
    <2>3. <<m[1].number, m[2]>> \in P
        BY <2>1, <2>2
    <2>4. f[<<m[1].number, m[2]>>] = m
        BY <2>1, <2>2, <2>3
    <2> QED
        BY <2>3, <2>4
<1> QED
    BY <1>3, <1>4, FS_Subset

(* The requests for one credit are of one run: now, and after any step.      *)
LEMMA SentFinite ==
    ASSUME NEW l \in Runs \X Credits
    PROVE  /\ IsFiniteSet(Sent(l)) /\ IsFiniteSet(Served(l))
           /\ IsFiniteSet(Served(l)')
           /\ Served(l) \subseteq Sent(l)
<1>1. l[1] \in Runs
    OBVIOUS
<1>2. Sent(l) \subseteq Requests /\ \A m \in Sent(l) : Call(m).run = l[1]
    BY DEF Sent, Logical
<1>3. Served(l)' \subseteq Requests /\ \A m \in Served(l)' : Call(m).run = l[1]
    BY DEF Served, Sent, Logical, Call
<1>4. Served(l) \subseteq Sent(l)
    BY DEF Served
<1> QED
    BY <1>1, <1>2, <1>3, <1>4, RequestsOfARun, FS_Subset

(* A step that takes no request back keeps the bound if it issues nothing,   *)
(* or one credit while one more request is served.                           *)
LEMMA BoundKept ==
    ASSUME NEW l \in Runs \X Credits, credits[l] \in Nat,
           credits[l] <= Cardinality(Served(l)), Served(l) \subseteq Served(l)',
           \/ credits'[l] = credits[l]
           \/ credits'[l] = credits[l] + 1 /\ Served(l) # Served(l)'
    PROVE  credits'[l] <= Cardinality(Served(l)')
<1> DEFINE S == Served(l)
           T == Served(l)'
<1>1. IsFiniteSet(S) /\ IsFiniteSet(T) /\ S \subseteq T
    BY SentFinite
<1>2. /\ Cardinality(S) \in Nat /\ Cardinality(T) \in Nat
      /\ Cardinality(S) <= Cardinality(T)
      /\ Cardinality(S) = Cardinality(T) => S = T
    <2> HIDE DEF S, T
    <2> QED
        BY <1>1, FS_CardinalityType, FS_Subset
<1> QED
    BY <1>2

(* What was served stays served if it is not sent or served again.           *)
LEMMA ServedGrows ==
    ASSUME IndInv, NEW l \in Runs \X Credits,
           \A c \in Calls : copies[c] > 0 => asked'[c] = asked[c] /\ copies'[c] >= copies[c],
           \A c \in Calls : copies'[c] \in Nat,
           \A m \in Served(l) : m \notin wire' /\ (Pending' => m # request')
    PROVE  Served(l) \subseteq Served(l)'
<1> SUFFICES ASSUME NEW m \in Served(l) PROVE m \in Served(l)'
    OBVIOUS
<1>1. /\ m \in Requests /\ m[2] <= copies[Call(m)] /\ Logical(m) = l
      /\ Call(m) \in Calls /\ m[2] \in 1..(MaxRetries + 1)
    BY RequestParts DEF Served, Sent
<1>2. copies[Call(m)] \in Nat /\ m[2] \in Nat /\ 1 <= m[2]
    BY <1>1, ConstantsAssumption DEF IndInv, TypeOK
<1>3. asked'[Call(m)] = asked[Call(m)] /\ m[2] <= copies'[Call(m)]
    <2>1. copies[Call(m)] > 0
        BY <1>1, <1>2
    <2>2. asked'[Call(m)] = asked[Call(m)] /\ copies'[Call(m)] >= copies[Call(m)]
        BY <1>1, <2>1
    <2>3. copies'[Call(m)] \in Nat
        BY <1>1
    <2> QED
        BY <1>1, <1>2, <2>2, <2>3
<1>4. Logical(m)' = Logical(m)
    BY <1>3 DEF Logical, Call
<1>5. m \in Sent(l)'
    BY <1>1, <1>3, <1>4 DEF Sent, Call
<1> QED
    BY <1>5 DEF Served

(* Steps that issue nothing keep the bound for every credit.                 *)
LEMMA BoundFrame ==
    ASSUME IndInv, RequestInv, UNCHANGED credits,
           \A l \in Runs \X Credits : Served(l) \subseteq Served(l)'
    PROVE  \A l \in Runs \X Credits : credits'[l] <= Cardinality(Served(l)')
<1> TAKE l \in Runs \X Credits
<1>1. credits[l] \in Nat /\ credits[l] <= Cardinality(Served(l)) /\ credits'[l] = credits[l]
    BY DEF IndInv, TypeOK, RequestInv
<1> QED
    BY <1>1, BoundKept

(* The registry and the grants.                                              *)
LEMMA RequestApp ==
    ASSUME IndInv, RequestInv, NEW r \in Runs, StartRun(r) \/ EndRun(r) \/ EndAuthority(r)
    PROVE  RequestInv'
<1>1. UNCHANGED <<asked, copies, wire, tool, provider>>
    BY DEF StartRun, EndRun, EndAuthority, client
<1>2. \A q \in Runs : phase'[q] = "new" => phase[q] = "new"
    BY DEF StartRun, EndRun, EndAuthority, IndInv, TypeOK
<1>3. \A l \in Runs \X Credits : Served(l)' = Served(l)
    BY <1>1 DEF Served, Sent, Logical, Call, Pending, tool
<1>4. \A l \in Runs \X Credits : credits'[l] <= Cardinality(Served(l)')
    BY <1>1, <1>3, BoundFrame DEF provider
<1>5. \A c \in Calls : c.run \in Runs
    BY DEF Calls
<1> QED
    BY <1>1, <1>2, <1>4, <1>5 DEF RequestInv, tool, Call

(* The client sends, sends again and gives up.                               *)
LEMMA RequestClient ==
    ASSUME IndInv, RequestInv, NEW c \in Calls, NEW k \in Credits,
           CallTool(c, k) \/ Resend(c) \/ GiveUp(c)
    PROVE  RequestInv'
<1> USE ConstantsAssumption
<1>1. /\ UNCHANGED <<app, tool, provider>> /\ pc = "idle"
      /\ copies \in [Calls -> 0..(MaxRetries + 1)] /\ asked \in [Calls -> Credits \cup {NoCredit}]
      /\ wire \subseteq Requests
    BY DEF CallTool, Resend, GiveUp, IndInv, TypeOK
<1>2. CASE GiveUp(c)
    <2>1. UNCHANGED <<asked, copies, wire>>
        BY <1>2 DEF GiveUp
    <2>2. \A l \in Runs \X Credits : Served(l)' = Served(l)
        BY <1>1, <2>1 DEF Served, Sent, Logical, Call, Pending, tool
    <2>3. \A l \in Runs \X Credits : credits'[l] <= Cardinality(Served(l)')
        BY <1>1, <2>2, BoundFrame DEF provider
    <2> QED
        BY <1>1, <2>1, <2>3 DEF RequestInv, tool, app, Call
<1>3. CASE CallTool(c, k) \/ Resend(c)
    <2>1. /\ wire' = wire \cup {<<c, copies[c] + 1>>}
          /\ copies' = [copies EXCEPT ![c] = copies[c] + 1]
          /\ asked' = [asked EXCEPT ![c] = asked'[c]] /\ asked'[c] \in Credits
          /\ copies[c] > 0 => asked'[c] = asked[c]
          /\ phase[c.run] = "running"
        <3>1. CASE CallTool(c, k)
            <4>1. copies[c] = 0
                BY <3>1 DEF CallTool, RequestInv
            <4> QED
                BY <1>1, <3>1, <4>1 DEF CallTool
        <3>2. CASE Resend(c)
            <4>1. asked[c] \in Credits /\ asked' = asked
                BY <3>2 DEF Resend, IndInv, ClientInv
            <4> QED
                BY <1>1, <3>2, <4>1 DEF Resend
        <3> QED
            BY <1>3, <3>1, <3>2
    <2>2. copies[c] \in Nat /\ copies'[c] = copies[c] + 1
        BY <1>1, <2>1
    <2>3. \A d \in Calls : /\ copies'[d] \in Nat /\ copies'[d] >= copies[d]
                           /\ d # c => copies'[d] = copies[d] /\ asked'[d] = asked[d]
        BY <1>1, <2>1, <2>2
    <2>4. ASSUME NEW l \in Runs \X Credits PROVE Served(l) \subseteq Served(l)'
        <3>1. \A m \in Served(l) : m \in Requests /\ m[2] <= copies[Call(m)] /\ m \notin wire
            BY DEF Served, Sent
        <3>2. \A m \in Served(l) : m # <<c, copies[c] + 1>>
            BY <2>2, <3>1 DEF Call
        <3>3. \A m \in Served(l) : m \notin wire'
            BY <2>1, <3>1, <3>2
        <3>4. ~Pending'
            BY <1>1 DEF Pending, tool
        <3>5. \A d \in Calls : copies[d] > 0 => asked'[d] = asked[d] /\ copies'[d] >= copies[d]
            BY <2>1, <2>3
        <3> QED
            BY <2>3, <3>3, <3>4, <3>5, ServedGrows
    <2>5. \A l \in Runs \X Credits : credits'[l] <= Cardinality(Served(l)')
        BY <1>1, <2>4, BoundFrame DEF provider
    <2>6. \A d \in Calls : /\ asked'[d] = NoCredit => copies'[d] = 0
                           /\ phase'[d.run] = "new" => asked'[d] = NoCredit
        <3> TAKE d \in Calls
        <3>1. CASE d = c
            BY <1>1, <2>1, <3>1 DEF app
        <3>2. CASE d # c
            BY <1>1, <2>3, <3>2 DEF RequestInv, app
        <3> QED
            BY <3>1, <3>2
    <2>7. \A m \in wire' : m[2] <= copies'[Call(m)]
        <3> TAKE m \in wire'
        <3>1. CASE m = <<c, copies[c] + 1>>
            BY <2>2, <3>1 DEF Call
        <3>2. CASE m \in wire
            <4>1. Call(m) \in Calls /\ m[2] \in 1..(MaxRetries + 1) /\ m[2] <= copies[Call(m)]
                BY <1>1, <3>2, RequestParts DEF RequestInv
            <4> QED
                BY <1>1, <2>3, <4>1
        <3> QED
            BY <2>1, <3>1, <3>2
    <2> QED
        BY <1>1, <2>5, <2>6, <2>7 DEF RequestInv, tool, Call
<1> QED
    BY <1>2, <1>3

(* A request reaches the server: it is served, or about to be.               *)
LEMMA RequestDeliver == ASSUME IndInv, RequestInv, NEW m \in wire, Deliver(m) PROVE RequestInv'
<1>1. /\ UNCHANGED <<asked, copies, app, provider>> /\ pc = "idle" /\ wire' = wire \ {m}
      /\ \/ UNCHANGED tool
         \/ request' = m /\ pc' \in {"idle", "revalidate"}
    BY DEF Deliver, Begin
<1>2. \A c \in Calls : copies[c] \in Nat
    BY ConstantsAssumption DEF IndInv, TypeOK
<1>3. ASSUME NEW l \in Runs \X Credits PROVE Served(l) \subseteq Served(l)'
    <2>1. \A n \in Served(l) : n \notin wire /\ n # m
        BY DEF Served
    <2>2. \A n \in Served(l) : n \notin wire' /\ (Pending' => n # request')
        BY <1>1, <2>1 DEF Pending, tool
    <2> QED
        BY <1>1, <1>2, <2>2, ServedGrows
<1>4. \A l \in Runs \X Credits : credits'[l] <= Cardinality(Served(l)')
    BY <1>1, <1>3, BoundFrame DEF provider
<1> QED
    BY <1>1, <1>4 DEF RequestInv, app, tool, Call

(* A direct request is its run's first.                                      *)
LEMMA RequestDirect ==
    ASSUME IndInv, RequestInv, NEW c \in Calls, NEW k \in Credits, DirectCredit(c, k)
    PROVE  RequestInv'
<1> USE ConstantsAssumption
<1>1. /\ pc = "idle" /\ UNCHANGED <<wire, provider>> /\ phase[c.run] = "new" /\ c.run \in Runs
      /\ phase' = [phase EXCEPT ![c.run] = "direct"]
      /\ asked' = [asked EXCEPT ![c] = k] /\ copies' = [copies EXCEPT ![c] = 1]
      /\ request' = <<c, 1>>
    BY DEF DirectCredit, Begin, Calls
<1>2. /\ copies \in [Calls -> 0..(MaxRetries + 1)] /\ asked \in [Calls -> Credits \cup {NoCredit}]
      /\ wire \subseteq Requests
      /\ phase \in [Runs -> {"new", "running", "ended", "direct"}]
    BY DEF IndInv, TypeOK
<1>3. asked[c] = NoCredit /\ copies[c] = 0
    BY <1>1 DEF RequestInv
<1>4. \A d \in Calls : /\ copies[d] \in Nat /\ copies'[d] \in Nat /\ copies'[d] >= copies[d]
                       /\ d # c => copies'[d] = copies[d] /\ asked'[d] = asked[d]
    BY <1>1, <1>2, <1>3
<1>5. <<c, 1>> \notin wire
    <2>1. \A m \in wire : m[2] <= copies[Call(m)]
        BY DEF RequestInv
    <2>2. <<c, 1>> \in wire => <<c, 1>>[2] <= copies[Call(<<c, 1>>)]
        BY <2>1
    <2>3. Call(<<c, 1>>) = c /\ <<c, 1>>[2] = 1
        BY DEF Call
    <2> QED
        BY <1>3, <2>2, <2>3
<1>6. ASSUME NEW l \in Runs \X Credits PROVE Served(l) \subseteq Served(l)'
    <2>1. \A m \in Served(l) : m[2] <= copies[Call(m)] /\ m \notin wire
        BY DEF Served, Sent
    <2>2. \A m \in Served(l) : m # <<c, 1>>
        BY <1>3, <2>1 DEF Call
    <2>3. \A m \in Served(l) : m \notin wire' /\ (Pending' => m # request')
        BY <1>1, <2>1, <2>2
    <2>4. \A d \in Calls : copies[d] > 0 => asked'[d] = asked[d] /\ copies'[d] >= copies[d]
        BY <1>3, <1>4
    <2> QED
        BY <1>4, <2>3, <2>4, ServedGrows
<1>7. \A l \in Runs \X Credits : credits'[l] <= Cardinality(Served(l)')
    BY <1>1, <1>6, BoundFrame DEF provider
<1>8. \A d \in Calls : /\ asked'[d] = NoCredit => copies'[d] = 0
                       /\ phase'[d.run] = "new" => asked'[d] = NoCredit
    <2> TAKE d \in Calls
    <2>1. d.run \in Runs /\ (phase'[d.run] = "new" => phase[d.run] = "new")
        BY <1>1, <1>2 DEF Calls
    <2>2. CASE d = c
        BY <1>1, <1>2, <2>2
    <2>3. CASE d # c
        BY <1>4, <2>1, <2>3 DEF RequestInv
    <2> QED
        BY <2>2, <2>3
<1>9. \A m \in wire' : m[2] <= copies'[Call(m)]
    <2> TAKE m \in wire'
    <2>1. Call(m) \in Calls /\ m[2] \in 1..(MaxRetries + 1) /\ m[2] <= copies[Call(m)]
        BY <1>1, <1>2, RequestParts DEF RequestInv
    <2> QED
        BY <1>4, <2>1
<1>10. request'[2] <= copies'[Call(request')] /\ request' \notin wire'
    BY <1>1, <1>2, <1>5 DEF Call
<1> QED
    BY <1>7, <1>8, <1>9, <1>10 DEF RequestInv, Call

(* The tool: a credit is issued when its request is served.                  *)
LEMMA RequestServe == ASSUME IndInv, RequestInv, Serve PROVE RequestInv'
<1>1. /\ UNCHANGED <<asked, copies, wire, phase, request>> /\ pc # "idle"
      /\ Pending' => Pending
    BY DEF Serve, Revalidate, Issue, Transient, Backoff, TransientExhausted, UnknownOutcome,
           Settle, Finish, Pending, client, app
<1>2. \A l \in Runs \X Credits : Sent(l)' = Sent(l)
    BY <1>1 DEF Sent, Logical, Call
<1>3. \A l \in Runs \X Credits : Served(l) \subseteq Served(l)'
    BY <1>1, <1>2 DEF Served
<1>4. UNCHANGED credits \/ (pc = "issue" /\ ~Pending' /\ Apply)
    BY DEF Serve, Revalidate, Issue, Transient, Backoff, TransientExhausted, UnknownOutcome,
           Settle, Finish, Pending, provider
<1>5. \A l \in Runs \X Credits : credits'[l] <= Cardinality(Served(l)')
    <2>1. CASE UNCHANGED credits
        BY <1>3, <2>1, BoundFrame
    <2>2. CASE pc = "issue" /\ ~Pending' /\ Apply
        <3>1. Logical(request) \in Runs \X Credits /\ request \in Requests
            BY <1>1, ServingFacts DEF Serving
        <3> TAKE l \in Runs \X Credits
        <3>2. credits[l] \in Nat /\ credits[l] <= Cardinality(Served(l))
            BY DEF IndInv, TypeOK, RequestInv
        <3>3. Served(l) \subseteq Served(l)'
            BY <1>3
        <3>4. CASE l = Logical(request)
            <4>1. request \in Sent(l) /\ request \notin wire
                BY <1>1, <3>1, <3>4 DEF Sent, RequestInv
            <4>2. request \notin Served(l)
                BY <2>2 DEF Served, Pending
            <4>3. request \in Served(l)'
                BY <1>1, <1>2, <2>2, <4>1 DEF Served
            <4>4. credits'[l] = credits[l] + 1
                BY <2>2, <3>4 DEF Apply, IndInv, TypeOK
            <4>5. Served(l) # Served(l)'
                BY <4>2, <4>3
            <4> QED
                BY <3>2, <3>3, <4>4, <4>5, BoundKept
        <3>5. CASE l # Logical(request)
            <4>1. credits'[l] = credits[l]
                BY <2>2, <3>5 DEF Apply, IndInv, TypeOK
            <4> QED
                BY <3>2, <3>3, <4>1, BoundKept
        <3> QED
            BY <3>4, <3>5
    <2> QED
        BY <1>4, <2>1, <2>2
<1> QED
    BY <1>1, <1>5 DEF RequestInv, Call

(* The bound is kept by every step.                                          *)
LEMMA RequestNext == IndInv /\ RequestInv /\ [Next]_vars => RequestInv'
<1> SUFFICES ASSUME IndInv, RequestInv, [Next]_vars PROVE RequestInv'
    OBVIOUS
<1>1. CASE UNCHANGED vars
    BY <1>1 DEF RequestInv, Served, Sent, Pending, vars, app, client, tool, provider, Call,
                Logical
<1>2. ASSUME NEW r \in Runs, StartRun(r) \/ EndRun(r) \/ EndAuthority(r) PROVE RequestInv'
    BY <1>2, RequestApp
<1>3. ASSUME NEW c \in Calls, NEW k \in Credits, CallTool(c, k) \/ DirectCredit(c, k)
      PROVE  RequestInv'
    BY <1>3, RequestClient, RequestDirect
<1>4. ASSUME NEW c \in Calls, Resend(c) \/ GiveUp(c) PROVE RequestInv'
    <2>1. asked[c] \in Credits
        BY <1>4 DEF Resend, GiveUp, IndInv, ClientInv
    <2> QED
        BY <1>4, <2>1, RequestClient
<1>5. ASSUME NEW m \in wire, Deliver(m) PROVE RequestInv'
    BY <1>5, RequestDeliver
<1> QED
    BY <1>1, <1>2, <1>3, <1>4, <1>5, RequestServe DEF Next

(* With any provider, a run has a credit at most as often as the client sent *)
(* a request for it.                                                         *)
THEOREM OneCreditForARequest == Spec => []OneCreditPerRequest
<1>1. Init => RequestInv
    <2> SUFFICES ASSUME Init PROVE RequestInv
        OBVIOUS
    <2>1. \A l \in Runs \X Credits : credits[l] <= Cardinality(Served(l))
        <3> TAKE l \in Runs \X Credits
        <3>1. IsFiniteSet(Served(l))
            BY SentFinite
        <3>2. Cardinality(Served(l)) \in Nat
            BY <3>1, FS_CardinalityType
        <3>3. credits[l] = 0
            BY DEF Init
        <3> QED
            BY <3>2, <3>3
    <2> QED
        BY <2>1 DEF Init, RequestInv
<1>2. IndInv /\ RequestInv => OneCreditPerRequest
    <2> SUFFICES ASSUME IndInv, RequestInv, NEW l \in Runs \X Credits
                 PROVE  credits[l] <= Cardinality(Sent(l))
        BY DEF OneCreditPerRequest
    <2>1. credits[l] \in Nat /\ credits[l] <= Cardinality(Served(l))
        BY DEF IndInv, TypeOK, RequestInv
    <2>2. IsFiniteSet(Sent(l)) /\ IsFiniteSet(Served(l)) /\ Served(l) \subseteq Sent(l)
        BY SentFinite
    <2>3. Cardinality(Served(l)) \in Nat /\ Cardinality(Sent(l)) \in Nat
        BY <2>2, FS_CardinalityType
    <2>4. Cardinality(Served(l)) <= Cardinality(Sent(l))
        BY <2>2, FS_Subset
    <2> QED
        BY <2>1, <2>3, <2>4
<1> QED
    BY <1>1, <1>2, RequestNext, Inductive, PTL DEF Spec

--------------------------------------------------------------------------------
(* The refinement of OperationContract. *)

(* Initially no run is open, and nothing is permitted, done or told.         *)
LEMMA ContractInit == Init => Contract!Init
<1> SUFFICES ASSUME Init
             PROVE  Contract!Init
    OBVIOUS
<1>1. ContractPhase = [r \in Runs |-> "new"]
    BY DEF Init, ContractPhase
<1>2. Authorized = {} /\ Permits = {} /\ Told = {}
    BY DEF Init, Authorized, Permits, Told
<1> QED
    BY <1>1, <1>2 DEF Init, Contract!Init

(* Calls that are told nothing new leave what is told as it is.              *)
LEMMA ToldFrame ==
    ASSUME \A c \in Calls :
               \/ answer'[c] = answer[c] /\ asked'[c] = asked[c]
               \/ /\ answer[c] \notin {"issued", "deduplicated"}
                  /\ answer'[c] \notin {"issued", "deduplicated"}
    PROVE  Told' = Told
BY DEF Told

(* The same for the answers of the tool that report no credit.               *)
LEMMA ToldAnswer ==
    ASSUME IndInv, NEW m \in Requests, NEW told \in {"blocked", "error"},
           Answered(m, told), asked' = asked
    PROVE  Told' = Told
<1>1. \A c \in Calls : \/ answer'[c] = answer[c]
                       \/ answer[c] = "waiting" /\ answer'[c] = told
    BY AnsweredType DEF IndInv
<1> QED
    BY <1>1, ToldFrame

(* A run starts, or a direct request is a run of its own.                    *)
LEMMA OpenStep ==
    ASSUME IndInv, NEW r \in Runs, phase[r] = "new",
           NEW state \in {"running", "direct"}, phase' = [phase EXCEPT ![r] = state],
           authorized' = authorized \cup {r}, Permits' = Permits, Told' = Told,
           UNCHANGED credits
    PROVE  Contract!Open(r)
<1>1. ContractPhase[r] = "new" /\ ContractPhase' = [ContractPhase EXCEPT ![r] = "open"]
    BY DEF ContractPhase, IndInv, TypeOK
<1>2. Authorized \subseteq Authorized'
    BY DEF Authorized
<1>3. \A o \in Authorized' \ Authorized :
          o \in Runs \X Credits /\ [l \in Runs \X Credits |-> l[1]][o] = r
    BY DEF Authorized
<1> QED
    BY <1>1, <1>2, <1>3 DEF Contract!Open

(* The application.                                                          *)
LEMMA ContractApp ==
    ASSUME IndInv, NEW r \in Runs, StartRun(r) \/ EndRun(r) \/ EndAuthority(r)
    PROVE  Contract!Next
<1>1. Permits' = Permits /\ UNCHANGED credits
    BY DEF StartRun, EndRun, EndAuthority, client, tool, provider, Permits, Logical, Call
<1>2. Told' = Told
    <2>1. CASE EndRun(r)
        BY <2>1, ToldFrame DEF EndRun
    <2>2. CASE StartRun(r) \/ EndAuthority(r)
        BY <2>2, ToldFrame DEF StartRun, EndAuthority, client
    <2> QED
        BY <2>1, <2>2
<1>3. CASE StartRun(r)
    <2>1. Contract!Open(r)
        BY <1>1, <1>2, <1>3, OpenStep DEF StartRun
    <2> QED
        BY <2>1 DEF Contract!Next
<1>4. CASE EndRun(r)
    <2>1. ContractPhase[r] = "open" /\ ContractPhase' = [ContractPhase EXCEPT ![r] = "closed"]
        BY <1>4 DEF EndRun, ContractPhase, IndInv, TypeOK
    <2>2. Authorized' = Authorized
        BY <1>4 DEF EndRun, Authorized
    <2>3. Contract!Close(r)
        BY <1>1, <1>2, <2>1, <2>2 DEF Contract!Close
    <2> QED
        BY <2>3 DEF Contract!Next
<1>5. CASE EndAuthority(r)
    <2>1. ContractPhase' = ContractPhase /\ Authorized' \subseteq Authorized
        BY <1>5 DEF EndAuthority, ContractPhase, Authorized
    <2>2. Contract!Withdraw
        BY <1>1, <1>2, <2>1 DEF Contract!Withdraw
    <2> QED
        BY <2>2 DEF Contract!Next
<1> QED
    BY <1>3, <1>4, <1>5

(* The client: nothing is permitted or told.                                 *)
LEMMA ContractClient ==
    ASSUME IndInv, NEW c \in Calls,
           (\E k \in Credits : CallTool(c, k)) \/ Resend(c) \/ GiveUp(c)
    PROVE  UNCHANGED Contract!vars
<1>1. UNCHANGED <<phase, authorized, credits>> /\ pc = "idle" /\ pc' = "idle"
    BY DEF CallTool, Resend, GiveUp, app, tool, provider
<1>2. Told' = Told
    <2>1. CASE \E k \in Credits : CallTool(c, k)
        <3>1. answer[c] = "none"
            BY <2>1, ConstantsAssumption DEF CallTool, IndInv, ClientInv
        <3>2. \A d \in Calls : d = c \/ (answer'[d] = answer[d] /\ asked'[d] = asked[d])
            BY <2>1 DEF CallTool, IndInv, TypeOK
        <3>3. answer'[c] = "waiting"
            BY <2>1 DEF CallTool, IndInv, TypeOK
        <3> QED
            BY <3>1, <3>2, <3>3, ToldFrame
    <2>2. CASE Resend(c)
        BY <2>2, ToldFrame DEF Resend
    <2>3. CASE GiveUp(c)
        BY <2>3, ToldFrame DEF GiveUp, IndInv, TypeOK
    <2> QED
        BY <2>1, <2>2, <2>3
<1>3. ContractPhase' = ContractPhase /\ Authorized' = Authorized /\ Permits' = Permits
    BY <1>1 DEF ContractPhase, Authorized, Permits
<1> QED
    BY <1>1, <1>2, <1>3 DEF Contract!vars

(* A request that is delivered is admitted or not: no permit yet.            *)
LEMMA ContractDeliver ==
    ASSUME IndInv, NEW m \in wire, Deliver(m)
    PROVE  UNCHANGED Contract!vars
<1>1. /\ UNCHANGED <<phase, authorized, credits, asked>>
      /\ pc = "idle" /\ pc' \in {"idle", "revalidate"}
    BY DEF Deliver, Begin, app, tool, provider
<1>2. Told' = Told
    <2>1. m \in Requests
        BY DEF IndInv, TypeOK
    <2>2. Answered(m, "error") \/ Answered(m, "blocked") \/ answer' = answer
        BY DEF Deliver
    <2> QED
        BY <1>1, <2>1, <2>2, ToldAnswer, ToldFrame
<1>3. ContractPhase' = ContractPhase /\ Authorized' = Authorized /\ Permits' = Permits
    BY <1>1 DEF ContractPhase, Authorized, Permits
<1> QED
    BY <1>1, <1>2, <1>3 DEF Contract!vars

(* A direct request opens its run.                                           *)
LEMMA ContractDirect ==
    ASSUME IndInv, AskedInv, NEW c \in Calls, NEW k \in Credits, DirectCredit(c, k)
    PROVE  Contract!Next
<1>1. pc = "idle" /\ pc' \in {"idle", "revalidate"}
    BY DEF DirectCredit, Begin
<1>2. Permits' = Permits
    BY <1>1 DEF Permits
<1>3. Told' = Told
    <2>1. answer[c] = "none"
        BY DEF DirectCredit, AskedInv
    <2> QED
        BY <2>1, ToldFrame DEF DirectCredit, IndInv, TypeOK
<1>4. c.run \in Runs
    BY DEF Calls
<1>5. Contract!Open(c.run)
    BY <1>2, <1>3, <1>4, OpenStep DEF DirectCredit, provider
<1> QED
    BY <1>4, <1>5 DEF Contract!Next

(* A permit is given on authority that is live.                              *)
LEMMA ContractRevalidate ==
    ASSUME IndInv, Revalidate
    PROVE  Contract!Next
<1>1. request \in Requests /\ Logical(request) \in Runs \X Credits
    BY LogicalType DEF IndInv, ToolInv, Revalidate
<1>2. ContractPhase' = ContractPhase /\ Authorized' = Authorized /\ UNCHANGED credits
    BY DEF Revalidate, app, provider, ContractPhase, Authorized
<1>3. CASE Permitted(Call(request).run, asked[Call(request)])
    <2>1. pc = "revalidate" /\ pc' = "issue" /\ UNCHANGED <<request, asked, answer>>
        BY <1>3 DEF Revalidate, client
    <2>2. Permits = {} /\ Permits' = {Logical(request)}
        BY <2>1 DEF Permits, Logical, Call
    <2>3. Logical(request) \in Authorized
        BY <1>1, <1>3 DEF Permitted, Logical, Authorized
    <2>4. ContractPhase[Call(request).run] = "open"
        BY <1>1, RequestParts DEF IndInv, ToolInv, Revalidate, ContractPhase
    <2>5. Told' = Told
        BY <2>1, ToldFrame
    <2>6. Contract!Permit(Logical(request))
        BY <1>1, <1>2, <2>2, <2>3, <2>4, <2>5 DEF Contract!Permit, Logical
    <2> QED
        BY <1>1, <2>6 DEF Contract!Next
<1>4. CASE ~Permitted(Call(request).run, asked[Call(request)])
    <2>1. Finish("blocked", "denied")
        BY <1>4 DEF Revalidate
    <2>2. Told' = Told
        BY <1>1, <2>1, ToldAnswer DEF Finish
    <2>3. Permits = {} /\ Permits' = {}
        BY <2>1 DEF Permits, Finish, Revalidate
    <2>4. Contract!Withdraw
        BY <1>2, <2>2, <2>3 DEF Contract!Withdraw
    <2> QED
        BY <2>4 DEF Contract!Next
<1> QED
    BY <1>3, <1>4

(* The permit that is in use at the provider.                                *)
LEMMA PermitFacts ==
    ASSUME IndInv, pc \in {"issue", "backoff"}
    PROVE  /\ request \in Requests
           /\ Logical(request) \in Runs \X Credits
           /\ Permits = {Logical(request)}
           /\ ContractPhase[Logical(request)[1]] = "open"
<1>1. request \in Requests /\ Logical(request) \in Runs \X Credits
    BY LogicalType DEF IndInv, ToolInv
<1>2. phase[Call(request).run] \in {"running", "direct"}
    BY DEF IndInv, ToolInv
<1> QED
    BY <1>1, <1>2, RequestParts DEF Permits, ContractPhase, Logical

(* A credit that the provider makes was permitted, and is the first.         *)
LEMMA ContractApply ==
    ASSUME IndInv, ProviderKeyed, pc = "issue", ~Known, Apply, UNCHANGED app,
           Permits' = {}, Told' = Told
    PROVE  Contract!Next
<1>1. /\ Logical(request) \in Runs \X Credits
      /\ Permits = {Logical(request)}
      /\ ContractPhase[Logical(request)[1]] = "open"
    BY PermitFacts
<1>2. credits[Logical(request)] = 0
    BY <1>1 DEF Known, IdempotencyKey, IndInv, ProviderInv, TypeOK
<1>3. credits' = [credits EXCEPT ![Logical(request)] = 1]
    BY <1>1, <1>2 DEF Apply, IndInv, TypeOK
<1>4. ContractPhase' = ContractPhase /\ Authorized' = Authorized
    BY DEF app, ContractPhase, Authorized
<1>5. Contract!Perform(Logical(request))
    BY <1>1, <1>2, <1>3, <1>4 DEF Contract!Perform
<1> QED
    BY <1>1, <1>5 DEF Contract!Next

(* A permit that is not used is given up.                                    *)
LEMMA ContractDrop ==
    ASSUME IndInv, pc = "issue", UNCHANGED <<app, credits>>, Permits' = {}, Told' = Told
    PROVE  Contract!Next
<1>1. Logical(request) \in Runs \X Credits /\ Permits = {Logical(request)}
    BY PermitFacts
<1>2. ContractPhase' = ContractPhase /\ Authorized' = Authorized
    BY DEF app, ContractPhase, Authorized
<1>3. Contract!Drop(Logical(request))
    BY <1>1, <1>2 DEF Contract!Drop
<1> QED
    BY <1>1, <1>3 DEF Contract!Next

(* The provider is called.                                                   *)
LEMMA ContractProvider ==
    ASSUME IndInv, ProviderKeyed,
           Issue \/ Transient \/ Backoff \/ TransientExhausted \/ UnknownOutcome
    PROVE  [Contract!Next]_(Contract!vars)
<1>1. CASE Issue
    <2>1. pc = "issue" /\ pc' = "settle" /\ UNCHANGED <<app, asked, answer>>
        BY <1>1 DEF Issue, client
    <2>2. Permits' = {} /\ Told' = Told
        BY <2>1, ToldFrame DEF Permits
    <2>3. (~Known /\ Apply) \/ UNCHANGED credits
        BY <1>1 DEF Issue, provider
    <2> QED
        BY <2>1, <2>2, <2>3, ContractApply, ContractDrop
<1>2. CASE Transient \/ Backoff
    <2>1. /\ UNCHANGED <<app, asked, answer, request, credits>>
          /\ pc \in {"issue", "backoff"} /\ pc' \in {"issue", "backoff"}
        BY <1>2 DEF Transient, Backoff, client, provider
    <2>2. Permits' = Permits /\ Told' = Told
        BY <2>1, ToldFrame DEF Permits, Logical, Call
    <2>3. ContractPhase' = ContractPhase /\ Authorized' = Authorized
        BY <2>1 DEF app, ContractPhase, Authorized
    <2> QED
        BY <2>1, <2>2, <2>3 DEF Contract!vars
<1>3. CASE TransientExhausted \/ UnknownOutcome
    <2>1. /\ pc = "issue" /\ pc' = "idle" /\ UNCHANGED <<app, asked>>
          /\ Answered(request, "error")
          /\ (~Known /\ Apply) \/ UNCHANGED credits
        BY <1>3 DEF TransientExhausted, UnknownOutcome, Finish, provider
    <2>2. Permits' = {}
        BY <2>1 DEF Permits
    <2>3. Told' = Told
        BY <2>1, PermitFacts, ToldAnswer
    <2> QED
        BY <2>1, <2>2, <2>3, ContractApply, ContractDrop
<1> QED
    BY <1>1, <1>2, <1>3

(* The tool answers: the credit it reports exists.                           *)
LEMMA ContractSettle ==
    ASSUME IndInv, ProviderKeyed, Settle
    PROVE  Contract!Next
<1>1. /\ request \in Requests
      /\ Logical(request) \in Runs \X Credits
      /\ result \in {"issued", "deduplicated"}
      /\ credits[Logical(request)] > 0
    BY LogicalType DEF IndInv, ToolInv, Settle
<1>2. credits[Logical(request)] = 1
    BY <1>1 DEF IndInv, ProviderInv, TypeOK
<1>3. /\ pc = "settle" /\ pc' = "idle" /\ UNCHANGED <<app, asked, credits>>
      /\ Answered(request, result) \/ Answered(request, "error")
    BY DEF Settle, Finish, provider
<1>4. ContractPhase' = ContractPhase /\ Authorized' = Authorized /\ Permits' = Permits
    BY <1>3 DEF app, ContractPhase, Authorized, Permits
<1>5. Told' = Told \/ Told' = Told \cup {<<Call(request), Logical(request)>>}
    <2>1. CASE Answered(request, "error")
        BY <1>1, <1>3, <2>1, ToldAnswer
    <2>2. CASE Answered(request, result)
        <3>1. CASE UNCHANGED answer
            BY <1>3, <3>1, ToldFrame
        <3>2. CASE answer' = [answer EXCEPT ![Call(request)] = result]
            BY <1>1, <1>3, <3>2, RequestParts DEF Told, Logical, IndInv, TypeOK
        <3> QED
            BY <2>2, <3>1, <3>2 DEF Answered
    <2> QED
        BY <1>3, <2>1, <2>2
<1>6. CASE Told' = Told
    <2>1. Contract!Withdraw
        BY <1>3, <1>4, <1>6 DEF Contract!Withdraw
    <2> QED
        BY <2>1 DEF Contract!Next
<1>7. CASE Told' = Told \cup {<<Call(request), Logical(request)>>}
    <2>1. Contract!Tell(Call(request), Logical(request))
        BY <1>2, <1>3, <1>4, <1>7 DEF Contract!Tell
    <2> QED
        BY <1>1, <2>1, RequestParts DEF Contract!Next
<1> QED
    BY <1>5, <1>6, <1>7

(* Calls are made by runs that have begun.                                   *)
LEMMA AskedStep ==
    ASSUME IndInv, AskedInv, [Next]_vars
    PROVE  AskedInv'
<1>1. \A r \in Runs : phase[r] # "new" => phase'[r] # "new"
    BY DEF Next, vars, app, StartRun, EndRun, EndAuthority, CallTool, DirectCredit, Resend,
           GiveUp, Deliver, Serve, Revalidate, Issue, Transient, Backoff, TransientExhausted,
           UnknownOutcome, Settle, IndInv, TypeOK
<1>2. ASSUME NEW c \in Calls, answer[c] = "none"
      PROVE  answer'[c] = "none" \/ phase'[c.run] # "new"
    <2>1. ASSUME NEW m \in Requests, NEW told, Answered(m, told)
          PROVE  answer'[c] = "none"
        BY <1>2, <2>1, RequestParts DEF Answered, IndInv, TypeOK
    <2>2. CASE \E r \in Runs : StartRun(r) \/ EndRun(r) \/ EndAuthority(r)
        BY <1>2, <2>2 DEF StartRun, EndRun, EndAuthority, client
    <2>3. ASSUME NEW d \in Calls, NEW k \in Credits,
                 CallTool(d, k) \/ DirectCredit(d, k)
          PROVE  answer'[c] = "none" \/ phase'[c.run] # "new"
        <3>1. d.run \in Runs
            BY DEF Calls
        <3> QED
            BY <1>2, <2>3, <3>1 DEF CallTool, DirectCredit, app, IndInv, TypeOK
    <2>4. CASE \E d \in Calls : Resend(d) \/ GiveUp(d)
        BY <1>2, <2>4 DEF Resend, GiveUp, IndInv, TypeOK
    <2>5. ASSUME NEW m \in wire, Deliver(m)
          PROVE  answer'[c] = "none"
        <3>1. m \in Requests
            BY DEF IndInv, TypeOK
        <3> QED
            BY <1>2, <2>1, <2>5, <3>1 DEF Deliver
    <2>6. CASE Serve
        <3>1. request \in Requests
            BY <2>6 DEF Serve, Revalidate, Issue, Transient, Backoff, TransientExhausted,
                        UnknownOutcome, Settle, IndInv, ToolInv
        <3>2. CASE Issue \/ Transient \/ Backoff
            BY <1>2, <3>2 DEF Issue, Transient, Backoff, client
        <3>3. CASE Revalidate
            BY <1>2, <2>1, <3>1, <3>3 DEF Revalidate, Finish, client
        <3>4. CASE TransientExhausted \/ UnknownOutcome
            BY <2>1, <3>1, <3>4 DEF TransientExhausted, UnknownOutcome, Finish
        <3>5. CASE Settle
            BY <2>1, <3>1, <3>5 DEF Settle, Finish
        <3> QED
            BY <2>6, <3>2, <3>3, <3>4, <3>5 DEF Serve
    <2>7. CASE UNCHANGED vars
        BY <1>2, <2>7 DEF vars, client
    <2> QED
        BY <2>2, <2>3, <2>4, <2>5, <2>6, <2>7 DEF Next
<1> QED
    BY <1>1, <1>2 DEF AskedInv, Calls

LEMMA Asked == Spec => []AskedInv
<1>1. Init => AskedInv
    BY DEF Init, AskedInv
<1>2. IndInv /\ AskedInv /\ [Next]_vars => AskedInv'
    BY AskedStep
<1> QED
    BY <1>1, <1>2, Inductive, PTL DEF Spec

(* Every step of the credit path is a step of the contract, or none.         *)
LEMMA ContractNext ==
    ASSUME IndInv, AskedInv, ProviderKeyed, [Next]_vars
    PROVE  [Contract!Next]_(Contract!vars)
<1>1. CASE UNCHANGED vars
    BY <1>1 DEF vars, app, client, tool, provider, Contract!vars, ContractPhase, Authorized,
                Permits, Told, Logical, Call
<1>2. CASE \E c \in Calls : (\E k \in Credits : CallTool(c, k)) \/ Resend(c) \/ GiveUp(c)
    BY <1>2, ContractClient
<1>3. CASE \E m \in wire : Deliver(m)
    BY <1>3, ContractDeliver
<1>4. CASE \E r \in Runs : StartRun(r) \/ EndRun(r) \/ EndAuthority(r)
    BY <1>4, ContractApp
<1>5. CASE \E c \in Calls, k \in Credits : DirectCredit(c, k)
    BY <1>5, ContractDirect
<1>6. CASE Serve
    BY <1>6, ContractRevalidate, ContractProvider, ContractSettle DEF Serve
<1> QED
    BY <1>1, <1>2, <1>3, <1>4, <1>5, <1>6 DEF Next

(* The automatic credit path implements the contract of the tool boundary    *)
(* (guest_credit.py, credit.py, registry.py).                                *)
THEOREM CreditKeepsContract ==
    ASSUME ProviderKeyed
    PROVE  Spec => ImplementsContract
<1>1. IndInv /\ AskedInv /\ [Next]_vars => [Contract!Next]_(Contract!vars)
    BY ContractNext
<1> QED
    BY <1>1, Asked, ContractInit, Inductive, PTL DEF Spec, ImplementsContract, Contract!Spec

(* A credit that was not permitted stays so while its run has no authority.  *)
LEMMA UntouchedStep ==
    ASSUME IndInv, [Contract!Next]_(Contract!vars), NEW o \in Runs \X Credits,
           Contract!Untouched(o), o \notin Authorized
    PROVE  Contract!Untouched(o)'
<1>1. CASE UNCHANGED <<credits, Permits>>
    BY <1>1 DEF Contract!Untouched
<1>2. ASSUME NEW p \in Runs \X Credits,
             Contract!Permit(p) \/ Contract!Drop(p) \/ Contract!Perform(p)
      PROVE  Contract!Untouched(o)'
    BY <1>2 DEF IndInv, TypeOK, Contract!Untouched, Contract!Permit, Contract!Drop,
                Contract!Perform
<1> QED
    BY <1>1, <1>2
    DEF Contract!Next, Contract!vars, Contract!Withdraw, Contract!Open, Contract!Close,
        Contract!Permit, Contract!Drop, Contract!Perform, Contract!Tell

(* A credit for which the run has no authority, or none any more, is never   *)
(* issued however often the client sends the request again, unless an        *)
(* invocation had been permitted to issue it before (guest_credit.py).       *)
THEOREM RevokedIsNeverIssued ==
    ASSUME ProviderKeyed
    PROVE  Spec => RevokedIsFinal
<1> SUFFICES ASSUME NEW o \in Runs \X Credits
             PROVE  Spec => [](Contract!Untouched(o) /\ [](o \notin Authorized)
                                   => []Contract!Untouched(o))
    BY DEF RevokedIsFinal, Contract!RevocationHolds
<1>1. IndInv /\ [Contract!Next]_(Contract!vars) /\ Contract!Untouched(o) /\ o \notin Authorized
          => Contract!Untouched(o)'
    BY UntouchedStep
<1>2. Spec => ImplementsContract
    BY CreditKeepsContract
<1> QED
    BY <1>1, <1>2, Inductive, PTL DEF ImplementsContract, Contract!Spec

--------------------------------------------------------------------------------
(* Every tool call is answered. *)

(* What reliability/config.py accepts for the two retry budgets.             *)
ConfiguredBudgets == MaxAttempts \in 1..4 /\ MaxRetries \in 0..3

(* How many steps at most separate the tool from its answer.                 *)
StepsLeft ==
    CASE pc = "idle" -> 0
      [] pc = "settle" -> 1
      [] pc = "issue" -> 2 * (5 - attempt)
      [] pc = "backoff" -> 2 * (5 - attempt) - 1
      [] pc = "revalidate" -> 9

Left(n) == StepsLeft = n
Fewer(n) == StepsLeft < n

LEMMA StepsLeftType ==
    ASSUME IndInv, ConfiguredBudgets
    PROVE  StepsLeft \in 0..9 /\ (StepsLeft = 0 <=> ~Serving)
<1>1. /\ pc \in {"idle", "revalidate", "issue", "backoff", "settle"}
      /\ MaxAttempts \in 1..4 /\ attempt \in 0..MaxAttempts
      /\ pc \in {"issue", "backoff"} => attempt # 0
      /\ pc = "backoff" => attempt < MaxAttempts
    BY DEF IndInv, TypeOK, ToolInv, ConfiguredBudgets
<1> QED
    BY <1>1 DEF StepsLeft, Serving

(* A step of the tool brings it nearer to its answer, ...                    *)
LEMMA ToolAdvances ==
    ASSUME IndInv, ConfiguredBudgets, Serve
    PROVE  StepsLeft' < StepsLeft
<1>1. /\ MaxAttempts \in 1..4 /\ attempt \in 0..MaxAttempts
      /\ pc \in {"issue", "backoff"} => attempt # 0
      /\ pc = "backoff" => attempt < MaxAttempts
    BY DEF IndInv, TypeOK, ToolInv, ConfiguredBudgets
<1>2. pc' = "idle" => StepsLeft' = 0
    BY DEF StepsLeft
<1>3. CASE Revalidate
    BY <1>1, <1>2, <1>3 DEF Revalidate, Finish, StepsLeft
<1>4. CASE Issue
    BY <1>1, <1>4 DEF Issue, StepsLeft
<1>5. CASE Transient
    BY <1>1, <1>5 DEF Transient, StepsLeft
<1>6. CASE Backoff
    BY <1>1, <1>6 DEF Backoff, StepsLeft
<1>7. CASE TransientExhausted \/ UnknownOutcome
    BY <1>1, <1>2, <1>7 DEF TransientExhausted, UnknownOutcome, Finish, StepsLeft
<1>8. CASE Settle
    BY <1>1, <1>2, <1>8 DEF Settle, Finish, StepsLeft
<1> QED
    BY <1>3, <1>4, <1>5, <1>6, <1>7, <1>8 DEF Serve

(* ... and while it serves a request nothing else takes a step but the end   *)
(* of a run's authority.                                                     *)
LEMMA OnlyTheTool ==
    ASSUME Serving, [Next]_vars, ~Serve
    PROVE  StepsLeft' = StepsLeft
<1>1. pc' = pc /\ attempt' = attempt
    BY DEF Serving, Next, vars, tool, StartRun, EndRun, EndAuthority, CallTool, DirectCredit,
           Resend, GiveUp, Deliver
<1> QED
    BY <1>1 DEF StepsLeft

Falls(n) == Left(n) ~> Fewer(n)

LEMMA StepsFall ==
    ASSUME ConfiguredBudgets, NEW n \in 1..9
    PROVE  Spec /\ ToolRuns /\ []CallsNeverStuck => Falls(n)
<1>1. IndInv /\ Left(n) /\ [Next]_vars => Left(n)' \/ Fewer(n)'
    BY StepsLeftType, ToolAdvances, OnlyTheTool DEF Left, Fewer
<1>2. IndInv /\ Left(n) /\ <<Serve>>_vars => Fewer(n)'
    BY ToolAdvances DEF Left, Fewer
<1>3. IndInv /\ CallsNeverStuck /\ Left(n) => ENABLED <<Serve>>_vars
    BY StepsLeftType DEF CallsNeverStuck, Left, Serving
<1> QED
    BY <1>1, <1>2, <1>3, Inductive, PTL DEF Spec, ToolRuns, Falls

(* The tool is idle again and again: it always answers.                      *)
ToolAnswers == []<>~Serving

LEMMA ToolEnds ==
    ASSUME ConfiguredBudgets
    PROVE  Spec /\ ToolRuns /\ []CallsNeverStuck => ToolAnswers
<1>1. Spec /\ ToolRuns /\ []CallsNeverStuck =>
          /\ Falls(1) /\ Falls(2) /\ Falls(3) /\ Falls(4) /\ Falls(5)
          /\ Falls(6) /\ Falls(7) /\ Falls(8) /\ Falls(9)
    BY StepsFall
<1>2. IndInv =>
          /\ Fewer(1) => ~Serving
          /\ Fewer(2) => Left(1) \/ Fewer(1)
          /\ Fewer(3) => Left(2) \/ Fewer(2)
          /\ Fewer(4) => Left(3) \/ Fewer(3)
          /\ Fewer(5) => Left(4) \/ Fewer(4)
          /\ Fewer(6) => Left(5) \/ Fewer(5)
          /\ Fewer(7) => Left(6) \/ Fewer(6)
          /\ Fewer(8) => Left(7) \/ Fewer(7)
          /\ Fewer(9) => Left(8) \/ Fewer(8)
          /\ Left(9) \/ Fewer(9)
    BY StepsLeftType DEF Left, Fewer
<1> QED
    BY <1>1, <1>2, Inductive, PTL DEF ToolAnswers, Falls

(* A client that waits, after so many requests.                              *)
Waiting(c) == answer[c] = "waiting"
WaitsAfter(c, n) == Waiting(c) /\ copies[c] = n

(* It sends another request or stops waiting, in a step of its own, ...      *)
LEMMA TimeoutStep ==
    ASSUME IndInv, NEW c \in Calls, NEW n \in 0..4, WaitsAfter(c, n), Timeout(c)
    PROVE  WaitsAfter(c, n + 1)' \/ ~Waiting(c)'
<1>1. /\ copies[c] = n
      /\ copies \in [Calls -> 0..(MaxRetries + 1)]
      /\ DOMAIN answer = Calls
    BY DEF IndInv, TypeOK, WaitsAfter
<1>2. CASE Resend(c)
    BY <1>1, <1>2 DEF Resend, WaitsAfter, Waiting
<1>3. CASE GiveUp(c)
    BY <1>1, <1>3 DEF GiveUp, Waiting
<1> QED
    BY <1>2, <1>3 DEF Timeout

(* ... and no other step makes it forget what it has sent.                   *)
LEMMA OthersWait ==
    ASSUME IndInv, AskedInv, NEW c \in Calls, NEW n \in 0..4, WaitsAfter(c, n),
           [Next]_vars, ~Timeout(c)
    PROVE  WaitsAfter(c, n)' \/ ~Waiting(c)'
<1>1. SUFFICES copies'[c] = copies[c]
    BY DEF WaitsAfter, Waiting
<1>2. copies \in [Calls -> 0..(MaxRetries + 1)]
    BY DEF IndInv, TypeOK
<1>3. asked[c] # NoCredit /\ phase[c.run] # "new"
    <2>1. answer[c] # "none"
        BY DEF WaitsAfter, Waiting
    <2>2. asked[c] \in Credits
        BY <2>1, Zenon DEF IndInv, ClientInv
    <2> QED
        BY <2>1, <2>2, ConstantsAssumption DEF AskedInv
<1>4. CASE UNCHANGED vars \/ Serve
    BY <1>4 DEF vars, client, Serve, Revalidate, Issue, Transient, Backoff, TransientExhausted,
                UnknownOutcome, Settle, Finish
<1>5. ASSUME NEW d \in Calls, NEW k \in Credits, CallTool(d, k) \/ DirectCredit(d, k)
      PROVE  copies'[c] = copies[c]
    BY <1>2, <1>3, <1>5 DEF CallTool, DirectCredit
<1>6. ASSUME NEW d \in Calls, Resend(d) \/ GiveUp(d)
      PROVE  copies'[c] = copies[c]
    BY <1>2, <1>6 DEF Timeout, Resend, GiveUp
<1> QED
    BY <1>4, <1>5, <1>6 DEF Next, StartRun, EndRun, EndAuthority, Deliver, client

(* A client's timeout, due again and again, is taken again and again: the    *)
(* event loop runs its timers in the order they are due.                     *)
TimesOutAgain(c) == SF_vars(Timeout(c))

GoesOn(c, n) == WaitsAfter(c, n) ~> (WaitsAfter(c, n + 1) \/ ~Waiting(c))
Stops(c) == Waiting(c) ~> ~Waiting(c)

LEMMA WaitGoesOn ==
    ASSUME NEW c \in Calls, NEW n \in 0..4
    PROVE  Spec /\ ToolAnswers /\ TimesOutAgain(c) /\ []CallsNeverStuck => GoesOn(c, n)
<1>1. IndInv /\ AskedInv /\ WaitsAfter(c, n) /\ [Next]_vars
          => WaitsAfter(c, n)' \/ WaitsAfter(c, n + 1)' \/ ~Waiting(c)'
    BY TimeoutStep, OthersWait
<1>2. IndInv /\ WaitsAfter(c, n) /\ <<Timeout(c)>>_vars => WaitsAfter(c, n + 1)' \/ ~Waiting(c)'
    BY TimeoutStep
<1>3. CallsNeverStuck /\ WaitsAfter(c, n) /\ ~Serving => ENABLED <<Timeout(c)>>_vars
    BY DEF CallsNeverStuck, WaitsAfter, Waiting, Serving
<1> QED
    BY <1>1, <1>2, <1>3, Inductive, Asked, PTL DEF Spec, ToolAnswers, TimesOutAgain, GoesOn

LEMMA WaitEnds ==
    ASSUME NEW c \in Calls, ConfiguredBudgets
    PROVE  Spec /\ ToolAnswers /\ TimesOutAgain(c) /\ []CallsNeverStuck => Stops(c)
<1>1. Spec /\ ToolAnswers /\ TimesOutAgain(c) /\ []CallsNeverStuck =>
          GoesOn(c, 0) /\ GoesOn(c, 1) /\ GoesOn(c, 2) /\ GoesOn(c, 3) /\ GoesOn(c, 4)
    BY WaitGoesOn
<1>2. IndInv /\ Waiting(c) => \/ WaitsAfter(c, 0) \/ WaitsAfter(c, 1) \/ WaitsAfter(c, 2)
                             \/ WaitsAfter(c, 3) \/ WaitsAfter(c, 4)
    BY DEF IndInv, TypeOK, ConfiguredBudgets, WaitsAfter
<1>3. IndInv => ~WaitsAfter(c, 4 + 1)
    BY DEF IndInv, TypeOK, ConfiguredBudgets, WaitsAfter
<1>4. /\ WaitsAfter(c, 0 + 1) => WaitsAfter(c, 1)
      /\ WaitsAfter(c, 1 + 1) => WaitsAfter(c, 2)
      /\ WaitsAfter(c, 2 + 1) => WaitsAfter(c, 3)
      /\ WaitsAfter(c, 3 + 1) => WaitsAfter(c, 4)
    BY DEF WaitsAfter
<1> QED
    BY <1>1, <1>2, <1>3, <1>4, Inductive, PTL DEF GoesOn, Stops

(* Every tool call is answered, for every retry budget the configuration     *)
(* accepts and any number of runs, endless traffic included: the tool's      *)
(* retries end in an answer, and the client's end in an answer or an error   *)
(* (credit.py, config.py, the MCP client). With finitely many runs, as the   *)
(* run credit_execution has, weak fairness of the clients is enough.         *)
THEOREM ToolCallsAnswered ==
    ASSUME ConfiguredBudgets
    PROVE  Spec /\ ToolRuns /\ (\A c \in Calls : TimesOutAgain(c)) /\ []CallsNeverStuck
               => EveryToolCallAnswered
<1> SUFFICES ASSUME NEW c \in Calls
             PROVE  Spec /\ ToolRuns /\ (\A d \in Calls : TimesOutAgain(d)) /\ []CallsNeverStuck
                        => (answer[c] = "waiting" ~> answer[c] # "waiting")
    BY DEF EveryToolCallAnswered
<1>1. (\A d \in Calls : TimesOutAgain(d)) => TimesOutAgain(c)
    OBVIOUS
<1>2. Spec /\ ToolRuns /\ []CallsNeverStuck => ToolAnswers
    BY ToolEnds
<1>3. Spec /\ ToolAnswers /\ TimesOutAgain(c) /\ []CallsNeverStuck => Stops(c)
    BY WaitEnds
<1>4. answer[c] = "waiting" => Waiting(c)
    BY DEF Waiting
<1>5. ~Waiting(c) => answer[c] # "waiting"
    BY DEF Waiting
<1> QED
    BY <1>1, <1>2, <1>3, <1>4, <1>5, PTL DEF Stops
================================================================================
