----------------------------- MODULE CreditExecution -----------------------------
(***************************************************************************)
(* An automatic guest credit, from the agent run that asks for it to the   *)
(* credit provider: the run's registration, the MCP client with its        *)
(* retries, the issue_guest_credit tool, SecuredGuestCreditTool and the    *)
(* bounded retry of the provider.                                          *)
(*                                                                         *)
(* The run, the MCP client and the MCP server share one event loop, and    *)
(* the tool never awaits: from the delivery of a request to its answer the *)
(* loop runs nothing else, and the sleep between two attempts blocks it.   *)
(* Time does pass meanwhile, and other threads run: the authority of a     *)
(* run may end (its grants are revoked or expire) between any two steps.   *)
(*                                                                         *)
(* A request or an answer may be late: the client stops waiting and sends  *)
(* the same call again, a limited number of times, while the server may    *)
(* still deliver the first request, even after the run has ended.          *)
(***************************************************************************)
EXTENDS Naturals, FiniteSets

CONSTANTS
    Runs,           \* agent runs, each with a task of its own
    Credits,        \* (reservation, amount) pairs a model may ask for
    Allowed,        \* those the delegated limit and the policy allow
    NoCredit,
    NoRequest,
    MaxCalls,       \* bound: tool calls of a run
    MaxRetries,     \* ASANTE_MCP_MAX_RETRIES
    MaxAttempts,    \* RetryPolicy.max_attempts
    ProviderKeyed   \* the provider honours idempotency keys, as the ledger does

Calls == [run : Runs, number : 1..MaxCalls]
Requests == Calls \X (1..(MaxRetries + 1))

ASSUME ConstantsAssumption ==
    /\ Allowed \subseteq Credits
    /\ NoCredit \notin Credits
    /\ NoRequest \notin Requests
    /\ MaxCalls \in Nat
    /\ MaxRetries \in Nat
    /\ MaxAttempts \in Nat \ {0}
    /\ ProviderKeyed \in BOOLEAN

VARIABLES
    (* The application. *)
    phase,          \* phase[r]: "new", "running", "ended" or "direct"
    registered,     \* the runs in the TrustedTaskRegistry
    authorized,     \* the runs whose grants are live
    (* The MCP clients. *)
    asked,          \* asked[c]: the credit that call c is for, or NoCredit
    copies,         \* copies[c]: requests sent for call c
    answer,         \* answer[c]: what the agent was told
    wire,           \* requests sent and not yet delivered
    (* The tool: one invocation at a time. *)
    pc,
    request,        \* the request it serves or served last
    attempt,        \* attempts of the provider call
    execution,      \* Ruhusa's record of the invocation
    result,
    applied,        \* history: credits this invocation caused
    (* The credit provider. *)
    credits,        \* credits[r, k]: credits k it issued to run r
    keys            \* idempotency keys it knows

app == <<phase, registered, authorized>>
client == <<asked, copies, answer, wire>>
tool == <<pc, request, attempt, execution, result, applied>>
provider == <<credits, keys>>
vars == <<app, client, tool, provider>>

Call(m) == m[1]
Logical(m) == <<Call(m).run, asked[Call(m)]>>

Init ==
    /\ phase = [r \in Runs |-> "new"]
    /\ registered = {}
    /\ authorized = {}
    /\ asked = [c \in Calls |-> NoCredit]
    /\ copies = [c \in Calls |-> 0]
    /\ answer = [c \in Calls |-> "none"]
    /\ wire = {}
    /\ pc = "idle"
    /\ request = NoRequest
    /\ attempt = 0
    /\ execution = "none"
    /\ result = "none"
    /\ applied = 0
    /\ credits = [l \in Runs \X Credits |-> 0]
    /\ keys = {}

--------------------------------------------------------------------------------
(* The application: a run, and the end of its authority.                     *)

(* run_agent issues the delegation chains and registers the task.            *)
StartRun(r) ==
    /\ pc = "idle"
    /\ phase[r] = "new"
    /\ phase' = [phase EXCEPT ![r] = "running"]
    /\ registered' = registered \cup {r}
    /\ authorized' = authorized \cup {r}
    /\ UNCHANGED <<client, tool, provider>>

(* Mutant: the task stays registered.                                        *)
EndRun_StaysRegistered(r) ==
    /\ pc = "idle"
    /\ phase[r] = "running"
    /\ phase' = [phase EXCEPT ![r] = "ended"]
    /\ answer' = [c \in Calls |-> IF c.run = r /\ answer[c] = "waiting"
                                  THEN "error" ELSE answer[c]]
    /\ UNCHANGED <<registered, authorized, asked, copies, wire, tool, provider>>

(* The run returns, fails or is cancelled; finally unregisters its task. The *)
(* calls it was waiting for are abandoned, their requests are not recalled.  *)
EndRun(r) ==
    /\ pc = "idle"
    /\ phase[r] = "running"
    /\ phase' = [phase EXCEPT ![r] = "ended"]
    /\ registered' = registered \ {r}
    /\ answer' = [c \in Calls |-> IF c.run = r /\ answer[c] = "waiting"
                                  THEN "error" ELSE answer[c]]
    /\ UNCHANGED <<authorized, asked, copies, wire, tool, provider>>

(* A grant of the chain is revoked, or it expires.                           *)
EndAuthority(r) ==
    /\ r \in authorized
    /\ authorized' = authorized \ {r}
    /\ UNCHANGED <<phase, registered, client, tool, provider>>

--------------------------------------------------------------------------------
(* The MCP client of the Service Recovery specialist.                        *)

(* The model calls issue_guest_credit, with any credit, again or in parallel.*)
CallTool(c, k) ==
    /\ pc = "idle"
    /\ phase[c.run] = "running"
    /\ asked[c] = NoCredit
    /\ asked' = [asked EXCEPT ![c] = k]
    /\ copies' = [copies EXCEPT ![c] = 1]
    /\ answer' = [answer EXCEPT ![c] = "waiting"]
    /\ wire' = wire \cup {<<c, 1>>}
    /\ UNCHANGED <<app, tool, provider>>

(* No answer in time: the client sends the call again ...                    *)
Resend(c) ==
    /\ pc = "idle"
    /\ phase[c.run] = "running"
    /\ answer[c] = "waiting"
    /\ copies[c] <= MaxRetries
    /\ copies' = [copies EXCEPT ![c] = @ + 1]
    /\ wire' = wire \cup {<<c, copies[c] + 1>>}
    /\ UNCHANGED <<asked, answer, app, tool, provider>>

(* ... or, out of retries, reports an error to the agent.                    *)
GiveUp(c) ==
    /\ pc = "idle"
    /\ answer[c] = "waiting"
    /\ copies[c] > MaxRetries \/ phase[c.run] = "direct"
    /\ answer' = [answer EXCEPT ![c] = "error"]
    /\ UNCHANGED <<asked, copies, wire, app, tool, provider>>

(* The tool's answer reaches the client, unless it no longer waits for this  *)
(* request or the answer is late.                                            *)
Answered(m, told) ==
    \/ UNCHANGED answer
    \/ /\ answer[Call(m)] = "waiting"
       /\ m[2] = copies[Call(m)]
       /\ answer' = [answer EXCEPT ![Call(m)] = told]

--------------------------------------------------------------------------------
(* issue_guest_credit and SecuredGuestCreditTool.issue_credit.               *)

(* Ruhusa's verdict: the grants are live, the amount is within the delegated *)
(* limit and the policy.                                                     *)
Permitted(r, k) == r \in authorized /\ k \in Allowed

(* A new invocation and its admission. A denied one has no effect.           *)
Begin(m, admitted) ==
    /\ request' = m
    /\ attempt' = 0
    /\ applied' = 0
    /\ result' = "none"
    /\ pc' = IF admitted THEN "revalidate" ELSE "idle"
    /\ execution' = IF admitted THEN "executing" ELSE "denied"

(* The server looks the task up in the registry; an unknown one is an error. *)
Deliver(m) ==
    LET r == Call(m).run
        admitted == Permitted(r, asked[Call(m)])
    IN
    /\ pc = "idle"
    /\ m \in wire
    /\ wire' = wire \ {m}
    /\ \/ r \notin registered /\ Answered(m, "error") /\ UNCHANGED tool
       \/ r \in registered /\ admitted /\ Begin(m, TRUE) /\ UNCHANGED answer
       \/ r \in registered /\ ~admitted /\ Begin(m, FALSE) /\ Answered(m, "blocked")
    /\ UNCHANGED <<asked, copies, app, provider>>

(* dev_issue_credit: no registry, a fresh task, the same tool.               *)
DirectCredit(c, k) ==
    /\ pc = "idle"
    /\ phase[c.run] = "new"
    /\ c.number = 1
    /\ phase' = [phase EXCEPT ![c.run] = "direct"]
    /\ authorized' = authorized \cup {c.run}
    /\ asked' = [asked EXCEPT ![c] = k]
    /\ copies' = [copies EXCEPT ![c] = 1]
    /\ answer' = [answer EXCEPT ![c] = IF k \in Allowed THEN "waiting" ELSE "blocked"]
    /\ Begin(<<c, 1>>, k \in Allowed)
    /\ UNCHANGED <<registered, wire, provider>>

(* The tool answers and the loop is free again.                              *)
Finish(told, state) ==
    /\ pc' = "idle"
    /\ execution' = state
    /\ attempt' = 0
    /\ result' = "none"
    /\ Answered(request, told)
    /\ UNCHANGED <<asked, copies, wire, request>>

(* Mutant: a permit, once given, is not checked again.                       *)
Revalidate_Skipped ==
    /\ pc = "revalidate"
    /\ pc' = "issue"
    /\ attempt' = 1
    /\ UNCHANGED <<request, execution, result, applied, client, app, provider>>

(* Mutant: a permit that is refused now is not answered.                     *)
Revalidate_Unanswered ==
    /\ pc = "revalidate"
    /\ Permitted(Call(request).run, asked[Call(request)])
    /\ pc' = "issue"
    /\ attempt' = 1
    /\ UNCHANGED <<request, execution, result, applied, client, app, provider>>

Revalidate ==
    /\ pc = "revalidate"
    /\ IF Permitted(Call(request).run, asked[Call(request)])
       THEN /\ pc' = "issue"
            /\ attempt' = 1
            /\ UNCHANGED <<request, execution, result, client>>
       ELSE Finish("blocked", "denied")
    /\ UNCHANGED <<applied, app, provider>>

(* Mutant: every request has a key of its own.                               *)
IdempotencyKey_PerRequest(m) == m

(* build_credit_idempotency_key.                                             *)
IdempotencyKey(m) == Logical(m)

(* The provider records a credit and its key.                                *)
Apply ==
    /\ credits' = [credits EXCEPT ![Logical(request)] = @ + 1]
    /\ keys' = keys \cup {IdempotencyKey(request)}
    /\ applied' = applied + 1

Known == ProviderKeyed /\ IdempotencyKey(request) \in keys

(* The provider call succeeds.                                               *)
Issue ==
    /\ pc = "issue"
    /\ pc' = "settle"
    /\ \/ /\ Known
          /\ result' = "deduplicated"
          /\ UNCHANGED <<applied, provider>>
       \/ /\ ~Known
          /\ Apply
          /\ result' = "issued"
    /\ UNCHANGED <<request, attempt, execution, client, app>>

(* A TransientCreditProviderError: nothing happened, try again after a sleep *)
(* while the budget lasts.                                                   *)
Transient ==
    /\ pc = "issue"
    /\ attempt < MaxAttempts
    /\ pc' = "backoff"
    /\ UNCHANGED <<request, attempt, execution, result, applied, client, app, provider>>

(* Mutant: the attempts are not counted.                                     *)
Backoff_Uncounted ==
    /\ pc = "backoff"
    /\ pc' = "issue"
    /\ UNCHANGED <<request, attempt, execution, result, applied, client, app, provider>>

Backoff ==
    /\ pc = "backoff"
    /\ pc' = "issue"
    /\ attempt' = attempt + 1
    /\ UNCHANGED <<request, execution, result, applied, client, app, provider>>

(* Mutant: a failure is reported like a success.                             *)
TransientExhausted_Completes ==
    /\ pc = "issue"
    /\ attempt >= MaxAttempts
    /\ Finish("issued", "completed")
    /\ UNCHANGED <<applied, app, provider>>

(* The last attempt fails too: mark_unknown, and the error leaves the tool.  *)
TransientExhausted ==
    /\ pc = "issue"
    /\ attempt >= MaxAttempts
    /\ Finish("error", "unknown")
    /\ UNCHANGED <<applied, app, provider>>

(* Mutant: an unknown outcome is retried like a transient one.               *)
UnknownOutcome_Retried ==
    /\ pc = "issue"
    /\ attempt < MaxAttempts
    /\ pc' = "backoff"
    /\ \/ UNCHANGED <<applied, provider>>
       \/ ~Known /\ Apply
    /\ UNCHANGED <<request, attempt, execution, result, client, app>>

(* Any other exception of the provider: the credit may exist or not. It is   *)
(* never retried; mark_unknown, and the error leaves the tool.               *)
UnknownOutcome ==
    /\ pc = "issue"
    /\ Finish("error", "unknown")
    /\ \/ UNCHANGED <<applied, provider>>
       \/ ~Known /\ Apply
    /\ UNCHANGED app

(* ExecutionController.complete, which may refuse.                           *)
Settle ==
    /\ pc = "settle"
    /\ \/ Finish(result, "completed")
       \/ Finish("error", "executing")
    /\ UNCHANGED <<applied, app, provider>>

--------------------------------------------------------------------------------

Serve ==
    \/ Revalidate
    \/ Issue
    \/ Transient
    \/ Backoff
    \/ TransientExhausted
    \/ UnknownOutcome
    \/ Settle

Next ==
    \/ \E r \in Runs : StartRun(r) \/ EndRun(r) \/ EndAuthority(r)
    \/ \E c \in Calls, k \in Credits : CallTool(c, k) \/ DirectCredit(c, k)
    \/ \E c \in Calls : Resend(c) \/ GiveUp(c)
    \/ \E m \in wire : Deliver(m)
    \/ Serve

Spec == Init /\ [][Next]_vars

(* The tool runs until it answers, and a client that waits times out.        *)
Timeout(c) == Resend(c) \/ GiveUp(c)

ToolRuns == WF_vars(Serve)
TimesOut(c) == WF_vars(Timeout(c))

FairSpec ==
    /\ Spec
    /\ ToolRuns
    /\ \A c \in Calls : TimesOut(c)

--------------------------------------------------------------------------------
(* Type invariant. *)
TypeOK ==
    /\ phase \in [Runs -> {"new", "running", "ended", "direct"}]
    /\ registered \subseteq Runs
    /\ authorized \subseteq Runs
    /\ asked \in [Calls -> Credits \cup {NoCredit}]
    /\ copies \in [Calls -> 0..(MaxRetries + 1)]
    /\ answer \in [Calls -> {"none", "waiting", "issued", "deduplicated", "blocked", "error"}]
    /\ wire \subseteq Requests
    /\ pc \in {"idle", "revalidate", "issue", "backoff", "settle"}
    /\ request \in Requests \cup {NoRequest}
    /\ attempt \in 0..MaxAttempts
    /\ execution \in {"none", "executing", "completed", "unknown", "denied"}
    /\ result \in {"none", "issued", "deduplicated"}
    /\ applied \in Nat
    /\ credits \in [Runs \X Credits -> Nat]
    /\ keys \subseteq Runs \X Credits

(* The inductive invariant: what the registry, the clients, the tool and the *)
(* provider know of each other.                                              *)
ClientInv ==
    /\ \A r \in registered : phase[r] = "running"
    /\ \A m \in wire : asked[Call(m)] \in Credits
    /\ \A c \in Calls :
           /\ answer[c] # "none" => asked[c] \in Credits
           /\ answer[c] \in {"issued", "deduplicated"} => credits[c.run, asked[c]] > 0

ToolInv ==
    /\ execution # "none" => request \in Requests /\ asked[Call(request)] \in Credits
    /\ execution = "completed" => credits[Logical(request)] > 0
    /\ applied <= 1
    /\ pc \in {"idle", "revalidate"} <=> attempt = 0
    /\ pc # "idle" =>
           /\ execution = "executing"
           /\ phase[Call(request).run] \in {"running", "direct"}
    /\ pc \in {"revalidate", "issue", "backoff"} => applied = 0
    /\ pc = "backoff" => attempt < MaxAttempts
    /\ pc = "settle" =>
           /\ result \in {"issued", "deduplicated"}
           /\ credits[Logical(request)] > 0

ProviderInv ==
    \A l \in Runs \X Credits :
        /\ l \in keys <=> credits[l] > 0
        /\ ProviderKeyed => credits[l] <= 1

IndInv == TypeOK /\ ClientInv /\ ToolInv /\ ProviderInv

(* Whatever the model repeats, the client sends again or the tool retries,   *)
(* and whatever the outcome of each, a run is credited at most once for a    *)
(* reservation and an amount (guest_credit.py, credit.py).                   *)
OneCreditPerKey == \A l \in Runs \X Credits : credits[l] <= 1

(* The retry loop is safe without the provider's help: one invocation causes *)
(* at most one credit even if the provider knows no idempotency keys, since  *)
(* only a failure without effect is tried again (credit.py).                 *)
OneEffectPerInvocation == applied <= 1

(* The requests that were sent for a credit.                                 *)
Sent(l) == {m \in Requests : m[2] <= copies[Call(m)] /\ Logical(m) = l}

(* ... and so, without that help, a run has a credit at most as often as the *)
(* client sent a request for it: neither the tool's retries nor a failure    *)
(* whose effect is unknown issue one more (guest_credit.py, credit.py).      *)
OneCreditPerRequest == \A l \in Runs \X Credits : credits[l] <= Cardinality(Sent(l))

(* An agent told that its credit was issued, or had been before, can rely on *)
(* it, and so can a reader of Ruhusa's records of completed executions.      *)
HonestAnswers ==
    /\ \A c \in Calls : answer[c] \in {"issued", "deduplicated"} =>
           credits[c.run, asked[c]] > 0
    /\ execution = "completed" => credits[Logical(request)] > 0

(* A credit comes into being only while its run is registered, or for a      *)
(* direct request: a request that was delayed or sent again has no effect    *)
(* once its run has ended (registry.py, run_agent).                          *)
NoCreditAfterTheRun ==
    [][\A l \in Runs \X Credits : credits'[l] > credits[l] =>
           phase[l[1]] \in {"running", "direct"}]_vars

(* Every attempt at the provider begins with the authority of its run:       *)
(* Ruhusa is checked immediately before protected execution, a stale plan    *)
(* does not bypass revocation (README.md, security invariant 5).             *)
AttemptsAreAuthorized ==
    [][pc # "issue" /\ pc' = "issue" =>
           Permitted(Call(request).run, asked[Call(request)])]_vars

(* The tool always has a next step while it serves a request, whatever has   *)
(* become of the run's authority and of the provider; and a client that      *)
(* waits for it can send its request again or give up, once the loop is free *)
(* (guest_credit.py, credit.py, the MCP client's retries).                   *)
CallsNeverStuck ==
    /\ pc # "idle" => ENABLED <<Serve>>_vars
    /\ pc = "idle" => \A c \in Calls : answer[c] = "waiting" => ENABLED <<Timeout(c)>>_vars

(* Every tool call is answered: the retries of the provider and of the       *)
(* client are bounded.                                                       *)
EveryToolCallAnswered == \A c \in Calls : answer[c] = "waiting" ~> answer[c] # "waiting"
================================================================================
