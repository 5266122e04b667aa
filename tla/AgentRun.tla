------------------------------- MODULE AgentRun --------------------------------
(***************************************************************************)
(* An agent run at the MCP boundary: four specialists, each with a client  *)
(* that shows it its own tools and labels its calls, the server that       *)
(* checks the label and looks the task up, and the five tools, which ask   *)
(* Ruhusa with the delegation chain of the task and then read or write.    *)
(*                                                                         *)
(* The tools run on the event loop and never await: from the delivery of a *)
(* request to its answer nothing else of the application runs, except that *)
(* grants may be revoked or expire. Requests may be delivered late, and    *)
(* sent again. The retries of the credit provider, and the reading of a    *)
(* reservation, are in CreditExecution and ReservationCache.               *)
(***************************************************************************)
EXTENDS Authorization, FiniteSets

CONSTANTS
    Runs,           \* agent runs, each with a task of its own
    Clients,        \* MCP clients that are in use
    Amounts,        \* amounts of money
    Asks,           \* what a model may ask of a tool
    Lines,          \* lines of text
    TiesUp,         \* amounts half way between two cents that print as the upper one
    NoAsk,
    NoRequest,
    NoClient,
    MaxCalls,       \* bound: tool calls of a run
    MaxRetries,     \* ASANTE_MCP_MAX_RETRIES
    Endings         \* bound: the grants that may end, <<run, chain, depth>>

Calls == [run : Runs, number : 1..MaxCalls]
Requests == Calls \X (1..(MaxRetries + 1))

GrantIds ==
    Runs \X {"reservations", "maintenance", "message", "credit", "credit_request"} \X {1, 2}

(* A text is the lines between the blanks that strip removes. An empty text  *)
(* has one line, "". A reservation identifier is a string like any other,    *)
(* and nobody strips it: it is its lines.                                    *)
Texts == [lines : Seq(Lines), padded : BOOLEAN]

--------------------------------------------------------------------------------
(* The tools.                                                                *)

(* What each tool is authorized as.                                          *)
Operation ==
    [get_reservation |->
        [workload |-> "reservations", action |-> "reservation.read",
         tool |-> "asante.reservation-reader"],
     create_maintenance_request |->
        [workload |-> "property-operations", action |-> "maintenance.create",
         tool |-> "asante.guest-operations"],
     send_guest_message |->
        [workload |-> "guest-support", action |-> "guest.message.send",
         tool |-> "asante.guest-operations"],
     issue_guest_credit |->
        [workload |-> "service-recovery", action |-> "guest.credit.issue",
         tool |-> "asante.guest-credit"],
     request_guest_credit |->
        [workload |-> "service-recovery", action |-> "guest.credit.request",
         tool |-> "asante.guest-operations"]]

Tools == DOMAIN Operation

ASSUME ConstantsAssumption ==
    /\ Asks \subseteq [tool : Tools, reservation : Seq(Lines), amount : Int,
                       category : Texts, urgency : Texts, description : Texts, message : Texts]
    /\ \A a \in Asks :
           /\ a.reservation # <<>>
           /\ \A t \in {a.category, a.urgency, a.description, a.message} : t.lines # <<>>
    /\ Clients \subseteq {"reservations", "property-operations", "guest-support",
                          "service-recovery", "legacy"}
    /\ Amounts \subseteq Int
    /\ NoAsk \notin Asks
    /\ NoRequest \notin Requests
    /\ NoClient \notin Clients
    /\ MaxCalls \in Nat
    /\ MaxRetries \in Nat
    /\ Endings \subseteq GrantIds

MaintenanceUrgencies == {"low", "medium", "high", "emergency"}

Strip(text) == [text EXCEPT !.padded = FALSE]

(* An urgency, already in lower case, must be one of four; a message must    *)
(* not be blank. A tool answers "blocked" otherwise, and asks nobody.        *)
WellFormed(ask) ==
    /\ ask.tool = "create_maintenance_request" =>
           Len(ask.urgency.lines) = 1 /\ ask.urgency.lines[1] \in MaintenanceUrgencies
    /\ ask.tool = "send_guest_message" => ask.message.lines # <<"">>

(* {amount:.2f}.                                                             *)
Cents(amount) == (amount + (IF amount \in TiesUp THEN 5 ELSE 4)) \div 10

(* Mutant: the key of a work order leaves its description out.               *)
Payload_NoDescription(ask) ==
    IF ask.tool = "create_maintenance_request"
    THEN ask.category.lines \o ask.urgency.lines
    ELSE IF ask.tool = "send_guest_message" THEN ask.message.lines ELSE <<>>

(* The payload of an idempotency key, line by line.                          *)
Payload(ask) ==
    IF ask.tool = "create_maintenance_request"
    THEN ask.category.lines \o ask.urgency.lines \o ask.description.lines
    ELSE IF ask.tool = "send_guest_message" THEN ask.message.lines ELSE <<>>

(* Mutant: whole dollars.                                                    *)
KeyAmount_Dollars(ask) ==
    IF ask.tool = "issue_guest_credit" THEN ask.amount \div 1000
    ELSE IF ask.tool = "request_guest_credit" THEN ask.amount ELSE 0

(* A credit is known by its cents, a request for approval by its amount.     *)
KeyAmount(ask) ==
    IF ask.tool = "issue_guest_credit" THEN Cents(ask.amount)
    ELSE IF ask.tool = "request_guest_credit" THEN ask.amount ELSE 0

(* What makes two requests of a run one operation. The reservation and the   *)
(* payload are joined line by line: where the one ends and the other begins  *)
(* is lost. (The amount is the last line of a credit's key, and a column of  *)
(* its own in the approval store: it cannot be taken for anything else.)     *)
Key(r, ask) ==
    [tool |-> ask.tool, run |-> r, amount |-> KeyAmount(ask),
     lines |-> ask.reservation \o Payload(ask)]

--------------------------------------------------------------------------------
(* The clients and the authority of a run.                                   *)

(* The workload label a client puts in its calls.                            *)
Label(client) == IF client = "legacy" THEN "guest-support" ELSE client

(* The tools a client shows to its agent. The legacy client, which no agent  *)
(* is built with any more, shows all of them.                                *)
ToolFilter(client) ==
    CASE client = "reservations" -> {"get_reservation"}
      [] client = "property-operations" -> {"create_maintenance_request"}
      [] client = "guest-support" -> {"send_guest_message"}
      [] client = "service-recovery" -> {"issue_guest_credit", "request_guest_credit"}
      [] client = "legacy" -> Tools

(* All runs are started by one human: only the task tells their chains apart.*)
Task(r) == [id |-> r, initiated_by |-> <<"oauth", "operator">>]

(* AsanteRunContext: the five chains of a run.                               *)
Context ==
    [r \in Runs |->
        [reservations_delegation |-> Reservations(Task(r)),
         property_operations_delegation |-> PropertyOperations(Task(r)),
         guest_support_message_delegation |-> GuestSupportMessage(Task(r)),
         service_recovery_delegation |->
            ServiceRecovery(Task(r), SupervisorCreditLimit, ServiceRecoveryCreditLimit),
         service_recovery_credit_request_delegation |->
            ServiceRecoveryCreditRequest(Task(r), ApprovalRequestLimit)]]

(* Mutant: a request for approval is checked against the credit's chain.     *)
TrustedChain_CreditForRequest(context, tool) ==
    CASE tool = "get_reservation" -> context.reservations_delegation
      [] tool = "create_maintenance_request" -> context.property_operations_delegation
      [] tool = "send_guest_message" -> context.guest_support_message_delegation
      [] tool \in {"issue_guest_credit", "request_guest_credit"} ->
             context.service_recovery_delegation

(* The chain each tool resolves from the trusted task.                       *)
TrustedChain(context, tool) ==
    CASE tool = "get_reservation" -> context.reservations_delegation
      [] tool = "create_maintenance_request" -> context.property_operations_delegation
      [] tool = "send_guest_message" -> context.guest_support_message_delegation
      [] tool = "issue_guest_credit" -> context.service_recovery_delegation
      [] tool = "request_guest_credit" -> context.service_recovery_credit_request_delegation

(* The workload each handler of the server requires.                         *)
ExpectedWorkload ==
    [get_reservation |-> "reservations",
     create_maintenance_request |-> "property-operations",
     send_guest_message |-> "guest-support",
     issue_guest_credit |-> "service-recovery",
     request_guest_credit |-> "service-recovery"]

--------------------------------------------------------------------------------
VARIABLES
    (* The application. *)
    phase,          \* phase[r]: "new", "running" or "ended"
    registered,     \* the runs in the TrustedTaskRegistry
    ended,          \* grants that were revoked or have expired
    (* The MCP clients. *)
    asked,          \* asked[c]: what call c asks for, or NoAsk
    via,            \* via[c]: the client it is made with
    copies,         \* copies[c]: requests sent for it
    answer,         \* answer[c]: what the agent was told
    receipt,        \* receipt[c]: the entry of done it was told of
    wire,           \* requests sent and not yet delivered
    (* The tool: one invocation at a time. *)
    pc,
    serving,        \* the request it serves, or NoRequest
    found,          \* the entry of done that its operation made or found
    (* Work orders, messages, credits and requests for approval. *)
    done            \* in the order they came into being

app == <<phase, registered, ended>>
client == <<asked, via, copies, answer, receipt, wire>>
service == <<pc, serving, found>>
vars == <<app, client, service, done>>

Call(m) == m[1]
Ask(m) == asked[Call(m)]

Init ==
    /\ phase = [r \in Runs |-> "new"]
    /\ registered = {}
    /\ ended = {}
    /\ asked = [c \in Calls |-> NoAsk]
    /\ via = [c \in Calls |-> NoClient]
    /\ copies = [c \in Calls |-> 0]
    /\ answer = [c \in Calls |-> "none"]
    /\ receipt = [c \in Calls |-> 0]
    /\ wire = {}
    /\ pc = "idle"
    /\ serving = NoRequest
    /\ found = 0
    /\ done = <<>>

--------------------------------------------------------------------------------
(* The run, and the end of authority.                                        *)

(* run_agent issues the five chains and registers the task.                  *)
StartRun(r) ==
    /\ pc = "idle"
    /\ phase[r] = "new"
    /\ phase' = [phase EXCEPT ![r] = "running"]
    /\ registered' = registered \cup {r}
    /\ UNCHANGED <<ended, client, service, done>>

(* Mutant: a run that ends unregisters its task only if no call is pending.  *)
EndRun_KeepsPending(r) ==
    /\ pc = "idle"
    /\ phase[r] = "running"
    /\ phase' = [phase EXCEPT ![r] = "ended"]
    /\ registered' = {q \in registered : q # r \/ \E m \in wire : Call(m).run = r}
    /\ answer' = [c \in Calls |-> IF c.run = r /\ answer[c] = "waiting"
                                  THEN "error" ELSE answer[c]]
    /\ UNCHANGED <<ended, asked, via, copies, receipt, wire, service, done>>

(* The run returns or fails, and unregisters its task. Calls it waits for    *)
(* are abandoned, their requests are not recalled.                           *)
EndRun(r) ==
    /\ pc = "idle"
    /\ phase[r] = "running"
    /\ phase' = [phase EXCEPT ![r] = "ended"]
    /\ registered' = registered \ {r}
    /\ answer' = [c \in Calls |-> IF c.run = r /\ answer[c] = "waiting"
                                  THEN "error" ELSE answer[c]]
    /\ UNCHANGED <<ended, asked, via, copies, receipt, wire, service, done>>

(* A grant of a run is revoked, or it expires.                               *)
EndAuthority(g) ==
    /\ phase[g[1]] # "new"
    /\ g \notin ended
    /\ ended' = ended \cup {g}
    /\ UNCHANGED <<phase, registered, client, service, done>>

--------------------------------------------------------------------------------
(* The MCP clients.                                                          *)

(* The model of the agent that holds the client calls a tool it is shown.    *)
(* Calls of a run are numbered in the order they are made.                   *)
CallTool(c, k, ask) ==
    /\ pc = "idle"
    /\ phase[c.run] = "running"
    /\ ask.tool \in ToolFilter(k)
    /\ asked[c] = NoAsk
    /\ \A d \in Calls : d.run = c.run /\ d.number < c.number => asked[d] # NoAsk
    /\ asked' = [asked EXCEPT ![c] = ask]
    /\ via' = [via EXCEPT ![c] = k]
    /\ copies' = [copies EXCEPT ![c] = 1]
    /\ answer' = [answer EXCEPT ![c] = "waiting"]
    /\ wire' = wire \cup {<<c, 1>>}
    /\ UNCHANGED <<app, receipt, service, done>>

(* No answer in time: the client sends the call again ...                    *)
Resend(c) ==
    /\ pc = "idle"
    /\ phase[c.run] = "running"
    /\ answer[c] = "waiting"
    /\ copies[c] <= MaxRetries
    /\ copies' = [copies EXCEPT ![c] = @ + 1]
    /\ wire' = wire \cup {<<c, copies[c] + 1>>}
    /\ UNCHANGED <<app, asked, via, answer, receipt, service, done>>

(* ... or, out of retries, reports an error to the agent.                    *)
GiveUp(c) ==
    /\ pc = "idle"
    /\ answer[c] = "waiting"
    /\ copies[c] > MaxRetries
    /\ answer' = [answer EXCEPT ![c] = "error"]
    /\ UNCHANGED <<app, asked, via, copies, receipt, wire, service, done>>

(* An answer reaches the client, unless it is late.                          *)
Answered(m, told, entry) ==
    \/ UNCHANGED <<answer, receipt>>
    \/ /\ answer[Call(m)] = "waiting"
       /\ m[2] = copies[Call(m)]
       /\ answer' = [answer EXCEPT ![Call(m)] = told]
       /\ receipt' = [receipt EXCEPT ![Call(m)] = entry]

--------------------------------------------------------------------------------
(* The server and the tools.                                                 *)

(* What Ruhusa is asked about a call of run r.                               *)
Prepared(r, ask) ==
    LET op == Operation[ask.tool] IN
    Request(op.workload, Task(r), op.action, ask.amount, op.tool)

ChainOf(r, ask) == TrustedChain(Context[r], ask.tool)

Permitted(r, ask) == Allowed(Prepared(r, ask), ChainOf(r, ask), ended)

(* Mutant: the label is not looked at.                                       *)
RequireSpecialist_Anybody(m) == via[Call(m)] \in Clients

(* _require_specialist.                                                      *)
RequireSpecialist(m) == Label(via[Call(m)]) = ExpectedWorkload[Ask(m).tool]

(* The tool returns or raises, and its answer goes to the client.            *)
Finish(told, entry) ==
    /\ pc' = "idle"
    /\ serving' = NoRequest
    /\ found' = 0
    /\ Answered(serving, told, entry)
    /\ UNCHANGED <<asked, via, copies, wire>>

(* A request is delivered. A handler checks the label, finds the task, and   *)
(* calls its tool, which checks its arguments and asks Ruhusa to admit it.   *)
Deliver(m) ==
    LET r == Call(m).run
        known == RequireSpecialist(m) /\ r \in registered
    IN
    /\ pc = "idle"
    /\ m \in wire
    /\ wire' = wire \ {m}
    /\ found' = 0
    /\ \/ ~RequireSpecialist(m) /\ pc' = "idle" /\ Answered(m, "refused", 0)
       \/ RequireSpecialist(m) /\ r \notin registered /\ pc' = "idle"
              /\ Answered(m, "unavailable", 0)
       \/ known /\ WellFormed(Ask(m)) /\ Permitted(r, Ask(m)) /\ pc' = "revalidate"
              /\ UNCHANGED <<answer, receipt>>
       \/ known /\ ~(WellFormed(Ask(m)) /\ Permitted(r, Ask(m))) /\ pc' = "idle"
              /\ Answered(m, "blocked", 0)
    /\ serving' = IF pc' = "idle" THEN NoRequest ELSE m
    /\ UNCHANGED <<app, asked, via, copies, done>>

(* Mutant: a permit, once given, is not checked again.                       *)
Revalidate_Skipped ==
    /\ pc = "revalidate"
    /\ pc' = "perform"
    /\ UNCHANGED <<serving, found, client, app, done>>

Revalidate ==
    /\ pc = "revalidate"
    /\ IF Permitted(Call(serving).run, Ask(serving))
       THEN pc' = "perform" /\ UNCHANGED <<serving, found, client>>
       ELSE Finish("blocked", 0)
    /\ UNCHANGED <<app, done>>

(* What a provider stores of a request.                                      *)
Stored(ask) == [ask EXCEPT !.urgency = Strip(@)]

Existing(key) == {i \in DOMAIN done : done[i].key = key}

(* The provider returns what it has under the key, or makes a new entry.     *)
Provide(key) ==
    \/ /\ Existing(key) # {}
       /\ found' \in Existing(key)
       /\ UNCHANGED done
    \/ /\ Existing(key) = {}
       /\ done' = Append(done, [key |-> key, ask |-> Stored(Ask(serving)), by |-> Call(serving)])
       /\ found' = Len(done) + 1

(* The operation: a work order, a message, a credit or a request for one. A  *)
(* read changes nothing.                                                     *)
Perform ==
    /\ pc = "perform"
    /\ pc' = "settle"
    /\ IF Ask(serving).tool = "get_reservation"
       THEN UNCHANGED <<found, done>>
       ELSE Provide(Key(Call(serving).run, Ask(serving)))
    /\ UNCHANGED <<serving, client, app>>

(* The provider raises: mark_unknown, and the agent gets an error. The two   *)
(* stores in memory cannot; of a credit or an approval nobody knows whether  *)
(* it was made.                                                              *)
PerformFails ==
    /\ pc = "perform"
    /\ Ask(serving).tool \in {"get_reservation", "issue_guest_credit", "request_guest_credit"}
    /\ \/ UNCHANGED done
       \/ /\ Ask(serving).tool # "get_reservation"
          /\ Existing(Key(Call(serving).run, Ask(serving))) = {}
          /\ done' = Append(done, [key |-> Key(Call(serving).run, Ask(serving)),
                                   ask |-> Stored(Ask(serving)), by |-> Call(serving)])
    /\ Finish("error", 0)
    /\ UNCHANGED app

(* complete, which may refuse: then the agent gets an error.                 *)
Settle ==
    /\ pc = "settle"
    /\ \/ Finish(IF found = 0 THEN "read" ELSE "done", found)
       \/ Finish("error", 0)
    /\ UNCHANGED <<app, done>>

--------------------------------------------------------------------------------
Next ==
    \/ \E r \in Runs : StartRun(r) \/ EndRun(r)
    \/ \E g \in Endings : EndAuthority(g)
    \/ \E c \in Calls, k \in Clients, ask \in Asks : CallTool(c, k, ask)
    \/ \E c \in Calls : Resend(c) \/ GiveUp(c)
    \/ \E m \in wire : Deliver(m)
    \/ Revalidate
    \/ Perform
    \/ PerformFails
    \/ Settle

Spec == Init /\ [][Next]_vars

--------------------------------------------------------------------------------
(* Type invariant. *)
Keys == {Key(r, ask) : r \in Runs, ask \in Asks}
Entries == [key : Keys, ask : {Stored(ask) : ask \in Asks}, by : Calls]

TypeOK ==
    /\ phase \in [Runs -> {"new", "running", "ended"}]
    /\ registered \subseteq Runs
    /\ ended \subseteq Endings
    /\ asked \in [Calls -> Asks \cup {NoAsk}]
    /\ via \in [Calls -> Clients \cup {NoClient}]
    /\ copies \in [Calls -> 0..(MaxRetries + 1)]
    /\ answer \in [Calls -> {"none", "waiting", "refused", "unavailable",
                             "blocked", "error", "done", "read"}]
    /\ receipt \in [Calls -> Nat]
    /\ wire \subseteq Requests
    /\ pc \in {"idle", "revalidate", "perform", "settle"}
    /\ serving \in Requests \cup {NoRequest}
    /\ found \in Nat
    /\ done \in Seq(Entries)

(* What a run may ask for while no grant has ended.                          *)
Mandate ==
    [r \in Runs |-> {ask \in Asks : Allowed(Prepared(r, ask), ChainOf(r, ask), {})}]

(* The inductive invariant: what the registry, the clients, the tool and the *)
(* providers know of each other. An entry has the key of the call that made  *)
(* it, and what a call was told of has the key of that call.                 *)
ClientInv ==
    /\ \A r \in registered : phase[r] = "running"
    /\ \A m \in wire : asked[Call(m)] # NoAsk
    /\ \A c \in Calls :
           /\ asked[c] = NoAsk => answer[c] = "none"
           /\ asked[c] # NoAsk =>
                  /\ via[c] \in Clients
                  /\ asked[c].tool \in ToolFilter(via[c])
           /\ answer[c] = "done" =>
                  /\ receipt[c] \in DOMAIN done
                  /\ done[receipt[c]].key = Key(c.run, asked[c])
                  /\ WellFormed(asked[c])

ToolInv ==
    /\ pc # "idle" =>
           /\ serving \in Requests
           /\ asked[Call(serving)] # NoAsk
           /\ Call(serving).run \in registered
           /\ RequireSpecialist(serving)
           /\ WellFormed(Ask(serving))
           /\ Ask(serving) \in Mandate[Call(serving).run]
    /\ pc # "settle" => found = 0
    /\ pc = "settle" =>
           IF Ask(serving).tool = "get_reservation"
           THEN found = 0
           ELSE /\ found \in DOMAIN done
                /\ done[found].key = Key(Call(serving).run, Ask(serving))

ProviderInv ==
    /\ \A i, j \in DOMAIN done : done[i].key = done[j].key => i = j
    /\ \A i \in DOMAIN done :
           LET c == done[i].by IN
           /\ asked[c] # NoAsk
           /\ phase[c.run] # "new"
           /\ done[i].key = Key(c.run, asked[c])
           /\ done[i].ask = Stored(asked[c])
           /\ asked[c].tool # "get_reservation"
           /\ Label(via[c]) = ExpectedWorkload[asked[c].tool]
           /\ WellFormed(asked[c])
           /\ asked[c] \in Mandate[c.run]

IndInv == TypeOK /\ ClientInv /\ ToolInv /\ ProviderInv

(* Whatever client a call is made with, it has an effect only if the tool is *)
(* one the specialist of its label is shown, and the amount is in the band   *)
(* of that tool (client.py, server.py _require_specialist, runtime.py).      *)
InBand(ask) ==
    /\ ask.tool = "issue_guest_credit" => 0 < ask.amount /\ ask.amount <= Dollars(25)
    /\ ask.tool = "request_guest_credit" =>
           Dollars(25) < ask.amount /\ ask.amount <= Dollars(100)

LeastPrivilege ==
    \A i \in DOMAIN done :
        /\ done[i].ask.tool \in ToolFilter(Label(via[done[i].by]))
        /\ InBand(done[i].ask)

(* The requests that their key, in which all parts are joined by line breaks, *)
(* tells apart: both the reservation and the category of an order have one   *)
(* line.                                                                     *)
OneLine(ask) ==
    /\ Len(ask.reservation) = 1
    /\ ask.tool = "create_maintenance_request" => Len(ask.category.lines) = 1

SameTexts(a, b) ==
    /\ a.tool = b.tool
    /\ a.reservation = b.reservation
    /\ a.tool = "create_maintenance_request" =>
           /\ a.category.lines = b.category.lines
           /\ a.urgency.lines = b.urgency.lines
           /\ a.description.lines = b.description.lines
    /\ a.tool = "send_guest_message" => a.message.lines = b.message.lines

(* A call that was told of a work order or a message was told of one for the *)
(* reservation it named that says what it asked for, up to surrounding       *)
(* blanks, if in both the reservation, and the category of a work order,     *)
(* have one line. Without that two requests of a run may share a key, and a  *)
(* call may be told of the other one (guest_operations.py, _idempotency_key). *)
AnswersKeepTheirRequest ==
    \A c \in Calls : answer[c] = "done" =>
        LET e == done[receipt[c]] IN
        /\ e.by.run = c.run
        /\ OneLine(e.ask) /\ OneLine(asked[c]) => SameTexts(e.ask, asked[c])

(* The credit a call was told of is the one it asked for to within a cent,   *)
(* although the key of a credit is rounded; a request for approval is for    *)
(* the very amount (credit.py build_credit_idempotency_key, store.py find).  *)
AmountsAreKept ==
    \A c \in Calls : answer[c] = "done" =>
        LET d == done[receipt[c]].ask.amount - asked[c].amount IN
        /\ asked[c].tool = "issue_guest_credit" => -10 <= d /\ d <= 10
        /\ asked[c].tool = "request_guest_credit" => d = 0

(* Least privilege costs nothing: a specialist is refused only what is       *)
(* malformed, out of its band, or what its own chain, of which a grant has   *)
(* ended, no longer covers; no call is refused for the state of another      *)
(* chain, and no task is unknown while its run lasts (server.py, registry.py,*)
(* delegation.py).                                                           *)
OwnChain ==
    [get_reservation |-> "reservations", create_maintenance_request |-> "maintenance",
     send_guest_message |-> "message", issue_guest_credit |-> "credit",
     request_guest_credit |-> "credit_request"]

RefusedOnlyWithReason ==
    \A c \in Calls :
        /\ answer[c] = "blocked" =>
               \/ ~WellFormed(asked[c])
               \/ ~InBand(asked[c])
               \/ \E g \in ended : g[1] = c.run /\ g[2] = OwnChain[asked[c].tool]
        /\ answer[c] = "refused" => via[c] = "legacy"
        /\ answer[c] # "unavailable"

(* The bands meet with no gap and no overlap: for a run, a credit up to 100  *)
(* dollars has one path, automatic or by approval, and any other amount none;*)
(* and whatever it may request, the executor may issue once it is approved,  *)
(* so that no approval is granted in vain (runtime.py 142-208, delegation.py *)
(* default limits).                                                          *)
Automatic(r, amount) ==
    Allowed(Request("service-recovery", Task(r), "guest.credit.issue", amount,
                    "asante.guest-credit"),
            Context[r].service_recovery_delegation, {})

Requestable(r, amount) ==
    Allowed(Request("service-recovery", Task(r), "guest.credit.request", amount,
                    "asante.guest-operations"),
            Context[r].service_recovery_credit_request_delegation, {})

(* In a task of its own, and by a chain of its own.                          *)
Executable(amount) ==
    LET task == [id |-> "approved_credit", initiated_by |-> <<"oauth", "operator">>] IN
    Allowed(Request("approval-executor", task, "guest.credit.issue.approved", amount,
                    "asante.approved-credit"),
            ApprovalExecutor(task, ApprovalRequestLimit), {})

OnePath(r, amount) ==
    /\ 0 < amount /\ amount <= Dollars(100) => (Automatic(r, amount) <=> ~Requestable(r, amount))
    /\ Automatic(r, amount) \/ Requestable(r, amount) => 0 < amount /\ amount <= Dollars(100)
    /\ Requestable(r, amount) => Executable(amount)

OnePathRuns == {r \in Runs : \A amount \in Amounts : OnePath(r, amount)}

EveryCreditHasOnePath == registered \subseteq OnePathRuns

(* The state of the abstract specification of AgentRunContract: the          *)
(* operations a run may ask for, and those it has authority for.             *)
Operations == {key \in Keys : key.tool # "get_reservation"}

(* Both grants of the chain of the operation are alive.                      *)
Alive(key) == \A i \in {1, 2} : <<key.run, OwnChain[key.tool], i>> \notin ended

Entitled == {key \in Operations : \E ask \in Mandate[key.run] : Key(key.run, ask) = key}

Authorized == {key \in Entitled : phase[key.run] # "new" /\ Alive(key)}
================================================================================
