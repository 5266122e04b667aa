------------------------ MODULE AgentRunContract_proofs ------------------------
(***************************************************************************)
(* AgentRun implements OperationContract, for every set of runs, clients   *)
(* and asks, and all bounds.                                               *)
(***************************************************************************)
EXTENDS AgentRunContract, AgentRun_proofs, FiniteSetTheorems

--------------------------------------------------------------------------------
(* How often an operation was performed. *)

(* No entry, or one.                                                         *)
LEMMA PerformedNone ==
    ASSUME NEW o \in Operations, Existing(o) = {}
    PROVE  Performed[o] = 0
BY FS_EmptySet DEF Performed

LEMMA PerformedOnce ==
    ASSUME IndInv, NEW o \in Operations, NEW i \in DOMAIN done, done[i].key = o
    PROVE  Performed[o] = 1
<1>1. Existing(o) = {i}
    BY DEF Existing, IndInv, ProviderInv
<1> QED
    BY <1>1, FS_Singleton DEF Performed

(* The operation of the request that is served.                              *)
LEMMA ServingOperation ==
    ASSUME IndInv, pc # "idle", Ask(serving).tool # "get_reservation"
    PROVE  /\ Key(Call(serving).run, Ask(serving)) \in Operations
           /\ Key(Call(serving).run, Ask(serving)).run = Call(serving).run
<1>1. Key(Call(serving).run, Ask(serving)) \in Keys
    BY ServingFacts
<1> QED
    BY <1>1 DEF Operations, Key

--------------------------------------------------------------------------------
(* What leaves the state of the contract as it is. *)

(* Calls that are told of nothing done leave what is told as it is.          *)
LEMMA ToldFrame ==
    ASSUME \A c \in Calls :
               \/ answer'[c] = answer[c] /\ asked'[c] = asked[c]
               \/ answer[c] # "done" /\ answer'[c] # "done"
    PROVE  Told' = Told
BY DEF Told

LEMMA ToldAnswer ==
    ASSUME IndInv, NEW m \in Requests,
           NEW told \in {"refused", "unavailable", "blocked", "error", "read"},
           NEW entry \in Nat, Answered(m, told, entry), asked' = asked
    PROVE  Told' = Told
<1>1. \A c \in Calls : \/ answer'[c] = answer[c]
                       \/ answer[c] = "waiting" /\ answer'[c] = told
    BY AnsweredType DEF IndInv
<1> QED
    BY <1>1, ToldFrame

(* The authority of a run changes only with its phase and its grants.        *)
LEMMA AppFrame ==
    ASSUME UNCHANGED app
    PROVE  ContractPhase' = ContractPhase /\ Authorized' = Authorized
BY DEF app, ContractPhase, Authorized, Alive

LEMMA PerformedFrame ==
    ASSUME UNCHANGED done
    PROVE  Performed' = Performed
BY DEF Performed, Existing

--------------------------------------------------------------------------------
(* The steps. *)

(* Initially no run is open, and nothing is permitted, done or told.         *)
LEMMA ContractInit == Init => Contract!Init
<1> SUFFICES ASSUME Init
             PROVE  Contract!Init
    OBVIOUS
<1>1. ContractPhase = [r \in Runs |-> "new"]
    BY DEF Init, ContractPhase
<1>2. Permits = {} /\ Told = {}
    BY DEF Init, Permits, Told
<1>3. Authorized = {}
    BY DEF Init, Authorized, Entitled, Operations, Keys, Key
<1>4. Performed = [o \in Operations |-> 0]
    <2>1. \A o : Existing(o) = {}
        BY DEF Init, Existing
    <2> QED
        BY <2>1, FS_EmptySet DEF Performed
<1> QED
    BY <1>1, <1>2, <1>3, <1>4 DEF Contract!Init

(* The application opens and closes runs, and withdraws authority.           *)
LEMMA ContractApp ==
    ASSUME IndInv, (\E r \in Runs : StartRun(r) \/ EndRun(r)) \/ (\E g \in Endings : EndAuthority(g))
    PROVE  Contract!Next
<1>1. Permits' = Permits /\ Performed' = Performed
    <2>1. UNCHANGED <<done, pc, serving, asked>>
        BY DEF StartRun, EndRun, EndAuthority, client, service
    <2> QED
        BY <2>1, PerformedFrame DEF Permits, Ask, Call
<1>2. \A o \in Operations : o.run \in Runs
    BY DEF Operations, Keys, Key
<1>3. ASSUME NEW r \in Runs, StartRun(r) PROVE Contract!Next
    <2>1. ContractPhase[r] = "new" /\ ContractPhase' = [ContractPhase EXCEPT ![r] = "open"]
        BY <1>3 DEF StartRun, ContractPhase, IndInv, TypeOK
    <2>2. Authorized \subseteq Authorized' /\ \A o \in Authorized' \ Authorized : o.run = r
        BY <1>2, <1>3 DEF StartRun, Authorized, Entitled, Alive, IndInv, TypeOK
    <2>3. Told' = Told
        BY <1>3, ToldFrame DEF StartRun, client
    <2>4. Authorized' \subseteq Operations
        BY DEF Authorized, Entitled
    <2>5. Contract!Open(r)
        BY <1>1, <2>1, <2>2, <2>3, <2>4 DEF Contract!Open
    <2> QED
        BY <2>5 DEF Contract!Next
<1>4. ASSUME NEW r \in Runs, EndRun(r) PROVE Contract!Next
    <2>1. ContractPhase[r] = "open" /\ ContractPhase' = [ContractPhase EXCEPT ![r] = "closed"]
        BY <1>4 DEF EndRun, ContractPhase, IndInv, TypeOK
    <2>2. Authorized' = Authorized
        BY <1>2, <1>4 DEF EndRun, Authorized, Entitled, Alive, IndInv, TypeOK
    <2>3. Told' = Told
        BY <1>4, ToldFrame DEF EndRun
    <2>4. Contract!Close(r)
        BY <1>1, <2>1, <2>2, <2>3 DEF Contract!Close
    <2> QED
        BY <2>4 DEF Contract!Next
<1>5. ASSUME NEW g \in Endings, EndAuthority(g) PROVE Contract!Next
    <2>1. ContractPhase' = ContractPhase
        BY <1>5 DEF EndAuthority, ContractPhase
    <2>2. Authorized' \subseteq Authorized
        BY <1>5 DEF EndAuthority, Authorized, Alive
    <2>3. Told' = Told
        BY <1>5, ToldFrame DEF EndAuthority, client
    <2>4. Contract!Withdraw
        BY <1>1, <2>1, <2>2, <2>3 DEF Contract!Withdraw
    <2> QED
        BY <2>4 DEF Contract!Next
<1> QED
    BY <1>3, <1>4, <1>5

(* The clients change nothing the contract sees.                             *)
LEMMA ContractClient ==
    ASSUME IndInv,
           \/ \E c \in Calls, k \in Clients, ask \in Asks : CallTool(c, k, ask)
           \/ \E c \in Calls : Resend(c) \/ GiveUp(c)
    PROVE  UNCHANGED Contract!vars
<1>1. UNCHANGED <<app, done>> /\ pc = "idle" /\ pc' = "idle"
    BY DEF CallTool, Resend, GiveUp, service
<1>2. Told' = Told
    <2>1. ASSUME NEW c \in Calls, NEW k \in Clients, NEW ask \in Asks, CallTool(c, k, ask)
          PROVE  Told' = Told
        <3>1. answer[c] = "none"
            BY <2>1 DEF CallTool, IndInv, ClientInv
        <3>2. \A d \in Calls : d = c \/ (answer'[d] = answer[d] /\ asked'[d] = asked[d])
            BY <2>1 DEF CallTool, IndInv, TypeOK
        <3>3. answer'[c] = "waiting"
            BY <2>1 DEF CallTool, IndInv, TypeOK
        <3> QED
            BY <3>1, <3>2, <3>3, ToldFrame
    <2>2. ASSUME NEW c \in Calls, Resend(c) \/ GiveUp(c)
          PROVE  Told' = Told
        <3>1. asked' = asked
            BY <2>2 DEF Resend, GiveUp
        <3>2. \A d \in Calls :
                  answer'[d] = answer[d] \/ (answer[d] = "waiting" /\ answer'[d] = "error")
            BY <2>2 DEF Resend, GiveUp, IndInv, TypeOK
        <3> QED
            BY <3>1, <3>2, ToldFrame
    <2> QED
        BY <2>1, <2>2
<1>3. Permits' = Permits
    BY <1>1 DEF Permits
<1> QED
    BY <1>1, <1>2, <1>3, AppFrame, PerformedFrame DEF Contract!vars

(* A request that is delivered is admitted or not: no permit yet.            *)
LEMMA ContractDeliver ==
    ASSUME IndInv, NEW m \in wire, Deliver(m)
    PROVE  UNCHANGED Contract!vars
<1>1. UNCHANGED <<app, done, asked>> /\ pc = "idle" /\ pc' \in {"idle", "revalidate"}
    BY DEF Deliver
<1>2. PICK told \in {"refused", "unavailable", "blocked"} : Answered(m, told, 0)
    BY DEF Deliver, Answered
<1>3. m \in Requests
    BY DEF IndInv, TypeOK
<1>4. Told' = Told
    BY <1>1, <1>2, <1>3, ToldAnswer
<1>5. Permits' = Permits
    BY <1>1 DEF Permits
<1> QED
    BY <1>1, <1>4, <1>5, AppFrame, PerformedFrame DEF Contract!vars

(* A permit is given on authority that is live.                              *)
LEMMA ContractRevalidate ==
    ASSUME IndInv, Revalidate
    PROVE  [Contract!Next]_(Contract!vars)
<1> DEFINE r == Call(serving).run
           ask == Ask(serving)
           o == Key(r, ask)
<1>1. pc = "revalidate" /\ UNCHANGED <<app, done>> /\ Permits = {}
    BY DEF Revalidate, Permits
<1>2. /\ serving \in Requests /\ r \in Runs /\ ask \in Asks
      /\ phase[r] = "running" /\ ask \in Mandate[r]
    BY <1>1, ServingFacts
<1>3. ContractPhase' = ContractPhase /\ Authorized' = Authorized /\ Performed' = Performed
    BY <1>1, AppFrame, PerformedFrame
<1>4. CASE Permitted(r, ask) /\ pc' = "perform" /\ UNCHANGED <<serving, found, client>>
    <2>1. Told' = Told
        BY <1>4, ToldFrame DEF client
    <2>2. Permits' = IF ask.tool # "get_reservation" THEN {o} ELSE {}
        BY <1>4 DEF Permits, Ask, Call, client
    <2>3. CASE ask.tool = "get_reservation"
        BY <1>1, <1>3, <2>1, <2>2, <2>3 DEF Contract!vars
    <2>4. CASE ask.tool # "get_reservation"
        <3>1. o \in Operations /\ o.run = r
            BY <1>1, <2>4, ServingOperation
        <3>2. Alive(o)
            BY <1>2, <1>4, AllowedInBand DEF Permitted, Alive, Key
        <3>3. o \in Entitled
            BY <1>2, <3>1 DEF Entitled
        <3>4. o \in Authorized
            BY <1>2, <3>1, <3>2, <3>3 DEF Authorized
        <3>5. ContractPhase[o.run] = "open"
            BY <1>2, <3>1 DEF ContractPhase
        <3>6. Contract!Permit(o)
            BY <1>1, <1>3, <2>1, <2>2, <2>4, <3>1, <3>4, <3>5 DEF Contract!Permit
        <3> QED
            BY <3>1, <3>6 DEF Contract!Next
    <2> QED
        BY <2>3, <2>4
<1>5. CASE Finish("blocked", 0)
    <2>1. Told' = Told
        BY <1>2, <1>5, ToldAnswer DEF Finish
    <2>2. Permits' = {}
        BY <1>5 DEF Permits, Finish
    <2> QED
        BY <1>1, <1>3, <2>1, <2>2 DEF Contract!vars
<1> QED
    BY <1>4, <1>5 DEF Revalidate

(* The permit that is in use at the provider.                                *)
LEMMA PermitFacts ==
    ASSUME IndInv, pc = "perform", Ask(serving).tool # "get_reservation"
    PROVE  LET o == Key(Call(serving).run, Ask(serving)) IN
           o \in Operations /\ Permits = {o} /\ ContractPhase[o.run] = "open"
<1>1. /\ Key(Call(serving).run, Ask(serving)) \in Operations
      /\ Key(Call(serving).run, Ask(serving)).run = Call(serving).run
    BY ServingOperation
<1>2. Call(serving).run \in Runs /\ phase[Call(serving).run] = "running"
    BY ServingFacts
<1> QED
    BY <1>1, <1>2 DEF Permits, ContractPhase

(* A new entry performs an operation that was permitted, for the first time. *)
LEMMA ContractPerform ==
    ASSUME IndInv, IndInv', pc = "perform", Ask(serving).tool # "get_reservation",
           Existing(Key(Call(serving).run, Ask(serving))) = {},
           done' = Append(done, [key |-> Key(Call(serving).run, Ask(serving)),
                                 ask |-> Stored(Ask(serving)), by |-> Call(serving)]),
           UNCHANGED <<app, asked, via>>, Permits' = {}, Told' = Told
    PROVE  Contract!Next
<1> DEFINE o == Key(Call(serving).run, Ask(serving))
<1>1. o \in Operations /\ Permits = {o} /\ ContractPhase[o.run] = "open"
    BY PermitFacts
<1>2. ContractPhase' = ContractPhase /\ Authorized' = Authorized
    BY AppFrame
<1>3. /\ \A i \in DOMAIN done : i \in DOMAIN done' /\ done'[i] = done[i]
      /\ Len(done) + 1 \in DOMAIN done' /\ done'[Len(done) + 1].key = o
      /\ Len(done) + 1 \notin DOMAIN done
      /\ \A i \in DOMAIN done' : i \in DOMAIN done \/ i = Len(done) + 1
    <2>1. o \in Keys /\ Call(serving) \in Calls /\ Ask(serving) \in Asks
        BY ServingFacts
    <2>2. [key |-> o, ask |-> Stored(Ask(serving)), by |-> Call(serving)] \in Entries
        BY <2>1 DEF Entries
    <2>3. done \in Seq(Entries)
        BY DEF IndInv, TypeOK
    <2> DEFINE new == [key |-> o, ask |-> Stored(Ask(serving)), by |-> Call(serving)]
    <2>4. new.key = o
        OBVIOUS
    <2>5. done' = Append(done, new)
        OBVIOUS
    <2> HIDE DEF new
    <2>6. new \in Entries
        BY <2>2 DEF new
    <2> HIDE DEF o
    <2>7. /\ Len(done) + 1 \in DOMAIN Append(done, new)
          /\ Append(done, new)[Len(done) + 1] = new
          /\ \A i \in DOMAIN done : i \in DOMAIN Append(done, new)
                                   /\ Append(done, new)[i] = done[i]
          /\ \A i \in DOMAIN Append(done, new) : i \in DOMAIN done \/ i = Len(done) + 1
          /\ Len(done) + 1 \notin DOMAIN done
        BY <2>3, <2>6, AppendFacts
    <2> QED
        BY <2>4, <2>5, <2>7
<1>4. Performed[o] = 0
    BY <1>1, PerformedNone
<1>5. Performed' = [Performed EXCEPT ![o] = 1]
    <2>1. ASSUME NEW p \in Operations, p # o PROVE Performed'[p] = Performed[p]
        <3>1. Existing(p)' = Existing(p)
            BY <1>3, <2>1 DEF Existing
        <3> QED
            BY <3>1 DEF Performed
    <2>2. Performed'[o] = 1
        <3>1. \A i \in DOMAIN done : done[i].key # o
            BY DEF Existing
        <3> HIDE DEF o
        <3>2. {i \in DOMAIN done' : done'[i].key = o} = {Len(done) + 1}
            BY <1>3, <3>1
        <3>3. Cardinality({i \in DOMAIN done' : done'[i].key = o}) = 1
            BY <3>2, FS_Singleton
        <3> QED
            BY <1>1, <3>3 DEF Performed, Existing
    <2> QED
        BY <1>1, <2>1, <2>2 DEF Performed
<1>6. Contract!Perform(o)
    BY <1>1, <1>2, <1>4, <1>5 DEF Contract!Perform
<1> QED
    BY <1>1, <1>6 DEF Contract!Next

(* A permit that is not used is given up.                                    *)
LEMMA ContractDrop ==
    ASSUME IndInv, pc = "perform", UNCHANGED <<app, done>>, Permits' = {}, Told' = Told
    PROVE  [Contract!Next]_(Contract!vars)
<1>1. ContractPhase' = ContractPhase /\ Authorized' = Authorized /\ Performed' = Performed
    BY AppFrame, PerformedFrame
<1>2. CASE Ask(serving).tool = "get_reservation"
    <2>1. Permits = {}
        BY <1>2 DEF Permits
    <2> QED
        BY <1>1, <2>1 DEF Contract!vars
<1>3. CASE Ask(serving).tool # "get_reservation"
    <2> DEFINE o == Key(Call(serving).run, Ask(serving))
    <2>1. o \in Operations /\ Permits = {o}
        BY <1>3, PermitFacts
    <2>2. Contract!Drop(o)
        BY <1>1, <2>1 DEF Contract!Drop
    <2> QED
        BY <2>1, <2>2 DEF Contract!Next
<1> QED
    BY <1>2, <1>3

(* The provider is called.                                                   *)
LEMMA ContractProvider ==
    ASSUME IndInv, IndInv', Perform \/ PerformFails
    PROVE  [Contract!Next]_(Contract!vars)
<1>1. /\ pc = "perform" /\ pc' # "perform" /\ UNCHANGED <<app, asked, via>>
    BY DEF Perform, PerformFails, Finish, client
<1>2. Permits' = {}
    BY <1>1 DEF Permits
<1>3. Told' = Told
    <2>1. CASE Perform
        BY <2>1, ToldFrame DEF Perform, client
    <2>2. CASE PerformFails
        <3>1. serving \in Requests /\ Answered(serving, "error", 0)
            BY <1>1, <2>2, ServingFacts DEF PerformFails, Finish
        <3> QED
            BY <1>1, <3>1, ToldAnswer
    <2> QED
        BY <2>1, <2>2
<1>4. \/ UNCHANGED done
      \/ /\ Ask(serving).tool # "get_reservation"
         /\ Existing(Key(Call(serving).run, Ask(serving))) = {}
         /\ done' = Append(done, [key |-> Key(Call(serving).run, Ask(serving)),
                                  ask |-> Stored(Ask(serving)), by |-> Call(serving)])
    BY DEF Perform, PerformFails, Provide
<1> QED
    BY <1>1, <1>2, <1>3, <1>4, ContractPerform, ContractDrop

(* The tool answers: what it reports was performed.                          *)
LEMMA ContractSettle ==
    ASSUME IndInv, Settle
    PROVE  [Contract!Next]_(Contract!vars)
<1> DEFINE o == Key(Call(serving).run, Ask(serving))
<1>1. pc = "settle" /\ pc' = "idle" /\ UNCHANGED <<app, done, asked>> /\ found \in Nat
    BY DEF Settle, Finish, IndInv, TypeOK
<1>2. serving \in Requests /\ Call(serving) \in Calls
    BY <1>1, ServingFacts
<1>3. /\ ContractPhase' = ContractPhase /\ Authorized' = Authorized /\ Performed' = Performed
      /\ Permits = {} /\ Permits' = {}
    BY <1>1, AppFrame, PerformedFrame DEF Permits
<1>4. ASSUME NEW told \in {"error", "read"}, NEW entry \in Nat, Answered(serving, told, entry)
      PROVE  UNCHANGED Contract!vars
    <2>1. Told' = Told
        BY <1>1, <1>2, <1>4, ToldAnswer
    <2> QED
        BY <1>3, <2>1 DEF Contract!vars
<1>5. CASE found # 0 /\ Answered(serving, "done", found)
    <2>1. /\ Ask(serving).tool # "get_reservation"
          /\ found \in DOMAIN done /\ done[found].key = o
        BY <1>1, <1>5 DEF IndInv, ToolInv
    <2>2. o \in Operations
        BY <1>1, <2>1, ServingOperation
    <2>3. Performed[o] = 1
        BY <2>1, <2>2, PerformedOnce
    <2>4. CASE UNCHANGED answer
        <3>1. Told' = Told
            BY <1>1, <2>4, ToldFrame
        <3> QED
            BY <1>3, <3>1 DEF Contract!vars
    <2>5. CASE answer' = [answer EXCEPT ![Call(serving)] = "done"]
        <3>1. Told' = Told \cup {<<Call(serving), o>>}
            BY <1>1, <1>2, <2>5 DEF Told, Ask, IndInv, TypeOK
        <3>2. Contract!Tell(Call(serving), o)
            BY <1>3, <2>3, <3>1 DEF Contract!Tell
        <3> QED
            BY <1>2, <2>2, <3>2 DEF Contract!Next
    <2> QED
        BY <1>5, <2>4, <2>5 DEF Answered
<1> QED
    BY <1>1, <1>4, <1>5 DEF Settle, Finish

(* Every step of the boundary is a step of the contract, or none.            *)
LEMMA ContractNext ==
    ASSUME IndInv, [Next]_vars
    PROVE  [Contract!Next]_(Contract!vars)
<1>1. IndInv'
    BY IndInvNext
<1>2. CASE UNCHANGED vars
    <2>1. UNCHANGED <<app, done, pc, serving, asked, answer>>
        BY <1>2 DEF vars, client, service
    <2>2. Permits' = Permits /\ Told' = Told
        BY <2>1 DEF Permits, Told, Ask, Call
    <2> QED
        BY <2>1, <2>2, AppFrame, PerformedFrame DEF Contract!vars
<1>3. CASE (\E r \in Runs : StartRun(r) \/ EndRun(r)) \/ (\E g \in Endings : EndAuthority(g))
    BY <1>3, ContractApp
<1>4. CASE \/ \E c \in Calls, k \in Clients, ask \in Asks : CallTool(c, k, ask)
           \/ \E c \in Calls : Resend(c) \/ GiveUp(c)
    BY <1>4, ContractClient
<1>5. CASE \E m \in wire : Deliver(m)
    BY <1>5, ContractDeliver
<1>6. CASE Revalidate
    BY <1>6, ContractRevalidate
<1>7. CASE Perform \/ PerformFails
    BY <1>1, <1>7, ContractProvider
<1>8. CASE Settle
    BY <1>8, ContractSettle
<1> QED
    BY <1>2, <1>3, <1>4, <1>5, <1>6, <1>7, <1>8 DEF Next

(* The MCP boundary with its clients, registry, tools and providers          *)
(* implements the contract of the tool boundary (mcp/server.py, registry.py, *)
(* guest_operations.py).                                                     *)
THEOREM BoundaryKeepsContract == Spec => ImplementsContract
<1> QED
    BY ContractInit, ContractNext, Inductive, PTL DEF Spec, ImplementsContract, Contract!Spec

--------------------------------------------------------------------------------
(* What the contract comes to. Each lemma is about the contract alone; the   *)
(* theorems then hold of AgentRun because it implements it.                  *)

Counts == Performed \in [Operations -> {0, 1}] /\ Contract!OnceAndTruly

LEMMA CountsStep ==
    ASSUME Counts, [Contract!Next]_(Contract!vars)
    PROVE  Counts'
<1>1. CASE UNCHANGED <<Performed, Told>>
    BY <1>1 DEF Counts, Contract!OnceAndTruly
<1>2. ASSUME NEW o \in Operations, Contract!Perform(o) PROVE Counts'
    BY <1>2 DEF Counts, Contract!OnceAndTruly, Contract!Perform
<1>3. ASSUME NEW o \in Operations, NEW c \in Calls, Contract!Tell(c, o) PROVE Counts'
    BY <1>3 DEF Counts, Contract!OnceAndTruly, Contract!Tell
<1> QED
    BY <1>1, <1>2, <1>3
    DEF Contract!Next, Contract!vars, Contract!Withdraw, Contract!Open, Contract!Close,
       Contract!Permit, Contract!Drop, Contract!Perform, Contract!Tell

LEMMA CountsKept == Contract!Spec => []Counts
<1>1. Contract!Init => Counts
    BY DEF Contract!Init, Counts, Contract!OnceAndTruly
<1>2. Counts /\ [Contract!Next]_(Contract!vars) => Counts'
    BY CountsStep
<1> QED
    BY <1>1, <1>2, PTL DEF Contract!Spec

(* An operation that was not permitted stays so while it has no authority.   *)
LEMMA UntouchedStep ==
    ASSUME Counts, [Contract!Next]_(Contract!vars), NEW o \in Operations,
           Contract!Untouched(o), o \notin Authorized
    PROVE  Contract!Untouched(o)'
<1>1. CASE UNCHANGED <<Performed, Permits>>
    BY <1>1 DEF Contract!Untouched
<1>2. ASSUME NEW p \in Operations,
             Contract!Permit(p) \/ Contract!Drop(p) \/ Contract!Perform(p)
      PROVE  Contract!Untouched(o)'
    BY <1>2 DEF Counts, Contract!Untouched, Contract!Permit, Contract!Drop, Contract!Perform
<1> QED
    BY <1>1, <1>2
    DEF Contract!Next, Contract!vars, Contract!Withdraw, Contract!Open, Contract!Close,
       Contract!Permit, Contract!Drop, Contract!Perform, Contract!Tell

(* A run that has ended stays so, and with it what was done for it.          *)
LEMMA EndedStep ==
    ASSUME Counts, Contract!Next, NEW o \in Operations, ContractPhase[o.run] = "closed"
    PROVE  ContractPhase'[o.run] = "closed" /\ Performed'[o] = Performed[o]
<1>1. o.run \in Runs /\ DOMAIN ContractPhase = Runs
    BY DEF Operations, Keys, Key, ContractPhase
<1>2. CASE UNCHANGED <<ContractPhase, Performed>>
    BY <1>2
<1>3. ASSUME NEW r \in Runs, Contract!Open(r) \/ Contract!Close(r)
      PROVE  ContractPhase'[o.run] = "closed" /\ Performed'[o] = Performed[o]
    BY <1>1, <1>3 DEF Contract!Open, Contract!Close
<1>4. ASSUME NEW p \in Operations, Contract!Perform(p)
      PROVE  ContractPhase'[o.run] = "closed" /\ Performed'[o] = Performed[o]
    BY <1>4 DEF Counts, Contract!Perform
<1> QED
    BY <1>2, <1>3, <1>4
    DEF Contract!Next, Contract!vars, Contract!Withdraw, Contract!Open, Contract!Close,
       Contract!Permit, Contract!Drop, Contract!Perform, Contract!Tell

(* Whatever is repeated, lost or retried, an operation of a run is performed *)
(* at most once, and an agent that is told of it can rely on it (registry.py,*)
(* guest_operations.py, guest_credit.py).                                    *)
THEOREM OperationsOnce == Spec => []Contract!OnceAndTruly
<1>1. Counts => Contract!OnceAndTruly
    BY DEF Counts
<1> QED
    BY <1>1, CountsKept, BoundaryKeepsContract, PTL DEF ImplementsContract

(* No request that is still under way when its run ends is performed after   *)
(* it (main.py run_agent, registry.py).                                      *)
THEOREM NothingAfterTheRun == Spec => Contract!EndedRunsRest
<1>1. Counts /\ [Contract!Next]_(Contract!vars) =>
          [\A o \in Operations : Contract!Rests(o)]_(Contract!vars)
    BY EndedStep DEF Contract!Rests
<1>2. Contract!Spec => Contract!EndedRunsRest
    BY <1>1, CountsKept, PTL DEF Contract!Spec, Contract!EndedRunsRest
<1> QED
    BY <1>2, BoundaryKeepsContract, PTL DEF ImplementsContract

(* What the run has no authority for, because it never had it or because a   *)
(* grant of its chain was revoked or has expired, is never performed, unless *)
(* it was already permitted (guest_operations.py, guest_credit.py: admission *)
(* and revalidation).                                                        *)
THEOREM RevokedIsNeverPerformed == Spec => Contract!RevocationHolds
<1> SUFFICES ASSUME NEW o \in Operations
             PROVE  Spec => [](Contract!Untouched(o) /\ [](o \notin Authorized)
                                   => []Contract!Untouched(o))
    BY DEF Contract!RevocationHolds
<1>1. Counts /\ [Contract!Next]_(Contract!vars) /\ Contract!Untouched(o) /\ o \notin Authorized
          => Contract!Untouched(o)'
    BY UntouchedStep
<1> QED
    BY <1>1, CountsKept, BoundaryKeepsContract, PTL DEF ImplementsContract, Contract!Spec
================================================================================
