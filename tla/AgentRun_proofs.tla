----------------------------- MODULE AgentRun_proofs -----------------------------
(***************************************************************************)
(* Proofs about AgentRun, for every set of runs, clients and asks, every   *)
(* number of calls and retries, and every set of grants that may end.      *)
(***************************************************************************)
EXTENDS AgentRun, Authorization_proofs, SequenceTheorems

--------------------------------------------------------------------------------
(* Requests, decisions and entries. *)

(* A request belongs to a call of a run.                                     *)
LEMMA RequestParts ==
    ASSUME NEW m \in Requests
    PROVE  Call(m) \in Calls /\ Call(m).run \in Runs /\ m[2] \in 1..(MaxRetries + 1)
BY DEF Requests, Call, Calls

(* What is allowed when some grants have ended was allowed before.           *)
LEMMA AllowedBefore ==
    ASSUME NEW q, NEW chain, NEW revoked, Allowed(q, chain, revoked)
    PROVE  Allowed(q, chain, {})
BY DEF Allowed, Authorize, ChainValid

(* What is permitted is in the mandate of the run.                           *)
LEMMA PermittedMandate ==
    ASSUME NEW r \in Runs, NEW ask \in Asks, Permitted(r, ask)
    PROVE  ask \in Mandate[r]
BY AllowedBefore DEF Permitted, Mandate

(* An answer is what the tool told, or what it was before.                   *)
LEMMA AnsweredType ==
    ASSUME TypeOK, NEW m \in Requests,
           NEW told \in {"refused", "unavailable", "blocked", "error", "done", "read"},
           NEW entry \in Nat, Answered(m, told, entry)
    PROVE  /\ answer' \in [Calls -> {"none", "waiting", "refused", "unavailable",
                                     "blocked", "error", "done", "read"}]
           /\ receipt' \in [Calls -> Nat]
           /\ \A c \in Calls : \/ answer'[c] = answer[c] /\ receipt'[c] = receipt[c]
                               \/ /\ c = Call(m) /\ answer[c] = "waiting"
                                  /\ answer'[c] = told /\ receipt'[c] = entry
<1>1. Call(m) \in Calls
    BY RequestParts
<1>2. CASE UNCHANGED <<answer, receipt>>
    BY <1>2 DEF TypeOK
<1>3. CASE /\ answer[Call(m)] = "waiting"
           /\ answer' = [answer EXCEPT ![Call(m)] = told]
           /\ receipt' = [receipt EXCEPT ![Call(m)] = entry]
    BY <1>1, <1>3 DEF TypeOK
<1> QED
    BY <1>2, <1>3 DEF Answered

(* A new entry is the last one, and the others stay.                         *)
LEMMA AppendFacts ==
    ASSUME NEW S, NEW s \in Seq(S), NEW e \in S
    PROVE  /\ Append(s, e) \in Seq(S)
           /\ Len(s) + 1 \in DOMAIN Append(s, e)
           /\ Append(s, e)[Len(s) + 1] = e
           /\ \A i \in DOMAIN s : i \in DOMAIN Append(s, e) /\ Append(s, e)[i] = s[i]
           /\ \A i \in DOMAIN Append(s, e) : i \in DOMAIN s \/ i = Len(s) + 1
           /\ DOMAIN s \subseteq Nat /\ Len(s) \in Nat
           /\ Len(s) + 1 \notin DOMAIN s
<1>1. DOMAIN s = 1..Len(s) /\ Len(s) \in Nat
    OBVIOUS
<1>2. Append(s, e) \in Seq(S) /\ Len(Append(s, e)) = Len(s) + 1
    OBVIOUS
<1>3. DOMAIN Append(s, e) = 1..(Len(s) + 1)
    BY <1>1, <1>2
<1>4. \A i \in 1..Len(s) : Append(s, e)[i] = s[i]
    OBVIOUS
<1>5. Append(s, e)[Len(s) + 1] = e
    OBVIOUS
<1>6. /\ Len(s) + 1 \in 1..(Len(s) + 1)
      /\ Len(s) + 1 \notin 1..Len(s)
      /\ \A i \in 1..Len(s) : i \in 1..(Len(s) + 1)
      /\ \A i \in 1..(Len(s) + 1) : i \in 1..Len(s) \/ i = Len(s) + 1
      /\ 1..Len(s) \subseteq Nat
    BY <1>1
<1> QED
    BY <1>1, <1>2, <1>3, <1>4, <1>5, <1>6, Zenon

(* An entry was made by a call of a run.                                     *)
LEMMA EntryParts ==
    ASSUME TypeOK, NEW i \in DOMAIN done
    PROVE  /\ done[i] \in Entries /\ done[i].key \in Keys
           /\ done[i].by \in Calls /\ done[i].by.run \in Runs
<1>1. done[i] \in Entries
    BY DEF TypeOK
<1>2. done[i].by \in Calls /\ done[i].key \in Keys
    BY <1>1 DEF Entries
<1> QED
    BY <1>1, <1>2 DEF Calls

--------------------------------------------------------------------------------
(* The inductive invariant. *)

(* It holds in the initial state.                                            *)
LEMMA IndInvInit == Init => IndInv
<1> SUFFICES ASSUME Init
             PROVE  IndInv
    OBVIOUS
<1>1. TypeOK
    BY ConstantsAssumption DEF Init, TypeOK
<1>2. ClientInv /\ ToolInv /\ ProviderInv
    BY DEF Init, ClientInv, ToolInv, ProviderInv
<1> QED
    BY <1>1, <1>2 DEF IndInv

(* What is known of the tool stays true while the tool, the entries, the     *)
(* registry and the asks of calls that were made do not change.              *)
LEMMA ToolFrame ==
    ASSUME IndInv, UNCHANGED <<service, done>>,
           \A c \in Calls : asked[c] # NoAsk => asked'[c] = asked[c] /\ via'[c] = via[c],
           pc # "idle" => registered \subseteq registered'
    PROVE  ToolInv'
<1>1. CASE pc = "idle"
    BY <1>1 DEF IndInv, ToolInv, service
<1>2. CASE pc # "idle"
    <2>1. /\ serving \in Requests /\ Call(serving) \in Calls
          /\ asked[Call(serving)] # NoAsk
        BY <1>2, RequestParts DEF IndInv, ToolInv
    <2>2. /\ UNCHANGED <<pc, serving, found, done>>
          /\ asked'[Call(serving)] = asked[Call(serving)]
          /\ via'[Call(serving)] = via[Call(serving)]
        BY <2>1 DEF service
    <2>3. /\ Call(serving)' = Call(serving) /\ Ask(serving)' = Ask(serving)
          /\ RequireSpecialist(serving)' = RequireSpecialist(serving)
        BY <2>1, <2>2 DEF Call, Ask, RequireSpecialist
    <2> QED
        BY <1>2, <2>1, <2>2, <2>3 DEF IndInv, ToolInv
<1> QED
    BY <1>1, <1>2

(* The same of the entries; and an entry may be added under a new key.       *)
LEMMA ProviderFrame ==
    ASSUME IndInv, UNCHANGED done,
           \A c \in Calls : asked[c] # NoAsk => asked'[c] = asked[c] /\ via'[c] = via[c],
           \A r \in Runs : phase[r] # "new" => phase'[r] # "new"
    PROVE  ProviderInv'
<1>1. \A i \in DOMAIN done : done[i].by \in Calls /\ done[i].by.run \in Runs
    BY EntryParts DEF IndInv
<1>2. \A i, j \in DOMAIN done' : done'[i].key = done'[j].key => i = j
    BY DEF IndInv, ProviderInv
<1>3. ASSUME NEW i \in DOMAIN done
      PROVE  /\ asked[done[i].by] # NoAsk
             /\ asked'[done[i].by] = asked[done[i].by] /\ via'[done[i].by] = via[done[i].by]
             /\ phase'[done[i].by.run] # "new"
    <2>1. asked[done[i].by] # NoAsk /\ phase[done[i].by.run] # "new"
        BY DEF IndInv, ProviderInv
    <2> QED
        BY <1>1, <2>1
<1>4. ASSUME NEW i \in DOMAIN done'
      PROVE  LET c == done'[i].by IN
             /\ asked'[c] # NoAsk
             /\ phase'[c.run] # "new"
             /\ done'[i].key = Key(c.run, asked'[c])
             /\ done'[i].ask = Stored(asked'[c])
             /\ asked'[c].tool # "get_reservation"
             /\ Label(via'[c]) = ExpectedWorkload[asked'[c].tool]
             /\ WellFormed(asked'[c])
             /\ asked'[c] \in Mandate[c.run]
    <2>1. i \in DOMAIN done /\ done'[i] = done[i]
        OBVIOUS
    <2>2. LET c == done[i].by IN
          /\ done[i].key = Key(c.run, asked[c])
          /\ done[i].ask = Stored(asked[c])
          /\ asked[c].tool # "get_reservation"
          /\ Label(via[c]) = ExpectedWorkload[asked[c].tool]
          /\ WellFormed(asked[c])
          /\ asked[c] \in Mandate[c.run]
        BY <2>1 DEF IndInv, ProviderInv
    <2> QED
        BY <1>3, <2>1, <2>2
<1> QED
    BY <1>2, <1>4 DEF ProviderInv

(* The registry and the grants.                                              *)
LEMMA AppStep ==
    ASSUME IndInv, (\E r \in Runs : StartRun(r) \/ EndRun(r)) \/ (\E g \in Endings : EndAuthority(g))
    PROVE  IndInv'
<1>1. /\ UNCHANGED <<service, done, asked, via, wire, receipt>>
      /\ pc # "idle" => registered \subseteq registered'
      /\ \A r \in Runs : phase[r] # "new" => phase'[r] # "new"
    BY DEF StartRun, EndRun, EndAuthority, client, IndInv, TypeOK
<1>2. ToolInv'
    BY <1>1, ToolFrame
<1>3. ProviderInv'
    BY <1>1, ProviderFrame
<1>4. TypeOK' /\ ClientInv'
    <2>1. ASSUME NEW r \in Runs, StartRun(r)
          PROVE  TypeOK' /\ ClientInv'
        BY <2>1 DEF IndInv, TypeOK, ClientInv, StartRun, client, service
    <2>2. ASSUME NEW r \in Runs, EndRun(r)
          PROVE  TypeOK' /\ ClientInv'
        <3>1. /\ phase' \in [Runs -> {"new", "running", "ended"}]
              /\ answer' \in [Calls -> {"none", "waiting", "refused", "unavailable",
                                        "blocked", "error", "done", "read"}]
              /\ registered' \subseteq Runs
              /\ UNCHANGED <<ended, copies>>
            BY <2>2 DEF IndInv, TypeOK, EndRun
        <3>2. TypeOK'
            BY <1>1, <3>1 DEF IndInv, TypeOK, service
        <3>3. \A q \in registered' : phase'[q] = "running"
            BY <2>2 DEF IndInv, TypeOK, ClientInv, EndRun
        <3>4. \A c \in Calls : \/ answer'[c] = answer[c]
                               \/ answer[c] = "waiting" /\ answer'[c] = "error"
            BY <2>2 DEF EndRun
        <3>5. ClientInv'
            BY <1>1, <3>3, <3>4 DEF IndInv, ClientInv, Call
        <3> QED
            BY <3>2, <3>5
    <2>3. ASSUME NEW g \in Endings, EndAuthority(g)
          PROVE  TypeOK' /\ ClientInv'
        BY <2>3 DEF IndInv, TypeOK, ClientInv, EndAuthority, client, service
    <2> QED
        BY <2>1, <2>2, <2>3
<1> QED
    BY <1>2, <1>3, <1>4 DEF IndInv

(* The clients call, call again and give up.                                 *)
LEMMA ClientStep ==
    ASSUME IndInv,
           \/ \E c \in Calls, k \in Clients, ask \in Asks : CallTool(c, k, ask)
           \/ \E c \in Calls : Resend(c) \/ GiveUp(c)
    PROVE  IndInv'
<1>1. /\ UNCHANGED <<service, done, phase, registered, ended, receipt>>
      /\ \A c \in Calls : asked[c] # NoAsk => asked'[c] = asked[c] /\ via'[c] = via[c]
    BY DEF CallTool, Resend, GiveUp, app, IndInv, TypeOK
<1>2. ToolInv' /\ ProviderInv'
    BY <1>1, ToolFrame, ProviderFrame
<1>3. ASSUME NEW c \in Calls, NEW k \in Clients, NEW ask \in Asks, CallTool(c, k, ask)
      PROVE  TypeOK' /\ ClientInv'
    <2>1. TypeOK'
        BY <1>1, <1>3, ConstantsAssumption DEF IndInv, TypeOK, CallTool, service, Requests
    <2>2. \A m \in wire' : m = <<c, 1>> \/ (m \in wire /\ Call(m) \in Calls)
        BY <1>3, RequestParts DEF IndInv, TypeOK, CallTool
    <2>3. \A m \in wire' : asked'[Call(m)] # NoAsk
        BY <1>1, <1>3, <2>2, ConstantsAssumption
           DEF IndInv, TypeOK, ClientInv, CallTool, Call
    <2>4. \A d \in Calls : d # c => /\ asked'[d] = asked[d] /\ via'[d] = via[d]
                                    /\ answer'[d] = answer[d]
        BY <1>3 DEF IndInv, TypeOK, CallTool
    <2>5. asked'[c] = ask /\ via'[c] = k /\ answer'[c] = "waiting" /\ ask # NoAsk
        BY <1>3, ConstantsAssumption DEF IndInv, TypeOK, CallTool
    <2>6. ask.tool \in ToolFilter(k)
        BY <1>3 DEF CallTool
    <2>7. \A r \in registered' : phase'[r] = "running"
        BY <1>1 DEF IndInv, ClientInv
    <2>8. ASSUME NEW d \in Calls
          PROVE  /\ asked'[d] = NoAsk => answer'[d] = "none"
                 /\ asked'[d] # NoAsk => via'[d] \in Clients /\ asked'[d].tool \in ToolFilter(via'[d])
                 /\ answer'[d] = "done" => /\ receipt'[d] \in DOMAIN done'
                                           /\ done'[receipt'[d]].key = Key(d.run, asked'[d])
                                           /\ WellFormed(asked'[d])
        BY <1>1, <2>4, <2>5, <2>6 DEF IndInv, ClientInv
    <2> QED
        BY <2>1, <2>3, <2>7, <2>8, Zenon DEF ClientInv
<1>4. ASSUME NEW c \in Calls, Resend(c) \/ GiveUp(c)
      PROVE  TypeOK' /\ ClientInv'
    <2>1. asked[c] # NoAsk
        BY <1>4 DEF IndInv, ClientInv, Resend, GiveUp
    <2>2. TypeOK'
        <3>1. CASE Resend(c)
            <4>1. copies[c] + 1 \in 1..(MaxRetries + 1)
                BY <3>1, ConstantsAssumption DEF IndInv, TypeOK, Resend
            <4>2. copies' \in [Calls -> 0..(MaxRetries + 1)] /\ wire' \subseteq Requests
                BY <3>1, <4>1 DEF IndInv, TypeOK, Resend, Requests
            <4> QED
                BY <1>1, <3>1, <4>2 DEF IndInv, TypeOK, Resend, service
        <3>2. CASE GiveUp(c)
            BY <1>1, <3>2 DEF IndInv, TypeOK, GiveUp, service
        <3> QED
            BY <1>4, <3>1, <3>2
    <2>3. UNCHANGED <<asked, via>> /\ \A m \in wire' : asked[Call(m)] # NoAsk
        BY <1>4, <2>1 DEF IndInv, ClientInv, Resend, GiveUp, Call
    <2>4. \A d \in Calls : \/ answer'[d] = answer[d]
                           \/ d = c /\ answer[c] = "waiting" /\ answer'[c] = "error"
        BY <1>4 DEF IndInv, TypeOK, Resend, GiveUp
    <2> QED
        BY <1>1, <2>1, <2>2, <2>3, <2>4 DEF IndInv, ClientInv, Call
<1> QED
    BY <1>2, <1>3, <1>4 DEF IndInv

(* An answer tells a call of an entry with its key, or of none.              *)
LEMMA AnsweredClient ==
    ASSUME IndInv, NEW m \in Requests, asked[Call(m)] # NoAsk,
           NEW told \in {"refused", "unavailable", "blocked", "error", "done", "read"},
           NEW entry \in Nat, Answered(m, told, entry),
           UNCHANGED <<asked, via, phase, registered>>, wire' \subseteq wire,
           \A i \in DOMAIN done : i \in DOMAIN done' /\ done'[i] = done[i],
           told = "done" => /\ entry \in DOMAIN done'
                            /\ done'[entry].key = Key(Call(m).run, Ask(m))
                            /\ WellFormed(Ask(m))
    PROVE  ClientInv'
<1>1. \A c \in Calls : \/ answer'[c] = answer[c] /\ receipt'[c] = receipt[c]
                       \/ /\ c = Call(m) /\ answer[c] = "waiting"
                          /\ answer'[c] = told /\ receipt'[c] = entry
    BY AnsweredType DEF IndInv
<1>2. \A r \in registered' : phase'[r] = "running"
    BY DEF IndInv, ClientInv
<1>3. \A n \in wire' : asked'[Call(n)] # NoAsk
    BY DEF IndInv, ClientInv, Call
<1>4. ASSUME NEW c \in Calls
      PROVE  /\ asked'[c] = NoAsk => answer'[c] = "none"
             /\ asked'[c] # NoAsk => via'[c] \in Clients /\ asked'[c].tool \in ToolFilter(via'[c])
             /\ answer'[c] = "done" => /\ receipt'[c] \in DOMAIN done'
                                       /\ done'[receipt'[c]].key = Key(c.run, asked'[c])
                                       /\ WellFormed(asked'[c])
    <2>1. CASE answer'[c] = answer[c] /\ receipt'[c] = receipt[c]
        BY <2>1 DEF IndInv, ClientInv
    <2>2. CASE /\ c = Call(m) /\ answer[c] = "waiting"
               /\ answer'[c] = told /\ receipt'[c] = entry
        BY <2>2 DEF IndInv, ClientInv, Ask
    <2> QED
        BY <1>1, <2>1, <2>2
<1> QED
    BY <1>2, <1>3, <1>4, Zenon DEF ClientInv

(* A request is delivered.                                                   *)
LEMMA DeliverStep == ASSUME IndInv, NEW m \in wire, Deliver(m) PROVE IndInv'
<1>1. /\ m \in Requests /\ Call(m) \in Calls /\ Call(m).run \in Runs
      /\ asked[Call(m)] # NoAsk /\ Ask(m) \in Asks
    BY RequestParts DEF IndInv, TypeOK, ClientInv, Ask
<1>2. /\ UNCHANGED <<app, asked, via, copies, done>>
      /\ wire' = wire \ {m} /\ found' = 0
      /\ serving' = IF pc' = "idle" THEN NoRequest ELSE m
    BY DEF Deliver
<1>3. PICK told \in {"refused", "unavailable", "blocked"} : Answered(m, told, 0)
    BY DEF Deliver, Answered
<1>4. \/ pc' = "idle"
      \/ /\ pc' = "revalidate" /\ RequireSpecialist(m) /\ Call(m).run \in registered
         /\ WellFormed(Ask(m)) /\ Permitted(Call(m).run, Ask(m))
    BY DEF Deliver
<1>5. TypeOK'
    <2>1. pc' \in {"idle", "revalidate"} /\ serving' \in Requests \cup {NoRequest}
        BY <1>1, <1>2, <1>4
    <2> QED
        BY <1>1, <1>2, <1>3, <2>1, AnsweredType DEF IndInv, TypeOK, app
<1>6. ClientInv'
    BY <1>1, <1>2, <1>3, AnsweredClient DEF app
<1>7. ToolInv'
    <2>1. CASE pc' = "idle"
        BY <1>2, <2>1 DEF ToolInv
    <2>2. CASE pc' = "revalidate" /\ pc' # "idle"
        <3>1. Ask(m) \in Mandate[Call(m).run]
            BY <1>1, <1>4, <2>2, PermittedMandate
        <3>2. serving' = m
            BY <1>2, <2>2
        <3>3. /\ Call(serving)' = Call(m) /\ Ask(serving)' = Ask(m)
              /\ RequireSpecialist(serving)' = RequireSpecialist(m)
            BY <1>2, <3>2 DEF Call, Ask, RequireSpecialist
        <3> QED
            BY <1>1, <1>2, <1>4, <2>2, <3>1, <3>2, <3>3 DEF ToolInv, app
    <2> QED
        BY <1>4, <2>1, <2>2
<1>8. ProviderInv'
    BY <1>2, ProviderFrame DEF app
<1> QED
    BY <1>5, <1>6, <1>7, <1>8 DEF IndInv

(* What is known of the request that is served.                              *)
LEMMA ServingFacts ==
    ASSUME IndInv, pc # "idle"
    PROVE  /\ serving \in Requests /\ Call(serving) \in Calls /\ Call(serving).run \in Runs
           /\ asked[Call(serving)] # NoAsk /\ Ask(serving) \in Asks
           /\ Call(serving).run \in registered /\ phase[Call(serving).run] = "running"
           /\ RequireSpecialist(serving) /\ WellFormed(Ask(serving))
           /\ Ask(serving) \in Mandate[Call(serving).run]
           /\ Key(Call(serving).run, Ask(serving)) \in Keys
<1>1. /\ serving \in Requests /\ asked[Call(serving)] # NoAsk
      /\ Call(serving).run \in registered
      /\ RequireSpecialist(serving) /\ WellFormed(Ask(serving))
      /\ Ask(serving) \in Mandate[Call(serving).run]
    BY DEF IndInv, ToolInv
<1>2. Call(serving) \in Calls /\ Call(serving).run \in Runs
    BY <1>1, RequestParts
<1>3. Ask(serving) \in Asks /\ phase[Call(serving).run] = "running"
    BY <1>1, <1>2 DEF IndInv, TypeOK, ClientInv, Ask
<1> QED
    BY <1>1, <1>2, <1>3 DEF Keys

(* The tool finishes: entries may have been added.                           *)
LEMMA FinishStep ==
    ASSUME IndInv, pc # "idle", NEW told \in {"blocked", "error", "done", "read"},
           NEW entry \in Nat, Finish(told, entry), UNCHANGED app,
           done' \in Seq(Entries),
           \A i \in DOMAIN done : i \in DOMAIN done' /\ done'[i] = done[i],
           told = "done" => /\ entry \in DOMAIN done'
                            /\ done'[entry].key = Key(Call(serving).run, Ask(serving))
    PROVE  TypeOK' /\ ClientInv' /\ ToolInv'
<1>1. serving \in Requests /\ asked[Call(serving)] # NoAsk /\ WellFormed(Ask(serving))
    BY ServingFacts
<1>2. /\ pc' = "idle" /\ found' = 0 /\ serving' = NoRequest
      /\ Answered(serving, told, entry)
      /\ UNCHANGED <<asked, via, copies, wire, phase, registered, ended>>
    BY DEF Finish, app
<1>3. TypeOK'
    <2>1. /\ answer' \in [Calls -> {"none", "waiting", "refused", "unavailable",
                                    "blocked", "error", "done", "read"}]
          /\ receipt' \in [Calls -> Nat]
        BY <1>1, <1>2, AnsweredType DEF IndInv
    <2> QED
        BY <1>2, <2>1 DEF IndInv, TypeOK
<1>4. ClientInv'
    BY <1>1, <1>2, AnsweredClient
<1>5. ToolInv'
    BY <1>2 DEF ToolInv
<1> QED
    BY <1>3, <1>4, <1>5

(* Ruhusa is asked again.                                                    *)
LEMMA RevalidateStep == ASSUME IndInv, Revalidate PROVE IndInv'
<1>1. pc = "revalidate" /\ UNCHANGED <<app, done>>
    BY DEF Revalidate
<1>2. CASE pc' = "perform" /\ UNCHANGED <<serving, found, client>>
    <2>1. TypeOK' /\ ClientInv'
        BY <1>1, <1>2 DEF IndInv, TypeOK, ClientInv, app, client, Call
    <2>2. ToolInv'
        <3>1. /\ Call(serving)' = Call(serving) /\ Ask(serving)' = Ask(serving)
              /\ RequireSpecialist(serving)' = RequireSpecialist(serving)
            BY <1>2 DEF Call, Ask, RequireSpecialist, client
        <3> QED
            BY <1>1, <1>2, <3>1 DEF IndInv, ToolInv, client, app
    <2>3. ProviderInv'
        BY <1>1, <1>2, ProviderFrame DEF app, client
    <2> QED
        BY <2>1, <2>2, <2>3 DEF IndInv
<1>3. CASE Finish("blocked", 0)
    <2>1. TypeOK' /\ ClientInv' /\ ToolInv'
        BY <1>1, <1>3, FinishStep DEF IndInv, TypeOK
    <2>2. ProviderInv'
        BY <1>1, <1>3, ProviderFrame DEF app, Finish
    <2> QED
        BY <2>1, <2>2 DEF IndInv
<1> QED
    BY <1>2, <1>3 DEF Revalidate

(* The tool answers.                                                         *)
LEMMA SettleStep == ASSUME IndInv, Settle PROVE IndInv'
<1>1. pc = "settle" /\ UNCHANGED <<app, done>>
    BY DEF Settle
<1>2. ProviderInv'
    <2>1. UNCHANGED <<asked, via>>
        BY DEF Settle, Finish
    <2> QED
        BY <1>1, <2>1, ProviderFrame DEF app
<1>3. CASE Finish("error", 0)
    <2>1. TypeOK' /\ ClientInv' /\ ToolInv'
        BY <1>1, <1>3, FinishStep DEF IndInv, TypeOK
    <2> QED
        BY <1>2, <2>1 DEF IndInv
<1>4. CASE Finish(IF found = 0 THEN "read" ELSE "done", found)
    <2>1. found \in Nat
        BY DEF IndInv, TypeOK
    <2>2. found # 0 => /\ found \in DOMAIN done
                       /\ done[found].key = Key(Call(serving).run, Ask(serving))
        BY <1>1 DEF IndInv, ToolInv
    <2>3. CASE found = 0
        <3>1. Finish("read", found)
            BY <1>4, <2>3
        <3>2. TypeOK' /\ ClientInv' /\ ToolInv'
            BY <1>1, <2>1, <3>1, FinishStep DEF IndInv, TypeOK
        <3> QED
            BY <1>2, <3>2 DEF IndInv
    <2>4. CASE found # 0
        <3>1. Finish("done", found)
            BY <1>4, <2>4
        <3>2. TypeOK' /\ ClientInv' /\ ToolInv'
            BY <1>1, <2>1, <2>2, <2>4, <3>1, FinishStep DEF IndInv, TypeOK
        <3> QED
            BY <1>2, <3>2 DEF IndInv
    <2> QED
        BY <2>3, <2>4
<1> QED
    BY <1>3, <1>4 DEF Settle

(* A new entry for the request that is served.                               *)
LEMMA NewEntryStep ==
    ASSUME IndInv, pc = "perform", Ask(serving).tool # "get_reservation",
           Existing(Key(Call(serving).run, Ask(serving))) = {},
           done' = Append(done, [key |-> Key(Call(serving).run, Ask(serving)),
                                 ask |-> Stored(Ask(serving)), by |-> Call(serving)]),
           UNCHANGED <<app, asked, via>>
    PROVE  /\ ProviderInv' /\ done' \in Seq(Entries)
           /\ \A i \in DOMAIN done : i \in DOMAIN done' /\ done'[i] = done[i]
           /\ Len(done) + 1 \in DOMAIN done' /\ Len(done) + 1 \in Nat /\ Len(done) + 1 # 0
           /\ done'[Len(done) + 1].key = Key(Call(serving).run, Ask(serving))
<1> DEFINE key == Key(Call(serving).run, Ask(serving))
           new == [key |-> key, ask |-> Stored(Ask(serving)), by |-> Call(serving)]
<1>1. /\ serving \in Requests /\ Call(serving) \in Calls /\ Call(serving).run \in Runs
      /\ asked[Call(serving)] # NoAsk /\ Ask(serving) \in Asks
      /\ phase[Call(serving).run] = "running"
      /\ RequireSpecialist(serving) /\ WellFormed(Ask(serving))
      /\ Ask(serving) \in Mandate[Call(serving).run] /\ key \in Keys
    BY ServingFacts
<1>2. new \in Entries
    BY <1>1 DEF Entries
<1>3. done \in Seq(Entries)
    BY DEF IndInv, TypeOK
<1>4. done' = Append(done, new)
    OBVIOUS
<1> HIDE DEF key, new
<1>5. /\ done' \in Seq(Entries)
      /\ Len(done) + 1 \in DOMAIN done' /\ done'[Len(done) + 1] = new
      /\ \A i \in DOMAIN done : i \in DOMAIN done' /\ done'[i] = done[i]
      /\ \A i \in DOMAIN done' : i \in DOMAIN done \/ i = Len(done) + 1
      /\ Len(done) \in Nat
    <2>1. /\ Append(done, new) \in Seq(Entries)
          /\ Len(done) + 1 \in DOMAIN Append(done, new)
          /\ Append(done, new)[Len(done) + 1] = new
          /\ \A i \in DOMAIN done : i \in DOMAIN Append(done, new)
                                   /\ Append(done, new)[i] = done[i]
          /\ \A i \in DOMAIN Append(done, new) : i \in DOMAIN done \/ i = Len(done) + 1
          /\ Len(done) \in Nat
        BY <1>2, <1>3, AppendFacts
    <2> QED
        BY <1>4, <2>1
<1>6. /\ new.key = key /\ new.ask = Stored(asked[Call(serving)]) /\ new.by = Call(serving)
    BY DEF new, Ask
<1>7. \A i \in DOMAIN done : done[i].key # key
    BY DEF Existing, key
<1>8. \A i, j \in DOMAIN done' : done'[i].key = done'[j].key => i = j
    <2>1. \A i, j \in DOMAIN done : done[i].key = done[j].key => i = j
        BY DEF IndInv, ProviderInv
    <2> QED
        BY <1>5, <1>6, <1>7, <2>1
<1>9. ASSUME NEW i \in DOMAIN done'
      PROVE  LET c == done'[i].by IN
             /\ asked'[c] # NoAsk
             /\ phase'[c.run] # "new"
             /\ done'[i].key = Key(c.run, asked'[c])
             /\ done'[i].ask = Stored(asked'[c])
             /\ asked'[c].tool # "get_reservation"
             /\ Label(via'[c]) = ExpectedWorkload[asked'[c].tool]
             /\ WellFormed(asked'[c])
             /\ asked'[c] \in Mandate[c.run]
    <2>1. CASE i \in DOMAIN done
        BY <1>5, <2>1 DEF IndInv, ProviderInv, app
    <2>2. CASE i = Len(done) + 1
        <3>1. done'[i].by = Call(serving) /\ done'[i].key = key
              /\ done'[i].ask = Stored(asked[Call(serving)])
            BY <1>5, <1>6, <2>2
        <3>2. /\ key = Key(Call(serving).run, asked[Call(serving)])
              /\ Ask(serving) = asked[Call(serving)]
            BY DEF key, Ask
        <3>3. asked' = asked /\ via' = via /\ phase' = phase
            BY DEF app
        <3> QED
            BY <1>1, <3>1, <3>2, <3>3 DEF RequireSpecialist
    <2> QED
        BY <1>5, <2>1, <2>2
<1>10. ProviderInv'
    BY <1>8, <1>9 DEF ProviderInv
<1> QED
    BY <1>5, <1>6, <1>10 DEF key

(* The provider does the operation, or has done it before.                   *)
LEMMA PerformStep == ASSUME IndInv, Perform PROVE IndInv'
<1>1. pc = "perform" /\ pc' = "settle" /\ UNCHANGED <<serving, client, app>>
    BY DEF Perform
<1>2. /\ serving \in Requests /\ Call(serving) \in Calls /\ asked[Call(serving)] # NoAsk
      /\ found = 0 /\ Call(serving).run \in registered
      /\ RequireSpecialist(serving) /\ WellFormed(Ask(serving))
      /\ Ask(serving) \in Mandate[Call(serving).run]
    <2>1. found = 0
        BY <1>1 DEF IndInv, ToolInv
    <2> QED
        BY <1>1, <2>1, ServingFacts
<1>3. /\ Call(serving)' = Call(serving) /\ Ask(serving)' = Ask(serving)
      /\ RequireSpecialist(serving)' = RequireSpecialist(serving)
    BY <1>1 DEF Call, Ask, RequireSpecialist, client
<1> DEFINE key == Key(Call(serving).run, Ask(serving))
           Known == IF Ask(serving).tool = "get_reservation"
                    THEN found' = 0
                    ELSE found' \in DOMAIN done' /\ done'[found'].key = key
<1>4. SUFFICES /\ done' \in Seq(Entries) /\ found' \in Nat /\ ProviderInv'
               /\ \A i \in DOMAIN done : i \in DOMAIN done' /\ done'[i] = done[i]
               /\ Known
    <2>1. ASSUME done' \in Seq(Entries), found' \in Nat, ProviderInv', Known,
                 \A i \in DOMAIN done : i \in DOMAIN done' /\ done'[i] = done[i]
          PROVE  IndInv'
        <3>1. TypeOK'
            BY <1>1, <2>1 DEF IndInv, TypeOK, client, app
        <3>2. ClientInv'
            BY <1>1, <2>1 DEF IndInv, ClientInv, client, app, Call
        <3>3. ToolInv'
            <4>1. /\ serving' = serving /\ asked' = asked /\ registered' = registered
                  /\ Ask(serving') = Ask(serving)'
                BY <1>1 DEF client, app, Ask, Call
            <4> QED
                BY <1>1, <1>2, <1>3, <2>1, <4>1 DEF ToolInv
        <3> QED
            BY <2>1, <3>1, <3>2, <3>3 DEF IndInv
    <2> QED
        BY <2>1
<1>5. UNCHANGED <<asked, via, phase>>
    BY <1>1 DEF client, app
<1>6. ASSUME UNCHANGED done PROVE ProviderInv' /\ done' \in Seq(Entries)
    BY <1>5, <1>6, ProviderFrame DEF IndInv, TypeOK
<1>7. CASE Ask(serving).tool = "get_reservation"
    BY <1>2, <1>6, <1>7 DEF Perform
<1>8. CASE Ask(serving).tool # "get_reservation" /\ found' \in Existing(key) /\ UNCHANGED done
    <2>1. found' \in DOMAIN done /\ done[found'].key = key
        BY <1>8 DEF Existing
    <2>2. DOMAIN done \subseteq Nat
        BY DEF IndInv, TypeOK
    <2> QED
        BY <1>6, <1>8, <2>1, <2>2
<1>9. CASE /\ Ask(serving).tool # "get_reservation" /\ Existing(key) = {}
           /\ done' = Append(done, [key |-> key, ask |-> Stored(Ask(serving)),
                                    by |-> Call(serving)])
           /\ found' = Len(done) + 1
    BY <1>1, <1>5, <1>9, NewEntryStep
<1> QED
    BY <1>7, <1>8, <1>9 DEF Perform, Provide

(* The provider raises: an entry may have been added.                        *)
LEMMA PerformFailsStep == ASSUME IndInv, PerformFails PROVE IndInv'
<1>1. pc = "perform" /\ UNCHANGED app /\ Finish("error", 0)
    BY DEF PerformFails
<1>2. UNCHANGED <<asked, via, phase>>
    BY <1>1 DEF Finish, app
<1>3. /\ ProviderInv' /\ done' \in Seq(Entries)
      /\ \A i \in DOMAIN done : i \in DOMAIN done' /\ done'[i] = done[i]
    <2>1. CASE UNCHANGED done
        BY <1>2, <2>1, ProviderFrame DEF IndInv, TypeOK
    <2>2. CASE done' # done
        BY <1>1, <1>2, <2>2, NewEntryStep DEF PerformFails
    <2> QED
        BY <2>1, <2>2
<1>4. TypeOK' /\ ClientInv' /\ ToolInv'
    BY <1>1, <1>3, FinishStep
<1> QED
    BY <1>3, <1>4 DEF IndInv

(* Every step preserves it.                                                  *)
LEMMA IndInvNext == IndInv /\ [Next]_vars => IndInv'
<1> SUFFICES ASSUME IndInv, [Next]_vars
             PROVE  IndInv'
    OBVIOUS
<1>1. CASE UNCHANGED vars
    <2>1. UNCHANGED <<service, done, app, client, asked, via, phase, registered, wire>>
        BY <1>1 DEF vars, app, client
    <2>2. ToolInv' /\ ProviderInv'
        BY <2>1, ToolFrame, ProviderFrame
    <2>3. TypeOK' /\ ClientInv'
        BY <2>1 DEF IndInv, TypeOK, ClientInv, app, client, service, Call
    <2> QED
        BY <2>2, <2>3 DEF IndInv
<1>2. CASE (\E r \in Runs : StartRun(r) \/ EndRun(r)) \/ (\E g \in Endings : EndAuthority(g))
    BY <1>2, AppStep
<1>3. CASE \/ \E c \in Calls, k \in Clients, ask \in Asks : CallTool(c, k, ask)
           \/ \E c \in Calls : Resend(c) \/ GiveUp(c)
    BY <1>3, ClientStep
<1>4. CASE \E m \in wire : Deliver(m)
    BY <1>4, DeliverStep
<1>5. CASE Revalidate
    BY <1>5, RevalidateStep
<1>6. CASE Perform
    BY <1>6, PerformStep
<1>7. CASE PerformFails
    BY <1>7, PerformFailsStep
<1>8. CASE Settle
    BY <1>8, SettleStep
<1> QED
    BY <1>1, <1>2, <1>3, <1>4, <1>5, <1>6, <1>7, <1>8 DEF Next

(* The registry, the clients, the tool and the providers of all runs agree   *)
(* in every reachable state: an entry has the key of the call that made it,  *)
(* within the mandate of that call's run, one entry for each key.            *)
THEOREM Inductive == Spec => []IndInv
<1> QED
    BY IndInvInit, IndInvNext, PTL DEF Spec

(* The type invariant.                                                       *)
THEOREM TypeCorrect == Spec => []TypeOK
<1>1. IndInv => TypeOK
    BY DEF IndInv
<1> QED
    BY <1>1, Inductive, PTL

--------------------------------------------------------------------------------
(* The bands. *)

(* Ruhusa allows what a tool asks exactly if the amount is in the tool's     *)
(* band and both grants of its own chain are alive.                          *)
LEMMA AllowedInBand ==
    ASSUME NEW r \in Runs, NEW ask \in Asks, NEW revoked
    PROVE  Allowed(Prepared(r, ask), ChainOf(r, ask), revoked)
               <=> /\ InBand(ask)
                   /\ <<r, OwnChain[ask.tool], 1>> \notin revoked
                   /\ <<r, OwnChain[ask.tool], 2>> \notin revoked
<1>1. ask.amount \in Int /\ ask.tool \in Tools
    BY ConstantsAssumption
<1>2. Task(r).id = r
    BY DEF Task
<1>4. ask.tool \in {"get_reservation", "create_maintenance_request", "send_guest_message",
                   "issue_guest_credit", "request_guest_credit"}
    BY <1>1 DEF Tools, Operation
<1>5. CASE ask.tool = "get_reservation"
    <2>1. /\ Prepared(r, ask) = Request("reservations", Task(r), "reservation.read",
                                       ask.amount, "asante.reservation-reader")
          /\ ChainOf(r, ask) = Reservations(Task(r))
          /\ OwnChain[ask.tool] = "reservations" /\ InBand(ask)
        BY <1>5 DEF Prepared, Operation, ChainOf, TrustedChain, Context, OwnChain, InBand
    <2>2. Allowed(Request("reservations", Task(r), "reservation.read", ask.amount,
                          "asante.reservation-reader"),
                  Reservations(Task(r)), revoked)
              <=> /\ <<Task(r).id, "reservations", 1>> \notin revoked
                  /\ <<Task(r).id, "reservations", 2>> \notin revoked
        BY <1>1, SpecialistBand
    <2> QED
        BY <1>2, <2>1, <2>2
<1>6. CASE ask.tool = "create_maintenance_request"
    <2>1. /\ Prepared(r, ask) = Request("property-operations", Task(r), "maintenance.create",
                                       ask.amount, "asante.guest-operations")
          /\ ChainOf(r, ask) = PropertyOperations(Task(r))
          /\ OwnChain[ask.tool] = "maintenance" /\ InBand(ask)
        BY <1>6 DEF Prepared, Operation, ChainOf, TrustedChain, Context, OwnChain, InBand
    <2>2. Allowed(Request("property-operations", Task(r), "maintenance.create", ask.amount,
                          "asante.guest-operations"),
                  PropertyOperations(Task(r)), revoked)
              <=> /\ <<Task(r).id, "maintenance", 1>> \notin revoked
                  /\ <<Task(r).id, "maintenance", 2>> \notin revoked
        BY <1>1, SpecialistBand
    <2> QED
        BY <1>2, <2>1, <2>2
<1>7. CASE ask.tool = "send_guest_message"
    <2>1. /\ Prepared(r, ask) = Request("guest-support", Task(r), "guest.message.send",
                                       ask.amount, "asante.guest-operations")
          /\ ChainOf(r, ask) = GuestSupportMessage(Task(r))
          /\ OwnChain[ask.tool] = "message" /\ InBand(ask)
        BY <1>7 DEF Prepared, Operation, ChainOf, TrustedChain, Context, OwnChain, InBand
    <2>2. Allowed(Request("guest-support", Task(r), "guest.message.send", ask.amount,
                          "asante.guest-operations"),
                  GuestSupportMessage(Task(r)), revoked)
              <=> /\ <<Task(r).id, "message", 1>> \notin revoked
                  /\ <<Task(r).id, "message", 2>> \notin revoked
        BY <1>1, SpecialistBand
    <2> QED
        BY <1>2, <2>1, <2>2
<1>8. CASE ask.tool = "issue_guest_credit"
    <2>1. /\ Prepared(r, ask) = Request("service-recovery", Task(r), "guest.credit.issue",
                                       ask.amount, "asante.guest-credit")
          /\ ChainOf(r, ask) = ServiceRecovery(Task(r), SupervisorCreditLimit,
                                              ServiceRecoveryCreditLimit)
          /\ OwnChain[ask.tool] = "credit"
          /\ InBand(ask) <=> 0 < ask.amount /\ ask.amount <= Dollars(25)
        BY <1>8 DEF Prepared, Operation, ChainOf, TrustedChain, Context, OwnChain, InBand
    <2>2. Allowed(Request("service-recovery", Task(r), "guest.credit.issue", ask.amount,
                          "asante.guest-credit"),
                  ServiceRecovery(Task(r), SupervisorCreditLimit, ServiceRecoveryCreditLimit), revoked)
              <=> /\ <<Task(r).id, "credit", 1>> \notin revoked
                  /\ <<Task(r).id, "credit", 2>> \notin revoked
                  /\ 0 < ask.amount /\ ask.amount <= Dollars(25)
        BY <1>1, DefaultBands
    <2> QED
        BY <1>2, <2>1, <2>2
<1>9. CASE ask.tool = "request_guest_credit"
    <2>1. /\ Prepared(r, ask) = Request("service-recovery", Task(r), "guest.credit.request",
                                       ask.amount, "asante.guest-operations")
          /\ ChainOf(r, ask) = ServiceRecoveryCreditRequest(Task(r), ApprovalRequestLimit)
          /\ OwnChain[ask.tool] = "credit_request"
          /\ InBand(ask) <=> Dollars(25) < ask.amount /\ ask.amount <= Dollars(100)
        BY <1>9 DEF Prepared, Operation, ChainOf, TrustedChain, Context, OwnChain, InBand
    <2>2. Allowed(Request("service-recovery", Task(r), "guest.credit.request", ask.amount,
                          "asante.guest-operations"),
                  ServiceRecoveryCreditRequest(Task(r), ApprovalRequestLimit), revoked)
              <=> /\ <<Task(r).id, "credit_request", 1>> \notin revoked
                  /\ <<Task(r).id, "credit_request", 2>> \notin revoked
                  /\ Dollars(25) < ask.amount /\ ask.amount <= Dollars(100)
        BY <1>1, DefaultBands
    <2> QED
        BY <1>2, <2>1, <2>2
<1> QED
    BY <1>4, <1>5, <1>6, <1>7, <1>8, <1>9

(* For every amount of money, not only those of an instance, a credit has    *)
(* one path up to 100 dollars and none above, and what may be requested may  *)
(* be issued once it is approved.                                            *)
THEOREM OnePathForEveryAmount == \A r \in Runs, amount \in Int : OnePath(r, amount)
<1> SUFFICES ASSUME NEW r \in Runs, NEW amount \in Int
             PROVE  OnePath(r, amount)
    OBVIOUS
<1>1. Dollars(25) = 25000 /\ Dollars(100) = 100000
    BY DEF Dollars
<1>2. Automatic(r, amount) <=> 0 < amount /\ amount <= Dollars(25)
    BY DefaultBands DEF Automatic, Context
<1>3. Requestable(r, amount) <=> Dollars(25) < amount /\ amount <= Dollars(100)
    BY DefaultBands DEF Requestable, Context
<1>4. Executable(amount) <=> 0 < amount /\ amount <= Dollars(100)
    BY DefaultBands DEF Executable
<1> QED
    BY <1>1, <1>2, <1>3, <1>4 DEF OnePath

(* Hence every credit of every registered run has one path.                  *)
THEOREM CreditsHaveOnePath == Spec => []EveryCreditHasOnePath
<1>1. IndInv => EveryCreditHasOnePath
    BY OnePathForEveryAmount, ConstantsAssumption
       DEF IndInv, TypeOK, EveryCreditHasOnePath, OnePathRuns
<1> QED
    BY <1>1, Inductive, PTL

(* What is done was in the mandate of its run, hence in its band, and it was *)
(* asked for with a label the tool belongs to.                               *)
THEOREM SpecialistsKeepToTheirTools == Spec => []LeastPrivilege
<1>1. IndInv => LeastPrivilege
    <2> SUFFICES ASSUME IndInv, NEW i \in DOMAIN done
                 PROVE  /\ done[i].ask.tool \in ToolFilter(Label(via[done[i].by]))
                        /\ InBand(done[i].ask)
        BY DEF LeastPrivilege
    <2> DEFINE c == done[i].by
    <2>1. /\ c \in Calls /\ c.run \in Runs /\ asked[c] # NoAsk
          /\ done[i].ask = Stored(asked[c])
          /\ Label(via[c]) = ExpectedWorkload[asked[c].tool]
          /\ asked[c] \in Mandate[c.run]
        BY EntryParts DEF IndInv, ProviderInv
    <2>2. asked[c] \in Asks
        BY <2>1 DEF IndInv, TypeOK
    <2>3. InBand(asked[c])
        BY <2>1, <2>2, AllowedInBand DEF Mandate
    <2>4. done[i].ask.tool = asked[c].tool /\ done[i].ask.amount = asked[c].amount
        BY <2>1, <2>2, ConstantsAssumption DEF Stored
    <2>5. asked[c].tool \in Tools
        BY <2>2, ConstantsAssumption
    <2>6. asked[c].tool \in ToolFilter(ExpectedWorkload[asked[c].tool])
        BY <2>5 DEF Tools, Operation, ExpectedWorkload, ToolFilter
    <2> QED
        BY <2>1, <2>3, <2>4, <2>6 DEF InBand
<1> QED
    BY <1>1, Inductive, PTL

--------------------------------------------------------------------------------
(* What a call is told of. *)

(* Texts that are joined come apart again where the first ones are equally   *)
(* long.                                                                     *)
LEMMA SamePrefix ==
    ASSUME NEW s \in Seq(Lines), NEW p \in Seq(Lines), NEW t \in Seq(Lines), NEW q \in Seq(Lines),
           Len(s) = Len(t), s \o p = t \o q
    PROVE  s = t /\ p = q
<1> DEFINE n == Len(s)
<1>1. /\ Len(s \o p) = n + Len(p)
      /\ \A i \in 1..(n + Len(p)) : (s \o p)[i] = IF i <= n THEN s[i] ELSE p[i - n]
    BY ConcatProperties, Zenon
<1>2. /\ Len(t \o q) = n + Len(q)
      /\ \A i \in 1..(n + Len(q)) : (t \o q)[i] = IF i <= n THEN t[i] ELSE q[i - n]
    <2>1. /\ Len(t \o q) = Len(t) + Len(q)
          /\ \A i \in 1..(Len(t) + Len(q)) :
                 (t \o q)[i] = IF i <= Len(t) THEN t[i] ELSE q[i - Len(t)]
        BY ConcatProperties, Zenon
    <2> QED
        BY <2>1
<1>3. Len(p) \in Nat /\ Len(q) \in Nat /\ n \in Nat /\ Len(s) = n /\ Len(t) = n
    OBVIOUS
<1> HIDE DEF n
<1>4. Len(p) = Len(q)
    BY <1>1, <1>2, <1>3
<1>5. s = t
    <2>1. ASSUME NEW i \in 1..Len(s) PROVE s[i] = t[i]
        <3>1. i \in 1..(n + Len(p)) /\ i <= n
            BY <1>3
        <3> QED
            BY <1>1, <1>2, <1>4, <3>1
    <2> QED
        BY <1>3, <2>1, SeqEqual
<1>6. p = q
    <2>1. ASSUME NEW i \in 1..Len(p) PROVE p[i] = q[i]
        <3>1. i + n \in 1..(n + Len(p)) /\ ~(i + n <= n) /\ (i + n) - n = i
            BY <1>3
        <3> QED
            BY <1>1, <1>2, <1>4, <3>1
    <2> QED
        BY <1>4, <2>1, SeqEqual
<1> QED
    BY <1>5, <1>6

Joined(s, t, u) == s \o t \o u

LEMMA TwoLines ==
    ASSUME NEW s \in Seq(Lines), NEW t \in Seq(Lines), NEW u \in Seq(Lines),
           NEW v \in Seq(Lines), NEW w \in Seq(Lines), NEW x \in Seq(Lines),
           Len(s) = 1, Len(t) = 1, Len(v) = 1, Len(w) = 1, Joined(s, t, u) = Joined(v, w, x)
    PROVE  s = v /\ t = w /\ u = x
<1> DEFINE p == s \o t
           q == v \o w
<1>1. p \in Seq(Lines) /\ Len(p) = Len(s) + Len(t)
    BY ConcatProperties, Zenon
<1>2. q \in Seq(Lines) /\ Len(q) = Len(v) + Len(w)
    BY ConcatProperties, Zenon
<1>3. p \o u = q \o x /\ Len(p) = Len(q)
    BY <1>1, <1>2 DEF Joined
<1>4. p = q => s = v /\ t = w
    BY SamePrefix
<1> HIDE DEF p, q
<1>5. p = q /\ u = x
    BY <1>1, <1>2, <1>3, SamePrefix
<1> QED
    BY <1>4, <1>5

(* The parts of a request are sequences of lines, and so is its payload.     *)
LEMMA AskLines ==
    ASSUME NEW ask \in Asks
    PROVE  /\ ask.reservation \in Seq(Lines)
           /\ ask.category.lines \in Seq(Lines) /\ ask.urgency.lines \in Seq(Lines)
           /\ ask.description.lines \in Seq(Lines) /\ ask.message.lines \in Seq(Lines)
           /\ Payload(ask) \in Seq(Lines)
<1>1. ask \in [tool : Tools, reservation : Seq(Lines), amount : Int, category : Texts,
               urgency : Texts, description : Texts, message : Texts]
    BY ConstantsAssumption
<1>2. /\ ask.reservation \in Seq(Lines)
      /\ ask.category.lines \in Seq(Lines) /\ ask.urgency.lines \in Seq(Lines)
      /\ ask.description.lines \in Seq(Lines) /\ ask.message.lines \in Seq(Lines)
    BY <1>1 DEF Texts
<1>3. ask.category.lines \o ask.urgency.lines \in Seq(Lines)
    BY <1>2, ConcatProperties
<1>4. ask.category.lines \o ask.urgency.lines \o ask.description.lines \in Seq(Lines)
    BY <1>2, <1>3, ConcatProperties
<1>5. <<>> \in Seq(Lines)
    OBVIOUS
<1> QED
    BY <1>2, <1>4, <1>5 DEF Payload

(* Two orders or messages with one key whose reservations, and categories,   *)
(* have one line each say the same.                                          *)
LEMMA KeyTellsTexts ==
    ASSUME NEW a \in Asks, NEW b \in Asks, a.tool = b.tool, OneLine(a), OneLine(b),
           WellFormed(a), WellFormed(b),
           a.reservation \o Payload(a) = b.reservation \o Payload(b)
    PROVE  SameTexts(a, b)
<1>1. a.reservation = b.reservation /\ Payload(a) = Payload(b)
    <2>1. /\ a.reservation \in Seq(Lines) /\ Payload(a) \in Seq(Lines)
          /\ b.reservation \in Seq(Lines) /\ Payload(b) \in Seq(Lines)
          /\ Len(a.reservation) = 1 /\ Len(b.reservation) = 1
        BY AskLines DEF OneLine
    <2> QED
        BY <2>1, SamePrefix
<1>2. CASE a.tool = "create_maintenance_request"
    <2> DEFINE ac == a.category.lines  au == a.urgency.lines  ad == a.description.lines
               bc == b.category.lines  bu == b.urgency.lines  bd == b.description.lines
    <2>1. /\ ac \in Seq(Lines) /\ au \in Seq(Lines) /\ ad \in Seq(Lines)
          /\ bc \in Seq(Lines) /\ bu \in Seq(Lines) /\ bd \in Seq(Lines)
        BY AskLines
    <2>2. Len(ac) = 1 /\ Len(bc) = 1 /\ Len(au) = 1 /\ Len(bu) = 1
        BY <1>2 DEF OneLine, WellFormed
    <2>3. Payload(a) = ac \o au \o ad /\ Payload(b) = bc \o bu \o bd
        BY <1>2 DEF Payload
    <2> HIDE DEF ac, au, ad, bc, bu, bd
    <2>4. Joined(ac, au, ad) = Joined(bc, bu, bd)
        BY <1>1, <2>3 DEF Joined
    <2>5. ac = bc /\ au = bu /\ ad = bd
        BY <2>1, <2>2, <2>4, TwoLines
    <2> QED
        BY <1>1, <1>2, <2>5 DEF SameTexts, ac, au, ad, bc, bu, bd
<1>3. CASE a.tool = "send_guest_message"
    BY <1>1, <1>3 DEF Payload, SameTexts
<1>4. CASE a.tool \notin {"create_maintenance_request", "send_guest_message"}
    BY <1>1, <1>4 DEF SameTexts
<1> QED
    BY <1>2, <1>3, <1>4

(* Amounts with the same cents are within a cent.                            *)
LEMMA SameCents ==
    ASSUME NEW a \in Int, NEW b \in Int, Cents(a) = Cents(b)
    PROVE  -10 <= a - b /\ a - b <= 10
<1>1. PICK i \in {4, 5} : Cents(a) = (a + i) \div 10
    BY DEF Cents
<1>2. PICK j \in {4, 5} : Cents(b) = (b + j) \div 10
    BY DEF Cents
<1>3. \A n \in Int :
          n \div 10 \in Int /\ 10 * (n \div 10) <= n /\ n < 10 * (n \div 10) + 10
    OBVIOUS
<1>4. a + i \in Int /\ b + j \in Int /\ i \in {4, 5} /\ j \in {4, 5}
    OBVIOUS
<1> DEFINE q == Cents(a)
<1>5. /\ q \in Int /\ 10 * q <= a + i /\ a + i < 10 * q + 10
      /\ 10 * q <= b + j /\ b + j < 10 * q + 10
    BY <1>1, <1>2, <1>3, <1>4
<1> HIDE DEF q
<1> QED
    BY <1>4, <1>5

(* What a call was told of, and the call that made it, have one key.         *)
LEMMA ToldOf ==
    ASSUME IndInv, NEW c \in Calls, answer[c] = "done"
    PROVE  LET e == done[receipt[c]] IN
           /\ e.by \in Calls
           /\ asked[c] \in Asks /\ asked[e.by] \in Asks
           /\ e.ask = Stored(asked[e.by])
           /\ e.ask.tool = asked[e.by].tool /\ e.ask.amount = asked[e.by].amount
           /\ e.ask.reservation = asked[e.by].reservation
           /\ e.ask.category = asked[e.by].category
           /\ e.ask.urgency.lines = asked[e.by].urgency.lines
           /\ e.ask.description = asked[e.by].description
           /\ e.ask.message = asked[e.by].message
           /\ e.by.run = c.run
           /\ asked[e.by].tool = asked[c].tool
           /\ KeyAmount(asked[e.by]) = KeyAmount(asked[c])
           /\ asked[e.by].reservation \o Payload(asked[e.by])
                  = asked[c].reservation \o Payload(asked[c])
           /\ WellFormed(asked[c]) /\ WellFormed(asked[e.by])
<1> DEFINE e == done[receipt[c]]
           maker == e.by
<1>1. receipt[c] \in DOMAIN done /\ e.key = Key(c.run, asked[c]) /\ WellFormed(asked[c])
    BY DEF IndInv, ClientInv
<1>2. /\ maker \in Calls /\ asked[maker] # NoAsk
      /\ e.key = Key(maker.run, asked[maker]) /\ e.ask = Stored(asked[maker])
      /\ WellFormed(asked[maker])
    BY <1>1, EntryParts DEF IndInv, ProviderInv
<1>3. asked[c] # NoAsk
    BY DEF IndInv, ClientInv
<1>4. asked[c] \in Asks /\ asked[maker] \in Asks
    BY <1>2, <1>3 DEF IndInv, TypeOK
<1>5. Key(maker.run, asked[maker]) = Key(c.run, asked[c])
    BY <1>1, <1>2
<1>6. ASSUME NEW ask \in Asks
      PROVE  /\ Stored(ask).tool = ask.tool /\ Stored(ask).amount = ask.amount
             /\ Stored(ask).reservation = ask.reservation
             /\ Stored(ask).category = ask.category
             /\ Stored(ask).urgency.lines = ask.urgency.lines
             /\ Stored(ask).description = ask.description
             /\ Stored(ask).message = ask.message
    <2>1. ask \in [tool : Tools, reservation : Seq(Lines), amount : Int, category : Texts,
                  urgency : Texts, description : Texts, message : Texts]
        BY ConstantsAssumption
    <2>2. Stored(ask).urgency = Strip(ask.urgency) /\ ask.urgency \in Texts
        BY <2>1 DEF Stored
    <2>3. Strip(ask.urgency).lines = ask.urgency.lines
        BY <2>2 DEF Strip, Texts
    <2> QED
        BY <2>1, <2>2, <2>3 DEF Stored
<1>7. \A r, a : /\ Key(r, a).run = r /\ Key(r, a).tool = a.tool
                /\ Key(r, a).amount = KeyAmount(a)
                /\ Key(r, a).lines = a.reservation \o Payload(a)
    BY DEF Key
<1>8. /\ maker.run = c.run /\ asked[maker].tool = asked[c].tool
      /\ KeyAmount(asked[maker]) = KeyAmount(asked[c])
      /\ asked[maker].reservation \o Payload(asked[maker])
             = asked[c].reservation \o Payload(asked[c])
    <2> HIDE DEF maker
    <2>1. /\ Key(maker.run, asked[maker]).run = maker.run
          /\ Key(maker.run, asked[maker]).tool = asked[maker].tool
          /\ Key(maker.run, asked[maker]).amount = KeyAmount(asked[maker])
          /\ Key(maker.run, asked[maker]).lines
                 = asked[maker].reservation \o Payload(asked[maker])
        BY <1>7
    <2>2. /\ Key(c.run, asked[c]).run = c.run /\ Key(c.run, asked[c]).tool = asked[c].tool
          /\ Key(c.run, asked[c]).amount = KeyAmount(asked[c])
          /\ Key(c.run, asked[c]).lines = asked[c].reservation \o Payload(asked[c])
        BY <1>7
    <2> QED
        BY <1>5, <2>1, <2>2
<1>9. /\ e.ask.tool = asked[maker].tool /\ e.ask.amount = asked[maker].amount
      /\ e.ask.reservation = asked[maker].reservation
      /\ e.ask.category = asked[maker].category
      /\ e.ask.urgency.lines = asked[maker].urgency.lines
      /\ e.ask.description = asked[maker].description
      /\ e.ask.message = asked[maker].message
    BY <1>2, <1>4, <1>6
<1> QED
    BY <1>1, <1>2, <1>4, <1>8, <1>9

(* A call is told of what it asked for, for all texts and reservations whose *)
(* first parts have one line.                                                *)
THEOREM AnswersAreForTheRequest == Spec => []AnswersKeepTheirRequest
<1>1. IndInv => AnswersKeepTheirRequest
    <2> SUFFICES ASSUME IndInv, NEW c \in Calls, answer[c] = "done"
                 PROVE  LET e == done[receipt[c]] IN
                        /\ e.by.run = c.run
                        /\ OneLine(e.ask) /\ OneLine(asked[c]) => SameTexts(e.ask, asked[c])
        BY DEF AnswersKeepTheirRequest
    <2> DEFINE e == done[receipt[c]]
               a == asked[c]
               b == asked[e.by]
    <2>1. /\ a \in Asks /\ b \in Asks /\ e.by.run = c.run
          /\ e.ask.tool = b.tool /\ e.ask.reservation = b.reservation
          /\ e.ask.category = b.category /\ e.ask.urgency.lines = b.urgency.lines
          /\ e.ask.description = b.description /\ e.ask.message = b.message
          /\ b.tool = a.tool /\ WellFormed(a) /\ WellFormed(b)
          /\ b.reservation \o Payload(b) = a.reservation \o Payload(a)
        BY ToldOf
    <2> HIDE DEF e, a, b
    <2>2. OneLine(e.ask) => OneLine(b)
        BY <2>1 DEF OneLine
    <2>3. OneLine(b) /\ OneLine(a) => SameTexts(b, a)
        BY <2>1, KeyTellsTexts
    <2>4. SameTexts(b, a) => SameTexts(e.ask, a)
        BY <2>1 DEF SameTexts
    <2>5. /\ e.by.run = c.run
          /\ OneLine(e.ask) /\ OneLine(a) => SameTexts(e.ask, a)
        BY <2>1, <2>2, <2>3, <2>4
    <2> QED
        BY <2>5 DEF e, a
<1> QED
    BY <1>1, Inductive, PTL

(* A call is told of a credit of its amount to within a cent.                *)
THEOREM AmountsKept == Spec => []AmountsAreKept
<1>1. IndInv => AmountsAreKept
    <2> SUFFICES ASSUME IndInv, NEW c \in Calls, answer[c] = "done"
                 PROVE  LET d == done[receipt[c]].ask.amount - asked[c].amount IN
                        /\ asked[c].tool = "issue_guest_credit" => -10 <= d /\ d <= 10
                        /\ asked[c].tool = "request_guest_credit" => d = 0
        BY DEF AmountsAreKept
    <2> DEFINE e == done[receipt[c]]
               a == asked[c]
               b == asked[e.by]
    <2>1. /\ a \in Asks /\ b \in Asks /\ e.ask.amount = b.amount
          /\ b.tool = a.tool /\ KeyAmount(b) = KeyAmount(a)
        BY ToldOf
    <2> HIDE DEF e, a, b
    <2>2. a.amount \in Int /\ b.amount \in Int
        BY <2>1, ConstantsAssumption
    <2>3. a.tool = "issue_guest_credit" => -10 <= b.amount - a.amount /\ b.amount - a.amount <= 10
        BY <2>1, <2>2, SameCents DEF KeyAmount
    <2>4. a.tool = "request_guest_credit" => b.amount - a.amount = 0
        BY <2>1, <2>2 DEF KeyAmount
    <2> QED
        BY <2>1, <2>3, <2>4 DEF e, a
<1> QED
    BY <1>1, Inductive, PTL

--------------------------------------------------------------------------------
(* What a call is refused for. *)

(* A tool has a reason to block a call.                                      *)
Reason(c) ==
    \/ ~WellFormed(asked[c])
    \/ ~InBand(asked[c])
    \/ \E g \in ended : g[1] = c.run /\ g[2] = OwnChain[asked[c].tool]

(* RefusedOnlyWithReason alone is not inductive: the task of a call that     *)
(* waits is known because its run has not ended, and EndRun leaves no call   *)
(* of the run waiting.                                                       *)
ReasonInv ==
    /\ \A r \in Runs : phase[r] = "running" => r \in registered
    /\ \A c \in Calls : answer[c] = "waiting" => phase[c.run] = "running"
    /\ \A c \in Calls :
           /\ answer[c] = "blocked" => Reason(c)
           /\ answer[c] = "refused" => via[c] = "legacy"
           /\ answer[c] # "unavailable"

(* It is kept by a step that tells a call nothing, or tells it for a reason. *)
LEMMA ReasonFrame ==
    ASSUME IndInv, ReasonInv, ended \subseteq ended',
           \A r \in Runs : phase'[r] = "running" => r \in registered',
           \A c \in Calls : asked[c] # NoAsk => asked'[c] = asked[c] /\ via'[c] = via[c],
           \A c \in Calls :
               \/ answer'[c] = answer[c] /\ (answer[c] = "waiting" => phase'[c.run] = "running")
               \/ answer'[c] = "waiting" /\ phase'[c.run] = "running"
               \/ answer'[c] \in {"error", "done", "read"}
               \/ answer'[c] = "blocked" /\ Reason(c)'
               \/ answer'[c] = "refused" /\ via'[c] = "legacy"
    PROVE  ReasonInv'
<1>1. ASSUME NEW c \in Calls, Reason(c), asked[c] # NoAsk
      PROVE  Reason(c)'
    BY <1>1 DEF Reason
<1>2. \A c \in Calls : answer[c] \in {"blocked", "refused"} => asked[c] # NoAsk
    BY DEF IndInv, ClientInv
<1>3. \A c \in Calls : answer'[c] = "waiting" => phase'[c.run] = "running"
    OBVIOUS
<1>4. ASSUME NEW c \in Calls
      PROVE  /\ answer'[c] = "blocked" => Reason(c)'
             /\ answer'[c] = "refused" => via'[c] = "legacy"
             /\ answer'[c] # "unavailable"
    <2>1. CASE answer'[c] = answer[c]
        <3>1. /\ answer[c] = "blocked" => Reason(c) /\ asked[c] # NoAsk
              /\ answer[c] = "refused" => via[c] = "legacy" /\ asked[c] # NoAsk
              /\ answer[c] # "unavailable"
            <4>1. /\ answer[c] = "blocked" => Reason(c)
                  /\ answer[c] = "refused" => via[c] = "legacy"
                  /\ answer[c] # "unavailable"
                BY Zenon DEF ReasonInv
            <4>2. answer[c] \in {"blocked", "refused"} => asked[c] # NoAsk
                BY <1>2
            <4> QED
                BY <4>1, <4>2
        <3>2. answer[c] = "blocked" => Reason(c)'
            BY <1>1, <3>1, Zenon
        <3>3. answer[c] = "refused" => via'[c] = "legacy"
            BY <3>1
        <3> QED
            BY <2>1, <3>1, <3>2, <3>3, Zenon
    <2>2. CASE answer'[c] \in {"waiting", "error", "done", "read"}
        BY <2>2
    <2>3. CASE answer'[c] = "blocked" /\ Reason(c)'
        BY <2>3, Zenon
    <2>4. CASE answer'[c] = "refused" /\ via'[c] = "legacy"
        BY <2>4
    <2> QED
        BY <2>1, <2>2, <2>3, <2>4
<1> QED
    BY <1>3, <1>4 DEF ReasonInv

(* A tool that is not permitted has a reason.                                *)
LEMMA NotPermitted ==
    ASSUME IndInv, NEW c \in Calls, asked[c] # NoAsk, ~Permitted(c.run, asked[c])
    PROVE  Reason(c)
<1>1. c.run \in Runs /\ asked[c] \in Asks
    BY DEF Calls, IndInv, TypeOK
<1>2. Permitted(c.run, asked[c])
          <=> /\ InBand(asked[c])
              /\ <<c.run, OwnChain[asked[c].tool], 1>> \notin ended
              /\ <<c.run, OwnChain[asked[c].tool], 2>> \notin ended
    BY <1>1, AllowedInBand DEF Permitted
<1> QED
    BY <1>2 DEF Reason

(* Of the clients in use only the legacy one shows a tool of another label.  *)
LEMMA OwnLabel ==
    ASSUME NEW k \in Clients, NEW tool \in ToolFilter(k), Label(k) # ExpectedWorkload[tool]
    PROVE  k = "legacy"
<1>1. k \in {"reservations", "property-operations", "guest-support", "service-recovery", "legacy"}
    BY ConstantsAssumption
<1> QED
    BY <1>1 DEF ToolFilter, Label, ExpectedWorkload

(* An answer tells a call something for a reason.                            *)
LEMMA AnsweredReason ==
    ASSUME IndInv, ReasonInv, NEW m \in Requests, UNCHANGED <<app, asked, via>>,
           NEW told \in {"refused", "unavailable", "blocked", "error", "done", "read"},
           NEW entry \in Nat, Answered(m, told, entry),
           answer[Call(m)] = "waiting" =>
               \/ told \in {"error", "done", "read"}
               \/ told = "blocked" /\ Reason(Call(m))
               \/ told = "refused" /\ via[Call(m)] = "legacy"
    PROVE  ReasonInv'
<1>1. \A c \in Calls : \/ answer'[c] = answer[c]
                       \/ c = Call(m) /\ answer[c] = "waiting" /\ answer'[c] = told
    BY AnsweredType DEF IndInv
<1>2. UNCHANGED <<phase, registered, ended, asked, via>>
    BY DEF app
<1>3. \A c \in Calls : Reason(c) => Reason(c)'
    BY <1>2 DEF Reason
<1>4. ASSUME NEW c \in Calls
      PROVE  \/ answer'[c] = answer[c] /\ (answer[c] = "waiting" => phase'[c.run] = "running")
             \/ answer'[c] \in {"error", "done", "read"}
             \/ answer'[c] = "blocked" /\ Reason(c)'
             \/ answer'[c] = "refused" /\ via'[c] = "legacy"
    BY <1>1, <1>2, <1>3 DEF ReasonInv
<1>5. \A r \in Runs : phase'[r] = "running" => r \in registered'
    BY <1>2 DEF ReasonInv
<1> QED
    BY <1>2, <1>4, <1>5, ReasonFrame

(* Every step keeps it.                                                      *)
LEMMA ReasonNext == IndInv /\ ReasonInv /\ [Next]_vars => ReasonInv'
<1> SUFFICES ASSUME IndInv, ReasonInv, [Next]_vars
             PROVE  ReasonInv'
    OBVIOUS
<1>1. CASE UNCHANGED vars
    BY <1>1, ReasonFrame DEF vars, app, client, ReasonInv
<1>2. ASSUME NEW r \in Runs, StartRun(r) PROVE ReasonInv'
    <2>1. UNCHANGED <<asked, via, answer, ended>>
        BY <1>2 DEF StartRun, client
    <2>2. \A q \in Runs : phase'[q] = "running" => q \in registered'
        BY <1>2 DEF StartRun, IndInv, TypeOK, ReasonInv
    <2>3. \A c \in Calls : answer[c] = "waiting" => phase'[c.run] = "running"
        BY <1>2 DEF StartRun, IndInv, TypeOK, ReasonInv, Calls
    <2> QED
        BY <2>1, <2>2, <2>3, ReasonFrame
<1>3. ASSUME NEW r \in Runs, EndRun(r) PROVE ReasonInv'
    <2>1. UNCHANGED <<asked, via, ended>>
        BY <1>3 DEF EndRun
    <2>2. \A q \in Runs : phase'[q] = "running" => q \in registered'
        BY <1>3 DEF EndRun, IndInv, TypeOK, ReasonInv
    <2>3. ASSUME NEW c \in Calls
          PROVE  \/ answer'[c] = answer[c] /\ (answer[c] = "waiting" => phase'[c.run] = "running")
                 \/ answer'[c] = "error"
        BY <1>3 DEF EndRun, IndInv, TypeOK, ReasonInv, Calls
    <2> QED
        BY <2>1, <2>2, <2>3, ReasonFrame
<1>4. ASSUME NEW g \in Endings, EndAuthority(g) PROVE ReasonInv'
    BY <1>4, ReasonFrame DEF EndAuthority, client, ReasonInv
<1>5. ASSUME NEW c \in Calls, NEW k \in Clients, NEW ask \in Asks, CallTool(c, k, ask)
      PROVE  ReasonInv'
    <2>1. /\ UNCHANGED <<phase, registered, ended>>
          /\ \A d \in Calls : asked[d] # NoAsk => asked'[d] = asked[d] /\ via'[d] = via[d]
        BY <1>5 DEF CallTool, app, IndInv, TypeOK
    <2>2. ASSUME NEW d \in Calls
          PROVE  \/ answer'[d] = answer[d] /\ (answer[d] = "waiting" => phase'[d.run] = "running")
                 \/ answer'[d] = "waiting" /\ phase'[d.run] = "running"
        BY <1>5, <2>1 DEF CallTool, IndInv, TypeOK, ReasonInv
    <2> QED
        BY <2>1, <2>2, ReasonFrame DEF ReasonInv
<1>6. ASSUME NEW c \in Calls, Resend(c) \/ GiveUp(c) PROVE ReasonInv'
    <2>1. UNCHANGED <<phase, registered, ended, asked, via>>
        BY <1>6 DEF Resend, GiveUp, app
    <2>2. ASSUME NEW d \in Calls
          PROVE  \/ answer'[d] = answer[d] /\ (answer[d] = "waiting" => phase'[d.run] = "running")
                 \/ answer'[d] = "error"
        BY <1>6, <2>1 DEF Resend, GiveUp, IndInv, TypeOK, ReasonInv
    <2> QED
        BY <2>1, <2>2, ReasonFrame DEF ReasonInv
<1>7. ASSUME NEW m \in wire, Deliver(m) PROVE ReasonInv'
    <2>1. /\ m \in Requests /\ Call(m) \in Calls /\ Call(m).run \in Runs
          /\ asked[Call(m)] # NoAsk /\ Ask(m) = asked[Call(m)]
          /\ via[Call(m)] \in Clients /\ asked[Call(m)].tool \in ToolFilter(via[Call(m)])
        BY RequestParts DEF IndInv, TypeOK, ClientInv, Ask
    <2>2. UNCHANGED <<app, asked, via>>
        BY <1>7 DEF Deliver
    <2>3. CASE ~RequireSpecialist(m) /\ Answered(m, "refused", 0)
        <3>1. via[Call(m)] = "legacy"
            BY <2>1, <2>3, OwnLabel DEF RequireSpecialist
        <3> QED
            BY <2>1, <2>2, <2>3, <3>1, AnsweredReason
    <2>4. CASE Call(m).run \notin registered /\ Answered(m, "unavailable", 0)
        <3>1. answer[Call(m)] # "waiting"
            BY <2>1, <2>4 DEF ReasonInv
        <3> QED
            BY <2>1, <2>2, <2>4, <3>1, AnsweredReason
    <2>5. CASE UNCHANGED <<answer, receipt>>
        <3>1. Answered(m, "error", 0)
            BY <2>5 DEF Answered
        <3> QED
            BY <2>1, <2>2, <3>1, AnsweredReason
    <2>6. CASE ~(WellFormed(Ask(m)) /\ Permitted(Call(m).run, Ask(m))) /\ Answered(m, "blocked", 0)
        <3>1. Reason(Call(m))
            BY <2>1, <2>6, NotPermitted DEF Reason
        <3> QED
            BY <2>1, <2>2, <2>6, <3>1, AnsweredReason
    <2> QED
        BY <1>7, <2>3, <2>4, <2>5, <2>6 DEF Deliver
<1>8. CASE Revalidate
    <2>1. pc = "revalidate"
        BY <1>8 DEF Revalidate
    <2>2. /\ serving \in Requests /\ Call(serving) \in Calls /\ asked[Call(serving)] # NoAsk
          /\ Ask(serving) = asked[Call(serving)]
        BY <2>1, ServingFacts DEF Ask
    <2>3. CASE UNCHANGED client
        BY <1>8, <2>3, ReasonFrame DEF Revalidate, client, app, ReasonInv
    <2>4. CASE ~Permitted(Call(serving).run, Ask(serving)) /\ Finish("blocked", 0)
        <3>1. Reason(Call(serving))
            BY <2>2, <2>4, NotPermitted
        <3>2. UNCHANGED <<app, asked, via>> /\ Answered(serving, "blocked", 0)
            BY <1>8, <2>4 DEF Revalidate, Finish
        <3> QED
            BY <2>2, <3>1, <3>2, AnsweredReason
    <2> QED
        BY <1>8, <2>3, <2>4 DEF Revalidate
<1>9. CASE Perform
    BY <1>9, ReasonFrame DEF Perform, client, app, ReasonInv
<1>10. CASE PerformFails
    <2>1. serving \in Requests
        BY <1>10, ServingFacts DEF PerformFails
    <2>2. UNCHANGED <<app, asked, via>> /\ Answered(serving, "error", 0)
        BY <1>10 DEF PerformFails, Finish
    <2> QED
        BY <2>1, <2>2, AnsweredReason
<1>11. CASE Settle
    <2>1. serving \in Requests /\ found \in Nat
        BY <1>11, ServingFacts DEF Settle, IndInv, TypeOK
    <2>2. PICK told \in {"error", "done", "read"}, entry \in Nat :
              UNCHANGED <<app, asked, via>> /\ Answered(serving, told, entry)
        BY <1>11, <2>1 DEF Settle, Finish
    <2> QED
        BY <2>1, <2>2, AnsweredReason
<1> QED
    BY <1>1, <1>2, <1>3, <1>4, <1>5, <1>6, <1>7, <1>8, <1>9, <1>10, <1>11 DEF Next

(* A specialist is refused only for what it asked or for a grant of its own  *)
(* chain that has ended, and never because its task is unknown.              *)
THEOREM NothingRefusedInVain == Spec => []RefusedOnlyWithReason
<1>1. Init => ReasonInv
    BY DEF Init, ReasonInv
<1>2. ReasonInv => RefusedOnlyWithReason
    <2> SUFFICES ASSUME ReasonInv, NEW c \in Calls
                 PROVE  /\ answer[c] = "blocked" =>
                               \/ ~WellFormed(asked[c])
                               \/ ~InBand(asked[c])
                               \/ \E g \in ended : g[1] = c.run /\ g[2] = OwnChain[asked[c].tool]
                        /\ answer[c] = "refused" => via[c] = "legacy"
                        /\ answer[c] # "unavailable"
        BY DEF RefusedOnlyWithReason
    <2>1. /\ answer[c] = "blocked" => Reason(c)
          /\ answer[c] = "refused" => via[c] = "legacy"
          /\ answer[c] # "unavailable"
        BY Zenon DEF ReasonInv
    <2>2. Reason(c) => \/ ~WellFormed(asked[c])
                       \/ ~InBand(asked[c])
                       \/ \E g \in ended : g[1] = c.run /\ g[2] = OwnChain[asked[c].tool]
        BY DEF Reason
    <2> QED
        BY <2>1, <2>2, Zenon
<1> QED
    BY <1>1, <1>2, ReasonNext, Inductive, PTL DEF Spec
================================================================================
