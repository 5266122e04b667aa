---------------------------- MODULE AgentRunContract ----------------------------
(* AgentRun implements OperationContract.                                    *)
EXTENDS AgentRun

ContractPhase ==
    [r \in Runs |-> CASE phase[r] = "new" -> "new"
                      [] phase[r] = "running" -> "open"
                      [] phase[r] = "ended" -> "closed"]

Permits ==
    IF pc = "perform" /\ Ask(serving).tool # "get_reservation"
    THEN {Key(Call(serving).run, Ask(serving))} ELSE {}

Performed == [o \in Operations |-> Cardinality(Existing(o))]

Told == {<<c, Key(c.run, asked[c])>> : c \in {d \in Calls : answer[d] = "done"}}

Contract == INSTANCE OperationContract WITH
    Runs <- Runs,
    Operations <- Operations,
    RunOf <- [o \in Operations |-> o.run],
    Callers <- Calls,
    phase <- ContractPhase,
    authorized <- Authorized,
    permits <- Permits,
    count <- Performed,
    told <- Told

(* The boundary keeps the contract of OperationContract: every operation is  *)
(* performed at most once, in its run, under a permit given while the run    *)
(* had authority for it, and reported only when it was (mcp/server.py,       *)
(* registry.py, guest_operations.py).                                        *)
ImplementsContract == Contract!Spec
================================================================================
