----------------------------- MODULE CreditContract -----------------------------
(* CreditExecution implements OperationContract.                             *)
EXTENDS CreditExecution

ContractPhase ==
    [r \in Runs |-> CASE phase[r] = "new" -> "new"
                      [] phase[r] \in {"running", "direct"} -> "open"
                      [] phase[r] = "ended" -> "closed"]

Authorized == {o \in Runs \X Credits : o[1] \in authorized /\ o[2] \in Allowed}

Permits == IF pc \in {"issue", "backoff"} THEN {Logical(request)} ELSE {}

Told == {<<c, <<c.run, asked[c]>>>> :
             c \in {d \in Calls : answer[d] \in {"issued", "deduplicated"}}}

(* A call is made when its run has begun.                                    *)
AskedInv == \A c \in Calls : answer[c] # "none" => phase[c.run] # "new"

Contract == INSTANCE OperationContract WITH
    Runs <- Runs,
    Operations <- Runs \X Credits,
    RunOf <- [o \in Runs \X Credits |-> o[1]],
    Callers <- Calls,
    phase <- ContractPhase,
    authorized <- Authorized,
    permits <- Permits,
    count <- credits,
    told <- Told

(* The automatic credit path keeps the contract of the tool boundary: with   *)
(* client retries, provider retries and lost answers, an operation is        *)
(* performed at most once, while its run is open, under a permit given while *)
(* the run had authority, and is reported only when it was (guest_credit.py, *)
(* credit.py, registry.py).                                                  *)
ImplementsContract == Contract!Spec

(* A run that has lost its authority for a credit for good, or never had it, *)
(* does not get the credit any more: however often the client or the model   *)
(* asks for it again, and whatever was admitted and waits for its            *)
(* revalidation, it is neither permitted nor issued. Only a credit that was  *)
(* permitted or issued before is excepted: what has passed the revalidation  *)
(* goes on to the provider (guest_credit.py, ExecutionController.begin and   *)
(* revalidate_before_execution).                                             *)
RevokedIsFinal == Contract!RevocationHolds
================================================================================
