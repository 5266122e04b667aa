---------------------------- MODULE ReservationCache ----------------------------
(***************************************************************************)
(* Secured reservation reads over the TTL cache.                           *)
(*                                                                         *)
(* SecuredReservationTool.get_reservation runs on the event loop for the   *)
(* Reservations specialist, and in pool threads for dev_get_reservation.   *)
(* Each such thread is a reader; all share one InMemoryCacheStore, which   *)
(* has no lock. A step of a reader is the code between two accesses to     *)
(* what others may change: Ruhusa's grants, the cache, the provider, the   *)
(* clock.                                                                  *)
(*                                                                         *)
(* A reservation has versions, as an external reservation system changes   *)
(* it; version 0 is "no such reservation". A value remembers its version,  *)
(* and (history) when it was fetched.                                      *)
(***************************************************************************)
EXTENDS Naturals

CONSTANTS
    Readers,
    Tasks,
    Reservations,
    NoRead,
    NoEntry,
    NoValue,
    TTL,            \* cache_ttl_seconds, in ticks of the clock
    MaxTime,        \* bound: ticks of the clock
    MaxVersion      \* bound: versions of a reservation

Reads == [task : Tasks, reservation : Reservations]
Values == [reservation : Reservations, version : 1..MaxVersion, fetched : Nat]
Entries == [value : Values, created : Nat, expires : Nat]

(* build_reservation_cache_key: a digest of the schema's version and the     *)
(* reservation, and of neither the task nor the grants.                      *)
CacheKey(k) == <<"reservation-read-v1", k>>
Keys == {CacheKey(k) : k \in Reservations}

ASSUME ConstantsAssumption ==
    /\ TTL \in Nat \ {0}
    /\ MaxTime \in Nat
    /\ MaxVersion \in Nat \ {0}
    /\ NoRead \notin Reads
    /\ NoEntry \notin Entries
    /\ NoValue \notin Values

VARIABLES
    (* Environment. *)
    now,            \* the monotonic clock
    live,           \* tasks whose grants are live
    current,        \* current[k]: the provider's version of reservation k
    since,          \* history: since[k][v]: when version v of k came to be
    (* InMemoryCacheStore. *)
    cache,          \* cache[x]: the entry under key x, or NoEntry
    (* The readers. *)
    pc,
    read,           \* read[r]: what it reads or read last
    entry,          \* entry[r]: the entry that get() holds
    value,          \* value[r]: the value to disclose
    execution,      \* execution[r]: Ruhusa's record of the invocation
    answer,         \* answer[r]: what it answered last
    late            \* history: authority had ended before it was revalidated

world == <<now, live, current, since>>
reader == <<pc, read, entry, value, execution, answer>>
vars == <<world, cache, reader, late>>

Wanted(r) == read[r].reservation

Init ==
    /\ now = 0
    /\ live = Tasks
    /\ current \in [Reservations -> {0, 1}]
    /\ since = [k \in Reservations |-> [v \in 1..MaxVersion |-> 0]]
    /\ cache = [x \in Keys |-> NoEntry]
    /\ pc = [r \in Readers |-> "idle"]
    /\ read = [r \in Readers |-> NoRead]
    /\ entry = [r \in Readers |-> NoEntry]
    /\ value = [r \in Readers |-> NoValue]
    /\ execution = [r \in Readers |-> "none"]
    /\ answer = [r \in Readers |-> "none"]
    /\ late = [r \in Readers |-> FALSE]

--------------------------------------------------------------------------------
(* The environment.                                                          *)

Tick ==
    /\ now < MaxTime
    /\ now' = now + 1
    /\ UNCHANGED <<live, current, since, cache, reader, late>>

(* A grant of the task's chain is revoked or expires.                        *)
EndAuthority(t) ==
    /\ t \in live
    /\ live' = live \ {t}
    /\ late' = [r \in Readers |-> \/ late[r]
                                  \/ pc[r] = "revalidate" /\ read[r].task = t]
    /\ UNCHANGED <<now, current, since, cache, reader>>

(* The reservation system changes or adds a reservation.                     *)
Change(k) ==
    /\ current[k] < MaxVersion
    /\ current' = [current EXCEPT ![k] = @ + 1]
    /\ since' = [since EXCEPT ![k][current[k] + 1] = now]
    /\ UNCHANGED <<now, live, cache, reader, late>>

--------------------------------------------------------------------------------
(* get_reservation: authorization first.                                     *)

Goto(r, step) == pc' = [pc EXCEPT ![r] = step]

Finish(r, told) ==
    /\ Goto(r, "idle")
    /\ answer' = [answer EXCEPT ![r] = told]

(* Mutant: the answer is given whether or not complete() succeeds.           *)
Complete_Unchecked(r, told) ==
    /\ Finish(r, told)
    /\ \/ execution' = [execution EXCEPT ![r] = "completed"]
       \/ UNCHANGED execution

(* ExecutionController.complete, with which every granted read ends; if it   *)
(* refuses, an error instead of the answer. It touches nothing that another  *)
(* reader sees, so it is part of the step before it.                         *)
Complete(r, told) ==
    \/ /\ Finish(r, told)
       /\ execution' = [execution EXCEPT ![r] = "completed"]
    \/ /\ Finish(r, "error")
       /\ UNCHANGED execution

(* A new read and its admission, ExecutionController.begin.                  *)
Begin(r, q) ==
    LET admitted == q.task \in live IN
    /\ pc[r] = "idle"
    /\ read' = [read EXCEPT ![r] = q]
    /\ entry' = [entry EXCEPT ![r] = NoEntry]
    /\ value' = [value EXCEPT ![r] = NoValue]
    /\ late' = [late EXCEPT ![r] = ~admitted]
    /\ pc' = [pc EXCEPT ![r] = IF admitted THEN "revalidate" ELSE "idle"]
    /\ execution' = [execution EXCEPT ![r] = IF admitted THEN "executing" ELSE "denied"]
    /\ answer' = [answer EXCEPT ![r] = IF admitted THEN "none" ELSE "blocked"]
    /\ UNCHANGED <<world, cache>>

(* Mutant: an admitted read goes straight to the cache.                      *)
Revalidate_Skipped(r) ==
    /\ pc[r] = "revalidate"
    /\ Goto(r, "get")
    /\ UNCHANGED <<world, cache, read, entry, value, execution, answer, late>>

(* revalidate_before_execution.                                              *)
Revalidate(r) ==
    /\ pc[r] = "revalidate"
    /\ IF read[r].task \in live
       THEN Goto(r, "get") /\ UNCHANGED <<execution, answer>>
       ELSE /\ Finish(r, "blocked")
            /\ execution' = [execution EXCEPT ![r] = "denied"]
    /\ UNCHANGED <<world, cache, read, entry, value, late>>

--------------------------------------------------------------------------------
(* InMemoryCacheStore.get: the entry is looked up, then its time checked,    *)
(* then an expired one evicted. Entries never change once stored.            *)

(* Mutant: the key leaves the reservation out, any entry will do.            *)
Get_AnyReservation(r) ==
    /\ pc[r] = "get"
    /\ \E x \in Keys :
           /\ entry' = [entry EXCEPT ![r] = cache[x]]
           /\ Goto(r, IF cache[x] = NoEntry THEN "fetch" ELSE "check")
    /\ UNCHANGED <<world, cache, read, value, execution, answer, late>>

Get(r) ==
    LET found == cache[CacheKey(Wanted(r))] IN
    /\ pc[r] = "get"
    /\ entry' = [entry EXCEPT ![r] = found]
    /\ Goto(r, IF found = NoEntry THEN "fetch" ELSE "check")
    /\ UNCHANGED <<world, cache, read, value, execution, answer, late>>

(* Mutant: an entry lives one tick too long.                                 *)
Expired_OneTickLate(e) == now > e.expires

Expired(e) == now >= e.expires

Check(r) ==
    /\ pc[r] = "check"
    /\ IF Expired(entry[r])
       THEN Goto(r, "evict") /\ UNCHANGED <<entry, value, execution, answer>>
       ELSE /\ value' = [value EXCEPT ![r] = entry[r].value]
            /\ entry' = [entry EXCEPT ![r] = NoEntry]
            /\ Complete(r, "hit")
    /\ UNCHANGED <<world, cache, read, late>>

(* pop(key): whatever is stored there by now.                                *)
Evict(r) ==
    /\ pc[r] = "evict"
    /\ cache' = [cache EXCEPT ![CacheKey(Wanted(r))] = NoEntry]
    /\ entry' = [entry EXCEPT ![r] = NoEntry]
    /\ Goto(r, "fetch")
    /\ UNCHANGED <<world, read, value, execution, answer, late>>

--------------------------------------------------------------------------------
(* A miss: provider, cache, answer.                                          *)

(* Mutant: that a reservation does not exist is cached too.                  *)
Fetch_CachesAbsence(r) ==
    /\ pc[r] = "fetch"
    /\ Goto(r, "put")
    /\ value' = [value EXCEPT ![r] = [reservation |-> Wanted(r),
                                     version |-> current[Wanted(r)], fetched |-> now]]
    /\ UNCHANGED <<world, cache, read, entry, execution, answer, late>>

Fetch(r) ==
    LET version == current[Wanted(r)] IN
    /\ pc[r] = "fetch"
    /\ IF version = 0
       THEN Complete(r, "not_found") /\ UNCHANGED value
       ELSE /\ Goto(r, "put")
            /\ value' = [value EXCEPT ![r] =
                   [reservation |-> Wanted(r), version |-> version, fetched |-> now]]
            /\ UNCHANGED <<execution, answer>>
    /\ UNCHANGED <<world, cache, read, entry, late>>

(* The provider raises: the exception leaves get_reservation, and the        *)
(* invocation is neither completed nor marked unknown.                       *)
FetchFails(r) ==
    /\ pc[r] = "fetch"
    /\ Finish(r, "error")
    /\ UNCHANGED <<world, cache, read, entry, value, execution, late>>

(* InMemoryCacheStore.put. A tick between the reading of the clock and the   *)
(* assignment only makes the entry expire sooner.                            *)
Put(r) ==
    /\ pc[r] = "put"
    /\ cache' = [cache EXCEPT ![CacheKey(Wanted(r))] =
           [value |-> value[r], created |-> now, expires |-> now + TTL]]
    /\ Complete(r, "miss")
    /\ UNCHANGED <<world, read, entry, value, late>>

--------------------------------------------------------------------------------

Step(r) ==
    \/ Revalidate(r)
    \/ Get(r)
    \/ Check(r)
    \/ Evict(r)
    \/ Fetch(r)
    \/ FetchFails(r)
    \/ Put(r)

Next ==
    \/ Tick
    \/ \E t \in Tasks : EndAuthority(t)
    \/ \E k \in Reservations : Change(k)
    \/ \E r \in Readers, q \in Reads : Begin(r, q)
    \/ \E r \in Readers : Step(r)

Spec == Init /\ [][Next]_vars

--------------------------------------------------------------------------------
(* Type invariant. *)
TypeOK ==
    /\ now \in 0..MaxTime
    /\ live \subseteq Tasks
    /\ current \in [Reservations -> 0..MaxVersion]
    /\ since \in [Reservations -> [1..MaxVersion -> Nat]]
    /\ cache \in [Keys -> Entries \cup {NoEntry}]
    /\ pc \in [Readers -> {"idle", "revalidate", "get", "check", "evict", "fetch", "put"}]
    /\ read \in [Readers -> Reads \cup {NoRead}]
    /\ entry \in [Readers -> Entries \cup {NoEntry}]
    /\ value \in [Readers -> Values \cup {NoValue}]
    /\ execution \in [Readers -> {"none", "executing", "completed", "denied"}]
    /\ answer \in [Readers -> {"none", "hit", "miss", "not_found", "blocked", "error"}]
    /\ late \in [Readers -> BOOLEAN]

(* The inductive invariant: a value is a version that reservation k had when *)
(* it was fetched, wherever it is held since.                                *)
Genuine(k, x) ==
    /\ x \in Values
    /\ x.reservation = k
    /\ x.version <= current[k]
    /\ x.fetched <= now
    /\ \A v \in 1..MaxVersion : x.version < v /\ v <= current[k] => since[k][v] >= x.fetched

GenuineEntry(k, e) ==
    /\ e \in Entries
    /\ Genuine(k, e.value)
    /\ e.value.fetched <= e.created
    /\ e.expires = e.created + TTL

CacheInv ==
    \A k \in Reservations : cache[CacheKey(k)] # NoEntry => GenuineEntry(k, cache[CacheKey(k)])

ReaderInv(r) ==
    /\ pc[r] # "idle" => read[r] \in Reads /\ execution[r] = "executing"
    /\ pc[r] = "revalidate" => (late[r] <=> read[r].task \notin live)
    /\ pc[r] \notin {"idle", "revalidate"} => ~late[r]
    /\ pc[r] \in {"check", "evict"} => GenuineEntry(Wanted(r), entry[r])
    /\ pc[r] = "put" => Genuine(Wanted(r), value[r])
    /\ answer[r] \in {"hit", "miss"} => read[r] \in Reads /\ Genuine(Wanted(r), value[r])
    /\ answer[r] \in {"hit", "miss", "not_found"} =>
           ~late[r] /\ (pc[r] = "idle" => execution[r] = "completed")
    /\ pc[r] # "idle" => answer[r] = "none"

IndInv ==
    /\ TypeOK
    /\ CacheInv
    /\ \A r \in Readers : ReaderInv(r)

(* A read whose authority ended before it was revalidated touches neither    *)
(* cache nor provider, and learns nothing, not even that a reservation does  *)
(* not exist: a hit saves an external read, never the authorization check    *)
(* (reservation.py; README.md, security invariant 8).                        *)
EndedAuthorityReadsNothing ==
    \A r \in Readers : late[r] =>
        /\ pc[r] \in {"idle", "revalidate"}
        /\ answer[r] \notin {"hit", "miss", "not_found"}

(* A disclosed value is a version that the reservation asked for has had,    *)
(* whoever filled the cache, and however fills and evictions interleave      *)
(* (cache/keys.py, cache/store.py).                                          *)
GenuineDisclosure ==
    \A r \in Readers : answer[r] \in {"hit", "miss"} =>
        /\ value[r].reservation = Wanted(r)
        /\ value[r].version <= current[Wanted(r)]

(* Whatever was disclosed is on record: Ruhusa holds a completed execution   *)
(* for every answer that tells something (reservation.py, complete).         *)
DisclosureIsRecorded ==
    \A r \in Readers : answer[r] \in {"hit", "miss", "not_found"} =>
        execution[r] = "completed"

(* How stale a hit can be: a version that was replaced is found for less     *)
(* than the TTL, plus the time its reader took from the provider to the      *)
(* cache. A delayed put can thus hide a newer version, but not for longer    *)
(* (cache/store.py get, put).                                                *)
BoundedStaleness ==
    [][\A r \in Readers : answer[r] # "hit" /\ answer'[r] = "hit" =>
           LET e == entry[r] IN
           \A v \in 1..MaxVersion :
               e.value.version < v /\ v <= current[Wanted(r)] =>
                   now < since[Wanted(r)][v] + TTL + (e.created - e.value.fetched)]_vars

(* get() evicts expired entries, and only those (cache/store.py:58).         *)
OnlyExpiredEvicted ==
    [][\A x \in Keys :
           cache[x] # NoEntry /\ cache'[x] = NoEntry => Expired(cache[x])]_vars
================================================================================
