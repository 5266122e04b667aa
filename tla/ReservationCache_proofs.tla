------------------------- MODULE ReservationCache_proofs -------------------------
(***************************************************************************)
(* Theorems about ReservationCache, for all readers, tasks, reservations   *)
(* and times to live, and however long the clock runs.                     *)
(***************************************************************************)
EXTENDS ReservationCache, TLAPS

(* What the environment may do to the past: nothing.                         *)
LEMMA WorldMovesOn ==
    ASSUME TypeOK, [Next]_vars
    PROVE  /\ now' \in Nat /\ now <= now'
           /\ \A k \in Reservations :
                  /\ current'[k] \in 0..MaxVersion
                  /\ current[k] <= current'[k]
                  /\ \A v \in 1..MaxVersion :
                         /\ since'[k][v] \in Nat
                         /\ v <= current[k] => since'[k][v] = since[k][v]
                         /\ current[k] < v /\ v <= current'[k] => since'[k][v] >= now
<1>0. /\ now \in Nat /\ MaxVersion \in Nat
      /\ current \in [Reservations -> 0..MaxVersion]
      /\ since \in [Reservations -> [1..MaxVersion -> Nat]]
    BY ConstantsAssumption DEF TypeOK
<1>1. CASE UNCHANGED <<now, current, since>>
    BY <1>0, <1>1
<1>2. CASE Tick
    BY <1>0, <1>2 DEF Tick
<1>3. ASSUME NEW j \in Reservations, Change(j)
      PROVE  /\ now' = now
             /\ \A k \in Reservations :
                  /\ current'[k] \in 0..MaxVersion
                  /\ current[k] <= current'[k]
                  /\ \A v \in 1..MaxVersion :
                         /\ since'[k][v] \in Nat
                         /\ v <= current[k] => since'[k][v] = since[k][v]
                         /\ current[k] < v /\ v <= current'[k] => since'[k][v] >= now
    <2>1. /\ now' = now
          /\ current' = [current EXCEPT ![j] = @ + 1]
          /\ since' = [since EXCEPT ![j] = [@ EXCEPT ![current[j] + 1] = now]]
          /\ current[j] < MaxVersion
        BY <1>3 DEF Change
    <2> SUFFICES ASSUME NEW k \in Reservations
                 PROVE  /\ current'[k] \in 0..MaxVersion
                        /\ current[k] <= current'[k]
                        /\ \A v \in 1..MaxVersion :
                               /\ since'[k][v] \in Nat
                               /\ v <= current[k] => since'[k][v] = since[k][v]
                               /\ current[k] < v /\ v <= current'[k] => since'[k][v] >= now
        BY <2>1
    <2>2. CASE k = j
        BY <1>0, <2>1, <2>2
    <2>3. CASE k # j
        <3>1. current'[k] = current[k] /\ since'[k] = since[k]
            BY <1>0, <2>1, <2>3
        <3> QED
            BY <1>0, <3>1
    <2> QED
        BY <2>2, <2>3
<1>4. CASE \E t \in Tasks : EndAuthority(t)
    BY <1>1, <1>4 DEF EndAuthority
<1>5. CASE \E r \in Readers, q \in Reads : Begin(r, q)
    BY <1>1, <1>5 DEF Begin, world
<1>6. CASE \E r \in Readers : Step(r)
    BY <1>1, <1>6 DEF Step, Revalidate, Get, Check, Evict, Fetch, FetchFails, Put, world
<1>7. CASE UNCHANGED vars
    BY <1>1, <1>7 DEF vars, world
<1> QED
    BY <1>0, <1>2, <1>3, <1>4, <1>5, <1>6, <1>7 DEF Next

--------------------------------------------------------------------------------

LEMMA IndInvInit == Init => IndInv
<1> SUFFICES ASSUME Init PROVE IndInv
    OBVIOUS
<1>1. TypeOK
    BY ConstantsAssumption DEF Init, TypeOK
<1>2. CacheInv
    BY DEF Init, CacheInv, Keys
<1>3. \A r \in Readers : ReaderInv(r)
    BY DEF Init, ReaderInv
<1> QED
    BY <1>1, <1>2, <1>3 DEF IndInv

(* A value that was genuine stays so, whatever the environment does.         *)
LEMMA History ==
    ASSUME TypeOK, [Next]_vars, NEW k \in Reservations,
           NEW version \in 1..MaxVersion, NEW fetched \in Nat,
           version <= current[k], fetched <= now,
           \A v \in 1..MaxVersion : version < v /\ v <= current[k] => since[k][v] >= fetched
    PROVE  /\ version <= current'[k]
           /\ fetched <= now'
           /\ \A v \in 1..MaxVersion : version < v /\ v <= current'[k] => since'[k][v] >= fetched
<1>1. now \in Nat /\ MaxVersion \in Nat /\ current[k] \in 0..MaxVersion
    BY ConstantsAssumption DEF TypeOK
<1>2. version <= current'[k] /\ fetched <= now'
    BY <1>1, WorldMovesOn
<1>3. ASSUME NEW v \in 1..MaxVersion, version < v, v <= current'[k]
      PROVE  since'[k][v] >= fetched
    <2>1. CASE v <= current[k]
        BY <1>3, <2>1, WorldMovesOn
    <2>2. CASE current[k] < v
        <3>1. since'[k][v] >= now /\ since'[k][v] \in Nat
            BY <1>3, <2>2, WorldMovesOn
        <3> QED
            BY <1>1, <3>1
    <2> QED
        BY <1>1, <2>1, <2>2
<1> QED
    BY <1>2, <1>3

(* Hence so do the values and entries that do not change.                    *)
LEMMA ValuesStay ==
    ASSUME TypeOK, [Next]_vars, NEW r \in Readers, Wanted(r) \in Reservations,
           read'[r] = read[r], value'[r] = value[r], Genuine(Wanted(r), value[r])
    PROVE  Genuine(Wanted(r), value[r])'
<1> DEFINE k == Wanted(r)
           x == value[r]
<1>1. /\ x \in Values /\ x.version \in 1..MaxVersion /\ x.fetched \in Nat
      /\ x.reservation = k /\ x.version <= current[k] /\ x.fetched <= now
      /\ \A v \in 1..MaxVersion : x.version < v /\ v <= current[k] => since[k][v] >= x.fetched
    BY DEF Genuine, Values
<1>2. /\ x.version <= current'[k]
      /\ x.fetched <= now'
      /\ \A v \in 1..MaxVersion : x.version < v /\ v <= current'[k] => since'[k][v] >= x.fetched
    BY <1>1, History
<1> QED
    BY <1>1, <1>2 DEF Genuine, Wanted

LEMMA HeldEntriesStay ==
    ASSUME TypeOK, [Next]_vars, NEW r \in Readers, Wanted(r) \in Reservations,
           read'[r] = read[r], entry'[r] = entry[r], GenuineEntry(Wanted(r), entry[r])
    PROVE  GenuineEntry(Wanted(r), entry[r])'
<1> DEFINE k == Wanted(r)
           x == entry[r].value
<1>1. /\ x \in Values /\ x.version \in 1..MaxVersion /\ x.fetched \in Nat
      /\ x.reservation = k /\ x.version <= current[k] /\ x.fetched <= now
      /\ \A v \in 1..MaxVersion : x.version < v /\ v <= current[k] => since[k][v] >= x.fetched
    BY DEF GenuineEntry, Genuine, Values
<1>2. /\ x.version <= current'[k]
      /\ x.fetched <= now'
      /\ \A v \in 1..MaxVersion : x.version < v /\ v <= current'[k] => since'[k][v] >= x.fetched
    BY <1>1, History
<1>3. Genuine(Wanted(r), entry[r].value)'
    BY <1>1, <1>2 DEF Genuine, Wanted
<1> QED
    BY <1>3 DEF GenuineEntry

LEMMA EntriesStay ==
    ASSUME TypeOK, [Next]_vars, NEW k \in Reservations,
           cache'[CacheKey(k)] = cache[CacheKey(k)], GenuineEntry(k, cache[CacheKey(k)])
    PROVE  GenuineEntry(k, cache[CacheKey(k)])'
<1> DEFINE x == cache[CacheKey(k)].value
<1>1. /\ x \in Values /\ x.version \in 1..MaxVersion /\ x.fetched \in Nat
      /\ x.reservation = k /\ x.version <= current[k] /\ x.fetched <= now
      /\ \A v \in 1..MaxVersion : x.version < v /\ v <= current[k] => since[k][v] >= x.fetched
    BY DEF GenuineEntry, Genuine, Values
<1>2. /\ x.version <= current'[k]
      /\ x.fetched <= now'
      /\ \A v \in 1..MaxVersion : x.version < v /\ v <= current'[k] => since'[k][v] >= x.fetched
    BY <1>1, History
<1>3. Genuine(k, cache[CacheKey(k)].value)'
    BY <1>1, <1>2 DEF Genuine
<1> QED
    BY <1>3 DEF GenuineEntry

(* A reader keeps its invariant while it does not move.                      *)
LEMMA ReaderRests ==
    ASSUME IndInv, [Next]_vars, NEW r \in Readers,
           /\ pc'[r] = pc[r] /\ read'[r] = read[r] /\ entry'[r] = entry[r]
           /\ value'[r] = value[r] /\ execution'[r] = execution[r] /\ answer'[r] = answer[r],
           ~late[r] /\ pc[r] # "revalidate" => ~late'[r],
           pc[r] = "revalidate" /\ (late[r] <=> read[r].task \notin live) =>
               (late'[r] <=> read[r].task \notin live')
    PROVE  ReaderInv(r)'
<1>1. ReaderInv(r) /\ TypeOK
    BY DEF IndInv
<1>2. Wanted(r)' = Wanted(r) /\ (read[r] \in Reads => Wanted(r) \in Reservations)
    BY DEF Wanted, Reads
<1>3. pc[r] \in {"check", "evict"} => GenuineEntry(Wanted(r), entry[r])'
    BY <1>1, <1>2, HeldEntriesStay DEF ReaderInv
<1>4. pc[r] = "put" \/ answer[r] \in {"hit", "miss"} => Genuine(Wanted(r), value[r])'
    BY <1>1, <1>2, ValuesStay DEF ReaderInv
<1> QED
    BY <1>1, <1>3, <1>4 DEF ReaderInv

--------------------------------------------------------------------------------
(* The environment.                                                          *)

LEMMA WorldStep ==
    ASSUME IndInv, [Next]_vars,
           \/ Tick
           \/ \E t \in Tasks : EndAuthority(t)
           \/ \E k \in Reservations : Change(k)
    PROVE  IndInv'
<1>1. UNCHANGED <<cache, reader>>
    BY DEF Tick, EndAuthority, Change
<1>2. TypeOK'
    <2> USE DEF IndInv
    <2>1. CASE Tick
        BY <2>1, ConstantsAssumption DEF TypeOK, Tick, reader
    <2>2. CASE \E t \in Tasks : EndAuthority(t)
        BY <2>2 DEF TypeOK, EndAuthority, reader
    <2>3. ASSUME NEW k \in Reservations, Change(k) PROVE TypeOK'
        <3>1. current' \in [Reservations -> 0..MaxVersion]
            BY <2>3, ConstantsAssumption DEF TypeOK, Change
        <3>2. since' \in [Reservations -> [1..MaxVersion -> Nat]]
            <4>1. since' = [since EXCEPT ![k] = [@ EXCEPT ![current[k] + 1] = now]]
                BY <2>3 DEF Change
            <4>2. now \in Nat
                BY DEF TypeOK
            <4> QED
                BY <4>1, <4>2 DEF TypeOK
        <3> QED
            BY <2>3, <3>1, <3>2 DEF TypeOK, Change, reader
    <2> QED
        BY <2>1, <2>2, <2>3
<1>3. CacheInv'
    BY <1>1, EntriesStay DEF IndInv, CacheInv
<1>4. ASSUME NEW r \in Readers PROVE ReaderInv(r)'
    <2>1. /\ ~late[r] /\ pc[r] # "revalidate" => ~late'[r]
          /\ pc[r] = "revalidate" /\ (late[r] <=> read[r].task \notin live) =>
                 (late'[r] <=> read[r].task \notin live')
        BY DEF Tick, EndAuthority, Change
    <2> QED
        BY <1>1, <2>1, ReaderRests DEF reader
<1> QED
    BY <1>2, <1>3, <1>4 DEF IndInv

--------------------------------------------------------------------------------
(* The readers. Only the one that moves changes.                             *)

LEMMA OthersRest ==
    ASSUME IndInv, [Next]_vars, NEW r \in Readers, NEW q \in Readers, q # r,
           \/ Step(r)
           \/ \E x \in Reads : Begin(r, x)
    PROVE  ReaderInv(q)'
<1>0. TypeOK
    BY DEF IndInv
<1>1. live' = live /\ late'[q] = late[q]
    BY <1>0 DEF TypeOK, Begin, Step, Revalidate, Get, Check, Evict, Fetch, FetchFails, Put, world
<1>2. /\ pc'[q] = pc[q] /\ read'[q] = read[q] /\ entry'[q] = entry[q]
      /\ value'[q] = value[q] /\ execution'[q] = execution[q] /\ answer'[q] = answer[q]
    BY <1>0 DEF TypeOK, Begin, Step, Revalidate, Get, Check, Evict, Fetch, FetchFails, Put,
                Goto, Finish, Complete
<1> QED
    BY <1>1, <1>2, ReaderRests

LEMMA BeginStep ==
    ASSUME IndInv, NEW r \in Readers, NEW q \in Reads, Begin(r, q)
    PROVE  TypeOK' /\ CacheInv' /\ ReaderInv(r)'
<1>0. [Next]_vars
    BY DEF Next
<1>1. TypeOK'
    BY DEF IndInv, TypeOK, Begin, world
<1>2. CacheInv'
    BY <1>0, EntriesStay DEF IndInv, CacheInv, Begin
<1>3. ReaderInv(r)'
    BY DEF IndInv, TypeOK, ReaderInv, Begin, world
<1> QED
    BY <1>1, <1>2, <1>3

LEMMA RevalidateStep ==
    ASSUME IndInv, NEW r \in Readers, Revalidate(r)
    PROVE  TypeOK' /\ CacheInv' /\ ReaderInv(r)'
<1>0. [Next]_vars
    BY DEF Next, Step
<1>1. TypeOK'
    BY DEF IndInv, TypeOK, Revalidate, Goto, Finish, world
<1>2. CacheInv'
    BY <1>0, EntriesStay DEF IndInv, CacheInv, Revalidate
<1>3. ReaderInv(r)'
    <2>1. UNCHANGED <<live, read, late>> /\ answer[r] = "none" /\ execution[r] = "executing"
          /\ read[r] \in Reads
        BY DEF IndInv, ReaderInv, Revalidate, world
    <2>2. CASE read[r].task \in live
        <3>1. pc'[r] = "get" /\ answer'[r] = "none" /\ execution'[r] = "executing"
            BY <2>1, <2>2 DEF IndInv, TypeOK, Revalidate, Goto
        <3>2. ~late[r]
            BY <2>2 DEF IndInv, ReaderInv, Revalidate
        <3> QED
            BY <2>1, <3>1, <3>2 DEF ReaderInv
    <2>3. CASE read[r].task \notin live
        <3>1. pc'[r] = "idle" /\ answer'[r] = "blocked"
            BY <2>1, <2>3 DEF IndInv, TypeOK, Revalidate, Goto, Finish
        <3> QED
            BY <3>1 DEF ReaderInv
    <2> QED
        BY <2>2, <2>3
<1> QED
    BY <1>1, <1>2, <1>3

LEMMA GetStep ==
    ASSUME IndInv, NEW r \in Readers, Get(r)
    PROVE  TypeOK' /\ CacheInv' /\ ReaderInv(r)'
<1> DEFINE x == CacheKey(Wanted(r))
<1>0. [Next]_vars
    BY DEF Next, Step
<1>1. Wanted(r) \in Reservations /\ x \in Keys /\ Wanted(r)' = Wanted(r)
    BY DEF IndInv, ReaderInv, Get, Wanted, Reads, Keys
<1>2. TypeOK'
    BY <1>1 DEF IndInv, TypeOK, Get, Goto, world
<1>3. CacheInv'
    BY <1>0, EntriesStay DEF IndInv, CacheInv, Get
<1>4. pc'[r] = "check" => GenuineEntry(Wanted(r), entry[r])'
    <2>1. SUFFICES ASSUME pc'[r] = "check" PROVE GenuineEntry(Wanted(r), entry[r])'
        OBVIOUS
    <2>2. entry'[r] = cache[x] /\ cache[x] # NoEntry
        BY <2>1 DEF IndInv, TypeOK, Get, Goto
    <2>3. GenuineEntry(Wanted(r), cache[x])
        BY <1>1, <2>2 DEF IndInv, CacheInv
    <2>4. UNCHANGED <<now, current, since>>
        BY DEF Get, world
    <2> QED
        BY <1>1, <2>2, <2>3, <2>4 DEF GenuineEntry, Genuine
<1>5. ReaderInv(r)'
    BY <1>4 DEF IndInv, TypeOK, ReaderInv, Get, Goto
<1> QED
    BY <1>2, <1>3, <1>5

LEMMA CheckStep ==
    ASSUME IndInv, NEW r \in Readers, Check(r)
    PROVE  TypeOK' /\ CacheInv' /\ ReaderInv(r)'
<1>0. [Next]_vars
    BY DEF Next, Step
<1>1. /\ GenuineEntry(Wanted(r), entry[r])
      /\ Wanted(r)' = Wanted(r)
      /\ UNCHANGED <<now, current, since>>
    BY DEF IndInv, ReaderInv, Check, Wanted, world
<1>2. entry[r].value \in Values
    BY <1>1 DEF GenuineEntry, Genuine
<1>3. TypeOK'
    BY <1>2 DEF IndInv, TypeOK, Check, Goto, Complete, Finish, world
<1>4. CacheInv'
    BY <1>0, EntriesStay DEF IndInv, CacheInv, Check
<1>5. CASE Expired(entry[r])
    <2>1. pc' = [pc EXCEPT ![r] = "evict"] /\ UNCHANGED <<entry, value, execution, answer, read, late>>
        BY <1>5 DEF Check, Goto
    <2>2. GenuineEntry(Wanted(r), entry[r])'
        BY <1>1, <2>1 DEF GenuineEntry, Genuine
    <2>3. ReaderInv(r)'
        BY <2>1, <2>2 DEF IndInv, TypeOK, ReaderInv, Check
    <2> QED
        BY <1>3, <1>4, <2>3
<1>6. CASE ~Expired(entry[r])
    <2>1. value'[r] = entry[r].value /\ Complete(r, "hit") /\ UNCHANGED <<read, late>>
        BY <1>6 DEF Check, IndInv, TypeOK
    <2>2. Genuine(Wanted(r), value[r])'
        BY <1>1, <2>1 DEF GenuineEntry, Genuine
    <2>3. ReaderInv(r)'
        BY <2>1, <2>2 DEF IndInv, TypeOK, ReaderInv, Check, Complete, Finish, Goto
    <2> QED
        BY <1>3, <1>4, <2>3
<1> QED
    BY <1>5, <1>6

LEMMA EvictStep ==
    ASSUME IndInv, NEW r \in Readers, Evict(r)
    PROVE  TypeOK' /\ CacheInv' /\ ReaderInv(r)'
<1>0. [Next]_vars
    BY DEF Next, Step
<1>1. Wanted(r) \in Reservations /\ CacheKey(Wanted(r)) \in Keys
    BY DEF IndInv, ReaderInv, Evict, Wanted, Reads, Keys
<1>2. TypeOK'
    BY <1>1 DEF IndInv, TypeOK, Evict, Goto, world
<1>3. CacheInv'
    <2> SUFFICES ASSUME NEW k \in Reservations, cache'[CacheKey(k)] # NoEntry
                 PROVE  GenuineEntry(k, cache[CacheKey(k)])'
        BY DEF CacheInv
    <2>1. CacheKey(k) \in Keys
        BY DEF Keys
    <2>2. cache'[CacheKey(k)] = cache[CacheKey(k)]
        BY <1>1, <2>1 DEF IndInv, TypeOK, Evict
    <2> QED
        BY <1>0, <2>2, EntriesStay DEF IndInv, CacheInv
<1>4. ReaderInv(r)'
    BY DEF IndInv, TypeOK, ReaderInv, Evict, Goto
<1> QED
    BY <1>2, <1>3, <1>4

LEMMA FetchStep ==
    ASSUME IndInv, NEW r \in Readers, Fetch(r)
    PROVE  TypeOK' /\ CacheInv' /\ ReaderInv(r)'
<1> DEFINE k == Wanted(r)
           x == [reservation |-> k, version |-> current[k], fetched |-> now]
<1>0. [Next]_vars
    BY DEF Next, Step
<1>1. /\ k \in Reservations /\ k' = k
      /\ pc[r] = "fetch" /\ execution[r] = "executing" /\ answer[r] = "none" /\ ~late[r]
      /\ read[r] \in Reads
      /\ UNCHANGED <<now, live, current, since, cache, read, entry, late>>
    BY DEF IndInv, ReaderInv, Fetch, Wanted, Reads, world
<1>2. CacheInv'
    BY <1>0, <1>1, EntriesStay DEF IndInv, CacheInv
<1>3. CASE current[k] = 0
    <2>1. Complete(r, "not_found") /\ UNCHANGED value
        BY <1>3 DEF Fetch
    <2>2. TypeOK'
        BY <1>1, <2>1 DEF IndInv, TypeOK, Complete, Finish, Goto
    <2>3. ReaderInv(r)'
        BY <1>1, <2>1 DEF IndInv, TypeOK, ReaderInv, Complete, Finish, Goto
    <2> QED
        BY <1>2, <2>2, <2>3
<1>4. CASE current[k] # 0
    <2>1. /\ pc' = [pc EXCEPT ![r] = "put"]
          /\ value' = [value EXCEPT ![r] = x]
          /\ UNCHANGED <<execution, answer>>
        BY <1>4 DEF Fetch, Goto
    <2>2. current[k] \in 1..MaxVersion /\ now \in Nat
        BY <1>1, <1>4, ConstantsAssumption DEF IndInv, TypeOK
    <2>3. x \in Values
        BY <1>1, <2>2 DEF Values
    <2>4. TypeOK'
        BY <1>1, <2>1, <2>3 DEF IndInv, TypeOK
    <2>5. value'[r] = x
        BY <2>1 DEF IndInv, TypeOK
    <2>6. Genuine(Wanted(r), value[r])'
        BY <1>1, <2>2, <2>3, <2>5 DEF Genuine
    <2>7. ReaderInv(r)'
        BY <1>1, <2>1, <2>6 DEF IndInv, TypeOK, ReaderInv
    <2> QED
        BY <1>2, <2>4, <2>7
<1> QED
    BY <1>3, <1>4

LEMMA FetchFailsStep ==
    ASSUME IndInv, NEW r \in Readers, FetchFails(r)
    PROVE  TypeOK' /\ CacheInv' /\ ReaderInv(r)'
<1>0. [Next]_vars
    BY DEF Next, Step
<1>1. TypeOK'
    BY DEF IndInv, TypeOK, FetchFails, Goto, Finish, world
<1>2. CacheInv'
    BY <1>0, EntriesStay DEF IndInv, CacheInv, FetchFails
<1>3. ReaderInv(r)'
    BY DEF IndInv, TypeOK, ReaderInv, FetchFails, Goto, Finish
<1> QED
    BY <1>1, <1>2, <1>3

LEMMA PutStep ==
    ASSUME IndInv, NEW r \in Readers, Put(r)
    PROVE  TypeOK' /\ CacheInv' /\ ReaderInv(r)'
<1> DEFINE k == Wanted(r)
           e == [value |-> value[r], created |-> now, expires |-> now + TTL]
<1>0. [Next]_vars
    BY DEF Next, Step
<1>1. /\ k \in Reservations /\ CacheKey(k) \in Keys /\ k' = k
      /\ Genuine(k, value[r])
      /\ pc[r] = "put" /\ execution[r] = "executing" /\ answer[r] = "none" /\ ~late[r]
      /\ read[r] \in Reads
      /\ UNCHANGED <<now, live, current, since, read, entry, value, late>>
      /\ cache' = [cache EXCEPT ![CacheKey(k)] = e]
      /\ Complete(r, "miss")
    BY DEF IndInv, ReaderInv, Put, Wanted, Reads, world, Keys
<1>2. e \in Entries /\ GenuineEntry(k, e)
    BY <1>1, ConstantsAssumption DEF IndInv, TypeOK, Entries, GenuineEntry, Genuine
<1>3. TypeOK'
    BY <1>1, <1>2 DEF IndInv, TypeOK, Complete, Finish, Goto
<1>4. CacheInv'
    <2> SUFFICES ASSUME NEW j \in Reservations, cache'[CacheKey(j)] # NoEntry
                 PROVE  GenuineEntry(j, cache[CacheKey(j)])'
        BY DEF CacheInv
    <2>1. CASE j = k
        <3>1. cache'[CacheKey(j)] = e
            BY <1>1, <2>1 DEF IndInv, TypeOK
        <3> QED
            BY <1>1, <1>2, <2>1, <3>1 DEF GenuineEntry, Genuine
    <2>2. CASE j # k
        <3>1. CacheKey(j) # CacheKey(k)
            BY <2>2 DEF CacheKey
        <3>2. cache'[CacheKey(j)] = cache[CacheKey(j)]
            BY <1>1, <3>1 DEF IndInv, TypeOK, Keys
        <3> QED
            BY <1>0, <3>2, EntriesStay DEF IndInv, CacheInv
    <2> QED
        BY <2>1, <2>2
<1>5. Genuine(Wanted(r), value[r])'
    BY <1>1 DEF Genuine
<1>6. ReaderInv(r)'
    BY <1>1, <1>5 DEF IndInv, TypeOK, ReaderInv, Complete, Finish, Goto
<1> QED
    BY <1>3, <1>4, <1>6

--------------------------------------------------------------------------------

LEMMA IndInvNext == IndInv /\ [Next]_vars => IndInv'
<1> SUFFICES ASSUME IndInv, [Next]_vars PROVE IndInv'
    OBVIOUS
<1>1. CASE UNCHANGED vars
    <2>1. UNCHANGED <<world, cache, reader, late>>
        BY <1>1 DEF vars
    <2>2. TypeOK' /\ CacheInv'
        BY <2>1, EntriesStay DEF IndInv, TypeOK, CacheInv, world, reader
    <2>3. ASSUME NEW r \in Readers PROVE ReaderInv(r)'
        BY <2>1, ReaderRests DEF world, reader
    <2> QED
        BY <2>2, <2>3 DEF IndInv
<1>2. CASE \/ Tick
           \/ \E t \in Tasks : EndAuthority(t)
           \/ \E k \in Reservations : Change(k)
    BY <1>2, WorldStep
<1>3. ASSUME NEW r \in Readers, NEW q \in Reads, Begin(r, q) PROVE IndInv'
    BY <1>3, BeginStep, OthersRest DEF IndInv
<1>4. ASSUME NEW r \in Readers, Step(r) PROVE IndInv'
    <2>1. TypeOK' /\ CacheInv' /\ ReaderInv(r)'
        BY <1>4, RevalidateStep, GetStep, CheckStep, EvictStep, FetchStep, FetchFailsStep,
           PutStep DEF Step
    <2> QED
        BY <1>4, <2>1, OthersRest DEF IndInv
<1> QED
    BY <1>1, <1>2, <1>3, <1>4 DEF Next

(* The inductive invariant holds in every reachable state.                   *)
THEOREM Inductive == Spec => []IndInv
BY IndInvInit, IndInvNext, PTL DEF Spec

(* Every variable keeps its type: in particular, that a reservation does not *)
(* exist is never cached.                                                    *)
THEOREM TypeCorrect == Spec => []TypeOK
<1>1. IndInv => TypeOK
    BY DEF IndInv
<1> QED
    BY <1>1, Inductive, PTL

(* A read whose authority has ended learns nothing from cache or provider.   *)
THEOREM NothingWithoutAuthority == Spec => []EndedAuthorityReadsNothing
<1>1. IndInv => EndedAuthorityReadsNothing
    BY DEF IndInv, ReaderInv, EndedAuthorityReadsNothing, TypeOK
<1> QED
    BY <1>1, Inductive, PTL

(* What is disclosed is a version of the reservation that was asked for.     *)
THEOREM Disclosed == Spec => []GenuineDisclosure
<1>1. IndInv => GenuineDisclosure
    BY DEF IndInv, ReaderInv, Genuine, GenuineDisclosure
<1> QED
    BY <1>1, Inductive, PTL

(* Every answer that tells something has a completed execution on record.    *)
THEOREM Recorded == Spec => []DisclosureIsRecorded
<1>1. IndInv => DisclosureIsRecorded
    BY DEF IndInv, ReaderInv, DisclosureIsRecorded
<1> QED
    BY <1>1, Inductive, PTL

(* An entry fetched at f and created at c replaces a version no older than f. *)
LEMMA StalenessBound ==
    ASSUME NEW n \in Nat, NEW c \in Nat, NEW f \in Nat, NEW s \in Nat, NEW t \in Nat,
           n < c + t, s >= f
    PROVE  n < s + t + (c - f)
OBVIOUS

(* A hit is stale for less than the TTL and the delay of the fill.           *)
THEOREM Staleness == Spec => BoundedStaleness
<1>1. IndInv /\ [Next]_vars =>
          [\A r \in Readers : answer[r] # "hit" /\ answer'[r] = "hit" =>
               LET e == entry[r] IN
               \A v \in 1..MaxVersion :
                   e.value.version < v /\ v <= current[Wanted(r)] =>
                       now < since[Wanted(r)][v] + TTL + (e.created - e.value.fetched)]_vars
    <2> SUFFICES ASSUME IndInv, Next, NEW r \in Readers, answer[r] # "hit", answer'[r] = "hit",
                        NEW v \in 1..MaxVersion,
                        entry[r].value.version < v, v <= current[Wanted(r)]
                 PROVE  now < since[Wanted(r)][v] + TTL
                                  + (entry[r].created - entry[r].value.fetched)
        BY DEF vars
    <2>1. Check(r) /\ ~Expired(entry[r])
        <3>1. UNCHANGED answer => FALSE
            OBVIOUS
        <3>2. Step(r)
            BY <3>1 DEF IndInv, TypeOK, Next, Tick, EndAuthority, Change, Begin, reader, Step,
                        Revalidate, Get, Check, Evict, Fetch, FetchFails, Put, Finish, Complete
        <3> QED
            BY <3>1, <3>2 DEF IndInv, TypeOK, Step, Revalidate, Get, Check, Evict, Fetch,
                              FetchFails, Put, Finish, Complete
    <2>2. GenuineEntry(Wanted(r), entry[r])
        BY <2>1 DEF Check, IndInv, ReaderInv
    <2>3. /\ entry[r].created \in Nat /\ entry[r].expires = entry[r].created + TTL
          /\ entry[r].value.fetched \in Nat
          /\ since[Wanted(r)][v] >= entry[r].value.fetched
        BY <2>2 DEF GenuineEntry, Genuine, Entries, Values
    <2>4. now < entry[r].expires /\ now \in Nat /\ TTL \in Nat
        BY <2>1, <2>3, ConstantsAssumption DEF Expired, IndInv, TypeOK
    <2>5. since[Wanted(r)][v] \in Nat
        <3>1. Wanted(r) \in Reservations
            BY <2>1 DEF Check, IndInv, ReaderInv, Wanted, Reads
        <3>2. since \in [Reservations -> [1..MaxVersion -> Nat]]
            BY DEF IndInv, TypeOK
        <3> QED
            BY <3>1, <3>2
    <2>6. now < entry[r].created + TTL
        BY <2>3, <2>4
    <2> QED
        BY <2>3, <2>4, <2>5, <2>6, StalenessBound, Zenon
<1> QED
    BY <1>1, Inductive, PTL DEF Spec, BoundedStaleness
================================================================================
