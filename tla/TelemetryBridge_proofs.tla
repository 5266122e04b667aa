------------------------- MODULE TelemetryBridge_proofs -------------------------
(***************************************************************************)
(* Proofs about TelemetryBridge, for every set of traces and spans and     *)
(* every shape of the trees of spans.                                      *)
(***************************************************************************)
EXTENDS TelemetryBridge, TLAPS

(* The inductive invariant holds in the initial state.                       *)
LEMMA IndInvInit == Init => IndInv
<1> SUFFICES ASSUME Init
             PROVE  IndInv
    OBVIOUS
<1>1. TypeOK
    BY DEF Init, TypeOK
<1>2. StepInv /\ OneOwner
    BY DEF Init, StepInv, OneOwner, InDictionary, InCallback, InShutdown
<1>3. Lineage
    BY ConstantsAssumption DEF Init, Lineage, Items
<1> QED
    BY <1>1, <1>2, <1>3 DEF IndInv

(* What a step may change of an item: the mirror is another item's, unless   *)
(* the step is one of its own callbacks, or shutdown's.                      *)
LEMMA TypeStep ==
    ASSUME TypeOK, [Next]_vars
    PROVE  TypeOK'
<1> USE ConstantsAssumption DEF Items
<1>1. ASSUME NEW t \in Traces, TraceStart(t) \/ TraceInsert(t) \/ TracePop(t)
      PROVE  TypeOK'
    BY <1>1 DEF TypeOK, TraceStart, TraceInsert, TracePop, StartMirror
<1>2. ASSUME NEW s \in Spans, SpanLookup(s)
      PROVE  TypeOK'
    BY <1>2 DEF TypeOK, SpanLookup
<1>3. ASSUME NEW s \in Spans, SpanStart(s) \/ SpanInsert(s) \/ SpanPop(s)
      PROVE  TypeOK'
    BY <1>3 DEF TypeOK, SpanStart, SpanInsert, SpanPop, StartMirror
<1>4. ASSUME NEW x \in Items, End(x) \/ ShutdownEnd(x)
      PROVE  TypeOK'
    BY <1>4 DEF TypeOK, End, ShutdownEnd
<1>5. CASE Shutdown
    BY <1>5 DEF TypeOK, Shutdown
<1>6. CASE UNCHANGED vars
    BY <1>6 DEF TypeOK, vars
<1> QED
    BY <1>1, <1>2, <1>3, <1>4, <1>5, <1>6 DEF Next

(* A mirror has one owner before and after every step.                       *)
LEMMA OwnerStep ==
    ASSUME TypeOK, StepInv, OneOwner, [Next]_vars
    PROVE  StepInv' /\ OneOwner'
<1> USE ConstantsAssumption
    DEF Items, TypeOK, StepInv, OneOwner, InDictionary, InCallback, InShutdown
<1>1. ASSUME NEW t \in Traces, TraceStart(t) \/ TraceInsert(t)
      PROVE  StepInv' /\ OneOwner'
    BY <1>1 DEF TraceStart, TraceInsert, StartMirror
<1>2. ASSUME NEW t \in Traces, TracePop(t)
      PROVE  StepInv' /\ OneOwner'
    BY <1>2 DEF TracePop
<1>3. ASSUME NEW s \in Spans, SpanLookup(s)
      PROVE  StepInv' /\ OneOwner'
    BY <1>3 DEF SpanLookup
<1>4. ASSUME NEW s \in Spans, SpanStart(s) \/ SpanInsert(s)
      PROVE  StepInv' /\ OneOwner'
    BY <1>4 DEF SpanStart, SpanInsert, StartMirror
<1>5. ASSUME NEW s \in Spans, SpanPop(s)
      PROVE  StepInv' /\ OneOwner'
    BY <1>5 DEF SpanPop
<1>6. ASSUME NEW x \in Items, End(x)
      PROVE  StepInv' /\ OneOwner'
    BY <1>6 DEF End
<1>7. ASSUME NEW x \in Items, ShutdownEnd(x)
      PROVE  StepInv' /\ OneOwner'
    BY <1>7 DEF ShutdownEnd
<1>8. CASE Shutdown
    BY <1>8 DEF Shutdown
<1>9. CASE UNCHANGED vars
    BY <1>9 DEF vars
<1> QED
    BY <1>1, <1>2, <1>3, <1>4, <1>5, <1>6, <1>7, <1>8, <1>9 DEF Next

(* Once the callback for its start has begun, what a span hangs under is     *)
(* settled, and what has ended stays so.                                     *)
LEMMA LineageStep ==
    ASSUME TypeOK, StepInv, Lineage, [Next]_vars
    PROVE  Lineage'
<1> USE ConstantsAssumption DEF Items, TypeOK
<1>1. ASSUME NEW s \in Spans, SpanLookup(s)
      PROVE  Lineage'
    <2> DEFINE found == IF Parent[s] \in spans THEN Parent[s]
                        ELSE IF TraceOf[s] \in roots THEN TraceOf[s] ELSE Current
    <2>1. /\ under' = [under EXCEPT ![s] = found]
          /\ step' = [step EXCEPT ![s] = "found"]
          /\ step[s] = "new" /\ Begun(TraceOf[s])
          /\ Parent[s] # NoSpan => Begun(Parent[s])
          /\ down' = down
        BY <1>1 DEF SpanLookup
    <2>2. found \in {Current, TraceOf[s], Parent[s]} /\ found # NoSpan
        OBVIOUS
    <2>3. found \in {TraceOf[s], Current} /\ Parent[s] # NoSpan =>
              step[Parent[s]] \in {"ending", "done"} \/ down
        BY <2>1 DEF Begun, StepInv, InDictionary
    <2>4. found = Current => step[TraceOf[s]] \in {"ending", "done"} \/ down
        BY <2>1 DEF Begun, StepInv, InDictionary
    <2> QED
        BY <2>1, <2>2, <2>3, <2>4 DEF Lineage, Begun
<1>2. ASSUME UNCHANGED under, down => down',
             \A x \in Items : step[x] \in {"ending", "done"} => step'[x] \in {"ending", "done"},
             \A s \in Spans : step[s] = "new" => step'[s] = "new"
      PROVE  Lineage'
    BY <1>2 DEF Lineage
<1>3. ASSUME NEW t \in Traces, TraceStart(t) \/ TraceInsert(t) \/ TracePop(t)
      PROVE  Lineage'
    BY <1>2, <1>3 DEF TraceStart, TraceInsert, TracePop, StartMirror
<1>4. ASSUME NEW s \in Spans, SpanStart(s) \/ SpanInsert(s) \/ SpanPop(s)
      PROVE  Lineage'
    BY <1>2, <1>4 DEF SpanStart, SpanInsert, SpanPop, StartMirror
<1>5. ASSUME NEW x \in Items, End(x) \/ ShutdownEnd(x)
      PROVE  Lineage'
    BY <1>2, <1>5 DEF End, ShutdownEnd
<1>6. CASE Shutdown
    BY <1>2, <1>6 DEF Shutdown
<1>7. CASE UNCHANGED vars
    BY <1>2, <1>7 DEF vars
<1> QED
    BY <1>1, <1>3, <1>4, <1>5, <1>6, <1>7 DEF Next

(* The inductive invariant is one of the specification.                      *)
THEOREM BridgeInv == Spec => []IndInv
<1>1. IndInv /\ [Next]_vars => IndInv'
    BY TypeStep, OwnerStep, LineageStep DEF IndInv
<1> QED
    BY IndInvInit, <1>1, PTL DEF Spec

(* Every live mirror has exactly one owner, which will end it, whatever the  *)
(* interleaving of callbacks and shutdown (bridge.py).                       *)
THEOREM MirrorsHaveOneOwner == Spec => []OneOwner
BY BridgeInv, PTL DEF IndInv

(* Mirrors hang together like spans do (bridge.py on_span_start).            *)
THEOREM MirrorsKeepLineage == Spec => []Lineage
BY BridgeInv, PTL DEF IndInv

(* A mirror that has ended is not touched again: no callback and no shutdown *)
(* ends it a second time (bridge.py).                                        *)
THEOREM MirrorsEndOnce == Spec => [][\A x \in Items : mirror[x] = "ended" =>
                                         ~End(x) /\ ~ShutdownEnd(x) /\ mirror'[x] = "ended"]_vars
<1>1. ASSUME IndInv, [Next]_vars, NEW x \in Items, mirror[x] = "ended"
      PROVE  ~End(x) /\ ~ShutdownEnd(x) /\ mirror'[x] = "ended"
    <2>1. ~InCallback(x) /\ ~InShutdown(x) /\ step[x] \notin {"new", "found"}
        BY <1>1 DEF IndInv, OneOwner, StepInv
    <2>2. ~End(x) /\ ~ShutdownEnd(x)
        BY <2>1 DEF End, ShutdownEnd, InCallback, InShutdown
    <2>3. mirror'[x] = "ended"
        <3> USE <1>1 DEF IndInv, TypeOK, Items
        <3>1. ASSUME NEW y \in Items, StartMirror(y), step[y] \in {"new", "found"}
              PROVE  mirror'[x] = "ended"
            BY <2>1, <3>1 DEF StartMirror
        <3>2. CASE \E t \in Traces : TraceStart(t)
            BY <3>1, <3>2 DEF TraceStart
        <3>3. CASE \E s \in Spans : SpanStart(s)
            BY <3>1, <3>3 DEF SpanStart
        <3>4. CASE \E y \in Items : End(y) \/ ShutdownEnd(y)
            BY <3>4 DEF End, ShutdownEnd
        <3>5. CASE UNCHANGED mirror
            BY <3>5
        <3> QED
            BY <3>2, <3>3, <3>4, <3>5
               DEF Next, vars, TraceInsert, TracePop, SpanLookup, SpanInsert, SpanPop, Shutdown
    <2> QED
        BY <2>2, <2>3
<1>2. IndInv /\ [Next]_vars =>
          [\A x \in Items : mirror[x] = "ended" =>
               ~End(x) /\ ~ShutdownEnd(x) /\ mirror'[x] = "ended"]_vars
    BY <1>1
<1> QED
    BY BridgeInv, <1>2, PTL DEF Spec
================================================================================
