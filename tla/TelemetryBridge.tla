---------------------------- MODULE TelemetryBridge ----------------------------
(***************************************************************************)
(* OpenAIAgentsOpenTelemetryProcessor: a span of OpenTelemetry, a mirror,  *)
(* for every trace and every span of the Agents SDK. The mirrors that are  *)
(* open are in two dictionaries under one lock. A callback starts and ends *)
(* its mirror outside the lock, so that between its steps other callbacks, *)
(* of other threads, and shutdown may run.                                 *)
(*                                                                         *)
(* Of the SDK it is assumed that it calls back once for the start of a     *)
(* trace or a span, once for its end after that callback returned, and for *)
(* the start of a span after those for its trace and its parent returned.  *)
(* A span may start, and end, when its trace has ended.                    *)
(***************************************************************************)
EXTENDS Naturals

CONSTANTS
    Traces,
    Spans,
    TraceOf,        \* TraceOf[s]: the trace of a span
    Parent,         \* Parent[s]: its parent span, or NoSpan
    NoSpan,
    Current         \* the context a callback runs in: another application span, or none

Items == Traces \cup Spans

ASSUME ConstantsAssumption ==
    /\ TraceOf \in [Spans -> Traces]
    /\ Parent \in [Spans -> Spans \cup {NoSpan}]
    /\ NoSpan \notin Items \cup {Current}
    /\ Traces \cap Spans = {}
    /\ Current \notin Items

VARIABLES
    step,           \* step[x]: where the callbacks for x are
    mirror,         \* mirror[x]: "none", "live" or "ended"
    under,          \* under[s]: what the mirror of s is started under, or NoSpan
    roots,          \* keys of _trace_roots
    spans,          \* keys of _spans
    down,           \* shutdown has taken what was in the dictionaries
    taken           \* mirrors it took and has yet to end

vars == <<step, mirror, under, roots, spans, down, taken>>

Init ==
    /\ step = [x \in Items |-> "new"]
    /\ mirror = [x \in Items |-> "none"]
    /\ under = [s \in Spans |-> NoSpan]
    /\ roots = {}
    /\ spans = {}
    /\ down = FALSE
    /\ taken = {}

(* The callback for the start of x has returned.                             *)
Begun(x) == step[x] \in {"open", "ending", "done"}

StartMirror(x) ==
    /\ step' = [step EXCEPT ![x] = "starting"]
    /\ mirror' = [mirror EXCEPT ![x] = "live"]

--------------------------------------------------------------------------------
(* on_trace_start. The context it is started in is kept, and never read.     *)

TraceStart(t) ==
    /\ step[t] = "new"
    /\ StartMirror(t)
    /\ UNCHANGED <<under, roots, spans, down, taken>>

TraceInsert(t) ==
    /\ step[t] = "starting"
    /\ step' = [step EXCEPT ![t] = "open"]
    /\ roots' = roots \cup {t}
    /\ UNCHANGED <<mirror, under, spans, down, taken>>

(* on_trace_end: the root is popped, then ended, unless shutdown took it.    *)
TracePop(t) ==
    /\ step[t] = "open"
    /\ step' = [step EXCEPT ![t] = IF t \in roots THEN "ending" ELSE "done"]
    /\ roots' = roots \ {t}
    /\ UNCHANGED <<mirror, under, spans, down, taken>>

(* The last step of on_trace_end and of on_span_end.                         *)
End(x) ==
    /\ step[x] = "ending"
    /\ step' = [step EXCEPT ![x] = "done"]
    /\ mirror' = [mirror EXCEPT ![x] = "ended"]
    /\ UNCHANGED <<under, roots, spans, down, taken>>

--------------------------------------------------------------------------------
(* on_span_start: the parent is looked up, ...                               *)

(* Mutant: no fallback to the root of the trace.                             *)
SpanLookup_NoRoot(s) ==
    /\ step[s] = "new"
    /\ Begun(TraceOf[s])
    /\ Parent[s] # NoSpan => Begun(Parent[s])
    /\ step' = [step EXCEPT ![s] = "found"]
    /\ under' = [under EXCEPT ![s] = IF Parent[s] \in spans THEN Parent[s] ELSE Current]
    /\ UNCHANGED <<mirror, roots, spans, down, taken>>

SpanLookup(s) ==
    /\ step[s] = "new"
    /\ Begun(TraceOf[s])
    /\ Parent[s] # NoSpan => Begun(Parent[s])
    /\ step' = [step EXCEPT ![s] = "found"]
    /\ under' = [under EXCEPT ![s] = IF Parent[s] \in spans THEN Parent[s]
                                     ELSE IF TraceOf[s] \in roots THEN TraceOf[s]
                                     ELSE Current]
    /\ UNCHANGED <<mirror, roots, spans, down, taken>>

(* ... the mirror is started, ...                                            *)
SpanStart(s) ==
    /\ step[s] = "found"
    /\ StartMirror(s)
    /\ UNCHANGED <<under, roots, spans, down, taken>>

(* ... and it is inserted, whatever happened since the lookup.               *)
SpanInsert(s) ==
    /\ step[s] = "starting"
    /\ step' = [step EXCEPT ![s] = "open"]
    /\ spans' = spans \cup {s}
    /\ UNCHANGED <<mirror, under, roots, down, taken>>

(* Mutant: the spans of a trace that has ended are left alone.               *)
SpanPop_OfOpenTrace(s) ==
    /\ step[s] = "open"
    /\ step' = [step EXCEPT ![s] = IF s \in spans /\ TraceOf[s] \in roots
                                   THEN "ending" ELSE "done"]
    /\ spans' = IF TraceOf[s] \in roots THEN spans \ {s} ELSE spans
    /\ UNCHANGED <<mirror, under, roots, down, taken>>

(* on_span_end: the mirror is popped, then ended, unless shutdown took it.   *)
SpanPop(s) ==
    /\ step[s] = "open"
    /\ step' = [step EXCEPT ![s] = IF s \in spans THEN "ending" ELSE "done"]
    /\ spans' = spans \ {s}
    /\ UNCHANGED <<mirror, under, roots, down, taken>>

--------------------------------------------------------------------------------
(* shutdown, once. Callbacks go on.                                          *)

(* Mutant: the dictionaries are not cleared.                                 *)
Shutdown_NoClear ==
    /\ ~down
    /\ down' = TRUE
    /\ taken' = spans \cup roots
    /\ UNCHANGED <<step, mirror, under, roots, spans>>

Shutdown ==
    /\ ~down
    /\ down' = TRUE
    /\ taken' = spans \cup roots
    /\ spans' = {}
    /\ roots' = {}
    /\ UNCHANGED <<step, mirror, under>>

(* The spans are ended before the roots.                                     *)
ShutdownEnd(x) ==
    /\ x \in taken
    /\ x \in Traces => taken \cap Spans = {}
    /\ taken' = taken \ {x}
    /\ mirror' = [mirror EXCEPT ![x] = "ended"]
    /\ UNCHANGED <<step, under, roots, spans, down>>

--------------------------------------------------------------------------------
Next ==
    \/ \E t \in Traces : TraceStart(t) \/ TraceInsert(t) \/ TracePop(t)
    \/ \E s \in Spans : SpanLookup(s) \/ SpanStart(s) \/ SpanInsert(s) \/ SpanPop(s)
    \/ \E x \in Items : End(x) \/ ShutdownEnd(x)
    \/ Shutdown

Spec == Init /\ [][Next]_vars

(* A callback that has begun returns, shutdown too, and the SDK ends every   *)
(* span and trace that it has started (it does in a finally). Nothing else   *)
(* need happen: no trace or span need start, and no shutdown.                *)
Fairness ==
    /\ \A t \in Traces : WF_vars(TraceInsert(t)) /\ WF_vars(TracePop(t))
    /\ \A s \in Spans :
           WF_vars(SpanStart(s)) /\ WF_vars(SpanInsert(s)) /\ WF_vars(SpanPop(s))
    /\ \A x \in Items : WF_vars(End(x)) /\ WF_vars(ShutdownEnd(x))

FairSpec == Spec /\ Fairness

--------------------------------------------------------------------------------
(* Type invariant. *)
TypeOK ==
    /\ step \in [Items -> {"new", "found", "starting", "open", "ending", "done"}]
    /\ mirror \in [Items -> {"none", "live", "ended"}]
    /\ under \in [Spans -> Items \cup {NoSpan, Current}]
    /\ roots \subseteq Traces
    /\ spans \subseteq Spans
    /\ down \in BOOLEAN
    /\ taken \subseteq Items

(* Who will end the mirror of x: the dictionary it is found in, a callback   *)
(* that holds it, or shutdown.                                               *)
InDictionary(x) == x \in roots \cup spans
InCallback(x) == step[x] \in {"starting", "ending"}
InShutdown(x) == x \in taken

(* A live mirror has exactly one owner, and one that is not live has none:   *)
(* whatever callbacks and shutdown interleave, none is ended twice, and none *)
(* drops out of sight while it is open (bridge.py, the two locked sections). *)
OneOwner ==
    \A x \in Items :
        /\ mirror[x] = "live" <=> InDictionary(x) \/ InCallback(x) \/ InShutdown(x)
        /\ ~(InDictionary(x) /\ InCallback(x))
        /\ ~(InDictionary(x) /\ InShutdown(x))
        /\ ~(InCallback(x) /\ InShutdown(x))

(* The mirrors hang together like the spans: one is started under its parent *)
(* unless that had ended, else under the root of its trace unless that had   *)
(* ended; before shutdown a mirror hangs in the air only in an ended trace   *)
(* (bridge.py on_span_start, test_telemetry.py 78-101).                      *)
Lineage ==
    \A s \in Spans :
        /\ under[s] \in {NoSpan, Current, TraceOf[s], Parent[s]}
        /\ step[s] # "new" => under[s] # NoSpan
        /\ under[s] \in {TraceOf[s], Current} /\ Parent[s] # NoSpan =>
               step[Parent[s]] \in {"ending", "done"} \/ down
        /\ under[s] = Current => step[TraceOf[s]] \in {"ending", "done"} \/ down

(* What the owner of a mirror says of its callbacks.                         *)
StepInv ==
    \A x \in Items :
        /\ step[x] \in {"new", "found"} <=> mirror[x] = "none"
        /\ InDictionary(x) => step[x] = "open"
        /\ InShutdown(x) => step[x] \in {"open", "done"} /\ down
        /\ step[x] = "open" => InDictionary(x) \/ down

IndInv == TypeOK /\ StepInv /\ OneOwner /\ Lineage

(* Every mirror that is started is ended, with or without a shutdown: also   *)
(* one that shutdown could not take because it was inserted too late.        *)
EveryMirrorEnds == \A x \in Items : mirror[x] = "live" ~> mirror[x] = "ended"
================================================================================
