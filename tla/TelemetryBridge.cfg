\* Two traces, three spans, one of them nested.
CONSTANTS
    t1 = t1
    t2 = t2
    s1 = s1
    s2 = s2
    s3 = s3
    Traces = {t1, t2}
    Spans = {s1, s2, s3}
    TraceOf <- MCTraceOf
    Parent <- MCParent
    NoSpan = NoSpan
    Current = Current
SPECIFICATION FairSpec
INVARIANTS
    OneOwner
    Lineage
PROPERTIES
    EveryMirrorEnds
\* When every span has ended and the process is shut down nothing is left to do.
CHECK_DEADLOCK FALSE
