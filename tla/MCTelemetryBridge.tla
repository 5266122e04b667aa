--------------------------- MODULE MCTelemetryBridge ---------------------------
(* Constants for checking TelemetryBridge with TLC.                          *)
EXTENDS TelemetryBridge

CONSTANTS t1, t2, s1, s2, s3

(* In the first trace a span with a child, in the second a span.             *)
MCTraceOf == [s \in {s1, s2, s3} |-> IF s = s3 THEN t2 ELSE t1]
MCParent == [s \in {s1, s2, s3} |-> IF s = s2 THEN s1 ELSE NoSpan]
================================================================================
