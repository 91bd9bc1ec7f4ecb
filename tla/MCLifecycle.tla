---------------------------- MODULE MCLifecycle -----------------------------
EXTENDS Lifecycle

CONSTANTS a, b, e1, e2, r1, r2, r3

Rec(backend, latency, success, timeout, retried) ==
  [backend |-> backend, latency |-> latency, success |-> success, timeout |-> timeout,
   retried |-> retried]

\* A success by a retry, and a timeout.
MCRecords == {Rec(a, 1, TRUE, FALSE, TRUE), Rec(b, 2, FALSE, TRUE, FALSE)}

=============================================================================
