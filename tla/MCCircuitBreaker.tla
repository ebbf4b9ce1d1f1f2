-------------------------- MODULE MCCircuitBreaker --------------------------
(* Instances of CircuitBreaker for TLC, with classifyHTTPError as the      *)
(* breaker's classifier.                                                   *)
EXTENDS CircuitBreaker, Classifier, TLC

CONSTANTS k1, k2, k3

(* k1's agent overrides the thresholds: it trips on the first error and    *)
(* needs a second success to close.  The other keys inherit the globals.   *)
StrictK1 == [k \in Keys |-> IF k = k1 THEN [failure |-> 1, success |-> 2]
                                      ELSE [failure |-> 0, success |-> 0]]

Symmetry == Permutations({k2, k3})

Reply(status, marks) == [status |-> status, marks |-> marks]

(* One reply per behaviour of the breaker: locks and backs off, locks for  *)
(* a fixed time, hits the quota floor, does not lock.                      *)
FourReplies == {Reply(429, {}), Reply(500, {}), Reply(400, {"quota"}),
                Reply(413, {"context"})}
=============================================================================
