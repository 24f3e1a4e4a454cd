---------------------------- MODULE MCWorkerPool ----------------------------
EXTENDS WorkerPool

CONSTANTS a1, a2, m1

\* Three calls of the log caller and one of the message caller.
OneEach == [c \in {a1, m1} |-> IF c = a1 THEN 3 ELSE 1]
\* Three calls of each of two log callers.
ThreeEach == [c \in {a1, a2} |-> 3]
=============================================================================
