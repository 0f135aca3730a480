------------------------ MODULE MCProjectLifecycle ------------------------
EXTENDS ProjectLifecycle

CONSTANTS o1, a1, a2, n1, c1, c2, w1, watcher

MCMixes ==
    {{o1, a2}, {n1, a2}, {o1, n1, watcher}, {o1, c1, watcher}, {c1, w1, watcher},
     {a1, c1, watcher}, {a1, w1, watcher}, {c1, c2, watcher}, {n1, w1, watcher}}

\* The automatic connection that runs beside the watcher has one attempt.
MCTries == [a \in {a1, a2} |-> IF a = a1 THEN 1 ELSE 2]
=============================================================================
