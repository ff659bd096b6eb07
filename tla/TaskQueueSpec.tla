--------------------------- MODULE TaskQueueSpec ---------------------------
(***************************************************************************)
(* What the task queues promise their callers, without the replicated log, *)
(* the steps of a task or its executor: every queue is first in, first     *)
(* out; the only task that may run is the one at its front; a preemptive   *)
(* task goes to the front of all its queues in one step or of none.        *)
(***************************************************************************)
EXTENDS Naturals, Sequences, FiniteSets

CONSTANTS
    Queues,     \* the task queue keys
    Tasks       \* the task identifiers

VARIABLES
    order,      \* per queue: its tasks, front first
    active,     \* per queue: the tasks that may run
    halted,     \* the queues that are paused
    known       \* the identifiers given out so far

absVars == <<order, active, halted, known>>

Front(q) == IF q = <<>> THEN {} ELSE {Head(q)}

\* The task that may run once a queue has changed: its front, unless the
\* queue is paused.
Promoted(k, q, stop) == IF k \in stop THEN {} ELSE Front(q)

Init ==
    /\ order = [k \in Queues |-> <<>>]
    /\ active = [k \in Queues |-> {}]
    /\ halted = {}
    /\ known = {}

\* An identifier is given out and its task refused.
Issue(t) ==
    /\ t \notin known
    /\ known' = known \cup {t}
    /\ UNCHANGED <<order, active, halted>>

\* A task joins the back of a queue, and runs at once if the queue is idle.
Enqueue(k, t) ==
    /\ t \notin known
    /\ known' = known \cup {t}
    /\ UNCHANGED halted
    /\ order' = [order EXCEPT ![k] = Append(@, t)]
    /\ active' = [active EXCEPT ![k] = IF order[k] = <<>> THEN Promoted(k, <<t>>, halted) ELSE @]

\* The queues of K lose their front; the next task of each runs unless the
\* queue is paused.
RemoveFront(K, stop) ==
    /\ order' = [k \in Queues |-> IF k \in K THEN Tail(order[k]) ELSE order[k]]
    /\ active' = [k \in Queues |-> IF k \in K THEN Promoted(k, Tail(order[k]), stop) ELSE active[k]]

\* A task leaves the front of every queue it heads.
Finish(t) ==
    LET K == {k \in Queues : t \in Front(order[k])}
    IN  /\ UNCHANGED <<halted, known>>
        /\ K # {}
        /\ RemoveFront(K, halted)

\* A task goes to the front of every queue of K and pauses them.
Preempt(K, t) ==
    /\ K # {}
    /\ t \notin known
    /\ known' = known \cup {t}
    /\ halted' = halted \cup K
    /\ order' = [k \in Queues |-> IF k \in K THEN <<t>> \o order[k] ELSE order[k]]
    /\ active' = [k \in Queues |-> IF k \in K THEN {t} ELSE active[k]]

\* The paused queues of K lose their front and run on.
Resume(K) ==
    /\ UNCHANGED known
    /\ halted' = halted \ K
    /\ RemoveFront({k \in K \cap halted : order[k] # <<>>}, halted')

\* A queue is emptied.
Clear(k) ==
    /\ UNCHANGED <<halted, known>>
    /\ order' = [order EXCEPT ![k] = <<>>]
    /\ active' = [active EXCEPT ![k] = {}]

Next ==
    \/ \E t \in Tasks : Issue(t)
    \/ \E k \in Queues, t \in Tasks : Enqueue(k, t)
    \/ \E K \in SUBSET Queues, t \in Tasks : Preempt(K, t)
    \/ \E K \in SUBSET Queues : Resume(K)
    \/ \E t \in Tasks : Finish(t)
    \/ \E k \in Queues : Clear(k)

Spec == Init /\ [][Next]_absVars

=============================================================================
