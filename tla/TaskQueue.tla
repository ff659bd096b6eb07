----------------------------- MODULE TaskQueue -----------------------------
(***************************************************************************)
(* The task queue interface of the replicated state                        *)
(* (state/src/interface/task_queue.rs).  A proposer builds a               *)
(* StateTransition and submits it to the log; the applicator applies the   *)
(* transitions, in log order, to the task_queues and task_history tables.  *)
(* The proposers and the getters are those of the source; the applicator   *)
(* is outside the source tree and follows the specification's task queue   *)
(* semantics.                                                              *)
(***************************************************************************)
EXTENDS Naturals, Sequences, FiniteSets

CONSTANTS
    Nodes,          \* the peers of the cluster
    Queues,         \* TaskQueueKey
    Tasks,          \* TaskIdentifier
    MaxStep,        \* the steps of a running task are 0..MaxStep
    MaxLen          \* get_task_history is asked for lengths 0..MaxLen

ASSUME
    /\ MaxStep \in Nat /\ MaxLen \in Nat

VARIABLES
    task_queues,    \* per key: the queued tasks, head first
    paused,         \* the keys of the paused queues
    task_history,   \* per key: the tasks popped, the latest first
    issued          \* the task identifiers handed out so far

vars == <<task_queues, paused, task_history, issued>>

-----------------------------------------------------------------------------
(* QueuedTaskState                                                         *)

Queued == [tag |-> "Queued", step |-> 0, committed |-> FALSE]
Preemptive == [tag |-> "Preemptive", step |-> 0, committed |-> FALSE]
Running(step, committed) == [tag |-> "Running", step |-> step, committed |-> committed]
Completed == [tag |-> "Completed", step |-> 0, committed |-> FALSE]
Failed == [tag |-> "Failed", step |-> 0, committed |-> FALSE]

\* The states of a task that is in a queue.
LiveState == {Queued, Preemptive} \cup {Running(s, c) : s \in 0..MaxStep, c \in BOOLEAN}

QueuedTaskState == LiveState \cup {Completed, Failed}

QueuedTask == [id : Tasks, state : LiveState, descriptor : SUBSET Queues, executor : Nodes]

IsCommitted(state) == state.tag = "Running" /\ state.committed

HeadIs(key, task_id) ==
    task_queues[key] # <<>> /\ Head(task_queues[key]).id = task_id

-----------------------------------------------------------------------------
(* Getters: what a read transaction returns.                               *)

GetQueuedTasks(key) == task_queues[key]

GetTaskQueueLen(key) == Len(GetQueuedTasks(key))

IsQueuePaused(key) == key \in paused

\* The queues a task is in: one for an appended task, all the queues it
\* preempted for a preemptive one.
GetTaskQueueKey(task_id) ==
    {key \in Queues : \E i \in 1..Len(task_queues[key]) : task_queues[key][i].id = task_id}

GetTask(task_id) ==
    {t \in UNION {{task_queues[key][i] : i \in DOMAIN task_queues[key]} : key \in Queues} :
        t.id = task_id}

GetTaskStatus(task_id) == {t.state : t \in GetTask(task_id)}

ContainsTask(task_id) == GetTaskQueueKey(task_id) # {}

\* The running task of a queue, if it has committed.
CurrentCommittedTask(key) ==
    {t.id : t \in {r \in {Head(q) : q \in {task_queues[key]} \ {<<>>}} : IsCommitted(r.state)}}

Least(a, b) == IF a <= b THEN a ELSE b

RemainingOffByOne(len, running) ==
    IF len > running + 1 THEN len - running - 1 ELSE 0

\* len.saturating_sub(running.len())
Remaining(len, running) ==
    IF len > running THEN len - running ELSE 0

\* HistoricalTask::from_queued_task keeps the tasks whose descriptor has a
\* historical form; unrecorded are the tasks that have none.
FromQueuedTasks(running, unrecorded) ==
    SelectSeq([i \in 1..Len(running) |-> [id |-> running[i].id, state |-> running[i].state]],
              LAMBDA t : t.id \notin unrecorded)

GetTruncatedTaskHistory(remaining, key) ==
    SubSeq(task_history[key], 1, Least(remaining, Len(task_history[key])))

GetTaskHistory(len, key, unrecorded) ==
    LET running == GetQueuedTasks(key)
        historical == GetTruncatedTaskHistory(Remaining(len, Len(running)), key)
        all == FromQueuedTasks(running, unrecorded) \o historical
    IN  SubSeq(all, 1, Least(len, Len(all)))

-----------------------------------------------------------------------------
(* The applicator: one handler per transition.                             *)

\* The head of a queue that is not paused starts to run.
RunHead(q, key, stop) ==
    IF q # <<>> /\ key \notin stop /\ q[1].state = Queued
    THEN [q EXCEPT ![1].state = Running(0, FALSE)]
    ELSE q

Outcome(success) == IF success THEN Completed ELSE Failed

\* The head of every queue of K goes to the history of its queue; the next
\* task runs unless the queue is in stop.
PopHeads(K, success, stop) ==
    /\ task_queues' = [key \in Queues |->
            IF key \in K THEN RunHead(Tail(task_queues[key]), key, stop) ELSE task_queues[key]]
    /\ task_history' = [key \in Queues |->
            IF key \in K
            THEN <<[id |-> Head(task_queues[key]).id, state |-> Outcome(success)]>> \o task_history[key]
            ELSE task_history[key]]

\* The task as it is queued, with the peer that runs it.
Enqueued(t) ==
    [id |-> t.task.id, state |-> t.task.state, descriptor |-> t.task.descriptor,
     executor |-> t.executor]

ApplyAppendTask(t) ==
    /\ task_queues' = [key \in Queues |->
            IF key \in t.task.descriptor
            THEN RunHead(Append(task_queues[key], Enqueued(t)), key, paused)
            ELSE task_queues[key]]
    /\ UNCHANGED <<paused, task_history>>

AnyState(old, new) == TRUE

AnyRunning(old, new) == new.tag = "Running"

\* Steps only advance, and a committed task stays committed.
Monotonic(old, new) ==
    /\ old.tag \in {"Running", "Preemptive"}
    /\ new.tag = "Running"
    /\ new.step >= old.step
    /\ old.committed => new.committed

ApplyTransitionTask(t) ==
    /\ LET K == {key \in Queues : HeadIs(key, t.task_id)}
           valid == \A key \in K : Monotonic(Head(task_queues[key]).state, t.state)
       IN  task_queues' = [key \in Queues |->
                IF key \in K /\ valid
                THEN [task_queues[key] EXCEPT ![1].state = t.state]
                ELSE task_queues[key]]
    /\ UNCHANGED <<paused, task_history>>

\* Only the head of a queue is popped.
ApplyPopTask(t) ==
    /\ PopHeads({key \in Queues : HeadIs(key, t.task_id)}, t.success, paused)
    /\ UNCHANGED paused

NeverBlocked(keys) == FALSE

\* A queue whose running task has committed cannot be preempted.
PreemptBlocked(keys) ==
    \E key \in keys : task_queues[key] # <<>> /\ IsCommitted(Head(task_queues[key]).state)

PreemptThoseFree(keys) ==
    {key \in keys : ~PreemptBlocked({key})}

\* All of the keys, or none.
PreemptedKeys(keys) ==
    IF PreemptBlocked(keys) THEN {} ELSE keys

NotDisplaced(q) == q

\* The task that ran goes back to Queued behind the preemptive task.
Displaced(q) ==
    [i \in DOMAIN q |-> IF q[i].state.tag \in {"Running", "Preemptive"}
                        THEN [q[i] EXCEPT !.state = Queued] ELSE q[i]]

ApplyPreemptTaskQueues(t) ==
    /\ LET K == PreemptedKeys(t.keys)
       IN  /\ task_queues' = [key \in Queues |->
                    IF key \in K THEN <<Enqueued(t)>> \o Displaced(task_queues[key])
                    ELSE task_queues[key]]
           /\ paused' = paused \cup K
    /\ UNCHANGED task_history

ApplyResumeTaskQueues(t) ==
    /\ paused' = paused \ t.keys
    /\ PopHeads({key \in t.keys \cap paused : task_queues[key] # <<>>}, t.success, paused')

\* The new executor starts again from the last committed step.
Reassigned(task, from, to) ==
    IF task.executor # from THEN task
    ELSE [task EXCEPT !.executor = to,
                      !.state = IF @.tag = "Running" /\ ~@.committed THEN Running(0, FALSE) ELSE @]

ApplyReassignTasks(t) ==
    /\ task_queues' = [key \in Queues |->
            [i \in DOMAIN task_queues[key] |-> Reassigned(task_queues[key][i], t.from, t.to)]]
    /\ UNCHANGED <<paused, task_history>>

ApplyClearTaskQueue(t) ==
    /\ task_queues' = [task_queues EXCEPT ![t.queue] = <<>>]
    /\ UNCHANGED <<paused, task_history>>

-----------------------------------------------------------------------------
(* Proposers: each builds a StateTransition and submits it.  Transitions   *)
(* are applied in the order they are submitted, so a proposal and its      *)
(* application are one step.                                               *)

SendProposal(t) ==
    \/ t.type = "AppendTask" /\ ApplyAppendTask(t)
    \/ t.type = "PopTask" /\ ApplyPopTask(t)
    \/ t.type = "TransitionTask" /\ ApplyTransitionTask(t)
    \/ t.type = "ClearTaskQueue" /\ ApplyClearTaskQueue(t)
    \/ t.type = "PreemptTaskQueues" /\ ApplyPreemptTaskQueues(t)
    \/ t.type = "ResumeTaskQueues" /\ ApplyResumeTaskQueues(t)
    \/ t.type = "ReassignTasks" /\ ApplyReassignTasks(t)

\* TaskIdentifier::new_v4
NewTaskId(id) ==
    /\ id \in Tasks \ issued
    /\ issued' = issued \cup {id}

\* The descriptor of a task names the queue it modifies.
AppendTask(n, key) ==
    \E id \in Tasks :
        /\ NewTaskId(id)
        /\ SendProposal([type |-> "AppendTask", executor |-> n,
                         task |-> [id |-> id, state |-> Queued, descriptor |-> {key}]])

\* RefreshWalletTaskDescriptor::new(wallet_id) names the wallet's queue; the
\* proposal is awaited, which is this step.
AppendWalletRefreshTask(n, wallet_id) == AppendTask(n, wallet_id)

PopTask(task_id, success) ==
    /\ task_id \in issued
    /\ SendProposal([type |-> "PopTask", task_id |-> task_id, success |-> success])
    /\ UNCHANGED issued

TransitionTask(task_id, state) ==
    /\ task_id \in issued
    /\ SendProposal([type |-> "TransitionTask", task_id |-> task_id, state |-> state])
    /\ UNCHANGED issued

ClearTaskQueue(key) ==
    /\ SendProposal([type |-> "ClearTaskQueue", queue |-> key])
    /\ UNCHANGED issued

\* The identifier is the caller's, who took it from new_v4; the descriptor
\* of a settlement names the wallets whose queues it preempts.
PauseMultipleTaskQueues(n, keys, task_id) ==
    /\ NewTaskId(task_id)
    /\ SendProposal([type |-> "PreemptTaskQueues", keys |-> keys, executor |-> n,
                     task |-> [id |-> task_id, state |-> Preemptive, descriptor |-> keys]])

PauseTaskQueue(n, key, task_id) == PauseMultipleTaskQueues(n, {key}, task_id)

ResumeMultipleTaskQueues(keys, success) ==
    /\ SendProposal([type |-> "ResumeTaskQueues", keys |-> keys, success |-> success])
    /\ UNCHANGED issued

ResumeTaskQueue(key, success) == ResumeMultipleTaskQueues({key}, success)

ReassignTasks(n, failed_peer) ==
    /\ SendProposal([type |-> "ReassignTasks", from |-> failed_peer, to |-> n])
    /\ UNCHANGED issued

-----------------------------------------------------------------------------

\* A relayer started on an empty database: no queue holds a task.
Init ==
    /\ task_queues = [key \in Queues |-> <<>>]
    /\ paused = {}
    /\ task_history = [key \in Queues |-> <<>>]
    /\ issued = {}

Next ==
    \/ \E n \in Nodes, key \in Queues : AppendTask(n, key)
    \/ \E task_id \in Tasks, success \in BOOLEAN : PopTask(task_id, success)
    \/ \E task_id \in Tasks, state \in QueuedTaskState : TransitionTask(task_id, state)
    \/ \E key \in Queues : ClearTaskQueue(key)
    \/ \E n \in Nodes, keys \in SUBSET Queues, task_id \in Tasks :
            PauseMultipleTaskQueues(n, keys, task_id)
    \/ \E keys \in SUBSET Queues, success \in BOOLEAN : ResumeMultipleTaskQueues(keys, success)
    \/ \E n \in Nodes : \E failed_peer \in Nodes \ {n} : ReassignTasks(n, failed_peer)

Spec == Init /\ [][Next]_vars

-----------------------------------------------------------------------------
(* Properties                                                              *)

HistoricalTask == [id : Tasks, state : {Completed, Failed}]

TypeOK ==
    /\ \A key \in Queues :
        /\ \A i \in 1..Len(task_queues[key]) : task_queues[key][i] \in QueuedTask
        /\ \A i \in 1..Len(task_history[key]) : task_history[key][i] \in HistoricalTask
    /\ paused \subseteq Queues
    /\ issued \subseteq Tasks

\* Exactly one task of a queue that is not paused runs, the one at its
\* head, and behind the head of any queue every task is Queued: the
\* applicator starts a task only when it reaches the head (append to an
\* idle queue, pop, resume) and preemption puts the running task back.
OneRunningTask ==
    \A key \in Queues :
        LET q == task_queues[key]
        IN  /\ \A i \in 2..Len(q) : q[i].state = Queued
            /\ (q # <<>> /\ key \notin paused) => q[1].state.tag = "Running"

\* A running task that has committed is never displaced: as long as it is
\* queued it stays at the head of its queue, committed, at the same step or
\* a later one.  PreemptTaskQueues must fail on it, TransitionTask must not
\* take it back, and ReassignTasks must keep its step.
CommittedStaysPut ==
    [][\A key \in Queues :
        (task_queues[key] # <<>> /\ IsCommitted(Head(task_queues[key]).state)) =>
            \A t \in {Head(task_queues[key])} :
                \/ key \notin GetTaskQueueKey(t.id)'
                \/ /\ t.id \in CurrentCommittedTask(key)'
                   /\ Head(task_queues'[key]).state.step >= t.state.step]_vars

\* A task enters every queue its descriptor names in one step, at the
\* front of each when it is preemptive, and pauses them all: when
\* PreemptTaskQueues finds a committed task in one of its queues it
\* changes none, so a settlement never holds one wallet of its two.
PreemptIsAtomic ==
    [][\A id \in Tasks :
        (~ContainsTask(id) /\ ContainsTask(id)') =>
            \A key \in GetTaskQueueKey(id)' : \A i \in DOMAIN task_queues'[key] :
                task_queues'[key][i].id = id =>
                    /\ GetTaskQueueKey(id)' = task_queues'[key][i].descriptor
                    /\ task_queues'[key][i].state = Preemptive =>
                            i = 1 /\ task_queues'[key][i].descriptor \subseteq paused']_vars

\* get_task_history returns at most len tasks, and exactly len when the
\* queue and the history together hold that many tasks with a historical
\* form: the room left for the history is computed from the queue's length.
TaskHistoryFillsLen ==
    \A key \in Queues, len \in 0..MaxLen, unrecorded \in SUBSET Tasks :
        LET kept == Len(FromQueuedTasks(task_queues[key], unrecorded))
            result == GetTaskHistory(len, key, unrecorded)
        IN  /\ Len(result) <= len
            /\ kept = GetTaskQueueLen(key) =>
                    Len(result) = Least(len, kept + Len(task_history[key]))

\* The task queues implement TaskQueueSpec: queues are first in, first out,
\* only the task at the front runs, and PreemptTaskQueues changes all of
\* its queues or none.
Abstract ==
    INSTANCE TaskQueueSpec WITH
        order <- [key \in Queues |-> [i \in DOMAIN task_queues[key] |-> task_queues[key][i].id]],
        active <- [key \in Queues |->
                    {task_queues[key][i].id : i \in
                        {i \in DOMAIN task_queues[key] :
                            task_queues[key][i].state.tag \in {"Running", "Preemptive"}}}],
        halted <- paused,
        known <- issued

ImplementsTaskQueueSpec == Abstract!Spec

=============================================================================
