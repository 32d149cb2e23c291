---------------------------- MODULE SiemExporter ----------------------------
(***************************************************************************)
(* The audit exporter of observability/siem_exporter.py: a bounded outbox, *)
(* a background task that flushes it, and callers of start and stop.       *)
(*                                                                         *)
(* Audit records are numbered in the order of their enqueue.  The outbox   *)
(* is appended on the right and popped on the left only, so it always      *)
(* holds the records head+1 .. tail.  A task suspends in its sleeps, in    *)
(* the transport's send and, in stop, in the await of the cancelled task;  *)
(* between two of these points it runs alone.  The lengths of the sleeps   *)
(* (flush interval, backoff) are left open.                                *)
(***************************************************************************)
EXTENDS Integers, FiniteSets

CONSTANTS
  NRecords,    \* bound on the number of records enqueued
  MaxOutbox,   \* max_outbox
  BatchSize,   \* batch_size
  Workers,     \* background tasks that may exist at a time
  Stoppers,    \* callers of stop
  NoTask       \* None in _task

ASSUME ExporterAssumption ==
  /\ NRecords \in Nat
  /\ MaxOutbox \in Nat \ {0}
  /\ BatchSize \in Nat \ {0}
  /\ Workers \cap Stoppers = {}
  /\ NoTask \notin Workers \cup Stoppers

Flushers == Workers \cup Stoppers

VARIABLES
  head, tail,  \* _outbox
  task,        \* _task
  pc,          \* where each background task and each caller of stop is
  awaited,     \* the task that a caller of stop awaits
  cancelled,   \* tasks with a cancellation on its way
  batch,       \* popped records a flusher is sending
  delivered,   \* records the SIEM has ingested
  lost,        \* records it never will
  displaced,   \* history: those of them the full outbox dropped
  raced        \* history: whether start ran while a stop was awaiting

outboxVars == <<head, tail>>
taskVars == <<task, pc, awaited, cancelled>>
vars == <<head, tail, task, pc, awaited, cancelled, batch, delivered, lost,
          displaced, raced>>

outbox == head + 1 .. tail

\* _task is there and not done().
TaskRuns == task # NoTask /\ pc[task] # "done"

Alive == {w \in Workers : pc[w] # "done"}

\* A task nobody awaits any more, whose name a new task may take.
Fresh == {w \in Workers : pc[w] = "done" /\ \A s \in Stoppers : awaited[s] # w}

Init ==
  /\ head = 0 /\ tail = 0
  /\ task = NoTask
  /\ pc = [f \in Flushers |-> IF f \in Workers THEN "done" ELSE "idle"]
  /\ awaited = [s \in Stoppers |-> NoTask]
  /\ cancelled = {}
  /\ batch = [f \in Flushers |-> {}]
  /\ delivered = {} /\ lost = {} /\ displaced = {}
  /\ raced = FALSE

-----------------------------------------------------------------------------
\* enqueue: deque(maxlen) drops the oldest record when it is full.
Enqueue ==
  /\ tail < NRecords
  /\ tail' = tail + 1
  /\ IF tail - head = MaxOutbox
     THEN /\ head' = head + 1
          /\ lost' = lost \cup {head + 1}
          /\ displaced' = displaced \cup {head + 1}
     ELSE UNCHANGED <<head, lost, displaced>>
  /\ UNCHANGED <<taskVars, batch, delivered, raced>>

\* start, where it does something: there is no task, or it has ended.
Start(w) ==
  /\ w \in Fresh
  /\ ~TaskRuns
  /\ task' = w
  /\ pc' = [pc EXCEPT ![w] = "asleep"]
  /\ raced' = (raced \/ \E s \in Stoppers : pc[s] = "awaiting")
  /\ UNCHANGED <<outboxVars, awaited, cancelled, batch, delivered, lost, displaced>>

-----------------------------------------------------------------------------
(***************************************************************************)
(* _flush: pop a batch, send it, and again until the outbox is empty.      *)
(***************************************************************************)
\* The batch is what is sent next, and is popped one record too few.
Mutant_PopTooFew(f, resting) ==
  LET n == IF tail - head < BatchSize THEN tail - head ELSE BatchSize
  IN  /\ batch' = [batch EXCEPT ![f] = head + 1 .. head + n]
      /\ head' = IF n > 1 THEN head + n - 1 ELSE head + n
      /\ pc' = [pc EXCEPT ![f] = IF n > 0 THEN "sending" ELSE resting]

\* The head of the loop, in a task that rests at `resting` after it.
FlushOn(f, resting) ==
  LET n == IF tail - head < BatchSize THEN tail - head ELSE BatchSize
  IN  /\ batch' = [batch EXCEPT ![f] = head + 1 .. head + n]
      /\ head' = head + n
      /\ pc' = [pc EXCEPT ![f] = IF n > 0 THEN "sending" ELSE resting]

Resting(f) == IF f \in Workers THEN "asleep" ELSE "idle"

\* _run: the flush interval is over.  An empty outbox changes nothing.
Wake(w) ==
  /\ pc[w] = "asleep" /\ w \notin cancelled
  /\ head < tail
  /\ FlushOn(w, "asleep")
  /\ UNCHANGED <<tail, task, awaited, cancelled, delivered, lost, displaced, raced>>

\* send returned.
Sent(f) ==
  /\ pc[f] = "sending" /\ f \notin cancelled
  /\ delivered' = delivered \cup batch[f]
  /\ FlushOn(f, Resting(f))
  /\ UNCHANGED <<tail, task, awaited, cancelled, lost, displaced, raced>>

\* The popped batch of a send that did not return: the SIEM has it, or
\* nobody has.
DropBatch(f) ==
  /\ batch' = [batch EXCEPT ![f] = {}]
  /\ \/ delivered' = delivered \cup batch[f] /\ UNCHANGED lost
     \/ lost' = lost \cup batch[f] /\ UNCHANGED delivered

\* A flush whose exception ends the background task.
Mutant_FailureKillsTask(f) ==
  /\ pc[f] = "sending" /\ f \notin cancelled
  /\ DropBatch(f)
  /\ pc' = [pc EXCEPT ![f] = IF f \in Workers THEN "done" ELSE "idle"]
  /\ UNCHANGED <<outboxVars, task, awaited, cancelled, displaced, raced>>

\* send raised: _run logs it and backs off, stop hands it to its caller.
SendFails(f) ==
  /\ pc[f] = "sending" /\ f \notin cancelled
  /\ DropBatch(f)
  /\ pc' = [pc EXCEPT ![f] = IF f \in Workers THEN "backoff" ELSE "idle"]
  /\ UNCHANGED <<outboxVars, task, awaited, cancelled, displaced, raced>>

BackoffOver(w) ==
  /\ pc[w] = "backoff" /\ w \notin cancelled
  /\ pc' = [pc EXCEPT ![w] = "asleep"]
  /\ UNCHANGED <<outboxVars, task, awaited, cancelled, batch, delivered, lost,
                 displaced, raced>>

\* CancelledError ends _run wherever it is suspended, in a send too.
CancelLands(w) ==
  /\ w \in cancelled
  /\ pc' = [pc EXCEPT ![w] = "done"]
  /\ cancelled' = cancelled \ {w}
  /\ DropBatch(w)
  /\ UNCHANGED <<outboxVars, task, awaited, displaced, raced>>

-----------------------------------------------------------------------------
\* stop without the cancellation of the task it awaits.
Mutant_StopAwaitsOnly(s) ==
  /\ pc[s] = "idle"
  /\ TaskRuns
  /\ awaited' = [awaited EXCEPT ![s] = task]
  /\ pc' = [pc EXCEPT ![s] = "awaiting"]
  /\ UNCHANGED <<outboxVars, task, cancelled, batch, delivered, lost, displaced, raced>>

\* stop that neither cancels nor awaits, and forgets the task.
Mutant_StopForgets(s) ==
  /\ pc[s] = "idle"
  /\ task # NoTask
  /\ task' = NoTask
  /\ FlushOn(s, "idle")
  /\ UNCHANGED <<tail, awaited, cancelled, delivered, lost, displaced, raced>>

\* stop, of a running task: cancel it and await it.
StopRunning(s) ==
  /\ pc[s] = "idle"
  /\ TaskRuns
  /\ cancelled' = cancelled \cup {task}
  /\ awaited' = [awaited EXCEPT ![s] = task]
  /\ pc' = [pc EXCEPT ![s] = "awaiting"]
  /\ UNCHANGED <<outboxVars, task, batch, delivered, lost, displaced, raced>>

\* stop, of no task or one that has ended: nothing to wait for.
StopEnded(s) ==
  /\ pc[s] = "idle"
  /\ ~TaskRuns
  /\ task' = NoTask
  /\ FlushOn(s, "idle")
  /\ UNCHANGED <<tail, awaited, cancelled, delivered, lost, displaced, raced>>

\* stop goes on after its await: it forgets _task, whatever that is by now,
\* and flushes what is left.
StopResumes(s) ==
  /\ pc[s] = "awaiting"
  /\ pc[awaited[s]] = "done"
  /\ awaited' = [awaited EXCEPT ![s] = NoTask]
  /\ task' = NoTask
  /\ FlushOn(s, "idle")
  /\ UNCHANGED <<tail, cancelled, delivered, lost, displaced, raced>>

-----------------------------------------------------------------------------
Next ==
  \/ Enqueue
  \/ \E w \in Workers : Start(w) \/ Wake(w) \/ BackoffOver(w) \/ CancelLands(w)
  \/ \E f \in Flushers : Sent(f) \/ SendFails(f)
  \/ \E s \in Stoppers : StopRunning(s) \/ StopEnded(s) \/ StopResumes(s)

Spec == Init /\ [][Next]_vars

(***************************************************************************)
(* The event loop runs every task that is ready: sleeps end, cancellations *)
(* land, and send returns or raises (the HTTP client has a timeout).       *)
(***************************************************************************)
Fairness ==
  /\ \A w \in Workers : WF_vars(Wake(w)) /\ WF_vars(BackoffOver(w))
                        /\ WF_vars(CancelLands(w))
  /\ \A f \in Flushers : WF_vars(Sent(f) \/ SendFails(f))
  /\ \A s \in Stoppers : WF_vars(StopResumes(s))

LiveSpec == Spec /\ Fairness

-----------------------------------------------------------------------------
TypeOK ==
  /\ tail \in 0 .. NRecords
  /\ head \in 0 .. tail
  /\ tail - head <= MaxOutbox
  /\ task \in Workers \cup {NoTask}
  /\ pc \in [Flushers -> {"done", "asleep", "sending", "backoff", "idle", "awaiting"}]
  /\ awaited \in [Stoppers -> Workers \cup {NoTask}]
  /\ cancelled \in SUBSET Workers
  /\ batch \in [Flushers -> SUBSET (1 .. NRecords)]
  /\ delivered \in SUBSET (1 .. NRecords)
  /\ lost \in SUBSET (1 .. NRecords)
  /\ displaced \in SUBSET lost
  /\ raced \in BOOLEAN

(***************************************************************************)
(* Every record enqueued is in exactly one place, with any number of tasks *)
(* flushing at once: waiting, in one flusher's batch, ingested, or lost.   *)
(* So no record is sent twice, and none vanishes uncounted.                *)
(***************************************************************************)
OnePlace ==
  /\ 1 .. tail = outbox \cup delivered \cup lost \cup UNION {batch[f] : f \in Flushers}
  /\ delivered \cap lost = {}
  /\ outbox \cap (delivered \cup lost) = {}
  /\ \A f \in Flushers :
       /\ batch[f] \cap (outbox \cup delivered \cup lost) = {}
       /\ \A g \in Flushers \ {f} : batch[f] \cap batch[g] = {}

(***************************************************************************)
(* As long as start never ran while a stop was awaiting the task, at most  *)
(* one background task lives, and it is the one stop would cancel.         *)
(***************************************************************************)
OneTaskUnlessRaced == ~raced => Alive \subseteq {task}

(***************************************************************************)
(* A started exporter that is not stopped gets every record out of the     *)
(* outbox, however often the transport fails.                              *)
(***************************************************************************)
OutboxDrains ==
  \A r \in 1 .. NRecords :
    r \in outbox ~> (r \notin outbox \/ task = NoTask \/ task \in cancelled)

(***************************************************************************)
(* stop always gets past the task it cancelled.                            *)
(***************************************************************************)
StopReturns == \A s \in Stoppers : pc[s] = "awaiting" ~> pc[s] # "awaiting"

(***************************************************************************)
(* "Both transports include a retry loop with exponential backoff and a    *)
(* bounded outbox" (observability/siem_exporter.py:11-12): a record is     *)
(* given up only when the outbox is full.                                  *)
(***************************************************************************)
OnlyOverflowLoses == lost \subseteq displaced

=============================================================================
