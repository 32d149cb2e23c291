------------------------- MODULE SiemExporterProofs -------------------------
(***************************************************************************)
(* The safety properties of SiemExporter, for every number of records,     *)
(* background tasks and concurrent stops, and every outbox and batch size. *)
(***************************************************************************)
EXTENDS SiemExporter, TLAPS

\* Everything popped so far was popped from the left.
Popped == delivered \cup lost \cup UNION {batch[f] : f \in Flushers}

PoppedBelowHead == Popped \subseteq 1 .. head

\* Where the two kinds of flushers can be.
Roles ==
  /\ \A w \in Workers : pc[w] \in {"done", "asleep", "sending", "backoff"}
  /\ \A s \in Stoppers : pc[s] \in {"idle", "awaiting", "sending"}
  /\ \A s \in Stoppers : pc[s] = "awaiting" => awaited[s] \in Workers
  /\ \A f \in Flushers : pc[f] # "sending" => batch[f] = {}

\* Without a race, every stop awaits the current task or finds none.
AwaitsCurrent ==
  ~raced => /\ Alive \subseteq {task}
            /\ \A s \in Stoppers : pc[s] = "awaiting" => task \in {awaited[s], NoTask}

IInv ==
  /\ TypeOK
  /\ PoppedBelowHead
  /\ OnePlace
  /\ Roles
  /\ AwaitsCurrent

-----------------------------------------------------------------------------
(***************************************************************************)
(* The inductive invariant holds of an exporter that was just built.       *)
(***************************************************************************)
LEMMA InitIInv == Init => IInv
<1> SUFFICES ASSUME Init PROVE IInv
  OBVIOUS
<1> USE ExporterAssumption DEF ExporterAssumption, Init, Flushers
<1>1. TypeOK
  <2>1. head \in 0 .. tail /\ tail \in 0 .. NRecords /\ tail - head <= MaxOutbox
    OBVIOUS
  <2>2. pc \in [Flushers -> {"done", "asleep", "sending", "backoff", "idle", "awaiting"}]
    OBVIOUS
  <2> QED BY <2>1, <2>2 DEF TypeOK
<1>2. UNION {batch[f] : f \in Flushers} = {}
  OBVIOUS
<1>3. PoppedBelowHead
  BY <1>2 DEF PoppedBelowHead, Popped
<1>4. OnePlace
  BY <1>2 DEF OnePlace, outbox
<1>5. Roles /\ AwaitsCurrent
  BY DEF Roles, AwaitsCurrent, Alive
<1> QED BY <1>1, <1>3, <1>4, <1>5 DEF IInv

(***************************************************************************)
(* A flusher that pops the next batch, after settling the one it had,      *)
(* keeps every record in one place.                                        *)
(***************************************************************************)
LEMMA FlushKeepsPlaces ==
  ASSUME IInv, NEW f \in Flushers, NEW resting, FlushOn(f, resting),
         UNCHANGED <<tail, lost>>, delivered' = delivered \cup batch[f]
  PROVE  /\ head' \in 0 .. tail /\ head <= head'
         /\ batch' \in [Flushers -> SUBSET (1 .. NRecords)]
         /\ delivered' \in SUBSET (1 .. NRecords)
         /\ PoppedBelowHead' /\ OnePlace'
<1> DEFINE n == IF tail - head < BatchSize THEN tail - head ELSE BatchSize
<1>1. /\ n \in Nat /\ head' = head + n /\ head + n <= tail
      /\ batch'[f] = head + 1 .. head + n
      /\ \A g \in Flushers \ {f} : batch'[g] = batch[g]
  BY ExporterAssumption DEF ExporterAssumption, FlushOn, IInv, TypeOK
<1> HIDE DEF n
<1>2. /\ batch' \in [Flushers -> SUBSET (1 .. NRecords)]
      /\ delivered' \in SUBSET (1 .. NRecords)
  <2>1. head + 1 .. head + n \subseteq 1 .. NRecords
    BY <1>1, ExporterAssumption DEF ExporterAssumption, IInv, TypeOK
  <2>2. batch' = [batch EXCEPT ![f] = head + 1 .. head + n]
    BY DEF FlushOn, n
  <2> QED BY <2>1, <2>2 DEF IInv, TypeOK
<1>3. PoppedBelowHead'
  <2>1. head \in Nat /\ head' \in Nat /\ 1 .. head \subseteq 1 .. head'
    BY <1>1 DEF IInv, TypeOK
  <2>2. batch[f] \subseteq Popped /\ Popped \subseteq 1 .. head
    BY DEF IInv, PoppedBelowHead, Popped
  <2>3. delivered' \cup lost' \subseteq 1 .. head'
    BY <2>1, <2>2 DEF Popped
  <2>4. ASSUME NEW g \in Flushers PROVE batch'[g] \subseteq 1 .. head'
    <3>1. CASE g = f
      BY <3>1, <1>1, <2>1
    <3>2. CASE g # f
      BY <3>2, <1>1, <2>1, <2>2 DEF Popped
    <3> QED BY <3>1, <3>2
  <2> QED BY <2>3, <2>4 DEF PoppedBelowHead, Popped
<1>4. OnePlace'
  <2>1. 1 .. tail' = outbox' \cup delivered' \cup lost'
                       \cup UNION {batch'[g] : g \in Flushers}
    BY <1>1 DEF IInv, TypeOK, PoppedBelowHead, Popped, OnePlace, outbox
  <2>2. delivered' \cap lost' = {}
    BY DEF IInv, OnePlace
  <2>3. outbox' \cap (delivered' \cup lost') = {}
    BY <1>1 DEF IInv, TypeOK, OnePlace, outbox, PoppedBelowHead, Popped
  <2>4. ASSUME NEW g \in Flushers
        PROVE  batch'[g] \cap (outbox' \cup delivered' \cup lost') = {}
    BY <1>1 DEF IInv, TypeOK, OnePlace, outbox, PoppedBelowHead, Popped
  <2>5. ASSUME NEW g \in Flushers, NEW h \in Flushers \ {g}
        PROVE  batch'[g] \cap batch'[h] = {}
    BY <1>1 DEF IInv, TypeOK, OnePlace, outbox, PoppedBelowHead, Popped
  <2> QED BY <2>1, <2>2, <2>3, <2>4, <2>5 DEF OnePlace
<1> QED BY <1>1, <1>2, <1>3, <1>4 DEF IInv, TypeOK

(***************************************************************************)
(* So does a flusher whose send raised, or was cancelled.                  *)
(***************************************************************************)
LEMMA DropKeepsPlaces ==
  ASSUME IInv, NEW f \in Flushers, DropBatch(f), UNCHANGED <<outboxVars, displaced>>
  PROVE  /\ batch' \in [Flushers -> SUBSET (1 .. NRecords)]
         /\ delivered' \in SUBSET (1 .. NRecords)
         /\ lost' \in SUBSET (1 .. NRecords) /\ displaced' \in SUBSET lost'
         /\ PoppedBelowHead' /\ OnePlace'
<1>1. /\ batch'[f] = {}
      /\ \A g \in Flushers \ {f} : batch'[g] = batch[g]
      /\ head' = head /\ tail' = tail
  BY DEF DropBatch, IInv, TypeOK, outboxVars
<1>2. /\ batch' \in [Flushers -> SUBSET (1 .. NRecords)]
      /\ delivered' \in SUBSET (1 .. NRecords)
      /\ lost' \in SUBSET (1 .. NRecords) /\ displaced' \in SUBSET lost'
  BY DEF DropBatch, IInv, TypeOK
<1>3. delivered' \cup lost' = delivered \cup lost \cup batch[f]
  BY DEF DropBatch
<1>4. PoppedBelowHead'
  BY <1>1, <1>3 DEF IInv, PoppedBelowHead, Popped
<1>5. OnePlace'
  <2>1. 1 .. tail' = outbox' \cup delivered' \cup lost'
                       \cup UNION {batch'[g] : g \in Flushers}
    BY <1>1, <1>3 DEF IInv, OnePlace, outbox
  <2>2. delivered' \cap lost' = {}
    BY DEF DropBatch, IInv, OnePlace
  <2>3. outbox' \cap (delivered' \cup lost') = {}
    BY <1>1, <1>3 DEF IInv, OnePlace, outbox
  <2>4. ASSUME NEW g \in Flushers
        PROVE  batch'[g] \cap (outbox' \cup (delivered' \cup lost')) = {}
    BY <1>1, <1>3 DEF IInv, OnePlace, outbox
  <2>5. ASSUME NEW g \in Flushers, NEW h \in Flushers \ {g}
        PROVE  batch'[g] \cap batch'[h] = {}
    BY <1>1 DEF IInv, OnePlace
  <2> QED BY <2>1, <2>2, <2>3, <2>4, <2>5 DEF OnePlace
<1> QED BY <1>2, <1>4, <1>5

(***************************************************************************)
(* So does enqueue, with room in the outbox or without.                    *)
(***************************************************************************)
LEMMA EnqueueKeepsPlaces ==
  ASSUME IInv, Enqueue
  PROVE  TypeOK' /\ PoppedBelowHead' /\ OnePlace'
<1>1. TypeOK'
  <2>1. CASE tail - head = MaxOutbox
    <3>1. head + 1 \in 1 .. NRecords /\ head' \in 0 .. tail' /\ tail' \in 0 .. NRecords
          /\ tail' - head' <= MaxOutbox
      BY <2>1, ExporterAssumption DEF ExporterAssumption, Enqueue, IInv, TypeOK
    <3> QED BY <2>1, <3>1 DEF Enqueue, taskVars, IInv, TypeOK
  <2>2. CASE tail - head # MaxOutbox
    <3>1. head' \in 0 .. tail' /\ tail' \in 0 .. NRecords /\ tail' - head' <= MaxOutbox
      BY <2>2, ExporterAssumption DEF ExporterAssumption, Enqueue, IInv, TypeOK
    <3> QED BY <2>2, <3>1 DEF Enqueue, taskVars, IInv, TypeOK
  <2> QED BY <2>1, <2>2
<1>2. /\ tail' = tail + 1 /\ head' \in {head, head + 1} /\ head' <= tail
      /\ UNCHANGED <<batch, delivered>>
      /\ lost' = lost \cup (head + 1 .. head')
  BY ExporterAssumption DEF ExporterAssumption, Enqueue, IInv, TypeOK
<1>3. PoppedBelowHead'
  BY <1>2 DEF IInv, TypeOK, PoppedBelowHead, Popped
<1>4. OnePlace'
  <2>1. 1 .. tail' = outbox' \cup delivered' \cup lost'
                       \cup UNION {batch'[g] : g \in Flushers}
    <3>1. 1 .. tail' = (1 .. tail) \cup {tail + 1}
      BY <1>2 DEF IInv, TypeOK
    <3>2. outbox' \cup (head + 1 .. head') = outbox \cup {tail + 1}
      BY <1>2 DEF IInv, TypeOK, outbox
    <3> QED BY <1>2, <3>1, <3>2 DEF IInv, OnePlace
  <2>2. delivered' \cap lost' = {} /\ outbox' \cap (delivered' \cup lost') = {}
    <3>1. (head + 1 .. head') \subseteq outbox
      BY <1>2 DEF IInv, TypeOK, outbox
    <3> DEFINE h == head'
    <3>2. head \in Int /\ tail \in Int /\ h \in {head, head + 1} /\ h <= tail
          /\ outbox' = h + 1 .. tail + 1
      BY <1>2 DEF IInv, TypeOK, outbox
    <3> HIDE DEF h
    <3>3. (h + 1 .. tail + 1) \subseteq outbox \cup {tail + 1}
      <4>1. (h + 1 .. tail + 1) \subseteq (head + 1 .. tail) \cup {tail + 1}
        BY <3>2
      <4> QED BY <4>1 DEF outbox
    <3>4. outbox' \cap (head + 1 .. h) = {}
      BY <3>2
    <3>5. tail + 1 \notin delivered \cup lost
      BY DEF IInv, TypeOK, PoppedBelowHead, Popped
    <3> QED BY <1>2, <3>2, <3>1, <3>3, <3>4, <3>5 DEF IInv, OnePlace, h
  <2>3. ASSUME NEW g \in Flushers
        PROVE  batch'[g] \cap (outbox' \cup delivered' \cup lost') = {}
    BY <1>2 DEF IInv, TypeOK, OnePlace, outbox, PoppedBelowHead, Popped
  <2>4. ASSUME NEW g \in Flushers, NEW h \in Flushers \ {g}
        PROVE  batch'[g] \cap batch'[h] = {}
    BY <1>2 DEF IInv, OnePlace
  <2> QED BY <2>1, <2>2, <2>3, <2>4 DEF OnePlace
<1> QED BY <1>1, <1>3, <1>4

-----------------------------------------------------------------------------
(***************************************************************************)
(* The invariant is inductive.                                             *)
(***************************************************************************)
LEMMA NextIInv == IInv /\ [Next]_vars => IInv'
<1> SUFFICES ASSUME IInv, [Next]_vars PROVE IInv'
  OBVIOUS
<1> USE ExporterAssumption DEF ExporterAssumption, Flushers
<1>1. CASE Enqueue
  <2>1. Roles' /\ AwaitsCurrent'
    BY <1>1 DEF Enqueue, taskVars, IInv, Roles, AwaitsCurrent, Alive
  <2> QED BY <1>1, <2>1, EnqueueKeepsPlaces DEF IInv
<1>2. ASSUME NEW w \in Workers, Start(w) PROVE IInv'
  <2>1. TypeOK'
    BY <1>2 DEF Start, outboxVars, IInv, TypeOK
  <2>2. PoppedBelowHead' /\ OnePlace'
    BY <1>2 DEF Start, outboxVars, IInv, PoppedBelowHead, Popped, OnePlace, outbox
  <2>3. Roles'
    BY <1>2 DEF Start, Fresh, IInv, TypeOK, Roles
  <2>4. AwaitsCurrent'
    BY <1>2 DEF Start, TaskRuns, IInv, TypeOK, Roles, AwaitsCurrent, Alive
  <2> QED BY <2>1, <2>2, <2>3, <2>4 DEF IInv
<1>3. ASSUME NEW w \in Workers, Wake(w) PROVE IInv'
  <2>1. batch[w] = {} /\ FlushOn(w, "asleep")
    BY <1>3 DEF Wake, IInv, Roles
  <2>2. /\ head' \in 0 .. tail /\ head <= head'
        /\ batch' \in [Flushers -> SUBSET (1 .. NRecords)]
        /\ PoppedBelowHead' /\ OnePlace'
    BY <1>3, <2>1, FlushKeepsPlaces DEF Wake
  <2>3. TypeOK'
    BY <1>3, <2>1, <2>2 DEF Wake, FlushOn, IInv, TypeOK
  <2>4. Roles' /\ AwaitsCurrent'
    BY <1>3, <2>1 DEF Wake, FlushOn, IInv, TypeOK, Roles, AwaitsCurrent, Alive
  <2> QED BY <2>2, <2>3, <2>4 DEF IInv
<1>4. ASSUME NEW w \in Workers, BackoffOver(w) PROVE IInv'
  <2>1. TypeOK' /\ PoppedBelowHead' /\ OnePlace'
    BY <1>4 DEF BackoffOver, outboxVars, IInv, TypeOK, PoppedBelowHead, Popped,
       OnePlace, outbox
  <2>2. Roles' /\ AwaitsCurrent'
    BY <1>4 DEF BackoffOver, IInv, TypeOK, Roles, AwaitsCurrent, Alive
  <2> QED BY <2>1, <2>2 DEF IInv
<1>5. ASSUME NEW w \in Workers, CancelLands(w) PROVE IInv'
  <2>1. /\ batch' \in [Flushers -> SUBSET (1 .. NRecords)]
        /\ delivered' \in SUBSET (1 .. NRecords)
        /\ lost' \in SUBSET (1 .. NRecords) /\ displaced' \in SUBSET lost'
        /\ PoppedBelowHead' /\ OnePlace'
    BY <1>5, DropKeepsPlaces DEF CancelLands
  <2>2. TypeOK'
    BY <1>5, <2>1 DEF CancelLands, outboxVars, IInv, TypeOK
  <2>3. Roles' /\ AwaitsCurrent'
    BY <1>5 DEF CancelLands, DropBatch, IInv, TypeOK, Roles, AwaitsCurrent, Alive
  <2> QED BY <2>1, <2>2, <2>3 DEF IInv
<1>6. ASSUME NEW f \in Flushers, Sent(f) PROVE IInv'
  <2>1. /\ head' \in 0 .. tail /\ head <= head'
        /\ batch' \in [Flushers -> SUBSET (1 .. NRecords)]
        /\ delivered' \in SUBSET (1 .. NRecords)
        /\ PoppedBelowHead' /\ OnePlace'
    BY <1>6, FlushKeepsPlaces DEF Sent
  <2>2. TypeOK'
    BY <1>6, <2>1 DEF Sent, FlushOn, Resting, IInv, TypeOK
  <2>3. Roles' /\ AwaitsCurrent'
    BY <1>6 DEF Sent, FlushOn, Resting, IInv, TypeOK, Roles, AwaitsCurrent, Alive
  <2> QED BY <2>1, <2>2, <2>3 DEF IInv
<1>7. ASSUME NEW f \in Flushers, SendFails(f) PROVE IInv'
  <2>1. /\ batch' \in [Flushers -> SUBSET (1 .. NRecords)]
        /\ delivered' \in SUBSET (1 .. NRecords)
        /\ lost' \in SUBSET (1 .. NRecords) /\ displaced' \in SUBSET lost'
        /\ PoppedBelowHead' /\ OnePlace'
    BY <1>7, DropKeepsPlaces DEF SendFails
  <2>2. TypeOK'
    BY <1>7, <2>1 DEF SendFails, outboxVars, IInv, TypeOK
  <2>3. Roles' /\ AwaitsCurrent'
    BY <1>7 DEF SendFails, DropBatch, IInv, TypeOK, Roles, AwaitsCurrent, Alive
  <2> QED BY <2>1, <2>2, <2>3 DEF IInv
<1>8. ASSUME NEW s \in Stoppers, StopRunning(s) PROVE IInv'
  <2>1. TypeOK' /\ PoppedBelowHead' /\ OnePlace'
    BY <1>8 DEF StopRunning, TaskRuns, outboxVars, IInv, TypeOK, PoppedBelowHead,
       Popped, OnePlace, outbox
  <2>2. Roles' /\ AwaitsCurrent'
    BY <1>8 DEF StopRunning, TaskRuns, IInv, TypeOK, Roles, AwaitsCurrent, Alive
  <2> QED BY <2>1, <2>2 DEF IInv
<1>9. ASSUME NEW s \in Stoppers, StopEnded(s) \/ StopResumes(s) PROVE IInv'
  <2>1. /\ batch[s] = {} /\ FlushOn(s, "idle") /\ task' = NoTask
        /\ UNCHANGED <<tail, cancelled, delivered, lost, displaced, raced>>
        /\ awaited' \in {awaited, [awaited EXCEPT ![s] = NoTask]}
    BY <1>9 DEF StopEnded, StopResumes, IInv, Roles
  <2>2. /\ head' \in 0 .. tail /\ head <= head'
        /\ batch' \in [Flushers -> SUBSET (1 .. NRecords)]
        /\ PoppedBelowHead' /\ OnePlace'
    BY <2>1, FlushKeepsPlaces
  <2>3. TypeOK'
    BY <2>1, <2>2 DEF FlushOn, IInv, TypeOK
  <2>4. Roles'
    BY <2>1 DEF FlushOn, IInv, TypeOK, Roles
  <2>5. AwaitsCurrent'
    <3>1. ~raced => Alive = {}
      BY <1>9 DEF StopEnded, StopResumes, TaskRuns, IInv, TypeOK, Roles,
         AwaitsCurrent, Alive
    <3>2. Alive' = Alive
      BY <2>1 DEF FlushOn, IInv, TypeOK, Alive
    <3> QED BY <2>1, <3>1, <3>2 DEF AwaitsCurrent
  <2> QED BY <2>2, <2>3, <2>4, <2>5 DEF IInv
<1>10. CASE UNCHANGED vars
  BY <1>10 DEF vars, IInv, TypeOK, PoppedBelowHead, Popped, OnePlace, outbox, Roles,
     AwaitsCurrent, Alive
<1> QED BY <1>1, <1>2, <1>3, <1>4, <1>5, <1>6, <1>7, <1>8, <1>9, <1>10 DEF Next

(***************************************************************************)
(* Type correctness, with the outbox within max_outbox.                    *)
(***************************************************************************)
THEOREM TypeCorrect == Spec => []TypeOK
<1>1. IInv => TypeOK
  BY DEF IInv
<1> QED BY <1>1, InitIInv, NextIInv, PTL DEF Spec

(***************************************************************************)
(* Every audit record is in exactly one place at any time.                 *)
(***************************************************************************)
THEOREM RecordsInOnePlace == Spec => []OnePlace
<1>1. IInv => OnePlace
  BY DEF IInv
<1> QED BY <1>1, InitIInv, NextIInv, PTL DEF Spec

(***************************************************************************)
(* Only a start during a stop's await makes a second background task.      *)
(***************************************************************************)
THEOREM OneTask == Spec => []OneTaskUnlessRaced
<1>1. IInv => OneTaskUnlessRaced
  BY DEF IInv, AwaitsCurrent, OneTaskUnlessRaced
<1> QED BY <1>1, InitIInv, NextIInv, PTL DEF Spec

=============================================================================
