-------------------------- MODULE EventQueue_proofs --------------------------
(***************************************************************************)
(* Proofs about the event queue, for every number of hooks, daemons, gw    *)
(* commands, events and kills.                                             *)
(***************************************************************************)
EXTENDS EventQueue, EventLines_proofs

-----------------------------------------------------------------------------
(* The inductive invariant.                                                *)

LEMMA InitQueueInv == Init => QueueInv
<1> SUFFICES ASSUME Init PROVE QueueInv
    OBVIOUS
<1> USE EventQueueAssumption DEF Init
<1>1. TypeOK
    BY DEF TypeOK, PcValue, LockFile, Line
<1>2. \A d \in Daemons : HoldsLocks(d) /\ DaemonMemory(d) /\ BatchCovered(d)
    BY DEF HoldsLocks, DaemonMemory, BatchCovered, LockFile, DaemonLockFile
<1>3. LineOrder
    BY DEF LineOrder, LastLines, Newer
<1> QED BY <1>1, <1>2, <1>3 DEF QueueInv, BatchIsPrefix, NoLostEvent

\* Types are kept; only the lines a daemon has yet to handle need to know where
\* it is: it forgets a batch when it has no line of it to handle.
LEMMA NextTypeOK ==
    ASSUME TypeOK, \A d \in Daemons : DaemonMemory(d), [Next]_vars
    PROVE  TypeOK'
<1>0. TypeOK /\ \A d \in Daemons : DaemonMemory(d)
    OBVIOUS
<1>1. ASSUME NEW h \in Hooks, NEW k \in Keys, NEW now \in BOOLEAN, EnqueueEvent(h, k, now)
      PROVE  TypeOK'
    <2>1. [id |-> enqueued + 1, key |-> k] \in Line
        BY <1>0, <1>1, EventQueueAssumption DEF EnqueueEvent, TypeOK, Line
    <2>2. queue' \in Seq(Line) /\ enqueued' \in 0..MaxEvents
        BY <1>0, <1>1, <2>1, EventQueueAssumption DEF EnqueueEvent, TypeOK
    <2>3. hookPc' \in [Hooks -> {"idle", "queued", "processing"}]
        BY <1>0, <1>1 DEF EnqueueEvent, TypeOK
    <2> QED BY <1>0, <1>1, <2>2, <2>3 DEF EnqueueEvent, TypeOK, daemonVars, history
<1>2. ASSUME NEW h \in Hooks, HookProcessEvent(h) PROVE TypeOK'
    BY <1>0, <1>2, EventQueueAssumption DEF HookProcessEvent, TypeOK, daemonVars, history
<1>3. ASSUME NEW h \in Hooks, HookDone(h) PROVE TypeOK'
    BY <1>0, <1>3, EventQueueAssumption DEF HookDone, TypeOK, daemonVars, history
<1>4. ASSUME NEW a \in Appliers, ManualCliLock(a) PROVE TypeOK'
    <2>1. applyLock' \in [LockFile -> Daemons \cup Appliers \cup {NoOne}]
        BY <1>0, <1>4 DEF ManualCliLock, TypeOK
    <2>2. applying' \in SUBSET Appliers /\ applies' \in 0..MaxApplies
        BY <1>0, <1>4, EventQueueAssumption DEF ManualCliLock, TypeOK
    <2> QED BY <1>0, <1>4, <2>1, <2>2 DEF ManualCliLock, TypeOK, daemonVars, history
<1>5. ASSUME NEW a \in Appliers, ManualCliDone(a) PROVE TypeOK'
    BY <1>0, <1>5, EventQueueAssumption DEF ManualCliDone, TypeOK, daemonVars, history, LockFile, CliLockFile
<1>6. ASSUME NEW d \in Daemons, TakeProcessLock(d) PROVE TypeOK'
    BY <1>0, <1>6, EventQueueAssumption DEF TakeProcessLock, TypeOK, history, PcValue
<1>7. ASSUME NEW d \in Daemons, TakeApplyLock(d) PROVE TypeOK'
    <2>1. CASE applyLock[DaemonLockFile] = NoOne
        <3>1. /\ applyLock' = [applyLock EXCEPT ![DaemonLockFile] = d]
              /\ pc' = [pc EXCEPT ![d] = "read"] /\ UNCHANGED processLock
            BY <1>7, <2>1 DEF TakeApplyLock
        <3>2. applyLock' \in [LockFile -> Daemons \cup Appliers \cup {NoOne}]
            BY <1>0, <3>1 DEF TypeOK
        <3>3. pc' \in [Daemons -> PcValue]
            BY <1>0, <3>1 DEF TypeOK, PcValue
        <3> QED BY <1>0, <1>7, <3>1, <3>2, <3>3 DEF TakeApplyLock, TypeOK, history
    <2>2. CASE applyLock[DaemonLockFile] # NoOne
        BY <1>0, <1>7, <2>2 DEF TakeApplyLock, TypeOK, history, PcValue
    <2> QED BY <2>1, <2>2
<1>8. ASSUME NEW d \in Daemons, ReadEventBatch(d) PROVE TypeOK'
    BY <1>0, <1>8, EventQueueAssumption DEF ReadEventBatch, TypeOK, history, PcValue, Latest
<1>9. ASSUME NEW d \in Daemons, StartEvent(d) PROVE TypeOK'
    <2>1. PICK i \in todo[d] :
            /\ todo' = [todo EXCEPT ![d] = @ \ {i}]
            /\ starts' = [n \in 1..MaxEvents |->
                           IF n \in Covered(batch[d], i) THEN starts[n] + 1 ELSE starts[n]]
            /\ lastId' = batch[d][i].id
        BY <1>9 DEF StartEvent
    <2>2. batch[d][i] \in Line
        BY <1>0 DEF TypeOK
    <2>3. lastId' \in 0..MaxEvents
        BY <2>1, <2>2, EventQueueAssumption DEF Line
    <2>4. starts' \in [1..MaxEvents -> Nat]
        <3>1. starts \in [1..MaxEvents -> Nat]
            BY <1>0 DEF TypeOK
        <3> QED BY <2>1, <3>1
    <2>5. /\ todo' \in [Daemons -> SUBSET Nat]
          /\ \A e \in Daemons : todo'[e] \subseteq DOMAIN batch[e]
        BY <1>0, <2>1 DEF TypeOK
    <2>6. pc' \in [Daemons -> PcValue]
        BY <1>0, <1>9 DEF StartEvent, TypeOK, PcValue
    <2> QED BY <1>0, <1>9, <2>3, <2>4, <2>5, <2>6 DEF StartEvent, TypeOK
<1>10. ASSUME NEW d \in Daemons, FinishEvent(d) PROVE TypeOK'
    BY <1>0, <1>10, EventQueueAssumption DEF FinishEvent, TypeOK, history, PcValue
<1>11. ASSUME NEW d \in Daemons, DeleteEventBatch(d) PROVE TypeOK'
    <2>1. CASE batch[d] = <<>>
        BY <1>0, <1>11, <2>1 DEF DeleteEventBatch, TypeOK, history, PcValue
    <2>2. CASE batch[d] # <<>>
        <3>1. Remaining(queue, batch[d]) \in Seq(Line)
            BY <1>0, RemainingIsSuffix DEF TypeOK
        <3>2. rest' \in [Daemons -> Seq(Line)] /\ queue' \in Seq(Line)
            <4>1. rest' = [rest EXCEPT ![d] = Remaining(queue, batch[d])] /\ queue' = <<>>
                BY <1>11, <2>2 DEF DeleteEventBatch
            <4>2. rest \in [Daemons -> Seq(Line)]
                BY <1>0 DEF TypeOK
            <4> QED BY <3>1, <4>1, <4>2
        <3>3. pc' \in [Daemons -> PcValue] /\ appendLock' \in Daemons \cup {NoOne}
            BY <1>0, <1>11, <2>2 DEF DeleteEventBatch, TypeOK, PcValue
        <3> QED BY <1>0, <1>11, <3>2, <3>3 DEF DeleteEventBatch, TypeOK, history
    <2> QED BY <2>1, <2>2
<1>12. ASSUME NEW d \in Daemons, WriteRemaining(d) PROVE TypeOK'
    BY <1>0, <1>12, EventQueueAssumption DEF WriteRemaining, TypeOK, history, PcValue
<1>13. ASSUME NEW d \in Daemons, ReleaseLocks(d) PROVE TypeOK'
    BY <1>0, <1>13, EventQueueAssumption DEF ReleaseLocks, TypeOK, history, PcValue, LockFile, DaemonLockFile, DaemonMemory
<1>14. ASSUME NEW d \in Daemons, Kill(d) PROVE TypeOK'
    <2>1. Ids(rest[d]) \subseteq 1..MaxEvents
        <3>1. rest[d] \in Seq(Line)
            BY <1>0 DEF TypeOK
        <3>2. \A i \in DOMAIN rest[d] : rest[d][i] \in Line
            BY <3>1
        <3> QED BY <3>2 DEF Ids, Line
    <2>2. torn' \in SUBSET (1..MaxEvents) /\ crashes' \in 0..MaxCrashes /\ lastId' \in 0..MaxEvents
        <3>1. torn' = torn \cup Ids(rest[d]) /\ crashes < MaxCrashes /\ crashes' = crashes + 1
              /\ lastId' = 0
            BY <1>14 DEF Kill
        <3>2. torn \in SUBSET (1..MaxEvents) /\ crashes \in 0..MaxCrashes
            BY <1>0 DEF TypeOK
        <3>3. torn' \in SUBSET (1..MaxEvents)
            BY <2>1, <3>1, <3>2
        <3>4. crashes' \in 0..MaxCrashes /\ lastId' \in 0..MaxEvents
            BY <3>1, <3>2, EventQueueAssumption
        <3> QED BY <3>3, <3>4
    <2>3. /\ applyLock' \in [LockFile -> Daemons \cup Appliers \cup {NoOne}]
          /\ appendLock' \in Daemons \cup {NoOne} /\ processLock' \in Daemons \cup {NoOne}
        BY <1>0, <1>14 DEF Kill, TypeOK
    <2>4. /\ pc' \in [Daemons -> PcValue] /\ batch' \in [Daemons -> Seq(Line)]
          /\ rest' \in [Daemons -> Seq(Line)] /\ todo' \in [Daemons -> SUBSET Nat]
        BY <1>0, <1>14 DEF Kill, TypeOK, PcValue
    <2>5. \A e \in Daemons : todo'[e] \subseteq DOMAIN batch'[e]
        BY <1>0, <1>14 DEF Kill, TypeOK
    <2> QED BY <1>0, <1>14, <2>2, <2>3, <2>4, <2>5 DEF Kill, TypeOK
<1>15. CASE UNCHANGED vars
    BY <1>0, <1>15 DEF TypeOK, vars, daemonVars, history
<1> QED
    BY <1>1, <1>2, <1>3, <1>4, <1>5, <1>6, <1>7, <1>8,
       <1>9, <1>10, <1>11, <1>12, <1>13, <1>14, <1>15
    DEF Next, HookStep, CliStep, DaemonStep

(***************************************************************************)
(* The three locks: each is held by the one daemon whose position in       *)
(* process_event_queue says so, and a gw command holds its apply lock as   *)
(* long as it runs.                                                        *)
(***************************************************************************)
LocksHeld ==
    /\ \A d \in Daemons : HoldsLocks(d)
    /\ \A a \in applying : applyLock[CliLockFile] = a

LEMMA NextLocksHeld ==
    ASSUME TypeOK, LocksHeld, [Next]_vars
    PROVE  LocksHeld'
<1>0. TypeOK /\ LocksHeld
    OBVIOUS
<1> USE EventQueueAssumption, <1>0
    DEF TypeOK, LocksHeld, HoldsLocks, DaemonLockFile, CliLockFile, LockFile
<1>1. ASSUME NEW h \in Hooks, NEW k \in Keys, NEW now \in BOOLEAN, EnqueueEvent(h, k, now)
      PROVE  LocksHeld'
    BY <1>1 DEF EnqueueEvent, daemonVars
<1>2. ASSUME NEW h \in Hooks, HookProcessEvent(h) PROVE LocksHeld'
    BY <1>2 DEF HookProcessEvent, daemonVars
<1>3. ASSUME NEW h \in Hooks, HookDone(h) PROVE LocksHeld'
    BY <1>3 DEF HookDone, daemonVars
<1>4. ASSUME NEW a \in Appliers, ManualCliLock(a) PROVE LocksHeld'
    BY <1>4 DEF ManualCliLock, daemonVars
<1>5. ASSUME NEW a \in Appliers, ManualCliDone(a) PROVE LocksHeld'
    BY <1>5 DEF ManualCliDone, daemonVars
<1>6. ASSUME NEW d \in Daemons, TakeProcessLock(d) PROVE LocksHeld'
    BY <1>6 DEF TakeProcessLock
<1>7. ASSUME NEW d \in Daemons, TakeApplyLock(d) PROVE LocksHeld'
    BY <1>7 DEF TakeApplyLock
<1>8. ASSUME NEW d \in Daemons, ReadEventBatch(d) PROVE LocksHeld'
    BY <1>8 DEF ReadEventBatch
<1>9. ASSUME NEW d \in Daemons, StartEvent(d) PROVE LocksHeld'
    BY <1>9 DEF StartEvent
<1>10. ASSUME NEW d \in Daemons, FinishEvent(d) PROVE LocksHeld'
    BY <1>10 DEF FinishEvent
<1>11. ASSUME NEW d \in Daemons, DeleteEventBatch(d) PROVE LocksHeld'
    BY <1>11 DEF DeleteEventBatch
<1>12. ASSUME NEW d \in Daemons, WriteRemaining(d) PROVE LocksHeld'
    BY <1>12 DEF WriteRemaining
<1>13. ASSUME NEW d \in Daemons, ReleaseLocks(d) PROVE LocksHeld'
    BY <1>13 DEF ReleaseLocks
<1>14. ASSUME NEW d \in Daemons, Kill(d) PROVE LocksHeld'
    BY <1>14 DEF Kill
<1>15. CASE UNCHANGED vars
    BY <1>15 DEF vars, daemonVars
<1> QED
    BY <1>1, <1>2, <1>3, <1>4, <1>5, <1>6, <1>7, <1>8,
       <1>9, <1>10, <1>11, <1>12, <1>13, <1>14, <1>15
    DEF Next, HookStep, CliStep, DaemonStep

(***************************************************************************)
(* What a daemon has in memory.                                            *)
(***************************************************************************)
MemoryKept == \A d \in Daemons : DaemonMemory(d)

LEMMA NextMemoryKept ==
    ASSUME TypeOK, LocksHeld, MemoryKept, [Next]_vars
    PROVE  MemoryKept'
<1>0. TypeOK /\ LocksHeld /\ MemoryKept
    OBVIOUS
<1> USE EventQueueAssumption, <1>0
    DEF TypeOK, LocksHeld, HoldsLocks, MemoryKept, DaemonMemory, DaemonLockFile
<1>1. ASSUME NEW h \in Hooks, NEW k \in Keys, NEW now \in BOOLEAN, EnqueueEvent(h, k, now)
      PROVE  MemoryKept'
    BY <1>1 DEF EnqueueEvent, daemonVars, history
<1>2. ASSUME NEW h \in Hooks, HookProcessEvent(h) PROVE MemoryKept'
    BY <1>2 DEF HookProcessEvent, daemonVars, history
<1>3. ASSUME NEW h \in Hooks, HookDone(h) PROVE MemoryKept'
    BY <1>3 DEF HookDone, daemonVars, history
<1>4. ASSUME NEW a \in Appliers, ManualCliLock(a) PROVE MemoryKept'
    BY <1>4 DEF ManualCliLock, daemonVars, history
<1>5. ASSUME NEW a \in Appliers, ManualCliDone(a) PROVE MemoryKept'
    BY <1>5 DEF ManualCliDone, daemonVars, history
<1>6. ASSUME NEW d \in Daemons, TakeProcessLock(d) PROVE MemoryKept'
    BY <1>6 DEF TakeProcessLock, history
<1>7. ASSUME NEW d \in Daemons, TakeApplyLock(d) PROVE MemoryKept'
    BY <1>7 DEF TakeApplyLock, history
<1>8. ASSUME NEW d \in Daemons, ReadEventBatch(d) PROVE MemoryKept'
    BY <1>8 DEF ReadEventBatch, history
<1>9. ASSUME NEW d \in Daemons, StartEvent(d) PROVE MemoryKept'
    BY <1>9 DEF StartEvent
<1>10. ASSUME NEW d \in Daemons, FinishEvent(d) PROVE MemoryKept'
    BY <1>10 DEF FinishEvent, history
<1>11. ASSUME NEW d \in Daemons, DeleteEventBatch(d) PROVE MemoryKept'
    <2>1. CASE batch[d] = <<>>
        BY <1>11, <2>1 DEF DeleteEventBatch
    <2>2. CASE batch[d] # <<>>
        BY <1>11, <2>2 DEF DeleteEventBatch
    <2> QED BY <2>1, <2>2
<1>12. ASSUME NEW d \in Daemons, WriteRemaining(d) PROVE MemoryKept'
    BY <1>12 DEF WriteRemaining, history
<1>13. ASSUME NEW d \in Daemons, ReleaseLocks(d) PROVE MemoryKept'
    BY <1>13 DEF ReleaseLocks, history
<1>14. ASSUME NEW d \in Daemons, Kill(d) PROVE MemoryKept'
    BY <1>14 DEF Kill
<1>15. CASE UNCHANGED vars
    BY <1>15 DEF vars, daemonVars, history
<1> QED
    BY <1>1, <1>2, <1>3, <1>4, <1>5, <1>6, <1>7, <1>8,
       <1>9, <1>10, <1>11, <1>12, <1>13, <1>14, <1>15
    DEF Next, HookStep, CliStep, DaemonStep

(***************************************************************************)
(* The file starts with the batch under way, and every line of the batch   *)
(* has been handled or is covered by a line still to be handled.           *)
(***************************************************************************)
BatchKept == BatchIsPrefix /\ \A d \in Daemons : BatchCovered(d)

LEMMA NextBatchKept ==
    ASSUME TypeOK, LocksHeld, BatchKept, [Next]_vars
    PROVE  BatchKept'
<1> DEFINE Busy == {"loop", "handling"}
<1> SUFFICES ASSUME NEW e \in Daemons, pc'[e] \in Busy
             PROVE  /\ StartsWith(queue', batch'[e])
                    /\ BatchCovered(e)'
    BY DEF BatchKept, BatchIsPrefix, BatchCovered
<1>1. /\ batch[e] \in Seq(Line) /\ queue \in Seq(Line)
      /\ pc \in [Daemons -> PcValue] /\ todo[e] \subseteq DOMAIN batch[e]
      /\ starts \in [1..MaxEvents -> Nat]
    BY DEF TypeOK
<1>2. \A i \in DOMAIN batch[e] : batch[e][i] \in Line /\ batch[e][i].id \in 1..MaxEvents
    <2>1. \A i \in DOMAIN batch[e] : batch[e][i] \in Line
        BY <1>1
    <2> QED BY <2>1 DEF Line
<1>3. pc[e] \in Busy =>
        /\ StartsWith(queue, batch[e])
        /\ \A i \in DOMAIN batch[e] :
             starts[batch[e][i].id] > 0 \/ \E j \in todo[e] : batch[e][j].key = batch[e][i].key
    BY DEF BatchKept, BatchIsPrefix, BatchCovered
<1>4. pc[e] \in Busy => processLock = e
    BY DEF LocksHeld, HoldsLocks
<1>5. ASSUME pc[e] \in Busy, UNCHANGED <<queue, batch, todo, starts>>
      PROVE  StartsWith(queue', batch'[e]) /\ BatchCovered(e)'
    BY <1>3, <1>5 DEF BatchCovered
\* Only the daemon that holds the process lock moves inside a batch.
<1>6. ASSUME NEW h \in Hooks, NEW k \in Keys, NEW now \in BOOLEAN, EnqueueEvent(h, k, now)
      PROVE  StartsWith(queue', batch'[e]) /\ BatchCovered(e)'
    <2>1. /\ queue' = Append(queue, [id |-> enqueued + 1, key |-> k])
          /\ UNCHANGED <<pc, batch, todo, starts>>
        BY <1>6 DEF EnqueueEvent, daemonVars, history
    <2>2. /\ Len(queue') = Len(queue) + 1
          /\ \A i \in 1..Len(queue) : queue'[i] = queue[i]
        BY <1>1, <2>1
    <2>3. StartsWith(queue, batch[e]) /\ BatchCovered(e)'
        BY <1>3, <2>1 DEF BatchCovered
    <2> QED BY <1>1, <2>1, <2>2, <2>3 DEF StartsWith
<1>7. ASSUME NEW h \in Hooks, HookProcessEvent(h) \/ HookDone(h)
      PROVE  StartsWith(queue', batch'[e]) /\ BatchCovered(e)'
    BY <1>5, <1>7 DEF HookProcessEvent, HookDone, daemonVars, history
<1>8. ASSUME NEW a \in Appliers, CliStep(a)
      PROVE  StartsWith(queue', batch'[e]) /\ BatchCovered(e)'
    BY <1>5, <1>8 DEF CliStep, ManualCliLock, ManualCliDone, daemonVars, history
<1>9. ASSUME NEW d \in Daemons, TakeProcessLock(d) \/ TakeApplyLock(d)
      PROVE  StartsWith(queue', batch'[e]) /\ BatchCovered(e)'
    <2>1. UNCHANGED <<queue, batch, todo, starts>>
        BY <1>9 DEF TakeProcessLock, TakeApplyLock, history
    <2>2. \E v \in {"apply", "read", "wait"} : pc' = [pc EXCEPT ![d] = v]
        BY <1>9 DEF TakeProcessLock, TakeApplyLock
    <2>3. pc[e] \in Busy
        BY <1>1, <2>2
    <2> QED BY <1>5, <2>1, <2>3
<1>10. ASSUME NEW d \in Daemons, ReadEventBatch(d)
       PROVE  StartsWith(queue', batch'[e]) /\ BatchCovered(e)'
    <2>1. /\ batch' = [batch EXCEPT ![d] = queue] /\ todo' = [todo EXCEPT ![d] = Latest(queue)]
          /\ pc[d] = "read" /\ pc' = [pc EXCEPT ![d] = "loop"] /\ UNCHANGED <<queue, starts>>
        BY <1>10 DEF ReadEventBatch, history
    <2>2. e = d
        <3>1. processLock = d
            BY <2>1 DEF LocksHeld, HoldsLocks
        <3> QED BY <1>1, <1>4, <2>1, <3>1
    <2>3. batch'[e] = queue /\ todo'[e] = Latest(queue)
        BY <2>1, <2>2 DEF TypeOK
    <2>4. \A i \in DOMAIN queue : \E j \in Latest(queue) : queue[j].key = queue[i].key
        BY <1>1, LatestCovers
    <2>5. StartsWith(queue', batch'[e])
        BY <1>1, <2>1, <2>3 DEF StartsWith
    <2>6. BatchCovered(e)'
        BY <2>3, <2>4 DEF BatchCovered
    <2> QED BY <2>5, <2>6
<1>11. ASSUME NEW d \in Daemons, StartEvent(d)
       PROVE  StartsWith(queue', batch'[e]) /\ BatchCovered(e)'
    <2>1. PICK i \in todo[d] :
            /\ todo' = [todo EXCEPT ![d] = @ \ {i}]
            /\ starts' = [n \in 1..MaxEvents |->
                           IF n \in Covered(batch[d], i) THEN starts[n] + 1 ELSE starts[n]]
        BY <1>11 DEF StartEvent
    <2>2. /\ UNCHANGED <<batch, queue>> /\ pc[d] = "loop"
          /\ pc' = [pc EXCEPT ![d] = "handling"]
        BY <1>11 DEF StartEvent
    <2>3. pc[e] \in Busy
        BY <1>1, <2>2
    <2>4. e = d
        <3>1. processLock = d
            BY <2>2 DEF LocksHeld, HoldsLocks
        <3> QED BY <1>4, <2>3, <3>1
    <2>5. todo'[e] = todo[e] \ {i}
        BY <2>1, <2>4 DEF TypeOK
    <2>6. ASSUME NEW m \in DOMAIN batch[e]
          PROVE  \/ starts'[batch[e][m].id] > 0
                 \/ \E j \in todo'[e] : batch[e][j].key = batch[e][m].key
        <3>1. CASE starts[batch[e][m].id] > 0
            BY <1>1, <1>2, <2>1, <3>1
        <3>2. CASE \E j \in todo[e] : j # i /\ batch[e][j].key = batch[e][m].key
            BY <2>5, <3>2
        <3>3. CASE batch[e][i].key = batch[e][m].key
            <4>1. batch[e][m].id \in Covered(batch[d], i)
                BY <2>4, <3>3 DEF Covered
            <4> QED BY <1>1, <1>2, <2>1, <4>1
        <3> QED BY <1>3, <2>3, <3>1, <3>2, <3>3
    <2> QED BY <1>3, <2>2, <2>3, <2>6 DEF BatchCovered
<1>12. ASSUME NEW d \in Daemons, FinishEvent(d)
       PROVE  StartsWith(queue', batch'[e]) /\ BatchCovered(e)'
    <2>1. /\ UNCHANGED <<queue, batch, todo, starts>> /\ pc[d] = "handling"
          /\ pc' = [pc EXCEPT ![d] = "loop"]
        BY <1>12 DEF FinishEvent, history
    <2>2. pc[e] \in Busy
        BY <1>1, <2>1
    <2> QED BY <1>5, <2>1, <2>2
<1>13. ASSUME NEW d \in Daemons, DeleteEventBatch(d) \/ WriteRemaining(d) \/ ReleaseLocks(d)
       PROVE  StartsWith(queue', batch'[e]) /\ BatchCovered(e)'
    <2>1. processLock = d /\ \E v \in {"unlock", "rewrite", "wait"} : pc' = [pc EXCEPT ![d] = v]
        BY <1>13 DEF DeleteEventBatch, WriteRemaining, ReleaseLocks, LocksHeld, HoldsLocks
    <2>2. pc[e] \in Busy /\ e # d
        BY <1>1, <2>1
    <2> QED BY <1>4, <2>1, <2>2
<1>14. ASSUME NEW d \in Daemons, Kill(d)
       PROVE  StartsWith(queue', batch'[e]) /\ BatchCovered(e)'
    <2>1. pc' = [pc EXCEPT ![d] = "wait"] /\ batch' = [batch EXCEPT ![d] = <<>>]
          /\ todo' = [todo EXCEPT ![d] = {}] /\ UNCHANGED <<queue, starts>>
        BY <1>14 DEF Kill
    <2>2. e # d /\ pc[e] \in Busy
        BY <1>1, <2>1
    <2>3. batch'[e] = batch[e] /\ todo'[e] = todo[e]
        BY <2>1, <2>2 DEF TypeOK
    <2> QED BY <1>3, <2>1, <2>2, <2>3 DEF BatchCovered
<1>15. CASE UNCHANGED vars
    BY <1>5, <1>15 DEF vars, daemonVars, history
<1> QED
    BY <1>6, <1>7, <1>8, <1>9, <1>10, <1>11, <1>12, <1>13, <1>14, <1>15
    DEF Next, HookStep, DaemonStep

(***************************************************************************)
(* The lines wait in the order of their enqueues, and nothing that waits   *)
(* is older than the line handled last.                                    *)
(***************************************************************************)
Busy == {"loop", "handling"}

\* A daemon inside a batch holds the process lock, so it is the only one.
LEMMA OneBusy ==
    ASSUME LocksHeld, NEW d \in Daemons, pc[d] # "wait", NEW e \in Daemons, pc[e] # "wait"
    PROVE  d = e
BY DEF LocksHeld, HoldsLocks

\* What a daemon is rewriting fits the file: the file is empty, no other daemon
\* is past "apply".
LEMMA RestIsAlone ==
    ASSUME LocksHeld, MemoryKept, NEW d \in Daemons, rest[d] # <<>>
    PROVE  queue = <<>> /\ \A e \in Daemons : e # d => rest[e] = <<>>
<1>1. pc[d] = "rewrite"
    BY DEF MemoryKept, DaemonMemory
<1>2. \A e \in Daemons : e # d => pc[e] = "wait"
    BY <1>1, OneBusy
<1> QED BY <1>1, <1>2 DEF MemoryKept, DaemonMemory

\* Later lines of the file have larger ids, none is larger than the last enqueue.
LEMMA LaterIsNewer ==
    ASSUME NEW lines \in Seq(Line), LastLines(lines), enqueued \in Nat
    PROVE  /\ \A i \in DOMAIN lines : lines[i].id \in 1..enqueued
           /\ \A i, j \in DOMAIN lines : lines[i].id <= lines[j].id <=> i <= j
<1>1. \A i \in DOMAIN lines : i \in Nat /\ i <= Len(lines) /\ Len(lines) \in Nat
    OBVIOUS
<1>2. \A i \in DOMAIN lines : lines[i].id \in Nat /\ lines[i].id >= 1
    <2>1. \A i \in DOMAIN lines : lines[i] \in Line
        OBVIOUS
    <2> QED BY <2>1, EventQueueAssumption DEF Line
<1>3. \A i \in DOMAIN lines : lines[i].id + Len(lines) = enqueued + i
    BY DEF LastLines
<1>4. \A a, n, e, i \in Nat : a >= 1 /\ i <= n /\ a + n = e + i => a \in 1..e
    OBVIOUS
<1>5. \A a, b, n, e, i, j \in Nat :
        a + n = e + i /\ b + n = e + j => (a <= b <=> i <= j)
    OBVIOUS
<1>6. \A i \in DOMAIN lines : lines[i].id \in 1..enqueued
    BY <1>1, <1>2, <1>3, <1>4
<1>7. \A i, j \in DOMAIN lines : lines[i].id <= lines[j].id <=> i <= j
    <2> SUFFICES ASSUME NEW i \in DOMAIN lines, NEW j \in DOMAIN lines
                 PROVE  lines[i].id <= lines[j].id <=> i <= j
        OBVIOUS
    <2>1. PICK a \in Nat, b \in Nat, n \in Nat :
            a = lines[i].id /\ b = lines[j].id /\ n = Len(lines)
        BY <1>1, <1>2
    <2>2. a + n = enqueued + i /\ b + n = enqueued + j /\ i \in Nat /\ j \in Nat
        BY <1>1, <1>3, <2>1
    <2>3. a <= b <=> i <= j
        BY <1>5, <2>2
    <2> QED BY <2>1, <2>3
<1> QED BY <1>6, <1>7

LEMMA NextLineOrder ==
    ASSUME TypeOK, LocksHeld, MemoryKept, BatchKept, LineOrder, [Next]_vars
    PROVE  LineOrder'
<1>0. TypeOK /\ LocksHeld /\ MemoryKept /\ BatchKept /\ LineOrder
    OBVIOUS
<1>1. /\ queue \in Seq(Line) /\ enqueued \in 0..MaxEvents /\ MaxEvents \in Nat
      /\ \A e \in Daemons : batch[e] \in Seq(Line) /\ rest[e] \in Seq(Line)
                            /\ todo[e] \subseteq DOMAIN batch[e]
      /\ rest \in [Daemons -> Seq(Line)] /\ batch \in [Daemons -> Seq(Line)]
      /\ todo \in [Daemons -> SUBSET Nat] /\ pc \in [Daemons -> PcValue]
      /\ starts \in [1..MaxEvents -> Nat] /\ lastId \in 0..MaxEvents
    BY <1>0, EventQueueAssumption DEF TypeOK
<1>2. \A lines \in Seq(Line) : \A i \in DOMAIN lines : lines[i].id \in 1..MaxEvents
    <2>1. \A lines \in Seq(Line) : \A i \in DOMAIN lines : lines[i] \in Line
        OBVIOUS
    <2> QED BY <2>1 DEF Line
<1>3. /\ LastLines(queue)
      /\ \A n \in 1..MaxEvents : starts[n] > 0 => n <= enqueued
      /\ lastId <= enqueued
      /\ \A d \in Daemons : LastLines(rest[d]) /\ Newer(rest[d])
      /\ \A d \in Daemons : pc[d] \in Busy => BatchOrder(d)
      /\ (\A d \in Daemons : pc[d] \notin Busy) => Newer(queue)
      /\ lastId \in {0, enqueued} \/ queue # <<>> \/ \E d \in Daemons : rest[d] # <<>>
    BY <1>0 DEF LineOrder, Busy
<1>4. ASSUME UNCHANGED <<queue, enqueued, rest, starts, lastId, batch, todo>>,
             \A e \in Daemons : pc'[e] \in Busy <=> pc[e] \in Busy
      PROVE  LineOrder'
    BY <1>3, <1>4 DEF LineOrder, LastLines, Newer, BatchOrder, Busy
<1>5. ASSUME NEW h \in Hooks, NEW k \in Keys, NEW now \in BOOLEAN, EnqueueEvent(h, k, now)
      PROVE  LineOrder'
    <2>1. /\ enqueued' = enqueued + 1 /\ queue' = Append(queue, [id |-> enqueued + 1, key |-> k])
          /\ appendLock = NoOne
          /\ UNCHANGED <<rest, starts, lastId, pc, batch, todo>>
        BY <1>5 DEF EnqueueEvent, daemonVars, history
    <2>2. /\ Len(queue') = Len(queue) + 1 /\ DOMAIN queue' = 1..(Len(queue) + 1)
          /\ Len(queue) \in Nat /\ DOMAIN queue = 1..Len(queue)
          /\ \A i \in DOMAIN queue : queue'[i] = queue[i]
          /\ queue'[Len(queue) + 1].id = enqueued + 1
        BY <1>1, <2>1
    <2>3. \A d \in Daemons : rest[d] = <<>>
        BY <1>0, <2>1, EventQueueAssumption DEF LocksHeld, HoldsLocks, MemoryKept, DaemonMemory
    <2>4. LastLines(queue)'
        <3> SUFFICES ASSUME NEW i \in DOMAIN queue'
                     PROVE  queue'[i].id + Len(queue') = enqueued' + i
            BY DEF LastLines
        <3>1. CASE i \in DOMAIN queue
            <4>1. queue[i].id + Len(queue) = enqueued + i /\ queue[i].id \in Nat
                BY <1>1, <1>2, <1>3, <3>1 DEF LastLines
            <4>2. queue'[i].id = queue[i].id
                BY <2>2, <3>1
            <4>3. i \in Nat /\ enqueued \in Nat /\ Len(queue) \in Nat
                BY <1>1, <2>2
            <4>4. Len(queue') = Len(queue) + 1 /\ enqueued' = enqueued + 1
                BY <2>1, <2>2
            <4>5. PICK a \in Nat, n \in Nat : a = queue[i].id /\ n = Len(queue)
                BY <4>1, <4>3
            <4>6. a + n = enqueued + i
                BY <4>1, <4>5
            <4>7. a + (n + 1) = (enqueued + 1) + i
                BY <4>3, <4>6
            <4> QED BY <4>2, <4>4, <4>5, <4>7
        <3>2. CASE i = Len(queue) + 1
            <4>1. enqueued \in Nat
                BY <1>1
            <4> QED BY <2>1, <2>2, <3>2, <4>1
        <3> QED BY <2>2, <3>1, <3>2
    <2>5. Newer(queue) => Newer(queue)'
        BY <1>1, <1>3, <2>1, <2>2 DEF Newer
    <2>6. \A d \in Daemons : LastLines(rest[d])' /\ Newer(rest[d])'
        BY <2>1, <2>3 DEF LastLines, Newer
    <2>7. ASSUME NEW d \in Daemons, pc[d] \in Busy PROVE BatchOrder(d)'
        <3>1. \A i \in DOMAIN queue : i > Len(batch[d]) => lastId < queue'[i].id
            BY <1>3, <2>2, <2>7 DEF BatchOrder
        <3>2. lastId < enqueued + 1
            BY <1>1, <1>3
        <3>3. \A i \in DOMAIN queue' : i \in DOMAIN queue \/ i = Len(queue) + 1
            BY <2>2
        <3>4. \A i \in DOMAIN queue' : i > Len(batch[d]) => lastId < queue'[i].id
            BY <2>2, <3>1, <3>2, <3>3
        <3> QED BY <1>3, <2>1, <2>7, <3>4 DEF BatchOrder
    <2>8. /\ \A n \in 1..MaxEvents : starts'[n] > 0 => n <= enqueued'
          /\ lastId' <= enqueued'
        BY <1>1, <1>3, <2>1
    <2>9. queue' # <<>>
        BY <2>2
    <2> QED BY <1>3, <2>1, <2>4, <2>5, <2>6, <2>7, <2>8, <2>9 DEF LineOrder, Busy
<1>6. ASSUME NEW h \in Hooks, HookProcessEvent(h) \/ HookDone(h) PROVE LineOrder'
    BY <1>4, <1>6 DEF HookProcessEvent, HookDone, daemonVars, history
<1>7. ASSUME NEW a \in Appliers, CliStep(a) PROVE LineOrder'
    BY <1>4, <1>7 DEF CliStep, ManualCliLock, ManualCliDone, daemonVars, history
<1>8. ASSUME NEW d \in Daemons, TakeProcessLock(d) \/ TakeApplyLock(d) \/ FinishEvent(d)
      PROVE  LineOrder'
    <2>1. UNCHANGED <<queue, enqueued, rest, starts, lastId, batch, todo>>
        BY <1>8 DEF TakeProcessLock, TakeApplyLock, FinishEvent, history
    <2>2. \/ pc[d] \notin Busy /\ \E v \in {"apply", "read", "wait"} : pc' = [pc EXCEPT ![d] = v]
          \/ pc[d] \in Busy /\ pc' = [pc EXCEPT ![d] = "loop"]
        BY <1>8 DEF TakeProcessLock, TakeApplyLock, FinishEvent, Busy
    <2>3. \A e \in Daemons : pc'[e] \in Busy <=> pc[e] \in Busy
        BY <1>1, <2>2 DEF Busy
    <2> QED BY <1>4, <2>1, <2>3
<1>9. ASSUME NEW d \in Daemons, ReadEventBatch(d) PROVE LineOrder'
    <2>1. /\ pc[d] = "read" /\ pc' = [pc EXCEPT ![d] = "loop"]
          /\ batch' = [batch EXCEPT ![d] = queue] /\ todo' = [todo EXCEPT ![d] = Latest(queue)]
          /\ UNCHANGED <<queue, enqueued, rest, starts, lastId>>
        BY <1>9 DEF ReadEventBatch, history
    <2>2. \A e \in Daemons : e # d => pc'[e] \notin Busy /\ pc[e] \notin Busy
        <3>1. \A e \in Daemons : e # d => pc[e] = "wait"
            BY <1>0, <2>1, OneBusy
        <3> QED BY <1>1, <2>1, <3>1 DEF Busy
    <2>3. Newer(queue)
        BY <1>3, <2>1, <2>2 DEF Busy
    <2>4. Latest(queue) \subseteq DOMAIN queue
        BY DEF Latest
    <2>5. queue # <<>> => Len(queue) \in Latest(queue)
        BY <1>1 DEF Latest
    <2>6. batch'[d] = queue /\ todo'[d] = Latest(queue) /\ pc'[d] = "loop"
        BY <1>1, <2>1
    <2>7. BatchOrder(d)'
        <3>1. \A i \in DOMAIN queue : ~ (i > Len(queue))
            BY <1>1
        <3> QED BY <2>1, <2>3, <2>4, <2>5, <2>6, <3>1 DEF BatchOrder, Newer
    <2> QED BY <1>3, <2>1, <2>2, <2>3, <2>6, <2>7 DEF LineOrder, LastLines, Newer, Busy
\* The batch is in front of the file; the line picked is its first unhandled.
<1>10. ASSUME NEW d \in Daemons, StartEvent(d) PROVE LineOrder'
    <2>1. PICK i \in todo[d] :
            /\ \A j \in todo[d] : i <= j
            /\ todo' = [todo EXCEPT ![d] = @ \ {i}]
            /\ starts' = [n \in 1..MaxEvents |->
                           IF n \in Covered(batch[d], i) THEN starts[n] + 1 ELSE starts[n]]
            /\ lastId' = batch[d][i].id
        BY <1>10 DEF StartEvent
    <2>2. /\ UNCHANGED <<queue, enqueued, rest, batch>> /\ pc[d] = "loop"
          /\ pc' = [pc EXCEPT ![d] = "handling"]
        BY <1>10 DEF StartEvent
    <2>3. StartsWith(queue, batch[d]) /\ BatchOrder(d)
        BY <1>0, <1>3, <2>2 DEF BatchKept, BatchIsPrefix, Busy
    <2>4. /\ Len(batch[d]) \in Nat /\ Len(queue) \in Nat /\ Len(batch[d]) <= Len(queue)
          /\ DOMAIN batch[d] = 1..Len(batch[d]) /\ DOMAIN queue = 1..Len(queue)
          /\ i \in 1..Len(batch[d])
          /\ \A j \in DOMAIN batch[d] : j \in DOMAIN queue /\ batch[d][j] = queue[j]
        <3>1. /\ Len(batch[d]) \in Nat /\ Len(queue) \in Nat /\ Len(batch[d]) <= Len(queue)
              /\ DOMAIN batch[d] = 1..Len(batch[d]) /\ DOMAIN queue = 1..Len(queue)
            BY <1>1, <2>3 DEF StartsWith
        <3>2. i \in DOMAIN batch[d]
            BY <1>1
        <3>3. \A j \in 1..Len(batch[d]) : j \in 1..Len(queue)
            BY <3>1
        <3>4. \A j \in 1..Len(batch[d]) : batch[d][j] = queue[j]
            BY <2>3 DEF StartsWith
        <3> QED BY <3>1, <3>2, <3>3, <3>4
    <2>5. /\ \A j \in DOMAIN queue : queue[j].id \in 1..enqueued
          /\ \A j, m \in DOMAIN queue : queue[j].id <= queue[m].id <=> j <= m
          /\ enqueued \in Nat
        <3>1. enqueued \in Nat
            BY <1>1
        <3> QED BY <1>1, <1>3, <3>1, LaterIsNewer
    <2>a. lastId' = queue[i].id /\ i \in DOMAIN queue
        BY <2>1, <2>4
    <2>6. \A j \in DOMAIN queue : j > i => lastId' < queue[j].id
        <3>1. \A j \in DOMAIN queue : j > i => ~ (j <= i)
            BY <2>4
        <3>2. \A j \in DOMAIN queue : ~ (queue[j].id <= queue[i].id) => queue[i].id < queue[j].id
            BY <2>5, <2>a
        <3> QED BY <2>5, <2>a, <3>1, <3>2
    <2>7. lastId' <= enqueued'
        BY <2>2, <2>5, <2>a
    <2>8. \A n \in Covered(batch[d], i) : n <= enqueued
        <3>1. \A j \in DOMAIN batch[d] : batch[d][j].id <= enqueued
            BY <1>1, <2>4, <2>5
        <3> QED BY <3>1 DEF Covered
    <2>9. \A n \in 1..MaxEvents : starts'[n] > 0 => n <= enqueued'
        BY <1>1, <1>3, <2>1, <2>2, <2>8
    <2>10. todo'[d] = todo[d] \ {i} /\ pc'[d] = "handling"
        BY <1>1, <2>1, <2>2
    <2>11. BatchOrder(d)'
        <3>1. \A j \in todo'[d] : lastId' < batch'[d][j].id
            <4>1. ASSUME NEW j \in todo[d], j # i PROVE lastId' < batch[d][j].id
                <5>1. j \in DOMAIN batch[d] /\ j \in Nat /\ i \in Nat /\ i <= j
                    BY <1>1, <2>1, <2>4
                <5>2. j > i /\ j \in DOMAIN queue /\ batch[d][j] = queue[j]
                    BY <2>4, <4>1, <5>1
                <5> QED BY <2>6, <5>2
            <4> QED BY <2>2, <2>10, <4>1
        <3>2. \A j \in DOMAIN queue' : j > Len(batch'[d]) => lastId' < queue'[j].id
            BY <2>2, <2>4, <2>6
        <3>3. Len(batch[d]) \in todo[d]
            <4>1. batch[d] # <<>>
                BY <2>4
            <4>2. Len(batch[d]) \in todo[d] \/ lastId = batch[d][Len(batch[d])].id
                BY <2>3, <4>1 DEF BatchOrder
            <4>3. lastId < batch[d][i].id
                BY <2>3 DEF BatchOrder
            <4>4. batch[d][i].id <= batch[d][Len(batch[d])].id
                <5>1. /\ i \in DOMAIN queue /\ batch[d][i] = queue[i]
                      /\ Len(batch[d]) \in DOMAIN batch[d] /\ i \in Nat /\ i <= Len(batch[d])
                    BY <2>4
                <5>2. /\ Len(batch[d]) \in DOMAIN queue
                      /\ batch[d][Len(batch[d])] = queue[Len(batch[d])]
                    BY <2>4, <5>1
                <5> QED BY <2>5, <5>1, <5>2
            <4>5. Len(batch[d]) \in DOMAIN queue /\ batch[d][Len(batch[d])] = queue[Len(batch[d])]
                  /\ batch[d][i] = queue[i] /\ i \in DOMAIN queue
                BY <2>4
            <4>6. lastId # batch[d][Len(batch[d])].id
                <5>1. lastId \in Nat /\ batch[d][i].id \in Nat
                      /\ batch[d][Len(batch[d])].id \in Nat
                    BY <1>1, <2>5, <4>5
                <5> QED BY <4>3, <4>4, <5>1
            <4> QED BY <4>2, <4>6
        <3>4. Len(batch'[d]) \in todo'[d] \/ lastId' = batch'[d][Len(batch'[d])].id
            BY <2>1, <2>2, <2>10, <3>3
        <3>5. todo'[d] \subseteq Latest(batch'[d])
            BY <2>2, <2>3, <2>10 DEF BatchOrder
        <3> QED BY <3>1, <3>2, <3>4, <3>5 DEF BatchOrder
    <2>12. \A e \in Daemons : e # d => pc'[e] \notin Busy
        <3>1. \A e \in Daemons : e # d => pc[e] = "wait"
            BY <1>0, <2>2, OneBusy
        <3> QED BY <1>1, <2>2, <3>1 DEF Busy
    <2>13. queue # <<>>
        BY <2>4
    <2>14. \A e \in Daemons : rest[e] = <<>>
        BY <1>0, <2>13, RestIsAlone
    <2>15. LastLines(queue)' /\ \A e \in Daemons : LastLines(rest[e])' /\ Newer(rest[e])'
        BY <1>3, <2>2, <2>14 DEF LastLines, Newer
    <2> QED BY <2>2, <2>7, <2>9, <2>10, <2>11, <2>12, <2>13, <2>15 DEF LineOrder, Busy
<1>11. ASSUME NEW d \in Daemons, DeleteEventBatch(d) PROVE LineOrder'
    <2>1. /\ pc[d] = "loop" /\ todo[d] = {} /\ UNCHANGED <<enqueued, starts, lastId, batch, todo>>
        BY <1>11 DEF DeleteEventBatch, history
    <2>2. BatchOrder(d) /\ StartsWith(queue, batch[d])
        BY <1>0, <1>3, <2>1 DEF BatchKept, BatchIsPrefix, Busy
    <2>3. \A e \in Daemons : e # d => pc[e] = "wait"
        BY <1>0, <2>1, OneBusy
    <2>4. CASE batch[d] = <<>>
        <3>1. UNCHANGED <<queue, rest>> /\ pc' = [pc EXCEPT ![d] = "unlock"]
            BY <1>11, <2>4 DEF DeleteEventBatch
        <3>2. \A e \in Daemons : pc'[e] \notin Busy
            BY <1>1, <2>3, <3>1 DEF Busy
        <3>3. Newer(queue)
            <4>1. \A i \in DOMAIN queue : i > Len(batch[d])
                BY <1>1, <2>4
            <4> QED BY <2>2, <4>1 DEF BatchOrder, Newer
        <3> QED BY <1>3, <2>1, <3>1, <3>2, <3>3 DEF LineOrder, LastLines, Newer, Busy
    <2>5. CASE batch[d] # <<>>
        <3> DEFINE left == Remaining(queue, batch[d])
        <3>1. /\ rest' = [rest EXCEPT ![d] = left] /\ queue' = <<>>
              /\ pc' = [pc EXCEPT ![d] = "rewrite"]
            BY <1>11, <2>5 DEF DeleteEventBatch
        <3>2. \A e \in Daemons : pc'[e] \notin Busy
            BY <1>1, <2>3, <3>1 DEF Busy
        <3>3. /\ Len(batch[d]) \in Nat /\ Len(queue) \in Nat /\ Len(batch[d]) <= Len(queue)
              /\ left \in Seq(Line) /\ Len(left) + Len(batch[d]) = Len(queue)
              /\ \A j \in DOMAIN left : /\ j + Len(batch[d]) \in DOMAIN queue
                                        /\ left[j] = queue[j + Len(batch[d])]
            BY <1>1, <2>2, RemainingByPlace DEF StartsWith
        <3>4. LastLines(left)
            <4> SUFFICES ASSUME NEW j \in DOMAIN left
                         PROVE  left[j].id + Len(left) = enqueued + j
                BY DEF LastLines
            <4> DEFINE i == j + Len(batch[d])
            <4>1. queue[i].id + Len(queue) = enqueued + i /\ queue[i].id \in Nat
                  /\ left[j] = queue[i]
                <5>1. i \in DOMAIN queue /\ left[j] = queue[i]
                    BY <3>3
                <5>2. queue[i].id \in 1..MaxEvents
                    BY <1>1, <1>2, <5>1
                <5> QED BY <1>3, <5>1, <5>2 DEF LastLines
            <4>2. j \in Nat /\ Len(left) \in Nat /\ enqueued \in Nat
                BY <1>1, <3>3
            <4> HIDE DEF left
            <4>3. left[j].id \in Nat /\ left[j].id + Len(queue) = enqueued + (j + Len(batch[d]))
                BY <4>1
            <4>4. Len(queue) = Len(left) + Len(batch[d]) /\ Len(batch[d]) \in Nat
                BY <3>3
            <4>5. PICK a \in Nat, b \in Nat, c \in Nat, e \in Nat, n \in Nat :
                    /\ a = left[j].id /\ b = Len(left) /\ c = Len(batch[d])
                    /\ e = enqueued /\ n = j
                BY <4>2, <4>3, <4>4
            <4>6. a + (b + c) = e + (n + c)
                BY <4>3, <4>4, <4>5
            <4>7. a + b = e + n
                BY ONLY <4>6, a \in Nat, b \in Nat, c \in Nat, e \in Nat, n \in Nat
            <4> QED BY <4>5, <4>7
        <3>5. Newer(left)
            <4> SUFFICES ASSUME NEW j \in DOMAIN left PROVE lastId < left[j].id
                BY DEF Newer
            <4>1. j + Len(batch[d]) > Len(batch[d])
                BY <3>3
            <4> QED BY <2>2, <3>3, <4>1 DEF BatchOrder
        <3> HIDE DEF left
        <3>6. \A e \in Daemons : rest'[e] = IF e = d THEN left ELSE rest[e]
            BY <1>1, <3>1
        <3>7. \A e \in Daemons : LastLines(rest[e])' /\ Newer(rest[e])'
            BY <1>3, <2>1, <3>4, <3>5, <3>6 DEF LastLines, Newer
        <3>8. LastLines(queue)' /\ Newer(queue)'
            BY <3>1 DEF LastLines, Newer
        <3>9. lastId = enqueued \/ left # <<>>
            <4> SUFFICES ASSUME left = <<>> PROVE lastId = enqueued
                OBVIOUS
            <4>1. Len(batch[d]) = Len(queue) /\ Len(queue) \in DOMAIN queue
                BY <1>1, <2>5, <3>3
            <4>2. lastId = batch[d][Len(batch[d])].id
                BY <2>1, <2>2, <2>5 DEF BatchOrder
            <4>3. batch[d][Len(queue)] = queue[Len(queue)]
                BY <2>2, <4>1 DEF StartsWith
            <4>4. queue[Len(queue)].id + Len(queue) = enqueued + Len(queue)
                BY <1>3, <4>1 DEF LastLines
            <4>5. queue[Len(queue)].id \in 1..MaxEvents
                BY <1>1, <1>2, <4>1
            <4>6. PICK a \in Nat, n \in Nat, e \in Nat :
                    a = queue[Len(queue)].id /\ n = Len(queue) /\ e = enqueued
                BY <1>1, <3>3, <4>5
            <4>7. a = e
                BY <4>4, <4>6
            <4> QED BY <4>1, <4>2, <4>3, <4>6, <4>7
        <3> QED BY <1>3, <2>1, <3>2, <3>6, <3>7, <3>8, <3>9 DEF LineOrder, Busy
    <2> QED BY <2>4, <2>5
<1>12. ASSUME NEW d \in Daemons, WriteRemaining(d) PROVE LineOrder'
    <2>1. /\ pc[d] = "rewrite" /\ queue' = rest[d] /\ rest' = [rest EXCEPT ![d] = <<>>]
          /\ pc' = [pc EXCEPT ![d] = "unlock"]
          /\ UNCHANGED <<enqueued, starts, lastId, batch, todo>>
        BY <1>12 DEF WriteRemaining, history
    <2>2. queue = <<>>
        BY <1>0, <2>1 DEF MemoryKept, DaemonMemory
    <2>3. \A e \in Daemons : pc'[e] \notin Busy /\ (e # d => rest[e] = <<>>)
        <3>1. \A e \in Daemons : e # d => pc[e] = "wait"
            BY <1>0, <2>1, OneBusy
        <3> QED BY <1>0, <1>1, <2>1, <3>1 DEF Busy, MemoryKept, DaemonMemory
    <2>4. \A e \in Daemons : rest'[e] = <<>>
        BY <1>1, <2>1, <2>3
    <2>5. \A e \in Daemons : LastLines(rest[e])' /\ Newer(rest[e])'
        BY <2>4 DEF LastLines, Newer
    <2>6. LastLines(queue)' /\ Newer(queue)'
        BY <1>3, <2>1 DEF LastLines, Newer
    <2>7. lastId \in {0, enqueued} \/ rest[d] # <<>>
        BY <1>3, <2>2, <2>3
    <2> QED BY <1>3, <2>1, <2>3, <2>5, <2>6, <2>7 DEF LineOrder, Busy
<1>13. ASSUME NEW d \in Daemons, ReleaseLocks(d) PROVE LineOrder'
    <2>1. /\ pc[d] = "unlock" /\ pc' = [pc EXCEPT ![d] = "wait"]
          /\ UNCHANGED <<queue, enqueued, rest, starts, lastId>>
        BY <1>13 DEF ReleaseLocks, history
    <2>2. \A e \in Daemons : pc'[e] \notin Busy /\ pc[e] \notin Busy
        <3>1. \A e \in Daemons : e # d => pc[e] = "wait"
            BY <1>0, <2>1, OneBusy
        <3> QED BY <1>1, <2>1, <3>1 DEF Busy
    <2> QED BY <1>3, <2>1, <2>2 DEF LineOrder, LastLines, Newer, Busy
<1>14. ASSUME NEW d \in Daemons, Kill(d) PROVE LineOrder'
    <2>1. /\ pc[d] # "wait" /\ pc' = [pc EXCEPT ![d] = "wait"] /\ lastId' = 0
          /\ rest' = [rest EXCEPT ![d] = <<>>] /\ UNCHANGED <<queue, enqueued, starts>>
        BY <1>14 DEF Kill
    <2>2. \A e \in Daemons : pc'[e] \notin Busy
        <3>1. \A e \in Daemons : e # d => pc[e] = "wait"
            BY <1>0, <2>1, OneBusy
        <3> QED BY <1>1, <2>1, <3>1 DEF Busy
    <2>3. \A e \in Daemons : rest'[e] \in {<<>>, rest[e]}
        BY <1>1, <2>1
    <2>4. \A e \in Daemons : LastLines(rest[e])' /\ Newer(rest[e])'
        <3>1. \A e \in Daemons : \A i \in DOMAIN rest[e] : 0 < rest[e][i].id
            BY <1>1, <1>2
        <3> QED BY <1>3, <2>1, <2>3, <3>1 DEF LastLines, Newer
    <2>5. LastLines(queue)' /\ Newer(queue)'
        <3>1. \A i \in DOMAIN queue : 0 < queue[i].id
            BY <1>1, <1>2
        <3> QED BY <1>3, <2>1, <3>1 DEF LastLines, Newer
    <2> QED BY <1>1, <1>3, <2>1, <2>2, <2>4, <2>5 DEF LineOrder, Busy
<1>15. CASE UNCHANGED vars
    BY <1>4, <1>15 DEF vars, daemonVars, history
<1> QED
    BY <1>5, <1>6, <1>7, <1>8, <1>9, <1>10, <1>11, <1>12, <1>13, <1>14, <1>15
    DEF Next, HookStep, DaemonStep

(***************************************************************************)
(* No event disappears without a handler run, except in a torn rewrite.    *)
(***************************************************************************)
LEMMA NextNoLostEvent ==
    ASSUME TypeOK, LocksHeld, MemoryKept, BatchKept, NoLostEvent, [Next]_vars
    PROVE  NoLostEvent'
<1> DEFINE Safe(n) ==
        starts[n] > 0 \/ n \in Ids(queue) \/ (\E e \in Daemons : n \in Ids(rest[e])) \/ n \in torn
<1>1. /\ queue \in Seq(Line) /\ enqueued \in Nat /\ MaxEvents \in Nat
      /\ \A e \in Daemons : batch[e] \in Seq(Line) /\ rest[e] \in Seq(Line)
      /\ rest \in [Daemons -> Seq(Line)]
      /\ starts \in [1..MaxEvents -> Nat]
    BY EventQueueAssumption DEF TypeOK
<1>2. \A n \in 1..enqueued : Safe(n)
    BY DEF NoLostEvent
<1>3. ASSUME UNCHANGED <<queue, enqueued, rest, starts, torn>> PROVE NoLostEvent'
    BY <1>2, <1>3 DEF NoLostEvent
<1>4. ASSUME NEW h \in Hooks, NEW k \in Keys, NEW now \in BOOLEAN, EnqueueEvent(h, k, now)
      PROVE  NoLostEvent'
    <2>1. /\ enqueued' = enqueued + 1 /\ queue' = Append(queue, [id |-> enqueued + 1, key |-> k])
          /\ UNCHANGED <<rest, starts, torn>>
        BY <1>4 DEF EnqueueEvent, daemonVars, history
    <2>2. /\ \A i \in DOMAIN queue : i \in DOMAIN queue' /\ queue'[i] = queue[i]
          /\ Len(queue) + 1 \in DOMAIN queue'
          /\ queue'[Len(queue) + 1] = [id |-> enqueued + 1, key |-> k]
        BY <1>1, <2>1
    <2>3. Ids(queue) \subseteq Ids(queue')
        BY <2>2 DEF Ids
    <2>4. enqueued + 1 \in Ids(queue')
        BY <2>2 DEF Ids
    <2>5. \A n \in 1..enqueued' : n \in 1..enqueued \/ n = enqueued + 1
        BY <1>1, <2>1
    <2> QED BY <1>2, <2>1, <2>3, <2>4, <2>5 DEF NoLostEvent
<1>5. ASSUME NEW h \in Hooks, HookProcessEvent(h) \/ HookDone(h) PROVE NoLostEvent'
    BY <1>3, <1>5 DEF HookProcessEvent, HookDone, daemonVars, history
<1>6. ASSUME NEW a \in Appliers, CliStep(a) PROVE NoLostEvent'
    BY <1>3, <1>6 DEF CliStep, ManualCliLock, ManualCliDone, daemonVars, history
<1>7. ASSUME NEW d \in Daemons,
             \/ TakeProcessLock(d) \/ TakeApplyLock(d) \/ ReadEventBatch(d)
             \/ FinishEvent(d) \/ ReleaseLocks(d)
      PROVE  NoLostEvent'
    BY <1>3, <1>7
    DEF TakeProcessLock, TakeApplyLock, ReadEventBatch, FinishEvent, ReleaseLocks, history
<1>8. ASSUME NEW d \in Daemons, StartEvent(d) PROVE NoLostEvent'
    <2>1. /\ UNCHANGED <<queue, enqueued, rest, torn>>
          /\ \E i \in todo[d] : starts' = [n \in 1..MaxEvents |->
                 IF n \in Covered(batch[d], i) THEN starts[n] + 1 ELSE starts[n]]
        BY <1>8 DEF StartEvent
    <2>2. \A n \in 1..MaxEvents : starts[n] > 0 => starts'[n] > 0
        BY <1>1, <2>1
    <2>3. \A n \in 1..enqueued : n \in 1..MaxEvents
        <3>1. enqueued \in 0..MaxEvents
            BY DEF TypeOK
        <3> QED BY <1>1, <3>1
    <2> QED BY <1>2, <2>1, <2>2, <2>3 DEF NoLostEvent
\* The ids in front of the file are those of the batch, all handled by now.
<1>9. ASSUME NEW d \in Daemons, DeleteEventBatch(d) PROVE NoLostEvent'
    <2>1. CASE batch[d] = <<>>
        BY <1>3, <1>9, <2>1 DEF DeleteEventBatch, history
    <2>2. CASE batch[d] # <<>>
        <3>1. /\ pc[d] = "loop" /\ todo[d] = {}
              /\ rest' = [rest EXCEPT ![d] = Remaining(queue, batch[d])]
              /\ UNCHANGED <<enqueued, starts, torn>>
            BY <1>9, <2>2 DEF DeleteEventBatch, history
        <3>2. rest[d] = <<>> /\ Ids(<<>>) = {}
            BY <3>1 DEF MemoryKept, DaemonMemory, Ids
        <3>3. /\ StartsWith(queue, batch[d])
              /\ \A i \in DOMAIN batch[d] : starts[batch[d][i].id] > 0
            BY <3>1 DEF BatchKept, BatchIsPrefix, BatchCovered
        <3>4. ASSUME NEW n \in Ids(queue)
              PROVE  starts[n] > 0 \/ n \in Ids(rest'[d])
            <4>1. PICK i \in DOMAIN queue : queue[i].id = n
                BY <3>4 DEF Ids
            <4>2. CASE i <= Len(batch[d])
                <5>1. i \in DOMAIN batch[d] /\ queue[i] = batch[d][i]
                    <6>1. i \in 1..Len(queue) /\ Len(queue) \in Nat /\ Len(batch[d]) \in Nat
                          /\ DOMAIN batch[d] = 1..Len(batch[d])
                        BY <1>1
                    <6>2. i \in DOMAIN batch[d]
                        BY <4>2, <6>1
                    <6> QED BY <1>1, <3>3, <6>2, StartsWithByPlace
                <5> QED BY <3>3, <4>1, <5>1
            <4>3. CASE i > Len(batch[d])
                <5>1. \E j \in DOMAIN Remaining(queue, batch[d]) :
                        Remaining(queue, batch[d])[j] = queue[i]
                    BY <1>1, <4>3, RemainingIsSuffix
                <5>2. rest'[d] = Remaining(queue, batch[d])
                    BY <1>1, <3>1
                <5> QED BY <4>1, <5>1, <5>2 DEF Ids
            <4> QED BY <1>1, <4>2, <4>3
        <3>5. \A e \in Daemons : e # d => rest'[e] = rest[e]
            BY <1>1, <3>1
        <3> QED BY <1>2, <3>1, <3>2, <3>4, <3>5 DEF NoLostEvent
    <2> QED BY <2>1, <2>2
<1>10. ASSUME NEW d \in Daemons, WriteRemaining(d) PROVE NoLostEvent'
    <2>1. /\ pc[d] = "rewrite" /\ queue' = rest[d] /\ rest' = [rest EXCEPT ![d] = <<>>]
          /\ UNCHANGED <<enqueued, starts, torn>>
        BY <1>10 DEF WriteRemaining, history
    <2>2. queue = <<>> /\ Ids(<<>>) = {}
        BY <2>1 DEF MemoryKept, DaemonMemory, Ids
    <2>3. \A e \in Daemons : e # d => rest'[e] = rest[e]
        BY <1>1, <2>1
    <2> QED BY <1>2, <2>1, <2>2, <2>3 DEF NoLostEvent
<1>11. ASSUME NEW d \in Daemons, Kill(d) PROVE NoLostEvent'
    <2>1. /\ torn' = torn \cup Ids(rest[d]) /\ rest' = [rest EXCEPT ![d] = <<>>]
          /\ UNCHANGED <<queue, enqueued, starts>>
        BY <1>11 DEF Kill
    <2>2. \A e \in Daemons : e # d => rest'[e] = rest[e]
        BY <1>1, <2>1
    <2> QED BY <1>2, <2>1, <2>2 DEF NoLostEvent
<1>12. CASE UNCHANGED vars
    BY <1>3, <1>12 DEF vars, daemonVars, history
<1> QED
    BY <1>4, <1>5, <1>6, <1>7, <1>8, <1>9, <1>10, <1>11, <1>12
    DEF Next, HookStep, DaemonStep

(***************************************************************************)
(* The types, the locks, the memory of the daemons and the file fit        *)
(* together in every reachable state of process_event_queue, gw hook and   *)
(* the gw commands.                                                        *)
(***************************************************************************)
THEOREM QueueInvariant == Spec => []QueueInv
<1>1. QueueInv <=> TypeOK /\ LocksHeld /\ MemoryKept /\ BatchKept /\ NoLostEvent /\ LineOrder
    BY DEF QueueInv, LocksHeld, MemoryKept, BatchKept
<1>2. QueueInv /\ [Next]_vars => QueueInv'
    <2>1. ASSUME QueueInv, [Next]_vars
          PROVE  TypeOK' /\ LocksHeld' /\ MemoryKept' /\ BatchKept' /\ NoLostEvent' /\ LineOrder'
        BY <1>1, <2>1, NextTypeOK, NextLocksHeld, NextMemoryKept, NextBatchKept,
           NextNoLostEvent, NextLineOrder DEF MemoryKept
    <2> QED BY <2>1 DEF QueueInv, LocksHeld, MemoryKept, BatchKept
<1> QED BY InitQueueInv, <1>2, PTL DEF Spec

(***************************************************************************)
(* An event written by `gw hook` stays in the queue file (or in the memory *)
(* of the daemon rewriting it) until a handler has run for it: only a kill *)
(* inside the rewrite of events.jsonl can lose it.                         *)
(***************************************************************************)
THEOREM EventsAreNotLost == Spec => []NoLostEvent
<1>1. QueueInv => NoLostEvent
    BY DEF QueueInv
<1> QED BY <1>1, QueueInvariant, PTL

(***************************************************************************)
(* The branch of _delete_event_batch for a queue file that does not start  *)
(* with the batch is never reached by DROS's own processes.                *)
(***************************************************************************)
THEOREM NoForeignEdit == Spec => []BatchIsPrefix
<1>1. QueueInv => BatchIsPrefix
    BY DEF QueueInv
<1> QED BY <1>1, QueueInvariant, PTL

(***************************************************************************)
(* Every variable of the queue, its locks and its processes has its type.  *)
(***************************************************************************)
THEOREM TypeCorrect == Spec => []TypeOK
<1>1. QueueInv => TypeOK
    BY DEF QueueInv
<1> QED BY <1>1, QueueInvariant, PTL

(***************************************************************************)
(* In the release profile, and with no hook run with --process-now, event  *)
(* handlers and gw commands never change the system at the same time.      *)
(***************************************************************************)
THEOREM OneApplyPath ==
    ASSUME RealRoot, ~ProcessNow
    PROVE  Spec => []OnlyOneApplyPath
<1> DEFINE HooksIdle == \A h \in Hooks : hookPc[h] = "idle"
<1>1. Init => HooksIdle
    BY DEF Init
<1>2. QueueInv /\ HooksIdle /\ [Next]_vars => HooksIdle'
    <2> SUFFICES ASSUME QueueInv, HooksIdle, [Next]_vars PROVE HooksIdle'
        OBVIOUS
    <2>1. hookPc \in [Hooks -> {"idle", "queued", "processing"}]
        BY DEF QueueInv, TypeOK
    <2>2. ASSUME NEW h \in Hooks, HookStep(h) PROVE HooksIdle'
        BY <2>1, <2>2 DEF HookStep, EnqueueEvent, HookProcessEvent, HookDone
    <2>3. ASSUME NEW a \in Appliers, CliStep(a) PROVE UNCHANGED hookPc
        BY <2>3 DEF CliStep, ManualCliLock, ManualCliDone
    <2>4. ASSUME NEW d \in Daemons, DaemonStep(d) \/ Kill(d) PROVE UNCHANGED hookPc
        BY <2>4 DEF DaemonStep, TakeProcessLock, TakeApplyLock, ReadEventBatch, StartEvent,
                    FinishEvent, DeleteEventBatch, WriteRemaining, ReleaseLocks, Kill
    <2>5. CASE UNCHANGED vars
        BY <2>5 DEF vars
    <2> QED BY <2>2, <2>3, <2>4, <2>5 DEF Next
<1>3. QueueInv /\ HooksIdle => OnlyOneApplyPath
    <2> SUFFICES ASSUME QueueInv, HooksIdle, NEW p \in ApplyPaths, NEW q \in ApplyPaths
                 PROVE  p = q
        BY DEF OnlyOneApplyPath
    <2>1. CliLockFile = "run" /\ DaemonLockFile = "run"
        BY DEF CliLockFile, DaemonLockFile
    <2>2. \A r \in ApplyPaths : applyLock["run"] = r
        BY <2>1 DEF ApplyPaths, QueueInv, HoldsLocks
    <2> QED BY <2>2
<1>4. Spec => []HooksIdle
    BY <1>1, <1>2, QueueInvariant, PTL DEF Spec
<1> QED BY <1>3, <1>4, QueueInvariant, PTL
(***************************************************************************)
(* Once the queue is drained and every daemon waits, the handler that ran  *)
(* last is the one of the last event enqueued (or a kill has come since):  *)
(* an older state of a link never has the last word.                       *)
(***************************************************************************)
THEOREM LastWordCorrect == Spec => []LastWord
<1>1. QueueInv => LastWord
    BY DEF QueueInv, LineOrder, LastWord, DaemonMemory
<1> QED BY <1>1, QueueInvariant, PTL

-----------------------------------------------------------------------------
(* The refinement: the queue of files, locks and polls implements the      *)
(* mailbox of EventMailbox, whose variables are these expressions.         *)

Held == Ids(queue) \cup UNION {Ids(rest[d]) : d \in Daemons}
Handled == {n \in 1..enqueued : starts[n] > 0}

LEMMA InitMailbox == Init => Mailbox!Init
<1> SUFFICES ASSUME Init PROVE Mailbox!Init
    OBVIOUS
<1>1. queue = <<>> /\ enqueued = 0 /\ lastId = 0 /\ torn = {}
      /\ \A d \in Daemons : rest[d] = <<>>
    BY DEF Init
<1>2. Ids(<<>>) = {}
    BY DEF Ids
<1>3. Ids(queue) \cup UNION {Ids(rest[d]) : d \in Daemons} = {}
    BY <1>1, <1>2
<1>4. {n \in 1..enqueued : starts[n] > 0} = {}
    BY <1>1
<1> QED BY <1>1, <1>3, <1>4 DEF Mailbox!Init

\* What is held when nothing is being rewritten, and while something is.
LEMMA HeldLines ==
    ASSUME QueueInv
    PROVE  /\ (\A d \in Daemons : rest[d] = <<>>) => Held = Ids(queue)
           /\ \A d \in Daemons : rest[d] # <<>> => Held = Ids(rest[d])
<1>1. Ids(<<>>) = {}
    BY DEF Ids
<1>2. ASSUME \A d \in Daemons : rest[d] = <<>> PROVE Held = Ids(queue)
    BY <1>1, <1>2 DEF Held
<1>3. ASSUME NEW d \in Daemons, rest[d] # <<>> PROVE Held = Ids(rest[d])
    <2>1. queue = <<>> /\ \A e \in Daemons : e # d => rest[e] = <<>>
        BY <1>3, RestIsAlone DEF QueueInv, LocksHeld, MemoryKept
    <2> QED BY <1>1, <2>1 DEF Held
<1> QED BY <1>2, <1>3

\* Handlers run for events enqueued before, whose line is still in the file.
LEMMA BatchIsHeld ==
    ASSUME QueueInv, NEW d \in Daemons, pc[d] \in Busy
    PROVE  /\ Held = Ids(queue) /\ Ids(batch[d]) \subseteq Ids(queue)
           /\ Ids(queue) \subseteq 1..enqueued
<1>1. /\ queue \in Seq(Line) /\ batch[d] \in Seq(Line) /\ enqueued \in Nat
      /\ StartsWith(queue, batch[d]) /\ LastLines(queue)
    BY EventQueueAssumption DEF QueueInv, TypeOK, BatchIsPrefix, Busy, LineOrder
<1>2. \A e \in Daemons : rest[e] = <<>>
    <2>1. \A e \in Daemons : e # d => pc[e] = "wait"
        BY OneBusy DEF QueueInv, LocksHeld, Busy
    <2> QED BY <2>1 DEF QueueInv, DaemonMemory, Busy
<1>3. Ids(batch[d]) \subseteq Ids(queue)
    <2>1. \A i \in DOMAIN batch[d] : i \in DOMAIN queue /\ queue[i] = batch[d][i]
        BY <1>1 DEF StartsWith
    <2> QED BY <2>1 DEF Ids
<1>4. Ids(queue) \subseteq 1..enqueued
    <2> SUFFICES ASSUME NEW i \in DOMAIN queue PROVE queue[i].id \in 1..enqueued
        BY DEF Ids
    <2> QED BY <1>1, LaterIsNewer
<1> QED BY <1>2, <1>3, <1>4, HeldLines

\* A step that touches neither the lines nor the history is a stutter.
LEMMA MailboxStutter ==
    ASSUME UNCHANGED <<enqueued, starts, torn, lastId>>, Held' = Held
    PROVE  UNCHANGED Mailbox!mailboxVars
<1>1. Handled' = Handled
    BY DEF Handled
<1> QED BY <1>1 DEF Mailbox!mailboxVars, Held, Handled

LEMMA EnqueueSends ==
    ASSUME QueueInv, NEW h \in Hooks, NEW k \in Keys, NEW now \in BOOLEAN,
           EnqueueEvent(h, k, now)
    PROVE  Mailbox!Send
<1>1. /\ enqueued' = enqueued + 1 /\ enqueued < MaxEvents
      /\ queue' = Append(queue, [id |-> enqueued + 1, key |-> k])
      /\ UNCHANGED <<rest, starts, torn, lastId>>
    BY DEF EnqueueEvent, daemonVars, history
<1>2. queue \in Seq(Line) /\ enqueued \in Nat /\ MaxEvents \in Nat
      /\ starts \in [1..MaxEvents -> Nat]
      /\ \A n \in 1..MaxEvents : starts[n] > 0 => n <= enqueued
    BY EventQueueAssumption DEF QueueInv, TypeOK, LineOrder
<1>3. Ids(queue') = Ids(queue) \cup {enqueued + 1}
    <2>1. /\ DOMAIN queue' = DOMAIN queue \cup {Len(queue) + 1}
          /\ \A i \in DOMAIN queue : queue'[i] = queue[i]
          /\ queue'[Len(queue) + 1] = [id |-> enqueued + 1, key |-> k]
        BY <1>1, <1>2
    <2> QED BY <2>1 DEF Ids
<1>4. Held' = Held \cup {enqueued + 1}
    BY <1>1, <1>3 DEF Held
<1>5. Handled' = Handled
    <2>1. enqueued + 1 \in 1..MaxEvents /\ ~ (enqueued + 1 <= enqueued)
        BY <1>1, <1>2
    <2>2. ~ (starts[enqueued + 1] > 0)
        BY <1>2, <2>1
    <2>3. \A n : n \in 1..(enqueued + 1) <=> n \in 1..enqueued \/ n = enqueued + 1
        BY <1>2
    <2> QED BY <1>1, <2>2, <2>3 DEF Handled
<1> QED BY <1>1, <1>4, <1>5 DEF Mailbox!Send, Held, Handled

\* The line picked is the newest of its key: its handler serves them all.
LEMMA StartServes ==
    ASSUME QueueInv, NEW d \in Daemons, StartEvent(d)
    PROVE  \E S \in SUBSET Held : Mailbox!Serve(S)
<1>1. PICK i \in todo[d] :
        /\ starts' = [n \in 1..MaxEvents |->
                       IF n \in Covered(batch[d], i) THEN starts[n] + 1 ELSE starts[n]]
        /\ lastId' = batch[d][i].id
    BY DEF StartEvent
<1>2. pc[d] \in Busy /\ UNCHANGED <<queue, enqueued, rest, torn>>
    BY DEF StartEvent, Busy
<1>3. /\ batch[d] \in Seq(Line) /\ queue \in Seq(Line) /\ i \in DOMAIN batch[d]
      /\ enqueued \in 0..MaxEvents /\ MaxEvents \in Nat /\ starts \in [1..MaxEvents -> Nat]
      /\ BatchOrder(d) /\ StartsWith(queue, batch[d]) /\ LastLines(queue)
    BY <1>2, EventQueueAssumption DEF QueueInv, TypeOK, LineOrder, BatchIsPrefix, Busy
<1>0. PICK S : S = Covered(batch[d], i)
    OBVIOUS
<1>4. S \subseteq Ids(batch[d])
    BY <1>0 DEF Covered, Ids
<1>5. S \subseteq Held /\ S \subseteq 1..enqueued
    BY <1>2, <1>4, BatchIsHeld
<1>6. lastId' \in S /\ lastId < lastId'
    BY <1>1, <1>3, <1>0 DEF Covered, BatchOrder
<1>7. ASSUME NEW n \in S PROVE n <= lastId'
    <2>1. PICK j \in DOMAIN batch[d] : batch[d][j].key = batch[d][i].key /\ batch[d][j].id = n
        BY <1>0 DEF Covered
    <2>2. i \in Latest(batch[d])
        BY <1>3 DEF BatchOrder
    <2>3. DOMAIN batch[d] \subseteq Nat /\ ~ (j > i)
        BY <1>3, <2>1, <2>2 DEF Latest
    <2>4. /\ i \in DOMAIN queue /\ j \in DOMAIN queue
          /\ batch[d][i] = queue[i] /\ batch[d][j] = queue[j]
        <3>1. \A m \in DOMAIN batch[d] : m \in DOMAIN queue /\ batch[d][m] = queue[m]
            BY <1>3, StartsWithByPlace
        <3> QED BY <1>3, <2>1, <3>1
    <2>5. i \in Nat /\ j \in Nat /\ j <= i /\ enqueued \in Nat
        BY <1>3, <2>3
    <2>8. queue[j].id <= queue[i].id
        BY <1>3, <2>4, <2>5, LaterIsNewer
    <2> QED BY <1>1, <2>1, <2>4, <2>8
<1>8. Handled' = Handled \cup S
    <2>1. \A n \in 1..enqueued : n \in 1..MaxEvents
        BY <1>3
    <2>2. \A n \in 1..enqueued : starts'[n] > 0 <=> starts[n] > 0 \/ n \in S
        BY <1>1, <1>3, <1>0, <2>1
    <2> QED BY <1>2, <1>5, <2>2 DEF Handled
<1>9. Held' = Held
    BY <1>2 DEF Held
<1>10. Mailbox!Serve(S)
    <2>1. \A n \in S : n <= lastId'
        BY <1>7
    <2>2. UNCHANGED <<enqueued, Held, torn>>
        BY <1>2, <1>9
    <2> QED BY <1>6, <1>8, <2>1, <2>2 DEF Mailbox!Serve, Held, Handled
<1> QED BY <1>5, <1>10

\* The batch leaves the file; ids are distinct, so nothing else does.
LEMMA DeleteForgets ==
    ASSUME QueueInv, NEW d \in Daemons, DeleteEventBatch(d)
    PROVE  \E S \in SUBSET Held : Mailbox!Forget(S)
<1>1. /\ pc[d] \in Busy /\ todo[d] = {}
      /\ UNCHANGED <<enqueued, starts, torn, lastId>>
    BY DEF DeleteEventBatch, Busy, history
<1>2. /\ batch[d] \in Seq(Line) /\ queue \in Seq(Line) /\ rest \in [Daemons -> Seq(Line)]
      /\ enqueued \in Nat /\ MaxEvents \in Nat
      /\ StartsWith(queue, batch[d]) /\ LastLines(queue) /\ BatchCovered(d)
    BY <1>1, EventQueueAssumption DEF QueueInv, TypeOK, LineOrder, BatchIsPrefix, Busy
<1>3. Held = Ids(queue) /\ Ids(batch[d]) \subseteq Held /\ Ids(queue) \subseteq 1..enqueued
    BY <1>1, BatchIsHeld
<1>4. Ids(batch[d]) \subseteq Handled
    <2>1. \A i \in DOMAIN batch[d] : starts[batch[d][i].id] > 0
        BY <1>1, <1>2 DEF BatchCovered, Busy
    <2> QED BY <1>3, <2>1 DEF Ids, Handled
<1>5. Held' = Held \ Ids(batch[d])
    <2>1. CASE batch[d] = <<>>
        <3>1. UNCHANGED <<queue, rest>>
            BY <2>1 DEF DeleteEventBatch
        <3>2. Ids(batch[d]) = {}
            BY <2>1 DEF Ids
        <3> QED BY <3>1, <3>2 DEF Held
    <2>2. CASE batch[d] # <<>>
        <3>0. /\ Len(batch[d]) \in Nat /\ Len(batch[d]) <= Len(queue) /\ Len(queue) \in Nat
              /\ Remaining(queue, batch[d]) \in Seq(Line)
              /\ Len(Remaining(queue, batch[d])) + Len(batch[d]) = Len(queue)
              /\ \A j \in DOMAIN Remaining(queue, batch[d]) :
                    /\ j + Len(batch[d]) \in DOMAIN queue
                    /\ Remaining(queue, batch[d])[j] = queue[j + Len(batch[d])]
            <4>1. Len(batch[d]) \in Nat /\ Len(batch[d]) <= Len(queue) /\ Len(queue) \in Nat
                BY <1>2 DEF StartsWith
            <4>2. batch[d] \in Seq(Line) /\ queue \in Seq(Line)
                BY <1>2
            <4>3. \A read \in Seq(Line) : Len(read) <= Len(queue) =>
                    /\ Remaining(queue, read) \in Seq(Line)
                    /\ Len(Remaining(queue, read)) + Len(read) = Len(queue)
                    /\ \A j \in DOMAIN Remaining(queue, read) :
                          /\ j + Len(read) \in DOMAIN queue
                          /\ Remaining(queue, read)[j] = queue[j + Len(read)]
                BY <4>2, RemainingByPlace
            <4> QED BY <4>1, <4>2, <4>3
        <3> DEFINE left == Remaining(queue, batch[d])
                   m == Len(batch[d])
        <3>1. queue' = <<>> /\ rest' = [rest EXCEPT ![d] = left]
            BY <2>2 DEF DeleteEventBatch
        <3>2. Held' = Ids(left)
            <4>1. \A e \in Daemons : e # d => rest[e] = <<>>
                <5>1. \A e \in Daemons : e # d => pc[e] = "wait"
                    BY <1>1, OneBusy DEF QueueInv, LocksHeld, Busy
                <5> QED BY <5>1 DEF QueueInv, DaemonMemory
            <4>2. \A e \in Daemons : rest'[e] = IF e = d THEN left ELSE <<>>
                BY <1>2, <3>1, <4>1
            <4>3. Ids(<<>>) = {}
                BY DEF Ids
            <4> HIDE DEF left
            <4> QED BY <3>1, <4>2, <4>3 DEF Held
        <3>3. /\ m \in Nat /\ m <= Len(queue) /\ Len(queue) \in Nat
              /\ left \in Seq(Line) /\ Len(left) + m = Len(queue)
              /\ \A j \in DOMAIN left : j + m \in DOMAIN queue /\ left[j] = queue[j + m]
            BY <3>0
        <3>4. \A i \in DOMAIN queue : i > m => \E j \in DOMAIN left : left[j] = queue[i]
            BY <1>2, RemainingIsSuffix
        <3>5. \A i \in DOMAIN batch[d] : i \in DOMAIN queue /\ batch[d][i] = queue[i]
                                         /\ i \in Nat /\ i <= m
            BY <1>2 DEF StartsWith
        <3>6. \A i, j \in DOMAIN queue : queue[i].id = queue[j].id => i = j
            <4> SUFFICES ASSUME NEW i \in DOMAIN queue, NEW j \in DOMAIN queue,
                                queue[i].id = queue[j].id
                         PROVE  i = j
                OBVIOUS
            <4>1. queue[i].id \in Nat /\ i \in Nat /\ j \in Nat
                BY <1>2, LaterIsNewer
            <4>2. i <= j /\ j <= i
                BY <1>2, <4>1, LaterIsNewer
            <4> QED BY <4>1, <4>2
        <3>7. ASSUME NEW n \in Ids(left) PROVE n \in Ids(queue) /\ n \notin Ids(batch[d])
            <4>1. PICK j \in DOMAIN left : left[j].id = n
                BY <3>7 DEF Ids
            <4>2. j + m \in DOMAIN queue /\ queue[j + m].id = n
                BY <3>3, <4>1
            <4>3. j \in Nat /\ j >= 1
                BY <3>3
            <4>4. ASSUME NEW i \in DOMAIN batch[d], batch[d][i].id = n PROVE FALSE
                <5>1. i = j + m
                    BY <3>5, <3>6, <4>2, <4>4
                <5> QED BY <3>3, <3>5, <4>3, <5>1
            <4> QED BY <4>2, <4>4 DEF Ids
        <3>8. ASSUME NEW n \in Ids(queue), n \notin Ids(batch[d]) PROVE n \in Ids(left)
            <4>1. PICK i \in DOMAIN queue : queue[i].id = n
                BY <3>8 DEF Ids
            <4>2. i > m
                <5>1. SUFFICES ASSUME ~ (i > m) PROVE FALSE
                    OBVIOUS
                <5>2. i \in DOMAIN batch[d]
                    BY <1>2, <5>1
                <5> QED BY <3>5, <3>8, <4>1, <5>2 DEF Ids
            <4> QED BY <3>4, <4>1, <4>2 DEF Ids
        <3> HIDE DEF left
        <3> QED BY <1>3, <3>2, <3>7, <3>8
    <2> QED BY <2>1, <2>2
<1>6. Handled' = Handled
    BY <1>1 DEF Handled
<1>7. Mailbox!Forget(Ids(batch[d]))
    BY <1>1, <1>4, <1>5, <1>6 DEF Mailbox!Forget, Held, Handled
<1> QED BY <1>3, <1>7

\* A kill loses exactly what the daemon had not written back.
LEMMA KillCrashes ==
    ASSUME QueueInv, NEW d \in Daemons, Kill(d)
    PROVE  \E S \in SUBSET Held : Mailbox!Crash(S)
<1>1. /\ torn' = torn \cup Ids(rest[d]) /\ lastId' = 0
      /\ rest' = [rest EXCEPT ![d] = <<>>] /\ UNCHANGED <<queue, enqueued, starts>>
    BY DEF Kill
<1>2. Ids(<<>>) = {} /\ rest \in [Daemons -> Seq(Line)]
    BY DEF Ids, QueueInv, TypeOK
<1>3. Ids(rest[d]) \subseteq Held
    BY DEF Held
<1>4. Held' = Held \ Ids(rest[d])
    <2>1. CASE rest[d] = <<>>
        <3>1. rest' = rest
            BY <1>1, <1>2, <2>1
        <3> QED BY <1>1, <1>2, <2>1, <3>1 DEF Held
    <2>2. CASE rest[d] # <<>>
        <3>1. Held = Ids(rest[d]) /\ queue = <<>>
              /\ \A e \in Daemons : e # d => rest[e] = <<>>
            BY <2>2, HeldLines, RestIsAlone DEF QueueInv, LocksHeld, MemoryKept
        <3>2. \A e \in Daemons : rest'[e] = <<>>
            BY <1>1, <1>2, <3>1
        <3>3. Held' = {}
            BY <1>1, <1>2, <3>1, <3>2 DEF Held
        <3> QED BY <3>1, <3>3
    <2> QED BY <2>1, <2>2
<1>5. Handled' = Handled
    BY <1>1 DEF Handled
<1>6. Mailbox!Crash(Ids(rest[d]))
    BY <1>1, <1>4, <1>5 DEF Mailbox!Crash, Held, Handled
<1> QED BY <1>3, <1>6

LEMMA WriteStutters ==
    ASSUME QueueInv, NEW d \in Daemons, WriteRemaining(d)
    PROVE  UNCHANGED Mailbox!mailboxVars
<1>1. /\ pc[d] = "rewrite" /\ queue' = rest[d] /\ rest' = [rest EXCEPT ![d] = <<>>]
      /\ UNCHANGED <<enqueued, starts, torn, lastId>>
    BY DEF WriteRemaining, history
<1>2. queue = <<>> /\ Ids(<<>>) = {} /\ rest \in [Daemons -> Seq(Line)]
    BY <1>1 DEF QueueInv, TypeOK, DaemonMemory, Ids
<1>3. \A e \in Daemons : e # d => rest[e] = <<>>
    <2>1. \A e \in Daemons : e # d => pc[e] = "wait"
        BY <1>1, OneBusy DEF QueueInv, LocksHeld
    <2> QED BY <2>1 DEF QueueInv, DaemonMemory
<1>4. \A e \in Daemons : rest'[e] = <<>>
    BY <1>1, <1>2, <1>3
<1>5. Held = Ids(rest[d]) /\ Held' = Ids(queue')
    BY <1>2, <1>3, <1>4 DEF Held
<1> QED BY <1>1, <1>5, MailboxStutter

(***************************************************************************)
(* The queue of files, locks and polls keeps the promise of the mailbox:   *)
(* an enqueue sends, a handler serves every duplicate of its request and   *)
(* never one older than the last, a delete forgets only what was served,   *)
(* and only a kill inside the rewrite loses what was not.                  *)
(***************************************************************************)
THEOREM QueueImplementsMailbox == Spec => MailboxSpec
<1>1. ASSUME QueueInv, [Next]_vars PROVE [Mailbox!Next]_(Mailbox!mailboxVars)
    <2>1. ASSUME UNCHANGED <<queue, rest, enqueued, starts, torn, lastId>>
          PROVE  UNCHANGED Mailbox!mailboxVars
        <3>1. Held' = Held
            BY <2>1 DEF Held
        <3> QED BY <2>1, <3>1, MailboxStutter
    <2>2. ASSUME NEW h \in Hooks, HookStep(h) PROVE Mailbox!Send \/ UNCHANGED Mailbox!mailboxVars
        <3>1. ASSUME HookProcessEvent(h) \/ HookDone(h) PROVE UNCHANGED Mailbox!mailboxVars
            BY <2>1, <3>1 DEF HookProcessEvent, HookDone, daemonVars, history
        <3> QED BY <1>1, <2>2, <3>1, EnqueueSends DEF HookStep
    <2>3. ASSUME NEW a \in Appliers, CliStep(a) PROVE UNCHANGED Mailbox!mailboxVars
        BY <2>1, <2>3 DEF CliStep, ManualCliLock, ManualCliDone, daemonVars, history
    <2>4. ASSUME NEW d \in Daemons, DaemonStep(d)
          PROVE  \/ \E S \in SUBSET Held : Mailbox!Serve(S) \/ Mailbox!Forget(S)
                 \/ UNCHANGED Mailbox!mailboxVars
        <3>1. ASSUME \/ TakeProcessLock(d) \/ TakeApplyLock(d) \/ ReadEventBatch(d)
                     \/ FinishEvent(d) \/ ReleaseLocks(d)
              PROVE  UNCHANGED Mailbox!mailboxVars
            BY <2>1, <3>1 DEF TakeProcessLock, TakeApplyLock, ReadEventBatch, FinishEvent,
                              ReleaseLocks, history
        <3> QED BY <1>1, <2>4, <3>1, StartServes, DeleteForgets, WriteStutters DEF DaemonStep
    <2>5. ASSUME NEW d \in Daemons, Kill(d) PROVE \E S \in SUBSET Held : Mailbox!Crash(S)
        BY <1>1, <2>5, KillCrashes
    <2>6. CASE UNCHANGED vars
        BY <2>1, <2>6 DEF vars, daemonVars, history
    <2> QED BY <1>1, <2>2, <2>3, <2>4, <2>5, <2>6 DEF Next, Mailbox!Next, Held
<1> QED BY <1>1, InitMailbox, QueueInvariant, PTL DEF Spec, MailboxSpec, Mailbox!Spec
==============================================================================
