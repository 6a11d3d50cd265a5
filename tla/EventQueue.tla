----------------------------- MODULE EventQueue -----------------------------
(***************************************************************************)
(* The hook event queue {paths.run}/events.jsonl (src/dros/events.py), the *)
(* file locks that guard it (src/dros/locks.py), the drosd polling loop    *)
(* (src/dros/daemon/main.py) and the gw commands that share the apply lock *)
(* with it (src/dros/cli/main.py).                                         *)
(*                                                                         *)
(* A line of the file is a record [id, key]: key is the (event, iface)     *)
(* pair events are coalesced by, and id, the number of the enqueue, is an  *)
(* auxiliary name that lets the properties tell two lines apart.           *)
(***************************************************************************)
EXTENDS Naturals, Sequences, EventLines

CONSTANTS
    Keys,            \* (event, iface) pairs
    Hooks,           \* processes that run `gw hook`
    Daemons,         \* drosd processes: an old and a new one may overlap
    Appliers,        \* terminals that run gw commands under the apply lock
    NoOne,           \* the holder of a free lock
    RealRoot,        \* TRUE: sysRoot is /, the release profile
    ProcessNow,      \* TRUE: hooks may be given --process-now
    MaxEvents,       \* bound: enqueues
    MaxApplies,      \* bound: gw commands started
    MaxCrashes       \* bound: daemon processes killed

ASSUME EventQueueAssumption ==
    /\ NoOne \notin Hooks \cup Daemons \cup Appliers
    /\ Hooks \cap Daemons = {} /\ Hooks \cap Appliers = {} /\ Daemons \cap Appliers = {}
    /\ RealRoot \in BOOLEAN /\ ProcessNow \in BOOLEAN
    /\ MaxEvents \in Nat /\ MaxApplies \in Nat /\ MaxCrashes \in Nat

VARIABLES
    queue,           \* the lines of events.jsonl
    enqueued,        \* number of lines ever appended
    appendLock,      \* holder of events-append.lock across a rewrite
    processLock,     \* holder of events-process.lock
    applyLock,       \* holder of each file that serves as gw-apply.lock
    hookPc,          \* per hook: idle, or on its way through --process-now
    pc,              \* per daemon: position in process_event_queue
    batch,           \* per daemon: the text read by _read_event_batch
    todo,            \* per daemon: indices of batch still to be handled
    rest,            \* per daemon: what _delete_event_batch will write back
    applying,        \* the gw commands holding their apply lock
    applies,         \* gw commands started so far
    crashes,         \* daemons killed so far
    starts,          \* history: per id, handler runs that covered it
    torn,            \* history: ids lost by a kill inside a rewrite
    lastId           \* history: id of the last handled line, 0 after a kill

daemonVars == <<pc, batch, todo, rest>>
history == <<starts, torn, lastId>>
vars == <<queue, enqueued, appendLock, processLock, applyLock, hookPc, daemonVars,
          applying, applies, crashes, history>>

Line == [id : 1..MaxEvents, key : Keys]
LockFile == {"run", "sysroot"}

\* events.py locks paths.run / APPLY_LOCK_PATH as it is; the CLI prefixes the
\* path with sysRoot (_settings_target_path).
DaemonLockFile == "run"
CliLockFile == IF RealRoot THEN "run" ELSE "sysroot"

Init ==
    /\ queue = <<>> /\ enqueued = 0
    /\ appendLock = NoOne /\ processLock = NoOne
    /\ applyLock = [f \in LockFile |-> NoOne]
    /\ hookPc = [h \in Hooks |-> "idle"]
    /\ pc = [d \in Daemons |-> "wait"]
    /\ batch = [d \in Daemons |-> <<>>]
    /\ todo = [d \in Daemons |-> {}]
    /\ rest = [d \in Daemons |-> <<>>]
    /\ applying = {} /\ applies = 0 /\ crashes = 0
    /\ starts = [i \in 1..MaxEvents |-> 0]
    /\ torn = {} /\ lastId = 0

-----------------------------------------------------------------------------
(* gw hook: enqueue_event, then process_event when --process-now is given. *)

EnqueueEvent(h, k, now) ==
    /\ hookPc[h] = "idle"
    /\ enqueued < MaxEvents
    /\ appendLock = NoOne
    /\ now => ProcessNow
    /\ enqueued' = enqueued + 1
    /\ queue' = Append(queue, [id |-> enqueued + 1, key |-> k])
    /\ hookPc' = [hookPc EXCEPT ![h] = IF now THEN "queued" ELSE "idle"]
    /\ UNCHANGED <<appendLock, processLock, applyLock, daemonVars, applying, applies,
                   crashes, history>>

HookProcessEvent(h) ==
    /\ hookPc[h] = "queued"
    /\ hookPc' = [hookPc EXCEPT ![h] = "processing"]
    /\ UNCHANGED <<queue, enqueued, appendLock, processLock, applyLock, daemonVars,
                   applying, applies, crashes, history>>

HookDone(h) ==
    /\ hookPc[h] = "processing"
    /\ hookPc' = [hookPc EXCEPT ![h] = "idle"]
    /\ UNCHANGED <<queue, enqueued, appendLock, processLock, applyLock, daemonVars,
                   applying, applies, crashes, history>>

-----------------------------------------------------------------------------
(* gw update, bootstrap, delete --apply, start, stop, ovpn: _manual_cli_lock. *)

\* Slip: a second terminal is let in while an event is handled.
ManualCliLockIgnoresBusy(a) ==
    /\ a \notin applying
    /\ applies < MaxApplies
    /\ applying' = applying \cup {a}
    /\ applies' = applies + 1
    /\ UNCHANGED <<queue, enqueued, appendLock, processLock, applyLock, hookPc, daemonVars,
                   crashes, history>>

\* The lock is taken without waiting: a busy one makes the command fail.
ManualCliLock(a) ==
    /\ a \notin applying
    /\ applies < MaxApplies
    /\ applyLock[CliLockFile] = NoOne
    /\ applyLock' = [applyLock EXCEPT ![CliLockFile] = a]
    /\ applying' = applying \cup {a}
    /\ applies' = applies + 1
    /\ UNCHANGED <<queue, enqueued, appendLock, processLock, hookPc, daemonVars, crashes, history>>

ManualCliDone(a) ==
    /\ a \in applying
    /\ applying' = applying \ {a}
    /\ applyLock' = [applyLock EXCEPT ![CliLockFile] = NoOne]
    /\ UNCHANGED <<queue, enqueued, appendLock, processLock, hookPc, daemonVars, applies,
                   crashes, history>>

-----------------------------------------------------------------------------
(* drosd: process_event_queue. *)

\* The file does not exist before the first enqueue; a busy lock returns 0.
TakeProcessLock(d) ==
    /\ pc[d] = "wait"
    /\ enqueued > 0
    /\ processLock = NoOne
    /\ processLock' = d
    /\ pc' = [pc EXCEPT ![d] = "apply"]
    /\ UNCHANGED <<queue, enqueued, appendLock, applyLock, hookPc, batch, todo, rest,
                   applying, applies, crashes, history>>

\* Slip: the early return for a busy apply lock leaves the process lock held.
TakeApplyLockLeaks(d) ==
    /\ pc[d] = "apply"
    /\ IF applyLock[DaemonLockFile] = NoOne
         THEN /\ applyLock' = [applyLock EXCEPT ![DaemonLockFile] = d]
              /\ pc' = [pc EXCEPT ![d] = "read"]
         ELSE /\ pc' = [pc EXCEPT ![d] = "wait"]
              /\ UNCHANGED applyLock
    /\ UNCHANGED <<queue, enqueued, appendLock, processLock, hookPc, batch, todo, rest,
                   applying, applies, crashes, history>>

\* Slip: the daemon does not look at the apply lock.
TakeApplyLockBlindly(d) ==
    /\ pc[d] = "apply"
    /\ pc' = [pc EXCEPT ![d] = "read"]
    /\ applyLock' = [applyLock EXCEPT ![DaemonLockFile] = d]
    /\ UNCHANGED <<queue, enqueued, appendLock, processLock, hookPc, batch, todo, rest,
                   applying, applies, crashes, history>>

TakeApplyLock(d) ==
    /\ pc[d] = "apply"
    /\ IF applyLock[DaemonLockFile] = NoOne
         THEN /\ applyLock' = [applyLock EXCEPT ![DaemonLockFile] = d]
              /\ pc' = [pc EXCEPT ![d] = "read"]
              /\ UNCHANGED processLock
         ELSE /\ processLock' = NoOne
              /\ pc' = [pc EXCEPT ![d] = "wait"]
              /\ UNCHANGED applyLock
    /\ UNCHANGED <<queue, enqueued, appendLock, hookPc, batch, todo, rest, applying,
                   applies, crashes, history>>

\* Slip: the batch is drained when it is read.
ReadEventBatchDrains(d) ==
    /\ pc[d] = "read"
    /\ appendLock = NoOne
    /\ batch' = [batch EXCEPT ![d] = queue]
    /\ todo' = [todo EXCEPT ![d] = Latest(queue)]
    /\ queue' = <<>>
    /\ pc' = [pc EXCEPT ![d] = "loop"]
    /\ UNCHANGED <<enqueued, appendLock, processLock, applyLock, hookPc, rest,
                   applying, applies, crashes, history>>

\* _read_event_batch and _coalesce_event_payloads.
ReadEventBatch(d) ==
    /\ pc[d] = "read"
    /\ appendLock = NoOne
    /\ batch' = [batch EXCEPT ![d] = queue]
    /\ todo' = [todo EXCEPT ![d] = Latest(queue)]
    /\ pc' = [pc EXCEPT ![d] = "loop"]
    /\ UNCHANGED <<queue, enqueued, appendLock, processLock, applyLock, hookPc, rest,
                   applying, applies, crashes, history>>

StartEvent(d) ==
    /\ pc[d] = "loop"
    /\ \E i \in todo[d] :
         /\ \A j \in todo[d] : i <= j
         /\ todo' = [todo EXCEPT ![d] = @ \ {i}]
         /\ starts' = [n \in 1..MaxEvents |->
                         IF n \in Covered(batch[d], i) THEN starts[n] + 1 ELSE starts[n]]
         /\ lastId' = batch[d][i].id
    /\ pc' = [pc EXCEPT ![d] = "handling"]
    /\ UNCHANGED <<queue, enqueued, appendLock, processLock, applyLock, hookPc, batch, rest,
                   applying, applies, crashes, torn>>

\* process_event returned or raised: the exception is logged, the event is done.
FinishEvent(d) ==
    /\ pc[d] = "handling"
    /\ pc' = [pc EXCEPT ![d] = "loop"]
    /\ UNCHANGED <<queue, enqueued, appendLock, processLock, applyLock, hookPc, batch, todo,
                   rest, applying, applies, crashes, history>>

\* _delete_event_batch up to the truncation write_text starts with.
DeleteEventBatch(d) ==
    /\ pc[d] = "loop"
    /\ todo[d] = {}
    /\ IF batch[d] = <<>>
         THEN /\ pc' = [pc EXCEPT ![d] = "unlock"]
              /\ UNCHANGED <<queue, appendLock, rest>>
         ELSE /\ appendLock = NoOne
              /\ appendLock' = d
              /\ rest' = [rest EXCEPT ![d] = Remaining(queue, batch[d])]
              /\ queue' = <<>>
              /\ pc' = [pc EXCEPT ![d] = "rewrite"]
    /\ UNCHANGED <<enqueued, processLock, applyLock, hookPc, batch, todo, applying, applies,
                   crashes, history>>

WriteRemaining(d) ==
    /\ pc[d] = "rewrite"
    /\ queue' = rest[d]
    /\ rest' = [rest EXCEPT ![d] = <<>>]
    /\ appendLock' = NoOne
    /\ pc' = [pc EXCEPT ![d] = "unlock"]
    /\ UNCHANGED <<enqueued, processLock, applyLock, hookPc, batch, todo, applying, applies,
                   crashes, history>>

\* Leaving the two with blocks of process_event_queue.
ReleaseLocks(d) ==
    /\ pc[d] = "unlock"
    /\ applyLock' = [applyLock EXCEPT ![DaemonLockFile] = NoOne]
    /\ processLock' = NoOne
    /\ batch' = [batch EXCEPT ![d] = <<>>]
    /\ pc' = [pc EXCEPT ![d] = "wait"]
    /\ UNCHANGED <<queue, enqueued, appendLock, hookPc, todo, rest, applying, applies,
                   crashes, history>>

\* SIGKILL (a SIGTERM only ends the loop between two polls) and the restart by
\* systemd. flock releases what the process held; write_text is cut short.
Kill(d) ==
    /\ pc[d] # "wait"
    /\ crashes < MaxCrashes
    /\ crashes' = crashes + 1
    /\ torn' = torn \cup Ids(rest[d])
    /\ lastId' = 0
    /\ pc' = [pc EXCEPT ![d] = "wait"]
    /\ batch' = [batch EXCEPT ![d] = <<>>]
    /\ todo' = [todo EXCEPT ![d] = {}]
    /\ rest' = [rest EXCEPT ![d] = <<>>]
    /\ appendLock' = IF appendLock = d THEN NoOne ELSE appendLock
    /\ processLock' = IF processLock = d THEN NoOne ELSE processLock
    /\ applyLock' = [f \in LockFile |-> IF applyLock[f] = d THEN NoOne ELSE applyLock[f]]
    /\ UNCHANGED <<queue, enqueued, hookPc, applying, applies, starts>>

-----------------------------------------------------------------------------
HookStep(h) ==
    \/ \E k \in Keys, now \in BOOLEAN : EnqueueEvent(h, k, now)
    \/ HookProcessEvent(h)
    \/ HookDone(h)

CliStep(a) == ManualCliLock(a) \/ ManualCliDone(a)

DaemonStep(d) ==
    \/ TakeProcessLock(d) \/ TakeApplyLock(d)
    \/ ReadEventBatch(d)
    \/ StartEvent(d) \/ FinishEvent(d)
    \/ DeleteEventBatch(d) \/ WriteRemaining(d)
    \/ ReleaseLocks(d)

Next ==
    \/ \E h \in Hooks : HookStep(h)
    \/ \E a \in Appliers : CliStep(a)
    \/ \E d \in Daemons : DaemonStep(d) \/ Kill(d)

Spec == Init /\ [][Next]_vars

\* drosd polls for ever (Restart=on-failure) and every gw command ends.
Fairness ==
    /\ \A d \in Daemons : WF_vars(DaemonStep(d))
    /\ \A a \in Appliers : WF_vars(ManualCliDone(a))

FairSpec == Spec /\ Fairness

-----------------------------------------------------------------------------
(* Properties *)

PcValue == {"wait", "apply", "read", "loop", "handling", "rewrite", "unlock"}

\* Every variable has its type; a daemon's todo list only names lines it read.
TypeOK ==
    /\ queue \in Seq(Line)
    /\ enqueued \in 0..MaxEvents
    /\ appendLock \in Daemons \cup {NoOne}
    /\ processLock \in Daemons \cup {NoOne}
    /\ applyLock \in [LockFile -> Daemons \cup Appliers \cup {NoOne}]
    /\ hookPc \in [Hooks -> {"idle", "queued", "processing"}]
    /\ pc \in [Daemons -> PcValue]
    /\ batch \in [Daemons -> Seq(Line)]
    /\ todo \in [Daemons -> SUBSET Nat]
    /\ \A d \in Daemons : todo[d] \subseteq DOMAIN batch[d]
    /\ rest \in [Daemons -> Seq(Line)]
    /\ applying \in SUBSET Appliers
    /\ applies \in 0..MaxApplies
    /\ crashes \in 0..MaxCrashes
    /\ starts \in [1..MaxEvents -> Nat]
    /\ torn \in SUBSET (1..MaxEvents)
    /\ lastId \in 0..MaxEvents

\* An enqueued event is in the file, or in the memory of the daemon rewriting
\* the file, until a handler has run for it (or for a later duplicate): the
\* delete of a batch never takes an event enqueued while the batch was handled.
\* Only a kill between the truncation and the write of write_text loses one.
NoLostEvent ==
    \A n \in 1..enqueued :
        \/ starts[n] > 0
        \/ n \in Ids(queue)
        \/ \E d \in Daemons : n \in Ids(rest[d])
        \/ n \in torn

\* While a daemon handles a batch the file still starts with it, so the branch
\* of _delete_event_batch for a queue an external editor touched
\* (events.py:178) is not reached, and a kill finds the whole batch on disk.
BatchIsPrefix ==
    \A d \in Daemons : pc[d] \in {"loop", "handling"} => StartsWith(queue, batch[d])

\* The processes that are changing the system configuration right now.
ApplyPaths ==
    {d \in Daemons : pc[d] = "handling"} \cup applying
        \cup {h \in Hooks : hookPc[h] = "processing"}

\* Only one system apply path runs at a time (docs/bootstrap.md:77-79).
OnlyOneApplyPath == \A p, q \in ApplyPaths : p = q

\* Once the queue is drained, the last handler that ran was the one of the last
\* event enqueued: coalescing never lets an older state of a link win.
LastWord ==
    (queue = <<>> /\ \A d \in Daemons : pc[d] = "wait") => lastId \in {0, enqueued}

\* Every event enqueued is handled in the end or was torn by a kill, though the
\* daemon gives up each poll that finds a gw command at work.
EventuallyHandled ==
    \A n \in 1..MaxEvents : enqueued >= n ~> (starts[n] > 0 \/ n \in torn)

\* The promise made to the callers of gw hook.
Mailbox == INSTANCE EventMailbox WITH
    sent <- enqueued,
    pending <- Ids(queue) \cup UNION {Ids(rest[d]) : d \in Daemons},
    served <- {n \in 1..enqueued : starts[n] > 0},
    lost <- torn,
    newest <- lastId

\* The queue of files, locks and polls implements that promise.
MailboxSpec == Mailbox!Spec

\* The inductive invariant behind the theorems of EventQueue_proofs: who holds
\* which lock, what a daemon has in memory at each point, and ...
HoldsLocks(d) ==
    /\ pc[d] # "wait" <=> processLock = d
    /\ pc[d] \in {"read", "loop", "handling", "rewrite", "unlock"}
         <=> applyLock[DaemonLockFile] = d
    /\ pc[d] = "rewrite" <=> appendLock = d

DaemonMemory(d) ==
    /\ pc[d] \notin {"loop", "handling"} => todo[d] = {}
    /\ pc[d] # "rewrite" => rest[d] = <<>>
    /\ pc[d] = "rewrite" => queue = <<>>

\* ... every line of a batch has been handled or has a line to be handled that
\* covers it.
BatchCovered(d) ==
    pc[d] \in {"loop", "handling"} =>
        \A i \in DOMAIN batch[d] :
            \/ starts[batch[d][i].id] > 0
            \/ \E j \in todo[d] : batch[d][j].key = batch[d][i].key

\* The lines of the file, or those about to be written back, are the last ones
\* enqueued, in the order of their enqueues, and they are newer than the line
\* handled last; the part of a batch under way that is still to be handled is.
LastLines(lines) == \A i \in DOMAIN lines : lines[i].id + Len(lines) = enqueued + i
Newer(lines) == \A i \in DOMAIN lines : lastId < lines[i].id

BatchOrder(d) ==
    /\ todo[d] \subseteq Latest(batch[d])
    /\ \A j \in todo[d] : lastId < batch[d][j].id
    /\ \A i \in DOMAIN queue : i > Len(batch[d]) => lastId < queue[i].id
    /\ batch[d] # <<>> =>
         Len(batch[d]) \in todo[d] \/ lastId = batch[d][Len(batch[d])].id

LineOrder ==
    /\ LastLines(queue)
    /\ \A n \in 1..MaxEvents : starts[n] > 0 => n <= enqueued
    /\ lastId <= enqueued
    /\ \A d \in Daemons : LastLines(rest[d]) /\ Newer(rest[d])
    /\ \A d \in Daemons : pc[d] \in {"loop", "handling"} => BatchOrder(d)
    /\ (\A d \in Daemons : pc[d] \notin {"loop", "handling"}) => Newer(queue)
    /\ lastId \in {0, enqueued} \/ queue # <<>> \/ \E d \in Daemons : rest[d] # <<>>

QueueInv ==
    /\ TypeOK
    /\ \A d \in Daemons : HoldsLocks(d) /\ DaemonMemory(d) /\ BatchCovered(d)
    /\ \A a \in applying : applyLock[CliLockFile] = a
    /\ BatchIsPrefix
    /\ NoLostEvent
    /\ LineOrder

\* "Drained events are removed from events.jsonl, so daemon restarts do not
\* replay historical hook events" (docs/bootstrap.md:70-72).
NoReplay == \A n \in 1..MaxEvents : starts[n] <= 1
=============================================================================
