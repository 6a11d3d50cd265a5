---------------------------- MODULE XfrmLifecycle ----------------------------
(***************************************************************************)
(* One XfrmTransport with activation: manual and the gre / wireguard       *)
(* interfaces that refer to it (src/dros/plugins/network_xfrm.py): their   *)
(* ifupdown hooks queue xfrm-start and xfrm-stop events, drosd drains the  *)
(* queue, looks at the links and adds or deletes the kernel's states and   *)
(* policies one `ip xfrm` command at a time, and an operator runs gw start *)
(* and gw stop. The queue is that of EventQueue, seen batch by batch.      *)
(***************************************************************************)
EXTENDS Naturals, Sequences, EventLines

CONSTANTS
    Ifaces,          \* Interface objects whose xfrmTransport is this one
    Disabled,        \* those with enabled: false
    MaxIfOps,        \* bound: ifup and ifdown runs
    MaxManual,       \* bound: gw start / gw stop runs
    MaxFaults,       \* bound: failing commands, foreign links
    MaxCrashes       \* bound: drosd killed

ASSUME XfrmAssumption ==
    /\ Disabled \subseteq Ifaces
    /\ MaxIfOps \in Nat /\ MaxManual \in Nat /\ MaxFaults \in Nat /\ MaxCrashes \in Nat

VARIABLES
    link,            \* per interface: gone, live, or foreign (another kind or endpoints)
    ifPc,            \* per interface: down, rising, up, falling (ifupdown's progress)
    queue,           \* events.jsonl, lines [key |-> "start" or "stop"]
    taken,           \* lines in the batch drosd has read
    todo,            \* indices of the batch still to be handled
    lock,            \* holder of gw-apply.lock: free, drosd, gw
    script,          \* ip xfrm commands still to be run by the holder
    installed,       \* states and policies in the kernel
    by,              \* history: who last ran a script: nobody, hook, manual
    failed,          \* history: a handler failed, no script has completed since
    ifOps, manuals, faults, crashes

linkVars == <<link, ifPc, ifOps>>
batchVars == <<queue, taken, todo>>
vars == <<linkVars, batchVars, lock, script, installed, by, failed, manuals, faults, crashes>>

Direction == {"out", "in"}
Object == {"state", "policy"} \X Direction
Command == [op : {"add", "delete"}, object : Object]
Add(kind, dir) == [op |-> "add", object |-> <<kind, dir>>]
Delete(kind, dir) == [op |-> "delete", object |-> <<kind, dir>>]

\* _stop_transport
StopCommands == <<Delete("policy", "out"), Delete("policy", "in"),
                  Delete("state", "out"), Delete("state", "in")>>

\* start_xfrm. Slip: policies first.
StartPoliciesFirst == StopCommands \o <<Add("policy", "out"), Add("policy", "in"),
                                        Add("state", "out"), Add("state", "in")>>
StartCommands == StopCommands \o <<Add("state", "out"), Add("state", "in"),
                                   Add("policy", "out"), Add("policy", "in")>>

Idle == lock = "free"

\* An interface runs when its transport does: the state at boot, or later.
Init ==
    /\ ifPc \in [Ifaces -> {"down", "up"}]
    /\ link = [i \in Ifaces |-> IF ifPc[i] = "up" THEN "live" ELSE "gone"]
    /\ installed = IF \E i \in Ifaces : ifPc[i] = "up" THEN Object ELSE {}
    /\ queue = <<>> /\ taken = 0 /\ todo = {}
    /\ lock = "free" /\ script = <<>>
    /\ by = "nobody" /\ failed = FALSE
    /\ ifOps = 0 /\ manuals = 0 /\ faults = 0 /\ crashes = 0

-----------------------------------------------------------------------------
(* ifupdown, one run per interface at a time: _render_gre and              *)
(* _render_wireguard_iface.                                                *)

Enqueue(event) == queue' = Append(queue, [key |-> event])

\* pre-up ip tunnel add / ip link add, which fails when the name is taken.
IfUp(i) ==
    /\ ifPc[i] = "down" /\ link[i] = "gone"
    /\ ifOps < MaxIfOps
    /\ ifOps' = ifOps + 1
    /\ link' = [link EXCEPT ![i] = "live"]
    /\ ifPc' = [ifPc EXCEPT ![i] = "rising"]
    /\ UNCHANGED <<batchVars, lock, script, installed, by, failed, manuals, faults, crashes>>

\* post-up gw hook xfrm-start
IfUpHook(i) ==
    /\ ifPc[i] = "rising"
    /\ ifPc' = [ifPc EXCEPT ![i] = "up"]
    /\ Enqueue("start")
    /\ UNCHANGED <<link, ifOps, taken, todo, lock, script, installed, by, failed, manuals,
                   faults, crashes>>

\* A command between the two failed: the link stays, ifupdown calls it down.
IfUpFails(i) ==
    /\ ifPc[i] = "rising"
    /\ faults < MaxFaults
    /\ faults' = faults + 1
    /\ ifPc' = [ifPc EXCEPT ![i] = "down"]
    /\ UNCHANGED <<link, ifOps, batchVars, lock, script, installed, by, failed, manuals, crashes>>

\* ifdown --force; post-down ip tunnel del || true
IfDown(i) ==
    /\ ifPc[i] \in {"up", "down"} /\ link[i] # "foreign"
    /\ ifOps < MaxIfOps
    /\ ifOps' = ifOps + 1
    /\ ifPc' = [ifPc EXCEPT ![i] = "falling"]
    /\ \/ link' = [link EXCEPT ![i] = "gone"] /\ UNCHANGED faults
       \/ faults < MaxFaults /\ faults' = faults + 1 /\ UNCHANGED link
    /\ UNCHANGED <<batchVars, lock, script, installed, by, failed, manuals, crashes>>

\* post-down gw hook xfrm-stop
IfDownHook(i) ==
    /\ ifPc[i] = "falling"
    /\ ifPc' = [ifPc EXCEPT ![i] = "down"]
    /\ Enqueue("stop")
    /\ UNCHANGED <<link, ifOps, taken, todo, lock, script, installed, by, failed, manuals,
                   faults, crashes>>

\* An operator gives the name to a link of another kind, or takes it back.
ForeignLink(i) ==
    /\ ifPc[i] = "down" /\ link[i] = "gone"
    /\ faults < MaxFaults
    /\ faults' = faults + 1
    /\ link' = [link EXCEPT ![i] = "foreign"]
    /\ UNCHANGED <<ifPc, ifOps, batchVars, lock, script, installed, by, failed, manuals, crashes>>

ForeignLinkGone(i) ==
    /\ link[i] = "foreign"
    /\ link' = [link EXCEPT ![i] = "gone"]
    /\ UNCHANGED <<ifPc, ifOps, batchVars, lock, script, installed, by, failed, manuals, faults,
                   crashes>>

-----------------------------------------------------------------------------
(* drosd: handle_event for each event of a batch.                          *)

DrosdReadBatch ==
    /\ Idle /\ queue # <<>>
    /\ lock' = "drosd"
    /\ taken' = Len(queue)
    /\ todo' = Latest(queue)
    /\ UNCHANGED <<linkVars, queue, script, installed, by, failed, manuals, faults, crashes>>

\* _has_live_interface: the interfaces that count are the enabled ones, or all.
Associated(includeDisabled) == IF includeDisabled THEN Ifaces ELSE Ifaces \ Disabled
RuntimeDiffers(includeDisabled) == \E i \in Associated(includeDisabled) : link[i] = "foreign"
HasLiveInterface(includeDisabled) == \E i \in Associated(includeDisabled) : link[i] = "live"

\* Slip: a queued event is taken at its word.
ScriptForAtItsWord(event) == IF event = "start" THEN StartCommands ELSE StopCommands
ScriptFor(event) ==
    IF event = "start"
      THEN IF HasLiveInterface(FALSE) THEN StartCommands ELSE <<>>
      ELSE IF HasLiveInterface(TRUE) THEN <<>> ELSE StopCommands

DrosdHandleEvent ==
    /\ lock = "drosd" /\ script = <<>>
    /\ \E n \in todo :
         /\ \A m \in todo : n <= m
         /\ todo' = todo \ {n}
         /\ IF RuntimeDiffers(queue[n].key = "stop")
              THEN failed' = TRUE /\ UNCHANGED script
              ELSE script' = ScriptFor(queue[n].key) /\ UNCHANGED failed
    /\ UNCHANGED <<linkVars, queue, taken, lock, installed, by, manuals, faults, crashes>>

\* Slip: the whole file is emptied.
DrosdFinishAll ==
    /\ lock = "drosd" /\ script = <<>> /\ todo = {}
    /\ queue' = <<>>
    /\ taken' = 0
    /\ lock' = "free"
    /\ UNCHANGED <<linkVars, todo, script, installed, by, failed, manuals, faults, crashes>>

DrosdFinishBatch ==
    /\ lock = "drosd" /\ script = <<>> /\ todo = {}
    /\ queue' = SubSeq(queue, taken + 1, Len(queue))
    /\ taken' = 0
    /\ lock' = "free"
    /\ UNCHANGED <<linkVars, todo, script, installed, by, failed, manuals, faults, crashes>>

\* Killed and restarted: the batch is still in the file.
DrosdKilled ==
    /\ lock = "drosd"
    /\ crashes < MaxCrashes
    /\ crashes' = crashes + 1
    /\ lock' = "free" /\ script' = <<>> /\ todo' = {} /\ taken' = 0
    /\ UNCHANGED <<linkVars, queue, installed, by, failed, manuals, faults>>

-----------------------------------------------------------------------------
(* gw start xfrm/<name> and gw stop xfrm/<name>: _xfrm_lifecycle.          *)

GwXfrm(action) ==
    /\ Idle
    /\ manuals < MaxManual
    /\ manuals' = manuals + 1
    /\ lock' = "gw"
    /\ script' = IF action = "start" THEN StartCommands ELSE StopCommands
    /\ by' = "manual"
    /\ UNCHANGED <<linkVars, batchVars, installed, failed, faults, crashes>>

GwDone ==
    /\ lock = "gw" /\ script = <<>>
    /\ lock' = "free"
    /\ UNCHANGED <<linkVars, batchVars, script, installed, by, failed, manuals, faults, crashes>>

-----------------------------------------------------------------------------
(* start_xfrm and stop_xfrm, run by whoever holds the lock.                *)

Effect(command) ==
    IF command.op = "add" THEN installed \cup {command.object} ELSE installed \ {command.object}

RunCommand ==
    /\ script # <<>>
    /\ installed' = Effect(Head(script))
    /\ script' = Tail(script)
    /\ IF Tail(script) = <<>> /\ lock = "drosd"
         THEN by' = "hook" /\ failed' = FALSE
         ELSE UNCHANGED <<by, failed>>
    /\ UNCHANGED <<linkVars, batchVars, lock, manuals, faults, crashes>>

\* A failing add raises: the event is logged and dropped, gw start fails.
CommandFails ==
    /\ script # <<>> /\ Head(script).op = "add"
    /\ faults < MaxFaults
    /\ faults' = faults + 1
    /\ script' = <<>>
    /\ failed' = TRUE
    /\ UNCHANGED <<linkVars, batchVars, lock, installed, by, manuals, crashes>>

-----------------------------------------------------------------------------
Ifupdown(i) == IfUp(i) \/ IfUpHook(i) \/ IfUpFails(i) \/ IfDown(i) \/ IfDownHook(i)

Drosd == DrosdReadBatch \/ DrosdHandleEvent \/ DrosdFinishBatch

Next ==
    \/ \E i \in Ifaces : Ifupdown(i) \/ ForeignLink(i) \/ ForeignLinkGone(i)
    \/ Drosd \/ DrosdKilled
    \/ \E action \in {"start", "stop"} : GwXfrm(action)
    \/ GwDone
    \/ RunCommand \/ CommandFails

Spec == Init /\ [][Next]_vars

\* Commands end, drosd polls for ever, and an ifup or ifdown runs its hooks.
FairSpec ==
    /\ Spec
    /\ WF_vars(Drosd) /\ WF_vars(RunCommand) /\ WF_vars(GwDone)
    /\ \A i \in Ifaces : WF_vars(IfUpHook(i)) /\ WF_vars(IfDownHook(i))

-----------------------------------------------------------------------------
(* Properties *)

TypeOK ==
    /\ link \in [Ifaces -> {"gone", "live", "foreign"}]
    /\ ifPc \in [Ifaces -> {"down", "rising", "up", "falling"}]
    /\ queue \in Seq([key : {"start", "stop"}])
    /\ taken \in 0..Len(queue)
    /\ todo \in SUBSET (1..taken)
    /\ lock \in {"free", "drosd", "gw"}
    /\ script \in Seq(Command)
    /\ installed \in SUBSET Object
    /\ by \in {"nobody", "hook", "manual"}
    /\ failed \in BOOLEAN
    /\ ifOps \in 0..MaxIfOps /\ manuals \in 0..MaxManual
    /\ faults \in 0..MaxFaults /\ crashes \in 0..MaxCrashes

\* At every command boundary, also after a failure or a kill, a policy of the
\* transport has its state: traffic is never held by a policy without a key.
PolicyHasState ==
    \A dir \in Direction : <<"policy", dir>> \in installed => <<"state", dir>> \in installed

Settled ==
    /\ queue = <<>> /\ Idle
    /\ \A i \in Ifaces : ifPc[i] \in {"up", "down"}

\* When every event has been handled, no handler has failed and gw start / stop
\* was not the last to act, the transport is complete if an interface that uses
\* it is up, and has left no trace if all are gone: old start events have not
\* rebuilt it, old stop events have not torn it down, whatever the order of
\* links, events, kills and gw commands (docs/delete.md).
SettledIsConsistent ==
    Settled /\ ~failed /\ by # "manual" =>
        /\ (\E i \in Ifaces \ Disabled : ifPc[i] = "up") => installed = Object
        /\ (\A i \in Ifaces : link[i] = "gone") => installed = {}

\* An interface that has come up gets its transport (or goes down again, or an
\* error or an operator gets in the way).
UpIsProtected ==
    \A i \in Ifaces \ Disabled :
        ifPc[i] = "up" ~> (installed = Object \/ ifPc[i] # "up" \/ failed \/ by = "manual")
=============================================================================
