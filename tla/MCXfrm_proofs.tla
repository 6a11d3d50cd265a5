---------------------------- MODULE MCXfrm_proofs ----------------------------
(***************************************************************************)
(* Proofs about an XFRM transport in both its lives, for every number of   *)
(* interfaces, events, failing commands, kills, edits and reboots.         *)
(***************************************************************************)
EXTENDS MCXfrm, EventLines_proofs

Kinds == {"state", "policy"}

\* The commands of a script come in an order that is safe at every boundary: a
\* state is deleted after its policy, a policy added after its state.
DeletesInOrder ==
    \A i \in DOMAIN script : \A dir \in Direction :
        script[i] = Delete("state", dir) =>
            /\ \/ <<"policy", dir>> \notin installed
               \/ \E j \in DOMAIN script : j < i /\ script[j] = Delete("policy", dir)
            /\ \A j \in DOMAIN script : j < i => script[j] # Add("policy", dir)

AddsInOrder ==
    \A i \in DOMAIN script : \A dir \in Direction :
        script[i] = Add("policy", dir) =>
            \/ /\ <<"state", dir>> \in installed
               /\ \A j \in DOMAIN script : j < i => script[j] # Delete("state", dir)
            \/ \E j \in DOMAIN script :
                 /\ j < i /\ script[j] = Add("state", dir)
                 /\ \A k \in DOMAIN script : j < k /\ k < i => script[k] # Delete("state", dir)

\* The rest of the script leaves the transport complete, or leaves no trace of it.
EndsComplete ==
    \A kind \in Kinds, dir \in Direction :
        \/ /\ <<kind, dir>> \in installed
           /\ \A j \in DOMAIN script : script[j] # Delete(kind, dir)
        \/ \E j \in DOMAIN script :
             /\ script[j] = Add(kind, dir)
             /\ \A k \in DOMAIN script : j < k => script[k] # Delete(kind, dir)

EndsEmpty ==
    \A kind \in Kinds, dir \in Direction :
        /\ \A j \in DOMAIN script : script[j] # Add(kind, dir)
        /\ <<kind, dir>> \in installed => \E j \in DOMAIN script : script[j] = Delete(kind, dir)

\* A line of the file that has not been handled: drosd has not read it, or it
\* has a line of its batch to handle that is the same event.
Pending(event) ==
    \/ \E n \in DOMAIN queue : n > taken /\ queue[n].key = event
    \/ \E n \in todo : queue[n].key = event

InFile(event) == \E n \in DOMAIN queue : queue[n].key = event

\* The transport fits its links, or an event that will mend it is still to come.
UpIsServed ==
    \A i \in Ifaces \ Disabled : ifPc[i] = "up" => Pending("start") \/ EndsComplete
GoneIsServed ==
    (\A i \in Ifaces : link[i] # "live") =>
        (\E i \in Ifaces : ifPc[i] = "falling") \/ Pending("stop") \/ EndsEmpty

ScriptOfDrosd == lock = "drosd" /\ script # <<>>

\* Who works when, ...
LockInv ==
    /\ lock # "drosd" => taken = 0 /\ todo = {}
    /\ script # <<>> => lock # "free"
    /\ \A i \in Ifaces : ifPc[i] \in {"rising", "up"} => link[i] = "live"

\* ... in which order the commands come, ...
OrderInv == PolicyHasState /\ DeletesInOrder /\ AddsInOrder

\* ... and what they lead to; a killed drosd finds its event again.
ServedInv ==
    /\ ScriptOfDrosd => (EndsComplete /\ InFile("start")) \/ (EndsEmpty /\ InFile("stop"))
    /\ ScriptOfDrosd \/ (~failed /\ by # "manual") => UpIsServed /\ GoneIsServed

HookInv == life = "hooks" => TypeOK /\ LockInv /\ OrderInv /\ ServedInv

\* The update of a transport holds the lock, so no gw start gets between its steps.
UpdateInv ==
    /\ updPc # "idle" <=> lock = "update"
    /\ updPc \in {"write", "enable", "enabling", "restart"} => enabled
    /\ updPc = "stop" => ~unitFile
    /\ updPc = "ok" /\ ~enabled => ~unitInstalled /\ ~unitFile

UnitInv == life = "unit" => Unit!TypeOK /\ UpdateInv

-----------------------------------------------------------------------------
(* Types.                                                                  *)

Event == [key : {"start", "stop"}]

\* The two scripts, command by command.
LEMMA ScriptsAreCommands ==
    /\ StopCommands \in Seq(Command) /\ Len(StopCommands) = 4
    /\ StopCommands[1] = Delete("policy", "out") /\ StopCommands[2] = Delete("policy", "in")
    /\ StopCommands[3] = Delete("state", "out") /\ StopCommands[4] = Delete("state", "in")
    /\ StartCommands \in Seq(Command) /\ Len(StartCommands) = 8
    /\ \A i \in 1..4 : StartCommands[i] = StopCommands[i]
    /\ StartCommands[5] = Add("state", "out") /\ StartCommands[6] = Add("state", "in")
    /\ StartCommands[7] = Add("policy", "out") /\ StartCommands[8] = Add("policy", "in")
<1> DEFINE adds == <<Add("state", "out"), Add("state", "in"),
                     Add("policy", "out"), Add("policy", "in")>>
<1>1. \A kind \in Kinds, dir \in Direction : Delete(kind, dir) \in Command /\ Add(kind, dir) \in Command
    BY DEF Kinds, Direction, Delete, Add, Command, Object
<1>2. /\ StopCommands \in Seq(Command) /\ Len(StopCommands) = 4
      /\ StopCommands[1] = Delete("policy", "out") /\ StopCommands[2] = Delete("policy", "in")
      /\ StopCommands[3] = Delete("state", "out") /\ StopCommands[4] = Delete("state", "in")
    BY <1>1 DEF StopCommands, Kinds, Direction
<1>3. /\ adds \in Seq(Command) /\ Len(adds) = 4
      /\ adds[1] = Add("state", "out") /\ adds[2] = Add("state", "in")
      /\ adds[3] = Add("policy", "out") /\ adds[4] = Add("policy", "in")
    BY <1>1 DEF Kinds, Direction
<1>4. StartCommands = StopCommands \o adds
    BY DEF StartCommands
<1> HIDE DEF adds
<1>5. /\ StartCommands \in Seq(Command) /\ Len(StartCommands) = 8
      /\ \A i \in 1..8 : StartCommands[i] = IF i <= 4 THEN StopCommands[i] ELSE adds[i - 4]
    <2>1. /\ StopCommands \o adds \in Seq(Command)
          /\ Len(StopCommands \o adds) = Len(StopCommands) + Len(adds)
          /\ \A i \in 1..(Len(StopCommands) + Len(adds)) :
                (StopCommands \o adds)[i] =
                   IF i <= Len(StopCommands) THEN StopCommands[i] ELSE adds[i - Len(StopCommands)]
        BY <1>2, <1>3, ConcatProperties
    <2> QED BY <1>2, <1>3, <1>4, <2>1
<1>6. \A i \in 1..4 : StartCommands[i] = StopCommands[i]
    BY <1>5
<1>7. /\ StartCommands[5] = adds[1] /\ StartCommands[6] = adds[2]
      /\ StartCommands[7] = adds[3] /\ StartCommands[8] = adds[4]
    BY <1>5
<1> QED BY <1>2, <1>3, <1>5, <1>6, <1>7

\* The rest of a script is the script without its first command.
LEMMA RestOfScript ==
    ASSUME script \in Seq(Command), script # <<>>
    PROVE  /\ Tail(script) \in Seq(Command) /\ Len(Tail(script)) = Len(script) - 1
           /\ Len(script) \in Nat /\ 1 \in DOMAIN script
           /\ Head(script) = script[1] /\ script[1] \in Command
           /\ DOMAIN script = 1..Len(script) /\ DOMAIN Tail(script) = 1..(Len(script) - 1)
           /\ \A i \in DOMAIN Tail(script) :
                 i + 1 \in DOMAIN script /\ Tail(script)[i] = script[i + 1]
           /\ \A i \in DOMAIN script : i # 1 =>
                 i - 1 \in DOMAIN Tail(script) /\ Tail(script)[i - 1] = script[i]
<1>1. /\ Tail(script) \in Seq(Command) /\ Len(Tail(script)) = Len(script) - 1
      /\ Len(script) \in Nat /\ Len(script) > 0 /\ Head(script) = script[1]
      /\ DOMAIN script = 1..Len(script)
      /\ \A i \in 1..(Len(script) - 1) : Tail(script)[i] = script[i + 1]
    BY HeadTailProperties
<1>2. DOMAIN Tail(script) = 1..(Len(script) - 1)
    BY <1>1
<1>3. \A i \in 1..(Len(script) - 1) : i + 1 \in 1..Len(script)
    BY <1>1
<1>4. \A i \in 1..Len(script) : i # 1 => i - 1 \in 1..(Len(script) - 1) /\ (i - 1) + 1 = i
    BY <1>1
<1>5. 1 \in DOMAIN script /\ script[1] \in Command
    BY <1>1
<1> QED BY <1>1, <1>2, <1>3, <1>4, <1>5

LEMMA LifecycleTypes ==
    ASSUME TypeOK, LockInv, [Next]_vars
    PROVE  TypeOK'
<1>0. TypeOK /\ LockInv
    OBVIOUS
<1> USE <1>0, XfrmAssumption DEF linkVars, batchVars
<1>1. /\ queue \in Seq(Event) /\ Len(queue) \in Nat /\ taken \in 0..Len(queue)
      /\ todo \in SUBSET (1..taken)
    BY DEF TypeOK, Event
<1>2. ASSUME NEW event \in {"start", "stop"}, Enqueue(event), UNCHANGED <<taken, todo>>
      PROVE  queue' \in Seq(Event) /\ taken' \in 0..Len(queue')
    <2>1. [key |-> event] \in Event
        BY DEF Event
    <2>2. queue' \in Seq(Event) /\ Len(queue') = Len(queue) + 1
        BY <1>1, <1>2, <2>1 DEF Enqueue
    <2> QED BY <1>1, <1>2, <2>2
<1>3. ASSUME NEW i \in Ifaces, IfUp(i) \/ IfUpFails(i) \/ ForeignLink(i) \/ ForeignLinkGone(i)
      PROVE  TypeOK'
    <2>1. CASE IfUp(i)
        BY <2>1 DEF IfUp, TypeOK
    <2>2. CASE IfUpFails(i)
        BY <2>2 DEF IfUpFails, TypeOK
    <2>3. CASE ForeignLink(i)
        BY <2>3 DEF ForeignLink, TypeOK
    <2>4. CASE ForeignLinkGone(i)
        BY <2>4 DEF ForeignLinkGone, TypeOK
    <2> QED BY <1>3, <2>1, <2>2, <2>3, <2>4
<1>4. ASSUME NEW i \in Ifaces, IfDown(i) PROVE TypeOK'
    <2>1. link' \in [Ifaces -> {"gone", "live", "foreign"}] /\ faults' \in 0..MaxFaults
        BY <1>4 DEF IfDown, TypeOK
    <2>2. ifPc' \in [Ifaces -> {"down", "rising", "up", "falling"}] /\ ifOps' \in 0..MaxIfOps
        BY <1>4 DEF IfDown, TypeOK
    <2> QED BY <1>4, <2>1, <2>2 DEF IfDown, TypeOK
<1>5. ASSUME NEW i \in Ifaces, IfUpHook(i) PROVE TypeOK'
    <2>1. queue' \in Seq(Event) /\ taken' \in 0..Len(queue')
        BY <1>2, <1>5 DEF IfUpHook
    <2> QED BY <1>5, <2>1 DEF IfUpHook, TypeOK, Event
<1>6. ASSUME NEW i \in Ifaces, IfDownHook(i) PROVE TypeOK'
    <2>1. queue' \in Seq(Event) /\ taken' \in 0..Len(queue')
        BY <1>2, <1>6 DEF IfDownHook
    <2> QED BY <1>6, <2>1 DEF IfDownHook, TypeOK, Event
<1>7. ASSUME DrosdReadBatch PROVE TypeOK'
    <2>1. taken' \in 0..Len(queue')
        BY <1>1, <1>7 DEF DrosdReadBatch
    <2>2. todo' \in SUBSET (1..taken')
        BY <1>1, <1>7 DEF DrosdReadBatch, Latest
    <2> QED BY <1>7, <2>1, <2>2 DEF DrosdReadBatch, TypeOK
<1>8. ASSUME DrosdHandleEvent PROVE TypeOK'
    <2>1. todo' \in SUBSET (1..taken')
        BY <1>1, <1>8 DEF DrosdHandleEvent
    <2>2. \A event : ScriptFor(event) \in Seq(Command)
        <3>1. \A event : ScriptFor(event) \in {StartCommands, StopCommands, <<>>}
            BY DEF ScriptFor
        <3>2. StartCommands \in Seq(Command) /\ StopCommands \in Seq(Command)
              /\ <<>> \in Seq(Command)
            BY ScriptsAreCommands
        <3> QED BY <3>1, <3>2, Zenon
    <2>3. script' \in Seq(Command) /\ failed' \in BOOLEAN
        BY <1>8, <2>2 DEF DrosdHandleEvent, TypeOK
    <2> QED BY <1>8, <2>1, <2>3 DEF DrosdHandleEvent, TypeOK
<1>9. ASSUME DrosdFinishBatch PROVE TypeOK'
    <2>1. queue' \in Seq(Event)
        BY <1>1, <1>9, SubSeqProperties DEF DrosdFinishBatch
    <2>2. Len(queue') \in Nat /\ taken' = 0 /\ todo' = {}
        BY <1>9, <2>1 DEF DrosdFinishBatch
    <2> QED BY <1>9, <2>1, <2>2 DEF DrosdFinishBatch, TypeOK, Event
<1>10. ASSUME DrosdKilled PROVE TypeOK'
    BY <1>1, <1>10 DEF DrosdKilled, TypeOK
<1>11. ASSUME NEW action \in {"start", "stop"}, GwXfrm(action) PROVE TypeOK'
    BY <1>1, <1>11, ScriptsAreCommands DEF GwXfrm, TypeOK
<1>12. ASSUME GwDone PROVE TypeOK'
    BY <1>12 DEF GwDone, TypeOK
<1>13. ASSUME RunCommand PROVE TypeOK'
    <2>1. script' \in Seq(Command) /\ Head(script) \in Command
        BY <1>13, RestOfScript DEF RunCommand, TypeOK
    <2>2. installed' \in SUBSET Object
        BY <1>13, <2>1 DEF RunCommand, Effect, TypeOK, Command
    <2> QED BY <1>13, <2>1, <2>2 DEF RunCommand, TypeOK
<1>14. ASSUME CommandFails PROVE TypeOK'
    BY <1>14 DEF CommandFails, TypeOK
<1>15. CASE UNCHANGED vars
    BY <1>15 DEF vars, TypeOK
<1> QED BY <1>3, <1>4, <1>5, <1>6, <1>7, <1>8, <1>9, <1>10, <1>11, <1>12, <1>13, <1>14, <1>15
        DEF Next, Ifupdown, Drosd

(***************************************************************************)
(* Only the holder of the apply lock runs commands, a batch exists only in *)
(* the memory of drosd at work, an interface that is coming up or up has   *)
(* its link.                                                               *)
(***************************************************************************)
LEMMA NextLockInv ==
    ASSUME TypeOK, LockInv, [Next]_vars
    PROVE  LockInv'
<1>0. /\ link \in [Ifaces -> {"gone", "live", "foreign"}]
      /\ ifPc \in [Ifaces -> {"down", "rising", "up", "falling"}] /\ LockInv
    BY DEF TypeOK
<1> USE <1>0 DEF LockInv, linkVars, batchVars
<1>1. ASSUME NEW i \in Ifaces, Ifupdown(i) PROVE LockInv'
    BY <1>1 DEF Ifupdown, IfUp, IfUpHook, IfUpFails, IfDown, IfDownHook
<1>2. ASSUME NEW i \in Ifaces, ForeignLink(i) \/ ForeignLinkGone(i) PROVE LockInv'
    BY <1>2 DEF ForeignLink, ForeignLinkGone
<1>3. ASSUME Drosd PROVE LockInv'
    BY <1>3 DEF Drosd, DrosdReadBatch, DrosdHandleEvent, DrosdFinishBatch
<1>4. ASSUME DrosdKilled PROVE LockInv'
    BY <1>4 DEF DrosdKilled
<1>5. ASSUME NEW action \in {"start", "stop"}, GwXfrm(action) PROVE LockInv'
    BY <1>5 DEF GwXfrm, Idle
<1>6. ASSUME GwDone \/ RunCommand \/ CommandFails PROVE LockInv'
    BY <1>6 DEF GwDone, RunCommand, CommandFails
<1>7. CASE UNCHANGED vars
    BY <1>7 DEF vars
<1> QED BY <1>1, <1>2, <1>3, <1>4, <1>5, <1>6, <1>7 DEF Next

(***************************************************************************)
(* The order of the commands.                                              *)
(***************************************************************************)
LEMMA NewScriptOrder ==
    ASSUME script' \in {StartCommands, StopCommands, <<>>}
    PROVE  DeletesInOrder' /\ AddsInOrder'
<1> USE DEF Delete, Add, Direction
<1>1. CASE script' = <<>>
    BY <1>1 DEF DeletesInOrder, AddsInOrder
<1>2. CASE script' = StopCommands
    <2>1. /\ DOMAIN script' = {1, 2, 3, 4}
          /\ script'[1] = Delete("policy", "out") /\ script'[2] = Delete("policy", "in")
          /\ script'[3] = Delete("state", "out") /\ script'[4] = Delete("state", "in")
        BY <1>2, ScriptsAreCommands
    <2> QED BY <2>1 DEF DeletesInOrder, AddsInOrder
<1>3. CASE script' = StartCommands
    <2>1. /\ DOMAIN script' = {1, 2, 3, 4, 5, 6, 7, 8}
          /\ script'[1] = Delete("policy", "out") /\ script'[2] = Delete("policy", "in")
          /\ script'[3] = Delete("state", "out") /\ script'[4] = Delete("state", "in")
          /\ script'[5] = Add("state", "out") /\ script'[6] = Add("state", "in")
          /\ script'[7] = Add("policy", "out") /\ script'[8] = Add("policy", "in")
        BY <1>3, ScriptsAreCommands
    <2>2. DeletesInOrder'
        BY <2>1 DEF DeletesInOrder
    <2>3. AddsInOrder'
        BY <2>1 DEF AddsInOrder
    <2> QED BY <2>2, <2>3
<1> QED BY <1>1, <1>2, <1>3

\* What one command does to one object.
LEMMA OneCommand ==
    ASSUME script \in Seq(Command), RunCommand, NEW kind \in Kinds, NEW dir \in Direction
    PROVE  /\ script[1] = Add(kind, dir) => <<kind, dir>> \in installed'
           /\ script[1] = Delete(kind, dir) => <<kind, dir>> \notin installed'
           /\ script[1] # Add(kind, dir) /\ script[1] # Delete(kind, dir)
                => (<<kind, dir>> \in installed' <=> <<kind, dir>> \in installed)
<1>1. script # <<>> /\ installed' = Effect(script[1]) /\ script[1] \in Command
    BY RestOfScript DEF RunCommand
<1>2. script[1].op \in {"add", "delete"}
      /\ script[1] = [op |-> script[1].op, object |-> script[1].object]
    BY <1>1 DEF Command
<1>3. CASE script[1].op = "add"
    <2>1. installed' = installed \cup {script[1].object}
        BY <1>1, <1>3 DEF Effect
    <2>2. script[1] # Delete(kind, dir)
        BY <1>3 DEF Delete
    <2>3. script[1] = Add(kind, dir) <=> script[1].object = <<kind, dir>>
        BY <1>2, <1>3 DEF Add
    <2> QED BY <2>1, <2>2, <2>3
<1>4. CASE script[1].op = "delete"
    <2>1. installed' = installed \ {script[1].object}
        BY <1>1, <1>4 DEF Effect
    <2>2. script[1] # Add(kind, dir)
        BY <1>4 DEF Add
    <2>3. script[1] = Delete(kind, dir) <=> script[1].object = <<kind, dir>>
        BY <1>2, <1>4 DEF Delete
    <2> QED BY <2>1, <2>2, <2>3
<1> QED BY <1>2, <1>3, <1>4

LEMMA CommandOrder ==
    ASSUME TypeOK, OrderInv, RunCommand
    PROVE  OrderInv'
<1>0. /\ script \in Seq(Command) /\ script # <<>> /\ script' = Tail(script)
      /\ PolicyHasState /\ DeletesInOrder /\ AddsInOrder
    BY DEF TypeOK, RunCommand, OrderInv
<1>1. /\ Len(script) \in Nat /\ 1 \in DOMAIN script /\ DOMAIN script = 1..Len(script)
      /\ DOMAIN script' = 1..(Len(script) - 1)
      /\ \A i \in DOMAIN script' : i + 1 \in DOMAIN script /\ script'[i] = script[i + 1]
      /\ \A i \in DOMAIN script : i # 1 =>
            i - 1 \in DOMAIN script' /\ script'[i - 1] = script[i]
    BY <1>0, RestOfScript
<1>2. \A kind, dir : Add(kind, dir) # Delete(kind, dir)
    BY DEF Add, Delete
<1>3. "state" \in Kinds /\ "policy" \in Kinds
    BY DEF Kinds
<1>4. PolicyHasState'
    <2> SUFFICES ASSUME NEW dir \in Direction, <<"policy", dir>> \in installed'
                 PROVE  <<"state", dir>> \in installed'
        BY DEF PolicyHasState
    <2>1. CASE script[1] = Add("policy", dir)
        <3>1. <<"state", dir>> \in installed
            BY <1>0, <1>1, <2>1 DEF AddsInOrder
        <3>2. script[1] # Delete("state", dir)
            BY <2>1 DEF Add, Delete
        <3> QED BY <1>0, <1>3, <3>1, <3>2, OneCommand
    <2>2. CASE script[1] # Add("policy", dir)
        <3>1. <<"policy", dir>> \in installed
            BY <1>0, <1>3, <2>2, OneCommand
        <3>2. <<"state", dir>> \in installed
            BY <1>0, <3>1 DEF PolicyHasState
        <3>3. script[1] # Delete("state", dir)
            BY <1>0, <1>1, <3>1 DEF DeletesInOrder
        <3> QED BY <1>0, <1>3, <3>2, <3>3, OneCommand
    <2> QED BY <2>1, <2>2
<1>5. DeletesInOrder'
    <2> SUFFICES ASSUME NEW i \in DOMAIN script', NEW dir \in Direction,
                        script'[i] = Delete("state", dir)
                 PROVE  /\ \/ <<"policy", dir>> \notin installed'
                           \/ \E j \in DOMAIN script' : j < i /\ script'[j] = Delete("policy", dir)
                        /\ \A j \in DOMAIN script' : j < i => script'[j] # Add("policy", dir)
        BY DEF DeletesInOrder
    <2>1. i + 1 \in DOMAIN script /\ script[i + 1] = Delete("state", dir) /\ i \in Nat
        BY <1>1
    <2>2. /\ \/ <<"policy", dir>> \notin installed
             \/ \E j \in DOMAIN script : j < i + 1 /\ script[j] = Delete("policy", dir)
          /\ \A j \in DOMAIN script : j < i + 1 => script[j] # Add("policy", dir)
        BY <1>0, <2>1 DEF DeletesInOrder
    <2>3. \A j \in DOMAIN script' : j < i => script'[j] # Add("policy", dir)
        <3>1. \A j \in DOMAIN script' : j < i => j + 1 < i + 1
            BY <1>1, <2>1
        <3> QED BY <1>1, <2>2, <3>1
    <2>4. script[1] # Add("policy", dir)
        <3>1. 1 < i + 1
            BY <1>1
        <3> QED BY <1>1, <2>2, <3>1
    <2>5. CASE <<"policy", dir>> \notin installed
        BY <1>0, <1>3, <2>3, <2>4, <2>5, OneCommand
    <2>6. CASE \E j \in DOMAIN script : j < i + 1 /\ script[j] = Delete("policy", dir)
        <3>1. PICK j \in DOMAIN script : j < i + 1 /\ script[j] = Delete("policy", dir)
            BY <2>6
        <3>2. CASE j = 1
            BY <1>0, <1>3, <2>3, <3>1, <3>2, OneCommand
        <3>3. CASE j # 1
            <4>1. j - 1 \in DOMAIN script' /\ script'[j - 1] = Delete("policy", dir)
                BY <1>1, <3>1, <3>3
            <4>2. j - 1 < i
                BY <1>1, <2>1, <3>1
            <4> QED BY <2>3, <4>1, <4>2
        <3> QED BY <3>2, <3>3
    <2> QED BY <2>2, <2>5, <2>6
<1>6. AddsInOrder'
    <2> SUFFICES ASSUME NEW i \in DOMAIN script', NEW dir \in Direction,
                        script'[i] = Add("policy", dir)
                 PROVE  \/ /\ <<"state", dir>> \in installed'
                           /\ \A j \in DOMAIN script' : j < i => script'[j] # Delete("state", dir)
                        \/ \E j \in DOMAIN script' :
                             /\ j < i /\ script'[j] = Add("state", dir)
                             /\ \A k \in DOMAIN script' :
                                  j < k /\ k < i => script'[k] # Delete("state", dir)
        BY DEF AddsInOrder
    <2>1. i + 1 \in DOMAIN script /\ script[i + 1] = Add("policy", dir) /\ i \in Nat
        BY <1>1
    <2>2. \A j \in DOMAIN script' : /\ j \in Nat /\ j + 1 \in DOMAIN script
                                    /\ script'[j] = script[j + 1] /\ 1 < j + 1
                                    /\ (j < i <=> j + 1 < i + 1)
        BY <1>1, <2>1
    <2>3. CASE /\ <<"state", dir>> \in installed
               /\ \A j \in DOMAIN script : j < i + 1 => script[j] # Delete("state", dir)
        <3>1. \A j \in DOMAIN script' : j < i => script'[j] # Delete("state", dir)
            BY <2>2, <2>3
        <3>2. script[1] # Delete("state", dir)
            <4>1. 1 < i + 1
                BY <2>2
            <4> QED BY <1>1, <2>3, <4>1
        <3>3. <<"state", dir>> \in installed'
            BY <1>0, <1>3, <2>3, <3>2, OneCommand
        <3> QED BY <3>1, <3>3
    <2>4. CASE \E j \in DOMAIN script :
                 /\ j < i + 1 /\ script[j] = Add("state", dir)
                 /\ \A k \in DOMAIN script : j < k /\ k < i + 1 => script[k] # Delete("state", dir)
        <3>1. PICK j \in DOMAIN script :
                 /\ j < i + 1 /\ script[j] = Add("state", dir)
                 /\ \A k \in DOMAIN script : j < k /\ k < i + 1 => script[k] # Delete("state", dir)
            BY <2>4
        <3>2. CASE j = 1
            <4>1. \A k \in DOMAIN script' : k < i => script'[k] # Delete("state", dir)
                BY <2>2, <3>1, <3>2
            <4>2. <<"state", dir>> \in installed'
                BY <1>0, <1>3, <3>1, <3>2, OneCommand
            <4> QED BY <4>1, <4>2
        <3>3. CASE j # 1
            <4>1. j - 1 \in DOMAIN script' /\ script'[j - 1] = Add("state", dir) /\ j - 1 < i
                BY <1>1, <2>1, <3>1, <3>3
            <4>2. \A k \in DOMAIN script' : j - 1 < k => j < k + 1
                BY <1>1
            <4>3. \A k \in DOMAIN script' :
                    j - 1 < k /\ k < i => script'[k] # Delete("state", dir)
                BY <2>2, <3>1, <4>2
            <4> QED BY <4>1, <4>3
        <3> QED BY <3>2, <3>3
    <2> QED BY <1>0, <2>1, <2>3, <2>4 DEF AddsInOrder
<1> QED BY <1>4, <1>5, <1>6 DEF OrderInv

LEMMA NextOrderInv ==
    ASSUME TypeOK, OrderInv, [Next]_vars
    PROVE  OrderInv'
<1>1. ASSUME UNCHANGED <<script, installed>> PROVE OrderInv'
    BY <1>1 DEF OrderInv, PolicyHasState, DeletesInOrder, AddsInOrder
<1>2. ASSUME UNCHANGED installed, script' \in {StartCommands, StopCommands, <<>>} PROVE OrderInv'
    BY <1>2, NewScriptOrder DEF OrderInv, PolicyHasState
<1>3. ASSUME NEW i \in Ifaces, Ifupdown(i) \/ ForeignLink(i) \/ ForeignLinkGone(i) PROVE OrderInv'
    BY <1>1, <1>3 DEF Ifupdown, IfUp, IfUpHook, IfUpFails, IfDown, IfDownHook, ForeignLink,
                      ForeignLinkGone
<1>4. ASSUME DrosdReadBatch \/ DrosdFinishBatch \/ GwDone PROVE OrderInv'
    BY <1>1, <1>4 DEF DrosdReadBatch, DrosdFinishBatch, GwDone
<1>5. ASSUME DrosdHandleEvent PROVE OrderInv'
    <2>1. \A event : ScriptFor(event) \in {StartCommands, StopCommands, <<>>}
        BY DEF ScriptFor
    <2>2. UNCHANGED installed /\ (UNCHANGED script \/ \E event : script' = ScriptFor(event))
        BY <1>5 DEF DrosdHandleEvent
    <2> QED BY <1>1, <1>2, <2>1, <2>2
<1>6. ASSUME DrosdKilled \/ CommandFails PROVE OrderInv'
    BY <1>2, <1>6 DEF DrosdKilled, CommandFails
<1>7. ASSUME NEW action \in {"start", "stop"}, GwXfrm(action) PROVE OrderInv'
    BY <1>2, <1>7 DEF GwXfrm
<1>8. CASE UNCHANGED vars
    BY <1>1, <1>8 DEF vars
<1> QED BY <1>3, <1>4, <1>5, <1>6, <1>7, <1>8, CommandOrder DEF Next, Drosd

(***************************************************************************)
(* What a script leads to.                                                 *)
(***************************************************************************)
LEMMA NewScriptEnds ==
    /\ script' = StartCommands => EndsComplete'
    /\ script' = StopCommands => EndsEmpty'
<1> USE DEF Delete, Add, Direction, Kinds
<1>1. ASSUME script' = StopCommands PROVE EndsEmpty'
    <2>1. /\ DOMAIN script' = {1, 2, 3, 4}
          /\ script'[1] = Delete("policy", "out") /\ script'[2] = Delete("policy", "in")
          /\ script'[3] = Delete("state", "out") /\ script'[4] = Delete("state", "in")
        BY <1>1, ScriptsAreCommands
    <2> QED BY <2>1 DEF EndsEmpty
<1>2. ASSUME script' = StartCommands PROVE EndsComplete'
    <2>1. /\ DOMAIN script' = {1, 2, 3, 4, 5, 6, 7, 8}
          /\ script'[5] = Add("state", "out") /\ script'[6] = Add("state", "in")
          /\ script'[7] = Add("policy", "out") /\ script'[8] = Add("policy", "in")
        BY <1>2, ScriptsAreCommands
    <2> QED BY <2>1 DEF EndsComplete
<1> QED BY <1>1, <1>2

LEMMA CommandEnds ==
    ASSUME script \in Seq(Command), RunCommand
    PROVE  (EndsComplete => EndsComplete') /\ (EndsEmpty => EndsEmpty')
<1>1. /\ script # <<>> /\ script' = Tail(script)
      /\ Len(script) \in Nat /\ 1 \in DOMAIN script /\ DOMAIN script = 1..Len(script)
      /\ DOMAIN script' = 1..(Len(script) - 1)
      /\ \A i \in DOMAIN script' : i + 1 \in DOMAIN script /\ script'[i] = script[i + 1]
      /\ \A i \in DOMAIN script : i # 1 =>
            i - 1 \in DOMAIN script' /\ script'[i - 1] = script[i]
    BY RestOfScript DEF RunCommand
<1>2. ASSUME EndsComplete, NEW kind \in Kinds, NEW dir \in Direction
      PROVE  \/ /\ <<kind, dir>> \in installed'
                /\ \A j \in DOMAIN script' : script'[j] # Delete(kind, dir)
             \/ \E j \in DOMAIN script' :
                  /\ script'[j] = Add(kind, dir)
                  /\ \A k \in DOMAIN script' : j < k => script'[k] # Delete(kind, dir)
    <2>1. CASE /\ <<kind, dir>> \in installed
               /\ \A j \in DOMAIN script : script[j] # Delete(kind, dir)
        BY <1>1, <2>1, OneCommand
    <2>2. CASE \E j \in DOMAIN script :
                 /\ script[j] = Add(kind, dir)
                 /\ \A k \in DOMAIN script : j < k => script[k] # Delete(kind, dir)
        <3>1. PICK j \in DOMAIN script :
                 /\ script[j] = Add(kind, dir)
                 /\ \A k \in DOMAIN script : j < k => script[k] # Delete(kind, dir)
            BY <2>2
        <3>2. CASE j = 1
            <4>1. \A k \in DOMAIN script' : 1 < k + 1
                BY <1>1
            <4>2. \A k \in DOMAIN script' : script'[k] # Delete(kind, dir)
                BY <1>1, <3>1, <3>2, <4>1
            <4> QED BY <3>1, <3>2, <4>2, OneCommand
        <3>3. CASE j # 1
            <4>1. j - 1 \in DOMAIN script' /\ script'[j - 1] = Add(kind, dir)
                BY <1>1, <3>1, <3>3
            <4>2. \A k \in DOMAIN script' : j - 1 < k => j < k + 1
                BY <1>1
            <4> QED BY <1>1, <3>1, <4>1, <4>2
        <3> QED BY <3>2, <3>3
    <2> QED BY <1>2, <2>1, <2>2 DEF EndsComplete
<1>3. ASSUME EndsEmpty, NEW kind \in Kinds, NEW dir \in Direction
      PROVE  /\ \A j \in DOMAIN script' : script'[j] # Add(kind, dir)
             /\ <<kind, dir>> \in installed' =>
                  \E j \in DOMAIN script' : script'[j] = Delete(kind, dir)
    <2>1. /\ \A j \in DOMAIN script : script[j] # Add(kind, dir)
          /\ <<kind, dir>> \in installed => \E j \in DOMAIN script : script[j] = Delete(kind, dir)
        BY <1>3 DEF EndsEmpty
    <2>2. ASSUME <<kind, dir>> \in installed'
          PROVE  \E j \in DOMAIN script' : script'[j] = Delete(kind, dir)
        <3>1. script[1] # Delete(kind, dir) /\ <<kind, dir>> \in installed
            BY <1>1, <2>1, <2>2, OneCommand
        <3>2. PICK j \in DOMAIN script : script[j] = Delete(kind, dir)
            BY <2>1, <3>1
        <3>3. j # 1
            BY <3>1, <3>2
        <3>4. j - 1 \in DOMAIN script' /\ script'[j - 1] = Delete(kind, dir)
            BY <1>1, <3>2, <3>3
        <3> QED BY <3>4
    <2> QED BY <1>1, <2>1, <2>2
<1> QED BY <1>2, <1>3 DEF EndsComplete, EndsEmpty

\* A settled transport is complete or gone.
LEMMA NothingLeftToRun ==
    ASSUME script = <<>>, installed \in SUBSET Object
    PROVE  /\ EndsComplete <=> installed = Object
           /\ EndsEmpty <=> installed = {}
<1>1. DOMAIN script = {}
    OBVIOUS
<1>2. EndsComplete <=> \A kind \in Kinds, dir \in Direction : <<kind, dir>> \in installed
    BY <1>1 DEF EndsComplete
<1>3. EndsEmpty <=> \A kind \in Kinds, dir \in Direction : <<kind, dir>> \notin installed
    BY <1>1 DEF EndsEmpty
<1>4. Object = Kinds \X Direction
    BY DEF Object, Kinds
<1> QED BY <1>2, <1>3, <1>4

(***************************************************************************)
(* The transport is mended: whatever drosd and ifupdown do, the transport  *)
(* fits its links or an event that will mend it is in the queue.           *)
(***************************************************************************)
LEMMA AppendedIsPending ==
    ASSUME TypeOK, NEW event \in {"start", "stop"}, Enqueue(event), UNCHANGED <<taken, todo>>
    PROVE  /\ Pending(event)'
           /\ \A other \in {"start", "stop"} :
                (Pending(other) => Pending(other)') /\ (InFile(other) => InFile(other)')
<1>1. /\ queue \in Seq(Event) /\ Len(queue) \in Nat /\ taken \in 0..Len(queue)
      /\ todo \in SUBSET (1..taken)
    BY DEF TypeOK, Event
<1>2. queue' = Append(queue, [key |-> event])
    BY DEF Enqueue
<1>3. /\ Len(queue) + 1 \in DOMAIN queue' /\ queue'[Len(queue) + 1].key = event
      /\ \A n \in DOMAIN queue : n \in DOMAIN queue' /\ queue'[n] = queue[n]
    BY <1>1, <1>2
<1>4. Len(queue) + 1 > taken
    BY <1>1
<1>5. \A n \in todo : n \in DOMAIN queue
    BY <1>1
<1> QED BY <1>3, <1>4, <1>5 DEF Pending, InFile

\* A read keeps the last line of each event.
LEMMA ReadKeepsPending ==
    ASSUME TypeOK, LockInv, DrosdReadBatch, NEW event, Pending(event)
    PROVE  Pending(event)'
<1>1. queue \in Seq(Event) /\ todo = {} /\ UNCHANGED queue /\ todo' = Latest(queue)
    BY DEF TypeOK, Event, LockInv, DrosdReadBatch, Idle
<1>2. PICK n \in DOMAIN queue : queue[n].key = event
    BY <1>1 DEF Pending
<1>3. \E m \in Latest(queue) : queue[m].key = queue[n].key
    BY <1>1, LatestCovers
<1> QED BY <1>1, <1>2, <1>3 DEF Pending

\* A finished batch takes its own lines only.
LEMMA FinishKeepsPending ==
    ASSUME TypeOK, DrosdFinishBatch, NEW event, Pending(event)
    PROVE  Pending(event)'
<1>1. /\ queue \in Seq(Event) /\ Len(queue) \in Nat /\ taken \in 0..Len(queue)
      /\ todo = {} /\ taken' = 0
      /\ queue' = SubSeq(queue, taken + 1, Len(queue))
    BY DEF TypeOK, Event, DrosdFinishBatch
<1>2. PICK n \in DOMAIN queue : n > taken /\ queue[n].key = event
    BY <1>1 DEF Pending
<1>3. n - taken \in 1..(Len(queue) - (taken + 1) + 1) /\ (taken + 1) + (n - taken) - 1 = n
    BY <1>1, <1>2
<1>4. /\ taken + 1 \in Int /\ Len(queue) \in Int /\ taken + 1 >= 1
      /\ \A i \in (taken + 1)..Len(queue) : queue[i] \in Event
    BY <1>1
<1>5. /\ Len(queue') = IF taken + 1 <= Len(queue) THEN Len(queue) - (taken + 1) + 1 ELSE 0
      /\ queue' \in Seq(Event)
      /\ \A i \in 1..(Len(queue) - (taken + 1) + 1) : queue'[i] = queue[(taken + 1) + i - 1]
    BY <1>1, <1>4, SubSeqProperties
<1>6. n - taken \in DOMAIN queue' /\ n - taken > taken'
    <2>1. taken + 1 <= Len(queue)
        BY <1>1, <1>2
    <2>2. DOMAIN queue' = 1..(Len(queue) - (taken + 1) + 1)
        BY <1>5, <2>1
    <2>3. n - taken > 0
        BY <1>1, <1>2
    <2> QED BY <1>1, <1>3, <2>2, <2>3
<1>7. queue'[n - taken] = queue[n]
    BY <1>3, <1>5
<1> QED BY <1>2, <1>6, <1>7 DEF Pending

LEMMA EventKeepsServed ==
    ASSUME TypeOK, LockInv, ServedInv, DrosdHandleEvent
    PROVE  ServedInv'
<1>1. PICK n \in todo :
        /\ todo' = todo \ {n}
        /\ IF RuntimeDiffers(queue[n].key = "stop")
             THEN failed' = TRUE /\ UNCHANGED script
             ELSE script' = ScriptFor(queue[n].key) /\ UNCHANGED failed
    BY DEF DrosdHandleEvent
<1>2. /\ script = <<>> /\ lock = "drosd"
      /\ UNCHANGED <<link, ifPc, queue, taken, lock, installed, by>>
    BY DEF DrosdHandleEvent, linkVars
<1>3. /\ n \in DOMAIN queue /\ queue[n].key \in {"start", "stop"}
      /\ \A i \in Ifaces : ifPc[i] = "up" => link[i] = "live"
      /\ \A i \in Ifaces : link[i] \in {"gone", "live", "foreign"}
    <2>1. queue \in Seq(Event) /\ Len(queue) \in Nat /\ taken \in 0..Len(queue)
          /\ todo \in SUBSET (1..taken)
        BY DEF TypeOK, Event
    <2>2. n \in DOMAIN queue
        BY <2>1
    <2>3. queue[n] \in Event
        BY <2>1, <2>2
    <2> QED BY <2>2, <2>3 DEF TypeOK, LockInv, Event
<1>4. ~failed /\ by # "manual" => UpIsServed /\ GoneIsServed
    BY DEF ServedInv
<1>5. \A event : event # queue[n].key => (Pending(event) => Pending(event)')
    BY <1>1, <1>2 DEF Pending
<1>6. CASE RuntimeDiffers(queue[n].key = "stop")
    BY <1>1, <1>2, <1>6 DEF ServedInv, ScriptOfDrosd
<1>7. CASE ~RuntimeDiffers(queue[n].key = "stop") /\ queue[n].key = "start"
    <2>1. script' = ScriptFor("start") /\ UNCHANGED failed
        BY <1>1, <1>7
    <2>2. CASE HasLiveInterface(FALSE)
        <3>1. EndsComplete' /\ InFile("start")'
            BY <1>2, <1>3, <1>7, <2>1, <2>2, NewScriptEnds DEF ScriptFor, InFile
        <3>2. UpIsServed' /\ GoneIsServed'
            BY <1>2, <2>2, <3>1 DEF UpIsServed, GoneIsServed, HasLiveInterface, Associated
        <3> QED BY <3>1, <3>2 DEF ServedInv
    <2>3. CASE ~HasLiveInterface(FALSE)
        <3>1. script' = <<>>
            BY <2>1, <2>3 DEF ScriptFor
        <3>2. UpIsServed'
            BY <1>2, <1>3, <2>3 DEF UpIsServed, HasLiveInterface, Associated
        <3>3. GoneIsServed => GoneIsServed'
            <4>1. EndsEmpty => EndsEmpty'
                BY <1>2, <3>1 DEF EndsEmpty
            <4> QED BY <1>2, <1>5, <1>7, <4>1 DEF GoneIsServed
        <3> QED BY <1>2, <1>4, <2>1, <3>1, <3>2, <3>3 DEF ServedInv, ScriptOfDrosd
    <2> QED BY <2>2, <2>3
<1>8. CASE ~RuntimeDiffers(queue[n].key = "stop") /\ queue[n].key = "stop"
    <2>1. script' = ScriptFor("stop") /\ UNCHANGED failed
        BY <1>1, <1>8
    <2>2. CASE ~HasLiveInterface(TRUE)
        <3>1. EndsEmpty' /\ InFile("stop")'
            BY <1>2, <1>3, <1>8, <2>1, <2>2, NewScriptEnds DEF ScriptFor, InFile
        <3>2. UpIsServed' /\ GoneIsServed'
            BY <1>2, <1>3, <2>2, <3>1 DEF UpIsServed, GoneIsServed, HasLiveInterface, Associated
        <3> QED BY <3>1, <3>2 DEF ServedInv
    <2>3. CASE HasLiveInterface(TRUE)
        <3>1. script' = <<>>
            BY <2>1, <2>3 DEF ScriptFor
        <3>2. GoneIsServed'
            BY <1>2, <2>3 DEF GoneIsServed, HasLiveInterface, Associated
        <3>3. UpIsServed => UpIsServed'
            <4>1. EndsComplete => EndsComplete'
                BY <1>2, <3>1 DEF EndsComplete
            <4> QED BY <1>2, <1>5, <1>8, <4>1 DEF UpIsServed
        <3> QED BY <1>2, <1>4, <2>1, <3>1, <3>2, <3>3 DEF ServedInv, ScriptOfDrosd
    <2> QED BY <2>2, <2>3
<1> QED BY <1>3, <1>6, <1>7, <1>8

\* The batch of a killed drosd is still in the file.
LEMMA KillKeepsServed ==
    ASSUME TypeOK, LockInv, ServedInv, DrosdKilled
    PROVE  ServedInv'
<1>1. /\ lock' = "free" /\ script' = <<>> /\ todo' = {} /\ taken' = 0
      /\ UNCHANGED <<link, ifPc, queue, installed, by, failed>>
    BY DEF DrosdKilled, linkVars
<1>2. \A event : Pending(event) => Pending(event)'
    <2>1. queue \in Seq(Event) /\ Len(queue) \in Nat /\ taken \in 0..Len(queue)
          /\ todo \in SUBSET (1..taken)
        BY DEF TypeOK, Event
    <2>2. \A n \in DOMAIN queue : n > 0
        BY <2>1
    <2>3. \A n \in todo : n \in DOMAIN queue
        BY <2>1
    <2> QED BY <1>1, <2>2, <2>3 DEF Pending
<1>3. \A event : InFile(event) => Pending(event)'
    <2>1. \A n \in DOMAIN queue : n > 0
        BY DEF TypeOK
    <2> QED BY <1>1, <2>1 DEF Pending, InFile
<1>4. ASSUME ~failed, by # "manual" PROVE UpIsServed' /\ GoneIsServed'
    <2>1. UpIsServed /\ GoneIsServed
        BY <1>4 DEF ServedInv
    <2>2. CASE script = <<>>
        <3>1. (EndsComplete => EndsComplete') /\ (EndsEmpty => EndsEmpty')
            BY <1>1, <2>2 DEF EndsComplete, EndsEmpty
        <3> QED BY <1>1, <1>2, <2>1, <3>1 DEF UpIsServed, GoneIsServed
    <2>3. CASE script # <<>> /\ EndsComplete /\ InFile("start")
        <3>1. UpIsServed'
            BY <1>1, <1>3, <2>3 DEF UpIsServed
        <3>2. ~EndsEmpty
            <4>1. "state" \in Kinds /\ "out" \in Direction
                BY DEF Kinds, Direction
            <4> QED BY <2>3, <4>1 DEF EndsComplete, EndsEmpty
        <3>3. GoneIsServed'
            BY <1>1, <1>2, <2>1, <3>2 DEF GoneIsServed
        <3> QED BY <3>1, <3>3
    <2>4. CASE script # <<>> /\ EndsEmpty /\ InFile("stop")
        <3>1. GoneIsServed'
            BY <1>1, <1>3, <2>4 DEF GoneIsServed
        <3>2. ~EndsComplete
            <4>1. "state" \in Kinds /\ "out" \in Direction
                BY DEF Kinds, Direction
            <4> QED BY <2>4, <4>1 DEF EndsComplete, EndsEmpty
        <3>3. UpIsServed'
            BY <1>1, <1>2, <2>1, <3>2 DEF UpIsServed
        <3> QED BY <3>1, <3>3
    <2>5. lock = "drosd"
        BY DEF DrosdKilled
    <2> QED BY <2>2, <2>3, <2>4, <2>5 DEF ServedInv, ScriptOfDrosd
<1> QED BY <1>1, <1>4 DEF ServedInv, ScriptOfDrosd

LEMMA CommandKeepsServed ==
    ASSUME TypeOK, ServedInv, RunCommand
    PROVE  ServedInv'
<1>1. /\ script # <<>> /\ script' = Tail(script)
      /\ UNCHANGED <<link, ifPc, queue, taken, todo, lock>>
      /\ IF Tail(script) = <<>> /\ lock = "drosd"
           THEN by' = "hook" /\ failed' = FALSE
           ELSE UNCHANGED <<by, failed>>
    BY DEF RunCommand, linkVars, batchVars
<1>2. (EndsComplete => EndsComplete') /\ (EndsEmpty => EndsEmpty')
    BY CommandEnds DEF TypeOK
<1>3. \A event : (Pending(event) => Pending(event)') /\ (InFile(event) => InFile(event)')
    BY <1>1 DEF Pending, InFile
<1>4. UpIsServed /\ GoneIsServed => UpIsServed' /\ GoneIsServed'
    BY <1>1, <1>2, <1>3 DEF UpIsServed, GoneIsServed
<1>5. ScriptOfDrosd' => ScriptOfDrosd
    BY <1>1 DEF ScriptOfDrosd
<1>6. (~failed /\ by # "manual")' => ScriptOfDrosd \/ (~failed /\ by # "manual")
    BY <1>1 DEF ScriptOfDrosd
<1> QED BY <1>2, <1>3, <1>4, <1>5, <1>6 DEF ServedInv

LEMMA NextServedInv ==
    ASSUME TypeOK, LockInv, ServedInv, [Next]_vars
    PROVE  ServedInv'
<1>0. /\ link \in [Ifaces -> {"gone", "live", "foreign"}]
      /\ ifPc \in [Ifaces -> {"down", "rising", "up", "falling"}]
    BY DEF TypeOK
<1> USE <1>0
\* The links move, the file does not: events are still to come for them.
<1>1. ASSUME NEW i \in Ifaces,
             IfUp(i) \/ IfUpFails(i) \/ IfDown(i) \/ ForeignLink(i) \/ ForeignLinkGone(i)
      PROVE  ServedInv'
    <2>1. UNCHANGED <<queue, taken, todo, lock, script, installed, by, failed>>
        BY <1>1 DEF IfUp, IfUpFails, IfDown, ForeignLink, ForeignLinkGone, batchVars
    <2>2. UpIsServed => UpIsServed'
        <3>1. \A k \in Ifaces : ifPc'[k] = "up" => ifPc[k] = "up"
            BY <1>1 DEF IfUp, IfUpFails, IfDown, ForeignLink, ForeignLinkGone
        <3> QED BY <2>1, <3>1 DEF UpIsServed, Pending, EndsComplete
    <2>3. GoneIsServed => GoneIsServed'
        <3>1. \/ \E k \in Ifaces : ifPc'[k] = "falling" \/ link'[k] = "live"
              \/ /\ \A k \in Ifaces : link[k] = "live" => link'[k] = "live"
                 /\ \A k \in Ifaces : ifPc[k] = "falling" => ifPc'[k] = "falling"
            BY <1>1 DEF IfUp, IfUpFails, IfDown, ForeignLink, ForeignLinkGone
        <3> QED BY <2>1, <3>1 DEF GoneIsServed, Pending, EndsEmpty
    <2> QED BY <2>1, <2>2, <2>3 DEF ServedInv, ScriptOfDrosd, EndsComplete, EndsEmpty, InFile
<1>2. ASSUME NEW i \in Ifaces, IfUpHook(i) PROVE ServedInv'
    <2>1. /\ Enqueue("start") /\ ifPc' = [ifPc EXCEPT ![i] = "up"] /\ ifPc[i] = "rising"
          /\ UNCHANGED <<link, taken, todo, lock, script, installed, by, failed>>
        BY <1>2 DEF IfUpHook
    <2>2. /\ Pending("start")' /\ (Pending("stop") => Pending("stop")')
          /\ \A event \in {"start", "stop"} : InFile(event) => InFile(event)'
        BY <2>1, AppendedIsPending
    <2>3. UpIsServed'
        BY <2>2 DEF UpIsServed
    <2>4. GoneIsServed => GoneIsServed'
        BY <2>1, <2>2 DEF GoneIsServed, EndsEmpty
    <2> QED BY <2>1, <2>2, <2>3, <2>4 DEF ServedInv, ScriptOfDrosd, EndsComplete, EndsEmpty
<1>3. ASSUME NEW i \in Ifaces, IfDownHook(i) PROVE ServedInv'
    <2>1. /\ Enqueue("stop") /\ ifPc' = [ifPc EXCEPT ![i] = "down"]
          /\ UNCHANGED <<link, taken, todo, lock, script, installed, by, failed>>
        BY <1>3 DEF IfDownHook
    <2>2. /\ Pending("stop")' /\ (Pending("start") => Pending("start")')
          /\ \A event \in {"start", "stop"} : InFile(event) => InFile(event)'
        BY <2>1, AppendedIsPending
    <2>3. GoneIsServed'
        BY <2>2 DEF GoneIsServed
    <2>4. UpIsServed => UpIsServed'
        BY <2>1, <2>2 DEF UpIsServed, EndsComplete
    <2> QED BY <2>1, <2>2, <2>3, <2>4 DEF ServedInv, ScriptOfDrosd, EndsComplete, EndsEmpty
<1>4. ASSUME DrosdReadBatch PROVE ServedInv'
    <2>1. /\ UNCHANGED <<link, ifPc, queue, script, installed, by, failed>>
          /\ script = <<>>
        BY <1>4 DEF DrosdReadBatch, linkVars, LockInv, Idle
    <2>2. \A event : Pending(event) => Pending(event)'
        BY <1>4, ReadKeepsPending
    <2> QED BY <2>1, <2>2 DEF ServedInv, ScriptOfDrosd, UpIsServed, GoneIsServed, EndsComplete,
                              EndsEmpty
<1>5. ASSUME DrosdFinishBatch PROVE ServedInv'
    <2>1. /\ UNCHANGED <<link, ifPc, script, installed, by, failed>> /\ script = <<>>
        BY <1>5 DEF DrosdFinishBatch, linkVars
    <2>2. \A event : Pending(event) => Pending(event)'
        BY <1>5, FinishKeepsPending
    <2> QED BY <2>1, <2>2 DEF ServedInv, ScriptOfDrosd, UpIsServed, GoneIsServed, EndsComplete,
                              EndsEmpty
<1>6. ASSUME NEW action \in {"start", "stop"}, GwXfrm(action) PROVE ServedInv'
    BY <1>6 DEF GwXfrm, ServedInv, ScriptOfDrosd
<1>7. ASSUME GwDone \/ UNCHANGED vars PROVE ServedInv'
    <2>1. /\ UNCHANGED <<link, ifPc, queue, taken, todo, script, installed, by, failed>>
          /\ ScriptOfDrosd' => ScriptOfDrosd
        BY <1>7 DEF GwDone, vars, linkVars, batchVars, ScriptOfDrosd
    <2> QED BY <2>1 DEF ServedInv, UpIsServed, GoneIsServed, Pending, InFile, EndsComplete,
                        EndsEmpty
<1>8. ASSUME CommandFails PROVE ServedInv'
    BY <1>8 DEF CommandFails, ServedInv, ScriptOfDrosd
<1> QED BY <1>1, <1>2, <1>3, <1>4, <1>5, <1>6, <1>7, <1>8, EventKeepsServed, KillKeepsServed,
           CommandKeepsServed DEF Next, Ifupdown, Drosd

-----------------------------------------------------------------------------
(* The two lives.                                                          *)

\* A transport begins with all its objects or none, as its links are.
LEMMA InitHookInv ==
    HookInit \/ UnitInit => HookInv
<1> SUFFICES ASSUME HookInit PROVE TypeOK /\ LockInv /\ OrderInv /\ ServedInv
    BY DEF HookInv, UnitInit
<1>0. Init
    BY DEF HookInit
<1>1. TypeOK
    <2>1. queue \in Seq(Event) /\ script \in Seq(Command) /\ Len(queue) = 0
        BY <1>0 DEF Init
    <2>2. link \in [Ifaces -> {"gone", "live", "foreign"}]
        BY <1>0 DEF Init
    <2>3. /\ ifPc \in [Ifaces -> {"down", "rising", "up", "falling"}]
          /\ installed \in SUBSET Object /\ taken \in 0..Len(queue) /\ todo \in SUBSET (1..taken)
        BY <1>0, <2>1 DEF Init
    <2>4. /\ ifOps \in 0..MaxIfOps /\ manuals \in 0..MaxManual
          /\ faults \in 0..MaxFaults /\ crashes \in 0..MaxCrashes
        BY <1>0, XfrmAssumption DEF Init
    <2> QED BY <1>0, <2>1, <2>2, <2>3, <2>4 DEF Init, TypeOK, Event
<1>2. LockInv
    BY <1>0 DEF Init, LockInv
<1>3. OrderInv
    BY <1>0 DEF Init, OrderInv, PolicyHasState, DeletesInOrder, AddsInOrder, Object, Direction
<1>4. ServedInv
    <2>1. script = <<>> /\ installed \in SUBSET Object
        BY <1>1, <1>0 DEF Init, TypeOK
    <2>2. UpIsServed /\ GoneIsServed
        BY <1>0, <2>1, NothingLeftToRun DEF Init, UpIsServed, GoneIsServed
    <2> QED BY <2>1, <2>2 DEF ServedInv, ScriptOfDrosd
<1> QED BY <1>1, <1>2, <1>3, <1>4

LEMMA NextHookInv ==
    ASSUME HookInv, [Hook(Next) \/ Service(Unit!Next)]_all
    PROVE  HookInv'
<1> SUFFICES ASSUME life' = "hooks" PROVE (TypeOK /\ LockInv /\ OrderInv /\ ServedInv)'
    BY DEF HookInv
<1>1. life = "hooks" /\ [Next]_vars
    BY DEF Hook, Service, all, hookOnly, vars
<1>2. TypeOK /\ LockInv /\ OrderInv /\ ServedInv
    BY <1>1 DEF HookInv
<1> QED BY <1>1, <1>2, LifecycleTypes, NextLockInv, NextOrderInv, NextServedInv

LEMMA InitUnitInv ==
    HookInit \/ UnitInit => UnitInv
<1> SUFFICES ASSUME UnitInit PROVE Unit!TypeOK /\ UpdateInv
    BY DEF UnitInv, HookInit
<1>1. Unit!Init
    BY DEF UnitInit
<1>2. /\ edits \in 0..MaxEdits /\ updates \in 0..MaxUpdates /\ boots \in 0..MaxBoots
      /\ events \in 0..MaxEvents /\ faults \in 0..MaxFaults
    BY <1>1, XfrmAssumption, UnitBoundsAssumption DEF Unit!Init
<1>3. UpdateInv
    BY <1>1 DEF Unit!Init, UpdateInv
<1> QED BY <1>1, <1>2, <1>3 DEF Unit!Init, Unit!TypeOK

\* Every step of the unit's life keeps the types.
LEMMA UnitTypes ==
    ASSUME Unit!TypeOK, Unit!Next
    PROVE  Unit!TypeOK'
<1> USE XfrmAssumption, UnitBoundsAssumption DEF Unit!config, Unit!unit, Unit!counters, Unit!TypeOK
<1>1. CASE Unit!EditConfig
    BY <1>1 DEF Unit!EditConfig
<1>2. CASE Unit!UpdateBegin
    BY <1>2 DEF Unit!UpdateBegin, Unit!AfterRemove
<1>3. CASE Unit!UpdateWriteUnit \/ Unit!UpdateEnableNow \/ Unit!UpdateEnabled
    <2>1. CASE Unit!UpdateWriteUnit
        BY <2>1 DEF Unit!UpdateWriteUnit
    <2>2. CASE Unit!UpdateEnableNow
        BY <2>2 DEF Unit!UpdateEnableNow
    <2>3. CASE Unit!UpdateEnabled
        BY <2>3 DEF Unit!UpdateEnabled
    <2> QED BY <1>3, <2>1, <2>2, <2>3
<1>4. CASE Unit!UpdateRestart \/ Unit!UpdateStop \/ Unit!UpdateEnd
    BY <1>4 DEF Unit!UpdateRestart, Unit!UpdateStop, Unit!UpdateEnd
<1>5. CASE Unit!UpdateDisable \/ Unit!UpdateDisabled
    <2>1. CASE Unit!UpdateDisable
        <3>1. faults' \in 0..MaxFaults
            BY <2>1 DEF Unit!UpdateDisable
        <3>2. unitEnabled' \in BOOLEAN /\ updPc' \in {"disabling", "unlink"}
              /\ service' \in {"inactive", "starting", "active", "stopping", "failed"}
            BY <2>1 DEF Unit!UpdateDisable
        <3> QED BY <2>1, <3>1, <3>2 DEF Unit!UpdateDisable
    <2>2. CASE Unit!UpdateDisabled
        BY <2>2 DEF Unit!UpdateDisabled
    <2> QED BY <1>5, <2>1, <2>2
<1>6. CASE Unit!UpdateUnlink
    <2>1. faults' \in 0..MaxFaults  BY <1>6 DEF Unit!UpdateUnlink
    <2>2. updPc' \in {"stop", "ok", "failed"}  BY <1>6 DEF Unit!UpdateUnlink, Unit!AfterRemove
    <2> QED BY <1>6, <2>1, <2>2 DEF Unit!UpdateUnlink
<1>7. CASE Unit!ServiceStart \/ Unit!ServiceStop
    BY <1>7 DEF Unit!ServiceStart, Unit!ServiceStop
<1>8. CASE Unit!Boot
    <2>1. service' \in {"inactive", "starting"} /\ boots' \in 0..MaxBoots
        BY <1>8 DEF Unit!Boot
    <2> QED BY <1>8, <2>1 DEF Unit!Boot
<1>9. CASE Unit!SystemctlStart \/ Unit!SystemctlStop
    BY <1>9 DEF Unit!SystemctlStart, Unit!SystemctlStop
<1>10. CASE Unit!DrosdLock \/ Unit!DrosdUnlock
    BY <1>10 DEF Unit!DrosdLock, Unit!DrosdUnlock
<1> QED BY <1>1, <1>2, <1>3, <1>4, <1>5, <1>6, <1>7, <1>8, <1>9, <1>10 DEF Unit!Next, Unit!Update

\* No step of another process gets between the steps of an update: they all need
\* the lock, the YAML is read once, and a reboot ends the update.
LEMMA UnitUpdates ==
    ASSUME Unit!TypeOK, UpdateInv, Unit!Next
    PROVE  UpdateInv'
<1> USE DEF Unit!config, Unit!unit, Unit!counters, Unit!TypeOK, UpdateInv
<1>1. CASE Unit!EditConfig
    BY <1>1 DEF Unit!EditConfig
<1>2. CASE Unit!UpdateBegin
    BY <1>2 DEF Unit!UpdateBegin, Unit!AfterRemove
<1>3. CASE Unit!UpdateWriteUnit \/ Unit!UpdateEnableNow \/ Unit!UpdateEnabled
    BY <1>3 DEF Unit!UpdateWriteUnit, Unit!UpdateEnableNow, Unit!UpdateEnabled
<1>4. CASE Unit!UpdateRestart \/ Unit!UpdateStop \/ Unit!UpdateEnd
    BY <1>4 DEF Unit!UpdateRestart, Unit!UpdateStop, Unit!UpdateEnd
<1>5. CASE Unit!UpdateDisable \/ Unit!UpdateDisabled
    BY <1>5 DEF Unit!UpdateDisable, Unit!UpdateDisabled
<1>6. CASE Unit!UpdateUnlink
    BY <1>6 DEF Unit!UpdateUnlink, Unit!AfterRemove
<1>7. CASE Unit!ServiceStart \/ Unit!ServiceStop
    BY <1>7 DEF Unit!ServiceStart, Unit!ServiceStop
<1>8. CASE Unit!Boot
    BY <1>8 DEF Unit!Boot
<1>9. CASE Unit!SystemctlStart \/ Unit!SystemctlStop
    BY <1>9 DEF Unit!SystemctlStart, Unit!SystemctlStop
<1>10. CASE Unit!DrosdLock \/ Unit!DrosdUnlock
    BY <1>10 DEF Unit!DrosdLock, Unit!DrosdUnlock
<1> QED BY <1>1, <1>2, <1>3, <1>4, <1>5, <1>6, <1>7, <1>8, <1>9, <1>10 DEF Unit!Next, Unit!Update

LEMMA NextUnitInv ==
    ASSUME UnitInv, [Hook(Next) \/ Service(Unit!Next)]_all
    PROVE  UnitInv'
<1> SUFFICES ASSUME life' = "unit" PROVE (Unit!TypeOK /\ UpdateInv)'
    BY DEF UnitInv
<1>1. life = "unit" /\ (Unit!Next \/ UNCHANGED <<unitOnly, lock, faults>>)
    BY DEF Hook, Service, all
<1>2. Unit!TypeOK /\ UpdateInv
    BY <1>1 DEF UnitInv
<1>3. CASE Unit!Next
    BY <1>2, <1>3, UnitTypes, UnitUpdates
<1>4. CASE UNCHANGED <<unitOnly, lock, faults>>
    BY <1>2, <1>4 DEF unitOnly, Unit!TypeOK, UpdateInv
<1> QED BY <1>1, <1>3, <1>4

\* The inductive invariant of both lives.
THEOREM XfrmInvariant == XfrmSpec => [](HookInv /\ UnitInv)
<1>1. HookInit \/ UnitInit => HookInv /\ UnitInv
    BY InitHookInv, InitUnitInv
<1>2. HookInv /\ UnitInv /\ [Hook(Next) \/ Service(Unit!Next)]_all => (HookInv /\ UnitInv)'
    BY NextHookInv, NextUnitInv
<1> QED BY <1>1, <1>2, PTL DEF XfrmSpec

\* Every transport is brought up by its hooks or by its unit.
LEMMA OneOfTwoLives == XfrmSpec => [](life \in {"hooks", "unit"})
<1>1. HookInit \/ UnitInit => life \in {"hooks", "unit"}
    BY DEF HookInit, UnitInit
<1>2. life \in {"hooks", "unit"} /\ [Hook(Next) \/ Service(Unit!Next)]_all
        => (life \in {"hooks", "unit"})'
    BY DEF Hook, Service, all
<1> QED BY <1>1, <1>2, PTL DEF XfrmSpec

\* Both lives keep the types of their variables.
THEOREM XfrmTypeCorrect == XfrmSpec => []XfrmTypeOK
<1>1. HookInv /\ UnitInv /\ life \in {"hooks", "unit"} => XfrmTypeOK
    BY DEF HookInv, UnitInv, XfrmTypeOK
<1> QED BY <1>1, XfrmInvariant, OneOfTwoLives, PTL

\* No policy without its state at any command boundary of start_xfrm and
\* stop_xfrm, whoever runs them, also after a failing command or a kill.
THEOREM HookPolicyCorrect == XfrmSpec => []HookPolicyHasState
<1>1. HookInv => HookPolicyHasState
    BY DEF HookInv, OrderInv, HookPolicyHasState
<1> QED BY <1>1, XfrmInvariant, PTL

\* A settled transport is complete while an interface uses it and gone when none
\* is left, whatever the order of links, events, kills and gw commands before.
THEOREM HookSettledCorrect == XfrmSpec => []HookSettledIsConsistent
<1>1. HookInv => HookSettledIsConsistent
    <2> SUFFICES ASSUME TypeOK, LockInv, ServedInv, Settled, ~failed, by # "manual"
                 PROVE  /\ (\E i \in Ifaces \ Disabled : ifPc[i] = "up") => installed = Object
                        /\ (\A i \in Ifaces : link[i] = "gone") => installed = {}
        BY DEF HookInv, HookSettledIsConsistent, SettledIsConsistent
    <2>1. /\ queue = <<>> /\ script = <<>> /\ todo = {} /\ installed \in SUBSET Object
          /\ \A i \in Ifaces : ifPc[i] # "falling"
        BY DEF Settled, Idle, LockInv, TypeOK
    <2>2. UpIsServed /\ GoneIsServed
        BY DEF ServedInv
    <2>3. \A event : ~Pending(event)
        BY <2>1 DEF Pending
    <2>4. (EndsComplete => installed = Object) /\ (EndsEmpty => installed = {})
        BY <2>1, NothingLeftToRun
    <2> QED BY <2>1, <2>2, <2>3, <2>4 DEF UpIsServed, GoneIsServed
<1> QED BY <1>1, XfrmInvariant, PTL

\* An update of a disabled transport that ends without an error leaves neither a
\* unit file nor states and policies, although the unit's own ExecStop fails.
THEOREM UnitDisabledCorrect == XfrmSpec => []UnitDisabledIsClean
<1>1. UnitInv => UnitDisabledIsClean
    BY DEF UnitInv, UpdateInv, UnitDisabledIsClean, Unit!DisabledIsClean
<1> QED BY <1>1, XfrmInvariant, PTL
=============================================================================
