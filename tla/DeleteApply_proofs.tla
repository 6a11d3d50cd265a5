-------------------------- MODULE DeleteApply_proofs --------------------------
(***************************************************************************)
(* Proofs about gw delete --apply, for every batch of interfaces, every    *)
(* number of runs, failing commands, kills and operator actions.           *)
(***************************************************************************)
EXTENDS DeleteApply, TLAPS

\* A resource is being taken down; the resources not yet dealt with; the rest.
Taking == {"check", "ifdown", "recheck", "linkdel", "gone", "unit", "inspect", "entries", "files",
           "unlink"}
Left == IF pc \in Taking THEN pending \cup {cur} ELSE pending
Handled == Selected \ Left

\* How the batch is walked: a resource is taken when no other that is left needs it.
PlaceInv ==
    /\ pc # "idle" => outcome = "none" /\ ~unfit
    /\ pc \in {"plan", "preflight"} => pending = Selected /\ touched = {}
    /\ pc \in Taking => cur \in Selected \ pending /\ \A n \in Needs : n[2] = cur => n[1] \notin pending
    /\ \A r \in wave, n \in Needs : n[2] = r => n[1] \notin pending

\* The plan is what is on disk, but for the files already removed.
FilesInv ==
    /\ pc # "idle" => \A r \in pending : plan[r] = PresentFiles(r)
    /\ pc \in Taking => todo = PresentFiles(cur) /\ todo \subseteq plan[cur]
    /\ pc = "unlink" => todo # {} /\ (file[cur][FirstFile(todo)] = "ours" \/ late)

\* How far the resource at work has come down, as long as nobody brings it up.
StageInv ==
    /\ pc \in {"gone", "unit", "inspect", "entries", "files", "unlink"} /\ cur \notin raced
         => link[cur] = "absent"
    /\ pc \in {"files", "unlink"} => entries[cur] = {}

\* Only a unit whose file is in the plan may still be known to systemd.
ServiceInv ==
    /\ \A r \in Selected \ Tunnels : service[r] = "inactive"
    /\ pc \notin {"idle", "plan", "preflight"} =>
         \A r \in Selected : "unit" \notin plan[r] => service[r] = "inactive"

Gone(r) ==
    link[r] = "absent" /\ entries[r] = {} /\ service[r] = "inactive" /\ PresentFiles(r) = {}
HandledInv == pc # "idle" => \A r \in Handled \ raced : Gone(r)

\* Only an operator makes foreign links, conflicts and edits.
AloneInv ==
    meddles = 0 =>
        /\ raced = {}
        /\ \A r \in Selected : link[r] # "foreign" /\ conflict[r] = "none"
        /\ \A r \in Selected, f \in FileName : file[r][f] # "edited"

\* The steps that take a resource down, but for the removal of a file.
TakingStep ==
    \/ Check \/ Ifdown \/ Recheck \/ LinkDelete \/ VerifyGone \/ DisableUnit
    \/ Inspect \/ DeleteEntry \/ Reinspect \/ VerifyFile \/ DaemonReload

DeleteInv ==
    /\ TypeOK /\ PlaceInv /\ FilesInv /\ StageInv /\ ServiceInv /\ HandledInv /\ AloneInv
    /\ BatchCheckedFirst /\ ConfigOutlivesRuntime /\ OwnWorkNeverInTheWay /\ DoneIsGone

-----------------------------------------------------------------------------
(* Types.                                                                  *)

\* Whatever is left of the batch, a resource is ready that no other one needs.
LEMMA SomeoneIsReady ==
    ASSUME NEW left \in SUBSET Selected
    PROVE  /\ Ready(left) \subseteq left
           /\ left # {} => Ready(left) # {}
           /\ \A r \in Ready(left), n \in Needs : n[2] = r => n[1] \notin left
<1>1. left # {} => \E r \in left : \A n \in Needs : n[2] = r => n[1] \notin left
    BY AcyclicAssumption
<1> QED BY <1>1 DEF Ready

LEMMA InitTypeOK ==
    Init => TypeOK
<1> SUFFICES ASSUME Init PROVE TypeOK
    OBVIOUS
<1>1. /\ link \in [Selected -> {"absent", "own", "foreign"}]
      /\ conflict \in [Selected -> {"none", "attached", "sharing", "alien"}]
      /\ plan \in [Selected -> SUBSET FileName]
    BY DEF Init
<1>2. file \in [Selected -> [FileName -> {"absent", "ours", "edited"}]]
    BY DEF Init
<1>3. entries \in [Selected -> SUBSET Entry] /\ \A r \in Selected \ Tunnels : entries[r] = {}
    BY DEF Init
<1>4. runs \in 0..MaxRuns /\ faults \in 0..MaxFaults /\ meddles \in 0..MaxMeddles
    BY DeleteAssumption DEF Init
<1> QED BY <1>1, <1>2, <1>3, <1>4 DEF Init, TypeOK

\* Where gw delete goes next is a place.
LEMMA NextPlaceTypes ==
    ASSUME TypeOK, NEW label,
           label \in {"preflight", "next", "check", "ifdown", "linkdel", "recheck", "gone", "unit",
                      "inspect", "entries", "files", "unlink"},
           NEW how \in {"refused", "failed", "killed", "done"},
           Goto(label) \/ Stop(how)
    PROVE  /\ pc' \in {"idle", "plan", "preflight", "next", "check", "ifdown", "recheck", "linkdel",
                       "gone", "unit", "inspect", "entries", "files", "unlink"}
           /\ cur' \in Selected \cup {NoOne}
           /\ pending' \in SUBSET Selected /\ wave' \in SUBSET pending'
           /\ pending' # {} => wave' # {}
           /\ plan' \in [Selected -> SUBSET FileName] /\ todo' \in SUBSET FileName
           /\ outcome' \in {"none", "refused", "failed", "killed", "done"}
<1>1. CASE Goto(label)
    BY <1>1 DEF Goto, TypeOK
<1>2. CASE Stop(how)
    BY <1>2 DEF Stop, TypeOK
<1> QED BY <1>1, <1>2

LEMMA NextTypeOK ==
    ASSUME TypeOK, PlaceInv, [Next]_vars
    PROVE  TypeOK'
<1> DEFINE Places == {"preflight", "next", "check", "ifdown", "linkdel", "recheck", "gone", "unit",
                      "inspect", "entries", "files", "unlink"}
           PlaceOK == /\ pc \in {"idle", "plan", "preflight", "next", "check", "ifdown", "recheck",
                                 "linkdel", "gone", "unit", "inspect", "entries", "files", "unlink"}
                      /\ cur \in Selected \cup {NoOne}
                      /\ pending \in SUBSET Selected /\ wave \in SUBSET pending
                      /\ pending # {} => wave # {}
                      /\ plan \in [Selected -> SUBSET FileName] /\ todo \in SUBSET FileName
                      /\ outcome \in {"none", "refused", "failed", "killed", "done"}
           SystemOK == /\ link \in [Selected -> {"absent", "own", "foreign"}]
                       /\ file \in [Selected -> [FileName -> {"absent", "ours", "edited"}]]
                       /\ entries \in [Selected -> SUBSET Entry]
                       /\ \A r \in Selected \ Tunnels : entries[r] = {}
                       /\ service \in [Selected -> Service]
                       /\ conflict \in [Selected -> {"none", "attached", "sharing", "alien"}]
           BoundsOK == runs \in 0..MaxRuns /\ faults \in 0..MaxFaults /\ meddles \in 0..MaxMeddles
           HistoryOK == /\ touched \in SUBSET Selected /\ raced \in SUBSET Selected
                        /\ unfit \in BOOLEAN /\ faulted \in BOOLEAN /\ late \in BOOLEAN
<1>1. PlaceOK /\ SystemOK /\ BoundsOK /\ HistoryOK
    BY DEF TypeOK
<1>29. pc \in Taking => touched \cup {cur} \in SUBSET Selected
    BY <1>1 DEF PlaceInv
<1>2. SUFFICES PlaceOK' /\ SystemOK' /\ BoundsOK' /\ HistoryOK'
    BY DEF TypeOK
<1>3. ASSUME NEW label \in Places, NEW how \in {"refused", "failed", "killed", "done"},
             Goto(label) \/ Stop(how)
      PROVE  PlaceOK'
    BY <1>3, NextPlaceTypes
<1>4. ASSUME UNCHANGED <<system, conflict>> PROVE SystemOK'
    BY <1>1, <1>4 DEF system
<1>5. ASSUME UNCHANGED bounds PROVE BoundsOK'
    BY <1>1, <1>5 DEF bounds
<1>6. ASSUME UNCHANGED history PROVE HistoryOK'
    BY <1>1, <1>6 DEF history
<1>7. ASSUME UNCHANGED place PROVE PlaceOK'
    BY <1>1, <1>7 DEF place
<1>8. ASSUME CommandFails
      PROVE  PlaceOK' /\ BoundsOK' /\ UNCHANGED <<unfit, raced, late>> /\ faulted' \in BOOLEAN
    <2>1. PlaceOK'
        BY <1>3, <1>8 DEF CommandFails
    <2>2. BoundsOK'
        BY <1>1, <1>8, DeleteAssumption DEF CommandFails
    <2> QED BY <1>8, <2>1, <2>2 DEF CommandFails
<1>9. ASSUME NEW label \in Places, CommandSucceeds(label)
      PROVE  PlaceOK' /\ BoundsOK' /\ UNCHANGED <<unfit, raced, late, faulted>>
    BY <1>3, <1>5, <1>9 DEF CommandSucceeds
<1> HIDE DEF PlaceOK
<1>10. CASE BuildDeletePlan
    <2>1. PlaceOK'
        <3>1. plan' \in [Selected -> SUBSET FileName]
            BY <1>10 DEF BuildDeletePlan, PresentFiles
        <3> QED BY <1>1, <1>10, <3>1, SomeoneIsReady DEF BuildDeletePlan, PlaceOK
    <2>2. BoundsOK'
        BY <1>1, <1>10, DeleteAssumption DEF BuildDeletePlan
    <2> QED BY <1>1, <1>4, <1>10, <2>1, <2>2 DEF BuildDeletePlan
<1>11. CASE CheckPlan
    BY <1>3, <1>4, <1>5, <1>6, <1>11 DEF CheckPlan
<1>12. CASE Preflight
    <2>1. unfit' \in BOOLEAN
        BY <1>12 DEF Preflight
    <2>2. PlaceOK'
        BY <1>3, <1>12 DEF Preflight
    <2> QED BY <1>1, <1>4, <1>5, <1>12, <2>1, <2>2 DEF Preflight
<1>13. CASE NextResource
    <2>1. PICK r \in wave :
            /\ cur' = r
            /\ pending' = pending \ {r}
            /\ wave' = IF wave = {r} THEN Ready(pending \ {r}) ELSE wave \ {r}
            /\ todo' = plan[r]
        BY <1>13 DEF NextResource
    <2>2. Ready(pending \ {r}) \subseteq pending \ {r}
          /\ (pending \ {r} # {} => Ready(pending \ {r}) # {})
        BY <1>1, SomeoneIsReady DEF PlaceOK
    <2>3. PlaceOK'
        <3>1. wave' \in SUBSET pending' /\ (pending' # {} => wave' # {}) /\ r \in Selected
            <4>1. wave \in SUBSET pending /\ pending \in SUBSET Selected /\ r \in wave
                BY <1>1, <2>1 DEF PlaceOK
            <4>2. CASE wave = {r}
                BY <2>1, <2>2, <4>1, <4>2
            <4>3. CASE wave # {r}
                <5>1. wave \ {r} # {} /\ wave' = wave \ {r}
                    BY <2>1, <4>1, <4>3
                <5> QED BY <2>1, <4>1, <5>1
            <4> QED BY <4>2, <4>3
        <3> QED BY <1>1, <1>13, <2>1, <3>1 DEF NextResource, PlaceOK
    <2> QED BY <1>4, <1>5, <1>6, <1>13, <2>3 DEF NextResource
<1>14. CASE Check \/ Recheck \/ VerifyGone
    BY <1>3, <1>4, <1>5, <1>6, <1>14 DEF Check, Recheck, VerifyGone, CheckRuntime
<1>15. CASE Ifdown
    <2>1. SystemOK'
        BY <1>1, <1>15 DEF Ifdown
    <2>2. touched' \in SUBSET Selected
        BY <1>15, <1>29 DEF Ifdown, Taking
    <2> QED BY <1>1, <1>8, <1>9, <1>15, <2>1, <2>2 DEF Ifdown
<1>16. CASE LinkDelete
    <2>1. SystemOK'
        BY <1>1, <1>16 DEF LinkDelete
    <2>2. touched' \in SUBSET Selected
        BY <1>16, <1>29 DEF LinkDelete, Taking
    <2> QED BY <1>1, <1>8, <1>9, <1>16, <2>1, <2>2 DEF LinkDelete
<1>17. CASE DisableUnit
    <2>1. CASE "unit" \in plan[cur]
        <3>1. touched' \in SUBSET Selected
            BY <1>17, <1>29, <2>1 DEF DisableUnit, Taking
        <3> QED BY <1>1, <1>4, <1>8, <1>9, <1>17, <2>1, <3>1 DEF DisableUnit
    <2>2. CASE "unit" \notin plan[cur]
        BY <1>3, <1>4, <1>5, <1>6, <1>17, <2>2 DEF DisableUnit
    <2> QED BY <2>1, <2>2
<1>18. CASE Inspect \/ Reinspect
    BY <1>3, <1>4, <1>5, <1>6, <1>18 DEF Inspect, Reinspect, InspectXfrm
<1>19. CASE DeleteEntry
    <2>1. SystemOK'
        <3>1. PICK e \in entries[cur] : entries' \in {entries, [entries EXCEPT ![cur] = @ \ {e}]}
            BY <1>19 DEF DeleteEntry
        <3>2. UNCHANGED <<link, file, service, conflict>>
            BY <1>19 DEF DeleteEntry
        <3> QED BY <1>1, <3>1, <3>2
    <2>2. touched' \in SUBSET Selected
        BY <1>19, <1>29 DEF DeleteEntry, Taking
    <2> QED BY <1>1, <1>8, <1>9, <1>19, <2>1, <2>2 DEF DeleteEntry
<1>20. CASE VerifyFile
    BY <1>1, <1>3, <1>4, <1>5, <1>20 DEF VerifyFile
<1>21. CASE UnlinkFile
    <2>1. PlaceOK'
        BY <1>1, <1>21 DEF UnlinkFile, PlaceOK
    <2>2. SystemOK'
        BY <1>1, <1>21 DEF UnlinkFile
    <2>3. touched' \in SUBSET Selected
        BY <1>21, <1>29 DEF UnlinkFile, Taking
    <2> QED BY <1>1, <1>5, <1>21, <2>1, <2>2, <2>3 DEF UnlinkFile
<1>22. CASE DaemonReload
    BY <1>1, <1>3, <1>5, <1>8, <1>9, <1>22 DEF DaemonReload, Service
<1>23. CASE Finish
    BY <1>3, <1>4, <1>5, <1>6, <1>23 DEF Finish
<1>24. CASE Kill
    <2>1. BoundsOK'
        BY <1>1, <1>24, DeleteAssumption DEF Kill
    <2> QED BY <1>3, <1>4, <1>6, <1>24, <2>1 DEF Kill
<1>25. ASSUME NEW r \in Selected, Meddle(r), late' \in BOOLEAN
       PROVE  PlaceOK' /\ BoundsOK' /\ HistoryOK'
    <2>1. BoundsOK'
        BY <1>1, <1>25, DeleteAssumption DEF Meddle
    <2> QED BY <1>1, <1>7, <1>25, <2>1 DEF Meddle
<1>26. ASSUME NEW r \in Selected, Operator(r) PROVE PlaceOK' /\ SystemOK' /\ BoundsOK' /\ HistoryOK'
    <2>1. ASSUME NEW f \in FileName, EditFile(r, f) PROVE SystemOK' /\ late' \in BOOLEAN /\ Meddle(r)
        BY <1>1, <2>1 DEF EditFile
    <2>2. CASE Ifup(r) \/ ForeignLink(r)
        BY <1>1, <1>25, <2>2 DEF Ifup, ForeignLink
    <2>3. CASE Conflict(r)
        BY <1>1, <1>25, <2>3 DEF Conflict, system
    <2>4. CASE StopUnit(r)
        <3>1. service' \in [Selected -> Service]
            <4>1. \/ service' = [service EXCEPT ![r] = "inactive"]
                  \/ service' = [service EXCEPT ![r] = "failed"]
                BY <2>4 DEF StopUnit
            <4>2. "inactive" \in Service /\ "failed" \in Service
                BY DEF Service
            <4> QED BY <1>1, <4>1, <4>2
        <3>2. entries' \in [Selected -> SUBSET Entry] /\ \A t \in Selected \ Tunnels : entries'[t] = {}
            BY <1>1, <2>4 DEF StopUnit
        <3> QED BY <1>1, <1>25, <2>4, <3>1, <3>2 DEF StopUnit
    <2> QED BY <1>25, <1>26, <2>1, <2>2, <2>3, <2>4 DEF Operator
<1>27. ASSUME NEW r \in Selected, XfrmEvent(r) PROVE PlaceOK' /\ SystemOK' /\ BoundsOK' /\ HistoryOK'
    BY <1>1, <1>5, <1>6, <1>7, <1>27 DEF XfrmEvent
<1>28. CASE UNCHANGED vars
    BY <1>4, <1>5, <1>6, <1>7, <1>28 DEF vars
<1> QED BY <1>10, <1>11, <1>12, <1>13, <1>14, <1>15, <1>16, <1>17, <1>18, <1>19, <1>20, <1>21, <1>22,
           <1>23, <1>24, <1>26, <1>27, <1>28 DEF Next, Delete
-----------------------------------------------------------------------------
(* What a step does to the resources.                                      *)

\* A step that takes a resource down touches that one only, and goes on or stops.
LEMMA TakingGoesOn ==
    ASSUME TakingStep
    PROVE  /\ pc \in Taking \ {"unlink"}
           /\ UNCHANGED <<file, conflict, runs, meddles, unfit, raced>>
           /\ Stop("failed") \/ \E label \in Taking \cup {"next"} : Goto(label)
<1> USE DEF Taking, CommandFails, CommandSucceeds, CheckRuntime, InspectXfrm
<1>1. CASE Check \/ Recheck \/ VerifyGone
    BY <1>1 DEF Check, Recheck, VerifyGone, system, bounds, history
<1>2. CASE Ifdown \/ LinkDelete
    BY <1>2 DEF Ifdown, LinkDelete, bounds
<1>3. CASE DisableUnit
    BY <1>3 DEF DisableUnit, system, bounds, history
<1>4. CASE Inspect \/ Reinspect \/ DeleteEntry
    BY <1>4 DEF Inspect, Reinspect, DeleteEntry, system, bounds, history
<1>5. CASE VerifyFile \/ DaemonReload
    BY <1>5 DEF VerifyFile, DaemonReload, system, bounds
<1> QED BY <1>1, <1>2, <1>3, <1>4, <1>5 DEF TakingStep

LEMMA TakingTouchesOne ==
    ASSUME TypeOK, TakingStep
    PROVE  /\ \A t \in Selected : link'[t] = link[t] \/ (t = cur /\ link'[t] = "absent")
           /\ \A t \in Selected : entries'[t] = entries[t] \/ (t = cur /\ entries'[t] \subseteq entries[t])
           /\ \A t \in Selected : service'[t] = service[t] \/ (t = cur /\ service'[t] = "inactive")
<1> USE DEF TypeOK, CommandFails, CommandSucceeds, CheckRuntime, InspectXfrm
<1>1. CASE Check \/ Recheck \/ VerifyGone
    BY <1>1 DEF Check, Recheck, VerifyGone, system
<1>2. CASE Ifdown
    BY <1>2 DEF Ifdown
<1>3. CASE LinkDelete
    BY <1>3 DEF LinkDelete
<1>4. CASE DisableUnit \/ Inspect \/ Reinspect \/ VerifyFile
    BY <1>4 DEF DisableUnit, Inspect, Reinspect, VerifyFile, system
<1>5. CASE DeleteEntry
    BY <1>5 DEF DeleteEntry
<1>6. CASE DaemonReload
    BY <1>6 DEF DaemonReload
<1> QED BY <1>1, <1>2, <1>3, <1>4, <1>5, <1>6 DEF TakingStep

\* What the next place says about the resource at work.
LEMMA TakingReaches ==
    ASSUME TypeOK, PlaceInv, TakingStep
    PROVE  /\ pc' \in {"gone", "unit", "inspect", "entries", "files", "unlink"} =>
                \/ link'[cur] = "absent"
                \/ pc \in {"gone", "unit", "inspect", "entries", "files", "unlink"} /\ link' = link
           /\ pc' \in {"files", "unlink"} =>
                entries'[cur] = {} \/ (pc \in {"files", "unlink"} /\ entries' = entries)
           /\ pc' = "unlink" => todo # {} /\ Verified(cur, FirstFile(todo))
           /\ pc' = "next" =>
                pc = "files" /\ todo = {} /\ ("unit" \in plan[cur] => service'[cur] = "inactive")
<1>0. pc \in Taking /\ cur \in Selected
    BY TakingGoesOn DEF PlaceInv
<1> USE <1>0 DEF TypeOK, CommandFails, CommandSucceeds, CheckRuntime, InspectXfrm, Stop, Goto
<1>1. CASE Check \/ Recheck \/ VerifyGone
    BY <1>1 DEF Check, Recheck, VerifyGone, system
<1>2. CASE Ifdown
    BY <1>2 DEF Ifdown
<1>3. CASE LinkDelete
    BY <1>3 DEF LinkDelete
<1>4. CASE DisableUnit
    BY <1>4 DEF DisableUnit, system
<1>5. CASE Inspect \/ Reinspect
    BY <1>5 DEF Inspect, Reinspect, system
<1>6. CASE VerifyFile
    BY <1>6 DEF VerifyFile, system
<1>7. CASE DeleteEntry
    BY <1>7 DEF DeleteEntry
<1>8. CASE DaemonReload
    BY <1>8 DEF DaemonReload
<1> QED BY <1>1, <1>2, <1>3, <1>4, <1>5, <1>6, <1>7, <1>8 DEF TakingStep

\* Why a step gives up.
LEMMA TakingGivesUp ==
    ASSUME TakingStep, pc' = "idle"
    PROVE  \/ faulted'
           \/ pc \in {"check", "recheck"} /\ Blocked(cur, {cur})
           \/ pc = "gone" /\ link[cur] # "absent"
           \/ conflict[cur] = "alien"
           \/ pc = "files" /\ todo # {} /\ ~Verified(cur, FirstFile(todo))
<1> USE DEF CommandFails, CommandSucceeds, CheckRuntime, InspectXfrm, Goto
<1>1. CASE Check \/ Recheck \/ VerifyGone
    BY <1>1 DEF Check, Recheck, VerifyGone
<1>2. CASE Ifdown \/ LinkDelete
    BY <1>2 DEF Ifdown, LinkDelete
<1>3. CASE DisableUnit
    BY <1>3 DEF DisableUnit
<1>4. CASE Inspect \/ Reinspect \/ DeleteEntry
    BY <1>4 DEF Inspect, Reinspect, DeleteEntry
<1>5. CASE VerifyFile \/ DaemonReload
    BY <1>5 DEF VerifyFile, DaemonReload
<1> QED BY <1>1, <1>2, <1>3, <1>4, <1>5 DEF TakingStep

\* The removal of a file.
LEMMA UnlinkRemoves ==
    ASSUME TypeOK, PlaceInv, UnlinkFile
    PROVE  /\ cur \in Selected
           /\ \A t \in Selected \ {cur} : file'[t] = file[t]
           /\ PresentFiles(cur)' = PresentFiles(cur) \ {FirstFile(todo)}
           /\ \A t \in Selected, f \in FileName :
                file'[t][f] = file[t][f] \/ (t = cur /\ f = FirstFile(todo) /\ file'[t][f] = "absent")
<1>1. cur \in Selected
    BY DEF UnlinkFile, PlaceInv, Taking
<1>2. FirstFile(todo) \in FileName
    BY DEF FirstFile, FileName
<1>3. file \in [Selected -> [FileName -> {"absent", "ours", "edited"}]]
      /\ file' = [file EXCEPT ![cur][FirstFile(todo)] = "absent"]
    BY DEF UnlinkFile, TypeOK
<1>4. \A f \in FileName : file'[cur][f] = IF f = FirstFile(todo) THEN "absent" ELSE file[cur][f]
    BY <1>1, <1>2, <1>3
<1>5. \A t \in Selected \ {cur} : file'[t] = file[t]
    BY <1>3
<1>6. PresentFiles(cur)' = PresentFiles(cur) \ {FirstFile(todo)}
    <2>1. UNCHANGED cur
        BY DEF UnlinkFile
    <2> QED BY <1>4, <2>1 DEF PresentFiles
<1> QED BY <1>1, <1>4, <1>5, <1>6

\* An operator is at one resource; he makes no files and starts no unit.
LEMMA OperatorMeddles ==
    ASSUME TypeOK, NEW r \in Selected, Operator(r)
    PROVE  /\ UNCHANGED <<place, runs, faults, touched, unfit, faulted>>
           /\ meddles' > 0 /\ raced' = IF pc = "idle" THEN raced ELSE raced \cup {r}
           /\ \A t \in Selected \ {r} : /\ link'[t] = link[t] /\ entries'[t] = entries[t]
                                        /\ service'[t] = service[t] /\ file'[t] = file[t]
           /\ \A t \in Selected : PresentFiles(t)' = PresentFiles(t)
           /\ entries'[r] \subseteq entries[r]
           /\ service[r] = "inactive" => service'[r] = "inactive"
           /\ link'[r] = "own" => link[r] = "own" \/ "iface" \in PresentFiles(r)
           /\ late => late'
           /\ \A f \in FileName :
                pc = "unlink" /\ file'[cur][f] # file[cur][f] /\ f = FirstFile(todo) => late'
<1>1. Meddle(r)
    BY DEF Operator, EditFile, Ifup, ForeignLink, Conflict, StopUnit
<1>2. /\ UNCHANGED <<place, runs, faults, touched, unfit, faulted>>
      /\ meddles' > 0 /\ raced' = IF pc = "idle" THEN raced ELSE raced \cup {r}
    BY <1>1 DEF Meddle, TypeOK
<1> USE DEF TypeOK
<1>3. ASSUME NEW f \in FileName, EditFile(r, f)
      PROVE  /\ UNCHANGED <<link, entries, service>>
             /\ \A t \in Selected \ {r} : file'[t] = file[t]
             /\ \A t \in Selected : PresentFiles(t)' = PresentFiles(t)
             /\ late => late'
             /\ \A g \in FileName :
                  pc = "unlink" /\ file'[cur][g] # file[cur][g] /\ g = FirstFile(todo) => late'
    <2>1. file' = [file EXCEPT ![r][f] = IF file[r][f] = "ours" THEN "edited" ELSE "ours"]
          /\ file[r][f] # "absent" /\ UNCHANGED <<link, entries, service>>
        BY <1>3 DEF EditFile
    <2>2. \A t \in Selected \ {r} : file'[t] = file[t]
        BY <2>1
    <2>3. \A g \in FileName : g # f => file'[r][g] = file[r][g]
        BY <2>1
    <2>4. file'[r][f] # "absent"
        BY <2>1
    <2>5. PresentFiles(r)' = PresentFiles(r)
        BY <2>1, <2>3, <2>4 DEF PresentFiles
    <2>6. \A t \in Selected : PresentFiles(t)' = PresentFiles(t)
        BY <2>2, <2>5 DEF PresentFiles
    <2>7. late' = (late \/ (pc = "unlink" /\ cur = r /\ FirstFile(todo) = f))
        BY <1>3 DEF EditFile
    <2>8. ASSUME NEW g \in FileName, pc = "unlink", file'[cur][g] # file[cur][g], g = FirstFile(todo)
          PROVE  late'
        <3>1. cur = r
            BY <2>1, <2>8
        <3> QED BY <2>3, <2>7, <2>8, <3>1
    <2> QED BY <2>1, <2>2, <2>6, <2>7, <2>8
<1>4. ASSUME Ifup(r) \/ ForeignLink(r)
      PROVE  /\ UNCHANGED <<file, entries, service, late>>
             /\ \A t \in Selected \ {r} : link'[t] = link[t]
             /\ link'[r] = "own" => link[r] = "own" \/ "iface" \in PresentFiles(r)
    BY <1>4 DEF Ifup, ForeignLink, PresentFiles, FileName
<1>5. ASSUME Conflict(r) PROVE UNCHANGED <<link, file, entries, service, late>>
    BY <1>5 DEF Conflict, system
<1>6. ASSUME StopUnit(r)
      PROVE  /\ UNCHANGED <<link, file, late>> /\ service[r] = "active"
             /\ \A t \in Selected \ {r} : service'[t] = service[t] /\ entries'[t] = entries[t]
             /\ entries'[r] \subseteq entries[r]
    <2>1. \/ entries' = [entries EXCEPT ![r] = {}]
          \/ UNCHANGED entries
        BY <1>6 DEF StopUnit
    <2>2. \A t \in Selected \ {r} : service'[t] = service[t]
        BY <1>6 DEF StopUnit
    <2> QED BY <1>6, <2>1, <2>2 DEF StopUnit
<1>7. UNCHANGED file => \A t \in Selected : PresentFiles(t)' = PresentFiles(t)
    BY DEF PresentFiles
<1> QED BY <1>2, <1>3, <1>4, <1>5, <1>6, <1>7 DEF Operator
\* A queued event is handled between two runs: it builds or removes the entries
\* of one tunnel as its link says.
LEMMA EventRebuilds ==
    ASSUME TypeOK, NEW r \in Selected, XfrmEvent(r)
    PROVE  /\ pc = "idle" /\ UNCHANGED <<link, file, service, conflict, place, bounds, history>>
           /\ \A t \in Selected : entries'[t] = entries[t] \/ link[t] = "own" \/ entries'[t] = {}
<1>1. entries' = [entries EXCEPT ![r] = IF link[r] = "own" THEN Entry ELSE {}]
    BY DEF XfrmEvent
<1> QED BY <1>1 DEF XfrmEvent, TypeOK

\* The kinds of steps.
LEMMA KindsOfSteps ==
    ASSUME [Next]_vars
    PROVE  \/ BuildDeletePlan \/ CheckPlan \/ Preflight \/ NextResource
           \/ TakingStep \/ UnlinkFile \/ Finish \/ Kill
           \/ \E r \in Selected : Operator(r) \/ XfrmEvent(r)
           \/ UNCHANGED vars
BY DEF Next, Delete, TakingStep

-----------------------------------------------------------------------------
(* The parts of the invariant.                                             *)

LEMMA NextPlaceInv ==
    ASSUME TypeOK, PlaceInv, [Next]_vars
    PROVE  PlaceInv'
<1> USE DEF PlaceInv
<1>1. ASSUME NEW how, Stop(how) PROVE PlaceInv'
    BY <1>1 DEF Stop, Taking
<1>2. ASSUME NEW label \in Taking \cup {"next"}, Goto(label), pc \in Taking, UNCHANGED unfit
      PROVE  PlaceInv'
    BY <1>2 DEF Goto, Taking
<1>3. CASE BuildDeletePlan
    <2>1. Ready(Selected) \subseteq Selected
          /\ \A r \in Ready(Selected), n \in Needs : n[2] = r => n[1] \notin Selected
        BY SomeoneIsReady
    <2> QED BY <1>3, <2>1 DEF BuildDeletePlan, Taking
<1>4. CASE CheckPlan
    BY <1>1, <1>4 DEF CheckPlan, Goto, Taking, history
<1>5. CASE Preflight
    BY <1>1, <1>5 DEF Preflight, Goto, Taking
<1>6. CASE NextResource
    <2>1. PICK r \in wave :
            /\ cur' = r
            /\ pending' = pending \ {r}
            /\ wave' = IF wave = {r} THEN Ready(pending \ {r}) ELSE wave \ {r}
        BY <1>6 DEF NextResource
    <2>2. /\ pc' = "check" /\ pc = "next" /\ UNCHANGED <<outcome, unfit>>
          /\ wave \subseteq pending /\ pending \subseteq Selected
        BY <1>6 DEF NextResource, history, TypeOK
    <2>3. \A t \in Ready(pending \ {r}), n \in Needs : n[2] = t => n[1] \notin pending \ {r}
        BY <2>2, SomeoneIsReady
    <2> QED BY <2>1, <2>2, <2>3 DEF Taking
<1>7. CASE TakingStep
    BY <1>1, <1>2, <1>7, TakingGoesOn
<1>8. CASE UnlinkFile
    BY <1>8 DEF UnlinkFile, Taking
<1>9. CASE Finish \/ Kill
    BY <1>1, <1>9 DEF Finish, Kill
<1>10. ASSUME UNCHANGED place, UNCHANGED <<touched, unfit>> PROVE PlaceInv'
    BY <1>10 DEF place
<1>11. ASSUME NEW r \in Selected, Operator(r) \/ XfrmEvent(r) PROVE PlaceInv'
    BY <1>10, <1>11, OperatorMeddles, EventRebuilds DEF history
<1>12. CASE UNCHANGED vars
    BY <1>10, <1>12 DEF vars, history
<1> QED BY <1>3, <1>4, <1>5, <1>6, <1>7, <1>8, <1>9, <1>11, <1>12, KindsOfSteps

LEMMA NextFilesInv ==
    ASSUME TypeOK, PlaceInv, FilesInv, [Next]_vars
    PROVE  FilesInv'
<1> USE DEF FilesInv
<1>0. /\ wave \subseteq pending /\ pending \subseteq Selected /\ plan \in [Selected -> SUBSET FileName]
      /\ pc \in Taking => cur \in Selected \ pending
    BY DEF TypeOK, PlaceInv
<1>1. ASSUME NEW how, Stop(how) PROVE FilesInv'
    BY <1>1 DEF Stop, Taking
<1>2. UNCHANGED file => \A t : PresentFiles(t)' = PresentFiles(t)
    BY DEF PresentFiles
<1>3. CASE BuildDeletePlan
    BY <1>2, <1>3 DEF BuildDeletePlan, Taking, system
<1>4. CASE CheckPlan \/ Preflight
    BY <1>1, <1>2, <1>4 DEF CheckPlan, Preflight, Goto, Taking, system
<1>5. CASE NextResource
    BY <1>0, <1>2, <1>5 DEF NextResource, Taking, system
<1>6. CASE TakingStep
    <2>1. CASE \E label \in Taking \cup {"next"} : Goto(label)
        <3>1. UNCHANGED <<file, cur, pending, plan, todo>> /\ pc \in Taking /\ pc' # "idle"
            BY <1>6, <2>1, TakingGoesOn DEF Goto, Taking
        <3>2. \A t : PresentFiles(t)' = PresentFiles(t)
            BY <1>2, <3>1
        <3>3. pc' = "unlink" => todo # {} /\ file[cur][FirstFile(todo)] = "ours"
            BY <1>6, TakingReaches DEF Verified
        <3>4. pc # "idle"
            BY <3>1 DEF Taking
        <3> QED BY <3>1, <3>2, <3>3, <3>4
    <2> QED BY <1>1, <1>6, <2>1, TakingGoesOn
<1>7. CASE UnlinkFile
    <2>1. /\ pc = "unlink" /\ pc' = "files" /\ todo' = todo \ {FirstFile(todo)}
          /\ UNCHANGED <<cur, pending, plan>>
        BY <1>7 DEF UnlinkFile
    <2>2. /\ PresentFiles(cur)' = PresentFiles(cur) \ {FirstFile(todo)}
          /\ \A t \in Selected \ {cur} : PresentFiles(t)' = PresentFiles(t)
        BY <1>7, UnlinkRemoves DEF PresentFiles
    <2> QED BY <1>0, <2>1, <2>2 DEF Taking
<1>8. CASE Finish \/ Kill
    BY <1>1, <1>8 DEF Finish, Kill
<1>9. ASSUME NEW r \in Selected, Operator(r) PROVE FilesInv'
    <2>1. /\ UNCHANGED <<pc, cur, pending, plan, todo>>
          /\ \A t \in Selected : PresentFiles(t)' = PresentFiles(t)
          /\ late => late'
          /\ pc = "unlink" /\ file'[cur][FirstFile(todo)] # file[cur][FirstFile(todo)] => late'
        <3>1. FirstFile(todo) \in FileName
            BY DEF FirstFile, FileName
        <3> QED BY <1>9, <3>1, OperatorMeddles DEF place
    <2>2. pc \in Taking => PresentFiles(cur)' = PresentFiles(cur)
        BY <1>0, <2>1
    <2> QED BY <1>0, <2>1, <2>2
<1>10. ASSUME NEW r \in Selected, XfrmEvent(r) PROVE FilesInv'
    BY <1>2, <1>10, EventRebuilds DEF place, Taking
<1>11. CASE UNCHANGED vars
    BY <1>2, <1>11 DEF vars, place, system, history
<1> QED BY <1>3, <1>4, <1>5, <1>6, <1>7, <1>8, <1>9, <1>10, <1>11, KindsOfSteps

LEMMA NextStageInv ==
    ASSUME TypeOK, TypeOK', PlaceInv, StageInv, [Next]_vars
    PROVE  StageInv'
<1> USE DEF StageInv
<1>1. ASSUME NEW how, Stop(how) PROVE StageInv'
    BY <1>1 DEF Stop
<1>2. CASE BuildDeletePlan \/ NextResource
    BY <1>2 DEF BuildDeletePlan, NextResource
<1>3. CASE CheckPlan \/ Preflight
    BY <1>1, <1>3 DEF CheckPlan, Preflight, Goto
<1>4. CASE TakingStep
    <2>1. UNCHANGED raced
        BY <1>4, TakingGoesOn
    <2>2. CASE \E label \in Taking \cup {"next"} : Goto(label)
        BY <1>4, <2>1, <2>2, TakingReaches DEF Goto
    <2> QED BY <1>1, <1>4, <2>2, TakingGoesOn
<1>5. CASE UnlinkFile
    BY <1>5 DEF UnlinkFile
<1>6. CASE Finish \/ Kill
    BY <1>1, <1>6 DEF Finish, Kill
<1>7. ASSUME NEW r \in Selected, Operator(r) PROVE StageInv'
    <2>1. UNCHANGED <<pc, cur>> /\ raced' = IF pc = "idle" THEN raced ELSE raced \cup {r}
        BY <1>7, OperatorMeddles DEF place
    <2>2. pc \in Taking => cur \in Selected
        BY DEF PlaceInv
    <2>3. \A t \in Selected : /\ t # r => link'[t] = link[t]
                              /\ entries'[t] \subseteq entries[t]
        BY <1>7, OperatorMeddles
    <2> QED BY <2>1, <2>2, <2>3 DEF Taking
<1>8. ASSUME NEW r \in Selected, XfrmEvent(r) PROVE StageInv'
    BY <1>8, EventRebuilds DEF place
<1>9. CASE UNCHANGED vars
    BY <1>9 DEF vars, place, system, history
<1> QED BY <1>2, <1>3, <1>4, <1>5, <1>6, <1>7, <1>8, <1>9, KindsOfSteps

LEMMA NextServiceInv ==
    ASSUME TypeOK, PlaceInv, ServiceInv, [Next]_vars
    PROVE  ServiceInv'
<1> USE DEF ServiceInv
<1>0. \A r \in Selected \ Tunnels : service[r] = "inactive"
    OBVIOUS
<1>1. ASSUME NEW how, Stop(how), UNCHANGED service PROVE ServiceInv'
    BY <1>1 DEF Stop
<1>2. CASE BuildDeletePlan \/ NextResource
    BY <1>2 DEF BuildDeletePlan, NextResource, system
<1>3. CASE CheckPlan
    BY <1>1, <1>3 DEF CheckPlan, Goto, system
<1>4. CASE Preflight
    <2>1. CASE \E r \in Selected : Unfit(r)
        BY <1>1, <1>4, <2>1 DEF Preflight, system
    <2>2. CASE \A r \in Selected : ~Unfit(r)
        <3>1. UNCHANGED <<plan, service>>
            BY <1>4, <2>2 DEF Preflight, Goto, system
        <3>2. \A r \in Selected : "unit" \notin plan[r] => service[r] = "inactive"
            BY <2>2, <1>0 DEF Unfit, InspectPasses
        <3> QED BY <1>0, <3>1, <3>2
    <2> QED BY <2>1, <2>2
<1>5. CASE TakingStep
    <2>1. \A t \in Selected : service'[t] = service[t] \/ service'[t] = "inactive"
        BY <1>5, TakingTouchesOne
    <2>2. pc \in Taking /\ (Stop("failed") \/ UNCHANGED plan)
        BY <1>5, TakingGoesOn DEF Goto
    <2>3. Stop("failed") => pc' = "idle"
        BY DEF Stop
    <2> QED BY <2>1, <2>2, <2>3 DEF Taking
<1>6. CASE UnlinkFile
    BY <1>6 DEF UnlinkFile
<1>7. CASE Finish \/ Kill
    BY <1>1, <1>7 DEF Finish, Kill, system
<1>8. ASSUME NEW r \in Selected, Operator(r) PROVE ServiceInv'
    <2>1. UNCHANGED <<pc, plan>> /\ \A t \in Selected : service[t] = "inactive" => service'[t] = "inactive"
        BY <1>8, OperatorMeddles DEF place
    <2> QED BY <2>1
<1>9. ASSUME NEW r \in Selected, XfrmEvent(r) PROVE ServiceInv'
    BY <1>9, EventRebuilds DEF place
<1>10. CASE UNCHANGED vars
    BY <1>10 DEF vars, place, system
<1> QED BY <1>2, <1>3, <1>4, <1>5, <1>6, <1>7, <1>8, <1>9, <1>10, KindsOfSteps

LEMMA NextHandledInv ==
    ASSUME TypeOK, PlaceInv, FilesInv, StageInv, ServiceInv, HandledInv, [Next]_vars
    PROVE  HandledInv'
<1>0. /\ wave \subseteq pending /\ pending \subseteq Selected
      /\ pc \in Taking => cur \in Selected \ pending
    BY DEF TypeOK, PlaceInv
<1>1. ASSUME NEW how, Stop(how) PROVE HandledInv'
    BY <1>1 DEF Stop, HandledInv
<1>2. ASSUME UNCHANGED <<system, raced>>, pc # "idle", Left \subseteq Left' PROVE HandledInv'
    BY <1>2 DEF HandledInv, Handled, Gone, system, PresentFiles
<1>3. CASE BuildDeletePlan
    BY <1>3 DEF BuildDeletePlan, HandledInv, Handled, Left, Taking
<1>4. CASE CheckPlan \/ Preflight
    <2>1. UNCHANGED <<system, raced>> /\ pc # "idle"
        BY <1>4 DEF CheckPlan, Preflight, history
    <2>2. CASE Goto("preflight") \/ Goto("next")
        <3>1. Left \subseteq Left'
            BY <1>4, <2>2 DEF CheckPlan, Preflight, Goto, Left, Taking
        <3> QED BY <1>2, <2>1, <3>1
    <2> QED BY <1>1, <1>4, <2>2 DEF CheckPlan, Preflight
<1>5. CASE NextResource
    <2>1. UNCHANGED <<system, raced>> /\ pc # "idle"
        BY <1>5 DEF NextResource, history
    <2>2. Left \subseteq Left'
        BY <1>5 DEF NextResource, Left, Taking
    <2> QED BY <1>2, <2>1, <2>2
<1>6. CASE TakingStep
    <2>1. /\ pc \in Taking /\ pc # "idle" /\ UNCHANGED <<file, raced>>
          /\ \A t \in Selected \ {cur} :
               link'[t] = link[t] /\ entries'[t] = entries[t] /\ service'[t] = service[t]
        BY <1>6, TakingGoesOn, TakingTouchesOne DEF Taking
    <2>2. \A t \in Selected \ {cur} : Gone(t) => Gone(t)'
        BY <2>1 DEF Gone, PresentFiles
    <2>3. CASE \E label \in Taking : Goto(label)
        <3>1. UNCHANGED <<cur, pending>> /\ pc' \in Taking
            BY <2>3 DEF Goto
        <3>2. Left' = Left /\ cur \in Left
            BY <2>1, <3>1 DEF Left
        <3> QED BY <2>1, <2>2, <3>2 DEF HandledInv, Handled
    <2>4. CASE Goto("next")
        <3>1. UNCHANGED <<cur, pending>> /\ pc' = "next"
            BY <2>4 DEF Goto
        <3>2. Left' = pending /\ Left = pending \cup {cur}
            BY <2>1, <3>1 DEF Left, Taking
        <3>3. /\ pc = "files" /\ todo = {} /\ cur \in Selected
              /\ "unit" \in plan[cur] => service'[cur] = "inactive"
            BY <1>0, <1>6, <2>1, <3>1, TakingReaches
        <3>4. ASSUME cur \notin raced PROVE Gone(cur)'
            <4>1. link'[cur] = "absent"
                BY <1>6, <3>3, <3>4, TakingTouchesOne DEF StageInv
            <4>2. entries'[cur] = {}
                BY <1>6, <3>3, TakingTouchesOne DEF StageInv
            <4>3. service'[cur] = "inactive"
                BY <1>6, <3>3, TakingTouchesOne DEF ServiceInv
            <4>4. PresentFiles(cur)' = {}
                <5>1. PresentFiles(cur) = {}
                    BY <2>1, <3>3 DEF FilesInv
                <5> QED BY <2>1, <3>1, <5>1 DEF PresentFiles
            <4> QED BY <3>1, <4>1, <4>2, <4>3, <4>4 DEF Gone
        <3>5. \A t \in Selected : t = cur /\ t \notin raced => Gone(t)'
            BY <3>1, <3>4
        <3> QED BY <2>1, <2>2, <3>2, <3>5 DEF HandledInv, Handled
    <2> QED BY <1>1, <1>6, <2>3, <2>4, TakingGoesOn
<1>7. CASE UnlinkFile
    <2>1. /\ pc = "unlink" /\ pc' = "files" /\ UNCHANGED <<cur, pending, link, entries, service, raced>>
          /\ \A t \in Selected \ {cur} : file'[t] = file[t]
        BY <1>7, UnlinkRemoves DEF UnlinkFile
    <2>2. Left' = Left /\ cur \in Left
        BY <2>1 DEF Left, Taking
    <2>3. \A t \in Selected \ {cur} : Gone(t) => Gone(t)'
        BY <2>1 DEF Gone, PresentFiles
    <2> QED BY <2>1, <2>2, <2>3 DEF HandledInv, Handled
<1>8. CASE Finish \/ Kill
    BY <1>1, <1>8 DEF Finish, Kill
<1>9. ASSUME NEW r \in Selected, Operator(r) PROVE HandledInv'
    <2>1. UNCHANGED <<pc, cur, pending>> /\ raced' = IF pc = "idle" THEN raced ELSE raced \cup {r}
        BY <1>9, OperatorMeddles DEF place
    <2>2. \A t \in Selected \ {r} : Gone(t) => Gone(t)'
        BY <1>9, OperatorMeddles DEF Gone, PresentFiles
    <2> QED BY <2>1, <2>2 DEF HandledInv, Handled, Left
<1>10. ASSUME NEW r \in Selected, XfrmEvent(r) PROVE HandledInv'
    BY <1>10, EventRebuilds DEF place, HandledInv
<1>11. CASE UNCHANGED vars
    <2>1. UNCHANGED <<system, raced, pc>> /\ Left' = Left
        BY <1>11 DEF vars, place, history, Left
    <2> QED BY <1>2, <2>1 DEF HandledInv
<1> QED BY <1>3, <1>4, <1>5, <1>6, <1>7, <1>8, <1>9, <1>10, <1>11, KindsOfSteps
LEMMA NextAloneInv ==
    ASSUME TypeOK, PlaceInv, AloneInv, [Next]_vars
    PROVE  AloneInv'
<1>0. meddles \in Nat
    BY DEF TypeOK
<1>1. ASSUME UNCHANGED <<link, file, conflict, meddles, raced>> PROVE AloneInv'
    BY <1>1 DEF AloneInv
<1>2. CASE BuildDeletePlan \/ CheckPlan \/ Preflight \/ NextResource \/ Finish \/ Kill
    BY <1>1, <1>2 DEF BuildDeletePlan, CheckPlan, Preflight, NextResource, Finish, Kill, system,
                      bounds, history
<1>3. CASE TakingStep
    <2>1. UNCHANGED <<file, conflict, meddles, raced>>
          /\ \A t \in Selected : link'[t] = link[t] \/ link'[t] = "absent"
        BY <1>3, TakingGoesOn, TakingTouchesOne
    <2> QED BY <2>1 DEF AloneInv
<1>4. CASE UnlinkFile
    <2>1. UNCHANGED <<link, conflict, meddles, raced>>
        BY <1>4 DEF UnlinkFile, bounds
    <2>2. \A t \in Selected, f \in FileName : file'[t][f] = file[t][f] \/ file'[t][f] = "absent"
        BY <1>4, UnlinkRemoves
    <2> QED BY <2>1, <2>2 DEF AloneInv
<1>5. ASSUME NEW r \in Selected, Operator(r) PROVE AloneInv'
    BY <1>5, OperatorMeddles DEF AloneInv
<1>6. ASSUME NEW r \in Selected, XfrmEvent(r) PROVE AloneInv'
    BY <1>1, <1>6, EventRebuilds DEF bounds, history
<1>7. CASE UNCHANGED vars
    BY <1>1, <1>7 DEF vars, system, bounds, history
<1> QED BY <1>2, <1>3, <1>4, <1>5, <1>6, <1>7, KindsOfSteps

LEMMA NextBatchCheckedFirst ==
    ASSUME TypeOK, PlaceInv, BatchCheckedFirst, [Next]_vars
    PROVE  BatchCheckedFirst'
<1> USE DEF BatchCheckedFirst
<1>1. ASSUME UNCHANGED <<touched, unfit>> PROVE BatchCheckedFirst'
    BY <1>1
<1>2. CASE BuildDeletePlan
    BY <1>2 DEF BuildDeletePlan
<1>3. CASE Preflight
    BY <1>3 DEF Preflight, PlaceInv
<1>4. CASE TakingStep
    BY <1>4, TakingGoesOn DEF PlaceInv, Taking
<1>5. CASE UnlinkFile
    BY <1>5 DEF UnlinkFile, PlaceInv
<1>6. CASE CheckPlan \/ NextResource \/ Finish \/ Kill
    BY <1>1, <1>6 DEF CheckPlan, NextResource, Finish, Kill, history
<1>7. ASSUME NEW r \in Selected, Operator(r) \/ XfrmEvent(r) PROVE BatchCheckedFirst'
    BY <1>1, <1>7, OperatorMeddles, EventRebuilds DEF history
<1>8. CASE UNCHANGED vars
    BY <1>1, <1>8 DEF vars, history
<1> QED BY <1>2, <1>3, <1>4, <1>5, <1>6, <1>7, <1>8, KindsOfSteps

\* ConfigOutlivesRuntime in terms of PresentFiles.
LEMMA ConfigIsPresent ==
    ConfigOutlivesRuntime <=>
        \A r \in Selected \ raced : link[r] = "own" \/ entries[r] # {} => "iface" \in PresentFiles(r)
BY DEF ConfigOutlivesRuntime, PresentFiles, FileName

LEMMA NextConfigOutlivesRuntime ==
    ASSUME TypeOK, PlaceInv, StageInv, ConfigOutlivesRuntime, [Next]_vars
    PROVE  ConfigOutlivesRuntime'
<1> DEFINE Kept(t) == link[t] = "own" \/ entries[t] # {} => "iface" \in PresentFiles(t)
<1>0. \A t \in Selected \ raced : Kept(t)
    BY ConfigIsPresent
<1>1. ASSUME raced \subseteq raced', \A t \in Selected \ raced' : Kept(t) => Kept(t)'
      PROVE  ConfigOutlivesRuntime'
    BY <1>0, <1>1 DEF ConfigOutlivesRuntime, PresentFiles, FileName
<1> HIDE DEF Kept
<1>2. ASSUME UNCHANGED <<system, raced>> PROVE ConfigOutlivesRuntime'
    BY <1>1, <1>2 DEF Kept, system, PresentFiles
<1>3. CASE BuildDeletePlan \/ CheckPlan \/ Preflight \/ NextResource \/ Finish \/ Kill
    BY <1>2, <1>3 DEF BuildDeletePlan, CheckPlan, Preflight, NextResource, Finish, Kill, history
<1>4. CASE TakingStep
    <2>1. UNCHANGED <<file, raced>>
          /\ \A t \in Selected : /\ link'[t] = link[t] \/ link'[t] = "absent"
                                 /\ entries'[t] \subseteq entries[t]
        BY <1>4, TakingGoesOn, TakingTouchesOne
    <2>2. \A t \in Selected : Kept(t) => Kept(t)'
        BY <2>1 DEF Kept, PresentFiles
    <2> QED BY <1>1, <2>1, <2>2
<1>5. CASE UnlinkFile
    <2>1. /\ pc = "unlink" /\ UNCHANGED <<link, entries, raced>> /\ cur \in Selected
          /\ \A t \in Selected \ {cur} : file'[t] = file[t]
        BY <1>5, UnlinkRemoves DEF UnlinkFile
    <2>2. \A t \in Selected \ {cur} : Kept(t) => Kept(t)'
        BY <2>1 DEF Kept, PresentFiles
    <2>3. cur \notin raced => link[cur] = "absent" /\ entries[cur] = {}
        BY <2>1 DEF StageInv
    <2>4. \A t \in Selected \ raced : t = cur => Kept(t)'
        BY <2>1, <2>3 DEF Kept
    <2> QED BY <1>1, <2>1, <2>2, <2>4
<1>6. ASSUME NEW r \in Selected, Operator(r) PROVE ConfigOutlivesRuntime'
    <2>1. raced \subseteq raced'
        BY <1>6, OperatorMeddles
    <2>2. \A t \in Selected : PresentFiles(t)' = PresentFiles(t)
        BY <1>6, OperatorMeddles
    <2>3. \A t \in Selected : /\ entries'[t] \subseteq entries[t]
                              /\ link'[t] = "own" => link[t] = "own" \/ "iface" \in PresentFiles(t)
        BY <1>6, OperatorMeddles
    <2>4. \A t \in Selected : Kept(t) => Kept(t)'
        <3> SUFFICES ASSUME NEW t \in Selected, Kept(t) PROVE Kept(t)'
            OBVIOUS
        <3>0. entries'[t] \subseteq entries[t]
            BY <2>3
        <3>1. entries[t] = {} => entries'[t] = {}
            BY <3>0
        <3>2. (link[t] = "own" \/ entries[t] # {}) => "iface" \in PresentFiles(t)
            BY DEF Kept
        <3>3. (link'[t] = "own" \/ entries'[t] # {}) => "iface" \in PresentFiles(t)
            BY <2>3, <3>1, <3>2
        <3> QED BY <2>2, <3>3 DEF Kept
    <2> QED BY <1>1, <2>1, <2>4
<1>7. ASSUME NEW r \in Selected, XfrmEvent(r) PROVE ConfigOutlivesRuntime'
    <2>1. UNCHANGED <<link, file, raced>>
          /\ \A t \in Selected : entries'[t] = entries[t] \/ link[t] = "own" \/ entries'[t] = {}
        BY <1>7, EventRebuilds DEF history
    <2>2. \A t \in Selected : Kept(t) => Kept(t)'
        BY <2>1 DEF Kept, PresentFiles
    <2> QED BY <1>1, <2>1, <2>2
<1>8. CASE UNCHANGED vars
    BY <1>2, <1>8 DEF vars, history
<1> QED BY <1>3, <1>4, <1>5, <1>6, <1>7, <1>8, KindsOfSteps

\* What gw delete left to itself finds in its way.
Excused ==
    \/ faulted \/ meddles > 0
    \/ \E r \in Selected : service[r] = "active"
    \/ \E r \in Selected : service[r] = "failed" /\ file[r]["unit"] = "absent"

\* The checks of the batch refuse nothing else.
LEMMA OnlyUnitsAreUnfit ==
    ASSUME TypeOK, AloneInv, meddles = 0, NEW r \in Selected, Unfit(r),
           pc \in {"plan", "preflight"}, FilesInv, PlaceInv
    PROVE  Excused
<1>1. plan[r] = PresentFiles(r)
    BY DEF FilesInv, PlaceInv
<1>2. \A f \in plan[r] : Verified(r, f)
    BY <1>1 DEF AloneInv, PresentFiles, Verified, TypeOK
<1>3. ~InspectPasses(r)
    BY <1>2 DEF Unfit
<1>4. conflict[r] = "none"
    BY DEF AloneInv
<1>5. service[r] \in {"active", "failed"} /\ ("unit" \in plan[r] => service[r] = "active")
    BY <1>3, <1>4 DEF InspectPasses, TypeOK, Service
<1>6. "unit" \notin plan[r] => file[r]["unit"] = "absent"
    BY <1>1 DEF PresentFiles, FileName
<1> QED BY <1>5, <1>6 DEF Excused

\* A link of the batch with its configuration is only in the way of its parents.
LEMMA OnlyDependentsBlock ==
    ASSUME TypeOK, AloneInv, meddles = 0, ConfigOutlivesRuntime, NEW r \in Selected,
           PresentFiles(r) \subseteq plan[r], NEW sel, Blocked(r, sel)
    PROVE  \E n \in Needs : n[2] = r /\ n[1] \notin sel /\ link[n[1]] = "own"
<1>1. raced = {} /\ link[r] # "foreign" /\ conflict[r] = "none"
    BY DEF AloneInv
<1>2. link[r] = "own" => "iface" \in PresentFiles(r)
    BY <1>1, ConfigIsPresent
<1>3. link[r] \in {"absent", "own"}
    BY <1>1 DEF TypeOK
<1> QED BY <1>1, <1>2, <1>3 DEF Blocked

LEMMA NextOwnWork ==
    ASSUME TypeOK, PlaceInv, FilesInv, StageInv, HandledInv, AloneInv, ConfigOutlivesRuntime,
           OwnWorkNeverInTheWay, [Next]_vars
    PROVE  OwnWorkNeverInTheWay'
<1>0. /\ meddles \in Nat /\ (outcome \in {"refused", "failed"} => Excused)
      /\ pc # "idle" => outcome = "none"
    BY DEF TypeOK, OwnWorkNeverInTheWay, Excused, PlaceInv
<1>1. ASSUME outcome' \in {"refused", "failed"} => Excused' PROVE OwnWorkNeverInTheWay'
    BY <1>1 DEF OwnWorkNeverInTheWay, Excused
<1>2. ASSUME UNCHANGED <<service, file, faulted, meddles>>, Excused PROVE Excused'
    BY <1>2 DEF Excused
<1>3. ASSUME outcome' \notin {"refused", "failed"} PROVE OwnWorkNeverInTheWay'
    BY <1>1, <1>3
<1>4. CASE BuildDeletePlan \/ NextResource \/ UnlinkFile \/ Finish \/ Kill
    BY <1>0, <1>3, <1>4 DEF BuildDeletePlan, NextResource, UnlinkFile, Finish, Kill, Stop
<1>5. CASE CheckPlan
    <2>1. UNCHANGED <<service, file, faulted, meddles>> /\ pc = "plan"
        BY <1>5 DEF CheckPlan, system, bounds, history
    <2>2. CASE \E r \in Selected : Unfit(r) \/ Blocked(r, Selected)
        <3>1. PICK r \in Selected : Unfit(r) \/ Blocked(r, Selected)
            BY <2>2
        <3>2. ASSUME meddles = 0 PROVE Unfit(r)
            <4>1. PresentFiles(r) \subseteq plan[r]
                BY <2>1 DEF FilesInv, PlaceInv
            <4>2. \A n \in Needs : n[1] \in Selected
                BY DeleteAssumption
            <4> QED BY <3>1, <3>2, <4>1, <4>2, OnlyDependentsBlock
        <3>3. Excused
            BY <1>0, <2>1, <3>2, OnlyUnitsAreUnfit DEF Excused
        <3> QED BY <1>1, <1>2, <2>1, <3>3
    <2>3. CASE ~\E r \in Selected : Unfit(r) \/ Blocked(r, Selected)
        BY <1>0, <1>3, <1>5, <2>1, <2>3 DEF CheckPlan, Goto
    <2> QED BY <2>2, <2>3
<1>6. CASE Preflight
    <2>1. UNCHANGED <<service, file, faulted, meddles>> /\ pc = "preflight"
        BY <1>6 DEF Preflight, system, bounds
    <2>2. CASE \E r \in Selected : Unfit(r)
        <3>1. Excused
            BY <1>0, <2>1, <2>2, OnlyUnitsAreUnfit DEF Excused
        <3> QED BY <1>1, <1>2, <2>1, <3>1
    <2>3. CASE ~\E r \in Selected : Unfit(r)
        BY <1>0, <1>3, <1>6, <2>1, <2>3 DEF Preflight, Goto
    <2> QED BY <2>2, <2>3
<1>7. CASE TakingStep
    <2>1. pc \in Taking /\ pc # "idle" /\ UNCHANGED meddles /\ cur \in Selected
        BY <1>7, TakingGoesOn DEF Taking, PlaceInv
    <2>2. CASE \E label \in Taking \cup {"next"} : Goto(label)
        BY <1>0, <1>3, <2>1, <2>2 DEF Goto
    <2>3. CASE Stop("failed")
        <3>1. SUFFICES ASSUME meddles = 0, ~faulted' PROVE FALSE
            BY <1>0, <1>1, <2>1 DEF Excused
        <3>2. \/ pc \in {"check", "recheck"} /\ Blocked(cur, {cur})
              \/ pc = "gone" /\ link[cur] # "absent"
              \/ conflict[cur] = "alien"
              \/ pc = "files" /\ todo # {} /\ ~Verified(cur, FirstFile(todo))
            BY <1>7, <2>3, <3>1, TakingGivesUp DEF Stop
        <3>3. raced = {} /\ conflict[cur] = "none" /\ \A f \in FileName : file[cur][f] # "edited"
            BY <2>1, <3>1 DEF AloneInv
        <3>4. ~Blocked(cur, {cur})
            <4>1. ASSUME Blocked(cur, {cur}) PROVE FALSE
                <5>1. PresentFiles(cur) \subseteq plan[cur]
                    BY <2>1 DEF FilesInv
                <5>2. PICK n \in Needs : n[2] = cur /\ n[1] \notin {cur} /\ link[n[1]] = "own"
                    BY <2>1, <3>1, <4>1, <5>1, OnlyDependentsBlock
                <5>3. n[1] \in Selected /\ n[1] \notin pending /\ n[1] # cur
                    BY <2>1, <5>2, DeleteAssumption DEF PlaceInv
                <5>4. n[1] \in Handled \ raced
                    BY <2>1, <3>3, <5>3 DEF Handled, Left
                <5>5. Gone(n[1])
                    BY <2>1, <5>4 DEF HandledInv
                <5> QED BY <5>2, <5>5 DEF Gone
            <4> QED BY <4>1
        <3>5. ~(pc = "files" /\ todo # {} /\ ~Verified(cur, FirstFile(todo)))
            <4>1. pc = "files" /\ todo # {} => FirstFile(todo) \in PresentFiles(cur)
                <5>1. todo \subseteq {"unit", "iface", "conf"}
                    BY DEF TypeOK, FileName
                <5>2. todo # {} => FirstFile(todo) \in todo
                    BY <5>1 DEF FirstFile
                <5> QED BY <2>1, <5>2 DEF FilesInv
            <4> QED BY <2>1, <3>3, <4>1 DEF PresentFiles, Verified, TypeOK
        <3>6. pc = "gone" => link[cur] = "absent"
            BY <3>3 DEF StageInv
        <3> QED BY <3>2, <3>3, <3>4, <3>5, <3>6
    <2> QED BY <1>7, <2>2, <2>3, TakingGoesOn
<1>8. ASSUME NEW r \in Selected, Operator(r) PROVE OwnWorkNeverInTheWay'
    BY <1>1, <1>8, OperatorMeddles DEF Excused
<1>9. ASSUME NEW r \in Selected, XfrmEvent(r) PROVE OwnWorkNeverInTheWay'
    <2>1. UNCHANGED outcome /\ UNCHANGED <<service, file, faulted, meddles>>
        BY <1>9, EventRebuilds DEF place, bounds, history
    <2>2. ASSUME outcome' \in {"refused", "failed"} PROVE Excused'
        <3>1. Excused
            BY <1>0, <2>1, <2>2
        <3> QED BY <1>2, <2>1, <3>1
    <2> QED BY <1>1, <2>2
<1>10. CASE UNCHANGED vars
    <2>1. UNCHANGED outcome /\ UNCHANGED <<service, file, faulted, meddles>>
        BY <1>10 DEF vars, place, system, bounds, history
    <2>2. ASSUME outcome' \in {"refused", "failed"} PROVE Excused'
        <3>1. Excused
            BY <1>0, <2>1, <2>2
        <3> QED BY <1>2, <2>1, <3>1
    <2> QED BY <1>1, <2>2
<1> QED BY <1>4, <1>5, <1>6, <1>7, <1>8, <1>9, <1>10, KindsOfSteps

LEMMA NextDoneIsGone ==
    ASSUME TypeOK, PlaceInv, HandledInv, DoneIsGone, [Next]_vars
    PROVE  DoneIsGone'
<1> DEFINE Away(t) == link[t] # "own" /\ entries[t] = {} /\ service[t] = "inactive" /\ PresentFiles(t) = {}
<1>0. /\ outcome = "done" => \A t \in Selected \ raced : Away(t)
      /\ pc # "idle" => outcome = "none"
    BY DEF DoneIsGone, PlaceInv
<1>1. ASSUME outcome' = "done" => \A t \in Selected \ raced' : Away(t)' PROVE DoneIsGone'
    BY <1>1 DEF DoneIsGone
<1> HIDE DEF Away
<1>2. ASSUME outcome' # "done" PROVE DoneIsGone'
    BY <1>1, <1>2
<1>3. ASSUME UNCHANGED outcome, pc = "idle" => raced' = raced,
             pc = "idle" => \A t \in Selected : Away(t) => Away(t)'
      PROVE  DoneIsGone'
    BY <1>0, <1>1, <1>3
<1>4. CASE BuildDeletePlan \/ NextResource \/ UnlinkFile \/ Kill
    BY <1>0, <1>2, <1>4 DEF BuildDeletePlan, NextResource, UnlinkFile, Kill, Stop
<1>5. CASE CheckPlan \/ Preflight
    BY <1>0, <1>2, <1>5 DEF CheckPlan, Preflight, Stop, Goto
<1>6. CASE TakingStep
    BY <1>0, <1>2, <1>6, TakingGoesOn DEF Stop, Goto, Taking
<1>7. CASE Finish
    <2>1. pc = "next" /\ pending = {} /\ UNCHANGED <<system, raced>>
        BY <1>7 DEF Finish, history
    <2>2. \A t \in Selected \ raced : Gone(t)
        BY <2>1 DEF HandledInv, Handled, Left, Taking
    <2> QED BY <1>1, <2>1, <2>2 DEF Gone, Away, system, PresentFiles
<1>8. ASSUME NEW r \in Selected, Operator(r) PROVE DoneIsGone'
    <2>1. UNCHANGED outcome /\ (pc = "idle" => raced' = raced)
        BY <1>8, OperatorMeddles DEF place
    <2>2. \A t \in Selected : /\ PresentFiles(t)' = PresentFiles(t)
                              /\ entries'[t] \subseteq entries[t]
                              /\ service[t] = "inactive" => service'[t] = "inactive"
                              /\ link'[t] = "own" => link[t] = "own" \/ "iface" \in PresentFiles(t)
        BY <1>8, OperatorMeddles
    <2>3. \A t \in Selected : Away(t) => Away(t)'
        <3> SUFFICES ASSUME NEW t \in Selected, Away(t) PROVE Away(t)'
            OBVIOUS
        <3>1. link[t] # "own" /\ entries[t] = {} /\ service[t] = "inactive" /\ PresentFiles(t) = {}
            BY DEF Away
        <3>2. service'[t] = "inactive" /\ link'[t] # "own"
            BY <2>2, <3>1
        <3>4. entries'[t] \subseteq entries[t]
            BY <2>2
        <3>5. entries'[t] = {}
            BY <3>1, <3>4
        <3>3. PresentFiles(t)' = {}
            BY <2>2, <3>1
        <3> QED BY <3>2, <3>3, <3>5 DEF Away
    <2> QED BY <1>3, <2>1, <2>3
<1>9. ASSUME NEW r \in Selected, XfrmEvent(r) PROVE DoneIsGone'
    <2>1. UNCHANGED <<outcome, raced, link, file, service>>
          /\ \A t \in Selected : entries'[t] = entries[t] \/ link[t] = "own" \/ entries'[t] = {}
        BY <1>9, EventRebuilds DEF place, history
    <2>2. \A t \in Selected : Away(t) => Away(t)'
        BY <2>1 DEF Away, PresentFiles
    <2> QED BY <1>3, <2>1, <2>2
<1>10. CASE UNCHANGED vars
    BY <1>3, <1>10 DEF vars, place, history, system, Away, PresentFiles
<1> QED BY <1>4, <1>5, <1>6, <1>7, <1>8, <1>9, <1>10, KindsOfSteps

-----------------------------------------------------------------------------
(* The theorems.                                                           *)

LEMMA InitDeleteInv ==
    Init => DeleteInv
<1> SUFFICES ASSUME Init PROVE DeleteInv
    OBVIOUS
<1>1. TypeOK
    BY InitTypeOK
<1>2. PlaceInv /\ StageInv /\ HandledInv /\ BatchCheckedFirst /\ OwnWorkNeverInTheWay /\ DoneIsGone
    BY DEF Init, PlaceInv, StageInv, HandledInv, BatchCheckedFirst, OwnWorkNeverInTheWay, DoneIsGone,
           Taking
<1>3. FilesInv
    BY DEF Init, FilesInv, Taking
<1>4. ServiceInv
    <2>1. \A r \in Selected : service[r] # "inactive" => "unit" \in FilesOf(r)
        BY DEF Init, FileName
    <2> QED BY <2>1 DEF Init, ServiceInv, FilesOf
<1>5. AloneInv
    <2>1. \A r \in Selected : link[r] \in {"absent", "own"} /\ conflict[r] = "none"
        BY DEF Init
    <2>2. \A r \in Selected, f \in FileName : file[r][f] \in {"absent", "ours"}
        BY DEF Init
    <2> QED BY <2>1, <2>2 DEF Init, AloneInv
<1>6. ConfigOutlivesRuntime
    BY DEF Init, ConfigOutlivesRuntime
<1> QED BY <1>1, <1>2, <1>3, <1>4, <1>5, <1>6 DEF DeleteInv

\* The inductive invariant.
THEOREM DeleteInvariant == Spec => []DeleteInv
<1>1. DeleteInv /\ [Next]_vars => DeleteInv'
    <2> SUFFICES ASSUME DeleteInv, [Next]_vars PROVE DeleteInv'
        OBVIOUS
    <2>1. /\ TypeOK /\ PlaceInv /\ FilesInv /\ StageInv /\ ServiceInv /\ HandledInv /\ AloneInv
          /\ BatchCheckedFirst /\ ConfigOutlivesRuntime /\ OwnWorkNeverInTheWay /\ DoneIsGone
        BY DEF DeleteInv
    <2>2. TypeOK' /\ PlaceInv' /\ FilesInv' /\ ServiceInv' /\ HandledInv' /\ AloneInv'
        BY <2>1, NextTypeOK, NextPlaceInv, NextFilesInv, NextServiceInv, NextHandledInv, NextAloneInv
    <2>3. StageInv' /\ BatchCheckedFirst' /\ ConfigOutlivesRuntime'
        BY <2>1, <2>2, NextStageInv, NextBatchCheckedFirst, NextConfigOutlivesRuntime
    <2>4. OwnWorkNeverInTheWay' /\ DoneIsGone'
        BY <2>1, NextOwnWork, NextDoneIsGone
    <2> QED BY <2>2, <2>3, <2>4 DEF DeleteInv
<1> QED BY <1>1, InitDeleteInv, PTL DEF Spec

\* Every reachable state of gw delete is well typed; while something is left of the
\* batch a resource can be taken next.
THEOREM DeleteTypeCorrect == Spec => []TypeOK
<1>1. DeleteInv => TypeOK
    BY DEF DeleteInv
<1> QED BY <1>1, DeleteInvariant, PTL

\* Nothing is touched when one member of the batch is unfit as the uninstall begins.
THEOREM BatchIsCheckedFirst == Spec => []BatchCheckedFirst
<1>1. DeleteInv => BatchCheckedFirst
    BY DEF DeleteInv
<1> QED BY <1>1, DeleteInvariant, PTL

\* A link or an entry that is left has its configuration, wherever gw delete failed
\* or was killed, so that a later run can finish the work.
THEOREM ConfigOutlivesItsRuntime == Spec => []ConfigOutlivesRuntime
<1>1. DeleteInv => ConfigOutlivesRuntime
    BY DEF DeleteInv
<1> QED BY <1>1, DeleteInvariant, PTL

\* Nothing that gw delete itself leaves behind makes a later run refuse or fail.
THEOREM OwnWorkIsNoObstacle == Spec => []OwnWorkNeverInTheWay
<1>1. DeleteInv => OwnWorkNeverInTheWay
    BY DEF DeleteInv
<1> QED BY <1>1, DeleteInvariant, PTL

\* After a success nothing of the batch is left, and no queued event brings it back.
THEOREM SuccessMeansGone == Spec => []DoneIsGone
<1>1. DeleteInv => DoneIsGone
    BY DEF DeleteInv
<1> QED BY <1>1, DeleteInvariant, PTL

\* Only an edit between the last look at a file and its removal is lost.
THEOREM EditsAreKept == Spec => EditedFileKept
<1>1. ASSUME DeleteInv, [Next]_vars
      PROVE  [\A r \in Selected, f \in FileName :
                 file[r][f] = "edited" /\ file'[r][f] = "absent" => late]_vars
    <2> SUFFICES ASSUME NEW r \in Selected, NEW f \in FileName,
                        file[r][f] = "edited", file'[r][f] = "absent"
                 PROVE  late
        OBVIOUS
    <2>1. TypeOK /\ PlaceInv /\ FilesInv
        BY <1>1 DEF DeleteInv
    <2>2. ~UNCHANGED file
        OBVIOUS
    <2>3. CASE UnlinkFile
        <3>1. r = cur /\ f = FirstFile(todo)
            BY <2>1, <2>3, UnlinkRemoves
        <3>2. pc = "unlink"
            BY <2>3 DEF UnlinkFile
        <3> QED BY <2>1, <3>1, <3>2 DEF FilesInv
    <2>4. ASSUME NEW t \in Selected, Operator(t) PROVE FALSE
        <3>1. PresentFiles(r)' = PresentFiles(r)
            BY <2>1, <2>4, OperatorMeddles
        <3> QED BY <3>1 DEF PresentFiles
    <2>5. CASE BuildDeletePlan \/ CheckPlan \/ Preflight \/ NextResource \/ Finish \/ Kill
        BY <2>2, <2>5 DEF BuildDeletePlan, CheckPlan, Preflight, NextResource, Finish, Kill, system
    <2>6. CASE TakingStep
        BY <2>2, <2>6, TakingGoesOn
    <2>7. ASSUME NEW t \in Selected, XfrmEvent(t) PROVE FALSE
        BY <2>1, <2>2, <2>7, EventRebuilds
    <2>8. CASE UNCHANGED vars
        BY <2>2, <2>8 DEF vars, system
    <2> QED BY <1>1, <2>3, <2>4, <2>5, <2>6, <2>7, <2>8, KindsOfSteps
<1> QED BY <1>1, DeleteInvariant, PTL DEF Spec, EditedFileKept
=============================================================================
