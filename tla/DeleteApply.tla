----------------------------- MODULE DeleteApply -----------------------------
(***************************************************************************)
(* gw delete <interfaces> --apply (src/dros/delete.py, xfrm_delete.py):    *)
(* plan the uninstall of a set of virtual interfaces and of the exclusive  *)
(* XfrmTransports of the GRE tunnels among them, check the whole batch,    *)
(* then take the resources down one command at a time, dependents first,   *)
(* and stop at the first error without a rollback. The command is run      *)
(* again after errors and kills; meanwhile an operator edits files, brings *)
(* links up and adds links and XFRM entries of his own.                    *)
(***************************************************************************)
EXTENDS Naturals

CONSTANTS
    Selected,        \* the Interface objects the target names
    Tunnels,         \* those that are GRE with an exclusive XfrmTransport
    Needs,           \* pairs <<r, p>>: r refers to p (a VLAN to its bridge)
    NoOne,
    MaxRuns,         \* bound: gw delete --apply runs
    MaxFaults,       \* bound: failing commands and kills of gw
    MaxMeddles       \* bound: operator actions

ASSUME DeleteAssumption ==
    /\ Tunnels \subseteq Selected /\ Needs \subseteq Selected \X Selected
    /\ NoOne \notin Selected
    /\ MaxRuns \in Nat /\ MaxFaults \in Nat /\ MaxMeddles \in Nat

\* _ordered_selection refuses a batch whose references form a cycle before
\* anything is planned: among any of its members one is needed by no other.
ASSUME AcyclicAssumption ==
    \A left \in (SUBSET Selected) \ {{}} :
        \E r \in left : \A n \in Needs : n[2] = r => n[1] \notin left

VARIABLES
    link,            \* per resource: absent, own, foreign (another type or endpoints)
    file,            \* per resource and managed file: absent, ours, edited
    entries,         \* per resource: the policies and states of its transport
    service,         \* per resource: its historical unit is inactive, active, failed
    conflict,        \* per resource: none, attached, sharing, alien (see Blocked)
    pc, cur,         \* position in apply_delete_plan, resource at work
    pending, wave,   \* resources not yet taken, those of them taken next
    plan,            \* per resource: the files of its ResourceRemoval
    todo,            \* files of cur still to be removed
    outcome,         \* of the last run: none, refused, failed, killed, done
    runs, faults, meddles,
    touched,         \* history: resources this run has changed
    unfit,           \* history: this run's batch did not pass when apply began
    faulted,         \* history: a command of this run failed
    raced,           \* history: resources meddled with during a run
    late             \* history: a file was edited after its last verification

system == <<link, file, entries, service>>
place == <<pc, cur, pending, wave, plan, todo, outcome>>
bounds == <<runs, faults, meddles>>
history == <<touched, unfit, faulted, raced, late>>
vars == <<system, conflict, place, bounds, history>>

Entry == {"policy", "state"}
Service == {"inactive", "active", "failed"}
FileName == {"unit", "iface", "conf"}

\* ResourceRemoval.files, and the one that is removed first: the unit goes before
\* the interfaces.d file, the WireGuard configuration after it.
FilesOf(r) == IF r \in Tunnels THEN {"unit", "iface"} ELSE {"iface", "conf"}
FirstFile(files) ==
    IF "unit" \in files THEN "unit" ELSE IF "iface" \in files THEN "iface" ELSE "conf"

Init ==
    /\ link \in [Selected -> {"absent", "own"}]
    /\ \A n \in Needs : link[n[1]] = "own" => link[n[2]] = "own"
    /\ file \in [Selected -> [FileName -> {"absent", "ours"}]]
    /\ \A r \in Selected, f \in FileName :
         file[r][f] = "ours" => f \in FilesOf(r)
    /\ \A r \in Selected \ Tunnels : file[r]["conf"] = file[r]["iface"]
    /\ \A r \in Selected : link[r] = "own" => file[r]["iface"] = "ours"
    /\ service \in [Selected -> Service]
    /\ \A r \in Selected : service[r] # "inactive" => file[r]["unit"] = "ours"
    /\ \A r \in Selected : service[r] = "active" => file[r]["iface"] = "ours"
    /\ entries = [r \in Selected |-> IF r \in Tunnels /\ (link[r] = "own" \/ service[r] = "active")
                                    THEN Entry ELSE {}]
    /\ conflict = [r \in Selected |-> "none"]
    /\ pc = "idle" /\ cur = NoOne /\ pending = {} /\ wave = {}
    /\ plan = [r \in Selected |-> {}] /\ todo = {} /\ outcome = "none"
    /\ runs = 0 /\ faults = 0 /\ meddles = 0
    /\ touched = {} /\ unfit = FALSE /\ faulted = FALSE /\ raced = {} /\ late = FALSE

-----------------------------------------------------------------------------
(* The checks. *)

\* _check_xfrm_runtime_sharing and _check_runtime raise: another GRE has the
\* endpoints, or the link is there and is of another type, has no installed
\* configuration, or carries a link outside sel.
Blocked(r, sel) ==
    \/ r \in Tunnels /\ conflict[r] = "sharing"
    \/ /\ link[r] # "absent"
       /\ \/ link[r] = "foreign"
          \/ "iface" \notin plan[r]
          \/ conflict[r] = "attached"
          \/ \E n \in Needs : n[2] = r /\ n[1] \notin sel /\ link[n[1]] = "own"

\* inspect_service: a historical unit must have been stopped, and be unknown to
\* systemd when its file is missing (an inactive one is forgotten at once).
\* inspect_xfrm: entries with the identities of the transport are its own.
InspectPasses(r) ==
    r \in Tunnels =>
        /\ service[r] \in IF "unit" \in plan[r] THEN {"inactive", "failed"} ELSE {"inactive"}
        /\ conflict[r] # "alien"

\* verify: the file is as it was when the plan was made.
Verified(r, f) == file[r][f] = "ours"

Unfit(r) == (\E f \in plan[r] : ~Verified(r, f)) \/ ~InspectPasses(r)

\* Slip: the selection is taken as it comes.
ReadyInAnyOrder(left) == left

\* Slip: the parents of the whole selection wait for ever.
ReadyOnce(left) == Selected \ {n[2] : n \in Needs}

\* _ordered_selection: dependents before parents, wave by wave.
Ready(left) == left \ {n[2] : n \in {m \in Needs : m[1] \in left}}

-----------------------------------------------------------------------------
(* build_delete_plan and the checks of the batch. *)

Stop(how) ==
    /\ pc' = "idle" /\ outcome' = how
    /\ cur' = NoOne /\ pending' = {} /\ wave' = {}
    /\ plan' = [r \in Selected |-> {}] /\ todo' = {}

Goto(label) == pc' = label /\ UNCHANGED <<cur, pending, wave, plan, todo, outcome>>

PresentFiles(r) == {f \in FileName : file[r][f] # "absent"}

BuildDeletePlan ==
    /\ pc = "idle"
    /\ runs < MaxRuns
    /\ runs' = runs + 1
    /\ plan' = [r \in Selected |-> PresentFiles(r)]
    /\ pc' = "plan" /\ pending' = Selected /\ wave' = Ready(Selected)
    /\ outcome' = "none"
    /\ touched' = {} /\ unfit' = FALSE /\ faulted' = FALSE
    /\ UNCHANGED <<system, conflict, cur, todo, faults, meddles, raced, late>>

CheckPlan ==
    /\ pc = "plan"
    /\ IF \E r \in Selected : Unfit(r) \/ Blocked(r, Selected)
         THEN Stop("refused") ELSE Goto("preflight")
    /\ UNCHANGED <<system, conflict, bounds, history>>

\* Slip: only the resources taken first are checked up front.
PreflightFirstWave ==
    /\ pc = "preflight"
    /\ unfit' = \E r \in Selected : Unfit(r)
    /\ IF \E r \in wave : Unfit(r) THEN Stop("refused") ELSE Goto("next")
    /\ UNCHANGED <<system, conflict, bounds, touched, faulted, raced, late>>

\* apply_delete_plan verifies every file and every transport of the batch.
Preflight ==
    /\ pc = "preflight"
    /\ unfit' = \E r \in Selected : Unfit(r)
    /\ IF \E r \in Selected : Unfit(r) THEN Stop("refused") ELSE Goto("next")
    /\ UNCHANGED <<system, conflict, bounds, touched, faulted, raced, late>>

-----------------------------------------------------------------------------
(* apply_delete_plan, one resource after the other. *)

NextResource ==
    /\ pc = "next" /\ pending # {}
    /\ \E r \in wave :
         /\ cur' = r
         /\ pending' = pending \ {r}
         /\ wave' = IF wave = {r} THEN Ready(pending \ {r}) ELSE wave \ {r}
         /\ todo' = plan[r]
    /\ pc' = "check"
    /\ UNCHANGED <<system, conflict, plan, outcome, bounds, history>>

CheckRuntime(onPresent, onAbsent) ==
    /\ IF Blocked(cur, {cur}) THEN Stop("failed")
       ELSE IF link[cur] # "absent" THEN Goto(onPresent)
       ELSE Goto(onAbsent)
    /\ UNCHANGED <<system, conflict, bounds, history>>

Check == pc = "check" /\ CheckRuntime("ifdown", "unit")

\* A command of the current resource that fails, whatever it did before.
CommandFails ==
    /\ faults < MaxFaults
    /\ faults' = faults + 1
    /\ faulted' = TRUE
    /\ Stop("failed")
    /\ UNCHANGED <<runs, meddles, unfit, raced, late>>

CommandSucceeds(label) ==
    Goto(label) /\ UNCHANGED <<bounds, unfit, faulted, raced, late>>

\* ifdown --force: the post-down line that deletes the link ignores its errors.
Ifdown ==
    /\ pc = "ifdown"
    /\ link' \in {link, [link EXCEPT ![cur] = "absent"]}
    /\ touched' = touched \cup {cur}
    /\ CommandSucceeds("recheck") \/ CommandFails
    /\ UNCHANGED <<file, entries, service, conflict>>

\* Slip: ifdown said it worked.
RecheckSkipped ==
    /\ pc = "recheck"
    /\ Goto("unit")
    /\ UNCHANGED <<system, conflict, bounds, history>>

Recheck == pc = "recheck" /\ CheckRuntime("linkdel", "gone")

LinkDelete ==
    /\ pc = "linkdel"
    /\ \/ link' = [link EXCEPT ![cur] = "absent"] /\ CommandSucceeds("gone")
       \/ link' = link /\ CommandFails
    /\ touched' = touched \cup {cur}
    /\ UNCHANGED <<file, entries, service, conflict>>

VerifyGone ==
    /\ pc = "gone"
    /\ IF link[cur] # "absent" THEN Stop("failed") ELSE Goto("unit")
    /\ UNCHANGED <<system, conflict, bounds, history>>

\* systemctl disable --now of the historical unit, and its verification.
DisableUnit ==
    /\ pc = "unit"
    /\ IF "unit" \in plan[cur]
         THEN /\ touched' = touched \cup {cur}
              /\ CommandSucceeds("inspect") \/ CommandFails
         ELSE /\ Goto(IF cur \in Tunnels THEN "inspect" ELSE "files")
              /\ UNCHANGED <<bounds, history>>
    /\ UNCHANGED <<system, conflict>>

\* uninstall_xfrm: policies, then states, then a second look.
InspectXfrm(label) ==
    /\ IF conflict[cur] = "alien" \/ (label = "files" /\ entries[cur] # {})
         THEN Stop("failed") ELSE Goto(label)
    /\ UNCHANGED <<system, conflict, bounds, history>>

Inspect == pc = "inspect" /\ InspectXfrm("entries")

\* Slip: the entries are left to the xfrm-stop event ifdown has queued.
ReinspectForgiving ==
    /\ pc = "entries" /\ Goto("files")
    /\ UNCHANGED <<system, conflict, bounds, history>>

Reinspect == pc = "entries" /\ entries[cur] = {} /\ InspectXfrm("files")

DeleteEntry ==
    /\ pc = "entries"
    /\ \E e \in entries[cur] :
         /\ e = "state" => "policy" \notin entries[cur]
         /\ \/ entries' = [entries EXCEPT ![cur] = @ \ {e}] /\ CommandSucceeds("entries")
            \/ entries' = entries /\ CommandFails
    /\ touched' = touched \cup {cur}
    /\ UNCHANGED <<link, file, service, conflict>>

\* Slip: the check of the batch is thought to be enough.
VerifyFileOnce ==
    /\ pc = "files" /\ todo # {}
    /\ late' = FALSE
    /\ Goto("unlink")
    /\ UNCHANGED <<system, conflict, bounds, touched, unfit, faulted, raced>>

VerifyFile ==
    /\ pc = "files" /\ todo # {}
    /\ late' = FALSE
    /\ IF Verified(cur, FirstFile(todo)) THEN Goto("unlink") ELSE Stop("failed")
    /\ UNCHANGED <<system, conflict, bounds, touched, unfit, faulted, raced>>

UnlinkFile ==
    /\ pc = "unlink"
    /\ file' = [file EXCEPT ![cur][FirstFile(todo)] = "absent"]
    /\ todo' = todo \ {FirstFile(todo)}
    /\ pc' = "files"
    /\ touched' = touched \cup {cur}
    /\ UNCHANGED <<link, entries, service, conflict, cur, pending, wave, plan, outcome, bounds,
                   unfit, faulted, raced, late>>

\* systemctl daemon-reload forgets a unit whose file is gone.
DaemonReload ==
    /\ pc = "files" /\ todo = {}
    /\ IF "unit" \in plan[cur]
         THEN \/ service' = [service EXCEPT ![cur] = "inactive"] /\ CommandSucceeds("next")
              \/ service' = service /\ CommandFails
         ELSE Goto("next") /\ UNCHANGED <<service, bounds, unfit, faulted, raced, late>>
    /\ UNCHANGED <<link, file, entries, conflict, touched>>

Finish ==
    /\ pc = "next" /\ pending = {}
    /\ Stop("done")
    /\ UNCHANGED <<system, conflict, bounds, history>>

\* Ctrl-C or a lost terminal.
Kill ==
    /\ pc # "idle"
    /\ faults < MaxFaults
    /\ faults' = faults + 1
    /\ Stop("killed")
    /\ UNCHANGED <<system, conflict, runs, meddles, history>>

-----------------------------------------------------------------------------
(* Around it: the operator, who needs no lock, and drosd, which does.      *)

Meddle(r) ==
    /\ meddles < MaxMeddles
    /\ meddles' = meddles + 1
    /\ raced' = IF pc = "idle" THEN raced ELSE raced \cup {r}
    /\ UNCHANGED <<place, runs, faults, touched, unfit, faulted>>

EditFile(r, f) ==
    /\ file[r][f] # "absent"
    /\ file' = [file EXCEPT ![r][f] = IF @ = "ours" THEN "edited" ELSE "ours"]
    /\ late' = (late \/ (pc = "unlink" /\ cur = r /\ FirstFile(todo) = f))
    /\ Meddle(r)
    /\ UNCHANGED <<link, entries, service, conflict>>

\* ifup needs the installed configuration and the parent.
Ifup(r) ==
    /\ link[r] = "absent" /\ file[r]["iface"] # "absent"
    /\ \A n \in Needs : n[1] = r => link[n[2]] = "own"
    /\ link' = [link EXCEPT ![r] = "own"]
    /\ Meddle(r)
    /\ UNCHANGED <<file, entries, service, conflict, late>>

ForeignLink(r) ==
    /\ link[r] \in {"absent", "foreign"}
    /\ link' = [link EXCEPT ![r] = IF @ = "absent" THEN "foreign" ELSE "absent"]
    /\ Meddle(r)
    /\ UNCHANGED <<file, entries, service, conflict, late>>

Conflict(r) ==
    /\ conflict' \in {[conflict EXCEPT ![r] = c] : c \in {"none", "attached", "sharing", "alien"}}
    /\ conflict' # conflict
    /\ Meddle(r)
    /\ UNCHANGED <<system, late>>

\* systemctl stop: the ExecStop gw stop wants the apply lock.
StopUnit(r) ==
    /\ service[r] = "active"
    /\ IF pc = "idle"
         THEN service' = [service EXCEPT ![r] = "inactive"] /\ entries' = [entries EXCEPT ![r] = {}]
         ELSE service' = [service EXCEPT ![r] = "failed"] /\ UNCHANGED entries
    /\ Meddle(r)
    /\ UNCHANGED <<link, file, conflict, late>>

\* Queued xfrm-start and xfrm-stop events, old or new (see XfrmLifecycle).
XfrmEvent(r) ==
    /\ pc = "idle" /\ r \in Tunnels /\ link[r] # "foreign"
    /\ entries' = [entries EXCEPT ![r] = IF link[r] = "own" THEN Entry ELSE {}]
    /\ UNCHANGED <<link, file, service, conflict, place, bounds, history>>

Delete ==
    \/ BuildDeletePlan \/ CheckPlan \/ Preflight
    \/ NextResource \/ Check \/ Ifdown \/ Recheck \/ LinkDelete \/ VerifyGone
    \/ DisableUnit \/ Inspect \/ DeleteEntry \/ Reinspect
    \/ VerifyFile \/ UnlinkFile \/ DaemonReload \/ Finish

Operator(r) ==
    \/ \E f \in FileName : EditFile(r, f)
    \/ Ifup(r) \/ ForeignLink(r) \/ Conflict(r) \/ StopUnit(r)

Next ==
    \/ Delete \/ Kill
    \/ \E r \in Selected : Operator(r) \/ XfrmEvent(r)

Spec == Init /\ [][Next]_vars

-----------------------------------------------------------------------------
(* Properties *)

TypeOK ==
    /\ link \in [Selected -> {"absent", "own", "foreign"}]
    /\ file \in [Selected -> [FileName -> {"absent", "ours", "edited"}]]
    /\ entries \in [Selected -> SUBSET Entry] /\ \A r \in Selected \ Tunnels : entries[r] = {}
    /\ service \in [Selected -> Service]
    /\ conflict \in [Selected -> {"none", "attached", "sharing", "alien"}]
    /\ pc \in {"idle", "plan", "preflight", "next", "check", "ifdown", "recheck", "linkdel",
               "gone", "unit", "inspect", "entries", "files", "unlink"}
    /\ cur \in Selected \cup {NoOne}
    /\ pending \in SUBSET Selected /\ wave \in SUBSET pending
    /\ pending # {} => wave # {}
    /\ plan \in [Selected -> SUBSET FileName] /\ todo \in SUBSET FileName
    /\ outcome \in {"none", "refused", "failed", "killed", "done"}
    /\ runs \in 0..MaxRuns /\ faults \in 0..MaxFaults /\ meddles \in 0..MaxMeddles
    /\ touched \in SUBSET Selected /\ raced \in SUBSET Selected
    /\ {unfit, faulted, late} \subseteq BOOLEAN

\* When one member of the batch was unfit as the uninstall began, no member has
\* been touched (tests/test_delete_xfrm.py:367).
BatchCheckedFirst == touched # {} => ~unfit

\* As long as the link or the kernel entries of a resource are there, so is the
\* configuration that proves they are its own, whatever command failed and
\* wherever gw was killed: a later run can finish the work. Only an operator who
\* brings the link up while gw delete runs escapes this.
ConfigOutlivesRuntime ==
    \A r \in Selected \ raced :
        link[r] = "own" \/ entries[r] # {} => file[r]["iface"] # "absent"

\* Left to itself gw delete succeeds, also after earlier runs that failed or
\* were killed at any command: nothing it leaves behind makes it refuse, and its
\* order never makes a parent wait for a member of the batch. The exceptions are
\* an active historical unit, which the operator must stop, and a failed one whose
\* file is gone and which systemd still knows.
OwnWorkNeverInTheWay ==
    outcome \in {"refused", "failed"} =>
        \/ faulted \/ meddles > 0
        \/ \E r \in Selected : service[r] = "active"
        \/ \E r \in Selected : service[r] = "failed" /\ file[r]["unit"] = "absent"

\* After a success nothing of the batch is left and queued events bring nothing
\* back, unless an operator was at work on it at the same time.
DoneIsGone ==
    outcome = "done" =>
        \A r \in Selected \ raced :
            link[r] # "own" /\ entries[r] = {} /\ service[r] = "inactive" /\ PresentFiles(r) = {}

\* A file that was edited is not removed, except by an edit between its last
\* verification and the unlink.
EditedFileKept ==
    [][\A r \in Selected, f \in FileName :
         file[r][f] = "edited" /\ file'[r][f] = "absent" => late]_vars

\* "A command error stops the remaining work and preserves that resource's
\* configuration" (docs/delete.md).
CommandErrorKeepsConfig ==
    [][faults' > faults /\ outcome' = "failed" =>
         \A f \in plan[cur] : file'[cur][f] # "absent"]_vars
=============================================================================
