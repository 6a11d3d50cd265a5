--------------------------- MODULE XfrmSystemUnit ---------------------------
(***************************************************************************)
(* An XfrmTransport with activation: system (src/dros/plugins/             *)
(* network_xfrm.py): gw update writes dros-xfrm-<name>.service and runs    *)
(* systemctl under the apply lock; the unit's ExecStart and ExecStop are   *)
(* gw start and gw stop, which want the same lock (src/dros/cli/main.py).  *)
(* systemd (a oneshot unit with RemainAfterExit, no Restart) is external.  *)
(***************************************************************************)
EXTENDS Naturals

CONSTANTS
    MaxEdits,        \* bound: edits of the YAML
    MaxUpdates,      \* bound: gw update runs
    MaxBoots,        \* bound: reboots
    MaxEvents,       \* bound: event batches handled by drosd
    MaxFaults        \* bound: systemctl commands that fail by themselves

VARIABLES
    activation, enabled,     \* the source YAML
    unitFile,                \* dros-xfrm-<name>.service exists
    unitEnabled,             \* systemd starts it at boot
    service,                 \* inactive, starting, active, stopping, failed
    lock,                    \* holder of gw-apply.lock: free, update, drosd
    updPc,                   \* where update() is; idle between gw updates
    changed,                 \* service_changed of _update_system_xfrm
    installed,               \* the transport's states and policies are in the kernel
    edits, updates, boots, events, faults

config == <<activation, enabled>>
unit == <<unitFile, unitEnabled>>
counters == <<edits, updates, boots, events, faults>>
vars == <<config, unit, service, lock, updPc, changed, installed, counters>>

Init ==
    /\ activation \in {"system", "manual"} /\ enabled \in BOOLEAN
    /\ unitFile = FALSE /\ unitEnabled = FALSE /\ service = "inactive"
    /\ lock = "free" /\ updPc = "idle" /\ changed = FALSE /\ installed = FALSE
    /\ edits = 0 /\ updates = 0 /\ boots = 0 /\ events = 0 /\ faults = 0

EditConfig ==
    /\ updPc = "idle"
    /\ edits < MaxEdits
    /\ edits' = edits + 1
    /\ activation' \in {"system", "manual"} /\ enabled' \in BOOLEAN
    /\ UNCHANGED <<unit, service, lock, updPc, changed, installed, updates, boots, events, faults>>

-----------------------------------------------------------------------------
(* gw update xfrm/<name>: update, _update_system_xfrm, _remove_system_xfrm. *)

\* The step after _remove_system_xfrm: stop_xfrm unless it is enabled.
\* Slip: the states of a disabled transport are left to the unit's ExecStop.
AfterRemoveDone == "ok"
AfterRemove == IF enabled THEN "ok" ELSE "stop"

UpdateBegin ==
    /\ updPc = "idle" /\ lock = "free"
    /\ updates < MaxUpdates
    /\ updates' = updates + 1
    /\ lock' = "update"
    /\ updPc' = IF activation = "system" /\ enabled THEN "write"
                ELSE IF unitFile THEN "disable"
                ELSE AfterRemove
    /\ UNCHANGED <<config, unit, service, changed, installed, edits, boots, events, faults>>

\* write_file, and daemon-reload when the file changed.
UpdateWriteUnit ==
    /\ updPc = "write"
    /\ changed' = ~unitFile
    /\ unitFile' = TRUE
    /\ \/ updPc' = "enable" /\ UNCHANGED faults
       \/ ~unitFile /\ faults < MaxFaults /\ faults' = faults + 1 /\ updPc' = "failed"
    /\ UNCHANGED <<config, unitEnabled, service, lock, installed, edits, updates, boots, events>>

\* systemctl enable --now, which waits for the start job.
UpdateEnableNow ==
    /\ updPc = "enable"
    /\ unitEnabled' = TRUE
    /\ service' = IF service = "active" THEN "active" ELSE "starting"
    /\ updPc' = "enabling"
    /\ UNCHANGED <<config, unitFile, lock, changed, installed, counters>>

UpdateEnabled ==
    /\ updPc = "enabling" /\ service \in {"active", "failed"}
    /\ updPc' = IF service = "failed" THEN "failed" ELSE IF changed THEN "restart" ELSE "ok"
    /\ UNCHANGED <<config, unit, service, lock, changed, installed, counters>>

\* systemctl restart runs ExecStop and ExecStart, both as below.
UpdateRestart ==
    /\ updPc = "restart"
    /\ service' = "failed"
    /\ updPc' = "failed"
    /\ UNCHANGED <<config, unit, lock, changed, installed, counters>>

\* systemctl disable --now, whose failure is ignored.
UpdateDisable ==
    /\ updPc = "disable"
    /\ \/ /\ unitEnabled' = FALSE
          /\ service' = IF service = "active" THEN "stopping" ELSE service
          /\ updPc' = "disabling" /\ UNCHANGED faults
       \/ /\ faults < MaxFaults /\ faults' = faults + 1
          /\ updPc' = "unlink" /\ UNCHANGED <<unitEnabled, service>>
    /\ UNCHANGED <<config, unitFile, lock, changed, installed, edits, updates, boots, events>>

UpdateDisabled ==
    /\ updPc = "disabling" /\ service \in {"inactive", "failed"}
    /\ updPc' = "unlink"
    /\ UNCHANGED <<config, unit, service, lock, changed, installed, counters>>

\* delete_file, and daemon-reload when there was a file.
UpdateUnlink ==
    /\ updPc = "unlink"
    /\ unitFile' = FALSE
    /\ \/ updPc' = AfterRemove /\ UNCHANGED faults
       \/ unitFile /\ faults < MaxFaults /\ faults' = faults + 1 /\ updPc' = "failed"
    /\ UNCHANGED <<config, unitEnabled, service, lock, changed, installed, edits, updates, boots,
                   events>>

UpdateStop ==
    /\ updPc = "stop"
    /\ installed' = FALSE
    /\ updPc' = "ok"
    /\ UNCHANGED <<config, unit, service, lock, changed, counters>>

UpdateEnd ==
    /\ updPc \in {"ok", "failed"}
    /\ updPc' = "idle" /\ lock' = "free"
    /\ UNCHANGED <<config, unit, service, changed, installed, counters>>

-----------------------------------------------------------------------------
(* The unit: gw start and gw stop take the apply lock without waiting.     *)

\* Slip: gw start waits for the lock.
ServiceStartWaits ==
    /\ service = "starting" /\ lock = "free"
    /\ service' = "active" /\ installed' = TRUE
    /\ UNCHANGED <<config, unit, lock, updPc, changed, counters>>

ServiceStart ==
    /\ service = "starting"
    /\ IF lock = "free"
         THEN service' = "active" /\ installed' = TRUE
         ELSE service' = "failed" /\ UNCHANGED installed
    /\ UNCHANGED <<config, unit, lock, updPc, changed, counters>>

ServiceStop ==
    /\ service = "stopping"
    /\ IF lock = "free"
         THEN service' = "inactive" /\ installed' = FALSE
         ELSE service' = "failed" /\ UNCHANGED installed
    /\ UNCHANGED <<config, unit, lock, updPc, changed, counters>>

-----------------------------------------------------------------------------
(* Around it: a reboot, an operator with systemctl, drosd.                 *)

Boot ==
    /\ boots < MaxBoots
    /\ boots' = boots + 1
    /\ installed' = FALSE /\ lock' = "free" /\ updPc' = "idle"
    /\ service' = IF unitFile /\ unitEnabled THEN "starting" ELSE "inactive"
    /\ UNCHANGED <<config, unit, changed, edits, updates, events, faults>>

SystemctlStart ==
    /\ unitFile /\ service \in {"inactive", "failed"} /\ updPc = "idle"
    /\ service' = "starting"
    /\ UNCHANGED <<config, unit, lock, updPc, changed, installed, counters>>

SystemctlStop ==
    /\ service = "active" /\ updPc = "idle"
    /\ service' = "stopping"
    /\ UNCHANGED <<config, unit, lock, updPc, changed, installed, counters>>

DrosdLock ==
    /\ lock = "free" /\ events < MaxEvents
    /\ events' = events + 1
    /\ lock' = "drosd"
    /\ UNCHANGED <<config, unit, service, updPc, changed, installed, edits, updates, boots, faults>>

DrosdUnlock ==
    /\ lock = "drosd"
    /\ lock' = "free"
    /\ UNCHANGED <<config, unit, service, updPc, changed, installed, counters>>

Update ==
    \/ UpdateBegin \/ UpdateWriteUnit \/ UpdateEnableNow \/ UpdateEnabled \/ UpdateRestart
    \/ UpdateDisable \/ UpdateDisabled \/ UpdateUnlink \/ UpdateStop \/ UpdateEnd

Next ==
    \/ EditConfig \/ Update
    \/ ServiceStart \/ ServiceStop
    \/ Boot \/ SystemctlStart \/ SystemctlStop
    \/ DrosdLock \/ DrosdUnlock

Spec == Init /\ [][Next]_vars

\* A gw update that began goes on, systemd runs its jobs, drosd ends its batch.
FairSpec ==
    Spec /\ WF_vars(Update /\ updPc # "idle") /\ WF_vars(ServiceStart \/ ServiceStop)
         /\ WF_vars(DrosdUnlock)

-----------------------------------------------------------------------------
(* Properties *)

TypeOK ==
    /\ activation \in {"system", "manual"} /\ enabled \in BOOLEAN
    /\ unitFile \in BOOLEAN /\ unitEnabled \in BOOLEAN
    /\ service \in {"inactive", "starting", "active", "stopping", "failed"}
    /\ lock \in {"free", "update", "drosd"}
    /\ updPc \in {"idle", "write", "enable", "enabling", "restart", "disable", "disabling",
                  "unlink", "stop", "ok", "failed"}
    /\ changed \in BOOLEAN /\ installed \in BOOLEAN
    /\ edits \in 0..MaxEdits /\ updates \in 0..MaxUpdates /\ boots \in 0..MaxBoots
    /\ events \in 0..MaxEvents /\ faults \in 0..MaxFaults

\* The update of a disabled transport that ends without an error leaves neither
\* a unit file nor states and policies, although the ExecStop it triggers finds
\* the lock taken by the update itself (docs/config-objects/XfrmTransport.md, spec.enabled).
DisabledIsClean == updPc = "ok" /\ ~enabled => ~installed /\ ~unitFile

\* An update and the unit's commands never wait for each other: the update holds
\* the lock while systemctl waits for gw start, so gw start must not wait.
UpdateEnds == updPc # "idle" ~> updPc = "idle"

\* "executes systemctl enable --now" (docs/config-objects/XfrmTransport.md, activation:
\* system): an update fails only when systemctl itself does.
UpdateSucceeds == updPc = "failed" => faults > 0
=============================================================================
