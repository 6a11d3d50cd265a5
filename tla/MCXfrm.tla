------------------------------- MODULE MCXfrm -------------------------------
(* A transport in one of its two lives: brought up by the hooks of the      *)
(* interfaces that use it (XfrmLifecycle), or by its systemd unit           *)
(* (XfrmSystemUnit).  Which one is chosen at the start; the variables of    *)
(* the other one rest.                                                      *)
EXTENDS XfrmLifecycle

CONSTANTS MaxEdits, MaxUpdates, MaxBoots, MaxEvents

ASSUME UnitBoundsAssumption ==
    MaxEdits \in Nat /\ MaxUpdates \in Nat /\ MaxBoots \in Nat /\ MaxEvents \in Nat

VARIABLES life, activation, enabled, unitFile, unitEnabled, service, updPc, changed,
          unitInstalled, edits, updates, boots, events

Unit == INSTANCE XfrmSystemUnit WITH installed <- unitInstalled

Unused == "unused"
hookOnly == <<linkVars, batchVars, script, installed, by, failed, manuals, crashes>>
unitOnly == <<activation, enabled, unitFile, unitEnabled, service, updPc, changed,
              unitInstalled, edits, updates, boots, events>>
all == <<life, hookOnly, unitOnly, lock, faults>>

HookInit ==
    /\ life = "hooks" /\ Init
    /\ activation = Unused /\ enabled = Unused /\ unitFile = Unused /\ unitEnabled = Unused
    /\ service = Unused /\ updPc = Unused /\ changed = Unused
    /\ unitInstalled = Unused /\ edits = Unused /\ updates = Unused /\ boots = Unused /\ events = Unused
UnitInit ==
    /\ life = "unit" /\ Unit!Init
    /\ link = Unused /\ ifPc = [i \in Ifaces |-> "down"] /\ ifOps = Unused /\ installed = {}
    /\ queue = Unused /\ taken = Unused /\ todo = Unused
    /\ script = Unused /\ by = Unused /\ failed = FALSE
    /\ manuals = Unused /\ crashes = Unused

Hook(action) == life = "hooks" /\ action /\ UNCHANGED <<life, unitOnly>>
Service(action) == life = "unit" /\ action /\ UNCHANGED <<life, hookOnly>>

XfrmSpec ==
    /\ HookInit \/ UnitInit
    /\ [][Hook(Next) \/ Service(Unit!Next)]_all
    /\ WF_all(Hook(Drosd)) /\ WF_all(Hook(RunCommand)) /\ WF_all(Hook(GwDone))
    /\ \A i \in Ifaces : WF_all(Hook(IfUpHook(i))) /\ WF_all(Hook(IfDownHook(i)))
    /\ WF_all(Service(Unit!Update /\ updPc # "idle"))
    /\ WF_all(Service(Unit!ServiceStart \/ Unit!ServiceStop))
    /\ WF_all(Service(Unit!DrosdUnlock))

\* Both lives keep the types of their variables.
XfrmTypeOK == IF life = "hooks" THEN TypeOK ELSE Unit!TypeOK

\* The properties of XfrmLifecycle: no policy without its state, a settled system is
\* consistent with its links, and an interface that comes up gets its transport.
HookPolicyHasState == life = "hooks" => PolicyHasState
HookSettledIsConsistent == life = "hooks" => SettledIsConsistent
HookUpIsProtected == life = "hooks" => UpIsProtected

\* The properties of XfrmSystemUnit: a disabled transport leaves nothing behind, and
\* an update ends although the unit's commands want its lock.
UnitDisabledIsClean == life = "unit" => Unit!DisabledIsClean
UnitUpdateEnds == life = "unit" => Unit!UpdateEnds
=============================================================================
