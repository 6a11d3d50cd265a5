------------------------------ MODULE MCUpdate ------------------------------
(* gw update seen from two sides: the plugins with their files, services    *)
(* and packages (PluginUpdate), or the network interfaces with their links  *)
(* (InterfaceUpdate).  Which one is chosen at the start; the variables of   *)
(* the other one rest.                                                      *)
EXTENDS PluginUpdate, InterfaceOrder

CONSTANTS eth1, vlan, wg, ovpn, MaxSourceEdits, MaxUpdates, MaxFaults

VARIABLES part, defined, source, files, aux, firewall, nft, nftLive, link, pc, work, loaded,
          changed, outcome, selected, sourceEdits, updates, faults, linkCut, bounced

\* Everything, and objects whose plugin has others.
MCTargets == {Object} \cup {{o} : o \in {"pd", "main", "dns", "china"}}

\* An ethernet with a vlan, next to a wireguard and an openvpn interface.
Gateway == {eth1, vlan, wg, ovpn}
RankInGateway == [i \in Gateway |-> CASE i = eth1 -> 1 [] i = vlan -> 2 [] i = wg -> 3 [] i = ovpn -> 4]

Net == INSTANCE InterfaceUpdate
         WITH References <- {<<vlan, eth1>>}, Wireguard <- {wg}, Helper <- {ovpn},
              Leftover <- {vlan}, MaxEdits <- MaxSourceEdits, edits <- sourceEdits,
              cut <- linkCut

ASSUME UpdateBoundsAssumption ==
    MaxSourceEdits \in Nat /\ MaxUpdates \in Nat /\ MaxFaults \in Nat

\* The sort puts the vlan behind its ethernet and keeps every name once.  Proofs cannot
\* follow the recursive walk: that it sorts every graph is what InterfaceOrderCheck is for.
ASSUME SortAssumption ==
    /\ Gateway \subseteq Interfaces /\ vlan # eth1 /\ IsFiniteSet(Interfaces)
    /\ \A names \in SUBSET Interfaces :
          LET s == Net!Sort(names, names, Net!DepsWithin(names, {<<vlan, eth1>>})).ordered IN
          /\ s \in Seq(names) /\ ToSet(s) = names /\ IsInjective(s)
          /\ \A i, j \in DOMAIN s : s[i] = eth1 /\ s[j] = vlan => i < j

Unused == "unused"
netVars == <<defined, source, files, aux, firewall, nft, nftLive, link, pc, work, loaded, changed,
             outcome, selected, sourceEdits, updates, faults, linkCut, bounced>>
all == <<part, vars, netVars>>

PluginsInit ==
    /\ part = "plugins" /\ Init
    /\ defined = Unused /\ source = Unused /\ files = Unused /\ aux = Unused
    /\ firewall = Unused /\ nft = Unused /\ nftLive = Unused /\ link = Unused /\ pc = Unused /\ work = Unused
    /\ loaded = Unused /\ changed = Unused /\ outcome = Unused /\ selected = Unused
    /\ sourceEdits = Unused /\ updates = Unused /\ faults = Unused
    /\ linkCut = Unused /\ bounced = Unused
NetInit ==
    /\ part = "interfaces" /\ Net!Init
    /\ conf = Unused /\ disk = Unused /\ up = Unused /\ boot = Unused /\ stale = Unused
    /\ pkgs = Unused /\ index = Unused /\ cached = Unused /\ coredns = Unused
    /\ run = Unused /\ china = Unused /\ applied = Unused /\ cut = Unused /\ last = Unused
    /\ behind = Unused /\ edits = Unused /\ runs = Unused /\ other = Unused

OfPlugins(action) == part = "plugins" /\ action /\ UNCHANGED <<part, netVars>>
OfInterfaces(action) == part = "interfaces" /\ action /\ UNCHANGED <<part, vars>>

UpdateSpec ==
    /\ PluginsInit \/ NetInit
    /\ [][OfPlugins(Next) \/ OfInterfaces(Net!Next)]_all

-----------------------------------------------------------------------------
\* Both sides keep the types of their variables.
UpdateTypeOK == IF part = "plugins" THEN TypeOK ELSE Net!TypeOK

\* PluginUpdate: whatever was run, a service runs with the files on disk once its
\* objects are applied, unless a run was cut short between a write and its restart; so
\* does dnsmasq, whoever of gw update and gw dnsmasq china-names update wrote them; and
\* an ipv6-refresh event heals even what was cut short (the update functions of the
\* plugins restart when changed, network_ipv6pd.py handle_event always does).
PluginServicesRunTheirFiles ==
    part = "plugins" => ServicesRunTheirFiles /\ DnsmasqRunsItsFiles /\ EventHeals

\* PluginUpdate: applying the objects one by one leaves the files of a full update.
PluginAppliedIsOnDisk == part = "plugins" => AppliedIsOnDisk

\* PluginUpdate: a run repeated with nothing in between writes and restarts nothing
\* (docs/bootstrap.md, Output And Idempotence; the logrotate file has two writers).
PluginRepeatChangesNothing == part = "plugins" => RepeatChangesNothing

\* PluginUpdate: after an undisturbed full update, a reboot starts the same services.
PluginRebootChangesNothing == part = "plugins" => RebootChangesNothing

\* InterfaceUpdate: a successful update leaves one fragment of each interface it covers,
\* whatever old, renumbered or half-migrated files there were, and after one of
\* everything they are read parents first.
InterfaceFragmentsInOrder ==
    part = "interfaces" => Net!OneFragmentEach /\ Net!NumbersFollowDependencies

\* InterfaceUpdate: a successful update leaves links and listen rules as the source it
\* read, unless an earlier run wrote them and was cut short before it applied them;
\* wireguard peers always (docs/delete.md, "Removing a peer").
InterfaceLinksFollowSource ==
    part = "interfaces" => Net!CurrentUnlessCut /\ Net!PeersConverge
=============================================================================
