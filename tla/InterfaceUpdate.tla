--------------------------- MODULE InterfaceUpdate ---------------------------
(***************************************************************************)
(* gw update of ifupdown interfaces (update of                             *)
(* src/dros/plugins/network_interfaces.py): per interface, dependencies    *)
(* first, write the auxiliary file and the nft fragment, bring the         *)
(* numbered fragment of /etc/network/interfaces.d to its place and         *)
(* content, then reload or reconcile the link. An error or a kill ends the *)
(* run where it is; what the next run does depends on which files differ.  *)
(* The content of a file is the version of the source it was rendered      *)
(* from.                                                                   *)
(***************************************************************************)
EXTENDS InterfaceOrder, Integers

CONSTANTS
    References,      \* pairs <<a, b>>: a is a vlan whose parent is b
    Wireguard,       \* interfaces of type wireguard (peers, listenPort)
    Helper,          \* interfaces of type pppoe or openvpn (an auxiliary file)
    Leftover,        \* interfaces that may have a numbered fragment besides
    MaxEdits,        \* bound: edits of the source
    MaxUpdates,      \* bound: gw update runs
    MaxFaults        \* bound: failing commands and kills

VARIABLES
    defined,         \* interfaces of the configuration
    source,          \* per interface: version of its fragment and of its aux part
    files,           \* fragments on disk, [name, number, version]; number 0: unnumbered
    aux,             \* per interface: version of its .conf, peers or .ovpn file
    firewall,        \* the firewall plugin has written nftables.conf and its rules
    nft, nftLive,    \* per interface: listen rules on disk, and in the kernel
    link,            \* per interface: [state, fragment, aux] of the kernel
    pc, work,        \* position in the loop, interfaces still to be updated
    loaded,          \* [defined, source] as the run has read them, and their order
    changed,         \* which of {"file", "aux", "nft"} this iteration has changed
    outcome, selected,  \* of the last run: none, ok, failed
    edits, updates, faults,
    cut,             \* history: <<i, "link">>, <<i, "nft">>: a run was cut short there
    bounced          \* history: vlans that lost their link to a reload of the parent

config == <<defined, source, edits>>
disk == <<files, aux, nft>>
kernel == <<firewall, nftLive, link>>
run == <<pc, work, loaded, changed, outcome, selected>>
vars == <<config, disk, kernel, run, updates, faults, cut, bounced>>

HasAux == Wireguard \cup Helper
NoRules == -1
NothingLoaded == [defined |-> {}, order |-> <<>>, source |-> [i \in Interfaces |-> [fragment |-> 0, aux |-> 0]]]

\* Installed before with the unnumbered names, everything up. After a roll-back
\* to that version there is a numbered fragment as well. Without a firewall no
\* listen rules are loaded.
Init ==
    /\ defined \in SUBSET Interfaces /\ defined # {}
    /\ source = [i \in Interfaces |-> [fragment |-> 0, aux |-> 0]]
    /\ \E numbered \in SUBSET Leftover :
         files = {[name |-> i, number |-> 0, version |-> 0] : i \in Interfaces}
           \cup {[name |-> i, number |-> Cardinality(Interfaces), version |-> 0] : i \in numbered}
    /\ aux = [i \in Interfaces |-> 0] /\ nft = aux
    /\ firewall \in BOOLEAN
    /\ nftLive = [i \in Interfaces |-> IF firewall THEN 0 ELSE NoRules]
    /\ link = [i \in Interfaces |-> [state |-> "up", fragment |-> 0, aux |-> 0]]
    /\ pc = "idle" /\ work = {} /\ changed = {} /\ loaded = NothingLoaded
    /\ outcome = "none" /\ selected = {}
    /\ edits = 0 /\ updates = 0 /\ faults = 0 /\ cut = {} /\ bounced = {}

-----------------------------------------------------------------------------
(* The operator. *)

\* While a run is going on it has read the source: an edit comes before the next.
EditSource(i) ==
    /\ pc = "idle"
    /\ edits < MaxEdits
    /\ edits' = edits + 1
    /\ \/ source' = [source EXCEPT ![i].fragment = @ + 1] /\ UNCHANGED defined
       \/ i \in HasAux /\ source' = [source EXCEPT ![i].aux = @ + 1] /\ UNCHANGED defined
       \/ defined' = (defined \ {i}) \cup ({i} \ defined) /\ UNCHANGED source
    /\ UNCHANGED <<disk, kernel, run, updates, faults, cut, bounced>>

-----------------------------------------------------------------------------
(* gw update iface and gw update iface/<name>. *)

\* _interfaces_for_update_order, of all interfaces whatever the selection.
Order == Sort(defined, defined, DepsWithin(defined, References)).ordered

\* _ifupdown_file_order
Number(i) == CHOOSE n \in DOMAIN loaded.order : loaded.order[n] = i

Parents(i) == {r[2] : r \in {x \in References : x[1] = i}}

\* load_config_objects, _select_objects, validate and the order of update.
BeginUpdate(targets) ==
    /\ pc = "idle"
    /\ updates < MaxUpdates
    /\ updates' = updates + 1
    /\ targets \subseteq defined /\ targets # {}
    /\ \A i \in targets : Parents(i) \subseteq defined
    /\ loaded' = [defined |-> defined, source |-> source, order |-> Order]
    /\ selected' = targets
    /\ work' = targets
    /\ pc' = "aux" /\ changed' = {} /\ outcome' = "none"
    /\ UNCHANGED <<config, disk, kernel, faults, cut, bounced>>

\* The loop goes through the sorted interfaces and passes over those not selected.
Current == CHOOSE i \in work : \A j \in work : Number(i) <= Number(j)
Source(i) == loaded.source[i]
FilesOf(i) == {f \in files : f.name = i}

GoOn(label) == pc' = label /\ UNCHANGED <<work, loaded, outcome, selected>>

\* Slip: the loop goes round once more after the last interface.
NextInterfaceOnceMore ==
    /\ work' = work \ {Current}
    /\ changed' = {}
    /\ IF work = {}
         THEN pc' = "idle" /\ outcome' = "ok"
         ELSE pc' = "aux" /\ UNCHANGED outcome
    /\ UNCHANGED <<loaded, selected>>

NextInterface ==
    /\ work' = work \ {Current}
    /\ changed' = {}
    /\ IF work = {Current}
         THEN pc' = "idle" /\ outcome' = "ok"
         ELSE pc' = "aux" /\ UNCHANGED outcome
    /\ UNCHANGED <<loaded, selected>>

Fault == faults < MaxFaults /\ faults' = faults + 1

\* An exception ends the run; its SystemExecutor forgets what has changed.
Abort ==
    /\ pc' = "idle" /\ outcome' = "failed" /\ work' = {} /\ changed' = {}
    /\ cut' = cut \cup {<<Current, "link">>, <<Current, "nft">>}
    /\ UNCHANGED <<loaded, selected>>

\* _write_auxiliary_files
WriteAux ==
    /\ pc = "aux"
    /\ aux' = [aux EXCEPT ![Current] = Source(Current).aux]
    /\ changed' = IF aux' # aux THEN {"aux"} ELSE {}
    /\ GoOn("nft")
    /\ UNCHANGED <<config, files, nft, kernel, updates, faults, cut, bounced>>

\* _write_interface_nft
WriteNft ==
    /\ pc = "nft"
    /\ nft' = [nft EXCEPT ![Current] = Source(Current).aux]
    /\ changed' = changed \cup IF nft' # nft THEN {"nft"} ELSE {}
    /\ GoOn("rename")
    /\ UNCHANGED <<config, files, aux, kernel, updates, faults, cut, bounced>>

\* Slip: old fragments are only removed when one has been renamed.
MigrateRenameOnly ==
    /\ pc = "rename"
    /\ IF \E f \in FilesOf(Current) : f.number = Number(Current)
         THEN UNCHANGED files
         ELSE \/ FilesOf(Current) = {} /\ UNCHANGED files
              \/ \E f \in FilesOf(Current) :
                   files' = (files \ {f}) \cup {[f EXCEPT !.number = Number(Current)]}
    /\ GoOn("write")
    /\ UNCHANGED <<config, aux, nft, kernel, changed, updates, faults, cut, bounced>>

\* _migrate_interface_file: the first old fragment gets the new name, ...
MigrateRename ==
    /\ pc = "rename"
    /\ IF \E f \in FilesOf(Current) : f.number = Number(Current)
         THEN UNCHANGED files
         ELSE \/ FilesOf(Current) = {} /\ UNCHANGED files
              \/ \E f \in FilesOf(Current) :
                   /\ \A g \in FilesOf(Current) : f.number <= g.number
                   /\ files' = (files \ {f}) \cup {[f EXCEPT !.number = Number(Current)]}
    /\ GoOn("prune")
    /\ UNCHANGED <<config, aux, nft, kernel, changed, updates, faults, cut, bounced>>

\* ... the others go.
MigrateDelete ==
    /\ pc = "prune"
    /\ LET old == {f \in FilesOf(Current) : f.number # Number(Current)} IN
       IF old = {}
         THEN GoOn("write") /\ UNCHANGED files
         ELSE (\E f \in old : files' = files \ {f}) /\ GoOn("prune")
    /\ UNCHANGED <<config, aux, nft, kernel, changed, updates, faults, cut, bounced>>

NewFragment(i) == [name |-> i, number |-> Number(i), version |-> Source(i).fragment]

\* write_file, which only writes when the content differs.
WriteFragment ==
    /\ pc = "write"
    /\ files' = {f \in files : f.name # Current \/ f.number # Number(Current)}
                  \cup {NewFragment(Current)}
    /\ changed' = changed \cup IF files' # files THEN {"file"} ELSE {}
    /\ GoOn("apply")
    /\ UNCHANGED <<config, aux, nft, kernel, updates, faults, cut, bounced>>

\* Slip: the reload of wireguard is decided by changed files alone.
AfterWriteByChanges(i) ==
    IF changed \cap {"file", "aux"} # {} THEN "ifdown" ELSE "firewall"

\* Which way update takes the link to its new configuration.
AfterWrite(i) ==
    IF i \in Wireguard /\ "file" \notin changed THEN "reconcile"
    ELSE IF changed \cap {"file", "aux"} # {} THEN "ifdown"
    ELSE "firewall"

ChooseApply ==
    /\ pc = "apply"
    /\ GoOn(AfterWrite(Current))
    /\ UNCHANGED <<config, disk, kernel, changed, updates, faults, cut, bounced>>

\* The VLANs of a bridge, which the kernel removes with it.
OnTop(i) == {r[1] : r \in {x \in References : x[2] = i}}

\* ifdown --force, run with check=False: a failure leaves the old link.
Ifdown ==
    /\ pc = "ifdown"
    /\ \/ /\ link' = [j \in Interfaces |-> IF j \in {Current} \cup OnTop(Current)
                                             THEN [link[j] EXCEPT !.state = "down"] ELSE link[j]]
          /\ bounced' = bounced \cup OnTop(Current)
          /\ UNCHANGED faults
       \/ Fault /\ UNCHANGED <<link, bounced>>
    /\ GoOn("ifup")
    /\ UNCHANGED <<config, disk, firewall, nftLive, changed, updates, cut>>

\* ip link add fails on a wireguard link that exists; a vlan needs its parent and
\* first tries to bring it up (pre-up ifup <parent> || true).
CanBringUp(i, lifted) ==
    /\ i \in Wireguard => link[i].state = "down"
    /\ \A p \in Parents(i) \ lifted : link[p].state = "up"

Lift(i) == {p \in Parents(i) : link[p].state = "down" /\ FilesOf(p) # {}}

AsOnDisk(i) == [state |-> "up", aux |-> aux[i],
                fragment |-> (CHOOSE f \in FilesOf(i) : TRUE).version]

\* ifup, by reload or by the reconcile script for a missing link.
Ifup ==
    \E lifted \in SUBSET Lift(Current) :
        \/ /\ CanBringUp(Current, lifted)
           /\ link' = [i \in Interfaces |-> IF i \in lifted \cup {Current} THEN AsOnDisk(i) ELSE link[i]]
           /\ cut' = cut \ {<<Current, "link">>}
           /\ bounced' = bounced \ {Current}
           /\ GoOn("firewall") /\ UNCHANGED <<changed, faults>>
        \/ /\ CanBringUp(Current, lifted) => Fault
           /\ ~CanBringUp(Current, lifted) => UNCHANGED faults
           /\ link' \in {link, [link EXCEPT ![Current].state = IF @ = "down" THEN "half" ELSE @]}
           /\ Abort
           /\ UNCHANGED bounced

ReloadIfup ==
    /\ pc = "ifup"
    /\ Ifup
    /\ UNCHANGED <<config, disk, firewall, nftLive, updates>>

\* The script of _wireguard_reconcile_command: a missing link is brought up; on
\* an existing one, configured or not, the peers are added and removed.
Reconcile ==
    /\ pc = "reconcile"
    /\ IF link[Current].state = "down"
         THEN Ifup
         ELSE /\ \/ /\ link' = [link EXCEPT ![Current].aux = aux[Current]]
                    /\ GoOn("firewall") /\ UNCHANGED <<changed, faults, cut>>
                 \/ link' = link /\ Fault /\ Abort
              /\ UNCHANGED bounced
    /\ UNCHANGED <<config, disk, firewall, nftLive, updates>>

\* _firewall_has_been_applied: without the files of the firewall nothing is loaded;
\* with them nft -f loads the rules of all interfaces.
LoadFirewall ==
    /\ pc = "firewall"
    /\ IF "nft" \in changed /\ firewall
         THEN \/ nftLive' = nft /\ cut' = {c \in cut : c[2] # "nft"} /\ NextInterface /\ UNCHANGED faults
              \/ nftLive' = nftLive /\ Fault /\ Abort
         ELSE NextInterface /\ UNCHANGED <<nftLive, faults, cut>>
    /\ UNCHANGED <<config, disk, firewall, link, updates, bounced>>

\* The first gw update of a Firewall writes its files and loads them together with the
\* listen rules; when nft fails, the files stay and nobody loads them for the time being.
ApplyFirewall ==
    /\ pc = "idle" /\ ~firewall
    /\ firewall' = TRUE
    /\ \/ nftLive' = nft /\ UNCHANGED <<cut, faults>>
       \/ Fault /\ cut' = cut \cup (Interfaces \X {"nft"}) /\ UNCHANGED nftLive
    /\ UNCHANGED <<config, disk, link, run, updates, bounced>>

Kill ==
    /\ pc # "idle"
    /\ Fault /\ Abort
    /\ UNCHANGED <<config, disk, kernel, updates, bounced>>

Update ==
    \/ WriteAux \/ WriteNft \/ MigrateRename \/ MigrateDelete \/ WriteFragment
    \/ ChooseApply \/ Ifdown \/ ReloadIfup \/ Reconcile \/ LoadFirewall

Next ==
    \/ \E i \in Interfaces : EditSource(i) \/ BeginUpdate({i})
    \/ BeginUpdate(defined) \/ ApplyFirewall
    \/ Update \/ Kill

Spec == Init /\ [][Next]_vars

-----------------------------------------------------------------------------
(* Properties *)

Version == 0..MaxEdits

TypeOK ==
    /\ defined \in SUBSET Interfaces
    /\ source \in [Interfaces -> [fragment : Version, aux : Version]]
    /\ files \subseteq [name : Interfaces, number : 0..Cardinality(Interfaces), version : Version]
    /\ {aux, nft} \subseteq [Interfaces -> Version]
    /\ firewall \in BOOLEAN /\ nftLive \in [Interfaces -> Version \cup {NoRules}]
    /\ link \in [Interfaces -> [state : {"down", "half", "up"}, fragment : Version, aux : Version]]
    /\ pc \in {"idle", "aux", "nft", "rename", "prune", "write", "apply", "ifdown", "ifup",
               "reconcile", "firewall"}
    /\ work \subseteq loaded.defined /\ (work = {} <=> pc = "idle")
    /\ changed \in SUBSET {"file", "aux", "nft"}
    /\ outcome \in {"none", "ok", "failed"} /\ selected \subseteq loaded.defined
    /\ edits \in 0..MaxEdits /\ updates \in 0..MaxUpdates /\ faults \in 0..MaxFaults
    /\ cut \subseteq Interfaces \X {"link", "nft"} /\ bounced \subseteq Interfaces

\* After a successful update ifupdown reads one fragment of each interface it
\* covered, whatever unnumbered, renumbered or half-migrated files were there
\* (docs/config-objects/Interface.md:33-34).
OneFragmentEach == outcome = "ok" => \A i \in selected : Cardinality(FilesOf(i)) = 1

NumberOnDisk(i) == {f.number : f \in FilesOf(i)}

ParentsFirst(names) ==
    \A r \in References :
        r[1] \in names /\ r[2] \in names =>
            \A m \in NumberOnDisk(r[2]), n \in NumberOnDisk(r[1]) : m < n

\* After a successful update of everything the fragments of the configuration
\* are read parents first, and no two have one number.
NumbersFollowDependencies ==
    outcome = "ok" /\ selected = loaded.defined =>
        /\ ParentsFirst(selected)
        /\ \A i, j \in selected : i # j => NumberOnDisk(i) \cap NumberOnDisk(j) = {}

\* A successful update leaves every interface it covered up with the source it
\* read, and the listen rules loaded once there is a firewall, also one that was
\* applied later, though it only reloads what it changed on
\* disk. The exceptions are what an earlier run wrote and did not apply, and
\* vlans that went down with a reloaded parent.
CurrentUnlessCut ==
    outcome = "ok" =>
        \A i \in selected :
            /\ <<i, "link">> \notin cut /\ i \notin bounced =>
                   link[i] = [state |-> "up", fragment |-> Source(i).fragment, aux |-> Source(i).aux]
            /\ firewall /\ <<i, "nft">> \notin cut => nftLive[i] = nft[i]

\* After a successful update a wireguard interface has the peers of the source,
\* also when an earlier run failed or was killed after it had written the file
\* (docs/delete.md, "Removing a peer"; network_interfaces.py:146-147).
PeersConverge ==
    outcome = "ok" => \A i \in selected \cap Wireguard : link[i].aux = Source(i).aux

\* "NNN is generated ... from the dependencies between interfaces"
\* (docs/config-objects/Interface.md:31): so it is after every update.
NumbersAlwaysFollow ==
    outcome = "ok" => ParentsFirst({i \in loaded.defined : 0 \notin NumberOnDisk(i)})
=============================================================================
