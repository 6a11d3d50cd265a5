----------------------------- MODULE MCServices -----------------------------
(* The services that keep state of their own, one at a time: the routing     *)
(* tables and IP lists (RouteRefresh), the containers (DockerApps), the      *)
(* OpenVPN PKI (OvpnPki); and the two pure parts that all commands share,    *)
(* the configuration store (ConfigStore) and the interface order             *)
(* (InterfaceOrderCheck).  Which one is chosen at the start; the variables   *)
(* of the others rest.                                                       *)
EXTENDS RouteRefresh, SequencesExt, TLC

CONSTANTS None, DockerConfigs, DockerObjects, DockerAddresses, MaxDockerEvents,
          Clients, Cli, Web, MaxOps, MaxCerts, MaxCuts,
          StoreDocs, StoreAlias, StoreGroup, Error, NumDirs, MaxDocs,
          eth1, eth2, eth3

VARIABLES part,
          conf, compose, files, cont, dockerUp, dnsFile, served, dockerPending,
          dockerJob, owed, moved, owedDns, clean, dockerEvents, configured, caKey,
          caCert, index, serial, crl, clientCert, profiles, certs, latest, output,
          revokedLog, op, lockedBy, ops, signed, cuts, dirs, names, refs, roots,
          sorted

-----------------------------------------------------------------------------
(* A router with an ifupdown link and a ppp link, two route tables, a rule set. *)

Dest(name) == [list |-> FALSE, name |-> name, family |-> "auto"]
ListRef(name, family) == [list |-> TRUE, name |-> name, family |-> family]

Via(to, gateway) == [type |-> "route", to |-> {to}, gateway |-> {gateway}, metric |-> {}]
Black(to) == [type |-> "blackhole", to |-> {to}, gateway |-> {}, metric |-> {}]

Rule(priority, fwMark, fwmark, lookup) ==
    [priority |-> priority, raw |-> {}, fwMark |-> fwMark, fwmark |-> fwmark,
     lookup |-> {lookup}]

Good == [
    gateways |-> [
        wan  |-> [dev |-> {"wan"}, nexthops |-> {}, metric |-> {}],
        ppp  |-> [dev |-> {"ppp"}, nexthops |-> {}, metric |-> {}],
        both |-> [dev |-> {}, metric |-> {5},
                  nexthops |-> {[dev |-> "wan", weight |-> 1], [dev |-> "ppp", weight |-> 2]}]],
    tables |-> <<
        [name |-> "t4", table |-> "100", family |-> "ipv4", routes |->
            <<Via(Dest("default"), "wan"), Via(Dest("default"), "ppp"),
              Via(ListRef("china", "auto"), "wan"), Black(ListRef("amazon", "all"))>>],
        [name |-> "t6", table |-> "100", family |-> "ipv6", routes |->
            <<Via(Dest("default"), "both"), Via(ListRef("china", "ipv6"), "ppp")>>]>>,
    marks |-> [m1 |-> [mark |-> "u32", mask |-> "u32"]],
    ruleSets |-> <<[family |-> "ipv4", first |-> 100, last |-> 110, rules |->
            <<Rule(110, {}, {"0x7"}, "main"), Rule(100, {"m1"}, {}, "t4")>>]>>]

MCConfigs ==
    {Good,
     [Good EXCEPT !.tables[1].routes[1].to = {}],
     [Good EXCEPT !.tables[1].routes[2].gateway = {"none"}],
     [Good EXCEPT !.tables[1].routes[3].type = "unclosed"],
     [Good EXCEPT !.ruleSets[1].rules[1].raw = {"unclosed"}, !.tables[1].routes[1].to = {}],
     [Good EXCEPT !.gateways.both.dev = {"wan"}],
     [Good EXCEPT !.ruleSets[1].rules[1].priority = 111],
     [Good EXCEPT !.ruleSets[1].rules[2].fwMark = {"m2"}],
     [Good EXCEPT !.ruleSets[1].rules[1].fwmark = {"m1"}, !.marks.m1.mark = "wide",
                  !.ruleSets[1].rules[2].fwMark = {}]}

MCOverlays == <<"amazon", "ipv4">> :> {[family |-> "ipv4", name |-> "mine", version |-> 0]}
MCSources == <<"china", "amazon">>
MCFamilies == <<"ipv4">>

-----------------------------------------------------------------------------
(* A container with generated files and an nginx app, DockerDNS on or off. *)

Inline(content, name) == [type |-> "inline", source |-> {content}, key |-> {},
                          name |-> name, absolute |-> TRUE]
FromMap(name, key) == [type |-> "configMap", source |-> {name}, key |-> {key},
                       name |-> key, absolute |-> TRUE]

Container(mounts) ==
    [enabled |-> TRUE, app |-> None, image |-> {"web"}, imageName |-> {}, imageTag |-> {},
     network |-> "default", mounts |-> mounts, confFiles |-> <<>>, serverUrl |-> {}]

Nginx(confFiles) ==
    [Container(<<>>) EXCEPT !.app = "nginx", !.image = {}, !.confFiles = confFiles]

Base == [
    objects |-> [web |-> Container(<<FromMap("m", "k"), Inline("1", "x")>>),
                 www |-> Nginx(<<Inline("1", "dros-0.conf")>>)],
    maps |-> [m |-> [k |-> "1"]],
    dockerInterfaces |-> {"lan"},
    dns |-> [present |-> TRUE, enabled |-> TRUE, hostAddress |-> "10.0.0.1"]]

MCDockerConfigs ==
    {Base,
     [Base EXCEPT !.maps.m.k = "2"],
     [Base EXCEPT !.objects.web.imageTag = {"2"}, !.dns.enabled = FALSE],
     [Base EXCEPT !.objects.www.enabled = FALSE, !.objects.web.network = "host"],
     [Base EXCEPT !.objects.web.mounts = <<Inline("1", "x"), Inline("2", "x")>>,
                  !.objects.www.network = "lan"],
     [Base EXCEPT !.objects.web.mounts = <<FromMap("m", "gone")>>],
     [Base EXCEPT !.objects.web.mounts = <<FromMap("", "k")>>],
     [Base EXCEPT !.objects.www.confFiles = <<FromMap("gone", "k")>>, !.dns.present = FALSE]}

MCObjects == <<"www", "web">>
MCAddresses == <<"a1", "a2", "a3">>

-----------------------------------------------------------------------------
(* Three directories, two kinds in several spellings.                      *)

Doc(kind, name) == [kind |-> kind, name |-> name, disabled |-> FALSE,
                    headOk |-> TRUE, bodyOk |-> TRUE]

MCDocs ==
    {Doc("Interface", {"eth0"}), Doc("ifaces", {"eth0"}), Doc("Interface", {}),
     Doc("DockerDNS", {"system"}), Doc("docker-dns", {}),
     [Doc("iface", {"eth0"}) EXCEPT !.disabled = TRUE],
     [Doc("DockerDNS", {}) EXCEPT !.disabled = TRUE, !.bodyOk = FALSE],
     [Doc("Interface", {"eth1"}) EXCEPT !.bodyOk = FALSE],
     [Doc("Interface", {"eth2"}) EXCEPT !.headOk = FALSE, !.disabled = TRUE]}

MCAlias == "iface" :> "Interface" @@ "ifaces" :> "Interface"
           @@ "docker-dns" :> "DockerDNS" @@ "docker" :> "Docker"
MCGroup == "Docker" :> {"DockerDNS", "DockerApp"}

-----------------------------------------------------------------------------
(* Every dependency graph over three interfaces.                           *)

Three == {eth1, eth2, eth3}
RankOfThree == [i \in Three |-> CASE i = eth1 -> 1 [] i = eth2 -> 2 [] i = eth3 -> 3]

-----------------------------------------------------------------------------
Docker == INSTANCE DockerApps
            WITH Configs <- DockerConfigs, Objects <- DockerObjects, Addresses <- DockerAddresses,
                 MaxEvents <- MaxDockerEvents, pending <- dockerPending, job <- dockerJob,
                 events <- dockerEvents
Pki == INSTANCE OvpnPki
Store == INSTANCE ConfigStore WITH Docs <- StoreDocs, Alias <- StoreAlias, Group <- StoreGroup
Order == INSTANCE InterfaceOrderCheck WITH Interfaces <- Three, Rank <- RankOfThree

\* The words for no app and no address, and for the host's network, are no app and no
\* address; an object's mounts and files come in lists.
ASSUME DockerAssumption ==
    /\ None \notin {"nginx", "ddns-go", "unifi", "certimate", "headscale"}
    /\ {None, "host"} \cap Range(DockerAddresses) = {}
    /\ \A c \in DockerConfigs : \A o \in Range(DockerObjects) : LET spec == c.objects[o] IN
          /\ spec.mounts \in Seq(Range(spec.mounts))
          /\ spec.confFiles \in Seq(Range(spec.confFiles))

\* A session of gw ovpn is not mistaken for the free lock; the bounds are numbers.
ASSUME SessionsAssumption == Pki!NoSession \notin Cli
ASSUME BoundsAssumption == {MaxOps, MaxCerts, MaxCuts} \subseteq Nat

\* What a spelling stands for is no spelling itself, no document has a group for its kind, a
\* group and its kinds are spelled as they are (kind_aliases.py), and a load that fails gives
\* no store.
StoreKeys == {Store!Key(doc) : doc \in StoreDocs}
ASSUME StoreAssumption ==
    /\ NumDirs \in Nat
    /\ \A doc \in StoreDocs :
          /\ {doc.disabled, doc.headOk, doc.bodyOk} \subseteq BOOLEAN
          /\ Store!ResolveKindAlias(doc.kind) \notin DOMAIN StoreAlias \cup DOMAIN StoreGroup
    /\ \A group \in DOMAIN StoreGroup :
          /\ Store!ResolveKindAlias(group) = group
          /\ \A kind \in StoreGroup[group] :
                Store!ResolveKindAlias(kind) = kind /\ kind \notin DOMAIN StoreGroup
    /\ \A keys \in SUBSET StoreKeys : Error \notin [keys -> [doc : StoreDocs, dir : 1..NumDirs]]

Unused == "unused"
dockerVars == <<
    conf, compose, files, cont, dockerUp, dnsFile, served, dockerPending, dockerJob,
    owed, moved, owedDns, clean, dockerEvents>>
pkiVars == <<
    configured, caKey, caCert, index, serial, crl, clientCert, profiles, certs,
    latest, output, revokedLog, op, lockedBy, ops, signed, cuts>>
storeVars == <<
    dirs>>
orderVars == <<
    names, refs, roots, sorted>>
all == <<part, vars, dockerVars, pkiVars, storeVars, orderVars>>

RoutesRest ==
    /\ config = Unused /\ up = Unused /\ moving = Unused /\ pending = Unused
    /\ job = Unused /\ tables = Unused /\ rules = Unused /\ rtNames = Unused
    /\ lists = Unused /\ temp = Unused /\ upd = Unused /\ lost = Unused
    /\ shared = Unused /\ events = Unused
DockerRests ==
    /\ conf = Unused /\ compose = Unused /\ files = Unused /\ cont = Unused
    /\ dockerUp = Unused /\ dnsFile = Unused /\ served = Unused
    /\ dockerPending = Unused /\ dockerJob = Unused /\ owed = Unused
    /\ moved = Unused /\ owedDns = Unused /\ clean = Unused /\ dockerEvents = Unused
PkiRests ==
    /\ configured = Unused /\ caKey = Unused /\ caCert = Unused /\ index = Unused
    /\ serial = Unused /\ crl = Unused /\ clientCert = Unused /\ profiles = Unused
    /\ certs = Unused /\ latest = Unused /\ output = Unused /\ revokedLog = Unused
    /\ op = Unused /\ lockedBy = Unused /\ ops = Unused /\ signed = Unused
    /\ cuts = Unused
StoreRests ==
    /\ dirs = Unused
OrderRests ==
    /\ names = Unused /\ refs = Unused /\ roots = Unused /\ sorted = Unused

Start ==
    \/ part = "routes" /\ Init /\ DockerRests /\ PkiRests /\ StoreRests /\ OrderRests
    \/ part = "docker" /\ Docker!Init /\ RoutesRest /\ PkiRests /\ StoreRests /\ OrderRests
    \/ part = "pki" /\ Pki!Init /\ RoutesRest /\ DockerRests /\ StoreRests /\ OrderRests
    \/ part = "store" /\ Store!Init /\ RoutesRest /\ DockerRests /\ PkiRests /\ OrderRests
    \/ part = "order" /\ Order!Init /\ RoutesRest /\ DockerRests /\ PkiRests /\ StoreRests

OfRoutes(action) ==
    part = "routes" /\ action /\ UNCHANGED <<part, dockerVars, pkiVars, storeVars, orderVars>>
OfDocker(action) ==
    part = "docker" /\ action /\ UNCHANGED <<part, vars, pkiVars, storeVars, orderVars>>
OfPki(action) ==
    part = "pki" /\ action /\ UNCHANGED <<part, vars, dockerVars, storeVars, orderVars>>
OfStore(action) ==
    part = "store" /\ action /\ UNCHANGED <<part, vars, dockerVars, pkiVars, orderVars>>
OfOrder(action) ==
    part = "order" /\ action /\ UNCHANGED <<part, vars, dockerVars, pkiVars, storeVars>>

ServicesSpec ==
    Start /\ [][\/ OfRoutes(Next)
                \/ OfDocker(Docker!Next)
                \/ OfPki(Pki!Next)
                \/ OfStore(Store!Next)
                \/ OfOrder(Order!Next)]_all

-----------------------------------------------------------------------------
\* Every part keeps the types of its variables.
ServicesTypeOK ==
    CASE part = "routes" -> TypeOK
      [] part = "docker" -> Docker!TypeOK
      [] part = "pki" -> Pki!TypeOK
      [] part = "store" -> Store!TypeOK
      [] OTHER -> TRUE

\* RouteRefresh: with nothing going on every route table and the policy rules of each
\* family are what the configuration wants with the links and lists of now, unless
\* something that no event announces is on record (network_routing.py update,
\* handle_event and _apply_route_rule_set).
RoutesAreCurrent == part = "routes" => TablesAreCurrent /\ RulesAreCurrent

\* RouteRefresh: a list file is never seen cut off, a killed updater or not, unless two
\* updaters had its temporary file open (ip_lists.py _replace_from_staged).
RoutesListsAreWhole == part = "routes" => ListsAreWhole

\* RouteRefresh and DockerApps: what the validation of routes, rules and containers
\* accepts makes an update stop half way, or a handler raise, only at what validation
\* passes over: raw text, a route without destination, a FwMark named with fwmark; an
\* empty ConfigMap name, the files of an app (validate in both plugins).
ValidConfigsRender ==
    /\ part = "routes" => ValidConfigRenders
    /\ part = "docker" => Docker!ValidContainersRender

\* DockerApps: a container runs the compose file and has read the generated files on disk,
\* unless the very command that was to see to it was cut off (docker_resources.py
\* _apply_project).
DockerContainersRunTheirFiles == part = "docker" => Docker!ContainersRunTheirFiles

\* DockerApps: dnsmasq sends a container's name to the address it has now, unless it moved
\* and no event said so (docker_resources.py _apply_docker_dns).
DockerRecordsFollowContainers == part = "docker" => Docker!RecordsFollowContainers

\* DockerApps: a repeated full update recreates and restarts no container, unless two of
\* its mounts generate the same file (docker_resources.py _apply_project).
DockerRepeatIsQuiet == part = "docker" => Docker!RepeatIsQuiet

\* OvpnPki: a certificate recorded as revoked is revoked in openssl's database, and a
\* revoke or crl command that ends well has everything revoked on the CRL, whatever was
\* cut before (ovpn.py revoke_profile_cert, _generate_crl).
PkiRevokedStaysRevoked == part = "pki" => Pki!LoggedIsRevoked /\ Pki!CrlIsComplete

\* OvpnPki: no two certificates have one serial, under the CLI's apply lock (ovpn.py
\* _issue_cert).
PkiSerialsUnique == part = "pki" => Pki!SerialsUnique

\* OvpnPki: latest names a signed certificate or nothing, whatever was cut where, and an
\* update or a renewal that ends well leaves that certificate in the output (ovpn.py
\* _replace_latest_symlink, update_server, update_client).
PkiLatestIsUsed == part = "pki" => Pki!LatestIsSigned /\ Pki!OutputIsLatest

\* ConfigStore: for every kind and name, however the kind is spelled, the enabled object
\* of the last directory that has one is the one used; the load with the disabled objects,
\* which gw delete uses, agrees; duplicates are errors of every load; and each object can
\* be selected (docs/bootstrap.md:142; config_objects.py load_config_objects, update.py
\* _select_objects).
StoreLastEnabledWins ==
    part = "store" =>
        /\ Store!LastEnabledWins
        /\ Store!FullLoadAgrees
        /\ Store!DuplicatesAreErrors
        /\ Store!TargetsReachObjects

\* InterfaceOrderCheck: the sort reports a cycle exactly when one is reachable from the
\* selection, and otherwise returns the selection and all it depends on, once each and
\* dependencies first (network_interfaces.py _sort_interface_objects).
OrderIsSorted == [][part = "order" => Order!SortedOrCyclic(sorted')]_all
=============================================================================
