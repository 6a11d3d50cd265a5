---------------------------- MODULE PluginUpdate ----------------------------
(***************************************************************************)
(* gw bootstrap, gw update and the ipv6-refresh event over the plugins     *)
(* that write files and then run commands because of them (update.py,      *)
(* bootstrap.py, executor.py, plugins/): each plugin is the list of the    *)
(* steps its update or bootstrap function takes, and one action takes the  *)
(* next step.  A service reads its files when it is started; what changes  *)
(* on the disk after that is stale in it until the next start, so a        *)
(* restart that is lost or not asked for shows.  apt, systemd, nft and the *)
(* programs of the services are external.                                  *)
(***************************************************************************)
EXTENDS Naturals, Sequences, SequencesExt, FiniteSets

CONSTANTS
    Targets,       \* what gw update is asked for: sets of objects
    MaxEdits,      \* bound: edits of the configuration
    MaxRuns,       \* bound: gw commands and events
    MaxOther       \* bound: failing commands, kills, and runs of the China names updater

-----------------------------------------------------------------------------
(* Configuration: the objects, and their settings that reach a file.       *)

\* registry.bootstrap_order() of the plugins modelled here.
PluginOrder ==
    <<"system.mirror", "network.core", "network.ipv6pd", "network.firewall",
      "network.resolvconf", "network.dnsmasq", "ip_lists", "config.resources",
      "system.utilities", "monitoring.collectd", "network.wgsd-coredns", "docker.core">>
Plugin == ToSet(PluginOrder)
Place == [p \in Plugin |-> CHOOSE i \in DOMAIN PluginOrder : PluginOrder[i] = p]

\* The objects each plugin applies; "registry" is the docker_registry_mirror of
\* SystemMirrorConfig, which only the bootstrap of docker.core applies.
Kinds ==
    [plugin \in Plugin |->
        CASE plugin = "system.mirror" -> {"mirror"}
          [] plugin = "network.core" -> {"network"}
          [] plugin = "network.ipv6pd" -> {"pd"}
          [] plugin = "network.firewall" -> {"main", "guest"}
          [] plugin = "network.resolvconf" -> {"resolv"}
          [] plugin = "network.dnsmasq" -> {"dns", "dhcp", "china"}
          [] plugin = "ip_lists" -> {"ipList"}
          [] plugin = "config.resources" -> {"cron"}
          [] plugin = "monitoring.collectd" -> {"collectd"}
          [] plugin = "network.wgsd-coredns" -> {"wgsd"}
          [] plugin = "docker.core" -> {"registry"}
          [] OTHER -> {}]
Object == UNION {Kinds[p] : p \in Plugin}

-----------------------------------------------------------------------------
(* Files: which settings, <<object, field>>, a renderer puts into each.    *)

MirrorFiles ==
    [aptList |-> {"mirror"} \X {"apt"}, debianSources |-> {}, aptKeys |-> {},
     dockerList |-> {"mirror"} \X {"docker"}, tailscaleList |-> {}]
CoreFiles ==
    [hostname |-> {"network"} \X {"hostname"}, hosts |-> {"network"} \X {"hostname"},
     cloudHostname |-> {}, cloudNet |-> {}, cloudIfaces |-> {},
     sysctl |-> {"network"} \X {"conntrack"}, dnsmasqConf |-> {}, logrotate |-> {}, avahi |-> {}]
DockerFiles == [daemonJson |-> {"registry"} \X {"mirror"}, dockerHook |-> {}]
PdClientFiles ==
    [dhcp6c |-> {"pd"} \X {"uplink", "delegated"}, dhcp6cScript |-> {}, duid |-> {"pd"} \X {"duid"}]
PdRadvdFiles == [radvd |-> {"pd"} \X {"delegated", "advertise"}]
\* pdHooks stands for the hook of ifupdown and the three of pppd.
PdUnitFiles ==
    [pdUnit |-> {"pd"} \X {"uplink", "acceptRa"}, pdHooks |-> {"pd"} \X {"uplink", "acceptRa"}]
\* No file: the accept_ra sysctl of the uplink, which a command sets.
PdSysctl == [acceptRa |-> {"pd"} \X {"uplink", "acceptRa"}]
PdNftFiles == [nftPd |-> {"pd"} \X {"uplink", "advertise"}]
FirewallFiles == [nftEntry |-> {}, nftFirewall |-> {"main", "guest"} \X {"rules"}]
DnsFiles == [dnsConf |-> {"dns"} \X {"servers", "logFile"}]
DhcpFiles == [dhcpConf |-> {"dhcp"} \X {"ranges"}]
ChinaFiles ==
    [chinaConf |-> {"china"} \X {"servers"}, chinaManual |-> {"china"} \X {"servers", "manual"}]
ChinaCronFiles == [chinaCron |-> {}]
ResolvFiles == [resolvConf |-> {"resolv"} \X {"servers"}]
CronFiles == [cronJob |-> {"cron"} \X {"command"}]
IpListFiles == [ipListCron |-> {"ipList"} \X {"schedule"}]
CollectdFiles == [collectdConf |-> {"collectd"} \X {"interval"}]
WgsdFiles == [corefile |-> {"wgsd"} \X {"zones"}, wgsdUnit |-> {}]

Renderers ==
    {MirrorFiles, CoreFiles, DockerFiles, PdClientFiles, PdRadvdFiles, PdUnitFiles, PdSysctl,
     PdNftFiles, FirewallFiles, DnsFiles, DhcpFiles, ChinaFiles, ChinaCronFiles, ResolvFiles,
     CronFiles, IpListFiles, CollectdFiles, WgsdFiles}
File == UNION {DOMAIN r : r \in Renderers}
Renders == [f \in File |-> (CHOOSE r \in Renderers : f \in DOMAIN r)[f]]

\* The settings that decide which steps a plugin takes.
Switches == {<<"network", "cloudInit">>, <<"pd", "enabled">>, <<"china", "enabled">>,
             <<"china", "cron">>, <<"ipList", "enabled">>, <<"collectd", "enabled">>}
Setting == Switches \cup UNION {Renders[f] : f \in File}

\* Settings have two values; firewall rules may also be such that they pass the
\* validation and nft rejects them.
Rejected == 2
Values(s) == IF s[2] = "rules" THEN 0..Rejected ELSE 0..1

\* A file holds what it was rendered from, and a tag where the code has two
\* renderers for one path or an alternative ("disabled").
Absent == [tag |-> "absent", from |-> {}]
Content(tag, settings, conf) == [tag |-> tag, from |-> {<<s, conf[s]>> : s \in settings}]

-----------------------------------------------------------------------------
(* Services: what they read when they start.  Unit files are read by       *)
(* systemd, at daemon-reload.                                              *)

Reads ==
    [hostname |-> {"hostname"}, sysctl |-> {"sysctl"}, docker |-> {"daemonJson"},
     systemd |-> {"pdUnit", "wgsdUnit", "dockerHook"},
     pd |-> {"dhcp6c", "dhcp6cScript", "duid"}, radvd |-> {"radvd"},
     nft |-> {"nftEntry", "nftFirewall", "nftPd"},
     dnsmasq |-> {"dnsmasqConf", "dnsConf", "dhcpConf", "chinaConf", "chinaManual"},
     collectd |-> {"collectdConf"}, wgsd |-> {"corefile"}]
Service == DOMAIN Reads
\* Not services, but what a boot reads again in any case.
AtBoot == {"hostname", "sysctl", "systemd"}

\* Services that their packages start and DROS does not want.
Distro == {"tailscaled", "wideDhcp"}

\* The packages of these plugins: the services that installing them starts.
Packages == [plugin \in {"system.mirror", "network.core", "system.utilities",
                         "monitoring.collectd", "docker.core"} |->
                 CASE plugin = "network.core" -> {"dnsmasq"} \cup Distro
                   [] plugin = "monitoring.collectd" -> {"collectd"}
                   [] plugin = "docker.core" -> {"docker"}
                   [] OTHER -> {}]

VARIABLES
    conf,        \* setting -> value: the YAML
    disk,        \* file -> content
    up,          \* services that run
    stale,       \* <<service, file>>: the file was changed since the service started
    boot,        \* services that are enabled, so that a boot starts them
    pkgs,        \* plugins whose packages are installed
    index,       \* the source lists at the last apt-get update
    cached,      \* version of the China names downloads in the cache
    coredns,     \* /usr/local/bin/coredns exists
    run,         \* the gw command or event in progress
    china,       \* gw dnsmasq china-names update in progress: its place and config
    applied,     \* history: objects applied by a plugin since their last edit
    cut,         \* history: plugins (or "china") stopped after they had changed a file
    behind,      \* history: gw update has put older China names over newer ones
    last,        \* history: the run that ended, until something else happens
    edits, runs, other

machine == <<disk, up, stale, boot, pkgs, index, cached, coredns>>
counters == <<edits, runs, other>>
vars == <<conf, machine, run, china, applied, cut, behind, last, counters>>

-----------------------------------------------------------------------------
(* The plugins: the steps of their update, bootstrap and apply functions.  *)

\* A command runs if something in "if" was changed in this call of the plugin
\* ("always" counts as changed), and not if something in "unless" was.
Step(op, on) == [op |-> op, on |-> on, what |-> Absent, if |-> {"always"}, unless |-> {}]
Write(f, content) == [Step("write", f) EXCEPT !.what = content]
Delete(f) == Write(f, Absent)
Plain(f) == Write(f, Content("", Renders[f], conf))
Off(f) == Write(f, Content("disabled", {}, conf))
If(things, step) == [step EXCEPT !.if = things]
When(cond, steps) == IF cond THEN steps ELSE <<>>
On(object) == conf[<<object, "enabled">>] = 1

\* Slip: the package indexes are not marked stale by a new source list.
SystemMirrorNotStale ==
    <<Plain("aptList"), Delete("debianSources"), Step("install", "system.mirror"), Plain("aptKeys"),
      Plain("dockerList"), Plain("tailscaleList")>>
SystemMirror ==
    <<Plain("aptList"), Delete("debianSources"), Step("install", "system.mirror"), Plain("aptKeys"),
      Plain("dockerList"), Plain("tailscaleList"), If({"dockerList", "tailscaleList"}, Step("stale", "index"))>>

\* Bound: a machine with cloud-init, and wide_dhcpv6_client_service not set.  The
\* hostname command is passed over when the kernel has the name already.
NetworkCore ==
    <<Plain("hostname"), Plain("hosts"), Plain("cloudHostname")>>
    \o (IF conf[<<"network", "cloudInit">>] = 1 THEN <<Plain("cloudNet"), Delete("cloudIfaces")>>
                                                ELSE <<Delete("cloudNet")>>)
    \o <<Plain("sysctl"), Plain("dnsmasqConf"), Plain("logrotate"), Plain("avahi"),
         Step("install", "network.core"),
         Step("tryDisable", "tailscaled"), Step("tryDisable", "wideDhcp"),
         If({"hostname"}, Step("restart", "hostname")), If({"sysctl"}, Step("restart", "sysctl"))>>

\* _apply_ipv6pd: an event forces the restarts.  Either a restart or enable --now.
\* Bound: duid and accept_ra are always set, to one of two values.
PdSteps(force, clientFiles) ==
    LET always == IF force THEN {"always"} ELSE {}
        restart(s, files) ==
            <<If(files \cup always, Step("restart", s)),
              [Step("enable", s) EXCEPT !.unless = files \cup always]>>
    IN IF ~On("pd")
       THEN <<Off("dhcp6c"), Off("radvd"), Off("nftPd"),
              Step("tryDisable", "pd"), Step("tryDisable", "radvd")>>
       ELSE <<Plain("dhcp6c"), Plain("dhcp6cScript"), Plain("duid"), Plain("radvd"),
              Plain("pdUnit"), Plain("pdHooks"), Plain("nftPd"),
              If({"pdUnit"}, Step("restart", "systemd")), Plain("acceptRa")>>
            \o restart("pd", clientFiles) \o restart("radvd", {"radvd"})
            \o <<If({"nftPd"} \cup always, Step("loadIfThere", "nft"))>>
\* Slip: a new DUID restarts nothing.
Ipv6PdNoDuid(force) == PdSteps(force, {"dhcp6c", "dhcp6cScript"})
Ipv6Pd(force) == PdSteps(force, {"dhcp6c", "dhcp6cScript", "duid"})

Firewall(sel) ==
    LET changed == {"nftEntry", "nftFirewall"}
    IN <<Plain("nftEntry"), Write("nftFirewall", Content("", sel \X {"rules"}, conf)),
         If(changed, Step("load", "nft")), If(changed, Step("enable", "nft"))>>

\* update of the dnsmasq plugin, its objects in the order of their kinds.
Dnsmasq(sel) ==
    LET names == <<IF On("china") THEN Write("chinaConf", Content("gw", Renders["chinaConf"], conf))
                                  ELSE Off("chinaConf"),
                   IF On("china") THEN Write("chinaManual", Content("gw", Renders["chinaManual"], conf))
                                  ELSE Off("chinaManual"),
                   IF On("china") /\ conf[<<"china", "cron">>] = 1
                   THEN Plain("chinaCron") ELSE Delete("chinaCron")>>
        dns == <<Plain("dnsConf")>> \o
               When(conf[<<"dns", "logFile">>] = 1,
                    <<Write("logrotate", Content("dnsmasq", {}, conf))>>)
    IN When("china" \in sel, names) \o When("dhcp" \in sel, <<Plain("dhcpConf")>>)
       \o When("dns" \in sel, dns)
       \o <<If({"chinaConf", "chinaManual", "chinaCron", "dhcpConf", "dnsConf", "logrotate"},
               Step("restart", "dnsmasq"))>>

\* Slip: the service is restarted whatever changed.
CollectdAlways(install) ==
    <<IF On("collectd") THEN Plain("collectdConf") ELSE Off("collectdConf")>>
    \o When(install, <<Step("install", "monitoring.collectd")>>)
    \o <<Step(IF On("collectd") THEN "restart" ELSE "disable", "collectd")>>
Collectd(install) ==
    LET changed == {"collectdConf", "packages"}
    IN <<IF On("collectd") THEN Plain("collectdConf") ELSE Off("collectdConf")>>
       \o When(install, <<Step("install", "monitoring.collectd")>>)
       \o IF On("collectd")
          THEN <<If(changed, Step("restart", "collectd")), If(changed, Step("enable", "collectd"))>>
          ELSE <<If(changed, Step("disable", "collectd"))>>

\* Slip: the unit is started and not enabled.
WgsdNotEnabled ==
    <<Plain("corefile")>> \o
    When(coredns, <<Plain("wgsdUnit"), If({"wgsdUnit"}, Step("restart", "systemd")),
                    If({"corefile", "wgsdUnit"}, Step("restart", "wgsd"))>>)
Wgsd ==
    LET changed == {"corefile", "wgsdUnit"}
    IN <<Plain("corefile"), IF coredns THEN Plain("wgsdUnit") ELSE Delete("wgsdUnit"),
         If({"wgsdUnit"}, Step("restart", "systemd"))>>
       \o When(coredns, <<If(changed, Step("restart", "wgsd")), If(changed, Step("enable", "wgsd"))>>)

DockerCore ==
    <<Plain("daemonJson"), Plain("dockerHook"), Step("install", "docker.core"),
      If({"dockerHook"}, Step("restart", "systemd")), If({"daemonJson"}, Step("restart", "docker"))>>

IpLists == <<IF On("ipList") THEN Plain("ipListCron") ELSE Delete("ipListCron")>>
ResolvConf == <<Plain("resolvConf")>>
ConfigResources == <<Plain("cronJob")>>
SystemUtilities == <<Step("install", "system.utilities")>>

Script(mode, plugin, sel) ==
    CASE plugin = "system.mirror" -> SystemMirror
      [] plugin = "network.core" -> NetworkCore
      [] plugin = "network.ipv6pd" -> Ipv6Pd(mode = "event")
      [] plugin = "network.firewall" -> Firewall(sel \cap Kinds[plugin])
      [] plugin = "network.resolvconf" -> ResolvConf
      [] plugin = "network.dnsmasq" -> Dnsmasq(sel)
      [] plugin = "ip_lists" -> IpLists
      [] plugin = "config.resources" -> ConfigResources
      [] plugin = "system.utilities" -> SystemUtilities
      [] plugin = "monitoring.collectd" -> Collectd(mode = "bootstrap")
      [] plugin = "network.wgsd-coredns" -> Wgsd
      [] plugin = "docker.core" -> DockerCore

\* The plugins a run goes through: those with a bootstrap hook; those with an
\* update hook and a selected object; the one that handles the event.
BootstrapHook == {"system.mirror", "network.core", "system.utilities", "monitoring.collectd",
                  "network.wgsd-coredns", "docker.core"}
Plugins(mode, sel) ==
    LET takesPart(p) == CASE mode = "bootstrap" -> p \in BootstrapHook
                          [] mode = "update" -> p # "docker.core" /\ Kinds[p] \cap sel # {}
                          [] mode = "event" -> p = "network.ipv6pd" /\ On("pd")
    IN {p \in Plugin : takesPart(p)}

-----------------------------------------------------------------------------
(* What the steps do.                                                      *)

Stale(files) == {x \in Service \X files : x[2] \in Reads[x[1]] /\ x[1] \in up}
Of(services) == {x \in stale : x[1] \in services}
Start(services) == up' = up \cup services /\ stale' = stale \ Of(services)
Stop(services) == up' = up \ services /\ stale' = stale \ Of(services)
SourceLists == {<<f, disk[f]>> : f \in {"aptList", "debianSources", "dockerList", "tailscaleList"}}

\* nft refuses the whole batch when one rule is bad; a missing fragment is fine.
Loads == \A x \in disk["nftFirewall"].from : x[2] # Rejected
FirewallThere == disk["nftEntry"] # Absent /\ disk["nftFirewall"] # Absent

\* The China names are rendered from a version of the downloads, now the cached one.
OfNames(step) == step.on = "chinaConf" /\ step.what.tag # "disabled"
Names(step, n) == [step.what EXCEPT !.from = @ \cup {<<<<"china", "cached">>, n>>}]
Rendered(step) == IF OfNames(step) THEN Names(step, cached) ELSE step.what

\* Slip: a file that nobody writes any more is left where it is.
DueNoDelete(step, changed) ==
    /\ step.if \cap (changed \cup {"always"}) # {}
    /\ step.unless \cap (changed \cup {"always"}) = {}
    /\ CASE step.op = "write" -> disk[step.on] # step.what /\ step.what # Absent
         [] step.op = "install" -> step.on \notin pkgs
         [] step.op = "enable" -> step.on \notin boot \cap up
         [] step.op = "tryDisable" -> step.on \in boot \cup up \/ "packages" \in changed
         [] OTHER -> TRUE
\* A step that changes nothing is passed over with the step before it; writes to
\* the files of the China names updater are not, since that may come between.
Due(step, changed) ==
    /\ step.if \cap (changed \cup {"always"}) # {}
    /\ step.unless \cap (changed \cup {"always"}) = {}
    /\ CASE step.op = "write" -> disk[step.on] # step.what \/ step.on \in DOMAIN ChinaFiles
         [] step.op = "install" -> step.on \notin pkgs
         [] step.op = "enable" -> step.on \notin boot \cap up
         [] step.op = "tryDisable" -> step.on \in boot \cup up \/ "packages" \in changed
         [] OTHER -> TRUE
Rest(steps, changed) ==
    LET i == SelectInSeq(steps, LAMBDA s : Due(s, changed))
    IN IF i = 0 THEN <<>> ELSE SubSeq(steps, i, Len(steps))

Idle == [mode |-> "idle", sel |-> {}, todo |-> {}, at |-> "", steps |-> <<>>, changed |-> {},
         names |-> {}, fresh |-> FALSE, alone |-> FALSE, again |-> FALSE, did |-> {}]
Running == run.mode # "idle"
None == [mode |-> "none", sel |-> {}]
NoChina == [pc |-> "off", from |-> [servers |-> 0, manual |-> 0], names |-> 0,
            changed |-> FALSE]
Bootstrapped == pkgs = DOMAIN Packages

-----------------------------------------------------------------------------
(* Steps of a run.                                                         *)

Now == Head(run.steps)
\* The run goes on behind its current step, which changed these things.
GoOn(changed, did) ==
    run' = [run EXCEPT !.changed = @ \cup changed, !.did = @ \cup did, !.names = {},
                       !.steps = Rest(Tail(@), run.changed \cup changed)]

\* Bound: the China names updater runs beside a run only while that has the dnsmasq
\* plugin in hand or still to call.
Meets(todo) == "network.dnsmasq" \in todo

\* gw update and gw bootstrap hold the apply lock; the event runs in drosd, which
\* holds it too.  The event comes from the hooks on the disk.
Begin(mode, sel) ==
    /\ ~Running /\ runs < MaxRuns
    /\ mode # "bootstrap" => Bootstrapped
    /\ mode = "event" => disk["pdHooks"] # Absent
    /\ china.pc # "off" => Meets(Plugins(mode, sel))
    /\ runs' = runs + 1 /\ last' = None
    /\ run' = [Idle EXCEPT !.mode = mode, !.sel = sel,
                           !.todo = Plugins(mode, sel),
                           !.alone = (china.pc = "off"),
                           !.again = mode # "event" /\ last = [mode |-> mode, sel |-> sel]]
    /\ UNCHANGED <<conf, machine, china, applied, cut, behind, edits, other>>

\* These plugins have returned: their objects are applied; a firewall update drops
\* the objects it does not select from the ruleset.
Returned(plugins) ==
    LET dropped == IF "network.firewall" \in plugins THEN Kinds["network.firewall"] ELSE {}
    IN (applied \ dropped) \cup ((UNION {Kinds[p] : p \in plugins}) \cap run.sel)

\* The next plugin is called; those that find nothing to do are passed over.
StepsOf(p) == Rest(Script(run.mode, p, run.sel), {})
At == {run.at} \cap Plugin
NextPlugin ==
    /\ Running /\ run.steps = <<>> /\ run.todo # {}
    /\ \/ \E p \in run.todo : LET passed == {q \in run.todo : Place[q] < Place[p]} IN
             /\ StepsOf(p) # <<>> /\ \A q \in passed : StepsOf(q) = <<>>
             /\ applied' = Returned(At \cup passed)
             /\ run' = [run EXCEPT !.at = p, !.todo = @ \ (passed \cup {p}), !.changed = {},
                                   !.steps = StepsOf(p)]
       \/ /\ \A p \in run.todo : StepsOf(p) = <<>>
          /\ applied' = Returned(At \cup run.todo)
          /\ run' = [run EXCEPT !.at = "", !.todo = {}, !.changed = {}]
    /\ UNCHANGED <<conf, machine, china, cut, behind, last, counters>>

End ==
    /\ Running /\ run.steps = <<>> /\ run.todo = {}
    /\ applied' = Returned(At)
    /\ last' = IF run.alone THEN [mode |-> run.mode, sel |-> run.sel] ELSE None
    /\ run' = Idle
    /\ UNCHANGED <<conf, machine, china, cut, behind, counters>>

\* The cached China names are read and rendered before write_file is called: the
\* updater may refresh the cache and the file before the text in hand is written.
Render ==
    /\ run.steps # <<>> /\ Now.op = "write" /\ OfNames(Now) /\ run.names = {}
    /\ run' = [run EXCEPT !.names = {cached}]
    /\ UNCHANGED <<conf, machine, china, applied, cut, behind, last, counters>>

\* What write_file is called with: nothing while the names are still to be rendered.
Texts == IF OfNames(Now) THEN {Names(Now, n) : n \in run.names} ELSE {Now.what}

\* write_file and delete_file.  (The updater writing between the comparison and the
\* write of this file is as if it had written before, but for a restart too many.)
WriteFile ==
    /\ run.steps # <<>> /\ Now.op = "write"
    /\ \E new \in Texts :
          LET changed == IF new = disk[Now.on] THEN {} ELSE {Now.on}
          IN /\ disk' = [disk EXCEPT ![Now.on] = new]
             /\ stale' = stale \cup Stale(changed)
             /\ GoOn(changed, changed)
    /\ behind' = IF Now.on = "chinaConf" THEN ~(run.names \subseteq {cached}) ELSE behind
    /\ UNCHANGED <<conf, up, boot, pkgs, index, cached, coredns, china, applied, cut, last, counters>>

\* apt-get update, unless this executor has done it since the indexes were last
\* stale, then apt-get install; the packages start and enable their services.
Install ==
    /\ run.steps # <<>> /\ Now.op = "install"
    /\ index' = IF run.fresh THEN index ELSE SourceLists
    /\ pkgs' = pkgs \cup {Now.on}
    /\ Start(Packages[Now.on])
    /\ boot' = boot \cup Packages[Now.on]
    /\ run' = [run EXCEPT !.changed = @ \cup {"packages"}, !.did = @ \cup {"packages"},
                          !.fresh = TRUE,
                          !.steps = Rest(Tail(@), run.changed \cup {"packages"})]
    /\ UNCHANGED <<conf, disk, cached, coredns, china, applied, cut, behind, last, counters>>

MarkStale ==
    /\ run.steps # <<>> /\ Now.op = "stale"
    /\ run' = [run EXCEPT !.fresh = FALSE, !.steps = Rest(Tail(@), run.changed)]
    /\ UNCHANGED <<conf, machine, china, applied, cut, behind, last, counters>>

\* systemctl restart, daemon-reload, hostname, sysctl --system, nft -f.
Restart ==
    /\ run.steps # <<>> /\ Now.op \in {"restart", "load", "loadIfThere"}
    /\ Now.on = "nft" => Loads
    /\ LET skip == Now.op = "loadIfThere" /\ ~FirewallThere
       IN /\ Start(IF skip THEN {} ELSE {Now.on})
          /\ GoOn({}, IF skip THEN {} ELSE {Now.on})
    /\ UNCHANGED <<conf, disk, boot, pkgs, index, cached, coredns, china, applied, cut, behind, last, counters>>

\* systemctl enable, where it is followed or preceded by a start.
Enable ==
    /\ run.steps # <<>> /\ Now.op = "enable"
    /\ boot' = boot \cup {Now.on}
    /\ Start({Now.on} \ up)
    /\ GoOn({}, {})
    /\ UNCHANGED <<conf, disk, pkgs, index, cached, coredns, china, applied, cut, behind, last, counters>>

\* systemctl disable --now; without check=True a failure goes unnoticed.
Disable ==
    /\ run.steps # <<>> /\ Now.op \in {"disable", "tryDisable"}
    /\ \/ /\ boot' = boot \ {Now.on}
          /\ Stop({Now.on})
          /\ UNCHANGED <<cut, other>>
       \/ /\ Now.op = "tryDisable" /\ other < MaxOther
          /\ cut' = cut \cup {run.at} /\ other' = other + 1
          /\ UNCHANGED <<boot, up, stale>>
    /\ GoOn({}, {Now.on} \cap up)
    /\ UNCHANGED <<conf, disk, pkgs, index, cached, coredns, china, applied, behind, last,
                   edits, runs>>

\* The current command fails or the process is killed: the exception ends the run
\* and what was done stays done.  A rejected ruleset always ends it.  (A run
\* that ends before it has done anything is no run.)
Cut ==
    /\ Running /\ run.did # {}
    /\ \/ other < MaxOther /\ other' = other + 1
       \/ run.steps # <<>> /\ Now.on = "nft" /\ Now.op # "enable" /\ ~Loads /\ UNCHANGED other
    /\ cut' = IF run.changed = {} THEN cut ELSE cut \cup {run.at}
    /\ run' = Idle
    /\ UNCHANGED <<conf, machine, china, applied, behind, last, edits, runs>>

-----------------------------------------------------------------------------
(* gw dnsmasq china-names update, which takes no lock.  Bound: one at a time. *)

ChinaBegin ==
    /\ Running => Meets({run.at} \cup run.todo)
    /\ china.pc = "off" /\ On("china") /\ Bootstrapped /\ other < MaxOther
    /\ other' = other + 1
    /\ china' = [pc |-> "fetch", changed |-> FALSE, names |-> 0,
                 from |-> [servers |-> conf[<<"china", "servers">>], manual |-> conf[<<"china", "manual">>]]]
    /\ run' = IF Running THEN [run EXCEPT !.alone = FALSE, !.again = FALSE] ELSE run
    /\ last' = None
    /\ UNCHANGED <<conf, machine, applied, cut, behind, edits, runs>>

\* A download that fails leaves the cached file as it is.  Nothing else writes the
\* cache, so that it does not matter when the updater renders it.
ChinaFetch ==
    /\ china.pc = "fetch"
    /\ cached' \in {cached, cached + 1}
    /\ china' = [china EXCEPT !.pc = "chinaConf", !.names = cached']
    /\ UNCHANGED <<conf, disk, up, stale, boot, pkgs, index, coredns, run, last, applied, cut, behind, counters>>

ChinaContent(f) ==
    [tag |-> "runtime",
     from |-> {<<<<"china", "servers">>, china.from.servers>>,
               IF f = "chinaConf" THEN <<<<"china", "cached">>, china.names>>
                                  ELSE <<<<"china", "manual">>, china.from.manual>>}]
ChinaWrite ==
    /\ china.pc \in DOMAIN ChinaFiles
    /\ disk' = [disk EXCEPT ![china.pc] = ChinaContent(china.pc)]
    /\ stale' = stale \cup Stale(IF disk' = disk THEN {} ELSE {china.pc})
    /\ LET changed == china.changed \/ disk' # disk
       IN china' = [china EXCEPT !.changed = changed,
                                 !.pc = CASE china.pc = "chinaConf" -> "chinaManual"
                                          [] changed -> "restart" [] OTHER -> "off"]
    /\ behind' = (behind /\ china.pc # "chinaConf")
    /\ UNCHANGED <<conf, up, boot, pkgs, index, cached, coredns, run, last, applied, cut, counters>>

ChinaRestart ==
    /\ china.pc = "restart"
    /\ Start({"dnsmasq"})
    /\ china' = NoChina
    /\ UNCHANGED <<conf, disk, boot, pkgs, index, cached, coredns, run, last, applied, cut, behind, counters>>

ChinaCut ==
    /\ china.pc # "off"
    /\ cut' = cut \cup {"china"}
    /\ china' = NoChina
    /\ UNCHANGED <<conf, machine, run, applied, behind, last, counters>>

-----------------------------------------------------------------------------
(* The administrator and the machine.                                      *)

\* An edit under a running China names updater outdates what the updater read.
Edit ==
    /\ ~Running /\ edits < MaxEdits
    /\ \E s \in Setting :
          /\ \E v \in Values(s) \ {conf[s]} : conf' = [conf EXCEPT ![s] = v]
          /\ applied' = applied \ {s[1]}
          /\ cut' = IF s[1] = "china" /\ china.pc # "off" THEN cut \cup {"china"} ELSE cut
    /\ edits' = edits + 1 /\ last' = None
    /\ UNCHANGED <<machine, run, china, behind, runs, other>>

\* gw install wgsd-coredns, between two runs; the plugin applies it at its next one.
InstallCoredns ==
    /\ ~Running /\ ~coredns
    /\ coredns' = TRUE
    /\ applied' = applied \ {"wgsd"} /\ last' = None
    /\ UNCHANGED <<conf, disk, up, stale, boot, pkgs, index, cached, run, china, cut, behind, counters>>

-----------------------------------------------------------------------------
(* What a full bootstrap and update would leave.                           *)

Writes(plugin) == {w \in ToSet(Script("bootstrap", plugin, Object)) : w.op = "write"}

\* The plugin that declares a file in managed_files.
Owner(f) ==
    CASE f \in DOMAIN MirrorFiles -> "system.mirror"
      [] f \in DOMAIN CoreFiles -> "network.core"
      [] f \in UNION {DOMAIN r : r \in {PdClientFiles, PdRadvdFiles, PdUnitFiles, PdSysctl,
                                        PdNftFiles}} -> "network.ipv6pd"
      [] f \in DOMAIN FirewallFiles -> "network.firewall"
      [] f \in DOMAIN ResolvFiles -> "network.resolvconf"
      [] f \in UNION {DOMAIN r : r \in {DnsFiles, DhcpFiles, ChinaFiles, ChinaCronFiles}}
            -> "network.dnsmasq"
      [] f \in DOMAIN IpListFiles -> "ip_lists"
      [] f \in DOMAIN CronFiles -> "config.resources"
      [] f \in DOMAIN CollectdFiles -> "monitoring.collectd"
      [] f \in DOMAIN WgsdFiles -> "network.wgsd-coredns"
      [] f \in DOMAIN DockerFiles -> "docker.core"

SwitchedOff(s) ==
    \/ s \in {"pd", "radvd"} /\ ~On("pd")
    \/ s = "collectd" /\ ~On("collectd")
    \/ s = "wgsd" /\ ~coredns

Begins ==
    \/ \E sel \in Targets : Begin("update", sel)
    \/ Begin("bootstrap", Object)
    \/ Begin("event", {"pd"})

\* A machine that has been set up, with everything or with the switches off.
Steady ==
    /\ \E on \in 0..1 : conf = [s \in Setting |-> IF s \in Switches THEN on ELSE 1]
    /\ cached = 1 /\ coredns = TRUE
    /\ disk = [f \in File |-> LET written == {w \in Writes(Owner(f)) : w.on = f}
                              IN IF written = {} THEN Absent ELSE Rendered(CHOOSE w \in written : TRUE)]
    /\ up = {s \in Service : ~SwitchedOff(s)}
    /\ boot = up \ AtBoot
    /\ pkgs = DOMAIN Packages /\ index = SourceLists
    /\ applied = Object

\* A new machine, with or without the packages already there.
New ==
    /\ conf = [s \in Setting |-> 1]
    /\ cached = 0 /\ coredns = FALSE
    /\ disk = [f \in File |-> IF f \in {"debianSources", "cloudIfaces"}
                              THEN Content("distro", {}, conf) ELSE Absent]
    /\ pkgs \in {{}, DOMAIN Packages} /\ index = {}
    /\ boot = UNION {Packages[p] : p \in pkgs}
    /\ up = boot \cup AtBoot
    /\ applied = {}

\* Bound: the configuration of a new machine is not edited.
Init ==
    /\ \/ Steady /\ edits = 0
       \/ New /\ edits = MaxEdits
    /\ stale = {} /\ run = Idle /\ china = NoChina /\ cut = {} /\ behind = FALSE /\ last = None
    /\ runs = 0 /\ other = 0

Next ==
    \/ Begins \/ NextPlugin \/ End
    \/ Render \/ WriteFile \/ Install \/ MarkStale \/ Restart \/ Enable \/ Disable \/ Cut
    \/ ChinaBegin \/ ChinaFetch \/ ChinaWrite \/ ChinaRestart \/ ChinaCut
    \/ Edit \/ InstallCoredns

Spec == Init /\ [][Next]_vars

-----------------------------------------------------------------------------
(* Properties.                                                             *)

\* The variables have their types, and a plugin sees only changes of its own
\* (the *_changed locals of the update functions).
TypeOK ==
    /\ DOMAIN conf = Setting /\ \A s \in Setting : conf[s] \in Values(s)
    /\ DOMAIN disk = File /\ \A f \in File : DOMAIN disk[f] = {"tag", "from"}
    /\ up \cup boot \subseteq Service \cup Distro /\ stale \subseteq up \X File /\ pkgs \subseteq DOMAIN Packages
    /\ applied \subseteq Object /\ cut \subseteq Plugin \cup {"china"} /\ behind \in BOOLEAN
    /\ \A f \in run.changed \ {"packages", "logrotate"} : f \in File /\ Owner(f) = run.at

Quiet == ~Running /\ china.pc = "off"
Settled(s) ==
    \A f \in Reads[s] : Owner(f) \notin cut /\ Kinds[Owner(f)] \subseteq applied

\* After any order of full and targeted updates, bootstraps and events, a
\* service runs with the files that are on the disk once its objects have been
\* applied: no plugin forgets to restart what reads a file it changed, and what the
\* distribution starts and DROS does not want is off.  Not so for
\* a plugin that was stopped between the two (the files then match and nothing is
\* restarted), nor for the nft fragment of a prefix delegation that is off.
ServicesRunTheirFiles ==
    Quiet =>
    /\ \A s \in Service \ {"dnsmasq", "wgsd"} : Settled(s) =>
          /\ s \in up <=> ~SwitchedOff(s)
          /\ Of({s}) \subseteq IF On("pd") THEN {} ELSE {<<"nft", "nftPd">>}
    /\ "network" \in applied /\ "network.core" \notin cut => Distro \cap up = {}

\* dnsmasq has two writers, the plugin under the apply lock and the China names
\* updater without it: in whatever order their writes and restarts come, it ends up
\* running with the files on the disk.  Not so for dnsmasq.conf: network.core writes
\* it and restarts nothing, and a first bootstrap may come after the last restart.
DnsmasqRunsItsFiles ==
    Quiet /\ Settled("dnsmasq") /\ "china" \notin cut =>
        "dnsmasq" \in up /\ Of({"dnsmasq"}) \subseteq {<<"dnsmasq", "dnsmasqConf">>}

\* Applying the objects one by one, in any order and from any earlier state, leaves
\* the files of a full run: none depends on what was applied before.  The China
\* names may name either of their writers, and be of older downloads where gw update
\* has put the text it had rendered over what the updater wrote meanwhile.
AppliedIsOnDisk ==
    Quiet =>
    \A p \in Plugin \ cut : Kinds[p] \subseteq applied =>
        \A w \in Writes(p) :
            \/ w.on = "logrotate"
            \/ w.on = "wgsdUnit" /\ ~coredns
            \/ disk[w.on] = Rendered(w)
            \/ w.on \in DOMAIN ChinaFiles /\ ("china" \in cut \/ disk[w.on].from = Rendered(w).from)
            \/ w.on = "chinaConf" /\ behind /\ \E n \in 0..cached : disk[w.on].from = Names(w, n).from

\* A run that is repeated with nothing in between writes, restarts and installs
\* nothing (docs/bootstrap.md, Output And Idempotence).  The exception is the
\* logrotate file, which two plugins write once the DNS log file is set.  (The only
\* failures that do not end a run are those of stopping an unwanted service.)
RepeatChangesNothing ==
    run.again /\ cut \cap {"network.core", "network.ipv6pd"} = {} => run.did \subseteq
        IF conf[<<"dns", "logFile">>] = 1 THEN {"logrotate", "dnsmasq"} ELSE {}

\* The ipv6-refresh event heals whatever an interrupted update left behind: after
\* it the DHCPv6 client, radvd and nft run with the files on the disk.
EventHeals ==
    last.mode = "event" /\ On("pd") =>
        /\ {"pd", "radvd"} \subseteq up
        /\ Of({"pd", "radvd"} \cup IF FirewallThere THEN {"nft"} ELSE {}) = {}

\* Packages are installed from indexes that were read after the last change of the
\* source lists, in whichever plugin the list changed.
IndexesFresh == [][pkgs' # pkgs => index' = SourceLists]_vars

\* Once everything was applied without a cut, a reboot changes nothing: what was
\* started is also enabled and what was stopped is disabled.  Not so the DHCPv6
\* client and radvd, where a restart takes the place of enable --now: they stay
\* down until a hook brings the ipv6-refresh event.
RebootChangesNothing ==
    Quiet /\ cut = {} /\ applied = Object /\ coredns =>
        up \ {"pd", "radvd"} = (boot \cup AtBoot) \ {"pd", "radvd"}

=============================================================================
