# A verification model of DROS

DROS turns YAML configuration objects into the configuration of a Debian
gateway: `gw` (`src/src/dros/cli`) writes files and runs system commands,
ifupdown, ppp and docker hooks queue events with `gw hook`, and the daemon
`drosd` handles those events. This directory holds TLA+ modules of the parts
where several of these actors meet, the TLC runs that check them on small
instances, and proofs that TLAPS checks for every instance. Paths below are
relative to `src/src/dros/` unless they start with `docs/` or `tests/`, which
are under `src/`.

- [Inventory](#inventory)
- [Plan](#plan)
- [The modules and the code](#the-modules-and-the-code)
- [The runs](#the-runs)
- [Fairness](#fairness)
- [What is proved](#what-is-proved)
- [Where the code and its documents differ](#where-the-code-and-its-documents-differ)
- [What is not modelled](#what-is-not-modelled)

## Inventory

### Event queue, daemon and locks (`events.py`, `locks.py`, `daemon/main.py`)

State: the file `events.jsonl`, three lock files (`events-append.lock`,
`events-process.lock`, `gw-apply.lock`), and the batch a daemon has in memory.
Operations: `enqueue_event` appends a line under the append lock;
`process_event_queue`, every two seconds, takes the process and the apply lock
without waiting, reads the file, keeps the last line of each (event, interface)
pair, runs the handlers and then deletes what it has read from the file, which
meanwhile may have grown. Hooks, daemons and `gw` commands are separate
processes; `flock` releases what a dead one held.

Hard: appends during a batch, two daemons during a restart, a kill at any point
(the file is truncated and rewritten in two steps), coalescing against order,
starvation behind the apply lock, and the two ways to compute its path.

Correct means: no event is lost, none is repeated without a crash, a later
event of a link is never overtaken by an earlier one, one process at a time
changes the system, every event is handled in the end.

### XFRM transports (`plugins/network_xfrm.py`)

State: two states and two policies of the kernel per transport, or a systemd
unit that installs them. Operations: `handle_event` of the queued `xfrm-start`
and `xfrm-stop`, `gw start` and `gw stop`, `gw update`. A transport is shared by
several interfaces, so an event is a hint only: the handler looks at the links
and then runs four to eight `ip xfrm` commands one by one.

Hard: stale events, links that move between the look and the commands, commands
that fail half way, a unit that wants the lock its caller holds.

Correct means: no policy without its state, and when all is settled the
transport is there exactly if a link needs it.

### Delete (`delete.py`, `xfrm_delete.py`)

State: files with the hashes of the plan, links, kernel objects, units.
Operations: plan, check of the whole batch, then per resource, dependents
first: check, `ifdown`, check, `ip link delete`, check, disable the unit,
inspect and delete the kernel objects, verify and unlink the files,
`daemon-reload`. The first error ends the run; there is no rollback.

Hard: a failure or kill at any point and the second run after it, an operator
acting in between, events of the queue that revive what is being deleted.

Correct means: nothing is touched unless the whole batch passed its checks; the
configuration stays as long as the runtime does; a second run is never blocked
by what the first one did; what is reported done is gone; files that were
edited are kept.

### Interfaces (`plugins/network_interfaces.py`)

State: the numbered fragments of `/etc/network/interfaces.d`, auxiliary files
(`wireguard` .conf, ppp peers, `.ovpn`), an nft fragment per interface, the
links. Operations: `update` (order, migrate, write, reload or reconcile),
`handle_event`, docker networks and tailscale services.

Hard: what a run does depends on which files it has just changed, so a run cut
short between a write and its effect changes what the next one does; numbers
depend on all interfaces while an update may cover one; a reloaded parent takes
its VLANs down.

Correct means: after a successful update one fragment per interface, parents
read before VLANs, and links that match the source.

### Update runner, registry, executor, command line (`update.py`, `plugins/base.py`, `executor.py`, `cli/`)

`run_update` loads and validates everything before the first plugin runs;
`SystemExecutor` compares before it writes, records what it changed and raises
on a failing command. `gw` takes the apply lock for commands that change the
system. State: none of their own, but they decide the atomicity of all others.

A run is a plain loop over the plugins. Every plugin compares, writes, and runs
its commands only when a file changed *in this run*; the plugins share the
executor's memory of installed packages and fresh package indexes.

Hard: an end between a write and the command it asks for; one object applied
instead of all; files with two writers; a service that no longer has its files.

Correct means: a service runs with the files on the disk; the order in which
objects are applied does not show in the files; a repetition does nothing.

### Plugins of files and services (`plugins/`)

Network core, IPv6 prefix delegation, firewall, resolvconf, dnsmasq, IP list
cron, config resources, mirror, utilities, collectd, wgsd and docker core write
files, install packages and start services. The China names updater
(`dnsmasq_china_names.py`) is a second program that writes dnsmasq's files and
restarts it, from cron and without the apply lock. An `ipv6-refresh` event
restarts the DHCPv6 client and radvd.

### Routing and IP lists (`plugins/network_routing.py`, `ip_lists.py`)

State: route tables and policy rules in the kernel, names of tables in `/etc`,
downloaded lists of networks. Operations: `update`; `handle_event` of the
`route-refresh` event that if-up, if-down and ppp hooks and the list updater
queue; `gw hook --process-now`; `gw ip-list update`, without the apply lock. A refresh
looks at the links, then flushes and reloads every table, and then the rules.

Hard: links that move after the look, hooks that come before the link is
down, batches that fail half way, updaters that fail after some lists, two
refreshes at once.

Correct means: when nothing is going on, tables and rules are what the
configuration wants of the links and lists of now; no reader sees half a list.

### Docker (`plugins/docker_resources.py`, `plugins/docker_core.py`)

State: a compose project and generated files per object, its container, the
file of DNS records that dnsmasq serves. Operations: `update`, `handle_event`
of `docker-start`; docker gives a container an address when it starts it.

Hard: addresses that change with no event, an update cut between the files and
the restart.

Correct means: containers run the files on disk, names lead to the addresses
of now, a repetition restarts nothing.

### OpenVPN PKI (`ovpn.py`, `web/app.py`)

State: a CA, openssl's `index.txt` and `serial`, the CRL, certificates with a
`latest` link per profile, outputs, a record of revocations. Operations: `init`,
`create`, `update`, `renew`, `revoke`, `crl` as `gw ovpn` commands under the
apply lock, and as routes of the web API without it.

Hard: a kill between any two files; openssl reads the database and writes it
back later.

Correct means: no serial twice, what is recorded as revoked is revoked and
reaches the CRL, outputs hold the latest certificate.

### Configuration objects (`config_objects.py`, `kind_aliases.py`, `update.py`)

State: YAML documents in ordered directories. Operations: load (with or without
the disabled ones), look up, select the objects of a target. Correct means: for
each kind and name the enabled object of the last directory counts, whatever the
spelling, and both ways of loading agree.

### Parts without a model

The web API's sessions and dashboards, the frontend, the installer and the
invocation log; see [What is not modelled](#what-is-not-modelled).

### How they interact

Hooks in the fragments that the interfaces plugin writes call `gw hook`; the
queue delivers to the `handle_event` of interfaces, xfrm, docker, ipv6pd and
routing, in this order, in the daemon. `gw` commands and the daemon exclude each
other by `gw-apply.lock`; the China names updater, the IP list updater, the web
API and `gw hook --process-now` take no lock. The IP list updater ends with a
`route-refresh` event, docker's unit starts with `docker-start`. Dnsmasq reads
files of four writers: network core, the dnsmasq plugin, the China names
updater and docker's records. Delete removes what interfaces and xfrm
have written and must live with the events still queued.

## Plan

Modules in the order of importance, all of them written:

1. `EventQueue` with `EventLines`, `EventMailbox` (the abstract promise), and
   `EventLines_proofs`, `EventQueue_proofs`.
2. `XfrmLifecycle` (links, queue, kernel objects) and `XfrmSystemUnit` (unit and
   apply lock), with `MCXfrm_proofs`.
3. `DeleteApply`, with `DeleteApply_proofs`.
4. `InterfaceOrder`, `InterfaceOrderCheck`, `InterfaceUpdate`, with
   `MCUpdate_proofs`.
5. `PluginUpdate`: bootstrap, update and an event over twelve plugins, proved about
   in `MCUpdate_proofs` (what they write) and `PluginServices_proofs` (what they run).
6. `RouteRefresh`, `OvpnPki`: components with state of their own, with
   `RouteRefresh_proofs` and, for the PKI, `MCServices_proofs`.
7. `DockerApps` and `ConfigStore`, with `MCServices_proofs`.

What is left:

1. Proofs: the PKI with the routes of the web API that write no openssl database
   (every safety invariant the runs check is proved but for the sort, see below).
2. Models: docker networks and tailscale among the interfaces, interface
   events, the prefixes of IPv6 delegation, the offline mode of delete, web
   sessions.

## The modules and the code

Definitions have the names of the functions they model wherever there is one;
`PROJECT.json` maps each to its lines. Definitions introduced by "Slip:" are not
part of any specification: they are variants of the definition that follows
them, wrong in a way the code could be, and show that a property notices.

`EventLines` — the operators on the text of the queue file: the prefix test and
cut of `_delete_event_batch`, and the coalescing. `_coalesce_event_payloads` keeps
an insertion-ordered dict from which it deletes a key before it puts it again: the
entries are the last lines of their keys, in the order of the file, which is what
`Latest` says (the indices of those lines; `EventQueue` takes the smallest next).

`EventQueue` — `queue` is the file, `batch`, `todo`, `rest` what a daemon has in
memory (the text read, the coalesced payloads still to be handled, the text to
be written back), `pc` its place in `process_event_queue`. Lock acquisitions
that fail are early returns, as in the code. `write_text` is two steps
(`DeleteEventBatch` truncates, `WriteRemaining` writes). `Kill` may come between
any two steps. `RealRoot` and `ProcessNow` select the deployments that differ.
`starts`, `torn`, `lastId` are history variables and guard nothing.

`EventMailbox` — what callers of `gw hook` are promised, without files or locks:
requests are sent, served in order, forgotten only when served, and lost or
served again only by a crash. `EventQueue!Mailbox` is the refinement mapping.

`XfrmLifecycle` — one transport with manual activation. ifupdown brings links
up and down in two steps (the link, then the hook that queues the event), drosd
takes a batch, decides per event by looking at the links (`ScriptFor`) and runs
the commands one by one (`RunCommand`); links may change between any two of them
(the queue is the abstraction of `EventQueue` in which reading and deleting a
batch is atomic: justified by `NoForeignEdit` below). Links may carry another
kind or endpoint (`foreign`), which makes the handler fail.

`XfrmSystemUnit` — activation: system. One action per systemctl command of
`update`, the unit's own `gw start` and `gw stop` with the lock they cannot get,
reboots, a daemon that holds the lock, and edits between updates.

`DeleteApply` — a tunnel with its transport, a VLAN and its bridge. One action
per check and command of `apply_delete_plan` and `uninstall_xfrm`, any of which
may fail; `Kill`; then another run. The operator may edit a file, create a link
or kernel object that is in the way, or bring a link up; queued XFRM events are
handled only while `gw` does not hold the lock.

`InterfaceOrder` — `_sort_interface_objects`, the walk a recursive function as in
the code; `InterfaceOrderCheck` applies it to every graph. `InterfaceUpdate` — the loop of
`update` for ifupdown types. A file is the version of the source it was rendered
from; `changed` is what `write_file` returned in this iteration; `link` is what
the kernel has. `firewall` says whether the files of the firewall plugin are there, without
which no listen rules are loaded (`_firewall_has_been_applied`); `ApplyFirewall` is the
first update of a Firewall, which loads those of all interfaces. `cut` and `bounced` are
history: links and rules whose last run ended early, and VLANs that a reload of the parent
took down.

`PluginUpdate` — a plugin is the list of steps its function takes (`Ipv6Pd`,
`Firewall`, `Dnsmasq`, ...): writes, package installations and service
commands, the latter with the set of files that must have changed for them to
run (`If`). One action takes the next step (`WriteFile`, `Install`, `Restart`,
`Enable`, `Disable`, ...), and `Cut` ends the run in front of any of them, for a
failing command and for a kill. `disk[f]` holds the settings that were rendered into
`f`; `stale` holds the pairs of a service and a file that was written after the
service read it; `run.at` is the plugin that is called and `run.todo` those still to
come; `changed` is the plugin's own memory, `applied` and `cut` are history. Two files are no files: `acceptRa` is a sysctl and `pdHooks` four scripts
with one content. `Distro` are services that packages start and DROS does not
want. The China names updater has its own program counter (`china`) and no lock. Both it
and the dnsmasq plugin render the cached names before they call `write_file`: `Render`
and `WriteFile` are two steps (`run.names` is the version in hand, `china.names` the
updater's), and `behind` is history: `gw update` has put older names over newer ones.

`RouteRefresh` — `job[p]` is what a refresher has seen and still has to do: the
one that holds the apply lock (the daemon with an event, or `gw update`) and the
hooks that process at once. Links go up and down in two steps with the hook
between or after them (`moving`). A table is flushed and then loaded
(`RefreshStep`); lists are staged under a temporary name and renamed, source by
source. A table of the kernel is named by family and number. Nothing in the code
refuses two RouteTables with one family and number, or rule sets with overlapping
ranges: the properties speak of tables and ranges that one object has to itself
(`OwnTable`, `OwnRange`). Validation and rendering are operators (`ValidTable`,
`RouteBatch`, `RouteRaises`); a raw route or rule is text that `shlex.split` accepts or, with
an unclosed quote, refuses when it is rendered. `lost` records why the tables may be behind with no event
pending, `shared` the lists two updaters had open at once.

`DockerApps` — `WriteFiles`, `ComposeUp`, `Restart` for each project, then
`WriteDns` and `RestartDnsmasq`; the loop is at place `at` of the object list and
has the places `todo` before it; `TakeEvent` for docker-start; docker and the user
start and stop containers, which get new addresses. `owed`, `moved`, `owedDns` and
`clean` are history: what was cut off before it was done, and whether the last
thing that happened was a full update.

`OvpnPki` — a command is expanded into the list of its steps when it looks at
the files (`Expand`), each step is an action, and `Fail` may end it at each.
`ReadDatabase` and `Sign`, `Revoke` or `WriteCrl` are the two halves of an
`openssl ca` command. Sessions in `Cli` hold the lock, sessions in `Web` do not.

`ConfigStore` — documents in directories; `Load` and `LoadDir` are the two nested
loops of the code over them, with `AddDoc` inside; `Select` and `Resolve` read the result. The only action writes a document.

`MCXfrm`, `MCUpdate` and `MCServices` put components that do not share variables
into one run: which of them moves is chosen at the start (`life`, `part`), the
variables of the others rest. Each property of such a module names the component
and its definition there; where two definitions answer one question (that of
routes and that of rules, say) one property states both.

## The runs

| Run | Question | Answer |
|---|---|---|
| `queue_safety` | two overlapping daemons, gw commands, kills | nothing lost but what a kill tears, nothing repeated without one, order kept, one apply path; refines `EventMailbox` |
| `queue_liveness` | polls that give up, hooks with `--process-now` | `QueueInv` does not need the apply lock; every event is handled |
| `xfrm` | a transport with hooks: links, events, failures in any order | no policy without state (`HookPolicyHasState`), consistent when settled, a link that comes up gets its transport |
| | a transport with a unit and the lock | updates end (`UnitUpdateEnds`); a disabled transport leaves nothing |
| `delete_apply` | failures, retries, operators | five invariants and `EditedFileKept` |
| `update` | plugins: in full and for one object, edits, a failure or kill, an event, the China names updater | services run their files (`PluginServicesRunTheirFiles`), the order of targets does not show, a repetition does nothing, a reboot starts the same, packages come from fresh indexes |
| | interfaces: order, migration, write-then-apply, retries | one fragment each, parents first (`InterfaceFragmentsInOrder`); links follow unless a run was cut, wireguard peers always (`InterfaceLinksFollowSource`) |
| `services` | routing and lists: links, hooks, updaters, kills | `RoutesAreCurrent`, `RoutesListsAreWhole`, `ValidConfigsRender` |
| | docker: edits, restarts, cuts | containers run their files, names lead to them, a repetition is quiet |
| | PKI: commands under the lock, cut anywhere | `PkiRevokedStaysRevoked`, `PkiSerialsUnique`, `PkiLatestIsUsed` |
| | store: every sequence of three documents | `StoreLastEnabledWins`, of both loads and every target |
| | order: every graph over three interfaces | `OrderIsSorted`: topological and complete, or a cycle is found |
| `queue_two_locks`, `queue_replay`, `xfrm_unit_update`, `delete_command_error`, `interface_update_targeted`, `ovpn_web` | a sentence of the documents | violated, see below |

The mailbox also says that only a crash repeats a request and that between two
crashes each handler run serves a newer one, so these are not stated again.

Bounds, and why they are enough:

- Queue: four events of two keys. The shortest interesting batch has two equal
  keys and another one between them, and one more event must arrive while it is
  handled; two daemons are what a restart can overlap, one kill separates the
  behaviour before and after. The proofs do not depend on any bound.
- XFRM: three interfaces (one disabled), three ifup or ifdown runs. Stale
  start, stale stop and sharing each need two runs of at most two interfaces,
  the third is for their combinations. Interfaces that are up at the start save
  the runs that would bring them up.
- System unit: two edits allow any switch and its return, three updates one
  after each and a repetition.
- Delete: one resource of each kind that `apply_delete_plan` treats differently,
  two runs (first and retry), one fault, two operator actions (one before, one
  after a check).
- Interface order: three names have self loops, chains, diamonds without the
  bottom, two- and three-cycles, references to undefined interfaces, and every
  selection.
- Interface update: one interface of each kind that `update` treats differently
  (fragment only, with a dependent, wireguard, auxiliary file), two edits, two
  updates, one fault: a stale number takes one edit between two updates, a lost
  effect one fault and a repetition, after which the state repeats with higher
  versions. Edits happen between runs, since a run has read the source when it
  begins. The second fragment of `Leftover` exists only after a roll-back to the
  version that wrote unnumbered names. `interface_update_targeted` takes two
  ethernets and a VLAN instead, so that an interface can be added in front.
- Plugins: two runs (`MaxRuns`) of any kind (bootstrap, update of everything, of
  the prefix delegation, of one of two firewalls, of DNS, of the China names, or
  the event), one edit of any setting before or between them (`MaxEdits`), and
  one disturbance (`MaxOther`: a failure, a kill, or a run of the updater beside
  them). A lost restart takes one cut and one repetition; a file that depends on
  what was applied before takes two targets. Settings have two values,
  old and new; firewall rules a third, which nft refuses. A run begins on a
  new machine or on one where everything was applied, with all features on or
  off (`New`, `Steady`); only the latter is edited.
- Routing: one link of ifupdown and one of ppp, an IPv4 and an IPv6 table with
  a multipath gateway, lists and a blackhole, one rule set, and six ways to
  break this configuration; three events from outside (`MaxEvents`), since the
  longest known way to a stale table takes a link, a hook and one disturbance;
  two updaters, because one is never in its own way, one hook with
  `--process-now`, two versions of upstream's lists.
- Docker: two objects (a container with two kinds of mounts, an nginx app),
  three addresses, so that two containers may exchange theirs, seven
  configurations, four events (edit, update, cut, update).
- PKI: a server and one client, two sessions, seven commands, three certificates
  (a renewal and another profile's), two cuts: one that leaves something half
  done, one in the command that should finish it. The web session of `ovpn_web`
  is left out of `services`, where the lock holds.
- Store: three directories (below, same, above) and three documents of nine
  kinds: aliased, unnamed, disabled, malformed in the head or in the body.

Deadlock is checked in the queue's runs, where some process can always
move (a daemon polls for ever). In the others the bounds let the system come to
an end, so it is switched off; `UnitUpdateEnds` says that an update does
not wait for ever.

## Fairness

- `EventQueue!FairSpec`: weak fairness of each daemon's loop (it polls for ever,
  systemd restarts it) and of the end of each `gw` command. Nothing is assumed of
  the lock: a daemon that finds it busy has taken a step and may find it busy at
  every poll, so that `EventuallyHandled` needs the number of `gw` commands to be
  finite (`MaxApplies`). A gateway on which commands run back to back for ever
  may starve its daemon.
- `MCXfrm!XfrmSpec`, for a transport with hooks: weak fairness of the daemon, of
  the commands it runs and of a `gw` command's end; an ifup or ifdown that began
  runs its hooks. Nothing is assumed of operators and failures. For one with a
  unit: an update that began goes on, systemd runs the job it queued, the daemon
  ends its batch. These are the fairness conditions of `XfrmLifecycle!FairSpec`
  and `XfrmSystemUnit!FairSpec`, each for its own life.
- The other components are checked for safety only: their commands end or are cut,
  and what must hold is stated of the states where nothing is under way.

## What is proved

Eight modules hold proofs. Each theorem is of the specification a run checks, for
every value of its constants and bounds; `PROJECT.json` lists them with the
property of the run they state. An invariant that a run checks is seldom inductive:
each component has an invariant of its own that is (checked by TLC before it was
proved), one lemma per action that keeps it, and a short theorem per property that
follows from it.

**The event queue** (`EventQueue_proofs`, lemmas on texts in `EventLines_proofs`).
`TypeCorrect`, `QueueInvariant`, `EventsAreNotLost`, `NoForeignEdit`, `OneApplyPath`
(for `RealRoot` and without `ProcessNow`; `queue_two_locks` shows that the first is
needed, and a hook with `--process-now` takes no lock at all), `LastWordCorrect`, and
the refinement `QueueImplementsMailbox`: a caller of `gw hook` may rely on
`EventMailbox`, whatever daemons, hooks and kills there are.
The argument: deleting a batch is safe only because (a) every line of it
has been handled by then and (b) what is deleted is what was read. (b) is
`BatchIsPrefix`: only the holder of the process lock shortens the file, so a file that
started with the batch goes on doing so while hooks append to it. That needs
`HoldsLocks`, which ties each program position to the locks held there, and
`DaemonMemory`, which says that the remainder is in memory exactly while the file
is truncated. (a) is `BatchCovered`: each line of the batch was handled or has a line
of its own key still to be handled, since the last line of a key is kept
(`LatestCovers`). `LastWord` needs `LineOrder` besides: lines are in the order of their
numbers in the file, in memory and in what is to be written back. For the refinement
every step is mapped to a step of the mailbox or a stutter; a request is open while a
line for it is in the file or in the remainder.

**XFRM transports** (`MCXfrm_proofs`). For the life with hooks: `LockInv`
(a script is under way only under the lock), `OrderInv` (in what is left of a script a
state is deleted after its policy and a policy added after its state, so that
`HookPolicyHasState` holds at every command boundary) and `ServedInv` (a link that came
up or went away while nothing was done about it has an event in the file, in the
batch, or a script at work). For the life with a unit: `UpdateInv`, what each place of
an update knows of unit file, service and kernel; `UnitDisabledIsClean` follows.

**Delete** (`DeleteApply_proofs`). `DeleteInv` says how the batch is walked (`PlaceInv`),
that files which prove ownership outlive what they prove (`FilesInv`,
`ConfigOutlivesRuntime`), what each stage has established for the resource it is at
(`StageInv`, `ServiceInv`), what is left of those dealt with (`HandledInv`), and that the
run which is not interfered with finds nothing in its way (`AloneInv`,
`OwnWorkNeverInTheWay`). `EditsAreKept` is the action property `EditedFileKept`.
`AcyclicAssumption` is what `_ordered_selection` ensures before anything is planned: it
refuses a batch whose references form a cycle.

**Interfaces** (`MCUpdate_proofs`). `NetInv`: fragments of one interface agree until one
is written (`FragmentsAgree`), a link follows the files on disk unless it is on record
or being updated (`LinkInv`), listen rules likewise once there is a firewall
(`RulesLoaded`), what the
iteration has done at each place (`StageInv`), and what is left of the interfaces
dealt with (`DealtInv`). `FragmentsAreInOrder` and `LinksFollowSource` follow.
`SortAssumption` says that the sort puts the vlan behind its ethernet and keeps every
name once; TLC evaluates it in `update`, and `OrderIsSorted` is the general statement.

**Plugins: what they write** (`MCUpdate_proofs`). Every list of steps a plugin can give
writes only files that the plugin declares, installs only its own packages and commands
only services (`ScriptsOK`, one lemma per plugin); what is left of a list begins with
the first step that is due (`RestIs`). `PluginInv` adds what holds of the run
(`RunInv`), the types of the machine (`MachineInv`) and of the indexes (`MirrorInv`):
the mirror plugin is the first one, so it writes the Debian lists before the first
`apt-get update` of a run, and behind a list of Docker or Tailscale that it wrote later
the step that marks the indexes stale is still to come. `PackagesComeFresh` is the
action property `IndexesFresh`; `UpdateTypes` the types of both halves.

`AppliedStaysOnDisk` is `PluginAppliedIsOnDisk`: in whatever order the objects are
applied, the files are those of a full run, except that the China names may be of an
earlier download while `behind` is set. Its invariant is `WritesInv`: what the
plugin in hand has still to write is wanted (`StepsInv`) and what is wanted of it is
still to be written or on the disk (`ScriptInv`); the files of applied objects are on
the disk, but for the ruleset that a firewall update in progress has written for other
objects (`DiskInv`); and the China names updater, which reads the configuration once,
has read it as it is unless an edit under it is on record (`ChinaInv`). The names in hand
are of what was downloaded so far, and the updater's of the last download (`NamesInv`).
It rests on two
lemmas about the plugins: each list writes what `Want` says of the file it writes
(`ScriptsWanted`), and that depends on the settings of the file's own objects only
(`WantStays`).

**Plugins: what they run** (`PluginServices_proofs`). What a service runs with when a
run ends depends on where the commands stand in the list of its plugin.
`MCUpdate_proofs` says it once of each list: behind the write of a file stands, for each
service that reads it, a command to restart, load or stop it, but for the exceptions
that `Unread` names, and behind a command nothing is installed, and nothing written that
a service reads (`InOrder`); some commands are in a list in any case (`Must`).
`OrderInv` carries this over to what is left of the list in hand: steps are passed over
only when they are not due, and commands only when no such write is left before them.
`Goes` and `Does` then say of every step, once for all of them, how it shortens the list
and what it does to files, services and packages.

`ServeInv` is what holds on this ground at every moment: a service older than a file it
reads is excused, because a command to come will heal it (`Awaits`), its plugin or the
China names updater was cut or is about to restart it, or by a name in the property
(`StaleInv`); nft, wgsd, collectd, the DHCPv6 client and radvd run and are enabled as
their files say, or the commands are to come (`NftInv`, `WgsdInv`, `CollectdInv`,
`PdInv`); what the distribution starts is off (`DistroInv`); and an event restarts
whatever there is (`EventInv`). Each part is needed for its service: the files on the
disk alone do not say that a command is still owed, and `PluginServicesRunTheirFiles`
speaks of moments at rest only, which the steps between them do not preserve. The steps
fall into four classes with a lemma per part: steps of a list (`Goes`, `Does`), plugins
that return (`Returns`), runs that begin or are stopped and edits (`Puts`), the China
names updater beside them (`Beside`). `ServicesRunWithTheirFiles` and
`RebootStartsTheSame` follow from it and `WritesInv`.

`RepeatedRunsRest` needs an invariant about a run and the one before it: an undisturbed
command has done what the plugins behind it ask for (`Done`, `DoneInv`), no plugin
undoes what another one did (each file has one writer, but for the logrotate file), so
at its end all of it is done (`LastInv`) and stays so in the repetition, which has
nothing to do (`AgainInv`). An undisturbed run has no updater beside it, so what it
rendered is what is cached (`Current`). That no command is due in it follows from `Calm`: nothing in
the list of a gw command is done in any case, except writes and installations, which
find their result there, and stopping what is stopped already. The event's list is not
calm. TLC checked both invariants on the run `update` before they were
proved.

**PKI** (`MCServices_proofs`), under the hypothesis `Web = {}`: the routes of the web
API take no lock, and `ovpn_web` shows what that breaks. `PkiInv` says that a command is
under way in one session only, that the steps a command still has to take come in
an order that is safe (`ListsInOrder`), that the next one finds what it needs
(`NextIsReady`: the next serial is above every signed one, a revocation is in openssl's
database before it is on record), and how files and database relate (`FilesInv`).
`RevocationIsNotLost`, `SerialsAreUnique`, `LatestReachesOutput` follow.

**Routing and lists** (`RouteRefresh_proofs`). `ListsInv` follows temporary files and
those that two updaters had open at once. `RoutesInv`: each table (and range of
rules) is current, or some refresher will load it from links and lists of now, or
there is news (a link moving, an event, a list renamed) that brings another refresh,
or it is on record why not. `LoadedIsWanted` says that the batch of commands leaves
in the flushed table what the configuration asks for.

**Docker** (`MCServices_proofs`). `DockerInv`: what a container does not run or has not
read is being seen to or owed (`ContainersInv`), the records are right or will be
written (`RecordsInv`), and after a full update everything is as it would be written
again (`RepeatInv`). `UnchangedIsTheSame` is the lemma on data this rests on: mounts that
overwrite each other and report no change have left exactly the files that were
there. `ValidConfigsNeverRaise` is about the operators of both plugins' validation: routes
and rules of an accepted configuration raise exactly where the plugin does not look
(`UncheckedRoute`, `UncheckedRule`), containers and apps only there (`Docker!Unchecked`).

**The store** (`MCServices_proofs`). `Load` and `LoadDir` are recursive functions over
the directories and documents, so an induction over numbers does: `Built` says what a
load has made of the documents it has read (for every key the enabled object of the
last directory that has one), `Agree` how the loads with and without the disabled
objects compare, one lemma takes each over a document, one over a directory, and
`HoldsToTheEnd` to the end. `StoreIsRight` is `StoreLastEnabledWins` for any directories,
documents, aliases and targets.

**Types of the services** (`MCServices_proofs`). `ServicesTypes` is the type invariant
of all parts. Types alone are not inductive: `TypesHold` adds what bounds them. The next
serial of openssl is at most one above what was signed, and every revoked id was signed
before (`PkiBounded`); a refresher knows only links there are, an updater fetches only
sources of its list, and a list file holds only networks that a source of this list can
give (`RoutesTyped`); containers have addresses of docker's, and a compose file that is
there is the one of its own object (`DockerTyped`). The store needs that no name of a
kind is itself another spelling of a kind (`kind_aliases.py`), else a key could be
looked up under a kind it is not stored under.

Assumptions on constants, all evaluated by TLC: that names of processes, sessions and
"no one" differ (`EventQueueAssumption`, `DeleteAssumption`, `SessionsAssumption`,
`DockerAssumption`), that the store is given documents, aliases and targets
(`StoreAssumption`, with what is said of kinds above), that bounds are numbers (these and
`XfrmAssumption`, `UnitBoundsAssumption`, `UpdateBoundsAssumption`, `BoundsAssumption`), that lists are lists and families one of
two (`ListsAssumption`, `ConfigsAssumption`), that ranks differ (`RankAssumption`), and the
two named above, `AcyclicAssumption` and `SortAssumption`.

Only model-checked:

- Liveness under fairness (`EventuallyHandled`, `HookUpIsProtected`, `UnitUpdateEnds`), out
  of the prover's reach.
- `OrderIsSorted`: the walk of the sort is recursive with folds inside, and what a
  recursion computes for every input needs an induction over data that the provers
  cannot instantiate.
- The PKI with the web API beside it: the theorems about it have the hypothesis
  `Web = {}`, as the run `services` has, and `ovpn_web` shows what is false without it.

## Where the code and its documents differ

- `queue_two_locks`: `docs/bootstrap.md:77-79` says one apply path runs at a
  time. With another sysRoot the CLI and the daemon lock different files. (Nor
  does `gw hook --process-now`, which runs the handlers itself, take the lock.)
- `queue_replay`: `docs/bootstrap.md:69-72` says a restart does not replay
  events. A daemon killed inside a batch leaves the batch in the file.
- `xfrm_unit_update`: `docs/config-objects/XfrmTransport.md:51-53` describes
  `systemctl enable --now` followed by `gw start`. The unit's `gw start` is
  refused the lock that `gw update` holds, and the update fails.
- `delete_command_error`: `docs/delete.md` says a command error preserves the
  resource's configuration. The files are gone when `daemon-reload` fails.
- `interface_update_targeted`: `docs/config-objects/Interface.md:31` says the
  number of a fragment is generated from the dependencies. An update of one
  interface leaves the numbers of the others as they were.

- `ovpn_web`: `docs/openvpn.md:91-92` says that commands which write to the
  OpenVPN data directory take the global apply lock. The routes of the web API
  run the same functions without it: a revocation may be overwritten by an
  openssl that had read the database before, and is then on record only.

Known from the models and left out of the properties by name, because nothing
promises otherwise:

- An event whose handler raised is not retried (`lost`), and neither is a table
  whose links went down after their hook, or whose lists were replaced by an
  updater that failed later.
- VLANs on a reloaded parent stay down unless they changed too (`bounced`). A
  link, an nft fragment, a service or a container whose run was cut between a
  write and its effect is not caught up by the next run (`cut`, `owed`),
  wireguard peers and compose files excepted.
- Between rendering the China names and writing them `gw update` may be overtaken by the
  updater, which takes no lock: it then writes the older names over the newer ones
  (`behind`), and dnsmasq runs with them until the next update or refresh.
  `docs/config-objects/DnsmasqChinaNames.md:24-26` says only that the refresh itself
  leaves the new names.
- A revocation that was cut before it was put on record cannot be repeated, because
  openssl refuses to revoke a certificate twice: the database and the next CRL have it, the
  record never does.
- `network.core` writes `dnsmasq.conf` and restarts nothing: dnsmasq reads it when
  something else restarts it.
- Network core and dnsmasq write one logrotate file with two texts: once a DNS log
  file is set, every bootstrap changes it and restarts dnsmasq.
- The nft fragment of a prefix delegation that was turned off is not unloaded;
  the DHCPv6 client and radvd are restarted but not enabled when their files
  change in every run.
- Validation misses the text of raw routes and rules (an unclosed quote raises when they
  are rendered), a route without destination, a `fwmark` that names a FwMark with values
  that are no numbers, a `configMap` mount with an empty name, and the ConfigMap of a
  DockerApp file. `ValidConfigsRender` says that it misses nothing else.
- Two inline mounts of one project with one file name are written one over the
  other by every update, which restarts the container.
- Two list updaters at once share the temporary file and may publish half a list.

## What is not modelled

- `DeleteApply`: the offline mode for another sysRoot, the Gateway and CronJob
  kinds, symlink and hard-link checks.
- `InterfaceUpdate`: docker, tailscale and external interfaces, interface
  events, the text of the fragments, and updates while an unselected part of the
  configuration has a dependency cycle.
- `EventQueue`: lines no hook writes (only an editor could), and the log.
- `PluginUpdate`: what a renderer makes of a setting, the validation of
  firewall, dnsmasq and prefix objects, the delegated prefixes (which the DHCPv6
  client and radvd keep), prefix objects without `duid` or `acceptRa`, two China names
  updaters at once, keyrings left half downloaded by an interrupted `curl`.
- `RouteRefresh`: the parsers of the list sources (they give networks or fail),
  negative metrics and table numbers, and the manifest of the lists: failing to replace it
  ends the updater as a kill does at its end, with new lists and no event.
- `DockerApps`: projects whose names become equal when every special character
  is replaced (`a.b` and `a_b`), and images. `WriteFiles` writes the generated files of a
  project and its compose file in one step; a run that ends between two of them leaves
  what one cut behind it leaves, a restart that is owed.
- `OvpnPki`: `list`, `doctor` and downloads, which change nothing, and expiry. An `openssl`
  ends with the command that called it, and writes certificate, index and serial in one
  step.
- `ConfigStore`: the fields of the kinds and the examples of the catalog, data
  that only the plugins' own models tell apart.
- Web sessions are rows of a database, changed in a transaction each; dashboards and
  the monitoring pages read. The frontend is presentation, the invocation log
  is read for display only, the installer is a linear script.
