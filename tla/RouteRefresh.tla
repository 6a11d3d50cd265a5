---------------------------- MODULE RouteRefresh ----------------------------
(***************************************************************************)
(* The network.routing plugin (plugins/network_routing.py) and the         *)
(* downloaded IP lists its tables are made of (ip_lists.py).  Links come   *)
(* and go and their hooks queue a route-refresh event; the event queue's   *)
(* handler (or `gw update`, under the same apply lock) looks at the links, *)
(* reads the lists, and flushes and reloads every route table, then every  *)
(* rule set.  `gw hook --process-now` runs the same handler without a      *)
(* lock, and `gw ip-list update` replaces list files without one.          *)
(* The queue itself is EventQueue's business: here an event is pending or  *)
(* not.                                                                    *)
(***************************************************************************)
EXTENDS Naturals, Sequences, FiniteSets, FiniteSetsExt

CONSTANTS
    Configs,     \* the configurations considered, a set of config records
    Ifup, Ppp,   \* links brought up by ifupdown, and by pppd
    Sources,     \* the list sources, in the order they are fetched (a sequence)
    Families,    \* the families of a source's lists: ipv4, then ipv6
    Overlays,    \* lists of the config directories: [<<name, family>> -> networks]
    Updaters,    \* processes that run gw ip-list update
    Now,         \* processes that run gw hook route-refresh --process-now
    MaxVersion,  \* bound on upstream's versions of its lists
    MaxEvents    \* bound on what happens from outside: link changes, commands
                 \* started, handlers that raise and processes killed

\* There are list sources, and a source has lists; upstream has some version of each.
ASSUME ListsAssumption ==
    /\ Sources \in Seq(STRING) \ {<<>>} /\ Families \in Seq(STRING) \ {<<>>}
    /\ MaxVersion \in Nat

Listed(list) == Len(list) \in Nat /\ DOMAIN list = 1..Len(list)

\* Tables, their routes, rule sets and their rules come in lists; both kinds of
\* objects are of one of two families.
ASSUME ConfigsAssumption ==
    \A c \in Configs :
        /\ Listed(c.tables) /\ Listed(c.ruleSets)
        /\ \A t \in DOMAIN c.tables : Listed(c.tables[t].routes)
        /\ \A s \in DOMAIN c.ruleSets :
              Listed(c.ruleSets[s].rules) /\ c.ruleSets[s].family \in {"ipv4", "ipv6"}

Links == Ifup \cup Ppp
Refreshers == {"locked"} \cup Now    \* "locked": whoever holds the apply lock
ListFiles == {<<Sources[i], Families[j]>> : i \in DOMAIN Sources, j \in DOMAIN Families}

VARIABLES
    config,      \* the configuration objects, as a record of their specs
    up,          \* the links that are up
    moving,      \* links between the two halves of going up or down
    pending,     \* an event is queued
    job,         \* what each refresher is doing
    tables,      \* the kernel's route tables, of each family and number
    rules,       \* the kernel's policy rules, of each family
    rtNames,     \* /etc/iproute2/rt_tables.d/dros.conf
    lists,       \* the list files below the run directory
    temp,        \* the temporary files .<name>.tmp beside them
    upd,         \* what each updater is doing
    lost,        \* history: why the tables may be behind with no event pending
    shared,      \* history: list files two updaters had open at once
    events       \* how much has happened from outside

linkVars == <<up, moving>>
kernelVars == <<tables, rules>>
listVars == <<lists, temp, upd, shared>>
vars == <<config, linkVars, pending, job, kernelVars, rtNames, listVars, lost, events>>

Outside == events < MaxEvents /\ events' = events + 1

-----------------------------------------------------------------------------
(* Configuration: validation and rendering.  An optional field is a set of *)
(* at most one value; tables and rule sets are sequences, in the order of  *)
(* their names.  A raw route has the type "raw", or "unclosed" when its    *)
(* text ends inside a quote, which shlex.split refuses; a rule's raw holds *)
(* "closed" or "unclosed", or nothing.                                     *)

ValidGateway(g) ==
    /\ (g.dev = {}) # (g.nexthops = {})
    /\ \A h \in g.nexthops : h.weight # 0

\* Slip: the gateway a route names is not looked up.
ValidTableNoGateway(c, t) ==
    \A i \in 1..Len(t.routes) :
        t.routes[i].type = "route" => t.routes[i].gateway # {}

\* The tests for negative metrics and table numbers are left out: what they refuse
\* would render.
ValidTable(c, t) ==
    \A i \in 1..Len(t.routes) : LET r == t.routes[i] IN
        r.type = "route" =>
            /\ r.gateway # {}
            /\ \A g \in r.gateway :
                  g \in DOMAIN c.gateways /\ ValidGateway(c.gateways[g])

\* managed_priority: the priorities a rule set has for itself.
Managed(s) == s.first..s.last

ValidMark(m) == m.mark = "u32" /\ m.mask = "u32"

ValidRuleSet(c, s) ==
    /\ s.first <= s.last
    /\ \A i \in 1..Len(s.rules) : LET r == s.rules[i] IN
        /\ \A j \in 1..(i - 1) : s.rules[j].priority # r.priority
        /\ r.priority \in Managed(s)
        /\ r.fwMark = {} \/ r.fwmark = {}
        /\ r.raw # {} \/ r.lookup # {}
        /\ \A m \in r.fwMark : m \in DOMAIN c.marks /\ ValidMark(c.marks[m])

\* What validation accepts when every object is selected.
ValidConfig(c) ==
    /\ \A m \in DOMAIN c.marks : ValidMark(c.marks[m])
    /\ \A g \in DOMAIN c.gateways : ValidGateway(c.gateways[g])
    /\ \A t \in DOMAIN c.tables : ValidTable(c, c.tables[t])
    /\ \A s \in DOMAIN c.ruleSets : ValidRuleSet(c, c.ruleSets[s])

Devs(g) == IF g.nexthops # {} THEN {h.dev : h \in g.nexthops} ELSE g.dev

GatewayIsAvailable(devs, states) == states = {} \/ devs \subseteq states

\* _route_batch_parts with _normalize_destination and _require_gateway.
RouteRaises(c, r) ==
    \/ r.type = "unclosed"
    \/ r.type # "raw" /\ r.to = {}
    \/ r.type = "route" /\ r.gateway \cap DOMAIN c.gateways = {}

\* _rule_parts with _resolve_rule_fwmark: fwMark must name a FwMark; fwmark may name
\* one, or be the mark itself.
RuleRaises(c, r) ==
    \/ "unclosed" \in r.raw
    \/ /\ r.raw = {}
       /\ \/ ~(r.fwMark \subseteq DOMAIN c.marks)
          \/ \E m \in (r.fwMark \cup r.fwmark) \cap DOMAIN c.marks : ~ValidMark(c.marks[m])

TablesRaise(c) ==
    \E t \in DOMAIN c.tables : \E i \in 1..Len(c.tables[t].routes) :
        RouteRaises(c, c.tables[t].routes[i])

RaisingRules(c, s) ==
    {i \in 1..Len(c.ruleSets[s].rules) : RuleRaises(c, c.ruleSets[s].rules[i])}

-----------------------------------------------------------------------------
(* IP lists, as the routes name them.                                      *)

Torn == {}     \* a list file cut off in the middle: what is left of its lines

\* The file behind a list name of one family: the first directory that has it.
Entry(key, files) == IF key \in DOMAIN Overlays THEN Overlays[key] ELSE files[key]

Resolve(ref, family, files) ==
    LET known == DOMAIN Overlays \cup DOMAIN files
        families == CASE ref.family = "all" -> {"mixed", "ipv4", "ipv6"}
                      [] ref.family \in {"ipv4", "ipv6"} -> {ref.family}
                      [] OTHER -> {family, "mixed"}
        found == {Entry(k, files) : k \in ({ref.name} \X families) \cap known}
        networks == UNION found
    IN  IF \E n \in networks : n.family = "invalid" THEN {}
        ELSE {n \in networks : n.family = family}

\* A destination that is no network and not "default" names a list.
Destinations(r, family, files) ==
    UNION {IF d.list THEN Resolve(d, family, files)
           ELSE {[family |-> family, name |-> d.name, version |-> 0]} : d \in r.to}

\* The lines of one route: a gateway that is not available has none.
RouteBatch(c, r, family, states, files) ==
    IF r.type = "raw"
    THEN {[to |-> [family |-> family, name |-> "raw", version |-> 0],
           metric |-> 0, devs |-> {}]}
    ELSE LET gateway == {c.gateways[g] : g \in r.gateway}
             devs == IF r.type = "route" THEN UNION {Devs(g) : g \in gateway} ELSE {}
             metrics == IF r.type # "route" THEN {}
                        ELSE IF r.metric # {} THEN r.metric
                        ELSE UNION {g.metric : g \in gateway}
         IN  IF r.type = "route" /\ ~GatewayIsAvailable(devs, states) THEN {}
             ELSE {[to |-> d, metric |-> IF metrics = {} THEN 0 ELSE Max(metrics),
                    devs |-> devs] : d \in Destinations(r, family, files)}

Batch(c, t, states, files) ==
    LET table == c.tables[t] IN
    [i \in 1..Len(table.routes) |->
        RouteBatch(c, table.routes[i], table.family, states, files)]

\* `ip -batch` in a flushed table: a line replaces an earlier one of the same
\* destination and metric; the first line whose device is down ends it.
FailsAt(batch, links) ==
    {i \in 1..Len(batch) : \E r \in batch[i] : ~(r.devs \subseteq links)}

Loaded(batch, links) ==
    LET n == IF FailsAt(batch, links) = {} THEN Len(batch)
             ELSE Min(FailsAt(batch, links)) - 1
    IN  UNION {{r \in batch[i] : \A j \in (i + 1)..n : \A q \in batch[j] :
                    <<q.to, q.metric>> # <<r.to, r.metric>>} : i \in 1..n}

\* The kernel forgets a route when the last of its devices goes down.
Surviving(routes, links) == {r \in routes : r.devs = {} \/ r.devs \cap links # {}}

-----------------------------------------------------------------------------
(* Rules.                                                                  *)

\* A rule looks up a RouteTable by its name, or what it names itself.
ResolveLookup(c, l) ==
    LET named == {t \in DOMAIN c.tables : c.tables[t].name = l}
    IN  IF named = {} THEN l ELSE c.tables[Min(named)].table

RuleParts(c, r) ==
    [priority |-> r.priority,
     mark |-> IF r.raw # {} THEN {} ELSE IF r.fwMark # {} THEN r.fwMark ELSE r.fwmark,
     lookup |-> IF r.raw # {} THEN r.raw ELSE {ResolveLookup(c, l) : l \in r.lookup}]

Unmanaged(present, s) == {r \in present : r.priority \notin Managed(s)}

\* The rules of a set are added by priority; the first that raises, or that
\* the kernel has already, ends it.
StopsAt(c, s, present) ==
    {i \in DOMAIN c.ruleSets[s].rules :
        \/ i \in RaisingRules(c, s)
        \/ RuleParts(c, c.ruleSets[s].rules[i]) \in present}

AddedRules(c, s, present) ==
    LET list == c.ruleSets[s].rules IN
    {RuleParts(c, list[i]) : i \in {j \in DOMAIN list :
        \A k \in StopsAt(c, s, present) : list[j].priority < list[k].priority}}

-----------------------------------------------------------------------------
(* A refresh.                                                              *)

Idle == [step |-> "idle", event |-> FALSE, full |-> FALSE, states |-> {},
         todo |-> {}, script |-> <<>>, sets |-> {}]

\* Bound: tables have decimal numbers; others are left out of the file.
RtTables(c) == {<<c.tables[t].table, c.tables[t].name>> : t \in DOMAIN c.tables}

\* The kernel's table of a RouteTable: each family has its own numbers.
TableId(c, t) == <<c.tables[t].family, c.tables[t].table>>

Steppable == ValidConfig(config) /\ ~TablesRaise(config)

\* handle_event: every table and every rule set, whatever the event.
TakeEvent ==
    /\ job["locked"].step = "idle" /\ pending
    /\ pending' = FALSE
    /\ job' = [job EXCEPT !["locked"] =
                [Idle EXCEPT !.step = "taken", !.event = TRUE, !.full = TRUE,
                             !.todo = DOMAIN config.tables,
                             !.sets = DOMAIN config.ruleSets]]
    /\ UNCHANGED <<config, linkVars, kernelVars, rtNames, listVars, lost, events>>

\* gw hook route-refresh --process-now: the handler, with no lock.
ProcessNow(p) ==
    /\ p \in Now /\ job[p].step = "idle" /\ Outside
    /\ job' = [job EXCEPT ![p] = [Idle EXCEPT !.step = "taken", !.full = TRUE,
                                    !.todo = DOMAIN config.tables,
                                    !.sets = DOMAIN config.ruleSets]]
    /\ UNCHANGED <<config, linkVars, pending, kernelVars, rtNames, listVars, lost>>

\* gw update of some objects.  A gateway brings every table with it, a mark
\* every rule set.
Update(kinds) ==
    /\ job["locked"].step = "idle" /\ Outside
    /\ LET all == kinds \cap {"Gateway", "RouteTable"} # {}
           sets == kinds \cap {"FwMark", "RouteRuleSet"} # {}
       IN  job' = [job EXCEPT !["locked"] =
                    [Idle EXCEPT !.step = "taken", !.full = all /\ sets,
                        !.todo = IF all THEN DOMAIN config.tables ELSE {},
                        !.sets = IF sets THEN DOMAIN config.ruleSets ELSE {}]]
    /\ UNCHANGED <<config, linkVars, pending, kernelVars, rtNames, listVars, lost>>

\* _gateway_runtime_states: the links as they are now.  A refresh of
\* everything that runs alone makes up for whatever was lost before it.
LookAtLinks(p) ==
    /\ job[p].step = "taken"
    /\ rtNames' = RtTables(config)
    /\ job' = [job EXCEPT ![p].step = "looked", ![p].states = up \cup {"lo"}]
    /\ lost' = IF \E q \in Refreshers \ {p} : job[q].step # "idle"
               THEN lost \cup {"overlap"}
               ELSE IF job[p].full THEN {} ELSE lost
    /\ UNCHANGED <<config, linkVars, pending, kernelVars, listVars, events>>

\* _apply_route_tables up to the script: the lists as they are now.
WriteScript(p) ==
    /\ job[p].step = "looked"
    /\ job' = [job EXCEPT ![p].step = "loading",
                ![p].script = [t \in job[p].todo |->
                                Batch(config, t, job[p].states, lists)]]
    /\ UNCHANGED <<config, linkVars, pending, kernelVars, rtNames, listVars, lost, events>>

\* The script, table by table: flush, then the batch.  A batch that fails
\* ends the script and the handler; the event is not queued again.
LoadTable(p, t) ==
    /\ job[p].step = "loading" /\ t \in job[p].todo /\ \A o \in job[p].todo : t <= o
    /\ LET batch == job[p].script[t]
           id == TableId(config, t)
       IN  /\ tables' = [tables EXCEPT ![id] = Loaded(batch, up)]
           /\ IF FailsAt(batch, up) = {}
              THEN /\ job' = [job EXCEPT ![p].todo = @ \ {t}]
                   /\ lost' = lost
              ELSE /\ job' = [job EXCEPT ![p] = Idle]
                   /\ lost' = lost \cup {"failed"}
    /\ UNCHANGED <<config, linkVars, pending, rules, rtNames, listVars, events>>

\* The rules of a set's priorities go, then the set's rules come, in one step
\* each; a set is flushed when its turn comes.
FlushRules(p, s) ==
    /\ job[p].step = "loading" /\ job[p].todo = {}
    /\ s \in job[p].sets /\ \A o \in job[p].sets : s <= o
    /\ LET set == config.ruleSets[s] IN
       rules' = [rules EXCEPT ![set.family] = Unmanaged(@, set)]
    /\ job' = [job EXCEPT ![p].step = "flushed", ![p].sets = @ \ {s},
                          ![p].script = <<s>>]
    /\ UNCHANGED <<config, linkVars, pending, tables, rtNames, listVars, lost, events>>

AddRules(p) ==
    /\ job[p].step = "flushed"
    /\ LET s == job[p].script[1]
           family == config.ruleSets[s].family
           raises == StopsAt(config, s, rules[family]) # {}
       IN  /\ rules' = [rules EXCEPT ![family] = @ \cup AddedRules(config, s, @)]
           /\ job' = [job EXCEPT ![p] = IF raises THEN Idle
                                        ELSE [@ EXCEPT !.step = "loading", !.script = <<>>]]
           /\ lost' = IF raises THEN lost \cup {"failed"} ELSE lost
    /\ UNCHANGED <<config, linkVars, pending, tables, rtNames, listVars, events>>

Finish(p) ==
    /\ job[p].step = "loading" /\ job[p].todo = {} /\ job[p].sets = {}
    /\ job' = [job EXCEPT ![p] = Idle]
    /\ UNCHANGED <<config, linkVars, pending, kernelVars, rtNames, listVars, lost, events>>

\* The handlers of the other plugins run first, and one of them raises.
HandlerFails ==
    /\ job["locked"].step = "taken" /\ job["locked"].event
    /\ Outside
    /\ job' = [job EXCEPT !["locked"] = Idle]
    /\ lost' = lost \cup {"failed"}
    /\ UNCHANGED <<config, linkVars, pending, kernelVars, rtNames, listVars>>

\* The process is killed.  An event that was taken is still in the queue.
Killed(p) ==
    /\ job[p].step # "idle" /\ Outside
    /\ job' = [job EXCEPT ![p] = Idle]
    /\ pending' = (pending \/ job[p].event)
    /\ lost' = IF job[p].event THEN lost ELSE lost \cup {"failed"}
    /\ UNCHANGED <<config, linkVars, kernelVars, rtNames, listVars>>

RefreshStep(p) ==
    \/ LookAtLinks(p) \/ WriteScript(p)
    \/ \E t \in DOMAIN config.tables : LoadTable(p, t)
    \/ \E s \in DOMAIN config.ruleSets : FlushRules(p, s)
    \/ AddRules(p) \/ Finish(p)

-----------------------------------------------------------------------------
(* Links and their hooks.  ifupdown runs the if-down.d hooks while the     *)
(* link is still up, and all other hooks after the change.                 *)

LinkUp(l) ==
    /\ l \notin up /\ moving[l] = "no" /\ Outside
    /\ up' = up \cup {l}
    /\ moving' = [moving EXCEPT ![l] = "hook"]
    /\ UNCHANGED <<config, pending, job, kernelVars, rtNames, listVars, lost>>

PppDown(l) ==
    /\ l \in up \cap Ppp /\ moving[l] = "no" /\ Outside
    /\ up' = up \ {l}
    /\ tables' = [t \in DOMAIN tables |-> Surviving(tables[t], up')]
    /\ moving' = [moving EXCEPT ![l] = "hook"]
    /\ UNCHANGED <<config, pending, job, rules, rtNames, listVars, lost>>

Hook(l) ==
    /\ moving[l] = "hook"
    /\ moving' = [moving EXCEPT ![l] = "no"]
    /\ pending' = TRUE
    /\ UNCHANGED <<config, up, job, kernelVars, rtNames, listVars, lost, events>>

IfDown(l) ==
    /\ l \in up \cap Ifup /\ moving[l] = "no" /\ Outside
    /\ pending' = TRUE
    /\ moving' = [moving EXCEPT ![l] = "down"]
    /\ UNCHANGED <<config, up, job, kernelVars, rtNames, listVars, lost>>

\* If the event was handled already, nobody will look at this change.
GoesDown(l) ==
    /\ moving[l] = "down"
    /\ up' = up \ {l}
    /\ tables' = [t \in DOMAIN tables |-> Surviving(tables[t], up')]
    /\ moving' = [moving EXCEPT ![l] = "no"]
    /\ lost' = IF pending \/ (job["locked"].step = "taken" /\ job["locked"].full)
               THEN lost ELSE lost \cup {"ifdown"}
    /\ UNCHANGED <<config, pending, job, rules, rtNames, listVars, events>>

-----------------------------------------------------------------------------
(* gw ip-list update.                                                      *)

NoUpdate == [step |-> "idle", names |-> <<>>, staged |-> 0, families |-> Families,
             failed |-> FALSE, wrote |-> FALSE, fd |-> "none"]

Networks(key, version) == {[family |-> key[2], name |-> key[1], version |-> version]}

Current(u) == <<upd[u].names[1], upd[u].families[1]>>

StartDownload(u) ==
    /\ upd[u].step = "idle" /\ Outside
    /\ \E names \in {Sources, <<Sources[1]>>} :
          upd' = [upd EXCEPT ![u] = [NoUpdate EXCEPT !.step = "fetch", !.names = names]]
    /\ UNCHANGED <<config, linkVars, pending, job, kernelVars, rtNames,
                   lists, temp, shared, lost>>

\* A source that cannot be fetched is noted and passed over.
Fetch(u) ==
    /\ upd[u].step = "fetch" /\ upd[u].names # <<>>
    /\ \/ \E v \in 1..MaxVersion :
             upd' = [upd EXCEPT ![u].step = "stage", ![u].staged = v]
       \/ upd' = [upd EXCEPT ![u].failed = TRUE, ![u].names = Tail(@)]
    /\ UNCHANGED <<config, linkVars, pending, job, kernelVars, rtNames,
                   lists, temp, shared, lost, events>>

\* Slip: the target itself is opened and emptied, with no temporary file.
OpenTempInPlace(u) ==
    /\ upd[u].step = "stage"
    /\ lists' = [lists EXCEPT ![Current(u)] = Torn]
    /\ temp' = [temp EXCEPT ![Current(u)] = {Networks(Current(u), upd[u].staged)}]
    /\ upd' = [upd EXCEPT ![u].step = "copy", ![u].fd = "temp", ![u].wrote = TRUE]
    /\ UNCHANGED <<config, linkVars, pending, job, kernelVars, rtNames,
                   shared, lost, events>>

\* _replace_from_staged, in three steps: .<name>.tmp is opened and emptied, ...
OpenTemp(u) ==
    /\ upd[u].step = "stage"
    /\ LET f == Current(u)
           others == {v \in Updaters \ {u} : upd[v].fd = "temp" /\ Current(v) = f}
       IN  /\ temp' = [temp EXCEPT ![f] = {Torn}]
           /\ shared' = IF others = {} THEN shared ELSE shared \cup {f}
    /\ upd' = [upd EXCEPT ![u].step = "copy", ![u].fd = "temp"]
    /\ UNCHANGED <<config, linkVars, pending, job, kernelVars, rtNames,
                   lists, lost, events>>

\* ... the staged file is copied into whatever that file is called by now, ...
Copy(u) ==
    /\ upd[u].step = "copy"
    /\ LET f == Current(u)
           content == Networks(f, upd[u].staged)
       IN  CASE upd[u].fd = "temp" ->
                  temp' = [temp EXCEPT ![f] = {content}] /\ lists' = lists
             [] upd[u].fd = "target" ->
                  lists' = [lists EXCEPT ![f] = content] /\ temp' = temp
             [] OTHER -> UNCHANGED <<lists, temp>>
    /\ upd' = [upd EXCEPT ![u].step = "rename",
                          ![u].wrote = @ \/ upd[u].fd = "target"]
    /\ UNCHANGED <<config, linkVars, pending, job, kernelVars, rtNames,
                   shared, lost, events>>

\* ... and renamed.  Another updater may have renamed it first: that is an
\* error outside the try of the source, and ends the command.
NextFile(j) ==
    IF Len(j.families) > 1
    THEN [j EXCEPT !.step = "stage", !.families = Tail(@), !.fd = "none"]
    ELSE [NoUpdate EXCEPT !.step = "fetch", !.names = Tail(j.names),
                          !.failed = j.failed, !.wrote = j.wrote]

Rename(u) ==
    /\ upd[u].step = "rename" /\ temp[Current(u)] # {}
    /\ LET f == Current(u) IN
       /\ lists' = [lists EXCEPT ![f] = CHOOSE content \in temp[f] : TRUE]
       /\ temp' = [temp EXCEPT ![f] = {}]
       /\ upd' = [v \in Updaters |->
                    IF v = u THEN NextFile([upd[u] EXCEPT !.wrote = TRUE])
                    ELSE IF upd[v].step \in {"copy", "rename"} /\ Current(v) = f
                    THEN [upd[v] EXCEPT !.fd = IF @ = "temp" THEN "target" ELSE "gone"]
                    ELSE upd[v]]
    /\ UNCHANGED <<config, linkVars, pending, job, kernelVars, rtNames,
                   shared, lost, events>>

\* The command ends without queueing an event.
GivesUp(u) ==
    /\ upd' = [upd EXCEPT ![u] = NoUpdate]
    /\ lost' = IF upd[u].wrote THEN lost \cup {"lists"} ELSE lost

RenameFails(u) ==
    /\ upd[u].step = "rename" /\ temp[Current(u)] = {}
    /\ GivesUp(u)
    /\ UNCHANGED <<config, linkVars, pending, job, kernelVars, rtNames,
                   lists, temp, shared, events>>

\* Slip: no event is queued.
EndUpdateQuiet(u) ==
    /\ upd[u].step = "fetch" /\ upd[u].names = <<>>
    /\ upd' = [upd EXCEPT ![u] = NoUpdate]
    /\ UNCHANGED <<config, linkVars, pending, job, kernelVars, rtNames,
                   lists, temp, shared, lost, events>>

\* The manifest, then the event: only if no source failed.  (A manifest that cannot be
\* replaced ends the command as a kill does here: no event, and the lists stay.)
EndUpdate(u) ==
    /\ upd[u].step = "fetch" /\ upd[u].names = <<>>
    /\ IF upd[u].failed THEN GivesUp(u) /\ pending' = pending
       ELSE /\ pending' = TRUE
            /\ upd' = [upd EXCEPT ![u] = NoUpdate]
            /\ lost' = lost
    /\ UNCHANGED <<config, linkVars, job, kernelVars, rtNames,
                   lists, temp, shared, events>>

UpdaterKilled(u) ==
    /\ upd[u].step # "idle" /\ Outside
    /\ GivesUp(u)
    /\ UNCHANGED <<config, linkVars, pending, job, kernelVars, rtNames,
                   lists, temp, shared>>

UpdaterStep(u) ==
    \/ Fetch(u) \/ OpenTemp(u) \/ Copy(u) \/ Rename(u)
    \/ RenameFails(u) \/ EndUpdate(u)

-----------------------------------------------------------------------------
TableIds == UNION {{TableId(c, t) : t \in DOMAIN c.tables} : c \in Configs}

Init ==
    /\ config \in Configs
    /\ up = Links /\ moving = [l \in Links |-> "no"]
    /\ pending = FALSE
    /\ job = [p \in Refreshers |-> Idle]
    /\ tables = [id \in TableIds |-> {}]
    /\ rules = [f \in {"ipv4", "ipv6"} |-> {}]
    /\ rtNames = {}
    /\ lists = [f \in ListFiles |-> Networks(f, 0)]
    /\ temp = [f \in ListFiles |-> {}]
    /\ upd = [u \in Updaters |-> NoUpdate]
    /\ lost = {"boot"}
    /\ shared = {}
    /\ events = 0

Next ==
    /\ Steppable
    /\ \/ TakeEvent \/ HandlerFails
       \/ Update({"Gateway", "FwMark", "RouteTable", "RouteRuleSet"})
       \/ Update({"RouteRuleSet"})
       \/ \E p \in Refreshers : ProcessNow(p) \/ RefreshStep(p) \/ Killed(p)
       \/ \E l \in Links : LinkUp(l) \/ PppDown(l) \/ Hook(l) \/ IfDown(l) \/ GoesDown(l)
       \/ \E u \in Updaters : StartDownload(u) \/ UpdaterStep(u) \/ UpdaterKilled(u)

Spec == Init /\ [][Next]_vars

-----------------------------------------------------------------------------
(* Properties.                                                             *)

\* Every variable keeps to its values.
TypeOK ==
    /\ config \in Configs
    /\ up \subseteq Links /\ moving \in [Links -> {"no", "hook", "down"}]
    /\ pending \in BOOLEAN
    /\ \A p \in Refreshers :
          /\ job[p].step \in {"idle", "taken", "looked", "loading", "flushed"}
          /\ job[p].todo \subseteq DOMAIN config.tables
          /\ job[p].sets \subseteq DOMAIN config.ruleSets
          /\ job[p].states \subseteq up \cup Links \cup {"lo"}
    /\ \A f \in ListFiles : \A n \in lists[f] : n.family = f[2] /\ n.name = f[1]
    /\ \A f \in ListFiles : Cardinality(temp[f]) <= 1
    /\ lost \subseteq {"boot", "ifdown", "failed", "lists", "overlap"}
    /\ shared \subseteq ListFiles

Settled ==
    /\ ~pending
    /\ \A p \in Refreshers : job[p].step = "idle"
    /\ \A l \in Links : moving[l] = "no"
    /\ \A u \in Updaters : upd[u].step = "idle"

\* What the configuration asks of table t with these links: a route whose
\* devices are all up, unless a later one has its destination and metric.
Wanted(t) ==
    LET routes == config.tables[t].routes
        keys(r) == {<<q.to, q.metric>> : q \in
                        RouteBatch(config, r, config.tables[t].family, {}, lists)}
        usable == {i \in 1..Len(routes) :
                    routes[i].type = "route" =>
                        UNION {Devs(config.gateways[g]) : g \in routes[i].gateway} \subseteq up}
    IN  {w \in UNION {keys(routes[i]) \X {i} : i \in usable} :
            \A j \in usable : w[1] \in keys(routes[j]) => j <= w[2]}

Holds(t) ==
    {<<<<r.to, r.metric>>, r.devs>> : r \in tables[TableId(config, t)]} =
    {<<w[1], LET r == config.tables[t].routes[w[2]] IN
             IF r.type = "route"
             THEN UNION {Devs(config.gateways[g]) : g \in r.gateway} ELSE {}>> :
        w \in Wanted(t)}

\* Nothing refuses two objects that manage the same kernel table, or overlapping
\* priorities: each refresh then leaves what the last of them wants.
OwnTable(t) ==
    \A o \in DOMAIN config.tables \ {t} : TableId(config, o) # TableId(config, t)

OwnRange(s) ==
    \A o \in DOMAIN config.ruleSets \ {s} :
        config.ruleSets[o].family = config.ruleSets[s].family =>
            Managed(config.ruleSets[o]) \cap Managed(config.ruleSets[s]) = {}

SetRules(s) ==
    {RuleParts(config, config.ruleSets[s].rules[i]) : i \in DOMAIN config.ruleSets[s].rules}

\* When nothing is going on, every route table holds what the configuration
\* wants with the links and lists of now, whatever happened in which order
\* before, unless something is on record that no event announces: a link that
\* ifupdown took down after its hook's event was handled, a handler that
\* raised or was killed outside the queue, a download that replaced a list and
\* then failed, two refreshes at once; and a single refresh that runs alone
\* makes up for all of them.
TablesAreCurrent ==
    Steppable /\ Settled /\ lost = {} => \A t \in DOMAIN config.tables : OwnTable(t) => Holds(t)

\* With nothing going on and nothing on record, the rules of every family are
\* exactly those of the rule sets: no refresh leaves one twice, or behind.
RulesAreCurrent ==
    Steppable /\ Settled /\ lost = {} =>
        /\ \A s \in DOMAIN config.ruleSets :
              OwnRange(s) => SetRules(s) \subseteq rules[config.ruleSets[s].family]
        /\ \A f \in DOMAIN rules : \A r \in rules[f] : \E s \in DOMAIN config.ruleSets :
              config.ruleSets[s].family = f /\ r \in SetRules(s)

\* No reader ever finds a list cut off in the middle, a killed updater or not,
\* unless two updaters had its temporary file open at once: _replace_from_staged
\* has one fixed name for it.
ListsAreWhole == \A f \in ListFiles : lists[f] = Torn => f \in shared

\* What validation does not look at: the text of a raw route, and the destination of
\* any other.
UncheckedRoute(r) == r.type = "unclosed" \/ (r.type # "raw" /\ r.to = {})

\* The text of a raw rule, and the FwMark that a rule names with fwmark: it may be no
\* number if it is not among the objects validated.
UncheckedRule(c, r) ==
    \/ "unclosed" \in r.raw
    \/ r.raw = {} /\ \E m \in r.fwmark \cap DOMAIN c.marks : ~ValidMark(c.marks[m])

\* When validation accepts the tables and the rule sets, a handler raises exactly at
\* what validation does not look at (network_routing.py:287-288, 311, 453; 184 and 235).
ValidConfigRenders ==
    LET c == config IN
    /\ \A t \in DOMAIN c.tables : ValidTable(c, c.tables[t])
    /\ \A s \in DOMAIN c.ruleSets : ValidRuleSet(c, c.ruleSets[s])
    => /\ \A t \in DOMAIN c.tables : \A i \in 1..Len(c.tables[t].routes) :
             LET r == c.tables[t].routes[i] IN RouteRaises(c, r) <=> UncheckedRoute(r)
       /\ \A s \in DOMAIN c.ruleSets : \A i \in 1..Len(c.ruleSets[s].rules) :
             LET r == c.ruleSets[s].rules[i] IN RuleRaises(c, r) <=> UncheckedRule(c, r)

=============================================================================
