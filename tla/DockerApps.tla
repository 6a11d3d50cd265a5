----------------------------- MODULE DockerApps -----------------------------
(***************************************************************************)
(* The docker.resources plugin (plugins/docker_resources.py): every        *)
(* DockerContainer and DockerApp is a compose project of one container,    *)
(* with files generated for its mounts, and DockerDNS/system turns the     *)
(* containers' addresses into dnsmasq records.  An update writes a         *)
(* project's files, runs `docker compose up -d`, restarts the container if *)
(* a generated file changed, and syncs the records at the end; the         *)
(* docker-start event, which the docker unit queues, syncs them again.     *)
(***************************************************************************)
EXTENDS Naturals, Sequences, FiniteSets, FiniteSetsExt, Functions

CONSTANTS
    Configs,     \* the configurations considered, a set of records
    Objects,     \* the DockerApp and DockerContainer objects, by kind and name
    Addresses,   \* the addresses docker hands out
    None,        \* no value
    MaxEvents    \* bound on edits, commands, docker and container restarts, cuts

VARIABLES
    conf,        \* the configuration on disk
    compose,     \* each object's docker-compose.yml
    files,       \* the files generated below each object's directory
    cont,        \* each object's container
    dockerUp,    \* the docker daemon runs
    dnsFile,     \* dnsmasq's file of container records, if there is one
    served,      \* the records dnsmasq serves, loaded when it starts
    pending,     \* docker-start is queued
    job,         \* the update or event handler that holds the apply lock
    owed,        \* history: what was cut off before it was done: <<object, command>>
    moved,       \* history: the records may be behind, and no event says so
    owedDns,     \* history: dnsmasq's restart was cut off
    clean,       \* history: a full update was the last thing that happened
    events       \* how much has happened from outside

diskVars == <<compose, files>>
dnsVars == <<dnsFile, served>>
history == <<owed, moved, owedDns, clean>>
vars == <<conf, diskVars, cont, dockerUp, dnsVars, pending, job, history, events>>

Outside == events < MaxEvents /\ events' = events + 1

-----------------------------------------------------------------------------
(* Validation.  An optional field is a set of at most one value.           *)

\* An empty source is a source, and is not looked up.
ValidMount(c, m) ==
    /\ m.absolute
    /\ m.type # "data-dir" => m.source # {}
    /\ m.type = "configMap" =>
        /\ m.key # {}
        /\ \A name \in m.source \ {""} : name \in DOMAIN c.maps /\ m.key \subseteq DOMAIN c.maps[name]

ValidNetwork(c, spec) == spec.network \in {"default", "host"} \cup c.dockerInterfaces

ValidContainer(c, spec) ==
    /\ ValidNetwork(c, spec)
    /\ \A i \in DOMAIN spec.mounts : ValidMount(c, spec.mounts[i])

\* Of the files an app brings, a configMap's key is required, and no more is
\* asked of it.
ValidApp(c, spec) ==
    /\ ValidNetwork(c, spec)
    /\ \A i \in DOMAIN spec.mounts : ValidMount(c, spec.mounts[i])
    /\ spec.confFiles # <<>> => spec.app = "nginx"
    /\ \A i \in DOMAIN spec.confFiles :
        spec.confFiles[i].type = "configMap" => spec.confFiles[i].key # {}
    /\ spec.app = "headscale" => spec.serverUrl # {}

Valid(c, o) ==
    LET spec == c.objects[o] IN
    IF spec.app = None THEN ValidContainer(c, spec) ELSE ValidApp(c, spec)

-----------------------------------------------------------------------------
(* A project of an object.                                                 *)

Mount(type, source, name) ==
    [type |-> type, source |-> {source}, key |-> {}, name |-> name, absolute |-> TRUE]

AppMounts(spec) ==
    CASE spec.app = "nginx"     -> spec.confFiles
      [] spec.app = "ddns-go"   -> <<Mount("data-dir", "data", "root")>>
      [] spec.app = "unifi"     -> <<Mount("file", "localtime", "localtime"),
                                     Mount("dir", "cert", "cert"),
                                     Mount("dir", "data", "data"), Mount("dir", "logs", "logs")>>
      [] spec.app = "certimate" -> <<Mount("file", "localtime", "localtime"),
                                     Mount("file", "timezone", "timezone"),
                                     Mount("dir", "data", "data")>>
      [] spec.app = "headscale" -> <<[Mount("inline", "", "config.yaml") EXCEPT
                                        !.source = spec.serverUrl],
                                     Mount("data-dir", "data", "data")>>
      [] OTHER -> <<>>

Mounts(spec) == AppMounts(spec) \o spec.mounts

\* An image named whole is used as it is, unless a tag is named as well.
AppImage(spec) ==
    [name |-> IF spec.image # {} THEN spec.image
              ELSE IF spec.imageName # {} THEN spec.imageName ELSE {spec.app},
     tag |-> IF spec.imageTag # {} THEN spec.imageTag
             ELSE IF spec.image # {} THEN {} ELSE {"default"}]

\* The file a mount has generated: inline files lie together by name, those of
\* a ConfigMap by its name and key.
Generated(m) ==
    CASE m.type = "inline"    -> {<<"inline", m.name>>}
      [] m.type = "configMap" -> {<<CHOOSE s \in m.source : TRUE, CHOOSE k \in m.key : TRUE>>}
      [] OTHER -> {}

ContentOf(c, m) ==
    IF m.type = "inline" THEN CHOOSE s \in m.source : TRUE
    ELSE c.maps[CHOOSE s \in m.source : TRUE][CHOOSE k \in m.key : TRUE]

RenderRaises(c, spec) ==
    \E i \in DOMAIN Mounts(spec) : LET m == Mounts(spec)[i] IN
        m.type = "configMap" /\ \E s \in m.source :
            s \notin DOMAIN c.maps \/ ~(m.key \subseteq DOMAIN c.maps[s])

\* Slip: every project's container has the name of its service.
ServiceApp(o, spec) ==
    [name |-> "app", image |-> AppImage(spec), network |-> spec.network,
     volumes |-> <<>>, external |-> {}]

Service(o, spec) ==
    [name |-> o, image |-> AppImage(spec), network |-> spec.network,
     volumes |-> [i \in DOMAIN Mounts(spec) |-> Generated(Mounts(spec)[i])],
     external |-> {spec.network} \ {"default", "host"}]

Paths(spec) == UNION {Generated(m) : m \in {Mounts(spec)[i] : i \in DOMAIN Mounts(spec)}}

\* The files are written in the order of the mounts: of two mounts with the
\* same path the last one's content stays, and the first counts as a change.
Writers(spec, path) == {i \in DOMAIN Mounts(spec) : path \in Generated(Mounts(spec)[i])}

LastWriter(spec, path) == Max(Writers(spec, path))

Rendered(c, spec, old) ==
    [path \in DOMAIN old \cup Paths(spec) |->
        IF path \in Paths(spec) THEN ContentOf(c, Mounts(spec)[LastWriter(spec, path)])
        ELSE old[path]]

\* Slip: a generated file counts as changed whenever it is written.
NonComposeChangedAlways(c, spec, old) == Paths(spec) # {}

NonComposeChanged(c, spec, old) ==
    \E i \in DOMAIN Mounts(spec) : \E path \in Generated(Mounts(spec)[i]) :
        path \notin DOMAIN old \/ old[path] # ContentOf(c, Mounts(spec)[i])

Collides(spec) ==
    \E i, j \in DOMAIN Mounts(spec) :
        i # j /\ Generated(Mounts(spec)[i]) \cap Generated(Mounts(spec)[j]) # {}

-----------------------------------------------------------------------------
(* An update.                                                              *)

\* at: the object that is applied; todo: the places of those that are still to come.
Idle == [step |-> "idle", conf |-> None, todo |-> {}, at |-> None,
         restart |-> FALSE, repeat |-> FALSE]

Enabled(c) == {o \in Range(Objects) : c.objects[o].enabled}

Free == {Addresses[i] : i \in DOMAIN Addresses} \ {cont[o].address : o \in DOMAIN cont}

NoContainer == [spec |-> None, loaded |-> <<>>, address |-> None]

\* gw update docker, of everything or of one object; every object selected is
\* validated first.  The last step is the records' if DockerDNS is configured.
Update(selected) ==
    /\ job.step = "idle" /\ Outside
    /\ \A i \in selected : Valid(conf, Objects[i])
    /\ job' = [Idle EXCEPT !.step = "next", !.conf = conf,
                           !.todo = {i \in selected : Objects[i] \in Enabled(conf)},
                           !.repeat = clean]
    /\ clean' = (clean \/ selected = DOMAIN Objects)
    /\ UNCHANGED <<conf, diskVars, cont, dockerUp, dnsVars, pending, owed, moved, owedDns>>

\* The handler of docker-start: the records only.
TakeEvent ==
    /\ job.step = "idle" /\ pending
    /\ pending' = FALSE
    /\ job' = [Idle EXCEPT !.step = "next", !.conf = conf]
    /\ UNCHANGED <<conf, diskVars, cont, dockerUp, dnsVars, history, events>>

\* Slip: a change of the generated files is not looked for.
WriteFilesNoRestart(i) ==
    /\ job.step = "next" /\ i \in job.todo /\ \A j \in job.todo : i <= j
    /\ LET o == Objects[i]
           spec == job.conf.objects[o]
       IN  /\ ~RenderRaises(job.conf, spec)
           /\ files' = [files EXCEPT ![o] = Rendered(job.conf, spec, @)]
           /\ compose' = [compose EXCEPT ![o] = Service(o, spec)]
           /\ job' = [job EXCEPT !.step = "up", !.todo = @ \ {i}, !.at = o]
    /\ UNCHANGED <<conf, cont, dockerUp, dnsVars, pending, history, events>>

\* _apply_project: the generated files, then the compose file.
WriteFiles(i) ==
    /\ job.step = "next" /\ i \in job.todo /\ \A j \in job.todo : i <= j
    /\ LET o == Objects[i]
           spec == job.conf.objects[o]
       IN  IF RenderRaises(job.conf, spec)
           THEN job' = Idle /\ clean' = FALSE /\ moved' = TRUE /\ UNCHANGED diskVars
           ELSE /\ files' = [files EXCEPT ![o] = Rendered(job.conf, spec, @)]
                /\ compose' = [compose EXCEPT ![o] = Service(o, spec)]
                /\ job' = [job EXCEPT !.step = "up", !.todo = @ \ {i}, !.at = o,
                                !.restart = NonComposeChanged(job.conf, spec, files[o])]
                /\ UNCHANGED <<clean, moved>>
    /\ UNCHANGED <<conf, cont, dockerUp, dnsVars, pending, owed, owedDns, events>>

\* A container started anew reads its files and may get another address.
StartedAs(o, address) ==
    [spec |-> compose[o], loaded |-> files[o],
     address |-> IF compose[o].network = "host" THEN "host" ELSE address]

\* docker compose up -d: the container is recreated if its service changed.
ComposeUp ==
    /\ job.step = "up" /\ dockerUp
    /\ LET o == job.at IN
       /\ IF cont[o].spec = compose[o] THEN cont' = cont
          ELSE \E a \in Free : cont' = [cont EXCEPT ![o] = StartedAs(o, a)]
       /\ owed' = owed \ {<<o, IF cont[o].spec = compose[o] THEN "up" ELSE "restart">>,
                          <<o, "up">>}
    /\ job' = [job EXCEPT !.step = IF job.restart THEN "restart" ELSE "next"]
    /\ UNCHANGED <<conf, diskVars, dockerUp, dnsVars, pending, moved, owedDns, clean, events>>

\* docker compose restart: the same container, with its address.
Restart ==
    /\ job.step = "restart" /\ dockerUp
    /\ cont' = [cont EXCEPT ![job.at].loaded = files[job.at]]
    /\ owed' = owed \ {<<job.at, "restart">>}
    /\ job' = [job EXCEPT !.step = "next", !.restart = FALSE]
    /\ UNCHANGED <<conf, diskVars, dockerUp, dnsVars, pending, moved, owedDns, clean, events>>

\* Nothing left to apply: _apply_docker_dns.  A container whose address docker
\* does not tell is left out.
Records ==
    {<<o, IF job.conf.objects[o].network = "host" THEN job.conf.dns.hostAddress
          ELSE cont[o].address>> :
        o \in {p \in Enabled(job.conf) :
                IF job.conf.objects[p].network = "host" THEN job.conf.dns.hostAddress # None
                ELSE dockerUp /\ cont[p].address \notin {None, "host"}}}

WriteDns ==
    /\ job.step = "next" /\ job.todo = {}
    /\ LET old == dnsFile
           new == CASE ~job.conf.dns.present -> dnsFile
                    [] ~job.conf.dns.enabled -> {}
                    [] OTHER -> {Records}
       IN  /\ dnsFile' = new
           /\ job' = IF new = old THEN Idle ELSE [job EXCEPT !.step = "dns"]
           /\ moved' = (moved /\ ~(job.conf.dns.present /\ job.conf = conf))
    /\ UNCHANGED <<conf, diskVars, cont, dockerUp, served, pending, owed, owedDns, clean, events>>

\* Slip: dnsmasq is told to reload, and does not read its configuration again.
ReloadDnsmasq ==
    /\ job.step = "dns"
    /\ job' = Idle /\ owedDns' = FALSE
    /\ UNCHANGED <<conf, diskVars, cont, dockerUp, dnsVars, pending, owed, moved, clean, events>>

RestartDnsmasq ==
    /\ job.step = "dns"
    /\ served' = UNION dnsFile
    /\ job' = Idle /\ owedDns' = FALSE
    /\ UNCHANGED <<conf, diskVars, cont, dockerUp, dnsFile, pending, owed, moved, clean, events>>

\* A command fails (docker is down, an image cannot be pulled) or the process
\* is killed: the rest of the update is not done.
AtRisk ==
    {<<job.at, what>> : what \in
        {w \in {"up", "restart"} :
            job.step = w \/ (w = "restart" /\ job.step = "up" /\ job.restart)}}

CutShort ==
    /\ job.step # "idle"
    /\ (job.step \in {"up", "restart"} /\ ~dockerUp /\ events' = events) \/ Outside
    /\ job' = Idle
    /\ owed' = owed \cup AtRisk
    /\ moved' = TRUE
    /\ owedDns' = (owedDns \/ job.step = "dns")
    /\ clean' = FALSE
    /\ UNCHANGED <<conf, diskVars, cont, dockerUp, dnsVars, pending>>

-----------------------------------------------------------------------------
(* Outside the update.                                                     *)

Edit ==
    /\ Outside
    /\ conf' \in Configs /\ conf' # conf
    /\ clean' = FALSE /\ moved' = TRUE
    /\ UNCHANGED <<diskVars, cont, dockerUp, dnsVars, pending, job, owed, owedDns>>

\* systemctl stop docker; its containers start with it again, at new addresses,
\* and the unit's hook queues docker-start.
DockerStops ==
    /\ dockerUp /\ Outside
    /\ dockerUp' = FALSE
    /\ clean' = FALSE
    /\ UNCHANGED <<conf, diskVars, cont, dnsVars, pending, job, owed, moved, owedDns>>

Existing == {o \in Range(Objects) : cont[o].spec # None}

DockerStarts ==
    /\ ~dockerUp
    /\ dockerUp' = TRUE /\ pending' = TRUE
    /\ \E new \in [Existing -> Range(Addresses)] :
        /\ \A o, p \in Existing : new[o] = new[p] => o = p
        /\ cont' = [o \in Range(Objects) |->
                IF o \in Existing
                THEN [cont[o] EXCEPT !.address = IF @ = "host" THEN @ ELSE new[o],
                                     !.loaded = files[o]]
                ELSE cont[o]]
    /\ owed' = {w \in owed : w[2] = "up"}
    /\ UNCHANGED <<conf, diskVars, dnsVars, job, moved, owedDns, clean, events>>

\* A container is recreated by hand: nothing tells DROS.
RecreatedByHand(o) ==
    /\ dockerUp /\ o \in Existing /\ cont[o].address # "host" /\ Outside
    /\ \E a \in Free :
        cont' = [cont EXCEPT ![o].address = a, ![o].loaded = files[o]]
    /\ moved' = TRUE /\ owed' = owed \ {<<o, "restart">>} /\ clean' = FALSE
    /\ UNCHANGED <<conf, diskVars, dockerUp, dnsVars, pending, job, owedDns>>

Init ==
    /\ conf \in Configs
    /\ compose = [o \in Range(Objects) |-> None]
    /\ files = [o \in Range(Objects) |-> <<>>]
    /\ cont = [o \in Range(Objects) |-> NoContainer]
    /\ dockerUp = TRUE
    /\ dnsFile = {} /\ served = {}
    /\ pending = FALSE /\ job = Idle
    /\ owed = {} /\ moved = FALSE /\ owedDns = FALSE /\ clean = FALSE
    /\ events = 0

Next ==
    \/ Update(DOMAIN Objects)
    \/ \E i \in DOMAIN Objects : Update({i}) \/ WriteFiles(i)
    \/ \E o \in Range(Objects) : RecreatedByHand(o)
    \/ TakeEvent \/ ComposeUp \/ Restart \/ WriteDns \/ RestartDnsmasq
    \/ CutShort \/ Edit \/ DockerStops \/ DockerStarts

Spec == Init /\ [][Next]_vars

-----------------------------------------------------------------------------
(* Properties.                                                             *)

TypeOK ==
    /\ conf \in Configs
    /\ \A o \in Range(Objects) :
          /\ compose[o] # None => compose[o].name = o
          /\ \A path \in DOMAIN files[o] : Len(path) = 2
          /\ cont[o].address \in Range(Addresses) \cup {"host", None}
    /\ dockerUp \in BOOLEAN /\ pending \in BOOLEAN
    /\ Cardinality(dnsFile) <= 1
    /\ \A r \in served : r[1] \in Range(Objects)
    /\ job.step \in {"idle", "next", "up", "restart", "dns"}
    /\ job.todo \subseteq DOMAIN Objects /\ job.at \in Range(Objects) \cup {None}
    /\ job.step # "idle" => job.conf \in Configs
    /\ owed \subseteq Range(Objects) \X {"up", "restart"}

AtRest == job.step = "idle" /\ ~pending /\ dockerUp

\* With no update under way every container runs the compose file on disk, and
\* has read the generated files on disk since they last changed, unless the
\* very command that was to see to it was cut off; a compose file left behind
\* is caught up by the next update, a generated file is not.
ContainersRunTheirFiles ==
    AtRest => \A o \in Range(Objects) :
        /\ compose[o] # None /\ <<o, "up">> \notin owed => cont[o].spec = compose[o]
        /\ cont[o].spec # None /\ owed \cap ({o} \X {"up", "restart"}) = {}
           => cont[o].loaded = files[o]

\* At rest, with no change since the last sync that no event announces, dnsmasq
\* sends every enabled container's name to the address the container has now,
\* and nothing of a disabled one.
RecordsFollowContainers ==
    AtRest /\ ~moved /\ ~owedDns /\ conf.dns.present /\ conf.dns.enabled =>
        /\ served = UNION dnsFile
        /\ \A r \in served :
              /\ r[1] \in Enabled(conf)
              /\ conf.objects[r[1]].network # "host" => r[2] = cont[r[1]].address
        /\ \A o \in Enabled(conf) :
              cont[o].address \in Range(Addresses) /\ conf.objects[o].network # "host"
              => <<o, cont[o].address>> \in served

\* A full update that follows a full update, with no edit and no failure in
\* between, recreates and restarts no container, unless two of its mounts
\* generate the same file.
RepeatIsQuiet ==
    job.repeat /\ job.step \in {"up", "restart"} =>
        /\ cont[job.at].spec = compose[job.at]
        /\ job.step = "restart" => Collides(job.conf.objects[job.at])

\* What validation does not look up: a ConfigMap with an empty name, and the ConfigMaps
\* of the files that an app brings.
Unchecked(spec) ==
    \/ \E i \in DOMAIN spec.mounts :
          spec.mounts[i].type = "configMap" /\ "" \in spec.mounts[i].source
    \/ \E i \in DOMAIN spec.confFiles : spec.confFiles[i].type = "configMap"

\* What validation accepts of a DockerContainer or DockerApp does not stop an update
\* half way but for what it does not look up: every other file from a ConfigMap is there
\* (docker_resources.py:314-318, 346).
ValidContainersRender ==
    \A o \in Range(Objects) :
        Valid(conf, o) /\ RenderRaises(conf, conf.objects[o]) => Unchecked(conf.objects[o])
=============================================================================
