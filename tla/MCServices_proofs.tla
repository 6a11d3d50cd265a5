------------------------- MODULE MCServices_proofs -------------------------
(***************************************************************************)
(* The properties of MCServices about the containers, for every set of     *)
(* configurations, objects and addresses; about the configuration store,   *)
(* for every set of documents, kinds and directories; and about the        *)
(* OpenVPN PKI; any bound. Last, the type invariant of every part.         *)
(***************************************************************************)
EXTENDS RouteRefresh_proofs, FunctionTheorems, FiniteSetTheorems, WellFoundedInduction

DockerSet == Docker!Range(DockerObjects)
ContFields == {"spec", "loaded", "address"}
DockerJobFields == {"step", "conf", "todo", "at", "restart", "repeat"}

\* An object is under way: its files are written, and docker is not done with it.
AtWork(o) == dockerJob.step \in {"up", "restart"} /\ dockerJob.at = o

\* An update only applies enabled objects, and restarts one only after it has seen that
\* a file changed.
DockerShapes ==
    /\ conf \in DockerConfigs
    /\ DOMAIN compose = DockerSet /\ DOMAIN files = DockerSet /\ DOMAIN cont = DockerSet
    /\ \A o \in DockerSet :
          DOMAIN cont[o] = ContFields /\ files[o] = [path \in DOMAIN files[o] |-> files[o][path]]
    /\ DOMAIN dockerJob = DockerJobFields
    /\ dockerJob.restart \in BOOLEAN
    /\ dockerJob.step # "idle" =>
          /\ dockerJob.conf \in DockerConfigs
          /\ dockerJob.todo \subseteq
                {i \in DOMAIN DockerObjects : DockerObjects[i] \in Docker!Enabled(dockerJob.conf)}
    /\ \A o : AtWork(o) => o \in Docker!Enabled(dockerJob.conf)
    /\ dockerJob.step = "restart" => dockerJob.restart
    /\ dockerJob.step = "dns" => dockerJob.todo = {}

\* A container that does not run its compose file, or has not read its files as they are
\* now, is being seen to, or the command that was to do it is owed.
ContainersInv ==
    \A o \in DockerSet :
        /\ compose[o] # None /\ <<o, "up">> \notin owed =>
              cont[o].spec = compose[o] \/ (dockerJob.step = "up" /\ dockerJob.at = o)
        /\ cont[o].spec # None /\ <<o, "restart">> \notin owed =>
              cont[o].loaded = files[o] \/ (AtWork(o) /\ dockerJob.restart)

RecordsAreRight ==
    /\ \A r \in UNION dnsFile :
          /\ r[1] \in Docker!Enabled(conf)
          /\ conf.objects[r[1]].network # "host" => r[2] = cont[r[1]].address
    /\ \A o \in Docker!Enabled(conf) :
          cont[o].address \in Docker!Range(DockerAddresses) /\ conf.objects[o].network # "host"
          => <<o, cont[o].address>> \in UNION dnsFile

\* The records are right once they are written, until a container or the configuration
\* changes: then an update is under way, an event is queued, or it is on record.
RecordsInv ==
    /\ ~owedDns /\ dockerJob.step # "dns" => served = UNION dnsFile
    /\ ~moved /\ dockerJob.step # "idle" => dockerJob.conf = conf
    /\ /\ ~moved /\ ~dockerPending /\ dockerUp /\ dockerJob.step \in {"idle", "dns"}
       /\ conf.dns.present /\ conf.dns.enabled
       => RecordsAreRight

\* What an object's project looks like on disk after an update from configuration c.
FilesAreThere(c, o) ==
    \A path \in Docker!Paths(c.objects[o]) :
        /\ path \in DOMAIN files[o]
        /\ files[o][path] =
              Docker!ContentOf(c, Docker!Mounts(c.objects[o])[Docker!LastWriter(c.objects[o], path)])

Written(c, o) == compose[o] = Docker!Service(o, c.objects[o]) /\ FilesAreThere(c, o)

Applied(c, o) == Written(c, o) /\ cont[o].spec = compose[o]

\* After a full update everything is applied or will be; a repeated one finds it so.
RepeatInv ==
    /\ dockerJob.step # "idle" /\ dockerJob.repeat =>
          \A o \in Docker!Enabled(dockerJob.conf) : Applied(dockerJob.conf, o)
    /\ \A o : AtWork(o) /\ dockerJob.repeat /\ dockerJob.restart =>
          Docker!Collides(dockerJob.conf.objects[o])
    /\ clean =>
          /\ dockerJob.step # "idle" => dockerJob.conf = conf
          /\ \A o \in Docker!Enabled(conf) :
                \/ Applied(conf, o)
                \/ dockerJob.step # "idle" /\ \E i \in dockerJob.todo : DockerObjects[i] = o
                \/ dockerJob.step = "up" /\ dockerJob.at = o /\ Written(conf, o)

DockerInv == DockerShapes /\ ContainersInv /\ RecordsInv /\ RepeatInv

-----------------------------------------------------------------------------
(* What an update writes: the data.                                        *)

\* A set of places in a list has a last one.
LEMMA MaxOfPlaces ==
    ASSUME NEW n \in Nat, NEW S, S \subseteq 1..n, S # {}
    PROVE  Docker!Max(S) \in S
<1>. DEFINE From(i) == i..n
            T == {From(i) : i \in S}
<1>1. T \subseteq FiniteSubsetsOf(1..n)
  <2>1. IsFiniteSet(1..n)  BY FS_Interval
  <2>2. FiniteSubsetsOf(1..n) = SUBSET (1..n)  BY <2>1, FS_FiniteSubsetsOfFinite
  <2>3. T \subseteq SUBSET (1..n)  OBVIOUS
  <2>4. QED  BY <2>2, <2>3
<1>2. T # {}  OBVIOUS
<1>3. PICK x \in T : \A y \in T : ~(<<y, x>> \in StrictSubsetOrdering(1..n))
  <2>1. IsWellFoundedOn(StrictSubsetOrdering(1..n), FiniteSubsetsOf(1..n))
    BY FS_StrictSubsetOrderingWellFounded
  <2>. HIDE DEF T
  <2>2. QED  BY <1>1, <1>2, <2>1, WFMin
<1>4. PICK i \in S : x = From(i)  BY <1>3
<1>5. \A j \in S : i >= j
  <2>1. SUFFICES ASSUME NEW j \in S, i < j PROVE FALSE  OBVIOUS
  <2>2. From(j) \subseteq From(i) /\ From(j) # From(i)
    <3>1. i \in From(i) /\ i \notin From(j)  BY <2>1
    <3>2. From(j) \subseteq From(i)  BY <2>1
    <3>3. QED  BY <3>1, <3>2
  <2>3. From(j) \in SUBSET (1..n) /\ From(i) \in SUBSET (1..n)  OBVIOUS
  <2>. HIDE DEF From
  <2>4. <<From(j), From(i)>> \in StrictSubsetOrdering(1..n)
    BY <2>2, <2>3 DEF StrictSubsetOrdering
  <2>5. QED  BY <1>3, <1>4, <2>4
<1>6. QED  BY <1>5 DEF Docker!Max

\* The mounts of a project come in a list, those of the app before those of the object.
LEMMA MountListsOf ==
    ASSUME NEW c \in DockerConfigs, NEW o \in DockerSet
    PROVE  LET spec == c.objects[o] IN
           spec.mounts \in Seq(Range(spec.mounts)) /\ \E S : Docker!AppMounts(spec) \in Seq(S)
<1>1. PICK spec : spec = c.objects[o]  OBVIOUS
<1>2. /\ spec.mounts \in Seq(Range(spec.mounts))
      /\ spec.confFiles \in Seq(Range(spec.confFiles))
  <2>1. o \in Range(DockerObjects)  BY DEF DockerSet, Range, Docker!Range
  <2>2. QED  BY <1>1, <2>1, DockerAssumption
<1>3. \E S : Docker!AppMounts(spec) \in Seq(S)
  <2>1. Docker!AppMounts(spec) \in Seq(Range(spec.confFiles)) \/ Docker!AppMounts(spec) = <<>>
        \/ (\E a : Docker!AppMounts(spec) = <<a>>)
        \/ (\E a, b : Docker!AppMounts(spec) = <<a, b>>)
        \/ (\E a, b, d : Docker!AppMounts(spec) = <<a, b, d>>)
        \/ (\E a, b, d, e : Docker!AppMounts(spec) = <<a, b, d, e>>)
    BY <1>2, Zenon DEF Docker!AppMounts
  <2>2. \A a, b, d, e :
           /\ <<>> \in Seq({a}) /\ <<a>> \in Seq({a}) /\ <<a, b>> \in Seq({a, b})
           /\ <<a, b, d>> \in Seq({a, b, d}) /\ <<a, b, d, e>> \in Seq({a, b, d, e})
    OBVIOUS
  <2>3. CASE \E a : Docker!AppMounts(spec) = <<a>>
    <3>1. PICK a : Docker!AppMounts(spec) = <<a>>  BY <2>3
    <3>2. Docker!AppMounts(spec) \in Seq({a})  BY <2>2, <3>1
    <3>3. QED  BY <3>2
  <2>4. CASE \E a, b : Docker!AppMounts(spec) = <<a, b>>
    <3>1. PICK a, b : Docker!AppMounts(spec) = <<a, b>>  BY <2>4
    <3>2. Docker!AppMounts(spec) \in Seq({a, b})  BY <2>2, <3>1
    <3>3. QED  BY <3>2
  <2>5. CASE \E a, b, d : Docker!AppMounts(spec) = <<a, b, d>>
    <3>1. PICK a, b, d : Docker!AppMounts(spec) = <<a, b, d>>  BY <2>5
    <3>2. Docker!AppMounts(spec) \in Seq({a, b, d})  BY <2>2, <3>1
    <3>3. QED  BY <3>2
  <2>6. CASE \E a, b, d, e : Docker!AppMounts(spec) = <<a, b, d, e>>
    <3>1. PICK a, b, d, e : Docker!AppMounts(spec) = <<a, b, d, e>>  BY <2>6
    <3>2. Docker!AppMounts(spec) \in Seq({a, b, d, e})  BY <2>2, <3>1
    <3>3. QED  BY <3>2
  <2>7. QED  BY <2>1, <2>2, <2>3, <2>4, <2>5, <2>6
<1>4. QED  BY <1>1, <1>2, <1>3

LEMMA MountsAreListed ==
    ASSUME NEW c \in DockerConfigs, NEW o \in DockerSet
    PROVE  \E n \in Nat : DOMAIN Docker!Mounts(c.objects[o]) = 1..n
<1>1. PICK spec : spec = c.objects[o]  OBVIOUS
<1>2. /\ spec.mounts \in Seq(Range(spec.mounts))
      /\ \E S : Docker!AppMounts(spec) \in Seq(S)
  BY <1>1, MountListsOf
<1>4. PICK S : Docker!AppMounts(spec) \in Seq(S)  BY <1>2
<1>5. Docker!Mounts(spec) \in Seq(S \cup Range(spec.mounts))
  <2>1. Docker!AppMounts(spec) \in Seq(S \cup Range(spec.mounts))
    BY <1>4
  <2>2. spec.mounts \in Seq(S \cup Range(spec.mounts))  BY <1>2
  <2>3. QED  BY <2>1, <2>2 DEF Docker!Mounts
<1>6. QED  BY <1>1, <1>5, LenProperties

\* A file that a project has is written last by one of its mounts.
LEMMA SomeoneWrites ==
    ASSUME NEW c \in DockerConfigs, NEW o \in DockerSet, NEW path \in Docker!Paths(c.objects[o])
    PROVE  Docker!LastWriter(c.objects[o], path) \in Docker!Writers(c.objects[o], path)
<1>1. PICK n \in Nat : DOMAIN Docker!Mounts(c.objects[o]) = 1..n  BY MountsAreListed
<1>2. Docker!Writers(c.objects[o], path) \subseteq 1..n  BY <1>1 DEF Docker!Writers
<1>3. Docker!Writers(c.objects[o], path) # {}  BY DEF Docker!Writers, Docker!Paths
<1>4. QED  BY <1>2, <1>3, MaxOfPlaces DEF Docker!LastWriter

\* Files that do not change are as they were.
LEMMA UnchangedIsTheSame ==
    ASSUME NEW c \in DockerConfigs, NEW o \in DockerSet, NEW old,
           old = [path \in DOMAIN old |-> old[path]],
           ~Docker!NonComposeChanged(c, c.objects[o], old)
    PROVE  Docker!Rendered(c, c.objects[o], old) = old
<1>1. PICK spec : spec = c.objects[o]  OBVIOUS
<1>2. \A path \in Docker!Paths(spec) :
         /\ path \in DOMAIN old
         /\ Docker!ContentOf(c, Docker!Mounts(spec)[Docker!LastWriter(spec, path)]) = old[path]
  <2>1. SUFFICES ASSUME NEW path \in Docker!Paths(spec)
                 PROVE  /\ path \in DOMAIN old
                        /\ Docker!ContentOf(c, Docker!Mounts(spec)[Docker!LastWriter(spec, path)])
                           = old[path]
    OBVIOUS
  <2>2. PICK i : i = Docker!LastWriter(spec, path)  OBVIOUS
  <2>3. i \in DOMAIN Docker!Mounts(spec) /\ path \in Docker!Generated(Docker!Mounts(spec)[i])
    BY <1>1, <2>2, SomeoneWrites DEF Docker!Writers
  <2>4. QED  BY <1>1, <2>2, <2>3 DEF Docker!NonComposeChanged
<1>3. DOMAIN old \cup Docker!Paths(spec) = DOMAIN old  BY <1>2
<1>4. Docker!Rendered(c, spec, old) = [path \in DOMAIN old |-> old[path]]
  <2>. DEFINE content(path) ==
                Docker!ContentOf(c, Docker!Mounts(spec)[Docker!LastWriter(spec, path)])
              paths == Docker!Paths(spec)
  <2>1. Docker!Rendered(c, spec, old) =
          [path \in DOMAIN old \cup paths |-> IF path \in paths THEN content(path) ELSE old[path]]
    BY DEF Docker!Rendered
  <2>2. \A path \in paths : content(path) = old[path]  BY <1>2
  <2>3. DOMAIN old \cup paths = DOMAIN old  BY <1>3
  <2>. HIDE DEF content, paths
  <2>4. QED  BY <2>1, <2>2, <2>3
<1>5. QED  BY <1>1, <1>4

\* Files that are there already only change if two mounts write the same one.
LEMMA OnlyCollisionsChange ==
    ASSUME NEW c \in DockerConfigs, NEW o \in DockerSet, FilesAreThere(c, o),
           Docker!NonComposeChanged(c, c.objects[o], files[o])
    PROVE  Docker!Collides(c.objects[o])
<1>1. PICK spec : spec = c.objects[o]  OBVIOUS
<1>2. PICK i \in DOMAIN Docker!Mounts(spec) : \E path \in Docker!Generated(Docker!Mounts(spec)[i]) :
         \/ path \notin DOMAIN files[o]
         \/ files[o][path] # Docker!ContentOf(c, Docker!Mounts(spec)[i])
  BY <1>1 DEF Docker!NonComposeChanged
<1>3. PICK path \in Docker!Generated(Docker!Mounts(spec)[i]) :
         \/ path \notin DOMAIN files[o]
         \/ files[o][path] # Docker!ContentOf(c, Docker!Mounts(spec)[i])
  BY <1>2
<1>4. path \in Docker!Paths(spec)  BY <1>3 DEF Docker!Paths
<1>5. PICK j : j = Docker!LastWriter(spec, path)  OBVIOUS
<1>6. j \in DOMAIN Docker!Mounts(spec) /\ path \in Docker!Generated(Docker!Mounts(spec)[j])
  BY <1>1, <1>4, <1>5, SomeoneWrites DEF Docker!Writers
<1>7. i # j  BY <1>1, <1>3, <1>4, <1>5 DEF FilesAreThere
<1>8. QED  BY <1>1, <1>3, <1>6, <1>7 DEF Docker!Collides

\* What is rendered is there.
LEMMA RenderedIsThere ==
    ASSUME NEW c, NEW o, files'[o] = Docker!Rendered(c, c.objects[o], files[o])
    PROVE  \A path \in Docker!Paths(c.objects[o]) :
              /\ path \in DOMAIN files'[o]
              /\ files'[o][path] =
                    Docker!ContentOf(c, Docker!Mounts(c.objects[o])[Docker!LastWriter(c.objects[o], path)])
<1>. DEFINE content(path) ==
              Docker!ContentOf(c, Docker!Mounts(c.objects[o])[Docker!LastWriter(c.objects[o], path)])
            paths == Docker!Paths(c.objects[o])
<1>1. files'[o] = [path \in DOMAIN files[o] \cup paths |->
                      IF path \in paths THEN content(path) ELSE files[o][path]]
  BY DEF Docker!Rendered
<1>. HIDE DEF content, paths
<1>2. \A path \in paths : path \in DOMAIN files'[o] /\ files'[o][path] = content(path)
  BY <1>1
<1>3. QED  BY <1>2 DEF content, paths

-----------------------------------------------------------------------------
(* The steps.                                                              *)

LEMMA DockerInitHolds == ASSUME Docker!Init PROVE DockerInv
<1>1. /\ conf \in DockerConfigs /\ dockerJob = Docker!Idle
      /\ DOMAIN compose = DockerSet /\ DOMAIN files = DockerSet /\ DOMAIN cont = DockerSet
      /\ \A o \in DockerSet :
            compose[o] = None /\ files[o] = <<>> /\ cont[o] = Docker!NoContainer
  BY DEF Docker!Init, DockerSet
<1>2. /\ dockerJob.step = "idle" /\ dockerJob.restart = FALSE /\ dockerJob.repeat = FALSE
      /\ DOMAIN dockerJob = DockerJobFields
  BY <1>1 DEF Docker!Idle, DockerJobFields
<1>3. \A o : ~AtWork(o)  BY <1>2 DEF AtWork
<1>4. DockerShapes
  <2>1. \A o \in DockerSet : DOMAIN cont[o] = ContFields  BY <1>1 DEF Docker!NoContainer, ContFields
  <2>2. <<>> = [path \in DOMAIN <<>> |-> <<>>[path]]  OBVIOUS
  <2>3. QED  BY <1>1, <1>2, <1>3, <2>1, <2>2 DEF DockerShapes
<1>5. ContainersInv
  BY <1>1 DEF ContainersInv, Docker!NoContainer
<1>6. RecordsInv
  <2>1. dnsFile = {} /\ served = {}  BY DEF Docker!Init
  <2>2. \A o \in DockerSet : cont[o].address = None  BY <1>1 DEF Docker!NoContainer
  <2>3. None \notin Docker!Range(DockerAddresses)
    <3>1. None \notin Range(DockerAddresses)  BY DockerAssumption
    <3>2. QED  BY <3>1 DEF Range, Docker!Range
  <2>4. \A o \in Docker!Enabled(conf) : o \in DockerSet  BY DEF Docker!Enabled, DockerSet
  <2>5. RecordsAreRight  BY <2>1, <2>2, <2>3, <2>4 DEF RecordsAreRight
  <2>6. QED  BY <1>2, <2>1, <2>5 DEF RecordsInv
<1>7. RepeatInv
  <2>1. clean = FALSE  BY DEF Docker!Init
  <2>2. QED  BY <1>2, <1>3, <2>1 DEF RepeatInv
<1>8. QED  BY <1>4, <1>5, <1>6, <1>7 DEF DockerInv

\* An object whose files and container's service stay is as applied as before.
LEMMA AppliedStays ==
    ASSUME NEW c, NEW o, compose'[o] = compose[o], files'[o] = files[o],
           cont'[o].spec = cont[o].spec
    PROVE  Written(c, o)' = Written(c, o) /\ Applied(c, o)' = Applied(c, o)
  BY DEF Written, Applied, FilesAreThere

\* Steps that change neither files nor services, and do not make a new job.
LEMMA RepeatStays ==
    ASSUME RepeatInv, UNCHANGED <<conf, compose, files, dockerJob>>,
           \A o \in DockerSet : cont'[o].spec = cont[o].spec, clean' => clean
    PROVE  RepeatInv'
<1>1. \A c : \A o \in DockerSet : Written(c, o)' = Written(c, o) /\ Applied(c, o)' = Applied(c, o)
  BY AppliedStays
<1>2. PICK c : c = conf  OBVIOUS
<1>3. PICK d : d = dockerJob.conf  OBVIOUS
<1>4. \A o : AtWork(o)' = AtWork(o)  BY DEF AtWork
<1>5. \A x : \A o \in Docker!Enabled(x) : o \in DockerSet  BY DEF Docker!Enabled, DockerSet
<1>6. (dockerJob.step # "idle" /\ dockerJob.repeat =>
          \A o \in Docker!Enabled(dockerJob.conf) : Applied(dockerJob.conf, o))'
  BY <1>1, <1>3, <1>5 DEF RepeatInv
<1>7. (\A o : AtWork(o) /\ dockerJob.repeat /\ dockerJob.restart =>
          Docker!Collides(dockerJob.conf.objects[o]))'
  BY <1>4 DEF RepeatInv
<1>8. clean =>
         /\ dockerJob.step # "idle" => dockerJob.conf = conf
         /\ \A o \in Docker!Enabled(c) :
               \/ Applied(c, o)
               \/ dockerJob.step # "idle" /\ \E i \in dockerJob.todo : DockerObjects[i] = o
               \/ dockerJob.step = "up" /\ dockerJob.at = o /\ Written(c, o)
  BY <1>2 DEF RepeatInv
<1>9. conf' = c  BY <1>2
<1>10. QED  BY <1>1, <1>5, <1>6, <1>7, <1>8, <1>9 DEF RepeatInv

\* An update or a handler begins: what is not applied is on its list.
LEMMA StartKeepsInv ==
    ASSUME DockerInv, NEW j, dockerJob.step = "idle", dockerJob' = j, DOMAIN j = DockerJobFields,
           j.step = "next", j.conf = conf, j.restart = FALSE, j.repeat => clean,
           j.todo \subseteq {i \in DOMAIN DockerObjects : DockerObjects[i] \in Docker!Enabled(conf)},
           clean' => clean \/ \A o \in Docker!Enabled(conf) : \E i \in j.todo : DockerObjects[i] = o,
           UNCHANGED <<conf, compose, files, cont, dockerUp, dnsFile, served, owed, moved, owedDns>>
    PROVE  DockerInv'
<1>1. \A o : ~AtWork(o) /\ ~AtWork(o)'  BY DEF AtWork
<1>2. DockerShapes'  BY <1>1 DEF DockerInv, DockerShapes
<1>3. ContainersInv'
  BY <1>1 DEF DockerInv, ContainersInv
<1>4. RecordsInv'  BY DEF DockerInv, RecordsInv
<1>5. RepeatInv'
  <2>1. PICK c : c = conf  OBVIOUS
  <2>2. \A o : Applied(c, o)' = Applied(c, o)  BY AppliedStays
  <2>3. clean => \A o \in Docker!Enabled(c) : Applied(c, o)  BY <2>1 DEF DockerInv, RepeatInv
  <2>4. (dockerJob.step # "idle" /\ dockerJob.repeat =>
            \A o \in Docker!Enabled(dockerJob.conf) : Applied(dockerJob.conf, o))'
    <3>1. j.repeat => \A o \in Docker!Enabled(c) : Applied(c, o)'  BY <2>2, <2>3
    <3>2. dockerJob'.conf = c /\ dockerJob'.repeat = j.repeat  BY <2>1
    <3>3. QED  BY <3>1, <3>2
  <2>5. clean' => \A o \in Docker!Enabled(c) :
                     Applied(c, o)' \/ \E i \in dockerJob'.todo : DockerObjects[i] = o
    BY <2>1, <2>2, <2>3
  <2>6. conf' = c /\ dockerJob'.step = "next" /\ dockerJob'.conf = c  BY <2>1
  <2>7. QED  BY <1>1, <2>4, <2>5, <2>6 DEF RepeatInv
<1>6. QED  BY <1>2, <1>3, <1>4, <1>5 DEF DockerInv

LEMMA UpdateKeepsInv ==
    ASSUME DockerInv, NEW selected \in SUBSET DOMAIN DockerObjects, Docker!Update(selected)
    PROVE  DockerInv'
<1>1. PICK todo : todo = {i \in selected : DockerObjects[i] \in Docker!Enabled(conf)}  OBVIOUS
<1>2. PICK c : c = conf  OBVIOUS
<1>3. PICK again : again = clean  OBVIOUS
<1>4. PICK j : j = [Docker!Idle EXCEPT !.step = "next", !.conf = c, !.todo = todo,
                                       !.repeat = again]
  OBVIOUS
<1>5. /\ DOMAIN j = DockerJobFields /\ j.step = "next" /\ j.conf = c /\ j.restart = FALSE
      /\ j.todo = todo /\ j.repeat = again
  BY <1>4 DEF Docker!Idle, DockerJobFields
<1>6. dockerJob.step = "idle" /\ dockerJob' = j
  BY <1>1, <1>2, <1>3, <1>4 DEF Docker!Update
<1>7. UNCHANGED <<conf, compose, files, cont, dockerUp, dnsFile, served, owed, moved, owedDns>>
      /\ clean' = (clean \/ selected = DOMAIN DockerObjects)
  BY DEF Docker!Update, Docker!diskVars, Docker!dnsVars
<1>8. selected = DOMAIN DockerObjects =>
         \A o \in Docker!Enabled(conf) : \E i \in todo : DockerObjects[i] = o
  BY <1>1 DEF Docker!Enabled, Docker!Range
<1>9. j.todo \subseteq {i \in DOMAIN DockerObjects : DockerObjects[i] \in Docker!Enabled(conf)}
  BY <1>1, <1>5
<1>10. clean' => clean \/ \A o \in Docker!Enabled(conf) : \E i \in j.todo : DockerObjects[i] = o
  BY <1>5, <1>7, <1>8
<1>11. j.repeat => clean  BY <1>3, <1>5
<1>12. j.conf = conf  BY <1>2, <1>5
<1>13. QED  BY <1>5, <1>6, <1>7, <1>9, <1>10, <1>11, <1>12, StartKeepsInv

LEMMA DockerEventKeepsInv == ASSUME DockerInv, Docker!TakeEvent PROVE DockerInv'
<1>1. PICK c : c = conf  OBVIOUS
<1>2. PICK j : j = [Docker!Idle EXCEPT !.step = "next", !.conf = c]  OBVIOUS
<1>3. /\ DOMAIN j = DockerJobFields /\ j.step = "next" /\ j.conf = c /\ j.restart = FALSE
      /\ j.todo = {} /\ j.repeat = FALSE
  BY <1>2 DEF Docker!Idle, DockerJobFields
<1>4. dockerJob.step = "idle" /\ dockerJob' = j
  BY <1>1, <1>2 DEF Docker!TakeEvent
<1>5. UNCHANGED <<conf, compose, files, cont, dockerUp, dnsFile, served, owed, moved, owedDns, clean>>
  BY DEF Docker!TakeEvent, Docker!diskVars, Docker!dnsVars, Docker!history
<1>6. QED  BY <1>1, <1>3, <1>4, <1>5, StartKeepsInv

\* A job that is cut short, or stops: what was at risk is owed, and on record.
LEMMA CutShortKeepsInv ==
    ASSUME DockerInv, dockerJob' = Docker!Idle, moved', ~clean',
           owed \cup Docker!AtRisk \subseteq owed',
           ~owedDns' => ~owedDns /\ dockerJob.step # "dns",
           UNCHANGED <<conf, compose, files, cont, dnsFile, served>>
    PROVE  DockerInv'
<1>1. /\ dockerJob'.step = "idle" /\ dockerJob'.restart = FALSE
      /\ DOMAIN dockerJob' = DockerJobFields
  BY DEF Docker!Idle, DockerJobFields
<1>2. \A o : ~AtWork(o)'  BY <1>1 DEF AtWork
<1>3. DockerShapes'  BY <1>1, <1>2 DEF DockerInv, DockerShapes
<1>4. ContainersInv'
  <2>1. dockerJob.step \in {"up", "restart"} => <<dockerJob.at, dockerJob.step>> \in owed'
    BY DEF Docker!AtRisk
  <2>2. dockerJob.step \in {"up", "restart"} /\ dockerJob.restart
          => <<dockerJob.at, "restart">> \in owed'
    BY DEF Docker!AtRisk
  <2>3. QED  BY <1>1, <2>1, <2>2 DEF DockerInv, ContainersInv, AtWork
<1>5. RecordsInv'  BY <1>1 DEF DockerInv, RecordsInv
<1>6. RepeatInv'  BY <1>1, <1>2 DEF RepeatInv
<1>7. QED  BY <1>3, <1>4, <1>5, <1>6 DEF DockerInv

\* _apply_project, up to its files.
LEMMA WriteFilesKeepsInv ==
    ASSUME DockerInv, NEW i \in DOMAIN DockerObjects, Docker!WriteFiles(i)
    PROVE  DockerInv'
<1>1. PICK j : j = dockerJob  OBVIOUS
<1>2. PICK o : o = DockerObjects[i]  OBVIOUS
<1>3. PICK c : c = j.conf  OBVIOUS
<1>4. PICK spec : spec = c.objects[o]  OBVIOUS
<1>5. j.step = "next" /\ i \in j.todo  BY <1>1 DEF Docker!WriteFiles
<1>6. /\ c \in DockerConfigs /\ o \in Docker!Enabled(c) /\ o \in DockerSet
      /\ DOMAIN j = DockerJobFields /\ o \in DOMAIN compose /\ o \in DOMAIN files
  BY <1>1, <1>2, <1>3, <1>5 DEF DockerInv, DockerShapes, Docker!Enabled, DockerSet
<1>7. \A p : ~AtWork(p)  BY <1>1, <1>5 DEF AtWork
<1>8. CASE Docker!RenderRaises(c, spec)
  <2>1. /\ dockerJob' = Docker!Idle /\ clean' = FALSE /\ moved' = TRUE
        /\ UNCHANGED <<conf, compose, files, cont, dnsFile, served, owed, owedDns>>
    BY <1>1, <1>2, <1>3, <1>4, <1>8
    DEF Docker!WriteFiles, Docker!diskVars, Docker!dnsVars
  <2>2. Docker!AtRisk = {}  BY <1>1, <1>5 DEF Docker!AtRisk
  <2>3. dockerJob.step # "dns"  BY <1>1, <1>5
  <2>4. owed \cup Docker!AtRisk \subseteq owed'  BY <2>1, <2>2
  <2>5. ~owedDns' => ~owedDns /\ dockerJob.step # "dns"  BY <2>1, <2>3
  <2>6. moved' /\ ~clean'  BY <2>1
  <2>7. UNCHANGED <<conf, compose, files, cont, dnsFile, served>>  BY <2>1
  <2>8. dockerJob' = Docker!Idle  BY <2>1
  <2>9. QED  BY <2>4, <2>5, <2>6, <2>7, <2>8, CutShortKeepsInv
<1>9. CASE ~Docker!RenderRaises(c, spec)
  <2>1. PICK content : content = Docker!Rendered(c, spec, files[o])  OBVIOUS
  <2>2. PICK service : service = Docker!Service(o, spec)  OBVIOUS
  <2>3. PICK changed \in BOOLEAN : changed = Docker!NonComposeChanged(c, spec, files[o])
    BY DEF Docker!NonComposeChanged
  <2>4. /\ files' = [files EXCEPT ![o] = content] /\ compose' = [compose EXCEPT ![o] = service]
        /\ dockerJob' = [j EXCEPT !.step = "up", !.todo = j.todo \ {i}, !.at = o,
                                  !.restart = changed]
    BY <1>1, <1>2, <1>3, <1>4, <1>9, <2>1, <2>2, <2>3 DEF Docker!WriteFiles
  <2>5. UNCHANGED <<conf, cont, dockerUp, dnsFile, served, dockerPending, owed, owedDns, clean, moved>>
    BY <1>1, <1>2, <1>3, <1>4, <1>9 DEF Docker!WriteFiles, Docker!dnsVars
  <2>6. /\ DOMAIN dockerJob' = DockerJobFields /\ dockerJob'.step = "up" /\ dockerJob'.at = o
        /\ dockerJob'.todo = j.todo \ {i} /\ dockerJob'.restart = changed
        /\ dockerJob'.conf = c /\ dockerJob'.repeat = j.repeat
    BY <1>3, <1>6, <2>4 DEF DockerJobFields
  <2>7. /\ DOMAIN files' = DOMAIN files /\ files'[o] = content
        /\ DOMAIN compose' = DOMAIN compose /\ compose'[o] = service
        /\ \A p : p # o => files'[p] = files[p] /\ compose'[p] = compose[p]
    BY <1>6, <2>4
  <2>8. \A p : AtWork(p)' = (p = o)  BY <2>6 DEF AtWork
  <2>9. DockerShapes'
    <3>1. content = [path \in DOMAIN content |-> content[path]]
      BY <2>1 DEF Docker!Rendered
    <3>2. QED
      BY <1>1, <1>3, <1>5, <1>6, <2>5, <2>6, <2>7, <2>8, <3>1 DEF DockerInv, DockerShapes
  <2>10. ContainersInv'
    <3>1. ~changed => content = files[o]
      <4>1. files[o] = [path \in DOMAIN files[o] |-> files[o][path]]
        BY <1>6 DEF DockerInv, DockerShapes
      <4>2. QED  BY <1>4, <1>6, <2>1, <2>3, <4>1, UnchangedIsTheSame
    <3>2. QED
      BY <1>7, <1>1, <1>5, <2>5, <2>6, <2>7, <2>8, <3>1 DEF DockerInv, ContainersInv
  <2>11. RecordsInv'
    BY <1>1, <1>3, <1>5, <2>5, <2>6 DEF DockerInv, RecordsInv
  <2>12. RepeatInv'
    <3>1. Written(c, o)'
      <4>1. FilesAreThere(c, o)'  BY <1>4, <2>1, <2>7, RenderedIsThere DEF FilesAreThere
      <4>2. QED  BY <1>4, <2>2, <2>7, <4>1 DEF Written
    <3>2. \A p : p # o => Applied(c, p)' = Applied(c, p) /\ Written(c, p)' = Written(c, p)
      BY <2>5, <2>7, AppliedStays
    <3>3. Applied(c, o) => Applied(c, o)'
      BY <1>4, <2>2, <2>5, <2>7, <3>1 DEF Applied, Written
    <3>4. j.repeat => \A p \in Docker!Enabled(c) : Applied(c, p)
      BY <1>1, <1>3, <1>5 DEF DockerInv, RepeatInv
    <3>5. j.repeat => \A p \in Docker!Enabled(c) : Applied(c, p)'  BY <3>2, <3>3, <3>4
    <3>6. j.repeat /\ changed => Docker!Collides(spec)
      BY <1>4, <1>6, <2>3, <3>4, OnlyCollisionsChange DEF Applied, Written
    <3>7. clean => conf = c
      BY <1>1, <1>3, <1>5 DEF DockerInv, RepeatInv
    <3>8. clean => \A p \in Docker!Enabled(c) :
                      Applied(c, p) \/ \E k \in j.todo : DockerObjects[k] = p
      BY <1>1, <1>5, <3>7 DEF DockerInv, RepeatInv
    <3>9. clean => \A p \in Docker!Enabled(c) :
                      \/ Applied(c, p)'
                      \/ \E k \in j.todo \ {i} : DockerObjects[k] = p
                      \/ p = o
      BY <1>2, <3>2, <3>8
    <3>10. conf' = conf /\ clean' = clean  BY <2>5
    <3>11. (dockerJob.step # "idle" /\ dockerJob.repeat =>
               \A p \in Docker!Enabled(dockerJob.conf) : Applied(dockerJob.conf, p))'
      BY <2>6, <3>5
    <3>12. (\A p : AtWork(p) /\ dockerJob.repeat /\ dockerJob.restart =>
               Docker!Collides(dockerJob.conf.objects[p]))'
      BY <1>4, <2>6, <2>8, <3>6
    <3>13. QED  BY <2>6, <3>1, <3>7, <3>9, <3>10, <3>11, <3>12 DEF RepeatInv
  <2>13. QED  BY <2>9, <2>10, <2>11, <2>12 DEF DockerInv
<1>10. QED  BY <1>8, <1>9

\* What compose up and restart do to the object that is applied.
LEMMA AtWorkKeepsInv ==
    ASSUME DockerInv, NEW o, NEW j, dockerJob = j, AtWork(o), NEW k, dockerJob' = k,
           DOMAIN k = DockerJobFields, k.step \in {"next", "restart"}, k.conf = j.conf,
           k.todo = j.todo, k.at = o, k.repeat = j.repeat, k.restart \in BOOLEAN,
           k.step = "restart" => k.restart /\ j.restart,
           j.step = "restart" => k.step = "next",
           DOMAIN cont' = DOMAIN cont, DOMAIN cont'[o] = ContFields,
           \A p : p # o => cont'[p] = cont[p],
           cont'[o].spec = cont[o].spec \/ cont'[o].spec = compose[o],
           \/ cont'[o].loaded = files[o]
           \/ /\ cont'[o] = cont[o] /\ (j.restart => k.step = "restart")
              /\ <<o, "restart">> \in owed => <<o, "restart">> \in owed',
           j.step = "up" => cont'[o].spec = compose[o],
           \A p : p # o => \A w : <<p, w>> \in owed => <<p, w>> \in owed',
           <<o, "up">> \in owed /\ j.step = "restart" => <<o, "up">> \in owed',
           UNCHANGED <<conf, compose, files, dnsFile, served, dockerPending, dockerUp,
                       moved, owedDns, clean>>
    PROVE  DockerInv'
<1>1. PICK c : c = j.conf  OBVIOUS
<1>2. /\ j.step \in {"up", "restart"} /\ j.at = o /\ o \in Docker!Enabled(c)
      /\ o \in DockerSet /\ c \in DockerConfigs
  BY <1>1 DEF DockerInv, DockerShapes, AtWork, Docker!Enabled, DockerSet
<1>3. \A p : AtWork(p)' => p = o /\ k.step = "restart"  BY DEF AtWork
<1>4. \A p : AtWork(p) => p = o  BY <1>2 DEF AtWork
<1>5. DockerShapes'
  BY <1>1, <1>2, <1>3 DEF DockerInv, DockerShapes
<1>6. ContainersInv'
  <2>1. ASSUME NEW p \in DockerSet, p # o
        PROVE  /\ compose[p] # None /\ <<p, "up">> \notin owed' => cont'[p].spec = compose[p]
               /\ cont'[p].spec # None /\ <<p, "restart">> \notin owed' => cont'[p].loaded = files[p]
    BY <2>1, <1>2, <1>4 DEF DockerInv, ContainersInv
  <2>2. compose[o] # None /\ <<o, "up">> \notin owed' => cont'[o].spec = compose[o]
    BY <1>2 DEF DockerInv, ContainersInv
  <2>3. cont'[o].spec # None /\ <<o, "restart">> \notin owed'
          => cont'[o].loaded = files[o] \/ k.step = "restart"
    BY <1>2 DEF DockerInv, ContainersInv
  <2>4. k.step = "restart" => AtWork(o)' /\ dockerJob'.restart  BY DEF AtWork
  <2>5. QED  BY <2>1, <2>2, <2>3, <2>4 DEF ContainersInv
<1>7. RecordsInv'  BY <1>2 DEF DockerInv, RecordsInv
<1>8. RepeatInv'
  <2>1. \A p : p # o => Applied(c, p)' = Applied(c, p)  BY AppliedStays
  <2>2. Applied(c, o) => Applied(c, o)'
    BY DEF Applied, Written, FilesAreThere
  <2>3. \A p : Applied(c, p) => Applied(c, p)'  BY <2>1, <2>2
  <2>4. Written(c, o) /\ j.step = "up" => Applied(c, o)'
    BY DEF Applied, Written, FilesAreThere
  <2>5. j.repeat => \A p \in Docker!Enabled(c) : Applied(c, p)
    BY <1>1, <1>2 DEF DockerInv, RepeatInv
  <2>6. (dockerJob.step # "idle" /\ dockerJob.repeat =>
            \A p \in Docker!Enabled(dockerJob.conf) : Applied(dockerJob.conf, p))'
    <3>1. j.repeat => \A p \in Docker!Enabled(c) : Applied(c, p)'  BY <2>3, <2>5
    <3>2. dockerJob'.conf = c /\ dockerJob'.repeat = j.repeat  BY <1>1
    <3>3. QED  BY <3>1, <3>2
  <2>7. (\A p : AtWork(p) /\ dockerJob.repeat /\ dockerJob.restart =>
            Docker!Collides(dockerJob.conf.objects[p]))'
    <3>1. j.repeat /\ j.restart => Docker!Collides(c.objects[o])
      BY <1>1 DEF DockerInv, RepeatInv
    <3>2. dockerJob'.conf = c /\ dockerJob'.repeat = j.repeat  BY <1>1
    <3>3. QED  BY <1>3, <3>1, <3>2
  <2>8. clean => conf = c  BY <1>1, <1>2 DEF DockerInv, RepeatInv
  <2>9. clean => \A p \in Docker!Enabled(c) :
                    \/ Applied(c, p)
                    \/ \E i \in j.todo : DockerObjects[i] = p
                    \/ j.step = "up" /\ p = o /\ Written(c, o)
    BY <1>2, <2>8 DEF DockerInv, RepeatInv
  <2>10. clean => \A p \in Docker!Enabled(c) :
                    Applied(c, p)' \/ \E i \in k.todo : DockerObjects[i] = p
    BY <2>3, <2>4, <2>9
  <2>11. /\ conf' = conf /\ clean' = clean
         /\ dockerJob'.step # "idle" /\ dockerJob'.todo = k.todo /\ dockerJob'.conf = c
    BY <1>1
  <2>12. QED  BY <2>6, <2>7, <2>8, <2>10, <2>11 DEF RepeatInv
<1>9. QED  BY <1>5, <1>6, <1>7, <1>8 DEF DockerInv

LEMMA ComposeUpKeepsInv == ASSUME DockerInv, Docker!ComposeUp PROVE DockerInv'
<1>1. PICK j : j = dockerJob  OBVIOUS
<1>2. PICK o : o = j.at  OBVIOUS
<1>3. j.step = "up" /\ AtWork(o)  BY <1>1, <1>2 DEF Docker!ComposeUp, AtWork
<1>4. /\ o \in DockerSet /\ o \in DOMAIN cont /\ DOMAIN j = DockerJobFields
      /\ j.restart \in BOOLEAN /\ DOMAIN cont[o] = ContFields
  BY <1>1, <1>3 DEF DockerInv, DockerShapes, Docker!Enabled, DockerSet
<1>5. PICK k : k = [j EXCEPT !.step = IF j.restart THEN "restart" ELSE "next"]  OBVIOUS
<1>6. /\ DOMAIN k = DockerJobFields /\ k.step = (IF j.restart THEN "restart" ELSE "next")
      /\ k.conf = j.conf /\ k.todo = j.todo /\ k.at = o /\ k.repeat = j.repeat
      /\ k.restart = j.restart
  BY <1>2, <1>4, <1>5 DEF DockerJobFields
<1>7. dockerJob' = k  BY <1>1, <1>5 DEF Docker!ComposeUp
<1>8. /\ j.restart => k.step = "restart"
      /\ ~j.restart => k.step = "next"
  BY <1>6
<1>9. /\ k.step \in {"next", "restart"} /\ k.restart \in BOOLEAN
      /\ k.step = "restart" => k.restart /\ j.restart
  BY <1>4, <1>6, <1>8
<1>10. UNCHANGED <<conf, compose, files, dnsFile, served, dockerPending, dockerUp,
                  moved, owedDns, clean>>
  BY DEF Docker!ComposeUp, Docker!diskVars, Docker!dnsVars
<1>11. CASE cont[o].spec = compose[o]
  <2>1. cont' = cont /\ owed' = owed \ {<<o, "up">>}
    BY <1>1, <1>2, <1>11 DEF Docker!ComposeUp
  <2>2. \A p : p # o => \A w : <<p, w>> \in owed => <<p, w>> \in owed'  BY <2>1
  <2>3. <<o, "restart">> \in owed => <<o, "restart">> \in owed'  BY <2>1
  <2>4. cont'[o] = cont[o]  BY <2>1
  <2>5. \/ cont'[o].loaded = files[o]
        \/ /\ cont'[o] = cont[o] /\ (j.restart => k.step = "restart")
           /\ <<o, "restart">> \in owed => <<o, "restart">> \in owed'
    BY <1>8, <2>3, <2>4, Zenon
  <2>6. /\ DOMAIN cont' = DOMAIN cont /\ DOMAIN cont'[o] = ContFields
        /\ \A p : p # o => cont'[p] = cont[p]
    BY <1>4, <2>1
  <2>7. cont'[o].spec = compose[o]  BY <1>11, <2>1
  <2>8. j.step # "restart"  BY <1>3, <1>1
  <2>9. QED
    BY <1>1, <1>3, <1>6, <1>7, <1>9, <1>10, <2>2, <2>3, <2>5, <2>6, <2>7, <2>8, AtWorkKeepsInv
<1>12. CASE cont[o].spec # compose[o]
  <2>1. PICK a : cont' = [cont EXCEPT ![o] = Docker!StartedAs(o, a)]
    BY <1>1, <1>2, <1>12 DEF Docker!ComposeUp
  <2>2. PICK new : new = Docker!StartedAs(o, a)  OBVIOUS
  <2>3. DOMAIN new = ContFields /\ new.spec = compose[o] /\ new.loaded = files[o]
    BY <2>2 DEF Docker!StartedAs, ContFields
  <2>4. /\ DOMAIN cont' = DOMAIN cont /\ cont'[o] = new
        /\ \A p : p # o => cont'[p] = cont[p]
    BY <1>4, <2>1, <2>2
  <2>5. owed' = owed \ {<<o, "restart">>, <<o, "up">>}
    BY <1>1, <1>2, <1>12 DEF Docker!ComposeUp
  <2>6. \A p : p # o => \A w : <<p, w>> \in owed => <<p, w>> \in owed'  BY <2>5
  <2>7. cont[o].spec # new.spec  BY <1>12, <2>3
  <2>8. cont'[o] # cont[o]  BY <2>4, <2>7
  <2>9. j.step # "restart"  BY <1>3, <1>1
  <2>10. DOMAIN cont'[o] = ContFields /\ cont'[o].spec = compose[o]
    BY <2>3, <2>4
  <2>11. \/ cont'[o].loaded = files[o]
         \/ /\ cont'[o] = cont[o] /\ (j.restart => k.step = "restart")
            /\ <<o, "restart">> \in owed => <<o, "restart">> \in owed'
    <3>1. cont'[o].loaded = files[o]  BY <2>3, <2>4
    <3>2. QED  BY <3>1, Zenon
  <2>12. QED
    BY <1>1, <1>3, <1>6, <1>7, <1>9, <1>10, <2>4, <2>6, <2>8, <2>9, <2>10, <2>11, AtWorkKeepsInv
<1>13. QED  BY <1>11, <1>12

LEMMA RestartKeepsInv == ASSUME DockerInv, Docker!Restart PROVE DockerInv'
<1>1. PICK j : j = dockerJob  OBVIOUS
<1>2. PICK o : o = j.at  OBVIOUS
<1>3. j.step = "restart" /\ AtWork(o)  BY <1>1, <1>2 DEF Docker!Restart, AtWork
<1>4. /\ o \in DockerSet /\ o \in DOMAIN cont /\ DOMAIN j = DockerJobFields
      /\ DOMAIN cont[o] = ContFields
  BY <1>1, <1>3 DEF DockerInv, DockerShapes, Docker!Enabled, DockerSet
<1>5. PICK k : k = [j EXCEPT !.step = "next", !.restart = FALSE]  OBVIOUS
<1>6. /\ DOMAIN k = DockerJobFields /\ k.step = "next"
      /\ k.conf = j.conf /\ k.todo = j.todo /\ k.at = o /\ k.repeat = j.repeat
      /\ k.restart = FALSE
  BY <1>2, <1>4, <1>5 DEF DockerJobFields
<1>7. dockerJob' = k  BY <1>1, <1>5 DEF Docker!Restart
<1>8. UNCHANGED <<conf, compose, files, dnsFile, served, dockerPending, dockerUp,
                  moved, owedDns, clean>>
  BY DEF Docker!Restart, Docker!diskVars, Docker!dnsVars
<1>9. cont' = [cont EXCEPT ![o].loaded = files[o]] /\ owed' = owed \ {<<o, "restart">>}
  BY <1>1, <1>2 DEF Docker!Restart
<1>10. /\ DOMAIN cont' = DOMAIN cont /\ DOMAIN cont'[o] = ContFields
       /\ \A p : p # o => cont'[p] = cont[p]
       /\ cont'[o].spec = cont[o].spec
  BY <1>4, <1>9 DEF ContFields
<1>11. cont'[o].loaded = files[o]  BY <1>4, <1>9 DEF ContFields
<1>12. \/ cont'[o].loaded = files[o]
       \/ /\ cont'[o] = cont[o] /\ (j.restart => k.step = "restart")
          /\ <<o, "restart">> \in owed => <<o, "restart">> \in owed'
  BY <1>11, Zenon
<1>13. /\ \A p : p # o => \A w : <<p, w>> \in owed => <<p, w>> \in owed'
       /\ <<o, "up">> \in owed => <<o, "up">> \in owed'
  BY <1>9
<1>14. k.step \in {"next", "restart"} /\ k.restart \in BOOLEAN /\ k.step # "restart"
       /\ j.step # "up"
  BY <1>3, <1>6
<1>15. QED
  BY <1>1, <1>3, <1>6, <1>7, <1>8, <1>10, <1>12, <1>13, <1>14, AtWorkKeepsInv

LEMMA DockerCutShortKeepsInv == ASSUME DockerInv, Docker!CutShort PROVE DockerInv'
<1>1. /\ dockerJob' = Docker!Idle /\ moved' = TRUE /\ clean' = FALSE
      /\ owed' = owed \cup Docker!AtRisk /\ owedDns' = (owedDns \/ dockerJob.step = "dns")
      /\ UNCHANGED <<conf, compose, files, cont, dnsFile, served>>
  BY DEF Docker!CutShort, Docker!diskVars, Docker!dnsVars
<1>2. ~owedDns' => ~owedDns /\ dockerJob.step # "dns"  BY <1>1, Zenon
<1>3. moved' /\ ~clean'  BY <1>1
<1>4. owed \cup Docker!AtRisk \subseteq owed'  BY <1>1
<1>5. dockerJob' = Docker!Idle  BY <1>1
<1>6. UNCHANGED <<conf, compose, files, cont, dnsFile, served>>  BY <1>1
<1>7. QED  BY <1>2, <1>3, <1>4, <1>5, <1>6, CutShortKeepsInv

\* A step that leaves the files and the job alone, and takes no new debt.
LEMMA RecordsStepKeepsInv ==
    ASSUME DockerInv, UNCHANGED <<compose, files, cont, owed>>, NEW k, dockerJob' = k,
           DOMAIN k = DockerJobFields, k.step \in {"idle", "dns"},
           dockerJob.step \in {"next", "dns"}, dockerJob.todo = {},
           k.restart \in BOOLEAN, clean' => clean, UNCHANGED conf,
           k.step # "idle" => /\ k.conf = dockerJob.conf /\ k.todo = {}
                              /\ k.repeat = dockerJob.repeat,
           RecordsInv'
    PROVE  DockerInv'
<1>1. \A o : ~AtWork(o) /\ ~AtWork(o)'  BY DEF AtWork
<1>2. DockerShapes'  BY <1>1 DEF DockerInv, DockerShapes
<1>3. ContainersInv'  BY <1>1 DEF DockerInv, ContainersInv
<1>4. RepeatInv'
  <2>1. PICK c : c = dockerJob.conf  OBVIOUS
  <2>2. \A o : Applied(c, o)' = Applied(c, o)  BY AppliedStays
  <2>3. (dockerJob.step # "idle" /\ dockerJob.repeat =>
            \A o \in Docker!Enabled(dockerJob.conf) : Applied(dockerJob.conf, o))'
    <3>1. dockerJob.repeat => \A o \in Docker!Enabled(c) : Applied(c, o)
      BY <2>1 DEF DockerInv, RepeatInv
    <3>2. dockerJob.repeat => \A o \in Docker!Enabled(c) : Applied(c, o)'  BY <2>2, <3>1
    <3>3. k.step # "idle" => dockerJob'.conf = c /\ dockerJob'.repeat = dockerJob.repeat
      BY <2>1
    <3>4. QED  BY <3>2, <3>3
  <2>4. clean => conf = c /\ \A o \in Docker!Enabled(c) : Applied(c, o)
    BY <2>1 DEF DockerInv, RepeatInv
  <2>5. clean' => conf = c /\ \A o \in Docker!Enabled(c) : Applied(c, o)'  BY <2>2, <2>4
  <2>6. conf' = conf /\ (k.step # "idle" => dockerJob'.conf = c)  BY <2>1
  <2>7. QED  BY <1>1, <2>3, <2>5, <2>6 DEF RepeatInv
<1>5. QED  BY <1>2, <1>3, <1>4 DEF DockerInv

LEMMA WriteDnsKeepsInv == ASSUME DockerInv, Docker!WriteDns PROVE DockerInv'
<1>1. PICK j : j = dockerJob  OBVIOUS
<1>2. /\ j.step = "next" /\ j.todo = {} /\ DOMAIN j = DockerJobFields
      /\ j.conf \in DockerConfigs /\ j.restart \in BOOLEAN
  BY <1>1 DEF Docker!WriteDns, DockerInv, DockerShapes
<1>3. UNCHANGED <<compose, files, cont, dockerUp, owed, conf, served, dockerPending, owedDns, clean>>
  BY DEF Docker!WriteDns, Docker!diskVars
<1>4. PICK new : /\ new = (CASE ~j.conf.dns.present -> dnsFile
                             [] ~j.conf.dns.enabled -> {}
                             [] OTHER -> {Docker!Records})
                 /\ dnsFile' = new
  BY <1>1 DEF Docker!WriteDns
<1>5. PICK k : /\ dockerJob' = k
               /\ k = IF new = dnsFile THEN Docker!Idle ELSE [j EXCEPT !.step = "dns"]
  BY <1>1, <1>4 DEF Docker!WriteDns
<1>6. /\ DOMAIN k = DockerJobFields /\ k.step \in {"idle", "dns"} /\ k.restart \in BOOLEAN
      /\ k.step = "idle" => new = dnsFile
      /\ k.step # "idle" => k.conf = j.conf /\ k.todo = {} /\ k.repeat = j.repeat
  <2>1. CASE new = dnsFile
    BY <1>5, <2>1 DEF Docker!Idle, DockerJobFields
  <2>2. CASE new # dnsFile
    BY <1>2, <1>5, <2>2 DEF DockerJobFields
  <2>3. QED  BY <2>1, <2>2
<1>7. ~moved' => j.conf = conf
  <2>1. moved' = (moved /\ ~(j.conf.dns.present /\ j.conf = conf))
    BY <1>1 DEF Docker!WriteDns
  <2>2. ~moved => j.conf = conf  BY <1>1, <1>2 DEF DockerInv, RecordsInv
  <2>3. QED  BY <2>1, <2>2, Zenon
<1>8. ASSUME j.conf = conf, conf.dns.present, conf.dns.enabled, dockerUp
      PROVE  RecordsAreRight'
  <2>1. UNION dnsFile' = Docker!Records  BY <1>4, <1>8
  <2>2. \A o \in Docker!Enabled(conf) :
           cont[o].address \in Docker!Range(DockerAddresses) /\ conf.objects[o].network # "host"
           => <<o, cont[o].address>> \in Docker!Records
    <3>1. None \notin Docker!Range(DockerAddresses) /\ "host" \notin Docker!Range(DockerAddresses)
      <4>1. None \notin Range(DockerAddresses) /\ "host" \notin Range(DockerAddresses)
        BY DockerAssumption
      <4>2. QED  BY <4>1 DEF Range, Docker!Range
    <3>2. QED  BY <1>1, <1>8, <3>1 DEF Docker!Records
  <2>3. \A r \in Docker!Records :
           /\ r[1] \in Docker!Enabled(conf)
           /\ conf.objects[r[1]].network # "host" => r[2] = cont[r[1]].address
    BY <1>1, <1>8 DEF Docker!Records
  <2>4. PICK c : c = conf  OBVIOUS
  <2>5. conf' = c /\ cont' = cont  BY <1>3, <2>4
  <2>6. QED  BY <2>1, <2>2, <2>3, <2>4, <2>5 DEF RecordsAreRight
<1>9. RecordsInv'
  <2>1. k.step # "dns" => served' = UNION dnsFile' \/ owedDns'
    BY <1>1, <1>2, <1>3, <1>4, <1>6 DEF DockerInv, RecordsInv
  <2>2. ~moved' /\ k.step # "idle" => k.conf = conf  BY <1>6, <1>7
  <2>3. QED  BY <1>3, <1>5, <1>7, <1>8, <2>1, <2>2 DEF RecordsInv
<1>10. QED
  BY <1>1, <1>2, <1>3, <1>5, <1>6, <1>9, RecordsStepKeepsInv

LEMMA RestartDnsmasqKeepsInv == ASSUME DockerInv, Docker!RestartDnsmasq PROVE DockerInv'
<1>1. PICK k : dockerJob' = k /\ k = Docker!Idle  BY DEF Docker!RestartDnsmasq
<1>2. DOMAIN k = DockerJobFields /\ k.step = "idle" /\ k.restart \in BOOLEAN
  BY <1>1 DEF Docker!Idle, DockerJobFields
<1>3. UNCHANGED <<compose, files, cont, owed, conf, dnsFile, dockerUp, dockerPending, moved, clean>>
      /\ served' = UNION dnsFile /\ dockerJob.step = "dns"
  BY DEF Docker!RestartDnsmasq, Docker!diskVars
<1>4. dockerJob.todo = {}  BY <1>3 DEF DockerInv, DockerShapes
<1>5. RecordsInv'
  <2>1. RecordsAreRight' = RecordsAreRight  BY <1>3 DEF RecordsAreRight
  <2>2. QED  BY <1>1, <1>2, <1>3, <2>1 DEF DockerInv, RecordsInv
<1>6. QED  BY <1>1, <1>2, <1>3, <1>4, <1>5, RecordsStepKeepsInv

LEMMA DockerEditKeepsInv == ASSUME DockerInv, Docker!Edit PROVE DockerInv'
<1>1. /\ conf' \in DockerConfigs /\ clean' = FALSE /\ moved' = TRUE
      /\ UNCHANGED <<compose, files, cont, dnsFile, served, dockerJob, owed, owedDns>>
  BY DEF Docker!Edit, Docker!diskVars, Docker!dnsVars
<1>2. \A o : AtWork(o)' = AtWork(o)  BY <1>1 DEF AtWork
<1>3. PICK c : c = dockerJob.conf  OBVIOUS
<1>4. DockerShapes'  BY <1>1, <1>2 DEF DockerInv, DockerShapes
<1>5. ContainersInv'  BY <1>1, <1>2 DEF DockerInv, ContainersInv
<1>6. RecordsInv'  BY <1>1 DEF DockerInv, RecordsInv
<1>7. RepeatInv'
  <2>1. \A o : Applied(c, o)' = Applied(c, o)  BY <1>1, AppliedStays
  <2>2. (dockerJob.step # "idle" /\ dockerJob.repeat =>
            \A o \in Docker!Enabled(dockerJob.conf) : Applied(dockerJob.conf, o))'
    BY <1>1, <1>3, <2>1 DEF DockerInv, RepeatInv
  <2>3. (\A o : AtWork(o) /\ dockerJob.repeat /\ dockerJob.restart =>
            Docker!Collides(dockerJob.conf.objects[o]))'
    BY <1>1, <1>2 DEF DockerInv, RepeatInv
  <2>4. ~clean'  BY <1>1
  <2>5. QED  BY <2>2, <2>3, <2>4 DEF RepeatInv
<1>8. QED  BY <1>4, <1>5, <1>6, <1>7 DEF DockerInv

\* Containers that get other addresses, and read their files: an event is queued, or it is
\* on record.
LEMMA ContainersStepKeepsInv ==
    ASSUME DockerInv, UNCHANGED <<conf, compose, files, dockerJob, dnsFile, served, owedDns>>,
           DOMAIN cont' = DOMAIN cont,
           \A o \in DockerSet : /\ DOMAIN cont'[o] = ContFields /\ cont'[o].spec = cont[o].spec
                                /\ \/ cont'[o].spec # None => cont'[o].loaded = files[o]
                                   \/ /\ cont'[o].loaded = cont[o].loaded
                                      /\ <<o, "restart">> \in owed => <<o, "restart">> \in owed'
                                /\ <<o, "up">> \in owed => <<o, "up">> \in owed',
           clean' => clean, ~moved' => ~moved, moved' \/ dockerPending' \/ ~dockerUp'
    PROVE  DockerInv'
<1>1. \A o : AtWork(o)' = AtWork(o)  BY DEF AtWork
<1>2. DockerShapes'  BY <1>1 DEF DockerInv, DockerShapes
<1>3. ContainersInv'
  <2>1. SUFFICES ASSUME NEW o \in DockerSet
                 PROVE  (/\ compose[o] # None /\ <<o, "up">> \notin owed =>
                              cont[o].spec = compose[o] \/ (dockerJob.step = "up" /\ dockerJob.at = o)
                         /\ cont[o].spec # None /\ <<o, "restart">> \notin owed =>
                              cont[o].loaded = files[o] \/ (AtWork(o) /\ dockerJob.restart))'
    BY DEF ContainersInv
  <2>2. QED  BY <1>1 DEF DockerInv, ContainersInv
<1>4. RecordsInv'  BY DEF DockerInv, RecordsInv
<1>5. RepeatInv'  BY RepeatStays DEF DockerInv
<1>6. QED  BY <1>2, <1>3, <1>4, <1>5 DEF DockerInv

LEMMA DockerStopsKeepsInv == ASSUME DockerInv, Docker!DockerStops PROVE DockerInv'
<1>1. /\ dockerUp' = FALSE /\ clean' = FALSE
      /\ UNCHANGED <<conf, compose, files, cont, dnsFile, served, dockerJob, owed, moved, owedDns>>
  BY DEF Docker!DockerStops, Docker!diskVars, Docker!dnsVars
<1>2. \A o \in DockerSet : DOMAIN cont[o] = ContFields  BY DEF DockerInv, DockerShapes
<1>3. QED  BY <1>1, <1>2, ContainersStepKeepsInv

LEMMA DockerStartsKeepsInv == ASSUME DockerInv, Docker!DockerStarts PROVE DockerInv'
<1>1. /\ dockerPending' = TRUE /\ owed' = {w \in owed : w[2] = "up"}
      /\ UNCHANGED <<conf, compose, files, dnsFile, served, dockerJob, moved, owedDns, clean>>
  BY DEF Docker!DockerStarts, Docker!diskVars, Docker!dnsVars
<1>2. PICK new : cont' = [o \in Docker!Range(DockerObjects) |->
                            IF o \in Docker!Existing
                            THEN [cont[o] EXCEPT !.address = IF @ = "host" THEN @ ELSE new[o],
                                                 !.loaded = files[o]]
                            ELSE cont[o]]
  BY DEF Docker!DockerStarts
<1>3. DOMAIN cont' = DOMAIN cont
  BY <1>2 DEF DockerInv, DockerShapes, DockerSet
<1>4. ASSUME NEW o \in DockerSet
      PROVE  /\ DOMAIN cont'[o] = ContFields /\ cont'[o].spec = cont[o].spec
             /\ \/ cont'[o].spec # None => cont'[o].loaded = files[o]
                \/ /\ cont'[o].loaded = cont[o].loaded
                   /\ <<o, "restart">> \in owed => <<o, "restart">> \in owed'
             /\ <<o, "up">> \in owed => <<o, "up">> \in owed'
  <2>1. DOMAIN cont[o] = ContFields  BY DEF DockerInv, DockerShapes
  <2>2. <<o, "up">> \in owed => <<o, "up">> \in owed'  BY <1>1
  <2>3. CASE o \in Docker!Existing
    <3>1. PICK address : cont'[o] = [cont[o] EXCEPT !.address = address, !.loaded = files[o]]
      BY <1>2, <2>3 DEF DockerSet
    <3>2. QED  BY <2>1, <2>2, <3>1 DEF ContFields
  <2>4. CASE o \notin Docker!Existing
    <3>1. cont'[o] = cont[o]  BY <1>2, <2>4 DEF DockerSet
    <3>2. cont[o].spec = None  BY <2>4 DEF Docker!Existing, DockerSet
    <3>3. QED  BY <2>1, <2>2, <3>1, <3>2
  <2>5. QED  BY <2>3, <2>4
<1>5. QED  BY <1>1, <1>3, <1>4, ContainersStepKeepsInv

LEMMA RecreatedByHandKeepsInv ==
    ASSUME DockerInv, NEW o \in Docker!Range(DockerObjects), Docker!RecreatedByHand(o)
    PROVE  DockerInv'
<1>1. /\ moved' = TRUE /\ owed' = owed \ {<<o, "restart">>} /\ clean' = FALSE
      /\ UNCHANGED <<conf, compose, files, dnsFile, served, dockerJob, owedDns>>
  BY DEF Docker!RecreatedByHand, Docker!diskVars, Docker!dnsVars
<1>2. PICK a : cont' = [cont EXCEPT ![o].address = a, ![o].loaded = files[o]]
  BY DEF Docker!RecreatedByHand
<1>3. /\ o \in DOMAIN cont /\ DOMAIN cont = DockerSet
      /\ \A p \in DockerSet : DOMAIN cont[p] = ContFields
  BY DEF DockerInv, DockerShapes, DockerSet
<1>4. DOMAIN cont' = DOMAIN cont  BY <1>2
<1>5. \A p \in DockerSet : p # o => cont'[p] = cont[p]  BY <1>2, <1>3
<1>6. DOMAIN cont'[o] = ContFields /\ cont'[o].spec = cont[o].spec /\ cont'[o].loaded = files[o]
  BY <1>2, <1>3 DEF ContFields, DockerSet
<1>7. \A p \in DockerSet :
         /\ DOMAIN cont'[p] = ContFields /\ cont'[p].spec = cont[p].spec
         /\ \/ cont'[p].spec # None => cont'[p].loaded = files[p]
            \/ /\ cont'[p].loaded = cont[p].loaded
               /\ <<p, "restart">> \in owed => <<p, "restart">> \in owed'
         /\ <<p, "up">> \in owed => <<p, "up">> \in owed'
  BY <1>1, <1>3, <1>5, <1>6
<1>8. QED  BY <1>1, <1>4, <1>7, ContainersStepKeepsInv

LEMMA DockerStepHolds == ASSUME DockerInv, Docker!Next PROVE DockerInv'
<1>1. DOMAIN DockerObjects \in SUBSET DOMAIN DockerObjects
      /\ \A i \in DOMAIN DockerObjects : {i} \in SUBSET DOMAIN DockerObjects
  OBVIOUS
<1>2. CASE Docker!Update(DOMAIN DockerObjects)  BY <1>1, <1>2, UpdateKeepsInv
<1>3. CASE \E i \in DOMAIN DockerObjects : Docker!Update({i}) \/ Docker!WriteFiles(i)
  BY <1>1, <1>3, UpdateKeepsInv, WriteFilesKeepsInv
<1>4. CASE \E o \in Docker!Range(DockerObjects) : Docker!RecreatedByHand(o)
  BY <1>4, RecreatedByHandKeepsInv
<1>5. CASE Docker!TakeEvent \/ Docker!ComposeUp \/ Docker!Restart
  BY <1>5, DockerEventKeepsInv, ComposeUpKeepsInv, RestartKeepsInv
<1>6. CASE Docker!WriteDns \/ Docker!RestartDnsmasq \/ Docker!CutShort
  BY <1>6, WriteDnsKeepsInv, RestartDnsmasqKeepsInv, DockerCutShortKeepsInv
<1>7. CASE Docker!Edit \/ Docker!DockerStops \/ Docker!DockerStarts
  BY <1>7, DockerEditKeepsInv, DockerStopsKeepsInv, DockerStartsKeepsInv
<1>8. QED  BY <1>2, <1>3, <1>4, <1>5, <1>6, <1>7 DEF Docker!Next

LEMMA DockerStutterHolds == ASSUME DockerInv, UNCHANGED dockerVars PROVE DockerInv'
<1>1. UNCHANGED <<conf, compose, files, cont, dockerUp, dnsFile, served, dockerPending,
                  dockerJob, owed, moved, owedDns, clean>>
  BY DEF dockerVars
<1>2. \A o : AtWork(o)' = AtWork(o)  BY <1>1 DEF AtWork
<1>3. DockerShapes'  BY <1>1, <1>2 DEF DockerInv, DockerShapes
<1>4. ContainersInv'  BY <1>1, <1>2 DEF DockerInv, ContainersInv
<1>5. RecordsInv'
  <2>1. RecordsAreRight' = RecordsAreRight  BY <1>1 DEF RecordsAreRight
  <2>2. QED  BY <1>1, <2>1 DEF DockerInv, RecordsInv
<1>6. RepeatInv'
  <2>1. UNCHANGED <<conf, compose, files, dockerJob>>  BY <1>1
  <2>2. (\A o \in DockerSet : cont'[o].spec = cont[o].spec) /\ (clean' => clean)  BY <1>1
  <2>3. QED  BY <2>1, <2>2, RepeatStays DEF DockerInv
<1>7. QED  BY <1>3, <1>4, <1>5, <1>6 DEF DockerInv

-----------------------------------------------------------------------------
\* What is known of the containers holds in every state of the services.
DockerHold == part = "docker" => DockerInv

\* Whatever is edited, cut short or recreated by hand, and however docker comes and goes:
\* what a container does not run or has not read is being seen to or owed, the records
\* are right or will be written again, and what a full update applied stays applied.
THEOREM DockerInvariant == ServicesSpec => []DockerHold
<1>1. Start => DockerHold  BY DockerInitHolds DEF Start, DockerHold
<1>2. ASSUME DockerHold, [\/ OfRoutes(Next) \/ OfDocker(Docker!Next) \/ OfPki(Pki!Next)
                          \/ OfStore(Store!Next) \/ OfOrder(Order!Next)]_all
      PROVE  DockerHold'
  <2>1. SUFFICES ASSUME part' = "docker" PROVE DockerInv'  BY DEF DockerHold
  <2>2. CASE OfDocker(Docker!Next)  BY <2>2, <1>2, DockerStepHolds DEF OfDocker, DockerHold
  <2>3. CASE OfRoutes(Next)  BY <2>1, <2>3 DEF OfRoutes
  <2>4. CASE OfPki(Pki!Next)  BY <2>1, <2>4 DEF OfPki
  <2>5. CASE OfStore(Store!Next)  BY <2>1, <2>5 DEF OfStore
  <2>6. CASE OfOrder(Order!Next)  BY <2>1, <2>6 DEF OfOrder
  <2>7. CASE UNCHANGED all
    <3>1. UNCHANGED dockerVars /\ part = "docker"  BY <2>1, <2>7 DEF all
    <3>2. QED  BY <3>1, <1>2, DockerStutterHolds DEF DockerHold
  <2>8. QED  BY <1>2, <2>2, <2>3, <2>4, <2>5, <2>6, <2>7
<1>3. QED  BY <1>1, <1>2, PTL DEF ServicesSpec

\* With no update under way every container runs its compose file and has read its files,
\* but for what was cut off itself (docker_resources.py _apply_project).
THEOREM ContainersFollowFiles == ServicesSpec => []DockerContainersRunTheirFiles
<1>1. DockerHold => DockerContainersRunTheirFiles
  <2>1. SUFFICES ASSUME DockerInv, Docker!AtRest, NEW o \in DockerSet
                 PROVE  /\ compose[o] # None /\ <<o, "up">> \notin owed
                           => cont[o].spec = compose[o]
                        /\ cont[o].spec # None /\ owed \cap ({o} \X {"up", "restart"}) = {}
                           => cont[o].loaded = files[o]
    BY DEF DockerHold, DockerContainersRunTheirFiles, Docker!ContainersRunTheirFiles, DockerSet
  <2>2. dockerJob.step = "idle" /\ ~AtWork(o)  BY <2>1 DEF Docker!AtRest, AtWork
  <2>3. owed \cap ({o} \X {"up", "restart"}) = {} => <<o, "restart">> \notin owed  OBVIOUS
  <2>4. QED  BY <2>1, <2>2, <2>3 DEF DockerInv, ContainersInv
<1>2. QED  BY <1>1, DockerInvariant, PTL

\* At rest dnsmasq sends the name of every enabled container to the address it has now,
\* unless it moved and no event said so (docker_resources.py _apply_docker_dns).
THEOREM RecordsFollow == ServicesSpec => []DockerRecordsFollowContainers
<1>1. DockerHold => DockerRecordsFollowContainers
  <2>1. SUFFICES ASSUME DockerInv, Docker!AtRest, ~moved, ~owedDns,
                        conf.dns.present, conf.dns.enabled
                 PROVE  served = UNION dnsFile /\ RecordsAreRight
    BY DEF DockerHold, DockerRecordsFollowContainers, Docker!RecordsFollowContainers,
           RecordsAreRight
  <2>2. QED  BY <2>1 DEF Docker!AtRest, DockerInv, RecordsInv
<1>2. QED  BY <1>1, DockerInvariant, PTL

\* A repeated full update recreates and restarts no container, unless two mounts of it
\* generate the same file (docker_resources.py _apply_project).
THEOREM RepeatDoesNothing == ServicesSpec => []DockerRepeatIsQuiet
<1>1. DockerHold => DockerRepeatIsQuiet
  <2>1. SUFFICES ASSUME DockerInv, dockerJob.repeat, dockerJob.step \in {"up", "restart"}
                 PROVE  /\ cont[dockerJob.at].spec = compose[dockerJob.at]
                        /\ dockerJob.step = "restart"
                           => Docker!Collides(dockerJob.conf.objects[dockerJob.at])
    BY DEF DockerHold, DockerRepeatIsQuiet, Docker!RepeatIsQuiet
  <2>2. AtWork(dockerJob.at)  BY <2>1 DEF AtWork
  <2>3. dockerJob.at \in Docker!Enabled(dockerJob.conf)
        /\ (dockerJob.step = "restart" => dockerJob.restart)
    BY <2>1, <2>2 DEF DockerInv, DockerShapes
  <2>4. QED  BY <2>1, <2>2, <2>3 DEF DockerInv, RepeatInv, Applied
<1>2. QED  BY <1>1, DockerInvariant, PTL

-----------------------------------------------------------------------------
(* What validation accepts.                                                *)

\* A route of a valid table, and a rule of a valid rule set, raise exactly at what
\* validation does not look at.
LEMMA ValidRoutesRender == ValidConfigRenders
<1>1. PICK c : c = config  OBVIOUS
<1>2. ASSUME NEW t, ValidTable(c, t), NEW i \in 1..Len(t.routes)
      PROVE  RouteRaises(c, t.routes[i]) <=> UncheckedRoute(t.routes[i])
  <2>1. PICK r : r = t.routes[i]  OBVIOUS
  <2>2. r.type = "route" => r.gateway \cap DOMAIN c.gateways # {}
    BY <1>2, <2>1 DEF ValidTable
  <2>3. QED  BY <2>1, <2>2 DEF RouteRaises, UncheckedRoute
<1>3. ASSUME NEW s, ValidRuleSet(c, s), NEW i \in 1..Len(s.rules)
      PROVE  RuleRaises(c, s.rules[i]) <=> UncheckedRule(c, s.rules[i])
  <2>1. PICK r : r = s.rules[i]  OBVIOUS
  <2>2. \A m \in r.fwMark : m \in DOMAIN c.marks /\ ValidMark(c.marks[m])
    BY <1>3, <2>1 DEF ValidRuleSet
  <2>3. QED  BY <2>1, <2>2 DEF RuleRaises, UncheckedRule
<1>4. QED  BY <1>1, <1>2, <1>3 DEF ValidConfigRenders

\* A valid container, and a valid app, find all the ConfigMaps that were looked up.
LEMMA ValidContainersFindTheirFiles ==
    ASSUME NEW c \in DockerConfigs, NEW o \in DockerSet, Docker!Valid(c, o),
           Docker!RenderRaises(c, c.objects[o])
    PROVE  Docker!Unchecked(c.objects[o])
<1>1. PICK spec : spec = c.objects[o]  OBVIOUS
<1>2. PICK i, m :
         /\ i \in DOMAIN Docker!Mounts(spec)
         /\ m = Docker!Mounts(spec)[i] /\ m.type = "configMap"
         /\ \E s \in m.source : s \notin DOMAIN c.maps \/ ~(m.key \subseteq DOMAIN c.maps[s])
  BY <1>1 DEF Docker!RenderRaises
<1>3. \/ \E k \in DOMAIN Docker!AppMounts(spec) : m = Docker!AppMounts(spec)[k]
      \/ \E k \in DOMAIN spec.mounts : m = spec.mounts[k]
  <2>1. PICK a, b, S : a = Docker!AppMounts(spec) /\ b = spec.mounts /\ a \in Seq(S)
                       /\ b \in Seq(Range(b))
    BY <1>1, MountListsOf
  <2>2. i \in DOMAIN (a \o b) /\ m = (a \o b)[i]  BY <1>2, <2>1 DEF Docker!Mounts
  <2>3. \/ \E k \in DOMAIN a : m = a[k]
        \/ \E k \in DOMAIN b : m = b[k]
    BY <2>1, <2>2
  <2>4. QED  BY <2>1, <2>3
<1>4. CASE \E k \in DOMAIN Docker!AppMounts(spec) : m = Docker!AppMounts(spec)[k]
  <2>1. \A t, s, n : Docker!Mount(t, s, n).type = t  BY DEF Docker!Mount
  <2>2. \A s, x : [Docker!Mount("inline", s, "config.yaml") EXCEPT !.source = x].type = "inline"
    BY DEF Docker!Mount
  <2>3. spec.app = "nginx"
    <3>1. SUFFICES ASSUME spec.app # "nginx" PROVE FALSE  OBVIOUS
    <3>2. PICK k : k \in DOMAIN Docker!AppMounts(spec) /\ m = Docker!AppMounts(spec)[k]  BY <1>4
    <3>3. \A t1, t2, t3, t4 :
             /\ DOMAIN <<>> = {} /\ DOMAIN <<t1>> = {1} /\ DOMAIN <<t1, t2>> = {1, 2}
             /\ DOMAIN <<t1, t2, t3>> = {1, 2, 3} /\ DOMAIN <<t1, t2, t3, t4>> = {1, 2, 3, 4}
      OBVIOUS
    <3>4. CASE spec.app = "ddns-go"
      <4>1. Docker!AppMounts(spec) = <<Docker!Mount("data-dir", "data", "root")>>
        BY <3>4 DEF Docker!AppMounts
      <4>2. m.type = "data-dir"  BY <2>1, <3>2, <3>3, <4>1
      <4>3. QED  BY <1>2, <4>2
    <3>5. CASE spec.app = "unifi"
      <4>1. Docker!AppMounts(spec) =
              <<Docker!Mount("file", "localtime", "localtime"), Docker!Mount("dir", "cert", "cert"),
                Docker!Mount("dir", "data", "data"), Docker!Mount("dir", "logs", "logs")>>
        BY <3>5 DEF Docker!AppMounts
      <4>2. m.type \in {"file", "dir"}  BY <2>1, <3>2, <3>3, <4>1
      <4>3. QED  BY <1>2, <4>2
    <3>6. CASE spec.app = "certimate"
      <4>1. Docker!AppMounts(spec) =
              <<Docker!Mount("file", "localtime", "localtime"),
                Docker!Mount("file", "timezone", "timezone"), Docker!Mount("dir", "data", "data")>>
        BY <3>6 DEF Docker!AppMounts
      <4>2. m.type \in {"file", "dir"}  BY <2>1, <3>2, <3>3, <4>1
      <4>3. QED  BY <1>2, <4>2
    <3>7. CASE spec.app = "headscale"
      <4>1. Docker!AppMounts(spec) =
              <<[Docker!Mount("inline", "", "config.yaml") EXCEPT !.source = spec.serverUrl],
                Docker!Mount("data-dir", "data", "data")>>
        BY <3>7 DEF Docker!AppMounts
      <4>2. PICK u, v : /\ u = [Docker!Mount("inline", "", "config.yaml")
                                  EXCEPT !.source = spec.serverUrl]
                        /\ v = Docker!Mount("data-dir", "data", "data")
        OBVIOUS
      <4>3. u.type = "inline" /\ v.type = "data-dir"  BY <2>1, <2>2, <4>2
      <4>4. Docker!AppMounts(spec) = <<u, v>>  BY <4>1, <4>2
      <4>5. m = u \/ m = v  BY <3>2, <3>3, <4>4
      <4>6. QED  BY <1>2, <4>3, <4>5
    <3>8. CASE spec.app \notin {"ddns-go", "unifi", "certimate", "headscale"}
      <4>1. Docker!AppMounts(spec) = <<>>  BY <3>1, <3>8 DEF Docker!AppMounts
      <4>2. QED  BY <3>2, <3>3, <4>1
    <3>9. QED  BY <3>4, <3>5, <3>6, <3>7, <3>8
  <2>4. Docker!AppMounts(spec) = spec.confFiles  BY <2>3 DEF Docker!AppMounts
  <2>5. QED  BY <1>1, <1>2, <1>4, <2>4 DEF Docker!Unchecked
<1>5. CASE \E k \in DOMAIN spec.mounts : m = spec.mounts[k]
  <2>1. Docker!ValidMount(c, m)
    BY <1>1, <1>5 DEF Docker!Valid, Docker!ValidContainer, Docker!ValidApp
  <2>2. "" \in m.source  BY <1>2, <2>1 DEF Docker!ValidMount
  <2>3. QED  BY <1>1, <1>2, <1>5, <2>2 DEF Docker!Unchecked
<1>6. QED  BY <1>3, <1>4, <1>5

\* What the validation of routes, rules and containers accepts makes no update stop half
\* way and no handler raise but at what it does not look at: a raw route or rule with an
\* unclosed quote, a route without destination, a FwMark that is no number; a ConfigMap
\* with an empty name, the ConfigMaps of an app's files (validate in network_routing.py and
\* docker_resources.py).
THEOREM ValidConfigsNeverRaise == ServicesSpec => []ValidConfigsRender
<1>1. DockerHold => ValidConfigsRender
  <2>1. ASSUME DockerInv PROVE Docker!ValidContainersRender
    <3>1. conf \in DockerConfigs  BY <2>1 DEF DockerInv, DockerShapes
    <3>2. QED
      BY <3>1, ValidContainersFindTheirFiles DEF Docker!ValidContainersRender, DockerSet
  <2>2. QED  BY <2>1, ValidRoutesRender DEF DockerHold, ValidConfigsRender
<1>2. QED  BY <1>1, DockerInvariant, PTL


-----------------------------------------------------------------------------
(* The store: what a load has made of the documents it has read.           *)

StoreShapes == dirs \in [1..NumDirs -> Seq(StoreDocs)]

Places == {p \in (1..NumDirs) \X Nat : p[2] \in DOMAIN dirs[p[1]]}
DocAt(p) == dirs[p[1]][p[2]]
KeyAt(p) == Store!Key(DocAt(p))
Counts(p, full) == full \/ ~DocAt(p).disabled

\* Each document at S that counts has its key in the store; an entry is a document of
\* the last directory that has one with its key; no directory has two.
Built(store, S, full) ==
    store # Error =>
        /\ \A p \in S : Counts(p, full) => KeyAt(p) \in DOMAIN store
        /\ \A k \in DOMAIN store : \E p \in S :
              /\ Counts(p, full) /\ KeyAt(p) = k
              /\ store[k] = [doc |-> DocAt(p), dir |-> p[1]]
              /\ \A q \in S : Counts(q, full) /\ KeyAt(q) = k => q[1] <= p[1]
        /\ \A p, q \in S :
              Counts(p, full) /\ Counts(q, full) /\ KeyAt(p) = KeyAt(q) /\ p[1] = q[1] => p = q

\* The load with the disabled objects and the one without.
Agree(store, fullStore) ==
    fullStore # Error =>
        /\ store # Error
        /\ DOMAIN store = {k \in DOMAIN fullStore : ~fullStore[k].doc.disabled}
        /\ \A k \in DOMAIN store : store[k] = fullStore[k]

BothBuilt(store, fullStore, S) ==
    Built(store, S, FALSE) /\ Built(fullStore, S, TRUE) /\ Agree(store, fullStore)

\* An entry on top of a store.
Put(store, key, entry) ==
    [k \in DOMAIN store \cup {key} |-> IF k = key THEN entry ELSE store[k]]

LEMMA PlaceTypes ==
    ASSUME StoreShapes, NEW p \in Places
    PROVE  /\ p[1] \in 1..NumDirs /\ p[2] \in Nat /\ p = <<p[1], p[2]>>
           /\ DocAt(p) \in StoreDocs /\ KeyAt(p) \in StoreKeys
           /\ DocAt(p).disabled \in BOOLEAN
<1>1. p[1] \in 1..NumDirs /\ p[2] \in Nat /\ p = <<p[1], p[2]>> /\ p[2] \in DOMAIN dirs[p[1]]
  BY DEF Places
<1>2. dirs[p[1]] \in Seq(StoreDocs)  BY <1>1 DEF StoreShapes
<1>3. DocAt(p) \in StoreDocs  BY <1>1, <1>2 DEF DocAt
<1>4. QED  BY <1>1, <1>3, StoreAssumption DEF KeyAt, StoreKeys

\* One more document on top of what is built.
LEMMA AddBuilds ==
    ASSUME StoreShapes, NEW store, NEW full \in BOOLEAN, NEW S \in SUBSET Places,
           NEW p \in Places, p \notin S, \A q \in S : q[1] <= p[1], Built(store, S, full)
    PROVE  Built(Store!AddDoc(store, DocAt(p), p[1], full), S \cup {p}, full)
<1>1. PICK doc : doc = DocAt(p)  OBVIOUS
<1>2. PICK key : key = KeyAt(p)  OBVIOUS
<1>. DEFINE new == Store!AddDoc(store, DocAt(p), p[1], full)
            T == S \cup {p}
<1>3. SUFFICES ASSUME new # Error PROVE Built(new, T, full)  BY DEF Built
<1>4. store # Error /\ ~Store!Malformed(doc, full)  BY <1>1, <1>3 DEF Store!AddDoc
<1>5. /\ \A q \in S : Counts(q, full) => KeyAt(q) \in DOMAIN store
      /\ \A k \in DOMAIN store : \E q \in S :
            /\ Counts(q, full) /\ KeyAt(q) = k
            /\ store[k] = [doc |-> DocAt(q), dir |-> q[1]]
            /\ \A r \in S : Counts(r, full) /\ KeyAt(r) = k => r[1] <= q[1]
      /\ \A q, r \in S :
            Counts(q, full) /\ Counts(r, full) /\ KeyAt(q) = KeyAt(r) /\ q[1] = r[1] => q = r
  BY <1>4 DEF Built
<1>6. /\ p[1] \in 1..NumDirs /\ doc.disabled \in BOOLEAN /\ NumDirs \in Nat
      /\ \A q \in S : q[1] \in 1..NumDirs
  BY <1>1, PlaceTypes, StoreAssumption
<1>7. CASE Store!Ignored(doc, full)
  <2>1. new = store  BY <1>1, <1>4, <1>7 DEF Store!AddDoc
  <2>2. ~Counts(p, full)  BY <1>1, <1>7 DEF Counts, Store!Ignored
  <2>. HIDE DEF new
  <2>3. \A q \in T : Counts(q, full) => q \in S  BY <2>2
  <2>4. \A q \in T : Counts(q, full) => KeyAt(q) \in DOMAIN new  BY <1>5, <2>1, <2>3
  <2>5. \A k \in DOMAIN new : \E q \in T :
            /\ Counts(q, full) /\ KeyAt(q) = k
            /\ new[k] = [doc |-> DocAt(q), dir |-> q[1]]
            /\ \A r \in T : Counts(r, full) /\ KeyAt(r) = k => r[1] <= q[1]
    <3>1. SUFFICES ASSUME NEW k \in DOMAIN new
                   PROVE  \E q \in T :
                            /\ Counts(q, full) /\ KeyAt(q) = k
                            /\ new[k] = [doc |-> DocAt(q), dir |-> q[1]]
                            /\ \A r \in T : Counts(r, full) /\ KeyAt(r) = k => r[1] <= q[1]
      OBVIOUS
    <3>2. PICK q \in S : /\ Counts(q, full) /\ KeyAt(q) = k
                         /\ store[k] = [doc |-> DocAt(q), dir |-> q[1]]
                         /\ \A r \in S : Counts(r, full) /\ KeyAt(r) = k => r[1] <= q[1]
      BY <1>5, <2>1
    <3>3. QED  BY <2>1, <2>3, <3>2
  <2>6. \A q, r \in T :
           Counts(q, full) /\ Counts(r, full) /\ KeyAt(q) = KeyAt(r) /\ q[1] = r[1] => q = r
    <3>1. SUFFICES ASSUME NEW q \in T, NEW r \in T,
                          /\ Counts(q, full) /\ Counts(r, full)
                          /\ KeyAt(q) = KeyAt(r) /\ q[1] = r[1]
                   PROVE  q = r
      BY Zenon
    <3>2. q \in S /\ r \in S  BY <2>3, <3>1, Zenon
    <3>3. QED  BY <1>5, <3>1, <3>2, Zenon
  <2>7. QED  BY <2>4, <2>5, <2>6, Zenon DEF Built
<1>8. CASE ~Store!Ignored(doc, full)
  <2>1. PICK entry : entry = [doc |-> doc, dir |-> p[1]]  OBVIOUS
  <2>2. /\ new = Put(store, key, entry)
        /\ key \in DOMAIN store => store[key].dir # p[1]
    <3>1. Store!Key(DocAt(p)) = key  BY <1>2 DEF KeyAt
    <3>2. key \in DOMAIN store => store[key] \in {store[k] : k \in DOMAIN store \cap {key}}
      OBVIOUS
    <3>3. ~\E o \in {store[k] : k \in DOMAIN store \cap {key}} :
              o.dir = p[1] \/ (full /\ (o.doc.disabled \/ doc.disabled))
      BY <1>1, <1>3, <1>4, <1>8, <3>1, Zenon DEF Store!AddDoc
    <3>4. new = Put(store, key, entry)
      BY <1>1, <1>4, <1>8, <2>1, <3>1, <3>3, Zenon DEF Store!AddDoc, Put
    <3>5. QED  BY <3>2, <3>3, <3>4
  <2>. HIDE DEF new
  <2>3. /\ DOMAIN new = DOMAIN store \cup {key} /\ new[key] = entry
        /\ \A k \in DOMAIN store : k # key => new[k] = store[k]
    BY <2>2 DEF Put
  <2>4. Counts(p, full)
    <3>1. doc.headOk \in BOOLEAN  BY <1>1, PlaceTypes, StoreAssumption
    <3>2. doc.headOk  BY <1>4 DEF Store!Malformed
    <3>3. QED  BY <1>1, <1>6, <1>8, <3>2 DEF Counts, Store!Ignored
  <2>5. \A q \in T : Counts(q, full) => KeyAt(q) \in DOMAIN new
    BY <1>2, <1>5, <2>3
  <2>6. \A q \in S : Counts(q, full) /\ KeyAt(q) = key => q[1] # p[1]
    <3>1. SUFFICES ASSUME NEW q \in S, Counts(q, full), KeyAt(q) = key, q[1] = p[1] PROVE FALSE
      OBVIOUS
    <3>2. key \in DOMAIN store  BY <1>5, <3>1
    <3>3. PICK r \in S : /\ store[key] = [doc |-> DocAt(r), dir |-> r[1]]
                         /\ \A x \in S : Counts(x, full) /\ KeyAt(x) = key => x[1] <= r[1]
      BY <1>5, <3>2
    <3>4. r[1] = p[1]
      <4>1. q[1] <= r[1] /\ r[1] <= p[1]  BY <3>1, <3>3
      <4>2. QED  BY <1>6, <3>1, <4>1
    <3>5. QED  BY <2>2, <3>2, <3>3, <3>4
  <2>7. \A k \in DOMAIN new : \E q \in T :
            /\ Counts(q, full) /\ KeyAt(q) = k
            /\ new[k] = [doc |-> DocAt(q), dir |-> q[1]]
            /\ \A r \in T : Counts(r, full) /\ KeyAt(r) = k => r[1] <= q[1]
    <3>1. SUFFICES ASSUME NEW k \in DOMAIN new
                   PROVE  \E q \in T :
                            /\ Counts(q, full) /\ KeyAt(q) = k
                            /\ new[k] = [doc |-> DocAt(q), dir |-> q[1]]
                            /\ \A r \in T : Counts(r, full) /\ KeyAt(r) = k => r[1] <= q[1]
      OBVIOUS
    <3>2. CASE k = key
      <4>1. new[k] = [doc |-> DocAt(p), dir |-> p[1]]  BY <1>1, <2>1, <2>3, <3>2
      <4>2. \A r \in T : r[1] <= p[1]  BY <1>6
      <4>3. QED  BY <1>2, <2>4, <3>2, <4>1, <4>2
    <3>3. CASE k # key
      <4>1. k \in DOMAIN store /\ new[k] = store[k]  BY <2>3, <3>3
      <4>2. PICK q \in S : /\ Counts(q, full) /\ KeyAt(q) = k
                           /\ store[k] = [doc |-> DocAt(q), dir |-> q[1]]
                           /\ \A r \in S : Counts(r, full) /\ KeyAt(r) = k => r[1] <= q[1]
        BY <1>5, <4>1
      <4>3. KeyAt(p) # k  BY <1>2, <3>3
      <4>4. QED  BY <4>1, <4>2, <4>3
    <3>4. QED  BY <3>2, <3>3
  <2>8. \A q, r \in T :
           Counts(q, full) /\ Counts(r, full) /\ KeyAt(q) = KeyAt(r) /\ q[1] = r[1] => q = r
    <3>1. SUFFICES ASSUME NEW q \in T, NEW r \in T,
                          /\ Counts(q, full) /\ Counts(r, full)
                          /\ KeyAt(q) = KeyAt(r) /\ q[1] = r[1]
                   PROVE  q = r
      BY Zenon
    <3>2. CASE q \in S /\ r \in S  BY <1>5, <3>1, <3>2, Zenon
    <3>3. CASE q \in S /\ r = p  BY <1>2, <2>6, <3>1, <3>3, Zenon
    <3>4. CASE q = p /\ r \in S  BY <1>2, <2>6, <3>1, <3>4, Zenon
    <3>5. QED  BY <3>1, <3>2, <3>3, <3>4
  <2>9. QED  BY <2>5, <2>7, <2>8 DEF Built
<1>9. QED  BY <1>7, <1>8

\* A store is no error.
LEMMA StoresAreNoErrors ==
    ASSUME NEW store, store = [k \in DOMAIN store |-> store[k]], DOMAIN store \subseteq StoreKeys,
           \A k \in DOMAIN store : store[k] \in [doc : StoreDocs, dir : 1..NumDirs]
    PROVE  store # Error
<1>1. store \in [DOMAIN store -> [doc : StoreDocs, dir : 1..NumDirs]]  OBVIOUS
<1>2. QED  BY <1>1, StoreAssumption

\* What is built is made of documents.
LEMMA BuiltOfDocuments ==
    ASSUME StoreShapes, NEW store, store # Error, NEW full \in BOOLEAN, NEW S \in SUBSET Places,
           Built(store, S, full)
    PROVE  \A k \in DOMAIN store :
              /\ store[k] \in [doc : StoreDocs, dir : 1..NumDirs]
              /\ k \in StoreKeys /\ Store!Key(store[k].doc) = k
<1>1. SUFFICES ASSUME NEW k \in DOMAIN store
               PROVE  /\ store[k] \in [doc : StoreDocs, dir : 1..NumDirs]
                      /\ k \in StoreKeys /\ Store!Key(store[k].doc) = k
  OBVIOUS
<1>2. PICK p \in S : KeyAt(p) = k /\ store[k] = [doc |-> DocAt(p), dir |-> p[1]]
  BY <1>1 DEF Built
<1>3. QED  BY <1>2, PlaceTypes DEF KeyAt

LEMMA AddAgrees ==
    ASSUME StoreShapes, NEW store, NEW fullStore, NEW S \in SUBSET Places, NEW p \in Places,
           BothBuilt(store, fullStore, S)
    PROVE  Agree(Store!AddDoc(store, DocAt(p), p[1], FALSE),
                 Store!AddDoc(fullStore, DocAt(p), p[1], TRUE))
<1>1. PICK doc : doc = DocAt(p)  OBVIOUS
<1>2. PICK dir : dir = p[1]  OBVIOUS
<1>3. PICK key : key = Store!Key(doc)  OBVIOUS
<1>4. PICK entry : entry = [doc |-> doc, dir |-> dir]  OBVIOUS
<1>. DEFINE new == Store!AddDoc(store, doc, dir, FALSE)
            fullNew == Store!AddDoc(fullStore, doc, dir, TRUE)
<1>5. SUFFICES ASSUME fullNew # Error PROVE Agree(new, fullNew)
  BY <1>1, <1>2 DEF Agree
<1>6. fullStore # Error /\ ~Store!Malformed(doc, TRUE)  BY <1>5 DEF Store!AddDoc
<1>7. /\ store # Error
      /\ DOMAIN store = {k \in DOMAIN fullStore : ~fullStore[k].doc.disabled}
      /\ \A k \in DOMAIN store : store[k] = fullStore[k]
  BY <1>6 DEF BothBuilt, Agree
<1>8. /\ doc \in StoreDocs /\ doc.disabled \in BOOLEAN /\ doc.headOk \in BOOLEAN
      /\ doc.bodyOk \in BOOLEAN /\ dir \in 1..NumDirs /\ key \in StoreKeys
  BY <1>1, <1>2, <1>3, PlaceTypes, StoreAssumption DEF KeyAt
<1>9. doc.headOk /\ doc.bodyOk /\ ~Store!Ignored(doc, TRUE) /\ ~Store!Malformed(doc, FALSE)
  BY <1>6, <1>8 DEF Store!Malformed, Store!Ignored
<1>10. ~\E o \in {fullStore[k] : k \in DOMAIN fullStore \cap {key}} :
           o.dir = dir \/ (TRUE /\ (o.doc.disabled \/ doc.disabled))
  BY <1>3, <1>5, <1>6, <1>9, Zenon DEF Store!AddDoc
<1>11. key \in DOMAIN fullStore =>
          fullStore[key].dir # dir /\ ~fullStore[key].doc.disabled /\ ~doc.disabled
  BY <1>10
<1>12. fullNew = Put(fullStore, key, entry)
  BY <1>3, <1>4, <1>6, <1>9, <1>10, Zenon DEF Store!AddDoc, Put
<1>. HIDE DEF fullNew
<1>13. /\ DOMAIN fullNew = DOMAIN fullStore \cup {key} /\ fullNew[key] = entry
       /\ \A k \in DOMAIN fullStore : k # key => fullNew[k] = fullStore[k]
  BY <1>12 DEF Put
<1>14. entry.doc = doc  BY <1>4
<1>15. CASE doc.disabled
  <2>1. new = store  BY <1>7, <1>9, <1>15, Zenon DEF Store!AddDoc, Store!Ignored
  <2>2. key \notin DOMAIN fullStore  BY <1>11, <1>15
  <2>. HIDE DEF new
  <2>3. DOMAIN new = {k \in DOMAIN fullNew : ~fullNew[k].doc.disabled}
    BY <1>7, <1>13, <1>14, <1>15, <2>1, <2>2
  <2>4. QED  BY <1>7, <1>13, <2>1, <2>2, <2>3 DEF Agree
<1>16. CASE ~doc.disabled
  <2>1. key \in DOMAIN store <=> key \in DOMAIN fullStore  BY <1>7, <1>11
  <2>2. ~\E o \in {store[k] : k \in DOMAIN store \cap {key}} :
            o.dir = dir \/ (FALSE /\ (o.doc.disabled \/ doc.disabled))
    BY <1>7, <1>11, <2>1
  <2>3. ~Store!Ignored(doc, FALSE)  BY <1>16 DEF Store!Ignored
  <2>4. new = Put(store, key, entry)
    BY <1>3, <1>4, <1>7, <1>9, <2>2, <2>3, Zenon DEF Store!AddDoc, Put
  <2>. HIDE DEF new
  <2>5. /\ DOMAIN new = DOMAIN store \cup {key} /\ new[key] = entry
        /\ \A k \in DOMAIN store : k # key => new[k] = store[k]
        /\ new = [k \in DOMAIN new |-> new[k]]
    BY <2>4 DEF Put
  <2>6. new # Error
    <3>1. \A k \in DOMAIN store :
             store[k] \in [doc : StoreDocs, dir : 1..NumDirs] /\ k \in StoreKeys
      BY <1>7, BuiltOfDocuments DEF BothBuilt
    <3>2. entry \in [doc : StoreDocs, dir : 1..NumDirs]  BY <1>4, <1>8
    <3>3. \A k \in DOMAIN new : new[k] \in [doc : StoreDocs, dir : 1..NumDirs]
      BY <2>5, <3>1, <3>2
    <3>4. DOMAIN new \subseteq StoreKeys  BY <1>8, <2>5, <3>1
    <3>5. QED  BY <2>5, <3>3, <3>4, StoresAreNoErrors
  <2>7. DOMAIN new = {k \in DOMAIN fullNew : ~fullNew[k].doc.disabled}
    <3>1. \A k : k \in DOMAIN new <=> k \in DOMAIN fullNew /\ ~fullNew[k].doc.disabled
      <4>1. SUFFICES ASSUME NEW k
                     PROVE  k \in DOMAIN new <=> k \in DOMAIN fullNew /\ ~fullNew[k].doc.disabled
        OBVIOUS
      <4>2. CASE k = key  BY <1>13, <1>14, <1>16, <2>5, <4>2
      <4>3. CASE k # key  BY <1>7, <1>13, <2>5, <4>3
      <4>4. QED  BY <4>2, <4>3
    <3>2. QED  BY <3>1
  <2>8. \A k \in DOMAIN new : new[k] = fullNew[k]
    BY <1>7, <1>13, <2>5
  <2>9. QED  BY <2>6, <2>7, <2>8 DEF Agree
<1>17. QED  BY <1>8, <1>15, <1>16

\* One more document on top of both.
LEMMA AddKeepsBoth ==
    ASSUME StoreShapes, NEW store, NEW fullStore, NEW S \in SUBSET Places, NEW p \in Places,
           p \notin S, \A q \in S : q[1] <= p[1], BothBuilt(store, fullStore, S)
    PROVE  BothBuilt(Store!AddDoc(store, DocAt(p), p[1], FALSE),
                     Store!AddDoc(fullStore, DocAt(p), p[1], TRUE), S \cup {p})
<1>1. Built(Store!AddDoc(store, DocAt(p), p[1], FALSE), S \cup {p}, FALSE)
  BY AddBuilds DEF BothBuilt
<1>2. Built(Store!AddDoc(fullStore, DocAt(p), p[1], TRUE), S \cup {p}, TRUE)
  BY AddBuilds DEF BothBuilt
<1>3. QED  BY <1>1, <1>2, AddAgrees DEF BothBuilt

-----------------------------------------------------------------------------
(* What the loops of a load compute.                                       *)

\* A set of numbers has a least one.
LEMMA LeastNumber ==
    ASSUME NEW S \in SUBSET Nat, S # {}
    PROVE  \E n \in S : \A m \in S : ~ (m < n)
<1>. DEFINE R == OpToRel(<, Nat)
<1>1. IsWellFoundedOn(R, Nat)  BY NatLessThanWellFounded
<1>2. PICK n \in S : \A m \in S : ~ (<<m, n>> \in R)
  <2>. HIDE DEF R
  <2>1. QED  BY <1>1, WFMin, Zenon
<1>3. \A m \in S : ~ (m < n)  BY <1>2 DEF OpToRel
<1>4. QED  BY <1>3

\* What holds at the start and from one step to the next holds at the end: no number is
\* the least one where it does not.
LEMMA HoldsToTheEnd ==
    ASSUME NEW n \in Nat, NEW good \in SUBSET (0..n), 0 \in good,
           \A i \in 1..n : i - 1 \in good => i \in good
    PROVE  good = 0..n
<1>. DEFINE bad == (0..n) \ good
<1>1. SUFFICES ASSUME bad # {} PROVE FALSE  OBVIOUS
<1>2. bad \in SUBSET Nat  OBVIOUS
<1>. HIDE DEF bad
<1>3. PICK i \in bad : \A j \in bad : ~ (j < i)  BY <1>1, <1>2, LeastNumber
<1>. USE DEF bad
<1>4. i \in 1..n /\ i - 1 \in 0..n /\ i - 1 < i  BY <1>3
<1>5. i - 1 \in good  BY <1>3, <1>4
<1>6. QED  BY <1>3, <1>4, <1>5

\* The documents of one directory, one after the other.
DirLoop(f, n, store, d, full) ==
    f = [i \in 0..n |-> IF i = 0 THEN store
                        ELSE Store!AddDoc(f[i - 1], dirs[d][i], d, full)]

\* f holds what the loop over directory d makes of a store, document by document.
DirSteps(f, store, d, full) ==
    /\ Store!LoadDir(store, d, full) = f[Len(dirs[d])]
    /\ f[0] = store
    /\ \A i \in 1..Len(dirs[d]) : f[i] = Store!AddDoc(f[i - 1], dirs[d][i], d, full)

LEMMA LoadDirIsALoop ==
    ASSUME StoreShapes, NEW store, NEW d \in 1..NumDirs, NEW full
    PROVE  \E f : DirSteps(f, store, d, full)
<1>. DEFINE last == Len(dirs[d])
            good == {n \in 0..last : \E f : DirLoop(f, n, store, d, full)}
<1>1. last \in Nat  BY DEF StoreShapes
<1>2. 0 \in good
  <2>1. PICK f : f = [i \in 0..0 |-> store]  OBVIOUS
  <2>2. DirLoop(f, 0, store, d, full)
    <3>. DEFINE g == [i \in 0..0 |-> IF i = 0 THEN store
                                     ELSE Store!AddDoc(f[i - 1], dirs[d][i], d, full)]
    <3>1. \A i \in 0..0 : g[i] = store  OBVIOUS
    <3>2. f = g  BY <2>1
    <3>3. QED  BY <3>2 DEF DirLoop
  <2>3. 0 \in 0..last  BY <1>1
  <2>4. QED  BY <2>2, <2>3
<1>3. ASSUME NEW n \in 1..last, n - 1 \in good PROVE n \in good
  <2>1. PICK f : DirLoop(f, n - 1, store, d, full)  BY <1>3
  <2>2. n \in Nat /\ n - 1 \in Nat  BY <1>1
  <2>. DEFINE step(h, i) == Store!AddDoc(h[i - 1], dirs[d][i], d, full)
              g == [i \in 0..n |-> IF i = n THEN step(f, n) ELSE f[i]]
  <2>3. f = [i \in 0..(n - 1) |-> IF i = 0 THEN store ELSE step(f, i)]
    BY <2>1 DEF DirLoop
  <2>4. \A i \in 1..n : step(g, i) = step(f, i)
    <3>1. \A i \in 1..n : i - 1 \in 0..n /\ i - 1 # n  BY <2>2
    <3>2. \A i \in 1..n : g[i - 1] = f[i - 1]  BY <3>1
    <3>3. QED  BY <3>2
  <2>. HIDE DEF step
  <2>5. \A i \in 0..n : g[i] = IF i = 0 THEN store ELSE step(g, i)
    <3>1. SUFFICES ASSUME NEW i \in 0..n PROVE g[i] = IF i = 0 THEN store ELSE step(g, i)
      OBVIOUS
    <3>2. CASE i = n
      <4>1. g[i] = step(f, n) /\ i # 0  BY <2>2, <3>2
      <4>2. QED  BY <2>4, <3>2, <4>1
    <3>3. CASE i # n
      <4>1. g[i] = f[i] /\ i \in 0..(n - 1)  BY <2>2, <3>3
      <4>2. f[i] = IF i = 0 THEN store ELSE step(f, i)  BY <2>3, <4>1
      <4>3. QED  BY <2>2, <2>4, <4>1, <4>2
    <3>4. QED  BY <3>2, <3>3
  <2>6. g = [i \in 0..n |-> IF i = 0 THEN store ELSE step(g, i)]
    <3>1. g = [i \in 0..n |-> g[i]]  OBVIOUS
    <3>. HIDE DEF g
    <3>2. QED  BY <2>5, <3>1
  <2>. HIDE DEF g
  <2>7. DirLoop(g, n, store, d, full)  BY <2>6 DEF DirLoop, step
  <2>8. n \in 0..last  BY <1>1
  <2>9. QED  BY <2>7, <2>8
<1>4. last \in good
  <2>1. good \in SUBSET (0..last)  OBVIOUS
  <2>. HIDE DEF good
  <2>2. good = 0..last  BY <1>1, <1>2, <1>3, <2>1, HoldsToTheEnd
  <2>3. QED  BY <1>1, <2>2
<1>5. PICK f : f = CHOOSE g : DirLoop(g, last, store, d, full)  OBVIOUS
<1>6. DirLoop(f, last, store, d, full)  BY <1>4, <1>5
<1>7. Store!LoadDir(store, d, full) = f[last]
  BY <1>5 DEF Store!LoadDir, DirLoop
<1>8. /\ f[0] = store
      /\ \A i \in 1..last : f[i] = Store!AddDoc(f[i - 1], dirs[d][i], d, full)
  <2>. DEFINE step(i) == Store!AddDoc(f[i - 1], dirs[d][i], d, full)
  <2>1. f = [i \in 0..last |-> IF i = 0 THEN store ELSE step(i)]
    BY <1>6 DEF DirLoop
  <2>. HIDE DEF step
  <2>2. f[0] = store /\ \A i \in 1..last : f[i] = step(i)  BY <1>1, <2>1
  <2>3. QED  BY <2>2 DEF step
<1>9. QED  BY <1>7, <1>8 DEF DirSteps

\* The directories, one after the other.
AllLoop(f, n, full) ==
    f = [d \in 0..n |-> IF d = 0 THEN <<>> ELSE Store!LoadDir(f[d - 1], d, full)]

LEMMA LoadIsALoop ==
    ASSUME NEW full
    PROVE  \E f : /\ Store!Load(full) = f[NumDirs]
                  /\ f[0] = <<>>
                  /\ \A d \in 1..NumDirs : f[d] = Store!LoadDir(f[d - 1], d, full)
<1>. DEFINE good == {n \in 0..NumDirs : \E f : AllLoop(f, n, full)}
<1>1. NumDirs \in Nat  BY StoreAssumption
<1>2. 0 \in good
  <2>1. PICK f : f = [d \in 0..0 |-> <<>>]  OBVIOUS
  <2>2. AllLoop(f, 0, full)
    <3>. DEFINE g == [d \in 0..0 |-> IF d = 0 THEN <<>> ELSE Store!LoadDir(f[d - 1], d, full)]
    <3>1. \A d \in 0..0 : g[d] = <<>>  OBVIOUS
    <3>2. f = g  BY <2>1
    <3>3. QED  BY <3>2 DEF AllLoop
  <2>3. 0 \in 0..NumDirs  BY <1>1
  <2>4. QED  BY <2>2, <2>3
<1>3. ASSUME NEW n \in 1..NumDirs, n - 1 \in good PROVE n \in good
  <2>1. PICK f : AllLoop(f, n - 1, full)  BY <1>3
  <2>2. n \in Nat /\ n - 1 \in Nat  BY <1>1
  <2>. DEFINE step(h, d) == Store!LoadDir(h[d - 1], d, full)
              g == [d \in 0..n |-> IF d = n THEN step(f, n) ELSE f[d]]
  <2>3. f = [d \in 0..(n - 1) |-> IF d = 0 THEN <<>> ELSE step(f, d)]
    BY <2>1 DEF AllLoop
  <2>4. \A d \in 1..n : step(g, d) = step(f, d)
    <3>1. \A d \in 1..n : d - 1 \in 0..n /\ d - 1 # n  BY <2>2
    <3>2. \A d \in 1..n : g[d - 1] = f[d - 1]  BY <3>1
    <3>3. QED  BY <3>2
  <2>. HIDE DEF step
  <2>5. \A d \in 0..n : g[d] = IF d = 0 THEN <<>> ELSE step(g, d)
    <3>1. SUFFICES ASSUME NEW d \in 0..n PROVE g[d] = IF d = 0 THEN <<>> ELSE step(g, d)
      OBVIOUS
    <3>2. CASE d = n
      <4>1. g[d] = step(f, n) /\ d # 0  BY <2>2, <3>2
      <4>2. QED  BY <2>4, <3>2, <4>1
    <3>3. CASE d # n
      <4>1. g[d] = f[d] /\ d \in 0..(n - 1)  BY <2>2, <3>3
      <4>2. f[d] = IF d = 0 THEN <<>> ELSE step(f, d)  BY <2>3, <4>1
      <4>3. QED  BY <2>2, <2>4, <4>1, <4>2
    <3>4. QED  BY <3>2, <3>3
  <2>6. g = [d \in 0..n |-> IF d = 0 THEN <<>> ELSE step(g, d)]
    <3>1. g = [d \in 0..n |-> g[d]]  OBVIOUS
    <3>. HIDE DEF g
    <3>2. QED  BY <2>5, <3>1
  <2>. HIDE DEF g
  <2>7. AllLoop(g, n, full)  BY <2>6 DEF AllLoop, step
  <2>8. n \in 0..NumDirs  BY <1>1
  <2>9. QED  BY <2>7, <2>8
<1>4. NumDirs \in good
  <2>1. good \in SUBSET (0..NumDirs)  OBVIOUS
  <2>. HIDE DEF good
  <2>2. good = 0..NumDirs  BY <1>1, <1>2, <1>3, <2>1, HoldsToTheEnd
  <2>3. QED  BY <1>1, <2>2
<1>5. PICK f : f = CHOOSE g : AllLoop(g, NumDirs, full)  OBVIOUS
<1>6. AllLoop(f, NumDirs, full)  BY <1>4, <1>5
<1>7. Store!Load(full) = f[NumDirs]  BY <1>5 DEF Store!Load, AllLoop
<1>8. f[0] = <<>> /\ \A d \in 1..NumDirs : f[d] = Store!LoadDir(f[d - 1], d, full)
  <2>. DEFINE step(d) == Store!LoadDir(f[d - 1], d, full)
  <2>1. f = [d \in 0..NumDirs |-> IF d = 0 THEN <<>> ELSE step(d)]
    BY <1>6 DEF AllLoop
  <2>. HIDE DEF step
  <2>2. f[0] = <<>> /\ \A d \in 1..NumDirs : f[d] = step(d)  BY <1>1, <2>1
  <2>3. QED  BY <2>2 DEF step
<1>9. QED  BY <1>7, <1>8

\* The documents up to the i-th of directory d.
UpTo(d, i) == {p \in Places : p[1] < d \/ (p[1] = d /\ p[2] <= i)}

\* A directory's documents on top of what the directories before it gave.
LEMMA LoadDirKeepsBoth ==
    ASSUME StoreShapes, NEW d \in 1..NumDirs, NEW store, NEW fullStore,
           BothBuilt(store, fullStore, UpTo(d, 0))
    PROVE  BothBuilt(Store!LoadDir(store, d, FALSE), Store!LoadDir(fullStore, d, TRUE),
                     UpTo(d, Len(dirs[d])))
<1>. DEFINE last == Len(dirs[d])
<1>1. PICK f : DirSteps(f, store, d, FALSE)  BY LoadDirIsALoop
<1>2. PICK g : DirSteps(g, fullStore, d, TRUE)  BY LoadDirIsALoop
<1>. DEFINE good == {i \in 0..last : BothBuilt(f[i], g[i], UpTo(d, i))}
<1>3. last \in Nat /\ DOMAIN dirs[d] = 1..last /\ NumDirs \in Nat
  BY StoreAssumption DEF StoreShapes
<1>4. 0 \in good  BY <1>1, <1>2, <1>3 DEF DirSteps
<1>5. ASSUME NEW i \in 1..last, i - 1 \in good PROVE i \in good
  <2>1. PICK p : p = <<d, i>>  OBVIOUS
  <2>2. p \in Places /\ p[1] = d /\ p[2] = i /\ DocAt(p) = dirs[d][i]
    BY <1>3, <2>1 DEF Places, DocAt
  <2>3. p \notin UpTo(d, i - 1)  BY <1>3, <2>2 DEF UpTo
  <2>4. \A q \in UpTo(d, i - 1) : q[1] <= p[1]
    BY <1>3, <2>2, PlaceTypes DEF UpTo
  <2>5. UpTo(d, i) = UpTo(d, i - 1) \cup {p}
    <3>1. \A q \in Places : q = <<q[1], q[2]>> /\ q[2] \in Nat /\ q[1] \in Nat
      BY <1>3, PlaceTypes
    <3>2. \A q \in Places : q[1] = d /\ q[2] = i => q = p  BY <2>1, <3>1
    <3>3. \A q \in Places : q[2] <= i <=> q[2] <= i - 1 \/ q[2] = i  BY <1>3, <3>1
    <3>4. QED  BY <2>2, <3>2, <3>3 DEF UpTo
  <2>6. UpTo(d, i - 1) \in SUBSET Places  BY DEF UpTo
  <2>7. BothBuilt(f[i - 1], g[i - 1], UpTo(d, i - 1))  BY <1>5
  <2>8. BothBuilt(Store!AddDoc(f[i - 1], DocAt(p), p[1], FALSE),
                  Store!AddDoc(g[i - 1], DocAt(p), p[1], TRUE), UpTo(d, i - 1) \cup {p})
    BY <2>2, <2>3, <2>4, <2>6, <2>7, AddKeepsBoth
  <2>9. /\ f[i] = Store!AddDoc(f[i - 1], DocAt(p), p[1], FALSE)
        /\ g[i] = Store!AddDoc(g[i - 1], DocAt(p), p[1], TRUE)
    BY <1>1, <1>2, <2>2 DEF DirSteps
  <2>10. BothBuilt(f[i], g[i], UpTo(d, i))  BY <2>5, <2>8, <2>9
  <2>11. QED  BY <1>3, <2>10
<1>6. last \in good
  <2>1. good \in SUBSET (0..last)  OBVIOUS
  <2>. HIDE DEF good
  <2>2. good = 0..last  BY <1>3, <1>4, <1>5, <2>1, HoldsToTheEnd
  <2>3. QED  BY <1>3, <2>2
<1>7. QED  BY <1>1, <1>2, <1>6 DEF DirSteps

\* What both loads make of all documents.
LEMMA LoadsAreBuilt ==
    ASSUME StoreShapes
    PROVE  BothBuilt(Store!Load(FALSE), Store!Load(TRUE), Places)
<1>1. PICK f : /\ Store!Load(FALSE) = f[NumDirs] /\ f[0] = <<>>
               /\ \A d \in 1..NumDirs : f[d] = Store!LoadDir(f[d - 1], d, FALSE)
  BY LoadIsALoop
<1>2. PICK g : /\ Store!Load(TRUE) = g[NumDirs] /\ g[0] = <<>>
               /\ \A d \in 1..NumDirs : g[d] = Store!LoadDir(g[d - 1], d, TRUE)
  BY LoadIsALoop
<1>. DEFINE Through(d) == {p \in Places : p[1] <= d}
            good == {d \in 0..NumDirs : BothBuilt(f[d], g[d], Through(d))}
<1>3. NumDirs \in Nat /\ \A p \in Places : p[1] \in 1..NumDirs /\ p[2] \in DOMAIN dirs[p[1]]
  BY StoreAssumption DEF Places
<1>4. 0 \in good
  <2>1. Through(0) = {}  BY <1>3
  <2>2. <<>> # Error
    <3>1. DOMAIN <<>> = {} /\ <<>> = [k \in {} |-> <<>>[k]]  OBVIOUS
    <3>2. QED  BY <3>1, StoresAreNoErrors
  <2>3. BothBuilt(<<>>, <<>>, {})
    <3>1. \A full \in BOOLEAN : Built(<<>>, {}, full)
      <4>1. DOMAIN <<>> = {}  OBVIOUS
      <4>2. QED  BY <4>1, Zenon DEF Built
    <3>2. Agree(<<>>, <<>>)  BY <2>2 DEF Agree
    <3>3. QED  BY <3>1, <3>2 DEF BothBuilt
  <2>4. f[0] = <<>> /\ g[0] = <<>>  BY <1>1, <1>2
  <2>5. BothBuilt(f[0], g[0], Through(0))  BY <2>1, <2>3, <2>4, Zenon
  <2>6. 0 \in 0..NumDirs  BY <1>3
  <2>. HIDE DEF Through
  <2>7. QED  BY <2>5, <2>6
<1>5. ASSUME NEW d \in 1..NumDirs, d - 1 \in good PROVE d \in good
  <2>1. DOMAIN dirs[d] = 1..Len(dirs[d])  BY DEF StoreShapes
  <2>2. Through(d - 1) = UpTo(d, 0)
    <3>1. \A p \in Places : p[1] = d => p[2] >= 1 /\ p[2] \in Nat  BY <1>3, <2>1, PlaceTypes
    <3>2. \A p \in Places : p[1] <= d - 1 <=> p[1] < d \/ (p[1] = d /\ p[2] <= 0)
      BY <1>3, <3>1
    <3>3. QED  BY <3>2 DEF UpTo
  <2>3. Through(d) = UpTo(d, Len(dirs[d]))
    <3>1. \A p \in Places : p[1] = d => p[2] <= Len(dirs[d])  BY <1>3, <2>1
    <3>2. \A p \in Places : p[1] <= d <=> p[1] < d \/ (p[1] = d /\ p[2] <= Len(dirs[d]))
      BY <1>3, <3>1
    <3>3. QED  BY <3>2 DEF UpTo
  <2>4. BothBuilt(f[d - 1], g[d - 1], UpTo(d, 0))  BY <1>5, <2>2
  <2>5. BothBuilt(Store!LoadDir(f[d - 1], d, FALSE), Store!LoadDir(g[d - 1], d, TRUE),
                  UpTo(d, Len(dirs[d])))
    BY <2>4, LoadDirKeepsBoth
  <2>6. BothBuilt(f[d], g[d], Through(d))  BY <1>1, <1>2, <2>3, <2>5
  <2>7. QED  BY <1>3, <2>6
<1>6. NumDirs \in good
  <2>1. good \in SUBSET (0..NumDirs)  OBVIOUS
  <2>. HIDE DEF good
  <2>2. good = 0..NumDirs  BY <1>3, <1>4, <1>5, <2>1, HoldsToTheEnd
  <2>3. QED  BY <1>3, <2>2
<1>7. Through(NumDirs) = Places  BY <1>3
<1>8. QED  BY <1>1, <1>2, <1>6, <1>7

-----------------------------------------------------------------------------
(* What the store promises.                                                *)

LEMMA LastEnabledIsStored == ASSUME StoreShapes PROVE Store!LastEnabledWins
<1>1. PICK store : store = Store!Load(FALSE)  OBVIOUS
<1>2. SUFFICES ASSUME store # Error
               PROVE  /\ \A d \in 1..NumDirs : \A i \in Store!Enabled(d) :
                            Store!Key(dirs[d][i]) \in DOMAIN store
                      /\ \A k \in DOMAIN store :
                            /\ ~store[k].doc.disabled /\ Store!Key(store[k].doc) = k
                            /\ \E i \in Store!Enabled(store[k].dir) :
                                  dirs[store[k].dir][i] = store[k].doc
                            /\ \A d \in (store[k].dir + 1)..NumDirs : \A i \in Store!Enabled(d) :
                                  Store!Key(dirs[d][i]) # k
  BY <1>1 DEF Store!LastEnabledWins
<1>3. Built(store, Places, FALSE)  BY <1>1, LoadsAreBuilt DEF BothBuilt
<1>4. \A d \in 1..NumDirs : \A i \in Store!Enabled(d) :
         /\ <<d, i>> \in Places /\ Counts(<<d, i>>, FALSE)
         /\ DocAt(<<d, i>>) = dirs[d][i] /\ KeyAt(<<d, i>>) = Store!Key(dirs[d][i])
  <2>1. SUFFICES ASSUME NEW d \in 1..NumDirs, NEW i \in Store!Enabled(d)
                 PROVE  /\ <<d, i>> \in Places /\ Counts(<<d, i>>, FALSE)
                        /\ DocAt(<<d, i>>) = dirs[d][i]
                        /\ KeyAt(<<d, i>>) = Store!Key(dirs[d][i])
    OBVIOUS
  <2>2. i \in DOMAIN dirs[d] /\ ~dirs[d][i].disabled  BY DEF Store!Enabled
  <2>3. i \in Nat  BY <2>2 DEF StoreShapes
  <2>4. DocAt(<<d, i>>) = dirs[d][i]  BY DEF DocAt
  <2>5. QED  BY <2>2, <2>3, <2>4 DEF Places, Counts, KeyAt
<1>5. \A d \in 1..NumDirs : \A i \in Store!Enabled(d) : Store!Key(dirs[d][i]) \in DOMAIN store
  <2>1. \A p \in Places : Counts(p, FALSE) => KeyAt(p) \in DOMAIN store
    BY <1>2, <1>3, Zenon DEF Built
  <2>2. QED  BY <1>4, <2>1, Zenon
<1>6. ASSUME NEW k \in DOMAIN store
      PROVE  /\ ~store[k].doc.disabled /\ Store!Key(store[k].doc) = k
             /\ \E i \in Store!Enabled(store[k].dir) : dirs[store[k].dir][i] = store[k].doc
             /\ \A d \in (store[k].dir + 1)..NumDirs : \A i \in Store!Enabled(d) :
                   Store!Key(dirs[d][i]) # k
  <2>1. PICK p \in Places : /\ Counts(p, FALSE) /\ KeyAt(p) = k
                            /\ store[k] = [doc |-> DocAt(p), dir |-> p[1]]
                            /\ \A q \in Places : Counts(q, FALSE) /\ KeyAt(q) = k => q[1] <= p[1]
    BY <1>2, <1>3, <1>6 DEF Built
  <2>2. store[k].doc = DocAt(p) /\ store[k].dir = p[1]  BY <2>1
  <2>3. p[2] \in Store!Enabled(p[1]) /\ DocAt(p) = dirs[p[1]][p[2]]
    BY <2>1 DEF Places, Counts, DocAt, Store!Enabled
  <2>4. ASSUME NEW d \in (p[1] + 1)..NumDirs, NEW i \in Store!Enabled(d)
        PROVE  Store!Key(dirs[d][i]) # k
    <3>1. NumDirs \in Nat /\ p[1] \in 1..NumDirs  BY PlaceTypes, StoreAssumption
    <3>2. d \in 1..NumDirs /\ ~(d <= p[1])  BY <3>1
    <3>3. <<d, i>>[1] = d  OBVIOUS
    <3>4. QED  BY <1>4, <2>1, <3>2, <3>3
  <2>5. ~store[k].doc.disabled /\ Store!Key(store[k].doc) = k
    BY <2>1, <2>2 DEF Counts, KeyAt
  <2>6. QED  BY <2>2, <2>3, <2>4, <2>5
<1>7. QED  BY <1>5, <1>6

LEMMA FullLoadIsTrusted == ASSUME StoreShapes PROVE Store!FullLoadAgrees
  BY LoadsAreBuilt DEF BothBuilt, Agree, Store!FullLoadAgrees

LEMMA DuplicatesFail == ASSUME StoreShapes PROVE Store!DuplicatesAreErrors
<1>1. SUFFICES ASSUME NEW d \in 1..NumDirs, NEW i \in Store!Enabled(d), NEW j \in Store!Enabled(d),
                      i # j, Store!Key(dirs[d][i]) = Store!Key(dirs[d][j])
               PROVE  Store!Load(FALSE) = Error /\ Store!Load(TRUE) = Error
  BY DEF Store!DuplicatesAreErrors
<1>2. PICK p : p = <<d, i>>  OBVIOUS
<1>3. PICK q : q = <<d, j>>  OBVIOUS
<1>4. /\ i \in DOMAIN dirs[d] /\ ~dirs[d][i].disabled /\ i \in Nat
      /\ j \in DOMAIN dirs[d] /\ ~dirs[d][j].disabled /\ j \in Nat
  BY DEF Store!Enabled, StoreShapes
<1>5. DocAt(p) = dirs[d][i] /\ DocAt(q) = dirs[d][j]  BY <1>2, <1>3 DEF DocAt
<1>6. /\ p \in Places /\ q \in Places /\ p # q /\ p[1] = q[1]
      /\ KeyAt(p) = KeyAt(q) /\ \A full : Counts(p, full) /\ Counts(q, full)
  BY <1>1, <1>2, <1>3, <1>4, <1>5 DEF Places, KeyAt, Counts
<1>7. \A full \in BOOLEAN : \A store : Built(store, Places, full) => store = Error
  BY <1>6 DEF Built
<1>8. QED  BY <1>7, LoadsAreBuilt DEF BothBuilt

LEMMA TargetsReach == ASSUME StoreShapes PROVE Store!TargetsReachObjects
<1>. DEFINE store == Store!Load(FALSE)
<1>1. SUFFICES ASSUME store # Error
               PROVE  /\ \A spelling \in DOMAIN StoreAlias :
                            \A k \in Store!ByKind(store, StoreAlias[spelling]) :
                               Store!Select(store, spelling, {k[2]}) = {k}
                      /\ \A g \in DOMAIN StoreGroup :
                            Store!Select(store, g, {}) =
                               UNION {Store!Select(store, kind, {}) : kind \in StoreGroup[g]}
  BY DEF Store!TargetsReachObjects
<1>. HIDE DEF store
<1>2. \A k \in DOMAIN store :
         k = <<k[1], k[2]>> /\ k[1] \notin DOMAIN StoreGroup
  <2>1. SUFFICES ASSUME NEW k \in DOMAIN store
                 PROVE  k = <<k[1], k[2]>> /\ k[1] \notin DOMAIN StoreGroup
    OBVIOUS
  <2>2. k \in StoreKeys
    <3>1. Built(store, Places, FALSE)  BY LoadsAreBuilt DEF BothBuilt, store
    <3>2. QED  BY <1>1, <3>1, BuiltOfDocuments
  <2>3. PICK doc \in StoreDocs : k = Store!Key(doc)  BY <2>2 DEF StoreKeys
  <2>4. PICK kind, name : k = <<kind, name>> /\ kind = Store!ResolveKindAlias(doc.kind)
    BY <2>3 DEF Store!Key
  <2>5. QED  BY <2>4, StoreAssumption
<1>3. ASSUME NEW spelling \in DOMAIN StoreAlias,
             NEW k \in Store!ByKind(store, StoreAlias[spelling])
      PROVE  Store!Select(store, spelling, {k[2]}) = {k}
  <2>1. PICK kind : kind = StoreAlias[spelling]  OBVIOUS
  <2>2. Store!ResolveKindAlias(spelling) = kind  BY <2>1 DEF Store!ResolveKindAlias
  <2>3. k \in DOMAIN store /\ k[1] = kind  BY <2>1 DEF Store!ByKind
  <2>4. kind \notin DOMAIN StoreGroup  BY <1>2, <2>3
  <2>5. {key \in Store!ByKind(store, kind) : key[2] \in {k[2]}} = {k}
    <3>1. \A key \in DOMAIN store : key[1] = kind /\ key[2] = k[2] => key = k
      BY <1>2, <2>3
    <3>2. QED  BY <2>3, <3>1 DEF Store!ByKind
  <2>6. {k[2]} # {} /\ {k} # {}  OBVIOUS
  <2>7. QED  BY <2>2, <2>4, <2>5, <2>6, Zenon DEF Store!Select
<1>4. ASSUME NEW g \in DOMAIN StoreGroup
      PROVE  Store!Select(store, g, {}) =
                UNION {Store!Select(store, kind, {}) : kind \in StoreGroup[g]}
  <2>1. Store!ResolveKindAlias(g) = g  BY StoreAssumption
  <2>2. Store!Select(store, g, {}) = {k \in DOMAIN store : k[1] \in StoreGroup[g]}
    BY <2>1, Zenon DEF Store!Select
  <2>3. \A kind \in StoreGroup[g] :
           Store!ResolveKindAlias(kind) = kind /\ kind \notin DOMAIN StoreGroup
    BY StoreAssumption
  <2>4. \A kind \in StoreGroup[g] : Store!Select(store, kind, {}) = Store!ByKind(store, kind)
    BY <2>3, Zenon DEF Store!Select
  <2>. DEFINE kinds == StoreGroup[g]
  <2>5. UNION {Store!Select(store, kind, {}) : kind \in kinds} =
          UNION {Store!ByKind(store, kind) : kind \in kinds}
    BY <2>4
  <2>6. UNION {Store!ByKind(store, kind) : kind \in kinds} = {k \in DOMAIN store : k[1] \in kinds}
    BY DEF Store!ByKind
  <2>7. QED  BY <2>2, <2>5, <2>6
<1>5. QED  BY <1>3, <1>4

(***************************************************************************)
(* The store's files are all that matters: whatever documents they hold.   *)
(***************************************************************************)
StoreInv == part = "store" => StoreShapes

\* Writing a document changes what the directories hold, and they hold documents
\* (the YAML files config_objects.py loads).
THEOREM StoreInvariant == ServicesSpec => []StoreInv
<1>1. Start => StoreInv
  <2>1. <<>> \in Seq(StoreDocs)  OBVIOUS
  <2>2. Store!Init => StoreShapes  BY <2>1 DEF StoreShapes, Store!Init
  <2>3. QED  BY <2>2, Zenon DEF Start, StoreInv
<1>2. ASSUME StoreInv,
             [\/ OfRoutes(Next)
              \/ OfDocker(Docker!Next)
              \/ OfPki(Pki!Next)
              \/ OfStore(Store!Next)
              \/ OfOrder(Order!Next)]_all
      PROVE  StoreInv'
  <2>1. CASE OfStore(Store!Next)
    <3>1. PICK d \in 1..NumDirs, doc \in StoreDocs : Store!Write(d, doc)
      BY <2>1 DEF OfStore, Store!Next
    <3>2. part = "store" /\ StoreShapes  BY <1>2, <2>1 DEF OfStore, StoreInv
    <3>3. dirs[d] \in Seq(StoreDocs) /\ Append(dirs[d], doc) \in Seq(StoreDocs)
      BY <3>2 DEF StoreShapes
    <3>4. dirs' = [dirs EXCEPT ![d] = Append(dirs[d], doc)]  BY <3>1 DEF Store!Write
    <3>5. QED  BY <3>2, <3>3, <3>4 DEF StoreInv, StoreShapes
  <2>2. CASE part' = part /\ dirs' = dirs
    BY <1>2, <2>2 DEF StoreInv, StoreShapes
  <2>3. CASE OfRoutes(Next) \/ OfDocker(Docker!Next) \/ OfPki(Pki!Next) \/ OfOrder(Order!Next)
    BY <2>2, <2>3 DEF OfRoutes, OfDocker, OfPki, OfOrder, storeVars
  <2>4. CASE UNCHANGED all
    BY <2>2, <2>4 DEF all, storeVars
  <2>5. QED  BY <1>2, <2>1, <2>3, <2>4
<1>3. QED  BY <1>1, <1>2, PTL DEF ServicesSpec

(***************************************************************************)
(* ConfigStore: for every kind and name the enabled object of the last     *)
(* directory that has one is used, the load of gw delete agrees,           *)
(* duplicates are errors, and every object can be selected                 *)
(* (config_objects.py load_config_objects, update.py _select_objects).     *)
(***************************************************************************)
THEOREM StoreIsRight == ServicesSpec => []StoreLastEnabledWins
<1>1. StoreInv => StoreLastEnabledWins
  BY LastEnabledIsStored, FullLoadIsTrusted, DuplicatesFail, TargetsReach
     DEF StoreInv, StoreLastEnabledWins
<1>2. QED  BY <1>1, StoreInvariant, PTL

-----------------------------------------------------------------------------
(* The OpenVPN PKI under gw ovpn: any number of sessions, client profiles, *)
(* commands, certificates, failures and kills.  The web API is left out    *)
(* (Web = {}): it takes no lock; the run ovpn_web shows what it breaks.    *)

PkiCert == [id : Nat, serial : Nat]
PkiEntry == [serial : Nat, revoked : BOOLEAN]

PkiStep ==
    {"config", "ensureCa", "error", "caInit", "caKey", "caCert", "crlRead", "crlWrite",
     "signRead", "sign", "unlink", "link", "create", "update", "render", "revokeRead",
     "revoke", "log"}

PkiCommand == {"none", "init", "create", "update", "renew", "revoke", "crl"}

PkiOperation ==
    [cmd : PkiCommand, p : Pki!Profile, cert : PkiCert, todo : Seq(PkiStep),
     db : SUBSET PkiEntry, next : Nat, result : {"none", "failed"}]

-----------------------------------------------------------------------------
(* The lists of steps.  Of a command that is under way only the step that  *)
(* comes next depends on the state; the order of the others is fixed.      *)

\* The steps that may come after one another.
MayFollow(a, b) ==
    \/ a = "config" /\ b = "ensureCa"
    \/ a \in {"ensureCa", "error", "crlWrite"} /\ b \in {"signRead", "crlRead"}
    \/ a = "caInit" /\ b = "caKey"
    \/ a = "caKey" /\ b = "caCert"
    \/ a = "caCert" /\ b = "crlRead"
    \/ a = "crlRead" /\ b = "crlWrite"
    \/ a = "signRead" /\ b = "sign"
    \/ a = "sign" /\ b = "unlink"
    \/ a = "unlink" /\ b = "link"
    \/ a = "link" /\ b \in {"update", "render"}
    \/ a = "revokeRead" /\ b = "revoke"
    \/ a = "revoke" /\ b = "log"
    \/ a = "log" /\ b = "crlRead"

InOrder(todo) == \A i \in 1..(Len(todo) - 1) : MayFollow(todo[i], todo[i + 1])

\* What a command ends with, and what a revocation consists of.
EndsRight(cmd, todo) ==
    todo # <<>> =>
        /\ cmd \in {"revoke", "crl"} => todo[Len(todo)] = "crlWrite"
        /\ cmd \in {"update", "renew"} => todo[Len(todo)] \in {"update", "render"}

OnlyRevokes(cmd, todo) ==
    cmd = "revoke" =>
        \A i \in 1..Len(todo) : todo[i] \in {"revokeRead", "revoke", "log", "crlRead", "crlWrite"}

ListsInOrder ==
    \A s \in Cli :
        /\ InOrder(op[s].todo)
        /\ EndsRight(op[s].cmd, op[s].todo)
        /\ OnlyRevokes(op[s].cmd, op[s].todo)

\* What is true when a step comes next: above all, that what the command has read of
\* the database is still so when openssl writes it.
Ready(o, step) ==
    /\ step \in {"caInit", "caKey"} => ~caKey
    /\ step \in {"caInit", "caKey", "caCert"} => ~caCert
    /\ step \in {"caKey", "caCert"} => serial >= 1
    /\ step \in {"caCert", "crlRead", "crlWrite", "signRead", "sign"} => caKey
    /\ step \in {"sign", "revoke", "crlWrite"} => o.db = index
    /\ step = "sign" => o.next = serial
    /\ step \in {"unlink", "link", "revokeRead", "revoke", "log"} => o.cert \in certs[o.p]
    /\ step = "log" => o.cert.serial \in Pki!Revoked(index)
    /\ step \in {"crlRead", "crlWrite"} /\ o.cmd = "revoke" =>
          o.cert.serial \in Pki!Revoked(index)

NextIsReady == \A s \in Cli : op[s].todo # <<>> => Ready(op[s], Head(op[s].todo))

-----------------------------------------------------------------------------
(* The inductive invariant.                                                *)

FileTypes ==
    /\ configured \in BOOLEAN /\ caKey \in BOOLEAN /\ caCert \in BOOLEAN
    /\ index \in SUBSET PkiEntry /\ serial \in Nat /\ clientCert \in BOOLEAN
    /\ certs \in [Pki!Profile -> SUBSET PkiCert]
    /\ latest \in [Pki!Profile -> PkiCert] /\ output \in [Pki!Profile -> PkiCert]
    /\ signed \in Nat

\* One session works at a time: the one that has the lock.
OneSession ==
    \A s \in Cli : IF lockedBy = s THEN op[s].cmd # "none" ELSE op[s] = Pki!Resting

\* The CA is made in order, and nothing is signed before its key is there.
CaBeforeCerts ==
    /\ caCert => caKey
    /\ caKey => serial >= 1
    /\ ~caKey => signed = 0

\* Certificates have the ids and serials that were given out, each its own.
CertsAreDistinct ==
    /\ \A p \in Pki!Profile : \A c \in certs[p] :
          c.id >= 1 /\ c.id <= signed /\ c.serial >= 1 /\ c.serial < serial
    /\ \A p, q \in Pki!Profile : \A c \in certs[p], d \in certs[q] :
          c.id = d.id \/ c.serial = d.serial => c = d
    /\ \A id \in revokedLog : id \in Nat /\ id <= signed

FilesInv ==
    /\ FileTypes /\ CaBeforeCerts /\ CertsAreDistinct
    /\ Pki!LoggedIsRevoked /\ Pki!LatestIsSigned

PkiInv ==
    /\ FilesInv
    /\ op \in [Cli -> PkiOperation]
    /\ OneSession /\ ListsInOrder /\ NextIsReady
    /\ Pki!CrlIsComplete /\ Pki!OutputIsLatest

\* What a step of a command has to leave behind: the next one can go on, and if there
\* is none, the command has done what it was for.
Leaves(o, step) ==
    /\ \A next \in PkiStep : MayFollow(step, next) => Ready(o, next)
    /\ step = "crlWrite" =>
          crl = Pki!Revoked(index) /\ (o.cmd = "revoke" => o.cert.serial \in crl)
    /\ step = "render" /\ Pki!UsesCert(o.p) =>
          output[o.p] = latest[o.p] /\ output[o.p] # Pki!NoCert

-----------------------------------------------------------------------------
(* Lists of steps: taking the first off, and putting two together.         *)

\* The empty list of steps is the one of length 0.
LEMMA EmptyList == ASSUME NEW todo \in Seq(PkiStep) PROVE todo = <<>> <=> Len(todo) = 0
  OBVIOUS

\* What is left of a list in order is in order and ends as it did, and its first step
\* may follow the one taken off (each step of OvpnPki takes one off).
LEMMA TailInOrder ==
    ASSUME NEW todo \in Seq(PkiStep), todo # <<>>, InOrder(todo)
    PROVE  /\ Tail(todo) \in Seq(PkiStep) /\ InOrder(Tail(todo))
           /\ \A i \in 1..Len(Tail(todo)) : Tail(todo)[i] = todo[i + 1]
           /\ \A i \in 1..Len(Tail(todo)) : i + 1 \in 1..Len(todo)
           /\ Tail(todo) # <<>> => /\ MayFollow(Head(todo), Head(Tail(todo)))
                                   /\ Tail(todo)[Len(Tail(todo))] = todo[Len(todo)]
           /\ Tail(todo) = <<>> => todo[Len(todo)] = Head(todo)
           /\ Head(todo) = todo[1] /\ Head(todo) \in PkiStep /\ Len(todo) >= 1
<1>1. PICK n \in Nat : n = Len(todo)  OBVIOUS
<1>2. n >= 1  BY <1>1
<1>3. Tail(todo) \in Seq(PkiStep) /\ Len(Tail(todo)) = n - 1  BY <1>1, <1>2
<1>4. \A i \in 1..(n - 1) : Tail(todo)[i] = todo[i + 1] /\ i + 1 \in 1..n
  BY <1>1, <1>2, <1>3
<1>5. Head(todo) = todo[1] /\ Head(todo) \in PkiStep  BY <1>1, <1>2
<1>6. InOrder(Tail(todo))
  <2>1. SUFFICES ASSUME NEW i \in 1..(n - 2)
                 PROVE  MayFollow(Tail(todo)[i], Tail(todo)[i + 1])
    BY <1>2, <1>3 DEF InOrder
  <2>2. i + 1 \in 1..(n - 1) /\ i \in 1..(n - 1)  BY <1>2
  <2>3. MayFollow(todo[i + 1], todo[i + 1 + 1])  BY <2>2, <1>1 DEF InOrder
  <2>4. QED  BY <2>2, <2>3, <1>4
<1>7. ASSUME Tail(todo) # <<>>
      PROVE  /\ MayFollow(Head(todo), Head(Tail(todo)))
             /\ Tail(todo)[Len(Tail(todo))] = todo[Len(todo)]
  <2>1. n >= 2  BY <1>1, <1>2, <1>3, <1>7
  <2>2. Head(Tail(todo)) = todo[2] /\ Tail(todo)[n - 1] = todo[n]
    BY <2>1, <1>3, <1>4, <1>7
  <2>3. MayFollow(todo[1], todo[2])  BY <2>1, <1>1 DEF InOrder
  <2>4. QED  BY <2>2, <2>3, <1>1, <1>3, <1>5
<1>8. ASSUME Tail(todo) = <<>> PROVE n = 1
  <2>1. Len(Tail(todo)) = 0  BY <1>3, <1>8, EmptyList
  <2>2. QED  BY <2>1, <1>2, <1>3
<1>9. QED  BY <1>1, <1>2, <1>3, <1>4, <1>5, <1>6, <1>7, <1>8

\* Two lists in order make one when the second may follow the first (OvpnPki's commands
\* are put together of such lists).
LEMMA JoinInOrder ==
    ASSUME NEW a \in Seq(PkiStep), NEW b \in Seq(PkiStep), InOrder(a), InOrder(b),
           a # <<>>, b # <<>> => MayFollow(a[Len(a)], b[1])
    PROVE  /\ a \o b \in Seq(PkiStep) /\ InOrder(a \o b) /\ a \o b # <<>>
           /\ Head(a \o b) = a[1]
           /\ b # <<>> => (a \o b)[Len(a \o b)] = b[Len(b)]
<1>1. PICK n \in Nat, m \in Nat : n = Len(a) /\ m = Len(b)  OBVIOUS
<1>2. n >= 1  BY <1>1
<1>3. PICK c \in Seq(PkiStep) : c = a \o b /\ Len(c) = n + m
  <2>1. a \o b \in Seq(PkiStep) /\ Len(a \o b) = n + m  BY <1>1
  <2>2. QED  BY <2>1, Zenon
<1>4. \A i \in 1..n : c[i] = a[i]  BY <1>1, <1>3
<1>5. \A i \in 1..m : c[n + i] = b[i]  BY <1>1, <1>3
<1>6. InOrder(c)
  <2>1. SUFFICES ASSUME NEW i \in 1..(n + m - 1)
                 PROVE  MayFollow(c[i], c[i + 1])
    BY <1>3 DEF InOrder
  <2>2. CASE i < n
    <3>1. i \in 1..(n - 1) /\ i \in 1..n /\ i + 1 \in 1..n  BY <2>2
    <3>2. QED  BY <3>1, <1>1, <1>4 DEF InOrder
  <2>3. CASE i = n
    <3>1. m >= 1 /\ i \in 1..n  BY <2>3, <1>2
    <3>2. b # <<>>  BY <3>1, <1>1, EmptyList
    <3>3. c[n + 1] = b[1]  BY <3>1, <1>5
    <3>4. QED  BY <3>1, <3>2, <3>3, <2>3, <1>1, <1>4
  <2>4. CASE i > n
    <3>1. PICK j \in Nat : j = i - n  BY <2>4, <1>2
    <3>2. j \in 1..(m - 1) /\ j \in 1..m /\ j + 1 \in 1..m  BY <3>1, <2>4
    <3>3. i = n + j /\ i + 1 = n + (j + 1)  BY <3>1
    <3>4. c[n + j] = b[j] /\ c[n + (j + 1)] = b[j + 1]  BY <3>2, <1>5
    <3>5. MayFollow(b[j], b[j + 1])  BY <3>2, <1>1 DEF InOrder
    <3>6. QED  BY <3>3, <3>4, <3>5
  <2>5. QED  BY <2>2, <2>3, <2>4
<1>7. Head(c) = a[1] /\ c # <<>>  BY <1>2, <1>3, <1>4
<1>8. ASSUME b # <<>> PROVE c[n + m] = b[m]
  <2>1. m >= 1  BY <1>1, <1>8, EmptyList
  <2>2. m \in 1..m  BY <2>1
  <2>3. QED  BY <2>2, <1>5
<1>9. QED  BY <1>1, <1>3, <1>6, <1>7, <1>8

-----------------------------------------------------------------------------
(* A session that has the lock takes a step.                               *)

\* The command goes on with the rest of its list, the other sessions rest, and only a
\* step that may end a command ends it (OvpnPki's Advance).
LEMMA CommandGoesOn ==
    ASSUME PkiInv, Web = {}, NEW s \in Cli, op[s].todo # <<>>,
           NEW o \in PkiOperation, o.cmd = op[s].cmd, o.p = op[s].p, o.result = op[s].result,
           Pki!Advance(s, o), lockedBy' = lockedBy
    PROVE  LET step == Head(op[s].todo)
               then == op'[s].todo IN
           /\ op' \in [Cli -> PkiOperation] /\ OneSession' /\ ListsInOrder'
           /\ \A r \in Cli \ {s} : op'[r] = Pki!Resting
           /\ op'[s] = [o EXCEPT !.todo = Tail(op[s].todo)]
           /\ step \in PkiStep /\ Ready(op[s], step)
           /\ then # <<>> => MayFollow(step, Head(then))
           /\ then = <<>> /\ step # "crlWrite" => o.cmd \notin {"revoke", "crl"}
           /\ then = <<>> /\ step \notin {"update", "render"} => o.cmd \notin {"update", "renew"}
           /\ o.cmd = "revoke" => step \in {"revokeRead", "revoke", "log", "crlRead", "crlWrite"}
<1>. DEFINE todo == op[s].todo
<1>. DEFINE o2 == [o EXCEPT !.todo = Tail(todo)]
<1>1. op \in [Cli -> PkiOperation] /\ op[s] \in PkiOperation /\ todo \in Seq(PkiStep)
  BY DEF PkiInv, PkiOperation
<1>2. InOrder(todo) /\ EndsRight(op[s].cmd, todo) /\ OnlyRevokes(op[s].cmd, todo)
  BY DEF PkiInv, ListsInOrder
<1>3. op' = [op EXCEPT ![s] = o2]  BY DEF Pki!Advance
<1>4. /\ Tail(todo) \in Seq(PkiStep) /\ InOrder(Tail(todo))
      /\ \A i \in 1..Len(Tail(todo)) : Tail(todo)[i] = todo[i + 1]
      /\ \A i \in 1..Len(Tail(todo)) : i + 1 \in 1..Len(todo)
      /\ Tail(todo) # <<>> => /\ MayFollow(Head(todo), Head(Tail(todo)))
                              /\ Tail(todo)[Len(Tail(todo))] = todo[Len(todo)]
      /\ Tail(todo) = <<>> => todo[Len(todo)] = Head(todo)
      /\ Head(todo) = todo[1] /\ Head(todo) \in PkiStep /\ Len(todo) >= 1
  BY <1>1, <1>2, TailInOrder
<1>5. o2 \in PkiOperation /\ o2.todo = Tail(todo) /\ o2.cmd = op[s].cmd
  BY <1>1, <1>4 DEF PkiOperation
<1>6. op'[s] = o2 /\ \A r \in Cli \ {s} : op'[r] = op[r]  BY <1>1, <1>3
<1>7. op[s] # Pki!Resting  BY DEF Pki!Resting
<1>8. lockedBy = s /\ op[s].cmd # "none" /\ \A r \in Cli \ {s} : op[r] = Pki!Resting
  BY <1>7 DEF PkiInv, OneSession
<1>9. \A r \in Cli \ {s} : op'[r] = Pki!Resting  BY <1>6, <1>8
<1>10. op' \in [Cli -> PkiOperation]  BY <1>1, <1>3, <1>5
<1>11. OneSession'  BY <1>5, <1>6, <1>8, <1>9 DEF OneSession
<1>12. EndsRight(o2.cmd, o2.todo) /\ OnlyRevokes(o2.cmd, o2.todo)
  <2>1. EndsRight(o2.cmd, o2.todo)  BY <1>2, <1>4, <1>5 DEF EndsRight
  <2>2. OnlyRevokes(o2.cmd, o2.todo)  BY <1>2, <1>4, <1>5 DEF OnlyRevokes
  <2>3. QED  BY <2>1, <2>2
<1>13. InOrder(<<>>) /\ EndsRight("none", <<>>) /\ OnlyRevokes("none", <<>>)
  BY DEF InOrder, EndsRight, OnlyRevokes
<1>14. ListsInOrder'
  <2>1. SUFFICES ASSUME NEW r \in Cli
                 PROVE  /\ InOrder(op'[r].todo)
                        /\ EndsRight(op'[r].cmd, op'[r].todo)
                        /\ OnlyRevokes(op'[r].cmd, op'[r].todo)
    BY DEF ListsInOrder, InOrder, EndsRight, OnlyRevokes
  <2>2. CASE r = s  BY <2>2, <1>4, <1>5, <1>6, <1>12
  <2>3. CASE r # s
    <3>1. op'[r].todo = <<>> /\ op'[r].cmd = "none"  BY <2>3, <1>9 DEF Pki!Resting
    <3>2. QED  BY <3>1, <1>13
  <2>4. QED  BY <2>2, <2>3
<1>15. Ready(op[s], Head(todo))  BY DEF PkiInv, NextIsReady
<1>16. Tail(todo) = <<>> /\ Head(todo) # "crlWrite" => o.cmd \notin {"revoke", "crl"}
  BY <1>2, <1>4 DEF EndsRight
<1>17. Tail(todo) = <<>> /\ Head(todo) \notin {"update", "render"} =>
           o.cmd \notin {"update", "renew"}
  BY <1>2, <1>4 DEF EndsRight
<1>18. o.cmd = "revoke" =>
           Head(todo) \in {"revokeRead", "revoke", "log", "crlRead", "crlWrite"}
  BY <1>2, <1>4 DEF OnlyRevokes
<1>19. QED
  BY <1>4, <1>5, <1>6, <1>9, <1>10, <1>11, <1>14, <1>15, <1>16, <1>17, <1>18

\* Such a step keeps the invariant when it leaves the files right, what comes next is
\* ready, and the last step has done what the command was for.
LEMMA StepKeepsInv ==
    ASSUME PkiInv, Web = {}, NEW s \in Cli, op[s].todo # <<>>,
           NEW o \in PkiOperation, o.cmd = op[s].cmd, o.p = op[s].p, o.result = op[s].result,
           Pki!Advance(s, o), lockedBy' = lockedBy,
           NEW step, step = Head(op[s].todo), step # "update",
           FilesInv', Leaves(o, step)'
    PROVE  PkiInv'
<1>. DEFINE then == op'[s].todo
<1>1. /\ op' \in [Cli -> PkiOperation] /\ OneSession' /\ ListsInOrder'
      /\ \A r \in Cli \ {s} : op'[r] = Pki!Resting
      /\ op'[s] = [o EXCEPT !.todo = Tail(op[s].todo)]
      /\ then # <<>> => MayFollow(step, Head(then))
      /\ then = <<>> /\ step # "crlWrite" => o.cmd \notin {"revoke", "crl"}
      /\ then = <<>> /\ step \notin {"update", "render"} => o.cmd \notin {"update", "renew"}
  BY CommandGoesOn
<1>2. /\ op'[s].cmd = o.cmd /\ op'[s].p = o.p /\ op'[s].cert = o.cert
      /\ op'[s].db = o.db /\ op'[s].next = o.next /\ then \in Seq(PkiStep)
  BY <1>1 DEF PkiOperation
<1>3. \A r \in Cli \ {s} : op'[r].todo = <<>> /\ op'[r].cmd = "none"
  BY <1>1 DEF Pki!Resting
<1>4. NextIsReady'
  <2>1. SUFFICES ASSUME NEW r \in Cli, op'[r].todo # <<>>
                 PROVE  Ready(op[r], Head(op[r].todo))'
    BY DEF NextIsReady
  <2>2. r = s  BY <1>3, <2>1
  <2>3. PICK next \in PkiStep : next = Head(op'[s].todo)  BY <1>2, <2>1, <2>2, EmptyList
  <2>4. Ready(o, next)'  BY <1>1, <2>1, <2>2, <2>3 DEF Leaves
  <2>5. Ready(op[s], next)'
    <3>. USE <1>2, <2>4 DEF Ready
    <3>1. /\ next \in {"caInit", "caKey"} => ~caKey'
          /\ next \in {"caInit", "caKey", "caCert"} => ~caCert'
          /\ next \in {"caKey", "caCert"} => serial' >= 1
          /\ next \in {"caCert", "crlRead", "crlWrite", "signRead", "sign"} => caKey'
      OBVIOUS
    <3>2. /\ next \in {"sign", "revoke", "crlWrite"} => op'[s].db = index'
          /\ next = "sign" => op'[s].next = serial'
          /\ next \in {"unlink", "link", "revokeRead", "revoke", "log"} =>
                op'[s].cert \in certs'[op'[s].p]
      OBVIOUS
    <3>3. /\ next = "log" => op'[s].cert.serial \in Pki!Revoked(index)'
          /\ next \in {"crlRead", "crlWrite"} /\ op'[s].cmd = "revoke" =>
                op'[s].cert.serial \in Pki!Revoked(index)'
      OBVIOUS
    <3>4. QED  BY <3>1, <3>2, <3>3
  <2>6. QED  BY <2>2, <2>3, <2>5
<1>5. Pki!CrlIsComplete'
  <2>1. SUFFICES ASSUME NEW r \in Cli, op'[r].cmd \in {"revoke", "crl"}, op'[r].todo = <<>>
                 PROVE  /\ crl' = Pki!Revoked(index)'
                        /\ op'[r].cmd = "revoke" => op'[r].cert.serial \in crl'
    BY DEF Pki!CrlIsComplete, Pki!Done, Pki!Session
  <2>2. r = s  BY <1>3, <2>1
  <2>3. step = "crlWrite" /\ o.cmd = op'[s].cmd  BY <1>1, <1>2, <2>1, <2>2
  <2>4. crl' = Pki!Revoked(index)'  BY <2>3 DEF Leaves
  <2>5. op'[s].cmd = "revoke" => op'[s].cert.serial \in crl'  BY <2>3, <1>2 DEF Leaves
  <2>6. QED  BY <2>2, <2>4, <2>5
<1>6. Pki!OutputIsLatest'
  <2>1. SUFFICES ASSUME NEW r \in Cli, op'[r].cmd \in {"update", "renew"}, op'[r].todo = <<>>,
                        Pki!UsesCert(op[r].p)'
                 PROVE  output'[op'[r].p] = latest'[op'[r].p] /\ output'[op'[r].p] # Pki!NoCert
    BY DEF Pki!OutputIsLatest, Pki!Done, Pki!Session, Pki!NoCert
  <2>2. r = s  BY <1>3, <2>1
  <2>3. Pki!UsesCert(o.p)'  BY <1>2, <2>1, <2>2 DEF Pki!UsesCert
  <2>4. step = "render"  BY <1>1, <1>2, <2>1, <2>2
  <2>5. output'[o.p] = latest'[o.p] /\ output'[o.p] # Pki!NoCert'  BY <2>3, <2>4 DEF Leaves
  <2>6. QED  BY <1>2, <2>2, <2>5 DEF Pki!NoCert
<1>7. QED  BY <1>1, <1>4, <1>5, <1>6 DEF PkiInv

-----------------------------------------------------------------------------
(* The steps that take the first off their list.                           *)

\* What a step finds: an operation that is ready for it.
LEMMA StepBegins ==
    ASSUME PkiInv, NEW s \in Cli, NEW step, Pki!At(s, step)
    PROVE  /\ op[s].todo # <<>> /\ step = Head(op[s].todo)
           /\ op[s] \in PkiOperation /\ op[s].p \in Pki!Profile /\ op[s].cert \in PkiCert
           /\ Ready(op[s], step)
  BY DEF PkiInv, NextIsReady, Pki!At, PkiOperation

\* What does not touch the CA, its database and the certificates breaks nothing about them.
LEMMA SameCa ==
    ASSUME PkiInv, UNCHANGED <<caKey, caCert, index, serial, signed, certs, revokedLog>>
    PROVE  CaBeforeCerts' /\ CertsAreDistinct' /\ Pki!LoggedIsRevoked'
<1>1. CaBeforeCerts'  BY DEF PkiInv, FilesInv, CaBeforeCerts
<1>2. CertsAreDistinct'  BY DEF PkiInv, FilesInv, CertsAreDistinct
<1>3. Pki!LoggedIsRevoked'  BY DEF PkiInv, FilesInv, Pki!LoggedIsRevoked, Pki!Revoked
<1>4. QED  BY <1>1, <1>2, <1>3

\* config.yaml and the profiles: nothing else depends on them.
LEMMA ConfigAndCreateKeepInv ==
    ASSUME PkiInv, Web = {}, NEW s \in Cli, Pki!Config(s) \/ Pki!Create(s)
    PROVE  PkiInv'
<1>1. PICK step \in {"config", "create"} : Pki!At(s, step)
  BY DEF Pki!Config, Pki!Create
<1>2. PICK o \in PkiOperation : o = op[s]  BY <1>1, StepBegins
<1>3. op[s].todo # <<>> /\ step = Head(op[s].todo)  BY <1>1, StepBegins
<1>4. /\ Pki!Advance(s, o) /\ lockedBy' = lockedBy /\ configured' \in BOOLEAN
      /\ UNCHANGED <<caKey, caCert, index, serial, signed, certs, revokedLog,
                     clientCert, latest, output>>
  BY <1>2 DEF Pki!Config, Pki!Create, PkiInv, FilesInv, FileTypes,
              Pki!ca, Pki!database, Pki!profileVars, Pki!bounds
<1>5. CaBeforeCerts' /\ CertsAreDistinct' /\ Pki!LoggedIsRevoked'  BY <1>4, SameCa
<1>6. FileTypes' /\ Pki!LatestIsSigned'
  BY <1>4 DEF PkiInv, FilesInv, FileTypes, Pki!LatestIsSigned
<1>7. \A next \in PkiStep : MayFollow(step, next) => next = "ensureCa"
  BY <1>1 DEF MayFollow
<1>8. Leaves(o, step)'  BY <1>1, <1>7 DEF Leaves, Ready
<1>9. FilesInv'  BY <1>5, <1>6 DEF FilesInv
<1>10. step # "update"  BY <1>1
<1>11. QED  BY <1>2, <1>3, <1>4, <1>8, <1>9, <1>10, StepKeepsInv

\* ca.key and then ca.crt.
LEMMA CaKeyKeepsInv ==
    ASSUME PkiInv, Web = {}, NEW s \in Cli, Pki!CaKey(s)
    PROVE  PkiInv'
<1>1. Pki!At(s, "caKey") /\ caKey' = TRUE  BY DEF Pki!CaKey
<1>2. PICK o \in PkiOperation : o = op[s]  BY <1>1, StepBegins
<1>3. op[s].todo # <<>> /\ "caKey" = Head(op[s].todo) /\ Ready(o, "caKey")
  BY <1>1, <1>2, StepBegins
<1>4. /\ Pki!Advance(s, o) /\ lockedBy' = lockedBy
      /\ UNCHANGED <<configured, caCert, index, serial, signed, certs, revokedLog,
                     clientCert, latest, output>>
  BY <1>2 DEF Pki!CaKey, Pki!database, Pki!profileVars, Pki!bounds
<1>5. ~caKey /\ ~caCert /\ serial >= 1  BY <1>3 DEF Ready
<1>6. CaBeforeCerts'  BY <1>1, <1>4, <1>5 DEF CaBeforeCerts
<1>7. CertsAreDistinct' /\ Pki!LoggedIsRevoked'
  BY <1>4 DEF PkiInv, FilesInv, CertsAreDistinct, Pki!LoggedIsRevoked, Pki!Revoked
<1>8. FileTypes' /\ Pki!LatestIsSigned'
  BY <1>1, <1>4 DEF PkiInv, FilesInv, FileTypes, Pki!LatestIsSigned
<1>9. \A next \in PkiStep : MayFollow("caKey", next) => next = "caCert"
  BY DEF MayFollow
<1>10. Leaves(o, "caKey")'  BY <1>1, <1>4, <1>5, <1>9 DEF Leaves, Ready
<1>11. FilesInv'  BY <1>6, <1>7, <1>8 DEF FilesInv
<1>12. QED  BY <1>2, <1>3, <1>4, <1>10, <1>11, StepKeepsInv

LEMMA CaCertKeepsInv ==
    ASSUME PkiInv, Web = {}, NEW s \in Cli, Pki!CaCert(s)
    PROVE  PkiInv'
<1>1. Pki!At(s, "caCert") /\ caCert' = TRUE  BY DEF Pki!CaCert
<1>2. PICK o \in PkiOperation : o = op[s]  BY <1>1, StepBegins
<1>3. op[s].todo # <<>> /\ "caCert" = Head(op[s].todo) /\ Ready(o, "caCert")
  BY <1>1, <1>2, StepBegins
<1>4. /\ Pki!Advance(s, o) /\ lockedBy' = lockedBy
      /\ UNCHANGED <<configured, caKey, index, serial, signed, certs, revokedLog,
                     clientCert, latest, output>>
  BY <1>2 DEF Pki!CaCert, Pki!database, Pki!profileVars, Pki!bounds
<1>5. caKey /\ ~caCert  BY <1>3 DEF Ready
<1>6. CaBeforeCerts'  BY <1>1, <1>4, <1>5 DEF PkiInv, FilesInv, CaBeforeCerts
<1>7. CertsAreDistinct' /\ Pki!LoggedIsRevoked'
  BY <1>4 DEF PkiInv, FilesInv, CertsAreDistinct, Pki!LoggedIsRevoked, Pki!Revoked
<1>8. FileTypes' /\ Pki!LatestIsSigned'
  BY <1>1, <1>4 DEF PkiInv, FilesInv, FileTypes, Pki!LatestIsSigned
<1>9. \A next \in PkiStep : MayFollow("caCert", next) => next = "crlRead"
  BY DEF MayFollow
<1>10. o.cmd # "revoke"  BY <1>2, <1>3, <1>4, CommandGoesOn
<1>11. Leaves(o, "caCert")'  BY <1>4, <1>5, <1>9, <1>10 DEF Leaves, Ready
<1>12. FilesInv'  BY <1>6, <1>7, <1>8 DEF FilesInv
<1>13. QED  BY <1>2, <1>3, <1>4, <1>11, <1>12, StepKeepsInv

\* A CA is only made when no certificate was ever signed, so that the serials can start
\* again at 1.
LEMMA CaInitKeepsInv ==
    ASSUME PkiInv, Web = {}, NEW s \in Cli, Pki!CaInit(s)
    PROVE  PkiInv'
<1>1. Pki!At(s, "caInit") /\ index' = {} /\ serial' = 1  BY DEF Pki!CaInit
<1>2. PICK o \in PkiOperation : o = op[s]  BY <1>1, StepBegins
<1>3. op[s].todo # <<>> /\ "caInit" = Head(op[s].todo) /\ Ready(o, "caInit")
  BY <1>1, <1>2, StepBegins
<1>4. /\ Pki!Advance(s, o) /\ lockedBy' = lockedBy
      /\ UNCHANGED <<configured, caKey, caCert, signed, certs, revokedLog,
                     clientCert, latest, output>>
  BY <1>2 DEF Pki!CaInit, Pki!ca, Pki!profileVars, Pki!bounds
<1>5. ~caKey /\ ~caCert  BY <1>3 DEF Ready
<1>6. \A p \in Pki!Profile : certs[p] = {}
  BY <1>5 DEF PkiInv, FilesInv, FileTypes, CaBeforeCerts, CertsAreDistinct, PkiCert
<1>7. CaBeforeCerts'  BY <1>1, <1>4, <1>5 DEF PkiInv, FilesInv, CaBeforeCerts
<1>8. CertsAreDistinct' /\ Pki!LoggedIsRevoked'
  BY <1>4, <1>6 DEF PkiInv, FilesInv, CertsAreDistinct, Pki!LoggedIsRevoked
<1>9. FileTypes' /\ Pki!LatestIsSigned'
  BY <1>1, <1>4 DEF PkiInv, FilesInv, FileTypes, Pki!LatestIsSigned
<1>10. \A next \in PkiStep : MayFollow("caInit", next) => next = "caKey"
  BY DEF MayFollow
<1>11. Leaves(o, "caInit")'  BY <1>1, <1>4, <1>5, <1>10 DEF Leaves, Ready
<1>12. FilesInv'  BY <1>7, <1>8, <1>9 DEF FilesInv
<1>13. QED  BY <1>2, <1>3, <1>4, <1>11, <1>12, StepKeepsInv

\* openssl has read the database, and will find it the same when it writes.
LEMMA ReadDatabaseKeepsInv ==
    ASSUME PkiInv, Web = {}, NEW s \in Cli, Pki!ReadDatabase(s)
    PROVE  PkiInv'
<1>1. PICK step \in {"signRead", "crlRead", "revokeRead"} : Pki!At(s, step)
  BY DEF Pki!ReadDatabase
<1>2. PICK o \in PkiOperation : o = [op[s] EXCEPT !.db = index, !.next = serial]
  <2>1. [op[s] EXCEPT !.db = index, !.next = serial] \in PkiOperation
    BY <1>1, StepBegins DEF PkiInv, FilesInv, FileTypes, PkiOperation
  <2>2. QED  BY <2>1
<1>3. /\ op[s].todo # <<>> /\ step = Head(op[s].todo) /\ Ready(op[s], step)
      /\ op[s] \in PkiOperation
  BY <1>1, StepBegins
<1>4. /\ o.cmd = op[s].cmd /\ o.p = op[s].p /\ o.result = op[s].result
      /\ o.cert = op[s].cert /\ o.db = index /\ o.next = serial
  BY <1>2, <1>3 DEF PkiOperation
<1>5. /\ Pki!Advance(s, o) /\ lockedBy' = lockedBy
      /\ UNCHANGED <<configured, caKey, caCert, index, serial, signed, certs, revokedLog,
                     clientCert, latest, output>>
  BY <1>2 DEF Pki!ReadDatabase, Pki!ca, Pki!database, Pki!profileVars, Pki!bounds
<1>6. CaBeforeCerts' /\ CertsAreDistinct' /\ Pki!LoggedIsRevoked'  BY <1>5, SameCa
<1>7. FileTypes' /\ Pki!LatestIsSigned'
  BY <1>5 DEF PkiInv, FilesInv, FileTypes, Pki!LatestIsSigned
<1>8. Leaves(o, step)'
  <2>1. CASE step = "signRead"
    <3>1. \A next \in PkiStep : MayFollow(step, next) => next = "sign"
      BY <2>1 DEF MayFollow
    <3>2. caKey  BY <1>3, <2>1 DEF Ready
    <3>3. QED  BY <1>4, <1>5, <2>1, <3>1, <3>2 DEF Leaves, Ready
  <2>2. CASE step = "crlRead"
    <3>1. \A next \in PkiStep : MayFollow(step, next) => next = "crlWrite"
      BY <2>2 DEF MayFollow
    <3>2. caKey /\ (o.cmd = "revoke" => o.cert.serial \in Pki!Revoked(index)')
      BY <1>3, <1>4, <1>5, <2>2 DEF Ready, Pki!Revoked
    <3>3. QED  BY <1>4, <1>5, <2>2, <3>1, <3>2 DEF Leaves, Ready
  <2>3. CASE step = "revokeRead"
    <3>1. \A next \in PkiStep : MayFollow(step, next) => next = "revoke"
      BY <2>3 DEF MayFollow
    <3>2. o.cert \in certs[o.p]  BY <1>3, <1>4, <2>3 DEF Ready
    <3>3. QED  BY <1>4, <1>5, <2>3, <3>1, <3>2 DEF Leaves, Ready
  <2>4. QED  BY <1>1, <2>1, <2>2, <2>3
<1>9. FilesInv'  BY <1>6, <1>7 DEF FilesInv
<1>10. step # "update"  BY <1>1
<1>11. QED  BY <1>3, <1>4, <1>5, <1>8, <1>9, <1>10, StepKeepsInv

\* _issue_cert: the serial is the one that was read, and it is still the next one.
LEMMA SignKeepsInv ==
    ASSUME PkiInv, Web = {}, NEW s \in Cli, Pki!Sign(s)
    PROVE  PkiInv'
<1>. DEFINE new == [id |-> signed + 1, serial |-> op[s].next]
<1>1. Pki!At(s, "sign")  BY DEF Pki!Sign
<1>2. /\ op[s].todo # <<>> /\ "sign" = Head(op[s].todo) /\ Ready(op[s], "sign")
      /\ op[s] \in PkiOperation /\ op[s].p \in Pki!Profile
  BY <1>1, StepBegins
<1>3. caKey /\ op[s].db = index /\ op[s].next = serial  BY <1>2 DEF Ready
<1>4. /\ index \in SUBSET PkiEntry /\ serial \in Nat /\ signed \in Nat
      /\ certs \in [Pki!Profile -> SUBSET PkiCert] /\ latest \in [Pki!Profile -> PkiCert]
  BY DEF PkiInv, FilesInv, FileTypes
<1>5. PICK cert \in PkiCert : cert = new
  <2>1. new \in PkiCert  BY <1>3, <1>4 DEF PkiCert
  <2>2. QED  BY <2>1
<1>6. PICK o \in PkiOperation : o = [op[s] EXCEPT !.cert = cert]
  <2>1. [op[s] EXCEPT !.cert = cert] \in PkiOperation  BY <1>2, <1>5 DEF PkiOperation
  <2>2. QED  BY <2>1
<1>7. /\ o.cmd = op[s].cmd /\ o.p = op[s].p /\ o.result = op[s].result /\ o.cert = cert
  BY <1>2, <1>6 DEF PkiOperation
<1>8. cert.id = signed + 1 /\ cert.serial = serial  BY <1>3, <1>5
<1>9. /\ signed' = signed + 1 /\ certs' = [certs EXCEPT ![o.p] = @ \cup {cert}]
      /\ index' = index \cup {[serial |-> cert.serial, revoked |-> FALSE]}
      /\ serial' = serial + 1
      /\ Pki!Advance(s, o)
  BY <1>3, <1>5, <1>6, <1>7, <1>8 DEF Pki!Sign
<1>10. UNCHANGED <<configured, caKey, caCert, revokedLog, lockedBy, clientCert, latest, output>>
  BY DEF Pki!Sign, Pki!ca
<1>11. o.p \in Pki!Profile  BY <1>2, <1>7
<1>12. /\ \A p \in Pki!Profile : certs'[p] = certs[p] \/ certs'[p] = certs[p] \cup {cert}
       /\ cert \in certs'[o.p]
  BY <1>4, <1>9, <1>11
<1>13. CaBeforeCerts'  BY <1>3, <1>4, <1>9, <1>10 DEF PkiInv, FilesInv, CaBeforeCerts
<1>14. \A p \in Pki!Profile : \A c \in certs[p] :
          c \in PkiCert /\ c.id >= 1 /\ c.id <= signed /\ c.serial >= 1 /\ c.serial < serial
  BY <1>4 DEF PkiInv, FilesInv, CertsAreDistinct
<1>15. CertsAreDistinct'
  <2>1. serial >= 1  BY <1>3 DEF PkiInv, FilesInv, CaBeforeCerts
  <2>2. ASSUME NEW p \in Pki!Profile, NEW c \in certs'[p]
        PROVE  c.id >= 1 /\ c.id <= signed' /\ c.serial >= 1 /\ c.serial < serial'
    <3>1. CASE c = cert  BY <3>1, <1>4, <1>8, <1>9, <2>1
    <3>2. CASE c \in certs[p]
      <4>1. /\ c.id \in Nat /\ c.serial \in Nat
            /\ c.id >= 1 /\ c.id <= signed /\ c.serial >= 1 /\ c.serial < serial
        BY <3>2, <1>14 DEF PkiCert
      <4>2. QED  BY <4>1, <1>4, <1>9
    <3>3. QED  BY <3>1, <3>2, <1>12
  <2>3. ASSUME NEW p \in Pki!Profile, NEW q \in Pki!Profile,
               NEW c \in certs'[p], NEW d \in certs'[q], c.id = d.id \/ c.serial = d.serial
        PROVE  c = d
    <3>1. CASE c \in certs[p] /\ d \in certs[q]
      BY <2>3, <3>1 DEF PkiInv, FilesInv, CertsAreDistinct
    <3>2. CASE c = cert /\ d = cert  BY <3>2
    <3>3. CASE c = cert /\ d \in certs[q]
      <4>1. d.id \in Nat /\ d.serial \in Nat /\ d.id <= signed /\ d.serial < serial
        BY <3>3, <1>14 DEF PkiCert
      <4>2. QED  BY <2>3, <3>3, <4>1, <1>4, <1>8
    <3>4. CASE c \in certs[p] /\ d = cert
      <4>1. c.id \in Nat /\ c.serial \in Nat /\ c.id <= signed /\ c.serial < serial
        BY <3>4, <1>14 DEF PkiCert
      <4>2. QED  BY <2>3, <3>4, <4>1, <1>4, <1>8
    <3>5. QED  BY <3>1, <3>2, <3>3, <3>4, <1>12
  <2>4. \A id \in revokedLog' : id \in Nat /\ id <= signed'
    BY <1>4, <1>9, <1>10 DEF PkiInv, FilesInv, CertsAreDistinct
  <2>5. QED  BY <2>2, <2>3, <2>4 DEF CertsAreDistinct
<1>16. Pki!LoggedIsRevoked'
  <2>1. Pki!Revoked(index) \subseteq Pki!Revoked(index)'  BY <1>9 DEF Pki!Revoked
  <2>2. cert.id \notin revokedLog
    BY <1>4, <1>8 DEF PkiInv, FilesInv, CertsAreDistinct
  <2>3. SUFFICES ASSUME NEW p \in Pki!Profile, NEW c \in certs'[p], c.id \in revokedLog
                 PROVE  c.serial \in Pki!Revoked(index)'
    BY <1>10 DEF Pki!LoggedIsRevoked
  <2>4. c \in certs[p]  BY <1>12, <2>2, <2>3
  <2>5. QED  BY <2>1, <2>3, <2>4 DEF PkiInv, FilesInv, Pki!LoggedIsRevoked
<1>17. Pki!LatestIsSigned'
  BY <1>10, <1>12 DEF PkiInv, FilesInv, Pki!LatestIsSigned, Pki!NoCert
<1>18. FileTypes'
  <2>1. index' \in SUBSET PkiEntry
    <3>1. [serial |-> cert.serial, revoked |-> FALSE] \in PkiEntry
      BY <1>4, <1>8 DEF PkiEntry
    <3>2. QED  BY <3>1, <1>4, <1>9
  <2>2. certs' \in [Pki!Profile -> SUBSET PkiCert]  BY <1>4, <1>5, <1>9, <1>11
  <2>3. serial' \in Nat /\ signed' \in Nat  BY <1>4, <1>9
  <2>4. QED  BY <2>1, <2>2, <2>3, <1>10 DEF PkiInv, FilesInv, FileTypes
<1>19. \A next \in PkiStep : MayFollow("sign", next) => next = "unlink"
  BY DEF MayFollow
<1>20. Leaves(o, "sign")'  BY <1>7, <1>12, <1>19 DEF Leaves, Ready
<1>21. FilesInv'  BY <1>13, <1>15, <1>16, <1>17, <1>18 DEF FilesInv
<1>22. lockedBy' = lockedBy  BY <1>10
<1>23. QED  BY <1>2, <1>7, <1>9, <1>20, <1>21, <1>22, StepKeepsInv

\* _replace_latest_symlink: the link goes, and comes back to a signed certificate.
LEMMA LinkStepsKeepInv ==
    ASSUME PkiInv, Web = {}, NEW s \in Cli, Pki!Unlink(s) \/ Pki!Link(s)
    PROVE  PkiInv'
<1>1. PICK step \in {"unlink", "link"} : Pki!At(s, step)  BY DEF Pki!Unlink, Pki!Link
<1>2. PICK o \in PkiOperation : o = op[s]  BY <1>1, StepBegins
<1>3. /\ op[s].todo # <<>> /\ step = Head(op[s].todo) /\ Ready(o, step)
      /\ o.p \in Pki!Profile /\ o.cert \in PkiCert
  BY <1>1, <1>2, StepBegins
<1>4. o.cert \in certs[o.p]  BY <1>1, <1>3 DEF Ready
<1>5. /\ Pki!Advance(s, o) /\ lockedBy' = lockedBy
      /\ UNCHANGED <<configured, caKey, caCert, index, serial, signed, certs, revokedLog,
                     clientCert, output>>
  BY <1>2 DEF Pki!Unlink, Pki!Link, Pki!ca, Pki!database, Pki!bounds
<1>6. PICK cert \in {Pki!NoCert, o.cert} : latest' = [latest EXCEPT ![o.p] = cert]
  BY <1>2 DEF Pki!Unlink, Pki!Link
<1>7. CaBeforeCerts' /\ CertsAreDistinct' /\ Pki!LoggedIsRevoked'  BY <1>5, SameCa
<1>8. FileTypes'
  <2>1. Pki!NoCert \in PkiCert  BY DEF Pki!NoCert, PkiCert
  <2>2. latest' \in [Pki!Profile -> PkiCert]
    BY <2>1, <1>3, <1>6 DEF PkiInv, FilesInv, FileTypes
  <2>3. QED  BY <2>2, <1>5 DEF PkiInv, FilesInv, FileTypes
<1>9. Pki!LatestIsSigned'
  BY <1>3, <1>4, <1>5, <1>6 DEF PkiInv, FilesInv, FileTypes, Pki!LatestIsSigned, Pki!NoCert
<1>10. \A next \in PkiStep : MayFollow(step, next) => next \in {"link", "update", "render"}
  BY <1>1 DEF MayFollow
<1>11. Leaves(o, step)'  BY <1>1, <1>4, <1>5, <1>10 DEF Leaves, Ready
<1>12. FilesInv'  BY <1>7, <1>8, <1>9 DEF FilesInv
<1>13. step # "update"  BY <1>1
<1>14. QED  BY <1>2, <1>3, <1>5, <1>11, <1>12, <1>13, StepKeepsInv

\* update_server, update_client: the output has the latest certificate in it.
LEMMA RenderKeepsInv ==
    ASSUME PkiInv, Web = {}, NEW s \in Cli, Pki!Render(s)
    PROVE  PkiInv'
<1>1. Pki!At(s, "render") /\ Pki!CanRender(op[s].p)  BY DEF Pki!Render
<1>2. PICK o \in PkiOperation : o = op[s]  BY <1>1, StepBegins
<1>3. op[s].todo # <<>> /\ "render" = Head(op[s].todo) /\ o.p \in Pki!Profile
  BY <1>1, <1>2, StepBegins
<1>4. /\ Pki!Advance(s, o) /\ lockedBy' = lockedBy
      /\ output' = [output EXCEPT ![o.p] = Pki!Rendered(o.p)]
      /\ UNCHANGED <<configured, caKey, caCert, index, serial, signed, certs, revokedLog,
                     clientCert, latest>>
  BY <1>2 DEF Pki!Render, Pki!ca, Pki!database, Pki!bounds
<1>5. CaBeforeCerts' /\ CertsAreDistinct' /\ Pki!LoggedIsRevoked'  BY <1>4, SameCa
<1>6. latest \in [Pki!Profile -> PkiCert] /\ output \in [Pki!Profile -> PkiCert]
  BY DEF PkiInv, FilesInv, FileTypes
<1>7. output' \in [Pki!Profile -> PkiCert] /\ output'[o.p] = Pki!Rendered(o.p)
  BY <1>3, <1>4, <1>6 DEF Pki!Rendered, Pki!NoCert, PkiCert
<1>8. FileTypes' /\ Pki!LatestIsSigned'
  BY <1>4, <1>7 DEF PkiInv, FilesInv, FileTypes, Pki!LatestIsSigned
<1>9. \A next \in PkiStep : ~MayFollow("render", next)  BY DEF MayFollow
<1>10. Pki!UsesCert(o.p)' => output'[o.p] = latest'[o.p] /\ output'[o.p] # Pki!NoCert
  BY <1>1, <1>2, <1>4, <1>7 DEF Pki!Rendered, Pki!CanRender, Pki!UsesCert
<1>11. Leaves(o, "render")'  BY <1>9, <1>10 DEF Leaves, Pki!NoCert
<1>12. FilesInv'  BY <1>5, <1>8 DEF FilesInv
<1>13. QED  BY <1>2, <1>3, <1>4, <1>11, <1>12, StepKeepsInv

\* revoke_profile_cert: first openssl's database, then the list of revoked ids.
LEMMA RevokeKeepsInv ==
    ASSUME PkiInv, Web = {}, NEW s \in Cli, Pki!Revoke(s)
    PROVE  PkiInv'
<1>1. Pki!At(s, "revoke")  BY DEF Pki!Revoke
<1>2. PICK o \in PkiOperation : o = op[s]  BY <1>1, StepBegins
<1>3. /\ op[s].todo # <<>> /\ "revoke" = Head(op[s].todo) /\ Ready(o, "revoke")
      /\ o.cert \in PkiCert
  BY <1>1, <1>2, StepBegins
<1>4. o.db = index /\ o.cert \in certs[o.p]  BY <1>3 DEF Ready
<1>5. /\ Pki!Advance(s, o) /\ lockedBy' = lockedBy
      /\ index' = {r \in index : r.serial # o.cert.serial}
                      \cup {[serial |-> o.cert.serial, revoked |-> TRUE]}
      /\ UNCHANGED <<configured, caKey, caCert, serial, signed, certs, revokedLog,
                     clientCert, latest, output>>
  BY <1>2, <1>4 DEF Pki!Revoke, Pki!ca, Pki!profileVars, Pki!bounds
<1>6. /\ Pki!Revoked(index) \subseteq Pki!Revoked(index)'
      /\ o.cert.serial \in Pki!Revoked(index)'
  <2>1. [serial |-> o.cert.serial, revoked |-> TRUE] \in index'  BY <1>5
  <2>2. o.cert.serial \in Pki!Revoked(index)'  BY <2>1 DEF Pki!Revoked
  <2>3. ASSUME NEW r \in index, r.revoked, r.serial # o.cert.serial
        PROVE  r.serial \in Pki!Revoked(index)'
    BY <2>3, <1>5 DEF Pki!Revoked
  <2>4. QED  BY <2>2, <2>3 DEF Pki!Revoked
<1>7. CaBeforeCerts' /\ CertsAreDistinct'
  BY <1>5 DEF PkiInv, FilesInv, CaBeforeCerts, CertsAreDistinct
<1>8. Pki!LoggedIsRevoked'  BY <1>5, <1>6 DEF PkiInv, FilesInv, Pki!LoggedIsRevoked
<1>9. FileTypes' /\ Pki!LatestIsSigned'
  <2>1. [serial |-> o.cert.serial, revoked |-> TRUE] \in PkiEntry
    BY <1>3 DEF PkiCert, PkiEntry
  <2>2. index' \in SUBSET PkiEntry  BY <2>1, <1>5 DEF PkiInv, FilesInv, FileTypes
  <2>3. QED  BY <2>2, <1>5 DEF PkiInv, FilesInv, FileTypes, Pki!LatestIsSigned
<1>10. \A next \in PkiStep : MayFollow("revoke", next) => next = "log"
  BY DEF MayFollow
<1>11. Leaves(o, "revoke")'  BY <1>4, <1>5, <1>6, <1>10 DEF Leaves, Ready
<1>12. FilesInv'  BY <1>7, <1>8, <1>9 DEF FilesInv
<1>13. QED  BY <1>2, <1>3, <1>5, <1>11, <1>12, StepKeepsInv

\* _record_revocation: openssl knows by now.
LEMMA LogKeepsInv ==
    ASSUME PkiInv, Web = {}, NEW s \in Cli, Pki!Log(s)
    PROVE  PkiInv'
<1>1. Pki!At(s, "log")  BY DEF Pki!Log
<1>2. PICK o \in PkiOperation : o = op[s]  BY <1>1, StepBegins
<1>3. /\ op[s].todo # <<>> /\ "log" = Head(op[s].todo) /\ Ready(o, "log")
      /\ o.p \in Pki!Profile /\ o.cert \in PkiCert
  BY <1>1, <1>2, StepBegins
<1>4. o.cert \in certs[o.p] /\ o.cert.serial \in Pki!Revoked(index)  BY <1>3 DEF Ready
<1>5. /\ Pki!Advance(s, o) /\ lockedBy' = lockedBy
      /\ revokedLog' = revokedLog \cup {o.cert.id}
      /\ UNCHANGED <<configured, caKey, caCert, index, serial, signed, certs,
                     clientCert, latest, output>>
  BY <1>2 DEF Pki!Log, Pki!ca, Pki!database, Pki!profileVars, Pki!bounds
<1>6. o.cert.id >= 1 /\ o.cert.id <= signed /\ o.cert.id \in Nat
  BY <1>3, <1>4 DEF PkiInv, FilesInv, CertsAreDistinct, PkiCert
<1>7. caKey
  BY <1>6 DEF PkiInv, FilesInv, FileTypes, CaBeforeCerts
<1>8. CaBeforeCerts'  BY <1>5 DEF PkiInv, FilesInv, CaBeforeCerts
<1>9. CertsAreDistinct'  BY <1>5, <1>6 DEF PkiInv, FilesInv, CertsAreDistinct
<1>10. Pki!LoggedIsRevoked'
  <2>1. SUFFICES ASSUME NEW p \in Pki!Profile, NEW c \in certs[p],
                        c.id \in revokedLog \/ c.id = o.cert.id
                 PROVE  c.serial \in Pki!Revoked(index)
    BY <1>5 DEF Pki!LoggedIsRevoked, Pki!Revoked
  <2>2. CASE c.id = o.cert.id
    <3>1. c = o.cert  BY <2>2, <1>3, <1>4 DEF PkiInv, FilesInv, CertsAreDistinct
    <3>2. QED  BY <3>1, <1>4
  <2>3. CASE c.id \in revokedLog  BY <2>3 DEF PkiInv, FilesInv, Pki!LoggedIsRevoked
  <2>4. QED  BY <2>1, <2>2, <2>3
<1>11. FileTypes' /\ Pki!LatestIsSigned'
  BY <1>5 DEF PkiInv, FilesInv, FileTypes, Pki!LatestIsSigned
<1>12. \A next \in PkiStep : MayFollow("log", next) => next = "crlRead"
  BY DEF MayFollow
<1>13. o.cert.serial \in Pki!Revoked(index)'  BY <1>4, <1>5 DEF Pki!Revoked
<1>14. Leaves(o, "log")'  BY <1>5, <1>7, <1>12, <1>13 DEF Leaves, Ready
<1>15. FilesInv'  BY <1>8, <1>9, <1>10, <1>11 DEF FilesInv
<1>16. QED  BY <1>2, <1>3, <1>5, <1>14, <1>15, StepKeepsInv

\* openssl ca -gencrl: the CRL is made of the database as it is.
LEMMA WriteCrlKeepsInv ==
    ASSUME PkiInv, Web = {}, NEW s \in Cli, Pki!WriteCrl(s)
    PROVE  PkiInv'
<1>1. Pki!At(s, "crlWrite")  BY DEF Pki!WriteCrl
<1>2. PICK o \in PkiOperation : o = op[s]  BY <1>1, StepBegins
<1>3. op[s].todo # <<>> /\ "crlWrite" = Head(op[s].todo) /\ Ready(o, "crlWrite")
  BY <1>1, <1>2, StepBegins
<1>4. /\ caKey /\ o.db = index
      /\ o.cmd = "revoke" => o.cert.serial \in Pki!Revoked(index)
  BY <1>3 DEF Ready
<1>5. /\ Pki!Advance(s, o) /\ lockedBy' = lockedBy /\ crl' = Pki!Revoked(index)
      /\ UNCHANGED <<configured, caKey, caCert, index, serial, signed, certs, revokedLog,
                     clientCert, latest, output>>
  BY <1>2, <1>4 DEF Pki!WriteCrl, Pki!ca, Pki!database, Pki!profileVars, Pki!bounds
<1>6. CaBeforeCerts' /\ CertsAreDistinct' /\ Pki!LoggedIsRevoked'  BY <1>5, SameCa
<1>7. FileTypes' /\ Pki!LatestIsSigned'
  BY <1>5 DEF PkiInv, FilesInv, FileTypes, Pki!LatestIsSigned
<1>8. \A next \in PkiStep : MayFollow("crlWrite", next) => next \in {"signRead", "crlRead"}
  BY DEF MayFollow
<1>9. Pki!Revoked(index)' = Pki!Revoked(index)  BY <1>5 DEF Pki!Revoked
<1>10. Leaves(o, "crlWrite")'  BY <1>4, <1>5, <1>8, <1>9 DEF Leaves, Ready
<1>11. FilesInv'  BY <1>6, <1>7 DEF FilesInv
<1>12. QED  BY <1>2, <1>3, <1>5, <1>10, <1>11, StepKeepsInv

-----------------------------------------------------------------------------
(* The steps that make a list, and those that end a command.               *)

\* The list of every command is in order, and starts with a step that needs nothing or
\* with one that a revocation can start with (Steps, RevokeSteps of OvpnPki).
LEMMA IssueInOrder ==
    /\ Pki!Issue \in Seq(PkiStep) /\ InOrder(Pki!Issue) /\ Pki!Issue # <<>>
    /\ Pki!Issue[1] = "ensureCa" /\ Pki!Issue[Len(Pki!Issue)] = "link"
  BY DEF Pki!Issue, PkiStep, InOrder, MayFollow

LEMMA OneStepInOrder ==
    ASSUME NEW step \in PkiStep
    PROVE  /\ <<step>> \in Seq(PkiStep) /\ InOrder(<<step>>) /\ <<step>> # <<>>
           /\ Head(<<step>>) = step /\ <<step>>[1] = step /\ <<step>>[Len(<<step>>)] = step
  BY DEF InOrder

LEMMA ShortListsInOrder ==
    /\ LET todo == <<"config", "ensureCa">> IN
       todo \in Seq(PkiStep) /\ InOrder(todo) /\ todo # <<>> /\ Head(todo) = "config"
    /\ LET todo == <<"ensureCa", "crlRead", "crlWrite">> IN
       /\ todo \in Seq(PkiStep) /\ InOrder(todo) /\ todo # <<>>
       /\ Head(todo) = "ensureCa" /\ todo[Len(todo)] = "crlWrite"
  BY DEF PkiStep, InOrder, MayFollow

LEMMA RevokeInOrder ==
    ASSUME NEW cert
    PROVE  LET todo == Pki!RevokeSteps(cert) IN
           /\ todo \in Seq(PkiStep) /\ InOrder(todo) /\ todo # <<>>
           /\ todo[Len(todo)] = "crlWrite" /\ OnlyRevokes("revoke", todo)
           /\ Head(todo) = IF cert.id \in revokedLog THEN "crlRead" ELSE "revokeRead"
<1>. DEFINE Only == {"revokeRead", "revoke", "log", "crlRead", "crlWrite"}
            crlSteps == <<"crlRead", "crlWrite">>
            first == <<"revokeRead", "revoke", "log">>
<1>1. /\ crlSteps \in Seq(Only) /\ crlSteps \in Seq(PkiStep) /\ InOrder(crlSteps)
      /\ crlSteps[1] = "crlRead" /\ crlSteps[Len(crlSteps)] = "crlWrite"
      /\ Head(crlSteps) = "crlRead" /\ crlSteps # <<>>
  BY DEF PkiStep, InOrder, MayFollow
<1>2. /\ first \in Seq(Only) /\ first \in Seq(PkiStep) /\ InOrder(first) /\ first # <<>>
      /\ first[1] = "revokeRead" /\ first[Len(first)] = "log"
  BY DEF PkiStep, InOrder, MayFollow
<1>3. MayFollow("log", "crlRead")  BY DEF MayFollow
<1>4. CASE cert.id \in revokedLog
  <2>1. PICK todo \in Seq(Only) : todo = Pki!RevokeSteps(cert) /\ todo = crlSteps
    <3>1. Pki!RevokeSteps(cert) = crlSteps  BY <1>4, <1>1 DEF Pki!RevokeSteps
    <3>2. QED  BY <3>1, <1>1
  <2>2. OnlyRevokes("revoke", todo)  BY <2>1 DEF OnlyRevokes
  <2>3. QED  BY <1>1, <1>4, <2>1, <2>2
<1>5. CASE cert.id \notin revokedLog
  <2>1. PICK todo \in Seq(Only) : todo = Pki!RevokeSteps(cert) /\ todo = first \o crlSteps
    <3>1. Pki!RevokeSteps(cert) = first \o crlSteps  BY <1>5 DEF Pki!RevokeSteps
    <3>2. first \o crlSteps \in Seq(Only)  BY <1>1, <1>2
    <3>3. QED  BY <3>1, <3>2
  <2>2. OnlyRevokes("revoke", todo)  BY <2>1 DEF OnlyRevokes
  <2>3. PICK a \in Seq(PkiStep), b \in Seq(PkiStep) : a = first /\ b = crlSteps
    BY <1>1, <1>2
  <2>4. /\ InOrder(a) /\ InOrder(b) /\ a # <<>> /\ b # <<>> /\ b[Len(b)] = "crlWrite"
        /\ a[1] = "revokeRead" /\ MayFollow(a[Len(a)], b[1])
    BY <1>1, <1>2, <1>3, <2>3
  <2>5. /\ a \o b \in Seq(PkiStep) /\ InOrder(a \o b) /\ a \o b # <<>>
        /\ Head(a \o b) = a[1] /\ (a \o b)[Len(a \o b)] = b[Len(b)]
    BY <2>4, JoinInOrder
  <2>6. todo = a \o b  BY <2>1, <2>3
  <2>7. QED  BY <1>5, <2>1, <2>2, <2>4, <2>5, <2>6
<1>6. QED  BY <1>4, <1>5

LEMMA IssueThen ==
    ASSUME NEW step \in {"update", "render"}
    PROVE  LET todo == Pki!Issue \o <<step>> IN
           /\ todo \in Seq(PkiStep) /\ InOrder(todo) /\ todo # <<>>
           /\ Head(todo) = "ensureCa" /\ todo[Len(todo)] = step
<1>1. PICK a \in Seq(PkiStep), b \in Seq(PkiStep) :
         /\ a = Pki!Issue /\ b = <<step>>
         /\ InOrder(a) /\ InOrder(b) /\ a # <<>> /\ b # <<>>
         /\ a[1] = "ensureCa" /\ a[Len(a)] = "link" /\ b[1] = step /\ b[Len(b)] = step
  <2>1. step \in PkiStep  BY DEF PkiStep
  <2>2. QED  BY <2>1, IssueInOrder, OneStepInOrder
<1>2. MayFollow(a[Len(a)], b[1])  BY <1>1 DEF MayFollow
<1>3. /\ a \o b \in Seq(PkiStep) /\ InOrder(a \o b) /\ a \o b # <<>>
      /\ Head(a \o b) = a[1] /\ (a \o b)[Len(a \o b)] = b[Len(b)]
  BY <1>1, <1>2, JoinInOrder
<1>4. QED  BY <1>1, <1>3

LEMMA CommandsInOrder ==
    ASSUME Web = {}, NEW s \in Cli, NEW cmd \in PkiCommand \ {"none"}, NEW p, NEW cert
    PROVE  LET todo == Pki!Steps(s, cmd, p, cert) IN
           /\ todo \in Seq(PkiStep) /\ InOrder(todo) /\ todo # <<>>
           /\ EndsRight(cmd, todo) /\ OnlyRevokes(cmd, todo)
           /\ cmd # "revoke" => Head(todo) \in {"config", "create", "update", "ensureCa"}
           /\ cmd = "revoke" =>
                 Head(todo) = IF cert.id \in revokedLog THEN "crlRead" ELSE "revokeRead"
<1>. DEFINE todo == Pki!Steps(s, cmd, p, cert)
<1>. USE DEF EndsRight, OnlyRevokes
<1>1. CASE cmd = "init"
  <2>1. todo = <<"config", "ensureCa">>  BY <1>1 DEF Pki!Steps
  <2>2. QED  BY <1>1, <2>1, ShortListsInOrder
<1>2. CASE cmd = "create"
  <2>1. todo = <<"create">>  BY <1>2 DEF Pki!Steps
  <2>2. "create" \in PkiStep  BY DEF PkiStep
  <2>3. /\ todo \in Seq(PkiStep) /\ InOrder(todo) /\ todo # <<>> /\ Head(todo) = "create"
    BY <2>1, <2>2, OneStepInOrder
  <2>4. QED  BY <1>2, <2>3
<1>3. CASE cmd = "update"
  <2>1. todo = <<"update">>  BY <1>3 DEF Pki!Steps
  <2>2. "update" \in PkiStep  BY DEF PkiStep
  <2>3. /\ todo \in Seq(PkiStep) /\ InOrder(todo) /\ todo # <<>> /\ Head(todo) = "update"
        /\ todo[Len(todo)] = "update"
    BY <2>1, <2>2, OneStepInOrder
  <2>4. QED  BY <1>3, <2>3
<1>4. CASE cmd = "renew"
  <2>1. todo = Pki!Issue \o <<"update">>  BY <1>4 DEF Pki!Steps
  <2>2. "update" \in PkiStep  BY DEF PkiStep
  <2>3. QED  BY <1>4, <2>1, <2>2, IssueThen
<1>5. CASE cmd = "revoke"
  <2>1. todo = Pki!RevokeSteps(cert)  BY <1>5 DEF Pki!Steps
  <2>2. QED  BY <1>5, <2>1, RevokeInOrder
<1>6. CASE cmd = "crl"
  <2>1. todo = <<"ensureCa", "crlRead", "crlWrite">>  BY <1>6 DEF Pki!Steps
  <2>2. QED  BY <1>6, <2>1, ShortListsInOrder
<1>7. QED  BY <1>1, <1>2, <1>3, <1>4, <1>5, <1>6 DEF PkiCommand

\* A session that changes nothing but its own operation keeps the invariant when the new
\* list is in order, what comes first is ready, and the command is not done.
LEMMA NewOperationKeepsInv ==
    ASSUME PkiInv, Web = {}, NEW s \in Cli, NEW o \in PkiOperation,
           op' = [op EXCEPT ![s] = o], \A r \in Cli \ {s} : op[r] = Pki!Resting,
           IF lockedBy' = s THEN o.cmd # "none"
                            ELSE o = Pki!Resting /\ \A r \in Cli : lockedBy' # r,
           InOrder(o.todo), EndsRight(o.cmd, o.todo), OnlyRevokes(o.cmd, o.todo),
           o.todo # <<>> => Ready(o, Head(o.todo)),
           o.todo # <<>> \/ o.result = "failed" \/ o.cmd \notin {"revoke", "crl", "update", "renew"},
           UNCHANGED <<caKey, caCert, index, serial, clientCert, certs, latest, output,
                       revokedLog, signed, configured>>
    PROVE  PkiInv'
<1>1. op \in [Cli -> PkiOperation]  BY DEF PkiInv
<1>2. op' \in [Cli -> PkiOperation] /\ op'[s] = o /\ \A r \in Cli \ {s} : op'[r] = Pki!Resting
  BY <1>1
<1>3. \A r \in Cli \ {s} : op'[r].todo = <<>> /\ op'[r].cmd = "none"
  BY <1>2 DEF Pki!Resting
<1>4. OneSession'  BY <1>2 DEF OneSession
<1>5. ListsInOrder'
  <2>1. InOrder(<<>>) /\ EndsRight("none", <<>>) /\ OnlyRevokes("none", <<>>)
    BY DEF InOrder, EndsRight, OnlyRevokes
  <2>2. SUFFICES ASSUME NEW r \in Cli
                 PROVE  /\ InOrder(op'[r].todo)
                        /\ EndsRight(op'[r].cmd, op'[r].todo)
                        /\ OnlyRevokes(op'[r].cmd, op'[r].todo)
    BY DEF ListsInOrder, InOrder, EndsRight, OnlyRevokes
  <2>3. QED  BY <1>2, <1>3, <2>1
<1>6. NextIsReady'
  <2>1. SUFFICES ASSUME NEW r \in Cli, op'[r].todo # <<>>
                 PROVE  Ready(op[r], Head(op[r].todo))'
    BY DEF NextIsReady
  <2>2. r = s  BY <1>3, <2>1
  <2>3. PICK next : next = Head(o.todo)  OBVIOUS
  <2>4. Ready(o, next)  BY <1>2, <2>1, <2>2, <2>3
  <2>5. Ready(o, next)'  BY <2>4 DEF Ready, Pki!Revoked
  <2>6. QED  BY <1>2, <2>2, <2>3, <2>5 DEF Ready
<1>7. \A r \in Cli : ~(op'[r].cmd \in {"revoke", "crl", "update", "renew"} /\ op'[r].todo = <<>>
                       /\ op'[r].result = "none")
  BY <1>2, <1>3
<1>8. Pki!CrlIsComplete' /\ Pki!OutputIsLatest'
  BY <1>7 DEF Pki!CrlIsComplete, Pki!OutputIsLatest, Pki!Done, Pki!Session
<1>9. CaBeforeCerts' /\ CertsAreDistinct' /\ Pki!LoggedIsRevoked'  BY SameCa
<1>10. FileTypes' /\ Pki!LatestIsSigned'
  BY DEF PkiInv, FilesInv, FileTypes, Pki!LatestIsSigned
<1>11. QED  BY <1>2, <1>4, <1>5, <1>6, <1>8, <1>9, <1>10 DEF PkiInv, FilesInv

\* gw ovpn: the session takes the lock, and the list of its command.
LEMMA PkiBeginKeepsInv ==
    ASSUME PkiInv, Web = {}, NEW s \in Cli, Pki!Begin(s)
    PROVE  PkiInv'
<1>1. /\ lockedBy = Pki!NoSession /\ lockedBy' = s /\ op[s].cmd = "none"
      /\ UNCHANGED <<caKey, caCert, index, serial, clientCert, certs, latest, output,
                     revokedLog, signed, configured>>
  BY DEF Pki!Begin, Pki!ca, Pki!database, Pki!profileVars
<1>2. \A r \in Cli : op[r] = Pki!Resting
  BY <1>1, SessionsAssumption DEF PkiInv, OneSession
<1>. DEFINE New(cmd, p, cert) ==
              [Pki!Resting EXCEPT !.cmd = cmd, !.p = p, !.cert = cert,
                                  !.todo = Pki!Steps(s, cmd, p, cert)]
<1>3. PICK cmd \in PkiCommand \ {"none"}, p \in Pki!Profile :
         \E cert \in certs[p] \cup {Pki!NoCert} :
            Pki!Accepted(cmd, p, cert) /\ op' = [op EXCEPT ![s] = New(cmd, p, cert)]
  BY DEF Pki!Begin, Pki!Start, PkiCommand
<1>4. PICK cert \in certs[p] \cup {Pki!NoCert} :
         Pki!Accepted(cmd, p, cert) /\ op' = [op EXCEPT ![s] = New(cmd, p, cert)]
  BY <1>3
<1>5. PICK todo \in Seq(PkiStep) :
         /\ todo = Pki!Steps(s, cmd, p, cert) /\ InOrder(todo) /\ todo # <<>>
         /\ EndsRight(cmd, todo) /\ OnlyRevokes(cmd, todo)
         /\ cmd # "revoke" => Head(todo) \in {"config", "create", "update", "ensureCa"}
         /\ cmd = "revoke" =>
               Head(todo) = IF cert.id \in revokedLog THEN "crlRead" ELSE "revokeRead"
  BY CommandsInOrder
<1>6. PICK o \in PkiOperation :
         /\ op' = [op EXCEPT ![s] = o]
         /\ o.cmd = cmd /\ o.p = p /\ o.cert = cert /\ o.todo = todo
  <2>1. certs[p] \subseteq PkiCert  BY DEF PkiInv, FilesInv, FileTypes
  <2>2. cert \in PkiCert  BY <2>1 DEF Pki!NoCert, PkiCert
  <2>3. [Pki!Resting EXCEPT !.cmd = cmd, !.p = p, !.cert = cert, !.todo = todo] \in PkiOperation
    BY <2>2 DEF Pki!Resting, PkiOperation, PkiCommand
  <2>4. QED  BY <1>4, <1>5, <2>3 DEF Pki!Resting
<1>7. Ready(o, Head(o.todo))
  <2>1. CASE cmd # "revoke"
    <3>1. Head(o.todo) \in {"config", "create", "update", "ensureCa"}  BY <2>1, <1>5, <1>6
    <3>2. QED  BY <3>1 DEF Ready
  <2>2. CASE cmd = "revoke"
    <3>1. cert \in certs[p]  BY <1>4, <2>2 DEF Pki!Accepted
    <3>2. cert \in PkiCert  BY <3>1 DEF PkiInv, FilesInv, FileTypes
    <3>3. caKey
      BY <3>1, <3>2 DEF PkiInv, FilesInv, FileTypes, CaBeforeCerts, CertsAreDistinct, PkiCert
    <3>4. CASE cert.id \in revokedLog
      <4>1. cert.serial \in Pki!Revoked(index)
        BY <3>1, <3>4 DEF PkiInv, FilesInv, Pki!LoggedIsRevoked
      <4>2. Head(o.todo) = "crlRead"  BY <1>5, <1>6, <2>2, <3>4
      <4>3. QED  BY <4>1, <4>2, <3>3, <1>6 DEF Ready
    <3>5. CASE cert.id \notin revokedLog
      <4>1. Head(o.todo) = "revokeRead"  BY <1>5, <1>6, <2>2, <3>5
      <4>2. QED  BY <4>1, <3>1, <1>6 DEF Ready
    <3>6. QED  BY <3>4, <3>5
  <2>3. QED  BY <2>1, <2>2
<1>8. o.cmd # "none"  BY <1>6
<1>9. QED  BY <1>1, <1>2, <1>5, <1>6, <1>7, <1>8, NewOperationKeepsInv

\* The session that is at work has the lock, and the others rest.
LEMMA WorkerHasLock ==
    ASSUME PkiInv, NEW s \in Cli, op[s].cmd # "none" \/ op[s].todo # <<>>
    PROVE  /\ lockedBy = s /\ op[s].cmd # "none"
           /\ \A r \in Cli \ {s} : op[r] = Pki!Resting
           /\ op[s] \in PkiOperation
<1>1. op[s] # Pki!Resting  BY DEF Pki!Resting
<1>2. QED  BY <1>1 DEF PkiInv, OneSession

\* A command that fails or is killed leaves the files as they are; one that ends gives
\* the lock back.
LEMMA FailKeepsInv ==
    ASSUME PkiInv, Web = {}, NEW s \in Cli, Pki!Fail(s)
    PROVE  PkiInv'
<1>1. op[s].todo # <<>>  BY DEF Pki!Fail
<1>2. /\ lockedBy = s /\ op[s].cmd # "none"
      /\ \A r \in Cli \ {s} : op[r] = Pki!Resting
      /\ op[s] \in PkiOperation
  BY <1>1, WorkerHasLock
<1>3. /\ lockedBy' = lockedBy
      /\ op' = [op EXCEPT ![s].todo = <<>>, ![s].result = "failed"]
      /\ UNCHANGED <<caKey, caCert, index, serial, clientCert, certs, latest, output,
                     revokedLog, signed, configured>>
  BY DEF Pki!Fail, Pki!ca, Pki!database, Pki!profileVars
<1>4. PICK o \in PkiOperation :
         /\ op' = [op EXCEPT ![s] = o]
         /\ o.cmd = op[s].cmd /\ o.todo = <<>> /\ o.result = "failed"
  <2>. DEFINE new == [op[s] EXCEPT !.todo = <<>>, !.result = "failed"]
  <2>1. new \in PkiOperation /\ new.cmd = op[s].cmd /\ new.todo = <<>> /\ new.result = "failed"
    <3>1. PICK before \in PkiOperation : before = op[s]  BY <1>2
    <3>2. <<>> \in Seq(PkiStep)  OBVIOUS
    <3>3. [before EXCEPT !.todo = <<>>, !.result = "failed"] \in PkiOperation
      BY <3>2 DEF PkiOperation
    <3>4. QED  BY <3>1, <3>3 DEF PkiOperation
  <2>2. op \in [Cli -> PkiOperation]  BY DEF PkiInv
  <2>3. op' = [op EXCEPT ![s] = new]  BY <1>3, <2>2
  <2>4. QED  BY <2>1, <2>3
<1>5. InOrder(o.todo) /\ EndsRight(o.cmd, o.todo) /\ OnlyRevokes(o.cmd, o.todo)
  BY <1>4 DEF InOrder, EndsRight, OnlyRevokes
<1>6. QED  BY <1>2, <1>3, <1>4, <1>5, NewOperationKeepsInv

LEMMA EndKeepsInv ==
    ASSUME PkiInv, Web = {}, NEW s \in Cli, Pki!End(s)
    PROVE  PkiInv'
<1>1. op[s].cmd # "none"  BY DEF Pki!End
<1>2. lockedBy = s /\ \A r \in Cli \ {s} : op[r] = Pki!Resting  BY <1>1, WorkerHasLock
<1>3. /\ lockedBy' = Pki!NoSession
      /\ op' = [op EXCEPT ![s] = Pki!Resting]
      /\ UNCHANGED <<caKey, caCert, index, serial, clientCert, certs, latest, output,
                     revokedLog, signed, configured>>
  BY <1>2 DEF Pki!End, Pki!ca, Pki!database, Pki!profileVars, Pki!bounds
<1>4. PICK o \in PkiOperation :
         o = Pki!Resting /\ o.cmd = "none" /\ o.todo = <<>>
  <2>1. Pki!Resting \in PkiOperation
    BY DEF Pki!Resting, PkiOperation, PkiCommand, PkiCert, Pki!NoCert, Pki!Profile
  <2>2. QED  BY <2>1 DEF Pki!Resting
<1>5. InOrder(o.todo) /\ EndsRight(o.cmd, o.todo) /\ OnlyRevokes(o.cmd, o.todo)
  BY <1>4 DEF InOrder, EndsRight, OnlyRevokes
<1>6. \A r \in Cli : lockedBy' # r  BY <1>3, SessionsAssumption
<1>7. QED  BY <1>2, <1>3, <1>4, <1>5, <1>6, NewOperationKeepsInv

\* What _ensure_ca still has to do is in order, and the command may go on after it.
LEMMA EnsureCaInOrder ==
    LET todo == Pki!EnsureCa IN
    /\ todo = <<>> => caKey /\ caCert
    /\ todo # <<>> =>
          /\ todo \in Seq(PkiStep) /\ InOrder(todo)
          /\ todo[Len(todo)] \in {"error", "crlWrite"}
          /\ todo[1] = "error" \/ (todo[1] = "caInit" /\ ~caKey /\ ~caCert)
<1>. DEFINE making == <<"caInit", "caKey", "caCert", "crlRead", "crlWrite">>
<1>1. CASE caKey /\ caCert  BY <1>1 DEF Pki!EnsureCa
<1>2. CASE ~caKey /\ ~caCert
  <2>1. Pki!EnsureCa = making  BY <1>2 DEF Pki!EnsureCa
  <2>2. /\ making \in Seq(PkiStep) /\ InOrder(making) /\ making # <<>>
        /\ making[Len(making)] = "crlWrite" /\ making[1] = "caInit"
    BY DEF PkiStep, InOrder, MayFollow
  <2>3. QED  BY <1>2, <2>1, <2>2
<1>3. CASE ~(caKey <=> caCert)
  <2>1. Pki!EnsureCa = <<"error">>  BY <1>3 DEF Pki!EnsureCa
  <2>2. "error" \in PkiStep  BY DEF PkiStep
  <2>3. QED  BY <2>1, <2>2, OneStepInOrder
<1>4. QED  BY <1>1, <1>2, <1>3

LEMMA ExpandKeepsInv ==
    ASSUME PkiInv, Web = {}, NEW s \in Cli, Pki!Expand(s)
    PROVE  PkiInv'
<1>1. /\ op[s].todo # <<>> /\ lockedBy' = lockedBy
      /\ UNCHANGED <<caKey, caCert, index, serial, clientCert, certs, latest, output,
                     revokedLog, signed, configured>>
  <2>1. op[s].todo # <<>> /\ lockedBy' = lockedBy  BY DEF Pki!Expand
  <2>2. UNCHANGED <<Pki!ca, Pki!database, Pki!profileVars, clientCert, revokedLog, Pki!bounds>>
    BY DEF Pki!Expand
  <2>3. QED  BY <2>1, <2>2 DEF Pki!ca, Pki!database, Pki!profileVars, Pki!bounds
<1>2. /\ lockedBy = s /\ op[s].cmd # "none"
      /\ \A r \in Cli \ {s} : op[r] = Pki!Resting
      /\ op[s] \in PkiOperation
  BY <1>1, WorkerHasLock
<1>3. PICK before \in PkiOperation : before = op[s]  BY <1>2
<1>4. /\ before.todo \in Seq(PkiStep) /\ before.todo # <<>> /\ InOrder(before.todo)
      /\ EndsRight(before.cmd, before.todo) /\ OnlyRevokes(before.cmd, before.todo)
      /\ before.cmd \in PkiCommand
  BY <1>1, <1>3 DEF PkiInv, ListsInOrder, PkiOperation
<1>5. ASSUME NEW todo \in Seq(PkiStep), op' = [op EXCEPT ![s].todo = todo],
             InOrder(todo), EndsRight(before.cmd, todo), OnlyRevokes(before.cmd, todo),
             todo # <<>> => \A o \in PkiOperation : o.cmd = before.cmd => Ready(o, Head(todo)),
             todo # <<>> \/ before.cmd \notin {"revoke", "crl", "update", "renew"}
      PROVE  PkiInv'
  <2>1. PICK o \in PkiOperation : o = [before EXCEPT !.todo = todo]
    <3>1. [before EXCEPT !.todo = todo] \in PkiOperation  BY <1>5 DEF PkiOperation
    <3>2. QED  BY <3>1
  <2>2. o.cmd = before.cmd /\ o.todo = todo  BY <2>1 DEF PkiOperation
  <2>3. op' = [op EXCEPT ![s] = o]
    <3>1. op \in [Cli -> PkiOperation]  BY DEF PkiInv
    <3>2. QED  BY <3>1, <1>3, <1>5, <2>1
  <2>4. QED  BY <1>1, <1>2, <1>3, <1>5, <2>2, <2>3, NewOperationKeepsInv
<1>6. CASE Pki!At(s, "ensureCa") /\ op' = [op EXCEPT ![s].todo = Pki!EnsureCa \o Tail(op[s].todo)]
  <2>1. PICK rest \in Seq(PkiStep) : rest = Tail(before.todo) /\ InOrder(rest)
    BY <1>4, TailInOrder
  <2>2. /\ Head(before.todo) = "ensureCa" /\ before.todo[1] = "ensureCa" /\ Len(before.todo) >= 1
        /\ rest # <<>> => /\ MayFollow("ensureCa", Head(rest))
                          /\ rest[Len(rest)] = before.todo[Len(before.todo)]
        /\ rest = <<>> => before.todo[Len(before.todo)] = "ensureCa"
    BY <1>3, <1>4, <1>6, <2>1, TailInOrder DEF Pki!At
  <2>3. before.cmd # "revoke"  BY <1>4, <2>2 DEF OnlyRevokes
  <2>4. op' = [op EXCEPT ![s].todo = Pki!EnsureCa \o rest]  BY <1>3, <1>6, <2>1
  <2>5. CASE Pki!EnsureCa = <<>>
    <3>1. Pki!EnsureCa \o rest = rest  BY <2>5
    <3>2. CASE rest # <<>>
      <4>1. EndsRight(before.cmd, rest)  BY <1>4, <2>2, <3>2 DEF EndsRight
      <4>2. Head(rest) \in {"signRead", "crlRead"}  BY <2>2, <3>2 DEF MayFollow
      <4>3. caKey  BY <2>5, EnsureCaInOrder
      <4>4. \A o \in PkiOperation : o.cmd = before.cmd => Ready(o, Head(rest))
        BY <2>3, <4>2, <4>3 DEF Ready
      <4>5. OnlyRevokes(before.cmd, rest)  BY <2>3 DEF OnlyRevokes
      <4>6. QED  BY <1>5, <2>1, <2>4, <3>1, <3>2, <4>1, <4>4, <4>5
    <3>3. CASE rest = <<>>
      <4>1. before.cmd \notin {"revoke", "crl", "update", "renew"}
        BY <1>4, <2>2, <3>3 DEF EndsRight
      <4>2. EndsRight(before.cmd, rest) /\ OnlyRevokes(before.cmd, rest)
        BY <2>3, <3>3 DEF EndsRight, OnlyRevokes
      <4>3. QED  BY <1>5, <2>1, <2>4, <3>1, <3>3, <4>1, <4>2
    <3>4. QED  BY <3>2, <3>3
  <2>6. CASE Pki!EnsureCa # <<>>
    <3>1. PICK a \in Seq(PkiStep) :
             /\ a = Pki!EnsureCa /\ InOrder(a) /\ a # <<>>
             /\ a[Len(a)] \in {"error", "crlWrite"}
             /\ a[1] = "error" \/ (a[1] = "caInit" /\ ~caKey /\ ~caCert)
      BY <2>6, EnsureCaInOrder
    <3>2. rest # <<>> => MayFollow(a[Len(a)], rest[1])
      BY <2>2, <3>1 DEF MayFollow
    <3>3. /\ a \o rest \in Seq(PkiStep) /\ InOrder(a \o rest) /\ a \o rest # <<>>
          /\ Head(a \o rest) = a[1]
          /\ rest # <<>> => (a \o rest)[Len(a \o rest)] = rest[Len(rest)]
      BY <2>1, <3>1, <3>2, JoinInOrder
    <3>4. EndsRight(before.cmd, a \o rest)
      <4>1. CASE rest = <<>>
        BY <1>4, <2>2, <4>1 DEF EndsRight
      <4>2. CASE rest # <<>>
        BY <1>4, <2>2, <3>3, <4>2 DEF EndsRight
      <4>3. QED  BY <4>1, <4>2
    <3>5. \A o \in PkiOperation : o.cmd = before.cmd => Ready(o, Head(a \o rest))
      BY <3>1, <3>3 DEF Ready
    <3>6. OnlyRevokes(before.cmd, a \o rest)  BY <2>3 DEF OnlyRevokes
    <3>7. QED  BY <1>5, <2>4, <3>1, <3>3, <3>4, <3>5, <3>6
  <2>7. QED  BY <2>5, <2>6
<1>7. CASE Pki!At(s, "update") /\ op' = [op EXCEPT ![s].todo = Pki!UpdateSteps(op[s].p)]
  <2>1. Head(before.todo) = "update"  BY <1>3, <1>7 DEF Pki!At
  <2>2. Tail(before.todo) = <<>> /\ before.todo[Len(before.todo)] = "update"
    BY <1>4, <2>1, TailInOrder DEF MayFollow
  <2>3. before.cmd \notin {"revoke", "crl"}  BY <1>4, <2>2 DEF EndsRight
  <2>4. PICK todo \in Seq(PkiStep) :
           /\ todo = Pki!UpdateSteps(before.p) /\ InOrder(todo) /\ todo # <<>>
           /\ Head(todo) \in {"ensureCa", "render"} /\ todo[Len(todo)] = "render"
    <3>1. CASE Pki!UsesCert(before.p) /\ latest[before.p] = Pki!NoCert
      <4>1. Pki!UpdateSteps(before.p) = Pki!Issue \o <<"render">>
        BY <3>1 DEF Pki!UpdateSteps
      <4>2. QED  BY <4>1, IssueThen
    <3>2. CASE ~(Pki!UsesCert(before.p) /\ latest[before.p] = Pki!NoCert)
      <4>1. Pki!UpdateSteps(before.p) = <<"render">>
        <5>1. <<>> \o <<"render">> = <<"render">>  OBVIOUS
        <5>2. Pki!UpdateSteps(before.p) = <<>> \o <<"render">>  BY <3>2 DEF Pki!UpdateSteps
        <5>3. QED  BY <5>1, <5>2
      <4>2. "render" \in PkiStep  BY DEF PkiStep
      <4>3. QED  BY <4>1, <4>2, OneStepInOrder
    <3>3. QED  BY <3>1, <3>2
  <2>5. EndsRight(before.cmd, todo) /\ OnlyRevokes(before.cmd, todo)
    BY <2>3, <2>4 DEF EndsRight, OnlyRevokes
  <2>6. \A o \in PkiOperation : o.cmd = before.cmd => Ready(o, Head(todo))
    BY <2>4 DEF Ready
  <2>7. QED  BY <1>3, <1>5, <1>7, <2>4, <2>5, <2>6
<1>8. QED  BY <1>6, <1>7 DEF Pki!Expand

-----------------------------------------------------------------------------
(* The invariant, and what follows from it.                                *)

LEMMA PkiInitHolds == ASSUME Web = {}, Pki!Init PROVE PkiInv
<1>. USE DEF Pki!Init
<1>1. FilesInv
  <2>1. FileTypes
    BY DEF FileTypes, PkiCert, Pki!NoCert
  <2>2. CaBeforeCerts /\ CertsAreDistinct /\ Pki!LoggedIsRevoked /\ Pki!LatestIsSigned
    BY DEF CaBeforeCerts, CertsAreDistinct, Pki!LoggedIsRevoked, Pki!LatestIsSigned
  <2>3. QED  BY <2>1, <2>2 DEF FilesInv
<1>2. Pki!Resting \in PkiOperation
  BY DEF Pki!Resting, PkiOperation, PkiCommand, PkiCert, Pki!NoCert, Pki!Profile
<1>3. op = [s \in Cli |-> Pki!Resting] /\ \A s \in Cli : op[s] = Pki!Resting
  BY DEF Pki!Session
<1>4. op \in [Cli -> PkiOperation]  BY <1>2, <1>3
<1>5. \A s \in Cli : op[s].todo = <<>> /\ op[s].cmd = "none"  BY <1>3 DEF Pki!Resting
<1>6. OneSession  BY <1>3, SessionsAssumption DEF OneSession
<1>7. ListsInOrder
  BY <1>5 DEF ListsInOrder, InOrder, EndsRight, OnlyRevokes
<1>8. NextIsReady  BY <1>5 DEF NextIsReady
<1>9. Pki!CrlIsComplete /\ Pki!OutputIsLatest
  BY <1>5 DEF Pki!CrlIsComplete, Pki!OutputIsLatest, Pki!Done, Pki!Session
<1>10. QED  BY <1>1, <1>4, <1>6, <1>7, <1>8, <1>9 DEF PkiInv

LEMMA PkiStepHolds == ASSUME Web = {}, PkiInv, Pki!Next PROVE PkiInv'
<1>1. PICK s \in Cli :
        \/ Pki!Begin(s) \/ Pki!Config(s) \/ Pki!Expand(s) \/ Pki!CaInit(s) \/ Pki!CaKey(s)
        \/ Pki!CaCert(s) \/ Pki!ReadDatabase(s) \/ Pki!Sign(s) \/ Pki!Unlink(s) \/ Pki!Link(s)
        \/ Pki!Create(s) \/ Pki!Render(s) \/ Pki!Revoke(s) \/ Pki!Log(s) \/ Pki!WriteCrl(s)
        \/ Pki!Fail(s) \/ Pki!End(s)
  BY DEF Pki!Next, Pki!Session
<1>2. QED
  BY <1>1, PkiBeginKeepsInv, ConfigAndCreateKeepInv, ExpandKeepsInv, CaInitKeepsInv,
     CaKeyKeepsInv, CaCertKeepsInv, ReadDatabaseKeepsInv, SignKeepsInv, LinkStepsKeepInv,
     RenderKeepsInv, RevokeKeepsInv, LogKeepsInv, WriteCrlKeepsInv, FailKeepsInv, EndKeepsInv

LEMMA PkiStutterHolds == ASSUME PkiInv, UNCHANGED pkiVars PROVE PkiInv'
<1>1. UNCHANGED <<configured, caKey, caCert, index, serial, crl, clientCert, certs, latest,
                  output, revokedLog, op, lockedBy, signed>>
  BY DEF pkiVars
<1>2. FilesInv'
  <2>1. CaBeforeCerts' /\ CertsAreDistinct' /\ Pki!LoggedIsRevoked'  BY <1>1, SameCa
  <2>2. FileTypes' /\ Pki!LatestIsSigned'
    BY <1>1 DEF PkiInv, FilesInv, FileTypes, Pki!LatestIsSigned
  <2>3. QED  BY <2>1, <2>2 DEF FilesInv
<1>3. OneSession' /\ ListsInOrder' /\ (op \in [Cli -> PkiOperation])'
  BY <1>1 DEF PkiInv, OneSession, ListsInOrder
<1>4. NextIsReady'  BY <1>1 DEF PkiInv, NextIsReady, Ready, Pki!Revoked
<1>5. Pki!CrlIsComplete' /\ Pki!OutputIsLatest'
  BY <1>1 DEF PkiInv, Pki!CrlIsComplete, Pki!OutputIsLatest, Pki!Done, Pki!Revoked, Pki!UsesCert
<1>6. QED  BY <1>2, <1>3, <1>4, <1>5 DEF PkiInv

\* Everything known of the PKI holds in every state of the services, when gw ovpn alone
\* works on it: one command at a time, each with its list of steps in order, and openssl
\* never writing a database that has changed since it read it.
PkiHolds == part = "pki" => PkiInv

\* The steps of the commands in ovpn.py, under the apply lock, cut anywhere, keep it.
THEOREM PkiInvariant == ASSUME Web = {} PROVE ServicesSpec => []PkiHolds
<1>1. Start => PkiHolds  BY PkiInitHolds DEF Start, PkiHolds
<1>2. ASSUME PkiHolds, [\/ OfRoutes(Next) \/ OfDocker(Docker!Next) \/ OfPki(Pki!Next)
                        \/ OfStore(Store!Next) \/ OfOrder(Order!Next)]_all
      PROVE  PkiHolds'
  <2>1. SUFFICES ASSUME part' = "pki" PROVE PkiInv'  BY DEF PkiHolds
  <2>2. CASE OfRoutes(Next)  BY <2>1, <2>2 DEF OfRoutes
  <2>3. CASE OfDocker(Docker!Next)  BY <2>1, <2>3 DEF OfDocker
  <2>4. CASE OfPki(Pki!Next)  BY <2>4, <1>2, PkiStepHolds DEF OfPki, PkiHolds
  <2>5. CASE OfStore(Store!Next)  BY <2>1, <2>5 DEF OfStore
  <2>6. CASE OfOrder(Order!Next)  BY <2>1, <2>6 DEF OfOrder
  <2>7. CASE UNCHANGED all  BY <2>1, <2>7, <1>2, PkiStutterHolds DEF all, PkiHolds
  <2>8. QED  BY <1>2, <2>2, <2>3, <2>4, <2>5, <2>6, <2>7
<1>3. QED  BY <1>1, <1>2, PTL DEF ServicesSpec

\* A certificate that is recorded as revoked is revoked in openssl's database, and a
\* revoke or crl command that ends well has everything revoked on the CRL.
THEOREM RevocationIsNotLost == ASSUME Web = {} PROVE ServicesSpec => []PkiRevokedStaysRevoked
<1>1. PkiHolds => PkiRevokedStaysRevoked
  BY DEF PkiHolds, PkiInv, FilesInv, PkiRevokedStaysRevoked
<1>2. QED  BY <1>1, PkiInvariant, PTL

\* No two certificates of an instance share a serial number.
THEOREM SerialsAreUnique == ASSUME Web = {} PROVE ServicesSpec => []PkiSerialsUnique
<1>1. PkiHolds => PkiSerialsUnique
  BY DEF PkiHolds, PkiInv, FilesInv, CertsAreDistinct, PkiSerialsUnique, Pki!SerialsUnique
<1>2. QED  BY <1>1, PkiInvariant, PTL

\* latest names a signed certificate or nothing, and after an update or a renewal that
\* ends well the output has that certificate.
THEOREM LatestReachesOutput == ASSUME Web = {} PROVE ServicesSpec => []PkiLatestIsUsed
<1>1. PkiHolds => PkiLatestIsUsed
  BY DEF PkiHolds, PkiInv, FilesInv, PkiLatestIsUsed
<1>2. QED  BY <1>1, PkiInvariant, PTL

-----------------------------------------------------------------------------
(* The types of the PKI's variables.                                       *)

\* What has been given out bounds what is in the files.
PkiBounded ==
    /\ serial <= signed + 1 /\ signed <= MaxCerts
    /\ \A e \in index : 1 <= e.serial /\ e.serial <= signed
    /\ crl \subseteq 0..signed /\ revokedLog \subseteq 1..signed
    /\ profiles \subseteq Pki!Profile
    /\ \A p \in Pki!Profile : output[p] \in Pki!Cert
    /\ lockedBy \in Cli \cup {Pki!NoSession}
    /\ ops \in 0..MaxOps /\ cuts \in 0..MaxCuts

\* Certificates have the ids and serials there can be.
LEMMA PkiCertsTyped ==
    ASSUME FilesInv, PkiBounded
    PROVE  \A p \in Pki!Profile : certs[p] \subseteq Pki!Cert /\ latest[p] \in Pki!Cert
<1>1. MaxCerts \in Nat  BY BoundsAssumption
<1>2. signed \in Nat /\ serial \in Nat /\ certs \in [Pki!Profile -> SUBSET PkiCert]
  BY DEF FilesInv, FileTypes
<1>3. ASSUME NEW p \in Pki!Profile, NEW c \in certs[p] PROVE c \in Pki!Cert
  <2>1. c \in PkiCert  BY <1>2
  <2>2. c.id >= 1 /\ c.id <= signed /\ c.serial >= 1 /\ c.serial < serial
    BY DEF FilesInv, CertsAreDistinct
  <2>3. c.id \in 1..MaxCerts /\ c.serial \in 1..MaxCerts
    BY <1>1, <1>2, <2>1, <2>2 DEF PkiCert, PkiBounded
  <2>4. QED  BY <2>1, <2>3 DEF PkiCert, Pki!Cert
<1>4. \A p \in Pki!Profile : latest[p] \in certs[p] \cup {Pki!NoCert}
  BY DEF FilesInv, Pki!LatestIsSigned
<1>5. QED  BY <1>3, <1>4 DEF Pki!Cert

\* The revoked entries of a database have serials that were given out.
LEMMA RevokedIsBounded ==
    ASSUME NEW db \in SUBSET PkiEntry, NEW n \in Nat,
           \A e \in db : 1 <= e.serial /\ e.serial <= n
    PROVE  Pki!Revoked(db) \subseteq 0..n
<1>1. \A e \in db : e.serial \in 0..n  BY DEF PkiEntry
<1>2. QED  BY <1>1 DEF Pki!Revoked

\* The PKI's types follow from what is bounded.
LEMMA PkiTyped == ASSUME PkiInv, PkiBounded PROVE Pki!TypeOK
<1>1. MaxCerts \in Nat  BY BoundsAssumption
<1>2. FilesInv /\ FileTypes  BY DEF PkiInv, FilesInv
<1>3. \A p \in Pki!Profile : certs[p] \subseteq Pki!Cert /\ latest[p] \in Pki!Cert
  BY <1>2, PkiCertsTyped
<1>4. index \subseteq [serial : 1..MaxCerts, revoked : BOOLEAN]
  <2>1. SUFFICES ASSUME NEW e \in index
                 PROVE  e \in [serial : 1..MaxCerts, revoked : BOOLEAN]
    OBVIOUS
  <2>2. e \in PkiEntry /\ signed \in Nat  BY <1>2 DEF FileTypes
  <2>3. e.serial \in 1..MaxCerts  BY <1>1, <2>2 DEF PkiBounded, PkiEntry
  <2>4. QED  BY <2>2, <2>3 DEF PkiEntry
<1>5. signed \in 0..MaxCerts /\ serial \in 0..MaxCerts + 1
  BY <1>1, <1>2 DEF FileTypes, PkiBounded
<1>6. crl \subseteq 0..MaxCerts /\ revokedLog \subseteq 1..MaxCerts
  <2>1. \A n \in 0..signed : n \in 0..MaxCerts  BY <1>1, <1>5
  <2>2. \A n \in 1..signed : n \in 1..MaxCerts  BY <1>1, <1>5
  <2>3. QED  BY <2>1, <2>2 DEF PkiBounded
<1>7. QED
  BY <1>2, <1>3, <1>4, <1>5, <1>6 DEF Pki!TypeOK, FileTypes, PkiBounded

\* Nothing has been given out before the first certificate.
LEMMA PkiBoundsInit == ASSUME Pki!Init PROVE PkiBounded
<1>1. {MaxOps, MaxCerts, MaxCuts} \subseteq Nat  BY BoundsAssumption
<1>2. \A p \in Pki!Profile : output[p] = Pki!NoCert  BY DEF Pki!Init
<1>3. QED
  BY <1>1, <1>2 DEF Pki!Init, PkiBounded, Pki!Cert, Pki!Absent

\* Whatever leaves the counts, the database and what is made of it alone.
PkiRecords == <<serial, signed, index, crl, revokedLog, profiles, output>>

\* A step that leaves the records alone keeps their bounds.
LEMMA PkiSameRecords ==
    ASSUME PkiBounded, UNCHANGED PkiRecords,
           (lockedBy \in Cli \cup {Pki!NoSession})',
           (ops \in 0..MaxOps)', (cuts \in 0..MaxCuts)'
    PROVE  PkiBounded'
  BY DEF PkiBounded, PkiRecords

\* Every step of a gw ovpn command keeps the bounds.
LEMMA PkiBoundsKept ==
    ASSUME Web = {}, PkiInv, PkiBounded, NEW s \in Cli,
           \/ Pki!Begin(s) \/ Pki!Config(s) \/ Pki!Expand(s) \/ Pki!CaInit(s) \/ Pki!CaKey(s)
           \/ Pki!CaCert(s) \/ Pki!ReadDatabase(s) \/ Pki!Sign(s) \/ Pki!Unlink(s)
           \/ Pki!Link(s) \/ Pki!Create(s) \/ Pki!Render(s) \/ Pki!Revoke(s) \/ Pki!Log(s)
           \/ Pki!WriteCrl(s) \/ Pki!Fail(s) \/ Pki!End(s)
    PROVE  PkiBounded'
<1>. USE DEF Pki!ca, Pki!database, Pki!profileVars, Pki!bounds
<1>1. MaxOps \in Nat /\ MaxCerts \in Nat /\ MaxCuts \in Nat  BY BoundsAssumption
<1>2. FileTypes /\ signed \in Nat /\ serial \in Nat /\ index \in SUBSET PkiEntry
  BY DEF PkiInv, FilesInv, FileTypes
<1>3. /\ ops \in 0..MaxOps /\ cuts \in 0..MaxCuts
      /\ lockedBy \in Cli \cup {Pki!NoSession}
  BY DEF PkiBounded
<1>4. CASE Pki!Begin(s) \/ Pki!Fail(s) \/ Pki!End(s)
  <2>1. UNCHANGED PkiRecords  BY <1>4 DEF PkiRecords, Pki!Begin, Pki!Fail, Pki!End
  <2>2. ops' \in 0..MaxOps /\ cuts' \in 0..MaxCuts
    BY <1>1, <1>3, <1>4 DEF Pki!Begin, Pki!Fail, Pki!End
  <2>3. lockedBy' \in Cli \cup {Pki!NoSession}
    BY <1>3, <1>4 DEF Pki!Begin, Pki!Fail, Pki!End
  <2>4. (Pki!NoSession)' = Pki!NoSession  BY DEF Pki!NoSession
  <2>5. QED  BY <2>1, <2>2, <2>3, PkiSameRecords
<1>5. CASE \/ Pki!Config(s) \/ Pki!Expand(s) \/ Pki!CaKey(s) \/ Pki!CaCert(s)
           \/ Pki!ReadDatabase(s) \/ Pki!Unlink(s) \/ Pki!Link(s)
  <2>1. UNCHANGED PkiRecords /\ UNCHANGED <<lockedBy, ops, cuts>>
    BY <1>5 DEF PkiRecords, Pki!Config, Pki!Expand, Pki!CaKey, Pki!CaCert, Pki!ReadDatabase,
                Pki!Unlink, Pki!Link
  <2>2. QED  BY <1>3, <2>1, PkiSameRecords
<1>6. CASE Pki!CaInit(s)
  <2>1. /\ index' = {} /\ serial' = 1
        /\ UNCHANGED <<signed, crl, revokedLog, profiles, output, lockedBy, ops, cuts>>
    BY <1>6 DEF Pki!CaInit
  <2>2. QED  BY <1>2, <2>1 DEF PkiBounded
<1>7. CASE Pki!Sign(s)
  <2>1. PICK o \in PkiOperation : o = op[s] /\ Ready(o, "sign")
    BY <1>7, StepBegins DEF Pki!Sign
  <2>2. o.next = serial /\ o.db = index /\ serial >= 1
    BY <2>1 DEF Ready, PkiInv, FilesInv, CaBeforeCerts
  <2>3. /\ signed < MaxCerts /\ signed' = signed + 1 /\ serial' = serial + 1
        /\ index' = index \cup {[serial |-> serial, revoked |-> FALSE]}
        /\ UNCHANGED <<crl, revokedLog, profiles, output, lockedBy, ops, cuts>>
    BY <1>7, <2>1, <2>2 DEF Pki!Sign
  <2>4. serial' <= signed' + 1 /\ signed' <= MaxCerts
    BY <1>1, <1>2, <2>3 DEF PkiBounded
  <2>5. \A e \in index' : 1 <= e.serial /\ e.serial <= signed'
    <3>1. \A e \in index : e.serial \in Nat /\ 1 <= e.serial /\ e.serial <= signed
      BY <1>2 DEF PkiBounded, PkiEntry
    <3>2. 1 <= serial /\ serial <= signed'  BY <1>2, <2>2, <2>3 DEF PkiBounded
    <3>3. QED  BY <1>2, <2>3, <3>1, <3>2
  <2>6. crl \subseteq 0..signed' /\ revokedLog \subseteq 1..signed'
    <3>1. \A n \in 0..signed : n \in 0..signed'  BY <1>2, <2>3
    <3>2. \A n \in 1..signed : n \in 1..signed'  BY <1>2, <2>3
    <3>3. QED  BY <3>1, <3>2 DEF PkiBounded
  <2>7. QED  BY <2>3, <2>4, <2>5, <2>6 DEF PkiBounded
<1>8. CASE Pki!Create(s)
  <2>1. op[s].p \in Pki!Profile  BY <1>8, StepBegins DEF Pki!Create
  <2>2. /\ profiles' = profiles \cup {op[s].p}
        /\ UNCHANGED <<serial, signed, index, crl, revokedLog, output, lockedBy, ops, cuts>>
    BY <1>8 DEF Pki!Create
  <2>3. QED  BY <2>1, <2>2 DEF PkiBounded
<1>9. CASE Pki!Render(s)
  <2>1. op[s].p \in Pki!Profile  BY <1>9, StepBegins DEF Pki!Render
  <2>2. /\ output' = [output EXCEPT ![op[s].p] = Pki!Rendered(op[s].p)]
        /\ UNCHANGED <<serial, signed, index, crl, revokedLog, profiles, lockedBy, ops, cuts>>
    BY <1>9 DEF Pki!Render
  <2>3. Pki!Rendered(op[s].p) \in Pki!Cert
    <3>1. latest[op[s].p] \in Pki!Cert  BY <2>1, PkiCertsTyped DEF PkiInv
    <3>2. QED  BY <3>1 DEF Pki!Rendered, Pki!Cert
  <2>4. output \in [Pki!Profile -> PkiCert]  BY <1>2 DEF FileTypes
  <2>5. \A p \in Pki!Profile : output'[p] \in Pki!Cert
    BY <2>2, <2>3, <2>4 DEF PkiBounded
  <2>6. QED  BY <2>2, <2>5 DEF PkiBounded
<1>10. CASE Pki!Revoke(s)
  <2>1. PICK o \in PkiOperation : o = op[s] /\ Ready(o, "revoke")
    BY <1>10, StepBegins DEF Pki!Revoke
  <2>2. o.db = index /\ o.cert \in certs[o.p] /\ o.p \in Pki!Profile /\ o.cert \in PkiCert
    BY <2>1 DEF Ready, PkiOperation
  <2>3. 1 <= o.cert.serial /\ o.cert.serial <= signed
    <3>1. o.cert.serial >= 1 /\ o.cert.serial < serial /\ o.cert.serial \in Nat
      BY <2>2 DEF PkiInv, FilesInv, CertsAreDistinct, PkiCert
    <3>2. QED  BY <1>2, <3>1 DEF PkiBounded
  <2>4. /\ index' = {r \in index : r.serial # o.cert.serial}
                        \cup {[serial |-> o.cert.serial, revoked |-> TRUE]}
        /\ UNCHANGED <<serial, signed, crl, revokedLog, profiles, output, lockedBy, ops, cuts>>
    BY <1>10, <2>1, <2>2 DEF Pki!Revoke
  <2>5. \A e \in index' : 1 <= e.serial /\ e.serial <= signed
    BY <2>3, <2>4 DEF PkiBounded
  <2>6. QED  BY <2>4, <2>5 DEF PkiBounded
<1>11. CASE Pki!Log(s)
  <2>1. PICK o \in PkiOperation : o = op[s] /\ Ready(o, "log")
    BY <1>11, StepBegins DEF Pki!Log
  <2>2. o.cert \in certs[o.p] /\ o.p \in Pki!Profile /\ o.cert \in PkiCert
    BY <2>1 DEF Ready, PkiOperation
  <2>3. o.cert.id \in 1..signed
    BY <1>2, <2>2 DEF PkiInv, FilesInv, CertsAreDistinct, PkiCert
  <2>4. /\ revokedLog' = revokedLog \cup {o.cert.id}
        /\ UNCHANGED <<serial, signed, index, crl, profiles, output, lockedBy, ops, cuts>>
    BY <1>11, <2>1 DEF Pki!Log
  <2>5. QED  BY <2>3, <2>4 DEF PkiBounded
<1>12. CASE Pki!WriteCrl(s)
  <2>1. PICK o \in PkiOperation : o = op[s] /\ Ready(o, "crlWrite")
    BY <1>12, StepBegins DEF Pki!WriteCrl
  <2>2. /\ crl' = Pki!Revoked(index)
        /\ UNCHANGED <<serial, signed, index, revokedLog, profiles, output, lockedBy, ops, cuts>>
    BY <1>12, <2>1 DEF Pki!WriteCrl, Ready
  <2>3. Pki!Revoked(index) \subseteq 0..signed
    <3>1. \A e \in index : 1 <= e.serial /\ e.serial <= signed  BY DEF PkiBounded
    <3>2. QED  BY <1>2, <3>1, RevokedIsBounded
  <2>4. QED  BY <2>2, <2>3 DEF PkiBounded
<1>13. QED
  BY <1>4, <1>5, <1>6, <1>7, <1>8, <1>9, <1>10, <1>11, <1>12

\* The PKI's next step, with no web API beside gw ovpn.
LEMMA PkiBoundsStep == ASSUME Web = {}, PkiInv, PkiBounded, Pki!Next PROVE PkiBounded'
<1>1. PICK s \in Cli :
        \/ Pki!Begin(s) \/ Pki!Config(s) \/ Pki!Expand(s) \/ Pki!CaInit(s) \/ Pki!CaKey(s)
        \/ Pki!CaCert(s) \/ Pki!ReadDatabase(s) \/ Pki!Sign(s) \/ Pki!Unlink(s) \/ Pki!Link(s)
        \/ Pki!Create(s) \/ Pki!Render(s) \/ Pki!Revoke(s) \/ Pki!Log(s) \/ Pki!WriteCrl(s)
        \/ Pki!Fail(s) \/ Pki!End(s)
  BY DEF Pki!Next, Pki!Session
<1>2. QED  BY <1>1, PkiBoundsKept

-----------------------------------------------------------------------------
(* The types of the containers' variables.                                 *)

DockerFilesTyped ==
    \A o \in DockerSet :
        /\ compose[o] # None => compose[o].name = o
        /\ \A path \in DOMAIN files[o] : Len(path) = 2

DockerPlaces == Docker!Range(DockerAddresses) \cup {"host", None}

DockerContTyped == \A o \in DockerSet : cont[o].address \in DockerPlaces

\* There is one file of records, or none; who is in it is an object.
DockerRecordsTyped ==
    /\ dnsFile = {} \/ \E records : dnsFile = {records}
    /\ \A r \in served \cup (UNION dnsFile) : r[1] \in DockerSet

DockerJobTyped ==
    /\ dockerJob.step \in {"idle", "next", "up", "restart", "dns"}
    /\ dockerJob.todo \subseteq DOMAIN DockerObjects
    /\ dockerJob.at \in DockerSet \cup {None}

DockerTyped ==
    /\ DockerFilesTyped /\ DockerContTyped /\ DockerRecordsTyped /\ DockerJobTyped
    /\ dockerUp \in BOOLEAN /\ dockerPending \in BOOLEAN
    /\ owed \subseteq DockerSet \X {"up", "restart"}

\* Docker's instance of FiniteSets counts as FiniteSets does.
LEMMA SameCardinality == ASSUME NEW S PROVE Docker!Cardinality(S) = Cardinality(S)
  BY DEF Docker!Cardinality, Cardinality

\* The containers' type invariant.
LEMMA DockerTypesHold == ASSUME DockerShapes, DockerTyped PROVE Docker!TypeOK
<1>1. conf \in DockerConfigs /\ (dockerJob.step # "idle" => dockerJob.conf \in DockerConfigs)
  BY DEF DockerShapes
<1>2. Cardinality(dnsFile) <= 1
  <2>1. CASE dnsFile = {}  BY <2>1, FS_EmptySet
  <2>2. ASSUME NEW records, dnsFile = {records} PROVE Cardinality(dnsFile) <= 1
    BY <2>2, FS_Singleton
  <2>3. QED  BY <2>1, <2>2 DEF DockerTyped, DockerRecordsTyped
<1>3. \A r \in served : r[1] \in DockerSet  BY DEF DockerTyped, DockerRecordsTyped
<1>4. \A o \in DockerSet :
        /\ compose[o] # None => compose[o].name = o
        /\ \A path \in DOMAIN files[o] : Len(path) = 2
        /\ cont[o].address \in DockerPlaces
  BY DEF DockerTyped, DockerFilesTyped, DockerContTyped
<1>5. \A o \in Docker!Range(DockerObjects) :
        /\ compose[o] # None => compose[o].name = o
        /\ \A path \in DOMAIN files[o] : Len(path) = 2
        /\ cont[o].address \in Docker!Range(DockerAddresses) \cup {"host", None}
  BY <1>4 DEF DockerSet, DockerPlaces
<1>6. /\ dockerUp \in BOOLEAN /\ dockerPending \in BOOLEAN
      /\ \A r \in served : r[1] \in Docker!Range(DockerObjects)
      /\ dockerJob.step \in {"idle", "next", "up", "restart", "dns"}
      /\ dockerJob.todo \subseteq DOMAIN DockerObjects
      /\ dockerJob.at \in Docker!Range(DockerObjects) \cup {None}
      /\ owed \subseteq Docker!Range(DockerObjects) \X {"up", "restart"}
  BY <1>3, Zenon DEF DockerTyped, DockerJobTyped, DockerSet
<1>7. QED  BY <1>1, <1>2, <1>5, <1>6, SameCardinality DEF Docker!TypeOK

\* Nothing is written and nothing runs at first.
LEMMA DockerTypesInit == ASSUME Docker!Init PROVE DockerTyped
<1>1. \A o \in DockerSet :
        compose[o] = None /\ files[o] = <<>> /\ cont[o] = Docker!NoContainer
  BY DEF Docker!Init, DockerSet
<1>2. DockerFilesTyped
  <2>1. DOMAIN <<>> = {}  OBVIOUS
  <2>2. QED  BY <1>1, <2>1 DEF DockerFilesTyped
<1>3. DockerContTyped  BY <1>1 DEF DockerContTyped, DockerPlaces, Docker!NoContainer
<1>4. DockerRecordsTyped  BY DEF Docker!Init, DockerRecordsTyped
<1>5. DockerJobTyped  BY DEF Docker!Init, Docker!Idle, DockerJobTyped
<1>6. QED  BY <1>2, <1>3, <1>4, <1>5 DEF Docker!Init, DockerTyped

\* Which files a project has generated: each lies in a directory, under a name.
LEMMA PathsAreTwo == ASSUME NEW spec, NEW path \in Docker!Paths(spec) PROVE Len(path) = 2
<1>1. PICK m : path \in Docker!Generated(m)  BY DEF Docker!Paths
<1>2. PICK a, b : path = <<a, b>>  BY <1>1 DEF Docker!Generated
<1>3. <<a, b>> \in Seq({a, b}) /\ Len(<<a, b>>) = 2  OBVIOUS
<1>4. QED  BY <1>2, <1>3

\* The update takes a configuration and an object.
LEMMA DockerUpdateTyped ==
    ASSUME DockerInv, DockerTyped, NEW selected \in SUBSET DOMAIN DockerObjects,
           Docker!Update(selected) \/ Docker!TakeEvent
    PROVE  DockerTyped'
<1>1. /\ UNCHANGED <<compose, files, cont, dockerUp, dnsFile, served, owed>>
      /\ dockerPending' \in BOOLEAN
  BY DEF Docker!Update, Docker!TakeEvent, Docker!diskVars, Docker!dnsVars, Docker!history,
         DockerTyped
<1>2. DockerJobTyped'
  BY DEF Docker!Update, Docker!TakeEvent, Docker!Idle, DockerJobTyped
<1>3. DockerFilesTyped' /\ DockerContTyped' /\ DockerRecordsTyped'
  BY <1>1 DEF DockerTyped, DockerFilesTyped, DockerContTyped, DockerRecordsTyped, DockerPlaces
<1>4. QED  BY <1>1, <1>2, <1>3 DEF DockerTyped

\* The update writes an object's compose file and its generated files.
LEMMA DockerFilesWritten ==
    ASSUME DockerInv, DockerTyped, NEW i \in DOMAIN DockerObjects, Docker!WriteFiles(i)
    PROVE  DockerTyped'
<1>1. PICK o \in DockerSet : o = DockerObjects[i]  BY DEF DockerSet, Docker!Range
<1>2. PICK spec : spec = dockerJob.conf.objects[o]  OBVIOUS
<1>3. UNCHANGED <<conf, cont, dockerUp, dnsFile, served, dockerPending, owed>>
  BY DEF Docker!WriteFiles, Docker!dnsVars
<1>4. DockerContTyped' /\ DockerRecordsTyped'
  BY <1>3 DEF DockerTyped, DockerContTyped, DockerRecordsTyped, DockerPlaces
<1>5. CASE Docker!RenderRaises(dockerJob.conf, spec)
  <2>1. dockerJob' = Docker!Idle /\ UNCHANGED <<compose, files>>
    BY <1>1, <1>2, <1>5 DEF Docker!WriteFiles, Docker!diskVars
  <2>2. DockerJobTyped' /\ DockerFilesTyped'
    BY <2>1 DEF DockerTyped, DockerFilesTyped, DockerJobTyped, Docker!Idle
  <2>3. QED  BY <1>3, <1>4, <2>2 DEF DockerTyped
<1>6. CASE ~Docker!RenderRaises(dockerJob.conf, spec)
  <2>1. PICK restart :
        /\ files' = [files EXCEPT ![o] = Docker!Rendered(dockerJob.conf, spec, files[o])]
        /\ compose' = [compose EXCEPT ![o] = Docker!Service(o, spec)]
        /\ dockerJob' = [dockerJob EXCEPT !.step = "up", !.todo = @ \ {i}, !.at = o,
                                          !.restart = restart]
    BY <1>1, <1>2, <1>6 DEF Docker!WriteFiles
  <2>2. DOMAIN files = DockerSet /\ DOMAIN compose = DockerSet /\ DOMAIN dockerJob = DockerJobFields
    BY DEF DockerInv, DockerShapes
  <2>3. DockerJobTyped'
    BY <2>1, <2>2 DEF DockerTyped, DockerJobTyped, DockerJobFields
  <2>4. DockerFilesTyped'
    <3>1. compose'[o].name = o  BY <2>1, <2>2 DEF Docker!Service
    <3>2. DOMAIN files'[o] = DOMAIN files[o] \cup Docker!Paths(spec)
      BY <2>1, <2>2 DEF Docker!Rendered
    <3>3. \A path \in DOMAIN files'[o] : Len(path) = 2
      BY <3>2, PathsAreTwo DEF DockerTyped, DockerFilesTyped
    <3>4. \A q \in DockerSet \ {o} : compose'[q] = compose[q] /\ files'[q] = files[q]
      BY <2>1, <2>2
    <3>5. QED  BY <3>1, <3>3, <3>4 DEF DockerTyped, DockerFilesTyped
  <2>5. QED  BY <1>3, <1>4, <2>3, <2>4 DEF DockerTyped
<1>7. QED  BY <1>5, <1>6

\* A free address is one of docker's.
LEMMA FreeIsAddress == \A a \in Docker!Free : a \in DockerPlaces
  BY DEF Docker!Free, DockerPlaces, Docker!Range

\* docker compose up and restart, containers recreated by hand, docker's own starts.
LEMMA ContainersStartedTyped ==
    ASSUME DockerInv, DockerTyped,
           Docker!ComposeUp \/ Docker!Restart \/ Docker!DockerStarts
           \/ \E o \in DockerSet : Docker!RecreatedByHand(o)
    PROVE  DockerTyped'
<1>1. /\ UNCHANGED <<conf, compose, files, dnsFile, served>> /\ owed' \subseteq owed
      /\ dockerUp' \in BOOLEAN /\ dockerPending' \in BOOLEAN
  <2>1. CASE Docker!ComposeUp \/ Docker!Restart
    BY <2>1 DEF Docker!ComposeUp, Docker!Restart, Docker!diskVars, Docker!dnsVars, DockerTyped
  <2>2. CASE Docker!DockerStarts
    BY <2>2 DEF Docker!DockerStarts, Docker!diskVars, Docker!dnsVars
  <2>3. CASE \E o \in DockerSet : Docker!RecreatedByHand(o)
    BY <2>3 DEF Docker!RecreatedByHand, Docker!diskVars, Docker!dnsVars, DockerTyped
  <2>4. QED  BY <2>1, <2>2, <2>3
<1>2. DockerFilesTyped' /\ DockerRecordsTyped'
  BY <1>1 DEF DockerTyped, DockerFilesTyped, DockerRecordsTyped
<1>3. DockerJobTyped'
  <2>1. DOMAIN dockerJob = DockerJobFields  BY DEF DockerInv, DockerShapes
  <2>2. CASE Docker!ComposeUp \/ Docker!Restart
    BY <2>1, <2>2 DEF Docker!ComposeUp, Docker!Restart, DockerTyped, DockerJobTyped, DockerJobFields
  <2>3. CASE dockerJob' = dockerJob  BY <2>3 DEF DockerTyped, DockerJobTyped
  <2>4. QED  BY <2>2, <2>3 DEF Docker!DockerStarts, Docker!RecreatedByHand
<1>4. DockerContTyped'
  <2>1. /\ DOMAIN cont = DockerSet /\ \A o \in DockerSet : DOMAIN cont[o] = ContFields
        /\ \A o \in DockerSet : cont[o].address \in DockerPlaces
    BY DEF DockerInv, DockerShapes, DockerTyped, DockerContTyped
  <2>2. (DockerPlaces)' = DockerPlaces  BY DEF DockerPlaces
  <2>3. SUFFICES ASSUME NEW o \in DockerSet PROVE cont'[o].address \in DockerPlaces
    BY <2>2 DEF DockerContTyped
  <2>4. CASE Docker!ComposeUp
    <3>1. CASE cont' = cont  BY <2>1, <3>1
    <3>2. CASE \E a \in Docker!Free :
                  cont' = [cont EXCEPT ![dockerJob.at] = Docker!StartedAs(dockerJob.at, a)]
      <4>1. PICK a \in Docker!Free :
                  cont' = [cont EXCEPT ![dockerJob.at] = Docker!StartedAs(dockerJob.at, a)]
        BY <3>2
      <4>2. a \in DockerPlaces  BY FreeIsAddress
      <4>3. Docker!StartedAs(dockerJob.at, a).address \in DockerPlaces
        BY <4>2 DEF Docker!StartedAs, DockerPlaces
      <4>4. QED  BY <2>1, <4>1, <4>3
    <3>3. QED  BY <2>4, <3>1, <3>2 DEF Docker!ComposeUp
  <2>5. CASE Docker!Restart
    <3>1. cont' = [cont EXCEPT ![dockerJob.at].loaded = files[dockerJob.at]]
      BY <2>5 DEF Docker!Restart
    <3>2. cont'[o].address = cont[o].address  BY <2>1, <3>1 DEF ContFields
    <3>3. QED  BY <2>1, <3>2
  <2>6. CASE Docker!DockerStarts
    <3>1. PICK new \in [Docker!Existing -> Docker!Range(DockerAddresses)] :
            cont' = [x \in DockerSet |->
                IF x \in Docker!Existing
                THEN [cont[x] EXCEPT !.address = IF @ = "host" THEN @ ELSE new[x],
                                     !.loaded = files[x]]
                ELSE cont[x]]
      BY <2>6 DEF Docker!DockerStarts, DockerSet
    <3>2. CASE o \in Docker!Existing
      <4>1. new[o] \in DockerPlaces  BY <3>1, <3>2 DEF DockerPlaces
      <4>2. cont'[o].address \in {cont[o].address, new[o]}
        BY <2>1, <3>1, <3>2 DEF ContFields
      <4>3. QED  BY <2>1, <4>1, <4>2
    <3>3. CASE o \notin Docker!Existing  BY <2>1, <3>1, <3>3
    <3>4. QED  BY <3>2, <3>3
  <2>7. CASE \E x \in DockerSet : Docker!RecreatedByHand(x)
    <3>1. PICK x \in DockerSet, a \in Docker!Free :
            cont' = [cont EXCEPT ![x].address = a, ![x].loaded = files[x]]
      BY <2>7 DEF Docker!RecreatedByHand
    <3>2. a \in DockerPlaces  BY FreeIsAddress
    <3>3. cont'[o].address \in {cont[o].address, a}  BY <2>1, <3>1 DEF ContFields
    <3>4. QED  BY <2>1, <3>2, <3>3
  <2>8. QED  BY <2>4, <2>5, <2>6, <2>7
<1>5. owed' \subseteq DockerSet \X {"up", "restart"}  BY <1>1 DEF DockerTyped
<1>6. QED  BY <1>1, <1>2, <1>3, <1>4, <1>5 DEF DockerTyped

\* The update writes dns's records of the containers' addresses.
LEMMA RecordsWrittenTyped ==
    ASSUME DockerInv, DockerTyped, Docker!WriteDns \/ Docker!RestartDnsmasq
    PROVE  DockerTyped'
<1>1. UNCHANGED <<conf, compose, files, cont, dockerUp, dockerPending, owed>>
  BY DEF Docker!WriteDns, Docker!RestartDnsmasq, Docker!diskVars
<1>2. DOMAIN dockerJob = DockerJobFields  BY DEF DockerInv, DockerShapes
<1>3. DockerJobTyped'
  BY <1>2 DEF Docker!WriteDns, Docker!RestartDnsmasq, Docker!Idle, DockerTyped, DockerJobTyped,
              DockerJobFields
<1>4. DockerRecordsTyped'
  <2>1. CASE Docker!WriteDns
    <3>1. served' = served /\ dnsFile' \in {dnsFile, {}, {Docker!Records}}
      BY <2>1 DEF Docker!WriteDns
    <3>2. \A r \in Docker!Records : r[1] \in DockerSet
      BY DEF Docker!Records, Docker!Enabled, DockerSet
    <3>3. QED  BY <3>1, <3>2 DEF DockerTyped, DockerRecordsTyped
  <2>2. CASE Docker!RestartDnsmasq
    BY <2>2 DEF Docker!RestartDnsmasq, DockerTyped, DockerRecordsTyped
  <2>3. QED  BY <2>1, <2>2
<1>5. DockerFilesTyped' /\ DockerContTyped'
  BY <1>1 DEF DockerTyped, DockerFilesTyped, DockerContTyped, DockerPlaces
<1>6. QED  BY <1>1, <1>3, <1>4, <1>5 DEF DockerTyped

\* The update is cut short.
LEMMA CutShortTyped ==
    ASSUME DockerInv, DockerTyped, Docker!CutShort \/ Docker!Edit \/ Docker!DockerStops
    PROVE  DockerTyped'
<1>1. /\ UNCHANGED <<compose, files, cont, dnsFile, served, dockerPending>>
      /\ dockerUp' \in BOOLEAN
  BY DEF Docker!CutShort, Docker!Edit, Docker!DockerStops, Docker!diskVars, Docker!dnsVars,
         DockerTyped
<1>2. DockerJobTyped'
  BY DEF Docker!CutShort, Docker!Edit, Docker!DockerStops, Docker!Idle, DockerTyped, DockerJobTyped
<1>3. owed' \subseteq DockerSet \X {"up", "restart"}
  <2>1. Docker!AtRisk \subseteq DockerSet \X {"up", "restart"}
    <3>1. dockerJob.step \in {"up", "restart"} => dockerJob.at \in DockerSet
      BY DEF DockerInv, DockerShapes, AtWork, Docker!Enabled, DockerSet
    <3>2. QED  BY <3>1 DEF Docker!AtRisk
  <2>2. QED
    BY <2>1 DEF Docker!CutShort, Docker!Edit, Docker!DockerStops, DockerTyped
<1>4. DockerFilesTyped' /\ DockerContTyped' /\ DockerRecordsTyped'
  BY <1>1 DEF DockerTyped, DockerFilesTyped, DockerContTyped, DockerRecordsTyped, DockerPlaces
<1>5. QED  BY <1>1, <1>2, <1>3, <1>4 DEF DockerTyped

\* Every step of the containers.
LEMMA DockerTypesStep == ASSUME DockerInv, DockerTyped, Docker!Next PROVE DockerTyped'
<1>1. DOMAIN DockerObjects \in SUBSET DOMAIN DockerObjects
      /\ \A i \in DOMAIN DockerObjects : {i} \in SUBSET DOMAIN DockerObjects
  OBVIOUS
<1>2. CASE Docker!Update(DOMAIN DockerObjects) \/ Docker!TakeEvent
  BY <1>1, <1>2, DockerUpdateTyped
<1>3. CASE \E i \in DOMAIN DockerObjects : Docker!Update({i}) \/ Docker!WriteFiles(i)
  BY <1>1, <1>3, DockerUpdateTyped, DockerFilesWritten
<1>4. CASE \/ \E o \in Docker!Range(DockerObjects) : Docker!RecreatedByHand(o)
           \/ Docker!ComposeUp \/ Docker!Restart \/ Docker!DockerStarts
  BY <1>4, ContainersStartedTyped DEF DockerSet
<1>5. CASE Docker!WriteDns \/ Docker!RestartDnsmasq  BY <1>5, RecordsWrittenTyped
<1>6. CASE Docker!CutShort \/ Docker!Edit \/ Docker!DockerStops  BY <1>6, CutShortTyped
<1>7. QED  BY <1>2, <1>3, <1>4, <1>5, <1>6 DEF Docker!Next

-----------------------------------------------------------------------------
(* The types of the routes' variables.                                     *)

RefreshStates == {"idle", "taken", "looked", "loading", "flushed"}

RefreshersTyped ==
    \A p \in Refreshers : job[p].step \in RefreshStates /\ job[p].states \subseteq Links \cup {"lo"}

LinksTyped ==
    up \subseteq Links /\ moving \in [Links -> {"no", "hook", "down"}] /\ pending \in BOOLEAN

\* An updater only knows the sources and families there are.
UpdatersTyped ==
    \A u \in Updaters :
        upd[u].names \in Seq(Range(Sources)) /\ upd[u].families \in Seq(Range(Families))

\* What is in a list file, or in its temporary file, is networks of that list.
Belongs(content, f) == \A n \in content : n.family = f[2] /\ n.name = f[1]

ContentsTyped ==
    \A f \in ListFiles :
        /\ Belongs(lists[f], f)
        /\ temp[f] = {} \/ \E content : temp[f] = {content} /\ Belongs(content, f)

RoutesTyped ==
    /\ RefreshersTyped /\ LinksTyped /\ UpdatersTyped /\ ContentsTyped
    /\ lost \subseteq {"boot", "ifdown", "failed", "lists", "overlap"}
    /\ shared \subseteq ListFiles

\* The routes' type invariant.
LEMMA RoutesTypesHold == ASSUME RoutesInv, RoutesTyped PROVE TypeOK
<1>1. config \in Configs /\ \A p \in Refreshers : JobShape(job[p])  BY DEF RoutesInv, JobShapes
<1>2. \A p \in Refreshers :
        /\ job[p].step \in {"idle", "taken", "looked", "loading", "flushed"}
        /\ job[p].todo \subseteq DOMAIN config.tables
        /\ job[p].sets \subseteq DOMAIN config.ruleSets
        /\ job[p].states \subseteq up \cup Links \cup {"lo"}
  BY <1>1 DEF RoutesTyped, RefreshersTyped, RefreshStates, JobShape
<1>3. \A f \in ListFiles : \A n \in lists[f] : n.family = f[2] /\ n.name = f[1]
  BY DEF RoutesTyped, ContentsTyped, Belongs
<1>4. \A f \in ListFiles : Cardinality(temp[f]) <= 1
  <2>1. SUFFICES ASSUME NEW f \in ListFiles PROVE Cardinality(temp[f]) <= 1  OBVIOUS
  <2>2. CASE temp[f] = {}  BY <2>2, FS_EmptySet
  <2>3. ASSUME NEW content, temp[f] = {content} PROVE Cardinality(temp[f]) <= 1
    <3>1. Cardinality({content}) = 1  BY FS_Singleton
    <3>2. QED  BY <2>3, <3>1
  <2>4. QED  BY <2>2, <2>3 DEF RoutesTyped, ContentsTyped
<1>5. QED
  BY <1>1, <1>2, <1>3, <1>4 DEF TypeOK, RoutesTyped, LinksTyped

\* The names and families of what ip-list update fetches.
LEMMA SourcesTyped ==
    /\ Sources \in Seq(Range(Sources)) /\ <<Sources[1]>> \in Seq(Range(Sources))
    /\ Families \in Seq(Range(Families))
<1>1. \A list \in Seq(STRING) : list \in Seq(Range(list))
  <2>1. SUFFICES ASSUME NEW list \in Seq(STRING) PROVE list \in Seq(Range(list))  OBVIOUS
  <2>2. Len(list) \in Nat /\ DOMAIN list = 1..Len(list)  OBVIOUS
  <2>3. \A i \in 1..Len(list) : list[i] \in Range(list)  BY <2>2 DEF Range
  <2>4. list = [i \in 1..Len(list) |-> list[i]]  OBVIOUS
  <2>5. list \in [1..Len(list) -> Range(list)]  BY <2>3, <2>4
  <2>6. QED  BY <2>2, <2>5, SeqDef
<1>2. Sources \in Seq(STRING) /\ Sources # <<>> /\ Families \in Seq(STRING)
  BY ListsAssumption
<1>3. Sources[1] \in Range(Sources)
  <2>1. 1 \in DOMAIN Sources  BY <1>2
  <2>2. QED  BY <2>1 DEF Range
<1>4. QED  BY <1>1, <1>2, <1>3

\* At first no refresher, link or updater is under way.
LEMMA RoutesTypesInit == ASSUME Init PROVE RoutesTyped
<1>1. RefreshersTyped
  BY DEF Init, RefreshersTyped, RefreshStates, Idle
<1>2. LinksTyped  BY DEF Init, LinksTyped
<1>3. UpdatersTyped
  <2>1. \A u \in Updaters : upd[u].names = <<>> /\ upd[u].families = Families
    BY DEF Init, NoUpdate
  <2>2. <<>> \in Seq(Range(Sources))  OBVIOUS
  <2>3. QED  BY <2>1, <2>2, SourcesTyped DEF UpdatersTyped
<1>4. ContentsTyped
  <2>1. \A f \in ListFiles : lists[f] = Networks(f, 0) /\ temp[f] = {}  BY DEF Init
  <2>2. \A f, v : Belongs(Networks(f, v), f)  BY DEF Belongs, Networks
  <2>3. QED  BY <2>1, <2>2 DEF ContentsTyped
<1>5. QED  BY <1>1, <1>2, <1>3, <1>4 DEF Init, RoutesTyped

\* A refresher takes a step.
LEMMA RefresherTyped ==
    ASSUME RoutesInv, RoutesTyped, NEW p \in Refreshers,
           \/ TakeEvent \/ HandlerFails
           \/ Update({"Gateway", "FwMark", "RouteTable", "RouteRuleSet"})
           \/ Update({"RouteRuleSet"})
           \/ ProcessNow(p) \/ RefreshStep(p) \/ Killed(p)
    PROVE  RoutesTyped'
<1>1. DOMAIN job = Refreshers /\ "locked" \in Refreshers
      /\ \A q \in Refreshers : DOMAIN job[q] = JobFields
  BY DEF RoutesInv, JobShapes, JobShape, Refreshers
<1>2. /\ \A q \in Refreshers : job[q].step \in RefreshStates
      /\ \A q \in Refreshers : job[q].states \subseteq Links \cup {"lo"}
      /\ up \subseteq Links
  BY DEF RoutesTyped, RefreshersTyped, LinksTyped
<1>3. /\ UNCHANGED <<up, moving, lists, temp, upd, shared>> /\ pending' \in BOOLEAN
      /\ lost' \subseteq {"boot", "ifdown", "failed", "lists", "overlap"}
  <2>. USE DEF linkVars, listVars, RoutesTyped, LinksTyped
  <2>1. CASE TakeEvent \/ HandlerFails \/ ProcessNow(p) \/ Killed(p)
    <3>1. UNCHANGED <<up, moving, lists, temp, upd, shared>>
      BY <2>1 DEF TakeEvent, HandlerFails, ProcessNow, Killed
    <3>2. pending' \in {pending, TRUE, FALSE}
      BY <2>1 DEF TakeEvent, HandlerFails, ProcessNow, Killed
    <3>3. lost' \subseteq lost \cup {"failed"}
      BY <2>1 DEF TakeEvent, HandlerFails, ProcessNow, Killed
    <3>4. QED  BY <3>1, <3>2, <3>3
  <2>2. CASE Update({"Gateway", "FwMark", "RouteTable", "RouteRuleSet"}) \/ Update({"RouteRuleSet"})
    BY <2>2 DEF Update
  <2>3. CASE LookAtLinks(p) \/ WriteScript(p) \/ AddRules(p) \/ Finish(p)
    BY <2>3 DEF LookAtLinks, WriteScript, AddRules, Finish
  <2>4. CASE \E t \in DOMAIN config.tables : LoadTable(p, t)
    BY <2>4 DEF LoadTable
  <2>5. CASE \E s \in DOMAIN config.ruleSets : FlushRules(p, s)
    BY <2>5 DEF FlushRules
  <2>6. QED  BY <2>1, <2>2, <2>3, <2>4, <2>5 DEF RefreshStep
<1>4. \A q \in Refreshers :
        job'[q].step \in RefreshStates /\ job'[q].states \subseteq Links \cup {"lo"}
  <2>. USE <1>1, <1>2
  <2>1. CASE \/ TakeEvent \/ HandlerFails \/ ProcessNow(p) \/ Killed(p) \/ Finish(p)
             \/ Update({"Gateway", "FwMark", "RouteTable", "RouteRuleSet"})
             \/ Update({"RouteRuleSet"})
    <3>1. \E q \in Refreshers : \E j :
            /\ job' = [job EXCEPT ![q] = j]
            /\ j.step \in {"idle", "taken"} /\ j.states = {}
      <4>1. Idle.step = "idle" /\ Idle.states = {}  BY DEF Idle
      <4>2. CASE HandlerFails \/ Killed(p) \/ Finish(p)
        BY <4>1, <4>2 DEF HandlerFails, Killed, Finish
      <4>3. CASE TakeEvent
        <5>1. PICK j :
                j = [Idle EXCEPT !.step = "taken", !.event = TRUE, !.full = TRUE,
                                 !.todo = DOMAIN config.tables,
                                 !.sets = DOMAIN config.ruleSets]
          OBVIOUS
        <5>2. j.step = "taken" /\ j.states = {}  BY <5>1 DEF Idle
        <5>3. job' = [job EXCEPT !["locked"] = j]  BY <4>3, <5>1 DEF TakeEvent
        <5>4. QED  BY <5>2, <5>3
      <4>4. CASE ProcessNow(p)
        <5>1. PICK j :
                j = [Idle EXCEPT !.step = "taken", !.full = TRUE,
                                 !.todo = DOMAIN config.tables,
                                 !.sets = DOMAIN config.ruleSets]
          OBVIOUS
        <5>2. j.step = "taken" /\ j.states = {}  BY <5>1 DEF Idle
        <5>3. job' = [job EXCEPT ![p] = j]  BY <4>4, <5>1 DEF ProcessNow
        <5>4. QED  BY <5>2, <5>3
      <4>5. CASE \/ Update({"Gateway", "FwMark", "RouteTable", "RouteRuleSet"})
                 \/ Update({"RouteRuleSet"})
        <5>1. PICK full, todo, sets :
                job' = [job EXCEPT !["locked"] =
                    [Idle EXCEPT !.step = "taken", !.full = full, !.todo = todo, !.sets = sets]]
          BY <4>5 DEF Update
        <5>2. PICK j :
                j = [Idle EXCEPT !.step = "taken", !.full = full, !.todo = todo, !.sets = sets]
          OBVIOUS
        <5>3. j.step = "taken" /\ j.states = {}  BY <5>2 DEF Idle
        <5>4. job' = [job EXCEPT !["locked"] = j]  BY <5>1, <5>2
        <5>5. QED  BY <5>3, <5>4
      <4>6. QED  BY <2>1, <4>2, <4>3, <4>4, <4>5
    <3>2. QED  BY <3>1 DEF RefreshStates
  <2>2. CASE LookAtLinks(p)
    BY <2>2 DEF LookAtLinks, RefreshStates, JobFields
  <2>3. CASE WriteScript(p)
    BY <2>3 DEF WriteScript, RefreshStates, JobFields
  <2>4. CASE \E t \in DOMAIN config.tables : LoadTable(p, t)
    BY <2>4 DEF LoadTable, RefreshStates, JobFields, Idle
  <2>5. CASE \E s \in DOMAIN config.ruleSets : FlushRules(p, s)
    BY <2>5 DEF FlushRules, RefreshStates, JobFields
  <2>6. CASE AddRules(p)
    BY <2>6 DEF AddRules, RefreshStates, JobFields, Idle
  <2>7. QED  BY <2>1, <2>2, <2>3, <2>4, <2>5, <2>6 DEF RefreshStep
<1>5. RefreshersTyped' /\ LinksTyped'
  BY <1>3, <1>4 DEF RefreshersTyped, LinksTyped, RoutesTyped
<1>6. UpdatersTyped' /\ ContentsTyped'
  BY <1>3 DEF RoutesTyped, UpdatersTyped, ContentsTyped
<1>7. QED  BY <1>3, <1>5, <1>6 DEF RoutesTyped

\* A link comes up or goes down.
LEMMA LinkTyped ==
    ASSUME RoutesTyped, NEW l \in Links,
           LinkUp(l) \/ PppDown(l) \/ Hook(l) \/ IfDown(l) \/ GoesDown(l)
    PROVE  RoutesTyped'
<1>1. UNCHANGED <<job, lists, temp, upd, shared>>
  BY DEF LinkUp, PppDown, Hook, IfDown, GoesDown, listVars
<1>2. LinksTyped'
  <2>1. up' \subseteq Links /\ pending' \in BOOLEAN
    BY DEF LinkUp, PppDown, Hook, IfDown, GoesDown, RoutesTyped, LinksTyped
  <2>2. \E w \in {"no", "hook", "down"} : moving' = [moving EXCEPT ![l] = w]
    BY DEF LinkUp, PppDown, Hook, IfDown, GoesDown
  <2>3. QED  BY <2>1, <2>2 DEF RoutesTyped, LinksTyped
<1>3. lost' \subseteq lost \cup {"ifdown"}
  BY DEF LinkUp, PppDown, Hook, IfDown, GoesDown
<1>4. RefreshersTyped' /\ UpdatersTyped' /\ ContentsTyped'
  BY <1>1 DEF RoutesTyped, RefreshersTyped, UpdatersTyped, ContentsTyped
<1>5. QED  BY <1>1, <1>2, <1>3, <1>4 DEF RoutesTyped

\* An updater that is at a list is at one of those there are.
LEMMA CurrentIsList ==
    ASSUME RoutesTyped, NEW u \in Updaters, upd[u].names # <<>>, upd[u].families # <<>>
    PROVE  Current(u) \in ListFiles
<1>1. upd[u].names[1] \in Range(Sources) /\ upd[u].families[1] \in Range(Families)
  BY FirstAndRest DEF RoutesTyped, UpdatersTyped
<1>2. QED  BY <1>1 DEF Current, ListFiles, Range

\* ip-list update: its own state.
LEMMA UpdatersStayTyped ==
    ASSUME RoutesInv, RoutesTyped, NEW u \in Updaters,
           StartDownload(u) \/ UpdaterStep(u) \/ UpdaterKilled(u)
    PROVE  UpdatersTyped'
<1>1. /\ upd \in [Updaters -> UpdaterState]
      /\ \A v \in Updaters : /\ upd[v].names \in Seq(Range(Sources))
                             /\ upd[v].families \in Seq(Range(Families))
  BY DEF RoutesInv, ListsInv, ListTypes, RoutesTyped, UpdatersTyped
<1>2. PICK j \in UpdaterState : j = upd[u]  BY <1>1
<1>3. SUFFICES ASSUME NEW v \in Updaters
               PROVE  /\ upd'[v].names \in Seq(Range(Sources))
                      /\ upd'[v].families \in Seq(Range(Families))
  BY DEF UpdatersTyped
<1>4. NoUpdate.names \in Seq(Range(Sources)) /\ NoUpdate.families \in Seq(Range(Families))
  BY SourcesTyped DEF NoUpdate
<1>5. CASE StartDownload(u)
  <2>1. PICK chosen \in {Sources, <<Sources[1]>>} :
          upd' = [upd EXCEPT ![u] = [NoUpdate EXCEPT !.step = "fetch", !.names = chosen]]
    BY <1>5 DEF StartDownload
  <2>2. CASE v = u
    <3>1. upd'[v].names = chosen /\ upd'[v].families = Families
      BY <1>1, <2>1, <2>2 DEF NoUpdate
    <3>2. QED  BY <3>1, SourcesTyped
  <2>3. CASE v # u  BY <1>1, <2>1, <2>3
  <2>4. QED  BY <2>2, <2>3
<1>6. CASE Fetch(u)
  <2>1. upd'[v].names = upd[v].names \/ (v = u /\ upd'[v].names = Tail(upd[u].names))
    BY <1>1, <1>6 DEF Fetch, UpdaterState
  <2>2. upd'[v].families = upd[v].families  BY <1>1, <1>6 DEF Fetch, UpdaterState
  <2>3. Tail(upd[u].names) \in Seq(Range(Sources))
    BY <1>1, <1>6, FirstAndRest DEF Fetch
  <2>4. QED  BY <1>1, <2>1, <2>2, <2>3
<1>7. CASE OpenTemp(u) \/ Copy(u)
  <2>1. upd'[v].names = upd[v].names /\ upd'[v].families = upd[v].families
    <3>1. CASE OpenTemp(u)
      <4>1. upd' = [upd EXCEPT ![u].step = "copy", ![u].fd = "temp"]  BY <3>1 DEF OpenTemp
      <4>2. QED  BY <1>1, <4>1 DEF UpdaterState
    <3>2. CASE Copy(u)
      <4>1. PICK wrote : upd' = [upd EXCEPT ![u].step = "rename", ![u].wrote = wrote]
        BY <3>2 DEF Copy
      <4>2. QED  BY <1>1, <4>1 DEF UpdaterState
    <3>3. QED  BY <1>7, <3>1, <3>2
  <2>2. QED  BY <1>1, <2>1
<1>8. CASE Rename(u)
  <2>1. PICK f : f = Current(u)  OBVIOUS
  <2>2. upd' = [w \in Updaters |->
                    IF w = u THEN NextFile([j EXCEPT !.wrote = TRUE])
                    ELSE IF upd[w].step \in {"copy", "rename"} /\ Current(w) = f
                    THEN [upd[w] EXCEPT !.fd = IF @ = "temp" THEN "target" ELSE "gone"]
                    ELSE upd[w]]
    BY <1>2, <1>8, <2>1 DEF Rename
  <2>3. CASE v # u  BY <1>1, <2>2, <2>3 DEF UpdaterState
  <2>4. CASE v = u
    <3>1. PICK k \in UpdaterState : k = [j EXCEPT !.wrote = TRUE]  BY DEF UpdaterState
    <3>2. k.names = j.names /\ k.families = j.families  BY <3>1 DEF UpdaterState
    <3>3. k.names # <<>> /\ k.families # <<>>
      BY <1>2, <1>8, <3>2 DEF Rename, RoutesInv, ListsInv, OpenWhileCopying
    <3>4. /\ Tail(k.names) \in Seq(Range(Sources)) /\ Tail(k.families) \in Seq(Range(Families))
          /\ k.names \in Seq(Range(Sources))
      BY <1>1, <1>2, <3>2, <3>3, FirstAndRest
    <3>5. upd'[u] = NextFile(k)  BY <2>2, <3>1
    <3>6. CASE Len(k.families) > 1
      <4>1. upd'[u].names = k.names /\ upd'[u].families = Tail(k.families)
        BY <3>1, <3>5, <3>6 DEF NextFile, UpdaterState
      <4>2. QED  BY <2>4, <3>4, <4>1
    <3>7. CASE ~(Len(k.families) > 1)
      <4>1. upd'[u].names = Tail(k.names) /\ upd'[u].families = Families
        BY <3>5, <3>7 DEF NextFile, NoUpdate
      <4>2. QED  BY <2>4, <3>4, <4>1, SourcesTyped
    <3>8. QED  BY <3>6, <3>7
  <2>5. QED  BY <2>3, <2>4
<1>9. CASE RenameFails(u) \/ EndUpdate(u) \/ UpdaterKilled(u)
  <2>1. upd' = [upd EXCEPT ![u] = NoUpdate]
    BY <1>9 DEF RenameFails, EndUpdate, UpdaterKilled, GivesUp
  <2>2. QED  BY <1>1, <1>4, <2>1
<1>10. QED  BY <1>5, <1>6, <1>7, <1>8, <1>9 DEF UpdaterStep

\* ip-list update: the files.
LEMMA ContentsStayTyped ==
    ASSUME RoutesInv, RoutesTyped, NEW u \in Updaters,
           StartDownload(u) \/ UpdaterStep(u) \/ UpdaterKilled(u)
    PROVE  ContentsTyped' /\ shared' \subseteq ListFiles
<1>1. /\ lists \in [ListFiles -> FileContent] /\ temp \in [ListFiles -> SUBSET FileContent]
      /\ \A f \in ListFiles :
            /\ Belongs(lists[f], f)
            /\ temp[f] = {} \/ \E content : temp[f] = {content} /\ Belongs(content, f)
  BY DEF RoutesInv, ListsInv, ListTypes, RoutesTyped, ContentsTyped
<1>2. upd[u].step \in {"stage", "copy", "rename"} => Current(u) \in ListFiles
  BY CurrentIsList DEF RoutesInv, ListsInv, OpenWhileCopying
<1>3. PICK g : g = Current(u)  OBVIOUS
<1>4. Belongs(Torn, g) /\ \A v : Belongs(Networks(g, v), g)
  BY DEF Belongs, Networks, Torn
<1>5. CASE UNCHANGED <<lists, temp, shared>>
  BY <1>1, <1>5 DEF ContentsTyped, RoutesTyped
<1>6. CASE OpenTemp(u)
  <2>1. /\ g \in ListFiles /\ temp' = [temp EXCEPT ![g] = {Torn}] /\ lists' = lists
        /\ shared' \subseteq shared \cup {g}
    BY <1>2, <1>3, <1>6 DEF OpenTemp
  <2>2. QED  BY <1>1, <1>4, <2>1 DEF ContentsTyped, RoutesTyped
<1>7. CASE Copy(u)
  <2>1. PICK content : content = Networks(g, upd[u].staged)  OBVIOUS
  <2>2. /\ g \in ListFiles /\ shared' = shared
        /\ temp' = temp \/ temp' = [temp EXCEPT ![g] = {content}]
        /\ lists' = lists \/ lists' = [lists EXCEPT ![g] = content]
    BY <1>2, <1>3, <1>7, <2>1 DEF Copy
  <2>3. QED  BY <1>1, <1>4, <2>1, <2>2 DEF ContentsTyped, RoutesTyped
<1>8. CASE Rename(u)
  <2>1. PICK content : temp[g] = {content} /\ Belongs(content, g)
    BY <1>1, <1>2, <1>3, <1>8 DEF Rename
  <2>2. /\ g \in ListFiles /\ shared' = shared /\ temp' = [temp EXCEPT ![g] = {}]
        /\ lists' = [lists EXCEPT ![g] = content]
    BY <1>2, <1>3, <1>8, <2>1 DEF Rename
  <2>3. QED  BY <1>1, <2>1, <2>2 DEF ContentsTyped, RoutesTyped
<1>9. QED
  BY <1>5, <1>6, <1>7, <1>8
     DEF UpdaterStep, StartDownload, Fetch, RenameFails, EndUpdate, UpdaterKilled

\* ip-list update: a whole step.
LEMMA UpdaterTyped ==
    ASSUME RoutesInv, RoutesTyped, NEW u \in Updaters,
           StartDownload(u) \/ UpdaterStep(u) \/ UpdaterKilled(u)
    PROVE  RoutesTyped'
<1>1. /\ UNCHANGED <<up, moving, job>> /\ pending' \in BOOLEAN
      /\ lost' \subseteq lost \cup {"lists"}
  <2>1. CASE StartDownload(u) \/ Fetch(u) \/ OpenTemp(u) \/ Copy(u) \/ Rename(u)
    BY <2>1 DEF StartDownload, Fetch, OpenTemp, Copy, Rename, linkVars, RoutesTyped, LinksTyped
  <2>2. CASE RenameFails(u) \/ EndUpdate(u) \/ UpdaterKilled(u)
    BY <2>2 DEF RenameFails, EndUpdate, UpdaterKilled, GivesUp, linkVars, RoutesTyped, LinksTyped
  <2>3. QED  BY <2>1, <2>2 DEF UpdaterStep
<1>2. RefreshersTyped' /\ LinksTyped'
  BY <1>1 DEF RoutesTyped, RefreshersTyped, LinksTyped
<1>3. UpdatersTyped'  BY UpdatersStayTyped
<1>4. ContentsTyped' /\ shared' \subseteq ListFiles  BY ContentsStayTyped
<1>5. QED  BY <1>1, <1>2, <1>3, <1>4 DEF RoutesTyped

\* Every step of the routes.
LEMMA RoutesTypesStep == ASSUME RoutesInv, RoutesTyped, Next PROVE RoutesTyped'
<1>1. "locked" \in Refreshers  BY DEF Refreshers
<1>2. CASE \/ TakeEvent \/ HandlerFails
           \/ Update({"Gateway", "FwMark", "RouteTable", "RouteRuleSet"})
           \/ Update({"RouteRuleSet"})
  BY <1>1, <1>2, RefresherTyped
<1>3. CASE \E p \in Refreshers : ProcessNow(p) \/ RefreshStep(p) \/ Killed(p)
  BY <1>3, RefresherTyped
<1>4. CASE \E l \in Links : LinkUp(l) \/ PppDown(l) \/ Hook(l) \/ IfDown(l) \/ GoesDown(l)
  BY <1>4, LinkTyped
<1>5. CASE \E u \in Updaters : StartDownload(u) \/ UpdaterStep(u) \/ UpdaterKilled(u)
  BY <1>5, UpdaterTyped
<1>6. QED  BY <1>2, <1>3, <1>4, <1>5 DEF Next

-----------------------------------------------------------------------------
(* Every part keeps the types of its variables.                            *)

\* What a spelling stands for is no spelling itself.
LEMMA StoreTypesHold == ASSUME StoreShapes PROVE Store!TypeOK
<1>1. ASSUME Store!Load(FALSE) # Error
      PROVE  \A k \in DOMAIN Store!Load(FALSE) : k[1] \notin DOMAIN StoreAlias
  <2>1. PICK store : store = Store!Load(FALSE)  OBVIOUS
  <2>2. Built(store, Places, FALSE) /\ store # Error
    BY <1>1, <2>1, LoadsAreBuilt DEF BothBuilt
  <2>3. \A k \in DOMAIN store : k \in StoreKeys
    <3>1. Places \in SUBSET Places /\ FALSE \in BOOLEAN  OBVIOUS
    <3>2. QED  BY <2>2, <3>1, BuiltOfDocuments
  <2>4. \A k \in StoreKeys : k[1] \notin DOMAIN StoreAlias
    <3>1. SUFFICES ASSUME NEW doc \in StoreDocs
                   PROVE  Store!Key(doc)[1] \notin DOMAIN StoreAlias
      BY DEF StoreKeys
    <3>2. Store!Key(doc)[1] = Store!ResolveKindAlias(doc.kind)  BY DEF Store!Key
    <3>3. QED  BY <3>2, StoreAssumption
  <2>5. QED  BY <2>1, <2>3, <2>4
<1>2. QED  BY <1>1 DEF Store!TypeOK, StoreShapes

\* A step of another part.
LEMMA RoutesTypesStutter == ASSUME RoutesTyped, UNCHANGED vars PROVE RoutesTyped'
<1>1. UNCHANGED <<up, moving, pending, job, lists, temp, upd, lost, shared>>
  BY DEF vars, linkVars, listVars
<1>2. QED
  BY <1>1 DEF RoutesTyped, RefreshersTyped, LinksTyped, UpdatersTyped, ContentsTyped

\* A step of another part.
LEMMA DockerTypesStutter == ASSUME DockerTyped, UNCHANGED dockerVars PROVE DockerTyped'
<1>1. UNCHANGED <<compose, files, cont, dockerUp, dnsFile, served, dockerPending, dockerJob, owed>>
  BY DEF dockerVars
<1>2. DockerFilesTyped' /\ DockerContTyped' /\ DockerRecordsTyped' /\ DockerJobTyped'
  BY <1>1 DEF DockerTyped, DockerFilesTyped, DockerContTyped, DockerRecordsTyped, DockerJobTyped,
              DockerPlaces
<1>3. QED  BY <1>1, <1>2 DEF DockerTyped

\* A step of another part.
LEMMA PkiBoundsStutter == ASSUME PkiBounded, UNCHANGED pkiVars PROVE PkiBounded'
<1>1. UNCHANGED PkiRecords /\ UNCHANGED <<lockedBy, ops, cuts>>  BY DEF pkiVars, PkiRecords
<1>2. /\ lockedBy \in Cli \cup {Pki!NoSession}
      /\ ops \in 0..MaxOps /\ cuts \in 0..MaxCuts
  BY DEF PkiBounded
<1>3. QED  BY <1>1, <1>2, PkiSameRecords

\* The types of the chosen part, with the bounds they depend on.
TypesHold ==
    /\ part = "routes" => RoutesTyped
    /\ part = "docker" => DockerTyped
    /\ part = "pki" => PkiBounded

\* The variables keep their types, whichever part is chosen: refreshers only see links and
\* updaters only lists that exist, list files hold networks of their own list, containers
\* have addresses of docker's, openssl's serials and the revoked ids stay below what was
\* signed.
THEOREM TypesInvariant == ASSUME Web = {} PROVE ServicesSpec => []TypesHold
<1>1. Start => TypesHold
  BY RoutesTypesInit, DockerTypesInit, PkiBoundsInit DEF Start, TypesHold
<1>2. ASSUME RoutesHold, DockerHold, PkiHolds, TypesHold,
             [\/ OfRoutes(Next) \/ OfDocker(Docker!Next) \/ OfPki(Pki!Next)
              \/ OfStore(Store!Next) \/ OfOrder(Order!Next)]_all
      PROVE  TypesHold'
  <2>1. CASE OfRoutes(Next)
    <3>1. part = "routes" /\ part' = "routes" /\ RoutesInv /\ RoutesTyped /\ Next
      BY <1>2, <2>1 DEF OfRoutes, RoutesHold, TypesHold
    <3>2. QED  BY <3>1, RoutesTypesStep DEF TypesHold
  <2>2. CASE OfDocker(Docker!Next)
    <3>1. part = "docker" /\ part' = "docker" /\ DockerInv /\ DockerTyped /\ Docker!Next
      BY <1>2, <2>2 DEF OfDocker, DockerHold, TypesHold
    <3>2. QED  BY <3>1, DockerTypesStep DEF TypesHold
  <2>3. CASE OfPki(Pki!Next)
    <3>1. part = "pki" /\ part' = "pki" /\ PkiInv /\ PkiBounded /\ Pki!Next
      BY <1>2, <2>3 DEF OfPki, PkiHolds, TypesHold
    <3>2. QED  BY <3>1, PkiBoundsStep DEF TypesHold
  <2>4. CASE OfStore(Store!Next) \/ OfOrder(Order!Next)
    BY <2>4 DEF OfStore, OfOrder, TypesHold
  <2>5. CASE UNCHANGED all
    <3>1. UNCHANGED <<part, vars, dockerVars, pkiVars>>  BY <2>5 DEF all
    <3>2. QED
      BY <1>2, <3>1, RoutesTypesStutter, DockerTypesStutter, PkiBoundsStutter DEF TypesHold
  <2>6. QED  BY <1>2, <2>1, <2>2, <2>3, <2>4, <2>5
<1>3. QED
  BY <1>1, <1>2, RoutesInvariant, DockerInvariant, PkiInvariant, PTL DEF ServicesSpec

\* The type invariant of every part, for any of their constants; of the PKI under gw ovpn
\* alone.
THEOREM ServicesTypes == ASSUME Web = {} PROVE ServicesSpec => []ServicesTypeOK
<1>1. RoutesHold /\ DockerHold /\ PkiHolds /\ StoreInv /\ TypesHold => ServicesTypeOK
  BY RoutesTypesHold, DockerTypesHold, PkiTyped, StoreTypesHold
     DEF RoutesHold, DockerHold, DockerInv, PkiHolds, StoreInv, TypesHold, ServicesTypeOK
<1>2. QED
  BY <1>1, RoutesInvariant, DockerInvariant, PkiInvariant, StoreInvariant, TypesInvariant, PTL

=============================================================================
