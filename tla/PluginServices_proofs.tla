------------------------ MODULE PluginServices_proofs ------------------------
(***************************************************************************)
(* Proofs about what gw update leaves running: every service has read the  *)
(* files on disk, whatever was edited, failed or killed before, a reboot   *)
(* starts what runs, and a run after a full one finds nothing to do.       *)
(***************************************************************************)
EXTENDS MCUpdate_proofs

-----------------------------------------------------------------------------
(* What a step of a run does, to its list and to the services.             *)

\* The steps a run has still to take in the plugin it is at.
Left == ToSet(run.steps)

\* They are in order, and the commands the plugin does not go without are among them, as
\* long as anything is left that these commands are for.
OrderInv ==
    run.at \in Plugin =>
        /\ InOrder(run.steps)
        /\ \A x \in Left : Fits(x, run.at)
        /\ \A m \in Must(run.mode, run.at) : m.op \in Commands => m \in Left \/ NoMore(Left)

\* The run takes its step x, and passes over those behind it that are not due.
Goes(x) ==
    /\ run.at \in Plugin /\ x \in Left /\ StepOK(x, run.at) /\ Fits(x, run.at)
    /\ Left' \subseteq Left
    /\ \A y \in Left : \/ y = x \/ y \in Left'
                       \/ ~Due(y, run'.changed) /\ (y.op \in Commands => NoMore(Left)')
    /\ x.op \in Commands => NoMore(Left)'
    /\ x.op = "write" => \A s \in Service : x.on \in Reads[s] =>
          Unread(x, s) \/ \E y \in Left : Ends(y, s, x.on)
    /\ run.changed \subseteq run'.changed
    /\ run'.at = run.at /\ run'.mode = run.mode /\ run'.sel = run.sel /\ run'.todo = run.todo
    /\ UNCHANGED <<conf, coredns, cached, china, applied, last>>

\* The run writes the names that are cached now, if any.
Current == run.names \subseteq {cached}
\* What the step x may write; the China names may be rendered from older ones.
Given(x, content) == content = Rendered(x) \/ (x.on = "chinaConf" /\ ~Current)

\* What the step x does to the machine.
Does(x) ==
    /\ \A s : s \in up \ up' \/ s \in boot \ boot' => x.op \in {"disable", "tryDisable"} /\ s = x.on
    /\ \A s : s \in up' \ up \/ s \in boot' \ boot =>
          \/ x.op = "install" /\ s \in Packages[run.at]
          \/ x.op \in {"restart", "load", "loadIfThere", "enable"} /\ s = x.on
    /\ x.op = "install" =>
          run.at \in pkgs' /\ "packages" \in run'.changed /\ Packages[run.at] \subseteq up' \cap boot'
    /\ x.op \in {"restart", "load", "enable"} => x.on \in up'
    /\ x.op = "enable" => x.on \in boot'
    /\ x.op = "disable" => x.on \notin up' \cup boot'
    /\ x.op = "tryDisable" => x.on \notin up' \cup boot' \/ run.at \in cut'
    /\ pkgs \subseteq pkgs' /\ cut \subseteq cut'
    /\ \A p \in pkgs' \ pkgs : x.op = "install" /\ p = run.at
    /\ x.op = "write" => Given(x, disk'[x.on])
    /\ \A f \in File : \/ disk'[f] = disk[f]
                       \/ /\ x.op = "write" /\ f = x.on /\ f \in run'.changed
                          /\ Given(x, disk'[f])
    /\ \A y \in run'.changed : \/ y \in run.changed
                               \/ x.op = "install" /\ y = "packages"
                               \/ x.op = "write" /\ y = x.on
    /\ \A y \in stale' : \/ y \in stale
                         \/ /\ x.op = "write" /\ y[2] = x.on /\ x.on \in run'.changed
                            /\ y[1] \in Service \cap up /\ y[2] \in Reads[y[1]]
    /\ x.op \in {"restart", "load"} \/ (x.op = "loadIfThere" /\ FirewallThere) =>
          \A y \in stale' : y[1] # x.on
    /\ x.op \in {"disable", "tryDisable"} => run.at \in cut' \/ \A y \in stale' : y[1] # x.on

\* What is asked of the plugins depends on the configuration and on the binary.
LEMMA ScriptStays ==
    ASSUME NEW p, NEW mode, UNCHANGED <<conf, coredns>>
    PROVE  /\ Must(mode, p)' = Must(mode, p)
           /\ \A x : Fits(x, p)' <=> Fits(x, p)
           /\ \A s : SwitchedOff(s)' <=> SwitchedOff(s)
           /\ On("pd")' <=> On("pd")
<1>1. (On("pd")' <=> On("pd")) /\ (On("collectd")' <=> On("collectd"))  BY DEF On
<1>2. \A s : SwitchedOff(s)' <=> SwitchedOff(s)  BY <1>1 DEF SwitchedOff
<1>3. Must(mode, p)' = Must(mode, p)  BY <1>1 DEF Must
<1>4. \A x : Fits(x, p)' <=> Fits(x, p)  BY <1>1, <1>2 DEF Fits
<1>5. QED  BY <1>1, <1>2, <1>3, <1>4

\* Taking a step keeps the list in order.
LEMMA GoesOn ==
    ASSUME RunInv, OrderInv, run.steps # <<>>, NEW ch,
           run'.steps = Rest(Tail(run.steps), ch), run'.changed = ch, run.changed \subseteq ch,
           run'.at = run.at, run'.mode = run.mode, run'.sel = run.sel, run'.todo = run.todo,
           UNCHANGED <<conf, coredns, cached, china, applied, last>>
    PROVE  Goes(Now) /\ OrderInv'
<1>. DEFINE T == ToSet(Tail(run.steps))
            now == Head(run.steps)
<1>1. run.at \in Plugin /\ StepsOK(run.steps, run.at) /\ StepOK(Now, run.at)
  BY StepHere DEF RunInv
<1>2. PICK S : run.steps \in Seq(S)  BY <1>1 DEF StepsOK
<1>3. InOrder(run.steps) /\ \A x \in Left : Fits(x, run.at)  BY <1>1 DEF OrderInv
<1>4. /\ Tail(run.steps) \in Seq(S) /\ InOrder(Tail(run.steps)) /\ T \subseteq Left
      /\ now \in Left /\ \A x \in Left : x = now \/ x \in T
      /\ now.op \in Commands => NoMore(T)
      /\ now.op = "write" => \A s \in Service : now.on \in Reads[s] =>
            Unread(now, s) \/ \E x \in T : Ends(x, s, now.on)
  BY <1>2, <1>3, TailInOrder DEF Left
<1>5. /\ InOrder(run'.steps) /\ Left' \subseteq T
      /\ \A x \in T : x \in Left' \/ (~Due(x, ch) /\ (x.op \in Commands => NoMore(Left')))
  <2>. DEFINE t == Tail(run.steps)
  <2>1. t \in Seq(S) /\ InOrder(t)  BY <1>4
  <2>. HIDE DEF t
  <2>2. /\ InOrder(Rest(t, ch)) /\ ToSet(Rest(t, ch)) \subseteq ToSet(t)
        /\ \A x \in ToSet(t) : \/ x \in ToSet(Rest(t, ch))
                               \/ ~Due(x, ch) /\ (x.op \in Commands => NoMore(ToSet(Rest(t, ch))))
    BY <2>1, LeftInOrder
  <2>3. run'.steps = Rest(t, ch)  BY DEF t
  <2>4. QED  BY <2>2, <2>3 DEF Left, t
<1>. DEFINE L == Left'
<1>6. Left' = L /\ NoMore(Left)' = NoMore(L)  BY DEF NoMore
<1>. HIDE DEF T, now, L
<1>7. Now = now  BY DEF Now, now
<1>8. NoMore(T) => NoMore(L)  BY <1>5, <1>6 DEF NoMore
<1>9. Goes(now)
  BY <1>1, <1>3, <1>4, <1>5, <1>6, <1>7, <1>8 DEF Goes
<1>10. OrderInv'
  <2>0. \A q, n : Must(n, q)' = Must(n, q) /\ \A x : Fits(x, q)' <=> Fits(x, q)  BY ScriptStays
  <2>1. InOrder(run.steps)' /\ \A x \in L : Fits(x, run.at)'
    <3>1. \A x \in L : Fits(x, run.at)  BY <1>3, <1>4, <1>5, <1>6
    <3>2. \A x : Fits(x, run.at)' <=> Fits(x, run.at)
      <4>1. \A q, x : q = run'.at => (Fits(x, q)' <=> Fits(x, run.at)')  OBVIOUS
      <4>2. QED  BY <2>0, <4>1
    <3>3. InOrder(run.steps)'  BY <1>5, Zenon DEF InOrder
    <3>4. QED  BY <3>1, <3>2, <3>3
  <2>2. ASSUME NEW m \in Must(run.mode, run.at), m.op \in Commands PROVE m \in L \/ NoMore(L)
    <3>1. m \in Left \/ NoMore(Left)  BY <1>1, <2>2 DEF OrderInv
    <3>2. NoMore(Left) => NoMore(L)  BY <1>4, <1>5, <1>6 DEF NoMore
    <3>3. QED  BY <1>4, <1>5, <1>6, <1>8, <2>2, <3>1, <3>2
  <2>3. Must(run.mode, run.at)' = Must(run.mode, run.at)  BY <2>0
  <2>4. QED  BY <1>6, <2>1, <2>2, <2>3 DEF OrderInv
<1>11. QED  BY <1>7, <1>9, <1>10

\* A step of a run.
Works == WriteFile \/ Install \/ MarkStale \/ Restart \/ Enable \/ Disable

\* Each of them is a step through the list.
LEMMA WorkGoes ==
    ASSUME RunInv, OrderInv, Works
    PROVE  run.steps # <<>> /\ Goes(Now) /\ OrderInv'
<1>1. /\ run.steps # <<>> /\ UNCHANGED <<conf, coredns, cached, china, applied, last>>
      /\ \E ch : /\ run'.steps = Rest(Tail(run.steps), ch) /\ run'.changed = ch
                 /\ run.changed \subseteq ch
      /\ run'.at = run.at /\ run'.mode = run.mode /\ run'.sel = run.sel /\ run'.todo = run.todo
  <2>1. CASE Install
    <3>. DEFINE now2 == run.changed \cup {"packages"}
    <3>1. /\ run.steps # <<>> /\ run'.steps = Rest(Tail(run.steps), now2)
          /\ run'.changed = now2 /\ run'.at = run.at /\ run'.mode = run.mode
          /\ run'.sel = run.sel /\ run'.todo = run.todo
      BY <2>1 DEF Install, RunInv, Idle
    <3>2. UNCHANGED <<conf, coredns, cached, china, applied, last>>  BY <2>1 DEF Install
    <3>3. run.changed \subseteq now2  OBVIOUS
    <3>. HIDE DEF now2
    <3>4. QED  BY <3>1, <3>2, <3>3
  <2>2. CASE MarkStale
    BY <2>2 DEF MarkStale, RunInv, Idle, machine
  <2>3. CASE WriteFile \/ Restart \/ Enable \/ Disable
    <3>1. /\ \E ch, did : GoOn(ch, did)
          /\ run.steps # <<>> /\ UNCHANGED <<conf, coredns, cached, china, applied, last>>
      BY <2>3, Zenon DEF WriteFile, Restart, Enable, Disable
    <3>2. PICK ch, did : GoOn(ch, did)  BY <3>1
    <3>. DEFINE all2 == run.changed \cup ch
    <3>3. /\ run'.steps = Rest(Tail(run.steps), all2) /\ run'.changed = all2
          /\ run'.at = run.at /\ run'.mode = run.mode /\ run'.sel = run.sel
          /\ run'.todo = run.todo
      BY <3>2 DEF GoOn, RunInv, Idle
    <3>4. run.changed \subseteq all2  OBVIOUS
    <3>. HIDE DEF all2
    <3>5. QED  BY <3>1, <3>3, <3>4
  <2>4. QED  BY <2>1, <2>2, <2>3 DEF Works
<1>2. PICK ch : /\ run'.steps = Rest(Tail(run.steps), ch) /\ run'.changed = ch
                /\ run.changed \subseteq ch
  BY <1>1
<1>3. QED  BY <1>1, <1>2, GoesOn

\* And does to the machine what its command says.
LEMMA WorkDoes ==
    ASSUME RunInv, MachineInv, Works
    PROVE  Does(Now)
<1>1. run.steps # <<>>  BY DEF Works, WriteFile, Install, MarkStale, Restart, Enable, Disable
<1>2. StepOK(Now, run.at) /\ run.at \in Plugin  BY <1>1, StepHere
<1>3. PICK x : x = Now  OBVIOUS
<1>4. CASE WriteFile
  <2>1. PICK new, ch :
           /\ ch = IF new = disk[Now.on] THEN {} ELSE {Now.on}
           /\ disk' = [disk EXCEPT ![Now.on] = new]
           /\ stale' = stale \cup Stale(ch) /\ GoOn(ch, ch)
           /\ \/ new = Rendered(Now)
              \/ Now.on = "chinaConf" /\ OfNames(Now) /\ \E n \in run.names : new = Names(Now, n)
    BY <1>4, FileWritten
  <2>0. Given(Now, new)
    <3>1. SUFFICES ASSUME OfNames(Now), Current, NEW n \in run.names, new = Names(Now, n)
                   PROVE  new = Rendered(Now)
      BY <2>1 DEF Given
    <3>2. n = cached  BY <3>1 DEF Current
    <3>3. QED  BY <3>1, <3>2 DEF Rendered
  <2>2. /\ Now.op = "write" /\ disk' = [disk EXCEPT ![Now.on] = new]
        /\ stale' = stale \cup Stale(ch) /\ GoOn(ch, ch)
        /\ UNCHANGED <<up, boot, pkgs, cut>>
    BY <1>4, <2>1 DEF WriteFile
  <2>3. run'.changed = run.changed \cup ch  BY <2>2 DEF GoOn, RunInv, Idle
  <2>4. DOMAIN disk = File  BY DEF MachineInv
  <2>5. \A f \in File : \/ disk'[f] = disk[f]
                        \/ (f = Now.on /\ f \in run'.changed /\ Given(Now, disk'[f]))
    <3>1. SUFFICES ASSUME NEW f \in File, disk'[f] # disk[f]
                   PROVE  f = Now.on /\ f \in run'.changed /\ Given(Now, disk'[f])
      OBVIOUS
    <3>2. f = Now.on /\ disk'[f] = new  BY <2>2, <2>4, <3>1
    <3>3. ch = {Now.on}  BY <2>1, <3>1, <3>2
    <3>4. Given(Now, disk'[f])  BY <2>0, <3>2
    <3>5. QED  BY <2>3, <3>2, <3>3, <3>4
  <2>6. \A y \in run'.changed : y \in run.changed \/ y = Now.on  BY <2>1, <2>3
  <2>7. \A y \in stale' : \/ y \in stale
                          \/ /\ y[2] = Now.on /\ Now.on \in run'.changed
                             /\ y[1] \in Service \cap up /\ y[2] \in Reads[y[1]]
    BY <2>1, <2>2, <2>3 DEF Stale
  <2>8. Given(Now, disk'[Now.on])
    <3>1. disk'[Now.on] = new  BY <1>2, <2>2, <2>4 DEF StepOK
    <3>2. QED  BY <2>0, <3>1
  <2>9. Does(x)
    BY <1>3, <2>2, <2>5, <2>6, <2>7, <2>8 DEF Does
  <2>10. QED  BY <1>3, <2>9
<1>5. CASE Install
  <2>1. /\ Now.op = "install" /\ Now.on = run.at /\ pkgs' = pkgs \cup {Now.on}
        /\ boot' = boot \cup Packages[Now.on] /\ UNCHANGED <<disk, cut>>
        /\ up' = up \cup Packages[Now.on] /\ stale' \subseteq stale
    BY <1>2, <1>5 DEF Install, Start, StepOK
  <2>2. run'.changed = run.changed \cup {"packages"}  BY <1>5 DEF Install, RunInv, Idle
  <2>3. Does(x)  BY <1>3, <2>1, <2>2 DEF Does
  <2>4. QED  BY <1>3, <2>3
<1>6. CASE MarkStale
  <2>1. Now.op = "stale" /\ UNCHANGED <<disk, up, stale, boot, pkgs, cut>>
    BY <1>6 DEF MarkStale, machine
  <2>2. run'.changed = run.changed  BY <1>6 DEF MarkStale, RunInv, Idle
  <2>3. Does(x)  BY <1>3, <2>1, <2>2 DEF Does
  <2>4. QED  BY <1>3, <2>3
<1>7. CASE Restart
  <2>1. PICK s : s = IF Now.op = "loadIfThere" /\ ~FirewallThere THEN {} ELSE {Now.on}  OBVIOUS
  <2>2. /\ Now.op \in {"restart", "load", "loadIfThere"} /\ Start(s) /\ GoOn({}, s)
        /\ UNCHANGED <<disk, boot, pkgs, cut>>
    BY <1>7, <2>1 DEF Restart
  <2>3. run'.changed = run.changed  BY <2>2 DEF GoOn, RunInv, Idle
  <2>4. up' = up \cup s /\ stale' = stale \ Of(s)  BY <2>2 DEF Start
  <2>5. \A y \in stale' : y \in stale /\ y[1] \notin s  BY <2>4 DEF Of
  <2>6. Does(x)  BY <1>3, <2>1, <2>2, <2>3, <2>4, <2>5 DEF Does
  <2>7. QED  BY <1>3, <2>6
<1>8. CASE Enable
  <2>1. /\ Now.op = "enable" /\ boot' = boot \cup {Now.on} /\ Start({Now.on} \ up)
        /\ GoOn({}, {}) /\ UNCHANGED <<disk, pkgs, cut>>
    BY <1>8 DEF Enable
  <2>2. run'.changed = run.changed  BY <2>1 DEF GoOn, RunInv, Idle
  <2>3. up' = up \cup {Now.on} /\ stale' \subseteq stale  BY <2>1 DEF Start
  <2>4. Does(x)  BY <1>3, <2>1, <2>2, <2>3 DEF Does
  <2>5. QED  BY <1>3, <2>4
<1>9. CASE Disable
  <2>1. /\ Now.op \in {"disable", "tryDisable"} /\ GoOn({}, {Now.on} \cap up)
        /\ UNCHANGED <<disk, pkgs>>
        /\ \/ boot' = boot \ {Now.on} /\ Stop({Now.on}) /\ UNCHANGED cut
           \/ Now.op = "tryDisable" /\ cut' = cut \cup {run.at} /\ UNCHANGED <<boot, up, stale>>
    BY <1>9 DEF Disable
  <2>2. run'.changed = run.changed  BY <2>1 DEF GoOn, RunInv, Idle
  <2>3. CASE boot' = boot \ {Now.on} /\ Stop({Now.on}) /\ UNCHANGED cut
    <3>1. up' = up \ {Now.on} /\ stale' = stale \ Of({Now.on})  BY <2>3 DEF Stop
    <3>2. \A y \in stale' : y \in stale /\ y[1] # Now.on  BY <3>1 DEF Of
    <3>3. Does(x)  BY <1>3, <2>1, <2>2, <2>3, <3>1, <3>2 DEF Does
    <3>4. QED  BY <1>3, <3>3
  <2>4. CASE Now.op = "tryDisable" /\ cut' = cut \cup {run.at} /\ UNCHANGED <<boot, up, stale>>
    <3>1. Does(x)  BY <1>3, <2>1, <2>2, <2>4 DEF Does
    <3>2. QED  BY <1>3, <3>1
  <2>5. QED  BY <2>1, <2>3, <2>4
<1>10. QED  BY <1>4, <1>5, <1>6, <1>7, <1>8, <1>9 DEF Works

-----------------------------------------------------------------------------
(* What holds of the services at every moment of a run.                    *)

\* What a boot starts in any case runs, and so does what came with a package that nobody
\* stops.
BaseInv ==
    /\ AtBoot \subseteq up
    /\ "docker.core" \in pkgs => "docker" \in up \cap boot
    /\ "network.core" \in pkgs => "dnsmasq" \in up \cap boot

\* An applied object has the packages of its plugin.
InstalledInv ==
    \A p \in {"network.core", "docker.core"} :
        /\ run.at = p => Step("install", p) \in Left \/ p \in pkgs
        /\ Kinds[p] \cap applied # {} => p \in pkgs

\* What the distribution starts is stopped, or is about to be.
DistroInv ==
    "network.core" \notin cut => \A s \in Distro :
        /\ "network" \in applied =>
              s \notin up \cup boot \/ (run.at = "network.core" /\ run.changed # {})
        /\ run.at = "network.core" =>
              Unwanted(s) \in Left \/ (s \notin up \cup boot /\ NoMore(Left))

\* A step of this list is due whatever it is for.
Hits(things) == things \cap (run.changed \cup {"always"}) # {}

\* The DHCPv6 client and radvd run when the prefix delegation is on, or will be started,
\* by a restart or, when nothing calls for one, by enable --now.
PdWill(s) ==
    LET restart == PdRestart(run.mode, s)
        enable == PdEnable(run.mode, s)
    IN \/ s \in up
       \/ restart \in Left /\ Hits(restart.if)
       \/ enable \in Left /\ (restart \in Left \/ (NoMore(Left) /\ ~Hits(restart.if)))
PdInv ==
    \A s \in {"pd", "radvd"} :
        /\ run.at = "network.ipv6pd" /\ On("pd") => PdWill(s)
        /\ run.at = "network.ipv6pd" /\ ~On("pd") =>
              Unwanted(s) \in Left \/ "network.ipv6pd" \in cut \/ s \notin up \cup boot
        /\ "pd" \in applied /\ "network.ipv6pd" \notin cut =>
              IF On("pd") THEN s \in up ELSE s \notin up \cup boot

\* The plugin p, which changed one of these things, has the step still before it.
Pends(p, things, step) == run.at = p /\ run.changed \cap things # {} /\ step \in Left

\* The service s runs and is enabled when its file f is there, or the commands are to come.
Serving(s, p, f, things, start, enable) ==
    disk[f] # Absent /\ p \notin cut =>
        /\ s \in up \/ Pends(p, things, start)
        /\ s \in boot \/ Pends(p, things, enable)
NftInv == Serving("nft", "network.firewall", "nftEntry", NftThings, NftLoad, NftEnable)
WgsdInv ==
    Serving("wgsd", "network.wgsd-coredns", "wgsdUnit", WgsdThings, WgsdRestart, WgsdEnable)

\* collectd does what its file says, or will be told to.
CollectdPends(step) == Pends("monitoring.collectd", CollectdThings, step)
CollectdInv ==
    disk["collectdConf"] # Absent /\ "monitoring.collectd" \notin cut =>
        \/ CollectdPends(CollectdDisable)
        \/ CollectdPends(CollectdRestart) /\ ("collectd" \in boot \/ CollectdEnable \in Left)
        \/ disk["collectdConf"].tag = "disabled" /\ "collectd" \notin up \cup boot
        \/ /\ disk["collectdConf"].tag # "disabled" /\ "collectd" \in up
           /\ "collectd" \in boot \/ CollectdPends(CollectdEnable)

\* Whose files a service reads.
Own(s) == {Owner(f) : f \in Reads[s]}

\* A command will make s read f, or stop it.
Awaits(s, f) ==
    /\ run.at \in Own(s) /\ run.changed # {}
    /\ \E x \in Left : /\ x.on = s /\ x.op \in Commands \ {"enable"} /\ x.unless = {}
                       /\ Hits(x.if) /\ (x.op = "loadIfThere" => f = "nftPd")

\* Why s may run with a file f that is older than the one on the disk.
Excused(s, f) ==
    \/ s = "wgsd" \/ f = "dnsmasqConf"
    \/ Own(s) \cap cut # {}
    \/ Awaits(s, f)
    \/ /\ s = "dnsmasq"
       /\ "china" \in cut \/ (china.changed /\ china.pc \in {"chinaManual", "restart"})
    \/ f = "nftPd" /\ (disk["nftPd"].tag = "disabled" \/ ~FirewallThere)
StaleInv ==
    \A y \in stale : y[1] \in Service /\ y[2] \in Reads[y[1]] /\ Excused(y[1], y[2])

\* Which objects and plugins a run is about.
SelInv ==
    /\ \A p \in {run.at} \cup run.todo : p = "monitoring.collectd" => "collectd" \in run.sel
    /\ run.mode = "event" =>
          /\ run.at \in {"", "network.ipv6pd"} /\ run.todo \subseteq {"network.ipv6pd"}
          /\ run.at = "" /\ On("pd") => run.todo # {}
          /\ run.at = "network.ipv6pd" => run.todo = {}
    /\ Running => last = None

\* The event restarts the client and radvd and loads the ruleset, in any case.
Clean(s) == s \in up /\ \A y \in stale : y[1] # s
NftClean == FirewallThere => \A y \in stale : y[1] # "nft"
EventInv ==
    /\ run.mode = "event" /\ run.at = "network.ipv6pd" /\ On("pd") =>
          /\ \A s \in {"pd", "radvd"} :
                PdRestart(run.mode, s) \in Left \/ (Clean(s) /\ NoMore(Left))
          /\ PdLoad(run.mode) \in Left \/ (NftClean /\ NoMore(Left))
    /\ last.mode = "event" /\ On("pd") => Clean("pd") /\ Clean("radvd") /\ NftClean

ServeInv ==
    /\ OrderInv /\ BaseInv /\ InstalledInv /\ DistroInv /\ PdInv /\ NftInv /\ WgsdInv
    /\ CollectdInv /\ StaleInv /\ SelInv /\ EventInv

-----------------------------------------------------------------------------
(* When a command is due.                                                  *)

\* The steps no list goes without: their fields.
LEMMA MustAre ==
    /\ \A p : Step("install", p).op = "install" /\ Step("install", p).on = p
    /\ \A s : Unwanted(s).op = "tryDisable" /\ Unwanted(s).on = s
    /\ \A mode, s :
          /\ PdRestart(mode, s).op = "restart" /\ PdRestart(mode, s).on = s
          /\ PdRestart(mode, s).if = Reads[s] \cup Forced(mode)
          /\ PdEnable(mode, s).op = "enable" /\ PdEnable(mode, s).on = s
    /\ \A mode : PdLoad(mode).op = "loadIfThere" /\ PdLoad(mode).on = "nft"
    /\ NftLoad.op = "load" /\ NftLoad.on = "nft"
    /\ NftEnable.op = "enable" /\ NftEnable.on = "nft"
    /\ WgsdRestart.op = "restart" /\ WgsdRestart.on = "wgsd"
    /\ WgsdEnable.op = "enable" /\ WgsdEnable.on = "wgsd"
    /\ CollectdRestart.op = "restart" /\ CollectdRestart.on = "collectd"
    /\ CollectdEnable.op = "enable" /\ CollectdEnable.on = "collectd"
    /\ CollectdDisable.op = "disable" /\ CollectdDisable.on = "collectd"
<1>1. \A p : Step("install", p).op = "install" /\ Step("install", p).on = p  BY CommandIs
<1>2. \A s : Unwanted(s).op = "tryDisable" /\ Unwanted(s).on = s  BY CommandIs DEF Unwanted
<1>3. ASSUME NEW mode, NEW s
      PROVE  /\ PdRestart(mode, s).op = "restart" /\ PdRestart(mode, s).on = s
             /\ PdRestart(mode, s).if = Reads[s] \cup Forced(mode)
             /\ PdEnable(mode, s).op = "enable" /\ PdEnable(mode, s).on = s
  <2>. DEFINE things == Reads[s] \cup Forced(mode)
  <2>1. PdRestart(mode, s) = If(things, Step("restart", s))
        /\ PdEnable(mode, s) = [Step("enable", s) EXCEPT !.unless = things]
    BY Zenon DEF PdRestart, PdEnable
  <2>. HIDE DEF things
  <2>2. /\ PdRestart(mode, s).op = "restart" /\ PdRestart(mode, s).on = s
        /\ PdRestart(mode, s).if = things
        /\ PdEnable(mode, s).op = "enable" /\ PdEnable(mode, s).on = s
    BY <2>1, CommandIs
  <2>3. QED  BY <2>2 DEF things
<1>4. \A mode : PdLoad(mode).op = "loadIfThere" /\ PdLoad(mode).on = "nft"
  BY CommandIs DEF PdLoad
<1>5. /\ NftLoad.op = "load" /\ NftLoad.on = "nft"
      /\ NftEnable.op = "enable" /\ NftEnable.on = "nft"
      /\ WgsdRestart.op = "restart" /\ WgsdRestart.on = "wgsd"
      /\ WgsdEnable.op = "enable" /\ WgsdEnable.on = "wgsd"
  BY CommandIs DEF NftLoad, NftEnable, WgsdRestart, WgsdEnable
<1>6. /\ CollectdRestart.op = "restart" /\ CollectdRestart.on = "collectd"
      /\ CollectdEnable.op = "enable" /\ CollectdEnable.on = "collectd"
      /\ CollectdDisable.op = "disable" /\ CollectdDisable.on = "collectd"
  BY CommandIs DEF CollectdRestart, CollectdEnable, CollectdDisable
<1>7. QED  BY <1>1, <1>2, <1>3, <1>4, <1>5, <1>6

\* A command with nothing against it is due when one of its things has changed; enabling
\* what runs and is enabled, installing what is installed and stopping what does not run
\* are not.
LEMMA WhenDue ==
    ASSUME NEW ch
    PROVE  /\ \A x : /\ x.op \in {"restart", "load", "loadIfThere", "disable"} /\ x.unless = {}
                     /\ x.if \cap (ch \cup {"always"}) # {}
                     => Due(x, ch)
           /\ \A x : /\ x.op = "tryDisable" /\ x.unless = {} /\ x.on \in boot \cup up
                     /\ x.if \cap (ch \cup {"always"}) # {}
                     => Due(x, ch)
           /\ \A x : /\ x.op = "enable" /\ x.unless = {} /\ x.on \notin boot \cap up
                     /\ x.if \cap (ch \cup {"always"}) # {}
                     => Due(x, ch)
<1>1. ASSUME NEW x, x.op \in {"restart", "load", "loadIfThere", "disable"}, x.unless = {},
             x.if \cap (ch \cup {"always"}) # {}
      PROVE  Due(x, ch)
  BY <1>1 DEF Due
<1>2. ASSUME NEW x, x.op = "tryDisable", x.unless = {}, x.if \cap (ch \cup {"always"}) # {},
             x.on \in boot \cup up
      PROVE  Due(x, ch)
  BY <1>2 DEF Due
<1>3. ASSUME NEW x, x.op = "enable", x.unless = {}, x.if \cap (ch \cup {"always"}) # {},
             x.on \notin boot \cap up
      PROVE  Due(x, ch)
  BY <1>3 DEF Due
<1>4. QED  BY <1>1, <1>2, <1>3

LEMMA NotDueIs ==
    ASSUME NEW ch
    PROVE  /\ \A p : ~Due(Step("install", p), ch) => p \in pkgs
           /\ \A s : ~Due(Unwanted(s), ch) => s \notin boot \cup up /\ "packages" \notin ch
           /\ \A mode, s : ~Due(PdRestart(mode, s), ch) =>
                 PdRestart(mode, s).if \cap (ch \cup {"always"}) = {}
           /\ \A mode, s : ~Due(PdEnable(mode, s), ch) =>
                 s \in up \/ PdRestart(mode, s).if \cap (ch \cup {"always"}) # {}
           /\ Due(PdRestart("event", "pd"), ch) /\ Due(PdRestart("event", "radvd"), ch)
           /\ Due(PdLoad("event"), ch)
           /\ ch \cap NftThings # {} => Due(NftLoad, ch) /\ (Due(NftEnable, ch) \/ "nft" \in boot)
           /\ ch \cap WgsdThings # {} =>
                 Due(WgsdRestart, ch) /\ (Due(WgsdEnable, ch) \/ "wgsd" \in boot)
           /\ ch \cap CollectdThings # {} =>
                 /\ Due(CollectdRestart, ch) /\ Due(CollectdDisable, ch)
                 /\ Due(CollectdEnable, ch) \/ "collectd" \in boot
<1>1. ASSUME NEW p, ~Due(Step("install", p), ch) PROVE p \in pkgs
  <2>1. /\ Step("install", p).op = "install" /\ Step("install", p).on = p
        /\ Step("install", p).if = {"always"} /\ Step("install", p).unless = {}
    BY CommandIs
  <2>2. QED  BY <1>1, <2>1 DEF Due
<1>2. ASSUME NEW s, ~Due(Unwanted(s), ch) PROVE s \notin boot \cup up /\ "packages" \notin ch
  <2>1. /\ Unwanted(s).op = "tryDisable" /\ Unwanted(s).on = s
        /\ Unwanted(s).if = {"always"} /\ Unwanted(s).unless = {}
    BY CommandIs DEF Unwanted
  <2>2. QED  BY <1>2, <2>1 DEF Due
<1>3. ASSUME NEW op \in {"restart", "load", "loadIfThere", "disable"}, NEW on, NEW things,
             things \cap (ch \cup {"always"}) # {}
      PROVE  Due(If(things, Step(op, on)), ch)
  <2>. DEFINE x == If(things, Step(op, on))
  <2>1. x.op = op /\ x.if = things /\ x.unless = {}  BY CommandIs
  <2>. HIDE DEF x
  <2>2. Due(x, ch)  BY <1>3, <2>1, WhenDue
  <2>3. QED  BY <2>2 DEF x
<1>4. ASSUME NEW on, NEW things, things \cap (ch \cup {"always"}) # {}, on \notin boot
      PROVE  Due(If(things, Step("enable", on)), ch)
  <2>. DEFINE x == If(things, Step("enable", on))
  <2>1. x.op = "enable" /\ x.if = things /\ x.unless = {} /\ x.on = on  BY CommandIs
  <2>. HIDE DEF x
  <2>2. Due(x, ch)  BY <1>4, <2>1, WhenDue
  <2>3. QED  BY <2>2 DEF x
<1>5. ASSUME NEW mode, NEW s, ~Due(PdRestart(mode, s), ch)
      PROVE  PdRestart(mode, s).if \cap (ch \cup {"always"}) = {}
  <2>1. PdRestart(mode, s) = If(PdRestart(mode, s).if, Step("restart", s))
    BY MustAre, Zenon DEF PdRestart
  <2>2. QED  BY <1>3, <1>5, <2>1
<1>6. ASSUME NEW mode, NEW s, ~Due(PdEnable(mode, s), ch)
      PROVE  s \in up \/ PdRestart(mode, s).if \cap (ch \cup {"always"}) # {}
  <2>. DEFINE things == Reads[s] \cup Forced(mode)
              x == PdEnable(mode, s)
  <2>1. x = [Step("enable", s) EXCEPT !.unless = things]  BY Zenon DEF PdEnable
  <2>2. PdRestart(mode, s).if = things  BY MustAre
  <2>. HIDE DEF things, x
  <2>3. x.op = "enable" /\ x.on = s /\ x.if = {"always"} /\ x.unless = things  BY <2>1, CommandIs
  <2>4. ~Due(x, ch)  BY <1>6 DEF x
  <2>5. QED  BY <2>2, <2>3, <2>4 DEF Due
<1>7. /\ Due(PdRestart("event", "pd"), ch) /\ Due(PdRestart("event", "radvd"), ch)
      /\ Due(PdLoad("event"), ch)
  <2>1. Forced("event") = {"always"}  BY DEF Forced
  <2>2. \A s : "always" \in PdRestart("event", s).if  BY <2>1, MustAre
  <2>3. \A s : Due(PdRestart("event", s), ch)  BY <1>5, <2>2
  <2>. DEFINE things == {"nftPd"} \cup Forced("event")
  <2>4. "always" \in things  BY <2>1
  <2>5. PdLoad("event") = If(things, Step("loadIfThere", "nft"))  BY Zenon DEF PdLoad
  <2>. HIDE DEF things
  <2>6. things \cap (ch \cup {"always"}) # {}  BY <2>4
  <2>7. QED  BY <1>3, <2>3, <2>5, <2>6
<1>8. ASSUME NEW things, ch \cap things # {} PROVE things \cap (ch \cup {"always"}) # {}
  BY <1>8
<1>9. ch \cap NftThings # {} => Due(NftLoad, ch) /\ (Due(NftEnable, ch) \/ "nft" \in boot)
  BY <1>3, <1>4, <1>8 DEF NftLoad, NftEnable
<1>10. ch \cap WgsdThings # {} => Due(WgsdRestart, ch) /\ (Due(WgsdEnable, ch) \/ "wgsd" \in boot)
  BY <1>3, <1>4, <1>8 DEF WgsdRestart, WgsdEnable
<1>11. ch \cap CollectdThings # {} =>
          /\ Due(CollectdRestart, ch) /\ Due(CollectdDisable, ch)
          /\ Due(CollectdEnable, ch) \/ "collectd" \in boot
  BY <1>3, <1>4, <1>8 DEF CollectdRestart, CollectdEnable, CollectdDisable
<1>12. QED  BY <1>1, <1>2, <1>5, <1>6, <1>7, <1>9, <1>10, <1>11

-----------------------------------------------------------------------------
(* The other steps of the system.                                          *)

\* A plugin that is taken up has its commands before it, but for those that are not due.
LEMMA TakenUp ==
    ASSUME NEW p \in Plugin, run'.at = p, run'.mode = run.mode, run'.sel = run.sel,
           run'.steps = StepsOf(p), run'.changed = {}, UNCHANGED <<conf, coredns>>
    PROVE  /\ OrderInv'
           /\ \A m \in Must(run.mode, p) :
                 \/ m \in Left'
                 \/ ~Due(m, {}) /\ (m.op \in Commands => NoMore(Left'))
<1>. DEFINE script == Script(run.mode, p, run.sel)
            must == Must(run.mode, p)
<1>1. PICK A, B : Halves(script, A, B) /\ (\A x \in A \cup B : Fits(x, p)) /\ must \subseteq A \cup B
  BY ScriptsMade DEF WellMade
<1>2. run'.steps = Rest(script, {})  BY DEF StepsOf
<1>. HIDE DEF script
<1>3. Lists(script, A \cup B) /\ InOrder(script)  BY <1>1, HalvesInOrder
<1>4. script \in Seq(A \cup B) /\ ToSet(script) = A \cup B  BY <1>3, ListsIs DEF Lists
<1>. DEFINE new == Rest(script, {})
<1>5. /\ InOrder(new) /\ ToSet(new) \subseteq A \cup B
      /\ \A x \in A \cup B : \/ x \in ToSet(new)
                             \/ ~Due(x, {}) /\ (x.op \in Commands => NoMore(ToSet(new)))
  BY <1>3, <1>4, LeftInOrder
<1>. HIDE DEF new
<1>6. run'.steps = new /\ Left' = ToSet(new)  BY <1>2 DEF new, Left
<1>7. \A m \in must : \/ m \in Left'
                      \/ ~Due(m, {}) /\ (m.op \in Commands => NoMore(Left'))
  BY <1>1, <1>5, <1>6
<1>8. /\ Must(run.mode, p)' = must /\ \A x : Fits(x, p)' <=> Fits(x, p)
  <2>1. \A q, n : Must(n, q)' = Must(n, q) /\ \A x : Fits(x, q)' <=> Fits(x, q)  BY ScriptStays
  <2>2. QED  BY <2>1
<1>9. InOrder(run.steps)'  BY <1>5, <1>6, Zenon DEF InOrder
<1>10. \A x \in Left' : Fits(x, run.at)'
  <2>1. \A x \in Left' : Fits(x, p)  BY <1>1, <1>5, <1>6
  <2>2. \A x, q : q = run'.at => (Fits(x, q)' <=> Fits(x, run.at)')  OBVIOUS
  <2>3. QED  BY <1>8, <2>1, <2>2
<1>11. \A m \in Must(run.mode, run.at)' : m.op \in Commands => m \in Left' \/ NoMore(Left')
  <2>1. Must(run.mode, run.at)' = must
    <3>1. \A q, n : n = run'.mode /\ q = run'.at => Must(n, q)' = Must(run.mode, run.at)'  OBVIOUS
    <3>2. QED  BY <1>8, <3>1
  <2>. HIDE DEF must
  <2>2. QED  BY <1>7, <2>1
<1>12. OrderInv'
  <2>. DEFINE L == Left'
  <2>1. NoMore(Left)' = NoMore(L)  BY DEF NoMore
  <2>2. QED  BY <1>9, <1>10, <1>11, <2>1 DEF OrderInv
<1>13. QED  BY <1>7, <1>12

\* A plugin that is passed over has nothing of this due.
LEMMA PassedOver ==
    ASSUME NEW p \in Plugin, StepsOf(p) = <<>>
    PROVE  \A m \in Must(run.mode, p) : ~Due(m, {})
<1>. DEFINE script == Script(run.mode, p, run.sel)
<1>1. PICK A, B : Halves(script, A, B) /\ Must(run.mode, p) \subseteq A \cup B
  BY ScriptsMade DEF WellMade
<1>2. Rest(script, {}) = <<>>  BY DEF StepsOf
<1>. HIDE DEF script
<1>3. Lists(script, A \cup B)  BY <1>1, HalvesInOrder
<1>4. script \in Seq(A \cup B) /\ ToSet(script) = A \cup B  BY <1>3, ListsIs DEF Lists
<1>5. \A w \in ToSet(script) \ ToSet(Rest(script, {})) : ~Due(w, {})  BY <1>4, RestWrites
<1>6. ToSet(<<>>) = {}  BY DEF ToSet
<1>7. QED  BY <1>1, <1>2, <1>4, <1>5, <1>6

\* Where plugins return, their lists are done; the next one is taken up, if any.
Returns(D) ==
    /\ run.steps = <<>> /\ Left = {} /\ At \subseteq D /\ D \subseteq At \cup run.todo
    /\ D \subseteq Plugin
    /\ \A p \in D \ At : StepsOf(p) = <<>>
    /\ applied' = Returned(D)
    /\ UNCHANGED <<conf, disk, up, stale, boot, pkgs, coredns, cached, china, cut>>
    /\ run'.changed = {} /\ run'.todo \subseteq run.todo
    /\ \/ run'.at = "" /\ run'.steps = <<>>
       \/ /\ run'.at \in run.todo /\ run'.at \in Plugin /\ run'.steps = StepsOf(run'.at)
          /\ run'.mode = run.mode /\ run'.sel = run.sel

LEMMA ReturnsIs ==
    ASSUME RunInv, NextPlugin \/ End
    PROVE  \E D : Returns(D)
<1>1. /\ UNCHANGED <<conf, disk, up, stale, boot, pkgs, coredns, cached, china, cut>>
      /\ run.steps = <<>> /\ run.todo \subseteq Plugin /\ At \subseteq Plugin
  BY DEF NextPlugin, End, machine, RunInv, At
<1>2. "" \notin Plugin /\ Left = {}
  <2>1. ToSet(<<>>) = {}  BY DEF ToSet
  <2>2. QED  BY <1>1, <2>1, Plugins12 DEF Left
<1>3. CASE End
  <2>1. /\ applied' = Returned(At) /\ run'.at = "" /\ run'.steps = <<>> /\ run'.changed = {}
        /\ run'.todo = {}
    BY <1>3 DEF End, Idle
  <2>2. Returns(At)  BY <1>1, <1>2, <2>1 DEF Returns
  <2>3. QED  BY <2>2
<1>4. CASE NextPlugin /\ run' = [run EXCEPT !.at = "", !.todo = {}, !.changed = {}]
                      /\ applied' = Returned(At \cup run.todo)
                      /\ \A p \in run.todo : StepsOf(p) = <<>>
  <2>. DEFINE D == At \cup run.todo
  <2>1. /\ run'.at = "" /\ run'.changed = {} /\ run'.todo = {} /\ run'.steps = <<>>
    BY <1>1, <1>4 DEF RunInv, Idle
  <2>2. /\ D \subseteq Plugin /\ At \subseteq D /\ applied' = Returned(D)
        /\ D \subseteq At \cup run.todo /\ \A p \in D \ At : StepsOf(p) = <<>>
    BY <1>1, <1>4
  <2>. HIDE DEF D
  <2>3. Returns(D)  BY <1>1, <1>2, <2>1, <2>2 DEF Returns
  <2>4. QED  BY <2>3
<1>5. CASE NextPlugin /\ \E p \in run.todo :
             LET passed == {q \in run.todo : Place[q] < Place[p]} IN
             /\ \A q \in passed : StepsOf(q) = <<>>
             /\ applied' = Returned(At \cup passed)
             /\ run' = [run EXCEPT !.at = p, !.todo = @ \ (passed \cup {p}), !.changed = {},
                                   !.steps = StepsOf(p)]
  <2>1. PICK p \in run.todo :
           /\ \A q \in {r \in run.todo : Place[r] < Place[p]} : StepsOf(q) = <<>>
           /\ applied' = Returned(At \cup {q \in run.todo : Place[q] < Place[p]})
           /\ \E todo \in SUBSET run.todo :
                 run' = [run EXCEPT !.at = p, !.todo = todo, !.changed = {}, !.steps = StepsOf(p)]
    <3>1. PICK p \in run.todo :
             LET passed == {q \in run.todo : Place[q] < Place[p]} IN
             /\ \A q \in passed : StepsOf(q) = <<>>
             /\ applied' = Returned(At \cup passed)
             /\ run' = [run EXCEPT !.at = p, !.todo = @ \ (passed \cup {p}), !.changed = {},
                                   !.steps = StepsOf(p)]
      BY <1>5
    <3>. DEFINE passed == {q \in run.todo : Place[q] < Place[p]}
                left == run.todo \ (passed \cup {p})
    <3>2. run' = [run EXCEPT !.at = p, !.todo = left, !.changed = {}, !.steps = StepsOf(p)]
      BY <3>1
    <3>3. left \in SUBSET run.todo  OBVIOUS
    <3>4. /\ \A q \in passed : StepsOf(q) = <<>>
          /\ applied' = Returned(At \cup passed)
      BY <3>1
    <3>. HIDE DEF left
    <3>5. QED  BY <3>2, <3>3, <3>4
  <2>. DEFINE D == At \cup {q \in run.todo : Place[q] < Place[p]}
  <2>2. /\ D \subseteq Plugin /\ At \subseteq D /\ applied' = Returned(D)
        /\ D \subseteq At \cup run.todo /\ \A q \in D \ At : StepsOf(q) = <<>>
    BY <1>1, <2>1
  <2>. HIDE DEF D
  <2>3. /\ run'.at = p /\ run'.mode = run.mode /\ run'.sel = run.sel /\ run'.steps = StepsOf(p)
        /\ run'.changed = {} /\ run'.todo \subseteq run.todo
    BY <2>1 DEF RunInv, Idle
  <2>4. Returns(D)  BY <1>1, <1>2, <2>2, <2>3 DEF Returns
  <2>5. QED  BY <2>4
<1>6. QED  BY <1>3, <1>4, <1>5 DEF NextPlugin

\* The objects that count as applied then, but for those of the firewall.
LEMMA AppliedThen ==
    ASSUME NEW D, applied' = Returned(D), NEW o \in applied'
    PROVE  o \in applied \/ (o \in run.sel /\ \E p \in D : o \in Kinds[p])
  BY DEF Returned

\* A run that begins or is stopped, and an edit, leave nobody at work and forget nothing.
Puts ==
    /\ run'.at \notin Plugin /\ UNCHANGED <<disk, up, boot, pkgs, stale, china>>
    /\ applied' \subseteq applied /\ cut \subseteq cut'
    /\ run.at \in Plugin /\ run.changed # {} => run.at \in cut'
    /\ \A o \in applied' : conf'[<<o, "enabled">>] = conf[<<o, "enabled">>]

LEMMA PutsIs ==
    ASSUME RunInv, MachineInv, Begins \/ Cut \/ Edit \/ InstallCoredns
    PROVE  Puts
<1>1. "" \notin Plugin /\ Idle.at = "" /\ Idle.changed = {}  BY Plugins12 DEF Idle
<1>2. CASE Begins
  <2>1. /\ UNCHANGED <<conf, machine, china, applied, cut>> /\ run = Idle /\ run'.at = ""
    BY <1>2 DEF Begins, Begin, Idle, RunInv
  <2>2. QED  BY <1>1, <2>1 DEF Puts, machine
<1>3. CASE Cut
  <2>1. /\ UNCHANGED <<conf, machine, china, applied>> /\ run' = Idle
        /\ cut' = IF run.changed = {} THEN cut ELSE cut \cup {run.at}
    BY <1>3 DEF Cut
  <2>2. QED  BY <1>1, <2>1 DEF Puts, machine
<1>4. CASE Edit
  <2>1. PICK s \in Setting : /\ \E v \in Values(s) \ {conf[s]} : conf' = [conf EXCEPT ![s] = v]
                             /\ applied' = applied \ {s[1]}
    BY <1>4 DEF Edit
  <2>2. /\ UNCHANGED <<machine, china>> /\ run = Idle /\ run' = run /\ cut \subseteq cut'
    BY <1>4 DEF Edit, RunInv
  <2>3. \A t \in Setting : t[1] \in applied' => conf'[t] = conf[t]  BY <2>1 DEF MachineInv
  <2>4. \A o \in applied' : conf'[<<o, "enabled">>] = conf[<<o, "enabled">>]
    <3>1. PICK v : conf' = [conf EXCEPT ![s] = v]  BY <2>1
    <3>2. ASSUME NEW o \in applied' PROVE conf'[<<o, "enabled">>] = conf[<<o, "enabled">>]
      <4>1. <<o, "enabled">> # s  BY <2>1, <3>2
      <4>2. QED  BY <3>1, <4>1
    <3>3. QED  BY <3>2
  <2>5. QED  BY <1>1, <2>1, <2>2, <2>4 DEF Puts, machine
<1>5. CASE InstallCoredns
  <2>1. /\ UNCHANGED <<conf, disk, up, stale, boot, pkgs, china, cut>> /\ run = Idle /\ run' = run
        /\ applied' \subseteq applied
    BY <1>5 DEF InstallCoredns, RunInv
  <2>2. QED  BY <1>1, <2>1 DEF Puts
<1>6. QED  BY <1>2, <1>3, <1>4, <1>5

\* The China names updater, rendering the names, and no step at all leave the run and all
\* but dnsmasq alone.
Beside ==
    /\ UNCHANGED <<conf, coredns, boot, pkgs, applied>> /\ cut \subseteq cut'
    /\ run'.at = run.at /\ run'.steps = run.steps /\ run'.changed = run.changed
    /\ run'.mode = run.mode /\ run'.sel = run.sel /\ run'.todo = run.todo
    /\ up \subseteq up' /\ up' \subseteq up \cup {"dnsmasq"}
    /\ \A f \in File : disk'[f] = disk[f] \/ f \in {"chinaConf", "chinaManual"}
    /\ \A y \in stale' : \/ y \in stale
                         \/ /\ y[1] = "dnsmasq" /\ y[2] \in {"chinaConf", "chinaManual"}
                            /\ china'.changed /\ china'.pc \in {"chinaManual", "restart"}
    /\ \/ \A y \in stale' : y[1] # "dnsmasq"
       \/ "china" \in cut'
       \/ china.changed /\ china.pc \in {"chinaManual", "restart"} =>
             china'.changed /\ china'.pc \in {"chinaManual", "restart"}
    /\ last' \in {last, None}

LEMMA BesideIs ==
    ASSUME RunInv, MachineInv,
           \/ ChinaBegin \/ ChinaFetch \/ ChinaWrite \/ ChinaRestart \/ ChinaCut
           \/ Render \/ UNCHANGED vars
    PROVE  Beside
<1>1. CASE UNCHANGED vars  BY <1>1 DEF vars, machine, Beside
<1>0. CASE Render
  <2>1. UNCHANGED <<conf, machine, china, applied, cut, last>>  BY <1>0 DEF Render
  <2>2. /\ run'.at = run.at /\ run'.steps = run.steps /\ run'.changed = run.changed
        /\ run'.mode = run.mode /\ run'.sel = run.sel /\ run'.todo = run.todo
    BY <1>0 DEF Render, RunInv, Idle
  <2>3. QED  BY <2>1, <2>2 DEF Beside, machine
<1>2. CASE ChinaBegin
  <2>1. /\ UNCHANGED <<conf, machine, applied, cut>> /\ last' = None /\ china.pc = "off"
    BY <1>2 DEF ChinaBegin
  <2>2. /\ run'.at = run.at /\ run'.steps = run.steps /\ run'.changed = run.changed
        /\ run'.mode = run.mode /\ run'.sel = run.sel /\ run'.todo = run.todo
    BY <1>2 DEF ChinaBegin, RunInv, Idle
  <2>3. QED  BY <2>1, <2>2 DEF Beside, machine
<1>3. CASE ChinaFetch
  <2>1. /\ UNCHANGED <<conf, disk, up, stale, boot, pkgs, coredns, run, last, applied, cut>>
        /\ china.pc = "fetch"
    BY <1>3 DEF ChinaFetch
  <2>2. QED  BY <2>1 DEF Beside
<1>4. CASE ChinaCut
  <2>1. /\ UNCHANGED <<conf, machine, run, applied, last>> /\ cut' = cut \cup {"china"}
    BY <1>4 DEF ChinaCut
  <2>2. QED  BY <2>1 DEF Beside, machine
<1>5. CASE ChinaRestart
  <2>1. /\ UNCHANGED <<conf, disk, boot, pkgs, coredns, run, last, applied, cut>>
        /\ up' = up \cup {"dnsmasq"} /\ stale' = stale \ Of({"dnsmasq"})
    BY <1>5 DEF ChinaRestart, Start
  <2>2. \A y \in stale' : y \in stale /\ y[1] # "dnsmasq"  BY <2>1 DEF Of
  <2>3. QED  BY <2>1, <2>2 DEF Beside
<1>6. CASE ChinaWrite
  <2>1. /\ UNCHANGED <<conf, up, boot, pkgs, coredns, run, last, applied, cut>>
        /\ china.pc \in {"chinaConf", "chinaManual"}
        /\ disk' = [disk EXCEPT ![china.pc] = ChinaContent(china.pc)]
        /\ stale' = stale \cup Stale(IF disk' = disk THEN {} ELSE {china.pc})
    BY <1>6, FilesOf DEF ChinaWrite
  <2>. DEFINE ch == china.changed \/ disk' # disk
  <2>2. china' = [china EXCEPT !.changed = ch,
                               !.pc = CASE china.pc = "chinaConf" -> "chinaManual"
                                        [] ch -> "restart" [] OTHER -> "off"]
    BY <1>6 DEF ChinaWrite
  <2>3. DOMAIN china = {"pc", "from", "names", "changed"}  BY DEF MachineInv, NoChina
  <2>4. ch => china'.changed /\ china'.pc \in {"chinaManual", "restart"}
    <3>. HIDE DEF ch
    <3>1. SUFFICES ASSUME ch PROVE china'.changed /\ china'.pc \in {"chinaManual", "restart"}
      OBVIOUS
    <3>2. china'.changed  BY <2>2, <2>3, <3>1
    <3>3. china'.pc = CASE china.pc = "chinaConf" -> "chinaManual"
                        [] ch -> "restart" [] OTHER -> "off"
      BY <2>2, <2>3
    <3>4. QED  BY <3>1, <3>2, <3>3
  <2>5. \A f \in File : disk'[f] = disk[f] \/ f \in {"chinaConf", "chinaManual"}
    BY <2>1 DEF MachineInv
  <2>6. \A y \in stale' : \/ y \in stale
                          \/ y[1] = "dnsmasq" /\ y[2] \in {"chinaConf", "chinaManual"} /\ ch
    <3>1. SUFFICES ASSUME NEW y \in stale', y \notin stale
                   PROVE  y[1] = "dnsmasq" /\ y[2] \in {"chinaConf", "chinaManual"} /\ ch
      OBVIOUS
    <3>2. disk' # disk /\ y \in Stale({china.pc})  BY <2>1, <3>1 DEF Stale
    <3>3. y[1] \in Service /\ y[2] = china.pc /\ y[2] \in Reads[y[1]]  BY <3>2 DEF Stale
    <3>4. y[1] = "dnsmasq"
      <4>1. \A s \in Service : \A f \in Reads[s] :
               f \in {"chinaConf", "chinaManual"} => s = "dnsmasq"
        BY ReadBy
      <4>2. QED  BY <2>1, <3>3, <4>1
    <3>5. QED  BY <2>1, <3>2, <3>3, <3>4
  <2>. HIDE DEF ch
  <2>7. china.changed => ch  BY DEF ch
  <2>8. QED  BY <2>1, <2>4, <2>5, <2>6, <2>7 DEF Beside
<1>7. QED  BY <1>0, <1>1, <1>2, <1>3, <1>4, <1>5, <1>6

-----------------------------------------------------------------------------
(* Services that come with packages.                                       *)

\* What the packages of a plugin start.
LEMMA PackagesAre ==
    ASSUME NEW p \in DOMAIN Packages, NEW s \in Packages[p]
    PROVE  \/ p = "network.core" /\ (s = "dnsmasq" \/ s \in Distro)
           \/ p = "monitoring.collectd" /\ s = "collectd"
           \/ p = "docker.core" /\ s = "docker"
<1>1. DOMAIN Packages = {"system.mirror", "network.core", "system.utilities",
                         "monitoring.collectd", "docker.core"}
  BY KnownServices
<1>2. QED  BY <1>1 DEF Packages

LEMMA CorePackages ==
    /\ "dnsmasq" \in Packages["network.core"] /\ "docker" \in Packages["docker.core"]
  BY DEF Packages

\* Whom the steps of a plugin start and stop.
LEMMA WhoStarts ==
    ASSUME NEW x, StepOK(x, run.at), Fits(x, run.at), Does(x)
    PROVE  /\ \A s : s \in up' \ up \/ s \in boot' \ boot =>
                 \/ x.op = "install" /\ run.at = "network.core" /\ (s = "dnsmasq" \/ s \in Distro)
                 \/ x.op = "install" /\ run.at = "monitoring.collectd" /\ s = "collectd"
                 \/ x.op = "install" /\ run.at = "docker.core" /\ s = "docker"
                 \/ /\ x.op \in {"restart", "load", "loadIfThere", "enable"} /\ x.on = s
                    /\ s \in Service /\ ~SwitchedOff(s)
                    /\ s = "collectd" => run.at = "monitoring.collectd"
           /\ \A s : s \in up \ up' \/ s \in boot \ boot' =>
                 /\ x.op \in {"disable", "tryDisable"} /\ x.on = s
                 /\ \/ s \in Distro /\ run.at = "network.core"
                    \/ s \in {"pd", "radvd"} /\ run.at = "network.ipv6pd" /\ ~On("pd")
                    \/ s = "collectd" /\ run.at = "monitoring.collectd" /\ ~On("collectd")
<1>1. x.op = "install" => run.at \in DOMAIN Packages  BY DEF StepOK
<1>2. ASSUME NEW s, s \in up' \ up \/ s \in boot' \ boot
      PROVE  \/ x.op = "install" /\ run.at = "network.core" /\ (s = "dnsmasq" \/ s \in Distro)
             \/ x.op = "install" /\ run.at = "monitoring.collectd" /\ s = "collectd"
             \/ x.op = "install" /\ run.at = "docker.core" /\ s = "docker"
             \/ /\ x.op \in {"restart", "load", "loadIfThere", "enable"} /\ x.on = s
                /\ s \in Service /\ ~SwitchedOff(s)
                /\ s = "collectd" => run.at = "monitoring.collectd"
  <2>1. \/ x.op = "install" /\ s \in Packages[run.at]
        \/ x.op \in {"restart", "load", "loadIfThere", "enable"} /\ s = x.on
    BY <1>2 DEF Does
  <2>2. CASE x.op = "install" /\ s \in Packages[run.at]
    <3>1. run.at \in DOMAIN Packages /\ s \in Packages[run.at]  BY <1>1, <2>2
    <3>2. QED  BY <2>2, <3>1, PackagesAre
  <2>3. CASE x.op \in {"restart", "load", "loadIfThere", "enable"} /\ s = x.on
    BY <2>3 DEF Fits
  <2>4. QED  BY <2>1, <2>2, <2>3
<1>3. ASSUME NEW s, s \in up \ up' \/ s \in boot \ boot'
      PROVE  /\ x.op \in {"disable", "tryDisable"} /\ x.on = s
             /\ \/ s \in Distro /\ run.at = "network.core"
                \/ s \in {"pd", "radvd"} /\ run.at = "network.ipv6pd" /\ ~On("pd")
                \/ s = "collectd" /\ run.at = "monitoring.collectd" /\ ~On("collectd")
  <2>1. x.op \in {"disable", "tryDisable"} /\ s = x.on  BY <1>3 DEF Does
  <2>2. QED  BY <2>1 DEF Fits
<1>4. QED  BY <1>2, <1>3

LEMMA ServicesApart ==
    /\ AtBoot = {"hostname", "sysctl", "systemd"} /\ Distro = {"tailscaled", "wideDhcp"}
    /\ Service \cap Distro = {}
  BY KnownServices DEF AtBoot, Distro

LEMMA BaseStep ==
    ASSUME BaseInv,
           \/ \E x : StepOK(x, run.at) /\ Fits(x, run.at) /\ Does(x)
           \/ UNCHANGED <<up, boot, pkgs>>
           \/ Beside
    PROVE  BaseInv'
<1>1. CASE UNCHANGED <<up, boot, pkgs>>  BY <1>1 DEF BaseInv
<1>2. CASE Beside  BY <1>2 DEF BaseInv, Beside
<1>3. CASE \E x : StepOK(x, run.at) /\ Fits(x, run.at) /\ Does(x)
  <2>1. PICK x : StepOK(x, run.at) /\ Fits(x, run.at) /\ Does(x)  BY <1>3
  <2>2. \A s : s \in up \ up' \/ s \in boot \ boot' =>
           s \in Distro \/ s \in {"pd", "radvd"} \/ s = "collectd"
    BY <2>1, WhoStarts
  <2>3. AtBoot \subseteq up'  BY <2>2, ServicesApart DEF BaseInv
  <2>4. \A p \in pkgs' \ pkgs : Packages[p] \subseteq up' \cap boot'  BY <2>1 DEF Does
  <2>5. "docker.core" \in pkgs' => "docker" \in up' \cap boot'
    BY <2>2, <2>4, CorePackages, ServicesApart DEF BaseInv
  <2>6. "network.core" \in pkgs' => "dnsmasq" \in up' \cap boot'
    BY <2>2, <2>4, CorePackages, ServicesApart DEF BaseInv
  <2>7. QED  BY <2>3, <2>5, <2>6 DEF BaseInv
<1>4. QED  BY <1>1, <1>2, <1>3

\* An object belongs to one plugin.
LEMMA KindsAre ==
    /\ Kinds["network.core"] = {"network"} /\ Kinds["docker.core"] = {"registry"}
    /\ Kinds["network.ipv6pd"] = {"pd"} /\ Kinds["network.firewall"] = {"main", "guest"}
    /\ Kinds["monitoring.collectd"] = {"collectd"}
    /\ \A p \in Plugin : /\ "network" \in Kinds[p] <=> p = "network.core"
                         /\ "registry" \in Kinds[p] <=> p = "docker.core"
                         /\ "pd" \in Kinds[p] <=> p = "network.ipv6pd"
<1>1. /\ Kinds["network.core"] = {"network"} /\ Kinds["docker.core"] = {"registry"}
      /\ Kinds["network.ipv6pd"] = {"pd"} /\ Kinds["network.firewall"] = {"main", "guest"}
      /\ Kinds["monitoring.collectd"] = {"collectd"}
  BY Plugins12 DEF Kinds
<1>2. ASSUME NEW p \in Plugin
      PROVE  /\ "network" \in Kinds[p] <=> p = "network.core"
             /\ "registry" \in Kinds[p] <=> p = "docker.core"
             /\ "pd" \in Kinds[p] <=> p = "network.ipv6pd"
  BY Plugins12 DEF Kinds
<1>3. QED  BY <1>1, <1>2

\* The plugins of applied objects have returned before, or do so now.
LEMMA NewlyApplied ==
    ASSUME NEW D, D \subseteq Plugin, applied' = Returned(D)
    PROVE  /\ "network" \in applied' => "network" \in applied \/ "network.core" \in D
           /\ "registry" \in applied' => "registry" \in applied \/ "docker.core" \in D
           /\ "pd" \in applied' => "pd" \in applied \/ "network.ipv6pd" \in D
<1>1. ASSUME NEW o, o \in applied' PROVE o \in applied \/ \E p \in D : o \in Kinds[p]
  BY <1>1, AppliedThen
<1>2. QED  BY <1>1, KindsAre

LEMMA InstalledWorks ==
    ASSUME InstalledInv, NEW x, Goes(x), Does(x)
    PROVE  InstalledInv'
<1>1. SUFFICES ASSUME NEW p \in {"network.core", "docker.core"}
               PROVE  /\ run'.at = p => Step("install", p) \in Left' \/ p \in pkgs'
                      /\ Kinds[p] \cap applied' # {} => p \in pkgs'
  BY DEF InstalledInv
<1>2. run'.at = run.at /\ applied' = applied  BY DEF Goes
<1>3. pkgs \subseteq pkgs'  BY DEF Does
<1>4. ASSUME run.at = p, Step("install", p) \in Left
      PROVE  Step("install", p) \in Left' \/ p \in pkgs'
  <2>1. PICK m : m = Step("install", p) /\ m.op = "install"  BY MustAre
  <2>2. m \in Left  BY <1>4, <2>1
  <2>3. m = x \/ m \in Left' \/ ~Due(m, run'.changed)  BY <2>2 DEF Goes
  <2>4. m = x => p \in pkgs'  BY <1>4, <2>1 DEF Does
  <2>5. ~Due(m, run'.changed) => p \in pkgs  BY <2>1, NotDueIs
  <2>6. QED  BY <1>3, <2>1, <2>3, <2>4, <2>5
<1>5. QED  BY <1>2, <1>3, <1>4 DEF InstalledInv

LEMMA InstalledReturns ==
    ASSUME InstalledInv, NEW D, Returns(D)
    PROVE  InstalledInv'
<1>1. SUFFICES ASSUME NEW p \in {"network.core", "docker.core"}
               PROVE  /\ run'.at = p => Step("install", p) \in Left' \/ p \in pkgs'
                      /\ Kinds[p] \cap applied' # {} => p \in pkgs'
  BY DEF InstalledInv
<1>2. /\ UNCHANGED <<conf, coredns, pkgs>> /\ Left = {} /\ D \subseteq Plugin
      /\ applied' = Returned(D) /\ p \in Plugin
  BY Plugins12 DEF Returns
<1>3. Step("install", p) \in Must(run.mode, p)  BY DEF Must
<1>4. ~Due(Step("install", p), {}) => p \in pkgs  BY NotDueIs
<1>5. run'.at = p => Step("install", p) \in Left' \/ p \in pkgs'
  <2>1. SUFFICES ASSUME run'.at = p PROVE Step("install", p) \in Left' \/ p \in pkgs'  OBVIOUS
  <2>2. /\ run'.mode = run.mode /\ run'.sel = run.sel
        /\ run'.steps = StepsOf(p) /\ run'.changed = {}
    BY <2>1 DEF Returns
  <2>3. \A m \in Must(run.mode, p) : m \in Left' \/ ~Due(m, {})  BY <1>2, <2>1, <2>2, TakenUp
  <2>4. QED  BY <1>2, <1>3, <1>4, <2>3
<1>6. Kinds[p] \cap applied' # {} => p \in pkgs'
  <2>1. SUFFICES ASSUME Kinds[p] \cap applied' # {} PROVE p \in pkgs  BY <1>2
  <2>2. Kinds[p] \cap applied # {} \/ p \in D
    <3>1. CASE p = "network.core"
      <4>1. "network" \in applied'  BY <2>1, <3>1, KindsAre
      <4>2. QED  BY <1>2, <3>1, <4>1, NewlyApplied, KindsAre
    <3>2. CASE p = "docker.core"
      <4>1. "registry" \in applied'  BY <2>1, <3>2, KindsAre
      <4>2. QED  BY <1>2, <3>2, <4>1, NewlyApplied, KindsAre
    <3>3. QED  BY <3>1, <3>2
  <2>3. CASE p \in At  BY <1>2, <2>3 DEF InstalledInv, At
  <2>4. CASE p \in D \ At
    <3>1. StepsOf(p) = <<>>  BY <2>4 DEF Returns
    <3>2. QED  BY <1>2, <1>3, <1>4, <3>1, PassedOver
  <2>5. QED  BY <2>2, <2>3, <2>4 DEF InstalledInv
<1>7. QED  BY <1>5, <1>6

LEMMA InstalledRests ==
    ASSUME InstalledInv, Puts \/ Beside
    PROVE  InstalledInv'
<1>1. CASE Puts
  <2>1. run'.at \notin Plugin /\ pkgs' = pkgs /\ applied' \subseteq applied  BY <1>1 DEF Puts
  <2>2. QED  BY <2>1, Plugins12 DEF InstalledInv
<1>2. CASE Beside
  <2>1. /\ run'.at = run.at /\ pkgs' = pkgs /\ applied' = applied /\ run'.steps = run.steps
    BY <1>2 DEF Beside
  <2>2. Left' = Left  BY <2>1 DEF Left
  <2>3. QED  BY <2>1, <2>2 DEF InstalledInv
<1>3. QED  BY <1>1, <1>2

-----------------------------------------------------------------------------
(* Services the distribution starts.                                       *)

LEMMA DistroWorks ==
    ASSUME DistroInv, NEW x, Goes(x), Does(x)
    PROVE  DistroInv'
<1>. DEFINE core == "network.core"
            L == Left'
<1>0. NoMore(Left)' = NoMore(L)  BY DEF NoMore
<1>1. SUFFICES ASSUME core \notin cut', NEW s \in Distro
               PROVE  /\ "network" \in applied' =>
                            s \notin up' \cup boot' \/ (run'.at = core /\ run'.changed # {})
                      /\ run'.at = core => Unwanted(s) \in L \/ (s \notin up' \cup boot' /\ NoMore(L))
  BY <1>0 DEF DistroInv
<1>2. /\ run'.at = run.at /\ applied' = applied /\ core \notin cut /\ Left' \subseteq Left
      /\ run.changed \subseteq run'.changed
  BY <1>1 DEF Goes, Does
<1>3. s \in up' \cup boot' /\ s \notin up \cup boot =>
         x.op = "install" /\ run.at = core /\ "packages" \in run'.changed
  <2>1. SUFFICES ASSUME s \in up' \cup boot', s \notin up \cup boot
                 PROVE  x.op = "install" /\ run.at = core /\ "packages" \in run'.changed
    OBVIOUS
  <2>2. s \notin Service /\ s \notin {"dnsmasq", "collectd", "docker"}
    BY ServicesApart, KnownServices
  <2>3. StepOK(x, run.at) /\ Fits(x, run.at)  BY DEF Goes
  <2>4. x.op = "install" /\ run.at = core  BY <2>1, <2>2, <2>3, WhoStarts
  <2>5. QED  BY <2>4 DEF Does
<1>4. "network" \in applied' => s \notin up' \cup boot' \/ (run'.at = core /\ run'.changed # {})
  BY <1>2, <1>3 DEF DistroInv
<1>5. ASSUME run.at = core PROVE Unwanted(s) \in L \/ (s \notin up' \cup boot' /\ NoMore(L))
  <2>1. CASE Unwanted(s) \in Left
    <3>1. PICK m : m = Unwanted(s) /\ m.op = "tryDisable" /\ m.on = s  BY MustAre
    <3>2. \/ m = x \/ m \in L
          \/ (~Due(m, run'.changed) /\ (m.op \in Commands => NoMore(Left)'))
      BY <2>1, <3>1 DEF Goes
    <3>3. CASE m = x
      <4>1. NoMore(L)  BY <1>0, <3>1, <3>3 DEF Goes, Commands
      <4>2. s \notin up' \cup boot'  BY <1>1, <1>5, <3>1, <3>3 DEF Does
      <4>3. QED  BY <4>1, <4>2
    <3>4. CASE /\ ~Due(m, run'.changed)
               /\ m.op \in Commands => NoMore(Left)'
      <4>1. NoMore(L)  BY <1>0, <3>1, <3>4 DEF Commands
      <4>2. s \notin boot \cup up /\ "packages" \notin run'.changed  BY <3>1, <3>4, NotDueIs
      <4>3. QED  BY <1>3, <4>1, <4>2
    <3>5. QED  BY <3>1, <3>2, <3>3, <3>4
  <2>2. CASE s \notin up \cup boot /\ NoMore(Left)
    <3>1. x \in Left  BY DEF Goes
    <3>2. x.op # "install"  BY <2>2, <3>1 DEF NoMore
    <3>3. NoMore(L)  BY <1>2, <2>2 DEF NoMore
    <3>4. QED  BY <1>3, <2>2, <3>2, <3>3
  <2>3. QED  BY <1>2, <1>5, <2>1, <2>2 DEF DistroInv
<1>6. QED  BY <1>2, <1>4, <1>5

LEMMA DistroReturns ==
    ASSUME DistroInv, NEW D, Returns(D)
    PROVE  DistroInv'
<1>. DEFINE core == "network.core"
            L == Left'
<1>0. NoMore(Left)' = NoMore(L)  BY DEF NoMore
<1>1. SUFFICES ASSUME core \notin cut, NEW s \in Distro
               PROVE  /\ "network" \in applied' => s \notin up \cup boot
                      /\ run'.at = core => Unwanted(s) \in L \/ (s \notin up \cup boot /\ NoMore(L))
  BY <1>0 DEF DistroInv, Returns
<1>2. /\ UNCHANGED <<conf, coredns>> /\ Left = {} /\ D \subseteq Plugin
      /\ applied' = Returned(D) /\ core \in Plugin
  BY Plugins12 DEF Returns
<1>3. Unwanted(s) \in Must(run.mode, core) /\ Unwanted(s).op \in Commands
  <2>1. s = "tailscaled" \/ s = "wideDhcp"  BY ServicesApart
  <2>2. QED  BY <2>1, MustAre DEF Must, Commands
<1>4. ~Due(Unwanted(s), {}) => s \notin up \cup boot  BY NotDueIs
<1>5. run.at = core => s \notin up \cup boot  BY <1>1, <1>2 DEF DistroInv
<1>6. run'.at = core => Unwanted(s) \in L \/ (s \notin up \cup boot /\ NoMore(L))
  <2>1. SUFFICES ASSUME run'.at = core
                 PROVE  Unwanted(s) \in L \/ (s \notin up \cup boot /\ NoMore(L))
    OBVIOUS
  <2>2. /\ run'.mode = run.mode /\ run'.sel = run.sel
        /\ run'.steps = StepsOf(core) /\ run'.changed = {}
    BY <2>1 DEF Returns
  <2>3. \A m \in Must(run.mode, core) :
           m \in L \/ (~Due(m, {}) /\ (m.op \in Commands => NoMore(L)))
    BY <1>2, <2>1, <2>2, TakenUp
  <2>4. QED  BY <1>3, <1>4, <2>3
<1>7. "network" \in applied' => s \notin up \cup boot
  <2>1. SUFFICES ASSUME "network" \in applied' PROVE s \notin up \cup boot  OBVIOUS
  <2>2. "network" \in applied \/ core \in D  BY <1>2, <2>1, NewlyApplied
  <2>3. CASE core \in D \ At
    <3>1. StepsOf(core) = <<>>  BY <2>3 DEF Returns
    <3>2. QED  BY <1>2, <1>3, <1>4, <3>1, PassedOver
  <2>4. CASE core \in At  BY <1>5, <2>4 DEF At
  <2>5. CASE "network" \in applied  BY <1>1, <1>5, <2>5 DEF DistroInv
  <2>6. QED  BY <2>2, <2>3, <2>4, <2>5
<1>8. QED  BY <1>6, <1>7

LEMMA DistroRests ==
    ASSUME DistroInv, Puts \/ Beside
    PROVE  DistroInv'
<1>1. CASE Puts
  <2>1. /\ run'.at \notin Plugin /\ UNCHANGED <<up, boot>> /\ applied' \subseteq applied
        /\ cut \subseteq cut' /\ (run.at \in Plugin /\ run.changed # {} => run.at \in cut')
    BY <1>1 DEF Puts
  <2>2. "network.core" \in Plugin  BY Plugins12
  <2>3. QED  BY <2>1, <2>2 DEF DistroInv
<1>2. CASE Beside
  <2>1. /\ run'.at = run.at /\ boot' = boot /\ applied' = applied /\ run'.steps = run.steps
        /\ run'.changed = run.changed /\ cut \subseteq cut' /\ up' \subseteq up \cup {"dnsmasq"}
    BY <1>2 DEF Beside
  <2>2. Left' = Left  BY <2>1 DEF Left
  <2>. DEFINE L == Left'
  <2>3. NoMore(Left)' = NoMore(L)  BY DEF NoMore
  <2>4. \A s \in Distro : s # "dnsmasq"  BY ServicesApart
  <2>5. QED  BY <2>1, <2>2, <2>3, <2>4 DEF DistroInv
<1>3. QED  BY <1>1, <1>2

-----------------------------------------------------------------------------
(* The services of the prefix delegation.                                  *)

\* PdWill, with its steps and their fate spelled out.
LEMMA PdWillIs ==
    ASSUME NEW s, NEW mode
    PROVE  /\ run.mode = mode =>
                 (PdWill(s) <=>
                     \/ s \in up
                     \/ PdRestart(mode, s) \in Left /\ Hits(PdRestart(mode, s).if)
                     \/ /\ PdEnable(mode, s) \in Left
                        /\ \/ PdRestart(mode, s) \in Left
                           \/ NoMore(Left) /\ ~Hits(PdRestart(mode, s).if))
           /\ run'.mode = mode =>
                 (PdWill(s)' <=>
                     \/ s \in up'
                     \/ PdRestart(mode, s) \in Left' /\ Hits(PdRestart(mode, s).if)'
                     \/ /\ PdEnable(mode, s) \in Left'
                        /\ \/ PdRestart(mode, s) \in Left'
                           \/ NoMore(Left)' /\ ~Hits(PdRestart(mode, s).if)')
  BY DEF PdWill

LEMMA PdWorks ==
    ASSUME PdInv, NEW x, Goes(x), Does(x)
    PROVE  PdInv'
<1>. DEFINE pd == "network.ipv6pd"
<1>1. /\ run'.at = run.at /\ run'.mode = run.mode /\ applied' = applied /\ cut \subseteq cut'
      /\ Left' \subseteq Left /\ run.changed \subseteq run'.changed /\ x \in Left
      /\ (On("pd")' <=> On("pd"))
  <2>1. UNCHANGED <<conf, coredns>>  BY DEF Goes
  <2>2. On("pd")' <=> On("pd")  BY <2>1 DEF On
  <2>3. QED  BY <2>2 DEF Goes, Does
<1>2. SUFFICES ASSUME NEW s \in {"pd", "radvd"}
               PROVE  /\ run.at = pd /\ On("pd") => PdWill(s)'
                      /\ run.at = pd /\ ~On("pd") =>
                            Unwanted(s) \in Left' \/ pd \in cut' \/ s \notin up' \cup boot'
                      /\ "pd" \in applied /\ pd \notin cut =>
                            IF On("pd") THEN s \in up' ELSE s \notin up' \cup boot'
  BY <1>1 DEF PdInv
<1>3. /\ On("pd") /\ s \in up => s \in up'
      /\ ~On("pd") /\ s \notin up \cup boot => s \notin up' \cup boot'
  <2>1. SwitchedOff(s) <=> ~On("pd")  BY DEF SwitchedOff
  <2>2. s \notin Distro /\ s \notin {"dnsmasq", "docker", "collectd"}  BY ServicesApart
  <2>3. StepOK(x, run.at) /\ Fits(x, run.at)  BY DEF Goes
  <2>4. QED  BY <2>1, <2>2, <2>3, WhoStarts
<1>4. ASSUME run.at = pd, On("pd") PROVE PdWill(s)'
  <2>. DEFINE mode == run.mode
              hit == Hits(PdRestart(mode, s).if)'
  <2>1. PICK R : R = PdRestart(mode, s) /\ R.op = "restart" /\ R.on = s
                 /\ R.if = Reads[s] \cup Forced(mode)
    BY MustAre
  <2>2. PICK E : E = PdEnable(mode, s) /\ E.op = "enable" /\ E.on = s  BY MustAre
  <2>3. /\ PdWill(s) <=> \/ s \in up
                         \/ R \in Left /\ Hits(R.if)
                         \/ E \in Left /\ (R \in Left \/ (NoMore(Left) /\ ~Hits(R.if)))
        /\ PdWill(s)' <=> \/ s \in up'
                          \/ R \in Left' /\ Hits(R.if)'
                          \/ E \in Left' /\ (R \in Left' \/ (NoMore(Left)' /\ ~Hits(R.if)'))
    BY <1>1, <2>1, <2>2, PdWillIs
  <2>4. /\ Hits(R.if) => Hits(R.if)'
        /\ Hits(R.if)' <=> R.if \cap (run'.changed \cup {"always"}) # {}
    BY <1>1 DEF Hits
  <2>5. R \in Left => \/ s \in up' \/ R \in Left'
                      \/ (~Hits(R.if)' /\ NoMore(Left)')
    <3>1. SUFFICES ASSUME R \in Left
                   PROVE  s \in up' \/ R \in Left' \/ (~Hits(R.if)' /\ NoMore(Left)')
      OBVIOUS
    <3>2. \/ R = x \/ R \in Left'
          \/ (~Due(R, run'.changed) /\ (R.op \in Commands => NoMore(Left)'))
      BY <3>1 DEF Goes
    <3>3. R = x => s \in up'  BY <2>1 DEF Does
    <3>4. ~Due(R, run'.changed) => ~Hits(R.if)'  BY <2>1, <2>4, NotDueIs
    <3>5. R.op \in Commands  BY <2>1 DEF Commands
    <3>6. QED  BY <3>2, <3>3, <3>4, <3>5
  <2>6. E \in Left => s \in up' \/ E \in Left' \/ Hits(R.if)'
    <3>1. SUFFICES ASSUME E \in Left PROVE s \in up' \/ E \in Left' \/ Hits(R.if)'  OBVIOUS
    <3>2. E = x \/ E \in Left' \/ ~Due(E, run'.changed)  BY <3>1 DEF Goes
    <3>3. E = x => s \in up'  BY <2>2 DEF Does
    <3>4. ~Due(E, run'.changed) => s \in up \/ Hits(R.if)'
      <4>1. \A ch : ~Due(PdEnable(run.mode, s), ch) =>
               s \in up \/ PdRestart(run.mode, s).if \cap (ch \cup {"always"}) # {}
        BY NotDueIs
      <4>2. ~Due(E, run'.changed) => s \in up \/ R.if \cap (run'.changed \cup {"always"}) # {}
        BY <2>1, <2>2, <4>1
      <4>3. QED  BY <2>4, <4>2
    <3>5. QED  BY <1>3, <1>4, <3>2, <3>3, <3>4
  <2>7. NoMore(Left) /\ ~Hits(R.if) => NoMore(Left)' /\ ~Hits(R.if)'
    <3>1. SUFFICES ASSUME NoMore(Left), ~Hits(R.if) PROVE NoMore(Left)' /\ ~Hits(R.if)'  OBVIOUS
    <3>2. NoMore(Left)'  BY <1>1, <3>1 DEF NoMore
    <3>3. x.op # "install" /\ (x.op = "write" => ~IsRead(x.on))  BY <1>1, <3>1 DEF NoMore
    <3>4. \A y \in run'.changed : y \in run.changed \/ (x.op = "write" /\ y = x.on)
      BY <3>3 DEF Does
    <3>5. \A y \in R.if : y = "always" \/ IsRead(y)
      <4>1. s \in Service  BY KnownServices
      <4>2. QED  BY <2>1, <4>1 DEF Forced, IsRead
    <3>6. R.if \cap (run'.changed \cup {"always"}) = {}  BY <3>1, <3>3, <3>4, <3>5 DEF Hits
    <3>7. QED  BY <2>4, <3>2, <3>6
  <2>8. PdWill(s)  BY <1>4 DEF PdInv
  <2>9. CASE s \in up  BY <1>3, <1>4, <2>3, <2>9
  <2>10. CASE R \in Left /\ Hits(R.if)  BY <2>3, <2>4, <2>5, <2>10
  <2>11. CASE E \in Left /\ R \in Left  BY <2>3, <2>5, <2>6, <2>11
  <2>12. CASE E \in Left /\ NoMore(Left) /\ ~Hits(R.if)  BY <2>3, <2>6, <2>7, <2>12
  <2>13. QED  BY <2>3, <2>8, <2>9, <2>10, <2>11, <2>12
<1>5. ASSUME run.at = pd, ~On("pd")
      PROVE  Unwanted(s) \in Left' \/ pd \in cut' \/ s \notin up' \cup boot'
  <2>1. CASE Unwanted(s) \in Left
    <3>1. PICK m : m = Unwanted(s) /\ m.op = "tryDisable" /\ m.on = s  BY MustAre
    <3>2. m = x \/ m \in Left' \/ ~Due(m, run'.changed)  BY <2>1, <3>1 DEF Goes
    <3>3. m = x => s \notin up' \cup boot' \/ pd \in cut'  BY <1>5, <3>1 DEF Does
    <3>4. ~Due(m, run'.changed) => s \notin boot \cup up  BY <3>1, NotDueIs
    <3>5. QED  BY <1>3, <1>5, <3>1, <3>2, <3>3, <3>4
  <2>2. QED  BY <1>1, <1>3, <1>5, <2>1 DEF PdInv
<1>6. "pd" \in applied /\ pd \notin cut =>
         IF On("pd") THEN s \in up' ELSE s \notin up' \cup boot'
  BY <1>3 DEF PdInv
<1>7. QED  BY <1>4, <1>5, <1>6

LEMMA PdReturns ==
    ASSUME PdInv, NEW D, Returns(D)
    PROVE  PdInv'
<1>. DEFINE pd == "network.ipv6pd"
<1>1. /\ UNCHANGED <<conf, coredns, up, boot, cut>> /\ Left = {} /\ D \subseteq Plugin
      /\ applied' = Returned(D) /\ pd \in Plugin /\ (On("pd")' <=> On("pd"))
  <2>1. UNCHANGED <<conf, coredns>>  BY DEF Returns
  <2>2. On("pd")' <=> On("pd")  BY <2>1 DEF On
  <2>3. QED  BY <2>2, Plugins12 DEF Returns
<1>2. SUFFICES ASSUME NEW s \in {"pd", "radvd"}
               PROVE  /\ run'.at = pd /\ On("pd") => PdWill(s)'
                      /\ run'.at = pd /\ ~On("pd") =>
                            Unwanted(s) \in Left' \/ s \notin up \cup boot
                      /\ "pd" \in applied' /\ pd \notin cut =>
                            IF On("pd") THEN s \in up ELSE s \notin up \cup boot
  BY <1>1 DEF PdInv
<1>3. PICK R : R = PdRestart(run.mode, s) /\ R.op = "restart"  BY MustAre
<1>4. PICK E : E = PdEnable(run.mode, s)  OBVIOUS
<1>5. /\ On("pd") => R \in Must(run.mode, pd) /\ E \in Must(run.mode, pd)
      /\ ~On("pd") => Unwanted(s) \in Must(run.mode, pd)
  BY <1>3, <1>4 DEF Must
<1>6. /\ ~Due(R, {}) => R.if \cap ({} \cup {"always"}) = {}
      /\ ~Due(E, {}) => s \in up \/ R.if \cap ({} \cup {"always"}) # {}
      /\ ~Due(Unwanted(s), {}) => s \notin up \cup boot
  BY <1>3, <1>4, NotDueIs
<1>7. ASSUME run'.at = pd
      PROVE  /\ On("pd") => PdWill(s)'
             /\ ~On("pd") => Unwanted(s) \in Left' \/ s \notin up \cup boot
  <2>1. /\ run'.mode = run.mode /\ run'.sel = run.sel
        /\ run'.steps = StepsOf(pd) /\ run'.changed = {}
    BY <1>7, Plugins12 DEF Returns
  <2>2. \A m \in Must(run.mode, pd) :
           m \in Left' \/ (~Due(m, {}) /\ (m.op \in Commands => NoMore(Left')))
    BY <1>1, <1>7, <2>1, TakenUp
  <2>3. PdWill(s)' <=> \/ s \in up'
                       \/ R \in Left' /\ Hits(R.if)'
                       \/ E \in Left' /\ (R \in Left' \/ (NoMore(Left)' /\ ~Hits(R.if)'))
    BY <1>3, <1>4, <2>1, PdWillIs
  <2>4. Hits(R.if)' <=> R.if \cap ({} \cup {"always"}) # {}  BY <2>1 DEF Hits
  <2>. DEFINE L == Left'
  <2>5. NoMore(Left)' = NoMore(L)  BY DEF NoMore
  <2>6. ASSUME On("pd") PROVE PdWill(s)'
    <3>1. R \in L \/ (~Hits(R.if)' /\ NoMore(Left)')
      BY <1>3, <1>5, <1>6, <2>2, <2>4, <2>5, <2>6 DEF Commands
    <3>2. E \in L \/ s \in up' \/ Hits(R.if)'
      BY <1>1, <1>5, <1>6, <2>2, <2>4, <2>6
    <3>3. QED  BY <2>3, <3>1, <3>2
  <2>7. QED  BY <1>5, <1>6, <2>2, <2>6
<1>8. ASSUME "pd" \in applied', pd \notin cut
      PROVE  IF On("pd") THEN s \in up ELSE s \notin up \cup boot
  <2>1. "pd" \in applied \/ pd \in D  BY <1>1, <1>8, NewlyApplied
  <2>2. CASE pd \in D \ At
    <3>1. StepsOf(pd) = <<>>  BY <2>2 DEF Returns
    <3>2. \A m \in Must(run.mode, pd) : ~Due(m, {})  BY <1>1, <3>1, PassedOver
    <3>3. QED  BY <1>5, <1>6, <3>2
  <2>3. CASE pd \in At
    <3>1. run.at = pd  BY <2>3 DEF At
    <3>2. On("pd") => s \in up
      <4>1. PdWill(s) <=> \/ s \in up
                          \/ R \in Left /\ Hits(R.if)
                          \/ E \in Left /\ (R \in Left \/ (NoMore(Left) /\ ~Hits(R.if)))
        BY <1>3, <1>4, PdWillIs
      <4>2. QED  BY <1>1, <3>1, <4>1 DEF PdInv
    <3>3. ~On("pd") => s \notin up \cup boot  BY <1>1, <1>8, <3>1 DEF PdInv
    <3>4. QED  BY <3>2, <3>3
  <2>4. CASE "pd" \in applied  BY <1>8, <2>4 DEF PdInv
  <2>5. QED  BY <2>1, <2>2, <2>3, <2>4
<1>9. QED  BY <1>7, <1>8

LEMMA PdRests ==
    ASSUME PdInv, Puts \/ Beside
    PROVE  PdInv'
<1>1. CASE Puts
  <2>1. /\ run'.at \notin Plugin /\ UNCHANGED <<up, boot>> /\ applied' \subseteq applied
        /\ cut \subseteq cut' /\ "network.ipv6pd" \in Plugin
    BY <1>1, Plugins12 DEF Puts
  <2>2. "pd" \in applied' => (On("pd")' <=> On("pd"))  BY <1>1 DEF Puts, On
  <2>3. QED  BY <2>1, <2>2 DEF PdInv
<1>2. CASE Beside
  <2>1. /\ run'.at = run.at /\ boot' = boot /\ applied' = applied /\ run'.steps = run.steps
        /\ run'.changed = run.changed /\ run'.mode = run.mode /\ cut \subseteq cut'
        /\ up \subseteq up' /\ up' \subseteq up \cup {"dnsmasq"} /\ conf' = conf
    BY <1>2 DEF Beside
  <2>2. Left' = Left /\ (On("pd")' <=> On("pd"))  BY <2>1 DEF Left, On
  <2>3. NoMore(Left)' <=> NoMore(Left)  BY <2>2 DEF NoMore
  <2>4. \A s : PdWill(s) => PdWill(s)'
    <3>1. SUFFICES ASSUME NEW s, PdWill(s) PROVE PdWill(s)'  OBVIOUS
    <3>2. PICK R : R = PdRestart(run.mode, s)  OBVIOUS
    <3>3. Hits(R.if)' <=> Hits(R.if)  BY <2>1 DEF Hits
    <3>4. QED  BY <2>1, <2>2, <2>3, <3>1, <3>2, <3>3, PdWillIs
  <2>5. QED  BY <2>1, <2>2, <2>4 DEF PdInv
<1>3. QED  BY <1>1, <1>2

-----------------------------------------------------------------------------
(* The order of the list, when no step is taken.                           *)

LEMMA OrderReturns ==
    ASSUME NEW D, Returns(D)
    PROVE  OrderInv'
<1>1. UNCHANGED <<conf, coredns>> /\ run'.changed = {}  BY DEF Returns
<1>2. CASE run'.at = ""
  <2>1. "" \notin Plugin  BY Plugins12
  <2>2. QED  BY <1>2, <2>1 DEF OrderInv
<1>3. CASE /\ run'.at \in run.todo /\ run'.at \in Plugin /\ run'.steps = StepsOf(run'.at)
           /\ run'.mode = run.mode /\ run'.sel = run.sel
  <2>1. PICK p \in Plugin : p = run'.at  BY <1>3
  <2>2. QED  BY <1>1, <1>3, <2>1, TakenUp
<1>4. QED  BY <1>2, <1>3 DEF Returns

LEMMA OrderRests ==
    ASSUME OrderInv, Puts \/ Beside
    PROVE  OrderInv'
<1>1. CASE Puts
  <2>1. run'.at \notin Plugin  BY <1>1 DEF Puts
  <2>2. QED  BY <2>1 DEF OrderInv
<1>2. CASE Beside
  <2>1. /\ UNCHANGED <<conf, coredns>> /\ run'.at = run.at /\ run'.steps = run.steps
        /\ run'.mode = run.mode
    BY <1>2 DEF Beside
  <2>2. \A q, n : Must(n, q)' = Must(n, q) /\ \A x : Fits(x, q)' <=> Fits(x, q)
    BY <2>1, ScriptStays
  <2>3. Left' = Left /\ (NoMore(Left)' <=> NoMore(Left))  BY <2>1 DEF Left, NoMore
  <2>4. Must(run.mode, run.at)' = Must(run.mode, run.at)
    <3>1. \A q, n : n = run'.mode /\ q = run'.at => Must(n, q)' = Must(run.mode, run.at)'  OBVIOUS
    <3>2. QED  BY <2>1, <2>2, <3>1
  <2>5. \A x : Fits(x, run.at)' <=> Fits(x, run.at)
    <3>1. \A q, x : q = run'.at => (Fits(x, q)' <=> Fits(x, run.at)')  OBVIOUS
    <3>2. QED  BY <2>1, <2>2, <3>1
  <2>6. InOrder(run.steps)' <=> InOrder(run.steps)  BY <2>1 DEF InOrder
  <2>7. QED  BY <2>1, <2>3, <2>4, <2>5, <2>6 DEF OrderInv
<1>3. QED  BY <1>1, <1>2

-----------------------------------------------------------------------------
(* nft and wgsd, which are started when their file is there.               *)

LEMMA ServingWorks ==
    ASSUME RunInv, OrderInv, NEW s, NEW p \in Plugin, NEW f \in File, NEW things, NEW start,
           NEW enable, Owner(f) = p, f \in things, IsRead(f), f # "logrotate",
           f # "chinaConf",
           s \notin Distro, s \notin {"pd", "radvd", "collectd"},
           start.op \in {"restart", "load"}, start.on = s, enable.op = "enable", enable.on = s,
           \A ch : ch \cap things # {} => Due(start, ch) /\ (Due(enable, ch) \/ s \in boot),
           Serving(s, p, f, things, start, enable),
           NEW x, Goes(x), Does(x),
           x.op = "write" /\ x.on = f /\ Rendered(x) # Absent =>
               {start, enable} \subseteq Must(run.mode, p)
    PROVE  Serving(s, p, f, things, start, enable)'
<1>1. /\ run'.at = run.at /\ run.changed \subseteq run'.changed /\ cut \subseteq cut'
      /\ x \in Left /\ StepOK(x, run.at) /\ Fits(x, run.at)
  BY DEF Goes, Does
<1>2. (s \in up => s \in up') /\ (s \in boot => s \in boot')  BY <1>1, WhoStarts
<1>3. ASSUME run.at = p, run'.changed \cap things # {}, start \in Left
      PROVE  s \in up' \/ Pends(p, things, start)'
  <2>1. start = x \/ start \in Left' \/ ~Due(start, run'.changed)  BY <1>3 DEF Goes
  <2>2. start = x => s \in up'  BY DEF Does
  <2>3. Due(start, run'.changed)  BY <1>3
  <2>4. QED  BY <1>1, <1>3, <2>1, <2>2, <2>3 DEF Pends
<1>4. ASSUME run.at = p, run'.changed \cap things # {}, enable \in Left
      PROVE  s \in boot' \/ Pends(p, things, enable)'
  <2>1. enable = x \/ enable \in Left' \/ ~Due(enable, run'.changed)  BY <1>4 DEF Goes
  <2>2. enable = x => s \in boot'  BY DEF Does
  <2>3. Due(enable, run'.changed) \/ s \in boot  BY <1>4
  <2>4. QED  BY <1>1, <1>2, <1>4, <2>1, <2>2, <2>3 DEF Pends
<1>5. SUFFICES ASSUME disk'[f] # Absent, p \notin cut'
               PROVE  /\ s \in up' \/ Pends(p, things, start)'
                      /\ s \in boot' \/ Pends(p, things, enable)'
  BY DEF Serving
<1>6. CASE disk'[f] = disk[f]
  <2>1. /\ s \in up \/ Pends(p, things, start)
        /\ s \in boot \/ Pends(p, things, enable)
    BY <1>1, <1>5, <1>6 DEF Serving
  <2>2. \A m : Pends(p, things, m) => run.at = p /\ run'.changed \cap things # {} /\ m \in Left
    BY <1>1 DEF Pends
  <2>3. QED  BY <1>2, <1>3, <1>4, <2>1, <2>2
<1>7. CASE disk'[f] # disk[f]
  <2>1. x.op = "write" /\ f = x.on /\ f \in run'.changed /\ disk'[f] = Rendered(x)
    BY <1>7 DEF Does, Given
  <2>2. run.at = p  BY <1>1, <2>1 DEF StepOK
  <2>3. ~NoMore(Left)  BY <1>1, <2>1 DEF NoMore
  <2>4. {start, enable} \subseteq Must(run.mode, run.at)  BY <1>5, <2>1, <2>2
  <2>5. start \in Left /\ enable \in Left
    BY <2>2, <2>3, <2>4 DEF OrderInv, Commands
  <2>6. run'.changed \cap things # {}  BY <2>1
  <2>7. QED  BY <1>3, <1>4, <2>2, <2>5, <2>6
<1>8. QED  BY <1>6, <1>7

LEMMA ServingRests ==
    ASSUME NEW s, NEW p \in Plugin, NEW f \in File, NEW things, NEW start, NEW enable,
           f \notin {"chinaConf", "chinaManual"},
           Serving(s, p, f, things, start, enable),
           (\E D : Returns(D)) \/ Puts \/ Beside
    PROVE  Serving(s, p, f, things, start, enable)'
<1>1. SUFFICES ASSUME disk'[f] # Absent, p \notin cut'
               PROVE  /\ s \in up' \/ Pends(p, things, start)'
                      /\ s \in boot' \/ Pends(p, things, enable)'
  BY DEF Serving
<1>2. disk'[f] = disk[f] /\ p \notin cut /\ up \subseteq up' /\ boot' = boot
  BY <1>1 DEF Returns, Puts, Beside
<1>3. /\ s \in up \/ Pends(p, things, start)
      /\ s \in boot \/ Pends(p, things, enable)
  BY <1>1, <1>2 DEF Serving
<1>4. ASSUME NEW m, Pends(p, things, m) PROVE Pends(p, things, m)'
  <2>1. CASE \E D : Returns(D)  BY <1>4, <2>1 DEF Pends, Returns
  <2>2. CASE Puts  BY <1>1, <1>4, <2>2 DEF Pends, Puts
  <2>3. CASE Beside  BY <1>4, <2>3 DEF Pends, Beside, Left
  <2>4. QED  BY <2>1, <2>2, <2>3
<1>5. QED  BY <1>2, <1>3, <1>4

LEMMA NftIs ==
    /\ "nftEntry" \in File /\ Owner("nftEntry") = "network.firewall" /\ IsRead("nftEntry")
    /\ "nftEntry" \in NftThings /\ "network.firewall" \in Plugin
    /\ "wgsdUnit" \in File /\ Owner("wgsdUnit") = "network.wgsd-coredns" /\ IsRead("wgsdUnit")
    /\ "wgsdUnit" \in WgsdThings /\ "network.wgsd-coredns" \in Plugin
<1>1. "nftEntry" \in File /\ "wgsdUnit" \in File  BY AllFiles DEF FirewallOwns, WgsdOwns
<1>2. Owner("nftEntry") = "network.firewall"  BY <1>1, Owners DEF FirewallOwns
<1>3. Owner("wgsdUnit") = "network.wgsd-coredns"  BY <1>1, Owners DEF WgsdOwns
<1>4. IsRead("nftEntry") /\ IsRead("wgsdUnit")  BY KnownServices, WhoReads DEF IsRead
<1>5. QED  BY <1>1, <1>2, <1>3, <1>4, Plugins12 DEF NftThings, WgsdThings

LEMMA NftWorks ==
    ASSUME RunInv, OrderInv, NftInv, NEW x, Goes(x), Does(x)
    PROVE  NftInv'
<1>. DEFINE p == "network.firewall"
<1>1. {NftLoad, NftEnable} \subseteq Must(run.mode, p)  BY DEF Must
<1>2. \A ch : ch \cap NftThings # {} => Due(NftLoad, ch) /\ (Due(NftEnable, ch) \/ "nft" \in boot)
  BY NotDueIs
<1>3. "nft" \notin Distro  BY ServicesApart
<1>4. /\ NftLoad.op = "load" /\ NftLoad.on = "nft"
      /\ NftEnable.op = "enable" /\ NftEnable.on = "nft"
  BY MustAre
<1>5. Serving("nft", p, "nftEntry", NftThings, NftLoad, NftEnable)  BY DEF NftInv
<1>6. Serving("nft", p, "nftEntry", NftThings, NftLoad, NftEnable)'
  BY <1>1, <1>2, <1>3, <1>4, <1>5, NftIs, ServingWorks
<1>7. QED  BY <1>6 DEF NftInv

LEMMA WgsdWorks ==
    ASSUME RunInv, OrderInv, StepsInv, WgsdInv, NEW x, Goes(x), Does(x)
    PROVE  WgsdInv'
<1>. DEFINE p == "network.wgsd-coredns"
<1>1. x.op = "write" /\ x.on = "wgsdUnit" /\ Rendered(x) # Absent =>
         {WgsdRestart, WgsdEnable} \subseteq Must(run.mode, p)
  <2>1. SUFFICES ASSUME x.op = "write", x.on = "wgsdUnit", Rendered(x) # Absent
                 PROVE  coredns
    BY DEF Must
  <2>2. x = Want("wgsdUnit", run.sel)  BY <2>1 DEF StepsInv, Goes, Left
  <2>3. SUFFICES ASSUME ~coredns PROVE FALSE  OBVIOUS
  <2>4. Want("wgsdUnit", run.sel) = Delete("wgsdUnit")  BY <2>3 DEF Want
  <2>5. x.what = Absent  BY <2>2, <2>4, WritesAre
  <2>6. QED  BY <2>1, <2>5 DEF Rendered, OfNames
<1>2. \A ch : ch \cap WgsdThings # {} =>
         Due(WgsdRestart, ch) /\ (Due(WgsdEnable, ch) \/ "wgsd" \in boot)
  BY NotDueIs
<1>3. "wgsd" \notin Distro  BY ServicesApart
<1>4. /\ WgsdRestart.op = "restart" /\ WgsdRestart.on = "wgsd"
      /\ WgsdEnable.op = "enable" /\ WgsdEnable.on = "wgsd"
  BY MustAre
<1>5. Serving("wgsd", p, "wgsdUnit", WgsdThings, WgsdRestart, WgsdEnable)  BY DEF WgsdInv
<1>6. Serving("wgsd", p, "wgsdUnit", WgsdThings, WgsdRestart, WgsdEnable)'
  BY <1>1, <1>2, <1>3, <1>4, <1>5, NftIs, ServingWorks
<1>7. QED  BY <1>6 DEF WgsdInv

LEMMA NftWgsdRest ==
    ASSUME NftInv, WgsdInv, (\E D : Returns(D)) \/ Puts \/ Beside
    PROVE  NftInv' /\ WgsdInv'
<1>1. NftInv'
  <2>1. Serving("nft", "network.firewall", "nftEntry", NftThings, NftLoad, NftEnable)'
    BY NftIs, ServingRests DEF NftInv
  <2>2. QED  BY <2>1 DEF NftInv
<1>2. WgsdInv'
  <2>1. Serving("wgsd", "network.wgsd-coredns", "wgsdUnit", WgsdThings, WgsdRestart, WgsdEnable)'
    BY NftIs, ServingRests DEF WgsdInv
  <2>2. QED  BY <2>1 DEF WgsdInv
<1>3. QED  BY <1>1, <1>2

-----------------------------------------------------------------------------
(* collectd, whose file says whether it is to run.                         *)

\* After a command of its plugin, the file says what the switch says.
LEMMA CollectdSays ==
    ASSUME SelInv, ScriptInv', NEW x, Goes(x), x.op \in Commands, run.at = "monitoring.collectd"
    PROVE  disk'["collectdConf"].tag = "disabled" <=> ~On("collectd")
<1>. DEFINE f == "collectdConf"
<1>1. /\ run'.at = run.at /\ run'.sel = run.sel /\ UNCHANGED <<conf, coredns>> /\ NoMore(Left)'
  BY DEF Goes
<1>2. "collectd" \in run.sel  BY DEF SelInv
<1>3. f \in File /\ Owner(f) = "monitoring.collectd"  BY AllFiles, Owners
<1>4. ObjectsOf(f) = {"collectd"} /\ Wanted(f)' /\ "monitoring.collectd" \in Plugin /\ IsRead(f)
  <2>1. ObjectsOf(f) = Kinds["monitoring.collectd"]  BY <1>3 DEF ObjectsOf
  <2>2. Wanted(f)'  BY DEF Wanted
  <2>3. IsRead(f)  BY KnownServices, WhoReads DEF IsRead
  <2>4. QED  BY <2>1, <2>2, <2>3, KindsAre, Plugins12
<1>5. Want(f, run.sel)' \in Left' \/ OnDisk(Want(f, run.sel))'
  <2>1. Wanted(f)' /\ ObjectsOf(f) \subseteq run'.sel /\ Owner(f) = run'.at /\ run'.at \in Plugin
    BY <1>1, <1>2, <1>3, <1>4
  <2>2. QED  BY <1>3, <2>1 DEF ScriptInv, Left
<1>6. PICK w : w = IF On("collectd") THEN Plain(f) ELSE Off(f)  OBVIOUS
<1>7. w.op = "write" /\ w.on = f /\ (w.what.tag = "disabled" <=> ~On("collectd"))
  BY <1>6, WritesAre
<1>8. Want(f, run.sel)' = w
  <2>1. Plain(f)' = Plain(f) /\ Off(f)' = Off(f)  BY <1>1 DEF Plain, Off, Content
  <2>2. On("collectd")' <=> On("collectd")  BY <1>1 DEF On
  <2>3. Want(f, run.sel)' = IF On("collectd")' THEN Plain(f)' ELSE Off(f)'  BY DEF Want
  <2>4. QED  BY <1>6, <2>1, <2>2, <2>3
<1>9. w \notin Left'
  BY <1>1, <1>4, <1>7 DEF NoMore
<1>10. disk'[f] = w.what
  <2>1. OnDisk(Want(f, run.sel))'  BY <1>5, <1>8, <1>9
  <2>2. disk'[(Want(f, run.sel)').on] = (Want(f, run.sel)').what
    BY <1>7, <1>8, <2>1 DEF OnDisk
  <2>3. QED  BY <1>7, <1>8, <2>2
<1>11. QED  BY <1>7, <1>10

LEMMA CollectdWorks ==
    ASSUME RunInv, OrderInv, SelInv, CollectdInv, ScriptInv', NEW x, Goes(x), Does(x)
    PROVE  CollectdInv'
<1>. DEFINE p == "monitoring.collectd"
            f == "collectdConf"
            s == "collectd"
            R == CollectdRestart
            E == CollectdEnable
            D == CollectdDisable
            hit == run'.changed \cap CollectdThings # {}
<1>1. /\ run'.at = run.at /\ run.changed \subseteq run'.changed /\ cut \subseteq cut'
      /\ x \in Left /\ StepOK(x, run.at) /\ Fits(x, run.at)
  BY DEF Goes, Does
<1>2. /\ R.op = "restart" /\ R.on = s /\ E.op = "enable" /\ E.on = s
      /\ D.op = "disable" /\ D.on = s
  BY MustAre
<1>3. /\ f \in File /\ Owner(f) = p /\ f # "logrotate" /\ IsRead(f)
      /\ f \in CollectdThings /\ "packages" \in CollectdThings
  <2>1. f \in File  BY AllFiles
  <2>2. IsRead(f)  BY KnownServices, WhoReads DEF IsRead
  <2>3. QED  BY <2>1, <2>2, Owners DEF CollectdThings
<1>4. hit => Due(R, run'.changed) /\ Due(D, run'.changed) /\ (Due(E, run'.changed) \/ s \in boot)
  BY NotDueIs
<1>5. \A m : m \in Left => m = x \/ m \in Left' \/ ~Due(m, run'.changed)  BY DEF Goes
<1>6. /\ R \in Left => On(s)
      /\ E \in Left => On(s)
      /\ D \in Left => ~On(s)
  <2>1. SUFFICES ASSUME NEW m \in Left, m \in {R, E, D} PROVE IF m = D THEN ~On(s) ELSE On(s)
    BY <1>2
  <2>2. Fits(m, run.at)  BY <2>1 DEF OrderInv, Goes
  <2>3. QED  BY <1>2, <2>1, <2>2, ServicesApart, KnownServices DEF Fits, SwitchedOff
<1>7. /\ s \in up' \ up \/ s \in boot' \ boot =>
            /\ run.at = p
            /\ \/ x.op = "install"
               \/ x.op \in Commands /\ On(s)
      /\ s \in up \ up' \/ s \in boot \ boot' => run.at = p /\ x.op \in Commands /\ ~On(s)
  <2>1. s \in up' \ up \/ s \in boot' \ boot =>
            \/ x.op = "install" /\ run.at = p
            \/ x.op \in {"restart", "load", "loadIfThere", "enable"} /\ ~SwitchedOff(s) /\ run.at = p
    BY <1>1, WhoStarts, ServicesApart
  <2>2. s \in up \ up' \/ s \in boot \ boot' =>
            x.op \in {"disable", "tryDisable"} /\ run.at = p /\ ~On(s)
    BY <1>1, WhoStarts, ServicesApart
  <2>3. QED  BY <2>1, <2>2 DEF Commands, SwitchedOff
<1>8. /\ CollectdPends(D)' <=> run.at = p /\ hit /\ D \in Left'
      /\ CollectdPends(R)' <=> run.at = p /\ hit /\ R \in Left'
      /\ CollectdPends(E)' <=> run.at = p /\ hit /\ E \in Left'
      /\ CollectdPends(D) => run.at = p /\ hit /\ D \in Left
      /\ CollectdPends(R) => run.at = p /\ hit /\ R \in Left
      /\ CollectdPends(E) => run.at = p /\ hit /\ E \in Left
  BY <1>1 DEF CollectdPends, Pends
<1>9. run.at = p /\ x.op \in Commands => (disk'[f].tag = "disabled" <=> ~On(s))
  BY CollectdSays
<1>10. SUFFICES ASSUME disk'[f] # Absent, p \notin cut'
                PROVE  \/ CollectdPends(D)'
                       \/ CollectdPends(R)' /\ (s \in boot' \/ E \in Left')
                       \/ disk'[f].tag = "disabled" /\ s \notin up' \cup boot'
                       \/ /\ disk'[f].tag # "disabled" /\ s \in up'
                          /\ s \in boot' \/ CollectdPends(E)'
  BY DEF CollectdInv
<1>. HIDE DEF R, E, D, hit
<1>11. CASE (x.op = "install" /\ run.at = p) \/ disk'[f] # disk[f]
  <2>1. run.at = p /\ hit /\ ~NoMore(Left) /\ x.op \in {"install", "write"}
    <3>1. CASE x.op = "install" /\ run.at = p
      <4>1. "packages" \in run'.changed  BY <3>1 DEF Does
      <4>2. QED  BY <1>1, <1>3, <3>1, <4>1 DEF NoMore, hit
    <3>2. CASE disk'[f] # disk[f]
      <4>1. x.op = "write" /\ f = x.on /\ f \in run'.changed  BY <1>3, <3>2 DEF Does
      <4>2. run.at = p  BY <1>1, <1>3, <4>1 DEF StepOK
      <4>3. QED  BY <1>1, <1>3, <4>1, <4>2 DEF NoMore, hit
    <3>3. QED  BY <1>11, <3>1, <3>2
  <2>2. x # R /\ x # E /\ x # D  BY <1>2, <2>1
  <2>3. p \in Plugin  BY Plugins12
  <2>4. CASE On(s)
    <3>1. R \in Must(run.mode, p) /\ E \in Must(run.mode, p)  BY <2>4 DEF Must, R, E
    <3>2. R \in Left /\ E \in Left  BY <1>2, <2>1, <2>3, <3>1 DEF OrderInv, Commands
    <3>3. R \in Left' /\ (s \in boot \/ E \in Left')  BY <1>4, <1>5, <2>1, <2>2, <3>2
    <3>4. s \in boot => s \in boot'  BY <1>7, <2>4
    <3>5. QED  BY <1>8, <2>1, <3>3, <3>4
  <2>5. CASE ~On(s)
    <3>1. D \in Must(run.mode, p)  BY <2>5 DEF Must, D
    <3>2. D \in Left  BY <1>2, <2>1, <2>3, <3>1 DEF OrderInv, Commands
    <3>3. D \in Left'  BY <1>4, <1>5, <2>1, <2>2, <3>2
    <3>4. QED  BY <1>8, <2>1, <3>3
  <2>6. QED  BY <2>4, <2>5
<1>12. CASE ~(x.op = "install" /\ run.at = p) /\ disk'[f] = disk[f]
  <2>1. /\ s \in up' \ up \/ s \in boot' \ boot =>
              run.at = p /\ x.op \in Commands /\ On(s) /\ disk'[f].tag # "disabled"
        /\ s \in up \ up' \/ s \in boot \ boot' =>
              run.at = p /\ x.op \in Commands /\ ~On(s) /\ disk'[f].tag = "disabled"
    BY <1>7, <1>9, <1>12
  <2>2. CASE CollectdPends(D)
    <3>1. x = D => s \notin up' \cup boot' /\ disk'[f].tag = "disabled"
      <4>1. SUFFICES ASSUME x = D PROVE s \notin up' \cup boot' /\ disk'[f].tag = "disabled"  OBVIOUS
      <4>2. s \notin up' \cup boot'  BY <1>2, <4>1 DEF Does
      <4>3. x.op \in Commands  BY <1>2, <4>1 DEF Commands
      <4>4. QED  BY <1>6, <1>8, <1>9, <2>2, <4>2, <4>3
    <3>2. QED  BY <1>4, <1>5, <1>8, <2>2, <3>1
  <2>3. CASE CollectdPends(R) /\ (s \in boot \/ E \in Left)
    <3>1. On(s) /\ hit /\ run.at = p  BY <1>6, <1>8, <2>3
    <3>2. s \in boot => s \in boot'  BY <2>1, <3>1
    <3>3. s \in boot' \/ E \in Left'
      <4>1. x = E => s \in boot'  BY <1>2 DEF Does
      <4>2. QED  BY <1>4, <1>5, <2>3, <3>1, <3>2, <4>1
    <3>4. x = R => s \in up' /\ disk'[f].tag # "disabled"
      <4>1. SUFFICES ASSUME x = R PROVE s \in up' /\ disk'[f].tag # "disabled"  OBVIOUS
      <4>2. s \in up'  BY <1>2, <4>1 DEF Does
      <4>3. x.op \in Commands  BY <1>2, <4>1 DEF Commands
      <4>4. QED  BY <1>9, <3>1, <4>2, <4>3
    <3>5. QED  BY <1>4, <1>5, <1>8, <2>3, <3>1, <3>3, <3>4
  <2>4. CASE disk[f].tag = "disabled" /\ s \notin up \cup boot
    BY <1>12, <2>1, <2>4
  <2>5. CASE /\ disk[f].tag # "disabled" /\ s \in up
             /\ s \in boot \/ CollectdPends(E)
    <3>1. s \in up' /\ (s \in boot => s \in boot') /\ disk'[f].tag # "disabled"
      BY <1>12, <2>1, <2>5
    <3>2. CollectdPends(E) => s \in boot' \/ CollectdPends(E)'
      <4>1. x = E => s \in boot'  BY <1>2 DEF Does
      <4>2. QED  BY <1>4, <1>5, <1>8, <3>1, <4>1
    <3>3. QED  BY <2>5, <3>1, <3>2
  <2>6. QED  BY <1>1, <1>10, <1>12, <2>2, <2>3, <2>4, <2>5 DEF CollectdInv, R, E, D
<1>13. QED  BY <1>11, <1>12

LEMMA CollectdRests ==
    ASSUME CollectdInv, (\E D : Returns(D)) \/ Puts \/ Beside
    PROVE  CollectdInv'
<1>. DEFINE p == "monitoring.collectd"
            f == "collectdConf"
            s == "collectd"
<1>0. f \in File  BY AllFiles
<1>1. /\ disk'[f] = disk[f] /\ cut \subseteq cut' /\ boot' = boot
      /\ up \subseteq up' /\ up' \subseteq up \cup {"dnsmasq"}
  BY <1>0 DEF Returns, Puts, Beside
<1>2. CASE Beside
  <2>1. Left' = Left /\ \A m : CollectdPends(m)' <=> CollectdPends(m)
    BY <1>2 DEF Beside, Left, CollectdPends, Pends
  <2>2. QED  BY <1>1, <2>1 DEF CollectdInv
<1>3. CASE (\E D : Returns(D)) \/ Puts
  <2>1. SUFFICES ASSUME p \notin cut' PROVE CollectdInv'  BY DEF CollectdInv
  <2>2. ASSUME NEW m, CollectdPends(m) PROVE FALSE
    <3>1. p \in Plugin  BY Plugins12
    <3>2. QED  BY <1>3, <2>1, <2>2, <3>1 DEF CollectdPends, Pends, Returns, Puts
  <2>3. QED  BY <1>1, <2>1, <2>2 DEF CollectdInv
<1>4. QED  BY <1>2, <1>3

-----------------------------------------------------------------------------
(* Services that run with files older than those on the disk.              *)

\* The command a write asks for stays in the list, and is due.
LEMMA AsksFor ==
    ASSUME NEW x, Goes(x), x.op = "write", x.on \in run'.changed,
           NEW s \in up, x.on \in Reads[s], s \in Service, ~Unread(x, s)
    PROVE  \E z \in Left' : Ends(z, s, x.on) /\ z.if \cap (run'.changed \cup {"always"}) # {}
<1>1. PICK z \in Left : Ends(z, s, x.on)  BY DEF Goes
<1>2. z.if \cap (run'.changed \cup {"always"}) # {}  BY <1>1 DEF Ends
<1>3. z # x  BY <1>1 DEF Ends, Commands
<1>4. z = x \/ z \in Left' \/ ~Due(z, run'.changed)  BY DEF Goes
<1>5. Due(z, run'.changed)
  <2>1. /\ z.on = s /\ z.unless = {}
        /\ z.op \in {"restart", "load", "loadIfThere", "disable", "tryDisable"}
    BY <1>1 DEF Ends, Commands
  <2>2. QED  BY <1>2, <2>1, WhenDue
<1>6. QED  BY <1>1, <1>2, <1>3, <1>4, <1>5

LEMMA StaleWorks ==
    ASSUME RunInv, MachineInv, StaleInv, NEW x, Goes(x), Does(x)
    PROVE  StaleInv'
<1>1. /\ run'.at = run.at /\ run.changed \subseteq run'.changed /\ cut \subseteq cut'
      /\ x \in Left /\ StepOK(x, run.at) /\ run.at \in Plugin /\ china' = china
  BY DEF Goes, Does
<1>2. /\ "nftPd" \in File /\ "nftEntry" \in File /\ "nftFirewall" \in File
      /\ \A s \in Service : "nftPd" \in Reads[s] => s = "nft"
  <2>1. "nftPd" \in File /\ "nftEntry" \in File /\ "nftFirewall" \in File
    BY AllFiles DEF PdOwns, FirewallOwns
  <2>2. \A s \in Service : "nftPd" \in Reads[s] => s = "nft"  BY ReadBy
  <2>3. QED  BY <2>1, <2>2
<1>3. ASSUME NEW s \in Service, NEW f \in Reads[s], NEW g, s \in up, f = g \/ g = "nftPd",
             x.op = "write", x.on = f, f \in run'.changed, ~Unread(x, s),
             g \in Reads[s], run.at \in Own(s)
      PROVE  Awaits(s, g)'
  <2>1. PICK z \in Left' : Ends(z, s, f) /\ z.if \cap (run'.changed \cup {"always"}) # {}
    BY <1>3, AsksFor
  <2>2. /\ z.on = s /\ z.op \in Commands \ {"enable"} /\ z.unless = {}
        /\ z.op = "loadIfThere" => g = "nftPd"
    BY <1>3, <2>1 DEF Ends
  <2>3. run'.changed # {} /\ run'.at \in Own(s)  BY <1>1, <1>3
  <2>4. Own(s)' = Own(s)  OBVIOUS
  <2>5. QED  BY <2>1, <2>2, <2>3, <2>4 DEF Awaits, Hits
<1>4. SUFFICES ASSUME NEW y \in stale'
               PROVE  y[1] \in Service /\ y[2] \in Reads[y[1]] /\ Excused(y[1], y[2])'
  BY DEF StaleInv
<1>5. PICK s, f : s = y[1] /\ f = y[2]  OBVIOUS
<1>6. CASE y \notin stale
  <2>1. /\ x.op = "write" /\ f = x.on /\ f \in run'.changed /\ s \in Service \cap up /\ f \in Reads[s]
    BY <1>5, <1>6 DEF Does
  <2>2. CASE Unread(x, s)
    <3>1. s = "wgsd" \/ f = "dnsmasqConf" => Excused(s, f)'  BY DEF Excused
    <3>2. ASSUME f = "nftPd", x.what.tag = "disabled" PROVE Excused(s, f)'
      <4>1. disk'[f] = Rendered(x)  BY <2>1, <3>2 DEF Does, Given
      <4>2. Rendered(x) = x.what  BY <2>1, <3>2 DEF Rendered, OfNames
      <4>3. QED  BY <3>2, <4>1, <4>2 DEF Excused
    <3>3. QED  BY <1>5, <2>1, <2>2, <3>1, <3>2 DEF Unread
  <2>3. CASE ~Unread(x, s)
    <3>1. run.at \in Own(s)
      <4>1. f # "logrotate"  BY <2>1, ReadBy
      <4>2. Owner(f) = run.at  BY <1>1, <2>1, <4>1 DEF StepOK
      <4>3. QED  BY <2>1, <4>2 DEF Own
    <3>2. Awaits(s, f)'  BY <1>3, <2>1, <2>3, <3>1
    <3>3. QED  BY <1>5, <2>1, <3>2 DEF Excused
  <2>4. QED  BY <2>2, <2>3
<1>7. CASE y \in stale
  <2>1. s \in Service /\ f \in Reads[s] /\ Excused(s, f) /\ s \in up
    BY <1>5, <1>7 DEF StaleInv, MachineInv
  <2>2. Own(s)' = Own(s)  OBVIOUS
  <2>3. SUFFICES Excused(s, f)'  BY <1>5, <2>1
  <2>4. CASE s = "wgsd" \/ f = "dnsmasqConf"  BY <2>4 DEF Excused
  <2>5. CASE Own(s) \cap cut # {}
    <3>1. (Own(s) \cap cut)' # {}  BY <1>1, <2>2, <2>5
    <3>2. QED  BY <3>1 DEF Excused
  <2>6. CASE /\ s = "dnsmasq"
             /\ "china" \in cut \/ (china.changed /\ china.pc \in {"chinaManual", "restart"})
    BY <1>1, <2>6 DEF Excused
  <2>7. CASE Awaits(s, f)
    <3>1. PICK z \in Left : /\ z.on = s /\ z.op \in Commands \ {"enable"} /\ z.unless = {}
                            /\ Hits(z.if) /\ (z.op = "loadIfThere" => f = "nftPd")
      BY <2>7 DEF Awaits
    <3>2. z.if \cap (run'.changed \cup {"always"}) # {}  BY <1>1, <3>1 DEF Hits
    <3>3. Due(z, run'.changed)
      <4>1. z.op \in {"restart", "load", "loadIfThere", "disable", "tryDisable"}
        BY <3>1 DEF Commands
      <4>2. QED  BY <2>1, <3>1, <3>2, <4>1, WhenDue
    <3>4. z = x \/ z \in Left'  BY <3>3 DEF Goes
    <3>5. CASE z \in Left'
      <4>1. run'.changed # {} /\ run'.at \in Own(s)  BY <1>1, <2>7 DEF Awaits
      <4>2. Awaits(s, f)'  BY <2>2, <3>1, <3>2, <3>5, <4>1 DEF Awaits, Hits
      <4>3. QED  BY <4>2 DEF Excused
    <3>6. CASE z = x
      <4>1. x.op \in {"restart", "load", "loadIfThere", "disable", "tryDisable"} /\ x.on = s
        BY <3>1, <3>6 DEF Commands
      <4>2. CASE x.op \in {"restart", "load"} \/ (x.op = "loadIfThere" /\ FirewallThere)
        BY <1>5, <4>1, <4>2 DEF Does
      <4>3. CASE x.op = "loadIfThere" /\ ~FirewallThere
        <5>1. ~FirewallThere'  BY <1>2, <4>3 DEF Does, FirewallThere
        <5>2. f = "nftPd"  BY <3>1, <3>6, <4>3
        <5>3. QED  BY <5>1, <5>2 DEF Excused
      <4>4. CASE x.op \in {"disable", "tryDisable"}
        <5>1. run.at \in cut'  BY <1>5, <4>1, <4>4 DEF Does
        <5>2. (Own(s) \cap cut)' # {}  BY <2>2, <2>7, <5>1 DEF Awaits
        <5>3. QED  BY <5>2 DEF Excused
      <4>5. QED  BY <4>1, <4>2, <4>3, <4>4
    <3>7. QED  BY <3>4, <3>5, <3>6
  <2>8. CASE f = "nftPd" /\ (disk["nftPd"].tag = "disabled" \/ ~FirewallThere)
    <3>1. s = "nft"  BY <1>2, <2>1, <2>8
    <3>2. SUFFICES ASSUME ~(disk'["nftPd"].tag = "disabled" \/ ~FirewallThere') PROVE Awaits(s, f)'
      BY <2>8 DEF Excused
    <3>3. PICK g \in {"nftPd", "nftEntry", "nftFirewall"} : disk'[g] # disk[g]
      BY <2>8, <3>2 DEF FirewallThere
    <3>4. /\ x.op = "write" /\ g = x.on /\ g \in run'.changed /\ disk'[g] = Rendered(x)
      BY <1>2, <3>3 DEF Does, Given
    <3>5. ~Unread(x, s)
      <4>1. Rendered(x) = x.what  BY <3>3, <3>4 DEF Rendered, OfNames
      <4>2. g = "nftPd" => x.what.tag # "disabled"  BY <3>2, <3>4, <4>1
      <4>3. QED  BY <3>1, <3>3, <3>4, <4>2 DEF Unread
    <3>6. g \in Reads[s]  BY <3>1, <3>3, WhoReads
    <3>7. run.at \in Own(s)
      <4>1. g # "logrotate"  BY <3>3
      <4>2. Owner(g) = run.at  BY <1>1, <3>4, <4>1 DEF StepOK
      <4>3. QED  BY <3>6, <4>2 DEF Own
    <3>8. QED  BY <1>3, <2>1, <2>8, <3>4, <3>5, <3>6, <3>7
  <2>9. QED  BY <2>1, <2>4, <2>5, <2>6, <2>7, <2>8 DEF Excused
<1>8. QED  BY <1>6, <1>7

LEMMA StaleRests ==
    ASSUME MachineInv, RunInv, StaleInv, (\E D : Returns(D)) \/ Puts \/ Beside
    PROVE  StaleInv'
<1>1. SUFFICES ASSUME NEW y \in stale'
               PROVE  y[1] \in Service /\ y[2] \in Reads[y[1]] /\ Excused(y[1], y[2])'
  BY DEF StaleInv
<1>2. PICK s, f : s = y[1] /\ f = y[2]  OBVIOUS
<1>3. Own(s)' = Own(s) /\ cut \subseteq cut'  BY DEF Returns, Puts, Beside
<1>4. /\ "nftPd" \in File /\ "nftEntry" \in File /\ "nftFirewall" \in File
  BY AllFiles DEF PdOwns, FirewallOwns
<1>5. disk'["nftPd"] = disk["nftPd"] /\ (FirewallThere' <=> FirewallThere)
  BY <1>4 DEF Returns, Puts, Beside, FirewallThere
<1>6. CASE y \in stale
  <2>1. s \in Service /\ f \in Reads[s] /\ Excused(s, f)  BY <1>2, <1>6 DEF StaleInv
  <2>2. SUFFICES Excused(s, f)'  BY <1>2, <2>1
  <2>3. CASE s = "wgsd" \/ f = "dnsmasqConf"  BY <2>3 DEF Excused
  <2>4. CASE Own(s) \cap cut # {}
    <3>1. (Own(s) \cap cut)' # {}  BY <1>3, <2>4
    <3>2. QED  BY <3>1 DEF Excused
  <2>5. CASE f = "nftPd" /\ (disk["nftPd"].tag = "disabled" \/ ~FirewallThere)
    BY <1>5, <2>5 DEF Excused
  <2>6. CASE Awaits(s, f)
    <3>1. CASE \E D : Returns(D)  BY <2>6, <3>1 DEF Awaits, Returns
    <3>2. CASE Puts
      <4>1. run.at \in cut'  BY <2>6, <3>2 DEF Awaits, Puts, RunInv
      <4>2. (Own(s) \cap cut)' # {}  BY <1>3, <2>6, <4>1 DEF Awaits
      <4>3. QED  BY <4>2 DEF Excused
    <3>3. CASE Beside
      <4>1. run'.at = run.at /\ run'.changed = run.changed /\ Left' = Left
        BY <3>3 DEF Beside, Left
      <4>2. Awaits(s, f)'  BY <1>3, <2>6, <4>1 DEF Awaits, Hits
      <4>3. QED  BY <4>2 DEF Excused
    <3>4. QED  BY <3>1, <3>2, <3>3
  <2>7. CASE /\ s = "dnsmasq"
             /\ "china" \in cut \/ (china.changed /\ china.pc \in {"chinaManual", "restart"})
    <3>1. \/ "china" \in cut'
          \/ china'.changed /\ china'.pc \in {"chinaManual", "restart"}
      <4>1. CASE (\E D : Returns(D)) \/ Puts  BY <1>3, <2>7, <4>1 DEF Returns, Puts
      <4>2. CASE Beside  BY <1>1, <1>2, <1>3, <2>7, <4>2 DEF Beside
      <4>3. QED  BY <4>1, <4>2
    <3>2. QED  BY <2>7, <3>1 DEF Excused
  <2>8. QED  BY <2>1, <2>3, <2>4, <2>5, <2>6, <2>7 DEF Excused
<1>7. CASE y \notin stale
  <2>1. Beside  BY <1>1, <1>7 DEF Returns, Puts
  <2>2. /\ s = "dnsmasq" /\ f \in {"chinaConf", "chinaManual"}
        /\ china'.changed /\ china'.pc \in {"chinaManual", "restart"}
    BY <1>1, <1>2, <1>7, <2>1 DEF Beside
  <2>3. s \in Service /\ f \in Reads[s]  BY <2>2, KnownServices, WhoReads
  <2>4. QED  BY <1>2, <2>2, <2>3 DEF Excused
<1>8. QED  BY <1>6, <1>7

-----------------------------------------------------------------------------
(* What a run is about, and what an event leaves.                          *)

\* The next plugin of a run.
LEMMA TakesNext ==
    ASSUME RunInv, NextPlugin
    PROVE  /\ run'.mode = run.mode /\ run'.sel = run.sel /\ UNCHANGED <<conf, last>> /\ Running
           /\ run.steps = <<>> /\ run.todo # {}
           /\ \/ run'.at = "" /\ run'.todo = {} /\ \A p \in run.todo : StepsOf(p) = <<>>
              \/ run'.at \in run.todo /\ run'.todo \subseteq run.todo \ {run'.at}
<1>1. UNCHANGED <<conf, last>> /\ Running /\ run.steps = <<>> /\ run.todo # {}
  BY DEF NextPlugin
<1>2. CASE /\ run' = [run EXCEPT !.at = "", !.todo = {}, !.changed = {}]
           /\ \A p \in run.todo : StepsOf(p) = <<>>
  <2>1. run'.at = "" /\ run'.todo = {} /\ run'.mode = run.mode /\ run'.sel = run.sel
    BY <1>2 DEF RunInv, Idle
  <2>2. QED  BY <1>1, <1>2, <2>1
<1>3. CASE \E p \in run.todo :
             LET passed == {q \in run.todo : Place[q] < Place[p]} IN
             run' = [run EXCEPT !.at = p, !.todo = @ \ (passed \cup {p}), !.changed = {},
                                !.steps = StepsOf(p)]
  <2>1. PICK p \in run.todo :
             LET passed == {q \in run.todo : Place[q] < Place[p]} IN
             run' = [run EXCEPT !.at = p, !.todo = @ \ (passed \cup {p}), !.changed = {},
                                !.steps = StepsOf(p)]
    BY <1>3
  <2>. DEFINE passed == {q \in run.todo : Place[q] < Place[p]}
              left == run.todo \ (passed \cup {p})
  <2>2. run' = [run EXCEPT !.at = p, !.todo = left, !.changed = {}, !.steps = StepsOf(p)]
    BY <2>1
  <2>3. left \subseteq run.todo \ {p}  OBVIOUS
  <2>. HIDE DEF left
  <2>4. run'.at = p /\ run'.todo = left /\ run'.mode = run.mode /\ run'.sel = run.sel
    BY <2>2 DEF RunInv, Idle
  <2>5. QED  BY <1>1, <2>3, <2>4
<1>4. QED  BY <1>2, <1>3 DEF NextPlugin

\* The commands of an event.
LEMMA EventCommands ==
    ASSUME On("pd"), run.mode = "event"
    PROVE  /\ \A s \in {"pd", "radvd"} : /\ PdRestart(run.mode, s) \in Must(run.mode, "network.ipv6pd")
                                         /\ \A ch : Due(PdRestart(run.mode, s), ch)
           /\ PdLoad(run.mode) \in Must(run.mode, "network.ipv6pd")
           /\ \A ch : Due(PdLoad(run.mode), ch)
<1>1. \A ch : /\ Due(PdRestart("event", "pd"), ch) /\ Due(PdRestart("event", "radvd"), ch)
              /\ Due(PdLoad("event"), ch)
  BY NotDueIs
<1>2. \A s \in {"pd", "radvd"} : \A ch : Due(PdRestart(run.mode, s), ch)  BY <1>1
<1>3. QED  BY <1>1, <1>2 DEF Must

LEMMA SelStays ==
    ASSUME SelInv, run'.at = run.at, run'.todo = run.todo, run'.sel = run.sel,
           run'.mode = run.mode, conf' = conf, last' \in {last, None}
    PROVE  SelInv'
  BY DEF SelInv, On, Running

LEMMA SelNobody ==
    ASSUME run' = Idle
    PROVE  SelInv'
<1>1. run'.at = "" /\ run'.todo = {} /\ run'.mode = "idle"  BY DEF Idle
<1>2. QED  BY <1>1 DEF SelInv, Running

LEMMA SelNext ==
    ASSUME RunInv, SelInv, NextPlugin
    PROVE  SelInv'
<1>. DEFINE pd == "network.ipv6pd"
<1>1. /\ run'.mode = run.mode /\ run'.sel = run.sel /\ UNCHANGED <<conf, last>> /\ Running
      /\ run.todo # {}
  BY TakesNext
<1>2. On("pd")' <=> On("pd")  BY <1>1 DEF On
<1>3. CASE run'.at = "" /\ run'.todo = {} /\ \A p \in run.todo : StepsOf(p) = <<>>
  <2>1. ASSUME run.mode = "event", On("pd") PROVE FALSE
    <3>1. pd \in run.todo /\ pd \in Plugin  BY <1>1, <2>1, Plugins12 DEF SelInv
    <3>2. StepsOf(pd) = <<>>  BY <1>3, <3>1
    <3>3. ~Due(PdLoad(run.mode), {})  BY <2>1, <3>1, <3>2, EventCommands, PassedOver
    <3>4. QED  BY <2>1, <3>3, EventCommands
  <2>2. QED  BY <1>1, <1>2, <1>3, <2>1 DEF SelInv, Running
<1>4. CASE run'.at \in run.todo /\ run'.todo \subseteq run.todo \ {run'.at}
  <2>1. run'.mode = "event" => run'.at = pd /\ run'.todo = {}  BY <1>1, <1>4 DEF SelInv
  <2>2. QED  BY <1>1, <1>2, <1>4, <2>1 DEF SelInv, Running
<1>5. QED  BY <1>3, <1>4, TakesNext

LEMMA SelBegins ==
    ASSUME RunInv, Begins
    PROVE  SelInv'
<1>1. PICK mode, sel : Begin(mode, sel) /\ (mode = "bootstrap" => sel = Object)
                       /\ mode \in {"bootstrap", "update", "event"}
  BY DEF Begins
<1>2. /\ run'.at = "" /\ run'.todo = Plugins(mode, sel) /\ run'.sel = sel /\ run'.mode = mode
      /\ last' = None /\ conf' = conf
  BY <1>1 DEF Begin, Idle
<1>3. On("pd")' <=> On("pd")  BY <1>2 DEF On
<1>4. "monitoring.collectd" \in run'.todo => "collectd" \in run'.sel
  <2>1. "collectd" \in Object  BY Plugins12, KindsAre DEF Object
  <2>2. CASE mode = "bootstrap"  BY <1>1, <1>2, <2>1, <2>2
  <2>3. CASE mode = "update"
    <3>1. "monitoring.collectd" \in Plugins(mode, sel) => Kinds["monitoring.collectd"] \cap sel # {}
      BY <2>3 DEF Plugins
    <3>2. Kinds["monitoring.collectd"] = {"collectd"}  BY KindsAre
    <3>3. Kinds["monitoring.collectd"] \cap sel # {} => "collectd" \in sel  BY <3>2
    <3>4. QED  BY <1>2, <3>1, <3>3
  <2>4. CASE mode = "event"
    <3>1. "monitoring.collectd" \notin Plugins(mode, sel)  BY <2>4 DEF Plugins
    <3>2. QED  BY <1>2, <3>1
  <2>5. QED  BY <1>1, <2>2, <2>3, <2>4
<1>5. mode = "event" => /\ run'.todo \subseteq {"network.ipv6pd"}
                        /\ On("pd") => run'.todo # {}
  BY <1>2, Plugins12 DEF Plugins
<1>6. QED  BY <1>2, <1>3, <1>4, <1>5, Plugins12 DEF SelInv

-----------------------------------------------------------------------------

LEMMA FirewallStays ==
    ASSUME disk'["nftEntry"] = disk["nftEntry"], disk'["nftFirewall"] = disk["nftFirewall"]
    PROVE  FirewallThere' <=> FirewallThere
  BY DEF FirewallThere

LEMMA EventWorks ==
    ASSUME RunInv, SelInv, EventInv, Running, NEW x, Goes(x), Does(x)
    PROVE  EventInv'
<1>. DEFINE pd == "network.ipv6pd"
<1>1. /\ run'.at = run.at /\ run'.mode = run.mode /\ Left' \subseteq Left /\ x \in Left
      /\ UNCHANGED <<conf, coredns, last>> /\ StepOK(x, run.at) /\ Fits(x, run.at)
      /\ (On("pd")' <=> On("pd"))
  BY DEF Goes, On
<1>2. last' = None  BY <1>1 DEF SelInv
<1>3. None.mode # "event"  BY DEF None
<1>4. SUFFICES ASSUME run.mode = "event", run.at = pd, On("pd")
               PROVE  /\ \A s \in {"pd", "radvd"} :
                            \/ PdRestart(run.mode, s) \in Left'
                            \/ Clean(s)' /\ NoMore(Left)'
                      /\ PdLoad(run.mode) \in Left' \/ (NftClean' /\ NoMore(Left)')
  BY <1>1, <1>2, <1>3 DEF EventInv
<1>5. NoMore(Left) => /\ NoMore(Left)'
                      /\ \A y \in stale' : y \in stale
                      /\ FirewallThere' <=> FirewallThere
  <2>1. SUFFICES ASSUME NoMore(Left)
                 PROVE  /\ NoMore(Left)'
                        /\ \A y \in stale' : y \in stale
                        /\ FirewallThere' <=> FirewallThere
    OBVIOUS
  <2>2. x.op = "write" => ~IsRead(x.on)  BY <1>1, <2>1 DEF NoMore
  <2>3. NoMore(Left)'  BY <1>1, <2>1 DEF NoMore
  <2>4. \A y \in stale' : y \in stale  BY <2>2 DEF Does, IsRead
  <2>5. IsRead("nftEntry") /\ IsRead("nftFirewall")  BY KnownServices, WhoReads DEF IsRead
  <2>6. "nftEntry" \in File /\ "nftFirewall" \in File  BY AllFiles DEF FirewallOwns
  <2>7. disk'["nftEntry"] = disk["nftEntry"] /\ disk'["nftFirewall"] = disk["nftFirewall"]
    BY <2>2, <2>5, <2>6 DEF Does
  <2>8. QED  BY <2>3, <2>4, <2>7, FirewallStays
<1>6. \A s \in {"pd", "radvd"} : s \in up => s \in up'
  <2>1. \A s \in {"pd", "radvd"} : s \notin Distro /\ s # "collectd"  BY ServicesApart
  <2>2. QED  BY <1>1, <1>4, <2>1, WhoStarts
<1>7. \A m \in Left : m = x \/ m \in Left' \/ ~Due(m, run'.changed)  BY DEF Goes
<1>8. ASSUME NEW s \in {"pd", "radvd"}
      PROVE  PdRestart(run.mode, s) \in Left' \/ (Clean(s)' /\ NoMore(Left)')
  <2>1. PICK R : R = PdRestart(run.mode, s) /\ R.op = "restart" /\ R.on = s  BY MustAre
  <2>2. Due(R, run'.changed)  BY <1>4, <2>1, EventCommands
  <2>3. R = x => Clean(s)' /\ NoMore(Left)'
    <3>1. SUFFICES ASSUME R = x PROVE Clean(s)' /\ NoMore(Left)'  OBVIOUS
    <3>2. NoMore(Left)'  BY <2>1, <3>1 DEF Goes, Commands
    <3>3. s \in up' /\ \A y \in stale' : y[1] # s  BY <2>1, <3>1 DEF Does
    <3>4. QED  BY <3>2, <3>3 DEF Clean
  <2>4. Clean(s) /\ NoMore(Left) => Clean(s)' /\ NoMore(Left)'  BY <1>5, <1>6 DEF Clean
  <2>5. R \in Left \/ (Clean(s) /\ NoMore(Left))  BY <1>4, <2>1 DEF EventInv
  <2>6. QED  BY <1>7, <2>1, <2>2, <2>3, <2>4, <2>5
<1>9. PdLoad(run.mode) \in Left' \/ (NftClean' /\ NoMore(Left)')
  <2>1. PICK L : L = PdLoad(run.mode) /\ L.op = "loadIfThere" /\ L.on = "nft"  BY MustAre
  <2>2. Due(L, run'.changed)  BY <1>4, <2>1, EventCommands
  <2>3. L = x => NftClean' /\ NoMore(Left)'
    <3>1. SUFFICES ASSUME L = x PROVE NftClean' /\ NoMore(Left)'  OBVIOUS
    <3>2. NoMore(Left)'  BY <2>1, <3>1 DEF Goes, Commands
    <3>3. "nftEntry" \in File /\ "nftFirewall" \in File  BY AllFiles DEF FirewallOwns
    <3>4. disk'["nftEntry"] = disk["nftEntry"] /\ disk'["nftFirewall"] = disk["nftFirewall"]
      BY <2>1, <3>1, <3>3 DEF Does
    <3>5. FirewallThere' <=> FirewallThere  BY <3>4, FirewallStays
    <3>6. FirewallThere => \A y \in stale' : y[1] # "nft"  BY <2>1, <3>1 DEF Does
    <3>7. QED  BY <3>2, <3>5, <3>6 DEF NftClean
  <2>4. NftClean /\ NoMore(Left) => NftClean' /\ NoMore(Left)'  BY <1>5 DEF NftClean
  <2>5. L \in Left \/ (NftClean /\ NoMore(Left))  BY <1>4, <2>1 DEF EventInv
  <2>6. QED  BY <1>7, <2>1, <2>2, <2>3, <2>4, <2>5
<1>10. QED  BY <1>8, <1>9

LEMMA EventNext ==
    ASSUME RunInv, SelInv, NextPlugin, NEW D, Returns(D)
    PROVE  EventInv'
<1>. DEFINE pd == "network.ipv6pd"
<1>1. /\ run'.mode = run.mode /\ run'.sel = run.sel /\ UNCHANGED <<conf, last>> /\ Running
  BY TakesNext
<1>2. last' = None /\ None.mode # "event" /\ (On("pd")' <=> On("pd"))
  BY <1>1 DEF SelInv, None, On
<1>3. ASSUME run.mode = "event", run'.at = pd, On("pd")
      PROVE  /\ \A s \in {"pd", "radvd"} : PdRestart(run.mode, s) \in Left'
             /\ PdLoad(run.mode) \in Left'
  <2>1. pd \in Plugin /\ UNCHANGED <<conf, coredns>> /\ run'.changed = {} /\ run'.steps = StepsOf(pd)
    BY <1>3, Plugins12 DEF Returns
  <2>2. \A m \in Must(run.mode, pd) : m \in Left' \/ ~Due(m, {})  BY <1>1, <1>3, <2>1, TakenUp
  <2>3. QED  BY <1>3, <2>2, EventCommands
<1>4. QED  BY <1>1, <1>2, <1>3 DEF EventInv

LEMMA EventEnds ==
    ASSUME SelInv, EventInv, End
    PROVE  EventInv'
<1>. DEFINE pd == "network.ipv6pd"
<1>1. /\ run.steps = <<>> /\ run.todo = {} /\ run' = Idle
      /\ last' = IF run.alone THEN [mode |-> run.mode, sel |-> run.sel] ELSE None
      /\ UNCHANGED <<conf, disk, up, stale>>
  BY DEF End, machine
<1>2. Left = {} /\ (On("pd")' <=> On("pd")) /\ run'.mode = "idle"
  <2>1. ToSet(<<>>) = {}  BY DEF ToSet
  <2>2. Left = {}  BY <1>1, <2>1 DEF Left
  <2>3. On("pd")' <=> On("pd")  BY <1>1 DEF On
  <2>4. run'.mode = "idle"  BY <1>1 DEF Idle
  <2>5. QED  BY <2>2, <2>3, <2>4
<1>3. SUFFICES ASSUME last'.mode = "event", On("pd")
               PROVE  Clean("pd")' /\ Clean("radvd")' /\ NftClean'
  BY <1>2 DEF EventInv
<1>4. run.mode = "event"  BY <1>1, <1>3 DEF None
<1>5. run.at = pd  BY <1>1, <1>3, <1>4 DEF SelInv
<1>6. Clean("pd") /\ Clean("radvd") /\ NftClean  BY <1>2, <1>3, <1>4, <1>5 DEF EventInv
<1>7. QED  BY <1>1, <1>6 DEF Clean, NftClean, FirewallThere

LEMMA EventPuts ==
    ASSUME Puts, last' = None
    PROVE  EventInv'
<1>1. run'.at # "network.ipv6pd" /\ None.mode # "event"  BY Plugins12 DEF Puts, None
<1>2. QED  BY <1>1 DEF EventInv

LEMMA EventBeside ==
    ASSUME EventInv, Beside
    PROVE  EventInv'
<1>1. /\ run'.at = run.at /\ run'.mode = run.mode /\ run'.steps = run.steps /\ conf' = conf
      /\ up \subseteq up' /\ last' \in {last, None}
      /\ \A y \in stale' : y \in stale \/ y[1] = "dnsmasq"
      /\ \A f \in File : disk'[f] = disk[f] \/ f \in {"chinaConf", "chinaManual"}
  BY DEF Beside
<1>2. Left' = Left /\ (NoMore(Left)' <=> NoMore(Left)) /\ (On("pd")' <=> On("pd"))
  BY <1>1 DEF Left, NoMore, On
<1>3. /\ Clean("pd") => Clean("pd")'
      /\ Clean("radvd") => Clean("radvd")'
  BY <1>1 DEF Clean
<1>4. NftClean => NftClean'
  <2>1. "nftEntry" \in File /\ "nftFirewall" \in File  BY AllFiles DEF FirewallOwns
  <2>2. FirewallThere' <=> FirewallThere  BY <1>1, <2>1, FirewallStays
  <2>3. QED  BY <1>1, <2>2 DEF NftClean
<1>5. None.mode # "event"  BY DEF None
<1>6. /\ \A s : PdRestart(run.mode, s)' = PdRestart(run.mode, s)
      /\ PdLoad(run.mode)' = PdLoad(run.mode)
  BY <1>1 DEF PdRestart, PdLoad, Forced
<1>7. QED  BY <1>1, <1>2, <1>3, <1>4, <1>5, <1>6 DEF EventInv

-----------------------------------------------------------------------------
(* The invariant of the services is kept.                                  *)

LEMMA ServeWorks ==
    ASSUME RunInv, MachineInv, WritesInv, WritesInv', ServeInv, Works
    PROVE  ServeInv'
<1>1. run.steps # <<>> /\ Goes(Now) /\ OrderInv'  BY WorkGoes DEF ServeInv
<1>2. Does(Now)  BY WorkDoes
<1>3. PICK x : Goes(x) /\ Does(x)  BY <1>1, <1>2
<1>4. Running  BY <1>1, StepHere
<1>5. BaseInv'
  <2>1. StepOK(x, run.at) /\ Fits(x, run.at)  BY <1>3 DEF Goes
  <2>2. QED  BY <1>3, <2>1, BaseStep DEF ServeInv
<1>6. InstalledInv' /\ DistroInv' /\ PdInv'
  BY <1>3, InstalledWorks, DistroWorks, PdWorks DEF ServeInv
<1>7. NftInv' /\ WgsdInv'  BY <1>3, NftWorks, WgsdWorks DEF ServeInv, WritesInv
<1>8. CollectdInv'
  <2>1. ScriptInv'  BY DEF WritesInv
  <2>2. QED  BY <1>3, <2>1, CollectdWorks DEF ServeInv
<1>9. StaleInv'  BY <1>3, StaleWorks DEF ServeInv
<1>10. SelInv'
  <2>1. /\ run'.at = run.at /\ run'.todo = run.todo /\ run'.sel = run.sel
        /\ run'.mode = run.mode /\ conf' = conf /\ last' \in {last, None}
    BY <1>3 DEF Goes
  <2>2. QED  BY <2>1, SelStays DEF ServeInv
<1>11. EventInv'  BY <1>3, <1>4, EventWorks DEF ServeInv
<1>12. QED  BY <1>1, <1>5, <1>6, <1>7, <1>8, <1>9, <1>10, <1>11 DEF ServeInv

LEMMA ServeReturns ==
    ASSUME RunInv, MachineInv, ServeInv, NextPlugin \/ End
    PROVE  ServeInv'
<1>1. PICK D : Returns(D)  BY ReturnsIs
<1>2. BaseInv'
  <2>1. UNCHANGED <<up, boot, pkgs>>  BY <1>1 DEF Returns
  <2>2. QED  BY <2>1, BaseStep DEF ServeInv
<1>3. OrderInv' /\ InstalledInv' /\ DistroInv' /\ PdInv'
  BY <1>1, OrderReturns, InstalledReturns, DistroReturns, PdReturns DEF ServeInv
<1>4. NftInv' /\ WgsdInv' /\ CollectdInv' /\ StaleInv'
  BY <1>1, NftWgsdRest, CollectdRests, StaleRests DEF ServeInv
<1>5. SelInv'
  <2>1. CASE NextPlugin  BY <2>1, SelNext DEF ServeInv
  <2>2. CASE End
    <3>1. run' = Idle  BY <2>2 DEF End
    <3>2. QED  BY <3>1, SelNobody
  <2>3. QED  BY <2>1, <2>2
<1>6. EventInv'
  <2>1. CASE NextPlugin  BY <1>1, <2>1, EventNext DEF ServeInv
  <2>2. CASE End  BY <2>2, EventEnds DEF ServeInv
  <2>3. QED  BY <2>1, <2>2
<1>7. QED  BY <1>2, <1>3, <1>4, <1>5, <1>6 DEF ServeInv

LEMMA ServePuts ==
    ASSUME RunInv, MachineInv, ServeInv, Begins \/ Cut \/ Edit \/ InstallCoredns
    PROVE  ServeInv'
<1>1. Puts  BY PutsIs
<1>2. BaseInv'
  <2>1. UNCHANGED <<up, boot, pkgs>>  BY <1>1 DEF Puts
  <2>2. QED  BY <2>1, BaseStep DEF ServeInv
<1>3. OrderInv' /\ InstalledInv' /\ DistroInv' /\ PdInv'
  BY <1>1, OrderRests, InstalledRests, DistroRests, PdRests DEF ServeInv
<1>4. NftInv' /\ WgsdInv' /\ CollectdInv' /\ StaleInv'
  BY <1>1, NftWgsdRest, CollectdRests, StaleRests DEF ServeInv
<1>5. SelInv'
  <2>1. CASE Begins  BY <2>1, SelBegins
  <2>2. CASE Cut \/ Edit \/ InstallCoredns
    <3>1. run' = Idle  BY <2>2 DEF Cut, Edit, InstallCoredns, RunInv
    <3>2. QED  BY <3>1, SelNobody
  <2>3. QED  BY <2>1, <2>2
<1>6. EventInv'
  <2>1. last' = None
    <3>1. CASE Begins  BY <3>1 DEF Begins, Begin
    <3>2. CASE Cut
      <4>1. Running /\ last' = last  BY <3>2 DEF Cut
      <4>2. QED  BY <4>1 DEF ServeInv, SelInv
    <3>3. CASE Edit \/ InstallCoredns  BY <3>3 DEF Edit, InstallCoredns
    <3>4. QED  BY <3>1, <3>2, <3>3
  <2>2. QED  BY <1>1, <2>1, EventPuts
<1>7. QED  BY <1>2, <1>3, <1>4, <1>5, <1>6 DEF ServeInv

LEMMA ServeBeside ==
    ASSUME RunInv, MachineInv, ServeInv,
           \/ ChinaBegin \/ ChinaFetch \/ ChinaWrite \/ ChinaRestart \/ ChinaCut
           \/ Render \/ UNCHANGED vars
    PROVE  ServeInv'
<1>1. Beside  BY BesideIs
<1>2. BaseInv'  BY <1>1, BaseStep DEF ServeInv
<1>3. OrderInv' /\ InstalledInv' /\ DistroInv' /\ PdInv'
  BY <1>1, OrderRests, InstalledRests, DistroRests, PdRests DEF ServeInv
<1>4. NftInv' /\ WgsdInv' /\ CollectdInv' /\ StaleInv'
  BY <1>1, NftWgsdRest, CollectdRests, StaleRests DEF ServeInv
<1>5. SelInv'
  <2>1. /\ run'.at = run.at /\ run'.todo = run.todo /\ run'.sel = run.sel
        /\ run'.mode = run.mode /\ conf' = conf /\ last' \in {last, None}
    BY <1>1 DEF Beside
  <2>2. QED  BY <2>1, SelStays DEF ServeInv
<1>6. EventInv'  BY <1>1, EventBeside DEF ServeInv
<1>7. QED  BY <1>2, <1>3, <1>4, <1>5, <1>6 DEF ServeInv

LEMMA ServeStep ==
    ASSUME RunInv, MachineInv, WritesInv, ServeInv, Next
    PROVE  ServeInv'
<1>1. WritesInv'  BY WritesStep
<1>2. CASE Works  BY <1>1, <1>2, ServeWorks
<1>3. CASE NextPlugin \/ End  BY <1>3, ServeReturns
<1>4. CASE Begins \/ Cut \/ Edit \/ InstallCoredns  BY <1>4, ServePuts
<1>5. CASE ChinaBegin \/ ChinaFetch \/ ChinaWrite \/ ChinaRestart \/ ChinaCut \/ Render
  BY <1>5, ServeBeside
<1>6. QED  BY <1>2, <1>3, <1>4, <1>5, Zenon DEF Next, Works

\* The file of collectd says what the switch says once it is as it should be.
LEMMA CollectdFile ==
    ASSUME disk["collectdConf"] = Want("collectdConf", Object).what
    PROVE  disk["collectdConf"].tag = "disabled" <=> ~On("collectd")
<1>1. Want("collectdConf", Object) = IF On("collectd") THEN Plain("collectdConf")
                                                       ELSE Off("collectdConf")
  BY DEF Want
<1>2. CASE On("collectd")
  <2>1. Want("collectdConf", Object).what.tag = ""  BY <1>1, <1>2, WritesAre
  <2>2. QED  BY <1>2, <2>1
<1>3. CASE ~On("collectd")
  <2>1. Want("collectdConf", Object) = Off("collectdConf")  BY <1>1, <1>3
  <2>2. Off("collectdConf").what.tag = "disabled"  BY WritesAre
  <2>3. QED  BY <1>3, <2>1, <2>2
<1>4. QED  BY <1>2, <1>3

\* A machine that has been set up, and a new one.
LEMMA ServeStart == Init => ServeInv
<1> SUFFICES ASSUME Init PROVE ServeInv  OBVIOUS
<1>1. /\ run = Idle /\ run.at = "" /\ run.todo = {} /\ run.mode = "idle" /\ Left = {}
      /\ cut = {} /\ stale = {} /\ last = None /\ "" \notin Plugin
  <2>1. ToSet(<<>>) = {}  BY DEF ToSet
  <2>2. QED  BY <2>1, Plugins12 DEF Init, Idle, Left
<1>2. OrderInv /\ StaleInv  BY <1>1 DEF OrderInv, StaleInv
<1>3. SelInv  BY <1>1 DEF SelInv, Running
<1>4. EventInv  BY <1>1 DEF EventInv, None
<1>5. "network.core" \in DOMAIN Packages /\ "docker.core" \in DOMAIN Packages  BY KnownServices
<1>6. /\ "nftEntry" \in File /\ "wgsdUnit" \in File /\ "collectdConf" \in File
  BY NftIs, AllFiles
<1>7. CASE Steady
  <2>1. /\ \A s : s \in up <=> s \in Service /\ ~SwitchedOff(s)
        /\ \A s : s \in boot <=> s \in up /\ s \notin AtBoot
        /\ pkgs = DOMAIN Packages /\ applied = Object /\ coredns
    BY <1>7 DEF Steady
  <2>2. {"docker", "dnsmasq", "nft", "wgsd"} \subseteq up \cap boot /\ AtBoot \subseteq up
    BY <2>1, KnownServices, ServicesApart DEF SwitchedOff
  <2>3. BaseInv  BY <2>2 DEF BaseInv
  <2>4. InstalledInv  BY <1>1, <1>5, <2>1, Plugins12 DEF InstalledInv
  <2>5. DistroInv  BY <1>1, <2>1, ServicesApart, Plugins12 DEF DistroInv
  <2>6. \A s \in {"pd", "radvd"} : IF On("pd") THEN s \in up ELSE s \notin up \cup boot
    BY <2>1, KnownServices DEF SwitchedOff
  <2>7. PdInv  BY <1>1, <2>6, Plugins12 DEF PdInv
  <2>8. NftInv /\ WgsdInv  BY <2>2 DEF NftInv, WgsdInv, Serving
  <2>9. CollectdInv
    <3>1. WritesInv  BY WritesStart
    <3>2. Owner("collectdConf") = "monitoring.collectd" /\ Wanted("collectdConf")
      BY <1>6, Owners DEF Wanted
    <3>3. ObjectsOf("collectdConf") \subseteq Object
      <4>1. ObjectsOf("collectdConf") \subseteq Kinds["monitoring.collectd"]
            /\ "monitoring.collectd" \in Plugin
        BY <1>6, <3>2, ObjectsOfOne, Plugins12
      <4>2. QED  BY <4>1 DEF Object
    <3>4. OnDisk(Want("collectdConf", Object))
      BY <1>1, <1>6, <2>1, <3>1, <3>2, <3>3, Plugins12 DEF WritesInv, DiskInv
    <3>5. disk["collectdConf"] = Want("collectdConf", Object).what
      <4>1. Want("collectdConf", Object).on = "collectdConf"  BY WantIs
      <4>2. QED  BY <3>4, <4>1 DEF OnDisk
    <3>6. disk["collectdConf"].tag = "disabled" <=> ~On("collectd")  BY <3>5, CollectdFile
    <3>7. IF On("collectd") THEN "collectd" \in up \cap boot ELSE "collectd" \notin up \cup boot
      BY <2>1, KnownServices, ServicesApart DEF SwitchedOff
    <3>8. QED  BY <3>6, <3>7 DEF CollectdInv
  <2>10. QED
    BY <1>2, <1>3, <1>4, <2>3, <2>4, <2>5, <2>7, <2>8, <2>9 DEF ServeInv
<1>8. CASE New
  <2>1. /\ applied = {} /\ boot = UNION {Packages[p] : p \in pkgs} /\ up = boot \cup AtBoot
        /\ \A f \in File : f \notin {"debianSources", "cloudIfaces"} => disk[f] = Absent
    BY <1>8 DEF New
  <2>2. BaseInv  BY <2>1, CorePackages DEF BaseInv
  <2>3. InstalledInv /\ DistroInv /\ PdInv
    BY <1>1, <2>1, Plugins12 DEF InstalledInv, DistroInv, PdInv
  <2>4. NftInv /\ WgsdInv /\ CollectdInv
    BY <1>6, <2>1 DEF NftInv, WgsdInv, CollectdInv, Serving
  <2>5. QED  BY <1>2, <1>3, <1>4, <2>2, <2>3, <2>4 DEF ServeInv
<1>9. QED  BY <1>7, <1>8 DEF Init

ServeHold == part = "plugins" => ServeInv

\* What a service runs with and what starts it at boot, at every moment of every run.
THEOREM ServeInvariant == UpdateSpec => []ServeHold
<1>1. PluginsInit \/ NetInit => ServeHold
  BY ServeStart DEF PluginsInit, NetInit, ServeHold
<1>2. /\ PluginHolds /\ WritesHold /\ ServeHold
      /\ [OfPlugins(Next) \/ OfInterfaces(Net!Next)]_all
      => ServeHold'
  <2>1. SUFFICES ASSUME PluginHolds, WritesHold, ServeHold,
                        [OfPlugins(Next) \/ OfInterfaces(Net!Next)]_all
                 PROVE  ServeHold'
    OBVIOUS
  <2>2. CASE UNCHANGED all \/ OfInterfaces(Net!Next)
    <3>1. UNCHANGED <<part, vars>>  BY <2>2 DEF all, OfInterfaces
    <3>2. part' = part /\ UNCHANGED vars  BY <3>1
    <3>3. QED  BY <2>1, <3>2, ServeBeside DEF ServeHold, PluginHolds, PluginInv
  <2>3. CASE OfPlugins(Next)
    BY <2>1, <2>3, ServeStep DEF OfPlugins, PluginHolds, PluginInv, WritesHold, ServeHold
  <2>4. QED  BY <2>1, <2>2, <2>3
<1>3. QED  BY <1>1, <1>2, PluginsInvariant, WritesInvariant, PTL DEF UpdateSpec

-----------------------------------------------------------------------------
(* When nothing runs.                                                      *)

\* The files of an applied plugin are those of a full run.
LEMMA SettledFile ==
    ASSUME RunInv, DiskInv, run.at = "", NEW f \in File, f \notin {"chinaConf", "chinaManual"},
           Wanted(f), Owner(f) \notin cut, Kinds[Owner(f)] \subseteq applied
    PROVE  disk[f] = Want(f, Object).what
<1>1. Owner(f) \in Plugin  BY Owners
<1>2. ObjectsOf(f) \subseteq Kinds[Owner(f)]  BY <1>1, ObjectsOfOne
<1>3. OnDisk(Want(f, Object))  BY <1>2 DEF DiskInv
<1>4. Want(f, Object).on = f  BY WantIs
<1>5. QED  BY <1>3, <1>4 DEF OnDisk

\* Of the files whose presence decides.
LEMMA SettledContents ==
    ASSUME NEW f
    PROVE  /\ f = "nftEntry" => Want(f, Object).what.tag = ""
           /\ f = "nftFirewall" => Want(f, Object).what.tag = ""
           /\ f = "nftPd" /\ On("pd") => Want(f, Object).what.tag = ""
           /\ f = "wgsdUnit" /\ coredns => Want(f, Object).what.tag = ""
           /\ f = "collectdConf" => Want(f, Object).what.tag \in {"", "disabled"}
<1>1. /\ f = "nftEntry" => Want(f, Object) = Plain(f)
      /\ f = "nftPd" /\ On("pd") => Want(f, Object) = Plain(f)
      /\ f = "wgsdUnit" /\ coredns => Want(f, Object) = Plain(f)
      /\ f = "collectdConf" => Want(f, Object) \in {Plain(f), Off(f)}
      /\ f = "nftFirewall" => Want(f, Object) = Write(f, Rules(Object))
  BY DEF Want
<1>2. f = "nftFirewall" => Want(f, Object).what.tag = ""
  <2>. DEFINE r == Rules(Object)
  <2>1. r.tag = ""  BY DEF Rules, Content
  <2>. HIDE DEF r
  <2>2. Write(f, r).what = r  BY WriteIs
  <2>3. QED  BY <1>1, <2>1, <2>2 DEF r
<1>3. Plain(f).what.tag = "" /\ Off(f).what.tag = "disabled"  BY WritesAre
<1>4. QED  BY <1>1, <1>2, <1>3

LEMMA AbsentIs == Absent.tag = "absent"
  BY DEF Absent

\* Each service of an applied plugin is as it should be, and enabled as it is.
LEMMA QuietServices ==
    ASSUME RunInv, MachineInv, WritesInv, ServeInv, Quiet
    PROVE  /\ run.at = "" /\ run.changed = {} /\ Left = {} /\ china.pc = "off"
           /\ \A p, things, m : ~Pends(p, things, m)
           /\ \A s, f : ~Awaits(s, f)
           /\ AtBoot \subseteq up
           /\ "docker.core" \notin cut /\ Kinds["docker.core"] \subseteq applied =>
                 "docker" \in up \cap boot
           /\ "network" \in applied => "dnsmasq" \in up \cap boot
           /\ "network" \in applied /\ "network.core" \notin cut => Distro \cap (up \cup boot) = {}
           /\ "pd" \in applied /\ "network.ipv6pd" \notin cut =>
                 \A s \in {"pd", "radvd"} : s \in up <=> On("pd")
           /\ "network.firewall" \notin cut /\ Kinds["network.firewall"] \subseteq applied =>
                 "nft" \in up \cap boot /\ FirewallThere
           /\ "collectd" \in applied /\ "monitoring.collectd" \notin cut =>
                 IF On("collectd") THEN "collectd" \in up \cap boot
                                   ELSE "collectd" \notin up \cup boot
           /\ coredns /\ "wgsd" \in applied /\ "network.wgsd-coredns" \notin cut =>
                 "wgsd" \in up \cap boot
<1>1. /\ run.at = "" /\ run.changed = {} /\ Left = {} /\ china.pc = "off" /\ "" \notin Plugin
  <2>1. ToSet(<<>>) = {}  BY DEF ToSet
  <2>2. run = Idle /\ china.pc = "off"  BY DEF Quiet, RunInv
  <2>3. QED  BY <2>1, <2>2, Plugins12 DEF Idle, Left
<1>2. /\ \A p, things, m : ~Pends(p, things, m)
      /\ \A s, f : ~Awaits(s, f)
  BY <1>1 DEF Pends, Awaits
<1>3. AtBoot \subseteq up  BY DEF ServeInv, BaseInv
<1>4. Kinds["docker.core"] \subseteq applied => "docker" \in up \cap boot
  <2>1. SUFFICES ASSUME Kinds["docker.core"] \subseteq applied PROVE "docker" \in up \cap boot  OBVIOUS
  <2>2. Kinds["docker.core"] \cap applied # {}  BY <2>1, KindsAre
  <2>3. "docker.core" \in pkgs  BY <2>2 DEF ServeInv, InstalledInv
  <2>4. QED  BY <2>3 DEF ServeInv, BaseInv
<1>5. "network" \in applied => "dnsmasq" \in up \cap boot
  <2>1. SUFFICES ASSUME "network" \in applied PROVE "dnsmasq" \in up \cap boot  OBVIOUS
  <2>2. Kinds["network.core"] \cap applied # {}  BY <2>1, KindsAre
  <2>3. "network.core" \in pkgs  BY <2>2 DEF ServeInv, InstalledInv
  <2>4. QED  BY <2>3 DEF ServeInv, BaseInv
<1>6. "network" \in applied /\ "network.core" \notin cut => Distro \cap (up \cup boot) = {}
  BY <1>1 DEF ServeInv, DistroInv
<1>7. "pd" \in applied /\ "network.ipv6pd" \notin cut =>
         \A s \in {"pd", "radvd"} : s \in up <=> On("pd")
  BY DEF ServeInv, PdInv
<1>8. /\ "nftEntry" \in File /\ Owner("nftEntry") = "network.firewall" /\ Wanted("nftEntry")
      /\ "nftFirewall" \in File /\ Owner("nftFirewall") = "network.firewall" /\ Wanted("nftFirewall")
      /\ "wgsdUnit" \in File /\ Owner("wgsdUnit") = "network.wgsd-coredns" /\ Wanted("wgsdUnit")
      /\ "collectdConf" \in File /\ Owner("collectdConf") = "monitoring.collectd"
      /\ Wanted("collectdConf")
  <2>1. /\ "nftEntry" \in File /\ "nftFirewall" \in File /\ "wgsdUnit" \in File
        /\ "collectdConf" \in File
    BY AllFiles DEF FirewallOwns, WgsdOwns
  <2>2. Owner("nftEntry") = "network.firewall"  BY <2>1, Owners DEF FirewallOwns
  <2>3. Owner("nftFirewall") = "network.firewall"  BY <2>1, Owners DEF FirewallOwns
  <2>4. Owner("wgsdUnit") = "network.wgsd-coredns"  BY <2>1, Owners DEF WgsdOwns
  <2>5. Owner("collectdConf") = "monitoring.collectd"  BY <2>1, Owners
  <2>6. QED  BY <2>1, <2>2, <2>3, <2>4, <2>5 DEF Wanted
<1>9. "network.firewall" \notin cut /\ Kinds["network.firewall"] \subseteq applied =>
         "nft" \in up \cap boot /\ FirewallThere
  <2>1. SUFFICES ASSUME "network.firewall" \notin cut, Kinds["network.firewall"] \subseteq applied
                 PROVE  "nft" \in up \cap boot /\ FirewallThere
    OBVIOUS
  <2>2. DiskInv  BY DEF WritesInv
  <2>3. disk["nftEntry"] = Want("nftEntry", Object).what
    BY <1>1, <1>8, <2>1, <2>2, SettledFile
  <2>4. disk["nftFirewall"] = Want("nftFirewall", Object).what
    BY <1>1, <1>8, <2>1, <2>2, SettledFile
  <2>5. disk["nftEntry"].tag = "" /\ disk["nftFirewall"].tag = ""
    BY <2>3, <2>4, SettledContents
  <2>6. FirewallThere  BY <2>5, AbsentIs DEF FirewallThere
  <2>7. disk["nftEntry"] # Absent  BY <2>5, AbsentIs
  <2>8. QED  BY <1>2, <2>1, <2>6, <2>7 DEF ServeInv, NftInv, Serving
<1>10. "collectd" \in applied /\ "monitoring.collectd" \notin cut =>
          IF On("collectd") THEN "collectd" \in up \cap boot ELSE "collectd" \notin up \cup boot
  <2>1. SUFFICES ASSUME "collectd" \in applied, "monitoring.collectd" \notin cut
                 PROVE  IF On("collectd") THEN "collectd" \in up \cap boot
                                          ELSE "collectd" \notin up \cup boot
    OBVIOUS
  <2>2. Kinds["monitoring.collectd"] \subseteq applied  BY <2>1, KindsAre
  <2>3. disk["collectdConf"] = Want("collectdConf", Object).what
    BY <1>1, <1>8, <2>1, <2>2, SettledFile DEF WritesInv
  <2>4. disk["collectdConf"].tag = "disabled" <=> ~On("collectd")  BY <2>3, CollectdFile
  <2>5. disk["collectdConf"] # Absent
    <3>1. disk["collectdConf"].tag \in {"", "disabled"}  BY <2>3, SettledContents
    <3>2. QED  BY <3>1, AbsentIs
  <2>6. CollectdInv  BY DEF ServeInv
  <2>7. \A m : ~CollectdPends(m)  BY <1>2 DEF CollectdPends
  <2>8. QED  BY <2>1, <2>4, <2>5, <2>6, <2>7 DEF CollectdInv
<1>11. coredns /\ "wgsd" \in applied /\ "network.wgsd-coredns" \notin cut => "wgsd" \in up \cap boot
  <2>1. SUFFICES ASSUME coredns, "wgsd" \in applied, "network.wgsd-coredns" \notin cut
                 PROVE  "wgsd" \in up \cap boot
    OBVIOUS
  <2>2. Kinds["network.wgsd-coredns"] \subseteq applied
    <3>1. Kinds["network.wgsd-coredns"] = {"wgsd"}  BY Plugins12 DEF Kinds
    <3>2. QED  BY <2>1, <3>1
  <2>3. disk["wgsdUnit"] = Want("wgsdUnit", Object).what
    BY <1>1, <1>8, <2>1, <2>2, SettledFile DEF WritesInv
  <2>4. disk["wgsdUnit"] # Absent
    <3>1. disk["wgsdUnit"].tag = ""  BY <2>1, <2>3, SettledContents
    <3>2. QED  BY <3>1, AbsentIs
  <2>5. QED  BY <1>2, <2>1, <2>4 DEF ServeInv, WgsdInv, Serving
<1>12. QED  BY <1>1, <1>2, <1>3, <1>4, <1>5, <1>6, <1>7, <1>9, <1>10, <1>11

\* What it is for a service to be settled.
LEMMA SettledIs ==
    ASSUME NEW s \in Service, Settled(s)
    PROVE  /\ Own(s) \cap cut = {}
           /\ s = "docker" => "docker.core" \notin cut /\ Kinds["docker.core"] \subseteq applied
           /\ s = "dnsmasq" => "network" \in applied
           /\ s \in {"pd", "radvd"} => "pd" \in applied /\ "network.ipv6pd" \notin cut
           /\ s = "nft" => /\ "network.firewall" \notin cut
                           /\ Kinds["network.firewall"] \subseteq applied
                           /\ "pd" \in applied /\ "network.ipv6pd" \notin cut
           /\ s = "collectd" => "collectd" \in applied /\ "monitoring.collectd" \notin cut
<1>1. Own(s) \cap cut = {}  BY DEF Settled, Own
<1>2. \A p \in Own(s) : Kinds[p] \subseteq applied /\ p \notin cut  BY DEF Settled, Own
<1>3. \A f \in Reads[s] : Owner(f) \in Own(s)  BY DEF Own
<1>4. /\ Owner("daemonJson") = "docker.core" /\ Owner("dnsmasqConf") = "network.core"
      /\ Owner("dhcp6c") = "network.ipv6pd" /\ Owner("radvd") = "network.ipv6pd"
      /\ Owner("nftPd") = "network.ipv6pd" /\ Owner("nftEntry") = "network.firewall"
      /\ Owner("collectdConf") = "monitoring.collectd"
  <2>1. /\ {"daemonJson", "dnsmasqConf", "dhcp6c", "radvd", "nftPd", "nftEntry", "collectdConf"}
              \subseteq File
    BY AllFiles DEF DockerOwns, CoreOwns, PdOwns, FirewallOwns
  <2>2. Owner("daemonJson") = "docker.core"  BY <2>1, Owners DEF DockerOwns
  <2>3. Owner("dnsmasqConf") = "network.core"  BY <2>1, Owners DEF CoreOwns
  <2>4. Owner("dhcp6c") = "network.ipv6pd"  BY <2>1, Owners DEF PdOwns
  <2>5. Owner("radvd") = "network.ipv6pd"  BY <2>1, Owners DEF PdOwns
  <2>6. Owner("nftPd") = "network.ipv6pd"  BY <2>1, Owners DEF PdOwns
  <2>7. Owner("nftEntry") = "network.firewall"  BY <2>1, Owners DEF FirewallOwns
  <2>8. Owner("collectdConf") = "monitoring.collectd"  BY <2>1, Owners
  <2>9. QED  BY <2>2, <2>3, <2>4, <2>5, <2>6, <2>7, <2>8
<1>5. /\ s = "docker" => "docker.core" \in Own(s)
      /\ s = "dnsmasq" => "network.core" \in Own(s)
      /\ s \in {"pd", "radvd"} => "network.ipv6pd" \in Own(s)
      /\ s = "nft" => "network.firewall" \in Own(s) /\ "network.ipv6pd" \in Own(s)
      /\ s = "collectd" => "monitoring.collectd" \in Own(s)
  <2>1. s = "docker" => "docker.core" \in Own(s)  BY <1>3, <1>4, WhoReads
  <2>2. s = "dnsmasq" => "network.core" \in Own(s)  BY <1>3, <1>4, WhoReads
  <2>3. s = "pd" => "network.ipv6pd" \in Own(s)  BY <1>3, <1>4, WhoReads
  <2>4. s = "radvd" => "network.ipv6pd" \in Own(s)  BY <1>3, <1>4, WhoReads
  <2>5. s = "nft" => "network.firewall" \in Own(s) /\ "network.ipv6pd" \in Own(s)
    BY <1>3, <1>4, WhoReads
  <2>6. s = "collectd" => "monitoring.collectd" \in Own(s)  BY <1>3, <1>4, WhoReads
  <2>7. QED  BY <2>1, <2>2, <2>3, <2>4, <2>5, <2>6
<1>6. QED  BY <1>1, <1>2, <1>5, KindsAre

\* With nothing running, a settled service has old files only where that is known.
LEMMA QuietStale ==
    ASSUME RunInv, MachineInv, WritesInv, ServeInv, Quiet,
           NEW s \in Service \ {"wgsd"}, Settled(s),
           NEW y \in stale, y[1] = s
    PROVE  /\ s # "dnsmasq" => s = "nft" /\ y = <<"nft", "nftPd">> /\ ~On("pd")
           /\ s = "dnsmasq" /\ "china" \notin cut => y = <<"dnsmasq", "dnsmasqConf">>
<1>1. /\ y[2] \in Reads[s] /\ Excused(s, y[2])  BY DEF ServeInv, StaleInv
<1>2. y = <<s, y[2]>>  BY DEF MachineInv
<1>3. Own(s) \cap cut = {}  BY SettledIs
<1>4. ~Awaits(s, y[2]) /\ china.pc = "off"  BY QuietServices
<1>5. \/ y[2] = "dnsmasqConf"
      \/ s = "dnsmasq" /\ "china" \in cut
      \/ y[2] = "nftPd" /\ (disk["nftPd"].tag = "disabled" \/ ~FirewallThere)
  BY <1>1, <1>3, <1>4 DEF Excused
<1>6. /\ y[2] = "dnsmasqConf" => s = "dnsmasq"
      /\ y[2] = "nftPd" => s = "nft"
  BY <1>1, ReadBy
<1>7. y[2] = "nftPd" /\ (disk["nftPd"].tag = "disabled" \/ ~FirewallThere) => ~On("pd")
  <2>1. SUFFICES ASSUME y[2] = "nftPd", On("pd")
                 PROVE  disk["nftPd"].tag # "disabled" /\ FirewallThere
    OBVIOUS
  <2>2. s = "nft"  BY <1>6, <2>1
  <2>3. FirewallThere  BY <2>2, SettledIs, QuietServices
  <2>4. "nftPd" \in File /\ Owner("nftPd") = "network.ipv6pd" /\ Wanted("nftPd")
    <3>1. "nftPd" \in File  BY AllFiles DEF PdOwns
    <3>2. QED  BY <3>1, Owners DEF PdOwns, Wanted
  <2>5. "pd" \in applied /\ "network.ipv6pd" \notin cut  BY <2>2, SettledIs
  <2>6. Kinds["network.ipv6pd"] \subseteq applied  BY <2>5, KindsAre
  <2>7. disk["nftPd"] = Want("nftPd", Object).what
    BY <2>4, <2>5, <2>6, SettledFile, QuietServices DEF WritesInv
  <2>8. disk["nftPd"].tag = ""  BY <2>1, <2>7, SettledContents
  <2>9. QED  BY <2>3, <2>8
<1>8. QED  BY <1>2, <1>5, <1>6, <1>7

\* After any order of updates, bootstraps, events, edits, failures and runs of the China
\* names updater, a service runs with the files on the disk once its objects are applied
\* and no plugin of its files was stopped half way, and an event heals even that (the
\* restarts in the update functions of the plugins, network_ipv6pd.py handle_event).
THEOREM ServicesRunWithTheirFiles == UpdateSpec => []PluginServicesRunTheirFiles
<1>1. PluginHolds /\ WritesHold /\ ServeHold => PluginServicesRunTheirFiles
  <2>1. SUFFICES ASSUME RunInv, MachineInv, WritesInv, ServeInv
                 PROVE  ServicesRunTheirFiles /\ DnsmasqRunsItsFiles /\ EventHeals
    BY DEF PluginHolds, PluginInv, WritesHold, ServeHold, PluginServicesRunTheirFiles
  <2>2. ASSUME Quiet, NEW s \in Service \ {"dnsmasq", "wgsd"}, Settled(s)
        PROVE  s \in up <=> ~SwitchedOff(s)
    <3>1. CASE s \in AtBoot
      <4>1. s \in up  BY <2>1, <2>2, <3>1, QuietServices
      <4>2. ~SwitchedOff(s)  BY <3>1, ServicesApart DEF SwitchedOff
      <4>3. QED  BY <4>1, <4>2
    <3>2. CASE s = "docker"
      <4>1. s \in up  BY <2>1, <2>2, <3>2, SettledIs, QuietServices
      <4>2. QED  BY <3>2, <4>1 DEF SwitchedOff
    <3>3. CASE s \in {"pd", "radvd"}
      <4>1. s \in up <=> On("pd")  BY <2>1, <2>2, <3>3, SettledIs, QuietServices
      <4>2. QED  BY <3>3, <4>1 DEF SwitchedOff
    <3>4. CASE s = "nft"
      <4>1. s \in up  BY <2>1, <2>2, <3>4, SettledIs, QuietServices
      <4>2. QED  BY <3>4, <4>1 DEF SwitchedOff
    <3>5. CASE s = "collectd"
      <4>1. s \in up <=> On("collectd")  BY <2>1, <2>2, <3>5, SettledIs, QuietServices
      <4>2. QED  BY <3>5, <4>1 DEF SwitchedOff
    <3>6. QED  BY <2>2, <3>1, <3>2, <3>3, <3>4, <3>5, KnownServices, ServicesApart
  <2>3. ASSUME Quiet, NEW s \in Service \ {"dnsmasq", "wgsd"}, Settled(s)
        PROVE  Of({s}) \subseteq IF On("pd") THEN {} ELSE {<<"nft", "nftPd">>}
    <3>1. ASSUME NEW y \in Of({s}) PROVE ~On("pd") /\ y = <<"nft", "nftPd">>
      <4>1. y \in stale /\ y[1] = s  BY DEF Of
      <4>2. QED  BY <2>1, <2>3, <4>1, QuietStale
    <3>2. QED  BY <3>1
  <2>4. ASSUME Quiet, "network" \in applied, "network.core" \notin cut PROVE Distro \cap up = {}
    <3>1. Distro \cap (up \cup boot) = {}  BY <2>1, <2>4, QuietServices
    <3>2. QED  BY <3>1
  <2>5. ServicesRunTheirFiles  BY <2>2, <2>3, <2>4, Zenon DEF ServicesRunTheirFiles
  <2>6. DnsmasqRunsItsFiles
    <3>1. SUFFICES ASSUME Quiet, Settled("dnsmasq"), "china" \notin cut
                   PROVE  /\ "dnsmasq" \in up
                          /\ Of({"dnsmasq"}) \subseteq {<<"dnsmasq", "dnsmasqConf">>}
      BY DEF DnsmasqRunsItsFiles
    <3>2. "dnsmasq" \in Service \ {"wgsd"}  BY KnownServices
    <3>3. "dnsmasq" \in up
      <4>1. "network" \in applied  BY <3>1, <3>2, SettledIs
      <4>2. QED  BY <2>1, <3>1, <4>1, QuietServices
    <3>4. ASSUME NEW y \in Of({"dnsmasq"}) PROVE y = <<"dnsmasq", "dnsmasqConf">>
      <4>1. y \in stale /\ y[1] = "dnsmasq"  BY DEF Of
      <4>2. QED  BY <2>1, <3>1, <3>2, <4>1, QuietStale
    <3>5. QED  BY <3>3, <3>4
  <2>7. EventHeals
    <3>1. SUFFICES ASSUME last.mode = "event", On("pd")
                   PROVE  /\ {"pd", "radvd"} \subseteq up
                          /\ Of({"pd", "radvd"} \cup IF FirewallThere THEN {"nft"} ELSE {}) = {}
      BY DEF EventHeals
    <3>2. Clean("pd") /\ Clean("radvd") /\ NftClean  BY <2>1, <3>1 DEF ServeInv, EventInv
    <3>3. QED  BY <3>2 DEF Clean, NftClean, Of
  <2>8. QED  BY <2>5, <2>6, <2>7
<1>2. QED  BY <1>1, PluginsInvariant, WritesInvariant, ServeInvariant, PTL

\* After a full update that nothing disturbed, a reboot starts what runs (systemctl
\* enable and disable --now in the plugins, apt's enabling of what it installs), but for
\* the DHCPv6 client and radvd.
THEOREM RebootStartsTheSame == UpdateSpec => []PluginRebootChangesNothing
<1>1. PluginHolds /\ WritesHold /\ ServeHold => PluginRebootChangesNothing
  <2>1. SUFFICES ASSUME RunInv, MachineInv, WritesInv, ServeInv, Quiet, cut = {},
                        applied = Object, coredns
                 PROVE  up \ {"pd", "radvd"} = (boot \cup AtBoot) \ {"pd", "radvd"}
    BY DEF PluginHolds, PluginInv, WritesHold, ServeHold, PluginRebootChangesNothing,
           RebootChangesNothing
  <2>2. /\ Kinds["docker.core"] \subseteq applied /\ Kinds["network.firewall"] \subseteq applied
        /\ "network" \in applied /\ "collectd" \in applied /\ "wgsd" \in applied
    <3>1. \A p \in Plugin : Kinds[p] \subseteq applied  BY <2>1 DEF Object
    <3>2. Kinds["network.wgsd-coredns"] = {"wgsd"}  BY Plugins12 DEF Kinds
    <3>3. QED  BY <3>1, <3>2, Plugins12, KindsAre
  <2>3. /\ AtBoot \subseteq up /\ {"docker", "dnsmasq", "nft", "wgsd"} \subseteq up \cap boot
        /\ Distro \cap (up \cup boot) = {} /\ ("collectd" \in up <=> "collectd" \in boot)
    <3>1. "docker" \in up \cap boot  BY <2>1, <2>2, QuietServices
    <3>2. "dnsmasq" \in up \cap boot  BY <2>1, <2>2, QuietServices
    <3>3. "nft" \in up \cap boot  BY <2>1, <2>2, QuietServices
    <3>4. "wgsd" \in up \cap boot  BY <2>1, <2>2, QuietServices
    <3>5. Distro \cap (up \cup boot) = {}  BY <2>1, <2>2, QuietServices
    <3>6. "collectd" \in up <=> "collectd" \in boot  BY <2>1, <2>2, QuietServices
    <3>7. AtBoot \subseteq up  BY <2>1, QuietServices
    <3>8. QED  BY <3>1, <3>2, <3>3, <3>4, <3>5, <3>6, <3>7
  <2>4. up \cup boot \subseteq Service \cup Distro  BY <2>1 DEF MachineInv
  <2>5. ASSUME NEW s, s \notin {"pd", "radvd"} PROVE s \in up <=> s \in boot \cup AtBoot
    <3>1. CASE s \in Distro  BY <2>3, <3>1, ServicesApart
    <3>2. CASE s \in Service
      <4>1. s \in AtBoot \/ s \in {"docker", "dnsmasq", "nft", "wgsd"} \/ s = "collectd"
        BY <2>5, <3>2, KnownServices, ServicesApart
      <4>2. s = "collectd" => s \notin AtBoot  BY ServicesApart
      <4>3. QED  BY <2>3, <4>1, <4>2
    <3>3. CASE s \notin Service \cup Distro
      <4>1. s \notin AtBoot  BY <3>3, KnownServices, ServicesApart
      <4>2. QED  BY <2>4, <3>3, <4>1
    <3>4. QED  BY <3>1, <3>2, <3>3
  <2>6. QED  BY <2>5
<1>2. QED  BY <1>1, PluginsInvariant, WritesInvariant, ServeInvariant, PTL

-----------------------------------------------------------------------------
(* A run that is repeated.                                                 *)

LogFile == conf[<<"dns", "logFile">>] = 1

\* Nothing would be done for the step w: its file holds what w writes into it, its packages
\* are there.  The logrotate file has two writers when there is a DNS log.
Fine(w) ==
    /\ w.op = "write" => disk[w.on] = Rendered(w) \/ (w.on = "logrotate" /\ LogFile)
    /\ w.op = "install" => w.on \in pkgs

\* The plugin p has done all that a run with these objects asks of it.
Done(mode, p, sel) ==
    /\ \A w \in ToSet(Script(mode, p, sel)) : Fine(w)
    /\ Kinds[p] \cap sel \subseteq applied

Commanded == {"update", "bootstrap"}

\* Which runs are undisturbed and which are repeated; an undisturbed run has no other
\* China names in hand than those in the cache.
AloneInv ==
    /\ run.again => run.alone /\ run.mode \in Commanded
    /\ Running /\ run.alone => china.pc = "off" /\ Current
    /\ last # None => china.pc = "off"
    /\ run.mode = "bootstrap" => run.sel = Object
    /\ last.mode = "bootstrap" => last.sel = Object
    /\ run.mode \in {"idle", "update", "bootstrap", "event"}

\* The steps of a run are those of its plugins.
HandInv ==
    Running =>
    /\ run.todo \subseteq Plugins(run.mode, run.sel)
    /\ run.at \in Plugin =>
          /\ run.at \in Plugins(run.mode, run.sel) \ run.todo
          /\ Left \subseteq ToSet(Script(run.mode, run.at, run.sel))

\* An undisturbed run has done what the plugins behind it ask for, and the one it is at has
\* done what is not left of its list.
DoneInv ==
    Running /\ run.alone /\ run.mode \in Commanded =>
        \A p \in Plugins(run.mode, run.sel) \ run.todo :
            IF p = run.at
            THEN \A w \in ToSet(Script(run.mode, p, run.sel)) : w \in Left \/ Fine(w)
            ELSE Done(run.mode, p, run.sel)

\* So everything is done for a run that may be repeated,
LastInv ==
    last.mode \in Commanded =>
        \A p \in Plugins(last.mode, last.sel) : Done(last.mode, p, last.sel)

\* and stays so in the repetition, which is left with nothing to do.
AgainInv ==
    run.again =>
    /\ \A p \in Plugins(run.mode, run.sel) : Done(run.mode, p, run.sel)
    /\ "network.core" \in Plugins(run.mode, run.sel) /\ "network.core" \notin cut =>
          Distro \cap up = {}
    /\ run.steps # <<>> => Hits(Now.if) /\ Now.op # "install"
    /\ run.changed \subseteq IF LogFile THEN {"logrotate"} ELSE {}
    /\ cut \cap {"network.core", "network.ipv6pd"} = {} =>
          run.did \subseteq IF LogFile THEN {"logrotate", "dnsmasq"} ELSE {}

RepeatInv == AloneInv /\ HandInv /\ DoneInv /\ LastInv /\ AgainInv

-----------------------------------------------------------------------------
(* What the lists of a gw command are like.                                *)

\* Nothing in the list of the plugin p is done in any case, but for writes and
\* installations, which pass over what is there already, and for stopping what nobody wants;
\* only dnsmasq minds the logrotate file, which only network.core writes without a DNS log.
Calm(x, p) ==
    /\ x.op \in {"write", "install"} => x.if = {"always"} /\ x.unless = {}
    /\ x.op \in {"restart", "load", "loadIfThere", "disable"} =>
          "always" \notin x.if /\ ("logrotate" \in x.if => x.on = "dnsmasq")
    /\ x.op = "tryDisable" => p \in {"network.core", "network.ipv6pd"}
    /\ x.op = "write" /\ x.on = "logrotate" =>
          LogFile \/ (p = "network.core" /\ x = Plain("logrotate"))
CalmSteps(steps, p) == \E S : Lists(steps, S) /\ \A x \in S : Calm(x, p)

\* Such lists, one after the other.
LEMMA CalmConcat ==
    ASSUME NEW p, NEW a, NEW b, CalmSteps(a, p), CalmSteps(b, p)
    PROVE  CalmSteps(a \o b, p)
<1>1. PICK A : Lists(a, A) /\ \A x \in A : Calm(x, p)  BY DEF CalmSteps
<1>2. PICK B : Lists(b, B) /\ \A x \in B : Calm(x, p)  BY DEF CalmSteps
<1>3. Lists(a \o b, A \cup B)  BY <1>1, <1>2, ListsConcat
<1>4. \A x \in A \cup B : Calm(x, p)  BY <1>1, <1>2
<1>5. QED  BY <1>3, <1>4 DEF CalmSteps

\* A list that is written out,
LEMMA CalmLists ==
    ASSUME NEW p, NEW steps, NEW S, Lists(steps, S), \A x \in S : Calm(x, p)
    PROVE  CalmSteps(steps, p)
  BY DEF CalmSteps

\* or taken under a condition.
LEMMA CalmWhen ==
    ASSUME NEW p, NEW steps, NEW cond, cond => CalmSteps(steps, p)
    PROVE  CalmSteps(When(cond, steps), p)
<1>1. CalmSteps(<<>>, p)
  <2>1. \A x \in {} : Calm(x, p)  OBVIOUS
  <2>2. QED  BY <2>1, ListsNone, CalmLists
<1>2. CASE cond  BY <1>2 DEF When
<1>3. CASE ~cond  BY <1>1, <1>3 DEF When
<1>4. QED  BY <1>2, <1>3

\* A write of any other file.
LEMMA CalmWrite ==
    ASSUME NEW p, NEW f, f # "logrotate"
    PROVE  /\ \A content : Calm(Write(f, content), p)
           /\ Calm(Plain(f), p) /\ Calm(Delete(f), p) /\ Calm(Off(f), p)
<1>1. ASSUME NEW content PROVE Calm(Write(f, content), p)
  <2>. DEFINE w == Write(f, content)
  <2>1. w.op = "write" /\ w.on = f /\ w.if = {"always"} /\ w.unless = {}  BY WriteIs
  <2>. HIDE DEF w
  <2>2. Calm(w, p)  BY <2>1 DEF Calm
  <2>3. QED  BY <2>2 DEF w
<1>2. Calm(Plain(f), p)  BY <1>1, Zenon DEF Plain
<1>3. Calm(Delete(f), p)  BY <1>1, Zenon DEF Delete
<1>4. Calm(Off(f), p)  BY <1>1, Zenon DEF Off
<1>5. QED  BY <1>1, <1>2, <1>3, <1>4

\* Commands that wait for a change, and the others.
LEMMA CalmCommand ==
    ASSUME NEW p
    PROVE  /\ \A on : Calm(Step("install", on), p)
           /\ \A op, on, things :
                 /\ op \in {"restart", "load", "loadIfThere", "disable", "enable", "stale"}
                 /\ "always" \notin things
                 /\ "logrotate" \in things => on = "dnsmasq"
                 => Calm(If(things, Step(op, on)), p)
           /\ \A on, things : Calm([Step("enable", on) EXCEPT !.unless = things], p)
           /\ \A on : p \in {"network.core", "network.ipv6pd"} => Calm(Step("tryDisable", on), p)
<1>1. ASSUME NEW on PROVE Calm(Step("install", on), p)
  <2>1. PICK x : x = Step("install", on)  OBVIOUS
  <2>2. x.op = "install" /\ x.if = {"always"} /\ x.unless = {}  BY <2>1, CommandIs
  <2>3. QED  BY <2>1, <2>2 DEF Calm
<1>2. ASSUME NEW op, NEW on, NEW things,
             op \in {"restart", "load", "loadIfThere", "disable", "enable", "stale"},
             "always" \notin things, "logrotate" \in things => on = "dnsmasq"
      PROVE  Calm(If(things, Step(op, on)), p)
  <2>1. PICK x : x = If(things, Step(op, on))  OBVIOUS
  <2>2. x.op = op /\ x.on = on /\ x.if = things  BY <2>1, CommandIs
  <2>3. Calm(x, p)  BY <1>2, <2>2 DEF Calm
  <2>4. QED  BY <2>1, <2>3
<1>3. ASSUME NEW on, NEW things PROVE Calm([Step("enable", on) EXCEPT !.unless = things], p)
  <2>1. PICK x : x = [Step("enable", on) EXCEPT !.unless = things]  OBVIOUS
  <2>2. x.op = "enable"  BY <2>1, CommandIs
  <2>3. Calm(x, p)  BY <2>2 DEF Calm
  <2>4. QED  BY <2>1, <2>3
<1>4. ASSUME NEW on, p \in {"network.core", "network.ipv6pd"} PROVE Calm(Step("tryDisable", on), p)
  <2>1. PICK x : x = Step("tryDisable", on)  OBVIOUS
  <2>2. x.op = "tryDisable"  BY <2>1, CommandIs
  <2>3. Calm(x, p)  BY <1>4, <2>2 DEF Calm
  <2>4. QED  BY <2>1, <2>3
<1>5. QED  BY <1>1, <1>2, <1>3, <1>4

\* The mirror, the resolver, the IP lists, the cron jobs, the utilities, the firewall,
\* docker.
LEMMA CalmMost ==
    /\ CalmSteps(SystemMirror, "system.mirror")
    /\ \A sel : CalmSteps(Firewall(sel), "network.firewall")
    /\ CalmSteps(ResolvConf, "network.resolvconf") /\ CalmSteps(IpLists, "ip_lists")
    /\ CalmSteps(ConfigResources, "config.resources")
    /\ CalmSteps(SystemUtilities, "system.utilities")
    /\ CalmSteps(DockerCore, "docker.core")
<1>1. CalmSteps(SystemMirror, "system.mirror")
  <2>. DEFINE p == "system.mirror"
              a == Plain("aptList")
              b == Delete("debianSources")
              c == Step("install", "system.mirror")
              d == Plain("aptKeys")
              e == Plain("dockerList")
              f == Plain("tailscaleList")
              g == If({"dockerList", "tailscaleList"}, Step("stale", "index"))
  <2>1. /\ Calm(a, p) /\ Calm(b, p) /\ Calm(d, p) /\ Calm(e, p) /\ Calm(f, p)  BY CalmWrite
  <2>2. Calm(c, p) /\ Calm(g, p)  BY CalmCommand
  <2>3. SystemMirror = <<a, b, c, d, e, f, g>>  BY DEF SystemMirror
  <2>. HIDE DEF a, b, c, d, e, f, g
  <2>4. Lists(SystemMirror, {a, b, c, d, e, f, g})  BY <2>3, ListsLong
  <2>5. QED  BY <2>1, <2>2, <2>4, CalmLists
<1>2. ASSUME NEW sel PROVE CalmSteps(Firewall(sel), "network.firewall")
  <2>. DEFINE p == "network.firewall"
              a == Plain("nftEntry")
              b == Write("nftFirewall", Content("", sel \X {"rules"}, conf))
  <2>1. Firewall(sel) = <<a, b, NftLoad, NftEnable>>
    BY DEF Firewall, NftLoad, NftEnable, NftThings
  <2>2. Calm(a, p) /\ Calm(b, p)  BY CalmWrite
  <2>3. Calm(NftLoad, p) /\ Calm(NftEnable, p)
    BY CalmCommand DEF NftLoad, NftEnable, NftThings
  <2>. HIDE DEF a, b
  <2>4. Lists(Firewall(sel), {a, b, NftLoad, NftEnable})  BY <2>1, ListsShort
  <2>5. QED  BY <2>2, <2>3, <2>4, CalmLists
<1>3. CalmSteps(ResolvConf, "network.resolvconf")
  <2>. DEFINE a == Plain("resolvConf")
  <2>1. Calm(a, "network.resolvconf")  BY CalmWrite
  <2>2. ResolvConf = <<a>>  BY DEF ResolvConf
  <2>. HIDE DEF a
  <2>3. Lists(ResolvConf, {a})  BY <2>2, ListsShort
  <2>4. QED  BY <2>1, <2>3, CalmLists
<1>4. CalmSteps(IpLists, "ip_lists")
  <2>. DEFINE a == IF On("ipList") THEN Plain("ipListCron") ELSE Delete("ipListCron")
  <2>1. Calm(a, "ip_lists")
    <3>1. Calm(Plain("ipListCron"), "ip_lists") /\ Calm(Delete("ipListCron"), "ip_lists")
      BY CalmWrite
    <3>2. QED  BY <3>1
  <2>2. IpLists = <<a>>  BY DEF IpLists
  <2>. HIDE DEF a
  <2>3. Lists(IpLists, {a})  BY <2>2, ListsShort
  <2>4. QED  BY <2>1, <2>3, CalmLists
<1>5. CalmSteps(ConfigResources, "config.resources")
  <2>. DEFINE a == Plain("cronJob")
  <2>1. Calm(a, "config.resources")  BY CalmWrite
  <2>2. ConfigResources = <<a>>  BY DEF ConfigResources
  <2>. HIDE DEF a
  <2>3. Lists(ConfigResources, {a})  BY <2>2, ListsShort
  <2>4. QED  BY <2>1, <2>3, CalmLists
<1>6. CalmSteps(SystemUtilities, "system.utilities")
  <2>. DEFINE a == Step("install", "system.utilities")
  <2>1. Calm(a, "system.utilities")  BY CalmCommand
  <2>2. SystemUtilities = <<a>>  BY DEF SystemUtilities
  <2>. HIDE DEF a
  <2>3. Lists(SystemUtilities, {a})  BY <2>2, ListsShort
  <2>4. QED  BY <2>1, <2>3, CalmLists
<1>7. CalmSteps(DockerCore, "docker.core")
  <2>. DEFINE p == "docker.core"
              a == Plain("daemonJson")
              b == Plain("dockerHook")
              c == Step("install", "docker.core")
              d == If({"dockerHook"}, Step("restart", "systemd"))
              e == If({"daemonJson"}, Step("restart", "docker"))
  <2>1. DockerCore = <<a, b, c, d, e>>  BY DEF DockerCore
  <2>2. Calm(a, p) /\ Calm(b, p)  BY CalmWrite
  <2>3. Calm(c, p) /\ Calm(d, p) /\ Calm(e, p)  BY CalmCommand
  <2>. HIDE DEF a, b, c, d, e
  <2>4. Lists(DockerCore, {a, b, c, d, e})  BY <2>1, ListsShort
  <2>5. QED  BY <2>2, <2>3, <2>4, CalmLists
<1>8. QED  BY <1>1, <1>2, <1>3, <1>4, <1>5, <1>6, <1>7

\* network.core.
LEMMA CalmCore == CalmSteps(NetworkCore, "network.core")
<1>. DEFINE p == "network.core"
            init == conf[<<"network", "cloudInit">>] = 1
            a == Plain("hostname")
            b == Plain("hosts")
            c == Plain("cloudHostname")
            d == Plain("cloudNet")
            e == Delete("cloudIfaces")
            d2 == Delete("cloudNet")
            g == Plain("sysctl")
            h == Plain("dnsmasqConf")
            i == Plain("logrotate")
            j == Plain("avahi")
            k == Step("install", "network.core")
            l == Step("tryDisable", "tailscaled")
            m == Step("tryDisable", "wideDhcp")
            n == If({"hostname"}, Step("restart", "hostname"))
            o == If({"sysctl"}, Step("restart", "sysctl"))
<1>1. /\ Calm(a, p) /\ Calm(b, p) /\ Calm(c, p) /\ Calm(d, p) /\ Calm(e, p) /\ Calm(d2, p)
      /\ Calm(g, p) /\ Calm(h, p) /\ Calm(j, p)
  BY CalmWrite
<1>2. Calm(i, p)
  <2>1. i.op = "write" /\ i.if = {"always"} /\ i.unless = {}  BY WriteIs DEF Plain
  <2>2. i = Plain("logrotate")  OBVIOUS
  <2>. HIDE DEF i
  <2>3. QED  BY <2>1, <2>2 DEF Calm
<1>3. Calm(k, p) /\ Calm(l, p) /\ Calm(m, p) /\ Calm(n, p) /\ Calm(o, p)  BY CalmCommand
<1>4. NetworkCore = <<a, b, c>> \o (IF init THEN <<d, e>> ELSE <<d2>>)
                    \o <<g, h, i, j, k, l, m, n, o>>
  BY DEF NetworkCore
<1>. HIDE DEF init, a, b, c, d, e, d2, g, h, i, j, k, l, m, n, o
<1>5. CalmSteps(<<a, b, c>>, p)
  <2>1. Lists(<<a, b, c>>, {a, b, c})  BY ListsShort
  <2>2. QED  BY <1>1, <2>1, CalmLists
<1>6. CalmSteps(IF init THEN <<d, e>> ELSE <<d2>>, p)
  <2>1. Lists(<<d, e>>, {d, e}) /\ Lists(<<d2>>, {d2})  BY ListsShort
  <2>2. CalmSteps(<<d, e>>, p)  BY <1>1, <2>1, CalmLists
  <2>3. CalmSteps(<<d2>>, p)  BY <1>1, <2>1, CalmLists
  <2>4. QED  BY <2>2, <2>3
<1>7. CalmSteps(<<g, h, i, j, k, l, m, n, o>>, p)
  <2>1. Lists(<<g, h, i, j, k, l, m, n, o>>, {g, h, i, j, k, l, m, n, o})  BY ListsLong
  <2>2. QED  BY <1>1, <1>2, <1>3, <2>1, CalmLists
<1>8. QED  BY <1>4, <1>5, <1>6, <1>7, CalmConcat

\* The prefix delegation, in a gw command.
LEMMA CalmPd == CalmSteps(Ipv6Pd(FALSE), "network.ipv6pd")
<1>. DEFINE p == "network.ipv6pd"
            client == {"dhcp6c", "dhcp6cScript", "duid"}
            b == Plain("dhcp6c")
            f == Plain("dhcp6cScript")
            g == Plain("duid")
            r == Plain("radvd")
            h == Plain("pdUnit")
            i == Plain("pdHooks")
            c == Plain("nftPd")
            j == If({"pdUnit"}, Step("restart", "systemd"))
            k == Plain("acceptRa")
            l == If(client \cup {}, Step("restart", "pd"))
            m == [Step("enable", "pd") EXCEPT !.unless = client \cup {}]
            n == If({"radvd"} \cup {}, Step("restart", "radvd"))
            o == [Step("enable", "radvd") EXCEPT !.unless = {"radvd"} \cup {}]
            q == If({"nftPd"} \cup {}, Step("loadIfThere", "nft"))
            x1 == Off("dhcp6c")
            x2 == Off("radvd")
            x3 == Off("nftPd")
            x4 == Step("tryDisable", "pd")
            x5 == Step("tryDisable", "radvd")
<1>1. /\ Calm(b, p) /\ Calm(f, p) /\ Calm(g, p) /\ Calm(r, p) /\ Calm(h, p) /\ Calm(i, p)
      /\ Calm(c, p) /\ Calm(k, p) /\ Calm(x1, p) /\ Calm(x2, p) /\ Calm(x3, p)
  BY CalmWrite
<1>2. Calm(j, p) /\ Calm(x4, p) /\ Calm(x5, p)  BY CalmCommand
<1>3. Calm(m, p) /\ Calm(o, p)
  <2>1. \A on, things : Calm([Step("enable", on) EXCEPT !.unless = things], p)  BY CalmCommand
  <2>2. QED  BY <2>1
<1>4. Calm(l, p)
  <2>1. "always" \notin client \cup {} /\ "logrotate" \notin client \cup {}  OBVIOUS
  <2>. DEFINE things == client \cup {}
  <2>. HIDE DEF things
  <2>2. Calm(If(things, Step("restart", "pd")), p)  BY <2>1, CalmCommand DEF things
  <2>3. QED  BY <2>2 DEF things
<1>5. Calm(n, p) /\ Calm(q, p)
  <2>. DEFINE T1 == {"radvd"} \cup {}
              T2 == {"nftPd"} \cup {}
  <2>1. "always" \notin T1 \cup T2 /\ "logrotate" \notin T1 \cup T2  OBVIOUS
  <2>. HIDE DEF T1, T2
  <2>2. Calm(If(T1, Step("restart", "radvd")), p)  BY <2>1, CalmCommand
  <2>3. Calm(If(T2, Step("loadIfThere", "nft")), p)  BY <2>1, CalmCommand
  <2>4. QED  BY <2>2, <2>3 DEF T1, T2
<1>6. Ipv6Pd(FALSE) = IF ~On("pd") THEN <<x1, x2, x3, x4, x5>>
                      ELSE <<b, f, g, r, h, i, c, j, k>> \o <<l, m>> \o <<n, o>> \o <<q>>
  BY DEF Ipv6Pd, PdSteps
<1>. HIDE DEF b, f, g, r, h, i, c, j, k, l, m, n, o, q, x1, x2, x3, x4, x5
<1>7. CalmSteps(<<x1, x2, x3, x4, x5>>, p)
  <2>1. Lists(<<x1, x2, x3, x4, x5>>, {x1, x2, x3, x4, x5})  BY ListsShort
  <2>2. QED  BY <1>1, <1>2, <2>1, CalmLists
<1>8. CalmSteps(<<b, f, g, r, h, i, c, j, k>>, p)
  <2>1. Lists(<<b, f, g, r, h, i, c, j, k>>, {b, f, g, r, h, i, c, j, k})  BY ListsLong
  <2>2. QED  BY <1>1, <1>2, <2>1, CalmLists
<1>9. CalmSteps(<<l, m>>, p) /\ CalmSteps(<<n, o>>, p) /\ CalmSteps(<<q>>, p)
  <2>1. Lists(<<l, m>>, {l, m}) /\ Lists(<<n, o>>, {n, o}) /\ Lists(<<q>>, {q})  BY ListsShort
  <2>2. CalmSteps(<<l, m>>, p)  BY <1>3, <1>4, <2>1, CalmLists
  <2>3. CalmSteps(<<n, o>>, p)  BY <1>3, <1>5, <2>1, CalmLists
  <2>4. CalmSteps(<<q>>, p)  BY <1>5, <2>1, CalmLists
  <2>5. QED  BY <2>2, <2>3, <2>4
<1>10. CalmSteps(<<b, f, g, r, h, i, c, j, k>> \o <<l, m>> \o <<n, o>> \o <<q>>, p)
  BY <1>8, <1>9, CalmConcat
<1>11. QED  BY <1>6, <1>7, <1>10

\* dnsmasq: the logrotate file only with a DNS log.
LEMMA CalmDnsmasq == ASSUME NEW sel PROVE CalmSteps(Dnsmasq(sel), "network.dnsmasq")
<1>. DEFINE p == "network.dnsmasq"
            a == IF On("china") THEN Write("chinaConf", Content("gw", Renders["chinaConf"], conf))
                                ELSE Off("chinaConf")
            b == IF On("china") THEN Write("chinaManual", Content("gw", Renders["chinaManual"], conf))
                                ELSE Off("chinaManual")
            c == IF On("china") /\ conf[<<"china", "cron">>] = 1
                 THEN Plain("chinaCron") ELSE Delete("chinaCron")
            d == Plain("dhcpConf")
            e == Plain("dnsConf")
            f == Write("logrotate", Content("dnsmasq", {}, conf))
            things == {"chinaConf", "chinaManual", "chinaCron", "dhcpConf", "dnsConf", "logrotate"}
            g == If(things, Step("restart", "dnsmasq"))
            names == <<a, b, c>>
            dns == <<e>> \o When(LogFile, <<f>>)
            x == When("china" \in sel, names)
            y == When("dhcp" \in sel, <<d>>)
            z == When("dns" \in sel, dns)
<1>1. Calm(a, p) /\ Calm(b, p) /\ Calm(c, p)
  <2>1. /\ \A content : Calm(Write("chinaConf", content), p)
        /\ \A content : Calm(Write("chinaManual", content), p)
        /\ Calm(Off("chinaConf"), p) /\ Calm(Off("chinaManual"), p)
        /\ Calm(Plain("chinaCron"), p) /\ Calm(Delete("chinaCron"), p)
    BY CalmWrite
  <2>2. QED  BY <2>1
<1>2. Calm(d, p) /\ Calm(e, p)  BY CalmWrite
<1>3. LogFile => Calm(f, p)
  <2>1. f.op = "write" /\ f.if = {"always"} /\ f.unless = {}  BY WriteIs
  <2>. HIDE DEF f
  <2>2. QED  BY <2>1 DEF Calm
<1>4. Calm(g, p)
  <2>1. "always" \notin things  OBVIOUS
  <2>. HIDE DEF things
  <2>2. QED  BY <2>1, CalmCommand
<1>5. Dnsmasq(sel) = x \o y \o z \o <<g>>  BY DEF Dnsmasq, LogFile
<1>. HIDE DEF a, b, c, d, e, f, g
<1>6. CalmSteps(x, p)
  <2>1. Lists(<<a, b, c>>, {a, b, c})  BY ListsShort
  <2>2. CalmSteps(<<a, b, c>>, p)  BY <1>1, <2>1, CalmLists
  <2>3. QED  BY <2>2, CalmWhen
<1>7. CalmSteps(y, p)
  <2>1. Lists(<<d>>, {d})  BY ListsShort
  <2>2. CalmSteps(<<d>>, p)  BY <1>2, <2>1, CalmLists
  <2>3. QED  BY <2>2, CalmWhen
<1>8. CalmSteps(z, p)
  <2>1. Lists(<<e>>, {e}) /\ Lists(<<f>>, {f})  BY ListsShort
  <2>2. LogFile => CalmSteps(<<f>>, p)  BY <1>3, <2>1, CalmLists
  <2>3. CalmSteps(<<e>>, p)  BY <1>2, <2>1, CalmLists
  <2>4. CalmSteps(When(LogFile, <<f>>), p)  BY <2>2, CalmWhen
  <2>5. CalmSteps(dns, p)  BY <2>3, <2>4, CalmConcat
  <2>. HIDE DEF dns
  <2>6. QED  BY <2>5, CalmWhen
<1>9. CalmSteps(<<g>>, p)
  <2>1. Lists(<<g>>, {g})  BY ListsShort
  <2>2. QED  BY <1>4, <2>1, CalmLists
<1>. HIDE DEF x, y, z
<1>10. CalmSteps(x \o y \o z \o <<g>>, p)  BY <1>6, <1>7, <1>8, <1>9, CalmConcat
<1>11. QED  BY <1>5, <1>10

\* collectd, and the DNS server of wireguard.
LEMMA CalmSwitched ==
    /\ \A install \in BOOLEAN : CalmSteps(Collectd(install), "monitoring.collectd")
    /\ CalmSteps(Wgsd, "network.wgsd-coredns")
<1>1. ASSUME NEW install \in BOOLEAN PROVE CalmSteps(Collectd(install), "monitoring.collectd")
  <2>. DEFINE p == "monitoring.collectd"
              a == IF On("collectd") THEN Plain("collectdConf") ELSE Off("collectdConf")
              b == Step("install", "monitoring.collectd")
              c == CollectdRestart
              d == CollectdEnable
              e == CollectdDisable
              x == When(install, <<b>>)
              y == IF On("collectd") THEN <<c, d>> ELSE <<e>>
  <2>1. Calm(a, p)
    <3>1. Calm(Plain("collectdConf"), p) /\ Calm(Off("collectdConf"), p)  BY CalmWrite
    <3>2. QED  BY <3>1
  <2>2. Calm(b, p)  BY CalmCommand
  <2>3. Calm(c, p) /\ Calm(d, p) /\ Calm(e, p)
    BY CalmCommand DEF CollectdRestart, CollectdEnable, CollectdDisable, CollectdThings
  <2>4. Collectd(install) = <<a>> \o x \o y
    BY DEF Collectd, CollectdRestart, CollectdEnable, CollectdDisable, CollectdThings
  <2>. HIDE DEF a, b, c, d, e
  <2>5. CalmSteps(<<a>>, p)
    <3>1. Lists(<<a>>, {a})  BY ListsShort
    <3>2. QED  BY <2>1, <3>1, CalmLists
  <2>6. CalmSteps(x, p)
    <3>1. Lists(<<b>>, {b})  BY ListsShort
    <3>2. CalmSteps(<<b>>, p)  BY <2>2, <3>1, CalmLists
    <3>3. QED  BY <3>2, CalmWhen
  <2>7. CalmSteps(y, p)
    <3>1. Lists(<<c, d>>, {c, d}) /\ Lists(<<e>>, {e})  BY ListsShort
    <3>2. CalmSteps(<<c, d>>, p)  BY <2>3, <3>1, CalmLists
    <3>3. CalmSteps(<<e>>, p)  BY <2>3, <3>1, CalmLists
    <3>4. QED  BY <3>2, <3>3
  <2>. HIDE DEF x, y
  <2>8. CalmSteps(<<a>> \o x \o y, p)  BY <2>5, <2>6, <2>7, CalmConcat
  <2>9. QED  BY <2>4, <2>8
<1>2. CalmSteps(Wgsd, "network.wgsd-coredns")
  <2>. DEFINE p == "network.wgsd-coredns"
              a == Plain("corefile")
              b == IF coredns THEN Plain("wgsdUnit") ELSE Delete("wgsdUnit")
              c == If({"wgsdUnit"}, Step("restart", "systemd"))
              x == When(coredns, <<WgsdRestart, WgsdEnable>>)
  <2>1. Calm(a, p) /\ Calm(b, p)
    <3>1. Calm(Plain("wgsdUnit"), p) /\ Calm(Delete("wgsdUnit"), p) /\ Calm(Plain("corefile"), p)
      BY CalmWrite
    <3>2. QED  BY <3>1
  <2>2. Calm(c, p)  BY CalmCommand
  <2>3. Calm(WgsdRestart, p) /\ Calm(WgsdEnable, p)
    BY CalmCommand DEF WgsdRestart, WgsdEnable, WgsdThings
  <2>4. Wgsd = <<a, b, c>> \o x  BY DEF Wgsd, WgsdRestart, WgsdEnable, WgsdThings
  <2>. HIDE DEF a, b, c
  <2>5. CalmSteps(<<a, b, c>>, p)
    <3>1. Lists(<<a, b, c>>, {a, b, c})  BY ListsShort
    <3>2. QED  BY <2>1, <2>2, <3>1, CalmLists
  <2>6. CalmSteps(x, p)
    <3>1. Lists(<<WgsdRestart, WgsdEnable>>, {WgsdRestart, WgsdEnable})  BY ListsShort
    <3>2. CalmSteps(<<WgsdRestart, WgsdEnable>>, p)  BY <2>3, <3>1, CalmLists
    <3>3. QED  BY <3>2, CalmWhen
  <2>. HIDE DEF x
  <2>7. QED  BY <2>4, <2>5, <2>6, CalmConcat
<1>3. QED  BY <1>1, <1>2

\* The list of every plugin, in a gw command: its steps are known.
LEMMA ScriptsCalm ==
    ASSUME NEW mode, mode # "event", NEW p \in Plugin, NEW sel
    PROVE  \E S : /\ Script(mode, p, sel) \in Seq(S) /\ S = ToSet(Script(mode, p, sel))
                  /\ \A x \in S : /\ Calm(x, p) /\ StepOK(x, p) /\ Fits(x, p)
                                  /\ x.op = "write" /\ x.on # "logrotate" =>
                                        x.on \in File /\ Owner(x.on) = p /\ x = Want(x.on, sel)
<1>. DEFINE script == Script(mode, p, sel)
<1>1. CalmSteps(script, p)
  <2>1. (mode = "bootstrap") \in BOOLEAN /\ (mode = "event") = FALSE  OBVIOUS
  <2>2. /\ CalmSteps(Collectd(mode = "bootstrap"), "monitoring.collectd")
        /\ CalmSteps(Ipv6Pd(mode = "event"), "network.ipv6pd")
    BY <2>1, CalmSwitched, CalmPd
  <2>3. CalmSteps(Dnsmasq(sel), "network.dnsmasq")  BY CalmDnsmasq
  <2>4. QED  BY <2>2, <2>3, CalmSwitched, CalmCore, CalmMost, Plugins12 DEF Script
<1>2. WritesRight(script, p, sel)  BY ScriptsWanted
<1>3. StepsOK(script, p)  BY ScriptsOK
<1>4. WellMade(script, p, Must(mode, p))  BY ScriptsMade
<1>. HIDE DEF script
<1>5. PICK S : Lists(script, S) /\ \A x \in S : Calm(x, p)  BY <1>1 DEF CalmSteps
<1>6. script \in Seq(S) /\ S = ToSet(script)  BY <1>5, ListsIs DEF Lists
<1>7. \A x \in S : x.op = "write" /\ x.on # "logrotate" =>
         x.on \in File /\ Owner(x.on) = p /\ x = Want(x.on, sel)
  <2>1. PICK W : Lists(script, W) /\ WritesAsWanted(W, p, sel)  BY <1>2 DEF WritesRight
  <2>2. W = S  BY <1>6, <2>1, ListsIs
  <2>3. QED  BY <2>1, <2>2 DEF WritesAsWanted
<1>8. \A x \in S : StepOK(x, p)
  <2>1. PICK K : script \in Seq(K) /\ \A x \in K : StepOK(x, p)  BY <1>3 DEF StepsOK
  <2>2. S \subseteq K  BY <1>6, <2>1 DEF ToSet
  <2>3. QED  BY <2>1, <2>2
<1>9. \A x \in S : Fits(x, p)
  <2>1. PICK A, B : Halves(script, A, B) /\ \A x \in A \cup B : Fits(x, p)  BY <1>4 DEF WellMade
  <2>2. Lists(script, A \cup B)  BY <2>1, HalvesInOrder
  <2>3. A \cup B = S  BY <1>6, <2>2, ListsIs
  <2>4. QED  BY <2>1, <2>3
<1>10. QED  BY <1>5, <1>6, <1>7, <1>8, <1>9 DEF script

-----------------------------------------------------------------------------
(* What a plugin is asked for stays as long as nobody edits anything.      *)

\* The lists of the plugins depend on the configuration and on the binary.
LEMMA ScriptsStay ==
    ASSUME UNCHANGED <<conf, coredns>>
    PROVE  /\ \A mode, p, sel : Script(mode, p, sel)' = Script(mode, p, sel)
           /\ \A mode, sel : Plugins(mode, sel)' = Plugins(mode, sel)
           /\ LogFile' <=> LogFile
<1>1. \A tag, X : Content(tag, X, conf)' = Content(tag, X, conf)
  <2>1. ASSUME NEW tag, NEW X PROVE Content(tag, X, conf') = Content(tag, X, conf)
    BY ContentStays
  <2>2. QED  BY <2>1
<1>2. \A f, tag, X : Write(f, Content(tag, X, conf))' = Write(f, Content(tag, X, conf))
  BY <1>1 DEF Write, Step
<1>3. \A f : Plain(f)' = Plain(f)  BY <1>2 DEF Plain
<1>4. \A f : Off(f)' = Off(f)  BY <1>2 DEF Off
<1>5. \A o : On(o)' <=> On(o)  BY DEF On
<1>6. SystemMirror' = SystemMirror  BY <1>3 DEF SystemMirror
<1>7. NetworkCore' = NetworkCore  BY <1>3 DEF NetworkCore
<1>8. \A force : Ipv6Pd(force)' = Ipv6Pd(force)  BY <1>3, <1>4, <1>5 DEF Ipv6Pd, PdSteps
<1>9. \A sel : Firewall(sel)' = Firewall(sel)  BY <1>2, <1>3 DEF Firewall
<1>10. \A sel : Dnsmasq(sel)' = Dnsmasq(sel)
  BY <1>2, <1>3, <1>4, <1>5 DEF Dnsmasq
<1>11. \A install : Collectd(install)' = Collectd(install)  BY <1>3, <1>4, <1>5 DEF Collectd
<1>12. Wgsd' = Wgsd  BY <1>3 DEF Wgsd
<1>13. DockerCore' = DockerCore  BY <1>3 DEF DockerCore
<1>14. /\ IpLists' = IpLists /\ ResolvConf' = ResolvConf /\ ConfigResources' = ConfigResources
       /\ SystemUtilities' = SystemUtilities
  BY <1>3, <1>5 DEF IpLists, ResolvConf, ConfigResources, SystemUtilities
<1>15. ASSUME NEW mode, NEW p, NEW sel PROVE Script(mode, p, sel)' = Script(mode, p, sel)
  BY <1>6, <1>7, <1>8, <1>9, <1>10, <1>11, <1>12, <1>13, <1>14 DEF Script
<1>16. \A mode, sel : Plugins(mode, sel)' = Plugins(mode, sel)  BY <1>5 DEF Plugins
<1>17. LogFile' <=> LogFile  BY DEF LogFile
<1>18. QED  BY <1>15, <1>16, <1>17

-----------------------------------------------------------------------------
(* What is fine stays fine.                                                *)

\* With the same files and settings, and no fewer packages.
LEMMA FineStays ==
    ASSUME UNCHANGED <<conf, disk, cached>>, pkgs \subseteq pkgs'
    PROVE  \A w : Fine(w) => Fine(w)'
<1>1. SUFFICES ASSUME NEW w, Fine(w) PROVE Fine(w)'  OBVIOUS
<1>2. Rendered(w)' = Rendered(w)  BY DEF Rendered, OfNames, Names
<1>3. LogFile' <=> LogFile  BY DEF LogFile
<1>4. QED  BY <1>1, <1>2, <1>3 DEF Fine

\* What is not due is fine.
LEMMA NotDueFine ==
    ASSUME NEW p, NEW ch, NEW w, Calm(w, p), ~Due(w, ch)
    PROVE  Fine(w)
<1>1. CASE w.op = "write"
  <2>1. w.if = {"always"} /\ w.unless = {}  BY <1>1 DEF Calm
  <2>2. disk[w.on] = w.what /\ w.on \notin DOMAIN ChinaFiles  BY <1>1, <2>1 DEF Due
  <2>3. w.on # "chinaConf"  BY <2>2, FilesOf
  <2>4. Rendered(w) = w.what  BY <2>3 DEF Rendered, OfNames
  <2>5. QED  BY <1>1, <2>2, <2>4 DEF Fine
<1>2. CASE w.op = "install"
  <2>1. w.if = {"always"} /\ w.unless = {}  BY <1>2 DEF Calm
  <2>2. w.on \in pkgs  BY <1>2, <2>1 DEF Due
  <2>3. QED  BY <1>2, <2>2 DEF Fine
<1>3. CASE w.op \notin {"write", "install"}  BY <1>3 DEF Fine
<1>4. QED  BY <1>1, <1>2, <1>3

\* A step of a run leaves what is fine: two plugins do not write the same file, but for
\* the logrotate file, and one plugin does not write it in two ways.
LEMMA WorkKeepsFine ==
    ASSUME Goes(Now), Does(Now), Current, run.mode # "event",
           Now \in ToSet(Script(run.mode, run.at, run.sel)),
           NEW p \in Plugin, NEW w \in ToSet(Script(run.mode, p, run.sel)), Fine(w)
    PROVE  Fine(w)'
<1>1. PICK x : x = Now  OBVIOUS
<1>2. /\ Calm(x, run.at) /\ StepOK(x, run.at)
      /\ x.op = "write" /\ x.on # "logrotate" =>
            x.on \in File /\ Owner(x.on) = run.at /\ x = Want(x.on, run.sel)
  BY <1>1, ScriptsCalm DEF Goes
<1>3. /\ Calm(w, p) /\ StepOK(w, p)
      /\ w.op = "write" /\ w.on # "logrotate" =>
            w.on \in File /\ Owner(w.on) = p /\ w = Want(w.on, run.sel)
  BY ScriptsCalm
<1>4. /\ UNCHANGED <<conf, cached>> /\ pkgs \subseteq pkgs'
      /\ x.op = "write" => disk'[x.on] = Rendered(x)
      /\ \A f \in File : disk'[f] = disk[f] \/ (x.op = "write" /\ f = x.on)
  BY <1>1 DEF Goes, Does, Given
<1>5. Rendered(w)' = Rendered(w) /\ (LogFile' <=> LogFile)
  BY <1>4 DEF Rendered, OfNames, Names, LogFile
<1>6. ASSUME w.op = "write", x.op = "write", w.on = x.on PROVE w = x \/ LogFile
  <2>1. CASE w.on = "logrotate"  BY <1>2, <1>3, <1>6, <2>1 DEF Calm
  <2>2. CASE w.on # "logrotate"  BY <1>2, <1>3, <1>6, <2>2
  <2>3. QED  BY <2>1, <2>2
<1>7. CASE w.op = "write"
  <2>1. w.on \in File  BY <1>3, <1>7 DEF StepOK
  <2>2. CASE disk'[w.on] = disk[w.on]  BY <1>5, <1>7, <2>2 DEF Fine
  <2>3. CASE x.op = "write" /\ w.on = x.on
    <3>1. CASE w = x
      <4>1. disk'[w.on] = Rendered(w)  BY <1>4, <2>3, <3>1
      <4>2. QED  BY <1>5, <1>7, <4>1 DEF Fine
    <3>2. CASE LogFile /\ w.on = "logrotate"  BY <1>5, <1>7, <3>2 DEF Fine
    <3>3. CASE w.on # "logrotate"  BY <1>2, <1>3, <1>7, <2>3, <3>1, <3>3
    <3>4. QED  BY <1>6, <1>7, <2>3, <3>1, <3>2, <3>3
  <2>4. QED  BY <1>4, <2>1, <2>2, <2>3
<1>8. CASE w.op # "write"  BY <1>4, <1>8 DEF Fine
<1>9. QED  BY <1>7, <1>8

\* The step that has been taken is fine then.
LEMMA WorkMakesFine ==
    ASSUME Goes(Now), Does(Now), Current
    PROVE  \A w : w = Now => Fine(w)'
<1>1. SUFFICES ASSUME NEW w, w = Now PROVE Fine(w)'  OBVIOUS
<1>2. UNCHANGED <<conf, cached>> /\ StepOK(w, run.at)  BY <1>1 DEF Goes
<1>3. /\ w.op = "write" => disk'[w.on] = Rendered(w)
      /\ w.op = "install" => run.at \in pkgs'
  BY <1>1 DEF Does, Given
<1>4. Rendered(w)' = Rendered(w)  BY <1>2 DEF Rendered, OfNames, Names
<1>5. w.op = "install" => w.on = run.at  BY <1>2 DEF StepOK
<1>6. QED  BY <1>3, <1>4, <1>5 DEF Fine

-----------------------------------------------------------------------------
(* What a step does to the run.                                            *)

\* It is about the same selection, and what it changed and did is what its command says.
Takes(x) ==
    /\ run'.names \in {run.names, {}}
    /\ DOMAIN run' = DOMAIN run /\ run'.again = run.again /\ run'.alone = run.alone
    /\ run'.steps = Rest(Tail(run.steps), run'.changed)
    /\ \A y \in run'.changed : \/ y \in run.changed
                               \/ x.op = "install"
                               \/ x.op = "write" /\ y = x.on /\ (Current => Rendered(x) # disk[y])
    /\ \A y \in run'.did : \/ y \in run.did
                           \/ x.op = "install"
                           \/ x.op = "write" /\ y = x.on /\ (Current => Rendered(x) # disk[y])
                           \/ x.op \in {"restart", "load", "loadIfThere"} /\ y = x.on
                           \/ x.op \in {"disable", "tryDisable"} /\ y = x.on /\ y \in up
LEMMA WorkTakes ==
    ASSUME RunInv, Works
    PROVE  Takes(Now)
<1>1. PICK x : x = Now  OBVIOUS
<1>2. ASSUME NEW ch, NEW did, GoOn(ch, did)
      PROVE  /\ run'.names = {}
             /\ DOMAIN run' = DOMAIN run /\ run'.again = run.again /\ run'.alone = run.alone
             /\ run'.steps = Rest(Tail(run.steps), run'.changed)
             /\ run'.changed = run.changed \cup ch /\ run'.did = run.did \cup did
  BY <1>2 DEF GoOn, RunInv, Idle
<1>3. CASE WriteFile
  <2>1. PICK new, ch :
           /\ ch = IF new = disk[x.on] THEN {} ELSE {x.on}
           /\ GoOn(ch, ch)
           /\ \/ new = Rendered(x)
              \/ x.on = "chinaConf" /\ OfNames(x) /\ \E n \in run.names : new = Names(x, n)
    BY <1>1, <1>3, FileWritten
  <2>2. x.op = "write" /\ GoOn(ch, ch)  BY <1>1, <1>3, <2>1 DEF WriteFile
  <2>3. Current => new = Rendered(x)
    <3>1. SUFFICES ASSUME OfNames(x), Current, NEW n \in run.names, new = Names(x, n)
                   PROVE  new = Rendered(x)
      BY <2>1
    <3>2. n = cached  BY <3>1 DEF Current
    <3>3. QED  BY <3>1, <3>2 DEF Rendered
  <2>4. \A y \in ch : y = x.on /\ (Current => Rendered(x) # disk[y])  BY <2>1, <2>3
  <2>5. Takes(x)  BY <1>2, <2>2, <2>4 DEF Takes
  <2>6. QED  BY <1>1, <2>5
<1>4. CASE Install
  <2>. DEFINE ch == run.changed \cup {"packages"}
  <2>1. x.op = "install"  BY <1>1, <1>4 DEF Install
  <2>2. /\ run'.names = run.names
        /\ DOMAIN run' = DOMAIN run /\ run'.again = run.again /\ run'.alone = run.alone
        /\ run'.steps = Rest(Tail(run.steps), ch) /\ run'.changed = ch
    BY <1>4 DEF Install, RunInv, Idle
  <2>. HIDE DEF ch
  <2>3. Takes(x)  BY <2>1, <2>2 DEF Takes
  <2>4. QED  BY <1>1, <2>3
<1>5. CASE MarkStale
  <2>1. /\ run'.names = run.names
        /\ DOMAIN run' = DOMAIN run /\ run'.again = run.again /\ run'.alone = run.alone
        /\ run'.steps = Rest(Tail(run.steps), run.changed) /\ run'.changed = run.changed
        /\ run'.did = run.did
    BY <1>5 DEF MarkStale, RunInv, Idle
  <2>2. Takes(x)  BY <2>1 DEF Takes
  <2>3. QED  BY <1>1, <2>2
<1>6. CASE Restart
  <2>1. PICK s : s = IF Now.op = "loadIfThere" /\ ~FirewallThere THEN {} ELSE {Now.on}  OBVIOUS
  <2>2. x.op \in {"restart", "load", "loadIfThere"} /\ GoOn({}, s) /\ s \subseteq {x.on}
    BY <1>1, <1>6, <2>1 DEF Restart
  <2>3. Takes(x)  BY <1>2, <2>2 DEF Takes
  <2>4. QED  BY <1>1, <2>3
<1>7. CASE Enable
  <2>1. GoOn({}, {})  BY <1>7 DEF Enable
  <2>2. Takes(x)  BY <1>2, <2>1 DEF Takes
  <2>3. QED  BY <1>1, <2>2
<1>8. CASE Disable
  <2>1. PICK s : s = {Now.on} \cap up  OBVIOUS
  <2>2. x.op \in {"disable", "tryDisable"} /\ GoOn({}, s) /\ s \subseteq {x.on} /\ s \subseteq up
    BY <1>1, <1>8, <2>1 DEF Disable
  <2>3. Takes(x)  BY <1>2, <2>2 DEF Takes
  <2>4. QED  BY <1>1, <2>3
<1>9. QED  BY <1>3, <1>4, <1>5, <1>6, <1>7, <1>8 DEF Works

\* The first step of what is left of a list is due.
LEMMA FirstIsDue ==
    ASSUME NEW S, NEW steps \in Seq(S), NEW ch, Rest(steps, ch) # <<>>
    PROVE  Head(Rest(steps, ch)) \in ToSet(steps) /\ Due(Head(Rest(steps, ch)), ch)
<1>1. PICK i \in 1..(Len(steps) + 1) :
         /\ Rest(steps, ch) = SubSeq(steps, i, Len(steps))
         /\ i <= Len(steps) => Due(steps[i], ch)
  BY RestIs
<1>. DEFINE n == Len(steps)
            r == SubSeq(steps, i, n)
<1>2. n \in Nat /\ \A k \in 1..n : steps[k] \in S  BY ElementOfSeq
<1>3. /\ r \in Seq(S) /\ Len(r) = IF i <= n THEN n - i + 1 ELSE 0
      /\ \A k \in 1..(n - i + 1) : r[k] = steps[i + k - 1]
  <2>1. i \in Int /\ n \in Int /\ \A k \in i..n : steps[k] \in S  BY <1>2
  <2>2. QED  BY <2>1, SubSeqProperties
<1>4. r = Rest(steps, ch)  BY <1>1
<1>. HIDE DEF r
<1>5. i <= n
  <2>1. Len(r) # 0  BY <1>3, <1>4
  <2>2. QED  BY <1>2, <1>3, <2>1
<1>6. Head(r) = steps[i]
  <2>1. r[1] = steps[i + 1 - 1]  BY <1>2, <1>3, <1>5
  <2>2. Head(r) = r[1]  BY <1>3, <1>4
  <2>3. i + 1 - 1 = i  OBVIOUS
  <2>4. QED  BY <2>1, <2>2, <2>3
<1>7. steps[i] \in ToSet(steps)
  <2>1. DOMAIN steps = 1..n  OBVIOUS
  <2>2. QED  BY <1>2, <1>5, <2>1 DEF ToSet
<1>8. QED  BY <1>1, <1>4, <1>5, <1>6, <1>7

-----------------------------------------------------------------------------
(* A run takes a step.                                                     *)

\* The invariants in the next state, of a run in mode m about the selection s.
LEMMA HandThen ==
    ASSUME NEW m, NEW s, UNCHANGED <<conf, coredns>>, run'.mode = m, run'.sel = s,
           run'.todo \subseteq Plugins(m, s),
           run'.at \in Plugin => /\ run'.at \in Plugins(m, s) \ run'.todo
                                 /\ Left' \subseteq ToSet(Script(m, run'.at, s))
    PROVE  HandInv'
<1>1. /\ Plugins(m, s)' = Plugins(m, s) /\ \A p : Script(m, p, s)' = Script(m, p, s)
  BY ScriptsStay
<1>2. Plugins(run.mode, run.sel)' = Plugins(m, s)
  <2>1. \A m2, s2 : m2 = run'.mode /\ s2 = run'.sel =>
           Plugins(m2, s2)' = Plugins(run.mode, run.sel)'
    OBVIOUS
  <2>2. QED  BY <1>1, <2>1
<1>3. Script(run.mode, run.at, run.sel)' = Script(m, run'.at, s)
  <2>1. \A m2, p2, s2 : m2 = run'.mode /\ s2 = run'.sel /\ p2 = run'.at =>
           Script(m2, p2, s2)' = Script(run.mode, run.at, run.sel)'
    OBVIOUS
  <2>2. QED  BY <1>1, <2>1
<1>4. ToSet(Script(run.mode, run.at, run.sel))' = ToSet(Script(m, run'.at, s))
  BY <1>3 DEF ToSet
<1>5. QED  BY <1>2, <1>4 DEF HandInv

LEMMA DoneThen ==
    ASSUME NEW m, NEW s, UNCHANGED <<conf, coredns>>, run'.mode = m, run'.sel = s,
           run'.alone /\ m \in Commanded =>
               \A p \in Plugins(m, s) \ run'.todo :
                   IF p = run'.at THEN \A w \in ToSet(Script(m, p, s)) : w \in Left' \/ Fine(w)'
                                  ELSE Done(m, p, s)'
    PROVE  DoneInv'
<1>1. /\ Plugins(m, s)' = Plugins(m, s) /\ \A p : Script(m, p, s)' = Script(m, p, s)
  BY ScriptsStay
<1>2. Plugins(run.mode, run.sel)' = Plugins(m, s)
  <2>1. \A m2, s2 : m2 = run'.mode /\ s2 = run'.sel =>
           Plugins(m2, s2)' = Plugins(run.mode, run.sel)'
    OBVIOUS
  <2>2. QED  BY <1>1, <2>1
<1>3. \A p : Script(run.mode, p, run.sel)' = Script(m, p, s)
  <2>1. \A m2, p, s2 : m2 = run'.mode /\ s2 = run'.sel =>
           Script(m2, p, s2)' = Script(run.mode, p, run.sel)'
    OBVIOUS
  <2>2. QED  BY <1>1, <2>1
<1>4. \A p : ToSet(Script(run.mode, p, run.sel))' = ToSet(Script(m, p, s))
  BY <1>3 DEF ToSet
<1>5. \A p : Done(m, p, s)' => Done(run.mode, p, run.sel)'
  <2>1. \A m2, p, s2 : m2 = run'.mode /\ s2 = run'.sel =>
           (Done(m2, p, s2)' <=> Done(run.mode, p, run.sel)')
    OBVIOUS
  <2>2. QED  BY <2>1
<1>6. QED  BY <1>2, <1>4, <1>5 DEF DoneInv

LEMMA AgainThen ==
    ASSUME NEW m, NEW s, UNCHANGED <<conf, coredns>>, run'.mode = m, run'.sel = s,
           run'.again =>
           /\ \A p \in Plugins(m, s) : Done(m, p, s)'
           /\ "network.core" \in Plugins(m, s) /\ "network.core" \notin cut' => Distro \cap up' = {}
           /\ run'.steps # <<>> => /\ Head(run'.steps).if \cap (run'.changed \cup {"always"}) # {}
                                   /\ Head(run'.steps).op # "install"
           /\ run'.changed \subseteq IF LogFile THEN {"logrotate"} ELSE {}
           /\ cut' \cap {"network.core", "network.ipv6pd"} = {} =>
                 run'.did \subseteq IF LogFile THEN {"logrotate", "dnsmasq"} ELSE {}
    PROVE  AgainInv'
<1>1. Plugins(m, s)' = Plugins(m, s) /\ (LogFile' <=> LogFile)  BY ScriptsStay
<1>2. Plugins(run.mode, run.sel)' = Plugins(m, s)
  <2>1. \A m2, s2 : m2 = run'.mode /\ s2 = run'.sel =>
           Plugins(m2, s2)' = Plugins(run.mode, run.sel)'
    OBVIOUS
  <2>2. QED  BY <1>1, <2>1
<1>3. \A p : Done(m, p, s)' => Done(run.mode, p, run.sel)'
  <2>1. \A m2, p, s2 : m2 = run'.mode /\ s2 = run'.sel =>
           (Done(m2, p, s2)' <=> Done(run.mode, p, run.sel)')
    OBVIOUS
  <2>2. QED  BY <2>1
<1>4. Hits(Now.if)' <=> Head(run'.steps).if \cap (run'.changed \cup {"always"}) # {}
  BY DEF Hits, Now
<1>5. (Now.op)' = Head(run'.steps).op  BY DEF Now
<1>6. QED  BY <1>1, <1>2, <1>3, <1>4, <1>5 DEF AgainInv

\* What is done stays done.
LEMMA DoneStays ==
    ASSUME NEW m, NEW p, NEW s, UNCHANGED <<conf, coredns>>,
           \A w \in ToSet(Script(m, p, s)) : Fine(w) => Fine(w)',
           Kinds[p] \cap s \subseteq applied => Kinds[p] \cap s \subseteq applied',
           Done(m, p, s)
    PROVE  Done(m, p, s)'
<1>1. Script(m, p, s)' = Script(m, p, s)  BY ScriptsStay
<1>2. ToSet(Script(m, p, s))' = ToSet(Script(m, p, s))  BY <1>1 DEF ToSet
<1>3. QED  BY <1>2 DEF Done

\* The objects whose plugins take part in a command.
LEMMA TakePart ==
    ASSUME NEW m \in Commanded, NEW s, m = "bootstrap" => s = Object
    PROVE  /\ "network.core" \in Plugins(m, s) => "network" \in s
           /\ "network.ipv6pd" \in Plugins(m, s) => "pd" \in s
<1>1. \A p \in Plugins(m, s) : IF m = "bootstrap" THEN p \in BootstrapHook ELSE Kinds[p] \cap s # {}
  BY DEF Plugins, Commanded
<1>2. "network" \in Object  BY KindsAre, Plugins12 DEF Object
<1>3. "network.ipv6pd" \notin BootstrapHook  BY DEF BootstrapHook
<1>4. Kinds["network.core"] = {"network"} /\ Kinds["network.ipv6pd"] = {"pd"}  BY KindsAre
<1>5. QED  BY <1>1, <1>2, <1>3, <1>4

\* A step of a repeated run that would do something.
LEMMA NothingDone ==
    ASSUME RunInv, MachineInv, PdInv, RepeatInv, run.again, run.steps # <<>>, Goes(Now), Does(Now)
    PROVE  /\ Now.op # "install"
           /\ Now.op = "write" => Rendered(Now) = disk[Now.on] \/ (LogFile /\ Now.on = "logrotate")
           /\ Now.op \in {"restart", "load", "loadIfThere", "disable"} =>
                 LogFile /\ Now.on = "dnsmasq"
           /\ Now.op = "tryDisable" /\ cut \cap {"network.core", "network.ipv6pd"} = {} =>
                 Now.on \notin up
<1>1. PICK m, s, x : m = run.mode /\ s = run.sel /\ x = Now  OBVIOUS
<1>2. m \in Commanded /\ (m = "bootstrap" => s = Object)  BY <1>1 DEF RepeatInv, AloneInv
<1>3. run.at \in Plugin /\ x \in Left /\ StepOK(x, run.at) /\ Fits(x, run.at)
  BY <1>1 DEF Goes
<1>4. Running
  <2>1. Idle.steps = <<>>  BY DEF Idle
  <2>2. QED  BY <2>1 DEF RunInv
<1>5. run.at \in Plugins(m, s) /\ x \in ToSet(Script(m, run.at, s))
  BY <1>1, <1>3, <1>4 DEF RepeatInv, HandInv
<1>6. Calm(x, run.at)
  <2>1. m # "event"  BY <1>2 DEF Commanded
  <2>2. QED  BY <1>3, <1>5, <2>1, ScriptsCalm
<1>7. /\ \A p \in Plugins(m, s) : Done(m, p, s)
      /\ "network.core" \in Plugins(m, s) /\ "network.core" \notin cut => Distro \cap up = {}
      /\ Hits(x.if) /\ x.op # "install"
      /\ run.changed \subseteq IF LogFile THEN {"logrotate"} ELSE {}
  BY <1>1 DEF RepeatInv, AgainInv
<1>8. Fine(x)  BY <1>5, <1>7 DEF Done
<1>9. x.op = "write" => Rendered(x) = disk[x.on] \/ (LogFile /\ x.on = "logrotate")
  BY <1>8 DEF Fine
<1>10. ASSUME x.op \in {"restart", "load", "loadIfThere", "disable"}
       PROVE  LogFile /\ x.on = "dnsmasq"
  <2>1. "always" \notin x.if /\ ("logrotate" \in x.if => x.on = "dnsmasq")  BY <1>6, <1>10 DEF Calm
  <2>2. x.if \cap run.changed # {}  BY <1>7, <2>1 DEF Hits
  <2>3. LogFile /\ "logrotate" \in x.if  BY <1>7, <2>2
  <2>4. QED  BY <2>1, <2>3
<1>11. ASSUME x.op = "tryDisable", cut \cap {"network.core", "network.ipv6pd"} = {}
       PROVE  x.on \notin up
  <2>1. \/ x.on \in Distro /\ run.at = "network.core"
        \/ x.on \in {"pd", "radvd"} /\ run.at = "network.ipv6pd" /\ ~On("pd")
    <3>1. run.at \in {"network.core", "network.ipv6pd"}  BY <1>6, <1>11 DEF Calm
    <3>2. QED  BY <1>3, <1>11, <3>1 DEF Fits
  <2>2. CASE x.on \in Distro /\ run.at = "network.core"  BY <1>5, <1>7, <1>11, <2>2
  <2>3. CASE x.on \in {"pd", "radvd"} /\ run.at = "network.ipv6pd" /\ ~On("pd")
    <3>1. "pd" \in s  BY <1>2, <1>5, <2>3, TakePart
    <3>2. Kinds["network.ipv6pd"] \cap s \subseteq applied  BY <1>5, <1>7, <2>3 DEF Done
    <3>3. "pd" \in applied  BY <3>1, <3>2, KindsAre
    <3>4. QED  BY <1>11, <2>3, <3>3 DEF PdInv
  <2>4. QED  BY <2>1, <2>2, <2>3
<1>12. QED  BY <1>1, <1>7, <1>9, <1>10, <1>11

\* Any step.
LEMMA RepeatWorks ==
    ASSUME RunInv, MachineInv, OrderInv, PdInv, SelInv, RepeatInv, Works
    PROVE  RepeatInv'
<1>1. /\ run.steps # <<>> /\ Goes(Now) /\ Does(Now) /\ Takes(Now)
  BY WorkGoes, WorkDoes, WorkTakes
<1>2. PICK m, s, x : m = run.mode /\ s = run.sel /\ x = Now  OBVIOUS
<1>3. /\ run.at \in Plugin /\ x \in Left /\ StepOK(x, run.at) /\ Fits(x, run.at)
      /\ Left' \subseteq Left
      /\ \A y \in Left : y = x \/ y \in Left' \/ ~Due(y, run'.changed)
      /\ run'.at = run.at /\ run'.mode = m /\ run'.sel = s /\ run'.todo = run.todo
      /\ UNCHANGED <<conf, coredns, cached, china, applied, last>>
  BY <1>1, <1>2 DEF Goes
<1>4. Running /\ Running'
  <2>1. Idle.steps = <<>>  BY DEF Idle
  <2>2. Running  BY <1>1, <2>1 DEF RunInv
  <2>3. QED  BY <1>2, <1>3, <2>2 DEF Running
<1>5. last = None /\ last' = None  BY <1>3, <1>4 DEF SelInv
<1>6. run'.again = run.again /\ run'.alone = run.alone /\ run'.names \in {run.names, {}}
  BY <1>1 DEF Takes
<1>7. m = "bootstrap" => s = Object  BY <1>2 DEF RepeatInv, AloneInv
<1>8. /\ run.todo \subseteq Plugins(m, s) /\ run.at \in Plugins(m, s) \ run.todo
      /\ Left \subseteq ToSet(Script(m, run.at, s))
  BY <1>2, <1>3, <1>4 DEF RepeatInv, HandInv
<1>9. AloneInv' /\ (run.alone => Current)
  <2>1. None.mode = "none"  BY DEF None
  <2>2. (run.alone => Current) /\ (Current => Current')
    BY <1>3, <1>4, <1>6 DEF RepeatInv, AloneInv, Current
  <2>3. QED  BY <1>2, <1>3, <1>4, <1>5, <1>6, <2>1, <2>2 DEF RepeatInv, AloneInv
<1>10. HandInv'  BY <1>3, <1>8, HandThen
<1>11. LastInv'
  <2>1. last'.mode = "none"  BY <1>5 DEF None
  <2>2. QED  BY <2>1 DEF LastInv, Commanded
<1>12. run.alone =>
         /\ \A w : w = x => Fine(w)'
         /\ m \in Commanded =>
               \A p \in Plugin : \A w \in ToSet(Script(m, p, s)) : Fine(w) => Fine(w)'
  <2>1. run.alone => \A w : w = x => Fine(w)'  BY <1>1, <1>2, <1>9, WorkMakesFine
  <2>2. ASSUME run.alone, m \in Commanded, NEW p \in Plugin, NEW w \in ToSet(Script(m, p, s)), Fine(w)
        PROVE  Fine(w)'
    <3>1. run.mode # "event"  BY <1>2, <2>2 DEF Commanded
    <3>2. Now \in ToSet(Script(run.mode, run.at, run.sel))  BY <1>2, <1>3, <1>8
    <3>3. QED  BY <1>1, <1>2, <1>9, <2>2, <3>1, <3>2, WorkKeepsFine
  <2>3. QED  BY <2>1, <2>2
<1>13. run.alone /\ m \in Commanded =>
          \A p \in Plugins(m, s) : Done(m, p, s) => Done(m, p, s)'
  <2>1. Plugins(m, s) \subseteq Plugin  BY PluginsOK
  <2>2. QED  BY <1>3, <1>12, <2>1, DoneStays
<1>14. DoneInv'
  <2>1. ASSUME run.alone, m \in Commanded, NEW p \in Plugins(m, s) \ run.todo
        PROVE  IF p = run.at THEN \A w \in ToSet(Script(m, p, s)) : w \in Left' \/ Fine(w)'
                             ELSE Done(m, p, s)'
    <3>1. IF p = run.at THEN \A w \in ToSet(Script(m, p, s)) : w \in Left \/ Fine(w)
                        ELSE Done(m, p, s)
      BY <1>2, <1>4, <2>1 DEF RepeatInv, DoneInv
    <3>2. ASSUME p = run.at, NEW w \in ToSet(Script(m, p, s)) PROVE w \in Left' \/ Fine(w)'
      <4>1. (Fine(w) => Fine(w)') /\ \A v : v = x => Fine(v)'  BY <1>3, <1>12, <2>1, <3>2
      <4>2. ASSUME w \in Left, ~Due(w, run'.changed) PROVE Fine(w)
        <5>1. m # "event"  BY <2>1 DEF Commanded
        <5>2. Calm(w, run.at)  BY <1>3, <3>2, <5>1, ScriptsCalm
        <5>3. QED  BY <4>2, <5>2, NotDueFine
      <4>3. QED  BY <1>3, <3>1, <3>2, <4>1, <4>2
    <3>3. QED  BY <1>13, <2>1, <3>1, <3>2
  <2>2. QED  BY <1>3, <1>6, <2>1, DoneThen
<1>15. AgainInv'
  <2>1. ASSUME run.again
        PROVE  /\ \A p \in Plugins(m, s) : Done(m, p, s)'
               /\ "network.core" \in Plugins(m, s) /\ "network.core" \notin cut' => Distro \cap up' = {}
               /\ run'.steps # <<>> => /\ Head(run'.steps).if \cap (run'.changed \cup {"always"}) # {}
                                       /\ Head(run'.steps).op # "install"
               /\ run'.changed \subseteq IF LogFile THEN {"logrotate"} ELSE {}
               /\ cut' \cap {"network.core", "network.ipv6pd"} = {} =>
                     run'.did \subseteq IF LogFile THEN {"logrotate", "dnsmasq"} ELSE {}
    <3>1. m \in Commanded /\ run.alone /\ Current  BY <1>2, <1>9, <2>1 DEF RepeatInv, AloneInv
    <3>2. /\ \A p \in Plugins(m, s) : Done(m, p, s)
          /\ "network.core" \in Plugins(m, s) /\ "network.core" \notin cut => Distro \cap up = {}
          /\ run.changed \subseteq IF LogFile THEN {"logrotate"} ELSE {}
          /\ cut \cap {"network.core", "network.ipv6pd"} = {} =>
                run.did \subseteq IF LogFile THEN {"logrotate", "dnsmasq"} ELSE {}
      BY <1>2, <2>1 DEF RepeatInv, AgainInv
    <3>3. cut \subseteq cut'  BY <1>1 DEF Does
    <3>4. /\ x.op # "install"
          /\ x.op = "write" => Rendered(x) = disk[x.on] \/ (LogFile /\ x.on = "logrotate")
          /\ x.op \in {"restart", "load", "loadIfThere", "disable"} => LogFile /\ x.on = "dnsmasq"
          /\ x.op = "tryDisable" /\ cut \cap {"network.core", "network.ipv6pd"} = {} =>
                x.on \notin up
      BY <1>1, <1>2, <2>1, NothingDone
    <3>5. \A p \in Plugins(m, s) : Done(m, p, s)'  BY <1>13, <3>1, <3>2
    <3>6. ASSUME "network.core" \in Plugins(m, s), "network.core" \notin cut', NEW d \in Distro
          PROVE  d \notin up'
      <4>1. d \notin up  BY <3>2, <3>3, <3>6
      <4>2. d \in up' \ up => d \in Service
        <5>1. d \in up' \ up => x.on = d /\ x.op \in {"restart", "load", "loadIfThere", "enable"}
          BY <1>1, <1>2, <3>4 DEF Does
        <5>2. QED  BY <1>3, <5>1 DEF Fits
      <4>3. QED  BY <4>1, <4>2, ServicesApart
    <3>7. ASSUME run'.steps # <<>>
          PROVE  /\ Head(run'.steps).if \cap (run'.changed \cup {"always"}) # {}
                 /\ Head(run'.steps).op # "install"
      <4>1. StepsOK(run.steps, run.at)  BY DEF RunInv
      <4>2. PICK S : run.steps \in Seq(S)  BY <4>1 DEF StepsOK
      <4>3. PICK rest, ch : rest = Tail(run.steps) /\ ch = run'.changed  OBVIOUS
      <4>4. rest \in Seq(S) /\ \A w \in ToSet(rest) : w \in Left
        BY <1>1, <4>2, <4>3, FirstAndRest DEF Left
      <4>5. run'.steps = Rest(rest, ch)  BY <1>1, <4>3 DEF Takes
      <4>6. PICK h : h = Head(run'.steps)  OBVIOUS
      <4>7. h \in ToSet(rest) /\ Due(h, ch)  BY <3>7, <4>4, <4>5, <4>6, FirstIsDue
      <4>8. Fine(h)
        <5>1. h \in ToSet(Script(m, run.at, s))  BY <1>8, <4>4, <4>7
        <5>2. QED  BY <1>8, <3>2, <5>1 DEF Done
      <4>9. h.if \cap (ch \cup {"always"}) # {} /\ h.op # "install"
        BY <4>7, <4>8 DEF Due, Fine
      <4>10. QED  BY <4>3, <4>6, <4>9
    <3>8. ASSUME NEW y \in run'.changed PROVE LogFile /\ y = "logrotate"
      <4>1. \/ y \in run.changed
            \/ x.op = "write" /\ y = x.on /\ Rendered(x) # disk[y]
        BY <1>1, <1>2, <3>1, <3>4 DEF Takes
      <4>2. QED  BY <3>2, <3>4, <4>1
    <3>9. ASSUME cut' \cap {"network.core", "network.ipv6pd"} = {}, NEW y \in run'.did
          PROVE  LogFile /\ y \in {"logrotate", "dnsmasq"}
      <4>1. cut \cap {"network.core", "network.ipv6pd"} = {}  BY <3>3, <3>9
      <4>2. \/ y \in run.did
            \/ x.op = "write" /\ y = x.on /\ Rendered(x) # disk[y]
            \/ x.op \in {"restart", "load", "loadIfThere"} /\ y = x.on
            \/ x.op \in {"disable", "tryDisable"} /\ y = x.on /\ y \in up
        BY <1>1, <1>2, <3>1, <3>4 DEF Takes
      <4>3. QED  BY <3>2, <3>4, <4>1, <4>2
    <3>10. QED  BY <3>5, <3>6, <3>7, <3>8, <3>9
  <2>2. QED  BY <1>3, <1>6, <2>1, AgainThen
<1>16. QED  BY <1>9, <1>10, <1>11, <1>14, <1>15 DEF RepeatInv

-----------------------------------------------------------------------------
(* The other steps.                                                        *)

\* The plugins D have returned, and the next one is taken up, if any.
Turns(D) ==
    /\ run.steps = <<>> /\ At \subseteq D /\ D \subseteq Plugin /\ applied' = Returned(D)
    /\ \A q \in D \ At : StepsOf(q) = <<>>
    /\ run.todo \ (run'.todo \cup {run'.at}) \subseteq D /\ run'.todo \subseteq run.todo
    /\ run'.mode = run.mode /\ run'.sel = run.sel /\ run'.alone = run.alone
    /\ run'.again = run.again /\ run'.did = run.did /\ run'.changed = {}
    /\ run'.names = run.names
    /\ \/ run'.at = "" /\ run'.steps = <<>>
       \/ run'.at \in run.todo \ run'.todo /\ run'.steps = StepsOf(run'.at)
LEMMA TurnsIs ==
    ASSUME RunInv, NextPlugin
    PROVE  \E D : Turns(D)
<1>1. run.steps = <<>> /\ run.todo \subseteq Plugin /\ At \subseteq Plugin
  BY DEF NextPlugin, RunInv, At
<1>2. CASE /\ run' = [run EXCEPT !.at = "", !.todo = {}, !.changed = {}]
           /\ applied' = Returned(At \cup run.todo)
           /\ \A p \in run.todo : StepsOf(p) = <<>>
  <2>. DEFINE D == At \cup run.todo
  <2>1. /\ run'.at = "" /\ run'.changed = {} /\ run'.todo = {} /\ run'.steps = <<>>
        /\ run'.mode = run.mode /\ run'.sel = run.sel /\ run'.alone = run.alone
        /\ run'.again = run.again /\ run'.did = run.did /\ run'.names = run.names
    BY <1>1, <1>2 DEF RunInv, Idle
  <2>2. /\ D \subseteq Plugin /\ At \subseteq D /\ applied' = Returned(D)
        /\ run.todo \subseteq D /\ \A p \in D \ At : StepsOf(p) = <<>>
    BY <1>1, <1>2
  <2>. HIDE DEF D
  <2>3. Turns(D)  BY <1>1, <2>1, <2>2 DEF Turns
  <2>4. QED  BY <2>3
<1>3. CASE \E p \in run.todo :
             LET passed == {q \in run.todo : Place[q] < Place[p]} IN
             /\ \A q \in passed : StepsOf(q) = <<>>
             /\ applied' = Returned(At \cup passed)
             /\ run' = [run EXCEPT !.at = p, !.todo = @ \ (passed \cup {p}), !.changed = {},
                                   !.steps = StepsOf(p)]
  <2>1. PICK p \in run.todo :
           LET passed == {q \in run.todo : Place[q] < Place[p]} IN
           /\ \A q \in passed : StepsOf(q) = <<>>
           /\ applied' = Returned(At \cup passed)
           /\ run' = [run EXCEPT !.at = p, !.todo = @ \ (passed \cup {p}), !.changed = {},
                                 !.steps = StepsOf(p)]
    BY <1>3
  <2>. DEFINE passed == {q \in run.todo : Place[q] < Place[p]}
              left == run.todo \ (passed \cup {p})
              D == At \cup passed
  <2>2. run' = [run EXCEPT !.at = p, !.todo = left, !.changed = {}, !.steps = StepsOf(p)]
    BY <2>1
  <2>3. left \subseteq run.todo \ {p} /\ run.todo \ (left \cup {p}) \subseteq D  OBVIOUS
  <2>4. /\ D \subseteq Plugin /\ At \subseteq D /\ applied' = Returned(D)
        /\ \A q \in D \ At : StepsOf(q) = <<>>
    BY <1>1, <2>1
  <2>. HIDE DEF left, D
  <2>5. /\ run'.at = p /\ run'.todo = left /\ run'.changed = {} /\ run'.steps = StepsOf(p)
        /\ run'.mode = run.mode /\ run'.sel = run.sel /\ run'.alone = run.alone
        /\ run'.again = run.again /\ run'.did = run.did /\ run'.names = run.names
    BY <2>2 DEF RunInv, Idle
  <2>6. Turns(D)  BY <1>1, <2>3, <2>4, <2>5 DEF Turns
  <2>7. QED  BY <2>6
<1>4. QED  BY <1>2, <1>3 DEF NextPlugin

\* The objects of a plugin that returns count as applied, and the others still do.
LEMMA StillApplied ==
    ASSUME NEW D, D \subseteq Plugin, applied' = Returned(D), NEW p \in Plugin,
           p \in D \/ Kinds[p] \cap run.sel \subseteq applied
    PROVE  Kinds[p] \cap run.sel \subseteq applied'
<1>. DEFINE fw == "network.firewall"
            dropped == IF fw \in D THEN Kinds[fw] ELSE {}
            added == (UNION {Kinds[q] : q \in D}) \cap run.sel
<1>1. applied' = (applied \ dropped) \cup added  BY Zenon DEF Returned
<1>2. p \in D => Kinds[p] \cap run.sel \subseteq added  OBVIOUS
<1>3. p # fw => Kinds[p] \cap Kinds[fw] = {}
  BY Plugins12 DEF Kinds
<1>4. fw \notin D => dropped = {}  OBVIOUS
<1>5. dropped \subseteq Kinds[fw]  OBVIOUS
<1>. HIDE DEF dropped, added
<1>6. CASE p \in D  BY <1>1, <1>2, <1>6
<1>7. CASE p \notin D  BY <1>1, <1>3, <1>4, <1>5, <1>7
<1>8. QED  BY <1>6, <1>7

\* The plugin in hand, with nothing left of its list, has done it, and so has one that is
\* passed over.
LEMMA AllFine ==
    ASSUME NEW p \in Plugin, run.mode # "event", StepsOf(p) = <<>>
    PROVE  \A w \in ToSet(Script(run.mode, p, run.sel)) : Fine(w)
<1>. DEFINE script == Script(run.mode, p, run.sel)
<1>1. PICK S : script \in Seq(S) /\ S = ToSet(script) /\ \A x \in S : Calm(x, p)
  BY ScriptsCalm
<1>2. Rest(script, {}) = <<>>  BY DEF StepsOf
<1>. HIDE DEF script
<1>3. \A w \in ToSet(script) \ ToSet(Rest(script, {})) : ~Due(w, {})  BY <1>1, RestWrites
<1>4. ToSet(<<>>) = {}  BY DEF ToSet
<1>5. \A w \in ToSet(script) : Calm(w, p) /\ ~Due(w, {})  BY <1>1, <1>2, <1>3, <1>4
<1>6. \A w \in ToSet(script) : Fine(w)  BY <1>5, NotDueFine
<1>7. QED  BY <1>6 DEF script

\* What is left of a list that is taken up.
LEMMA LeftOfScript ==
    ASSUME NEW p \in Plugin, run'.steps = StepsOf(p)
    PROVE  /\ Left' \subseteq ToSet(Script(run.mode, p, run.sel))
           /\ run.mode # "event" =>
                 \A w \in ToSet(Script(run.mode, p, run.sel)) : w \in Left' \/ Fine(w)
           /\ run'.steps # <<>> =>
                 /\ Head(run'.steps) \in ToSet(Script(run.mode, p, run.sel))
                 /\ Due(Head(run'.steps), {})
<1>. DEFINE script == Script(run.mode, p, run.sel)
<1>1. PICK S : script \in Seq(S)
  <2>1. StepsOK(script, p)  BY ScriptsOK
  <2>2. QED  BY <2>1 DEF StepsOK
<1>2. run.mode # "event" => \A x \in ToSet(script) : Calm(x, p)  BY ScriptsCalm
<1>3. run'.steps = Rest(script, {})  BY DEF StepsOf
<1>. HIDE DEF script
<1>4. /\ ToSet(Rest(script, {})) \subseteq ToSet(script)
      /\ \A w \in ToSet(script) \ ToSet(Rest(script, {})) : ~Due(w, {})
  BY <1>1, RestWrites
<1>5. Left' = ToSet(Rest(script, {}))  BY <1>3 DEF Left
<1>6. run.mode # "event" => \A w \in ToSet(script) : w \in Left' \/ Fine(w)
  BY <1>2, <1>4, <1>5, NotDueFine
<1>7. run'.steps # <<>> => Head(run'.steps) \in ToSet(script) /\ Due(Head(run'.steps), {})
  BY <1>1, <1>3, FirstIsDue
<1>8. QED  BY <1>4, <1>5, <1>6, <1>7 DEF script

\* The next plugin of a run.
LEMMA RepeatNext ==
    ASSUME RunInv, SelInv, RepeatInv, NextPlugin
    PROVE  RepeatInv'
<1>1. PICK D : Turns(D)  BY TurnsIs
<1>2. PICK m, s : m = run.mode /\ s = run.sel  OBVIOUS
<1>3. /\ UNCHANGED <<conf, disk, up, boot, pkgs, coredns, cached, china, cut, last>> /\ Running
      /\ run.todo \subseteq Plugin /\ "" \notin Plugin
  BY Plugins12 DEF NextPlugin, machine, RunInv
<1>4. /\ run'.mode = m /\ run'.sel = s /\ run'.alone = run.alone /\ run'.again = run.again
      /\ run'.did = run.did /\ run'.changed = {} /\ run'.todo \subseteq run.todo
      /\ run'.names = run.names
      /\ run.steps = <<>> /\ At \subseteq D /\ D \subseteq Plugin /\ applied' = Returned(D)
      /\ \A q \in D \ At : StepsOf(q) = <<>>
      /\ run.todo \ (run'.todo \cup {run'.at}) \subseteq D
      /\ \/ run'.at = "" /\ run'.steps = <<>>
         \/ run'.at \in run.todo \ run'.todo /\ run'.steps = StepsOf(run'.at)
  BY <1>1, <1>2 DEF Turns
<1>5. Running'  BY <1>2, <1>3, <1>4 DEF Running
<1>6. last = None /\ last' = None  BY <1>3 DEF SelInv
<1>7. m = "bootstrap" => s = Object  BY <1>2 DEF RepeatInv, AloneInv
<1>8. /\ run.todo \subseteq Plugins(m, s)
      /\ run.at \in Plugin => run.at \in Plugins(m, s) \ run.todo
  BY <1>2, <1>3 DEF RepeatInv, HandInv
<1>9. Left = {}
  <2>1. ToSet(<<>>) = {}  BY DEF ToSet
  <2>2. QED  BY <1>4, <2>1 DEF Left
<1>10. AloneInv'
  <2>1. None.mode = "none"  BY DEF None
  <2>2. Current => Current'  BY <1>3, <1>4 DEF Current
  <2>3. QED  BY <1>2, <1>3, <1>4, <1>5, <1>6, <2>1, <2>2 DEF RepeatInv, AloneInv
<1>11. HandInv'
  <2>1. ASSUME run'.at \in Plugin
        PROVE  /\ run'.at \in Plugins(m, s) \ run'.todo
               /\ Left' \subseteq ToSet(Script(m, run'.at, s))
    <3>1. run'.at \in run.todo \ run'.todo /\ run'.steps = StepsOf(run'.at)  BY <1>3, <1>4, <2>1
    <3>2. PICK p \in Plugin : p = run'.at  BY <2>1
    <3>3. Left' \subseteq ToSet(Script(m, p, s))  BY <1>2, <3>1, <3>2, LeftOfScript
    <3>4. QED  BY <1>8, <3>1, <3>2, <3>3
  <2>2. QED  BY <1>3, <1>4, <1>8, <2>1, HandThen
<1>12. LastInv'
  <2>1. last'.mode = "none"  BY <1>6 DEF None
  <2>2. QED  BY <2>1 DEF LastInv, Commanded
<1>13. \A w : Fine(w) => Fine(w)'  BY <1>3, FineStays
<1>14. \A p \in Plugin : p \in D \/ Kinds[p] \cap s \subseteq applied => Kinds[p] \cap s \subseteq applied'
  BY <1>2, <1>4, StillApplied
<1>15. \A p \in Plugin : Done(m, p, s) => Done(m, p, s)'
  BY <1>3, <1>13, <1>14, DoneStays
<1>16. DoneInv'
  <2>1. ASSUME run.alone, m \in Commanded, NEW p \in Plugins(m, s) \ run'.todo
        PROVE  IF p = run'.at THEN \A w \in ToSet(Script(m, p, s)) : w \in Left' \/ Fine(w)'
                              ELSE Done(m, p, s)'
    <3>1. p \in Plugin /\ run.mode # "event"  BY <1>2, <2>1, PluginsOK DEF Commanded
    <3>2. CASE p = run'.at
      <4>1. run'.steps = StepsOf(p)  BY <1>3, <1>4, <3>1, <3>2
      <4>2. \A w \in ToSet(Script(m, p, s)) : w \in Left' \/ Fine(w)
        BY <1>2, <3>1, <4>1, LeftOfScript
      <4>3. QED  BY <1>13, <3>2, <4>2
    <3>3. CASE p # run'.at
      <4>1. CASE p \notin run.todo /\ p # run.at
        <5>1. Done(m, p, s)  BY <1>2, <1>3, <2>1, <4>1 DEF RepeatInv, DoneInv
        <5>2. QED  BY <1>15, <3>1, <3>3, <5>1
      <4>2. CASE p \in run.todo \/ p = run.at
        <5>1. p \in D  BY <1>4, <2>1, <3>1, <3>3, <4>2 DEF At
        <5>2. \A w \in ToSet(Script(m, p, s)) : Fine(w)
          <6>1. CASE p = run.at
            <7>1. p \notin run.todo  BY <1>8, <3>1, <6>1
            <7>2. QED  BY <1>2, <1>3, <1>9, <2>1, <6>1, <7>1 DEF RepeatInv, DoneInv
          <6>2. CASE p # run.at
            <7>1. StepsOf(p) = <<>>  BY <1>4, <5>1, <6>2 DEF At
            <7>2. QED  BY <1>2, <3>1, <7>1, AllFine
          <6>3. QED  BY <6>1, <6>2
        <5>3. Kinds[p] \cap s \subseteq applied'  BY <1>14, <3>1, <5>1
        <5>4. Script(m, p, s)' = Script(m, p, s)  BY <1>3, ScriptsStay
        <5>5. ToSet(Script(m, p, s))' = ToSet(Script(m, p, s))  BY <5>4 DEF ToSet
        <5>6. Done(m, p, s)'  BY <1>13, <5>2, <5>3, <5>5 DEF Done
        <5>7. QED  BY <3>3, <5>6
      <4>3. QED  BY <4>1, <4>2
    <3>4. QED  BY <3>2, <3>3
  <2>2. QED  BY <1>3, <1>4, <2>1, DoneThen
<1>17. AgainInv'
  <2>1. ASSUME run.again
        PROVE  /\ \A p \in Plugins(m, s) : Done(m, p, s)'
               /\ "network.core" \in Plugins(m, s) /\ "network.core" \notin cut' => Distro \cap up' = {}
               /\ run'.steps # <<>> => /\ Head(run'.steps).if \cap (run'.changed \cup {"always"}) # {}
                                       /\ Head(run'.steps).op # "install"
               /\ run'.changed \subseteq IF LogFile THEN {"logrotate"} ELSE {}
               /\ cut' \cap {"network.core", "network.ipv6pd"} = {} =>
                     run'.did \subseteq IF LogFile THEN {"logrotate", "dnsmasq"} ELSE {}
    <3>1. /\ \A p \in Plugins(m, s) : Done(m, p, s)
          /\ "network.core" \in Plugins(m, s) /\ "network.core" \notin cut => Distro \cap up = {}
          /\ cut \cap {"network.core", "network.ipv6pd"} = {} =>
                run.did \subseteq IF LogFile THEN {"logrotate", "dnsmasq"} ELSE {}
      BY <1>2, <2>1 DEF RepeatInv, AgainInv
    <3>2. \A p \in Plugins(m, s) : Done(m, p, s)'
      <4>1. Plugins(m, s) \subseteq Plugin  BY PluginsOK
      <4>2. QED  BY <1>15, <3>1, <4>1
    <3>3. ASSUME run'.steps # <<>>
          PROVE  /\ Head(run'.steps).if \cap (run'.changed \cup {"always"}) # {}
                 /\ Head(run'.steps).op # "install"
      <4>1. PICK p \in Plugin : p = run'.at /\ run'.steps = StepsOf(p) /\ p \in run.todo
        BY <1>3, <1>4, <3>3
      <4>2. PICK h : h = Head(run'.steps)  OBVIOUS
      <4>3. h \in ToSet(Script(m, p, s)) /\ Due(h, {})
        BY <1>2, <3>3, <4>1, <4>2, LeftOfScript
      <4>4. Fine(h)  BY <1>8, <3>1, <4>1, <4>3 DEF Done
      <4>5. h.if \cap ({} \cup {"always"}) # {} /\ h.op # "install"
        BY <4>3, <4>4 DEF Due, Fine
      <4>6. QED  BY <1>4, <4>2, <4>5
    <3>4. run'.changed \subseteq IF LogFile THEN {"logrotate"} ELSE {}  BY <1>4
    <3>5. QED  BY <1>3, <1>4, <3>1, <3>2, <3>3, <3>4
  <2>2. QED  BY <1>3, <1>4, <2>1, AgainThen
<1>18. QED  BY <1>10, <1>11, <1>12, <1>16, <1>17 DEF RepeatInv

\* No run: nothing but what the last one has left.
LEMMA RepeatNobody ==
    ASSUME run' = Idle, LastInv', last' # None => china'.pc = "off",
           last'.mode = "bootstrap" => last'.sel = Object
    PROVE  RepeatInv'
<1>1. /\ Idle.mode = "idle" /\ ~Idle.again /\ ~Idle.alone  BY DEF Idle
<1>2. ~Running'  BY <1>1 DEF Running
<1>3. QED  BY <1>1, <1>2 DEF RepeatInv, AloneInv, HandInv, DoneInv, AgainInv

\* The end of a run, which leaves everything done unless it was disturbed.
LEMMA RepeatEnds ==
    ASSUME RunInv, SelInv, RepeatInv, End
    PROVE  RepeatInv'
<1>1. /\ UNCHANGED <<conf, disk, pkgs, coredns, cached, china>> /\ Running /\ run.steps = <<>>
      /\ run.todo = {} /\ applied' = Returned(At) /\ run' = Idle
      /\ last' = IF run.alone THEN [mode |-> run.mode, sel |-> run.sel] ELSE None
  BY DEF End, machine
<1>2. PICK m, s : m = run.mode /\ s = run.sel  OBVIOUS
<1>3. None.mode = "none"  BY DEF None
<1>4. run.alone => last'.mode = m /\ last'.sel = s  BY <1>1, <1>2
<1>5. last' # None => china'.pc = "off"  BY <1>1 DEF RepeatInv, AloneInv
<1>6. last'.mode = "bootstrap" => last'.sel = Object
  BY <1>1, <1>2, <1>3, <1>4 DEF RepeatInv, AloneInv
<1>7. ASSUME run.alone, m \in Commanded, NEW p \in Plugins(m, s) PROVE Done(m, p, s)'
  <2>1. p \in Plugin  BY <1>7, PluginsOK
  <2>2. \A w \in ToSet(Script(m, p, s)) : Fine(w)
    <3>1. Left = {}
      <4>1. ToSet(<<>>) = {}  BY DEF ToSet
      <4>2. QED  BY <1>1, <4>1 DEF Left
    <3>2. IF p = run.at THEN \A w \in ToSet(Script(m, p, s)) : w \in Left \/ Fine(w)
                        ELSE Done(m, p, s)
      BY <1>1, <1>2, <1>7 DEF RepeatInv, DoneInv
    <3>3. QED  BY <3>1, <3>2 DEF Done
  <2>3. Kinds[p] \cap s \subseteq applied'
    <3>1. p \in At \/ Kinds[p] \cap s \subseteq applied
      <4>1. CASE p = run.at  BY <2>1, <4>1 DEF At
      <4>2. CASE p # run.at
        <5>1. Done(m, p, s)  BY <1>1, <1>2, <1>7, <4>2 DEF RepeatInv, DoneInv
        <5>2. QED  BY <5>1 DEF Done
      <4>3. QED  BY <4>1, <4>2
    <3>2. At \subseteq Plugin  BY DEF At
    <3>3. QED  BY <1>1, <1>2, <2>1, <3>1, <3>2, StillApplied
  <2>4. \A w : Fine(w) => Fine(w)'  BY <1>1, FineStays
  <2>5. ToSet(Script(m, p, s))' = ToSet(Script(m, p, s))
    <3>1. Script(m, p, s)' = Script(m, p, s)  BY <1>1, ScriptsStay
    <3>2. QED  BY <3>1 DEF ToSet
  <2>6. QED  BY <2>2, <2>3, <2>4, <2>5 DEF Done
<1>8. LastInv'
  <2>1. CASE ~run.alone
    <3>1. last'.mode = "none"  BY <1>1, <1>3, <2>1
    <3>2. QED  BY <3>1 DEF LastInv, Commanded
  <2>2. CASE run.alone
    <3>1. Plugins(last.mode, last.sel)' = Plugins(m, s)
      <4>1. Plugins(m, s)' = Plugins(m, s)  BY <1>1, ScriptsStay
      <4>2. \A m2, s2 : m2 = last'.mode /\ s2 = last'.sel =>
               Plugins(m2, s2)' = Plugins(last.mode, last.sel)'
        OBVIOUS
      <4>3. QED  BY <1>4, <2>2, <4>1, <4>2
    <3>2. \A p : Done(m, p, s)' => Done(last.mode, p, last.sel)'
      <4>1. \A m2, p, s2 : m2 = last'.mode /\ s2 = last'.sel =>
               (Done(m2, p, s2)' <=> Done(last.mode, p, last.sel)')
        OBVIOUS
      <4>2. QED  BY <1>4, <2>2, <4>1
    <3>3. Commanded' = Commanded  BY DEF Commanded
    <3>4. QED  BY <1>4, <1>7, <2>2, <3>1, <3>2, <3>3 DEF LastInv
  <2>3. QED  BY <2>1, <2>2
<1>9. QED  BY <1>1, <1>5, <1>6, <1>8, RepeatNobody

\* A run begins; it is a repetition only if everything is done for it.
LEMMA RepeatBegins ==
    ASSUME RunInv, DistroInv, RepeatInv, Begins
    PROVE  RepeatInv'
<1>1. PICK m, s : /\ Begin(m, s) /\ (m = "bootstrap" => s = Object)
                  /\ m \in {"bootstrap", "update", "event"}
  BY DEF Begins
<1>2. /\ run'.at = "" /\ run'.todo = Plugins(m, s) /\ run'.sel = s /\ run'.mode = m
      /\ run'.steps = <<>> /\ run'.changed = {} /\ run'.did = {} /\ run'.names = {}
      /\ run'.alone = (china.pc = "off")
      /\ run'.again = (m # "event" /\ last = [mode |-> m, sel |-> s])
      /\ last' = None /\ ~Running
      /\ UNCHANGED <<conf, disk, up, boot, pkgs, coredns, cached, china, applied, cut>>
  BY <1>1 DEF Begin, Idle, machine
<1>3. None.mode = "none" /\ "" \notin Plugin  BY Plugins12 DEF None
<1>4. Running'  BY <1>1, <1>2 DEF Running
<1>5. run'.again => /\ last.mode = m /\ last.sel = s /\ m \in Commanded /\ last # None
                    /\ china.pc = "off"
  <2>1. ASSUME m # "event", last = [mode |-> m, sel |-> s]
        PROVE  last.mode = m /\ last.sel = s /\ m \in Commanded /\ last # None
    <3>1. last.mode = m /\ last.sel = s  BY <2>1
    <3>2. m \in Commanded /\ m # "none"  BY <1>1, <2>1 DEF Commanded
    <3>3. last # None  BY <1>3, <3>1, <3>2
    <3>4. QED  BY <3>1, <3>2, <3>3
  <2>2. last # None => china.pc = "off"  BY DEF RepeatInv, AloneInv
  <2>3. QED  BY <1>2, <2>1, <2>2
<1>6. AloneInv'
  <2>1. run'.again => run'.alone /\ run'.mode \in Commanded  BY <1>2, <1>5
  <2>2. Commanded' = Commanded /\ Object' = Object  BY DEF Commanded, Object, Kinds
  <2>3. Current'  BY <1>2 DEF Current
  <2>4. QED  BY <1>1, <1>2, <1>3, <2>1, <2>2, <2>3 DEF AloneInv
<1>7. HandInv'  BY <1>2, <1>3, HandThen
<1>8. DoneInv'
  <2>1. Plugins(m, s) \ run'.todo = {}  BY <1>2
  <2>2. QED  BY <1>2, <2>1, DoneThen
<1>9. LastInv'
  <2>1. last'.mode = "none"  BY <1>2, <1>3
  <2>2. QED  BY <2>1 DEF LastInv, Commanded
<1>10. AgainInv'
  <2>1. ASSUME run'.again
        PROVE  /\ \A p \in Plugins(m, s) : Done(m, p, s)'
               /\ "network.core" \in Plugins(m, s) /\ "network.core" \notin cut' => Distro \cap up' = {}
    <3>1. m \in Commanded /\ \A p \in Plugins(m, s) : Done(m, p, s)
      BY <1>5, <2>1 DEF RepeatInv, LastInv
    <3>2. \A w : Fine(w) => Fine(w)'  BY <1>2, FineStays
    <3>3. \A p \in Plugins(m, s) : Done(m, p, s)'  BY <1>2, <3>1, <3>2, DoneStays
    <3>4. ASSUME "network.core" \in Plugins(m, s), "network.core" \notin cut'
          PROVE  Distro \cap up' = {}
      <4>1. "network" \in s  BY <1>1, <3>1, <3>4, TakePart
      <4>2. Kinds["network.core"] \cap s \subseteq applied  BY <3>1, <3>4 DEF Done
      <4>3. "network" \in applied  BY <4>1, <4>2, KindsAre
      <4>4. run.at # "network.core"
        <5>1. run = Idle  BY <1>2 DEF RunInv
        <5>2. QED  BY <5>1 DEF Idle
      <4>5. \A d \in Distro : d \notin up  BY <1>2, <3>4, <4>3, <4>4 DEF DistroInv
      <4>6. QED  BY <1>2, <4>5
    <3>5. QED  BY <3>3, <3>4
  <2>2. QED  BY <1>2, <2>1, AgainThen
<1>11. QED  BY <1>6, <1>7, <1>8, <1>9, <1>10 DEF RepeatInv

\* The China names updater disturbs the run it meets, and forgets the last one.
LEMMA RepeatChina ==
    ASSUME RunInv, RepeatInv,
           ChinaBegin \/ ChinaFetch \/ ChinaWrite \/ ChinaRestart \/ ChinaCut
    PROVE  RepeatInv'
<1>1. /\ UNCHANGED <<conf, coredns>>
      /\ run'.at = run.at /\ run'.steps = run.steps /\ run'.todo = run.todo
      /\ run'.mode = run.mode /\ run'.sel = run.sel
      /\ last' = None /\ ~run'.again /\ (Running => ~run'.alone)
  <2>1. CASE ChinaBegin
    <3>1. /\ UNCHANGED <<conf, coredns>> /\ last' = None
          /\ run' = IF Running THEN [run EXCEPT !.alone = FALSE, !.again = FALSE] ELSE run
      BY <2>1 DEF ChinaBegin, machine
    <3>2. CASE Running
      <4>1. /\ run'.at = run.at /\ run'.steps = run.steps /\ run'.todo = run.todo
            /\ run'.mode = run.mode /\ run'.sel = run.sel /\ run'.again = FALSE
            /\ run'.alone = FALSE
        BY <3>1, <3>2 DEF RunInv, Idle
      <4>2. QED  BY <3>1, <4>1
    <3>3. CASE ~Running
      <4>1. run = Idle /\ run' = run  BY <3>1, <3>3 DEF RunInv
      <4>2. ~run'.again  BY <4>1 DEF Idle
      <4>3. QED  BY <3>1, <3>3, <4>1, <4>2
    <3>4. QED  BY <3>2, <3>3
  <2>2. CASE ChinaFetch \/ ChinaWrite \/ ChinaRestart \/ ChinaCut
    <3>1. UNCHANGED <<conf, coredns, run, last>> /\ china.pc # "off"
      BY <2>2, FilesOf DEF ChinaFetch, ChinaWrite, ChinaRestart, ChinaCut, machine
    <3>2. last = None /\ ~(Running /\ run.alone)  BY <3>1 DEF RepeatInv, AloneInv
    <3>3. ~run.again
      <4>1. run.again => run.alone /\ run.mode \in Commanded  BY DEF RepeatInv, AloneInv
      <4>2. run.mode \in Commanded => Running  BY DEF Commanded, Running
      <4>3. QED  BY <3>2, <4>1, <4>2
    <3>4. QED  BY <3>1, <3>2, <3>3
  <2>3. QED  BY <2>1, <2>2
<1>2. PICK m, s : m = run.mode /\ s = run.sel  OBVIOUS
<1>3. Running' <=> Running  BY <1>1 DEF Running
<1>4. AloneInv'
  <2>1. None.mode = "none"  BY DEF None
  <2>2. Object' = Object  BY DEF Object, Kinds
  <2>3. QED  BY <1>1, <1>3, <2>1, <2>2 DEF RepeatInv, AloneInv
<1>5. HandInv'
  <2>1. CASE ~Running  BY <1>3, <2>1 DEF HandInv
  <2>2. CASE Running
    <3>1. /\ run.todo \subseteq Plugins(m, s)
          /\ run.at \in Plugin => /\ run.at \in Plugins(m, s) \ run.todo
                                  /\ Left \subseteq ToSet(Script(m, run.at, s))
      BY <1>2, <2>2 DEF RepeatInv, HandInv
    <3>2. Left' = Left  BY <1>1 DEF Left
    <3>3. QED  BY <1>1, <1>2, <3>1, <3>2, HandThen
  <2>3. QED  BY <2>1, <2>2
<1>6. DoneInv'  BY <1>1, <1>3 DEF DoneInv
<1>7. LastInv'
  <2>1. last'.mode = "none"  BY <1>1 DEF None
  <2>2. QED  BY <2>1 DEF LastInv, Commanded
<1>8. AgainInv'  BY <1>1 DEF AgainInv
<1>9. QED  BY <1>4, <1>5, <1>6, <1>7, <1>8 DEF RepeatInv

\* Rendering the names of the cache, and no step at all.
LEMMA RepeatRests ==
    ASSUME RunInv, RepeatInv, Render \/ UNCHANGED vars
    PROVE  RepeatInv'
<1>1. PICK m, s : m = run.mode /\ s = run.sel  OBVIOUS
<1>2. /\ UNCHANGED <<conf, disk, up, pkgs, coredns, cached, china, last, applied, cut>>
      /\ run'.names \in {run.names, {cached}}
      /\ run'.at = run.at /\ run'.steps = run.steps /\ run'.todo = run.todo
      /\ run'.mode = run.mode /\ run'.sel = run.sel /\ run'.alone = run.alone
      /\ run'.again = run.again /\ run'.did = run.did /\ run'.changed = run.changed
  <2>1. CASE UNCHANGED vars  BY <2>1 DEF vars, machine
  <2>2. CASE Render
    <3>1. UNCHANGED <<conf, disk, up, pkgs, coredns, cached, china, last, applied, cut>>
      BY <2>2 DEF Render, machine
    <3>2. run' = [run EXCEPT !.names = {cached}]  BY <2>2 DEF Render
    <3>3. QED  BY <3>1, <3>2 DEF RunInv, Idle
  <2>3. QED  BY <2>1, <2>2
<1>3. /\ \A m2, p, s2 : Script(m2, p, s2)' = Script(m2, p, s2)
      /\ \A m2, s2 : Plugins(m2, s2)' = Plugins(m2, s2)
  BY <1>2, ScriptsStay
<1>4. \A w : Fine(w) => Fine(w)'  BY <1>2, FineStays
<1>5. \A m2, p, s2 : Done(m2, p, s2) => Done(m2, p, s2)'  BY <1>2, <1>4, DoneStays
<1>6. Left' = Left /\ (Running' <=> Running)  BY <1>2 DEF Left, Running
<1>7. AloneInv'
  <2>1. Current => Current'  BY <1>2 DEF Current
  <2>2. QED  BY <1>2, <1>6, <2>1 DEF RepeatInv, AloneInv
<1>8. HandInv'
  <2>1. CASE ~Running  BY <1>6, <2>1 DEF HandInv
  <2>2. CASE Running
    <3>1. /\ run.todo \subseteq Plugins(m, s)
          /\ run.at \in Plugin => /\ run.at \in Plugins(m, s) \ run.todo
                                  /\ Left \subseteq ToSet(Script(m, run.at, s))
      BY <1>1, <2>2 DEF RepeatInv, HandInv
    <3>2. QED  BY <1>1, <1>2, <1>6, <3>1, HandThen
  <2>3. QED  BY <2>1, <2>2
<1>9. DoneInv'
  <2>1. CASE ~Running  BY <1>6, <2>1 DEF DoneInv
  <2>2. CASE Running
    <3>1. ASSUME run.alone, m \in Commanded, NEW p \in Plugins(m, s) \ run.todo
          PROVE  IF p = run.at THEN \A w \in ToSet(Script(m, p, s)) : w \in Left' \/ Fine(w)'
                               ELSE Done(m, p, s)'
      <4>1. IF p = run.at THEN \A w \in ToSet(Script(m, p, s)) : w \in Left \/ Fine(w)
                          ELSE Done(m, p, s)
        BY <1>1, <2>2, <3>1 DEF RepeatInv, DoneInv
      <4>2. QED  BY <1>4, <1>5, <1>6, <4>1
    <3>2. QED  BY <1>1, <1>2, <3>1, DoneThen
  <2>3. QED  BY <2>1, <2>2
<1>10. LastInv'
  <2>1. /\ \A p : Done(last.mode, p, last.sel) => Done(last.mode, p, last.sel)'
        /\ Plugins(last.mode, last.sel)' = Plugins(last.mode, last.sel)
    <3>1. PICK m2, s2 : m2 = last.mode /\ s2 = last.sel  OBVIOUS
    <3>2. m2 = last'.mode /\ s2 = last'.sel  BY <1>2, <3>1
    <3>3. \A p : Done(m2, p, s2)' <=> Done(last.mode, p, last.sel)'  BY <3>2
    <3>4. Plugins(m2, s2)' = Plugins(last.mode, last.sel)'  BY <3>2
    <3>5. QED  BY <1>3, <1>5, <3>1, <3>3, <3>4
  <2>2. QED  BY <1>2, <2>1 DEF RepeatInv, LastInv
<1>11. AgainInv'
  <2>1. ASSUME run.again
        PROVE  /\ \A p \in Plugins(m, s) : Done(m, p, s)'
               /\ "network.core" \in Plugins(m, s) /\ "network.core" \notin cut' => Distro \cap up' = {}
               /\ run'.steps # <<>> => /\ Head(run'.steps).if \cap (run'.changed \cup {"always"}) # {}
                                       /\ Head(run'.steps).op # "install"
               /\ run'.changed \subseteq IF LogFile THEN {"logrotate"} ELSE {}
               /\ cut' \cap {"network.core", "network.ipv6pd"} = {} =>
                     run'.did \subseteq IF LogFile THEN {"logrotate", "dnsmasq"} ELSE {}
    <3>1. /\ \A p \in Plugins(m, s) : Done(m, p, s)
          /\ "network.core" \in Plugins(m, s) /\ "network.core" \notin cut => Distro \cap up = {}
          /\ run.steps # <<>> => /\ Head(run.steps).if \cap (run.changed \cup {"always"}) # {}
                                 /\ Head(run.steps).op # "install"
          /\ run.changed \subseteq IF LogFile THEN {"logrotate"} ELSE {}
          /\ cut \cap {"network.core", "network.ipv6pd"} = {} =>
                run.did \subseteq IF LogFile THEN {"logrotate", "dnsmasq"} ELSE {}
      BY <1>1, <2>1 DEF RepeatInv, AgainInv, Hits, Now
    <3>2. QED  BY <1>2, <1>5, <3>1
  <2>2. QED  BY <1>1, <1>2, <2>1, AgainThen
<1>12. QED  BY <1>7, <1>8, <1>9, <1>10, <1>11 DEF RepeatInv

\* Every step of the system.
LEMMA RepeatStep ==
    ASSUME RunInv, MachineInv, ServeInv, RepeatInv, Next
    PROVE  RepeatInv'
<1>1. CASE Works  BY <1>1, RepeatWorks DEF ServeInv
<1>2. CASE NextPlugin  BY <1>2, RepeatNext DEF ServeInv
<1>3. CASE End  BY <1>3, RepeatEnds DEF ServeInv
<1>4. CASE Begins  BY <1>4, RepeatBegins DEF ServeInv
<1>5. CASE Cut \/ Edit \/ InstallCoredns
  <2>1. run' = Idle /\ last' = None
    <3>1. CASE Cut
      <4>1. Running /\ last' = last /\ run' = Idle  BY <3>1 DEF Cut
      <4>2. QED  BY <4>1 DEF ServeInv, SelInv
    <3>2. CASE Edit \/ InstallCoredns
      BY <3>2 DEF Edit, InstallCoredns, RunInv
    <3>3. QED  BY <1>5, <3>1, <3>2
  <2>2. last'.mode = "none"  BY <2>1 DEF None
  <2>3. LastInv'  BY <2>2 DEF LastInv, Commanded
  <2>4. QED  BY <2>1, <2>2, <2>3, RepeatNobody
<1>6. CASE ChinaBegin \/ ChinaFetch \/ ChinaWrite \/ ChinaRestart \/ ChinaCut
  BY <1>6, RepeatChina
<1>7. CASE Render  BY <1>7, RepeatRests
<1>8. QED  BY <1>1, <1>2, <1>3, <1>4, <1>5, <1>6, <1>7, Zenon DEF Next, Works

RepeatHold == part = "plugins" => RepeatInv

\* At every moment of every run: what is done already, and that a run which is
\* repeated finds everything done.
THEOREM RepeatInvariant == UpdateSpec => []RepeatHold
<1>1. PluginsInit \/ NetInit => RepeatHold
  <2>1. SUFFICES ASSUME Init PROVE RepeatInv
    BY DEF PluginsInit, NetInit, RepeatHold
  <2>2. run = Idle /\ last = None  BY <2>1 DEF Init
  <2>3. /\ run.mode = "idle" /\ ~run.again /\ ~run.alone /\ last.mode = "none"
    BY <2>2 DEF Idle, None
  <2>4. QED  BY <2>2, <2>3 DEF RepeatInv, AloneInv, HandInv, DoneInv, LastInv, AgainInv,
                              Running, Commanded
<1>2. /\ PluginHolds /\ ServeHold /\ RepeatHold
      /\ [OfPlugins(Next) \/ OfInterfaces(Net!Next)]_all
      => RepeatHold'
  <2>1. SUFFICES ASSUME PluginHolds, ServeHold, RepeatHold,
                        [OfPlugins(Next) \/ OfInterfaces(Net!Next)]_all
                 PROVE  RepeatHold'
    OBVIOUS
  <2>2. CASE UNCHANGED all \/ OfInterfaces(Net!Next)
    <3>1. UNCHANGED <<part, vars>>  BY <2>2 DEF all, OfInterfaces
    <3>2. part' = part /\ UNCHANGED vars  BY <3>1
    <3>3. QED  BY <2>1, <3>2, RepeatRests DEF RepeatHold, PluginHolds, PluginInv
  <2>3. CASE OfPlugins(Next)
    BY <2>1, <2>3, RepeatStep DEF OfPlugins, PluginHolds, PluginInv, ServeHold, RepeatHold
  <2>4. QED  BY <2>1, <2>2, <2>3
<1>3. QED  BY <1>1, <1>2, PluginsInvariant, ServeInvariant, PTL DEF UpdateSpec

\* A gw command that is given again, with nothing in between, writes, restarts and
\* installs nothing (docs/bootstrap.md, Output And Idempotence), but for the logrotate
\* file and dnsmasq when there is a DNS log.
THEOREM RepeatedRunsRest == UpdateSpec => []PluginRepeatChangesNothing
<1>1. RepeatHold => PluginRepeatChangesNothing
  BY DEF RepeatHold, RepeatInv, AgainInv, LogFile, PluginRepeatChangesNothing,
         RepeatChangesNothing
<1>2. QED  BY <1>1, RepeatInvariant, PTL

==============================================================================
