--------------------------- MODULE MCUpdate_proofs ---------------------------
(***************************************************************************)
(* Proofs about gw update: what it leaves of network interfaces in         *)
(* interfaces.d and in the kernel, for any interfaces, edits, runs,        *)
(* failures and kills; from which indexes the plugins' packages come, what *)
(* the files on disk hold, and how the plugins order their commands.       *)
(***************************************************************************)
EXTENDS MCUpdate, FunctionTheorems, FiniteSetTheorems, SequenceTheorems, WellFoundedInduction,
        TLAPS

-----------------------------------------------------------------------------
(* The interfaces: the inductive invariant.                                *)

EditedVersion == 0..sourceEdits
NetFiles == [name : Interfaces, number : 0..Cardinality(Interfaces), version : EditedVersion]

\* The values the variables take; the order is the sort of what was loaded.
NetShapes ==
    /\ defined \in SUBSET Interfaces /\ sourceEdits \in 0..MaxSourceEdits
    /\ source \in [Interfaces -> [fragment : EditedVersion, aux : EditedVersion]]
    /\ loaded.defined \in SUBSET Interfaces
    /\ loaded.source \in [Interfaces -> [fragment : EditedVersion, aux : EditedVersion]]
    /\ loaded.order = Net!Sort(loaded.defined, loaded.defined,
                           Net!DepsWithin(loaded.defined, {<<vlan, eth1>>})).ordered
    /\ files \subseteq NetFiles
    /\ aux \in [Interfaces -> EditedVersion] /\ nft \in [Interfaces -> EditedVersion]
    /\ firewall \in BOOLEAN /\ nftLive \in [Interfaces -> EditedVersion \cup {Net!NoRules}]
    /\ link \in [Interfaces -> [state : {"down", "half", "up"}, fragment : EditedVersion,
                                aux : EditedVersion]]
    /\ changed \in SUBSET {"file", "aux", "nft"} /\ faults \in 0..MaxFaults
    /\ updates \in 0..MaxUpdates
    /\ linkCut \subseteq Interfaces \X {"link", "nft"} /\ bounced \subseteq Interfaces

\* The loop: where it is, and what it has still to do.
LoopInv ==
    /\ pc \in {"idle", "aux", "nft", "rename", "prune", "write", "apply", "ifdown", "ifup",
               "reconcile", "firewall"}
    /\ selected \subseteq loaded.defined /\ work \subseteq selected
    /\ work = {} <=> pc = "idle"
    /\ outcome \in {"none", "ok", "failed"} /\ (pc # "idle" => outcome = "none")
    /\ pc \in {"idle", "aux"} => changed = {}
    /\ pc \in {"nft", "rename", "prune", "write"} => "file" \notin changed

\* Every interface has a fragment, and several only with the same content.
FragmentsAgree ==
    \A i \in Interfaces :
        /\ Net!FilesOf(i) # {}
        /\ \A f, g \in Net!FilesOf(i) : f.version = g.version

\* The link is up as the files on disk say.
Follows(i) ==
    \A f \in Net!FilesOf(i) : link[i] = [state |-> "up", fragment |-> f.version, aux |-> aux[i]]

\* It did before this iteration wrote what it has changed.
FollowsBut(i) ==
    /\ link[i].state = "up"
    /\ "file" \notin changed => \A f \in Net!FilesOf(i) : link[i].fragment = f.version
    /\ "aux" \notin changed => link[i].aux = aux[i]

\* Links follow the files, but for interfaces where a run was cut, vlans that were
\* bounced, and the one that is being updated.
LinkInv(i) ==
    <<i, "link">> \notin linkCut /\ i \notin bounced =>
        IF i \notin work \/ i # Net!Current \/ pc \in {"aux", "firewall"} THEN Follows(i)
        ELSE pc \notin {"ifdown", "ifup"} => FollowsBut(i)

\* The listen rules are loaded, once there is a firewall.
RulesLoaded ==
    firewall => \A i \in Interfaces : <<i, "nft">> \notin linkCut =>
        nftLive[i] = nft[i] \/ (i \in work /\ i = Net!Current /\ "nft" \in changed)

\* What the iteration of interface i has done at each place.
StageInv(i) ==
    /\ pc # "aux" => aux[i] = loaded.source[i].aux
    /\ pc = "prune" => \E f \in Net!FilesOf(i) : f.number = Net!Number(i)
    /\ pc = "write" => \A f \in Net!FilesOf(i) : f.number = Net!Number(i)
    /\ pc \in {"apply", "ifdown", "ifup", "reconcile", "firewall"} =>
          Net!FilesOf(i) = {Net!NewFragment(i)}
    /\ pc = "reconcile" => i = wg /\ "file" \notin changed
    /\ pc = "firewall" /\ i = wg => link[i].aux = aux[i]

\* What is left of the interfaces that an update has dealt with.
Dealt == IF pc # "idle" \/ outcome = "ok" THEN selected \ work ELSE {}
DealtInv ==
    \A i \in Dealt :
        /\ Net!FilesOf(i) = {Net!NewFragment(i)}
        /\ aux[i] = loaded.source[i].aux
        /\ i = wg => link[i].aux = aux[i]

NetInv ==
    /\ NetShapes /\ LoopInv /\ FragmentsAgree /\ (\A i \in Interfaces : LinkInv(i)) /\ RulesLoaded
    /\ work # {} => StageInv(Net!Current)
    /\ DealtInv

NetHolds == part = "interfaces" => NetInv

-----------------------------------------------------------------------------
(* The order, and the interface the loop is at.                            *)

\* The interfaces are counted the same way on both sides of the instance.
LEMMA SameCardinality == \A S : Net!Cardinality(S) = Cardinality(S)
BY DEF Net!Cardinality, Cardinality

\* A sequence of distinct names has at most as many places as there are names.
LEMMA PlacesOfNames ==
    ASSUME NEW names \in SUBSET Interfaces, NEW s \in Seq(names), IsInjective(s), ToSet(s) = names
    PROVE  \A i \in names :
              /\ \E n \in DOMAIN s : s[n] = i
              /\ \A n \in DOMAIN s : n \in 1..Cardinality(Interfaces)
<1>2. \A i \in names : \E n \in DOMAIN s : s[n] = i
    BY DEF ToSet
<1>3. Len(s) \in Nat /\ DOMAIN s = 1..Len(s) /\ s \in [1..Len(s) -> names]
    OBVIOUS
<1>4. IsFiniteSet(names) /\ Cardinality(names) <= Cardinality(Interfaces)
    BY SortAssumption, FS_Subset
<1>5. Len(s) <= Cardinality(names)
    <2>1. s \in Injection(1..Len(s), names)
        BY <1>3 DEF Injection
    <2> QED BY <2>1, <1>3, <1>4, FS_Injection, FS_Interval
<1>6. Cardinality(names) \in Nat /\ Cardinality(Interfaces) \in Nat
    BY <1>4, SortAssumption, FS_CardinalityType
<1> QED BY <1>2, <1>3, <1>4, <1>5, <1>6

\* The order of the interfaces loaded: each has a place, no two the same, and the vlan
\* comes after its ethernet.
LEMMA OrderIsSort ==
    ASSUME NetShapes
    PROVE  /\ loaded.order \in Seq(loaded.defined) /\ ToSet(loaded.order) = loaded.defined
           /\ IsInjective(loaded.order)
           /\ \A i, j \in DOMAIN loaded.order :
                 loaded.order[i] = eth1 /\ loaded.order[j] = vlan => i < j
<1> DEFINE Order(names) == Net!Sort(names, names, Net!DepsWithin(names, {<<vlan, eth1>>})).ordered
           Good(names, s) ==
              /\ s \in Seq(names) /\ ToSet(s) = names /\ IsInjective(s)
              /\ \A i, j \in DOMAIN s : s[i] = eth1 /\ s[j] = vlan => i < j
<1>1. \A names \in SUBSET Interfaces : Good(names, Order(names))
    BY SortAssumption, Zenon
<1>2. loaded.defined \in SUBSET Interfaces /\ loaded.order = Order(loaded.defined)
    BY Zenon DEF NetShapes
<1>3. Good(loaded.defined, loaded.order)
    <2> HIDE DEF Good, Order
    <2> QED BY <1>1, <1>2
<1> QED BY <1>3, Zenon

LEMMA Numbered ==
    ASSUME NetShapes, NEW i \in loaded.defined
    PROVE  /\ Net!Number(i) \in DOMAIN loaded.order /\ loaded.order[Net!Number(i)] = i
           /\ Net!Number(i) \in 1..Cardinality(Interfaces)
<1>1. loaded.defined \in SUBSET Interfaces
    BY Zenon DEF NetShapes
<1>2. PICK s : s = loaded.order
    OBVIOUS
<1>3. s \in Seq(loaded.defined) /\ ToSet(s) = loaded.defined /\ IsInjective(s)
    BY <1>2, OrderIsSort, Zenon
<1>4. /\ \E n \in DOMAIN s : s[n] = i
      /\ \A n \in DOMAIN s : n \in 1..Cardinality(Interfaces)
    BY <1>1, <1>3, PlacesOfNames, Zenon
<1> QED BY <1>2, <1>4 DEF Net!Number

\* As long as something is left, the loop is at one of what is left.
LEMMA CurrentIsLeft ==
    ASSUME NetShapes, LoopInv, work # {}
    PROVE  Net!Current \in work
<1> DEFINE R == OpToRel(<, Nat)
           T == {Net!Number(i) : i \in work}
<1>1. \A i \in work : Net!Number(i) \in Nat
    BY Numbered DEF LoopInv
<1>2. T \in SUBSET Nat /\ T # {}
    BY <1>1
<1>3. \E n \in T : \A m \in T : n <= m
    <2> HIDE DEF T
    <2>1. PICK n \in T : \A m \in T : ~ (<<m, n>> \in R)
        <3> HIDE DEF R
        <3>1. IsWellFoundedOn(R, Nat)
            BY NatLessThanWellFounded DEF R
        <3> QED BY <3>1, <1>2, WFMin, Zenon
    <2>2. \A m \in T : ~ (m < n)
        BY <2>1, <1>2 DEF OpToRel
    <2> QED BY <2>2, <1>2
<1>4. \E i \in work : \A j \in work : Net!Number(i) <= Net!Number(j)
    BY <1>3
<1> QED BY <1>4 DEF Net!Current

\* A step that leaves the loop where it is keeps the interface it is at.
LEMMA SameCurrent ==
    ASSUME work' = work, loaded' = loaded
    PROVE  /\ Net!Current' = Net!Current
           /\ \A i : /\ Net!Number(i)' = Net!Number(i)
                     /\ Net!NewFragment(i)' = Net!NewFragment(i)
BY DEF Net!Current, Net!Number, Net!NewFragment, Net!Source

-----------------------------------------------------------------------------
(* The steps.                                                              *)

LEMMA WriteAuxKeeps ==
    ASSUME NetInv, Net!WriteAux
    PROVE  NetInv'
<1> USE DEF NetInv, Net!WriteAux, Net!GoOn, Net!config, Net!kernel
<1>1. PICK c : c = Net!Current
    OBVIOUS
<1>2. /\ c \in work /\ Net!Current' = c
      /\ \A i : Net!Number(i)' = Net!Number(i) /\ Net!NewFragment(i)' = Net!NewFragment(i)
    BY <1>1, CurrentIsLeft, SameCurrent DEF LoopInv
<1>3. c \in Interfaces
    BY <1>2 DEF LoopInv, NetShapes
<1>4. \A i : Net!FilesOf(i)' = Net!FilesOf(i)
    BY DEF Net!FilesOf
<1>5. NetShapes'
    BY <1>1, <1>2, <1>3, <1>4 DEF NetShapes, EditedVersion, NetFiles, Net!Source
<1>6. LoopInv'
    BY DEF LoopInv
<1>7. FragmentsAgree'
    BY <1>1, <1>2, <1>3, <1>4 DEF FragmentsAgree, StageInv
<1>8. ASSUME NEW i \in Interfaces PROVE LinkInv(i)'
    <2>1. CASE i = c
        BY <2>1, <1>1, <1>2, <1>3, <1>4
           DEF LinkInv, Follows, FollowsBut, LoopInv, StageInv, FragmentsAgree, NetShapes
    <2>2. CASE i # c
        BY <2>2, <1>1, <1>2, <1>3, <1>4 DEF LinkInv, Follows, NetShapes
    <2> QED BY <2>1, <2>2
<1>9. RulesLoaded'
    BY <1>1, <1>2, <1>3 DEF RulesLoaded, LoopInv, NetShapes
<1>10. StageInv(Net!Current)'
    BY <1>1, <1>2, <1>3, <1>4 DEF StageInv, FragmentsAgree, Net!Source, NetShapes
<1>11. DealtInv'
    BY <1>1, <1>2, <1>3, <1>4 DEF DealtInv, Dealt, LoopInv, NetShapes
<1> QED BY <1>5, <1>6, <1>7, <1>8, <1>9, <1>10, <1>11

LEMMA WriteNftKeeps ==
    ASSUME NetInv, Net!WriteNft
    PROVE  NetInv'
<1> USE DEF NetInv, Net!WriteNft, Net!GoOn, Net!config, Net!kernel
<1>1. PICK c : c = Net!Current
    OBVIOUS
<1>2. /\ c \in work /\ Net!Current' = c
      /\ \A i : Net!Number(i)' = Net!Number(i) /\ Net!NewFragment(i)' = Net!NewFragment(i)
    BY <1>1, CurrentIsLeft, SameCurrent DEF LoopInv
<1>3. c \in Interfaces
    BY <1>2 DEF LoopInv, NetShapes
<1>4. \A i : Net!FilesOf(i)' = Net!FilesOf(i)
    BY DEF Net!FilesOf
<1>5. NetShapes'
    BY <1>1, <1>2, <1>3, <1>4 DEF NetShapes, EditedVersion, NetFiles, Net!Source
<1>6. LoopInv'
    BY DEF LoopInv
<1>7. FragmentsAgree'
    BY <1>1, <1>2, <1>3, <1>4 DEF FragmentsAgree, StageInv
<1>8. ASSUME NEW i \in Interfaces PROVE LinkInv(i)'
    <2>1. CASE i = c
        BY <2>1, <1>1, <1>2, <1>3, <1>4
           DEF LinkInv, Follows, FollowsBut, LoopInv, StageInv, FragmentsAgree, NetShapes
    <2>2. CASE i # c
        BY <2>2, <1>1, <1>2, <1>3, <1>4 DEF LinkInv, Follows, NetShapes
    <2> QED BY <2>1, <2>2
<1>9. RulesLoaded'
    BY <1>1, <1>2, <1>3 DEF RulesLoaded, LoopInv, NetShapes
<1>10. StageInv(Net!Current)'
    BY <1>1, <1>2, <1>3, <1>4 DEF StageInv, FragmentsAgree, Net!Source, NetShapes
<1>11. DealtInv'
    BY <1>1, <1>2, <1>3, <1>4 DEF DealtInv, Dealt, LoopInv, NetShapes
<1> QED BY <1>5, <1>6, <1>7, <1>8, <1>9, <1>10, <1>11

LEMMA MigrateRenameKeeps ==
    ASSUME NetInv, Net!MigrateRename
    PROVE  NetInv'
<1> USE DEF NetInv, Net!MigrateRename, Net!GoOn, Net!config, Net!kernel
<1>1. PICK c : c = Net!Current
    OBVIOUS
<1>2. /\ c \in work /\ Net!Current' = c
      /\ \A i : Net!Number(i)' = Net!Number(i) /\ Net!NewFragment(i)' = Net!NewFragment(i)
    BY <1>1, CurrentIsLeft, SameCurrent DEF LoopInv
<1>3. c \in Interfaces
    BY <1>2 DEF LoopInv, NetShapes
<1>4. /\ \A i : i # c => Net!FilesOf(i)' = Net!FilesOf(i)
      /\ Net!FilesOf(c)' # {}
      /\ \A f \in Net!FilesOf(c)' : \E g \in Net!FilesOf(c) : f.version = g.version
      /\ \E f \in Net!FilesOf(c)' : f.number = Net!Number(c)
      /\ files' \subseteq NetFiles
    <2>1. CASE \E f \in Net!FilesOf(c) : f.number = Net!Number(c)
        BY <2>1, <1>1, <1>3 DEF Net!FilesOf, NetShapes, NetFiles, EditedVersion
    <2>2. CASE ~ (\E f \in Net!FilesOf(c) : f.number = Net!Number(c))
        <3>1. PICK f \in Net!FilesOf(c) :
                  files' = (files \ {f}) \cup {[f EXCEPT !.number = Net!Number(c)]}
            BY <2>2, <1>1, <1>3 DEF FragmentsAgree
        <3>2. PICK g : g = [f EXCEPT !.number = Net!Number(c)]
            OBVIOUS
        <3>3. f \in NetFiles /\ f \in files /\ f.name = c
            BY <3>1 DEF Net!FilesOf, NetShapes
        <3>4. Net!Number(c) \in 0..Cardinality(Interfaces)
            BY <1>2, Numbered DEF LoopInv
        <3>5. g \in NetFiles /\ g.name = c /\ g.version = f.version /\ g.number = Net!Number(c)
            BY <3>2, <3>3, <3>4 DEF NetFiles
        <3>6. files' = (files \ {f}) \cup {g}
            BY <3>1, <3>2
        <3> QED BY <3>3, <3>5, <3>6 DEF Net!FilesOf, NetShapes, NetFiles, EditedVersion
    <2> QED BY <2>1, <2>2
<1>5. NetShapes'
    BY <1>1, <1>2, <1>3, <1>4 DEF NetShapes, EditedVersion, NetFiles, Net!Source
<1>6. LoopInv'
    BY DEF LoopInv
<1>7. FragmentsAgree'
    BY <1>1, <1>2, <1>3, <1>4 DEF FragmentsAgree, StageInv
<1>8. ASSUME NEW i \in Interfaces PROVE LinkInv(i)'
    <2>1. CASE i = c
        BY <2>1, <1>1, <1>2, <1>3, <1>4
           DEF LinkInv, Follows, FollowsBut, LoopInv, StageInv, FragmentsAgree, NetShapes
    <2>2. CASE i # c
        BY <2>2, <1>1, <1>2, <1>3, <1>4 DEF LinkInv, Follows, NetShapes
    <2> QED BY <2>1, <2>2
<1>9. RulesLoaded'
    BY <1>1, <1>2, <1>3 DEF RulesLoaded, LoopInv, NetShapes
<1>10. StageInv(Net!Current)'
    BY <1>1, <1>2, <1>3, <1>4 DEF StageInv, FragmentsAgree, Net!Source, NetShapes
<1>11. DealtInv'
    BY <1>1, <1>2, <1>3, <1>4 DEF DealtInv, Dealt, LoopInv, NetShapes
<1> QED BY <1>5, <1>6, <1>7, <1>8, <1>9, <1>10, <1>11

LEMMA MigrateDeleteKeeps ==
    ASSUME NetInv, Net!MigrateDelete
    PROVE  NetInv'
<1> USE DEF NetInv, Net!MigrateDelete, Net!GoOn, Net!config, Net!kernel
<1>1. PICK c : c = Net!Current
    OBVIOUS
<1>2. /\ c \in work /\ Net!Current' = c
      /\ \A i : Net!Number(i)' = Net!Number(i) /\ Net!NewFragment(i)' = Net!NewFragment(i)
    BY <1>1, CurrentIsLeft, SameCurrent DEF LoopInv
<1>3. c \in Interfaces
    BY <1>2 DEF LoopInv, NetShapes
<1>4. /\ \A i : i # c => Net!FilesOf(i)' = Net!FilesOf(i)
      /\ Net!FilesOf(c)' \subseteq Net!FilesOf(c)
      /\ \E f \in Net!FilesOf(c)' : f.number = Net!Number(c)
      /\ pc' = "write" => \A f \in Net!FilesOf(c)' : f.number = Net!Number(c)
    <2>1. PICK g \in Net!FilesOf(c) : g.number = Net!Number(c)
        BY <1>1, <1>2 DEF StageInv
    <2>2. CASE \A f \in Net!FilesOf(c) : f.number = Net!Number(c)
        BY <2>1, <2>2, <1>1 DEF Net!FilesOf
    <2>3. CASE ~ (\A f \in Net!FilesOf(c) : f.number = Net!Number(c))
        <3>1. PICK f \in Net!FilesOf(c) :
                  f.number # Net!Number(c) /\ files' = files \ {f} /\ pc' = "prune"
            BY <2>3, <1>1
        <3> QED BY <2>1, <3>1 DEF Net!FilesOf
    <2> QED BY <2>2, <2>3
<1>5. NetShapes'
    BY <1>1, <1>2, <1>3, <1>4 DEF NetShapes, EditedVersion, NetFiles, Net!Source
<1>6. LoopInv'
    BY DEF LoopInv
<1>7. FragmentsAgree'
    BY <1>1, <1>2, <1>3, <1>4 DEF FragmentsAgree, StageInv
<1>8. ASSUME NEW i \in Interfaces PROVE LinkInv(i)'
    <2>1. CASE i = c
        BY <2>1, <1>1, <1>2, <1>3, <1>4
           DEF LinkInv, Follows, FollowsBut, LoopInv, StageInv, FragmentsAgree, NetShapes
    <2>2. CASE i # c
        BY <2>2, <1>1, <1>2, <1>3, <1>4 DEF LinkInv, Follows, NetShapes
    <2> QED BY <2>1, <2>2
<1>9. RulesLoaded'
    BY <1>1, <1>2, <1>3 DEF RulesLoaded, LoopInv, NetShapes
<1>10. StageInv(Net!Current)'
    BY <1>1, <1>2, <1>3, <1>4 DEF StageInv, FragmentsAgree, Net!Source, NetShapes
<1>11. DealtInv'
    BY <1>1, <1>2, <1>3, <1>4 DEF DealtInv, Dealt, LoopInv, NetShapes
<1> QED BY <1>5, <1>6, <1>7, <1>8, <1>9, <1>10, <1>11

LEMMA WriteFragmentKeeps ==
    ASSUME NetInv, Net!WriteFragment
    PROVE  NetInv'
<1> USE DEF NetInv, Net!WriteFragment, Net!GoOn, Net!config, Net!kernel
<1>1. PICK c : c = Net!Current
    OBVIOUS
<1>2. /\ c \in work /\ Net!Current' = c
      /\ \A i : Net!Number(i)' = Net!Number(i) /\ Net!NewFragment(i)' = Net!NewFragment(i)
    BY <1>1, CurrentIsLeft, SameCurrent DEF LoopInv
<1>3. c \in Interfaces
    BY <1>2 DEF LoopInv, NetShapes
<1>4. /\ \A i : i # c => Net!FilesOf(i)' = Net!FilesOf(i)
      /\ Net!FilesOf(c)' = {Net!NewFragment(c)}
      /\ "file" \notin changed' => Net!FilesOf(c)' = Net!FilesOf(c)
      /\ "aux" \notin changed' => "aux" \notin changed
      /\ files' \subseteq NetFiles
    <2>1. Net!NewFragment(c).name = c
        BY DEF Net!NewFragment
    <2>2. Net!Number(c) \in 0..Cardinality(Interfaces)
        BY <1>2, Numbered DEF LoopInv
    <2>3. Net!NewFragment(c) \in NetFiles
        BY <1>3, <2>2 DEF Net!NewFragment, Net!Source, NetFiles, NetShapes
    <2>4. \A f \in Net!FilesOf(c) : f.number = Net!Number(c)
        BY <1>1, <1>2 DEF StageInv
    <2>5. files' = {f \in files : f.name # c \/ f.number # Net!Number(c)} \cup {Net!NewFragment(c)}
        BY <1>1
    <2>6. files' \subseteq NetFiles
        BY <2>3, <2>5 DEF NetShapes, NetFiles, EditedVersion
    <2>7. "file" \notin changed' => files' = files
        OBVIOUS
    <2> HIDE DEF Net!WriteFragment
    <2>8. (\A i : i # c => Net!FilesOf(i)' = Net!FilesOf(i)) /\ Net!FilesOf(c)' = {Net!NewFragment(c)}
        BY <2>1, <2>4, <2>5 DEF Net!FilesOf
    <2>9. "aux" \notin changed' => "aux" \notin changed
        BY DEF Net!WriteFragment
    <2> QED BY <2>6, <2>7, <2>8, <2>9 DEF Net!FilesOf
<1>5. NetShapes'
    BY <1>1, <1>2, <1>3, <1>4 DEF NetShapes, EditedVersion, NetFiles, Net!Source
<1>6. LoopInv'
    BY DEF LoopInv
<1>7. FragmentsAgree'
    BY <1>1, <1>2, <1>3, <1>4 DEF FragmentsAgree, StageInv
<1>8. ASSUME NEW i \in Interfaces PROVE LinkInv(i)'
    <2>1. CASE i = c
        BY <2>1, <1>1, <1>2, <1>3, <1>4
           DEF LinkInv, Follows, FollowsBut, LoopInv, StageInv, FragmentsAgree, NetShapes
    <2>2. CASE i # c
        BY <2>2, <1>1, <1>2, <1>3, <1>4 DEF LinkInv, Follows, NetShapes
    <2> QED BY <2>1, <2>2
<1>9. RulesLoaded'
    BY <1>1, <1>2, <1>3 DEF RulesLoaded, LoopInv, NetShapes
<1>10. StageInv(Net!Current)'
    BY <1>1, <1>2, <1>3, <1>4 DEF StageInv, FragmentsAgree, Net!Source, NetShapes
<1>11. DealtInv'
    BY <1>1, <1>2, <1>3, <1>4 DEF DealtInv, Dealt, LoopInv, NetShapes
<1> QED BY <1>5, <1>6, <1>7, <1>8, <1>9, <1>10, <1>11

LEMMA ChooseApplyKeeps ==
    ASSUME NetInv, Net!ChooseApply
    PROVE  NetInv'
<1> USE DEF NetInv, Net!ChooseApply, Net!GoOn, Net!AfterWrite, Net!config, Net!disk, Net!kernel
<1>1. PICK c : c = Net!Current
    OBVIOUS
<1>2. /\ c \in work /\ Net!Current' = c
      /\ \A i : Net!Number(i)' = Net!Number(i) /\ Net!NewFragment(i)' = Net!NewFragment(i)
    BY <1>1, CurrentIsLeft, SameCurrent DEF LoopInv
<1>3. c \in Interfaces
    BY <1>2 DEF LoopInv, NetShapes
<1>4. \A i : Net!FilesOf(i)' = Net!FilesOf(i)
    BY DEF Net!FilesOf
<1>5. NetShapes'
    BY <1>1, <1>2, <1>3, <1>4 DEF NetShapes, EditedVersion, NetFiles, Net!Source
<1>6. LoopInv'
    BY DEF LoopInv
<1>7. FragmentsAgree'
    BY <1>1, <1>2, <1>3, <1>4 DEF FragmentsAgree, StageInv
<1>8. ASSUME NEW i \in Interfaces PROVE LinkInv(i)'
    <2>1. CASE i = c
        BY <2>1, <1>1, <1>2, <1>3, <1>4
           DEF LinkInv, Follows, FollowsBut, LoopInv, StageInv, FragmentsAgree, NetShapes
    <2>2. CASE i # c
        BY <2>2, <1>1, <1>2, <1>3, <1>4 DEF LinkInv, Follows, NetShapes
    <2> QED BY <2>1, <2>2
<1>9. RulesLoaded'
    BY <1>1, <1>2, <1>3 DEF RulesLoaded, LoopInv, NetShapes
<1>10. StageInv(Net!Current)'
    BY <1>1, <1>2, <1>3, <1>4 DEF StageInv, FragmentsAgree, Net!Source, NetShapes
<1>11. DealtInv'
    BY <1>1, <1>2, <1>3, <1>4 DEF DealtInv, Dealt, LoopInv, NetShapes
<1> QED BY <1>5, <1>6, <1>7, <1>8, <1>9, <1>10, <1>11

LEMMA IfdownKeeps ==
    ASSUME NetInv, Net!Ifdown
    PROVE  NetInv'
<1> USE DEF NetInv, Net!Ifdown, Net!GoOn, Net!Fault, Net!config, Net!disk
<1>1. PICK c : c = Net!Current
    OBVIOUS
<1>2. /\ c \in work /\ Net!Current' = c
      /\ \A i : Net!Number(i)' = Net!Number(i) /\ Net!NewFragment(i)' = Net!NewFragment(i)
    BY <1>1, CurrentIsLeft, SameCurrent DEF LoopInv
<1>3. c \in Interfaces
    BY <1>2 DEF LoopInv, NetShapes
<1>4. /\ \A i : Net!FilesOf(i)' = Net!FilesOf(i)
      /\ link' \in [Interfaces -> [state : {"down", "half", "up"}, fragment : EditedVersion,
                                  aux : EditedVersion]]
      /\ \A i \in Interfaces : link'[i].aux = link[i].aux
      /\ \A i \in Interfaces : i \notin bounced' /\ i # c => link'[i] = link[i]
    <2>1. PICK down : down = {c} \cup Net!OnTop(c)
        OBVIOUS
    <2>2. \/ link' = link
          \/ /\ link' = [j \in Interfaces |-> IF j \in down THEN [link[j] EXCEPT !.state = "down"]
                                                         ELSE link[j]]
             /\ down \subseteq bounced' \cup {c}
        BY <1>1, <2>1
    <2>3. \A j \in Interfaces :
              /\ [link[j] EXCEPT !.state = "down"] \in
                     [state : {"down", "half", "up"}, fragment : EditedVersion, aux : EditedVersion]
              /\ [link[j] EXCEPT !.state = "down"].aux = link[j].aux
        BY DEF NetShapes
    <2>4. \A i : Net!FilesOf(i)' = Net!FilesOf(i)
        BY DEF Net!FilesOf
    <2>5. CASE link' = link
        BY <2>4, <2>5 DEF NetShapes
    <2>6. CASE link' # link
        <3> HIDE DEF Net!Ifdown
        <3> USE DEF NetShapes
        <3>1. link' \in [Interfaces -> [state : {"down", "half", "up"}, fragment : EditedVersion,
                                        aux : EditedVersion]]
            BY <2>2, <2>3, <2>6
        <3>2. \A i \in Interfaces : link'[i].aux = link[i].aux
            BY <2>2, <2>3, <2>6
        <3>3. \A i \in Interfaces : i \notin bounced' /\ i # c => link'[i] = link[i]
            BY <2>2, <2>6
        <3> QED BY <3>1, <3>2, <3>3, <2>4
    <2> QED BY <2>5, <2>6
<1>5. NetShapes'
    <2>1. bounced' \subseteq Interfaces
        BY <1>1, SortAssumption DEF Net!OnTop, Gateway, NetShapes
    <2>2. faults' \in 0..MaxFaults
        BY UpdateBoundsAssumption DEF NetShapes
    <2>3. link' \in [Interfaces -> [state : {"down", "half", "up"}, fragment : EditedVersion,
                                    aux : EditedVersion]]
        BY <1>4
    <2> QED BY <2>1, <2>2, <2>3 DEF NetShapes, EditedVersion, NetFiles
<1>6. LoopInv'
    BY DEF LoopInv
<1>7. FragmentsAgree'
    BY <1>1, <1>2, <1>3, <1>4 DEF FragmentsAgree, StageInv
<1>8. ASSUME NEW i \in Interfaces PROVE LinkInv(i)'
    <2>1. CASE i = c
        BY <2>1, <1>1, <1>2, <1>3, <1>4
           DEF LinkInv, Follows, FollowsBut, LoopInv, StageInv, FragmentsAgree, NetShapes
    <2>2. CASE i # c
        BY <2>2, <1>1, <1>2, <1>3, <1>4 DEF LinkInv, Follows, NetShapes
    <2> QED BY <2>1, <2>2
<1>9. RulesLoaded'
    BY <1>1, <1>2, <1>3 DEF RulesLoaded, LoopInv, NetShapes
<1>10. StageInv(Net!Current)'
    BY <1>1, <1>2, <1>3, <1>4 DEF StageInv, FragmentsAgree, Net!Source, NetShapes
<1>11. DealtInv'
    BY <1>1, <1>2, <1>3, <1>4 DEF DealtInv, Dealt, LoopInv, NetShapes
<1> QED BY <1>5, <1>6, <1>7, <1>8, <1>9, <1>10, <1>11

\* The run ends at the interface the loop is at, which is on record from then on.
LEMMA AbortKeeps ==
    ASSUME NetInv, work # {}, Net!Abort, UNCHANGED <<Net!config, Net!disk, updates, firewall, nftLive, bounced>>,
           faults' \in 0..MaxFaults,
           link' \in [Interfaces -> [state : {"down", "half", "up"}, fragment : EditedVersion,
                                     aux : EditedVersion]],
           \A i \in Interfaces \ {Net!Current} : link'[i] = link[i]
    PROVE  NetInv'
<1> USE DEF NetInv, Net!Abort, Net!config, Net!disk
<1>1. PICK c : c = Net!Current
    OBVIOUS
<1>2. c \in work
    BY <1>1, CurrentIsLeft
<1>3. c \in Interfaces
    BY <1>2 DEF LoopInv, NetShapes
<1>4. \A i : Net!FilesOf(i)' = Net!FilesOf(i)
    BY DEF Net!FilesOf
<1>5. NetShapes'
    BY <1>1, <1>3 DEF NetShapes, EditedVersion, NetFiles
<1>6. LoopInv'
    BY DEF LoopInv
<1>7. FragmentsAgree'
    BY <1>4 DEF FragmentsAgree
<1>8. ASSUME NEW i \in Interfaces PROVE LinkInv(i)'
    BY <1>1, <1>2, <1>4 DEF LinkInv, Follows
<1>9. RulesLoaded'
    BY <1>1 DEF RulesLoaded
<1>10. DealtInv'
    BY DEF DealtInv, Dealt
<1> QED BY <1>5, <1>6, <1>7, <1>8, <1>9, <1>10

LEMMA KillKeeps ==
    ASSUME NetInv, Net!Kill
    PROVE  NetInv'
<1>1. work # {} /\ faults' \in 0..MaxFaults
    BY UpdateBoundsAssumption DEF NetInv, NetShapes, LoopInv, Net!Kill, Net!Fault
<1>2. /\ Net!Abort /\ UNCHANGED <<Net!config, Net!disk, updates, firewall, nftLive, bounced>> /\ link' = link
    BY DEF Net!Kill, Net!kernel
<1> QED BY <1>1, <1>2, AbortKeeps DEF NetInv, NetShapes, Net!config, EditedVersion

\* The loop goes on to the next interface, once the rules on disk are loaded.
LEMMA NextInterfaceKeeps ==
    ASSUME NetInv, pc = "firewall", Net!NextInterface,
           UNCHANGED <<Net!config, Net!disk, firewall, link, faults, updates, bounced>>,
           nftLive' \in [Interfaces -> EditedVersion \cup {Net!NoRules}],
           linkCut' \subseteq linkCut,
           \A i \in Interfaces : <<i, "link">> \in linkCut => <<i, "link">> \in linkCut',
           firewall => \A i \in Interfaces : <<i, "nft">> \notin linkCut' => nftLive'[i] = nft[i]
    PROVE  NetInv'
<1> USE DEF NetInv, Net!NextInterface, Net!config, Net!disk
<1>1. PICK c : c = Net!Current
    OBVIOUS
<1>2. c \in work
    BY <1>1, CurrentIsLeft DEF LoopInv
<1>3. c \in Interfaces
    BY <1>2 DEF LoopInv, NetShapes
<1>4. \A i : /\ Net!FilesOf(i)' = Net!FilesOf(i)
             /\ Net!Number(i)' = Net!Number(i) /\ Net!NewFragment(i)' = Net!NewFragment(i)
    BY DEF Net!FilesOf, Net!Number, Net!NewFragment, Net!Source
<1>5. NetShapes'
    BY DEF NetShapes, EditedVersion, NetFiles
<1>6. LoopInv'
    BY <1>1, <1>2 DEF LoopInv
<1>7. FragmentsAgree'
    BY <1>4 DEF FragmentsAgree
<1>8. ASSUME NEW i \in Interfaces PROVE LinkInv(i)'
    <2>1. <<i, "link">> \notin linkCut' /\ i \notin bounced' => Follows(i)
        BY DEF LinkInv
    <2>2. pc' # "idle" => pc' = "aux"
        OBVIOUS
    <2>3. pc' = "idle" => i \notin work'
        BY <1>6 DEF LoopInv
    <2>4. Follows(i)' = Follows(i)
        BY <1>4 DEF Follows
    <2> QED BY <2>1, <2>2, <2>3, <2>4 DEF LinkInv
<1>9. RulesLoaded'
    BY DEF RulesLoaded
<1>10. work' # {} => StageInv(Net!Current)'
    <2>1. work' # {} => pc' = "aux"
        BY <1>6 DEF LoopInv
    <2> QED BY <2>1 DEF StageInv
<1>11. DealtInv'
    <2>1. \A i \in Dealt' : i \in Dealt \/ i = c
        BY <1>1 DEF Dealt, LoopInv
    <2> QED BY <2>1, <1>1, <1>2, <1>4 DEF DealtInv, StageInv
<1> QED BY <1>5, <1>6, <1>7, <1>8, <1>9, <1>10, <1>11

LEMMA LoadFirewallKeeps ==
    ASSUME NetInv, Net!LoadFirewall
    PROVE  NetInv'
<1> USE DEF Net!LoadFirewall
<1>1. work # {} /\ pc = "firewall"
    BY DEF NetInv, LoopInv
<1>2. CASE /\ "nft" \in changed /\ firewall /\ nftLive' = nft /\ linkCut' = {x \in linkCut : x[2] # "nft"}
           /\ Net!NextInterface /\ UNCHANGED faults
    <2>1. /\ linkCut' = {x \in linkCut : x[2] # "nft"}
          /\ Net!NextInterface /\ UNCHANGED <<Net!config, Net!disk, firewall, link, faults, updates, bounced>>
        BY <1>2
    <2>2. nftLive' \in [Interfaces -> EditedVersion \cup {Net!NoRules}]
        BY <1>2 DEF NetInv, NetShapes
    <2> QED BY <1>1, <1>2, <2>1, <2>2, NextInterfaceKeeps
<1>3. CASE ~("nft" \in changed /\ firewall)
    <2>1. /\ Net!NextInterface
          /\ UNCHANGED <<Net!config, Net!disk, firewall, link, faults, updates, bounced, nftLive, linkCut>>
        BY <1>3
    <2> QED BY <1>1, <1>3, <2>1, NextInterfaceKeeps DEF NetInv, NetShapes, RulesLoaded
<1>4. CASE "nft" \in changed /\ firewall /\ nftLive' = nftLive /\ Net!Fault /\ Net!Abort
    <2>1. faults' \in 0..MaxFaults
        BY <1>4, UpdateBoundsAssumption DEF NetInv, NetShapes, Net!Fault
    <2>2. UNCHANGED <<Net!config, Net!disk, updates, firewall, nftLive, bounced, link>>
        BY <1>4
    <2> QED BY <1>1, <1>4, <2>1, <2>2, AbortKeeps DEF NetInv, NetShapes
<1> QED BY <1>2, <1>3, <1>4

\* ifup brings up the interface the loop is at and perhaps its parents, or fails.
LEMMA IfupKeeps ==
    ASSUME NetInv, Net!Ifup, pc = "ifup" \/ (pc = "reconcile" /\ "file" \notin changed),
           UNCHANGED <<Net!config, Net!disk, firewall, nftLive, updates>>
    PROVE  NetInv'
<1> USE DEF NetInv, Net!config, Net!disk
<1>1. PICK c : c = Net!Current
    OBVIOUS
<1>2. c \in work /\ work # {}
    BY <1>1, CurrentIsLeft DEF LoopInv
<1>3. c \in Interfaces
    BY <1>2 DEF LoopInv, NetShapes
<1>4. \A i \in Interfaces :
          /\ Net!AsOnDisk(i) \in [state : {"down", "half", "up"}, fragment : EditedVersion,
                                  aux : EditedVersion]
          /\ \A f \in Net!FilesOf(i) :
                Net!AsOnDisk(i) = [state |-> "up", fragment |-> f.version, aux |-> aux[i]]
          /\ Net!AsOnDisk(i).aux = aux[i]
    <2> SUFFICES ASSUME NEW i \in Interfaces
                 PROVE  /\ Net!AsOnDisk(i) \in [state : {"down", "half", "up"}, fragment : EditedVersion,
                                                aux : EditedVersion]
                        /\ \A f \in Net!FilesOf(i) :
                              Net!AsOnDisk(i) = [state |-> "up", fragment |-> f.version, aux |-> aux[i]]
                        /\ Net!AsOnDisk(i).aux = aux[i]
        OBVIOUS
    <2>1. PICK g : g = CHOOSE f \in Net!FilesOf(i) : TRUE
        OBVIOUS
    <2>2. g \in Net!FilesOf(i) /\ \A f \in Net!FilesOf(i) : g.version = f.version
        BY <2>1 DEF FragmentsAgree
    <2>3. g.version \in EditedVersion /\ aux[i] \in EditedVersion
        BY <2>2 DEF Net!FilesOf, NetShapes, NetFiles
    <2>4. Net!AsOnDisk(i) = [state |-> "up", aux |-> aux[i], fragment |-> g.version]
        BY <2>1 DEF Net!AsOnDisk
    <2> QED BY <2>2, <2>3, <2>4
<1>5. PICK lifted \in SUBSET Net!Lift(c) :
          \/ /\ link' = [i \in Interfaces |-> IF i \in lifted \cup {c} THEN Net!AsOnDisk(i) ELSE link[i]]
             /\ linkCut' = linkCut \ {<<c, "link">>}
             /\ bounced' = bounced \ {c}
             /\ Net!GoOn("firewall") /\ UNCHANGED <<changed, faults>>
          \/ /\ Net!Fault \/ UNCHANGED faults
             /\ link' \in {link, [link EXCEPT ![c].state = IF @ = "down" THEN "half" ELSE @]}
             /\ Net!Abort
             /\ UNCHANGED bounced
    BY <1>1 DEF Net!Ifup
<1>6. CASE /\ Net!Fault \/ UNCHANGED faults
           /\ link' \in {link, [link EXCEPT ![c].state = IF @ = "down" THEN "half" ELSE @]}
           /\ Net!Abort
           /\ UNCHANGED bounced
    <2>1. faults' \in 0..MaxFaults
        BY <1>6, UpdateBoundsAssumption DEF NetShapes, Net!Fault
    <2>2. PICK l : l = [link[c] EXCEPT !.state = IF @ = "down" THEN "half" ELSE @]
        OBVIOUS
    <2>3. link' \in {link, [link EXCEPT ![c] = l]}
        BY <1>6, <2>2
    <2>4. l \in [state : {"down", "half", "up"}, fragment : EditedVersion, aux : EditedVersion]
        BY <1>3, <2>2 DEF NetShapes
    <2>5. /\ link' \in [Interfaces -> [state : {"down", "half", "up"}, fragment : EditedVersion,
                                       aux : EditedVersion]]
          /\ \A i \in Interfaces \ {c} : link'[i] = link[i]
        BY <1>3, <2>3, <2>4 DEF NetShapes
    <2> QED BY <1>1, <1>2, <1>6, <2>1, <2>5, AbortKeeps
<1>7. CASE /\ link' = [i \in Interfaces |-> IF i \in lifted \cup {c} THEN Net!AsOnDisk(i) ELSE link[i]]
           /\ linkCut' = linkCut \ {<<c, "link">>}
           /\ bounced' = bounced \ {c}
           /\ Net!GoOn("firewall") /\ UNCHANGED <<changed, faults>>
    <2> USE <1>7 DEF Net!GoOn
    <2>1. /\ Net!Current' = c
          /\ \A i : Net!Number(i)' = Net!Number(i) /\ Net!NewFragment(i)' = Net!NewFragment(i)
        BY <1>1, SameCurrent
    <2>2. \A i : Net!FilesOf(i)' = Net!FilesOf(i)
        BY DEF Net!FilesOf
    <2>3. \A i \in Interfaces :
              (link'[i] = link[i] /\ i # c) \/ link'[i] = Net!AsOnDisk(i)
        BY <1>3
    <2>4. link'[c] = Net!AsOnDisk(c)
        BY <1>3
    <2>5. link' \in [Interfaces -> [state : {"down", "half", "up"}, fragment : EditedVersion,
                                    aux : EditedVersion]]
        BY <1>4 DEF NetShapes
    <2> HIDE <1>7
    <2>6. /\ linkCut' = linkCut \ {<<c, "link">>} /\ bounced' = bounced \ {c}
          /\ pc' = "firewall" /\ UNCHANGED <<changed, faults, work, loaded, outcome, selected>>
        BY <1>7
    <2>7. NetShapes'
        BY <2>5, <2>6 DEF NetShapes, EditedVersion, NetFiles
    <2>8. LoopInv'
        BY <2>6, <1>2 DEF LoopInv
    <2>9. FragmentsAgree'
        BY <2>2 DEF FragmentsAgree
    <2>10. ASSUME NEW i \in Interfaces PROVE LinkInv(i)'
        <3>1. CASE link'[i] = Net!AsOnDisk(i)
            BY <3>1, <1>4, <2>2, <2>6 DEF LinkInv, Follows
        <3>2. CASE link'[i] = link[i] /\ i # c
            BY <3>2, <1>1, <2>2, <2>6 DEF LinkInv, Follows
        <3> QED BY <2>3, <3>1, <3>2
    <2>11. RulesLoaded'
        BY <1>1, <2>1, <2>6 DEF RulesLoaded
    <2>12. StageInv(Net!Current)'
        BY <1>1, <1>2, <1>3, <1>4, <2>1, <2>2, <2>4, <2>6 DEF StageInv
    <2>13. DealtInv'
        <3>1. Dealt' = Dealt
            BY <2>6, <1>2 DEF Dealt, LoopInv
        <3>2. \A i \in Dealt : i \in Interfaces
            BY DEF Dealt, LoopInv, NetShapes
        <3> QED BY <3>1, <3>2, <1>4, <2>1, <2>2, <2>3, <2>6 DEF DealtInv
    <2> QED BY <2>7, <2>8, <2>9, <2>10, <2>11, <2>12, <2>13
<1> QED BY <1>5, <1>6, <1>7

LEMMA ReconcileKeeps ==
    ASSUME NetInv, Net!Reconcile
    PROVE  NetInv'
<1> USE DEF NetInv, Net!config, Net!disk
<1>1. PICK c : c = Net!Current
    OBVIOUS
<1>2. c \in work /\ work # {}
    BY <1>1, CurrentIsLeft DEF LoopInv, Net!Reconcile
<1>3. c \in Interfaces
    BY <1>2 DEF LoopInv, NetShapes
<1>4. /\ pc = "reconcile" /\ "file" \notin changed
      /\ UNCHANGED <<Net!config, Net!disk, firewall, nftLive, updates>>
    BY <1>1, <1>2 DEF Net!Reconcile, StageInv
<1>5. CASE link[c].state = "down"
    BY <1>1, <1>4, <1>5, IfupKeeps DEF Net!Reconcile
<1>6. CASE link' = link /\ Net!Fault /\ Net!Abort /\ UNCHANGED bounced
    <2>1. faults' \in 0..MaxFaults
        BY <1>6, UpdateBoundsAssumption DEF NetShapes, Net!Fault
    <2> QED BY <1>2, <1>4, <1>6, <2>1, AbortKeeps DEF NetShapes
<1>7. CASE /\ link' = [link EXCEPT ![c].aux = aux[c]]
           /\ Net!GoOn("firewall") /\ UNCHANGED <<changed, faults, linkCut, bounced>>
    <2>1. /\ Net!Current' = c
          /\ \A i : Net!Number(i)' = Net!Number(i) /\ Net!NewFragment(i)' = Net!NewFragment(i)
        BY <1>1, <1>7, SameCurrent DEF Net!GoOn
    <2>2. \A i : Net!FilesOf(i)' = Net!FilesOf(i)
        BY <1>4 DEF Net!FilesOf
    <2>3. PICK l : l = [link[c] EXCEPT !.aux = aux[c]]
        OBVIOUS
    <2>4. /\ l \in [state : {"down", "half", "up"}, fragment : EditedVersion, aux : EditedVersion]
          /\ l.aux = aux[c] /\ l.state = link[c].state /\ l.fragment = link[c].fragment
        BY <1>3, <2>3 DEF NetShapes
    <2>5. link' = [link EXCEPT ![c] = l]
        BY <1>7, <2>3
    <2>6. /\ \A i \in Interfaces \ {c} : link'[i] = link[i]
          /\ link'[c] = l
          /\ link' \in [Interfaces -> [state : {"down", "half", "up"}, fragment : EditedVersion,
                                       aux : EditedVersion]]
        BY <1>3, <2>4, <2>5 DEF NetShapes
    <2>7. pc' = "firewall" /\ UNCHANGED <<changed, faults, work, loaded, outcome, selected, linkCut, bounced>>
        BY <1>7 DEF Net!GoOn
    <2>8. NetShapes'
        BY <1>4, <2>6, <2>7 DEF NetShapes, EditedVersion, NetFiles
    <2>9. LoopInv'
        BY <1>2, <2>7 DEF LoopInv
    <2>10. FragmentsAgree'
        BY <2>2 DEF FragmentsAgree
    <2>11. ASSUME NEW i \in Interfaces PROVE LinkInv(i)'
        <3>1. CASE i = c
            BY <3>1, <1>1, <1>2, <1>3, <1>4, <2>2, <2>4, <2>6, <2>7
               DEF LinkInv, Follows, FollowsBut, NetShapes
        <3>2. CASE i # c
            BY <3>2, <1>1, <1>4, <2>2, <2>6, <2>7 DEF LinkInv, Follows
        <3> QED BY <3>1, <3>2
    <2>12. RulesLoaded'
        BY <1>1, <1>4, <2>1, <2>7 DEF RulesLoaded
    <2>13. StageInv(Net!Current)'
        BY <1>1, <1>2, <1>3, <1>4, <2>1, <2>2, <2>4, <2>6, <2>7 DEF StageInv
    <2>14. DealtInv'
        <3>1. Dealt' = Dealt /\ c \notin Dealt
            BY <2>7, <1>2 DEF Dealt, LoopInv
        <3>2. \A i \in Dealt : i \in Interfaces \ {c}
            BY <3>1 DEF Dealt, LoopInv, NetShapes
        <3> QED BY <3>1, <3>2, <1>4, <2>1, <2>2, <2>6, <2>7 DEF DealtInv
    <2> QED BY <2>8, <2>9, <2>10, <2>11, <2>12, <2>13, <2>14
<1> QED BY <1>1, <1>5, <1>6, <1>7 DEF Net!Reconcile

LEMMA EditSourceKeeps ==
    ASSUME NetInv, NEW i \in Interfaces, Net!EditSource(i)
    PROVE  NetInv'
<1> USE DEF NetInv, Net!EditSource, Net!disk, Net!kernel, Net!run
<1>1. work = {} /\ sourceEdits' \in 0..MaxSourceEdits /\ sourceEdits' = sourceEdits + 1
    BY UpdateBoundsAssumption DEF LoopInv, NetShapes
<1>2. \A j : /\ Net!FilesOf(j)' = Net!FilesOf(j)
             /\ Net!NewFragment(j)' = Net!NewFragment(j)
    BY DEF Net!FilesOf, Net!Number, Net!NewFragment, Net!Source
<1>3. EditedVersion \subseteq EditedVersion'
    BY <1>1 DEF EditedVersion, NetShapes
<1>4. source' \in [Interfaces -> [fragment : EditedVersion', aux : EditedVersion']]
    <2>1. PICK s : s = source[i]
        OBVIOUS
    <2>2. /\ source \in [Interfaces -> [fragment : 0..sourceEdits, aux : 0..sourceEdits]]
          /\ s \in [fragment : 0..sourceEdits, aux : 0..sourceEdits] /\ sourceEdits \in Nat
        BY <2>1 DEF NetShapes, EditedVersion
    <2>3. \E t : /\ source' = [source EXCEPT ![i] = t] \/ source' = source
                 /\ t = [s EXCEPT !.fragment = @ + 1] \/ t = [s EXCEPT !.aux = @ + 1]
        BY <2>1
    <2>4. PICK t : /\ source' = [source EXCEPT ![i] = t] \/ source' = source
                   /\ t = [s EXCEPT !.fragment = @ + 1] \/ t = [s EXCEPT !.aux = @ + 1]
        BY <2>3
    <2>5. t \in [fragment : 0..(sourceEdits + 1), aux : 0..(sourceEdits + 1)]
        BY <2>2, <2>4
    <2> QED BY <1>1, <2>2, <2>4, <2>5 DEF EditedVersion
<1>5. defined' \in SUBSET Interfaces
    BY DEF NetShapes
<1> HIDE DEF Net!EditSource
<1>6. /\ UNCHANGED <<files, aux, firewall, nft, nftLive, link, pc, work, loaded, changed, outcome, selected,
                     updates, faults, linkCut, bounced>>
    BY DEF Net!EditSource
<1>7. NetShapes'
    <2>1. files' \subseteq NetFiles'
        BY <1>3, <1>6 DEF NetShapes, NetFiles
    <2>2. /\ loaded'.source \in [Interfaces -> [fragment : EditedVersion', aux : EditedVersion']]
          /\ aux' \in [Interfaces -> EditedVersion'] /\ nft' \in [Interfaces -> EditedVersion']
          /\ firewall' \in BOOLEAN
          /\ nftLive' \in [Interfaces -> EditedVersion' \cup {Net!NoRules}]
        BY <1>3, <1>6 DEF NetShapes
    <2>3. link' \in [Interfaces -> [state : {"down", "half", "up"}, fragment : EditedVersion',
                                    aux : EditedVersion']]
        BY <1>3, <1>6 DEF NetShapes
    <2> QED BY <2>1, <2>2, <2>3, <1>1, <1>4, <1>5, <1>6 DEF NetShapes
<1>8. LoopInv'
    BY <1>6 DEF LoopInv
<1>9. FragmentsAgree'
    BY <1>2 DEF FragmentsAgree
<1>10. ASSUME NEW j \in Interfaces PROVE LinkInv(j)'
    BY <1>1, <1>2, <1>6 DEF LinkInv, Follows
<1>11. RulesLoaded'
    BY <1>1, <1>6 DEF RulesLoaded
<1>12. DealtInv'
    BY <1>2, <1>6 DEF DealtInv, Dealt
<1> QED BY <1>1, <1>6, <1>7, <1>8, <1>9, <1>10, <1>11, <1>12

LEMMA BeginUpdateKeeps ==
    ASSUME NetInv, NEW targets, Net!BeginUpdate(targets)
    PROVE  NetInv'
<1> USE DEF NetInv, Net!BeginUpdate, Net!config, Net!disk, Net!kernel
<1>1. /\ loaded'.defined = defined /\ loaded'.source = source /\ loaded'.order = Net!Order
      /\ work = {} /\ work' = targets /\ selected' = targets /\ targets \subseteq defined
      /\ targets # {} /\ pc' = "aux" /\ changed' = {} /\ outcome' = "none"
    BY DEF LoopInv
<1>2. UNCHANGED <<defined, source, sourceEdits, files, aux, firewall, nft, nftLive, link, faults, linkCut,
                bounced>>
    OBVIOUS
<1>3. updates' \in 0..MaxUpdates
    BY UpdateBoundsAssumption DEF NetShapes
<1> HIDE DEF Net!BeginUpdate
<1>4. \A j : Net!FilesOf(j)' = Net!FilesOf(j)
    BY <1>2 DEF Net!FilesOf
<1>5. NetShapes'
    <2> DEFINE Order(names) == Net!Sort(names, names, Net!DepsWithin(names, {<<vlan, eth1>>})).ordered
    <2>1. loaded'.order = Order(loaded'.defined)
        <3>1. loaded'.order = Order(defined)
            BY <1>1 DEF Net!Order
        <3> HIDE DEF Order
        <3> QED BY <3>1, <1>1
    <2>2. /\ defined' \in SUBSET Interfaces /\ loaded'.defined \in SUBSET Interfaces
          /\ loaded'.source = source /\ changed' = {}
        BY <1>1, <1>2 DEF NetShapes
    <2> QED BY <2>1, <2>2, <1>2, <1>3 DEF NetShapes, EditedVersion, NetFiles
<1>6. LoopInv'
    BY <1>1 DEF LoopInv
<1>7. FragmentsAgree'
    BY <1>4 DEF FragmentsAgree
<1>8. ASSUME NEW j \in Interfaces PROVE LinkInv(j)'
    BY <1>1, <1>2, <1>4 DEF LinkInv, Follows
<1>9. RulesLoaded'
    BY <1>1, <1>2 DEF RulesLoaded
<1>10. StageInv(Net!Current)'
    BY <1>1 DEF StageInv
<1>11. DealtInv'
    BY <1>1 DEF DealtInv, Dealt
<1> QED BY <1>5, <1>6, <1>7, <1>8, <1>9, <1>10, <1>11

\* The first update of a firewall loads the listen rules too, or leaves all of them on
\* record.
LEMMA ApplyFirewallKeeps ==
    ASSUME NetInv, Net!ApplyFirewall
    PROVE  NetInv'
<1> USE DEF NetInv, Net!ApplyFirewall, Net!config, Net!disk, Net!run
<1>1. work = {} /\ pc = "idle" /\ faults' \in 0..MaxFaults
    BY UpdateBoundsAssumption DEF LoopInv, NetShapes, Net!Fault
<1>2. /\ UNCHANGED <<defined, source, sourceEdits, files, aux, nft, link, pc, work, loaded, changed,
                     outcome, selected, updates, bounced>>
      /\ firewall' = TRUE
      /\ \/ nftLive' = nft /\ linkCut' = linkCut
         \/ nftLive' = nftLive /\ linkCut' = linkCut \cup (Interfaces \X {"nft"})
    OBVIOUS
<1> HIDE DEF Net!ApplyFirewall
<1>3. \A j : /\ Net!FilesOf(j)' = Net!FilesOf(j)
             /\ Net!NewFragment(j)' = Net!NewFragment(j)
    BY <1>2 DEF Net!FilesOf, Net!Number, Net!NewFragment, Net!Source
<1>4. NetShapes'
    <2>1. nftLive' \in [Interfaces -> EditedVersion \cup {Net!NoRules}]
        BY <1>2 DEF NetShapes
    <2>2. linkCut' \subseteq Interfaces \X {"link", "nft"}
        BY <1>2 DEF NetShapes
    <2> QED BY <1>1, <1>2, <2>1, <2>2 DEF NetShapes, EditedVersion, NetFiles
<1>5. LoopInv'
    BY <1>2 DEF LoopInv
<1>6. FragmentsAgree'
    BY <1>3 DEF FragmentsAgree
<1>7. ASSUME NEW j \in Interfaces PROVE LinkInv(j)'
    BY <1>1, <1>2, <1>3 DEF LinkInv, Follows
<1>8. RulesLoaded'
    BY <1>2 DEF RulesLoaded
<1>9. DealtInv'
    BY <1>2, <1>3 DEF DealtInv, Dealt
<1> QED BY <1>1, <1>2, <1>4, <1>5, <1>6, <1>7, <1>8, <1>9

\* Every step of a gw update of interfaces, and of what happens around it.
LEMMA NetStep ==
    ASSUME NetInv, Net!Next
    PROVE  NetInv'
<1>1. CASE Net!ReloadIfup
    BY <1>1, IfupKeeps DEF Net!ReloadIfup
<1>2. CASE Net!Update
    BY <1>1, <1>2, WriteAuxKeeps, WriteNftKeeps, MigrateRenameKeeps, MigrateDeleteKeeps,
       WriteFragmentKeeps, ChooseApplyKeeps, IfdownKeeps, ReconcileKeeps, LoadFirewallKeeps
       DEF Net!Update
<1> QED BY <1>2, KillKeeps, EditSourceKeeps, BeginUpdateKeeps, ApplyFirewallKeeps DEF Net!Next

LEMMA NetStart ==
    ASSUME NetInit
    PROVE  NetInv
<1>1. PICK numbered \in SUBSET {vlan} :
          files = {[name |-> i, number |-> 0, version |-> 0] : i \in Interfaces}
            \cup {[name |-> i, number |-> Cardinality(Interfaces), version |-> 0] : i \in numbered}
    BY SameCardinality DEF NetInit, Net!Init
<1> USE DEF NetInit, Net!Init, NetInv
<1>2. Cardinality(Interfaces) \in Nat /\ vlan \in Interfaces
    BY SortAssumption, FS_CardinalityType DEF Gateway
<1>3. \A f \in files : f \in [name : Interfaces, number : 0..Cardinality(Interfaces), version : {0}]
    BY <1>1, <1>2
<1>4. \A i \in Interfaces : [name |-> i, number |-> 0, version |-> 0] \in files
    BY <1>1
<1>5. loaded.defined = {} /\ loaded.order = <<>> /\ loaded.source = source
    BY DEF Net!NothingLoaded
<1>6. Net!Sort({}, {}, Net!DepsWithin({}, {<<vlan, eth1>>})).ordered = <<>>
    <2> DEFINE Order(names) == Net!Sort(names, names, Net!DepsWithin(names, {<<vlan, eth1>>})).ordered
    <2>1. \A names \in SUBSET Interfaces : Order(names) \in Seq(names)
        BY SortAssumption, Zenon
    <2>2. Order({}) \in Seq({})
        <3> HIDE DEF Order
        <3> QED BY <2>1
    <2>3. \A s \in Seq({}) : s = <<>>
        OBVIOUS
    <2> QED BY <2>2, <2>3, Zenon
<1>7. NetShapes
    BY <1>3, <1>5, <1>6, UpdateBoundsAssumption DEF NetShapes, EditedVersion, NetFiles
<1>8. LoopInv
    BY DEF LoopInv
<1>9. FragmentsAgree
    BY <1>3, <1>4 DEF FragmentsAgree, Net!FilesOf
<1>10. ASSUME NEW i \in Interfaces PROVE LinkInv(i)
    BY <1>3 DEF LinkInv, Follows, Net!FilesOf
<1>11. RulesLoaded
    BY DEF RulesLoaded
<1>12. DealtInv
    BY DEF DealtInv, Dealt
<1> QED BY <1>7, <1>8, <1>9, <1>10, <1>11, <1>12

LEMMA InterfacesStay ==
    ASSUME NetHolds, [OfPlugins(Next) \/ OfInterfaces(Net!Next)]_all
    PROVE  NetHolds'
<1>1. CASE OfInterfaces(Net!Next)
    BY <1>1, NetStep DEF OfInterfaces, NetHolds
<1>2. CASE OfPlugins(Next)
    BY <1>2 DEF OfPlugins, NetHolds
<1>3. CASE UNCHANGED all
    <2> USE <1>3 DEF all, netVars
    <2>1. Net!Current' = Net!Current /\ \A i : Net!FilesOf(i)' = Net!FilesOf(i)
          /\ Net!Number(i)' = Net!Number(i) /\ Net!NewFragment(i)' = Net!NewFragment(i)
        BY SameCurrent DEF Net!FilesOf
    <2>2. part' = part /\ NetShapes' = NetShapes /\ LoopInv' = LoopInv
        BY DEF NetShapes, EditedVersion, NetFiles, LoopInv
    <2>3. FragmentsAgree' = FragmentsAgree
        BY <2>1 DEF FragmentsAgree
    <2>4. \A i : LinkInv(i)' = LinkInv(i)
        BY <2>1 DEF LinkInv, Follows, FollowsBut
    <2>5. RulesLoaded' = RulesLoaded
        BY <2>1 DEF RulesLoaded
    <2>6. StageInv(Net!Current)' = StageInv(Net!Current)
        BY <2>1 DEF StageInv
    <2>7. DealtInv' = DealtInv
        BY <2>1 DEF DealtInv, Dealt
    <2> QED BY <2>2, <2>3, <2>4, <2>5, <2>6, <2>7 DEF NetHolds, NetInv
<1> QED BY <1>1, <1>2, <1>3

-----------------------------------------------------------------------------
(* What the invariant says of a finished update.                           *)

\* The inductive invariant of gw update over interfaces: how source, fragments, links and
\* listen rules relate at each place of the loop in network_interfaces.py update, also
\* after runs that failed or were killed.
THEOREM InterfacesInvariant == UpdateSpec => []NetHolds
<1>1. PluginsInit \/ NetInit => NetHolds
    BY NetStart DEF PluginsInit, NetInit, NetHolds
<1>2. NetHolds /\ [OfPlugins(Next) \/ OfInterfaces(Net!Next)]_all => NetHolds'
    BY InterfacesStay
<1> QED BY <1>1, <1>2, PTL DEF UpdateSpec

\* A successful update is through with what it selected.
LEMMA AllIsDealtWith ==
    ASSUME NetInv, outcome = "ok"
    PROVE  /\ work = {} /\ selected \subseteq loaded.defined /\ loaded.defined \subseteq Interfaces
           /\ \A i \in selected :
                 /\ Net!FilesOf(i) = {Net!NewFragment(i)}
                 /\ aux[i] = loaded.source[i].aux
                 /\ i = wg => link[i].aux = aux[i]
BY DEF NetInv, LoopInv, DealtInv, Dealt, NetShapes

\* Whatever unnumbered, renumbered or half-migrated fragments an update finds, it leaves
\* one of each interface it covers, and an update of everything leaves them in the order
\* in which ifupdown must read them (network_interfaces.py _migrate_interface_file).
THEOREM FragmentsAreInOrder == UpdateSpec => []InterfaceFragmentsInOrder
<1>1. NetHolds => InterfaceFragmentsInOrder
    <2> SUFFICES ASSUME NetInv, outcome = "ok"
                 PROVE  /\ \A i \in selected : Net!Cardinality(Net!FilesOf(i)) = 1
                        /\ selected = loaded.defined =>
                              /\ Net!ParentsFirst(selected)
                              /\ \A i, j \in selected : i # j =>
                                    Net!NumberOnDisk(i) \cap Net!NumberOnDisk(j) = {}
        BY DEF NetHolds, InterfaceFragmentsInOrder, Net!OneFragmentEach,
               Net!NumbersFollowDependencies
    <2>1. \A i \in selected : Net!Cardinality(Net!FilesOf(i)) = 1
        BY AllIsDealtWith, SameCardinality, FS_Singleton
    <2>2. \A i \in selected : Net!NumberOnDisk(i) = {Net!Number(i)}
        <3>1. \A i : Net!NewFragment(i).number = Net!Number(i)
            BY DEF Net!NewFragment
        <3> QED BY <3>1, AllIsDealtWith DEF Net!NumberOnDisk
    <2>3. \A i \in selected :
              Net!Number(i) \in DOMAIN loaded.order /\ loaded.order[Net!Number(i)] = i
        BY AllIsDealtWith, Numbered DEF NetInv
    <2>4. Net!ParentsFirst(selected)
        <3>1. vlan \in selected /\ eth1 \in selected => Net!Number(eth1) < Net!Number(vlan)
            BY <2>3, OrderIsSort DEF NetInv
        <3> QED BY <3>1, <2>2 DEF Net!ParentsFirst
    <2> QED BY <2>1, <2>2, <2>3, <2>4
<1> QED BY <1>1, InterfacesInvariant, PTL

\* A successful update leaves every interface it covers up as the source says, although
\* it reloads only what it changed on disk: but for links where a run was cut between a
\* write and the reload, and vlans that a reload of the parent took down.  Its listen
\* rules are loaded once there is a firewall.  The peers of wireguard follow in any case
\* (network_interfaces.py update, _firewall_has_been_applied, _wireguard_reconcile).
THEOREM LinksFollowSource == UpdateSpec => []InterfaceLinksFollowSource
<1>1. NetHolds => InterfaceLinksFollowSource
    <2> SUFFICES ASSUME NetInv, outcome = "ok"
                 PROVE  /\ \A i \in selected :
                              /\ <<i, "link">> \notin linkCut /\ i \notin bounced =>
                                    link[i] = [state |-> "up", fragment |-> loaded.source[i].fragment,
                                               aux |-> loaded.source[i].aux]
                              /\ firewall /\ <<i, "nft">> \notin linkCut => nftLive[i] = nft[i]
                        /\ \A i \in selected \cap {wg} : link[i].aux = loaded.source[i].aux
        BY DEF NetHolds, InterfaceLinksFollowSource, Net!CurrentUnlessCut, Net!PeersConverge, Net!Source
    <2>1. ASSUME NEW i \in selected, <<i, "link">> \notin linkCut, i \notin bounced
          PROVE  link[i] = [state |-> "up", fragment |-> loaded.source[i].fragment,
                            aux |-> loaded.source[i].aux]
        <3>1. Follows(i)
            BY <2>1, AllIsDealtWith DEF NetInv, LinkInv
        <3>2. Net!NewFragment(i).version = loaded.source[i].fragment
            BY DEF Net!NewFragment, Net!Source
        <3> QED BY <3>1, <3>2, AllIsDealtWith DEF Follows
    <2>2. ASSUME NEW i \in selected, firewall, <<i, "nft">> \notin linkCut PROVE nftLive[i] = nft[i]
        BY <2>2, AllIsDealtWith DEF NetInv, RulesLoaded
    <2>3. \A i \in selected \cap {wg} : link[i].aux = loaded.source[i].aux
        BY AllIsDealtWith
    <2> QED BY <2>1, <2>2, <2>3
<1> QED BY <1>1, InterfacesInvariant, PTL

-----------------------------------------------------------------------------
(* The plugins: what a step of each may do.                                *)

Ops == {"write", "install", "stale", "restart", "load", "loadIfThere", "enable", "disable",
        "tryDisable"}
StepFields == {"op", "on", "what", "if", "unless"}
ContentFields == {"tag", "from"}

\* A step of plugin p writes a file that p declares (or the logrotate file, which two
\* plugins write), installs the packages of p or runs a command for a service.
StepOK(s, p) ==
    /\ DOMAIN s = StepFields /\ s.op \in Ops
    /\ s.op = "write" =>
          /\ s.on \in File /\ DOMAIN s.what = ContentFields
          /\ Owner(s.on) = p \/ (s.on = "logrotate" /\ p = "network.dnsmasq")
    /\ s.op = "install" => s.on = p /\ p \in DOMAIN Packages
    /\ s.op \in {"restart", "load", "loadIfThere", "enable", "disable"} => s.on \in Service
    /\ s.op = "tryDisable" => s.on \in Service \cup Distro
    /\ s.op = "stale" => p = "system.mirror"

\* A list of such steps.
StepsOK(steps, p) == \E S : steps \in Seq(S) /\ \A s \in S : StepOK(s, p)

\* The twelve plugins.
LEMMA Plugins12 ==
    Plugin = {"system.mirror", "network.core", "network.ipv6pd", "network.firewall",
              "network.resolvconf", "network.dnsmasq", "ip_lists", "config.resources",
              "system.utilities", "monitoring.collectd", "network.wgsd-coredns", "docker.core"}
  BY DEF Plugin, PluginOrder, ToSet

\* Which files there are, and who declares them.
LEMMA FilesOf ==
    /\ DOMAIN MirrorFiles = {"aptList", "debianSources", "aptKeys", "dockerList", "tailscaleList"}
    /\ DOMAIN CoreFiles = {"hostname", "hosts", "cloudHostname", "cloudNet", "cloudIfaces", "sysctl",
                           "dnsmasqConf", "logrotate", "avahi"}
    /\ DOMAIN DockerFiles = {"daemonJson", "dockerHook"}
    /\ DOMAIN PdClientFiles = {"dhcp6c", "dhcp6cScript", "duid"}
    /\ DOMAIN PdRadvdFiles = {"radvd"}
    /\ DOMAIN PdUnitFiles = {"pdUnit", "pdHooks"}
    /\ DOMAIN PdSysctl = {"acceptRa"}
    /\ DOMAIN PdNftFiles = {"nftPd"}
    /\ DOMAIN FirewallFiles = {"nftEntry", "nftFirewall"}
    /\ DOMAIN DnsFiles = {"dnsConf"}
    /\ DOMAIN DhcpFiles = {"dhcpConf"}
    /\ DOMAIN ChinaFiles = {"chinaConf", "chinaManual"}
    /\ DOMAIN ChinaCronFiles = {"chinaCron"}
    /\ DOMAIN ResolvFiles = {"resolvConf"}
    /\ DOMAIN CronFiles = {"cronJob"}
    /\ DOMAIN IpListFiles = {"ipListCron"}
    /\ DOMAIN CollectdFiles = {"collectdConf"}
    /\ DOMAIN WgsdFiles = {"corefile", "wgsdUnit"}
  BY DEF MirrorFiles, CoreFiles, DockerFiles, PdClientFiles, PdRadvdFiles, PdUnitFiles, PdSysctl,
         PdNftFiles, FirewallFiles, DnsFiles, DhcpFiles, ChinaFiles, ChinaCronFiles, ResolvFiles,
         CronFiles, IpListFiles, CollectdFiles, WgsdFiles

MirrorOwns == {"aptList", "debianSources", "aptKeys", "dockerList", "tailscaleList"}
CoreOwns == {"hostname", "hosts", "cloudHostname", "cloudNet", "cloudIfaces", "sysctl",
             "dnsmasqConf", "logrotate", "avahi"}
PdOwns == {"dhcp6c", "dhcp6cScript", "duid", "radvd", "pdUnit", "pdHooks", "acceptRa", "nftPd"}
FirewallOwns == {"nftEntry", "nftFirewall"}
DnsmasqOwns == {"dnsConf", "dhcpConf", "chinaConf", "chinaManual", "chinaCron"}
WgsdOwns == {"corefile", "wgsdUnit"}
DockerOwns == {"daemonJson", "dockerHook"}

\* The files of all renderers, by their plugin.
LEMMA AllFiles ==
    File = MirrorOwns \cup CoreOwns \cup PdOwns \cup FirewallOwns \cup DnsmasqOwns \cup WgsdOwns
           \cup DockerOwns \cup {"resolvConf", "cronJob", "ipListCron", "collectdConf"}
<1>1. \A x : x \in File <=> \E r \in Renderers : x \in DOMAIN r  BY DEF File
<1>2. \A x : x \in File <=>
         \/ x \in DOMAIN MirrorFiles \/ x \in DOMAIN CoreFiles \/ x \in DOMAIN DockerFiles
         \/ x \in DOMAIN PdClientFiles \/ x \in DOMAIN PdRadvdFiles \/ x \in DOMAIN PdUnitFiles
         \/ x \in DOMAIN PdSysctl \/ x \in DOMAIN PdNftFiles \/ x \in DOMAIN FirewallFiles
         \/ x \in DOMAIN DnsFiles \/ x \in DOMAIN DhcpFiles \/ x \in DOMAIN ChinaFiles
         \/ x \in DOMAIN ChinaCronFiles \/ x \in DOMAIN ResolvFiles \/ x \in DOMAIN CronFiles
         \/ x \in DOMAIN IpListFiles \/ x \in DOMAIN CollectdFiles \/ x \in DOMAIN WgsdFiles
  BY <1>1 DEF Renderers
<1>3. QED
  BY <1>2, FilesOf DEF MirrorOwns, CoreOwns, PdOwns, FirewallOwns, DnsmasqOwns, WgsdOwns, DockerOwns

\* Every file has the one plugin that declares it.
LEMMA Owners ==
    ASSUME NEW f \in File
    PROVE  /\ Owner(f) \in Plugin
           /\ f \in MirrorOwns <=> Owner(f) = "system.mirror"
           /\ f \in CoreOwns <=> Owner(f) = "network.core"
           /\ f \in PdOwns <=> Owner(f) = "network.ipv6pd"
           /\ f \in FirewallOwns <=> Owner(f) = "network.firewall"
           /\ f \in DnsmasqOwns <=> Owner(f) = "network.dnsmasq"
           /\ f \in WgsdOwns <=> Owner(f) = "network.wgsd-coredns"
           /\ f \in DockerOwns <=> Owner(f) = "docker.core"
           /\ f = "resolvConf" <=> Owner(f) = "network.resolvconf"
           /\ f = "cronJob" <=> Owner(f) = "config.resources"
           /\ f = "ipListCron" <=> Owner(f) = "ip_lists"
           /\ f = "collectdConf" <=> Owner(f) = "monitoring.collectd"
<1>1. \A x : x \in UNION {DOMAIN r : r \in {PdClientFiles, PdRadvdFiles, PdUnitFiles, PdSysctl,
                                            PdNftFiles}} <=> x \in PdOwns
  BY FilesOf DEF PdOwns
<1>2. \A x : x \in UNION {DOMAIN r : r \in {DnsFiles, DhcpFiles, ChinaFiles, ChinaCronFiles}}
             <=> x \in DnsmasqOwns
  BY FilesOf DEF DnsmasqOwns
<1>3. /\ f \in MirrorOwns => Owner(f) = "system.mirror"
      /\ f \in CoreOwns => Owner(f) = "network.core"
      /\ f \in PdOwns => Owner(f) = "network.ipv6pd"
      /\ f \in FirewallOwns => Owner(f) = "network.firewall"
      /\ f \in DnsmasqOwns => Owner(f) = "network.dnsmasq"
      /\ f \in WgsdOwns => Owner(f) = "network.wgsd-coredns"
      /\ f \in DockerOwns => Owner(f) = "docker.core"
      /\ f = "resolvConf" => Owner(f) = "network.resolvconf"
      /\ f = "cronJob" => Owner(f) = "config.resources"
      /\ f = "ipListCron" => Owner(f) = "ip_lists"
      /\ f = "collectdConf" => Owner(f) = "monitoring.collectd"
  BY <1>1, <1>2, FilesOf
     DEF Owner, MirrorOwns, CoreOwns, PdOwns, FirewallOwns, DnsmasqOwns, WgsdOwns, DockerOwns
<1>4. QED  BY <1>3, AllFiles, Plugins12

\* The services, and that packages start only services.
LEMMA KnownServices ==
    /\ Service = {"hostname", "sysctl", "docker", "systemd", "pd", "radvd", "nft", "dnsmasq",
                  "collectd", "wgsd"}
    /\ DOMAIN Packages = {"system.mirror", "network.core", "system.utilities",
                          "monitoring.collectd", "docker.core"}
    /\ \A p \in DOMAIN Packages : Packages[p] \subseteq Service \cup Distro
<1>1. Service = {"hostname", "sysctl", "docker", "systemd", "pd", "radvd", "nft", "dnsmasq",
                 "collectd", "wgsd"}
  BY DEF Service, Reads
<1>2. QED  BY <1>1 DEF Packages

-----------------------------------------------------------------------------
(* Single steps.                                                           *)

\* A command for a service, and the installation of the own packages.
LEMMA CommandOK ==
    ASSUME NEW p, NEW op, NEW on,
           \/ op \in {"restart", "load", "loadIfThere", "enable", "disable"} /\ on \in Service
           \/ op = "tryDisable" /\ on \in Service \cup Distro
           \/ op = "install" /\ on = p /\ p \in DOMAIN Packages
           \/ op = "stale" /\ p = "system.mirror"
    PROVE  StepOK(Step(op, on), p)
  BY DEF StepOK, Step, StepFields, Ops

\* A write of an own file.
LEMMA WriteOK ==
    ASSUME NEW p, NEW f \in File, NEW content, DOMAIN content = ContentFields,
           Owner(f) = p \/ (f = "logrotate" /\ p = "network.dnsmasq")
    PROVE  StepOK(Write(f, content), p)
  BY DEF StepOK, Write, Step, StepFields, Ops

\* Contents have their two fields.
LEMMA ContentsOK ==
    /\ DOMAIN Absent = ContentFields
    /\ \A tag, settings, c : DOMAIN Content(tag, settings, c) = ContentFields
  BY DEF Absent, Content, ContentFields

\* The three ways in which a plugin writes a file of its own.
LEMMA PlainOK ==
    ASSUME NEW p, NEW f \in File, Owner(f) = p
    PROVE  StepOK(Plain(f), p) /\ StepOK(Delete(f), p) /\ StepOK(Off(f), p)
  BY WriteOK, ContentsOK DEF Plain, Delete, Off

\* A condition changes nothing else of a step.
LEMMA IfOK ==
    ASSUME NEW p, NEW step, StepOK(step, p), NEW things
    PROVE  StepOK(If(things, step), p) /\ StepOK([step EXCEPT !.unless = things], p)
  BY DEF StepOK, If, StepFields

-----------------------------------------------------------------------------
(* Lists of steps.                                                         *)

\* One list behind the other.
LEMMA ConcatOK ==
    ASSUME NEW p, NEW a, NEW b, StepsOK(a, p), StepsOK(b, p)
    PROVE  StepsOK(a \o b, p)
<1>1. PICK S : a \in Seq(S) /\ \A s \in S : StepOK(s, p)  BY DEF StepsOK
<1>2. PICK T : b \in Seq(T) /\ \A s \in T : StepOK(s, p)  BY DEF StepsOK
<1>3. a \in Seq(S \cup T) /\ b \in Seq(S \cup T)  BY <1>1, <1>2
<1>4. a \o b \in Seq(S \cup T)  BY <1>3
<1>5. QED  BY <1>1, <1>2, <1>4 DEF StepsOK

\* The empty list.
LEMMA NoStepsOK == \A p : StepsOK(<<>>, p)
<1>. DEFINE S == {}
<1>1. <<>> \in Seq(S) /\ \A p : \A s \in S : StepOK(s, p)  OBVIOUS
<1>. HIDE DEF S
<1>2. QED  BY <1>1 DEF StepsOK

\* Lists written out in the plugins have at most nine steps: one,
LEMMA OneOK ==
    ASSUME NEW p, NEW a,
           StepOK(a, p)
    PROVE  StepsOK(<<a>>, p)
<1>. DEFINE S == {a}
<1>1. <<a>> \in Seq(S)  OBVIOUS
<1>2. \A s \in S : StepOK(s, p)  OBVIOUS
<1>. HIDE DEF S
<1>3. QED  BY <1>1, <1>2 DEF StepsOK

\* two,
LEMMA TwoOK ==
    ASSUME NEW p, NEW a, NEW b,
           StepOK(a, p), StepOK(b, p)
    PROVE  StepsOK(<<a, b>>, p)
<1>. DEFINE S == {a, b}
<1>1. <<a, b>> \in Seq(S)  OBVIOUS
<1>2. \A s \in S : StepOK(s, p)  OBVIOUS
<1>. HIDE DEF S
<1>3. QED  BY <1>1, <1>2 DEF StepsOK

\* three,
LEMMA ThreeOK ==
    ASSUME NEW p, NEW a, NEW b, NEW c,
           StepOK(a, p), StepOK(b, p), StepOK(c, p)
    PROVE  StepsOK(<<a, b, c>>, p)
<1>. DEFINE S == {a, b, c}
<1>1. <<a, b, c>> \in Seq(S)  OBVIOUS
<1>2. \A s \in S : StepOK(s, p)  OBVIOUS
<1>. HIDE DEF S
<1>3. QED  BY <1>1, <1>2 DEF StepsOK

\* four,
LEMMA FourOK ==
    ASSUME NEW p, NEW a, NEW b, NEW c, NEW d,
           \A s \in {a, b, c, d} : StepOK(s, p)
    PROVE  StepsOK(<<a, b, c, d>>, p)
<1>. DEFINE S == {a, b, c, d}
<1>1. <<a, b, c, d>> \in Seq(S)  OBVIOUS
<1>2. \A s \in S : StepOK(s, p)  OBVIOUS
<1>. HIDE DEF S
<1>3. QED  BY <1>1, <1>2 DEF StepsOK

\* five,
LEMMA FiveOK ==
    ASSUME NEW p, NEW a, NEW b, NEW c, NEW d, NEW e,
           \A s \in {a, b, c, d, e} : StepOK(s, p)
    PROVE  StepsOK(<<a, b, c, d, e>>, p)
<1>. DEFINE S == {a, b, c, d, e}
<1>1. <<a, b, c, d, e>> \in Seq(S)  OBVIOUS
<1>2. \A s \in S : StepOK(s, p)  OBVIOUS
<1>. HIDE DEF S
<1>3. QED  BY <1>1, <1>2 DEF StepsOK

\* seven,
LEMMA SevenOK ==
    ASSUME NEW p, NEW a, NEW b, NEW c, NEW d, NEW e, NEW f, NEW g,
           \A s \in {a, b, c, d, e, f, g} : StepOK(s, p)
    PROVE  StepsOK(<<a, b, c, d, e, f, g>>, p)
<1>. DEFINE S == {a, b, c, d, e, f, g}
<1>1. <<a, b, c, d, e, f, g>> \in Seq(S)  OBVIOUS
<1>2. \A s \in S : StepOK(s, p)  OBVIOUS
<1>. HIDE DEF S
<1>3. QED  BY <1>1, <1>2 DEF StepsOK

\* or nine.
LEMMA NineOK ==
    ASSUME NEW p, NEW a, NEW b, NEW c, NEW d, NEW e, NEW f, NEW g, NEW h, NEW i,
           \A s \in {a, b, c, d, e, f, g, h, i} : StepOK(s, p)
    PROVE  StepsOK(<<a, b, c, d, e, f, g, h, i>>, p)
<1>. DEFINE S == {a, b, c, d, e, f, g, h, i}
<1>1. <<a, b, c, d, e, f, g, h, i>> \in Seq(S)  OBVIOUS
<1>2. \A s \in S : StepOK(s, p)  OBVIOUS
<1>. HIDE DEF S
<1>3. QED  BY <1>1, <1>2 DEF StepsOK

\* system_mirror.py writes its own lists and keys and installs its own packages.
LEMMA MirrorSteps == StepsOK(SystemMirror, "system.mirror")
<1>. DEFINE p == "system.mirror"
            a == Plain("aptList")
            b == Delete("debianSources")
            c == Step("install", "system.mirror")
            d == Plain("aptKeys")
            e == Plain("dockerList")
            f == Plain("tailscaleList")
            g == If({"dockerList", "tailscaleList"}, Step("stale", "index"))
<1>1. StepOK(a, p) /\ StepOK(b, p) /\ StepOK(d, p) /\ StepOK(e, p) /\ StepOK(f, p)
  <2>1. \A x \in MirrorOwns : x \in File /\ Owner(x) = "system.mirror"  BY AllFiles, Owners
  <2>2. QED  BY <2>1, PlainOK DEF MirrorOwns
<1>2. StepOK(c, p) /\ StepOK(g, p)  BY CommandOK, IfOK, KnownServices
<1>3. SystemMirror = <<a, b, c, d, e, f, g>>  BY DEF SystemMirror
<1>. HIDE DEF a, b, c, d, e, f, g
<1>4. QED  BY <1>1, <1>2, <1>3, SevenOK

\* network_core.py, with and without cloud-init.
LEMMA CoreSteps == StepsOK(NetworkCore, "network.core")
<1>. DEFINE p == "network.core"
            cloud == IF conf[<<"network", "cloudInit">>] = 1
                     THEN <<Plain("cloudNet"), Delete("cloudIfaces")>> ELSE <<Delete("cloudNet")>>
            off1 == Step("tryDisable", "tailscaled")
            off2 == Step("tryDisable", "wideDhcp")
            name == If({"hostname"}, Step("restart", "hostname"))
            ctl == If({"sysctl"}, Step("restart", "sysctl"))
            inst == Step("install", "network.core")
<1>1. \A x \in CoreOwns : StepOK(Plain(x), p) /\ StepOK(Delete(x), p)
  <2>1. \A x \in CoreOwns : x \in File /\ Owner(x) = p  BY AllFiles, Owners
  <2>2. QED  BY <2>1, PlainOK
<1>2. /\ StepOK(off1, p) /\ StepOK(off2, p) /\ StepOK(name, p) /\ StepOK(ctl, p)
      /\ StepOK(inst, p)
  BY CommandOK, IfOK, KnownServices DEF Distro
<1>3. StepsOK(<<Plain("hostname"), Plain("hosts"), Plain("cloudHostname")>>, p)
  BY <1>1, ThreeOK DEF CoreOwns
<1>4. StepsOK(cloud, p)
  <2>1. StepsOK(<<Plain("cloudNet"), Delete("cloudIfaces")>>, p)  BY <1>1, TwoOK DEF CoreOwns
  <2>2. StepsOK(<<Delete("cloudNet")>>, p)  BY <1>1, OneOK DEF CoreOwns
  <2>3. QED  BY <2>1, <2>2
<1>5. StepsOK(<<Plain("sysctl"), Plain("dnsmasqConf"), Plain("logrotate"), Plain("avahi"),
                inst, off1, off2, name, ctl>>, p)
  <2>1. /\ StepOK(Plain("sysctl"), p) /\ StepOK(Plain("dnsmasqConf"), p)
        /\ StepOK(Plain("logrotate"), p) /\ StepOK(Plain("avahi"), p)
    BY <1>1 DEF CoreOwns
  <2>. HIDE DEF inst, off1, off2, name, ctl
  <2>2. QED  BY <1>2, <2>1, NineOK
<1>6. NetworkCore = <<Plain("hostname"), Plain("hosts"), Plain("cloudHostname")>> \o cloud
                    \o <<Plain("sysctl"), Plain("dnsmasqConf"), Plain("logrotate"),
                         Plain("avahi"), inst, off1, off2, name, ctl>>
  BY DEF NetworkCore
<1>. HIDE DEF cloud, inst, off1, off2, name, ctl
<1>7. QED  BY <1>3, <1>4, <1>5, <1>6, ConcatOK

\* network_ipv6pd.py: enabled or disabled, asked by an event or by the administrator.
LEMMA PdStepsOK == ASSUME NEW force PROVE StepsOK(Ipv6Pd(force), "network.ipv6pd")
<1>. DEFINE p == "network.ipv6pd"
            always == IF force THEN {"always"} ELSE {}
            client == {"dhcp6c", "dhcp6cScript", "duid"}
            again(s, those) == <<If(those \cup always, Step("restart", s)),
                                 [Step("enable", s) EXCEPT !.unless = those \cup always]>>
            offs == <<Off("dhcp6c"), Off("radvd"), Off("nftPd"),
                      Step("tryDisable", "pd"), Step("tryDisable", "radvd")>>
            unit == If({"pdUnit"}, Step("restart", "systemd"))
            written == <<Plain("dhcp6c"), Plain("dhcp6cScript"), Plain("duid"), Plain("radvd"),
                       Plain("pdUnit"), Plain("pdHooks"), Plain("nftPd"), unit, Plain("acceptRa")>>
            nft1 == <<If({"nftPd"} \cup always, Step("loadIfThere", "nft"))>>
<1>1. \A x \in PdOwns : StepOK(Plain(x), p) /\ StepOK(Off(x), p)
  <2>1. \A x \in PdOwns : x \in File /\ Owner(x) = p  BY AllFiles, Owners
  <2>2. QED  BY <2>1, PlainOK
<1>2. StepOK(Step("tryDisable", "pd"), p) /\ StepOK(Step("tryDisable", "radvd"), p)
  BY CommandOK, KnownServices
<1>3. StepsOK(offs, p)
  <2>1. StepOK(Off("dhcp6c"), p) /\ StepOK(Off("radvd"), p) /\ StepOK(Off("nftPd"), p)
    BY <1>1 DEF PdOwns
  <2>2. QED  BY <1>2, <2>1, FiveOK
<1>4. StepsOK(written, p)
  <2>1. StepOK(unit, p)  BY CommandOK, IfOK, KnownServices
  <2>2. /\ StepOK(Plain("dhcp6c"), p) /\ StepOK(Plain("dhcp6cScript"), p)
        /\ StepOK(Plain("duid"), p) /\ StepOK(Plain("radvd"), p) /\ StepOK(Plain("pdUnit"), p)
        /\ StepOK(Plain("pdHooks"), p) /\ StepOK(Plain("nftPd"), p)
        /\ StepOK(Plain("acceptRa"), p)
    BY <1>1 DEF PdOwns
  <2>. HIDE DEF unit
  <2>3. QED  BY <2>1, <2>2, NineOK
<1>5. ASSUME NEW s \in {"pd", "radvd"}, NEW f PROVE StepsOK(again(s, f), p)
  <2>1. StepOK(Step("restart", s), p) /\ StepOK(Step("enable", s), p)
    BY CommandOK, KnownServices
  <2>2. QED  BY <2>1, IfOK, TwoOK
<1>6. StepsOK(nft1, p)
  <2>1. StepOK(Step("loadIfThere", "nft"), p)  BY CommandOK, KnownServices
  <2>2. QED  BY <2>1, IfOK, OneOK
<1>. DEFINE rest == written \o again("pd", client) \o again("radvd", {"radvd"}) \o nft1
<1>7. StepsOK(rest, p)
  <2>1. StepsOK(again("pd", client), p) /\ StepsOK(again("radvd", {"radvd"}), p)
    BY <1>5
  <2>. HIDE DEF written, again, nft1
  <2>2. QED  BY <1>4, <1>6, <2>1, ConcatOK
<1>8. Ipv6Pd(force) = IF ~On("pd") THEN offs ELSE rest
  BY DEF Ipv6Pd, PdSteps
<1>. HIDE DEF offs, rest
<1>9. QED  BY <1>3, <1>7, <1>8

\* network_firewall.py, whatever objects are selected.
LEMMA FirewallSteps == ASSUME NEW sel PROVE StepsOK(Firewall(sel), "network.firewall")
<1>. DEFINE p == "network.firewall"
            things == {"nftEntry", "nftFirewall"}
            a == Plain("nftEntry")
            b == Write("nftFirewall", Content("", sel \X {"rules"}, conf))
            c == If(things, Step("load", "nft"))
            d == If(things, Step("enable", "nft"))
<1>1. \A x \in FirewallOwns : x \in File /\ Owner(x) = p  BY AllFiles, Owners
<1>2. StepOK(a, p) /\ StepOK(b, p)  BY <1>1, PlainOK, WriteOK, ContentsOK DEF FirewallOwns
<1>3. StepOK(c, p) /\ StepOK(d, p)  BY CommandOK, IfOK, KnownServices
<1>4. Firewall(sel) = <<a, b, c, d>>  BY DEF Firewall
<1>. HIDE DEF a, b, c, d
<1>5. QED  BY <1>2, <1>3, <1>4, FourOK

\* network_dnsmasq.py, whatever objects are selected; its log file has a logrotate file.
LEMMA DnsmasqSteps == ASSUME NEW sel PROVE StepsOK(Dnsmasq(sel), "network.dnsmasq")
<1>. DEFINE p == "network.dnsmasq"
            china1 == IF On("china")
                      THEN Write("chinaConf", Content("gw", Renders["chinaConf"], conf))
                      ELSE Off("chinaConf")
            china2 == IF On("china")
                      THEN Write("chinaManual", Content("gw", Renders["chinaManual"], conf))
                      ELSE Off("chinaManual")
            china3 == IF On("china") /\ conf[<<"china", "cron">>] = 1
                      THEN Plain("chinaCron") ELSE Delete("chinaCron")
            log == <<Write("logrotate", Content("dnsmasq", {}, conf))>>
            dns == <<Plain("dnsConf")>> \o When(conf[<<"dns", "logFile">>] = 1, log)
            dhcp == <<Plain("dhcpConf")>>
            end == <<If({"chinaConf", "chinaManual", "chinaCron", "dhcpConf", "dnsConf",
                         "logrotate"}, Step("restart", "dnsmasq"))>>
<1>1. \A x \in DnsmasqOwns : /\ StepOK(Plain(x), p) /\ StepOK(Off(x), p) /\ StepOK(Delete(x), p)
                             /\ \A tag, set : StepOK(Write(x, Content(tag, set, conf)), p)
  <2>1. \A x \in DnsmasqOwns : x \in File /\ Owner(x) = p  BY AllFiles, Owners
  <2>2. QED  BY <2>1, PlainOK, WriteOK, ContentsOK
<1>2. StepsOK(<<china1, china2, china3>>, p)
  <2>1. StepOK(china1, p) /\ StepOK(china2, p) /\ StepOK(china3, p)
    BY <1>1 DEF DnsmasqOwns
  <2>. HIDE DEF china1, china2, china3
  <2>2. QED  BY <2>1, ThreeOK
<1>3. StepsOK(dns, p)
  <2>1. "logrotate" \in File  BY AllFiles DEF CoreOwns
  <2>2. StepsOK(log, p)  BY <2>1, WriteOK, ContentsOK, OneOK
  <2>3. StepsOK(<<Plain("dnsConf")>>, p)  BY <1>1, OneOK DEF DnsmasqOwns
  <2>4. StepsOK(When(conf[<<"dns", "logFile">>] = 1, log), p)
    BY <2>2, NoStepsOK DEF When
  <2>. HIDE DEF log
  <2>5. QED  BY <2>3, <2>4, ConcatOK
<1>4. StepsOK(dhcp, p)  BY <1>1, OneOK DEF DnsmasqOwns
<1>5. StepsOK(end, p)  BY CommandOK, IfOK, KnownServices, OneOK
<1>6. Dnsmasq(sel) = When("china" \in sel, <<china1, china2, china3>>)
                     \o When("dhcp" \in sel, dhcp) \o When("dns" \in sel, dns) \o end
  BY DEF Dnsmasq
<1>. DEFINE names == <<china1, china2, china3>>
<1>7. /\ StepsOK(When("china" \in sel, names), p) /\ StepsOK(When("dhcp" \in sel, dhcp), p)
      /\ StepsOK(When("dns" \in sel, dns), p)
  <2>. HIDE DEF names, dhcp, dns
  <2>1. QED  BY <1>2, <1>3, <1>4, NoStepsOK DEF When, names
<1>. HIDE DEF names, dhcp, dns, end
<1>8. QED  BY <1>5, <1>6, <1>7, ConcatOK DEF names

\* monitoring_collectd.py, by bootstrap and by update.
LEMMA CollectdSteps == ASSUME NEW install PROVE StepsOK(Collectd(install), "monitoring.collectd")
<1>. DEFINE p == "monitoring.collectd"
            things == {"collectdConf", "packages"}
            a == <<IF On("collectd") THEN Plain("collectdConf") ELSE Off("collectdConf")>>
            b == <<Step("install", "monitoring.collectd")>>
            c == <<If(things, Step("restart", "collectd")), If(things, Step("enable", "collectd"))>>
            d == <<If(things, Step("disable", "collectd"))>>
<1>1. StepsOK(a, p)
  <2>1. "collectdConf" \in File /\ Owner("collectdConf") = p  BY AllFiles, Owners
  <2>2. StepOK(IF On("collectd") THEN Plain("collectdConf") ELSE Off("collectdConf"), p)
    BY <2>1, PlainOK
  <2>3. QED  BY <2>2, OneOK
<1>2. StepsOK(b, p)  BY CommandOK, KnownServices, OneOK
<1>3. StepsOK(c, p)
  <2>1. StepOK(Step("restart", "collectd"), p) /\ StepOK(Step("enable", "collectd"), p)
    BY CommandOK, KnownServices
  <2>2. QED  BY <2>1, IfOK, TwoOK
<1>4. StepsOK(d, p)  BY CommandOK, IfOK, KnownServices, OneOK
<1>5. Collectd(install) = a \o When(install, b) \o IF On("collectd") THEN c ELSE d
  BY DEF Collectd
<1>. HIDE DEF a, b, c, d
<1>6. StepsOK(When(install, b), p)  BY <1>2, NoStepsOK DEF When
<1>7. StepsOK(IF On("collectd") THEN c ELSE d, p)  BY <1>3, <1>4
<1>8. QED  BY <1>1, <1>5, <1>6, <1>7, ConcatOK

\* network_wgsd_coredns.py, with and without the coredns binary.
LEMMA WgsdSteps == StepsOK(Wgsd, "network.wgsd-coredns")
<1>. DEFINE p == "network.wgsd-coredns"
            things == {"corefile", "wgsdUnit"}
            a == Plain("corefile")
            b == IF coredns THEN Plain("wgsdUnit") ELSE Delete("wgsdUnit")
            c == If({"wgsdUnit"}, Step("restart", "systemd"))
            d == <<If(things, Step("restart", "wgsd")), If(things, Step("enable", "wgsd"))>>
<1>1. StepOK(a, p) /\ StepOK(b, p)
  <2>1. \A x \in WgsdOwns : x \in File /\ Owner(x) = p  BY AllFiles, Owners
  <2>2. QED  BY <2>1, PlainOK DEF WgsdOwns
<1>2. StepOK(c, p)  BY CommandOK, IfOK, KnownServices
<1>3. StepsOK(d, p)
  <2>1. StepOK(Step("restart", "wgsd"), p) /\ StepOK(Step("enable", "wgsd"), p)
    BY CommandOK, KnownServices
  <2>2. QED  BY <2>1, IfOK, TwoOK
<1>4. Wgsd = <<a, b, c>> \o When(coredns, d)  BY DEF Wgsd
<1>. HIDE DEF a, b, c, d
<1>5. StepsOK(<<a, b, c>>, p)  BY <1>1, <1>2, ThreeOK
<1>6. StepsOK(When(coredns, d), p)  BY <1>3, NoStepsOK DEF When
<1>7. QED  BY <1>4, <1>5, <1>6, ConcatOK

\* docker_core.py.
LEMMA DockerSteps == StepsOK(DockerCore, "docker.core")
<1>. DEFINE p == "docker.core"
            a == Plain("daemonJson")
            b == Plain("dockerHook")
            c == Step("install", "docker.core")
            d == If({"dockerHook"}, Step("restart", "systemd"))
            e == If({"daemonJson"}, Step("restart", "docker"))
<1>1. StepOK(a, p) /\ StepOK(b, p)
  <2>1. \A x \in DockerOwns : x \in File /\ Owner(x) = p  BY AllFiles, Owners
  <2>2. QED  BY <2>1, PlainOK DEF DockerOwns
<1>2. StepOK(c, p) /\ StepOK(d, p) /\ StepOK(e, p)  BY CommandOK, IfOK, KnownServices
<1>3. DockerCore = <<a, b, c, d, e>>  BY DEF DockerCore
<1>. HIDE DEF a, b, c, d, e
<1>4. QED  BY <1>1, <1>2, <1>3, FiveOK

\* The plugins with one step.
LEMMA SmallSteps ==
    /\ StepsOK(IpLists, "ip_lists") /\ StepsOK(ResolvConf, "network.resolvconf")
    /\ StepsOK(ConfigResources, "config.resources")
    /\ StepsOK(SystemUtilities, "system.utilities")
<1>1. /\ "ipListCron" \in File /\ Owner("ipListCron") = "ip_lists"
      /\ "resolvConf" \in File /\ Owner("resolvConf") = "network.resolvconf"
      /\ "cronJob" \in File /\ Owner("cronJob") = "config.resources"
  BY AllFiles, Owners
<1>2. StepsOK(IpLists, "ip_lists")
  <2>1. StepOK(IF On("ipList") THEN Plain("ipListCron") ELSE Delete("ipListCron"), "ip_lists")
    BY <1>1, PlainOK
  <2>2. QED  BY <2>1, OneOK DEF IpLists
<1>3. StepsOK(ResolvConf, "network.resolvconf")  BY <1>1, PlainOK, OneOK DEF ResolvConf
<1>4. StepsOK(ConfigResources, "config.resources")  BY <1>1, PlainOK, OneOK DEF ConfigResources
<1>5. StepsOK(SystemUtilities, "system.utilities")
  BY CommandOK, KnownServices, OneOK DEF SystemUtilities
<1>6. QED  BY <1>2, <1>3, <1>4, <1>5

\* Every plugin keeps to its own files and packages.
LEMMA ScriptsOK ==
    ASSUME NEW mode, NEW p \in Plugin, NEW sel
    PROVE  StepsOK(Script(mode, p, sel), p)
<1>1. StepsOK(Firewall(sel \cap Kinds[p]), "network.firewall")  BY FirewallSteps
<1>2. \A force \in BOOLEAN : StepsOK(Ipv6Pd(force), "network.ipv6pd")  BY PdStepsOK
<1>3. \A install \in BOOLEAN : StepsOK(Collectd(install), "monitoring.collectd")
  BY CollectdSteps
<1>4. StepsOK(Ipv6Pd(mode = "event"), "network.ipv6pd")  BY <1>2
<1>5. StepsOK(Collectd(mode = "bootstrap"), "monitoring.collectd")  BY <1>3
<1>6. QED
  BY <1>1, <1>4, <1>5, Plugins12, MirrorSteps, CoreSteps, DnsmasqSteps, WgsdSteps, DockerSteps,
     SmallSteps DEF Script

-----------------------------------------------------------------------------
(* What is left of a list.                                                 *)

\* A set of numbers has a least one.
LEMMA LeastStep ==
    ASSUME NEW I \in SUBSET Nat, I # {}
    PROVE  Min(I) \in I /\ \A j \in I : Min(I) <= j
<1>. DEFINE R == OpToRel(<, Nat)
<1>1. IsWellFoundedOn(R, Nat)  BY NatLessThanWellFounded
<1>2. PICK n \in I : \A m \in I : ~ (<<m, n>> \in R)
  <2>. HIDE DEF R
  <2>1. QED  BY <1>1, WFMin, Zenon
<1>3. \A m \in I : ~ (m < n)  BY <1>2 DEF OpToRel
<1>4. \A m \in I : n <= m  BY <1>3
<1>5. QED  BY <1>4 DEF Min

\* What is left begins with the first step that is due.
LEMMA RestIs ==
    ASSUME NEW S, NEW steps \in Seq(S), NEW ch
    PROVE  \E i \in 1..(Len(steps) + 1) :
              /\ Rest(steps, ch) = SubSeq(steps, i, Len(steps))
              /\ i <= Len(steps) => Due(steps[i], ch)
              /\ \A j \in 1..(i - 1) : ~Due(steps[j], ch)
<1>. DEFINE I == {i \in 1..Len(steps) : Due(steps[i], ch)}
<1>1. CASE I = {}
  <2>1. Rest(steps, ch) = <<>>  BY <1>1 DEF Rest, SelectInSeq
  <2>2. SubSeq(steps, Len(steps) + 1, Len(steps)) = <<>>  OBVIOUS
  <2>3. \A j \in 1..Len(steps) : ~Due(steps[j], ch)  BY <1>1
  <2>4. QED  BY <2>1, <2>2, <2>3
<1>2. CASE I # {}
  <2>1. I \in SUBSET Nat  OBVIOUS
  <2>2. Min(I) \in I /\ \A j \in I : Min(I) <= j  BY <1>2, <2>1, LeastStep
  <2>3. Rest(steps, ch) = IF Min(I) = 0 THEN <<>> ELSE SubSeq(steps, Min(I), Len(steps))
    BY <1>2 DEF Rest, SelectInSeq
  <2>4. /\ Min(I) \in 1..Len(steps) /\ Due(steps[Min(I)], ch)
        /\ \A j \in 1..Len(steps) : Due(steps[j], ch) => Min(I) <= j
    BY <2>2
  <2>. DEFINE i == Min(I)
  <2>. HIDE DEF I, i
  <2>5. i \in 1..Len(steps) /\ Due(steps[i], ch) /\ Rest(steps, ch) = SubSeq(steps, i, Len(steps))
    BY <2>3, <2>4 DEF i
  <2>6. \A j \in 1..(i - 1) : ~Due(steps[j], ch)  BY <2>4, <2>5 DEF i
  <2>7. QED  BY <2>5, <2>6
<1>3. QED  BY <1>1, <1>2

\* What is left of a list of a plugin is one, too.
LEMMA RestOK ==
    ASSUME NEW p, NEW steps, StepsOK(steps, p), NEW ch
    PROVE  StepsOK(Rest(steps, ch), p)
<1>1. PICK S : steps \in Seq(S) /\ \A s \in S : StepOK(s, p)  BY DEF StepsOK
<1>2. PICK i \in 1..(Len(steps) + 1) : Rest(steps, ch) = SubSeq(steps, i, Len(steps))
  BY <1>1, RestIs
<1>3. SubSeq(steps, i, Len(steps)) \in Seq(S)  BY <1>1, SubSeqProperties
<1>4. QED  BY <1>1, <1>2, <1>3 DEF StepsOK

\* So is what is behind its first step.
LEMMA NowOK ==
    ASSUME NEW p, NEW steps, StepsOK(steps, p), steps # <<>>
    PROVE  StepOK(Head(steps), p) /\ StepsOK(Tail(steps), p)
<1>1. PICK S : steps \in Seq(S) /\ \A s \in S : StepOK(s, p)  BY DEF StepsOK
<1>2. Head(steps) \in S /\ Tail(steps) \in Seq(S)  BY <1>1, HeadTailProperties
<1>3. QED  BY <1>1, <1>2 DEF StepsOK

-----------------------------------------------------------------------------
(* The run in progress.                                                    *)

RunInv ==
    /\ DOMAIN run = DOMAIN Idle
    /\ ~Running => run = Idle
    /\ run.todo \subseteq Plugin /\ run.at \in Plugin \cup {""}
    /\ run.steps # <<>> \/ run.changed # {} => run.at \in Plugin
    /\ StepsOK(run.steps, run.at)
    /\ \A f \in run.changed \ {"packages", "logrotate"} : f \in File /\ Owner(f) = run.at

\* No run.
LEMMA IdleRunInv == ASSUME run = Idle PROVE RunInv
  BY NoStepsOK DEF RunInv, Idle

\* The end of a run.
LEMMA IdleThen == ASSUME (run = Idle)' PROVE RunInv'
  BY NoStepsOK DEF RunInv, Idle, Running

\* A step of a run that changed these things.
LEMMA GoOnRun ==
    ASSUME RunInv, run.steps # <<>>, NEW ch,
           \A f \in ch \ {"packages", "logrotate"} : f \in File /\ Owner(f) = run.at,
           DOMAIN run' = DOMAIN run, run'.mode = run.mode, run'.todo = run.todo, run'.at = run.at,
           run'.changed = run.changed \cup ch,
           run'.steps = Rest(Tail(run.steps), run.changed \cup ch)
    PROVE  RunInv'
<1>1. Running /\ run.at \in Plugin
  <2>1. Idle.steps = <<>>  BY DEF Idle
  <2>2. QED  BY <2>1 DEF RunInv
<1>2. StepsOK(run'.steps, run'.at)
  <2>1. StepsOK(Tail(run.steps), run.at)  BY NowOK DEF RunInv
  <2>2. QED  BY <2>1, RestOK
<1>3. QED  BY <1>1, <1>2 DEF RunInv, Running

\* The same of the operator the actions use.
LEMMA GoOnIs ==
    ASSUME RunInv, run.steps # <<>>, NEW ch, NEW did,
           \A f \in ch \ {"packages", "logrotate"} : f \in File /\ Owner(f) = run.at, GoOn(ch, did)
    PROVE  RunInv'
<1>1. /\ DOMAIN run' = DOMAIN run /\ run'.mode = run.mode /\ run'.todo = run.todo
      /\ run'.at = run.at /\ run'.changed = run.changed \cup ch
      /\ run'.steps = Rest(Tail(run.steps), run.changed \cup ch)
  BY DEF GoOn, RunInv, Idle
<1>2. QED  BY <1>1, GoOnRun

\* A run goes through plugins.
LEMMA PluginsOK == \A mode, sel : Plugins(mode, sel) \subseteq Plugin
  BY DEF Plugins

\* Every step keeps what holds of the run.
LEMMA RunStep ==
    ASSUME RunInv, Next
    PROVE  RunInv'
<1>1. ASSUME NEW mode \in {"update", "bootstrap", "event"}, NEW sel, Begin(mode, sel)
      PROVE  RunInv'
  <2>1. /\ DOMAIN run' = DOMAIN Idle /\ run'.mode = mode /\ run'.todo = Plugins(mode, sel)
        /\ run'.at = "" /\ run'.steps = <<>> /\ run'.changed = {}
    BY <1>1 DEF Begin, Idle
  <2>2. Running'  BY <2>1 DEF Running
  <2>3. run'.todo \subseteq Plugin  BY <2>1, PluginsOK, Zenon
  <2>4. StepsOK(run'.steps, run'.at)  BY <2>1, NoStepsOK, Zenon
  <2>5. QED  BY <2>1, <2>2, <2>3, <2>4 DEF RunInv
<1>2. CASE NextPlugin
  <2>1. ASSUME NEW p \in run.todo, NEW todo \in SUBSET run.todo,
               run' = [run EXCEPT !.at = p, !.todo = todo, !.changed = {}, !.steps = StepsOf(p)]
        PROVE  RunInv'
    <3>1. /\ DOMAIN run' = DOMAIN run /\ run'.at = p /\ run'.todo = todo /\ run'.changed = {}
          /\ run'.steps = StepsOf(p) /\ run'.mode = run.mode
      BY <2>1 DEF RunInv, Idle
    <3>2. StepsOK(StepsOf(p), p)
      <4>1. StepsOK(Script(run.mode, p, run.sel), p)  BY ScriptsOK DEF RunInv
      <4>2. QED  BY <4>1, RestOK DEF StepsOf
    <3>3. QED  BY <1>2, <3>1, <3>2 DEF RunInv, NextPlugin, Running
  <2>2. ASSUME run' = [run EXCEPT !.at = "", !.todo = {}, !.changed = {}]
        PROVE  RunInv'
    <3>1. /\ DOMAIN run' = DOMAIN run /\ run'.at = "" /\ run'.todo = {} /\ run'.changed = {}
          /\ run'.steps = <<>> /\ run'.mode = run.mode
      BY <1>2, <2>2 DEF RunInv, Idle, NextPlugin
    <3>2. QED  BY <1>2, <3>1, NoStepsOK DEF RunInv, NextPlugin, Running
  <2>3. \/ \E p \in run.todo : \E todo \in SUBSET run.todo :
              run' = [run EXCEPT !.at = p, !.todo = todo, !.changed = {}, !.steps = StepsOf(p)]
        \/ run' = [run EXCEPT !.at = "", !.todo = {}, !.changed = {}]
    BY <1>2 DEF NextPlugin
  <2>4. QED  BY <2>1, <2>2, <2>3
<1>3. CASE End
  <2>1. (run = Idle)'  BY <1>3 DEF End, Idle
  <2>2. QED  BY <2>1, IdleThen
<1>4. CASE Cut
  <2>1. (run = Idle)'  BY <1>4 DEF Cut, Idle
  <2>2. QED  BY <2>1, IdleThen
<1>5. CASE WriteFile
  <2>1. PICK ch \in SUBSET {Now.on} : GoOn(ch, ch)
    <3>1. \E new : GoOn(IF new = disk[Now.on] THEN {} ELSE {Now.on},
                        IF new = disk[Now.on] THEN {} ELSE {Now.on})
      BY <1>5 DEF WriteFile
    <3>2. PICK new : GoOn(IF new = disk[Now.on] THEN {} ELSE {Now.on},
                          IF new = disk[Now.on] THEN {} ELSE {Now.on})
      BY <3>1
    <3>3. QED  BY <3>2
  <2>2. run.steps # <<>> /\ StepOK(Now, run.at)  BY <1>5, NowOK DEF WriteFile, Now, RunInv
  <2>3. Now.op = "write"  BY <1>5 DEF WriteFile
  <2>4. Now.on = "logrotate" \/ (Now.on \in File /\ Owner(Now.on) = run.at)
    BY <2>2, <2>3 DEF StepOK
  <2>5. QED  BY <2>1, <2>2, <2>4, GoOnIs
<1>6. CASE Install
  <2>. DEFINE ch == {"packages"}
  <2>1. run.steps # <<>>  BY <1>6 DEF Install
  <2>2. /\ DOMAIN run' = DOMAIN run /\ run'.mode = run.mode /\ run'.todo = run.todo
        /\ run'.at = run.at /\ run'.changed = run.changed \cup ch
        /\ run'.steps = Rest(Tail(run.steps), run.changed \cup ch)
    BY <1>6 DEF Install, RunInv, Idle
  <2>3. QED  BY <2>1, <2>2, GoOnRun
<1>7. CASE MarkStale
  <2>. DEFINE ch == {}
  <2>1. run.steps # <<>>  BY <1>7 DEF MarkStale
  <2>2. run.changed \cup ch = run.changed  OBVIOUS
  <2>3. /\ DOMAIN run' = DOMAIN run /\ run'.mode = run.mode /\ run'.todo = run.todo
        /\ run'.at = run.at /\ run'.changed = run.changed \cup ch
        /\ run'.steps = Rest(Tail(run.steps), run.changed \cup ch)
    BY <1>7, <2>2 DEF MarkStale, RunInv, Idle
  <2>4. \A f \in ch \ {"packages", "logrotate"} : f \in File /\ Owner(f) = run.at  OBVIOUS
  <2>. HIDE DEF ch
  <2>5. QED  BY <2>1, <2>3, <2>4, GoOnRun
<1>8. CASE Restart
  <2>1. PICK did : GoOn({}, did)  BY <1>8 DEF Restart
  <2>2. run.steps # <<>>  BY <1>8 DEF Restart
  <2>3. QED  BY <2>1, <2>2, GoOnIs
<1>9. CASE Enable
  <2>1. GoOn({}, {}) /\ run.steps # <<>>  BY <1>9 DEF Enable
  <2>2. QED  BY <2>1, GoOnIs
<1>10. CASE Disable
  <2>1. GoOn({}, {Now.on} \cap up) /\ run.steps # <<>>  BY <1>10 DEF Disable
  <2>2. QED  BY <2>1, GoOnIs
<1>11. CASE ChinaBegin
  <2>1. \/ run' = run
        \/ Running /\ run' = [run EXCEPT !.alone = FALSE, !.again = FALSE]
    BY <1>11 DEF ChinaBegin
  <2>2. CASE run' = run  BY <2>2 DEF RunInv, Running
  <2>3. CASE Running /\ run' = [run EXCEPT !.alone = FALSE, !.again = FALSE]
    <3>1. /\ DOMAIN run' = DOMAIN run /\ run'.mode = run.mode /\ run'.todo = run.todo
          /\ run'.at = run.at /\ run'.changed = run.changed /\ run'.steps = run.steps
      BY <2>3 DEF RunInv, Idle
    <3>2. QED  BY <2>3, <3>1 DEF RunInv, Running
  <2>4. QED  BY <2>1, <2>2, <2>3
<1>16. CASE Render
  <2>1. run' = [run EXCEPT !.names = {cached}] /\ run.steps # <<>>  BY <1>16 DEF Render
  <2>2. /\ DOMAIN run' = DOMAIN run /\ run'.mode = run.mode /\ run'.todo = run.todo
        /\ run'.at = run.at /\ run'.changed = run.changed /\ run'.steps = run.steps
    BY <2>1 DEF RunInv, Idle
  <2>3. Running
    <3>1. Idle.steps = <<>>  BY DEF Idle
    <3>2. QED  BY <2>1, <3>1 DEF RunInv
  <2>4. QED  BY <2>2, <2>3 DEF RunInv, Running
<1>12. ASSUME UNCHANGED run PROVE RunInv'  BY <1>12 DEF RunInv, Running
<1>13. CASE ChinaFetch \/ ChinaWrite \/ ChinaRestart \/ ChinaCut \/ Edit \/ InstallCoredns
  BY <1>12, <1>13 DEF ChinaFetch, ChinaWrite, ChinaRestart, ChinaCut, Edit, InstallCoredns
<1>14. CASE Begins
  <2>1. \E mode \in {"update", "bootstrap", "event"} : \E sel : Begin(mode, sel)
    BY <1>14 DEF Begins
  <2>2. QED  BY <1>1, <2>1
<1>15. QED
  BY <1>2, <1>3, <1>4, <1>5, <1>6, <1>7, <1>8, <1>9, <1>10, <1>11, <1>13, <1>14, <1>16 DEF Next

-----------------------------------------------------------------------------
(* The machine.                                                            *)

ChinaPlaces == {"off", "fetch", "chinaConf", "chinaManual", "restart"}
MachineInv ==
    /\ DOMAIN conf = Setting /\ \A s \in Setting : conf[s] \in Values(s)
    /\ DOMAIN disk = File /\ \A f \in File : DOMAIN disk[f] = ContentFields
    /\ up \cup boot \subseteq Service \cup Distro /\ stale \subseteq up \X File
    /\ pkgs \subseteq DOMAIN Packages
    /\ applied \subseteq Object /\ cut \subseteq Plugin \cup {"china"}
    /\ DOMAIN china = DOMAIN NoChina /\ china.pc \in ChinaPlaces

\* What a run does next is a step of the plugin it is at.
LEMMA StepHere ==
    ASSUME RunInv, run.steps # <<>>
    PROVE  StepOK(Now, run.at) /\ run.at \in Plugin /\ Running
<1>1. StepsOK(run.steps, run.at) /\ run.at \in Plugin  BY DEF RunInv
<1>2. Running
  <2>1. Idle.steps = <<>>  BY DEF Idle
  <2>2. QED  BY <2>1 DEF RunInv
<1>3. StepOK(Now, run.at)  BY <1>1, NowOK DEF Now
<1>4. QED  BY <1>1, <1>2, <1>3

\* Rendering keeps the fields.
LEMMA RenderedOK ==
    ASSUME NEW w, DOMAIN w.what = ContentFields
    PROVE  DOMAIN Rendered(w) = ContentFields
  BY DEF Rendered, OfNames, Names

\* write_file writes what would be rendered now, or of the China names what was rendered
\* before; only what it changes counts as changed.
LEMMA FileWritten ==
    ASSUME RunInv, WriteFile
    PROVE  \E new : \E ch :
              /\ ch = IF new = disk[Now.on] THEN {} ELSE {Now.on}
              /\ DOMAIN new = ContentFields
              /\ disk' = [disk EXCEPT ![Now.on] = new] /\ stale' = stale \cup Stale(ch)
              /\ GoOn(ch, ch)
              /\ \/ new = Rendered(Now)
                 \/ Now.on = "chinaConf" /\ OfNames(Now) /\ \E n \in run.names : new = Names(Now, n)
<1>1. PICK new \in Texts :
         LET ch == IF new = disk[Now.on] THEN {} ELSE {Now.on}
         IN /\ disk' = [disk EXCEPT ![Now.on] = new] /\ stale' = stale \cup Stale(ch)
            /\ GoOn(ch, ch)
  BY DEF WriteFile
<1>2. DOMAIN Now.what = ContentFields
  <2>1. run.steps # <<>> /\ Now.op = "write"  BY DEF WriteFile
  <2>2. StepOK(Now, run.at)  BY <2>1, StepHere
  <2>3. QED  BY <2>1, <2>2 DEF StepOK
<1>3. CASE OfNames(Now)
  <2>1. PICK n \in run.names : new = Names(Now, n)  BY <1>1, <1>3 DEF Texts
  <2>2. DOMAIN new = ContentFields  BY <1>2, <2>1 DEF Names
  <2>3. QED  BY <1>1, <1>3, <2>1, <2>2 DEF OfNames
<1>4. CASE ~OfNames(Now)
  <2>1. new = Now.what  BY <1>1, <1>4 DEF Texts
  <2>2. QED  BY <1>1, <1>2, <1>4, <2>1 DEF Rendered
<1>5. QED  BY <1>3, <1>4

\* Only what runs gets stale.
LEMMA StaleIn == \A things : things \subseteq File => Stale(things) \subseteq up \X File
  BY DEF Stale

\* Starting and stopping keep what is known of the services.
LEMMA StartStop ==
    ASSUME MachineInv, NEW services, services \subseteq Service \cup Distro,
           Start(services) \/ Stop(services)
    PROVE  up' \subseteq Service \cup Distro /\ stale' \subseteq up' \X File
  BY DEF MachineInv, Start, Stop, Of

\* Every step keeps the types of the machine.
LEMMA MachineStep ==
    ASSUME RunInv, MachineInv, Next
    PROVE  MachineInv'
<1>1. CASE WriteFile
  <2>1. /\ StepOK(Now, run.at) /\ Now.op = "write"
        /\ UNCHANGED <<conf, up, boot, pkgs, china, applied, cut>>
    BY <1>1, StepHere DEF WriteFile
  <2>6. PICK new : /\ DOMAIN new = ContentFields /\ disk' = [disk EXCEPT ![Now.on] = new]
                   /\ \E ch \in SUBSET {Now.on} : stale' = stale \cup Stale(ch)
    <3>1. PICK new : \E ch : /\ ch = IF new = disk[Now.on] THEN {} ELSE {Now.on}
                             /\ DOMAIN new = ContentFields /\ disk' = [disk EXCEPT ![Now.on] = new]
                             /\ stale' = stale \cup Stale(ch)
      BY <1>1, FileWritten
    <3>2. QED  BY <3>1
  <2>2. Now.on \in File  BY <2>1 DEF StepOK
  <2>3. DOMAIN disk' = File /\ \A f \in File : DOMAIN disk'[f] = ContentFields
    BY <2>2, <2>6 DEF MachineInv
  <2>4. stale' \subseteq up \X File
    <3>1. PICK ch \in SUBSET {Now.on} : stale' = stale \cup Stale(ch)  BY <2>6
    <3>2. Stale(ch) \subseteq up \X File  BY <2>2, StaleIn
    <3>3. QED  BY <3>1, <3>2 DEF MachineInv
  <2>5. QED  BY <2>1, <2>3, <2>4 DEF MachineInv
<1>2. CASE Install
  <2>1. /\ StepOK(Now, run.at) /\ Now.op = "install"
        /\ pkgs' = pkgs \cup {Now.on} /\ Start(Packages[Now.on])
        /\ boot' = boot \cup Packages[Now.on] /\ UNCHANGED <<conf, disk, china, applied, cut>>
    BY <1>2, StepHere DEF Install
  <2>2. Now.on \in DOMAIN Packages  BY <2>1 DEF StepOK
  <2>3. Packages[Now.on] \subseteq Service \cup Distro  BY <2>2, KnownServices
  <2>4. up' \subseteq Service \cup Distro /\ stale' \subseteq up' \X File
    BY <2>1, <2>3, StartStop
  <2>5. QED  BY <2>1, <2>2, <2>3, <2>4 DEF MachineInv
<1>3. CASE Restart
  <2>1. /\ StepOK(Now, run.at) /\ Now.op \in {"restart", "load", "loadIfThere"}
        /\ \E x \in SUBSET {Now.on} : Start(x)
        /\ UNCHANGED <<conf, disk, boot, pkgs, china, applied, cut>>
    BY <1>3, StepHere DEF Restart
  <2>2. Now.on \in Service  BY <2>1 DEF StepOK
  <2>3. up' \subseteq Service \cup Distro /\ stale' \subseteq up' \X File
    BY <2>1, <2>2, StartStop
  <2>4. QED  BY <2>1, <2>3 DEF MachineInv
<1>4. CASE Enable
  <2>1. /\ StepOK(Now, run.at) /\ Now.op = "enable" /\ boot' = boot \cup {Now.on}
        /\ Start({Now.on} \ up) /\ UNCHANGED <<conf, disk, pkgs, china, applied, cut>>
    BY <1>4, StepHere DEF Enable
  <2>2. Now.on \in Service  BY <2>1 DEF StepOK
  <2>3. up' \subseteq Service \cup Distro /\ stale' \subseteq up' \X File
    BY <2>1, <2>2, StartStop
  <2>4. QED  BY <2>1, <2>2, <2>3 DEF MachineInv
<1>5. CASE Disable
  <2>1. /\ StepOK(Now, run.at) /\ run.at \in Plugin /\ Now.op \in {"disable", "tryDisable"}
        /\ \/ boot' = boot \ {Now.on} /\ Stop({Now.on}) /\ cut' = cut
           \/ cut' = cut \cup {run.at} /\ UNCHANGED <<boot, up, stale>>
        /\ UNCHANGED <<conf, disk, pkgs, china, applied>>
    BY <1>5, StepHere DEF Disable
  <2>2. Now.on \in Service \cup Distro  BY <2>1 DEF StepOK
  <2>3. CASE boot' = boot \ {Now.on} /\ Stop({Now.on}) /\ cut' = cut
    <3>1. up' \subseteq Service \cup Distro /\ stale' \subseteq up' \X File
      BY <2>2, <2>3, StartStop
    <3>2. QED  BY <2>1, <2>3, <3>1 DEF MachineInv
  <2>4. CASE cut' = cut \cup {run.at} /\ UNCHANGED <<boot, up, stale>>
    BY <2>1, <2>4 DEF MachineInv
  <2>5. QED  BY <2>1, <2>3, <2>4
<1>6. CASE Begins \/ Render \/ MarkStale \/ ChinaFetch \/ InstallCoredns
  <2>1. CASE Begins \/ Render \/ MarkStale
    <3>1. UNCHANGED <<conf, disk, up, boot, stale, pkgs, applied, cut, china>>
      BY <2>1 DEF Begins, Begin, Render, MarkStale, machine
    <3>2. QED  BY <3>1 DEF MachineInv
  <2>2. CASE ChinaFetch
    <3>1. /\ UNCHANGED <<conf, disk, up, boot, stale, pkgs, applied, cut>>
          /\ china' = [china EXCEPT !.pc = "chinaConf", !.names = cached']
      BY <2>2 DEF ChinaFetch
    <3>2. DOMAIN china' = DOMAIN NoChina /\ china'.pc = "chinaConf"
      BY <3>1 DEF MachineInv, NoChina
    <3>3. QED  BY <3>1, <3>2 DEF MachineInv, ChinaPlaces
  <2>3. CASE InstallCoredns
    <3>1. UNCHANGED <<conf, disk, up, boot, stale, pkgs, cut, china>> /\ applied' \subseteq applied
      BY <2>3 DEF InstallCoredns
    <3>2. QED  BY <3>1 DEF MachineInv
  <2>4. QED  BY <1>6, <2>1, <2>2, <2>3
<1>7. CASE NextPlugin \/ End
  <2>1. \A plugins \in SUBSET Plugin : Returned(plugins) \subseteq Object
    BY DEF Returned, MachineInv, Object
  <2>2. run.todo \subseteq Plugin  BY DEF RunInv
  <2>3. At \subseteq Plugin  BY DEF At
  <2>4. \E plugins \in SUBSET Plugin : applied' = Returned(plugins)
    <3>1. CASE End  BY <2>3, <3>1 DEF End
    <3>2. CASE NextPlugin
      <4>1. \/ \E p : applied' = Returned(At \cup {q \in run.todo : Place[q] < Place[p]})
            \/ applied' = Returned(At \cup run.todo)
        BY <3>2 DEF NextPlugin
      <4>2. QED  BY <2>2, <2>3, <4>1
    <3>3. QED  BY <1>7, <3>1, <3>2
  <2>5. UNCHANGED <<conf, disk, up, boot, stale, pkgs, cut, china>>
    BY <1>7 DEF NextPlugin, End, machine
  <2>6. QED  BY <2>1, <2>4, <2>5 DEF MachineInv
<1>8. CASE Cut
  <2>1. cut' = cut \/ (run.changed # {} /\ cut' = cut \cup {run.at})  BY <1>8 DEF Cut
  <2>2. UNCHANGED <<conf, disk, up, boot, stale, pkgs, applied, china>>  BY <1>8 DEF Cut, machine
  <2>3. QED  BY <2>1, <2>2 DEF MachineInv, RunInv
<1>9. CASE ChinaBegin \/ ChinaCut
  <2>1. UNCHANGED <<conf, disk, up, boot, stale, pkgs, applied>>
    BY <1>9 DEF ChinaBegin, ChinaCut, machine
  <2>2. DOMAIN china' = DOMAIN NoChina /\ china'.pc \in ChinaPlaces
    BY <1>9 DEF ChinaBegin, ChinaCut, NoChina, ChinaPlaces
  <2>3. cut' \subseteq cut \cup {"china"}  BY <1>9 DEF ChinaBegin, ChinaCut
  <2>4. QED  BY <2>1, <2>2, <2>3 DEF MachineInv
<1>10. CASE ChinaWrite
  <2>1. /\ china.pc \in DOMAIN ChinaFiles
        /\ disk' = [disk EXCEPT ![china.pc] = ChinaContent(china.pc)]
        /\ \E ch \in SUBSET {china.pc} : stale' = stale \cup Stale(ch)
        /\ UNCHANGED <<conf, up, boot, pkgs, applied, cut>>
    BY <1>10 DEF ChinaWrite
  <2>. DEFINE wrote == china.changed \/ disk' # disk
              next == CASE china.pc = "chinaConf" -> "chinaManual"
                        [] wrote -> "restart" [] OTHER -> "off"
  <2>2. china' = [china EXCEPT !.changed = wrote, !.pc = next]
    BY <1>10, Zenon DEF ChinaWrite
  <2>10. next \in {"chinaManual", "restart", "off"}  OBVIOUS
  <2>. HIDE DEF next, wrote
  <2>3. DOMAIN china' = DOMAIN NoChina /\ china'.pc \in ChinaPlaces
    BY <2>2, <2>10 DEF MachineInv, NoChina, ChinaPlaces
  <2>4. china.pc \in File  BY <2>1, FilesOf, AllFiles DEF DnsmasqOwns
  <2>5. DOMAIN ChinaContent(china.pc) = ContentFields  BY DEF ChinaContent, ContentFields
  <2>6. DOMAIN disk' = File /\ \A f \in File : DOMAIN disk'[f] = ContentFields
    BY <2>1, <2>4, <2>5 DEF MachineInv
  <2>7. stale' \subseteq up \X File
    <3>1. PICK ch \in SUBSET {china.pc} : stale' = stale \cup Stale(ch)  BY <2>1
    <3>2. Stale(ch) \subseteq up \X File  BY <2>4, StaleIn
    <3>3. QED  BY <3>1, <3>2 DEF MachineInv
  <2>8. QED  BY <2>1, <2>3, <2>6, <2>7 DEF MachineInv
<1>11. CASE ChinaRestart
  <2>1. /\ Start({"dnsmasq"}) /\ china' = NoChina
        /\ UNCHANGED <<conf, disk, boot, pkgs, applied, cut>>
    BY <1>11 DEF ChinaRestart
  <2>2. up' \subseteq Service \cup Distro /\ stale' \subseteq up' \X File
    BY <2>1, StartStop, KnownServices
  <2>3. DOMAIN china' = DOMAIN NoChina /\ china'.pc \in ChinaPlaces
    BY <2>1 DEF NoChina, ChinaPlaces
  <2>4. QED  BY <2>1, <2>2, <2>3 DEF MachineInv
<1>12. CASE Edit
  <2>1. PICK s \in Setting : \E v \in Values(s) : conf' = [conf EXCEPT ![s] = v]
    BY <1>12 DEF Edit
  <2>2. /\ applied' \subseteq applied /\ cut' \subseteq cut \cup {"china"}
        /\ UNCHANGED <<disk, up, boot, stale, pkgs, china>>
    BY <1>12 DEF Edit, machine
  <2>3. DOMAIN conf' = Setting /\ \A t \in Setting : conf'[t] \in Values(t)
    BY <2>1 DEF MachineInv
  <2>4. QED  BY <2>2, <2>3 DEF MachineInv
<1>13. QED
  BY <1>1, <1>2, <1>3, <1>4, <1>5, <1>6, <1>7, <1>8, <1>9, <1>10, <1>11, <1>12 DEF Next

-----------------------------------------------------------------------------
(* The package indexes.                                                    *)

SourceFiles == {"aptList", "debianSources", "dockerList", "tailscaleList"}
StaleLists == {"dockerList", "tailscaleList"}

\* The mirror plugin is the first one: it writes the Debian lists before the first
\* apt-get update of a run.  Behind a list of Docker or Tailscale that it wrote later the
\* step that marks the indexes stale is still to come.
MirrorInv ==
    /\ run.fresh \/ run.at # "" => "system.mirror" \notin run.todo
    /\ run.fresh => \/ index = SourceLists
                    \/ /\ run.at = "system.mirror" /\ run.steps # <<>>
                       /\ run.changed \cap StaleLists # {}
    /\ run.at = "system.mirror" /\ run.steps # <<>> =>
          \E i \in 1..7 : run.steps = SubSeq(SystemMirror, i, 7) /\ (i <= 3 => ~run.fresh)

\* The steps of the mirror plugin.
LEMMA MirrorList ==
    /\ SystemMirror \in Seq(ToSet(SystemMirror)) /\ Len(SystemMirror) = 7
    /\ \A i \in {1, 2, 4, 5, 6} : SystemMirror[i].op = "write"
    /\ SystemMirror[3].op = "install" /\ SystemMirror[7].op = "stale"
    /\ SystemMirror[4].on = "aptKeys" /\ SystemMirror[5].on = "dockerList"
    /\ SystemMirror[6].on = "tailscaleList"
    /\ \A ch : ch \cap StaleLists # {} => Due(SystemMirror[7], ch)
<1>. DEFINE a == Plain("aptList")
            b == Delete("debianSources")
            c == Step("install", "system.mirror")
            d == Plain("aptKeys")
            e == Plain("dockerList")
            f == Plain("tailscaleList")
            g == If({"dockerList", "tailscaleList"}, Step("stale", "index"))
<1>1. /\ a.op = "write" /\ b.op = "write" /\ d.op = "write" /\ e.op = "write" /\ f.op = "write"
      /\ c.op = "install" /\ g.op = "stale"
      /\ d.on = "aptKeys" /\ e.on = "dockerList" /\ f.on = "tailscaleList"
  BY DEF Plain, Delete, Write, Step, If
<1>2. \A ch : ch \cap StaleLists # {} => Due(g, ch)
  <2>1. g.if = StaleLists /\ g.unless = {} /\ g.op = "stale"  BY DEF If, Step, StaleLists
  <2>. HIDE DEF g
  <2>2. QED  BY <2>1 DEF Due
<1>3. SystemMirror = <<a, b, c, d, e, f, g>>  BY DEF SystemMirror
<1>. HIDE DEF a, b, c, d, e, f, g
<1>4. SystemMirror \in Seq(ToSet(SystemMirror)) /\ Len(SystemMirror) = 7
  BY <1>3 DEF ToSet
<1>5. QED  BY <1>1, <1>2, <1>3, <1>4

\* The end of a list of seven begins with its first step.
LEMMA EndOfSeven ==
    ASSUME NEW S, NEW s \in Seq(S), Len(s) = 7, NEW i \in 1..7
    PROVE  Head(SubSeq(s, i, 7)) = s[i] /\ SubSeq(s, i, 7) # <<>>
<1>1. i \in 1..Len(s) /\ 7 \in i..Len(s)  OBVIOUS
<1>2. Head(SubSeq(s, i, 7)) = s[i]  BY <1>1, HeadTailOfSubSeq
<1>3. \A k \in 1..7 : s[k] \in S  BY ElementOfSeq
<1>4. /\ i \in Int /\ 7 \in Int
      /\ \A k \in i..7 : s[k] \in S
  BY <1>3
<1>5. Len(SubSeq(s, i, 7)) = IF i <= 7 THEN 7 - i + 1 ELSE 0
  BY <1>4, SubSeqProperties
<1>6. Len(SubSeq(s, i, 7)) # 0  BY <1>5
<1>7. SubSeq(s, i, 7) # <<>>
  <2>1. Len(<<>>) = 0  OBVIOUS
  <2>2. QED  BY <1>6, <2>1, Zenon
<1>8. QED  BY <1>2, <1>7

\* What is left of the list behind its step i.
LEMMA MirrorRest ==
    ASSUME NEW i \in 1..7, NEW ch
    PROVE  /\ \/ Rest(Tail(SubSeq(SystemMirror, i, 7)), ch) = <<>>
              \/ \E j \in (i + 1)..7 :
                    Rest(Tail(SubSeq(SystemMirror, i, 7)), ch) = SubSeq(SystemMirror, j, 7)
           /\ i <= 6 /\ ch \cap StaleLists # {} =>
                Rest(Tail(SubSeq(SystemMirror, i, 7)), ch) # <<>>
<1>. DEFINE left == Rest(Tail(SubSeq(SystemMirror, i, 7)), ch)
<1>. DEFINE S == ToSet(SystemMirror)
            s == SystemMirror
            after == SubSeq(s, i + 1, 7)
<1>1. s \in Seq(S) /\ Len(s) = 7 /\ (ch \cap StaleLists # {} => Due(s[7], ch))
  BY MirrorList
<1>. HIDE DEF s, S
<1>2. Tail(SubSeq(s, i, 7)) = after  BY <1>1, HeadTailOfSubSeq
<1>3. after \in Seq(S) /\ Len(after) = 7 - i /\ \A k \in 1..(7 - i) : after[k] = s[i + k]
  <2>1. \A k \in (i + 1)..7 : s[k] \in S
    <3>1. s \in Seq(S) /\ Len(s) = 7  BY <1>1
    <3>2. \A k \in 1..7 : s[k] \in S  BY <3>1, ElementOfSeq
    <3>3. QED  BY <3>2
  <2>2. i + 1 \in Int /\ 7 \in Int  OBVIOUS
  <2>3. /\ after \in Seq(S)
        /\ Len(after) = IF i + 1 <= 7 THEN 7 - (i + 1) + 1 ELSE 0
        /\ \A k \in 1..(7 - (i + 1) + 1) : after[k] = s[(i + 1) + k - 1]
    BY <2>1, <2>2, SubSeqProperties
  <2>. HIDE DEF after
  <2>4. QED  BY <2>3
<1>4. PICK k \in 1..(Len(after) + 1) :
         /\ Rest(after, ch) = SubSeq(after, k, Len(after))
         /\ \A j \in 1..(k - 1) : ~Due(after[j], ch)
  <2>. HIDE DEF after
  <2>1. QED  BY <1>3, RestIs
<1>5. left = SubSeq(after, k, 7 - i)  BY <1>2, <1>3, <1>4 DEF s
<1>. SUFFICES /\ left = <<>> \/ \E j \in (i + 1)..7 : left = SubSeq(SystemMirror, j, 7)
              /\ i <= 6 /\ ch \cap StaleLists # {} => left # <<>>
  OBVIOUS
<1>. HIDE DEF left
<1>6. CASE k = 8 - i
  <2>1. left = <<>>  BY <1>3, <1>5, <1>6
  <2>2. i <= 6 => ~Due(s[7], ch)
    <3>1. ASSUME i <= 6 PROVE ~Due(s[7], ch)
      <4>1. 7 - i \in 1..(k - 1) /\ after[7 - i] = s[7]  BY <1>3, <1>6, <3>1
      <4>2. QED  BY <1>4, <4>1
    <3>2. QED  BY <3>1
  <2>3. QED  BY <1>1, <2>1, <2>2
<1>7. CASE k < 8 - i
  <2>1. left = SubSeq(s, i + k, 7)
    <3>1. /\ i + 1 \in 1..Len(s) /\ 7 \in 1..Len(s)
          /\ k \in 1..(7 - (i + 1) + 1) /\ 7 - i \in 1..(7 - (i + 1) + 1)
      BY <1>1, <1>3, <1>4, <1>7
    <3>2. SubSeq(after, k, 7 - i) = SubSeq(s, (i + 1) + k - 1, (i + 1) + (7 - i) - 1)
      BY <1>1, <3>1, SubSeqOfSubSeq
    <3>3. (i + 1) + k - 1 = i + k /\ (i + 1) + (7 - i) - 1 = 7  BY <1>3, <1>4
    <3>4. QED  BY <1>5, <3>2, <3>3
  <2>2. i + k \in 1..7 /\ i + k \in (i + 1)..7  BY <1>3, <1>4, <1>7
  <2>3. left # <<>>  BY <1>1, <2>1, <2>2, EndOfSeven
  <2>4. QED  BY <2>1, <2>2, <2>3 DEF s
<1>8. QED  BY <1>3, <1>4, <1>6, <1>7

\* The step the mirror plugin is at.
LEMMA MirrorNow ==
    ASSUME NEW i \in 1..7, run.steps = SubSeq(SystemMirror, i, 7)
    PROVE  /\ run.steps # <<>> /\ Now = SystemMirror[i]
           /\ Now.op = "write" => i \in {1, 2, 4, 5, 6}
           /\ Now.op = "install" => i = 3
           /\ Now.op = "stale" => i = 7
           /\ Now.op \in {"write", "install", "stale"}
<1>1. run.steps # <<>> /\ Now = SystemMirror[i]
  <2>1. SystemMirror \in Seq(ToSet(SystemMirror)) /\ Len(SystemMirror) = 7  BY MirrorList
  <2>2. QED  BY <2>1, EndOfSeven DEF Now
<1>2. QED  BY <1>1, MirrorList

\* The source lists are these four files.
LEMMA SourcesStay ==
    ASSUME \A f \in SourceFiles : disk'[f] = disk[f]
    PROVE  SourceLists' = SourceLists
  BY DEF SourceLists, SourceFiles

\* A step of another plugin that leaves the source lists and the mark alone.
LEMMA MirrorElsewhere ==
    ASSUME RunInv, MirrorInv, run.at # "system.mirror",
           run'.at = run.at, run'.todo = run.todo,
           run'.fresh => IF run.fresh THEN index' = index /\ SourceLists' = SourceLists
                                      ELSE index' = SourceLists' /\ run.at # ""
    PROVE  MirrorInv'
  BY DEF MirrorInv

\* A step of nobody.
LEMMA MirrorStays ==
    ASSUME MirrorInv, UNCHANGED <<conf, run, index>>, SourceLists' = SourceLists
    PROVE  MirrorInv'
<1>1. SystemMirror' = SystemMirror
  BY DEF SystemMirror, Plain, Delete, Write, Content, If, Step
<1>2. QED  BY <1>1 DEF MirrorInv

\* The mirror plugin comes first.
LEMMA MirrorSlot == Place["system.mirror"] = 1 /\ \A p \in Plugin \ {"system.mirror"} : Place[p] > 1
  BY DEF Place, PluginOrder, Plugin, ToSet

\* A write of the mirror plugin itself.
LEMMA MirrorWrites ==
    ASSUME RunInv, MachineInv, MirrorInv, WriteFile, run.at = "system.mirror"
    PROVE  MirrorInv'
<1>. DEFINE ch == IF Rendered(Now) = disk[Now.on] THEN {} ELSE {Now.on}
<1>1. /\ run.steps # <<>> /\ Now.op = "write"
      /\ disk' = [disk EXCEPT ![Now.on] = Rendered(Now)] /\ GoOn(ch, ch)
      /\ UNCHANGED <<conf, index>>
  <2>1. run.steps # <<>> /\ Now.op = "write" /\ UNCHANGED <<conf, index>>  BY DEF WriteFile
  <2>2. Now.on # "chinaConf"
    <3>1. StepOK(Now, run.at)  BY <2>1, StepHere
    <3>2. Now.on = "chinaConf" => Now.on \in File /\ Owner(Now.on) = "system.mirror"
      BY <2>1, <3>1 DEF StepOK
    <3>3. QED  BY <3>2, Owners DEF MirrorOwns
  <2>3. \E new : new = Rendered(Now) /\ disk' = [disk EXCEPT ![Now.on] = new]
                /\ GoOn(IF new = disk[Now.on] THEN {} ELSE {Now.on},
                        IF new = disk[Now.on] THEN {} ELSE {Now.on})
    BY <2>2, FileWritten
  <2>4. QED  BY <2>1, <2>3
<1>2. PICK i \in 1..7 : run.steps = SubSeq(SystemMirror, i, 7) /\ (i <= 3 => ~run.fresh)
  BY <1>1 DEF MirrorInv
<1>3. Now = SystemMirror[i] /\ i \in {1, 2, 4, 5, 6}  BY <1>1, <1>2, MirrorNow
<1>4. SystemMirror' = SystemMirror
  BY <1>1 DEF SystemMirror, Plain, Delete, Write, Content, If, Step
<1>5. /\ run'.at = run.at /\ run'.todo = run.todo /\ run'.fresh = run.fresh
      /\ run'.changed = run.changed \cup ch
      /\ run'.steps = Rest(Tail(SubSeq(SystemMirror, i, 7)), run.changed \cup ch)
  BY <1>1, <1>2 DEF GoOn, RunInv, Idle
<1>. HIDE DEF ch
<1>6. /\ run'.steps # <<>> => \E j \in (i + 1)..7 : run'.steps = SubSeq(SystemMirror, j, 7)
      /\ run'.changed \cap StaleLists # {} => run'.steps # <<>>
  <2>1. i <= 6  BY <1>3
  <2>. DEFINE things == run.changed \cup ch
  <2>. HIDE DEF things
  <2>2. /\ \/ Rest(Tail(SubSeq(SystemMirror, i, 7)), things) = <<>>
           \/ \E j \in (i + 1)..7 :
                 Rest(Tail(SubSeq(SystemMirror, i, 7)), things) = SubSeq(SystemMirror, j, 7)
        /\ i <= 6 /\ things \cap StaleLists # {} =>
             Rest(Tail(SubSeq(SystemMirror, i, 7)), things) # <<>>
    BY MirrorRest
  <2>3. run'.changed = things /\ run'.steps = Rest(Tail(SubSeq(SystemMirror, i, 7)), things)
    BY <1>5 DEF things
  <2>4. QED  BY <2>1, <2>2, <2>3, Zenon
<1>7. run'.steps # <<>> =>
         \E j \in 1..7 : run'.steps = SubSeq(SystemMirror', j, 7) /\ (j <= 3 => ~run'.fresh)
  <2>1. ASSUME NEW j \in (i + 1)..7, run'.steps = SubSeq(SystemMirror, j, 7)
        PROVE  \E k \in 1..7 : run'.steps = SubSeq(SystemMirror', k, 7) /\ (k <= 3 => ~run'.fresh)
    <3>1. j \in 1..7 /\ (j <= 3 => i <= 3)  OBVIOUS
    <3>2. QED  BY <1>2, <1>4, <1>5, <2>1, <3>1
  <2>2. QED  BY <1>6, <2>1
<1>8. ASSUME run'.fresh, run'.changed \cap StaleLists = {}
      PROVE  index' = SourceLists'
  <2>1. run.fresh /\ run.changed \cap StaleLists = {} /\ ch \cap StaleLists = {}
    BY <1>5, <1>8
  <2>2. index = SourceLists  BY <2>1 DEF MirrorInv
  <2>3. i \in {4, 5, 6}  BY <1>2, <1>3, <2>1
  <2>4. Now.on \in {"aptKeys", "dockerList", "tailscaleList"}  BY <1>3, <2>3, MirrorList
  <2>5. \A f \in SourceFiles : disk'[f] = disk[f]
    <3>1. SourceFiles \subseteq File /\ DOMAIN disk = File
      BY AllFiles DEF MachineInv, SourceFiles, MirrorOwns
    <3>2. CASE Now.on = "aptKeys"  BY <1>1, <3>1, <3>2 DEF SourceFiles
    <3>3. CASE Now.on \in StaleLists
      <4>1. Rendered(Now) = disk[Now.on]  BY <2>1, <3>3 DEF ch
      <4>2. QED  BY <1>1, <3>1, <4>1
    <3>4. QED  BY <2>4, <3>2, <3>3 DEF StaleLists
  <2>6. QED  BY <1>1, <2>2, <2>5, SourcesStay
<1>9. QED  BY <1>5, <1>6, <1>7, <1>8 DEF MirrorInv

\* Every step keeps what holds of the indexes.
LEMMA MirrorStep ==
    ASSUME RunInv, MachineInv, MirrorInv, Next
    PROVE  MirrorInv'
<1>1. CASE Begins \/ End \/ Cut
  <2>1. run'.fresh = FALSE /\ run'.at = ""
    <3>1. ASSUME NEW mode, NEW sel, Begin(mode, sel) PROVE run'.fresh = FALSE /\ run'.at = ""
      BY <3>1 DEF Begin, Idle
    <3>2. CASE Begins
      <4>1. \E mode, sel : Begin(mode, sel)  BY <3>2 DEF Begins
      <4>2. QED  BY <3>1, <4>1
    <3>3. End \/ Cut => run' = Idle  BY DEF End, Cut
    <3>4. Idle.fresh = FALSE /\ Idle.at = ""  BY DEF Idle
    <3>5. QED  BY <1>1, <3>2, <3>3, <3>4
  <2>2. QED  BY <2>1 DEF MirrorInv
<1>2. CASE NextPlugin
  <2>1. /\ run.steps = <<>> /\ UNCHANGED <<conf, index, disk>> BY <1>2 DEF NextPlugin, machine
  <2>2. SourceLists' = SourceLists  BY <2>1 DEF SourceLists
  <2>3. run.fresh => index = SourceLists  BY <2>1 DEF MirrorInv
  <2>4. ASSUME NEW p \in run.todo, 
               run' = [run EXCEPT !.at = p,
                                  !.todo = @ \ ({q \in run.todo : Place[q] < Place[p]} \cup {p}),
                                  !.changed = {}, !.steps = StepsOf(p)]
        PROVE  MirrorInv'
    <3>1. /\ run'.at = p /\ run'.fresh = run.fresh /\ run'.steps = StepsOf(p)
          /\ run'.todo = run.todo \ ({q \in run.todo : Place[q] < Place[p]} \cup {p})
      BY <2>4 DEF RunInv, Idle
    <3>2. "system.mirror" \notin run'.todo
      <4>1. CASE p = "system.mirror"  BY <3>1, <4>1
      <4>2. CASE p # "system.mirror"
        <5>1. p \in Plugin  BY DEF RunInv
        <5>2. Place["system.mirror"] < Place[p]  BY <4>2, <5>1, MirrorSlot
        <5>3. QED  BY <3>1, <5>2
      <4>3. QED  BY <4>1, <4>2
    <3>3. CASE p = "system.mirror"
      <4>1. ~run.fresh  BY <3>3 DEF MirrorInv
      <4>2. SystemMirror' = SystemMirror
        BY <2>1 DEF SystemMirror, Plain, Delete, Write, Content, If, Step
      <4>3. StepsOf(p) = Rest(SystemMirror, {})  BY <3>3 DEF StepsOf, Script
      <4>4. SystemMirror \in Seq(ToSet(SystemMirror)) /\ Len(SystemMirror) = 7  BY MirrorList
      <4>5. PICK i \in 1..8 : StepsOf(p) = SubSeq(SystemMirror, i, 7)
        <5>1. PICK i \in 1..(Len(SystemMirror) + 1) :
                 Rest(SystemMirror, {}) = SubSeq(SystemMirror, i, Len(SystemMirror))
          BY <4>4, RestIs
        <5>2. i \in 1..8  BY <4>4, <5>1
        <5>3. QED  BY <4>3, <4>4, <5>1, <5>2
      <4>6. i = 8 => StepsOf(p) = <<>>
        <5>1. 8 \in Int /\ 7 \in Int /\ 7 < 8  OBVIOUS
        <5>2. SubSeq(SystemMirror, 8, 7) = <<>>  BY <5>1, SubSeqEmpty
        <5>3. QED  BY <4>5, <5>2
      <4>7. run'.steps # <<>> =>
               \E j \in 1..7 : run'.steps = SubSeq(SystemMirror', j, 7) /\ (j <= 3 => ~run'.fresh)
        <5>1. i \in 1..7 \/ i = 8  BY <4>5
        <5>2. run'.steps = SubSeq(SystemMirror', i, 7) /\ ~run'.fresh
          BY <3>1, <4>1, <4>2, <4>5
        <5>3. QED  BY <3>1, <4>6, <5>1, <5>2
      <4>8. ~run'.fresh  BY <3>1, <4>1
      <4>9. QED  BY <3>2, <4>7, <4>8 DEF MirrorInv
    <3>4. CASE p # "system.mirror"
      BY <2>1, <2>2, <2>3, <3>1, <3>2, <3>4 DEF MirrorInv
    <3>5. QED  BY <3>3, <3>4
  <2>5. ASSUME run' = [run EXCEPT !.at = "", !.todo = {}, !.changed = {}]
        PROVE  MirrorInv'
    <3>1. run'.at = "" /\ run'.todo = {} /\ run'.fresh = run.fresh
      BY <2>5 DEF RunInv, Idle
    <3>2. QED  BY <2>1, <2>2, <2>3, <3>1 DEF MirrorInv
  <2>6. QED  BY <1>2, <2>4, <2>5 DEF NextPlugin
<1>3. CASE WriteFile
  <2>1. CASE run.at = "system.mirror"  BY <1>3, <2>1, MirrorWrites
  <2>2. CASE run.at # "system.mirror"
    <3>1. /\ run'.at = run.at /\ run'.todo = run.todo /\ run'.fresh = run.fresh
          /\ (\E new : disk' = [disk EXCEPT ![Now.on] = new]) /\ index' = index
          /\ run.steps # <<>> /\ Now.op = "write"
      BY <1>3 DEF WriteFile, GoOn, RunInv, Idle
    <3>2. StepOK(Now, run.at)  BY <3>1, StepHere
    <3>3. Now.on \in File /\ (Now.on = "logrotate" \/ Owner(Now.on) # "system.mirror")
      BY <2>2, <3>1, <3>2 DEF StepOK
    <3>4. Now.on \notin SourceFiles  BY <3>3, Owners DEF SourceFiles, MirrorOwns
    <3>5. \A f \in SourceFiles : disk'[f] = disk[f]
      <4>1. SourceFiles \subseteq File /\ DOMAIN disk = File
        BY AllFiles DEF MachineInv, SourceFiles, MirrorOwns
      <4>2. QED  BY <3>1, <3>4, <4>1
    <3>6. SourceLists' = SourceLists  BY <3>5, SourcesStay
    <3>7. QED  BY <2>2, <3>1, <3>6, MirrorElsewhere DEF MirrorInv
  <2>3. QED  BY <2>1, <2>2
<1>4. CASE Install
  <2>1. /\ run'.at = run.at /\ run'.todo = run.todo /\ run'.fresh = TRUE
        /\ disk' = disk /\ conf' = conf /\ run.steps # <<>> /\ Now.op = "install"
        /\ index' = IF run.fresh THEN index ELSE SourceLists
        /\ run'.steps = Rest(Tail(run.steps), run.changed \cup {"packages"})
    BY <1>4 DEF Install, RunInv, Idle
  <2>2. SourceLists' = SourceLists  BY <2>1 DEF SourceLists
  <2>3. run.at \in Plugin  BY <2>1 DEF RunInv
  <2>4. CASE run.at # "system.mirror"
    <3>1. run.at # ""  BY <2>3, Plugins12
    <3>2. QED  BY <2>1, <2>2, <2>4, <3>1, MirrorElsewhere
  <2>5. CASE run.at = "system.mirror"
    <3>1. PICK i \in 1..7 : run.steps = SubSeq(SystemMirror, i, 7) /\ (i <= 3 => ~run.fresh)
      BY <2>1, <2>5 DEF MirrorInv
    <3>2. i = 3  BY <2>1, <3>1, MirrorNow
    <3>3. index' = SourceLists'  BY <2>1, <2>2, <3>1, <3>2
    <3>4. run'.steps # <<>> => \E j \in 4..7 : run'.steps = SubSeq(SystemMirror, j, 7)
      <4>1. run'.steps = Rest(Tail(SubSeq(SystemMirror, i, 7)), run.changed \cup {"packages"})
        BY <2>1, <3>1
      <4>2. run'.steps # <<>> => \E j \in (i + 1)..7 : run'.steps = SubSeq(SystemMirror, j, 7)
        <5>. DEFINE things == run.changed \cup {"packages"}
        <5>. HIDE DEF things
        <5>1. \/ Rest(Tail(SubSeq(SystemMirror, i, 7)), things) = <<>>
              \/ \E j \in (i + 1)..7 :
                    Rest(Tail(SubSeq(SystemMirror, i, 7)), things) = SubSeq(SystemMirror, j, 7)
          BY MirrorRest
        <5>2. run'.steps = Rest(Tail(SubSeq(SystemMirror, i, 7)), things)  BY <4>1 DEF things
        <5>3. QED  BY <5>1, <5>2, Zenon
      <4>3. QED  BY <3>2, <4>2
    <3>5. SystemMirror' = SystemMirror
      BY <2>1 DEF SystemMirror, Plain, Delete, Write, Content, If, Step
    <3>6. \A j \in 4..7 : j \in 1..7 /\ ~(j <= 3)  OBVIOUS
    <3>7. "system.mirror" \notin run'.todo  BY <2>1, <2>5 DEF MirrorInv
    <3>8. QED  BY <3>3, <3>4, <3>5, <3>6, <3>7 DEF MirrorInv
  <2>6. QED  BY <2>4, <2>5
<1>5. CASE MarkStale
  <2>1. /\ run'.at = run.at /\ run'.todo = run.todo /\ run'.fresh = FALSE
        /\ conf' = conf /\ run.steps # <<>> /\ Now.op = "stale"
        /\ run'.steps = Rest(Tail(run.steps), run.changed)
    BY <1>5 DEF MarkStale, RunInv, Idle
  <2>2. run.at = "system.mirror"  BY <2>1, StepHere DEF StepOK
  <2>3. PICK i \in 1..7 : run.steps = SubSeq(SystemMirror, i, 7)  BY <2>1, <2>2 DEF MirrorInv
  <2>4. i = 7  BY <2>1, <2>3, MirrorNow
  <2>5. run'.steps = <<>>
    <3>1. run'.steps = Rest(Tail(SubSeq(SystemMirror, i, 7)), run.changed)  BY <2>1, <2>3
    <3>2. run'.steps # <<>> => \E j \in (i + 1)..7 : run'.steps = SubSeq(SystemMirror, j, 7)
      <4>1. \/ Rest(Tail(SubSeq(SystemMirror, i, 7)), run.changed) = <<>>
            \/ \E j \in (i + 1)..7 :
                  Rest(Tail(SubSeq(SystemMirror, i, 7)), run.changed) = SubSeq(SystemMirror, j, 7)
        BY MirrorRest
      <4>2. QED  BY <3>1, <4>1, Zenon
    <3>3. QED  BY <2>4, <3>2
  <2>6. QED  BY <2>1, <2>2, <2>5 DEF MirrorInv
<1>6. CASE Restart \/ Enable \/ Disable
  <2>1. /\ run'.at = run.at /\ run'.todo = run.todo /\ run'.fresh = run.fresh
        /\ UNCHANGED <<disk, index>> /\ run.steps # <<>>
        /\ Now.op \notin {"write", "install", "stale"}
    BY <1>6 DEF Restart, Enable, Disable, GoOn, RunInv, Idle
  <2>2. SourceLists' = SourceLists  BY <2>1 DEF SourceLists
  <2>3. run.at # "system.mirror"
    <3>1. SUFFICES ASSUME run.at = "system.mirror" PROVE FALSE  OBVIOUS
    <3>2. PICK i \in 1..7 : run.steps = SubSeq(SystemMirror, i, 7)  BY <2>1, <3>1 DEF MirrorInv
    <3>3. QED  BY <2>1, <3>2, MirrorNow
  <2>4. QED  BY <2>1, <2>2, <2>3, MirrorElsewhere
<1>7. CASE ChinaBegin
  <2>1. UNCHANGED <<conf, disk, index>>  BY <1>7 DEF ChinaBegin, machine
  <2>2. SourceLists' = SourceLists  BY <2>1 DEF SourceLists
  <2>3. /\ run'.at = run.at /\ run'.todo = run.todo /\ run'.fresh = run.fresh
        /\ run'.steps = run.steps /\ run'.changed = run.changed
    BY <1>7 DEF ChinaBegin, RunInv, Idle
  <2>4. SystemMirror' = SystemMirror
    BY <2>1 DEF SystemMirror, Plain, Delete, Write, Content, If, Step
  <2>5. QED  BY <2>1, <2>2, <2>3, <2>4 DEF MirrorInv
<1>12. CASE Render
  <2>1. UNCHANGED <<conf, disk, index>>  BY <1>12 DEF Render, machine
  <2>2. SourceLists' = SourceLists  BY <2>1 DEF SourceLists
  <2>3. /\ run'.at = run.at /\ run'.todo = run.todo /\ run'.fresh = run.fresh
        /\ run'.steps = run.steps /\ run'.changed = run.changed
    BY <1>12 DEF Render, RunInv, Idle
  <2>4. SystemMirror' = SystemMirror
    BY <2>1 DEF SystemMirror, Plain, Delete, Write, Content, If, Step
  <2>5. QED  BY <2>1, <2>2, <2>3, <2>4 DEF MirrorInv
<1>8. CASE ChinaFetch \/ ChinaRestart \/ ChinaCut \/ InstallCoredns
  <2>1. UNCHANGED <<conf, disk, index, run>>
    BY <1>8 DEF ChinaFetch, ChinaRestart, ChinaCut, InstallCoredns, machine
  <2>2. SourceLists' = SourceLists  BY <2>1 DEF SourceLists
  <2>3. QED  BY <2>1, <2>2, MirrorStays
<1>9. CASE ChinaWrite
  <2>1. /\ UNCHANGED <<conf, index, run>> /\ china.pc \in DOMAIN ChinaFiles
        /\ disk' = [disk EXCEPT ![china.pc] = ChinaContent(china.pc)]
    BY <1>9 DEF ChinaWrite
  <2>2. china.pc \notin SourceFiles  BY <2>1, FilesOf DEF SourceFiles
  <2>3. \A f \in SourceFiles : disk'[f] = disk[f]
    <3>1. SourceFiles \subseteq File /\ DOMAIN disk = File
      BY AllFiles DEF MachineInv, SourceFiles, MirrorOwns
    <3>2. QED  BY <2>1, <2>2, <3>1
  <2>4. QED  BY <2>1, <2>3, SourcesStay, MirrorStays
<1>10. CASE Edit
  <2>1. run = Idle /\ run' = run  BY <1>10 DEF Edit, RunInv
  <2>2. run'.fresh = FALSE /\ run'.at = ""  BY <2>1 DEF Idle
  <2>3. QED  BY <2>2 DEF MirrorInv
<1>11. QED
  BY <1>1, <1>2, <1>3, <1>4, <1>5, <1>6, <1>7, <1>8, <1>9, <1>10, <1>12 DEF Next

\* Packages come from the indexes of the source lists on the disk.
LEMMA FreshHere ==
    ASSUME RunInv, MachineInv, MirrorInv, Next, pkgs' # pkgs
    PROVE  index' = SourceLists
<1>1. Install
  BY DEF Next, Begins, Begin, NextPlugin, End, Render, WriteFile, MarkStale, Restart, Enable,
         Disable, Cut, ChinaBegin, ChinaFetch, ChinaWrite, ChinaRestart, ChinaCut, Edit, InstallCoredns,
         machine
<1>2. /\ run.steps # <<>> /\ Now.op = "install"
      /\ index' = IF run.fresh THEN index ELSE SourceLists
  BY <1>1 DEF Install
<1>3. CASE run.at = "system.mirror"
  <2>1. PICK i \in 1..7 : run.steps = SubSeq(SystemMirror, i, 7) /\ (i <= 3 => ~run.fresh)
    BY <1>2, <1>3 DEF MirrorInv
  <2>2. i = 3  BY <1>2, <2>1, MirrorNow
  <2>3. QED  BY <1>2, <2>1, <2>2
<1>4. QED  BY <1>2, <1>3 DEF MirrorInv

-----------------------------------------------------------------------------
(* The theorems about the plugins.                                         *)

PluginInv == RunInv /\ MachineInv /\ MirrorInv /\ behind \in BOOLEAN
PluginHolds == part = "plugins" => PluginInv

\* The record of the China names is a flag.
LEMMA BehindStep ==
    ASSUME behind \in BOOLEAN, Next
    PROVE  behind' \in BOOLEAN
<1>1. CASE WriteFile
  <2>1. behind' = IF Now.on = "chinaConf" THEN ~(run.names \subseteq {cached}) ELSE behind
    BY <1>1 DEF WriteFile
  <2>2. QED  BY <2>1
<1>2. CASE ChinaWrite
  <2>1. behind' = (behind /\ china.pc # "chinaConf")  BY <1>2 DEF ChinaWrite
  <2>2. QED  BY <2>1
<1>3. behind' = behind \/ WriteFile \/ ChinaWrite
  BY DEF Next, Begins, Begin, NextPlugin, End, Render, Install, MarkStale, Restart, Enable,
         Disable, Cut, ChinaBegin, ChinaFetch, ChinaRestart, ChinaCut, Edit, InstallCoredns
<1>4. QED  BY <1>1, <1>2, <1>3

\* What a full bootstrap and update would write is a content.
LEMMA WritesOK ==
    ASSUME NEW p \in Plugin, NEW w \in Writes(p)
    PROVE  DOMAIN w.what = ContentFields
<1>1. StepsOK(Script("bootstrap", p, Object), p)  BY ScriptsOK
<1>2. PICK S : Script("bootstrap", p, Object) \in Seq(S) /\ \A s \in S : StepOK(s, p)
  BY <1>1 DEF StepsOK
<1>3. w \in S /\ w.op = "write"  BY <1>2 DEF Writes, ToSet
<1>4. QED  BY <1>2, <1>3 DEF StepOK

\* The machine is set up or new.
LEMMA PluginsStart == Init => PluginInv
<1> SUFFICES ASSUME Init PROVE PluginInv  OBVIOUS
<1>1. RunInv  BY IdleRunInv DEF Init
<1>2. MirrorInv  BY DEF Init, MirrorInv, Idle
<1>3. DOMAIN china = DOMAIN NoChina /\ china.pc \in ChinaPlaces
  BY DEF Init, NoChina, ChinaPlaces
<1>4. ASSUME conf = [s \in Setting |-> 1] \/ \E on \in 0..1 : conf = [s \in Setting |-> IF s \in Switches THEN on ELSE 1]
      PROVE  DOMAIN conf = Setting /\ \A s \in Setting : conf[s] \in Values(s)
  BY <1>4 DEF Values, Rejected
<1>5. stale = {} /\ cut = {} /\ behind = FALSE  BY DEF Init
<1>6. CASE Steady
  <2>1. DOMAIN conf = Setting /\ \A s \in Setting : conf[s] \in Values(s)
    BY <1>4, <1>6 DEF Steady
  <2>2. DOMAIN disk = File /\ \A f \in File : DOMAIN disk[f] = ContentFields
    <3>. DEFINE W(f) == {w \in Writes(Owner(f)) : w.on = f}
                there(f) == IF W(f) = {} THEN Absent ELSE Rendered(CHOOSE w \in W(f) : TRUE)
    <3>1. ASSUME NEW f \in File PROVE DOMAIN there(f) = ContentFields
      <4>1. CASE W(f) = {}  BY <4>1, ContentsOK
      <4>2. CASE W(f) # {}
        <5>1. (CHOOSE w \in W(f) : TRUE) \in Writes(Owner(f))  BY <4>2
        <5>2. Owner(f) \in Plugin  BY Owners
        <5>. DEFINE one == CHOOSE w \in W(f) : TRUE
        <5>. HIDE DEF one
        <5>3. DOMAIN one.what = ContentFields  BY <5>1, <5>2, WritesOK DEF one
        <5>4. DOMAIN Rendered(one) = ContentFields  BY <5>3, RenderedOK
        <5>5. QED  BY <4>2, <5>4 DEF one
      <4>3. QED  BY <4>1, <4>2
    <3>2. disk = [f \in File |-> there(f)]  BY <1>6, Zenon DEF Steady
    <3>. HIDE DEF there
    <3>3. QED  BY <3>1, <3>2
  <2>3. up \subseteq Service /\ boot \subseteq up /\ pkgs = DOMAIN Packages /\ applied = Object
    BY <1>6 DEF Steady
  <2>4. QED  BY <1>1, <1>2, <1>3, <1>5, <2>1, <2>2, <2>3 DEF PluginInv, MachineInv
<1>7. CASE New
  <2>1. DOMAIN conf = Setting /\ \A s \in Setting : conf[s] \in Values(s)
    BY <1>4, <1>7 DEF New
  <2>2. DOMAIN disk = File /\ \A f \in File : DOMAIN disk[f] = ContentFields
    BY <1>7, ContentsOK DEF New
  <2>3. /\ pkgs \subseteq DOMAIN Packages /\ boot = UNION {Packages[p] : p \in pkgs}
        /\ up = boot \cup AtBoot /\ applied = {}
    BY <1>7 DEF New
  <2>4. boot \subseteq Service \cup Distro
    <3>1. \A p \in pkgs : Packages[p] \subseteq Service \cup Distro  BY <2>3, KnownServices
    <3>2. QED  BY <2>3, <3>1
  <2>5. AtBoot \subseteq Service  BY KnownServices DEF AtBoot
  <2>6. QED  BY <1>1, <1>2, <1>3, <1>5, <2>1, <2>2, <2>3, <2>4, <2>5 DEF PluginInv, MachineInv
<1>8. QED  BY <1>6, <1>7 DEF Init

\* A step of either side.
LEMMA PluginsStay ==
    ASSUME PluginHolds, [OfPlugins(Next) \/ OfInterfaces(Net!Next)]_all
    PROVE  PluginHolds'
<1>1. CASE UNCHANGED all \/ OfInterfaces(Net!Next)
  <2>1. UNCHANGED <<part, vars>>  BY <1>1 DEF all, OfInterfaces
  <2>2. UNCHANGED <<part, conf, disk, up, stale, boot, pkgs, index, run, china, applied, cut, behind>>
    BY <2>1 DEF vars, machine
  <2>3. (SourceLists' = SourceLists) /\ (SystemMirror' = SystemMirror)
    BY <2>2 DEF SourceLists, SystemMirror, Plain, Delete, Write, Content, If, Step
  <2>4. RunInv => RunInv'  BY <2>2 DEF RunInv, Running
  <2>5. MachineInv => MachineInv'  BY <2>2 DEF MachineInv
  <2>6. MirrorInv => MirrorInv'  BY <2>2, <2>3, MirrorStays
  <2>7. QED  BY <2>2, <2>4, <2>5, <2>6 DEF PluginHolds, PluginInv
<1>2. CASE OfPlugins(Next)
  BY <1>2, RunStep, MachineStep, MirrorStep, BehindStep DEF OfPlugins, PluginHolds, PluginInv
<1>3. QED  BY <1>1, <1>2

\* The inductive invariant holds of the plugins' half of every behaviour.
THEOREM PluginsInvariant == UpdateSpec => []PluginHolds
<1>1. PluginsInit \/ NetInit => PluginHolds
  BY PluginsStart DEF PluginsInit, NetInit, PluginHolds
<1>2. PluginHolds /\ [OfPlugins(Next) \/ OfInterfaces(Net!Next)]_all => PluginHolds'
  BY PluginsStay
<1>3. QED  BY <1>1, <1>2, PTL DEF UpdateSpec

\* Whatever is run, edited, cut short or killed in any order: packages are installed from
\* indexes that were read after the last change of the source lists (executor.py
\* apt_install, system_mirror.py).
THEOREM PackagesComeFresh == UpdateSpec => IndexesFresh
<1>1. PluginHolds /\ [OfPlugins(Next) \/ OfInterfaces(Net!Next)]_all
         => [pkgs' # pkgs => index' = SourceLists]_vars
  <2> SUFFICES ASSUME PluginHolds, [OfPlugins(Next) \/ OfInterfaces(Net!Next)]_all, pkgs' # pkgs
               PROVE  index' = SourceLists
    OBVIOUS
  <2>1. OfPlugins(Next)
    BY DEF all, OfInterfaces, vars, machine
  <2>2. QED  BY <2>1, FreshHere DEF OfPlugins, PluginHolds, PluginInv
<1>2. QED  BY <1>1, PluginsInvariant, PTL DEF UpdateSpec, IndexesFresh

\* Both halves keep their types for any sets, bounds and interfaces, and a plugin sees
\* only changes to its own files.
THEOREM UpdateTypes == UpdateSpec => []UpdateTypeOK
<1>. DEFINE Parts == part \in {"plugins", "interfaces"}
<1>1. PluginsInit \/ NetInit => Parts  BY DEF PluginsInit, NetInit
<1>2. Parts /\ [OfPlugins(Next) \/ OfInterfaces(Net!Next)]_all => Parts'
  BY DEF OfPlugins, OfInterfaces, all
<1>3. UpdateSpec => []Parts
  <2>. HIDE DEF Parts
  <2>1. QED  BY <1>1, <1>2, PTL DEF UpdateSpec
<1>4. PluginInv => TypeOK
  BY DEF PluginInv, RunInv, MachineInv, TypeOK, ContentFields
<1>5. NetInv => Net!TypeOK
  <2>. SUFFICES ASSUME NetShapes, LoopInv PROVE Net!TypeOK  BY DEF NetInv
  <2>. DEFINE Later == 0..MaxSourceEdits
  <2>1. EditedVersion \subseteq Later /\ sourceEdits \in 0..MaxSourceEdits
    BY UpdateBoundsAssumption DEF NetShapes, EditedVersion
  <2>. HIDE DEF Later
  <2>2. source \in [Interfaces -> [fragment : Later, aux : Later]]  BY <2>1 DEF NetShapes
  <2>3. /\ {aux, nft} \subseteq [Interfaces -> Later]
        /\ firewall \in BOOLEAN /\ nftLive \in [Interfaces -> Later \cup {Net!NoRules}]
    BY <2>1 DEF NetShapes
  <2>4. link \in [Interfaces -> [state : {"down", "half", "up"}, fragment : Later, aux : Later]]
    BY <2>1 DEF NetShapes
  <2>5. files \subseteq [name : Interfaces, number : 0..Net!Cardinality(Interfaces), version : Later]
    <3>. DEFINE n == 0..Cardinality(Interfaces)
    <3>1. 0..Net!Cardinality(Interfaces) = n  BY SameCardinality
    <3>. HIDE DEF n
    <3>2. files \subseteq [name : Interfaces, number : n, version : Later]
      BY <2>1 DEF NetShapes, NetFiles, n
    <3>3. QED  BY <3>1, <3>2
  <2>6. Net!Version = Later  BY DEF Net!Version, Later
  <2>7. /\ defined \in SUBSET Interfaces /\ selected \subseteq loaded.defined
        /\ pc \in {"idle", "aux", "nft", "rename", "prune", "write", "apply", "ifdown", "ifup",
                   "reconcile", "firewall"}
        /\ work \subseteq loaded.defined /\ (work = {} <=> pc = "idle")
        /\ changed \in SUBSET {"file", "aux", "nft"} /\ outcome \in {"none", "ok", "failed"}
        /\ sourceEdits \in 0..MaxSourceEdits /\ updates \in 0..MaxUpdates /\ faults \in 0..MaxFaults
        /\ linkCut \subseteq Interfaces \X {"link", "nft"} /\ bounced \subseteq Interfaces
    BY DEF NetShapes, LoopInv
  <2>8. QED  BY <2>2, <2>3, <2>4, <2>5, <2>6, <2>7, Zenon DEF Net!TypeOK
<1>6. Parts /\ PluginHolds /\ NetHolds => UpdateTypeOK
  <2>. SUFFICES ASSUME Parts, PluginHolds, NetHolds PROVE UpdateTypeOK  OBVIOUS
  <2>1. CASE part = "plugins"  BY <1>4, <2>1 DEF PluginHolds, UpdateTypeOK
  <2>2. CASE part = "interfaces"  BY <1>5, <2>2 DEF NetHolds, UpdateTypeOK
  <2>3. QED  BY <2>1, <2>2
<1>. HIDE DEF Parts
<1>7. QED  BY <1>3, <1>6, PluginsInvariant, InterfacesInvariant, PTL

-----------------------------------------------------------------------------
(* What the plugins write.                                                 *)

\* The objects whose settings are in a file.
ObjectsOf(f) ==
    CASE f = "dnsConf" -> {"dns"}
      [] f = "dhcpConf" -> {"dhcp"}
      [] f \in {"chinaConf", "chinaManual", "chinaCron"} -> {"china"}
      [] OTHER -> Kinds[Owner(f)]

\* The files that the configuration asks for, and what a run with these objects
\* selected writes into them.
Wanted(f) ==
    /\ f # "logrotate"
    /\ f = "cloudIfaces" => conf[<<"network", "cloudInit">>] = 1
    /\ f \in {"dhcp6cScript", "duid", "pdUnit", "pdHooks", "acceptRa"} => On("pd")
Rules(sel) == Content("", (sel \cap {"main", "guest"}) \X {"rules"}, conf)
Want(f, sel) ==
    CASE f \in {"debianSources", "cloudIfaces"} -> Delete(f)
      [] f \in {"dhcp6c", "radvd", "nftPd"} -> IF On("pd") THEN Plain(f) ELSE Off(f)
      [] f = "cloudNet" -> IF conf[<<"network", "cloudInit">>] = 1 THEN Plain(f) ELSE Delete(f)
      [] f \in {"chinaConf", "chinaManual"} ->
            IF On("china") THEN Write(f, Content("gw", Renders[f], conf)) ELSE Off(f)
      [] f = "chinaCron" -> IF On("china") /\ conf[<<"china", "cron">>] = 1 THEN Plain(f) ELSE Delete(f)
      [] f = "ipListCron" -> IF On("ipList") THEN Plain(f) ELSE Delete(f)
      [] f = "collectdConf" -> IF On("collectd") THEN Plain(f) ELSE Off(f)
      [] f = "wgsdUnit" -> IF coredns THEN Plain(f) ELSE Delete(f)
      [] f = "nftFirewall" -> Write(f, Rules(sel))
      [] OTHER -> Plain(f)

\* The writes of a list with these steps: of files of p, as they are wanted, and of all
\* those of the selected objects.
WritesAsWanted(S, p, sel) ==
    /\ \A w \in S : w.op = "write" /\ w.on # "logrotate" =>
          w.on \in File /\ Owner(w.on) = p /\ Wanted(w.on) /\ w = Want(w.on, sel)
    /\ \A f \in File : Owner(f) = p /\ Wanted(f) /\ ObjectsOf(f) \subseteq sel => Want(f, sel) \in S

\* The steps of a list.
Lists(steps, S) == steps \in Seq(S) /\ S \subseteq ToSet(steps)

\* The set of the steps of a list is the one it lists.
LEMMA ListsIs ==
    ASSUME NEW steps, NEW S, Lists(steps, S)
    PROVE  ToSet(steps) = S
  BY DEF Lists, ToSet

\* Two lists, one after the other.
LEMMA ListsConcat ==
    ASSUME NEW a, NEW b, NEW A, NEW B, Lists(a, A), Lists(b, B)
    PROVE  Lists(a \o b, A \cup B)
<1>1. a \in Seq(A \cup B) /\ b \in Seq(A \cup B)  BY DEF Lists
<1>2. a \o b \in Seq(A \cup B)  BY <1>1
<1>3. ASSUME NEW x \in A PROVE x \in ToSet(a \o b)
  <2>1. PICK i \in 1..Len(a) : a[i] = x  BY <1>1 DEF Lists, ToSet
  <2>2. i \in 1..Len(a \o b) /\ (a \o b)[i] = x  BY <1>1, <2>1
  <2>3. QED  BY <1>2, <2>2 DEF ToSet
<1>4. ASSUME NEW x \in B PROVE x \in ToSet(a \o b)
  <2>1. PICK i \in 1..Len(b) : b[i] = x  BY <1>1 DEF Lists, ToSet
  <2>2. Len(a) + i \in 1..Len(a \o b) /\ (a \o b)[Len(a) + i] = x  BY <1>1, <2>1
  <2>3. QED  BY <1>2, <2>2 DEF ToSet
<1>5. QED  BY <1>2, <1>3, <1>4 DEF Lists

\* No steps.
LEMMA ListsNone == Lists(<<>>, {})
  BY DEF Lists

\* Steps that are taken under a condition.
LEMMA ListsWhen ==
    ASSUME NEW a, NEW A, Lists(a, A), NEW cond \in BOOLEAN
    PROVE  Lists(When(cond, a), IF cond THEN A ELSE {})
  BY ListsNone DEF When

\* The steps of a list that is written out.
LEMMA ListsShort ==
    /\ \A a : Lists(<<a>>, {a})
    /\ \A a, b : Lists(<<a, b>>, {a, b})
    /\ \A a, b, c : Lists(<<a, b, c>>, {a, b, c})
    /\ \A a, b, c, d : Lists(<<a, b, c, d>>, {a, b, c, d})
    /\ \A a, b, c, d, e : Lists(<<a, b, c, d, e>>, {a, b, c, d, e})
<1>1. \A a : Lists(<<a>>, {a})  BY DEF Lists, ToSet
<1>2. \A a, b : Lists(<<a, b>>, {a, b})  BY DEF Lists, ToSet
<1>3. \A a, b, c : Lists(<<a, b, c>>, {a, b, c})  BY DEF Lists, ToSet
<1>4. \A a, b, c, d : Lists(<<a, b, c, d>>, {a, b, c, d})  BY DEF Lists, ToSet
<1>5. \A a, b, c, d, e : Lists(<<a, b, c, d, e>>, {a, b, c, d, e})  BY DEF Lists, ToSet
<1>6. QED  BY <1>1, <1>2, <1>3, <1>4, <1>5

\* The same of longer ones.
LEMMA ListsLong ==
    /\ \A a, b, c, d, e, f, g : Lists(<<a, b, c, d, e, f, g>>, {a, b, c, d, e, f, g})
    /\ \A a, b, c, d, e, f, g, h, i :
          Lists(<<a, b, c, d, e, f, g, h, i>>, {a, b, c, d, e, f, g, h, i})
<1>1. \A a, b, c, d, e, f, g : Lists(<<a, b, c, d, e, f, g>>, {a, b, c, d, e, f, g})
  BY DEF Lists, ToSet
<1>2. \A a, b, c, d, e, f, g, h, i :
         Lists(<<a, b, c, d, e, f, g, h, i>>, {a, b, c, d, e, f, g, h, i})
  BY DEF Lists, ToSet
<1>3. QED  BY <1>1, <1>2

\* The objects of each file, written out.
LEMMA ObjectsAre ==
    ASSUME NEW f \in File
    PROVE  /\ f \in MirrorOwns => ObjectsOf(f) = {"mirror"}
           /\ f \in CoreOwns => ObjectsOf(f) = {"network"}
           /\ f \in PdOwns => ObjectsOf(f) = {"pd"}
           /\ f \in FirewallOwns => ObjectsOf(f) = {"main", "guest"}
           /\ f = "dnsConf" => ObjectsOf(f) = {"dns"}
           /\ f = "dhcpConf" => ObjectsOf(f) = {"dhcp"}
           /\ f \in {"chinaConf", "chinaManual", "chinaCron"} => ObjectsOf(f) = {"china"}
           /\ f \in WgsdOwns => ObjectsOf(f) = {"wgsd"}
           /\ f \in DockerOwns => ObjectsOf(f) = {"registry"}
           /\ f = "resolvConf" => ObjectsOf(f) = {"resolv"}
           /\ f = "cronJob" => ObjectsOf(f) = {"cron"}
           /\ f = "ipListCron" => ObjectsOf(f) = {"ipList"}
           /\ f = "collectdConf" => ObjectsOf(f) = {"collectd"}
<1>1. /\ Kinds["system.mirror"] = {"mirror"} /\ Kinds["network.core"] = {"network"}
      /\ Kinds["network.ipv6pd"] = {"pd"} /\ Kinds["network.firewall"] = {"main", "guest"}
      /\ Kinds["network.resolvconf"] = {"resolv"} /\ Kinds["ip_lists"] = {"ipList"}
      /\ Kinds["config.resources"] = {"cron"} /\ Kinds["monitoring.collectd"] = {"collectd"}
      /\ Kinds["network.wgsd-coredns"] = {"wgsd"} /\ Kinds["docker.core"] = {"registry"}
  BY Plugins12 DEF Kinds
<1>2. QED
  BY <1>1, Owners DEF ObjectsOf, MirrorOwns, CoreOwns, PdOwns, FirewallOwns, WgsdOwns, DockerOwns

\* Which settings are in a file.
LEMMA RendersAre ==
    ASSUME NEW f \in File, NEW s \in Renders[f]
    PROVE  s[1] \in ObjectsOf(f) /\ s \in Setting
<1>1. PICK r \in Renderers : f \in DOMAIN r /\ Renders[f] = r[f]
  <2>1. \E r \in Renderers : f \in DOMAIN r  BY DEF File
  <2>2. Renders[f] = (CHOOSE r \in Renderers : f \in DOMAIN r)[f]  BY DEF Renders
  <2>3. QED  BY <2>1, <2>2
<1>2. s \in Setting  BY DEF Setting
<1>3. s \in r[f]  BY <1>1
<1>4. CASE r = MirrorFiles
  BY <1>1, <1>2, <1>3, <1>4, FilesOf, ObjectsAre DEF MirrorFiles, MirrorOwns
<1>5. CASE r = CoreFiles
  BY <1>1, <1>2, <1>3, <1>5, FilesOf, ObjectsAre DEF CoreFiles, CoreOwns
<1>6. CASE r = DockerFiles
  BY <1>1, <1>2, <1>3, <1>6, FilesOf, ObjectsAre DEF DockerFiles, DockerOwns
<1>7. CASE r \in {PdClientFiles, PdRadvdFiles, PdUnitFiles, PdSysctl, PdNftFiles}
  <2>1. ObjectsOf(f) = {"pd"}  BY <1>1, <1>7, FilesOf, ObjectsAre DEF PdOwns
  <2>2. s[1] = "pd"
    BY <1>1, <1>3, <1>7, FilesOf DEF PdClientFiles, PdRadvdFiles, PdUnitFiles, PdSysctl, PdNftFiles
  <2>3. QED  BY <1>2, <2>1, <2>2
<1>8. CASE r = FirewallFiles
  BY <1>1, <1>2, <1>3, <1>8, FilesOf, ObjectsAre DEF FirewallFiles, FirewallOwns
<1>9. CASE r = DnsFiles  BY <1>1, <1>2, <1>3, <1>9, FilesOf, ObjectsAre DEF DnsFiles
<1>10. CASE r = DhcpFiles  BY <1>1, <1>2, <1>3, <1>10, FilesOf, ObjectsAre DEF DhcpFiles
<1>11. CASE r = ChinaFiles  BY <1>1, <1>2, <1>3, <1>11, FilesOf, ObjectsAre DEF ChinaFiles
<1>12. CASE r = ChinaCronFiles
  BY <1>1, <1>2, <1>3, <1>12, FilesOf, ObjectsAre DEF ChinaCronFiles
<1>13. CASE r = ResolvFiles  BY <1>1, <1>2, <1>3, <1>13, FilesOf, ObjectsAre DEF ResolvFiles
<1>14. CASE r = CronFiles  BY <1>1, <1>2, <1>3, <1>14, FilesOf, ObjectsAre DEF CronFiles
<1>15. CASE r = IpListFiles  BY <1>1, <1>2, <1>3, <1>15, FilesOf, ObjectsAre DEF IpListFiles
<1>16. CASE r = CollectdFiles  BY <1>1, <1>2, <1>3, <1>16, FilesOf, ObjectsAre DEF CollectdFiles
<1>17. CASE r = WgsdFiles
  BY <1>1, <1>2, <1>3, <1>17, FilesOf, ObjectsAre DEF WgsdFiles, WgsdOwns
<1>18. QED
  BY <1>1, <1>2, <1>4, <1>5, <1>6, <1>7, <1>8, <1>9, <1>10, <1>11, <1>12, <1>13, <1>14, <1>15, <1>16,
     <1>17 DEF Renderers

-----------------------------------------------------------------------------
(* What each list writes.                                                  *)

WritesRight(steps, p, sel) == \E S : Lists(steps, S) /\ WritesAsWanted(S, p, sel)

\* The fields of a write.
LEMMA WriteIs ==
    /\ \A f, content : Write(f, content).on = f /\ Write(f, content).op = "write"
    /\ \A f, content : Write(f, content).what = content
    /\ \A f, content : Write(f, content).if = {"always"} /\ Write(f, content).unless = {}
  BY DEF Write, Step

\* What is wanted is a write of the file, whatever else has changed.
LEMMA WantIs ==
    ASSUME NEW f, NEW sel
    PROVE  /\ Want(f, sel).on = f /\ Want(f, sel).op = "write"
           /\ Want(f, sel).if = {"always"} /\ Want(f, sel).unless = {}
<1>1. \E content : Want(f, sel) = Write(f, content)
  <2>1. \E content : Plain(f) = Write(f, content)  BY Zenon DEF Plain
  <2>2. \E content : Delete(f) = Write(f, content)  BY Zenon DEF Delete
  <2>3. \E content : Off(f) = Write(f, content)  BY Zenon DEF Off
  <2>4. \/ Want(f, sel) = Plain(f) \/ Want(f, sel) = Delete(f) \/ Want(f, sel) = Off(f)
        \/ Want(f, sel) = Write(f, Content("gw", Renders[f], conf))
        \/ Want(f, sel) = Write(f, Rules(sel))
    BY DEF Want
  <2>5. QED  BY <2>1, <2>2, <2>3, <2>4, Zenon
<1>2. PICK content : Want(f, sel) = Write(f, content)  BY <1>1
<1>3. /\ Write(f, content).on = f /\ Write(f, content).op = "write"
      /\ Write(f, content).if = {"always"} /\ Write(f, content).unless = {}
  BY WriteIs
<1>4. QED  BY <1>2, <1>3

\* Commands are not writes.
LEMMA NotWrites ==
    ASSUME NEW op, NEW on, op # "write", NEW things
    PROVE  /\ Step(op, on).op # "write" /\ If(things, Step(op, on)).op # "write"
           /\ [Step(op, on) EXCEPT !.unless = things].op # "write"
  BY DEF Step, If

\* Writes that are wanted, and other steps.
LEMMA WritesOf ==
    ASSUME NEW p, NEW sel, NEW F \in SUBSET File, NEW C,
           \A c \in C : c.op # "write" \/ c.on = "logrotate",
           \A f \in F : Owner(f) = p /\ Wanted(f),
           \A f \in File : Owner(f) = p /\ Wanted(f) /\ ObjectsOf(f) \subseteq sel => f \in F
    PROVE  WritesAsWanted({Want(f, sel) : f \in F} \cup C, p, sel)
  BY WantIs DEF WritesAsWanted

\* The package mirror writes what is wanted of its files.
LEMMA MirrorWanted == ASSUME NEW sel PROVE WritesRight(SystemMirror, "system.mirror", sel)
<1>. DEFINE a == Plain("aptList")
            b == Delete("debianSources")
            c == Step("install", "system.mirror")
            d == Plain("aptKeys")
            e == Plain("dockerList")
            f == Plain("tailscaleList")
            g == If({"dockerList", "tailscaleList"}, Step("stale", "index"))
            F == MirrorOwns
            C == {c, g}
<1>1. /\ a = Want("aptList", sel) /\ b = Want("debianSources", sel) /\ d = Want("aptKeys", sel)
      /\ e = Want("dockerList", sel) /\ f = Want("tailscaleList", sel)
  BY DEF Want
<1>2. c.op # "write" /\ g.op # "write"  BY NotWrites
<1>3. SystemMirror = <<a, b, c, d, e, f, g>>  BY DEF SystemMirror
<1>. HIDE DEF a, b, c, d, e, f, g
<1>4. WritesAsWanted({Want(x, sel) : x \in F} \cup C, "system.mirror", sel)
  <2>1. F \subseteq File  BY AllFiles
  <2>2. \A x \in F : Owner(x) = "system.mirror" /\ Wanted(x)
    BY <2>1, Owners DEF MirrorOwns, Wanted
  <2>3. \A x \in File : Owner(x) = "system.mirror" => x \in F  BY Owners
  <2>4. \A x \in C : x.op # "write"  BY <1>2
  <2>. HIDE DEF F, C
  <2>5. QED  BY <2>1, <2>2, <2>3, <2>4, WritesOf
<1>5. {Want(x, sel) : x \in F} \cup C = {a, b, c, d, e, f, g}  BY <1>1 DEF MirrorOwns
<1>6. Lists(SystemMirror, {a, b, c, d, e, f, g})  BY <1>3, ListsLong
<1>7. QED  BY <1>4, <1>5, <1>6 DEF WritesRight

\* So does the network core plugin, with cloud-init and without.
LEMMA CoreWanted == ASSUME NEW sel PROVE WritesRight(NetworkCore, "network.core", sel)
<1>. DEFINE init == conf[<<"network", "cloudInit">>] = 1
            a == Plain("hostname")
            b == Plain("hosts")
            c == Plain("cloudHostname")
            d == Plain("cloudNet")
            e == Delete("cloudIfaces")
            d2 == Delete("cloudNet")
            g == Plain("sysctl")
            h == Plain("dnsmasqConf")
            i == Plain("logrotate")
            j == Plain("avahi")
            k == Step("install", "network.core")
            l == Step("tryDisable", "tailscaled")
            m == Step("tryDisable", "wideDhcp")
            n == If({"hostname"}, Step("restart", "hostname"))
            o == If({"sysctl"}, Step("restart", "sysctl"))
            F == IF init THEN CoreOwns \ {"logrotate"} ELSE CoreOwns \ {"logrotate", "cloudIfaces"}
            C == {i, k, l, m, n, o}
            S == {a, b, c} \cup (IF init THEN {d, e} ELSE {d2}) \cup {g, h, i, j, k, l, m, n, o}
<1>1. /\ a = Want("hostname", sel) /\ b = Want("hosts", sel) /\ c = Want("cloudHostname", sel)
      /\ e = Want("cloudIfaces", sel) /\ g = Want("sysctl", sel) /\ h = Want("dnsmasqConf", sel)
      /\ j = Want("avahi", sel)
      /\ IF init THEN d = Want("cloudNet", sel) ELSE d2 = Want("cloudNet", sel)
  BY DEF Want
<1>2. /\ i.on = "logrotate" /\ k.op # "write" /\ l.op # "write" /\ m.op # "write"
      /\ n.op # "write" /\ o.op # "write"
  <2>1. i.on = "logrotate"  BY WriteIs DEF Plain
  <2>2. QED  BY <2>1, NotWrites
<1>3. Lists(NetworkCore, S)
  <2>1. NetworkCore = <<a, b, c>> \o (IF init THEN <<d, e>> ELSE <<d2>>)
                      \o <<g, h, i, j, k, l, m, n, o>>
    BY DEF NetworkCore
  <2>. HIDE DEF init, a, b, c, d, e, d2, g, h, i, j, k, l, m, n, o
  <2>2. Lists(<<a, b, c>>, {a, b, c})  BY ListsShort
  <2>3. Lists(IF init THEN <<d, e>> ELSE <<d2>>, IF init THEN {d, e} ELSE {d2})
    BY ListsShort
  <2>4. Lists(<<g, h, i, j, k, l, m, n, o>>, {g, h, i, j, k, l, m, n, o})  BY ListsLong
  <2>5. QED  BY <2>1, <2>2, <2>3, <2>4, ListsConcat
<1>4. WritesAsWanted({Want(x, sel) : x \in F} \cup C, "network.core", sel)
  <2>1. F \subseteq File  BY AllFiles
  <2>2. \A x \in F : Owner(x) = "network.core" /\ Wanted(x)
    BY <2>1, Owners DEF CoreOwns, Wanted
  <2>3. \A x \in File : Owner(x) = "network.core" /\ Wanted(x) => x \in F
    BY Owners DEF Wanted
  <2>4. \A x \in C : x.op # "write" \/ x.on = "logrotate"  BY <1>2
  <2>. HIDE DEF F, C
  <2>5. QED  BY <2>1, <2>2, <2>3, <2>4, WritesOf
<1>. HIDE DEF init, a, b, c, d, e, d2, g, h, i, j, k, l, m, n, o
<1>5. {Want(x, sel) : x \in F} \cup C = S
  <2>1. CASE init  BY <1>1, <2>1 DEF CoreOwns
  <2>2. CASE ~init  BY <1>1, <2>2 DEF CoreOwns
  <2>3. QED  BY <2>1, <2>2
<1>6. QED  BY <1>3, <1>4, <1>5 DEF WritesRight

\* So does the prefix delegation, on and off.
LEMMA PdWanted ==
    ASSUME NEW force, NEW sel
    PROVE  WritesRight(Ipv6Pd(force), "network.ipv6pd", sel)
<1>. DEFINE always == IF force THEN {"always"} ELSE {}
            client == {"dhcp6c", "dhcp6cScript", "duid"}
            a == IF On("pd") THEN Plain("dhcp6c") ELSE Off("dhcp6c")
            b == IF On("pd") THEN Plain("radvd") ELSE Off("radvd")
            c == IF On("pd") THEN Plain("nftPd") ELSE Off("nftPd")
            d == Step("tryDisable", "pd")
            e == Step("tryDisable", "radvd")
            f == Plain("dhcp6cScript")
            g == Plain("duid")
            h == Plain("pdUnit")
            i == Plain("pdHooks")
            j == If({"pdUnit"}, Step("restart", "systemd"))
            k == Plain("acceptRa")
            l == If(client \cup always, Step("restart", "pd"))
            m == [Step("enable", "pd") EXCEPT !.unless = client \cup always]
            n == If({"radvd"} \cup always, Step("restart", "radvd"))
            o == [Step("enable", "radvd") EXCEPT !.unless = {"radvd"} \cup always]
            q == If({"nftPd"} \cup always, Step("loadIfThere", "nft"))
            C == IF On("pd") THEN {j, l, m, n, o, q} ELSE {d, e}
            F == IF On("pd") THEN PdOwns ELSE {"dhcp6c", "radvd", "nftPd"}
            S == IF On("pd") THEN {a, f, g, b, h, i, c, j, k} \cup {l, m} \cup {n, o} \cup {q}
                             ELSE {a, b, c, d, e}
<1>1. /\ a = Want("dhcp6c", sel) /\ b = Want("radvd", sel) /\ c = Want("nftPd", sel)
      /\ f = Want("dhcp6cScript", sel) /\ g = Want("duid", sel) /\ h = Want("pdUnit", sel)
      /\ i = Want("pdHooks", sel) /\ k = Want("acceptRa", sel)
  BY DEF Want
<1>2. \A x \in {d, e, j, l, m, n, o, q} : x.op # "write"
  <2>1. d.op # "write" /\ e.op # "write" /\ j.op # "write" /\ l.op # "write"  BY NotWrites
  <2>2. m.op # "write" /\ o.op # "write"  BY NotWrites
  <2>3. n.op # "write" /\ q.op # "write"  BY NotWrites
  <2>. HIDE DEF d, e, j, l, m, n, o, q
  <2>4. QED  BY <2>1, <2>2, <2>3
<1>3. Lists(Ipv6Pd(force), S)
  <2>1. CASE On("pd")
    <3>1. Ipv6Pd(force) = <<a, f, g, b, h, i, c, j, k>> \o <<l, m>> \o <<n, o>> \o <<q>>
      BY <2>1 DEF Ipv6Pd, PdSteps
    <3>. HIDE DEF a, b, c, d, e, f, g, h, i, j, k, l, m, n, o, q
    <3>2. Lists(<<a, f, g, b, h, i, c, j, k>>, {a, f, g, b, h, i, c, j, k})  BY ListsLong
    <3>3. Lists(<<l, m>>, {l, m}) /\ Lists(<<n, o>>, {n, o}) /\ Lists(<<q>>, {q})  BY ListsShort
    <3>4. Lists(<<a, f, g, b, h, i, c, j, k>> \o <<l, m>>, {a, f, g, b, h, i, c, j, k} \cup {l, m})
      BY <3>2, <3>3, ListsConcat
    <3>5. Lists(<<a, f, g, b, h, i, c, j, k>> \o <<l, m>> \o <<n, o>>,
                {a, f, g, b, h, i, c, j, k} \cup {l, m} \cup {n, o})
      BY <3>3, <3>4, ListsConcat
    <3>6. Lists(Ipv6Pd(force), {a, f, g, b, h, i, c, j, k} \cup {l, m} \cup {n, o} \cup {q})
      BY <3>1, <3>3, <3>5, ListsConcat
    <3>7. QED  BY <2>1, <3>6
  <2>2. CASE ~On("pd")
    <3>1. Ipv6Pd(force) = <<a, b, c, d, e>>  BY <2>2 DEF Ipv6Pd, PdSteps
    <3>2. QED  BY <2>2, <3>1, ListsShort
  <2>3. QED  BY <2>1, <2>2
<1>. HIDE DEF a, b, c, d, e, f, g, h, i, j, k, l, m, n, o, q
<1>4. WritesAsWanted({Want(x, sel) : x \in F} \cup C, "network.ipv6pd", sel)
  <2>1. F \subseteq File  BY AllFiles DEF PdOwns
  <2>2. \A x \in F : Owner(x) = "network.ipv6pd" /\ Wanted(x)
    BY <2>1, Owners DEF PdOwns, Wanted
  <2>3. \A x \in File : Owner(x) = "network.ipv6pd" /\ Wanted(x) => x \in F
    BY Owners DEF Wanted, PdOwns
  <2>4. \A x \in C : x.op # "write"  BY <1>2
  <2>. HIDE DEF F, C
  <2>5. QED  BY <2>1, <2>2, <2>3, <2>4, WritesOf
<1>5. {Want(x, sel) : x \in F} \cup C = S
  <2>1. CASE On("pd")  BY <1>1, <2>1 DEF PdOwns
  <2>2. CASE ~On("pd")  BY <1>1, <2>2
  <2>3. QED  BY <2>1, <2>2
<1>6. QED  BY <1>3, <1>4, <1>5 DEF WritesRight

\* So does the firewall, with the rules of the selected objects.
LEMMA FirewallWanted ==
    ASSUME NEW sel
    PROVE  WritesRight(Firewall(sel \cap Kinds["network.firewall"]), "network.firewall", sel)
<1>. DEFINE p == "network.firewall"
            things == {"nftEntry", "nftFirewall"}
            a == Plain("nftEntry")
            b == Write("nftFirewall", Content("", (sel \cap Kinds[p]) \X {"rules"}, conf))
            c == If(things, Step("load", "nft"))
            d == If(things, Step("enable", "nft"))
            F == FirewallOwns
            C == {c, d}
<1>1. a = Want("nftEntry", sel) /\ b = Want("nftFirewall", sel)
  <2>1. Kinds[p] = {"main", "guest"}  BY Plugins12 DEF Kinds
  <2>2. QED  BY <2>1 DEF Want, Rules
<1>2. c.op # "write" /\ d.op # "write"  BY NotWrites
<1>3. Firewall(sel \cap Kinds[p]) = <<a, b, c, d>>  BY DEF Firewall
<1>. HIDE DEF a, b, c, d
<1>4. WritesAsWanted({Want(x, sel) : x \in F} \cup C, p, sel)
  <2>1. F \subseteq File  BY AllFiles
  <2>2. \A x \in F : Owner(x) = p /\ Wanted(x)  BY <2>1, Owners DEF FirewallOwns, Wanted
  <2>3. \A x \in File : Owner(x) = p => x \in F  BY Owners
  <2>4. \A x \in C : x.op # "write"  BY <1>2
  <2>. HIDE DEF F, C
  <2>5. QED  BY <2>1, <2>2, <2>3, <2>4, WritesOf
<1>5. {Want(x, sel) : x \in F} \cup C = {a, b, c, d}  BY <1>1 DEF FirewallOwns
<1>6. Lists(<<a, b, c, d>>, {a, b, c, d})  BY ListsShort
<1>7. QED  BY <1>3, <1>4, <1>5, <1>6 DEF WritesRight

\* So does dnsmasq, of the selected objects.
LEMMA DnsmasqWanted == ASSUME NEW sel PROVE WritesRight(Dnsmasq(sel), "network.dnsmasq", sel)
<1>. DEFINE p == "network.dnsmasq"
            a == IF On("china") THEN Write("chinaConf", Content("gw", Renders["chinaConf"], conf))
                                ELSE Off("chinaConf")
            b == IF On("china") THEN Write("chinaManual", Content("gw", Renders["chinaManual"], conf))
                                ELSE Off("chinaManual")
            c == IF On("china") /\ conf[<<"china", "cron">>] = 1
                 THEN Plain("chinaCron") ELSE Delete("chinaCron")
            d == Plain("dhcpConf")
            e == Plain("dnsConf")
            f == Write("logrotate", Content("dnsmasq", {}, conf))
            g == If({"chinaConf", "chinaManual", "chinaCron", "dhcpConf", "dnsConf", "logrotate"},
                    Step("restart", "dnsmasq"))
            file == conf[<<"dns", "logFile">>] = 1
            names == <<a, b, c>>
            dns == <<e>> \o When(file, <<f>>)
            A == IF "china" \in sel THEN {a, b, c} ELSE {}
            B == IF "dhcp" \in sel THEN {d} ELSE {}
            D == IF "dns" \in sel THEN {e} \cup (IF file THEN {f} ELSE {}) ELSE {}
            F == (IF "china" \in sel THEN {"chinaConf", "chinaManual", "chinaCron"} ELSE {})
                 \cup (IF "dhcp" \in sel THEN {"dhcpConf"} ELSE {})
                 \cup (IF "dns" \in sel THEN {"dnsConf"} ELSE {})
            C == {g} \cup (IF "dns" \in sel /\ file THEN {f} ELSE {})
<1>1. /\ a = Want("chinaConf", sel) /\ b = Want("chinaManual", sel) /\ c = Want("chinaCron", sel)
      /\ d = Want("dhcpConf", sel) /\ e = Want("dnsConf", sel)
  BY DEF Want
<1>2. g.op # "write" /\ f.on = "logrotate"  BY NotWrites, WriteIs
<1>3. Dnsmasq(sel) = When("china" \in sel, names) \o When("dhcp" \in sel, <<d>>)
                     \o When("dns" \in sel, dns) \o <<g>>
  BY DEF Dnsmasq
<1>. HIDE DEF a, b, c, d, e, f, g, file
<1>4. Lists(Dnsmasq(sel), A \cup B \cup D \cup {g})
  <2>1. Lists(When("china" \in sel, names), A)
    <3>1. Lists(names, {a, b, c})  BY ListsShort
    <3>. HIDE DEF names
    <3>2. QED  BY <3>1, ListsNone DEF When
  <2>2. Lists(When("dhcp" \in sel, <<d>>), B)  BY ListsShort, ListsNone DEF When
  <2>3. Lists(When("dns" \in sel, dns), D)
    <3>1. Lists(When(file, <<f>>), IF file THEN {f} ELSE {})  BY ListsShort, ListsNone DEF When
    <3>2. Lists(dns, {e} \cup (IF file THEN {f} ELSE {}))
      <4>1. Lists(<<e>>, {e})  BY ListsShort
      <4>2. QED  BY <3>1, <4>1, ListsConcat
    <3>. HIDE DEF dns
    <3>3. QED  BY <3>2, ListsNone DEF When
  <2>4. Lists(<<g>>, {g})  BY ListsShort
  <2>. DEFINE x == When("china" \in sel, names)
              y == When("dhcp" \in sel, <<d>>)
              z == When("dns" \in sel, dns)
  <2>. HIDE DEF A, B, D, x, y, z
  <2>5. Lists(x, A) /\ Lists(y, B) /\ Lists(z, D)  BY <2>1, <2>2, <2>3 DEF x, y, z
  <2>6. Lists(x \o y, A \cup B)  BY <2>5, ListsConcat
  <2>7. Lists(x \o y \o z, A \cup B \cup D)  BY <2>5, <2>6, ListsConcat
  <2>8. Lists(x \o y \o z \o <<g>>, A \cup B \cup D \cup {g})  BY <2>4, <2>7, ListsConcat
  <2>9. QED  BY <1>3, <2>8 DEF x, y, z
<1>5. WritesAsWanted({Want(x, sel) : x \in F} \cup C, p, sel)
  <2>1. F \subseteq File  BY AllFiles DEF DnsmasqOwns
  <2>2. \A x \in F : Owner(x) = p /\ Wanted(x)
    BY <2>1, Owners DEF DnsmasqOwns, Wanted
  <2>3. ASSUME NEW x \in File, Owner(x) = p, ObjectsOf(x) \subseteq sel PROVE x \in F
    <3>1. x \in DnsmasqOwns  BY <2>3, Owners
    <3>2. QED  BY <2>3, <3>1, ObjectsAre DEF DnsmasqOwns
  <2>4. \A x \in C : x.op # "write" \/ x.on = "logrotate"  BY <1>2
  <2>. HIDE DEF F, C
  <2>5. QED  BY <2>1, <2>2, <2>3, <2>4, WritesOf
<1>6. {Want(x, sel) : x \in F} \cup C = A \cup B \cup D \cup {g}
  <2>. DEFINE I(cond, X) == IF cond THEN X ELSE {}
  <2>1. {Want(x, sel) : x \in {"chinaConf", "chinaManual", "chinaCron"}} = {a, b, c}
    BY <1>1
  <2>2. {Want(x, sel) : x \in {"dhcpConf"}} = {d} /\ {Want(x, sel) : x \in {"dnsConf"}} = {e}
    BY <1>1
  <2>3. \A X, Y : {Want(x, sel) : x \in X \cup Y}
                     = {Want(x, sel) : x \in X} \cup {Want(x, sel) : x \in Y}
    OBVIOUS
  <2>4. {Want(x, sel) : x \in {}} = {}  OBVIOUS
  <2>5. {Want(x, sel) : x \in F} = A \cup B \cup (IF "dns" \in sel THEN {e} ELSE {})
    BY <2>1, <2>2, <2>3, <2>4
  <2>6. QED  BY <2>5
<1>7. QED  BY <1>4, <1>5, <1>6 DEF WritesRight

\* So does collectd, on and off.
LEMMA CollectdWanted ==
    ASSUME NEW install \in BOOLEAN, NEW sel
    PROVE  WritesRight(Collectd(install), "monitoring.collectd", sel)
<1>. DEFINE p == "monitoring.collectd"
            things == {"collectdConf", "packages"}
            a == IF On("collectd") THEN Plain("collectdConf") ELSE Off("collectdConf")
            b == Step("install", "monitoring.collectd")
            c == If(things, Step("restart", "collectd"))
            d == If(things, Step("enable", "collectd"))
            e == If(things, Step("disable", "collectd"))
            F == {"collectdConf"}
            C == (IF install THEN {b} ELSE {}) \cup (IF On("collectd") THEN {c, d} ELSE {e})
<1>1. a = Want("collectdConf", sel)  BY DEF Want
<1>2. b.op # "write" /\ c.op # "write" /\ d.op # "write" /\ e.op # "write"  BY NotWrites
<1>3. Collectd(install) = <<a>> \o When(install, <<b>>)
                          \o (IF On("collectd") THEN <<c, d>> ELSE <<e>>)
  BY DEF Collectd
<1>. HIDE DEF a, b, c, d, e
<1>4. Lists(Collectd(install), {a} \cup (IF install THEN {b} ELSE {})
                               \cup (IF On("collectd") THEN {c, d} ELSE {e}))
  <2>1. Lists(<<a>>, {a}) /\ Lists(When(install, <<b>>), IF install THEN {b} ELSE {})
    BY ListsShort, ListsWhen
  <2>2. Lists(IF On("collectd") THEN <<c, d>> ELSE <<e>>, IF On("collectd") THEN {c, d} ELSE {e})
    BY ListsShort
  <2>3. Lists(<<a>> \o When(install, <<b>>), {a} \cup (IF install THEN {b} ELSE {}))
    BY <2>1, ListsConcat
  <2>. DEFINE x == <<a>> \o When(install, <<b>>)
              y == IF On("collectd") THEN <<c, d>> ELSE <<e>>
              X == {a} \cup (IF install THEN {b} ELSE {})
              Y == IF On("collectd") THEN {c, d} ELSE {e}
  <2>4. Lists(x, X) /\ Lists(y, Y) /\ Collectd(install) = x \o y  BY <1>3, <2>2, <2>3
  <2>. HIDE DEF x, y, X, Y
  <2>5. Lists(Collectd(install), X \cup Y)  BY <2>4, ListsConcat
  <2>6. QED  BY <2>5 DEF X, Y
<1>5. WritesAsWanted({Want(x, sel) : x \in F} \cup C, p, sel)
  <2>1. F \subseteq File  BY AllFiles
  <2>2. \A x \in F : Owner(x) = p /\ Wanted(x)  BY <2>1, Owners DEF Wanted
  <2>3. \A x \in File : Owner(x) = p => x \in F  BY Owners
  <2>4. \A x \in C : x.op # "write"  BY <1>2
  <2>. HIDE DEF F, C
  <2>5. QED  BY <2>1, <2>2, <2>3, <2>4, WritesOf
<1>6. {Want(x, sel) : x \in F} \cup C = {a} \cup (IF install THEN {b} ELSE {})
                                        \cup (IF On("collectd") THEN {c, d} ELSE {e})
  BY <1>1
<1>7. QED  BY <1>4, <1>5, <1>6 DEF WritesRight

\* So does the DNS server of wireguard, with its binary and without.
LEMMA WgsdWanted == ASSUME NEW sel PROVE WritesRight(Wgsd, "network.wgsd-coredns", sel)
<1>. DEFINE p == "network.wgsd-coredns"
            things == {"corefile", "wgsdUnit"}
            a == Plain("corefile")
            b == IF coredns THEN Plain("wgsdUnit") ELSE Delete("wgsdUnit")
            c == If({"wgsdUnit"}, Step("restart", "systemd"))
            d == If(things, Step("restart", "wgsd"))
            e == If(things, Step("enable", "wgsd"))
            F == WgsdOwns
            C == {c} \cup (IF coredns THEN {d, e} ELSE {})
<1>1. a = Want("corefile", sel) /\ b = Want("wgsdUnit", sel)  BY DEF Want
<1>2. c.op # "write" /\ d.op # "write" /\ e.op # "write"  BY NotWrites
<1>3. Wgsd = <<a, b, c>> \o When(coredns, <<d, e>>)  BY DEF Wgsd
<1>. HIDE DEF a, b, c, d, e
<1>4. Lists(Wgsd, {a, b, c} \cup (IF coredns THEN {d, e} ELSE {}))
  <2>1. Lists(<<a, b, c>>, {a, b, c})  BY ListsShort
  <2>2. Lists(When(coredns, <<d, e>>), IF coredns THEN {d, e} ELSE {})
    BY ListsShort, ListsNone DEF When
  <2>3. QED  BY <1>3, <2>1, <2>2, ListsConcat
<1>5. WritesAsWanted({Want(x, sel) : x \in F} \cup C, p, sel)
  <2>1. F \subseteq File  BY AllFiles
  <2>2. \A x \in F : Owner(x) = p /\ Wanted(x)  BY <2>1, Owners DEF Wanted, WgsdOwns
  <2>3. \A x \in File : Owner(x) = p => x \in F  BY Owners
  <2>4. \A x \in C : x.op # "write"  BY <1>2
  <2>. HIDE DEF F, C
  <2>5. QED  BY <2>1, <2>2, <2>3, <2>4, WritesOf
<1>6. {Want(x, sel) : x \in F} \cup C = {a, b, c} \cup (IF coredns THEN {d, e} ELSE {})
  BY <1>1 DEF WgsdOwns
<1>7. QED  BY <1>4, <1>5, <1>6 DEF WritesRight

\* So does docker.
LEMMA DockerWanted == ASSUME NEW sel PROVE WritesRight(DockerCore, "docker.core", sel)
<1>. DEFINE p == "docker.core"
            a == Plain("daemonJson")
            b == Plain("dockerHook")
            c == Step("install", "docker.core")
            d == If({"dockerHook"}, Step("restart", "systemd"))
            e == If({"daemonJson"}, Step("restart", "docker"))
            F == DockerOwns
            C == {c, d, e}
<1>1. a = Want("daemonJson", sel) /\ b = Want("dockerHook", sel)  BY DEF Want
<1>2. c.op # "write" /\ d.op # "write" /\ e.op # "write"  BY NotWrites
<1>3. DockerCore = <<a, b, c, d, e>>  BY DEF DockerCore
<1>. HIDE DEF a, b, c, d, e
<1>4. Lists(DockerCore, {a, b, c, d, e})  BY <1>3, ListsShort
<1>5. WritesAsWanted({Want(x, sel) : x \in F} \cup C, p, sel)
  <2>1. F \subseteq File  BY AllFiles
  <2>2. \A x \in F : Owner(x) = p /\ Wanted(x)  BY <2>1, Owners DEF Wanted, DockerOwns
  <2>3. \A x \in File : Owner(x) = p => x \in F  BY Owners
  <2>4. \A x \in C : x.op # "write"  BY <1>2
  <2>. HIDE DEF F, C
  <2>5. QED  BY <2>1, <2>2, <2>3, <2>4, WritesOf
<1>6. {Want(x, sel) : x \in F} \cup C = {a, b, c, d, e}  BY <1>1 DEF DockerOwns
<1>7. QED  BY <1>4, <1>5, <1>6 DEF WritesRight

\* A plugin that has one file.
LEMMA OneWanted ==
    ASSUME NEW sel, NEW f \in {"resolvConf", "cronJob", "ipListCron"}
    PROVE  WritesRight(<<Want(f, sel)>>, Owner(f), sel)
<1>. DEFINE F == {f}
            C == {}
<1>1. F \subseteq File  BY AllFiles
<1>2. WritesAsWanted({Want(x, sel) : x \in F} \cup C, Owner(f), sel)
  <2>1. \A x \in F : Owner(x) = Owner(f) /\ Wanted(x)  BY DEF Wanted
  <2>2. \A x \in File : Owner(x) = Owner(f) => x \in F  BY <1>1, Owners
  <2>3. \A x \in C : x.op # "write"  OBVIOUS
  <2>. HIDE DEF F, C
  <2>4. QED  BY <1>1, <2>1, <2>2, <2>3, WritesOf
<1>3. {Want(x, sel) : x \in F} \cup C = {Want(f, sel)}  OBVIOUS
<1>4. Lists(<<Want(f, sel)>>, {Want(f, sel)})  BY ListsShort
<1>5. QED  BY <1>2, <1>3, <1>4 DEF WritesRight

\* A plugin that has none.
LEMMA UtilitiesWanted == ASSUME NEW sel PROVE WritesRight(SystemUtilities, "system.utilities", sel)
<1>. DEFINE a == Step("install", "system.utilities")
            F == {}
            C == {a}
<1>1. WritesAsWanted({Want(x, sel) : x \in F} \cup C, "system.utilities", sel)
  <2>1. \A x \in C : x.op # "write"  BY NotWrites
  <2>2. \A x \in File : Owner(x) # "system.utilities"
    <3>1. ASSUME NEW x \in File PROVE Owner(x) # "system.utilities"
      BY Owners, AllFiles
    <3>2. QED  BY <3>1
  <2>3. F \in SUBSET File /\ \A x \in F : Owner(x) = "system.utilities" /\ Wanted(x)  OBVIOUS
  <2>. HIDE DEF F, C
  <2>4. QED  BY <2>1, <2>2, <2>3, WritesOf
<1>2. {Want(x, sel) : x \in F} \cup C = {a}  OBVIOUS
<1>3. Lists(SystemUtilities, {a})  BY ListsShort DEF SystemUtilities
<1>4. QED  BY <1>1, <1>2, <1>3 DEF WritesRight

\* Every plugin writes the files that its configuration asks for, and no others.
LEMMA ScriptsWanted ==
    ASSUME NEW mode, NEW p \in Plugin, NEW sel
    PROVE  WritesRight(Script(mode, p, sel), p, sel)
<1>1. /\ WritesRight(ResolvConf, "network.resolvconf", sel)
      /\ WritesRight(ConfigResources, "config.resources", sel)
      /\ WritesRight(IpLists, "ip_lists", sel)
  <2>1. /\ Want("resolvConf", sel) = Plain("resolvConf") /\ Want("cronJob", sel) = Plain("cronJob")
        /\ Want("ipListCron", sel) = IF On("ipList") THEN Plain("ipListCron") ELSE Delete("ipListCron")
    BY DEF Want
  <2>2. /\ Owner("resolvConf") = "network.resolvconf" /\ Owner("cronJob") = "config.resources"
        /\ Owner("ipListCron") = "ip_lists"
    BY Owners, AllFiles
  <2>3. /\ WritesRight(<<Want("resolvConf", sel)>>, Owner("resolvConf"), sel)
        /\ WritesRight(<<Want("cronJob", sel)>>, Owner("cronJob"), sel)
        /\ WritesRight(<<Want("ipListCron", sel)>>, Owner("ipListCron"), sel)
    BY OneWanted
  <2>4. QED  BY <2>1, <2>2, <2>3 DEF ResolvConf, ConfigResources, IpLists
<1>2. /\ WritesRight(Ipv6Pd(mode = "event"), "network.ipv6pd", sel)
      /\ WritesRight(Firewall(sel \cap Kinds["network.firewall"]), "network.firewall", sel)
      /\ WritesRight(Collectd(mode = "bootstrap"), "monitoring.collectd", sel)
  BY PdWanted, FirewallWanted, CollectdWanted
<1>3. /\ WritesRight(SystemMirror, "system.mirror", sel)
      /\ WritesRight(NetworkCore, "network.core", sel)
      /\ WritesRight(Dnsmasq(sel), "network.dnsmasq", sel)
      /\ WritesRight(Wgsd, "network.wgsd-coredns", sel)
      /\ WritesRight(DockerCore, "docker.core", sel)
      /\ WritesRight(SystemUtilities, "system.utilities", sel)
  BY MirrorWanted, CoreWanted, DnsmasqWanted, WgsdWanted, DockerWanted, UtilitiesWanted
<1>4. QED  BY <1>1, <1>2, <1>3, Plugins12 DEF Script

-----------------------------------------------------------------------------
(* What is on the disk.                                                    *)

\* A write has been done, or done again by the China names updater, or is going to be, or
\* has put names on the disk that were rendered before the updater put newer ones there.
OnDisk(w) ==
    IF w.on \in {"chinaConf", "chinaManual"}
    THEN \/ "china" \in cut \/ disk[w.on].from = Rendered(w).from
         \/ w.on = "chinaConf" /\ china.pc = "chinaConf"
         \/ w.on = "chinaConf" /\ behind /\ \E n \in 0..cached : disk[w.on].from = Names(w, n).from
    ELSE disk[w.on] = w.what

\* The China names updater has read the configuration as it is.
ChinaInv ==
    china.pc # "off" /\ "china" \notin cut =>
        /\ On("china")
        /\ china.from = [servers |-> conf[<<"china", "servers">>],
                         manual |-> conf[<<"china", "manual">>]]

\* Names are rendered from what has been downloaded so far; the updater renders the last
\* download.
NamesInv ==
    /\ cached \in Nat /\ run.names \subseteq 0..cached
    /\ china.pc \in {"chinaConf", "chinaManual"} => china.names = cached

\* What the plugin in hand has still to write is wanted; what is wanted of the selected
\* objects it has still to write, or it is on the disk.
StepsInv ==
    run.at \in Plugin => \A w \in ToSet(run.steps) : w.op = "write" /\ w.on # "logrotate" =>
        w.on \in File /\ Owner(w.on) = run.at /\ Wanted(w.on) /\ w = Want(w.on, run.sel)
ScriptInv ==
    run.at \in Plugin =>
        \A f \in File : Owner(f) = run.at /\ Wanted(f) /\ ObjectsOf(f) \subseteq run.sel =>
            Want(f, run.sel) \in ToSet(run.steps) \/ OnDisk(Want(f, run.sel))

\* The files of applied objects are on the disk, but for the ruleset that a firewall
\* update in progress has written for other objects.
DiskInv ==
    \A f \in File : Owner(f) \notin cut /\ Wanted(f) /\ ObjectsOf(f) \subseteq applied =>
        \/ OnDisk(Want(f, Object))
        \/ f = "nftFirewall" /\ run.at = "network.firewall" /\ run.changed # {}

\* What is passed over in a list is not due.
LEMMA RestWrites ==
    ASSUME NEW S, NEW steps \in Seq(S), NEW ch
    PROVE  /\ ToSet(Rest(steps, ch)) \subseteq ToSet(steps)
           /\ \A w \in ToSet(steps) \ ToSet(Rest(steps, ch)) : ~Due(w, ch)
<1>1. PICK i \in 1..(Len(steps) + 1) :
         /\ Rest(steps, ch) = SubSeq(steps, i, Len(steps))
         /\ \A j \in 1..(i - 1) : ~Due(steps[j], ch)
  BY RestIs
<1>. DEFINE n == Len(steps)
            r == SubSeq(steps, i, n)
<1>2. n \in Nat /\ \A k \in 1..n : steps[k] \in S  BY ElementOfSeq
<1>3. /\ r \in Seq(S) /\ Len(r) = IF i <= n THEN n - i + 1 ELSE 0
      /\ \A k \in 1..(n - i + 1) : r[k] = steps[i + k - 1]
  <2>1. i \in Int /\ n \in Int /\ \A k \in i..n : steps[k] \in S  BY <1>2
  <2>2. QED  BY <2>1, SubSeqProperties
<1>4. ToSet(r) = {r[k] : k \in 1..Len(r)} /\ ToSet(steps) = {steps[k] : k \in 1..n}
  <2>1. DOMAIN steps = 1..n  OBVIOUS
  <2>. HIDE DEF r
  <2>2. DOMAIN r = 1..Len(r)  BY <1>3
  <2>3. QED  BY <2>1, <2>2 DEF ToSet
<1>. HIDE DEF r
<1>5. ASSUME NEW w \in ToSet(r) PROVE w \in ToSet(steps)
  <2>1. PICK k \in 1..Len(r) : w = r[k]  BY <1>4, <1>5
  <2>2. k \in 1..(n - i + 1) /\ i + k - 1 \in 1..n  BY <1>2, <1>3, <2>1
  <2>3. QED  BY <1>3, <1>4, <2>1, <2>2
<1>6. ASSUME NEW w \in ToSet(steps), w \notin ToSet(r) PROVE ~Due(w, ch)
  <2>1. PICK k \in 1..n : w = steps[k]  BY <1>4, <1>6
  <2>2. CASE k < i  BY <1>1, <2>1, <2>2
  <2>3. CASE i <= k
    <3>1. k - i + 1 \in 1..Len(r) /\ k - i + 1 \in 1..(n - i + 1) /\ i + (k - i + 1) - 1 = k
      BY <1>2, <1>3, <2>1, <2>3
    <3>2. r[k - i + 1] = steps[k]
      <4>1. r[k - i + 1] = steps[i + (k - i + 1) - 1]  BY <1>3, <3>1
      <4>2. QED  BY <3>1, <4>1
    <3>3. QED  BY <1>4, <1>6, <2>1, <3>1, <3>2
  <2>4. QED  BY <1>2, <2>1, <2>2, <2>3
<1>7. QED  BY <1>1, <1>5, <1>6 DEF r

\* The steps are the first one and those behind it.
LEMMA FirstAndRest ==
    ASSUME NEW S, NEW steps \in Seq(S), steps # <<>>
    PROVE  /\ Tail(steps) \in Seq(S)
           /\ \A w : w \in ToSet(steps) <=> w = Head(steps) \/ w \in ToSet(Tail(steps))
<1>1. Len(steps) \in Nat \ {0} /\ Tail(steps) \in Seq(S) /\ Len(Tail(steps)) = Len(steps) - 1
      /\ Head(steps) = steps[1] /\ \A k \in 1..(Len(steps) - 1) : Tail(steps)[k] = steps[k + 1]
  OBVIOUS
<1>2. /\ ToSet(steps) = {steps[k] : k \in 1..Len(steps)}
      /\ ToSet(Tail(steps)) = {Tail(steps)[k] : k \in 1..(Len(steps) - 1)}
  <2>. DEFINE after == Tail(steps)
  <2>1. DOMAIN steps = 1..Len(steps)  OBVIOUS
  <2>2. after \in Seq(S) /\ Len(after) = Len(steps) - 1  BY <1>1
  <2>. HIDE DEF after
  <2>3. DOMAIN after = 1..(Len(steps) - 1)  BY <2>2
  <2>4. QED  BY <2>1, <2>3 DEF ToSet, after
<1>3. ASSUME NEW w \in ToSet(steps), w # Head(steps) PROVE w \in ToSet(Tail(steps))
  <2>1. PICK k \in 1..Len(steps) : w = steps[k]  BY <1>2
  <2>2. k - 1 \in 1..(Len(steps) - 1) /\ (k - 1) + 1 = k  BY <1>1, <1>3, <2>1
  <2>3. Tail(steps)[k - 1] = w  BY <1>1, <2>1, <2>2
  <2>4. QED  BY <1>2, <2>2, <2>3
<1>4. ASSUME NEW w \in ToSet(Tail(steps)) PROVE w \in ToSet(steps)
  <2>1. PICK k \in 1..(Len(steps) - 1) : w = Tail(steps)[k]  BY <1>2
  <2>2. k + 1 \in 1..Len(steps) /\ w = steps[k + 1]  BY <1>1, <2>1
  <2>3. QED  BY <1>2, <2>2
<1>5. Head(steps) \in ToSet(steps)  BY <1>1, <1>2
<1>6. QED  BY <1>1, <1>3, <1>4, <1>5

\* A wanted write that is not due is on the disk, and not one of the China names.
LEMMA NotDue ==
    ASSUME NEW f, NEW sel, NEW ch, ~Due(Want(f, sel), ch)
    PROVE  OnDisk(Want(f, sel)) /\ f \notin DOMAIN ChinaFiles /\ disk[f] = Want(f, sel).what
<1>. DEFINE w == Want(f, sel)
<1>1. w.on = f /\ w.op = "write" /\ w.if = {"always"} /\ w.unless = {}  BY WantIs
<1>. HIDE DEF w
<1>2. ~Due(w, ch)  BY DEF w
<1>3. disk[f] = w.what /\ f \notin DOMAIN ChinaFiles  BY <1>1, <1>2 DEF Due
<1>4. QED  BY <1>1, <1>3, FilesOf DEF OnDisk, w

-----------------------------------------------------------------------------
(* What is wanted depends on the settings of the objects of a file.        *)

\* A content depends on the settings it is rendered from.
LEMMA ContentStays ==
    ASSUME NEW tag, NEW X, \A s \in X : conf'[s] = conf[s]
    PROVE  Content(tag, X, conf') = Content(tag, X, conf)
  BY DEF Content

\* What is wanted stays, as long as the objects of the file are not edited.
LEMMA WantStays ==
    ASSUME NEW f \in File, NEW sel,
           \A s \in Setting : s[1] \in ObjectsOf(f) => conf'[s] = conf[s],
           f = "wgsdUnit" => coredns' = coredns
    PROVE  Want(f, sel)' = Want(f, sel) /\ (Wanted(f)' <=> Wanted(f))
<1>1. \A s \in Renders[f] : conf'[s] = conf[s]  BY RendersAre
<1>2. Plain(f)' = Plain(f)
  <2>1. Content("", Renders[f], conf') = Content("", Renders[f], conf)  BY <1>1, ContentStays
  <2>2. QED  BY <2>1 DEF Plain, Write, Step
<1>3. Off(f)' = Off(f)
  <2>1. Content("disabled", {}, conf') = Content("disabled", {}, conf)  BY ContentStays
  <2>2. QED  BY <2>1 DEF Off, Write, Step
<1>4. Delete(f)' = Delete(f)  BY DEF Delete, Write, Step
<1>5. Write(f, Content("gw", Renders[f], conf))' = Write(f, Content("gw", Renders[f], conf))
  <2>1. Content("gw", Renders[f], conf') = Content("gw", Renders[f], conf)  BY <1>1, ContentStays
  <2>2. QED  BY <2>1 DEF Write, Step
<1>6. f = "nftFirewall" => Write(f, Rules(sel))' = Write(f, Rules(sel))
  <2>1. SUFFICES ASSUME f = "nftFirewall" PROVE Write(f, Rules(sel))' = Write(f, Rules(sel))
    OBVIOUS
  <2>. DEFINE X == (sel \cap {"main", "guest"}) \X {"rules"}
  <2>2. Renders[f] = {"main", "guest"} \X {"rules"}
    <3>1. \E r \in Renderers : f \in DOMAIN r  BY DEF File
    <3>2. PICK r \in Renderers : f \in DOMAIN r /\ Renders[f] = r[f]
      <4>1. Renders[f] = (CHOOSE r \in Renderers : f \in DOMAIN r)[f]  BY DEF Renders
      <4>2. QED  BY <3>1, <4>1
    <3>3. r = FirewallFiles  BY <2>1, <3>2, FilesOf DEF Renderers
    <3>4. QED  BY <2>1, <3>2, <3>3 DEF FirewallFiles
  <2>3. X \subseteq Renders[f]  BY <2>2
  <2>4. \A s \in X : conf'[s] = conf[s]  BY <1>1, <2>3
  <2>. HIDE DEF X
  <2>5. Content("", X, conf') = Content("", X, conf)  BY <2>4, ContentStays
  <2>6. QED  BY <2>5 DEF Rules, X, Write, Step
<1>7. /\ f \in {"dhcp6c", "radvd", "nftPd", "dhcp6cScript", "duid", "pdUnit", "pdHooks", "acceptRa"}
           => (On("pd")' <=> On("pd"))
      /\ f \in {"cloudNet", "cloudIfaces"}
           => conf'[<<"network", "cloudInit">>] = conf[<<"network", "cloudInit">>]
      /\ f \in {"chinaConf", "chinaManual", "chinaCron"}
           => (On("china")' <=> On("china")) /\ conf'[<<"china", "cron">>] = conf[<<"china", "cron">>]
      /\ f = "ipListCron" => (On("ipList")' <=> On("ipList"))
      /\ f = "collectdConf" => (On("collectd")' <=> On("collectd"))
  <2>1. /\ f \in PdOwns => ObjectsOf(f) = {"pd"}
        /\ f \in CoreOwns => ObjectsOf(f) = {"network"}
        /\ f \in {"chinaConf", "chinaManual", "chinaCron"} => ObjectsOf(f) = {"china"}
        /\ f = "ipListCron" => ObjectsOf(f) = {"ipList"}
        /\ f = "collectdConf" => ObjectsOf(f) = {"collectd"}
    BY ObjectsAre
  <2>2. Switches \subseteq Setting  BY DEF Setting
  <2>3. /\ \A o \in {"pd", "china", "ipList", "collectd"} : <<o, "enabled">> \in Setting
        /\ <<"network", "cloudInit">> \in Setting /\ <<"china", "cron">> \in Setting
    BY <2>2 DEF Switches
  <2>4. \A o \in {"pd", "china", "ipList", "collectd"} :
           ObjectsOf(f) = {o} => conf'[<<o, "enabled">>] = conf[<<o, "enabled">>]
    BY <2>3
  <2>5. /\ ObjectsOf(f) = {"network"}
             => conf'[<<"network", "cloudInit">>] = conf[<<"network", "cloudInit">>]
        /\ ObjectsOf(f) = {"china"} => conf'[<<"china", "cron">>] = conf[<<"china", "cron">>]
    BY <2>3
  <2>6. f \in {"dhcp6c", "radvd", "nftPd", "dhcp6cScript", "duid", "pdUnit", "pdHooks", "acceptRa"}
           => f \in PdOwns
    BY DEF PdOwns
  <2>7. f \in {"cloudNet", "cloudIfaces"} => f \in CoreOwns  BY DEF CoreOwns
  <2>8. \A o \in {"pd", "china", "ipList", "collectd"} :
           ObjectsOf(f) = {o} => (On(o)' <=> On(o))
    BY <2>4 DEF On
  <2>9. QED  BY <2>1, <2>5, <2>6, <2>7, <2>8
<1>8. Wanted(f)' <=> Wanted(f)  BY <1>7 DEF Wanted
<1>9. Want(f, sel)' = Want(f, sel)
  BY <1>2, <1>3, <1>4, <1>5, <1>6, <1>7 DEF Want
<1>10. QED  BY <1>8, <1>9

\* A selection is as good as everything, but for the ruleset.
LEMMA WantFull ==
    ASSUME NEW f, NEW sel, f # "nftFirewall" \/ {"main", "guest"} \subseteq sel
    PROVE  Want(f, sel) = Want(f, Object)
<1>1. {"main", "guest"} \subseteq Object  BY Plugins12 DEF Object, Kinds
<1>2. f = "nftFirewall" => Rules(sel) = Rules(Object)
  <2>1. f = "nftFirewall" => sel \cap {"main", "guest"} = Object \cap {"main", "guest"}  BY <1>1
  <2>2. QED  BY <2>1 DEF Rules
<1>3. QED  BY <1>2 DEF Want

\* An object is applied by one plugin.
LEMMA ObjectsOfOne ==
    ASSUME NEW f \in File, NEW p \in Plugin
    PROVE  /\ ObjectsOf(f) \subseteq Kinds[Owner(f)] /\ ObjectsOf(f) # {}
           /\ ObjectsOf(f) \cap Kinds[p] # {} => p = Owner(f)
           /\ Owner(f) # "network.firewall" => \E o : ObjectsOf(f) = {o}
           /\ Owner(f) = "network.firewall" => ObjectsOf(f) = Kinds["network.firewall"]
<1>1. /\ Kinds["system.mirror"] = {"mirror"} /\ Kinds["network.core"] = {"network"}
      /\ Kinds["network.ipv6pd"] = {"pd"} /\ Kinds["network.firewall"] = {"main", "guest"}
      /\ Kinds["network.resolvconf"] = {"resolv"} /\ Kinds["ip_lists"] = {"ipList"}
      /\ Kinds["network.dnsmasq"] = {"dns", "dhcp", "china"}
      /\ Kinds["config.resources"] = {"cron"} /\ Kinds["monitoring.collectd"] = {"collectd"}
      /\ Kinds["network.wgsd-coredns"] = {"wgsd"} /\ Kinds["docker.core"] = {"registry"}
      /\ Kinds["system.utilities"] = {}
  BY Plugins12 DEF Kinds
<1>. DEFINE Known == {"mirror", "network", "pd", "main", "guest", "resolv", "ipList", "dns", "dhcp",
                      "china", "cron", "collectd", "wgsd", "registry"}
            by == [o \in Known |->
                     CASE o = "mirror" -> "system.mirror" [] o = "network" -> "network.core"
                       [] o = "pd" -> "network.ipv6pd" [] o \in {"main", "guest"} -> "network.firewall"
                       [] o = "resolv" -> "network.resolvconf" [] o = "ipList" -> "ip_lists"
                       [] o \in {"dns", "dhcp", "china"} -> "network.dnsmasq"
                       [] o = "cron" -> "config.resources" [] o = "collectd" -> "monitoring.collectd"
                       [] o = "wgsd" -> "network.wgsd-coredns" [] o = "registry" -> "docker.core"]
<1>2. \A q \in Plugin : \A o \in Kinds[q] : o \in Known /\ by[o] = q  BY <1>1, Plugins12
<1>3. ObjectsOf(f) \subseteq Kinds[Owner(f)]  BY <1>1, ObjectsAre, Owners, AllFiles DEF DnsmasqOwns
<1>4. \/ \E o : ObjectsOf(f) = {o} /\ Owner(f) # "network.firewall"
      \/ ObjectsOf(f) = {"main", "guest"} /\ Owner(f) = "network.firewall"
  <2>1. \/ \E o : ObjectsOf(f) = {o} /\ f \notin FirewallOwns
        \/ ObjectsOf(f) = {"main", "guest"} /\ f \in FirewallOwns
    <3>1. CASE f \in FirewallOwns  BY <3>1, ObjectsAre
    <3>2. CASE f \notin FirewallOwns  BY <3>2, ObjectsAre, AllFiles DEF DnsmasqOwns
    <3>3. QED  BY <3>1, <3>2
  <2>2. f \in FirewallOwns <=> Owner(f) = "network.firewall"  BY Owners
  <2>3. QED  BY <2>1, <2>2
<1>5. Owner(f) \in Plugin  BY Owners
<1>. HIDE DEF Known, by
<1>6. ObjectsOf(f) \cap Kinds[p] # {} => p = Owner(f)  BY <1>2, <1>3, <1>5
<1>7. QED  BY <1>1, <1>3, <1>4, <1>6

\* What is on the disk stays there as long as nobody touches it.
LEMMA OnDiskStays ==
    ASSUME NEW w, OnDisk(w), cut \subseteq cut', disk'[w.on] = disk[w.on],
           UNCHANGED <<cached, china>>, w.on = "chinaConf" => behind' = behind
    PROVE  OnDisk(w)'
<1>1. Rendered(w)' = Rendered(w) /\ \A n : Names(w, n)' = Names(w, n)
  BY DEF Rendered, OfNames, Names
<1>2. QED  BY <1>1 DEF OnDisk

\* A write has put its content on the disk.
LEMMA WritePutsIt ==
    ASSUME NEW f \in File, NEW sel, DOMAIN disk = File, NEW new, disk' = [disk EXCEPT ![f] = new],
           \/ new = Rendered(Want(f, sel))
           \/ f = "chinaConf" /\ behind' /\ \E n \in 0..cached : new = Names(Want(f, sel), n),
           UNCHANGED cached
    PROVE  \A w : w = Want(f, sel) => OnDisk(w)'
<1>. SUFFICES ASSUME NEW w, w = Want(f, sel) PROVE OnDisk(w)'  OBVIOUS
<1>1. w.on = f /\ disk'[f] = new  BY WantIs
<1>2. Rendered(w)' = Rendered(w) /\ \A n : Names(w, n)' = Names(w, n)
  BY DEF Rendered, OfNames, Names
<1>3. f # "chinaConf" => Rendered(w) = w.what  BY <1>1 DEF Rendered, OfNames, Names
<1>4. CASE new = Rendered(w)  BY <1>1, <1>2, <1>3, <1>4 DEF OnDisk
<1>5. CASE f = "chinaConf" /\ behind' /\ \E n \in 0..cached : new = Names(w, n)
  <2>1. \E n \in 0..cached' : disk'[w.on].from = Names(w, n)'.from  BY <1>1, <1>2, <1>5
  <2>2. QED  BY <1>1, <1>5, <2>1 DEF OnDisk
<1>6. QED  BY <1>4, <1>5

\* A run that goes on behind its current step.
LEMMA RunGoesOn ==
    ASSUME RunInv, StepsInv, ScriptInv, run.steps # <<>>, NEW ch,
           run'.steps = Rest(Tail(run.steps), ch), run'.at = run.at, run'.sel = run.sel,
           UNCHANGED <<conf, coredns, cached, china>>, cut \subseteq cut',
           \A f \in File : disk'[f] = disk[f] \/ (Now.op = "write" /\ f = Now.on),
           behind' = behind \/ (Now.op = "write" /\ Now.on = "chinaConf"),
           \A w : w = Now /\ w.op = "write" /\ w.on # "logrotate" => OnDisk(w)'
    PROVE  StepsInv' /\ ScriptInv'
<1>1. run.at \in Plugin /\ StepsOK(run.steps, run.at)  BY StepHere DEF RunInv
<1>2. PICK S : run.steps \in Seq(S)  BY <1>1 DEF StepsOK
<1>3. /\ Tail(run.steps) \in Seq(S)
      /\ \A w : w \in ToSet(run.steps) <=> w = Now \/ w \in ToSet(Tail(run.steps))
  BY <1>2, FirstAndRest DEF Now
<1>4. /\ ToSet(run'.steps) \subseteq ToSet(Tail(run.steps))
      /\ \A w \in ToSet(Tail(run.steps)) \ ToSet(run'.steps) : ~Due(w, ch)
  BY <1>3, RestWrites
<1>5. \A f \in File : \A sel : Want(f, sel)' = Want(f, sel) /\ (Wanted(f)' <=> Wanted(f))
  BY WantStays
<1>6. StepsInv'
  <2>1. ToSet(run'.steps) \subseteq ToSet(run.steps)  BY <1>3, <1>4
  <2>2. ASSUME NEW w \in ToSet(run'.steps), w.op = "write", w.on # "logrotate"
        PROVE  w.on \in File /\ Owner(w.on) = run'.at /\ Wanted(w.on)' /\ w = Want(w.on, run.sel)'
    BY <1>1, <1>5, <2>1, <2>2 DEF StepsInv
  <2>3. QED  BY <2>2 DEF StepsInv
<1>7. ASSUME NEW f \in File, Owner(f) = run.at, Wanted(f), ObjectsOf(f) \subseteq run.sel,
             Want(f, run.sel) \notin ToSet(run'.steps)
      PROVE  OnDisk(Want(f, run.sel))'
  <2>. DEFINE w == Want(f, run.sel)
  <2>1. w.on = f /\ w.op = "write" /\ f # "logrotate"  BY <1>7, WantIs DEF Wanted
  <2>2. Want(f, run.sel)' = w  BY <1>5
  <2>3. CASE Now.op = "write" /\ Now.on = f
    <3>1. Now \in ToSet(run.steps)  BY <1>3
    <3>2. Now = Want(f, run.sel)  BY <1>1, <2>1, <2>3, <3>1 DEF StepsInv
    <3>. HIDE DEF w
    <3>3. \A x : x = w => OnDisk(x)'  BY <2>1, <3>2 DEF w
    <3>4. QED  BY <2>2, <3>3
  <2>4. CASE ~(Now.op = "write" /\ Now.on = f)
    <3>1. disk'[f] = disk[f] /\ (f = "chinaConf" => behind' = behind)  BY <2>4
    <3>2. OnDisk(w)
      <4>1. CASE w \in ToSet(run.steps)
        <5>1. w # Now  BY <2>1, <2>4
        <5>2. ~Due(w, ch)  BY <1>3, <1>4, <1>7, <4>1, <5>1
        <5>3. QED  BY <5>2, NotDue
      <4>2. CASE w \notin ToSet(run.steps)  BY <1>1, <1>7, <4>2 DEF ScriptInv
      <4>3. QED  BY <4>1, <4>2
    <3>. HIDE DEF w
    <3>3. \A x : x = w => OnDisk(x)'  BY <2>1, <3>1, <3>2, OnDiskStays
    <3>4. QED  BY <2>2, <3>3
  <2>5. QED  BY <2>3, <2>4
<1>8. ScriptInv'
  <2>1. ASSUME NEW f \in File, Owner(f) = run'.at, Wanted(f)', ObjectsOf(f) \subseteq run'.sel
        PROVE  Want(f, run.sel)' \in ToSet(run'.steps) \/ OnDisk(Want(f, run.sel))'
    <3>1. Wanted(f) /\ Want(f, run.sel)' = Want(f, run.sel)  BY <1>5, <2>1
    <3>2. QED  BY <1>7, <2>1, <3>1
  <2>2. QED  BY <2>1 DEF ScriptInv
<1>9. QED  BY <1>6, <1>8

\* A list that is called for begins with the writes that are due.
LEMMA RunBegins ==
    ASSUME MachineInv, NEW p \in Plugin, run'.at = p, run'.sel = run.sel, run'.steps = StepsOf(p),
           UNCHANGED <<conf, disk, coredns, cached, china, cut, behind>>
    PROVE  StepsInv' /\ ScriptInv'
<1>. DEFINE script == Script(run.mode, p, run.sel)
<1>1. PICK S : Lists(script, S) /\ WritesAsWanted(S, p, run.sel)
  BY ScriptsWanted DEF WritesRight
<1>2. script \in Seq(S) /\ ToSet(script) = S  BY <1>1, ListsIs DEF Lists
<1>. HIDE DEF script
<1>3. run'.steps = Rest(script, {})  BY DEF StepsOf, script
<1>4. ToSet(run'.steps) \subseteq S /\ \A w \in S \ ToSet(run'.steps) : ~Due(w, {})
  BY <1>2, <1>3, RestWrites
<1>5. \A f \in File : \A sel : Want(f, sel)' = Want(f, sel) /\ (Wanted(f)' <=> Wanted(f))
  BY WantStays
<1>6. StepsInv'
  <2>1. ASSUME NEW w \in ToSet(run'.steps), w.op = "write", w.on # "logrotate"
        PROVE  w.on \in File /\ Owner(w.on) = run'.at /\ Wanted(w.on)' /\ w = Want(w.on, run.sel)'
    BY <1>1, <1>4, <1>5, <2>1 DEF WritesAsWanted
  <2>2. QED  BY <2>1 DEF StepsInv
<1>7. ASSUME NEW f \in File, Owner(f) = p, Wanted(f)', ObjectsOf(f) \subseteq run'.sel,
             Want(f, run.sel)' \notin ToSet(run'.steps)
      PROVE  OnDisk(Want(f, run.sel))'
  <2>. DEFINE w == Want(f, run.sel)
  <2>1. Wanted(f) /\ Want(f, run.sel)' = w  BY <1>5, <1>7
  <2>2. w \in S  BY <1>1, <1>7, <2>1 DEF WritesAsWanted
  <2>3. OnDisk(w)
    <3>1. ~Due(w, {})  BY <1>4, <1>7, <2>1, <2>2
    <3>2. QED  BY <3>1, NotDue
  <2>. HIDE DEF w
  <2>4. \A x : x = w => OnDisk(x)'  BY <2>3, OnDiskStays
  <2>5. QED  BY <2>1, <2>4
<1>8. ScriptInv'  BY <1>7 DEF ScriptInv
<1>9. QED  BY <1>6, <1>8

\* A plugin that has nothing to do has its files on the disk.
LEMMA NothingToDo ==
    ASSUME NEW p \in Plugin, StepsOf(p) = <<>>,
           NEW f \in File, Owner(f) = p, Wanted(f), ObjectsOf(f) \subseteq run.sel
    PROVE  OnDisk(Want(f, run.sel))
<1>. DEFINE script == Script(run.mode, p, run.sel)
<1>1. PICK S : Lists(script, S) /\ WritesAsWanted(S, p, run.sel)
  BY ScriptsWanted DEF WritesRight
<1>2. script \in Seq(S) /\ ToSet(script) = S  BY <1>1, ListsIs DEF Lists
<1>. HIDE DEF script
<1>3. Rest(script, {}) = <<>>  BY DEF StepsOf, script
<1>4. \A w \in S : ~Due(w, {})
  <2>1. \A w \in ToSet(script) \ ToSet(Rest(script, {})) : ~Due(w, {})  BY <1>2, RestWrites
  <2>2. ToSet(<<>>) = {}  BY DEF ToSet
  <2>3. QED  BY <1>2, <1>3, <2>1, <2>2
<1>5. Want(f, run.sel) \in S  BY <1>1 DEF WritesAsWanted
<1>6. QED  BY <1>4, <1>5, NotDue

\* When plugins have returned, the files of the objects that count as applied are there.
LEMMA ReturnedOnDisk ==
    ASSUME RunInv, ScriptInv, DiskInv, run.steps = <<>>, NEW D \in SUBSET Plugin, At \subseteq D,
           \A p \in D \ At : StepsOf(p) = <<>>,
           NEW f \in File, Owner(f) \notin cut, Wanted(f), ObjectsOf(f) \subseteq Returned(D)
    PROVE  OnDisk(Want(f, Object))
<1>. DEFINE q == Owner(f)
<1>1. /\ q \in Plugin /\ ObjectsOf(f) \subseteq Kinds[q] /\ ObjectsOf(f) # {}
      /\ \A p \in Plugin : ObjectsOf(f) \cap Kinds[p] # {} => p = q
      /\ q # "network.firewall" => \E o : ObjectsOf(f) = {o}
      /\ q = "network.firewall" => ObjectsOf(f) = Kinds["network.firewall"]
  BY Owners, ObjectsOfOne
<1>2. f = "nftFirewall" => q = "network.firewall"
  BY Owners DEF FirewallOwns
<1>. HIDE DEF q
<1>3. ASSUME ObjectsOf(f) \subseteq run.sel, q \in D PROVE OnDisk(Want(f, Object))
  <2>1. OnDisk(Want(f, run.sel))
    <3>1. CASE q \in At
      <4>1. ToSet(<<>>) = {}  BY DEF ToSet
      <4>2. Owner(f) = run.at /\ run.at \in Plugin  BY <3>1 DEF At, q
      <4>3. Want(f, run.sel) \notin ToSet(run.steps)  BY <4>1
      <4>4. QED  BY <1>3, <4>2, <4>3 DEF ScriptInv
    <3>2. CASE q \notin At  BY <1>3, <3>2, NothingToDo DEF q
    <3>3. QED  BY <3>1, <3>2
  <2>2. f # "nftFirewall" \/ {"main", "guest"} \subseteq run.sel
    <3>1. Kinds["network.firewall"] = {"main", "guest"}  BY Plugins12 DEF Kinds
    <3>2. QED  BY <1>1, <1>2, <1>3, <3>1
  <2>3. QED  BY <2>1, <2>2, WantFull
<1>4. ASSUME ObjectsOf(f) \subseteq applied, f = "nftFirewall" => "network.firewall" \notin At
      PROVE  OnDisk(Want(f, Object))
  <2>1. f = "nftFirewall" => run.at # "network.firewall"  BY <1>4, Plugins12 DEF At
  <2>2. QED  BY <1>4, <2>1 DEF DiskInv
<1>5. \A o : o \in Returned(D) <=>
          \/ o \in applied /\ ~ ("network.firewall" \in D /\ o \in Kinds["network.firewall"])
          \/ o \in run.sel /\ \E p \in D : o \in Kinds[p]
  <2>. DEFINE K == Kinds["network.firewall"]
              dropped == IF "network.firewall" \in D THEN K ELSE {}
              added == (UNION {Kinds[p] : p \in D}) \cap run.sel
  <2>1. Returned(D) = (applied \ dropped) \cup added  BY Zenon DEF Returned
  <2>2. \A o : o \in added <=> o \in run.sel /\ \E p \in D : o \in Kinds[p]  OBVIOUS
  <2>3. \A o : o \in dropped <=> "network.firewall" \in D /\ o \in K  OBVIOUS
  <2>. HIDE DEF added, dropped
  <2>4. QED  BY <2>1, <2>2, <2>3
<1>6. \A o \in ObjectsOf(f) : o \in applied \/ (q \in D /\ o \in run.sel)
  <2>1. SUFFICES ASSUME NEW o \in ObjectsOf(f), o \notin applied PROVE q \in D /\ o \in run.sel
    OBVIOUS
  <2>2. o \in run.sel /\ \E p \in D : o \in Kinds[p]  BY <1>5, <2>1
  <2>3. PICK p \in D : o \in Kinds[p]  BY <2>2
  <2>4. p = q  BY <1>1, <2>3
  <2>5. QED  BY <2>2, <2>3, <2>4
<1>7. CASE q = "network.firewall" /\ q \in D
  <2>1. \A o \in ObjectsOf(f) : o \in run.sel
    BY <1>1, <1>7, <1>5
  <2>2. QED  BY <1>3, <1>7, <2>1
<1>8. CASE q = "network.firewall" /\ q \notin D  BY <1>4, <1>6, <1>8
<1>9. CASE q # "network.firewall"
  <2>1. PICK o : ObjectsOf(f) = {o}  BY <1>1, <1>9
  <2>2. CASE o \in applied  BY <1>2, <1>4, <1>9, <2>1, <2>2
  <2>3. CASE o \notin applied  BY <1>3, <1>6, <2>1, <2>3
  <2>4. QED  BY <2>2, <2>3
<1>10. QED  BY <1>7, <1>8, <1>9

\* All together.
WritesInv == ChinaInv /\ NamesInv /\ StepsInv /\ ScriptInv /\ DiskInv

\* The China names updater reads once, and an edit under it is remembered.
LEMMA ChinaInvStep ==
    ASSUME RunInv, MachineInv, ChinaInv, Next
    PROVE  ChinaInv'
<1>1. CASE UNCHANGED <<conf, china>> /\ cut \subseteq cut'
  BY <1>1 DEF ChinaInv, On
<1>2. CASE \/ Begins \/ NextPlugin \/ End \/ Render \/ WriteFile \/ Install \/ MarkStale \/ Restart
           \/ Enable \/ Disable \/ Cut \/ InstallCoredns
  <2>1. UNCHANGED <<conf, china>>
    BY <1>2 DEF Begins, Begin, NextPlugin, End, Render, WriteFile, Install, MarkStale, Restart,
                Enable, Disable, Cut, InstallCoredns
  <2>2. cut \subseteq cut'
    BY <1>2 DEF Begins, Begin, NextPlugin, End, Render, WriteFile, Install, MarkStale, Restart,
                Enable, Disable, Cut, InstallCoredns
  <2>3. QED  BY <1>1, <2>1, <2>2
<1>3. CASE ChinaBegin
  <2>1. /\ On("china") /\ conf' = conf
        /\ china'.from = [servers |-> conf[<<"china", "servers">>],
                          manual |-> conf[<<"china", "manual">>]]
    BY <1>3 DEF ChinaBegin
  <2>2. QED  BY <2>1 DEF ChinaInv, On
<1>4. CASE ChinaFetch \/ ChinaWrite
  <2>1. china.pc # "off" /\ UNCHANGED <<conf, cut>>
    BY <1>4, FilesOf DEF ChinaFetch, ChinaWrite
  <2>2. china'.from = china.from
    BY <1>4 DEF ChinaFetch, ChinaWrite, MachineInv, NoChina
  <2>3. QED  BY <2>1, <2>2 DEF ChinaInv, On
<1>5. CASE ChinaRestart \/ ChinaCut
  <2>1. china'.pc = "off"  BY <1>5 DEF ChinaRestart, ChinaCut, NoChina
  <2>2. QED  BY <2>1 DEF ChinaInv
<1>6. CASE Edit
  <2>1. PICK s \in Setting :
           /\ \E v \in Values(s) \ {conf[s]} : conf' = [conf EXCEPT ![s] = v]
           /\ cut' = IF s[1] = "china" /\ china.pc # "off" THEN cut \cup {"china"} ELSE cut
    BY <1>6 DEF Edit
  <2>2. china' = china  BY <1>6 DEF Edit
  <2>3. CASE s[1] = "china" /\ china.pc # "off"
    BY <2>1, <2>2, <2>3 DEF ChinaInv
  <2>4. CASE s[1] # "china"
    <3>1. \A x \in {"enabled", "servers", "manual"} : s # <<"china", x>>  BY <2>4
    <3>2. \A x \in {"enabled", "servers", "manual"} :
             conf'[<<"china", x>>] = conf[<<"china", x>>]
      BY <2>1, <3>1
    <3>3. cut' = cut  BY <2>1, <2>4
    <3>4. QED  BY <2>2, <3>2, <3>3 DEF ChinaInv, On
  <2>5. CASE china.pc = "off"  BY <2>2, <2>5 DEF ChinaInv
  <2>6. QED  BY <2>3, <2>4, <2>5
<1>7. QED  BY <1>2, <1>3, <1>4, <1>5, <1>6 DEF Next

\* The text in hand is of names that have been downloaded.
LEMMA NamesStep ==
    ASSUME RunInv, MachineInv, NamesInv, Next
    PROVE  NamesInv'
<1>1. ASSUME UNCHANGED <<cached, china>>, run'.names \in {run.names, {}, {cached}}
      PROVE  NamesInv'
  BY <1>1 DEF NamesInv
<1>2. CASE Begins \/ NextPlugin \/ End \/ Cut
  <2>1. UNCHANGED <<cached, china>>  BY <1>2 DEF Begins, Begin, NextPlugin, End, Cut, machine
  <2>2. run'.names \in {run.names, {}}
    <3>1. CASE Begins
      <4>1. \E mode, sel : Begin(mode, sel)  BY <3>1 DEF Begins
      <4>2. PICK mode, sel : Begin(mode, sel)  BY <4>1
      <4>3. run'.names = {}  BY <4>2 DEF Begin, Idle
      <4>4. QED  BY <4>3
    <3>2. CASE End \/ Cut
      <4>1. run' = Idle  BY <3>2 DEF End, Cut
      <4>2. QED  BY <4>1 DEF Idle
    <3>3. CASE NextPlugin  BY <3>3 DEF NextPlugin, Idle, RunInv
    <3>4. QED  BY <1>2, <3>1, <3>2, <3>3
  <2>3. QED  BY <1>1, <2>1, <2>2
<1>3. CASE Render \/ WriteFile \/ Install \/ MarkStale \/ Restart \/ Enable \/ Disable
  <2>1. UNCHANGED <<cached, china>>
    BY <1>3 DEF Render, WriteFile, Install, MarkStale, Restart, Enable, Disable, machine
  <2>2. CASE Render \/ Install \/ MarkStale
    <3>1. run'.names \in {run.names, {cached}}
      BY <2>2 DEF Render, Install, MarkStale, RunInv, Idle
    <3>2. QED  BY <1>1, <2>1, <3>1
  <2>3. CASE WriteFile \/ Restart \/ Enable \/ Disable
    <3>1. \E ch, did : GoOn(ch, did)  BY <2>3 DEF WriteFile, Restart, Enable, Disable
    <3>2. run'.names = {}  BY <3>1 DEF GoOn, RunInv, Idle
    <3>3. QED  BY <1>1, <2>1, <3>2
  <2>4. QED  BY <1>3, <2>2, <2>3
<1>4. CASE Edit \/ InstallCoredns
  <2>1. UNCHANGED <<cached, china, run>>  BY <1>4 DEF Edit, InstallCoredns, machine
  <2>2. QED  BY <1>1, <2>1
<1>5. CASE ChinaBegin
  <2>1. cached' = cached /\ china'.pc = "fetch"  BY <1>5 DEF ChinaBegin, machine
  <2>2. run'.names = run.names  BY <1>5 DEF ChinaBegin, RunInv, Idle
  <2>3. QED  BY <2>1, <2>2 DEF NamesInv
<1>6. CASE ChinaFetch
  <2>1. cached' \in {cached, cached + 1} /\ run' = run /\ china'.names = cached'
    BY <1>6 DEF ChinaFetch, MachineInv, NoChina
  <2>2. QED  BY <2>1 DEF NamesInv
<1>7. CASE ChinaWrite
  <2>1. /\ cached' = cached /\ run' = run /\ china.pc \in {"chinaConf", "chinaManual"}
        /\ china'.names = china.names
    BY <1>7, FilesOf DEF ChinaWrite, MachineInv, NoChina
  <2>2. QED  BY <2>1 DEF NamesInv
<1>8. CASE ChinaRestart \/ ChinaCut
  <2>1. cached' = cached /\ run' = run /\ china'.pc = "off"
    BY <1>8 DEF ChinaRestart, ChinaCut, NoChina, machine
  <2>2. QED  BY <2>1 DEF NamesInv
<1>9. QED  BY <1>2, <1>3, <1>4, <1>5, <1>6, <1>7, <1>8 DEF Next

\* Nobody but the run touches the disk, and the run goes on.
LEMMA DiskRests ==
    ASSUME DiskInv, UNCHANGED <<conf, coredns, cached, china, disk, behind>>, cut \subseteq cut',
           applied' \subseteq applied, run'.at = run.at, run.changed \subseteq run'.changed
    PROVE  DiskInv'
<1>1. \A f \in File : \A sel : Want(f, sel)' = Want(f, sel) /\ (Wanted(f)' <=> Wanted(f))
  BY WantStays
<1>2. ASSUME NEW f \in File, Owner(f) \notin cut', Wanted(f)', ObjectsOf(f) \subseteq applied'
      PROVE  \/ OnDisk(Want(f, Object))'
             \/ f = "nftFirewall" /\ run'.at = "network.firewall" /\ run'.changed # {}
  <2>1. \/ OnDisk(Want(f, Object))
        \/ f = "nftFirewall" /\ run.at = "network.firewall" /\ run.changed # {}
    BY <1>1, <1>2 DEF DiskInv
  <2>2. CASE OnDisk(Want(f, Object))
    <3>1. \A w : OnDisk(w) => OnDisk(w)'  BY OnDiskStays
    <3>2. Want(f, Object)' = Want(f, Object)  BY <1>1
    <3>3. QED  BY <2>2, <3>1, <3>2
  <2>3. QED  BY <2>1, <2>2
<1>3. QED  BY <1>2 DEF DiskInv

\* A command of the run writes nothing.
LEMMA CommandWrites ==
    ASSUME RunInv, MachineInv, StepsInv, ScriptInv, DiskInv,
           Install \/ MarkStale \/ Restart \/ Enable \/ Disable
    PROVE  StepsInv' /\ ScriptInv' /\ DiskInv'
<1>1. /\ run'.at = run.at /\ run'.sel = run.sel /\ run.changed \subseteq run'.changed
      /\ \E ch : run'.steps = Rest(Tail(run.steps), ch)
  <2>1. CASE Install
    BY <2>1 DEF Install, RunInv, Idle
  <2>2. CASE MarkStale
    BY <2>2 DEF MarkStale, RunInv, Idle
  <2>3. CASE Restart \/ Enable \/ Disable
    <3>1. PICK did : GoOn({}, did)  BY <2>3 DEF Restart, Enable, Disable
    <3>2. QED  BY <3>1 DEF GoOn, RunInv, Idle
  <2>4. QED  BY <2>1, <2>2, <2>3
<1>2. /\ UNCHANGED <<conf, coredns, cached, china, disk, applied, behind>>
      /\ cut \subseteq cut' /\ run.steps # <<>> /\ Now.op # "write"
  BY DEF Install, MarkStale, Restart, Enable, Disable, machine
<1>3. PICK ch : run'.steps = Rest(Tail(run.steps), ch)  BY <1>1
<1>4. StepsInv' /\ ScriptInv'
  <2>1. \A f \in File : disk'[f] = disk[f] \/ (Now.op = "write" /\ f = Now.on)  BY <1>2
  <2>2. \A w : w = Now /\ w.op = "write" /\ w.on # "logrotate" => OnDisk(w)'  BY <1>2
  <2>3. QED  BY <1>1, <1>2, <1>3, <2>1, <2>2, RunGoesOn
<1>5. DiskInv'  BY <1>1, <1>2, DiskRests
<1>6. QED  BY <1>4, <1>5

\* A write of the run.
LEMMA FileWrites ==
    ASSUME RunInv, MachineInv, NamesInv, StepsInv, ScriptInv, DiskInv, WriteFile
    PROVE  StepsInv' /\ ScriptInv' /\ DiskInv'
<1>13. PICK new, ch :
         /\ ch = IF new = disk[Now.on] THEN {} ELSE {Now.on}
         /\ disk' = [disk EXCEPT ![Now.on] = new] /\ GoOn(ch, ch)
         /\ \/ new = Rendered(Now)
            \/ Now.on = "chinaConf" /\ OfNames(Now) /\ \E n \in run.names : new = Names(Now, n)
  BY FileWritten
<1>1. /\ run.steps # <<>> /\ Now.op = "write"
      /\ disk' = [disk EXCEPT ![Now.on] = new] /\ GoOn(ch, ch)
      /\ UNCHANGED <<conf, cached, coredns, china, applied, cut>>
      /\ behind' = IF Now.on = "chinaConf" THEN ~(run.names \subseteq {cached}) ELSE behind
  BY <1>13 DEF WriteFile
<1>14. \/ new = Rendered(Now)
       \/ Now.on = "chinaConf" /\ behind' /\ \E n \in 0..cached : new = Names(Now, n)
  <2>1. SUFFICES ASSUME Now.on = "chinaConf", OfNames(Now), NEW n \in run.names,
                        new = Names(Now, n), new # Rendered(Now)
                 PROVE  behind' /\ n \in 0..cached
    BY <1>13
  <2>2. n \in 0..cached  BY DEF NamesInv
  <2>3. n # cached  BY <2>1 DEF Rendered
  <2>4. ~(run.names \subseteq {cached})  BY <2>3
  <2>5. QED  BY <1>1, <2>1, <2>2, <2>4
<1>2. /\ run'.at = run.at /\ run'.sel = run.sel /\ run'.changed = run.changed \cup ch
      /\ run'.steps = Rest(Tail(run.steps), run.changed \cup ch)
  BY <1>1 DEF GoOn, RunInv, Idle
<1>3. run.at \in Plugin /\ StepOK(Now, run.at)  BY <1>1, StepHere
<1>4. Now \in ToSet(run.steps)
  <2>1. PICK S : run.steps \in Seq(S)  BY DEF RunInv, StepsOK
  <2>2. QED  BY <1>1, <2>1, FirstAndRest DEF Now
<1>5. Now.on # "logrotate" =>
         Now.on \in File /\ Owner(Now.on) = run.at /\ Now = Want(Now.on, run.sel)
  BY <1>1, <1>3, <1>4 DEF StepsInv
<1>6. DOMAIN disk = File /\ \A f \in File : disk'[f] = disk[f] \/ f = Now.on
  BY <1>1 DEF MachineInv
<1>7. Now.on # "logrotate" => \A w : w = Now => OnDisk(w)'
  <2>. DEFINE f == Now.on
  <2>1. SUFFICES ASSUME f # "logrotate" PROVE \A w : w = Now => OnDisk(w)'  OBVIOUS
  <2>2. /\ f \in File /\ Now = Want(f, run.sel) /\ disk' = [disk EXCEPT ![f] = new]
        /\ \/ new = Rendered(Now)
           \/ f = "chinaConf" /\ behind' /\ \E n \in 0..cached : new = Names(Now, n)
    BY <1>1, <1>5, <1>14, <2>1
  <2>. HIDE DEF f
  <2>3. \/ new = Rendered(Want(f, run.sel))
        \/ f = "chinaConf" /\ behind' /\ \E n \in 0..cached : new = Names(Want(f, run.sel), n)
    BY <2>2
  <2>4. QED  BY <1>1, <1>6, <2>2, <2>3, WritePutsIt
<1>8. StepsInv' /\ ScriptInv'
  <2>1. \A f \in File : disk'[f] = disk[f] \/ (Now.op = "write" /\ f = Now.on)  BY <1>1, <1>6
  <2>2. \A w : w = Now /\ w.op = "write" /\ w.on # "logrotate" => OnDisk(w)'  BY <1>7
  <2>. DEFINE things == run.changed \cup ch
  <2>3. run'.steps = Rest(Tail(run.steps), things)  BY <1>2
  <2>. HIDE DEF things
  <2>5. behind' = behind \/ (Now.op = "write" /\ Now.on = "chinaConf")  BY <1>1
  <2>4. QED  BY <1>1, <1>2, <2>1, <2>2, <2>3, <2>5, RunGoesOn
<1>9. \A f \in File : \A sel : Want(f, sel)' = Want(f, sel) /\ (Wanted(f)' <=> Wanted(f))
  BY <1>1, WantStays
<1>10. ASSUME NEW f \in File, Owner(f) \notin cut', Wanted(f)', ObjectsOf(f) \subseteq applied'
       PROVE  \/ OnDisk(Want(f, Object))'
              \/ f = "nftFirewall" /\ run'.at = "network.firewall" /\ run'.changed # {}
  <2>1. Wanted(f) /\ Owner(f) \notin cut /\ ObjectsOf(f) \subseteq applied /\ f # "logrotate"
    BY <1>1, <1>9, <1>10 DEF Wanted
  <2>2. \/ OnDisk(Want(f, Object))
        \/ f = "nftFirewall" /\ run.at = "network.firewall" /\ run.changed # {}
    BY <2>1 DEF DiskInv
  <2>3. CASE f = "nftFirewall" /\ run.at = "network.firewall" /\ run.changed # {}
    BY <1>2, <2>3
  <2>4. CASE /\ OnDisk(Want(f, Object)) /\ disk'[f] = disk[f]
             /\ f # Now.on \/ f = "nftFirewall"
    <3>1. Want(f, Object).on = f  BY WantIs
    <3>5. f = "chinaConf" => behind' = behind  BY <1>1, <2>4
    <3>2. \A w : w.on = f /\ OnDisk(w) => OnDisk(w)'  BY <1>1, <2>4, <3>5, OnDiskStays
    <3>3. Want(f, Object)' = Want(f, Object)  BY <1>9
    <3>4. QED  BY <2>4, <3>1, <3>2, <3>3
  <2>5. CASE f = Now.on /\ (f # "nftFirewall" \/ disk'[f] # disk[f])
    <3>1. f = Now.on  BY <2>5
    <3>2. Owner(f) = run.at /\ Now = Want(f, run.sel)  BY <1>5, <2>1, <3>1
    <3>3. CASE f = "nftFirewall"
      <4>1. run.at = "network.firewall"  BY <3>2, <3>3, Owners DEF FirewallOwns
      <4>2. ch # {}
        <5>1. new # disk[f]  BY <1>1, <1>6, <2>1, <2>5, <3>3
        <5>2. QED  BY <1>13, <3>1, <5>1
      <4>3. QED  BY <1>2, <3>3, <4>1, <4>2
    <3>4. CASE f # "nftFirewall"
      <4>1. Now = Want(f, Object)  BY <3>2, <3>4, WantFull
      <4>2. \A w : w = Now => OnDisk(w)'  BY <1>7, <2>1, <3>1
      <4>3. Want(f, Object)' = Want(f, Object)  BY <1>9
      <4>4. QED  BY <4>1, <4>2, <4>3
    <3>5. QED  BY <3>3, <3>4
  <2>6. QED  BY <1>6, <2>2, <2>3, <2>4, <2>5
<1>11. DiskInv'  BY <1>10 DEF DiskInv
<1>12. QED  BY <1>8, <1>11

\* Where no plugin is in hand there are no steps.
LEMMA NobodyInHand == ASSUME run'.at \notin Plugin PROVE StepsInv' /\ ScriptInv'
  BY DEF StepsInv, ScriptInv

\* A plugin returns, and perhaps the next is called.
LEMMA PluginReturns ==
    ASSUME RunInv, ScriptInv, DiskInv, run.steps = <<>>, NEW D \in SUBSET Plugin, At \subseteq D,
           \A p \in D \ At : StepsOf(p) = <<>>, applied' = Returned(D),
           UNCHANGED <<conf, coredns, cached, china, disk, cut, behind>>
    PROVE  DiskInv'
<1>1. \A f \in File : \A sel : Want(f, sel)' = Want(f, sel) /\ (Wanted(f)' <=> Wanted(f))
  BY WantStays
<1>2. ASSUME NEW f \in File, Owner(f) \notin cut', Wanted(f)', ObjectsOf(f) \subseteq applied'
      PROVE  OnDisk(Want(f, Object))'
  <2>1. OnDisk(Want(f, Object))  BY <1>1, <1>2, ReturnedOnDisk
  <2>2. \A w : OnDisk(w) => OnDisk(w)'  BY OnDiskStays
  <2>3. Want(f, Object)' = Want(f, Object)  BY <1>1
  <2>4. QED  BY <2>1, <2>2, <2>3
<1>3. QED  BY <1>2 DEF DiskInv

\* Where a plugin returns and the run goes on or ends.
LEMMA ReturnWrites ==
    ASSUME RunInv, MachineInv, ScriptInv, DiskInv, NextPlugin \/ End
    PROVE  StepsInv' /\ ScriptInv' /\ DiskInv'
<1>1. /\ UNCHANGED <<conf, coredns, cached, china, disk, cut, behind>> /\ run.steps = <<>>
      /\ run.todo \subseteq Plugin /\ At \subseteq Plugin
  BY DEF NextPlugin, End, machine, RunInv, At
<1>2. "" \notin Plugin  BY Plugins12
<1>3. CASE End
  <2>1. applied' = Returned(At) /\ run'.at = ""  BY <1>3 DEF End, Idle
  <2>2. DiskInv'  BY <1>1, <2>1, PluginReturns
  <2>3. QED  BY <1>2, <2>1, <2>2, NobodyInHand
<1>4. CASE NextPlugin /\ run'.at = ""
  <2>1. /\ \A p \in run.todo : StepsOf(p) = <<>>
        /\ applied' = Returned(At \cup run.todo)
    <3>1. run'.at \notin run.todo  BY <1>1, <1>2, <1>4
    <3>2. ASSUME NEW p \in run.todo, NEW todo,
                 run' = [run EXCEPT !.at = p, !.todo = todo, !.changed = {}, !.steps = StepsOf(p)]
          PROVE  FALSE
      <4>1. run'.at = p  BY <3>2 DEF RunInv, Idle
      <4>2. QED  BY <3>1, <4>1
    <3>3. \A p \in run.todo : \A todo :
             run' # [run EXCEPT !.at = p, !.todo = todo, !.changed = {}, !.steps = StepsOf(p)]
      BY <3>2
    <3>4. QED  BY <1>4, <3>3, Zenon DEF NextPlugin
  <2>2. \A p \in (At \cup run.todo) \ At : StepsOf(p) = <<>>  BY <2>1
  <2>3. At \cup run.todo \in SUBSET Plugin  BY <1>1
  <2>. DEFINE D == At \cup run.todo
  <2>4. /\ D \in SUBSET Plugin /\ At \subseteq D /\ applied' = Returned(D)
        /\ \A p \in D \ At : StepsOf(p) = <<>>
    BY <2>1, <2>2, <2>3
  <2>. HIDE DEF D
  <2>5. DiskInv'  BY <1>1, <2>4, PluginReturns
  <2>6. QED  BY <1>2, <1>4, <2>5, NobodyInHand
<1>5. CASE NextPlugin /\ run'.at # ""
  <2>1. \E p \in run.todo : LET passed == {q \in run.todo : Place[q] < Place[p]} IN
           /\ \A q \in passed : StepsOf(q) = <<>>
           /\ applied' = Returned(At \cup passed)
           /\ run' = [run EXCEPT !.at = p, !.todo = @ \ (passed \cup {p}), !.changed = {},
                                 !.steps = StepsOf(p)]
    <3>1. run' # [run EXCEPT !.at = "", !.todo = {}, !.changed = {}]
      BY <1>5 DEF RunInv, Idle
    <3>2. QED  BY <1>5, <3>1 DEF NextPlugin
  <2>2. PICK p \in run.todo :
           /\ \A q \in {r \in run.todo : Place[r] < Place[p]} : StepsOf(q) = <<>>
           /\ applied' = Returned(At \cup {q \in run.todo : Place[q] < Place[p]})
           /\ \E todo : run' = [run EXCEPT !.at = p, !.todo = todo, !.changed = {},
                                           !.steps = StepsOf(p)]
    BY <2>1
  <2>. DEFINE D == At \cup {q \in run.todo : Place[q] < Place[p]}
  <2>3. /\ D \in SUBSET Plugin /\ At \subseteq D /\ applied' = Returned(D)
        /\ \A q \in D \ At : StepsOf(q) = <<>>
    BY <1>1, <2>2
  <2>. HIDE DEF D
  <2>4. DiskInv'  BY <1>1, <2>3, PluginReturns
  <2>5. run'.at = p /\ run'.sel = run.sel /\ run'.steps = StepsOf(p)
    BY <2>2 DEF RunInv, Idle
  <2>6. QED  BY <1>1, <2>4, <2>5, RunBegins
<1>6. QED  BY <1>3, <1>4, <1>5

\* A run that was stopped had changed nothing, or is remembered.
LEMMA CutWrites ==
    ASSUME RunInv, MachineInv, DiskInv, Cut
    PROVE  StepsInv' /\ ScriptInv' /\ DiskInv'
<1>1. /\ UNCHANGED <<conf, coredns, cached, china, disk, applied, behind>> /\ run'.at = ""
      /\ cut' = IF run.changed = {} THEN cut ELSE cut \cup {run.at}
  BY DEF Cut, machine, Idle
<1>2. \A f \in File : \A sel : Want(f, sel)' = Want(f, sel) /\ (Wanted(f)' <=> Wanted(f))
  BY <1>1, WantStays
<1>3. ASSUME NEW f \in File, Owner(f) \notin cut', Wanted(f)', ObjectsOf(f) \subseteq applied'
      PROVE  OnDisk(Want(f, Object))'
  <2>1. OnDisk(Want(f, Object))
    <3>1. f = "nftFirewall" => Owner(f) = "network.firewall"  BY <1>3, Owners DEF FirewallOwns
    <3>2. ~ (f = "nftFirewall" /\ run.at = "network.firewall" /\ run.changed # {})
      BY <1>1, <1>3, <3>1
    <3>3. QED  BY <1>1, <1>2, <1>3, <3>2 DEF DiskInv
  <2>2. \A w : OnDisk(w) => OnDisk(w)'  BY <1>1, OnDiskStays
  <2>3. Want(f, Object)' = Want(f, Object)  BY <1>2
  <2>4. QED  BY <2>1, <2>2, <2>3
<1>4. DiskInv'  BY <1>3 DEF DiskInv
<1>5. "" \notin Plugin  BY Plugins12
<1>6. QED  BY <1>1, <1>4, <1>5, NobodyInHand

\* A run begins; nothing has been done.
LEMMA BeginWrites ==
    ASSUME RunInv, MachineInv, DiskInv, Begins
    PROVE  StepsInv' /\ ScriptInv' /\ DiskInv'
<1>1. /\ UNCHANGED <<conf, coredns, cached, china, disk, applied, cut, behind>>
      /\ run = Idle /\ run'.at = ""
  BY DEF Begins, Begin, machine, Idle, RunInv
<1>2. run'.at = run.at /\ run.changed = {}  BY <1>1 DEF Idle
<1>3. "" \notin Plugin  BY Plugins12
<1>4. DiskInv'  BY <1>1, <1>2, DiskRests
<1>5. QED  BY <1>1, <1>3, <1>4, NobodyInHand

-----------------------------------------------------------------------------
(* The China names updater beside the run, and edits.                      *)

\* The invariants after a step that leaves the run's place and the configuration.
LEMMA BesideRun ==
    ASSUME StepsInv, ScriptInv, DiskInv, UNCHANGED <<conf, coredns, applied>>, cut \subseteq cut',
           run'.at = run.at, run'.sel = run.sel, run'.steps = run.steps, run'.changed = run.changed,
           \A f \in File : \A sel : OnDisk(Want(f, sel)) => \A w : w = Want(f, sel) => OnDisk(w)'
    PROVE  StepsInv' /\ ScriptInv' /\ DiskInv'
<1>1. \A f \in File : \A sel : Want(f, sel)' = Want(f, sel) /\ (Wanted(f)' <=> Wanted(f))
  BY WantStays
<1>2. StepsInv'  BY <1>1 DEF StepsInv
<1>3. ScriptInv'
  <2>1. ASSUME NEW f \in File, run.at \in Plugin, Owner(f) = run.at, Wanted(f)',
               ObjectsOf(f) \subseteq run.sel
        PROVE  Want(f, run.sel)' \in ToSet(run.steps) \/ OnDisk(Want(f, run.sel))'
    <3>1. Want(f, run.sel) \in ToSet(run.steps) \/ OnDisk(Want(f, run.sel))
      BY <1>1, <2>1 DEF ScriptInv
    <3>2. Want(f, run.sel)' = Want(f, run.sel)  BY <1>1
    <3>3. QED  BY <3>1, <3>2
  <2>2. QED  BY <2>1 DEF ScriptInv
<1>4. DiskInv'
  <2>1. ASSUME NEW f \in File, Owner(f) \notin cut', Wanted(f)', ObjectsOf(f) \subseteq applied'
        PROVE  \/ OnDisk(Want(f, Object))'
               \/ f = "nftFirewall" /\ run'.at = "network.firewall" /\ run'.changed # {}
    <3>1. \/ OnDisk(Want(f, Object))
          \/ f = "nftFirewall" /\ run.at = "network.firewall" /\ run.changed # {}
      BY <1>1, <2>1 DEF DiskInv
    <3>2. Want(f, Object)' = Want(f, Object)  BY <1>1
    <3>3. QED  BY <3>1, <3>2
  <2>2. QED  BY <2>1 DEF DiskInv
<1>5. QED  BY <1>2, <1>3, <1>4

\* What the China names updater writes is what a run would write.
LEMMA ChinaContentIs ==
    ASSUME MachineInv, ChinaInv, china.pc # "off", "china" \notin cut, china.names = cached,
           NEW f \in {"chinaConf", "chinaManual"}, NEW sel
    PROVE  ChinaContent(f).from = Rendered(Want(f, sel)).from
<1>. DEFINE servers == <<"china", "servers">>
            manual == <<"china", "manual">>
            w == Write(f, Content("gw", Renders[f], conf))
<1>1. On("china") /\ china.from = [servers |-> conf[servers], manual |-> conf[manual]]
  BY DEF ChinaInv
<1>2. Want(f, sel) = w  BY <1>1 DEF Want
<1>3. f \in File  BY AllFiles DEF DnsmasqOwns
<1>4. Renders[f] = IF f = "chinaConf" THEN {servers} ELSE {servers, manual}
  <2>1. Renders[f] = (CHOOSE r \in Renderers : f \in DOMAIN r)[f]  BY <1>3 DEF Renders
  <2>2. \E r \in Renderers : f \in DOMAIN r  BY <1>3 DEF File
  <2>3. PICK r \in Renderers : f \in DOMAIN r /\ Renders[f] = r[f]  BY <2>1, <2>2
  <2>4. r = ChinaFiles
    <3>1. CASE f = "chinaConf"  BY <2>3, <3>1, FilesOf DEF Renderers
    <3>2. CASE f = "chinaManual"  BY <2>3, <3>2, FilesOf DEF Renderers
    <3>3. QED  BY <3>1, <3>2
  <2>5. /\ ChinaFiles["chinaConf"] = {"china"} \X {"servers"}
        /\ ChinaFiles["chinaManual"] = {"china"} \X {"servers", "manual"}
    BY DEF ChinaFiles
  <2>6. {"china"} \X {"servers"} = {servers} /\ {"china"} \X {"servers", "manual"} = {servers, manual}
    OBVIOUS
  <2>7. QED  BY <2>3, <2>4, <2>5, <2>6
<1>5. w.on = f /\ w.what = Content("gw", Renders[f], conf)  BY WriteIs
<1>6. w.what.tag = "gw" /\ w.what.from = {<<s, conf[s]>> : s \in Renders[f]}
      /\ DOMAIN w.what = {"tag", "from"}
  BY <1>5 DEF Content
<1>. HIDE DEF w
<1>7. CASE f = "chinaConf"
  <2>1. Rendered(w).from = {<<servers, conf[servers]>>} \cup {<<<<"china", "cached">>, cached>>}
    <3>1. w.what.from = {<<servers, conf[servers]>>}  BY <1>4, <1>6, <1>7
    <3>2. QED  BY <1>5, <1>6, <1>7, <3>1 DEF Rendered, OfNames, Names
  <2>2. ChinaContent(f).from = {<<servers, conf[servers]>>, <<<<"china", "cached">>, cached>>}
    BY <1>1, <1>7 DEF ChinaContent
  <2>3. QED  BY <1>2, <2>1, <2>2
<1>8. CASE f = "chinaManual"
  <2>1. Rendered(w).from = {<<servers, conf[servers]>>, <<manual, conf[manual]>>}
    <3>1. w.what.from = {<<servers, conf[servers]>>, <<manual, conf[manual]>>}
      BY <1>4, <1>6, <1>8
    <3>2. QED  BY <1>5, <1>8, <3>1 DEF Rendered, OfNames, Names
  <2>2. ChinaContent(f).from = {<<servers, conf[servers]>>, <<manual, conf[manual]>>}
    BY <1>1, <1>8 DEF ChinaContent
  <2>3. QED  BY <1>2, <2>1, <2>2
<1>9. QED  BY <1>7, <1>8

\* No step of the China names updater undoes a write.
LEMMA ChinaKeepsDisk ==
    ASSUME MachineInv, ChinaInv, NamesInv,
           ChinaBegin \/ ChinaFetch \/ ChinaWrite \/ ChinaRestart \/ ChinaCut,
           NEW f \in File, NEW sel, OnDisk(Want(f, sel)),
           NEW w, w = Want(f, sel)
    PROVE  OnDisk(w)'
<1>1. w.on = f  BY WantIs
<1>2. UNCHANGED conf /\ cut \subseteq cut'
  BY DEF ChinaBegin, ChinaFetch, ChinaWrite, ChinaRestart, ChinaCut
<1>3. f # "chinaConf" => Rendered(w)' = Rendered(w)  BY <1>1 DEF Rendered, OfNames, Names
<1>4. /\ cached' = cached => Rendered(w)' = Rendered(w)
      /\ \A n : Names(w, n)' = Names(w, n)
  BY DEF Rendered, OfNames, Names
<1>5. CASE ChinaBegin
  <2>1. disk' = disk /\ cached' = cached /\ behind' = behind /\ china.pc = "off"
    BY <1>5 DEF ChinaBegin, machine
  <2>2. QED  BY <1>1, <1>2, <1>4, <2>1 DEF OnDisk
<1>6. CASE ChinaFetch
  <2>1. disk' = disk /\ cut' = cut /\ china.pc = "fetch" /\ china'.pc = "chinaConf"
    BY <1>6 DEF ChinaFetch, MachineInv, NoChina
  <2>2. QED  BY <1>1, <1>3, <2>1 DEF OnDisk
<1>7. CASE ChinaRestart
  <2>1. disk' = disk /\ cached' = cached /\ behind' = behind /\ china.pc = "restart"
    BY <1>7 DEF ChinaRestart
  <2>2. QED  BY <1>1, <1>2, <1>4, <2>1 DEF OnDisk
<1>8. CASE ChinaCut
  <2>1. disk' = disk /\ "china" \in cut'  BY <1>8 DEF ChinaCut, machine
  <2>2. QED  BY <1>1, <2>1 DEF OnDisk
<1>9. CASE ChinaWrite
  <2>1. /\ china.pc \in {"chinaConf", "chinaManual"}
        /\ disk' = [disk EXCEPT ![china.pc] = ChinaContent(china.pc)]
        /\ cached' = cached /\ cut' = cut
        /\ behind' = (behind /\ china.pc # "chinaConf")
    BY <1>9, FilesOf DEF ChinaWrite
  <2>2. china.pc \in File /\ DOMAIN disk = File  BY <2>1, AllFiles DEF DnsmasqOwns, MachineInv
  <2>3. CASE f = china.pc
    <3>1. disk'[f] = ChinaContent(f)  BY <2>1, <2>2, <2>3
    <3>2. "china" \in cut \/ ChinaContent(f).from = Rendered(Want(f, sel)).from
      BY <2>1, <2>3, ChinaContentIs DEF NamesInv
    <3>3. QED  BY <1>1, <1>4, <2>1, <2>3, <3>1, <3>2 DEF OnDisk
  <2>4. CASE f # china.pc
    <3>1. disk'[f] = disk[f]  BY <2>1, <2>2, <2>4
    <3>2. QED  BY <1>1, <1>4, <2>1, <2>4, <3>1 DEF OnDisk
  <2>5. QED  BY <2>3, <2>4
<1>10. QED  BY <1>5, <1>6, <1>7, <1>8, <1>9

\* So the China names updater keeps what a run relies on.
LEMMA ChinaWrites ==
    ASSUME RunInv, MachineInv, WritesInv,
           ChinaBegin \/ ChinaFetch \/ ChinaWrite \/ ChinaRestart \/ ChinaCut
    PROVE  StepsInv' /\ ScriptInv' /\ DiskInv'
<1>1. UNCHANGED <<conf, coredns, applied>> /\ cut \subseteq cut'
  BY DEF ChinaBegin, ChinaFetch, ChinaWrite, ChinaRestart, ChinaCut, machine
<1>2. /\ run'.at = run.at /\ run'.sel = run.sel /\ run'.steps = run.steps
      /\ run'.changed = run.changed
  <2>1. CASE ChinaBegin  BY <2>1 DEF ChinaBegin, RunInv, Idle
  <2>2. CASE ChinaFetch \/ ChinaWrite \/ ChinaRestart \/ ChinaCut
    BY <2>2 DEF ChinaFetch, ChinaWrite, ChinaRestart, ChinaCut
  <2>3. QED  BY <2>1, <2>2
<1>3. \A f \in File : \A sel : OnDisk(Want(f, sel)) => \A w : w = Want(f, sel) => OnDisk(w)'
  BY ChinaKeepsDisk DEF WritesInv
<1>4. QED  BY <1>1, <1>2, <1>3, BesideRun DEF WritesInv

\* An edit takes its object off the applied ones, and so does the installation of the
\* binary of the DNS server.
LEMMA EditWrites ==
    ASSUME RunInv, MachineInv, DiskInv, Edit \/ InstallCoredns
    PROVE  StepsInv' /\ ScriptInv' /\ DiskInv'
<1>1. /\ UNCHANGED <<disk, cached, china, behind>> /\ cut \subseteq cut'
      /\ run = Idle /\ run' = run
  BY DEF Edit, InstallCoredns, machine, RunInv
<1>2. \A f \in File : ObjectsOf(f) \subseteq applied' =>
         /\ ObjectsOf(f) \subseteq applied
         /\ \A s \in Setting : s[1] \in ObjectsOf(f) => conf'[s] = conf[s]
         /\ f = "wgsdUnit" => coredns' = coredns
  <2>1. CASE Edit
    <3>1. PICK s \in Setting : /\ \E v \in Values(s) \ {conf[s]} : conf' = [conf EXCEPT ![s] = v]
                               /\ applied' = applied \ {s[1]}
      BY <2>1 DEF Edit
    <3>2. coredns' = coredns  BY <2>1 DEF Edit, machine
    <3>3. \A t \in Setting : t[1] \in applied' => conf'[t] = conf[t]  BY <3>1 DEF MachineInv
    <3>4. QED  BY <3>1, <3>2, <3>3
  <2>2. CASE InstallCoredns
    <3>1. conf' = conf /\ applied' = applied \ {"wgsd"}  BY <2>2 DEF InstallCoredns
    <3>2. \A f \in File : f = "wgsdUnit" => ObjectsOf(f) = {"wgsd"}  BY ObjectsAre DEF WgsdOwns
    <3>3. QED  BY <3>1, <3>2
  <2>3. QED  BY <2>1, <2>2
<1>3. ASSUME NEW f \in File, Owner(f) \notin cut', Wanted(f)', ObjectsOf(f) \subseteq applied'
      PROVE  OnDisk(Want(f, Object))'
  <2>1. Want(f, Object)' = Want(f, Object) /\ (Wanted(f)' <=> Wanted(f))
    BY <1>2, <1>3, WantStays
  <2>2. OnDisk(Want(f, Object))
    <3>1. run.changed = {}  BY <1>1 DEF Idle
    <3>2. QED  BY <1>1, <1>2, <1>3, <2>1, <3>1 DEF DiskInv
  <2>3. \A w : OnDisk(w) => OnDisk(w)'  BY <1>1, OnDiskStays
  <2>4. QED  BY <2>1, <2>2, <2>3
<1>4. DiskInv'  BY <1>3 DEF DiskInv
<1>5. run'.at \notin Plugin  BY <1>1, Plugins12 DEF Idle
<1>6. QED  BY <1>4, <1>5, NobodyInHand

\* The rendering writes nothing yet.
LEMMA RenderWrites ==
    ASSUME RunInv, WritesInv, Render
    PROVE  StepsInv' /\ ScriptInv' /\ DiskInv'
<1>1. /\ UNCHANGED <<conf, coredns, cached, china, disk, applied, cut, behind>>
      /\ run' = [run EXCEPT !.names = {cached}]
  BY DEF Render, machine
<1>2. /\ run'.at = run.at /\ run'.sel = run.sel /\ run'.steps = run.steps
      /\ run'.changed = run.changed
  BY <1>1 DEF RunInv, Idle
<1>3. \A f \in File : \A sel : OnDisk(Want(f, sel)) => \A w : w = Want(f, sel) => OnDisk(w)'
  BY <1>1, OnDiskStays
<1>4. QED  BY <1>1, <1>2, <1>3, BesideRun DEF WritesInv

\* Every step keeps what holds of the writes.
LEMMA WritesStep ==
    ASSUME RunInv, MachineInv, WritesInv, Next
    PROVE  WritesInv'
<1>1. ChinaInv' /\ NamesInv'  BY ChinaInvStep, NamesStep DEF WritesInv
<1>2. StepsInv' /\ ScriptInv' /\ DiskInv'
  BY CommandWrites, RenderWrites, FileWrites, ReturnWrites, CutWrites, BeginWrites, ChinaWrites, EditWrites
     DEF WritesInv, Next
<1>3. QED  BY <1>1, <1>2 DEF WritesInv

\* A new machine has nothing applied, one that is set up has every file.
LEMMA WritesStart == Init => WritesInv
<1> SUFFICES ASSUME Init PROVE WritesInv  OBVIOUS
<1>1. run.at = "" /\ china.pc = "off" /\ cut = {}  BY DEF Init, Idle, NoChina
<1>2. ChinaInv /\ StepsInv /\ ScriptInv /\ NamesInv
  <2>1. cached \in {0, 1}  BY DEF Init, Steady, New
  <2>2. run.names = {}  BY DEF Init, Idle
  <2>3. NamesInv
    <3>1. cached \in Nat /\ run.names \subseteq 0..cached  BY <2>1, <2>2
    <3>2. china.pc \notin {"chinaConf", "chinaManual"}  BY <1>1
    <3>3. QED  BY <3>1, <3>2 DEF NamesInv
  <2>4. QED  BY <1>1, <2>3, Plugins12 DEF ChinaInv, StepsInv, ScriptInv
<1>3. CASE Steady
  <2>1. ASSUME NEW f \in File, Wanted(f) PROVE OnDisk(Want(f, Object))
    <3>. DEFINE p == Owner(f)
                w == Want(f, Object)
                W == {x \in Writes(p) : x.on = f}
                one == CHOOSE x \in W : TRUE
    <3>1. PICK S : /\ Lists(Script("bootstrap", p, Object), S)
                   /\ WritesAsWanted(S, p, Object)
      <4>1. p \in Plugin  BY Owners
      <4>2. QED  BY <4>1, ScriptsWanted DEF WritesRight
    <3>2. ToSet(Script("bootstrap", p, Object)) = S  BY <3>1, ListsIs
    <3>3. w.on = f /\ w.op = "write"  BY WantIs
    <3>4. w \in S
      <4>1. p \in Plugin  BY Owners
      <4>2. ObjectsOf(f) \subseteq Object
        <5>1. ObjectsOf(f) \subseteq Kinds[p]  BY <4>1, ObjectsOfOne
        <5>2. QED  BY <4>1, <5>1 DEF Object
      <4>3. QED  BY <2>1, <3>1, <4>2 DEF WritesAsWanted
    <3>5. w \in W  BY <3>2, <3>3, <3>4 DEF Writes
    <3>6. \A x \in W : x = w
      <4>1. ASSUME NEW x \in W PROVE x = w
        <5>1. x \in S /\ x.op = "write" /\ x.on = f  BY <3>2 DEF Writes
        <5>2. x.on # "logrotate"  BY <2>1, <5>1 DEF Wanted
        <5>3. QED  BY <3>1, <5>1, <5>2 DEF WritesAsWanted
      <4>2. QED  BY <4>1
    <3>7. disk[f] = IF W = {} THEN Absent ELSE Rendered(one)  BY <1>3, Zenon DEF Steady
    <3>. HIDE DEF w, W
    <3>8. one = w  BY <3>5, <3>6
    <3>9. disk[f] = Rendered(w)
      <4>1. W # {}  BY <3>5
      <4>. HIDE DEF one
      <4>2. QED  BY <3>7, <3>8, <4>1
    <3>10. f # "chinaConf" => Rendered(w) = w.what  BY <3>3 DEF Rendered, OfNames, Names
    <3>11. OnDisk(w)  BY <3>3, <3>9, <3>10 DEF OnDisk
    <3>12. QED  BY <3>11 DEF w
  <2>2. DiskInv  BY <2>1 DEF DiskInv
  <2>3. QED  BY <1>2, <2>2 DEF WritesInv
<1>4. CASE New
  <2>1. applied = {}  BY <1>4 DEF New
  <2>2. \A f \in File : ObjectsOf(f) # {}
    <3>1. "network.core" \in Plugin  BY Plugins12
    <3>2. QED  BY <3>1, ObjectsOfOne
  <2>3. DiskInv  BY <2>1, <2>2 DEF DiskInv
  <2>4. QED  BY <1>2, <2>3 DEF WritesInv
<1>5. QED  BY <1>3, <1>4 DEF Init

WritesHold == part = "plugins" => WritesInv

\* So does no step at all.
LEMMA WritesRest ==
    ASSUME WritesInv, UNCHANGED vars
    PROVE  WritesInv'
<1>1. UNCHANGED <<conf, disk, coredns, cached, run, china, applied, cut, behind>>
  BY DEF vars, machine
<1>2. ChinaInv' /\ NamesInv'  BY <1>1 DEF WritesInv, ChinaInv, NamesInv, On
<1>3. \A f \in File : \A sel : OnDisk(Want(f, sel)) => \A w : w = Want(f, sel) => OnDisk(w)'
  BY <1>1, OnDiskStays
<1>4. StepsInv' /\ ScriptInv' /\ DiskInv'  BY <1>1, <1>3, BesideRun DEF WritesInv
<1>5. QED  BY <1>2, <1>4 DEF WritesInv

\* What is applied is on the disk, at every moment of every run.
THEOREM WritesInvariant == UpdateSpec => []WritesHold
<1>1. PluginsInit \/ NetInit => WritesHold
  BY WritesStart DEF PluginsInit, NetInit, WritesHold
<1>2. PluginHolds /\ WritesHold /\ [OfPlugins(Next) \/ OfInterfaces(Net!Next)]_all => WritesHold'
  <2>1. SUFFICES ASSUME PluginHolds, WritesHold, [OfPlugins(Next) \/ OfInterfaces(Net!Next)]_all
                 PROVE  WritesHold'
    OBVIOUS
  <2>2. CASE UNCHANGED all \/ OfInterfaces(Net!Next)
    <3>1. UNCHANGED <<part, vars>>  BY <2>2 DEF all, OfInterfaces
    <3>2. QED  BY <2>1, <3>1, WritesRest DEF WritesHold
  <2>3. CASE OfPlugins(Next)
    BY <2>1, <2>3, WritesStep DEF OfPlugins, PluginHolds, PluginInv, WritesHold
  <2>4. QED  BY <2>1, <2>2, <2>3
<1>3. QED  BY <1>1, <1>2, PluginsInvariant, PTL DEF UpdateSpec

\* Applying the objects one by one, in any order and from any earlier state, between any
\* edits, failures and runs of the China names updater, leaves the files of a full run; but
\* for the China names where gw update has put the text it had rendered over a newer one.
THEOREM AppliedStaysOnDisk == UpdateSpec => []PluginAppliedIsOnDisk
<1>1. PluginHolds /\ WritesHold => PluginAppliedIsOnDisk
  <2>1. SUFFICES ASSUME RunInv, WritesInv, Quiet, NEW p \in Plugin \ cut, Kinds[p] \subseteq applied,
                        NEW w \in Writes(p), w.on # "logrotate"
                 PROVE  \/ disk[w.on] = Rendered(w)
                        \/ /\ w.on \in DOMAIN ChinaFiles
                           /\ "china" \in cut \/ disk[w.on].from = Rendered(w).from
                        \/ /\ w.on = "chinaConf" /\ behind
                           /\ \E n \in 0..cached : disk[w.on].from = Names(w, n).from
    BY DEF PluginHolds, PluginInv, WritesHold, PluginAppliedIsOnDisk, AppliedIsOnDisk
  <2>2. PICK S : Lists(Script("bootstrap", p, Object), S) /\ WritesAsWanted(S, p, Object)
    BY ScriptsWanted DEF WritesRight
  <2>3. w \in S /\ w.op = "write"  BY <2>2, ListsIs DEF Writes
  <2>4. w.on \in File /\ Owner(w.on) = p /\ Wanted(w.on) /\ w = Want(w.on, Object)
    BY <2>1, <2>2, <2>3 DEF WritesAsWanted
  <2>5. ObjectsOf(w.on) \subseteq applied
    <3>1. ObjectsOf(w.on) \subseteq Kinds[Owner(w.on)]  BY <2>4, ObjectsOfOne
    <3>2. QED  BY <2>1, <2>4, <3>1
  <2>6. run.at = "" /\ china.pc = "off"
    <3>1. run = Idle /\ china.pc = "off"  BY <2>1 DEF Quiet, RunInv
    <3>2. QED  BY <3>1 DEF Idle
  <2>7. OnDisk(w)
    <3>1. OnDisk(Want(w.on, Object))  BY <2>1, <2>4, <2>5, <2>6 DEF WritesInv, DiskInv
    <3>2. QED  BY <2>4, <3>1
  <2>8. w.on # "chinaConf" => Rendered(w) = w.what  BY DEF Rendered, OfNames, Names
  <2>9. QED  BY <2>6, <2>7, <2>8, FilesOf DEF OnDisk
<1>2. QED  BY <1>1, PluginsInvariant, WritesInvariant, PTL

-----------------------------------------------------------------------------
(* Commands come behind what they are for.                                 *)

Commands == {"restart", "load", "loadIfThere", "enable", "disable", "tryDisable"}
IsRead(f) == \E s \in Service : f \in Reads[s]

\* Neither installations nor writes of what a service reads.
NoMore(S) == \A y \in S : y.op # "install" /\ (y.op = "write" => ~IsRead(y.on))

\* x makes s read f, or stops it.
Ends(x, s, f) ==
    /\ x.on = s /\ x.op \in Commands \ {"enable"} /\ x.unless = {}
    /\ f \in x.if \/ "always" \in x.if
    /\ x.op = "loadIfThere" => f = "nftPd"

\* Nobody has to read what w writes: CoreDNS is left out, dnsmasq.conf and the
\* disabled nft fragment of the prefix delegation bring no restart.
Unread(w, s) ==
    s = "wgsd" \/ w.on = "dnsmasqConf" \/ (w.on = "nftPd" /\ w.what.tag = "disabled")

\* A list is in order when what a service reads is followed by a command for it, and no
\* command by such a write or an installation.
InOrder(steps) ==
    /\ \A i \in DOMAIN steps : steps[i].op = "write" =>
          \A s \in Service : steps[i].on \in Reads[s] =>
              Unread(steps[i], s) \/ \E j \in DOMAIN steps : i < j /\ Ends(steps[j], s, steps[i].on)
    /\ \A i, j \in DOMAIN steps : i < j /\ steps[i].op \in Commands =>
          steps[j].op # "install" /\ (steps[j].op = "write" => ~IsRead(steps[j].on))

\* Which services the plugin p starts and stops.
Fits(x, p) ==
    /\ x.op \in {"disable", "tryDisable"} =>
          \/ x.on \in Distro /\ p = "network.core"
          \/ x.on \in {"pd", "radvd"} /\ p = "network.ipv6pd" /\ ~On("pd")
          \/ x.on = "collectd" /\ p = "monitoring.collectd" /\ ~On("collectd")
    /\ x.op \in {"restart", "load", "loadIfThere", "enable"} =>
          /\ x.on \in Service /\ ~SwitchedOff(x.on)
          /\ x.on = "collectd" => p = "monitoring.collectd"

\* A list of two halves: writes and installations, and commands.
Served(A, B) ==
    \A w \in A : w.op = "write" => \A s \in Service : w.on \in Reads[s] =>
        Unread(w, s) \/ \E x \in B : Ends(x, s, w.on)
Halves(steps, A, B) ==
    /\ \E a, b : steps = a \o b /\ Lists(a, A) /\ Lists(b, B)
    /\ \A x \in A : x.op \notin Commands
    /\ NoMore(B) /\ Served(A, B)

\* Two halves are in order.
LEMMA HalvesInOrder ==
    ASSUME NEW steps, NEW A, NEW B, Halves(steps, A, B)
    PROVE  Lists(steps, A \cup B) /\ InOrder(steps)
<1>1. PICK a, b : steps = a \o b /\ Lists(a, A) /\ Lists(b, B)  BY DEF Halves
<1>2. Lists(steps, A \cup B)  BY <1>1, ListsConcat
<1>3. a \in Seq(A) /\ b \in Seq(B)  BY <1>1 DEF Lists
<1>. DEFINE n == Len(a)
            m == Len(b)
<1>4. n \in Nat /\ m \in Nat /\ DOMAIN steps = 1..(n + m)
  BY <1>1, <1>3
<1>5. \A k \in 1..n : steps[k] \in A
  <2>1. \A k \in 1..n : steps[k] = a[k] /\ a[k] \in A  BY <1>1, <1>3
  <2>2. QED  BY <2>1
<1>6. \A k \in (n + 1)..(n + m) : steps[k] \in B
  <2>1. \A k \in (n + 1)..(n + m) : steps[k] = b[k - n] /\ b[k - n] \in B  BY <1>1, <1>3
  <2>2. QED  BY <2>1
<1>7. \A x \in B : \E k \in (n + 1)..(n + m) : steps[k] = x
  <2>1. SUFFICES ASSUME NEW x \in B PROVE \E k \in (n + 1)..(n + m) : steps[k] = x  OBVIOUS
  <2>2. PICK k \in 1..m : b[k] = x
    <3>1. DOMAIN b = 1..m  BY <1>3
    <3>2. QED  BY <1>1, <3>1 DEF Lists, ToSet
  <2>3. n + k \in (n + 1)..(n + m) /\ steps[n + k] = b[k]  BY <1>1, <1>3, <2>2
  <2>4. QED  BY <2>2, <2>3
<1>. HIDE DEF n, m
<1>8. ASSUME NEW i \in DOMAIN steps, NEW j \in DOMAIN steps, i < j, steps[i].op \in Commands
      PROVE  steps[j].op # "install" /\ (steps[j].op = "write" => ~IsRead(steps[j].on))
  <2>1. i \notin 1..n  BY <1>5, <1>8 DEF Halves
  <2>2. j \in (n + 1)..(n + m)  BY <1>4, <1>8, <2>1
  <2>3. steps[j] \in B  BY <1>6, <2>2
  <2>4. QED  BY <2>3 DEF Halves, NoMore
<1>9. ASSUME NEW i \in DOMAIN steps, steps[i].op = "write", NEW s \in Service,
             steps[i].on \in Reads[s], ~Unread(steps[i], s)
      PROVE  \E j \in DOMAIN steps : i < j /\ Ends(steps[j], s, steps[i].on)
  <2>1. i \in 1..n
    <3>1. steps[i] \notin B  BY <1>9 DEF Halves, NoMore, IsRead
    <3>2. QED  BY <1>4, <1>6, <3>1
  <2>2. PICK x \in B : Ends(x, s, steps[i].on)  BY <1>5, <1>9, <2>1 DEF Halves, Served
  <2>3. PICK k \in (n + 1)..(n + m) : steps[k] = x  BY <1>7
  <2>4. k \in DOMAIN steps /\ i < k  BY <1>4, <2>1, <2>3
  <2>5. QED  BY <2>2, <2>3, <2>4
<1>10. InOrder(steps)  BY <1>8, <1>9, Zenon DEF InOrder
<1>11. QED  BY <1>2, <1>10

\* What is behind any place of a list in order is in order, and nothing more is to be
\* written there once a command has been passed.
LEMMA RestInOrder ==
    ASSUME NEW S, NEW steps \in Seq(S), InOrder(steps), NEW i \in 1..(Len(steps) + 1)
    PROVE  /\ InOrder(SubSeq(steps, i, Len(steps)))
           /\ ToSet(SubSeq(steps, i, Len(steps))) \subseteq ToSet(steps)
           /\ \A j \in 1..(i - 1) :
                 steps[j].op \in Commands => NoMore(ToSet(SubSeq(steps, i, Len(steps))))
           /\ \A x \in ToSet(steps) : \/ x \in ToSet(SubSeq(steps, i, Len(steps)))
                                      \/ \E j \in 1..(i - 1) : x = steps[j]
<1>. DEFINE n == Len(steps)
            r == SubSeq(steps, i, n)
<1>1. n \in Nat /\ \A k \in 1..n : steps[k] \in S  BY ElementOfSeq
<1>2. /\ r \in Seq(S) /\ Len(r) = IF i <= n THEN n - i + 1 ELSE 0
      /\ \A k \in 1..(n - i + 1) : r[k] = steps[i + k - 1]
  <2>1. i \in Int /\ n \in Int /\ \A k \in i..n : steps[k] \in S  BY <1>1
  <2>2. QED  BY <2>1, SubSeqProperties
<1>3. DOMAIN steps = 1..n  OBVIOUS
<1>. HIDE DEF n, r
<1>4. DOMAIN r = 1..(n - i + 1)  BY <1>1, <1>2 DEF n
<1>5. i \in Nat /\ i >= 1 /\ i <= n + 1  BY <1>1 DEF n
<1>6. \A k \in DOMAIN r : i + k - 1 \in DOMAIN steps /\ r[k] = steps[i + k - 1] /\ k \in Nat
  BY <1>1, <1>2, <1>3, <1>4, <1>5
<1>7. \A j \in DOMAIN steps : j \in 1..(i - 1) \/ (j - i + 1 \in DOMAIN r /\ r[j - i + 1] = steps[j])
  <2>1. SUFFICES ASSUME NEW j \in DOMAIN steps, j \notin 1..(i - 1)
                 PROVE  j - i + 1 \in DOMAIN r /\ r[j - i + 1] = steps[j]
    OBVIOUS
  <2>2. j - i + 1 \in DOMAIN r /\ i + (j - i + 1) - 1 = j  BY <1>1, <1>3, <1>4, <1>5, <2>1
  <2>3. r[j - i + 1] = steps[i + (j - i + 1) - 1]  BY <1>6, <2>2
  <2>4. QED  BY <2>2, <2>3
<1>8. InOrder(r)
  <2>1. ASSUME NEW k \in DOMAIN r, r[k].op = "write", NEW s \in Service, r[k].on \in Reads[s],
               ~Unread(r[k], s)
        PROVE  \E l \in DOMAIN r : k < l /\ Ends(r[l], s, r[k].on)
    <3>1. PICK j \in DOMAIN steps : i + k - 1 < j /\ Ends(steps[j], s, r[k].on)
      BY <1>6, <2>1 DEF InOrder
    <3>2. k \in Nat /\ k >= 1  BY <1>4, <1>6
    <3>3. j \notin 1..(i - 1) /\ k < j - i + 1 /\ j - i + 1 \in DOMAIN r /\ r[j - i + 1] = steps[j]
      <4>1. j \in Nat  BY <1>3
      <4>2. j \notin 1..(i - 1) /\ k < j - i + 1  BY <1>5, <3>1, <3>2, <4>1
      <4>3. QED  BY <1>7, <4>2
    <3>4. QED  BY <3>1, <3>3
  <2>2. ASSUME NEW k \in DOMAIN r, NEW l \in DOMAIN r, k < l, r[k].op \in Commands
        PROVE  r[l].op # "install" /\ (r[l].op = "write" => ~IsRead(r[l].on))
    <3>1. i + k - 1 < i + l - 1  BY <1>5, <1>6, <2>2
    <3>2. QED  BY <1>6, <2>2, <3>1 DEF InOrder
  <2>3. QED  BY <2>1, <2>2, Zenon DEF InOrder
<1>9. ASSUME NEW j \in 1..(i - 1), steps[j].op \in Commands PROVE NoMore(ToSet(r))
  <2>1. ASSUME NEW y \in ToSet(r) PROVE y.op # "install" /\ (y.op = "write" => ~IsRead(y.on))
    <3>1. PICK k \in DOMAIN r : y = r[k]  BY <2>1 DEF ToSet
    <3>2. j \in DOMAIN steps /\ j < i + k - 1
      <4>1. k \in Nat /\ k >= 1  BY <1>4, <1>6
      <4>2. QED  BY <1>1, <1>3, <1>5, <4>1
    <3>3. QED  BY <1>6, <1>9, <3>1, <3>2 DEF InOrder
  <2>2. QED  BY <2>1 DEF NoMore
<1>10. ASSUME NEW x \in ToSet(steps), x \notin ToSet(r) PROVE \E j \in 1..(i - 1) : x = steps[j]
  <2>1. PICK j \in DOMAIN steps : x = steps[j]  BY DEF ToSet
  <2>2. j \in 1..(i - 1)
    <3>1. SUFFICES ASSUME j \notin 1..(i - 1) PROVE FALSE  OBVIOUS
    <3>2. r[j - i + 1] = x /\ j - i + 1 \in DOMAIN r  BY <1>7, <2>1, <3>1
    <3>3. x \in ToSet(r)  BY <3>2 DEF ToSet
    <3>4. QED  BY <1>10, <3>3
  <2>3. QED  BY <2>1, <2>2
<1>11. ToSet(r) \subseteq ToSet(steps)
  <2>1. ASSUME NEW x \in ToSet(r) PROVE x \in ToSet(steps)
    <3>1. PICK k \in DOMAIN r : x = r[k]  BY <2>1 DEF ToSet
    <3>2. QED  BY <1>6, <3>1 DEF ToSet
  <2>2. QED  BY <2>1
<1>12. QED  BY <1>8, <1>9, <1>10, <1>11 DEF r, n

\* What is left of a list in order.
LEMMA LeftInOrder ==
    ASSUME NEW S, NEW steps \in Seq(S), InOrder(steps), NEW ch
    PROVE  /\ InOrder(Rest(steps, ch)) /\ ToSet(Rest(steps, ch)) \subseteq ToSet(steps)
           /\ \A x \in ToSet(steps) :
                 \/ x \in ToSet(Rest(steps, ch))
                 \/ ~Due(x, ch) /\ (x.op \in Commands => NoMore(ToSet(Rest(steps, ch))))
<1>1. PICK i \in 1..(Len(steps) + 1) :
         /\ Rest(steps, ch) = SubSeq(steps, i, Len(steps))
         /\ \A j \in 1..(i - 1) : ~Due(steps[j], ch)
  BY RestIs
<1>2. QED  BY <1>1, RestInOrder

\* What is behind the first step of such a list.
LEMMA TailInOrder ==
    ASSUME NEW S, NEW steps \in Seq(S), InOrder(steps), steps # <<>>
    PROVE  /\ Tail(steps) \in Seq(S) /\ InOrder(Tail(steps)) /\ ToSet(Tail(steps)) \subseteq ToSet(steps)
           /\ Head(steps) \in ToSet(steps)
           /\ \A x \in ToSet(steps) : x = Head(steps) \/ x \in ToSet(Tail(steps))
           /\ Head(steps).op \in Commands => NoMore(ToSet(Tail(steps)))
           /\ Head(steps).op = "write" => \A s \in Service : Head(steps).on \in Reads[s] =>
                 \/ Unread(Head(steps), s)
                 \/ \E x \in ToSet(Tail(steps)) : Ends(x, s, Head(steps).on)
<1>1. 2 \in 1..(Len(steps) + 1) /\ 1 \in 1..(2 - 1) /\ Tail(steps) = SubSeq(steps, 2, Len(steps))
      /\ Head(steps) = steps[1] /\ 1 \in DOMAIN steps
  <2>1. Len(steps) \in Nat \ {0}  OBVIOUS
  <2>2. Tail(steps) = SubSeq(steps, 2, Len(steps))  BY HeadTailOfSubSeq, SubSeqFull DEF Tail
  <2>3. QED  BY <2>1, <2>2
<1>2. /\ InOrder(Tail(steps))
      /\ steps[1].op \in Commands => NoMore(ToSet(Tail(steps)))
      /\ ToSet(Tail(steps)) \subseteq ToSet(steps)
  BY <1>1, RestInOrder
<1>3. /\ Tail(steps) \in Seq(S)
      /\ \A w : w \in ToSet(steps) <=> w = Head(steps) \/ w \in ToSet(Tail(steps))
  BY FirstAndRest
<1>4. ASSUME Head(steps).op = "write", NEW s \in Service, Head(steps).on \in Reads[s],
             ~Unread(Head(steps), s)
      PROVE  \E x \in ToSet(Tail(steps)) : Ends(x, s, Head(steps).on)
  <2>1. PICK j \in DOMAIN steps : 1 < j /\ Ends(steps[j], s, Head(steps).on)
    BY <1>1, <1>4 DEF InOrder
  <2>2. j - 1 \in DOMAIN Tail(steps) /\ Tail(steps)[j - 1] = steps[j]  BY <2>1
  <2>3. QED  BY <2>1, <2>2 DEF ToSet
<1>5. QED  BY <1>1, <1>2, <1>3, <1>4

-----------------------------------------------------------------------------
(* The list of each plugin is in order.                                    *)

NftThings == {"nftEntry", "nftFirewall"}
NftLoad == If(NftThings, Step("load", "nft"))
NftEnable == If(NftThings, Step("enable", "nft"))
CollectdThings == {"collectdConf", "packages"}
CollectdRestart == If(CollectdThings, Step("restart", "collectd"))
CollectdEnable == If(CollectdThings, Step("enable", "collectd"))
CollectdDisable == If(CollectdThings, Step("disable", "collectd"))
WgsdThings == {"corefile", "wgsdUnit"}
WgsdRestart == If(WgsdThings, Step("restart", "wgsd"))
WgsdEnable == If(WgsdThings, Step("enable", "wgsd"))
Forced(mode) == IF mode = "event" THEN {"always"} ELSE {}
PdRestart(mode, s) == If(Reads[s] \cup Forced(mode), Step("restart", s))
PdEnable(mode, s) == [Step("enable", s) EXCEPT !.unless = Reads[s] \cup Forced(mode)]
PdLoad(mode) == If({"nftPd"} \cup Forced(mode), Step("loadIfThere", "nft"))
Unwanted(s) == Step("tryDisable", s)

\* The steps no list of a plugin goes without.
Must(mode, p) ==
    CASE p = "network.core" -> {Step("install", p), Unwanted("tailscaled"), Unwanted("wideDhcp")}
      [] p = "docker.core" -> {Step("install", p)}
      [] p = "network.firewall" -> {NftLoad, NftEnable}
      [] p = "monitoring.collectd" ->
            IF On("collectd") THEN {CollectdRestart, CollectdEnable} ELSE {CollectdDisable}
      [] p = "network.wgsd-coredns" -> IF coredns THEN {WgsdRestart, WgsdEnable} ELSE {}
      [] p = "network.ipv6pd" ->
            IF On("pd") THEN {PdRestart(mode, "pd"), PdEnable(mode, "pd"), PdRestart(mode, "radvd"),
                              PdEnable(mode, "radvd"), PdLoad(mode)}
                        ELSE {Unwanted("pd"), Unwanted("radvd")}
      [] OTHER -> {}

\* A list as it should be.
WellMade(steps, p, must) ==
    \E A, B : /\ Halves(steps, A, B)
              /\ \A x \in A \cup B : Fits(x, p)
              /\ must \subseteq A \cup B

\* The fields of a command.
LEMMA CommandIs ==
    /\ \A op, on : /\ Step(op, on).op = op /\ Step(op, on).on = on
                   /\ Step(op, on).if = {"always"} /\ Step(op, on).unless = {}
    /\ \A op, on, things :
          /\ If(things, Step(op, on)).op = op /\ If(things, Step(op, on)).on = on
          /\ If(things, Step(op, on)).if = things /\ If(things, Step(op, on)).unless = {}
    /\ \A op, on, things :
          /\ [Step(op, on) EXCEPT !.unless = things].op = op
          /\ [Step(op, on) EXCEPT !.unless = things].on = on
          /\ [Step(op, on) EXCEPT !.unless = things].if = {"always"}
          /\ [Step(op, on) EXCEPT !.unless = things].unless = things
<1>1. \A op, on : /\ Step(op, on).op = op /\ Step(op, on).on = on
                  /\ Step(op, on).if = {"always"} /\ Step(op, on).unless = {}
  BY DEF Step
<1>2. \A op, on, things :
          /\ If(things, Step(op, on)).op = op /\ If(things, Step(op, on)).on = on
          /\ If(things, Step(op, on)).if = things /\ If(things, Step(op, on)).unless = {}
  BY DEF Step, If
<1>3. \A op, on, things :
          /\ [Step(op, on) EXCEPT !.unless = things].op = op
          /\ [Step(op, on) EXCEPT !.unless = things].on = on
          /\ [Step(op, on) EXCEPT !.unless = things].if = {"always"}
          /\ [Step(op, on) EXCEPT !.unless = things].unless = things
  BY DEF Step
<1>4. QED  BY <1>1, <1>2, <1>3

\* The fields of the ways to write a file.
LEMMA WritesAre ==
    \A f : /\ Plain(f).op = "write" /\ Plain(f).on = f /\ Plain(f).what.tag = ""
           /\ Delete(f).op = "write" /\ Delete(f).on = f /\ Delete(f).what = Absent
           /\ Off(f).op = "write" /\ Off(f).on = f /\ Off(f).what.tag = "disabled"
<1>. SUFFICES ASSUME NEW f
              PROVE /\ Plain(f).op = "write" /\ Plain(f).on = f /\ Plain(f).what.tag = ""
                    /\ Delete(f).op = "write" /\ Delete(f).on = f /\ Delete(f).what = Absent
                    /\ Off(f).op = "write" /\ Off(f).on = f /\ Off(f).what.tag = "disabled"
  OBVIOUS
<1>1. \A tag, settings, c : Content(tag, settings, c).tag = tag  BY DEF Content
<1>. DEFINE c == Content("", Renders[f], conf)
            d == Content("disabled", {}, conf)
<1>2. Plain(f) = Write(f, c)  BY DEF Plain
<1>3. Delete(f) = Write(f, Absent)  BY DEF Delete
<1>4. Off(f) = Write(f, d)  BY DEF Off
<1>5. c.tag = "" /\ d.tag = "disabled"  BY <1>1
<1>. HIDE DEF c, d
<1>6. Plain(f).op = "write" /\ Plain(f).on = f /\ Plain(f).what = c  BY <1>2, WriteIs
<1>7. Delete(f).op = "write" /\ Delete(f).on = f /\ Delete(f).what = Absent  BY <1>3, WriteIs
<1>8. Off(f).op = "write" /\ Off(f).on = f /\ Off(f).what = d  BY <1>4, WriteIs
<1>9. QED  BY <1>5, <1>6, <1>7, <1>8

\* Who reads what.
LEMMA WhoReads ==
    /\ Reads["hostname"] = {"hostname"} /\ Reads["sysctl"] = {"sysctl"}
    /\ Reads["docker"] = {"daemonJson"} /\ Reads["systemd"] = {"pdUnit", "wgsdUnit", "dockerHook"}
    /\ Reads["pd"] = {"dhcp6c", "dhcp6cScript", "duid"} /\ Reads["radvd"] = {"radvd"}
    /\ Reads["nft"] = {"nftEntry", "nftFirewall", "nftPd"}
    /\ Reads["dnsmasq"] = {"dnsmasqConf", "dnsConf", "dhcpConf", "chinaConf", "chinaManual"}
    /\ Reads["collectd"] = {"collectdConf"} /\ Reads["wgsd"] = {"corefile"}
  BY DEF Reads

\* The reader of each file.
LEMMA ReadBy ==
    ASSUME NEW s \in Service, NEW f \in Reads[s]
    PROVE  \/ s = "hostname" /\ f = "hostname"
           \/ s = "sysctl" /\ f = "sysctl"
           \/ s = "docker" /\ f = "daemonJson"
           \/ s = "systemd" /\ f \in {"pdUnit", "wgsdUnit", "dockerHook"}
           \/ s = "pd" /\ f \in {"dhcp6c", "dhcp6cScript", "duid"}
           \/ s = "radvd" /\ f = "radvd"
           \/ s = "nft" /\ f \in {"nftEntry", "nftFirewall", "nftPd"}
           \/ s = "dnsmasq" /\ f \in {"dnsmasqConf", "dnsConf", "dhcpConf", "chinaConf", "chinaManual"}
           \/ s = "collectd" /\ f = "collectdConf"
           \/ s = "wgsd" /\ f = "corefile"
  BY KnownServices, WhoReads

\* Two lists make one of two halves.
LEMMA WellMadeIs ==
    ASSUME NEW p, NEW a, NEW b, NEW A, NEW B, NEW must, Lists(a, A), Lists(b, B),
           \A x \in A : x.op \in {"write", "install", "stale"},
           NoMore(B), Served(A, B), \A x \in B : Fits(x, p), must \subseteq A \cup B
    PROVE  WellMade(a \o b, p, must)
<1>1. \A x \in A : x.op \notin Commands /\ Fits(x, p)  BY DEF Commands, Fits
<1>2. Halves(a \o b, A, B)  BY <1>1 DEF Halves
<1>3. \A x \in A \cup B : Fits(x, p)  BY <1>1
<1>4. QED  BY <1>2, <1>3 DEF WellMade

\* A list without commands.
LEMMA OnlyWrites ==
    ASSUME NEW p, NEW a, NEW A, Lists(a, A), \A x \in A : x.op \in {"write", "install", "stale"},
           \A w \in A : w.op = "write" => ~IsRead(w.on)
    PROVE  WellMade(a, p, {})
<1>1. Served(A, {})  BY DEF Served, IsRead
<1>2. Lists(<<>>, {}) /\ NoMore({})  BY ListsNone DEF NoMore
<1>3. WellMade(a \o <<>>, p, {})  BY <1>1, <1>2, WellMadeIs
<1>4. a \o <<>> = a
  <2>1. a \in Seq(A)  BY DEF Lists
  <2>2. QED  BY <2>1
<1>5. QED  BY <1>3, <1>4

\* system_mirror.py commands no service.
LEMMA MirrorMade == WellMade(SystemMirror, "system.mirror", {})
<1>. DEFINE a == Plain("aptList")
            b == Delete("debianSources")
            c == Step("install", "system.mirror")
            d == Plain("aptKeys")
            e == Plain("dockerList")
            f == Plain("tailscaleList")
            g == If({"dockerList", "tailscaleList"}, Step("stale", "index"))
            A == {a, b, c, d, e, f, g}
<1>1. SystemMirror = <<a, b, c, d, e, f, g>>  BY DEF SystemMirror
<1>2. \A x \in {a, d, e, f} : x.op = "write"  BY WritesAre
<1>3. b.op = "write"  BY WritesAre
<1>4. c.op = "install" /\ g.op = "stale"  BY CommandIs
<1>5. a.on = "aptList" /\ b.on = "debianSources" /\ d.on = "aptKeys"  BY WritesAre
<1>6. e.on = "dockerList" /\ f.on = "tailscaleList"  BY WritesAre
<1>. HIDE DEF a, b, c, d, e, f, g
<1>7. Lists(SystemMirror, A)  BY <1>1, ListsLong
<1>8. \A x \in A : x.op \in {"write", "install", "stale"}  BY <1>2, <1>3, <1>4
<1>9. \A w \in A : w.op = "write" => ~IsRead(w.on)
  BY <1>4, <1>5, <1>6, ReadBy DEF IsRead
<1>. HIDE DEF A
<1>10. QED  BY <1>7, <1>8, <1>9, OnlyWrites

\* network_firewall.py: both files before the load.
LEMMA FirewallMade ==
    ASSUME NEW sel, NEW mode
    PROVE  WellMade(Firewall(sel), "network.firewall", Must(mode, "network.firewall"))
<1>. DEFINE p == "network.firewall"
            a == Plain("nftEntry")
            b == Write("nftFirewall", Content("", sel \X {"rules"}, conf))
            A == {a, b}
            B == {NftLoad, NftEnable}
<1>1. Firewall(sel) = <<a, b, NftLoad, NftEnable>>
  BY DEF Firewall, NftLoad, NftEnable, NftThings
<1>2. a.op = "write" /\ a.on = "nftEntry"  BY WritesAre
<1>3. b.op = "write" /\ b.on = "nftFirewall"  BY WriteIs
<1>4. NftLoad.op = "load" /\ NftLoad.on = "nft" /\ NftLoad.if = NftThings /\ NftLoad.unless = {}
  BY CommandIs DEF NftLoad
<1>5. NftEnable.op = "enable" /\ NftEnable.on = "nft"  BY CommandIs DEF NftEnable
<1>. HIDE DEF a, b
<1>6. Firewall(sel) = <<a, b>> \o <<NftLoad, NftEnable>>  BY <1>1
<1>7. Lists(<<a, b>>, A) /\ Lists(<<NftLoad, NftEnable>>, B)  BY ListsShort
<1>8. \A x \in A : x.op \in {"write", "install", "stale"}  BY <1>2, <1>3
<1>9. NoMore(B)  BY <1>4, <1>5 DEF NoMore
<1>10. \A x \in B : Fits(x, p)  BY <1>4, <1>5, KnownServices DEF Fits, SwitchedOff
<1>11. Served(A, B)
  <2>1. ASSUME NEW w \in A, w.op = "write", NEW s \in Service, w.on \in Reads[s]
        PROVE  Ends(NftLoad, s, w.on)
    <3>1. w.on \in NftThings  BY <1>2, <1>3, <2>1 DEF NftThings
    <3>2. s = "nft"  BY <2>1, <3>1, ReadBy DEF NftThings
    <3>3. QED  BY <1>4, <3>1, <3>2 DEF Ends, Commands
  <2>2. QED  BY <2>1 DEF Served
<1>12. Must(mode, p) \subseteq A \cup B  BY DEF Must
<1>. HIDE DEF A, B, p
<1>13. WellMade(Firewall(sel), p, Must(mode, p))
  BY <1>6, <1>7, <1>8, <1>9, <1>10, <1>11, <1>12, WellMadeIs
<1>14. QED  BY <1>13 DEF p

\* network_core.py: the files, the packages, and only then the services.
LEMMA CoreMade ==
    ASSUME NEW mode
    PROVE  WellMade(NetworkCore, "network.core", Must(mode, "network.core"))
<1>. DEFINE p == "network.core"
            init == conf[<<"network", "cloudInit">>] = 1
            a == Plain("hostname")
            b == Plain("hosts")
            c == Plain("cloudHostname")
            d == Plain("cloudNet")
            e == Delete("cloudIfaces")
            d2 == Delete("cloudNet")
            g == Plain("sysctl")
            h == Plain("dnsmasqConf")
            i == Plain("logrotate")
            j == Plain("avahi")
            k == Step("install", "network.core")
            l == Step("tryDisable", "tailscaled")
            m == Step("tryDisable", "wideDhcp")
            n == If({"hostname"}, Step("restart", "hostname"))
            o == If({"sysctl"}, Step("restart", "sysctl"))
            X == IF init THEN {d, e} ELSE {d2}
            A == {a, b, c} \cup X \cup {g, h, i, j, k}
            B == {l, m, n, o}
<1>1. NetworkCore = <<a, b, c>> \o (IF init THEN <<d, e>> ELSE <<d2>>)
                    \o <<g, h, i, j, k, l, m, n, o>>
  BY DEF NetworkCore
<1>2. /\ a.op = "write" /\ b.op = "write" /\ c.op = "write" /\ d.op = "write" /\ g.op = "write"
      /\ h.op = "write" /\ i.op = "write" /\ j.op = "write"
  BY WritesAre
<1>3. e.op = "write" /\ d2.op = "write" /\ e.on = "cloudIfaces" /\ d2.on = "cloudNet"  BY WritesAre
<1>4. /\ a.on = "hostname" /\ b.on = "hosts" /\ c.on = "cloudHostname" /\ d.on = "cloudNet"
      /\ g.on = "sysctl" /\ h.on = "dnsmasqConf" /\ i.on = "logrotate" /\ j.on = "avahi"
  BY WritesAre
<1>5. /\ k.op = "install" /\ l.op = "tryDisable" /\ l.on = "tailscaled"
      /\ m.op = "tryDisable" /\ m.on = "wideDhcp"
  BY CommandIs
<1>6. /\ n.op = "restart" /\ n.on = "hostname" /\ n.if = {"hostname"} /\ n.unless = {}
      /\ o.op = "restart" /\ o.on = "sysctl" /\ o.if = {"sysctl"} /\ o.unless = {}
  BY CommandIs
<1>7. Must(mode, p) = {k, l, m}  BY DEF Must, Unwanted
<1>. HIDE DEF a, b, c, d, e, d2, g, h, i, j, k, l, m, n, o, init
<1>. DEFINE x == <<a, b, c>> \o (IF init THEN <<d, e>> ELSE <<d2>>)
            y == <<g, h, i, j, k>>
            z == <<l, m, n, o>>
<1>8. Lists(x, {a, b, c} \cup X)
  <2>1. Lists(<<a, b, c>>, {a, b, c})  BY ListsShort
  <2>2. Lists(IF init THEN <<d, e>> ELSE <<d2>>, X)  BY ListsShort
  <2>. HIDE DEF X
  <2>3. QED  BY <2>1, <2>2, ListsConcat
<1>9. Lists(y, {g, h, i, j, k}) /\ Lists(z, B)  BY ListsShort
<1>10. NetworkCore = (x \o y) \o z
  <2>1. <<g, h, i, j, k, l, m, n, o>> = y \o z  OBVIOUS
  <2>2. NetworkCore = x \o (y \o z)  BY <1>1, <2>1
  <2>. HIDE DEF x, y, z, X, B
  <2>3. \E S : x \in Seq(S) /\ y \in Seq(S) /\ z \in Seq(S)
    <3>. DEFINE S == ({a, b, c} \cup X) \cup {g, h, i, j, k} \cup B
    <3>1. x \in Seq(S) /\ y \in Seq(S) /\ z \in Seq(S)  BY <1>8, <1>9 DEF Lists
    <3>2. QED  BY <3>1
  <2>4. x \o (y \o z) = (x \o y) \o z  BY <2>3, ConcatAssociative
  <2>5. QED  BY <2>2, <2>4
<1>11. Lists(x \o y, A)
  <2>. HIDE DEF x, y, X
  <2>1. QED  BY <1>8, <1>9, ListsConcat
<1>12. \A w \in A : w.op \in {"write", "install", "stale"}  BY <1>2, <1>3, <1>5
<1>13. NoMore(B)  BY <1>5, <1>6 DEF NoMore
<1>14. \A w \in B : Fits(w, p)
  BY <1>5, <1>6, KnownServices DEF Fits, SwitchedOff, Distro
<1>15. Served(A, B)
  <2>1. ASSUME NEW w \in A, w.op = "write", NEW s \in Service, w.on \in Reads[s], ~Unread(w, s)
        PROVE  \E v \in B : Ends(v, s, w.on)
    <3>1. w.on \in {"hostname", "hosts", "cloudHostname", "cloudNet", "cloudIfaces", "sysctl",
                     "logrotate", "avahi"}
      BY <1>2, <1>3, <1>4, <1>5, <2>1 DEF Unread
    <3>2. (w.on = "hostname" /\ s = "hostname") \/ (w.on = "sysctl" /\ s = "sysctl")
      BY <2>1, <3>1, ReadBy
    <3>3. QED  BY <1>6, <3>2 DEF Ends, Commands
  <2>2. QED  BY <2>1 DEF Served
<1>16. Must(mode, p) \subseteq A \cup B  BY <1>7
<1>. HIDE DEF A, B, p, x, y, z
<1>17. WellMade((x \o y) \o z, p, Must(mode, p))
  BY <1>9, <1>11, <1>12, <1>13, <1>14, <1>15, <1>16, WellMadeIs
<1>18. QED  BY <1>10, <1>17 DEF p

\* docker_core.py: the files, the packages, and the services.
LEMMA DockerMade ==
    ASSUME NEW mode
    PROVE  WellMade(DockerCore, "docker.core", Must(mode, "docker.core"))
<1>. DEFINE p == "docker.core"
            a == Plain("daemonJson")
            b == Plain("dockerHook")
            c == Step("install", "docker.core")
            d == If({"dockerHook"}, Step("restart", "systemd"))
            e == If({"daemonJson"}, Step("restart", "docker"))
            A == {a, b, c}
            B == {d, e}
<1>1. DockerCore = <<a, b, c, d, e>>  BY DEF DockerCore
<1>2. a.op = "write" /\ a.on = "daemonJson" /\ b.op = "write" /\ b.on = "dockerHook"
  BY WritesAre
<1>3. /\ c.op = "install" /\ d.op = "restart" /\ d.on = "systemd" /\ d.if = {"dockerHook"}
      /\ d.unless = {} /\ e.op = "restart" /\ e.on = "docker" /\ e.if = {"daemonJson"}
      /\ e.unless = {}
  BY CommandIs
<1>4. Must(mode, p) = {c}  BY DEF Must
<1>. HIDE DEF a, b, c, d, e
<1>5. DockerCore = <<a, b, c>> \o <<d, e>>  BY <1>1
<1>6. Lists(<<a, b, c>>, A) /\ Lists(<<d, e>>, B)  BY ListsShort
<1>7. \A w \in A : w.op \in {"write", "install", "stale"}  BY <1>2, <1>3
<1>8. NoMore(B)  BY <1>3 DEF NoMore
<1>9. \A w \in B : Fits(w, p)  BY <1>3, KnownServices DEF Fits, SwitchedOff
<1>10. Served(A, B)
  <2>1. ASSUME NEW w \in A, w.op = "write", NEW s \in Service, w.on \in Reads[s]
        PROVE  \E v \in B : Ends(v, s, w.on)
    <3>1. (w.on = "daemonJson" /\ s = "docker") \/ (w.on = "dockerHook" /\ s = "systemd")
      BY <1>2, <1>3, <2>1, ReadBy
    <3>2. QED  BY <1>3, <3>1 DEF Ends, Commands
  <2>2. QED  BY <2>1 DEF Served
<1>11. Must(mode, p) \subseteq A \cup B  BY <1>4
<1>. HIDE DEF A, B, p
<1>12. WellMade(<<a, b, c>> \o <<d, e>>, p, Must(mode, p))
  BY <1>6, <1>7, <1>8, <1>9, <1>10, <1>11, WellMadeIs
<1>13. QED  BY <1>5, <1>12 DEF p

\* network_wgsd_coredns.py: the unit is reloaded and, if the binary is there, restarted.
LEMMA WgsdMade ==
    ASSUME NEW mode
    PROVE  WellMade(Wgsd, "network.wgsd-coredns", Must(mode, "network.wgsd-coredns"))
<1>. DEFINE p == "network.wgsd-coredns"
            a == Plain("corefile")
            b == IF coredns THEN Plain("wgsdUnit") ELSE Delete("wgsdUnit")
            c == If({"wgsdUnit"}, Step("restart", "systemd"))
            A == {a, b}
            B == {c} \cup (IF coredns THEN {WgsdRestart, WgsdEnable} ELSE {})
            y == When(coredns, <<WgsdRestart, WgsdEnable>>)
<1>1. Wgsd = <<a, b, c>> \o y
  BY DEF Wgsd, WgsdRestart, WgsdEnable, WgsdThings
<1>2. a.op = "write" /\ a.on = "corefile" /\ b.op = "write" /\ b.on = "wgsdUnit"
  <2>1. \A x \in {Plain("wgsdUnit"), Delete("wgsdUnit")} : x.op = "write" /\ x.on = "wgsdUnit"
    BY WritesAre
  <2>2. QED  BY <2>1, WritesAre
<1>3. c.op = "restart" /\ c.on = "systemd" /\ c.if = {"wgsdUnit"} /\ c.unless = {}
  BY CommandIs
<1>4. WgsdRestart.op = "restart" /\ WgsdRestart.on = "wgsd" /\ WgsdEnable.op = "enable"
      /\ WgsdEnable.on = "wgsd"
  BY CommandIs DEF WgsdRestart, WgsdEnable
<1>. HIDE DEF a, b, c
<1>5. Lists(<<a, b>>, A) /\ Lists(<<c>>, {c})  BY ListsShort
<1>6. Lists(y, IF coredns THEN {WgsdRestart, WgsdEnable} ELSE {})
  BY ListsShort, ListsNone DEF When
<1>7. Lists(<<c>> \o y, B)
  <2>. HIDE DEF y
  <2>1. QED  BY <1>5, <1>6, ListsConcat
<1>8. Wgsd = <<a, b>> \o (<<c>> \o y)
  <2>1. <<a, b, c>> = <<a, b>> \o <<c>>  OBVIOUS
  <2>2. \E S : <<a, b>> \in Seq(S) /\ <<c>> \in Seq(S) /\ y \in Seq(S)
    <3>. DEFINE S == A \cup {c} \cup (IF coredns THEN {WgsdRestart, WgsdEnable} ELSE {})
    <3>. HIDE DEF y
    <3>1. <<a, b>> \in Seq(S) /\ <<c>> \in Seq(S) /\ y \in Seq(S)  BY <1>5, <1>6 DEF Lists
    <3>2. QED  BY <3>1
  <2>. HIDE DEF y
  <2>3. <<a, b>> \o (<<c>> \o y) = (<<a, b>> \o <<c>>) \o y  BY <2>2, ConcatAssociative
  <2>4. QED  BY <1>1, <2>1, <2>3
<1>9. \A w \in A : w.op \in {"write", "install", "stale"}  BY <1>2
<1>10. NoMore(B)  BY <1>3, <1>4 DEF NoMore
<1>11. \A w \in B : Fits(w, p)  BY <1>3, <1>4, KnownServices DEF Fits, SwitchedOff
<1>12. Served(A, B)
  <2>1. ASSUME NEW w \in A, w.op = "write", NEW s \in Service, w.on \in Reads[s], ~Unread(w, s)
        PROVE  Ends(c, s, w.on)
    <3>1. w.on = "wgsdUnit" /\ s = "systemd"  BY <1>2, <2>1, ReadBy DEF Unread
    <3>2. QED  BY <1>3, <3>1 DEF Ends, Commands
  <2>2. QED  BY <2>1 DEF Served
<1>13. Must(mode, p) \subseteq A \cup B  BY DEF Must
<1>. HIDE DEF A, B, p, y
<1>14. WellMade(<<a, b>> \o (<<c>> \o y), p, Must(mode, p))
  BY <1>5, <1>7, <1>9, <1>10, <1>11, <1>12, <1>13, WellMadeIs
<1>15. QED  BY <1>8, <1>14 DEF p

\* collectd.py: the file, at a bootstrap the package, and the service or its end.
LEMMA CollectdMade ==
    ASSUME NEW mode, NEW install \in BOOLEAN
    PROVE  WellMade(Collectd(install), "monitoring.collectd", Must(mode, "monitoring.collectd"))
<1>. DEFINE p == "monitoring.collectd"
            a == IF On("collectd") THEN Plain("collectdConf") ELSE Off("collectdConf")
            b == Step("install", "monitoring.collectd")
            c == CollectdRestart
            d == CollectdEnable
            e == CollectdDisable
            x == <<a>> \o When(install, <<b>>)
            y == IF On("collectd") THEN <<c, d>> ELSE <<e>>
            A == {a} \cup (IF install THEN {b} ELSE {})
            B == IF On("collectd") THEN {c, d} ELSE {e}
<1>1. Collectd(install) = x \o y
  BY DEF Collectd, CollectdRestart, CollectdEnable, CollectdDisable, CollectdThings
<1>2. a.op = "write" /\ a.on = "collectdConf"
  <2>1. Plain("collectdConf").op = "write" /\ Plain("collectdConf").on = "collectdConf"
    BY WritesAre
  <2>2. Off("collectdConf").op = "write" /\ Off("collectdConf").on = "collectdConf"
    BY WritesAre
  <2>3. QED  BY <2>1, <2>2
<1>3. b.op = "install"  BY CommandIs
<1>4. c.op = "restart" /\ c.on = "collectd" /\ c.if = CollectdThings /\ c.unless = {}
  BY CommandIs DEF CollectdRestart
<1>5. e.op = "disable" /\ e.on = "collectd" /\ e.if = CollectdThings /\ e.unless = {}
  BY CommandIs DEF CollectdDisable
<1>6. d.op = "enable" /\ d.on = "collectd"  BY CommandIs DEF CollectdEnable
<1>7. Must(mode, p) \subseteq B  BY DEF Must
<1>. HIDE DEF a, b, c, d, e
<1>8. Lists(x, A)
  <2>1. Lists(<<a>>, {a})  BY ListsShort
  <2>2. Lists(When(install, <<b>>), IF install THEN {b} ELSE {})  BY ListsShort, ListsWhen
  <2>3. QED  BY <2>1, <2>2, ListsConcat
<1>9. Lists(y, B)  BY ListsShort
<1>10. \A w \in A : w.op \in {"write", "install", "stale"}  BY <1>2, <1>3
<1>11. NoMore(B)  BY <1>4, <1>5, <1>6 DEF NoMore
<1>12. \A w \in B : Fits(w, p)  BY <1>4, <1>5, <1>6, KnownServices DEF Fits, SwitchedOff
<1>13. Served(A, B)
  <2>1. ASSUME NEW w \in A, w.op = "write", NEW s \in Service, w.on \in Reads[s]
        PROVE  \E v \in B : Ends(v, s, w.on)
    <3>1. w.on = "collectdConf" /\ s = "collectd"  BY <1>2, <1>3, <2>1, ReadBy
    <3>2. Ends(c, s, w.on) /\ Ends(e, s, w.on)
      BY <1>4, <1>5, <3>1 DEF Ends, Commands, CollectdThings
    <3>3. QED  BY <3>2
  <2>2. QED  BY <2>1 DEF Served
<1>14. Must(mode, p) \subseteq A \cup B  BY <1>7
<1>. HIDE DEF A, B, p, x, y
<1>15. WellMade(x \o y, p, Must(mode, p))
  BY <1>8, <1>9, <1>10, <1>11, <1>12, <1>13, <1>14, WellMadeIs
<1>16. QED  BY <1>1, <1>15 DEF p

\* network_dnsmasq.py: one restart behind the files of the selected objects.
LEMMA DnsmasqMade == ASSUME NEW sel PROVE WellMade(Dnsmasq(sel), "network.dnsmasq", {})
<1>. DEFINE p == "network.dnsmasq"
            a == IF On("china") THEN Write("chinaConf", Content("gw", Renders["chinaConf"], conf))
                                ELSE Off("chinaConf")
            b == IF On("china") THEN Write("chinaManual", Content("gw", Renders["chinaManual"], conf))
                                ELSE Off("chinaManual")
            c == IF On("china") /\ conf[<<"china", "cron">>] = 1
                 THEN Plain("chinaCron") ELSE Delete("chinaCron")
            d == Plain("dhcpConf")
            e == Plain("dnsConf")
            f == Write("logrotate", Content("dnsmasq", {}, conf))
            g == If({"chinaConf", "chinaManual", "chinaCron", "dhcpConf", "dnsConf", "logrotate"},
                    Step("restart", "dnsmasq"))
            file == conf[<<"dns", "logFile">>] = 1
            x == When("china" \in sel, <<a, b, c>>)
            y == When("dhcp" \in sel, <<d>>)
            z == When("dns" \in sel, <<e>> \o When(file, <<f>>))
            X == IF "china" \in sel THEN {a, b, c} ELSE {}
            Y == IF "dhcp" \in sel THEN {d} ELSE {}
            Z == IF "dns" \in sel THEN {e} \cup (IF file THEN {f} ELSE {}) ELSE {}
            A == X \cup Y \cup Z
            B == {g}
<1>1. Dnsmasq(sel) = ((x \o y) \o z) \o <<g>>  BY DEF Dnsmasq
<1>2. a.op = "write" /\ a.on = "chinaConf" /\ b.op = "write" /\ b.on = "chinaManual"
  <2>1. Off("chinaConf").op = "write" /\ Off("chinaConf").on = "chinaConf"  BY WritesAre
  <2>2. Off("chinaManual").op = "write" /\ Off("chinaManual").on = "chinaManual"  BY WritesAre
  <2>3. \A f1, x1 : Write(f1, x1).op = "write" /\ Write(f1, x1).on = f1  BY WriteIs
  <2>4. a.op = "write" /\ a.on = "chinaConf"  BY <2>1, <2>3
  <2>5. b.op = "write" /\ b.on = "chinaManual"  BY <2>2, <2>3
  <2>6. QED  BY <2>4, <2>5
<1>3. c.op = "write" /\ c.on = "chinaCron"
  <2>1. Plain("chinaCron").op = "write" /\ Plain("chinaCron").on = "chinaCron"  BY WritesAre
  <2>2. Delete("chinaCron").op = "write" /\ Delete("chinaCron").on = "chinaCron"  BY WritesAre
  <2>3. QED  BY <2>1, <2>2
<1>4. d.op = "write" /\ d.on = "dhcpConf" /\ e.op = "write" /\ e.on = "dnsConf"  BY WritesAre
<1>5. f.op = "write" /\ f.on = "logrotate"  BY WriteIs
<1>6. /\ g.op = "restart" /\ g.on = "dnsmasq" /\ g.unless = {}
      /\ g.if = {"chinaConf", "chinaManual", "chinaCron", "dhcpConf", "dnsConf", "logrotate"}
  BY CommandIs
<1>. HIDE DEF a, b, c, d, e, f, g, file
<1>7. Lists(x, X)
  <2>1. Lists(<<a, b, c>>, {a, b, c})  BY ListsShort
  <2>2. QED  BY <2>1, ListsNone DEF When
<1>8. Lists(y, Y)  BY ListsShort, ListsNone DEF When
<1>9. Lists(z, Z)
  <2>. DEFINE v == <<e>> \o When(file, <<f>>)
  <2>1. Lists(When(file, <<f>>), IF file THEN {f} ELSE {})  BY ListsShort, ListsNone DEF When
  <2>2. Lists(<<e>>, {e})  BY ListsShort
  <2>3. Lists(v, {e} \cup (IF file THEN {f} ELSE {}))  BY <2>1, <2>2, ListsConcat
  <2>. HIDE DEF v
  <2>4. Lists(When("dns" \in sel, v), Z)  BY <2>3, ListsNone DEF When
  <2>5. QED  BY <2>4 DEF v
<1>10. Lists(<<g>>, B)  BY ListsShort
<1>11. \A w \in A : w.op = "write" /\ w.on \in {"chinaConf", "chinaManual", "chinaCron", "dhcpConf",
                                             "dnsConf", "logrotate"}
  BY <1>2, <1>3, <1>4, <1>5
<1>12. Lists((x \o y) \o z, A)
  <2>. HIDE DEF x, y, z, X, Y, Z
  <2>1. Lists(x \o y, X \cup Y)  BY <1>7, <1>8, ListsConcat
  <2>. DEFINE u == x \o y
              U == X \cup Y
  <2>2. Lists(u, U)  BY <2>1
  <2>. HIDE DEF u, U
  <2>3. Lists(u \o z, U \cup Z)  BY <1>9, <2>2, ListsConcat
  <2>4. QED  BY <2>3 DEF u, U
<1>13. NoMore(B)  BY <1>6 DEF NoMore
<1>14. \A w \in B : Fits(w, p)  BY <1>6, KnownServices DEF Fits, SwitchedOff
<1>. HIDE DEF A, x, y, z
<1>15. Served(A, B)
  <2>1. ASSUME NEW w \in A, w.op = "write", NEW s \in Service, w.on \in Reads[s]
        PROVE  Ends(g, s, w.on)
    <3>1. w.on \in g.if  BY <1>6, <1>11
    <3>2. s = "dnsmasq"  BY <1>11, <2>1, ReadBy
    <3>3. QED  BY <1>6, <3>1, <3>2 DEF Ends, Commands
  <2>2. QED  BY <2>1 DEF Served
<1>16. \A w \in A : w.op \in {"write", "install", "stale"}  BY <1>11
<1>. DEFINE v == (x \o y) \o z
<1>. HIDE DEF B, p, v
<1>17. WellMade(v \o <<g>>, p, {})
  <2>1. {} \subseteq A \cup B  OBVIOUS
  <2>2. Lists(v, A)  BY <1>12 DEF v
  <2>3. QED  BY <1>10, <1>13, <1>14, <1>15, <1>16, <2>1, <2>2, WellMadeIs
<1>18. QED  BY <1>1, <1>17 DEF p, v

\* A list of nine steps in two parts.
LEMMA CutLong ==
    \A a, b, c, d, e, f, g, h, i :
        <<a, b, c, d, e, f, g, h, i>> = <<a, b, c, d, e, f, g>> \o <<h, i>>
  OBVIOUS

\* network_ipv6pd.py: what the client, radvd, systemd and nft read, and then each of them.
LEMMA PdMade ==
    ASSUME NEW mode
    PROVE  WellMade(Ipv6Pd(mode = "event"), "network.ipv6pd", Must(mode, "network.ipv6pd"))
<1>. DEFINE p == "network.ipv6pd"
            a == Plain("dhcp6c")
            b == Plain("dhcp6cScript")
            c == Plain("duid")
            d == Plain("radvd")
            e == Plain("pdUnit")
            f == Plain("pdHooks")
            g == Plain("nftPd")
            h == If({"pdUnit"}, Step("restart", "systemd"))
            i == Plain("acceptRa")
            j == PdRestart(mode, "pd")
            k == PdEnable(mode, "pd")
            l == PdRestart(mode, "radvd")
            m == PdEnable(mode, "radvd")
            n == PdLoad(mode)
            a2 == Off("dhcp6c")
            d2 == Off("radvd")
            g2 == Off("nftPd")
            j2 == Unwanted("pd")
            l2 == Unwanted("radvd")
<1>1. CASE On("pd")
  <2>. DEFINE A == {a, b, c, d, e, f, g}
              B == {h, i} \cup {j, k} \cup {l, m} \cup {n}
  <2>1. Ipv6Pd(mode = "event") = <<a, b, c, d, e, f, g, h, i>> \o <<j, k>> \o <<l, m>> \o <<n>>
    <3>1. Reads["pd"] = {"dhcp6c", "dhcp6cScript", "duid"} /\ Reads["radvd"] = {"radvd"}
      BY WhoReads
    <3>2. QED  BY <1>1, <3>1 DEF Ipv6Pd, PdSteps, PdRestart, PdEnable, PdLoad, Forced
  <2>2. /\ a.op = "write" /\ b.op = "write" /\ c.op = "write" /\ d.op = "write" /\ e.op = "write"
        /\ f.op = "write" /\ g.op = "write" /\ i.op = "write"
    BY WritesAre
  <2>3. /\ a.on = "dhcp6c" /\ b.on = "dhcp6cScript" /\ c.on = "duid" /\ d.on = "radvd"
        /\ e.on = "pdUnit" /\ f.on = "pdHooks" /\ g.on = "nftPd" /\ i.on = "acceptRa"
    BY WritesAre
  <2>4. h.op = "restart" /\ h.on = "systemd" /\ h.if = {"pdUnit"} /\ h.unless = {}  BY CommandIs
  <2>5. /\ j.op = "restart" /\ j.on = "pd" /\ j.if = Reads["pd"] \cup Forced(mode) /\ j.unless = {}
        /\ l.op = "restart" /\ l.on = "radvd" /\ l.if = Reads["radvd"] \cup Forced(mode)
        /\ l.unless = {}
    BY CommandIs DEF PdRestart
  <2>6. k.op = "enable" /\ k.on = "pd" /\ m.op = "enable" /\ m.on = "radvd"
    BY CommandIs DEF PdEnable
  <2>7. n.op = "loadIfThere" /\ n.on = "nft" /\ n.if = {"nftPd"} \cup Forced(mode) /\ n.unless = {}
    BY CommandIs DEF PdLoad
  <2>8. Must(mode, p) = {j, k, l, m, n}  BY <1>1 DEF Must
  <2>. HIDE DEF a, b, c, d, e, f, g, h, i, j, k, l, m, n
  <2>. DEFINE x == <<a, b, c, d, e, f, g>>
              y == <<h, i>> \o <<j, k>> \o <<l, m>> \o <<n>>
  <2>9. Lists(x, A)  BY ListsLong
  <2>10. Lists(y, B)
    <3>1. Lists(<<h, i>>, {h, i}) /\ Lists(<<j, k>>, {j, k})  BY ListsShort
    <3>2. Lists(<<l, m>>, {l, m}) /\ Lists(<<n>>, {n})  BY ListsShort
    <3>3. Lists(<<h, i>> \o <<j, k>>, {h, i} \cup {j, k})  BY <3>1, ListsConcat
    <3>4. Lists(<<h, i>> \o <<j, k>> \o <<l, m>>, {h, i} \cup {j, k} \cup {l, m})
      BY <3>2, <3>3, ListsConcat
    <3>5. QED  BY <3>2, <3>4, ListsConcat
  <2>11. Ipv6Pd(mode = "event") = x \o y
    <3>. DEFINE u == <<h, i>>
                v == <<j, k>>
                t == <<l, m>>
                r == <<n>>
                S == A \cup B
    <3>1. <<a, b, c, d, e, f, g, h, i>> = x \o u  BY CutLong
    <3>2. Ipv6Pd(mode = "event") = (((x \o u) \o v) \o t) \o r  BY <2>1, <3>1
    <3>3. x \in Seq(S)  BY <2>9 DEF Lists
    <3>4. u \in Seq(S) /\ v \in Seq(S) /\ t \in Seq(S) /\ r \in Seq(S)  OBVIOUS
    <3>5. y = ((u \o v) \o t) \o r  OBVIOUS
    <3>. HIDE DEF A, B, S, u, v, t, r, x, y
    <3>6. ASSUME NEW a1 \in Seq(S), NEW b1 \in Seq(S), NEW c1 \in Seq(S)
          PROVE  a1 \o b1 \in Seq(S) /\ (a1 \o b1) \o c1 = a1 \o (b1 \o c1)
      <4>1. (a1 \o b1) \o c1 = a1 \o (b1 \o c1)  OBVIOUS
      <4>2. a1 \o b1 \in Seq(S)  OBVIOUS
      <4>3. QED  BY <4>1, <4>2
    <3>. DEFINE uv == u \o v
                uvt == uv \o t
                xu == x \o u
    <3>7. uv \in Seq(S) /\ xu \o v = x \o uv  BY <3>3, <3>4, <3>6
    <3>. HIDE DEF uv
    <3>8. uvt \in Seq(S) /\ (x \o uv) \o t = x \o uvt
      <4>1. uv \in Seq(S) /\ t \in Seq(S)  BY <3>4, <3>7
      <4>2. QED  BY <3>3, <4>1
    <3>. HIDE DEF uvt
    <3>9. (x \o uvt) \o r = x \o (uvt \o r)
      <4>1. uvt \in Seq(S) /\ r \in Seq(S)  BY <3>4, <3>8
      <4>2. QED  BY <3>3, <4>1
    <3>10. ((xu \o v) \o t) \o r = x \o (uvt \o r)  BY <3>7, <3>8, <3>9, Zenon
    <3>11. QED  BY <3>2, <3>5, <3>10 DEF xu, uvt, uv
  <2>12. \A w \in A : w.op \in {"write", "install", "stale"}  BY <2>2
  <2>13. NoMore(B)
    <3>1. ~IsRead("acceptRa")  BY ReadBy DEF IsRead
    <3>2. QED  BY <2>2, <2>3, <2>4, <2>5, <2>6, <2>7, <3>1 DEF NoMore
  <2>14. \A w \in B : Fits(w, p)
    BY <1>1, <2>2, <2>4, <2>5, <2>6, <2>7, KnownServices DEF Fits, SwitchedOff
  <2>15. Served(A, B)
    <3>1. Ends(h, "systemd", "pdUnit") /\ Ends(n, "nft", "nftPd")
      BY <2>4, <2>7 DEF Ends, Commands
    <3>2. /\ \A t \in Reads["pd"] : Ends(j, "pd", t)
          /\ \A t \in Reads["radvd"] : Ends(l, "radvd", t)
      BY <2>5 DEF Ends, Commands
    <3>3. h \in B /\ j \in B /\ l \in B /\ n \in B  OBVIOUS
    <3>. HIDE DEF B
    <3>4. ASSUME NEW w \in A, NEW s \in Service, w.on \in Reads[s]
          PROVE  \E v \in B : Ends(v, s, w.on)
      <4>1. \/ w.on = "pdUnit" /\ s = "systemd"
            \/ w.on = "nftPd" /\ s = "nft"
            \/ s \in {"pd", "radvd"}
        BY <2>3, <3>4, ReadBy
      <4>2. QED  BY <3>1, <3>2, <3>3, <3>4, <4>1
    <3>5. QED  BY <3>4 DEF Served
  <2>16. Must(mode, p) \subseteq A \cup B  BY <2>8
  <2>. HIDE DEF A, B, p, x, y
  <2>17. WellMade(x \o y, p, Must(mode, p))
    BY <2>9, <2>10, <2>12, <2>13, <2>14, <2>15, <2>16, WellMadeIs
  <2>18. QED  BY <2>11, <2>17 DEF p
<1>2. CASE ~On("pd")
  <2>. DEFINE A == {a2, d2, g2}
              B == {j2, l2}
  <2>1. Ipv6Pd(mode = "event") = <<a2, d2, g2, j2, l2>>
    BY <1>2 DEF Ipv6Pd, PdSteps, Unwanted
  <2>2. /\ a2.op = "write" /\ a2.on = "dhcp6c" /\ d2.op = "write" /\ d2.on = "radvd"
        /\ g2.op = "write" /\ g2.on = "nftPd" /\ g2.what.tag = "disabled"
    BY WritesAre
  <2>3. /\ j2.op = "tryDisable" /\ j2.on = "pd" /\ j2.if = {"always"} /\ j2.unless = {}
        /\ l2.op = "tryDisable" /\ l2.on = "radvd" /\ l2.if = {"always"} /\ l2.unless = {}
    BY CommandIs DEF Unwanted
  <2>4. Must(mode, p) = {j2, l2}  BY <1>2 DEF Must
  <2>. HIDE DEF a2, d2, g2, j2, l2
  <2>5. Ipv6Pd(mode = "event") = <<a2, d2, g2>> \o <<j2, l2>>  BY <2>1
  <2>6. Lists(<<a2, d2, g2>>, A) /\ Lists(<<j2, l2>>, B)  BY ListsShort
  <2>7. \A w \in A : w.op \in {"write", "install", "stale"}  BY <2>2
  <2>8. NoMore(B)  BY <2>3 DEF NoMore
  <2>9. \A w \in B : Fits(w, p)  BY <1>2, <2>3 DEF Fits
  <2>10. Served(A, B)
    <3>1. ASSUME NEW w \in A, NEW s \in Service, w.on \in Reads[s], ~Unread(w, s)
          PROVE  \E v \in B : Ends(v, s, w.on)
      <4>1. (s = "pd" /\ w = a2) \/ (s = "radvd" /\ w = d2)
        BY <2>2, <3>1, ReadBy DEF Unread
      <4>2. QED  BY <2>3, <4>1 DEF Ends, Commands
    <3>2. QED  BY <3>1 DEF Served
  <2>11. Must(mode, p) \subseteq A \cup B  BY <2>4
  <2>. HIDE DEF A, B, p
  <2>12. WellMade(<<a2, d2, g2>> \o <<j2, l2>>, p, Must(mode, p))
    BY <2>6, <2>7, <2>8, <2>9, <2>10, <2>11, WellMadeIs
  <2>13. QED  BY <2>5, <2>12 DEF p
<1>3. QED  BY <1>1, <1>2

\* The plugins of one step.
LEMMA SmallMade ==
    /\ WellMade(ResolvConf, "network.resolvconf", {}) /\ WellMade(IpLists, "ip_lists", {})
    /\ WellMade(ConfigResources, "config.resources", {})
    /\ WellMade(SystemUtilities, "system.utilities", {})
<1>1. ASSUME NEW x, NEW p, x.op \in {"write", "install"}, x.op = "write" => ~IsRead(x.on)
      PROVE  WellMade(<<x>>, p, {})
  <2>1. Lists(<<x>>, {x})  BY ListsShort
  <2>2. \A w \in {x} : w.op \in {"write", "install", "stale"}  BY <1>1
  <2>3. \A w \in {x} : w.op = "write" => ~IsRead(w.on)  BY <1>1
  <2>4. QED  BY <2>1, <2>2, <2>3, OnlyWrites
<1>2. ~IsRead("resolvConf") /\ ~IsRead("ipListCron") /\ ~IsRead("cronJob")
  BY ReadBy DEF IsRead
<1>3. WellMade(ResolvConf, "network.resolvconf", {})
  <2>1. Plain("resolvConf").op = "write" /\ Plain("resolvConf").on = "resolvConf"  BY WritesAre
  <2>2. QED  BY <1>1, <1>2, <2>1 DEF ResolvConf
<1>4. WellMade(ConfigResources, "config.resources", {})
  <2>1. Plain("cronJob").op = "write" /\ Plain("cronJob").on = "cronJob"  BY WritesAre
  <2>2. QED  BY <1>1, <1>2, <2>1 DEF ConfigResources
<1>5. WellMade(IpLists, "ip_lists", {})
  <2>. DEFINE x == IF On("ipList") THEN Plain("ipListCron") ELSE Delete("ipListCron")
  <2>1. Plain("ipListCron").op = "write" /\ Plain("ipListCron").on = "ipListCron"  BY WritesAre
  <2>2. Delete("ipListCron").op = "write" /\ Delete("ipListCron").on = "ipListCron"  BY WritesAre
  <2>3. x.op = "write" /\ x.on = "ipListCron"  BY <2>1, <2>2
  <2>. HIDE DEF x
  <2>4. WellMade(<<x>>, "ip_lists", {})  BY <1>1, <1>2, <2>3
  <2>5. QED  BY <2>4 DEF IpLists, x
<1>6. WellMade(SystemUtilities, "system.utilities", {})
  <2>1. Step("install", "system.utilities").op = "install"  BY CommandIs
  <2>2. QED  BY <1>1, <2>1 DEF SystemUtilities
<1>7. QED  BY <1>3, <1>4, <1>5, <1>6

\* So is the list of every plugin.
LEMMA ScriptsMade ==
    ASSUME NEW mode, NEW p \in Plugin, NEW sel
    PROVE  WellMade(Script(mode, p, sel), p, Must(mode, p))
<1>1. CASE p = "network.core"  BY <1>1, CoreMade DEF Script
<1>2. CASE p = "network.ipv6pd"  BY <1>2, PdMade DEF Script
<1>3. CASE p = "network.firewall"  BY <1>3, FirewallMade DEF Script
<1>4. CASE p = "monitoring.collectd"
  <2>1. (mode = "bootstrap") \in BOOLEAN  OBVIOUS
  <2>2. QED  BY <1>4, <2>1, CollectdMade DEF Script
<1>5. CASE p = "network.wgsd-coredns"  BY <1>5, WgsdMade DEF Script
<1>6. CASE p = "docker.core"  BY <1>6, DockerMade DEF Script
<1>7. CASE p = "network.dnsmasq"
  <2>1. Must(mode, p) = {}  BY <1>7 DEF Must
  <2>2. QED  BY <1>7, <2>1, DnsmasqMade DEF Script
<1>8. CASE p \in {"system.mirror", "network.resolvconf", "ip_lists", "config.resources",
                  "system.utilities"}
  <2>1. Must(mode, p) = {}  BY <1>8 DEF Must
  <2>2. QED  BY <1>8, <2>1, MirrorMade, SmallMade DEF Script
<1>9. QED  BY <1>1, <1>2, <1>3, <1>4, <1>5, <1>6, <1>7, <1>8, Plugins12

==============================================================================
