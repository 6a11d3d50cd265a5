-------------------------- MODULE RouteRefresh_proofs --------------------------
(***************************************************************************)
(* Proofs about the downloaded IP lists and about the route tables and     *)
(* rules made of them: any configurations, links, refreshers, updaters,    *)
(* sources, families and versions, killed wherever.                        *)
(***************************************************************************)
EXTENDS MCServices, SequenceTheorems, TLAPS

Content == [family : STRING, name : STRING, version : Nat]
FileContent == SUBSET Content

UpdaterState ==
    [step : {"idle", "fetch", "stage", "copy", "rename"}, names : Seq(STRING), staged : Nat,
     families : Seq(STRING), failed : BOOLEAN, wrote : BOOLEAN,
     fd : {"none", "temp", "target", "gone"}]

-----------------------------------------------------------------------------
(* The inductive invariant.                                                *)

ListTypes ==
    /\ lists \in [ListFiles -> FileContent]
    /\ temp \in [ListFiles -> SUBSET FileContent]
    /\ upd \in [Updaters -> UpdaterState]

\* An updater has something open while it copies and renames, and only then; and it
\* knows which list it is at.
OpenWhileCopying ==
    \A u \in Updaters :
        /\ upd[u].step \in {"copy", "rename"} <=> upd[u].fd # "none"
        /\ upd[u].step \in {"stage", "copy", "rename"} => upd[u].names # <<>>
        /\ upd[u].families # <<>>

HasTemp(u, f) == upd[u].fd = "temp" /\ Current(u) = f

\* Unless a list is on record as opened twice, one updater at most has its temporary
\* file open, and nobody's was renamed under his hands.
OneWriter ==
    \A u \in Updaters :
        /\ upd[u].fd \in {"target", "gone"} => Current(u) \in shared
        /\ \A v \in Updaters \ {u} :
              HasTemp(u, Current(u)) /\ HasTemp(v, Current(u)) => Current(u) \in shared

\* What an updater is about to rename is whole, unless another one opened it too.
RenamesWhole ==
    \A u \in Updaters :
        upd[u].step = "rename" /\ upd[u].fd = "temp" /\ Current(u) \in ListFiles \ shared =>
            temp[Current(u)] = {Networks(Current(u), upd[u].staged)}

ListsInv ==
    ListTypes /\ OpenWhileCopying /\ OneWriter /\ RenamesWhole /\ ListsAreWhole

-----------------------------------------------------------------------------
(* The steps.                                                              *)

\* Networks always has a line in it (what an updater downloads, Fetch).
LEMMA NetworksAreWhole ==
    ASSUME NEW f \in ListFiles, NEW version \in Nat
    PROVE  Networks(f, version) \in FileContent /\ Networks(f, version) # Torn
<1>1. f[1] \in STRING /\ f[2] \in STRING
  BY ListsAssumption DEF ListFiles
<1>2. QED  BY <1>1 DEF Networks, FileContent, Content, Torn

\* A list that is not empty has a first element and a rest (the names still to fetch).
LEMMA FirstAndRest ==
    ASSUME NEW S, NEW list \in Seq(S), list # <<>>
    PROVE  list[1] \in S /\ Tail(list) \in Seq(S) /\ <<list[1]>> \in Seq(S)
  OBVIOUS

LEMMA LongHasRest ==
    ASSUME NEW S, NEW list \in Seq(S), Len(list) > 1
    PROVE  Tail(list) # <<>>
<1>1. PICK n \in Nat : n = Len(list) /\ n > 1  OBVIOUS
<1>2. list # <<>>  OBVIOUS
<1>3. Tail(list) \in Seq(S) /\ Len(Tail(list)) = n - 1  BY <1>1, <1>2
<1>4. n - 1 # 0  BY <1>1
<1>5. PICK rest \in Seq(S) : rest = Tail(list) /\ Len(rest) = n - 1  BY <1>3
<1>6. rest = <<>> => Len(rest) = 0  OBVIOUS
<1>7. QED  BY <1>4, <1>5, <1>6

\* An updater that has nothing open and leaves the files alone disturbs nobody.
LEMMA ClosedKeepsInv ==
    ASSUME ListsInv, NEW u \in Updaters, NEW r \in UpdaterState,
           upd' = [upd EXCEPT ![u] = r], r.fd = "none", r.step \notin {"copy", "rename"},
           r.step = "stage" => r.names # <<>>, r.families # <<>>,
           UNCHANGED <<lists, temp, shared>>
    PROVE  ListsInv'
<1>1. ListTypes /\ upd \in [Updaters -> UpdaterState]  BY DEF ListsInv, ListTypes
<1>2. upd'[u] = r /\ \A v \in Updaters \ {u} : upd'[v] = upd[v]  BY <1>1
<1>3. ListTypes'  BY <1>1 DEF ListTypes
<1>4. OpenWhileCopying'  BY <1>2 DEF ListsInv, OpenWhileCopying
<1>5. \A v \in Updaters : v # u => Current(v)' = Current(v)
  BY <1>2 DEF Current
<1>6. OneWriter'
  BY <1>2, <1>5 DEF ListsInv, OneWriter, HasTemp, Current
<1>7. RenamesWhole'
  BY <1>2, <1>5 DEF ListsInv, RenamesWhole, Networks, Current
<1>8. ListsAreWhole'  BY DEF ListsInv, ListsAreWhole
<1>9. QED  BY <1>3, <1>4, <1>6, <1>7, <1>8 DEF ListsInv

\* gw ip-list update starts, fetches, gives up, ends or is killed.
LEMMA StartDownloadKeepsInv ==
    ASSUME ListsInv, NEW u \in Updaters, StartDownload(u)
    PROVE  ListsInv'
<1>1. PICK chosen \in {Sources, <<Sources[1]>>} :
         upd' = [upd EXCEPT ![u] = [NoUpdate EXCEPT !.step = "fetch", !.names = chosen]]
  BY DEF StartDownload
<1>2. chosen \in Seq(STRING) /\ Families \in Seq(STRING) /\ Families # <<>>
  <2>1. Sources \in Seq(STRING) /\ <<Sources[1]>> \in Seq(STRING)
    BY ListsAssumption, FirstAndRest
  <2>2. QED  BY <2>1, ListsAssumption
<1>3. PICK r \in UpdaterState :
         /\ upd' = [upd EXCEPT ![u] = r]
         /\ r.fd = "none" /\ r.step = "fetch" /\ r.families # <<>>
  <2>. DEFINE r == [NoUpdate EXCEPT !.step = "fetch", !.names = chosen]
  <2>1. r \in UpdaterState /\ r.fd = "none" /\ r.step = "fetch" /\ r.families = Families
    BY <1>2 DEF NoUpdate, UpdaterState
  <2>2. QED  BY <1>1, <1>2, <2>1
<1>4. UNCHANGED <<lists, temp, shared>>  BY DEF StartDownload
<1>5. QED  BY <1>3, <1>4, ClosedKeepsInv

LEMMA FetchKeepsInv ==
    ASSUME ListsInv, NEW u \in Updaters, Fetch(u)
    PROVE  ListsInv'
<1>1. /\ upd \in [Updaters -> UpdaterState] /\ upd[u] \in UpdaterState
      /\ upd[u].fd = "none" /\ upd[u].families # <<>>
  BY DEF Fetch, ListsInv, ListTypes, OpenWhileCopying
<1>2. PICK before \in UpdaterState : before = upd[u]  BY <1>1
<1>3. before.names # <<>> /\ before.names \in Seq(STRING) /\ before.step = "fetch"
  BY <1>2 DEF Fetch, UpdaterState
<1>4. UNCHANGED <<lists, temp, shared>>  BY DEF Fetch
<1>5. CASE \E v \in 1..MaxVersion : upd' = [upd EXCEPT ![u].step = "stage", ![u].staged = v]
  <2>1. PICK v \in 1..MaxVersion : upd' = [upd EXCEPT ![u].step = "stage", ![u].staged = v]
    BY <1>5
  <2>2. v \in Nat  BY ListsAssumption
  <2>3. PICK r \in UpdaterState : r = [before EXCEPT !.step = "stage", !.staged = v]
    <3>1. [before EXCEPT !.step = "stage", !.staged = v] \in UpdaterState
      BY <2>2 DEF UpdaterState
    <3>2. QED  BY <3>1
  <2>4. /\ r.fd = "none" /\ r.step = "stage" /\ r.names # <<>> /\ r.families # <<>>
        /\ upd' = [upd EXCEPT ![u] = r]
    BY <1>1, <1>2, <1>3, <2>1, <2>3 DEF UpdaterState
  <2>5. QED  BY <1>4, <2>4, ClosedKeepsInv
<1>6. CASE upd' = [upd EXCEPT ![u].failed = TRUE, ![u].names = Tail(@)]
  <2>1. PICK r \in UpdaterState : r = [before EXCEPT !.failed = TRUE, !.names = Tail(before.names)]
    <3>1. Tail(before.names) \in Seq(STRING)  BY <1>3, FirstAndRest
    <3>2. [before EXCEPT !.failed = TRUE, !.names = Tail(before.names)] \in UpdaterState
      BY <3>1 DEF UpdaterState
    <3>3. QED  BY <3>2
  <2>2. /\ r.fd = "none" /\ r.step = "fetch" /\ r.families # <<>>
        /\ upd' = [upd EXCEPT ![u] = r]
    BY <1>1, <1>2, <1>3, <1>6, <2>1 DEF UpdaterState
  <2>3. QED  BY <1>4, <2>2, ClosedKeepsInv
<1>7. QED  BY <1>5, <1>6 DEF Fetch

LEMMA NoUpdateKeepsInv ==
    ASSUME ListsInv, NEW u \in Updaters, upd' = [upd EXCEPT ![u] = NoUpdate],
           UNCHANGED <<lists, temp, shared>>
    PROVE  ListsInv'
<1>1. PICK r \in UpdaterState : r = NoUpdate
  <2>1. NoUpdate \in UpdaterState  BY ListsAssumption DEF NoUpdate, UpdaterState
  <2>2. QED  BY <2>1
<1>2. r.fd = "none" /\ r.step = "idle" /\ r.families # <<>>
  BY <1>1, ListsAssumption DEF NoUpdate
<1>3. QED  BY <1>1, <1>2, ClosedKeepsInv

LEMMA EndsKeepInv ==
    ASSUME ListsInv, NEW u \in Updaters, RenameFails(u) \/ EndUpdate(u) \/ UpdaterKilled(u)
    PROVE  ListsInv'
<1>1. upd' = [upd EXCEPT ![u] = NoUpdate] /\ UNCHANGED <<lists, temp, shared>>
  BY DEF RenameFails, EndUpdate, UpdaterKilled, GivesUp
<1>2. QED  BY <1>1, NoUpdateKeepsInv

\* An updater that goes on with the same list: nobody's list changes, nor what the
\* others have open.
LEMMA SameListForAll ==
    ASSUME ListsInv, NEW u \in Updaters, NEW r \in UpdaterState,
           upd' = [upd EXCEPT ![u] = r],
           r.names = upd[u].names, r.families = upd[u].families
    PROVE  /\ upd' \in [Updaters -> UpdaterState] /\ upd'[u] = r
           /\ \A v \in Updaters \ {u} : upd'[v] = upd[v]
           /\ \A v \in Updaters : Current(v)' = Current(v)
<1>1. upd \in [Updaters -> UpdaterState]  BY DEF ListsInv, ListTypes
<1>2. upd' \in [Updaters -> UpdaterState] /\ upd'[u] = r
      /\ \A v \in Updaters \ {u} : upd'[v] = upd[v]
  BY <1>1
<1>3. \A v \in Updaters : Current(v)' = Current(v)  BY <1>2 DEF Current
<1>4. QED  BY <1>2, <1>3

\* _replace_from_staged opens and empties the temporary file; whoever has it open too
\* puts the list on record.
LEMMA OpenTempKeepsInv ==
    ASSUME ListsInv, NEW u \in Updaters, OpenTemp(u)
    PROVE  ListsInv'
<1>1. upd \in [Updaters -> UpdaterState] /\ upd[u] \in UpdaterState /\ upd[u].step = "stage"
  BY DEF ListsInv, ListTypes, OpenTemp
<1>2. PICK f : f = Current(u)  OBVIOUS
<1>3. /\ temp' = [temp EXCEPT ![f] = {Torn}] /\ lists' = lists
      /\ upd' = [upd EXCEPT ![u].step = "copy", ![u].fd = "temp"]
      /\ \A v \in Updaters \ {u} : HasTemp(v, f) => f \in shared'
      /\ shared \subseteq shared'
  BY <1>2 DEF OpenTemp, HasTemp
<1>4. PICK before \in UpdaterState : before = upd[u]  BY <1>1
<1>5. PICK r \in UpdaterState : r = [before EXCEPT !.step = "copy", !.fd = "temp"]
  <2>1. [before EXCEPT !.step = "copy", !.fd = "temp"] \in UpdaterState  BY DEF UpdaterState
  <2>2. QED  BY <2>1
<1>6. /\ r.names = upd[u].names /\ r.families = upd[u].families
      /\ r.step = "copy" /\ r.fd = "temp" /\ upd' = [upd EXCEPT ![u] = r]
  BY <1>1, <1>3, <1>4, <1>5 DEF UpdaterState
<1>7. /\ upd' \in [Updaters -> UpdaterState] /\ upd'[u] = r
      /\ \A v \in Updaters \ {u} : upd'[v] = upd[v]
      /\ \A v \in Updaters : Current(v)' = Current(v)
  BY <1>6, SameListForAll
<1>8. ListTypes'
  <2>1. Torn \in FileContent  BY DEF Torn, FileContent
  <2>2. QED  BY <1>3, <1>7, <2>1 DEF ListsInv, ListTypes
<1>9. OpenWhileCopying'
  BY <1>1, <1>6, <1>7 DEF ListsInv, OpenWhileCopying
<1>10. OneWriter'
  <2>1. SUFFICES ASSUME NEW v \in Updaters
                 PROVE  /\ upd'[v].fd \in {"target", "gone"} => Current(v) \in shared'
                        /\ \A w \in Updaters \ {v} :
                              upd'[v].fd = "temp" /\ upd'[w].fd = "temp" /\ Current(w) = Current(v)
                                  => Current(v) \in shared'
    BY <1>7 DEF OneWriter, HasTemp
  <2>2. upd'[v].fd \in {"target", "gone"} => Current(v) \in shared'
    BY <1>3, <1>6, <1>7 DEF ListsInv, OneWriter
  <2>3. ASSUME NEW w \in Updaters \ {v}, upd'[v].fd = "temp", upd'[w].fd = "temp",
               Current(w) = Current(v)
        PROVE  Current(v) \in shared'
    <3>1. CASE v = u  BY <3>1, <2>3, <1>2, <1>3, <1>7 DEF HasTemp
    <3>2. CASE w = u  BY <3>2, <2>3, <1>2, <1>3, <1>7 DEF HasTemp
    <3>3. CASE v # u /\ w # u
      BY <3>3, <2>3, <1>3, <1>7 DEF ListsInv, OneWriter, HasTemp
    <3>4. QED  BY <3>1, <3>2, <3>3
  <2>4. QED  BY <2>2, <2>3
<1>11. RenamesWhole'
  <2>1. SUFFICES ASSUME NEW v \in Updaters, upd'[v].step = "rename", upd'[v].fd = "temp",
                        Current(v) \in ListFiles \ shared'
                 PROVE  temp'[Current(v)] = {Networks(Current(v), upd'[v].staged)}
    BY <1>7 DEF RenamesWhole, Networks
  <2>2. v # u /\ upd'[v] = upd[v]  BY <2>1, <1>6, <1>7
  <2>3. Current(v) # f  BY <2>1, <2>2, <1>3 DEF HasTemp
  <2>4. temp'[Current(v)] = temp[Current(v)]
    BY <2>1, <2>3, <1>3 DEF ListsInv, ListTypes
  <2>5. QED  BY <2>1, <2>2, <2>4, <1>3 DEF ListsInv, RenamesWhole
<1>12. ListsAreWhole'  BY <1>3 DEF ListsInv, ListsAreWhole
<1>13. QED  BY <1>8, <1>9, <1>10, <1>11, <1>12 DEF ListsInv

\* The staged file is copied into what is open.
LEMMA CopyKeepsInv ==
    ASSUME ListsInv, NEW u \in Updaters, Copy(u)
    PROVE  ListsInv'
<1>1. upd \in [Updaters -> UpdaterState] /\ upd[u] \in UpdaterState /\ upd[u].step = "copy"
  BY DEF ListsInv, ListTypes, Copy
<1>2. PICK before \in UpdaterState : before = upd[u]  BY <1>1
<1>3. PICK f : f = Current(u)  OBVIOUS
<1>4. PICK content : content = Networks(f, before.staged)  OBVIOUS
<1>5. /\ f \in ListFiles => content \in FileContent /\ content # Torn
      /\ before.staged \in Nat
  BY <1>4, NetworksAreWhole DEF UpdaterState
<1>6. /\ temp' = IF before.fd = "temp" THEN [temp EXCEPT ![f] = {content}] ELSE temp
      /\ lists' = IF before.fd = "target" THEN [lists EXCEPT ![f] = content] ELSE lists
      /\ shared' = shared
  BY <1>2, <1>3, <1>4 DEF Copy
<1>7. PICK wrote \in BOOLEAN :
         upd' = [upd EXCEPT ![u].step = "rename", ![u].wrote = wrote]
  <2>1. PICK wrote : wrote = (upd[u].wrote \/ upd[u].fd = "target")  OBVIOUS
  <2>2. wrote \in BOOLEAN  BY <2>1
  <2>3. upd' = [upd EXCEPT ![u].step = "rename", ![u].wrote = wrote]
    BY <2>1 DEF Copy
  <2>4. QED  BY <2>2, <2>3
<1>8. PICK r \in UpdaterState : r = [before EXCEPT !.step = "rename", !.wrote = wrote]
  <2>1. [before EXCEPT !.step = "rename", !.wrote = wrote] \in UpdaterState  BY DEF UpdaterState
  <2>2. QED  BY <2>1
<1>9. /\ r.names = before.names /\ r.families = before.families /\ r.step = "rename"
      /\ r.fd = before.fd /\ r.staged = before.staged /\ upd' = [upd EXCEPT ![u] = r]
  BY <1>1, <1>2, <1>7, <1>8 DEF UpdaterState
<1>10. /\ upd' \in [Updaters -> UpdaterState] /\ upd'[u] = r
       /\ \A v \in Updaters \ {u} : upd'[v] = upd[v]
       /\ \A v \in Updaters : Current(v)' = Current(v)
  BY <1>2, <1>9, SameListForAll
<1>11. ListTypes'
  <2>1. lists \in [ListFiles -> FileContent] /\ temp \in [ListFiles -> SUBSET FileContent]
    BY DEF ListsInv, ListTypes
  <2>2. lists' \in [ListFiles -> FileContent]  BY <2>1, <1>5, <1>6
  <2>3. temp' \in [ListFiles -> SUBSET FileContent]  BY <2>1, <1>5, <1>6
  <2>4. QED  BY <2>2, <2>3, <1>10 DEF ListTypes
<1>12. OpenWhileCopying'
  BY <1>1, <1>2, <1>9, <1>10 DEF ListsInv, OpenWhileCopying
<1>13. \A v \in Updaters : upd'[v].fd = upd[v].fd  BY <1>2, <1>9, <1>10
<1>14. OneWriter'  BY <1>6, <1>10, <1>13 DEF ListsInv, OneWriter, HasTemp
<1>15. RenamesWhole'
  <2>1. SUFFICES ASSUME NEW v \in Updaters, upd'[v].step = "rename", upd'[v].fd = "temp",
                        Current(v) \in ListFiles \ shared
                 PROVE  temp'[Current(v)] = {Networks(Current(v), upd'[v].staged)}
    BY <1>6, <1>10 DEF RenamesWhole, Networks
  <2>2. temp \in [ListFiles -> SUBSET FileContent]  BY DEF ListsInv, ListTypes
  <2>3. CASE v = u
    <3>1. Current(v) = f /\ before.fd = "temp" /\ upd'[v].staged = before.staged
      BY <2>1, <2>3, <1>2, <1>3, <1>9, <1>10
    <3>2. temp'[f] = {content}  BY <2>1, <2>2, <3>1, <1>6
    <3>3. QED  BY <3>1, <3>2, <1>4
  <2>4. CASE v # u
    <3>1. upd[v].fd = "temp" /\ upd[v] = upd'[v]  BY <2>1, <2>4, <1>10
    <3>2. before.fd = "temp" => Current(v) # f
      BY <2>1, <2>4, <3>1, <1>2, <1>3 DEF ListsInv, OneWriter, HasTemp
    <3>3. temp'[Current(v)] = temp[Current(v)]  BY <2>1, <2>2, <3>2, <1>6
    <3>4. QED  BY <2>1, <3>1, <3>3 DEF ListsInv, RenamesWhole
  <2>5. QED  BY <2>3, <2>4
<1>16. ListsAreWhole'
  <2>1. SUFFICES ASSUME NEW g \in ListFiles, lists'[g] = Torn  PROVE g \in shared'
    BY DEF ListsAreWhole, Torn
  <2>2. lists \in [ListFiles -> FileContent]  BY DEF ListsInv, ListTypes
  <2>3. lists'[g] = lists[g]  BY <2>1, <2>2, <1>5, <1>6
  <2>4. QED  BY <2>1, <2>3, <1>6 DEF ListsInv, ListsAreWhole
<1>17. QED  BY <1>11, <1>12, <1>14, <1>15, <1>16 DEF ListsInv

\* The renaming takes the temporary file away from whoever else has it open; if it was
\* not whole, somebody else had.
LEMMA RenameKeepsInv ==
    ASSUME ListsInv, NEW u \in Updaters, Rename(u)
    PROVE  ListsInv'
<1>1. /\ upd \in [Updaters -> UpdaterState] /\ upd[u] \in UpdaterState /\ upd[u].step = "rename"
      /\ lists \in [ListFiles -> FileContent] /\ temp \in [ListFiles -> SUBSET FileContent]
  BY DEF ListsInv, ListTypes, Rename
<1>2. PICK before \in UpdaterState : before = upd[u]  BY <1>1
<1>3. PICK f : f = Current(u)  OBVIOUS
<1>4. PICK content : content = CHOOSE c \in temp[f] : TRUE  OBVIOUS
<1>5. /\ temp[f] # {} /\ lists' = [lists EXCEPT ![f] = content]
      /\ temp' = [temp EXCEPT ![f] = {}] /\ shared' = shared
  BY <1>3, <1>4 DEF Rename
<1>6. content \in temp[f]  BY <1>4, <1>5
<1>7. PICK r \in UpdaterState :
         /\ r = NextFile([before EXCEPT !.wrote = TRUE])
         /\ r.fd = "none" /\ r.step \in {"stage", "fetch"} /\ r.families # <<>>
         /\ r.step = "stage" => r.names # <<>>
  <2>. DEFINE j == [before EXCEPT !.wrote = TRUE]
  <2>1. j \in UpdaterState /\ j.names = before.names /\ j.families = before.families
    BY DEF UpdaterState
  <2>2. before.names # <<>> /\ before.families # <<>>
    BY <1>1, <1>2 DEF ListsInv, OpenWhileCopying
  <2>3. /\ before.names \in Seq(STRING) /\ before.families \in Seq(STRING)
        /\ Tail(before.names) \in Seq(STRING) /\ Tail(before.families) \in Seq(STRING)
    BY <2>2, FirstAndRest DEF UpdaterState
  <2>4. CASE Len(j.families) > 1
    <3>1. NextFile(j) = [j EXCEPT !.step = "stage", !.families = Tail(before.families),
                                  !.fd = "none"]
      BY <2>1, <2>4 DEF NextFile, UpdaterState
    <3>2. Tail(before.families) # <<>>
      BY <2>1, <2>3, <2>4, LongHasRest
    <3>3. PICK g \in UpdaterState : g = NextFile(j)
      <4>1. NextFile(j) \in UpdaterState  BY <2>1, <2>3, <3>1 DEF UpdaterState
      <4>2. QED  BY <4>1
    <3>4. /\ g.fd = "none" /\ g.step = "stage" /\ g.families = Tail(before.families)
          /\ g.names = before.names
      BY <2>1, <3>1, <3>3 DEF UpdaterState
    <3>5. QED  BY <2>2, <3>2, <3>3, <3>4
  <2>5. CASE ~(Len(j.families) > 1)
    <3>1. NextFile(j) = [NoUpdate EXCEPT !.step = "fetch", !.names = Tail(before.names),
                                         !.failed = j.failed, !.wrote = j.wrote]
      BY <2>1, <2>5 DEF NextFile
    <3>2. PICK rest \in Seq(STRING), failed \in BOOLEAN, wrote \in BOOLEAN :
             rest = Tail(before.names) /\ failed = j.failed /\ wrote = j.wrote
      BY <2>1, <2>3 DEF UpdaterState
    <3>3. NextFile(j) = [step |-> "fetch", names |-> rest, staged |-> 0, families |-> Families,
                         failed |-> failed, wrote |-> wrote, fd |-> "none"]
      BY <3>1, <3>2 DEF NoUpdate
    <3>4. NextFile(j) \in UpdaterState  BY <3>3, ListsAssumption DEF UpdaterState
    <3>5. /\ NextFile(j).fd = "none" /\ NextFile(j).step = "fetch"
          /\ NextFile(j).families = Families
      BY <3>3
    <3>6. QED  BY <3>4, <3>5, ListsAssumption
  <2>6. QED  BY <2>4, <2>5
<1>8. ASSUME NEW v \in Updaters \ {u}
      PROVE  /\ upd'[v] \in UpdaterState
             /\ upd'[v].names = upd[v].names /\ upd'[v].families = upd[v].families
             /\ upd'[v].step = upd[v].step /\ upd'[v].staged = upd[v].staged
             /\ upd[v].fd # "none" /\ Current(v) = f =>
                   upd'[v].fd = IF upd[v].fd = "temp" THEN "target" ELSE "gone"
             /\ ~(upd[v].fd # "none" /\ Current(v) = f) => upd'[v] = upd[v]
  <2>1. PICK b \in UpdaterState : b = upd[v]  BY <1>1
  <2>2. (upd[v].step \in {"copy", "rename"}) <=> (upd[v].fd # "none")
    BY DEF ListsInv, OpenWhileCopying
  <2>3. CASE upd[v].fd # "none" /\ Current(v) = f
    <3>1. upd'[v] = [b EXCEPT !.fd = IF b.fd = "temp" THEN "target" ELSE "gone"]
      BY <2>1, <2>2, <2>3, <1>3 DEF Rename, UpdaterState
    <3>2. QED  BY <2>1, <2>3, <3>1 DEF UpdaterState
  <2>4. CASE ~(upd[v].fd # "none" /\ Current(v) = f)
    <3>1. upd'[v] = upd[v]  BY <2>2, <2>4, <1>3 DEF Rename
    <3>2. QED  BY <2>1, <2>4, <3>1
  <2>5. QED  BY <2>3, <2>4
<1>9. upd'[u] = r  BY <1>2, <1>7 DEF Rename
<1>10. upd' \in [Updaters -> UpdaterState]
  <2>1. \A v \in Updaters : upd'[v] \in UpdaterState  BY <1>8, <1>9
  <2>2. upd' = [v \in Updaters |-> upd'[v]]  BY DEF Rename
  <2>3. QED  BY <2>1, <2>2
<1>11. \A v \in Updaters \ {u} : Current(v)' = Current(v)  BY <1>8 DEF Current
<1>12. ListTypes'
  <2>1. f \in ListFiles => content \in FileContent  BY <1>1, <1>6
  <2>2. lists' \in [ListFiles -> FileContent]  BY <2>1, <1>1, <1>5
  <2>3. temp' \in [ListFiles -> SUBSET FileContent]  BY <1>1, <1>5
  <2>4. QED  BY <2>2, <2>3, <1>10 DEF ListTypes
<1>13. OpenWhileCopying'
  <2>1. SUFFICES ASSUME NEW v \in Updaters
                 PROVE  /\ upd'[v].step \in {"copy", "rename"} <=> upd'[v].fd # "none"
                        /\ upd'[v].step \in {"stage", "copy", "rename"} => upd'[v].names # <<>>
                        /\ upd'[v].families # <<>>
    BY DEF OpenWhileCopying
  <2>2. CASE v = u  BY <2>2, <1>7, <1>9
  <2>3. CASE v # u
    <3>1. upd'[v].fd # "none" <=> upd[v].fd # "none"  BY <2>3, <1>8
    <3>2. QED  BY <2>3, <3>1, <1>8 DEF ListsInv, OpenWhileCopying
  <2>4. QED  BY <2>2, <2>3
<1>14. ASSUME NEW v \in Updaters \ {u}, upd[v].fd # "none", Current(v) = f
       PROVE  f \in shared
  <2>1. upd[u].fd # "none"  BY <1>1 DEF ListsInv, OpenWhileCopying
  <2>2. upd[u].fd \in {"temp", "target", "gone"} /\ upd[v].fd \in {"temp", "target", "gone"}
    BY <2>1, <1>1, <1>14 DEF UpdaterState
  <2>3. CASE upd[u].fd = "temp" /\ upd[v].fd = "temp"
    BY <2>3, <1>3, <1>14 DEF ListsInv, OneWriter, HasTemp
  <2>4. CASE upd[u].fd # "temp"  BY <2>2, <2>4, <1>3 DEF ListsInv, OneWriter
  <2>5. CASE upd[v].fd # "temp"  BY <2>2, <2>5, <1>14 DEF ListsInv, OneWriter
  <2>6. QED  BY <2>3, <2>4, <2>5
<1>15. OneWriter'
  <2>1. ASSUME NEW v \in Updaters, upd'[v].fd \in {"target", "gone"}
        PROVE  Current(v)' \in shared'
    <3>1. v # u  BY <2>1, <1>7, <1>9
    <3>2. CASE upd[v].fd # "none" /\ Current(v) = f  BY <3>1, <3>2, <1>5, <1>11, <1>14
    <3>3. CASE ~(upd[v].fd # "none" /\ Current(v) = f)
      <4>1. upd'[v] = upd[v]  BY <3>1, <3>3, <1>8
      <4>2. QED  BY <2>1, <3>1, <4>1, <1>5, <1>11 DEF ListsInv, OneWriter
    <3>4. QED  BY <3>2, <3>3
  <2>2. ASSUME NEW v \in Updaters, NEW w \in Updaters \ {v},
               upd'[v].fd = "temp", upd'[w].fd = "temp", Current(w)' = Current(v)'
        PROVE  Current(v)' \in shared'
    <3>1. v # u /\ w # u  BY <2>2, <1>7, <1>9
    <3>2. upd'[v] = upd[v] /\ upd'[w] = upd[w]  BY <2>2, <3>1, <1>8
    <3>3. QED  BY <2>2, <3>1, <3>2, <1>5, <1>11 DEF ListsInv, OneWriter, HasTemp
  <2>3. QED  BY <2>1, <2>2 DEF OneWriter, HasTemp
<1>16. RenamesWhole'
  <2>1. SUFFICES ASSUME NEW v \in Updaters, upd'[v].step = "rename", upd'[v].fd = "temp",
                        Current(v)' \in ListFiles \ shared
                 PROVE  temp'[Current(v)'] = {Networks(Current(v), upd[v].staged)'}
    BY <1>5 DEF RenamesWhole, Networks
  <2>2. v # u  BY <2>1, <1>7, <1>9
  <2>3. upd[v].fd = "temp" /\ Current(v) # f /\ upd'[v] = upd[v] /\ Current(v)' = Current(v)
    BY <2>1, <2>2, <1>8, <1>11
  <2>4. temp'[Current(v)] = temp[Current(v)]  BY <2>1, <2>3, <1>1, <1>5
  <2>5. QED  BY <2>1, <2>3, <2>4 DEF ListsInv, RenamesWhole, Networks
<1>17. ListsAreWhole'
  <2>1. SUFFICES ASSUME NEW g \in ListFiles, lists'[g] = Torn, g \notin shared  PROVE FALSE
    BY <1>5 DEF ListsAreWhole, Torn
  <2>2. g = f
    BY <2>1, <1>1, <1>5 DEF ListsInv, ListsAreWhole
  <2>3. upd[u].fd = "temp"
    <3>1. upd[u].fd # "none"  BY <1>1 DEF ListsInv, OpenWhileCopying
    <3>2. upd[u].fd \notin {"target", "gone"}  BY <2>1, <2>2, <1>3 DEF ListsInv, OneWriter
    <3>3. QED  BY <3>1, <3>2, <1>1 DEF UpdaterState
  <2>4. temp[f] = {Networks(f, upd[u].staged)}
    BY <2>1, <2>2, <2>3, <1>1, <1>3 DEF ListsInv, RenamesWhole
  <2>5. content # Torn
    <3>1. upd[u].staged \in Nat  BY <1>1 DEF UpdaterState
    <3>2. QED  BY <2>1, <2>2, <2>4, <3>1, <1>6, NetworksAreWhole
  <2>6. QED  BY <2>1, <2>2, <2>5, <1>1, <1>5
<1>18. QED  BY <1>12, <1>13, <1>15, <1>16, <1>17 DEF ListsInv

-----------------------------------------------------------------------------
(* The invariant, and what follows from it.                                *)

LEMMA ListsInitHolds == Init => ListsInv
<1>. SUFFICES ASSUME Init PROVE ListsInv  OBVIOUS
<1>1. PICK r \in UpdaterState : r = NoUpdate
  <2>1. NoUpdate \in UpdaterState  BY ListsAssumption DEF NoUpdate, UpdaterState
  <2>2. QED  BY <2>1
<1>2. r.fd = "none" /\ r.step = "idle" /\ r.families # <<>>
  BY <1>1, ListsAssumption DEF NoUpdate
<1>3. upd = [u \in Updaters |-> r]  BY <1>1 DEF Init
<1>4. \A f \in ListFiles : lists[f] \in FileContent /\ lists[f] # Torn
  BY NetworksAreWhole DEF Init
<1>5. ListTypes
  <2>1. lists \in [ListFiles -> FileContent]  BY <1>4 DEF Init
  <2>2. temp \in [ListFiles -> SUBSET FileContent]  BY DEF Init
  <2>3. QED  BY <2>1, <2>2, <1>3 DEF ListTypes
<1>6. OpenWhileCopying  BY <1>2, <1>3 DEF OpenWhileCopying
<1>7. OneWriter  BY <1>2, <1>3 DEF OneWriter, HasTemp
<1>8. RenamesWhole  BY <1>2, <1>3 DEF RenamesWhole
<1>9. ListsAreWhole  BY <1>4 DEF ListsAreWhole
<1>10. QED  BY <1>5, <1>6, <1>7, <1>8, <1>9 DEF ListsInv

LEMMA ListsStutterHolds == ASSUME ListsInv, UNCHANGED listVars PROVE ListsInv'
  BY DEF listVars, ListsInv, ListTypes, OpenWhileCopying, OneWriter, HasTemp, Current,
         RenamesWhole, Networks, ListsAreWhole

\* Only the updaters touch the list files.
LEMMA ListsStepHolds == ASSUME ListsInv, Next PROVE ListsInv'
<1>1. CASE \/ TakeEvent \/ HandlerFails
           \/ Update({"Gateway", "FwMark", "RouteTable", "RouteRuleSet"})
           \/ Update({"RouteRuleSet"})
  <2>1. UNCHANGED listVars  BY <1>1 DEF TakeEvent, HandlerFails, Update
  <2>2. QED  BY <2>1, ListsStutterHolds
<1>2. ASSUME NEW p \in Refreshers, ProcessNow(p) \/ RefreshStep(p) \/ Killed(p)
      PROVE  ListsInv'
  <2>1. UNCHANGED listVars
    <3>1. CASE ProcessNow(p) \/ Killed(p)  BY <3>1 DEF ProcessNow, Killed
    <3>2. CASE RefreshStep(p)
      <4>1. CASE LookAtLinks(p) \/ WriteScript(p)  BY <4>1 DEF LookAtLinks, WriteScript
      <4>2. CASE \E t \in DOMAIN config.tables : LoadTable(p, t)  BY <4>2 DEF LoadTable
      <4>3. CASE \E s \in DOMAIN config.ruleSets : FlushRules(p, s)  BY <4>3 DEF FlushRules
      <4>4. CASE AddRules(p)  BY <4>4 DEF AddRules
      <4>5. CASE Finish(p)  BY <4>5 DEF Finish
      <4>6. QED  BY <3>2, <4>1, <4>2, <4>3, <4>4, <4>5 DEF RefreshStep
    <3>3. QED  BY <1>2, <3>1, <3>2
  <2>2. QED  BY <2>1, ListsStutterHolds
<1>3. ASSUME NEW l \in Links, LinkUp(l) \/ PppDown(l) \/ Hook(l) \/ IfDown(l) \/ GoesDown(l)
      PROVE  ListsInv'
  <2>1. UNCHANGED listVars  BY <1>3 DEF LinkUp, PppDown, Hook, IfDown, GoesDown
  <2>2. QED  BY <2>1, ListsStutterHolds
<1>4. ASSUME NEW u \in Updaters, StartDownload(u) \/ UpdaterStep(u) \/ UpdaterKilled(u)
      PROVE  ListsInv'
  BY <1>4, StartDownloadKeepsInv, FetchKeepsInv, OpenTempKeepsInv, CopyKeepsInv,
     RenameKeepsInv, EndsKeepInv DEF UpdaterStep
<1>5. QED  BY <1>1, <1>2, <1>3, <1>4 DEF Next

\* What is known of the list files holds in every state of the services.
ListsHold == part = "routes" => ListsInv

\* Temporary files and renames of gw ip-list update (ip_lists.py), with several updaters at
\* once and kills between any two steps.
THEOREM ListsInvariant == ServicesSpec => []ListsHold
<1>1. Start => ListsHold  BY ListsInitHolds DEF Start, ListsHold
<1>2. ASSUME ListsHold, [\/ OfRoutes(Next) \/ OfDocker(Docker!Next) \/ OfPki(Pki!Next)
                         \/ OfStore(Store!Next) \/ OfOrder(Order!Next)]_all
      PROVE  ListsHold'
  <2>1. SUFFICES ASSUME part' = "routes" PROVE ListsInv'  BY DEF ListsHold
  <2>2. CASE OfRoutes(Next)  BY <2>2, <1>2, ListsStepHolds DEF OfRoutes, ListsHold
  <2>3. CASE OfDocker(Docker!Next)  BY <2>1, <2>3 DEF OfDocker
  <2>4. CASE OfPki(Pki!Next)  BY <2>1, <2>4 DEF OfPki
  <2>5. CASE OfStore(Store!Next)  BY <2>1, <2>5 DEF OfStore
  <2>6. CASE OfOrder(Order!Next)  BY <2>1, <2>6 DEF OfOrder
  <2>7. CASE UNCHANGED all
    BY <2>1, <2>7, <1>2, ListsStutterHolds DEF all, vars, ListsHold
  <2>8. QED  BY <1>2, <2>2, <2>3, <2>4, <2>5, <2>6, <2>7
<1>3. QED  BY <1>1, <1>2, PTL DEF ServicesSpec

\* No reader ever finds a list file cut off, whatever was killed, unless two updaters had
\* its temporary file open at once (ip_lists.py _replace_from_staged).
THEOREM ListsAreNeverTorn == ServicesSpec => []RoutesListsAreWhole
<1>1. ListsHold => RoutesListsAreWhole  BY DEF ListsHold, ListsInv, RoutesListsAreWhole
<1>2. QED  BY <1>1, ListsInvariant, PTL

-----------------------------------------------------------------------------
(* The tables and rules: the inductive invariant.                          *)

JobFields == {"step", "event", "full", "states", "todo", "script", "sets"}

\* A refresher has a list of things to do while it is busy, and a full one starts with
\* everything; one that is not full has no tables to load (Update, TakeEvent).
JobShape(j) ==
    /\ DOMAIN j = JobFields
    /\ j.todo \subseteq DOMAIN config.tables /\ j.sets \subseteq DOMAIN config.ruleSets
    /\ j.step = "idle" => j.todo = {} /\ j.sets = {}
    /\ j.step = "taken" => IF j.full THEN j.todo = DOMAIN config.tables
                                          /\ j.sets = DOMAIN config.ruleSets
                                     ELSE j.todo = {}
    /\ j.step = "flushed" => j.todo = {} /\ j.script[1] \in DOMAIN config.ruleSets

KernelShapes ==
    /\ DOMAIN moving = Links
    /\ \A t \in DOMAIN config.tables : TableId(config, t) \in DOMAIN tables
    /\ \A s \in DOMAIN config.ruleSets : config.ruleSets[s].family \in DOMAIN rules

JobShapes ==
    /\ config \in Configs
    /\ DOMAIN job = Refreshers /\ \A p \in Refreshers : JobShape(job[p])
    /\ KernelShapes

\* Something will make a full refresh look at the links and lists again.
News ==
    \/ pending
    \/ \E l \in Links : moving[l] = "hook"
    \/ job["locked"].step = "taken" /\ job["locked"].full
    \/ \E u \in Updaters : upd[u].wrote

IdleWroteNothing == \A u \in Updaters : upd[u].step = "idle" => ~upd[u].wrote

\* The lines of a table with the links and lists of now.
BatchOfNow(t) == Batch(config, t, up \cup {"lo"}, lists)

TableIsCurrent(t) ==
    /\ FailsAt(BatchOfNow(t), up) = {}
    /\ tables[TableId(config, t)] = Loaded(BatchOfNow(t), up)

\* What a refresher has seen, or written into its script, is still so.
IsFresh(j, t) ==
    /\ j.step = "looked" => j.states = up \cup {"lo"}
    /\ j.step = "loading" => j.script[t] = BatchOfNow(t)

WillLoad(j, t) == j.step \in {"looked", "loading"} /\ t \in j.todo

\* With no news and nothing on record, every table is current or will be loaded, and
\* whatever is loaded is what is wanted now.
TablesInv ==
    lost = {} /\ ~News =>
        /\ \A p \in Refreshers : \A t \in job[p].todo : IsFresh(job[p], t)
        /\ \A t \in DOMAIN config.tables : OwnTable(t) =>
              TableIsCurrent(t) \/ \E p \in Refreshers : WillLoad(job[p], t)

WillAdd(j, s) ==
    \/ j.step \in {"looked", "loading", "flushed"} /\ s \in j.sets
    \/ j.step = "flushed" /\ s = j.script[1]

SetIsThere(s) == SetRules(s) \subseteq rules[config.ruleSets[s].family]

\* No rule comes from nowhere.
RulesAreOurs ==
    \A f \in DOMAIN rules : \A r \in rules[f] : \E s \in DOMAIN config.ruleSets :
        config.ruleSets[s].family = f /\ r \in SetRules(s)

\* With no news and nothing on record, the rules of every set are there or will be added.
RulesInv ==
    lost = {} /\ ~News =>
        \A s \in DOMAIN config.ruleSets : OwnRange(s) =>
            SetIsThere(s) \/ \E p \in Refreshers : WillAdd(job[p], s)

RoutesInv ==
    ListsInv /\ JobShapes /\ IdleWroteNothing /\ TablesInv /\ RulesAreOurs /\ RulesInv

-----------------------------------------------------------------------------
(* What a batch leaves in the table.                                       *)

\* A function over 1..n is a list of n.
LEMMA LengthOfList ==
    ASSUME NEW n \in Nat, NEW list, NEW S, list \in [1..n -> S]
    PROVE  Len(list) = n /\ DOMAIN list = 1..n
<1>1. list \in Seq(S)  BY SeqDef
<1>2. PICK m \in Nat : m = Len(list) /\ DOMAIN list = 1..m  BY <1>1, LenProperties
<1>3. 1..m = 1..n  BY <1>2
<1>4. m = n
  <2>1. CASE m < n
    <3>1. n \in 1..n /\ n \notin 1..m  BY <2>1
    <3>2. QED  BY <3>1, <1>3
  <2>2. CASE n < m
    <3>1. m \in 1..m /\ m \notin 1..n  BY <2>2
    <3>2. QED  BY <3>1, <1>3
  <2>3. QED  BY <2>1, <2>2
<1>5. QED  BY <1>2, <1>4

RoutesOf(t) == config.tables[t].routes

\* The devices of the i-th route of table t.
DevsOf(t, i) ==
    IF RoutesOf(t)[i].type = "route"
    THEN UNION {Devs(config.gateways[g]) : g \in RoutesOf(t)[i].gateway} ELSE {}

\* The lines of the i-th route, with some links up, and with all of them.
LinesOf(t, i, states) == RouteBatch(config, RoutesOf(t)[i], config.tables[t].family, states, lists)

LineKey(r) == <<r.to, r.metric>>

\* A line goes through the devices of its route; a route whose devices are up has the
\* lines it has when all links are up, one with a device down has none.
LEMMA LinesFollowLinks ==
    ASSUME NEW t, NEW i, NEW links
    PROVE  /\ \A r \in LinesOf(t, i, links \cup {"lo"}) : r.devs = DevsOf(t, i)
           /\ DevsOf(t, i) \subseteq links =>
                  LinesOf(t, i, links \cup {"lo"}) = LinesOf(t, i, {})
<1>1. PICK route : route = RoutesOf(t)[i]  OBVIOUS
<1>2. PICK family : family = config.tables[t].family  OBVIOUS
<1>3. PICK devs : devs = DevsOf(t, i)  OBVIOUS
<1>4. PICK found : found = Destinations(route, family, lists)  OBVIOUS
<1>5. CASE route.type = "raw"
  BY <1>1, <1>2, <1>3, <1>5 DEF LinesOf, RouteBatch, DevsOf
<1>6. CASE route.type # "raw"
  <2>1. PICK metric :
           \A states : LinesOf(t, i, states) =
               IF route.type = "route" /\ ~GatewayIsAvailable(devs, states) THEN {}
               ELSE {[to |-> d, metric |-> metric, devs |-> devs] : d \in found}
    <3>. DEFINE gateways == {config.gateways[g] : g \in route.gateway}
                metrics == IF route.type # "route" THEN {}
                           ELSE IF route.metric # {} THEN route.metric
                           ELSE UNION {g.metric : g \in gateways}
                metric == IF metrics = {} THEN 0 ELSE Max(metrics)
                through == IF route.type = "route" THEN UNION {Devs(g) : g \in gateways} ELSE {}
    <3>1. through = devs
      <4>1. UNION {Devs(g) : g \in gateways} =
            UNION {Devs(config.gateways[g]) : g \in route.gateway}
        OBVIOUS
      <4>2. QED  BY <1>1, <1>3, <4>1 DEF DevsOf
    <3>2. ASSUME NEW states
          PROVE  LinesOf(t, i, states) =
                    IF route.type = "route" /\ ~GatewayIsAvailable(through, states) THEN {}
                    ELSE {[to |-> d, metric |-> metric, devs |-> through] : d \in found}
      BY <1>1, <1>2, <1>4, <1>6, Zenon DEF LinesOf, RouteBatch
    <3>. HIDE DEF through, metric
    <3>3. QED  BY <3>1, <3>2
  <2>2. devs \subseteq links => GatewayIsAvailable(devs, links \cup {"lo"})
    BY DEF GatewayIsAvailable
  <2>3. GatewayIsAvailable(devs, {})  BY DEF GatewayIsAvailable
  <2>4. QED  BY <1>3, <2>1, <2>2, <2>3
<1>7. QED  BY <1>5, <1>6

\* The batch of a table, line by line.
LEMMA BatchLines ==
    ASSUME NEW t, Listed(RoutesOf(t))
    PROVE  /\ Len(BatchOfNow(t)) = Len(RoutesOf(t))
           /\ \A i \in 1..Len(RoutesOf(t)) : BatchOfNow(t)[i] = LinesOf(t, i, up \cup {"lo"})
<1>1. PICK n \in Nat : n = Len(RoutesOf(t))  BY DEF Listed
<1>2. BatchOfNow(t) = [i \in 1..n |-> LinesOf(t, i, up \cup {"lo"})]
  BY <1>1 DEF BatchOfNow, Batch, LinesOf, RoutesOf
<1>3. PICK S : S = {LinesOf(t, i, up \cup {"lo"}) : i \in 1..n}  OBVIOUS
<1>4. BatchOfNow(t) \in [1..n -> S]  BY <1>2, <1>3
<1>5. Len(BatchOfNow(t)) = n  BY <1>4, LengthOfList
<1>6. QED  BY <1>1, <1>2, <1>5

\* A batch that runs to its end leaves exactly what Wanted says, line by line with its
\* devices: of two lines for one destination and metric the later one.
LEMMA LoadedIsWanted ==
    ASSUME NEW t, Listed(RoutesOf(t)), FailsAt(BatchOfNow(t), up) = {}
    PROVE  {<<LineKey(r), r.devs>> : r \in Loaded(BatchOfNow(t), up)} =
           {<<w[1], DevsOf(t, w[2])>> : w \in Wanted(t)}
<1>. DEFINE Index == 1..Len(RoutesOf(t))
            Lines(i) == BatchOfNow(t)[i]
            Keys(i) == {LineKey(r) : r \in LinesOf(t, i, {})}
            Usable == {i \in Index : DevsOf(t, i) \subseteq up}
<1>1. Len(RoutesOf(t)) \in Nat /\ Len(BatchOfNow(t)) = Len(RoutesOf(t))
  BY BatchLines DEF Listed
<1>2. \A i \in Index : \A r \in Lines(i) : r.devs = DevsOf(t, i) /\ r.devs \subseteq up
  <2>1. ASSUME NEW i \in Index PROVE \A r \in Lines(i) : r.devs = DevsOf(t, i)
    <3>1. Lines(i) = LinesOf(t, i, up \cup {"lo"})  BY BatchLines
    <3>2. \A r \in LinesOf(t, i, up \cup {"lo"}) : r.devs = DevsOf(t, i)
      BY LinesFollowLinks
    <3>3. QED  BY <3>1, <3>2
  <2>2. \A i \in Index : \A r \in Lines(i) : r.devs \subseteq up
    BY <1>1 DEF FailsAt
  <2>3. QED  BY <2>1, <2>2
<1>3. \A i \in Index \ Usable : Lines(i) = {}  BY <1>2
<1>4. \A i \in Usable : Keys(i) = {LineKey(r) : r \in Lines(i)}
  BY BatchLines, LinesFollowLinks
<1>5. Loaded(BatchOfNow(t), up) =
        UNION {{r \in Lines(i) : \A j \in (i + 1)..Len(RoutesOf(t)) : \A q \in Lines(j) :
                    LineKey(q) # LineKey(r)} : i \in Index}
  BY <1>1 DEF Loaded, LineKey
<1>6. Wanted(t) = {w \in UNION {Keys(i) \X {i} : i \in Usable} :
                      \A j \in Usable : w[1] \in Keys(j) => j <= w[2]}
  <2>1. Usable = {i \in Index : RoutesOf(t)[i].type = "route" =>
                    UNION {Devs(config.gateways[g]) : g \in RoutesOf(t)[i].gateway} \subseteq up}
    BY DEF DevsOf
  <2>2. QED  BY <2>1 DEF Wanted, RoutesOf, LinesOf, LineKey
<1>. HIDE DEF Index, Lines, Keys, Usable
<1>7. ASSUME NEW r \in Loaded(BatchOfNow(t), up)
      PROVE  \E w \in Wanted(t) : <<LineKey(r), r.devs>> = <<w[1], DevsOf(t, w[2])>>
  <2>1. PICK i \in Index :
           /\ r \in Lines(i)
           /\ \A j \in (i + 1)..Len(RoutesOf(t)) : \A q \in Lines(j) : LineKey(q) # LineKey(r)
    BY <1>5, <1>7
  <2>2. i \in Usable /\ LineKey(r) \in Keys(i) /\ r.devs = DevsOf(t, i)
    BY <2>1, <1>2, <1>3, <1>4
  <2>3. ASSUME NEW j \in Usable, LineKey(r) \in Keys(j) PROVE j <= i
    <3>1. PICK q \in Lines(j) : LineKey(q) = LineKey(r)  BY <2>3, <1>4
    <3>2. i \in 1..Len(RoutesOf(t)) /\ j \in 1..Len(RoutesOf(t))  BY DEF Index, Usable
    <3>3. QED  BY <2>1, <3>1, <3>2, <1>1
  <2>4. <<LineKey(r), i>> \in Wanted(t)  BY <2>2, <2>3, <1>6
  <2>5. QED  BY <2>2, <2>4
<1>8. ASSUME NEW w \in Wanted(t)
      PROVE  \E r \in Loaded(BatchOfNow(t), up) :
                <<w[1], DevsOf(t, w[2])>> = <<LineKey(r), r.devs>>
  <2>1. PICK i \in Usable : w \in Keys(i) \X {i}  BY <1>6
  <2>2. w[1] \in Keys(i) /\ w[2] = i  BY <2>1
  <2>3. PICK r \in Lines(i) : LineKey(r) = w[1]  BY <2>2, <1>4
  <2>4. i \in Index  BY DEF Usable
  <2>5. ASSUME NEW j \in (i + 1)..Len(RoutesOf(t)), NEW q \in Lines(j), LineKey(q) = LineKey(r)
        PROVE  FALSE
    <3>1. j \in Index /\ j > i  BY <2>4, <1>1 DEF Index
    <3>2. j \in Usable  BY <3>1, <1>3
    <3>3. LineKey(q) \in Keys(j)  BY <3>2, <1>4
    <3>4. j <= w[2]  BY <3>2, <3>3, <2>3, <2>5, <1>6
    <3>5. i \in Nat /\ j \in Nat  BY <2>4, <3>1, <1>1 DEF Index
    <3>6. QED  BY <3>1, <3>4, <3>5, <2>2
  <2>6. r \in Loaded(BatchOfNow(t), up)  BY <2>4, <2>5, <1>5
  <2>7. QED  BY <2>2, <2>3, <2>4, <2>6, <1>2
<1>9. QED  BY <1>7, <1>8

-----------------------------------------------------------------------------
(* The tables and rules: the steps.                                        *)

LEMMA RoutesInitHolds == ASSUME Init PROVE RoutesInv
<1>1. ListsInv  BY ListsInitHolds
<1>2. lost # {}  BY DEF Init
<1>3. TablesInv /\ RulesInv  BY <1>2 DEF TablesInv, RulesInv
<1>4. RulesAreOurs
  <2>1. \A f \in DOMAIN rules : rules[f] = {}  BY DEF Init
  <2>2. QED  BY <2>1 DEF RulesAreOurs
<1>5. IdleWroteNothing
  <2>1. \A u \in Updaters : upd[u].wrote = FALSE  BY DEF Init, NoUpdate
  <2>2. QED  BY <2>1 DEF IdleWroteNothing
<1>6. JobShapes
  <2>1. config \in Configs  BY DEF Init
  <2>2. DOMAIN job = Refreshers /\ \A p \in Refreshers : job[p] = Idle  BY DEF Init
  <2>3. JobShape(Idle)  BY DEF JobShape, Idle, JobFields
  <2>4. KernelShapes
    <3>1. /\ DOMAIN tables = TableIds /\ DOMAIN rules = {"ipv4", "ipv6"}
          /\ DOMAIN moving = Links
      BY DEF Init
    <3>2. \A t \in DOMAIN config.tables : TableId(config, t) \in TableIds
      BY <2>1 DEF TableIds
    <3>3. \A s \in DOMAIN config.ruleSets : config.ruleSets[s].family \in {"ipv4", "ipv6"}
      BY <2>1, ConfigsAssumption
    <3>4. QED  BY <3>1, <3>2, <3>3 DEF KernelShapes
  <2>5. QED  BY <2>1, <2>2, <2>3, <2>4 DEF JobShapes
<1>7. QED  BY <1>1, <1>3, <1>4, <1>5, <1>6 DEF RoutesInv

\* A step that leaves the refreshers and the rules alone: what it does to links, tables
\* and lists is news or goes on record.
LEMMA OutsideKeepsInv ==
    ASSUME RoutesInv, ListsInv', UNCHANGED <<config, job, rules>>, DOMAIN tables' = DOMAIN tables,
           DOMAIN moving' = DOMAIN moving, IdleWroteNothing',
           (lost = {} /\ ~News)' => lost = {} /\ ~News /\ UNCHANGED <<up, lists, tables>>
    PROVE  RoutesInv'
<1>1. JobShapes'  BY DEF RoutesInv, JobShapes, JobShape, KernelShapes
<1>2. RulesAreOurs'  BY DEF RoutesInv, RulesAreOurs, SetRules
<1>3. CASE ~(lost = {} /\ ~News)'
  <2>1. TablesInv' /\ RulesInv'  BY <1>3 DEF TablesInv, RulesInv
  <2>2. QED  BY <1>1, <1>2, <2>1 DEF RoutesInv
<1>4. CASE (lost = {} /\ ~News)'
  <2>1. lost = {} /\ ~News /\ UNCHANGED <<config, job, rules, up, lists, tables>>  BY <1>4
  <2>2. TablesInv'
    <3>1. \A s : BatchOfNow(s)' = BatchOfNow(s)  BY <2>1 DEF BatchOfNow
    <3>2. \A p, s : IsFresh(job[p], s) => IsFresh(job[p], s)'
      BY <2>1, <3>1 DEF IsFresh
    <3>3. \A s : TableIsCurrent(s) => TableIsCurrent(s)'
      BY <2>1, <3>1 DEF TableIsCurrent
    <3>4. \A s : OwnTable(s)' = OwnTable(s)  BY <2>1 DEF OwnTable
    <3>5. \A p, s : WillLoad(job[p], s)' = WillLoad(job[p], s)  BY <2>1 DEF WillLoad
    <3>6. TablesInv  BY DEF RoutesInv
    <3>7. QED  BY <2>1, <3>2, <3>3, <3>4, <3>5, <3>6 DEF TablesInv
  <2>3. RulesInv'  BY <2>1 DEF RoutesInv, RulesInv, WillAdd, OwnRange, SetIsThere, SetRules
  <2>4. QED  BY <1>1, <1>2, <2>2, <2>3 DEF RoutesInv
<1>5. QED  BY <1>3, <1>4

\* A list that a running updater has replaced is news until the updater ends.
LEMMA UpdaterKeepsNews ==
    ASSUME RoutesInv, ListsInv', NEW u \in Updaters, NEW wrote \in BOOLEAN,
           UNCHANGED <<config, linkVars, pending, job, kernelVars>>,
           lost \subseteq lost',
           \A v \in Updaters : upd'[v].wrote = IF v = u THEN wrote ELSE upd[v].wrote,
           \A v \in Updaters \ {u} : upd'[v].step = upd[v].step,
           upd'[u].step = "idle" => ~wrote,
           upd[u].wrote => wrote \/ lost' # {},
           lists' = lists \/ wrote
    PROVE  RoutesInv'
<1>1. /\ UNCHANGED <<config, job, rules, tables, up, moving>>
      /\ DOMAIN tables' = DOMAIN tables /\ DOMAIN moving' = DOMAIN moving
  BY DEF linkVars, kernelVars
<1>2. IdleWroteNothing'  BY DEF RoutesInv, IdleWroteNothing
<1>3. ASSUME (lost = {} /\ ~News)'
      PROVE  lost = {} /\ ~News /\ UNCHANGED <<up, lists, tables>>
  <2>1. lost = {} /\ ~wrote  BY <1>3 DEF News
  <2>2. \A v \in Updaters : ~upd[v].wrote  BY <1>3, <2>1 DEF News
  <2>3. ~News  BY <1>3, <2>2 DEF News, linkVars
  <2>4. QED  BY <1>1, <2>1, <2>3
<1>4. QED  BY <1>1, <1>2, <1>3, OutsideKeepsInv

\* What gw ip-list update does.
LEMMA UpdaterKeepsInv ==
    ASSUME RoutesInv, ListsInv', NEW u \in Updaters,
           StartDownload(u) \/ UpdaterStep(u) \/ UpdaterKilled(u)
    PROVE  RoutesInv'
<1>1. /\ upd \in [Updaters -> UpdaterState] /\ upd[u] \in UpdaterState
      /\ upd[u].wrote \in BOOLEAN
  BY DEF RoutesInv, ListsInv, ListTypes, UpdaterState
<1>2. PICK before \in UpdaterState : before = upd[u]  BY <1>1
<1>3. upd[u].step = "idle" => ~upd[u].wrote  BY DEF RoutesInv, IdleWroteNothing
<1>4. CASE StartDownload(u)
  <2>1. UNCHANGED <<config, linkVars, pending, job, kernelVars, lists, lost>>
        /\ upd[u].step = "idle"
    BY <1>4 DEF StartDownload
  <2>2. PICK chosen \in {Sources, <<Sources[1]>>} :
           upd' = [upd EXCEPT ![u] = [NoUpdate EXCEPT !.step = "fetch", !.names = chosen]]
    BY <1>4 DEF StartDownload
  <2>3. upd'[u].wrote = FALSE /\ \A v \in Updaters \ {u} : upd'[v] = upd[v]
    BY <1>1, <2>2 DEF NoUpdate
  <2>4. QED  BY <1>3, <2>1, <2>3, UpdaterKeepsNews
<1>5. CASE Fetch(u)
  <2>1. UNCHANGED <<config, linkVars, pending, job, kernelVars, lists, lost>>  BY <1>5 DEF Fetch
  <2>2. /\ upd'[u].wrote = upd[u].wrote /\ upd'[u].step # "idle"
        /\ \A v \in Updaters \ {u} : upd'[v] = upd[v]
    <3>1. CASE \E v \in 1..MaxVersion : upd' = [upd EXCEPT ![u].step = "stage", ![u].staged = v]
      BY <1>1, <3>1 DEF UpdaterState
    <3>2. CASE upd' = [upd EXCEPT ![u].failed = TRUE, ![u].names = Tail(@)]
      BY <1>1, <1>5, <3>2 DEF UpdaterState, Fetch
    <3>3. QED  BY <1>5, <3>1, <3>2 DEF Fetch
  <2>3. QED  BY <1>1, <2>1, <2>2, UpdaterKeepsNews
<1>6. CASE OpenTemp(u)
  <2>1. UNCHANGED <<config, linkVars, pending, job, kernelVars, lists, lost>>
    BY <1>6 DEF OpenTemp
  <2>2. upd' = [upd EXCEPT ![u].step = "copy", ![u].fd = "temp"]  BY <1>6 DEF OpenTemp
  <2>3. /\ upd'[u].wrote = upd[u].wrote /\ upd'[u].step # "idle"
        /\ \A v \in Updaters \ {u} : upd'[v] = upd[v]
    BY <1>1, <2>2 DEF UpdaterState
  <2>4. QED  BY <1>1, <2>1, <2>3, UpdaterKeepsNews
<1>7. CASE Copy(u)
  <2>1. UNCHANGED <<config, linkVars, pending, job, kernelVars, lost>>  BY <1>7 DEF Copy
  <2>2. PICK wrote \in BOOLEAN : wrote = (upd[u].wrote \/ upd[u].fd = "target")  OBVIOUS
  <2>3. upd' = [upd EXCEPT ![u].step = "rename", ![u].wrote = wrote]  BY <1>7, <2>2 DEF Copy
  <2>4. /\ upd'[u].wrote = wrote /\ upd'[u].step # "idle"
        /\ \A v \in Updaters \ {u} : upd'[v] = upd[v]
    BY <1>1, <2>3 DEF UpdaterState
  <2>5. lists' = lists \/ wrote
    <3>1. upd[u].fd # "target" => lists' = lists  BY <1>7 DEF Copy
    <3>2. QED  BY <2>2, <3>1
  <2>6. QED  BY <2>1, <2>2, <2>4, <2>5, UpdaterKeepsNews
<1>8. CASE Rename(u)
  <2>1. UNCHANGED <<config, linkVars, pending, job, kernelVars, lost>>  BY <1>8 DEF Rename
  <2>2. PICK f : f = Current(u)  OBVIOUS
  <2>3. upd' = [v \in Updaters |->
                  IF v = u THEN NextFile([upd[u] EXCEPT !.wrote = TRUE])
                  ELSE IF upd[v].step \in {"copy", "rename"} /\ Current(v) = f
                  THEN [upd[v] EXCEPT !.fd = IF @ = "temp" THEN "target" ELSE "gone"]
                  ELSE upd[v]]
    BY <1>8, <2>2 DEF Rename
  <2>4. upd'[u].wrote = TRUE /\ upd'[u].step # "idle"
    <3>1. PICK j \in UpdaterState : j = [before EXCEPT !.wrote = TRUE]
      <4>1. [before EXCEPT !.wrote = TRUE] \in UpdaterState  BY DEF UpdaterState
      <4>2. QED  BY <4>1
    <3>2. j.wrote = TRUE  BY <3>1 DEF UpdaterState
    <3>3. NextFile(j).wrote = TRUE /\ NextFile(j).step \in {"stage", "fetch"}
      BY <3>2 DEF NextFile, NoUpdate, UpdaterState
    <3>4. upd'[u] = NextFile(j)  BY <1>2, <2>3, <3>1
    <3>5. QED  BY <3>3, <3>4
  <2>5. ASSUME NEW v \in Updaters \ {u}
        PROVE  upd'[v].wrote = upd[v].wrote /\ upd'[v].step = upd[v].step
    <3>1. PICK other \in UpdaterState : other = upd[v]  BY <1>1
    <3>2. upd'[v] = other \/ \E fd : upd'[v] = [other EXCEPT !.fd = fd]  BY <2>3, <3>1
    <3>3. QED  BY <3>1, <3>2 DEF UpdaterState
  <2>6. QED  BY <2>1, <2>4, <2>5, UpdaterKeepsNews
<1>9. CASE RenameFails(u) \/ UpdaterKilled(u) \/ (EndUpdate(u) /\ upd[u].failed)
  <2>1. UNCHANGED <<config, linkVars, pending, job, kernelVars, lists>> /\ GivesUp(u)
    BY <1>9 DEF RenameFails, UpdaterKilled, EndUpdate
  <2>2. /\ upd'[u].wrote = FALSE /\ \A v \in Updaters \ {u} : upd'[v] = upd[v]
        /\ lost \subseteq lost' /\ (upd[u].wrote => lost' # {})
    BY <1>1, <2>1 DEF GivesUp, NoUpdate
  <2>3. QED  BY <2>1, <2>2, UpdaterKeepsNews
<1>10. CASE EndUpdate(u) /\ ~upd[u].failed
  <2>1. pending' = TRUE /\ UNCHANGED <<config, linkVars, job, kernelVars, lists, lost>>
        /\ upd' = [upd EXCEPT ![u] = NoUpdate]
    BY <1>10 DEF EndUpdate
  <2>2. News'  BY <2>1 DEF News
  <2>3. IdleWroteNothing'  BY <1>1, <2>1 DEF RoutesInv, IdleWroteNothing, NoUpdate
  <2>4. UNCHANGED <<rules, tables, moving>>  BY <2>1 DEF kernelVars, linkVars
  <2>5. QED  BY <2>1, <2>2, <2>3, <2>4, OutsideKeepsInv
<1>11. QED  BY <1>4, <1>5, <1>6, <1>7, <1>8, <1>9, <1>10 DEF UpdaterStep

\* Links go up and down and their hooks run.
LEMMA LinkKeepsInv ==
    ASSUME RoutesInv, ListsInv', NEW l \in Links,
           LinkUp(l) \/ PppDown(l) \/ Hook(l) \/ IfDown(l) \/ GoesDown(l)
    PROVE  RoutesInv'
<1>1. UNCHANGED <<config, job, rules, upd>>
  BY DEF LinkUp, PppDown, Hook, IfDown, GoesDown, kernelVars, listVars
<1>2. DOMAIN tables' = DOMAIN tables /\ DOMAIN moving' = DOMAIN moving
  BY DEF LinkUp, PppDown, Hook, IfDown, GoesDown, kernelVars
<1>3. IdleWroteNothing'  BY <1>1 DEF RoutesInv, IdleWroteNothing
<1>4. News' \/ lost' # {}
  <2>1. CASE Hook(l) \/ IfDown(l)
    <3>1. pending' = TRUE  BY <2>1 DEF Hook, IfDown
    <3>2. QED  BY <3>1 DEF News
  <2>2. CASE LinkUp(l) \/ PppDown(l)
    <3>1. moving' = [moving EXCEPT ![l] = "hook"] /\ moving[l] = "no"
      BY <2>2 DEF LinkUp, PppDown
    <3>2. l \in DOMAIN moving
      BY <3>1 DEF RoutesInv, JobShapes, KernelShapes
    <3>3. moving'[l] = "hook"  BY <3>1, <3>2
    <3>4. QED  BY <3>3 DEF News
  <2>3. CASE GoesDown(l)
    <3>1. \/ pending' \/ (job["locked"].step = "taken" /\ job["locked"].full)'
          \/ lost' # {}
      BY <2>3 DEF GoesDown
    <3>2. QED  BY <3>1 DEF News
  <2>4. QED  BY <2>1, <2>2, <2>3
<1>5. QED  BY <1>1, <1>2, <1>3, <1>4, OutsideKeepsInv

\* A step of one refresher, p: the shapes of the others stay.
LEMMA OneRefresherMoves ==
    ASSUME RoutesInv, NEW p \in Refreshers, UNCHANGED <<config, moving>>,
           DOMAIN tables' = DOMAIN tables, DOMAIN rules' = DOMAIN rules,
           DOMAIN job' = Refreshers, \A q \in Refreshers \ {p} : job'[q] = job[q],
           JobShape(job'[p])
    PROVE  JobShapes'
<1>1. \A q \in Refreshers : JobShape(job'[q])  BY DEF RoutesInv, JobShapes
<1>2. \A q \in Refreshers : JobShape(job[q])'  BY <1>1 DEF JobShape
<1>3. QED  BY <1>2 DEF RoutesInv, JobShapes, KernelShapes

\* With news or something on record nothing is asked of tables and rules.
LEMMA OnRecordKeepsInv ==
    ASSUME RoutesInv, ListsInv', JobShapes', UNCHANGED upd, RulesAreOurs', News' \/ lost' # {}
    PROVE  RoutesInv'
<1>1. TablesInv' /\ RulesInv'  BY DEF TablesInv, RulesInv
<1>2. IdleWroteNothing'  BY DEF RoutesInv, IdleWroteNothing
<1>3. QED  BY <1>1, <1>2 DEF RoutesInv

LEMMA OursAreKept == ASSUME RoutesInv, UNCHANGED <<config, rules>> PROVE RulesAreOurs'
  BY DEF RoutesInv, RulesAreOurs, SetRules

LEMMA IdleShape == JobShape(Idle)
  BY DEF JobShape, Idle, JobFields

\* A refresher that has nothing more to do, or that stops and leaves word.
LEMMA StopKeepsInv ==
    ASSUME RoutesInv, ListsInv', NEW p \in Refreshers, job' = [job EXCEPT ![p] = Idle],
           UNCHANGED <<config, moving, upd>>, DOMAIN tables' = DOMAIN tables,
           DOMAIN rules' = DOMAIN rules, RulesAreOurs', News' \/ lost' # {}
    PROVE  RoutesInv'
<1>1. DOMAIN job = Refreshers  BY DEF RoutesInv, JobShapes
<1>2. DOMAIN job' = Refreshers /\ job'[p] = Idle /\ \A q \in Refreshers \ {p} : job'[q] = job[q]
  BY <1>1
<1>3. JobShapes'  BY <1>2, IdleShape, OneRefresherMoves
<1>4. QED  BY <1>3, OnRecordKeepsInv

\* Handlers that raise before this one, and processes that are killed.
LEMMA CutKeepsInv ==
    ASSUME RoutesInv, ListsInv', NEW p \in Refreshers, HandlerFails \/ Killed(p)
    PROVE  RoutesInv'
<1>1. UNCHANGED <<config, moving, upd, tables, rules>>
  BY DEF HandlerFails, Killed, linkVars, kernelVars, listVars
<1>2. RulesAreOurs'  BY <1>1, OursAreKept
<1>3. CASE HandlerFails
  <2>1. "locked" \in Refreshers  BY DEF Refreshers
  <2>2. job' = [job EXCEPT !["locked"] = Idle] /\ lost' # {}  BY <1>3 DEF HandlerFails
  <2>3. QED  BY <1>1, <1>2, <2>1, <2>2, StopKeepsInv
<1>4. CASE Killed(p)
  <2>1. job' = [job EXCEPT ![p] = Idle] /\ (pending' \/ lost' # {})  BY <1>4 DEF Killed
  <2>2. News' \/ lost' # {}  BY <2>1 DEF News
  <2>3. QED  BY <1>1, <1>2, <2>1, <2>2, StopKeepsInv
<1>5. QED  BY <1>3, <1>4

\* A refresher starts: the event is taken, a command is given.
LEMMA BeginKeepsInv ==
    ASSUME RoutesInv, ListsInv', NEW p \in Refreshers, NEW j, job[p].step = "idle",
           job' = [job EXCEPT ![p] = j], JobShape(j), j.step = "taken",
           UNCHANGED <<config, linkVars, kernelVars, pending, upd, lists, lost>>
    PROVE  RoutesInv'
<1>1. /\ DOMAIN job' = Refreshers /\ job'[p] = j
      /\ \A q \in Refreshers \ {p} : job'[q] = job[q]
  BY DEF RoutesInv, JobShapes
<1>2. UNCHANGED <<up, moving, tables, rules>>  BY DEF linkVars, kernelVars
<1>3. JobShapes'  BY <1>1, <1>2, OneRefresherMoves
<1>4. RulesAreOurs' /\ IdleWroteNothing'
  BY <1>2, OursAreKept DEF RoutesInv, IdleWroteNothing
<1>5. CASE News' \/ lost' # {}  BY <1>3, <1>4, <1>5, OnRecordKeepsInv
<1>6. CASE ~News' /\ lost' = {}
  <2>1. ~News
    <3>1. ~(p = "locked" /\ j.full)
      BY <1>1, <1>6 DEF News
    <3>2. job["locked"].step = "taken" /\ job["locked"].full =>
             job'["locked"].step = "taken" /\ job'["locked"].full
      BY <1>1 DEF Refreshers
    <3>3. QED  BY <3>1, <3>2, <1>2, <1>6 DEF News
  <2>2. \A q \in Refreshers : \A t : WillLoad(job[q], t) => q # p  BY DEF WillLoad
  <2>3. \A q \in Refreshers : \A s : WillAdd(job[q], s) => q # p  BY DEF WillAdd
  <2>4. TablesInv'
    <3>1. /\ \A q \in Refreshers : \A t \in job[q].todo : IsFresh(job[q], t)
          /\ \A t \in DOMAIN config.tables : OwnTable(t) =>
                TableIsCurrent(t) \/ \E q \in Refreshers : WillLoad(job[q], t)
      BY <2>1, <1>6 DEF RoutesInv, TablesInv
    <3>2. \A q \in Refreshers : \A t \in job'[q].todo : IsFresh(job[q], t)'
      <4>1. \A t : IsFresh(job[p], t)'  BY <1>1 DEF IsFresh
      <4>2. \A q \in Refreshers \ {p} : \A t : IsFresh(job[q], t) => IsFresh(job[q], t)'
        BY <1>1, <1>2 DEF IsFresh, BatchOfNow
      <4>3. QED  BY <1>1, <3>1, <4>1, <4>2
    <3>3. \A t : TableIsCurrent(t)' = TableIsCurrent(t) /\ OwnTable(t)' = OwnTable(t)
      BY <1>2 DEF TableIsCurrent, BatchOfNow, OwnTable
    <3>4. \A q \in Refreshers \ {p} : \A t : WillLoad(job[q], t)' = WillLoad(job[q], t)
      BY <1>1 DEF WillLoad
    <3>5. QED  BY <2>2, <3>1, <3>2, <3>3, <3>4 DEF TablesInv
  <2>5. RulesInv'
    <3>1. \A s \in DOMAIN config.ruleSets : OwnRange(s) =>
            SetIsThere(s) \/ \E q \in Refreshers : WillAdd(job[q], s)
      BY <2>1, <1>6 DEF RoutesInv, RulesInv
    <3>2. \A s : SetIsThere(s)' = SetIsThere(s) /\ OwnRange(s)' = OwnRange(s)
      BY <1>2 DEF SetIsThere, SetRules, OwnRange
    <3>3. \A q \in Refreshers \ {p} : \A s : WillAdd(job[q], s)' = WillAdd(job[q], s)
      BY <1>1 DEF WillAdd
    <3>4. QED  BY <2>3, <3>1, <3>2, <3>3 DEF RulesInv
  <2>6. QED  BY <1>3, <1>4, <2>4, <2>5 DEF RoutesInv
<1>7. QED  BY <1>5, <1>6

LEMMA CommandKeepsInv ==
    ASSUME RoutesInv, ListsInv', NEW p \in Refreshers,
           \/ TakeEvent \/ ProcessNow(p)
           \/ Update({"Gateway", "FwMark", "RouteTable", "RouteRuleSet"})
           \/ Update({"RouteRuleSet"})
    PROVE  RoutesInv'
<1>1. UNCHANGED <<config, linkVars, kernelVars, upd, lists, lost>>
  BY DEF TakeEvent, ProcessNow, Update, listVars
<1>2. PICK T : T = DOMAIN config.tables  OBVIOUS
<1>3. PICK S : S = DOMAIN config.ruleSets  OBVIOUS
<1>4. "locked" \in Refreshers  BY DEF Refreshers
<1>5. CASE TakeEvent
  <2>1. PICK j : j = [Idle EXCEPT !.step = "taken", !.event = TRUE, !.full = TRUE,
                                  !.todo = T, !.sets = S]
    OBVIOUS
  <2>2. JobShape(j) /\ j.step = "taken" /\ j.full
    BY <1>2, <1>3, <2>1 DEF Idle, JobShape, JobFields
  <2>3. /\ job["locked"].step = "idle" /\ pending /\ pending' = FALSE
        /\ job' = [job EXCEPT !["locked"] = j]
    BY <1>5, <1>2, <1>3, <2>1 DEF TakeEvent
  <2>4. JobShapes'
    <3>1. /\ DOMAIN job' = Refreshers /\ job'["locked"] = j
          /\ \A q \in Refreshers \ {"locked"} : job'[q] = job[q]
      BY <1>4, <2>3 DEF RoutesInv, JobShapes
    <3>2. UNCHANGED <<moving, tables, rules>>  BY <1>1 DEF linkVars, kernelVars
    <3>3. QED  BY <1>1, <1>4, <2>2, <3>1, <3>2, OneRefresherMoves
  <2>5. News'
    <3>1. job'["locked"] = j  BY <1>4, <2>3 DEF RoutesInv, JobShapes
    <3>2. QED  BY <2>2, <3>1 DEF News
  <2>6. RulesAreOurs'  BY <1>1, OursAreKept DEF kernelVars
  <2>7. QED  BY <1>1, <2>4, <2>5, <2>6, OnRecordKeepsInv
<1>6. CASE ProcessNow(p)
  <2>1. PICK j : j = [Idle EXCEPT !.step = "taken", !.full = TRUE, !.todo = T, !.sets = S]
    OBVIOUS
  <2>2. JobShape(j) /\ j.step = "taken" /\ j.full
    BY <1>2, <1>3, <2>1 DEF Idle, JobShape, JobFields
  <2>3. job[p].step = "idle" /\ job' = [job EXCEPT ![p] = j] /\ pending' = pending
    BY <1>6, <1>2, <1>3, <2>1 DEF ProcessNow
  <2>4. QED  BY <1>1, <2>2, <2>3, BeginKeepsInv
<1>7. ASSUME NEW kinds \in {{"Gateway", "FwMark", "RouteTable", "RouteRuleSet"},
                            {"RouteRuleSet"}},
             Update(kinds)
      PROVE  RoutesInv'
  <2>1. PICK every \in BOOLEAN : every = (kinds \cap {"Gateway", "RouteTable"} # {})  OBVIOUS
  <2>2. kinds \cap {"FwMark", "RouteRuleSet"} # {}  OBVIOUS
  <2>3. PICK j : j = [Idle EXCEPT !.step = "taken", !.full = every,
                                  !.todo = IF every THEN T ELSE {}, !.sets = S]
    OBVIOUS
  <2>4. JobShape(j) /\ j.step = "taken" /\ j.full = every
    BY <1>2, <1>3, <2>3 DEF Idle, JobShape, JobFields
  <2>5. /\ job["locked"].step = "idle" /\ pending' = pending
        /\ job' = [job EXCEPT !["locked"] = j]
    BY <1>7, <1>2, <1>3, <2>1, <2>2, <2>3 DEF Update
  <2>6. QED  BY <1>1, <1>4, <2>4, <2>5, BeginKeepsInv
<1>8. QED  BY <1>5, <1>6, <1>7

\* A refresher at work, before and after its step: what is news stays news.
LEMMA WorkIsNoNews ==
    ASSUME RoutesInv, NEW p \in Refreshers, DOMAIN job' = Refreshers,
           \A q \in Refreshers \ {p} : job'[q] = job[q],
           job[p].step # "taken", job'[p].step # "taken", UNCHANGED <<pending, moving, upd>>
    PROVE  News' = News
<1>1. (job["locked"].step = "taken" /\ job["locked"].full)'
      = (job["locked"].step = "taken" /\ job["locked"].full)
  BY DEF Refreshers
<1>2. QED  BY <1>1 DEF News

\* _gateway_runtime_states: a refresher that runs alone has seen everything there is.
LEMMA LookKeepsInv ==
    ASSUME RoutesInv, ListsInv', NEW p \in Refreshers, LookAtLinks(p)
    PROVE  RoutesInv'
<1>1. PICK j : j = job[p]  OBVIOUS
<1>2. JobShape(j) /\ j.step = "taken" /\ DOMAIN job = Refreshers
  BY <1>1 DEF RoutesInv, JobShapes, LookAtLinks
<1>3. /\ job' = [job EXCEPT ![p].step = "looked", ![p].states = up \cup {"lo"}]
      /\ UNCHANGED <<config, up, moving, tables, rules, pending, upd, lists>>
  BY DEF LookAtLinks, linkVars, kernelVars, listVars
<1>4. /\ DOMAIN job' = Refreshers /\ \A q \in Refreshers \ {p} : job'[q] = job[q]
      /\ job'[p] = [j EXCEPT !.step = "looked", !.states = up \cup {"lo"}]
  BY <1>1, <1>2, <1>3
<1>5. /\ DOMAIN job'[p] = JobFields /\ job'[p].step = "looked"
      /\ job'[p].states = up \cup {"lo"}
      /\ job'[p].todo = j.todo /\ job'[p].sets = j.sets
  BY <1>2, <1>4 DEF JobShape, JobFields
<1>6. JobShapes'
  <2>1. JobShape(job'[p])  BY <1>2, <1>5 DEF JobShape
  <2>2. QED  BY <1>3, <1>4, <2>1, OneRefresherMoves
<1>7. RulesAreOurs' /\ IdleWroteNothing'
  BY <1>3, OursAreKept DEF RoutesInv, IdleWroteNothing
<1>8. CASE News' \/ lost' # {}  BY <1>3, <1>6, <1>7, <1>8, OnRecordKeepsInv
<1>9. CASE ~News' /\ lost' = {}
  <2>1. /\ \A q \in Refreshers \ {p} : job[q].step = "idle"
        /\ job[p].full \/ lost = {}
    BY <1>9 DEF LookAtLinks
  <2>2. \A q \in Refreshers \ {p} : job'[q].todo = {} /\ job'[q].sets = {}
    BY <2>1, <1>4 DEF RoutesInv, JobShapes, JobShape
  <2>3. \A t : IsFresh(job[p], t)'  BY <1>3, <1>5 DEF IsFresh
  <2>4. \A q \in Refreshers : \A t \in job'[q].todo : IsFresh(job[q], t)'
    BY <2>2, <2>3
  <2>5. CASE j.full
    <3>1. j.todo = DOMAIN config.tables /\ j.sets = DOMAIN config.ruleSets
      BY <1>2, <2>5 DEF JobShape
    <3>2. \A t \in DOMAIN config.tables : WillLoad(job[p], t)'
      BY <3>1, <1>3, <1>5 DEF WillLoad
    <3>3. \A s \in DOMAIN config.ruleSets : WillAdd(job[p], s)'
      BY <3>1, <1>3, <1>5 DEF WillAdd
    <3>4. TablesInv'  BY <2>4, <3>2, <1>3 DEF TablesInv
    <3>5. RulesInv'  BY <3>3, <1>3 DEF RulesInv
    <3>6. QED  BY <1>6, <1>7, <3>4, <3>5 DEF RoutesInv
  <2>6. CASE ~j.full
    <3>1. ~News
      <4>1. p = "locked" => ~(job["locked"].step = "taken" /\ job["locked"].full)
        BY <1>1, <2>6
      <4>2. p # "locked" => job'["locked"] = job["locked"]  BY <1>4 DEF Refreshers
      <4>3. QED  BY <4>1, <4>2, <1>3, <1>9 DEF News
    <3>2. \A q \in Refreshers :
             (\A t : ~WillLoad(job[q], t)) /\ (\A s : ~WillAdd(job[q], s))
      BY <2>1, <1>1, <1>2 DEF WillLoad, WillAdd
    <3>3. lost = {}  BY <2>1, <2>6, <1>1
    <3>4. \A t \in DOMAIN config.tables : OwnTable(t) => TableIsCurrent(t)
      BY <3>1, <3>2, <3>3 DEF RoutesInv, TablesInv
    <3>5. \A s \in DOMAIN config.ruleSets : OwnRange(s) => SetIsThere(s)
      BY <3>1, <3>2, <3>3 DEF RoutesInv, RulesInv
    <3>6. \A t : OwnTable(t)' = OwnTable(t) /\ TableIsCurrent(t)' = TableIsCurrent(t)
      BY <1>3 DEF OwnTable, TableIsCurrent, BatchOfNow
    <3>7. \A s : OwnRange(s)' = OwnRange(s) /\ SetIsThere(s)' = SetIsThere(s)
      BY <1>3 DEF OwnRange, SetIsThere, SetRules
    <3>8. TablesInv'  BY <2>4, <3>4, <3>6, <1>3 DEF TablesInv
    <3>9. RulesInv'  BY <3>5, <3>7, <1>3 DEF RulesInv
    <3>10. QED  BY <1>6, <1>7, <3>8, <3>9 DEF RoutesInv
  <2>7. QED  BY <2>5, <2>6, <1>1
<1>10. QED  BY <1>8, <1>9

\* What a refresher at work owes: that it loads what is wanted now, and that no table and
\* no rule set that was current, or was going to be, is left behind.
LEMMA WorkKeepsInv ==
    ASSUME RoutesInv, ListsInv', NEW p \in Refreshers, JobShapes', RulesAreOurs',
           DOMAIN job' = Refreshers, \A q \in Refreshers \ {p} : job'[q] = job[q],
           job[p].step # "taken", job'[p].step # "taken",
           UNCHANGED <<config, up, moving, pending, upd, lists>>, lost \subseteq lost',
           (\A t \in job[p].todo : IsFresh(job[p], t)) =>
               /\ \A t \in job'[p].todo : IsFresh(job[p], t)'
               /\ \A t \in DOMAIN config.tables :
                     OwnTable(t) /\ (TableIsCurrent(t) \/ WillLoad(job[p], t)) /\ lost' = {} =>
                         (TableIsCurrent(t) \/ WillLoad(job[p], t))',
           \A s \in DOMAIN config.ruleSets :
               OwnRange(s) /\ (SetIsThere(s) \/ WillAdd(job[p], s)) /\ lost' = {} =>
                   (SetIsThere(s) \/ WillAdd(job[p], s))'
    PROVE  RoutesInv'
<1>1. IdleWroteNothing'  BY DEF RoutesInv, IdleWroteNothing
<1>2. CASE News' \/ lost' # {}  BY <1>2, OnRecordKeepsInv
<1>3. CASE ~News' /\ lost' = {}
  <2>1. ~News /\ lost = {}  BY <1>3, WorkIsNoNews
  <2>2. /\ \A q \in Refreshers : \A t \in job[q].todo : IsFresh(job[q], t)
        /\ \A t \in DOMAIN config.tables : OwnTable(t) =>
              TableIsCurrent(t) \/ \E q \in Refreshers : WillLoad(job[q], t)
    BY <2>1 DEF RoutesInv, TablesInv
  <2>3. \A s \in DOMAIN config.ruleSets : OwnRange(s) =>
            SetIsThere(s) \/ \E q \in Refreshers : WillAdd(job[q], s)
    BY <2>1 DEF RoutesInv, RulesInv
  <2>4. \A q \in Refreshers \ {p} : \A t : IsFresh(job[q], t) => IsFresh(job[q], t)'
    BY DEF IsFresh, BatchOfNow
  <2>5. \A q \in Refreshers \ {p} : \A t : WillLoad(job[q], t) => WillLoad(job[q], t)'
    BY DEF WillLoad
  <2>6. \A q \in Refreshers \ {p} : \A s : WillAdd(job[q], s) => WillAdd(job[q], s)'
    BY DEF WillAdd
  <2>7. \A t : OwnTable(t)' = OwnTable(t)  BY DEF OwnTable
  <2>8. \A s : OwnRange(s)' = OwnRange(s)  BY DEF OwnRange
  <2>9. \A q \in Refreshers : \A t \in job'[q].todo : IsFresh(job[q], t)'
    BY <2>2, <2>4
  <2>10. \A t \in DOMAIN config.tables : OwnTable(t) =>
            TableIsCurrent(t)' \/ \E q \in Refreshers : WillLoad(job[q], t)'
    <3>1. SUFFICES ASSUME NEW t \in DOMAIN config.tables, OwnTable(t)
                   PROVE  TableIsCurrent(t)' \/ \E q \in Refreshers : WillLoad(job[q], t)'
      OBVIOUS
    <3>2. CASE TableIsCurrent(t) \/ WillLoad(job[p], t)
      BY <3>1, <3>2, <1>3, <2>2
    <3>3. CASE \E q \in Refreshers \ {p} : WillLoad(job[q], t)  BY <3>3, <2>5
    <3>4. QED  BY <3>1, <3>2, <3>3, <2>2
  <2>11. \A s \in DOMAIN config.ruleSets : OwnRange(s) =>
            SetIsThere(s)' \/ \E q \in Refreshers : WillAdd(job[q], s)'
    <3>1. SUFFICES ASSUME NEW s \in DOMAIN config.ruleSets, OwnRange(s)
                   PROVE  SetIsThere(s)' \/ \E q \in Refreshers : WillAdd(job[q], s)'
      OBVIOUS
    <3>2. CASE SetIsThere(s) \/ WillAdd(job[p], s)
      BY <3>1, <3>2, <1>3
    <3>3. CASE \E q \in Refreshers \ {p} : WillAdd(job[q], s)  BY <3>3, <2>6
    <3>4. QED  BY <3>1, <3>2, <3>3, <2>3
  <2>12. TablesInv'  BY <2>7, <2>9, <2>10 DEF TablesInv
  <2>13. RulesInv'  BY <2>8, <2>11 DEF RulesInv
  <2>14. QED  BY <1>1, <2>12, <2>13 DEF RoutesInv
<1>4. QED  BY <1>2, <1>3

\* _apply_route_tables writes its script.
LEMMA WriteScriptKeepsInv ==
    ASSUME RoutesInv, ListsInv', NEW p \in Refreshers, WriteScript(p)
    PROVE  RoutesInv'
<1>1. PICK j : j = job[p]  OBVIOUS
<1>2. JobShape(j) /\ j.step = "looked" /\ DOMAIN job = Refreshers
  BY <1>1 DEF RoutesInv, JobShapes, WriteScript
<1>3. PICK written : written = [t \in j.todo |-> Batch(config, t, j.states, lists)]  OBVIOUS
<1>4. /\ job' = [job EXCEPT ![p].step = "loading", ![p].script = written]
      /\ UNCHANGED <<config, up, moving, tables, rules, pending, upd, lists, lost>>
  BY <1>1, <1>3 DEF WriteScript, linkVars, kernelVars, listVars
<1>5. /\ DOMAIN job' = Refreshers /\ \A q \in Refreshers \ {p} : job'[q] = job[q]
      /\ job'[p] = [j EXCEPT !.step = "loading", !.script = written]
  BY <1>1, <1>2, <1>4
<1>6. /\ DOMAIN job'[p] = JobFields /\ job'[p].step = "loading" /\ job'[p].script = written
      /\ job'[p].todo = j.todo /\ job'[p].sets = j.sets
  BY <1>2, <1>5 DEF JobShape, JobFields
<1>7. JobShapes'
  <2>1. JobShape(job'[p])  BY <1>2, <1>6 DEF JobShape
  <2>2. QED  BY <1>4, <1>5, <2>1, OneRefresherMoves
<1>8. RulesAreOurs'  BY <1>4, OursAreKept
<1>9. ASSUME \A t \in job[p].todo : IsFresh(job[p], t)
      PROVE  \A t \in job'[p].todo : IsFresh(job[p], t)'
  <2>1. SUFFICES ASSUME NEW t \in j.todo PROVE IsFresh(job[p], t)'  BY <1>6
  <2>2. j.states = up \cup {"lo"}  BY <1>1, <1>2, <1>9 DEF IsFresh
  <2>3. written[t] = BatchOfNow(t)  BY <1>3, <2>2 DEF BatchOfNow
  <2>4. BatchOfNow(t)' = BatchOfNow(t)  BY <1>4 DEF BatchOfNow
  <2>5. QED  BY <1>6, <2>3, <2>4 DEF IsFresh
<1>10. \A t : TableIsCurrent(t) => TableIsCurrent(t)'
  BY <1>4 DEF TableIsCurrent, BatchOfNow
<1>11. \A t : WillLoad(job[p], t) => WillLoad(job[p], t)'  BY <1>1, <1>6 DEF WillLoad
<1>12. \A s : SetIsThere(s) => SetIsThere(s)'  BY <1>4 DEF SetIsThere, SetRules
<1>13. \A s : WillAdd(job[p], s) => WillAdd(job[p], s)'  BY <1>1, <1>2, <1>6 DEF WillAdd
<1>14. job[p].step # "taken" /\ job'[p].step # "taken"  BY <1>1, <1>2, <1>6
<1>15. QED
  BY <1>4, <1>5, <1>7, <1>8, <1>9, <1>10, <1>11, <1>12, <1>13, <1>14, WorkKeepsInv

\* The rules of a valid set have priorities that the set manages.
LEMMA RulesAreManaged ==
    ASSUME RoutesInv, Steppable, NEW s \in DOMAIN config.ruleSets
    PROVE  \A r \in SetRules(s) : r.priority \in Managed(config.ruleSets[s])
<1>1. ValidRuleSet(config, config.ruleSets[s])  BY DEF Steppable, ValidConfig
<1>2. DOMAIN config.ruleSets[s].rules = 1..Len(config.ruleSets[s].rules)
  BY ConfigsAssumption DEF RoutesInv, JobShapes, Listed
<1>3. \A i \in DOMAIN config.ruleSets[s].rules :
         config.ruleSets[s].rules[i].priority \in Managed(config.ruleSets[s])
  BY <1>1, <1>2 DEF ValidRuleSet
<1>4. QED  BY <1>3 DEF SetRules, RuleParts

\* A table is flushed and loaded: if its batch runs through it is current, and so is every
\* other that no other RouteTable shares. If not, that goes on record.
LEMMA LoadTableKeepsInv ==
    ASSUME RoutesInv, ListsInv', NEW p \in Refreshers, NEW t \in DOMAIN config.tables,
           LoadTable(p, t)
    PROVE  RoutesInv'
<1>1. PICK j : j = job[p]  OBVIOUS
<1>2. JobShape(j) /\ j.step = "loading" /\ t \in j.todo /\ DOMAIN job = Refreshers
  BY <1>1 DEF RoutesInv, JobShapes, LoadTable
<1>3. PICK batch : batch = j.script[t]  OBVIOUS
<1>4. PICK id : id = TableId(config, t)  OBVIOUS
<1>5. id \in DOMAIN tables  BY <1>4 DEF RoutesInv, JobShapes, KernelShapes
<1>6. /\ tables' = [tables EXCEPT ![id] = Loaded(batch, up)]
      /\ UNCHANGED <<config, up, moving, rules, pending, upd, lists>>
      /\ lost \subseteq lost'
  BY <1>1, <1>3, <1>4 DEF LoadTable, linkVars, listVars
<1>7. DOMAIN tables' = DOMAIN tables  BY <1>6
<1>8. RulesAreOurs'  BY <1>6, OursAreKept
<1>9. CASE FailsAt(batch, up) # {}
  <2>1. job' = [job EXCEPT ![p] = Idle] /\ lost' # {}
    BY <1>1, <1>3, <1>9 DEF LoadTable
  <2>2. QED  BY <1>6, <1>7, <1>8, <2>1, StopKeepsInv
<1>10. CASE FailsAt(batch, up) = {}
  <2>1. job' = [job EXCEPT ![p].todo = @ \ {t}]
    BY <1>1, <1>3, <1>10 DEF LoadTable
  <2>2. /\ DOMAIN job' = Refreshers /\ \A q \in Refreshers \ {p} : job'[q] = job[q]
        /\ job'[p] = [j EXCEPT !.todo = j.todo \ {t}]
    BY <1>1, <1>2, <2>1
  <2>3. /\ DOMAIN job'[p] = JobFields /\ job'[p].step = "loading"
        /\ job'[p].script = j.script /\ job'[p].todo = j.todo \ {t} /\ job'[p].sets = j.sets
    BY <1>2, <2>2 DEF JobShape, JobFields
  <2>4. JobShapes'
    <3>1. JobShape(job'[p])  BY <1>2, <2>3 DEF JobShape
    <3>2. QED  BY <1>6, <1>7, <2>2, <3>1, OneRefresherMoves
  <2>5. \A o : BatchOfNow(o)' = BatchOfNow(o)  BY <1>6 DEF BatchOfNow
  <2>6. ASSUME \A o \in job[p].todo : IsFresh(job[p], o)
        PROVE  /\ \A o \in job'[p].todo : IsFresh(job[p], o)'
               /\ TableIsCurrent(t)'
    <3>1. \A o \in j.todo : j.script[o] = BatchOfNow(o)
      BY <1>1, <1>2, <2>6 DEF IsFresh
    <3>2. \A o \in job'[p].todo : IsFresh(job[p], o)'
      BY <2>3, <2>5, <3>1 DEF IsFresh
    <3>3. batch = BatchOfNow(t)  BY <1>2, <1>3, <3>1
    <3>4. tables'[id] = Loaded(BatchOfNow(t), up)  BY <1>5, <1>6, <3>3
    <3>5. TableIsCurrent(t)'
      BY <1>4, <1>6, <1>10, <2>5, <3>3, <3>4 DEF TableIsCurrent
    <3>6. QED  BY <3>2, <3>5
  <2>7. ASSUME NEW o \in DOMAIN config.tables, OwnTable(o), o # t, TableIsCurrent(o)
        PROVE  TableIsCurrent(o)'
    <3>1. TableId(config, o) # id  BY <1>4, <2>7 DEF OwnTable
    <3>2. tables'[TableId(config, o)] = tables[TableId(config, o)]
      BY <1>6, <3>1 DEF RoutesInv, JobShapes, KernelShapes
    <3>3. QED  BY <1>6, <2>5, <2>7, <3>2 DEF TableIsCurrent
  <2>8. \A o : o # t /\ WillLoad(job[p], o) => WillLoad(job[p], o)'
    BY <1>1, <2>3 DEF WillLoad
  <2>9. \A s : SetIsThere(s) => SetIsThere(s)'  BY <1>6 DEF SetIsThere, SetRules
  <2>10. \A s : WillAdd(job[p], s) => WillAdd(job[p], s)'
    BY <1>1, <1>2, <2>3 DEF WillAdd
  <2>11. job[p].step # "taken" /\ job'[p].step # "taken"  BY <1>1, <1>2, <2>3
  <2>12. QED
    BY <1>6, <1>8, <2>2, <2>4, <2>6, <2>7, <2>8, <2>9, <2>10, <2>11, WorkKeepsInv
<1>11. QED  BY <1>9, <1>10

\* The priorities of a rule set are flushed, and its rules will be added: no other set has
\* rules there, if it has its priorities for itself.
LEMMA FlushRulesKeepsInv ==
    ASSUME RoutesInv, ListsInv', Steppable, NEW p \in Refreshers,
           NEW s \in DOMAIN config.ruleSets, FlushRules(p, s)
    PROVE  RoutesInv'
<1>1. PICK j : j = job[p]  OBVIOUS
<1>2. JobShape(j) /\ j.step = "loading" /\ j.todo = {} /\ DOMAIN job = Refreshers
  BY <1>1 DEF RoutesInv, JobShapes, FlushRules
<1>3. PICK set : set = config.ruleSets[s]  OBVIOUS
<1>4. PICK family : family = set.family  OBVIOUS
<1>5. family \in DOMAIN rules  BY <1>3, <1>4 DEF RoutesInv, JobShapes, KernelShapes
<1>6. /\ rules' = [rules EXCEPT ![family] = Unmanaged(@, set)]
      /\ job' = [job EXCEPT ![p].step = "flushed", ![p].sets = @ \ {s}, ![p].script = <<s>>]
      /\ UNCHANGED <<config, up, moving, tables, pending, upd, lists, lost>>
  BY <1>3, <1>4 DEF FlushRules, linkVars, listVars
<1>7. /\ DOMAIN job' = Refreshers /\ \A q \in Refreshers \ {p} : job'[q] = job[q]
      /\ job'[p] = [j EXCEPT !.step = "flushed", !.sets = j.sets \ {s}, !.script = <<s>>]
  BY <1>1, <1>2, <1>6
<1>8. /\ DOMAIN job'[p] = JobFields /\ job'[p].step = "flushed" /\ job'[p].script[1] = s
      /\ job'[p].todo = {} /\ job'[p].sets = j.sets \ {s}
  BY <1>2, <1>7 DEF JobShape, JobFields
<1>9. DOMAIN rules' = DOMAIN rules /\ \A f \in DOMAIN rules : rules'[f] \subseteq rules[f]
  BY <1>6 DEF Unmanaged
<1>10. JobShapes'
  <2>1. JobShape(job'[p])  BY <1>2, <1>8 DEF JobShape
  <2>2. QED  BY <1>6, <1>7, <1>9, <2>1, OneRefresherMoves
<1>11. \A o : SetRules(o)' = SetRules(o)  BY <1>6 DEF SetRules
<1>12. RulesAreOurs'  BY <1>6, <1>9, <1>11 DEF RoutesInv, RulesAreOurs
<1>13. ASSUME NEW o \in DOMAIN config.ruleSets, OwnRange(o), o # s, SetIsThere(o)
       PROVE  SetIsThere(o)'
  <2>1. config.ruleSets[o].family \in DOMAIN rules  BY DEF RoutesInv, JobShapes, KernelShapes
  <2>2. CASE config.ruleSets[o].family # family
    BY <1>6, <1>11, <1>13, <2>1, <2>2 DEF SetIsThere
  <2>3. CASE config.ruleSets[o].family = family
    <3>1. Managed(set) \cap Managed(config.ruleSets[o]) = {}
      BY <1>3, <1>4, <1>13, <2>3 DEF OwnRange
    <3>2. \A r \in SetRules(o) : r.priority \in Managed(config.ruleSets[o])
      BY RulesAreManaged
    <3>3. SetRules(o) \subseteq Unmanaged(rules[family], set)
      BY <1>13, <2>3, <3>1, <3>2 DEF SetIsThere, Unmanaged
    <3>4. QED  BY <1>5, <1>6, <1>11, <2>3, <3>3 DEF SetIsThere
  <2>4. QED  BY <2>2, <2>3
<1>14. \A o : o # s /\ WillAdd(job[p], o) => WillAdd(job[p], o)'
  BY <1>1, <1>2, <1>8 DEF WillAdd
<1>15. WillAdd(job[p], s)'  BY <1>6, <1>8 DEF WillAdd
<1>16. \A t : TableIsCurrent(t) => TableIsCurrent(t)'
  BY <1>6 DEF TableIsCurrent, BatchOfNow
<1>17. \A t : ~WillLoad(job[p], t)  BY <1>1, <1>2 DEF WillLoad
<1>18. job[p].step # "taken" /\ job'[p].step # "taken"  BY <1>1, <1>2, <1>8
<1>19. QED
  BY <1>6, <1>7, <1>8, <1>10, <1>12, <1>13, <1>14, <1>15, <1>16, <1>17, <1>18, WorkKeepsInv


\* The rules of a set are added: all of them, or the refresher stops and that goes on record.
LEMMA AddRulesKeepsInv ==
    ASSUME RoutesInv, ListsInv', NEW p \in Refreshers, AddRules(p)
    PROVE  RoutesInv'
<1>1. PICK j : j = job[p]  OBVIOUS
<1>2. JobShape(j) /\ j.step = "flushed" /\ j.todo = {} /\ DOMAIN job = Refreshers
  BY <1>1 DEF RoutesInv, JobShapes, JobShape, AddRules
<1>3. PICK s \in DOMAIN config.ruleSets : s = j.script[1]  BY <1>2 DEF JobShape
<1>4. PICK family : family = config.ruleSets[s].family  OBVIOUS
<1>5. family \in DOMAIN rules  BY <1>4 DEF RoutesInv, JobShapes, KernelShapes
<1>6. PICK added : added = AddedRules(config, s, rules[family])  OBVIOUS
<1>7. /\ rules' = [rules EXCEPT ![family] = @ \cup added]
      /\ UNCHANGED <<config, up, moving, tables, pending, upd, lists>>
      /\ lost \subseteq lost'
  BY <1>1, <1>3, <1>4, <1>6 DEF AddRules, linkVars, listVars
<1>8. /\ DOMAIN rules' = DOMAIN rules /\ rules'[family] = rules[family] \cup added
      /\ \A f \in DOMAIN rules \ {family} : rules'[f] = rules[f]
  BY <1>5, <1>7
<1>9. \A o : SetRules(o)' = SetRules(o)  BY <1>7 DEF SetRules
<1>10. added \subseteq SetRules(s)  BY <1>6 DEF AddedRules, SetRules
<1>11. RulesAreOurs'
  BY <1>4, <1>7, <1>8, <1>9, <1>10 DEF RoutesInv, RulesAreOurs
<1>12. CASE StopsAt(config, s, rules[family]) # {}
  <2>1. job' = [job EXCEPT ![p] = Idle] /\ lost' # {}
    BY <1>1, <1>3, <1>4, <1>12 DEF AddRules
  <2>2. QED  BY <1>7, <1>8, <1>11, <2>1, StopKeepsInv
<1>13. CASE StopsAt(config, s, rules[family]) = {}
  <2>1. job' = [job EXCEPT ![p] = [@ EXCEPT !.step = "loading", !.script = <<>>]]
    BY <1>1, <1>3, <1>4, <1>13 DEF AddRules
  <2>2. /\ DOMAIN job' = Refreshers /\ \A q \in Refreshers \ {p} : job'[q] = job[q]
        /\ job'[p] = [j EXCEPT !.step = "loading", !.script = <<>>]
    BY <1>1, <1>2, <2>1
  <2>3. /\ DOMAIN job'[p] = JobFields /\ job'[p].step = "loading"
        /\ job'[p].todo = {} /\ job'[p].sets = j.sets
    BY <1>2, <2>2 DEF JobShape, JobFields
  <2>4. JobShapes'
    <3>1. JobShape(job'[p])  BY <1>2, <2>3 DEF JobShape
    <3>2. QED  BY <1>7, <1>8, <2>2, <3>1, OneRefresherMoves
  <2>5. added = SetRules(s)  BY <1>6, <1>13 DEF AddedRules, SetRules
  <2>6. SetIsThere(s)'  BY <1>4, <1>7, <1>8, <1>9, <2>5 DEF SetIsThere
  <2>7. ASSUME NEW o \in DOMAIN config.ruleSets, SetIsThere(o) PROVE SetIsThere(o)'
    <3>1. config.ruleSets[o].family \in DOMAIN rules  BY DEF RoutesInv, JobShapes, KernelShapes
    <3>2. QED  BY <1>7, <1>8, <1>9, <2>7, <3>1 DEF SetIsThere
  <2>8. \A o : o # s /\ WillAdd(job[p], o) => WillAdd(job[p], o)'
    BY <1>1, <1>2, <1>3, <2>3 DEF WillAdd
  <2>9. \A t : TableIsCurrent(t) => TableIsCurrent(t)'
    BY <1>7 DEF TableIsCurrent, BatchOfNow
  <2>10. \A t : ~WillLoad(job[p], t)  BY <1>1, <1>2 DEF WillLoad
  <2>11. job[p].step # "taken" /\ job'[p].step # "taken"  BY <1>1, <1>2, <2>3
  <2>12. \A t \in job'[p].todo : IsFresh(job[p], t)'  BY <2>3
  <2>13. QED
    BY <1>7, <1>11, <2>2, <2>4, <2>6, <2>7, <2>8, <2>9, <2>10, <2>11, <2>12, WorkKeepsInv
<1>14. QED  BY <1>12, <1>13

\* A refresher with nothing left to do owes nothing.
LEMMA FinishKeepsInv ==
    ASSUME RoutesInv, ListsInv', NEW p \in Refreshers, Finish(p)
    PROVE  RoutesInv'
<1>1. /\ job[p].step = "loading" /\ job[p].todo = {} /\ job[p].sets = {}
      /\ job' = [job EXCEPT ![p] = Idle]
      /\ UNCHANGED <<config, up, moving, tables, rules, pending, upd, lists, lost>>
  BY DEF Finish, linkVars, kernelVars, listVars
<1>2. /\ DOMAIN job' = Refreshers /\ job'[p] = Idle
      /\ \A q \in Refreshers \ {p} : job'[q] = job[q]
  BY <1>1 DEF RoutesInv, JobShapes
<1>3. JobShapes'  BY <1>1, <1>2, IdleShape, OneRefresherMoves
<1>4. RulesAreOurs'  BY <1>1, OursAreKept
<1>5. job'[p].step # "taken" /\ job'[p].todo = {}  BY <1>2 DEF Idle
<1>6. (\A t : ~WillLoad(job[p], t)) /\ (\A s : ~WillAdd(job[p], s))
  BY <1>1 DEF WillLoad, WillAdd
<1>7. \A t : TableIsCurrent(t) => TableIsCurrent(t)'
  BY <1>1 DEF TableIsCurrent, BatchOfNow
<1>8. \A s : SetIsThere(s) => SetIsThere(s)'  BY <1>1 DEF SetIsThere, SetRules
<1>9. QED  BY <1>1, <1>2, <1>3, <1>4, <1>5, <1>6, <1>7, <1>8, WorkKeepsInv

LEMMA RoutesStepHolds == ASSUME RoutesInv, Next PROVE RoutesInv'
<1>1. ListsInv'  BY ListsStepHolds DEF RoutesInv
<1>2. Steppable  BY DEF Next
<1>3. "locked" \in Refreshers  BY DEF Refreshers
<1>4. CASE \/ TakeEvent \/ HandlerFails
           \/ Update({"Gateway", "FwMark", "RouteTable", "RouteRuleSet"})
           \/ Update({"RouteRuleSet"})
  BY <1>1, <1>3, <1>4, CommandKeepsInv, CutKeepsInv
<1>5. ASSUME NEW p \in Refreshers, ProcessNow(p) \/ RefreshStep(p) \/ Killed(p)
      PROVE  RoutesInv'
  <2>1. CASE ProcessNow(p) \/ Killed(p)  BY <1>1, <2>1, CommandKeepsInv, CutKeepsInv
  <2>2. CASE RefreshStep(p)
    <3>1. CASE LookAtLinks(p) \/ WriteScript(p)
      BY <1>1, <3>1, LookKeepsInv, WriteScriptKeepsInv
    <3>2. CASE \E t \in DOMAIN config.tables : LoadTable(p, t)
      BY <1>1, <3>2, LoadTableKeepsInv
    <3>3. CASE \E s \in DOMAIN config.ruleSets : FlushRules(p, s)
      BY <1>1, <1>2, <3>3, FlushRulesKeepsInv
    <3>4. CASE AddRules(p) \/ Finish(p)
      BY <1>1, <3>4, AddRulesKeepsInv, FinishKeepsInv
    <3>5. QED  BY <2>2, <3>1, <3>2, <3>3, <3>4 DEF RefreshStep
  <2>3. QED  BY <1>5, <2>1, <2>2
<1>6. ASSUME NEW l \in Links, LinkUp(l) \/ PppDown(l) \/ Hook(l) \/ IfDown(l) \/ GoesDown(l)
      PROVE  RoutesInv'
  BY <1>1, <1>6, LinkKeepsInv
<1>7. ASSUME NEW u \in Updaters, StartDownload(u) \/ UpdaterStep(u) \/ UpdaterKilled(u)
      PROVE  RoutesInv'
  BY <1>1, <1>7, UpdaterKeepsInv
<1>8. QED  BY <1>4, <1>5, <1>6, <1>7 DEF Next

LEMMA RoutesStutterHolds == ASSUME RoutesInv, UNCHANGED vars PROVE RoutesInv'
<1>1. UNCHANGED <<config, up, moving, pending, job, tables, rules, lists, upd, lost>>
      /\ UNCHANGED listVars
  BY DEF vars, linkVars, kernelVars, listVars
<1>2. ListsInv'  BY <1>1, ListsStutterHolds DEF RoutesInv
<1>3. JobShapes'  BY <1>1 DEF RoutesInv, JobShapes, KernelShapes, JobShape
<1>4. IdleWroteNothing' /\ RulesAreOurs'
  BY <1>1, OursAreKept DEF RoutesInv, IdleWroteNothing
<1>5. News' = News  BY <1>1 DEF News
<1>6. TablesInv'
  <2>1. \A t : /\ TableIsCurrent(t)' = TableIsCurrent(t) /\ OwnTable(t)' = OwnTable(t)
               /\ \A j : IsFresh(j, t)' = IsFresh(j, t)
    BY <1>1 DEF TableIsCurrent, BatchOfNow, OwnTable, IsFresh
  <2>2. QED  BY <1>1, <1>5, <2>1 DEF RoutesInv, TablesInv
<1>7. RulesInv'
  <2>1. \A s : SetIsThere(s)' = SetIsThere(s) /\ OwnRange(s)' = OwnRange(s)
    BY <1>1 DEF SetIsThere, SetRules, OwnRange
  <2>2. QED  BY <1>1, <1>5, <2>1 DEF RoutesInv, RulesInv
<1>8. QED  BY <1>2, <1>3, <1>4, <1>6, <1>7 DEF RoutesInv

RoutesHold == part = "routes" => RoutesInv

\* Whatever the links, the updaters and the refreshers do, in every state of the services
\* each table of its own is current, or some refresher will load what is wanted now, or
\* there is news that leads to another refresh, or it is on record why nobody will look.
THEOREM RoutesInvariant == ServicesSpec => []RoutesHold
<1>1. Start => RoutesHold  BY RoutesInitHolds DEF Start, RoutesHold
<1>2. ASSUME RoutesHold, [\/ OfRoutes(Next) \/ OfDocker(Docker!Next) \/ OfPki(Pki!Next)
                          \/ OfStore(Store!Next) \/ OfOrder(Order!Next)]_all
      PROVE  RoutesHold'
  <2>1. SUFFICES ASSUME part' = "routes" PROVE RoutesInv'  BY DEF RoutesHold
  <2>2. CASE OfRoutes(Next)  BY <2>2, <1>2, RoutesStepHolds DEF OfRoutes, RoutesHold
  <2>3. CASE OfDocker(Docker!Next)  BY <2>1, <2>3 DEF OfDocker
  <2>4. CASE OfPki(Pki!Next)  BY <2>1, <2>4 DEF OfPki
  <2>5. CASE OfStore(Store!Next)  BY <2>1, <2>5 DEF OfStore
  <2>6. CASE OfOrder(Order!Next)  BY <2>1, <2>6 DEF OfOrder
  <2>7. CASE UNCHANGED all
    <3>1. UNCHANGED vars /\ part = "routes"  BY <2>1, <2>7 DEF all
    <3>2. QED  BY <3>1, <1>2, RoutesStutterHolds DEF RoutesHold
  <2>8. QED  BY <1>2, <2>2, <2>3, <2>4, <2>5, <2>6, <2>7
<1>3. QED  BY <1>1, <1>2, PTL DEF ServicesSpec

\* When nothing is going on and nothing is on record, every route table of its own holds
\* what its RouteTable wants with the links and lists of now (_apply_route_tables).
LEMMA TablesFollow == ASSUME RoutesInv PROVE TablesAreCurrent
<1>1. SUFFICES ASSUME Settled, lost = {}, NEW t \in DOMAIN config.tables, OwnTable(t)
               PROVE  Holds(t)
  BY DEF TablesAreCurrent
<1>2. ~News
  <2>1. \A u \in Updaters : ~upd[u].wrote  BY <1>1 DEF Settled, RoutesInv, IdleWroteNothing
  <2>2. "locked" \in Refreshers  BY DEF Refreshers
  <2>3. QED  BY <1>1, <2>1, <2>2 DEF Settled, News
<1>3. \A p \in Refreshers : ~WillLoad(job[p], t)  BY <1>1 DEF Settled, WillLoad
<1>4. TableIsCurrent(t)  BY <1>1, <1>2, <1>3 DEF RoutesInv, TablesInv
<1>5. Listed(RoutesOf(t))
  BY ConfigsAssumption DEF RoutesInv, JobShapes, RoutesOf
<1>6. {<<LineKey(r), r.devs>> : r \in tables[TableId(config, t)]} =
      {<<w[1], DevsOf(t, w[2])>> : w \in Wanted(t)}
  BY <1>4, <1>5, LoadedIsWanted DEF TableIsCurrent
<1>7. QED  BY <1>6 DEF Holds, LineKey, DevsOf, RoutesOf

\* Likewise the policy rules: those of every rule set with priorities of its own, and none
\* that no set has (_apply_route_rule_set).
LEMMA RulesFollow == ASSUME RoutesInv PROVE RulesAreCurrent
<1>1. SUFFICES ASSUME Settled, lost = {}
               PROVE  \A s \in DOMAIN config.ruleSets :
                         OwnRange(s) => SetRules(s) \subseteq rules[config.ruleSets[s].family]
  BY DEF RulesAreCurrent, RoutesInv, RulesAreOurs
<1>2. ~News
  <2>1. \A u \in Updaters : ~upd[u].wrote  BY <1>1 DEF Settled, RoutesInv, IdleWroteNothing
  <2>2. "locked" \in Refreshers  BY DEF Refreshers
  <2>3. QED  BY <1>1, <2>1, <2>2 DEF Settled, News
<1>3. \A p \in Refreshers : \A s : ~WillAdd(job[p], s)  BY <1>1 DEF Settled, WillAdd
<1>4. QED  BY <1>1, <1>2, <1>3 DEF RoutesInv, RulesInv, SetIsThere

\* With nothing going on and nothing on record, tables and rules are what the configuration
\* wants, for every configuration and any number of links, lists, updaters and refreshers
\* (network_routing.py handle_event, update, _apply_route_tables, _apply_route_rule_set).
THEOREM RoutesFollowConfig == ServicesSpec => []RoutesAreCurrent
<1>1. RoutesHold => RoutesAreCurrent
  BY TablesFollow, RulesFollow DEF RoutesHold, RoutesAreCurrent
<1>2. QED  BY <1>1, RoutesInvariant, PTL
=============================================================================
