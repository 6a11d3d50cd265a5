---------------------------- MODULE ConfigStore ----------------------------
(***************************************************************************)
(* How the configuration is put together (config_objects.py,               *)
(* kind_aliases.py): YAML documents in an ordered list of directories, a   *)
(* later directory's object replacing an earlier one of the same kind and  *)
(* name; which objects a command's target selects (update.py); and the     *)
(* second way of loading, with the disabled objects, that `gw delete`      *)
(* compares with the first before it trusts what it knows of an object's   *)
(* dependants.                                                             *)
(***************************************************************************)
EXTENDS Naturals, Sequences, FiniteSets, SequencesExt

CONSTANTS
    Docs,        \* the documents a file may hold
    Alias,       \* KIND_ALIASES: from a spelling to the kind it stands for
    Group,       \* KIND_GROUPS: from a group to its kinds
    Error,       \* the outcome of a load that raises
    NumDirs,     \* number of configuration directories
    MaxDocs      \* bound on the documents there are at once

VARIABLE dirs    \* the documents of each directory, in the order of its files

vars == <<dirs>>

-----------------------------------------------------------------------------
DefaultName == "system"

ResolveKindAlias(kind) == IF kind \in DOMAIN Alias THEN Alias[kind] ELSE kind

Key(doc) == <<ResolveKindAlias(doc.kind),
              IF doc.name = {} THEN DefaultName ELSE CHOOSE n \in doc.name : TRUE>>

\* What is wrong with the head of a document (its version, kind, metadata) is an
\* error in any case, what is wrong with the rest only if the object counts.
Ignored(doc, includeDisabled) == doc.headOk /\ doc.disabled /\ ~includeDisabled

Malformed(doc, includeDisabled) ==
    ~doc.headOk \/ (~doc.bodyOk /\ ~Ignored(doc, includeDisabled))

\* Slip: a disabled document hides an earlier directory's object.
AddDocHiding(store, doc, dir, includeDisabled) ==
    IF store = Error \/ Malformed(doc, includeDisabled) THEN Error
    ELSE [k \in DOMAIN store \cup {Key(doc)} |->
            IF k = Key(doc) THEN [doc |-> doc, dir |-> dir] ELSE store[k]]

\* One document on top of what was loaded before it: twice in one directory is
\* an error; over an earlier directory it replaces, except that with the
\* disabled objects loaded too, a disabled one above or below is an error.
AddDoc(store, doc, dir, includeDisabled) ==
    IF store = Error \/ Malformed(doc, includeDisabled) THEN Error
    ELSE IF Ignored(doc, includeDisabled) THEN store
    ELSE LET inherited == {store[k] : k \in DOMAIN store \cap {Key(doc)}} IN
         IF \E o \in inherited : \/ o.dir = dir
                                 \/ includeDisabled /\ (o.doc.disabled \/ doc.disabled)
         THEN Error
         ELSE [k \in DOMAIN store \cup {Key(doc)} |->
                IF k = Key(doc) THEN [doc |-> doc, dir |-> dir] ELSE store[k]]

\* The documents of directory d, on top of what the directories before it gave.
LoadDir(store, d, includeDisabled) ==
    LET loaded[i \in 0..Len(dirs[d])] ==
            IF i = 0 THEN store ELSE AddDoc(loaded[i - 1], dirs[d][i], d, includeDisabled)
    IN  loaded[Len(dirs[d])]

Load(includeDisabled) ==
    LET loaded[d \in 0..NumDirs] ==
            IF d = 0 THEN <<>> ELSE LoadDir(loaded[d - 1], d, includeDisabled)
    IN  loaded[NumDirs]

-----------------------------------------------------------------------------
(* Reading the store.                                                      *)

ByKind(store, kind) == {k \in DOMAIN store : k[1] = kind}

\* The object of a singleton kind: the one named system, else the only one.
Resolve(store, kind) ==
    IF <<kind, DefaultName>> \in DOMAIN store THEN {<<kind, DefaultName>>}
    ELSE IF Cardinality(ByKind(store, kind)) <= 1 THEN ByKind(store, kind)
    ELSE Error

\* _select_objects: a target is a kind or a group, and perhaps a name.
Select(store, target, name) ==
    LET kind == ResolveKindAlias(target) IN
    IF kind \in DOMAIN Group
    THEN IF name # {} THEN Error ELSE {k \in DOMAIN store : k[1] \in Group[kind]}
    ELSE IF name = {} THEN ByKind(store, kind)
    ELSE LET selected == {k \in ByKind(store, kind) : k[2] \in name}
         IN  IF selected = {} THEN Error ELSE selected

-----------------------------------------------------------------------------
(* The user edits the files.                                               *)

Count == Len(FlattenSeq(dirs))

Write(d, doc) ==
    /\ Count < MaxDocs
    /\ dirs' = [dirs EXCEPT ![d] = Append(@, doc)]

Init == dirs = [d \in 1..NumDirs |-> <<>>]

Next == \E d \in 1..NumDirs, doc \in Docs : Write(d, doc)

Spec == Init /\ [][Next]_vars

-----------------------------------------------------------------------------
(* Properties.                                                             *)

Enabled(d) == {i \in DOMAIN dirs[d] : ~dirs[d][i].disabled}

\* The documents are documents; every spelling has one kind.
TypeOK ==
    /\ dirs \in [1..NumDirs -> Seq(Docs)]
    /\ Load(FALSE) # Error => \A k \in DOMAIN Load(FALSE) : k[1] \notin DOMAIN Alias

\* The store holds, for every kind and name, the enabled object of the last
\* directory that has one, whatever the spelling of the kind: a disabled object
\* in a later directory neither counts nor hides it (docs/bootstrap.md:142).
LastEnabledWins ==
    Load(FALSE) # Error =>
        /\ \A d \in 1..NumDirs : \A i \in Enabled(d) : Key(dirs[d][i]) \in DOMAIN Load(FALSE)
        /\ \A k \in DOMAIN Load(FALSE) : LET o == Load(FALSE)[k] IN
            /\ ~o.doc.disabled /\ Key(o.doc) = k
            /\ \E i \in Enabled(o.dir) : dirs[o.dir][i] = o.doc
            /\ \A d \in (o.dir + 1)..NumDirs : \A i \in Enabled(d) : Key(dirs[d][i]) # k

\* No object is dropped without a word: two enabled objects of one directory
\* with the same kind, however spelled, and name make every load fail.
DuplicatesAreErrors ==
    (\E d \in 1..NumDirs : \E i, j \in Enabled(d) :
        i # j /\ Key(dirs[d][i]) = Key(dirs[d][j]))
    => Load(FALSE) = Error /\ Load(TRUE) = Error

\* gw delete may trust the load with the disabled objects: if it succeeds, so
\* does the one without, and both have the same enabled objects.
FullLoadAgrees ==
    Load(TRUE) # Error =>
        /\ Load(FALSE) # Error
        /\ DOMAIN Load(FALSE) = {k \in DOMAIN Load(TRUE) : ~Load(TRUE)[k].doc.disabled}
        /\ \A k \in DOMAIN Load(FALSE) : Load(FALSE)[k] = Load(TRUE)[k]

\* Every object can be named as a target by any spelling of its kind, and by
\* its name, and a group selects exactly what its kinds select one by one.
TargetsReachObjects ==
    Load(FALSE) # Error =>
        LET store == Load(FALSE) IN
        /\ \A spelling \in DOMAIN Alias : \A k \in ByKind(store, Alias[spelling]) :
              Select(store, spelling, {k[2]}) = {k}
        /\ \A g \in DOMAIN Group :
              Select(store, g, {}) = UNION {Select(store, kind, {}) : kind \in Group[g]}
=============================================================================
