---------------------------- MODULE GitObjects -----------------------------
(***************************************************************************)
(* The expansion of a directory of Git objects into a checkout             *)
(* (src/integrations/scm/git_objects.py).                                  *)
(*                                                                         *)
(* A directory maps object names to files.  A file has the hash of its     *)
(* bytes, a kind, a size and, by kind, what its payload holds: a commit    *)
(* names its trees (the header's tree lines, in order) and its parents, a  *)
(* tree has entries of a name, a mode and an object name.  Sizes are in    *)
(* units that make the limits reachable.                                   *)
(***************************************************************************)
EXTENDS Naturals, Sequences, FiniteSets

CONSTANTS
    Key(_, _),       \* Git's order of an entry: by its name and its mode
    BadNames,        \* "", ".", "..", ".git", names with control characters
    MaxDepth, MaxEntries, MaxFiles, MaxParents,
    MaxFileSize, MaxTreeSize, MaxTotalTree, MaxTotalFiles

Kinds == {"commit", "tree", "blob"}
Modes == {"40000", "100644", "120000"}
AllowedModes == {"40000", "100644"}

\* source_path: the components are legal and not too many.
SourcePathOk(path) ==
    /\ 1 <= Len(path) /\ Len(path) <= MaxDepth
    /\ \A i \in 1 .. Len(path) : path[i] \notin BadNames

\* _read_object: kind and size are within bounds and the bytes hash to the name.
SizeBound(kind) == IF kind = "blob" THEN MaxFileSize ELSE MaxTreeSize
ReadObjectOk(oid, file) == file.kind \in Kinds /\ file.size <= SizeBound(file.kind) /\ file.hash = oid

\* metadata_object: a retained commit or tree preimage, checked the same way.
MetadataObjectOk(oid, file) == file.kind # "blob" /\ ReadObjectOk(oid, file)

\* _commit_tree: the first header line, and only it, names the tree.
CommitTreeOk(file) == Len(file.trees) = 1 /\ file.parents <= MaxParents
CommitTree(file) == file.trees[1]

\* _tree_entries: supported modes, legal names, in Git's order, none twice.
TreeEntriesOk(entries) ==
    /\ Len(entries) <= MaxEntries
    /\ \A i \in 1 .. Len(entries) : entries[i].mode \in AllowedModes /\ SourcePathOk(<<entries[i].name>>)
    /\ \A i \in 1 .. Len(entries) - 1 : Key(entries[i].name, entries[i].mode) < Key(entries[i + 1].name, entries[i + 1].mode)
    /\ \A i, j \in 1 .. Len(entries) : entries[i].name = entries[j].name => i = j

-----------------------------------------------------------------------------
Nothing == [ok |-> TRUE, reached |-> {}, files |-> <<>>, directories |-> <<>>, count |-> 0, total |-> 0]
Failed == [Nothing EXCEPT !.ok = FALSE]

RECURSIVE Walk(_, _, _, _, _), WalkEntries(_, _, _, _, _, _)

\* expand_objects.walk: one tree, its entries in order, its subtrees in place.
Walk(dir, oid, parent, ancestors, seen) ==
    IF oid \notin DOMAIN dir \/ oid \in ancestors THEN Failed
    ELSE IF dir[oid].kind # "tree" \/ ~TreeEntriesOk(dir[oid].entries) THEN Failed
    ELSE WalkEntries(dir, dir[oid].entries, parent, ancestors \cup {oid}, [seen EXCEPT !.reached = @ \cup {oid}], 1)

WalkEntries(dir, entries, parent, ancestors, seen, i) ==
    IF ~seen.ok \/ i > Len(entries) THEN seen
    ELSE LET entry == entries[i]
             path == Append(parent, entry.name)
             counted == [seen EXCEPT !.count = @ + 1, !.reached = @ \cup {entry.oid}]
             child == dir[entry.oid]
             next ==
                 IF counted.count > MaxEntries \/ ~SourcePathOk(path) \/ entry.oid \notin DOMAIN dir THEN Failed
                 ELSE IF entry.mode = "40000"
                 THEN Walk(dir, entry.oid, path, ancestors, [counted EXCEPT !.directories = Append(@, path)])
                 ELSE IF child.kind # "blob" \/ Len(seen.files) >= MaxFiles \/ seen.total + child.size > MaxTotalFiles THEN Failed
                 ELSE [counted EXCEPT !.files = Append(@, [path |-> path, oid |-> entry.oid]), !.total = @ + child.size]
         IN  WalkEntries(dir, entries, parent, ancestors, next, i + 1)

SizeOf(dir, oids) ==
    LET sum[s \in SUBSET oids] == IF s = {} THEN 0 ELSE LET o == CHOOSE o \in s : TRUE IN dir[o].size + sum[s \ {o}]
    IN  sum[oids]

\* expand_objects: the commit's tree, walked; every object present was reached.
ExpandObjects(commit, dir) ==
    IF commit \notin DOMAIN dir \/ SizeOf(dir, {o \in DOMAIN dir : dir[o].kind = "tree"}) > MaxTotalTree THEN Failed
    ELSE IF dir[commit].kind # "commit" \/ ~CommitTreeOk(dir[commit]) THEN Failed
    ELSE LET walked == Walk(dir, CommitTree(dir[commit]), <<>>, {}, [Nothing EXCEPT !.reached = {commit}])
         IN  IF walked.reached = DOMAIN dir THEN walked ELSE Failed

\* load_object_directory: read every file, then expand.
LoadObjectDirectory(commit, dir) ==
    IF \A oid \in DOMAIN dir : ReadObjectOk(oid, dir[oid]) THEN ExpandObjects(commit, dir) ELSE Failed

-----------------------------------------------------------------------------
(***************************************************************************)
(* The reference: a path resolves to an object when its names lead there   *)
(* from the commit's tree, one entry after the other.                      *)
(***************************************************************************)
Entries(dir, oid) ==
    IF oid \in DOMAIN dir /\ dir[oid].kind = "tree" THEN {dir[oid].entries[i] : i \in 1 .. Len(dir[oid].entries)} ELSE {}
Resolve(dir, root, names) ==
    LET reach[i \in 0 .. Len(names)] ==
            IF i = 0 THEN {[mode |-> "40000", oid |-> root]}
            ELSE UNION {{[mode |-> e.mode, oid |-> e.oid] : e \in {e \in Entries(dir, at.oid) : at.mode = "40000" /\ e.name = names[i]}}
                        : at \in reach[i - 1]}
    IN  reach[Len(names)]
Paths(names) == UNION {[1 .. n -> names] : n \in 1 .. MaxDepth}

(***************************************************************************)
(* What load_object_directory accepts is a checkout: every path leads to   *)
(* at most one object, the listed files and directories are exactly the    *)
(* paths that resolve, each file's object is a blob whose bytes hash to    *)
(* its name, and no object of the directory is left over.                  *)
(***************************************************************************)
ExpansionIsTheCheckout(commit, dir, names) ==
    LET loaded == LoadObjectDirectory(commit, dir)
        root == CommitTree(dir[commit])
        leads(path) == Resolve(dir, root, path)
        files == {[path |-> path, oid |-> at.oid] : path \in Paths(names), at \in [mode : {"100644"}, oid : DOMAIN dir]}
    IN  loaded.ok =>
            /\ \A path \in Paths(names) : Cardinality(leads(path)) <= 1
            /\ {loaded.files[i] : i \in 1 .. Len(loaded.files)}
                   = {file \in files : [mode |-> "100644", oid |-> file.oid] \in leads(file.path)}
            /\ {loaded.directories[i] : i \in 1 .. Len(loaded.directories)}
                   = {path \in Paths(names) : \E at \in leads(path) : at.mode = "40000"}
            /\ \A i \in 1 .. Len(loaded.files) : dir[loaded.files[i].oid].kind = "blob"
            /\ \A oid \in DOMAIN dir :
                  /\ dir[oid].hash = oid
                  /\ \/ oid \in {commit, root}
                     \/ \E path \in Paths(names) : \E at \in leads(path) : at.oid = oid
=============================================================================
