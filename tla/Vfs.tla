-------------------------------- MODULE Vfs ----------------------------------
(***************************************************************************)
(* The file system (vfs/mod.rs, tmpfs.rs, ext4fs.rs): a writable tree of   *)
(* nodes in memory laid over a read-only ext4 image that is part of the    *)
(* kernel.  Operators on the tree, which Files applies.  A node is a       *)
(* reference counted object: it lives while a name or an open file holds   *)
(* it.  Owners, modes, inode numbers and sizes of listings are left out.   *)
(***************************************************************************)
EXTENDS Integers, FiniteSets, FiniteSetsExt, SequencesExt

CONSTANTS
    Names,      \* the components of paths
    Paths,      \* bound: the paths that calls name
    MaxDepth,   \* bound: components of a path
    MaxNodes,   \* bound: nodes alive at one time, the root included
    Image,      \* the files of the ext4 image: path -> contents
    EmptyDirs   \* the directories of the image with nothing in them, as lost+found

AllPaths == UNION {[1..n -> Names] : n \in 1..MaxDepth}
Root == 1
Ids == 1..MaxNodes
None == 0
Free == [kind |-> "free"]
Content == Seq({0, 1})

ASSUME VfsAssumption ==
    /\ IsFiniteSet(Names) /\ MaxDepth \in Nat \ {0} /\ MaxNodes \in Nat \ {0}
    /\ Paths \subseteq AllPaths
    /\ DOMAIN Image \subseteq AllPaths /\ \A p \in DOMAIN Image : Image[p] \in Content
    /\ EmptyDirs \subseteq AllPaths \ DOMAIN Image

EmptyDir == [kind |-> "dir", kids |-> [n \in Names |-> None]]
NewFile == [kind |-> "file", data |-> <<>>, nlink |-> 1]

IsDir(ns, id) == id # None /\ ns[id].kind = "dir"
IsFile(ns, id) == id # None /\ ns[id].kind = "file"

FreeIds(ns) == {id \in Ids : ns[id] = Free}

\* vfs::init; the standard directories are not told apart from others.
VfsInit == [id \in Ids |-> IF id = Root THEN EmptyDir ELSE Free]

Kids(ns, S) == {ns[d].kids[n] : d \in {e \in S : IsDir(ns, e)}, n \in Names} \ {None}

\* The nodes below those in S, S included.
Below(ns, S) ==
    LET level[n \in 0..MaxNodes] ==
            IF n = 0 THEN S ELSE LET above == level[n - 1] IN above \cup Kids(ns, above)
    IN  level[MaxNodes]

\* The last reference dropped frees the node.
Collect(ns, held) ==
    [id \in Ids |-> IF id \in Below(ns, held \cup {Root}) THEN ns[id] ELSE Free]

-----------------------------------------------------------------------------
(* The image. *)

ext4_read_file(p) == IF p \in DOMAIN Image THEN <<Image[p]>> ELSE <<>>

ImageLeaves == DOMAIN Image \cup EmptyDirs

ImageDirs ==
    EmptyDirs \cup
    ((UNION {{SubSeq(p, 1, n) : n \in 1..(Len(p) - 1)} : p \in ImageLeaves}) \ DOMAIN Image)

ext4_list_dir(p) == {n \in Names : Append(p, n) \in DOMAIN Image \cup ImageDirs}

ext4_exists(p) == p \in DOMAIN Image \cup ImageDirs

-----------------------------------------------------------------------------
(* The tree.  An optional result is a sequence of length 0 or 1.           *)

\* The node of a path, None if there is none.
lookup(ns, path) ==
    LET at[n \in 0..Len(path)] ==
            IF n = 0 THEN Root
            ELSE LET dir == at[n - 1] IN IF IsDir(ns, dir) THEN ns[dir].kids[path[n]] ELSE None
    IN  at[Len(path)]

Parent(ns, path) == lookup(ns, Front(path))

\* create_file and mkdir: what the name already holds, or the new node.
Create(ns, path, node) ==
    LET d == Parent(ns, path)
        new == Min(FreeIds(ns))
    IN  CASE ~IsDir(ns, d) -> [ns |-> ns, id |-> None]
          [] IsDir(ns, d) /\ ns[d].kids[Last(path)] # None ->
               [ns |-> ns, id |-> ns[d].kids[Last(path)]]
          [] OTHER -> [ns |-> [ns EXCEPT ![new] = node, ![d].kids[Last(path)] = new],
                       id |-> new]

create_file(ns, path) == Create(ns, path, NewFile)
mkdir(ns, path) == Create(ns, path, EmptyDir)

read_file(ns, path) ==
    LET id == lookup(ns, path) IN IF IsFile(ns, id) THEN <<ns[id].data>> ELSE <<>>

list_dir(ns, path) ==
    LET id == lookup(ns, path)
    IN  IF IsDir(ns, id) THEN {n \in Names : ns[id].kids[n] # None} ELSE {}

Detach(ns, path) == [ns EXCEPT ![Parent(ns, path)].kids[Last(path)] = None]

\* unlink and rmdir: with allow_dir a file may be removed too.
remove_entry(ns, path, allow_dir) ==
    LET d == Parent(ns, path)
        id == lookup(ns, path)
    IN  CASE ~IsDir(ns, d) \/ id = None -> [ns |-> ns, ret |-> "ENOENT"]
          [] IsDir(ns, d) /\ IsDir(ns, id) /\ ~allow_dir -> [ns |-> ns, ret |-> "EISDIR"]
          [] IsDir(ns, d) /\ IsDir(ns, id) /\ allow_dir /\ Kids(ns, {id}) # {} ->
               [ns |-> ns, ret |-> "ENOTEMPTY"]
          [] OTHER -> [ns |-> Detach(ns, path), ret |-> "ok"]

\* The node leaves its old name before the new parent is looked at: if that
\* is a file the node is dropped and the call still fails.
rename(ns, old, new) ==
    LET id == lookup(ns, old)
        to == Parent(ns, new)
        gone == Detach(ns, old)
    IN  CASE ~IsDir(ns, Parent(ns, old)) \/ to = None \/ id = None ->
               [ns |-> ns, ret |-> "ENOENT"]
          [] IsDir(ns, Parent(ns, old)) /\ id # None /\ IsDir(ns, to) ->
               [ns |-> [gone EXCEPT ![to].kids[Last(new)] = id], ret |-> "ok"]
          [] OTHER -> [ns |-> gone, ret |-> "ENOENT"]

\* A second name for a file; what the name held before is replaced.
link_vfs(ns, old, new) ==
    LET id == lookup(ns, old)
        to == Parent(ns, new)
    IN  CASE id = None -> [ns |-> ns, ret |-> "ENOENT"]
          [] IsDir(ns, id) -> [ns |-> ns, ret |-> "EPERM"]
          [] IsFile(ns, id) /\ ~IsDir(ns, to) -> [ns |-> ns, ret |-> "ENOENT"]
          [] OTHER -> [ns |-> [ns EXCEPT ![to].kids[Last(new)] = id, ![id].nlink = @ + 1],
                       ret |-> "ok"]

\* Vec::resize with zeroes.
Resize(data, size) == [i \in 1..size |-> IF i <= Len(data) THEN data[i] ELSE 0]

truncate_node(ns, id, size) ==
    IF IsFile(ns, id) THEN [ns EXCEPT ![id].data = Resize(@, size)] ELSE ns

truncate_vfs(ns, path, size) == truncate_node(ns, lookup(ns, path), size)

\* Directories in memory for every proper prefix that is not there yet.
ensure_parent_dirs(ns, path) ==
    LET after[n \in 0..(Len(path) - 1)] ==
            IF n = 0 THEN ns
            ELSE LET dir == SubSeq(path, 1, n)
                     t == after[n - 1]
                 IN  IF lookup(t, dir) = None THEN mkdir(t, dir).ns ELSE t
    IN  after[Len(path) - 1]

\* A plausible bug: the node is made and the contents are not copied.
copy_up_Empty(ns, path) ==
    IF lookup(ns, path) # None \/ ext4_read_file(path) = <<>> THEN [ns |-> ns, id |-> lookup(ns, path)]
    ELSE create_file(ensure_parent_dirs(ns, path), path)

\* A file of the image becomes a node with the same contents.
copy_up(ns, path) ==
    LET made == create_file(ensure_parent_dirs(ns, path), path)
    IN  CASE lookup(ns, path) # None -> [ns |-> ns, id |-> lookup(ns, path)]
          [] lookup(ns, path) = None /\ ext4_read_file(path) = <<>> -> [ns |-> ns, id |-> None]
          [] OTHER -> IF IsFile(made.ns, made.id)
                      THEN [made EXCEPT !.ns[made.id].data = ext4_read_file(path)[1]]
                      ELSE made

open_writable(ns, path, o_creat) ==
    CASE lookup(ns, path) # None -> [ns |-> ns, id |-> lookup(ns, path)]
      [] lookup(ns, path) = None /\ ext4_exists(path) -> copy_up(ns, path)
      [] lookup(ns, path) = None /\ ~ext4_exists(path) /\ o_creat ->
           create_file(ensure_parent_dirs(ns, path), path)
      [] OTHER -> [ns |-> ns, id |-> None]

open_readonly(ns, path) ==
    IF read_file(ns, path) # <<>> THEN read_file(ns, path) ELSE ext4_read_file(path)

is_dir(ns, path) ==
    IF lookup(ns, path) # None THEN IsDir(ns, lookup(ns, path)) ELSE ext4_list_dir(path) # {}

\* access, chdir and stat find a path where exists_any does; a directory of
\* the image counts only if something is in it.
exists_any(ns, path) ==
    \/ lookup(ns, path) # None
    \/ ext4_read_file(path) # <<>>
    \/ ext4_list_dir(path) # {}

\* A plausible bug: a directory of the tree hides that of the image.
Listing_TreeOnly(ns, path) ==
    IF lookup(ns, path) # None THEN list_dir(ns, path) ELSE ext4_list_dir(path)

\* The names getdents64 reports: the tree's and those the image adds.
Listing(ns, path) == list_dir(ns, path) \cup ext4_list_dir(path)
=============================================================================
