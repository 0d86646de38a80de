------------------------------- MODULE Files ---------------------------------
(***************************************************************************)
(* Open files (process/handle.rs, syscall/fd.rs, dev.rs, and the file      *)
(* calls of syscall/fs.rs and syscall/mod.rs) over the tree of Vfs.  There *)
(* is one table of handles for all programs; it is emptied when the kernel *)
(* starts the next one.  A file opened for writing refers to the node; one *)
(* opened for reading is a copy of the contents.  Every call is one step:  *)
(* user programs switch only inside calls.                                 *)
(***************************************************************************)
EXTENDS Vfs

CONSTANTS
    MaxOpens,   \* bound: handles given out since the table was emptied
    MaxLen,     \* bound: bytes of a file, and offsets
    MaxLinks,   \* bound: the link count of a file
    DevKinds    \* the devices that get a handle

ASSUME FilesAssumption ==
    /\ MaxOpens \in 1..6    \* 9 is the number of epoll, 10 the first pipe
    /\ MaxLen \in Nat /\ MaxLinks \in Nat \ {0}
    /\ DevKinds \subseteq {"Full", "Random", "Tty", "Stdin", "Stdout", "Stderr"}

VARIABLES
    nodes,     \* the tree: ROOT and everything it refers to
    handles,   \* FD_TABLE: handle -> resource, for the open ones
    next_id,   \* the next handle
    \* history, of the last call:
    strayPaths,   \* paths that read differently though the call was not about them
    strayHandles  \* handles that read or stand differently, likewise

filesVars == <<nodes, handles, next_id, strayPaths, strayHandles>>

FirstFd == 3
Fds == FirstFd..(FirstFd + MaxOpens - 1)

\* FileResource, live (node # None, opened for writing) or a copy; rights
\* are read and write exactly for the live ones.
Resource == [type : {"file"}, node : Ids \cup {None}, data : Content, pos : 0..(2 * MaxLen)]
            \cup [type : {"dir"}, path : Paths \cup {<<>>}]
            \cup [type : {"dev"}, kind : DevKinds]

FilesTypeOK ==
    /\ \A id \in Ids : nodes[id] # Free =>
          \/ nodes[id].kind = "dir" /\ nodes[id].kids \in [Names -> Ids \cup {None}]
          \/ nodes[id].kind = "file" /\ nodes[id].data \in Content /\ nodes[id].nlink \in Nat
    /\ DOMAIN handles \subseteq Fds
    /\ \A f \in DOMAIN handles : handles[f] \in Resource
    /\ next_id \in FirstFd..(FirstFd + MaxOpens)
    /\ strayPaths \subseteq Paths /\ strayHandles \subseteq Fds

Held(hs) == {hs[f].node : f \in {g \in DOMAIN hs : hs[g].type = "file"}} \ {None}

IsFileFd(f) == f \in DOMAIN handles /\ handles[f].type = "file"
IsLiveFd(f) == IsFileFd(f) /\ handles[f].node # None
IsDirFd(f) == f \in DOMAIN handles /\ handles[f].type = "dir"

\* FileResource::size and the bytes a read would see.
DataIn(ns, r) ==
    CASE r.node = None -> r.data
      [] r.node # None /\ IsFile(ns, r.node) -> ns[r.node].data
      [] OTHER -> <<>>

DataOf(f) == DataIn(nodes, handles[f])

\* What a program reads that opens a path.
View(p) == open_readonly(nodes, p)

\* The paths and the handles that a change of a node's contents is about.
PathsOf(id) == {p \in Paths : id # None /\ lookup(nodes, p) = id}
HandlesOf(id) == {f \in DOMAIN handles : id # None /\ IsFileFd(f) /\ handles[f].node = id}

\* The end of every call: handles and tree change, lost nodes are freed.
\* The call is about the given paths and handles.
Become(ns, hs, paths, fds) ==
    /\ \A id \in Ids : ns[id].kind = "file" => Len(ns[id].data) <= MaxLen /\ ns[id].nlink <= MaxLinks
    /\ handles' = hs
    /\ nodes' = Collect(ns, Held(hs))
    /\ strayPaths' = IF nodes' = nodes THEN {}
                     ELSE {p \in Paths \ paths : open_readonly(nodes', p) # View(p)}
    /\ strayHandles' = {f \in (DOMAIN handles \cap DOMAIN hs) \ fds :
                          \/ hs[f] # handles[f]
                          \/ IsFileFd(f) /\ DataIn(nodes', hs[f]) # DataOf(f)}

\* HandleTable::insert
Insert(ns, r, paths, fds) ==
    /\ next_id < FirstFd + MaxOpens
    /\ Become(ns, [f \in DOMAIN handles \cup {next_id} |-> IF f = next_id THEN r ELSE handles[f]],
              paths, fds)
    /\ next_id' = next_id + 1

\* The bound on nodes leaves room for n more.
Room(n) == Cardinality(FreeIds(nodes)) >= n

\* The combinations of open's flags that it tells apart.
OpenFlags == {fl \in [dir : BOOLEAN, write : BOOLEAN, creat : BOOLEAN, trunc : BOOLEAN] :
                 /\ fl.dir => ~fl.write
                 /\ ~fl.write => ~fl.creat /\ ~fl.trunc}

LiveFile(id) == [type |-> "file", node |-> id, data |-> <<>>, pos |-> 0]
CopiedFile(data) == [type |-> "file", node |-> None, data |-> data, pos |-> 0]
OpenDir(path) == [type |-> "dir", path |-> path]

-----------------------------------------------------------------------------
(* Opening.  The paths below /dev and /proc have their own actions. *)

\* sys_open_impl, as a write request or with O_CREAT.  It is about the
\* path if that is new, and about the node's contents if it truncates.
OpenForWriting(path, o_creat, o_trunc) ==
    LET w == open_writable(nodes, path, o_creat)
        about == (IF View(path) = <<>> \/ o_trunc THEN {path} ELSE {})
                 \cup (IF o_trunc THEN PathsOf(w.id) ELSE {})
    IN  \/ /\ w.id # None
           /\ Insert(IF o_trunc THEN truncate_node(w.ns, w.id, 0) ELSE w.ns, LiveFile(w.id),
                     about, IF o_trunc THEN HandlesOf(w.id) ELSE {})
        \/ w.id = None /\ Become(w.ns, handles, {}, {}) /\ UNCHANGED next_id

OpenForReading(path) ==
    LET data == open_readonly(nodes, path)
    IN  \/ data # <<>> /\ Insert(nodes, CopiedFile(data[1]), {}, {})
        \/ data = <<>> /\ is_dir(nodes, path) /\ Insert(nodes, OpenDir(path), {}, {})

\* A refusal (ENOENT) changes nothing and is left out.
sys_open_impl(path, fl) ==
    \/ fl.dir /\ exists_any(nodes, path) /\ Insert(nodes, OpenDir(path), {}, {})
    \/ /\ ~fl.dir /\ fl.write /\ Room(MaxDepth)
       /\ OpenForWriting(path, fl.creat, fl.trunc)
    \/ ~fl.dir /\ ~fl.write /\ OpenForReading(path)

\* The root, and the directories of /dev and /proc.
OpenRoot == Insert(nodes, OpenDir(<<>>), {}, {})

\* dev::open; /dev/null and /dev/zero are number 99 and have no handle.
OpenDev(kind) == Insert(nodes, [type |-> "dev", kind |-> kind], {}, {})

\* A file of /proc is a copy of text made at the time of the call.
OpenProc == Insert(nodes, CopiedFile(<<1>>), {}, {})

\* creat makes the file but opens none: it returns the number 3.  Of a file
\* of the image it makes an empty one.
sys_creat(path) ==
    /\ Room(1)
    /\ Become(create_file(nodes, path).ns, handles, {path}, {})
    /\ UNCHANGED next_id

sys_close(f) ==
    /\ Become(nodes, [g \in DOMAIN handles \ {f} |-> handles[g]], {}, {})
    /\ UNCHANGED next_id

\* fd::init, called before the next program starts.
ResetTable == Become(nodes, [f \in {} |-> 0], {}, {}) /\ next_id' = FirstFd

-----------------------------------------------------------------------------
(* Reading and writing. *)

SetPos(hs, f, pos) == [hs EXCEPT ![f].pos = pos]

\* min(count, len - pos), with saturation.
Avail(f, pos, count) == Max({0, Min({count, Len(DataOf(f)) - pos})})

\* FileResource::read; devices are not positioned.
sys_read(f, count) ==
    /\ IsFileFd(f)
    /\ Become(nodes, SetPos(handles, f, handles[f].pos + Avail(f, handles[f].pos, count)), {}, {f})
    /\ UNCHANGED next_id

\* FileResource::write_at: count bytes of 1 at pos, zeroes up to there.
WriteAt(data, pos, count) ==
    [i \in 1..Max({Len(data), pos + count}) |->
        IF pos < i /\ i <= pos + count THEN 1 ELSE IF i <= Len(data) THEN data[i] ELSE 0]

\* A live handle of a directory refuses, and so does a copy.
CanWrite(f) == IsLiveFd(f) /\ IsFile(nodes, handles[f].node)

write_fd(f, pos, count) ==
    IF CanWrite(f) THEN [nodes EXCEPT ![handles[f].node].data = WriteAt(@, pos, count)] ELSE nodes

sys_write(f, count) ==
    /\ IsFileFd(f) /\ count > 0
    /\ Become(write_fd(f, handles[f].pos, count),
              IF CanWrite(f) THEN SetPos(handles, f, handles[f].pos + count) ELSE handles,
              PathsOf(handles[f].node), {f} \cup HandlesOf(handles[f].node))
    /\ UNCHANGED next_id

\* Each segment of a writev is written where the one before ended.
sys_writev(f, counts) ==
    LET total[i \in 0..Len(counts)] == IF i = 0 THEN 0 ELSE total[i - 1] + counts[i]
    IN  sys_write(f, total[Len(counts)])

\* Seek, write, seek back: a write of zero bytes past the end still extends
\* the file.  The call is about the contents and not about any position.
SeekBack(f, old_pos) == SetPos(handles, f, old_pos)

sys_pwrite64(f, count, offset) ==
    /\ IsFileFd(f)
    /\ Become(write_fd(f, offset, count), SeekBack(f, handles[f].pos), PathsOf(handles[f].node),
              {g \in HandlesOf(handles[f].node) : SeekBack(f, handles[f].pos)[g] = handles[g]})
    /\ UNCHANGED next_id

\* A plausible bug: the new position is not tested.
sys_lseek_Negative(f, offset, whence) ==
    LET pos == offset + (IF whence = 0 THEN 0 ELSE IF whence = 1 THEN handles[f].pos ELSE Len(DataOf(f)))
    IN  /\ IsFileFd(f) /\ pos <= MaxLen
        /\ Become(nodes, SetPos(handles, f, pos), {}, {f}) /\ UNCHANGED next_id

\* The position may go past the end, never below zero.
sys_lseek(f, offset, whence) ==
    LET pos == offset + CASE whence = 0 -> 0 [] whence = 1 -> handles[f].pos
                          [] whence = 2 -> Len(DataOf(f))
    IN  /\ IsFileFd(f) /\ pos <= MaxLen
        /\ Become(nodes, IF pos < 0 THEN handles ELSE SetPos(handles, f, pos), {}, {f})
        /\ UNCHANGED next_id

sys_ftruncate(f, size) ==
    /\ IsLiveFd(f)
    /\ Become(truncate_node(nodes, handles[f].node, size), handles,
              PathsOf(handles[f].node), HandlesOf(handles[f].node))
    /\ UNCHANGED next_id

-----------------------------------------------------------------------------
(* Calls on paths: about the paths and those below, not about any handle,  *)
(* whose file stays what it is while it is renamed or removed.             *)

OnPaths(ns, paths, fds) ==
    /\ Become(ns, handles, {r \in Paths : \E p \in paths : IsPrefix(p, r)}, fds)
    /\ UNCHANGED next_id

\* A directory has no contents.
sys_mkdir(path) == Room(1) /\ OnPaths(mkdir(nodes, path).ns, {}, {})
sys_rmdir(path) == OnPaths(remove_entry(nodes, path, TRUE).ns, {path}, {})
sys_unlink(path) == OnPaths(remove_entry(nodes, path, FALSE).ns, {path}, {})
sys_rename(old, new) == OnPaths(rename(nodes, old, new).ns, {old, new}, {})
sys_link(old, new) == OnPaths(link_vfs(nodes, old, new).ns, {new}, {})

sys_truncate(path, size) ==
    OnPaths(truncate_vfs(nodes, path, size), PathsOf(lookup(nodes, path)),
            HandlesOf(lookup(nodes, path)))

\* resolve_at: the path a directory handle and a relative path make.
resolve_at(f, path) == handles[f].path \o path

sys_mkdirat(f, path) ==
    IsDirFd(f) /\ resolve_at(f, path) \in Paths /\ sys_mkdir(resolve_at(f, path))

sys_unlinkat(f, path, allow_dir) ==
    /\ IsDirFd(f) /\ resolve_at(f, path) \in Paths
    /\ OnPaths(remove_entry(nodes, resolve_at(f, path), allow_dir).ns, {resolve_at(f, path)}, {})

FilesInit == nodes = VfsInit /\ handles = [f \in {} |-> 0] /\ next_id = FirstFd
             /\ strayPaths = {} /\ strayHandles = {}

FilesNext ==
    \/ \E p \in Paths, fl \in OpenFlags : sys_open_impl(p, fl)
    \/ OpenRoot \/ OpenProc \/ ResetTable
    \/ \E k \in DevKinds : OpenDev(k)
    \/ \E p \in Paths :
          \/ sys_creat(p) \/ sys_mkdir(p) \/ sys_rmdir(p) \/ sys_unlink(p)
          \/ \E size \in 0..MaxLen : sys_truncate(p, size)
    \/ \E p, q \in Paths : sys_rename(p, q) \/ sys_link(p, q)
    \/ \E f \in DOMAIN handles :
          \/ sys_close(f)
          \/ \E n \in 0..MaxLen : sys_read(f, n) \/ sys_write(f, n) \/ sys_ftruncate(f, n)
          \/ sys_writev(f, <<0, 1>>)
          \/ \E n, off \in 0..MaxLen : sys_pwrite64(f, n, off)
          \/ \E off \in -1..1, w \in 0..2 : sys_lseek(f, off, w)
          \/ \E n \in Names : sys_mkdirat(f, <<n>>) \/ \E a \in BOOLEAN : sys_unlinkat(f, <<n>>, a)

FilesSpec == FilesInit /\ [][FilesNext]_filesVars

-----------------------------------------------------------------------------
(* Correctness. *)

\* The names that a node has: a directory and a name in it.
Entries(id) == {e \in Ids \X Names : IsDir(nodes, e[1]) /\ nodes[e[1]].kids[e[2]] = id}

\* Directories form a tree: a directory has one name, the root none, and
\* links, renames (of a directory into its own child, too) and copies from
\* the image never give it a second one.
DirsFormATree ==
    /\ Entries(Root) = {}
    /\ \A id \in Ids \ {Root} : IsDir(nodes, id) => Cardinality(Entries(id)) <= 1

\* A file's link count is never below the number of its names.
NlinkCoversNames ==
    \A id \in Ids : IsFile(nodes, id) => Cardinality(Entries(id)) <= nodes[id].nlink

\* getdents64 lists a name exactly when exists_any finds it, whatever of the
\* tree and of the image lies under the path, but for the empty directories
\* of the image: they are always listed, and exists_any denies them until a
\* call has made them in the tree.
ListingAgreesWithAccess ==
    \A p \in Paths : Len(p) < MaxDepth =>
        \A n \in Names : n \in Listing(nodes, p) <=>
            exists_any(nodes, Append(p, n)) \/ Append(p, n) \in EmptyDirs

\* The tree and the image read as one file system with a sound tree of names.
TreeIsSound == DirsFormATree /\ NlinkCoversNames /\ ListingAgreesWithAccess

\* No call changes what a path or a handle reads, or where a handle stands,
\* that it is not about: opening for writing copies a file of the image with
\* its contents and creates the directories above without hiding anything; a
\* rename, link or removal leaves every path alone that is not below one it
\* names; an open file survives the removal, renaming and replacement of its
\* name, and a positioned write moves no position.
FilesKeepContents == strayPaths = {} /\ strayHandles = {}
=============================================================================
