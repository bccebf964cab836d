-------------------------------- MODULE Vfs ---------------------------------
(***************************************************************************)
(* unikernel/boot/vfs.c: the guest's file surface, the union of the        *)
(* tar archive in the image and a disk that may or may not be there,       *)
(* with nl_open, the descriptor ranges, directory listing, the working     *)
(* directory and the POSIX names above them, and close(2) of               *)
(* unikernel/boot/platform_x86.c.                                          *)
(*                                                                         *)
(* A path is a sequence of components.  The archive is a list of headers   *)
(* [name, type, size, whole]: the name after fs_norm, "file", "dir" (a '5' *)
(* entry, whose trailing slash is stripped) or "link", the size field, and *)
(* whether that many bytes are left.  Name fields never overflow.          *)
(*                                                                         *)
(* The disk layer is unikernel/fs/disk.nu over stdlib/fs/fatfs.nu, mounted *)
(* for writing: entries with a size, directories, and handles that keep a  *)
(* position and a size of their own, which the entry learns at fsync and   *)
(* close.  Left out: sectors and clusters, a full medium, the dot entries. *)
(* A program does not remove, rename or replace what it has open on the    *)
(* disk, and renames files only.                                           *)
(*                                                                         *)
(* A directory record takes Rec[name] eight-byte units of the caller's     *)
(* buffer, whose length is a multiple of eight.                            *)
(***************************************************************************)
EXTENDS Integers, Sequences, FiniteSets, SequencesExt

CONSTANTS
    Archives,    \* the images the guest may have been built with
    Disks,       \* bound: initial disks, [ready, files, dirs]
    Inputs,      \* bound: the paths a program asks for, [abs, c]
    NameOrder,   \* the order of a disk directory's slots
    Rec,         \* Rec[name]: units of a directory record
    BufLen,      \* units of the buffer of readdir
    Reserve,     \* units getdents reserves before it reads a name
    FsMaxOpen,   \* FS_MAX_OPEN
    DirMax,      \* VFS_IFSDIR_MAX
    DiskMax,     \* fatfs_max_open
    OpenFlags,   \* bound: the flags of the opens that go to the disk alone
    MaxSize,     \* bound: the size of a disk file, and how far a program seeks
    MaxOps       \* bound: calls of the program

-----------------------------------------------------------------------------
(* unikernel/boot/initfs.c: the archive as a list and as a tree.             *)

\* fs_norm_dir and the folding half of vfs_resolve: "." is dropped, ".." pops.
Fold(raw) ==
    LET Step(acc, c) == CASE c = "."  -> acc
                          [] c = ".." -> IF acc = <<>> THEN acc ELSE Front(acc)
                          [] OTHER    -> Append(acc, c)
    IN FoldLeft(Step, <<>>, raw)

\* The headers a walk reaches: it stops at the first impossible size.
Reached(arc) ==
    {i \in DOMAIN arc : \A j \in 1..i : arc[j].whole}

First(S) == CHOOSE i \in S : \A j \in S : i <= j

\* fs_lookup: the index of the regular file of this name, or 0.
Lookup(arc, path) ==
    LET hits == {i \in Reached(arc) : arc[i].type = "file" /\ arc[i].name = Fold(path)}
    IN IF hits = {} THEN 0 ELSE First(hits)

\* fs_child_of: a name strictly below `dir`; its next component.
Below(dir, name) == Len(name) > Len(dir) /\ IsPrefix(dir, name)
Child(dir, name) == name[Len(dir) + 1]

\* Only an entry of its own makes a directory.
ListedKind(arc, path) ==
    LET hits == {i \in Reached(arc) : arc[i].name = Fold(path)}
    IN IF Fold(path) = <<>> THEN 2
       ELSE IF hits = {} THEN 0 ELSE IF arc[First(hits)].type = "dir" THEN 2 ELSE 1
\* ifs_kind: 0 missing, 1 file, 2 directory; the first header that settles it.
Kind(arc, path) ==
    LET dir  == Fold(path)
        hits == {i \in Reached(arc) : arc[i].name = dir \/ Below(dir, arc[i].name)}
    IN IF dir = <<>> THEN 2
       ELSE IF hits = {} THEN 0
       ELSE IF arc[First(hits)].name = dir /\ arc[First(hits)].type # "dir" THEN 1 ELSE 2

\* ifs_dirent, for every index: the children in the order of the headers that
\* first name them.
Dirents(arc, path) ==
    LET dir   == Fold(path)
        hits  == {i \in Reached(arc) : Below(dir, arc[i].name)}
        fresh == {i \in hits : \A j \in hits :
                    Child(dir, arc[j].name) = Child(dir, arc[i].name) => i <= j}
        order == SetToSortSeq(fresh, <)
    IN [k \in DOMAIN order |-> Child(dir, arc[order[k]].name)]

\* The child's is_dir is whether THAT header's name goes on below it.
DirentIsDir(arc, path, name) ==
    LET dir == Fold(path)
        i == First({k \in Reached(arc) : Below(dir, arc[k].name)
                                           /\ Child(dir, arc[k].name) = name})
    IN Len(arc[i].name) > Len(dir) + 1

\* fatfs_seek: anywhere at or past the start; negative: refused.
DiskSeekTo(size, pos, off, whence) ==
    off + CASE whence = 0 -> 0 [] whence = 1 -> pos [] OTHER -> size
\* ifs_lseek: the same, and the position clamps to the file's end.
SeekTo(size, pos, off, whence) ==
    LET to == DiskSeekTo(size, pos, off, whence) IN IF to > size THEN size ELSE to
-----------------------------------------------------------------------------
VARIABLES
    arc,     \* the image's archive
    disk,    \* [ready, files, dirs]: files maps a path to its size
    ifs,     \* ifs[i]: archive file i, NoFile or [path, pos]
    dh,      \* dh[i]: FatFile i, NoFile or [path, pos, dir, flags, size, dirty]
    dirs,    \* dirs[i]: union directory i, NoFile or its cursor
    held,    \* descriptors the program has opened and not closed
    cwd,     \* vfs_cwd
    ops

vars == <<arc, disk, ifs, dh, dirs, held, cwd, ops>>

NoFile == [path |-> <<"none">>]
Free(table) == {i \in DOMAIN table : table[i] = NoFile}
Fd(t, i) == [t |-> t, i |-> i]

Init ==
    /\ arc \in Archives /\ disk \in Disks
    /\ ifs = [i \in 1..FsMaxOpen |-> NoFile] /\ dh = [i \in 1..DiskMax |-> NoFile]
    /\ dirs = [i \in 1..DirMax |-> NoFile]
    /\ held = {} /\ cwd = <<>> /\ ops = 0

Call == ops < MaxOps /\ ops' = ops + 1

\* vfs_resolve.
Resolve(p) == IF p.abs THEN Fold(p.c) ELSE Fold(cwd \o p.c)

-----------------------------------------------------------------------------
(* The disk.                                                               *)

\* fatfs_exists, fatfs_is_dir.
DiskFile(p) == disk.ready /\ p \in DOMAIN disk.files
DiskDir(p) == disk.ready /\ (p = <<>> \/ p \in disk.dirs)
DiskExists(p) == DiskFile(p) \/ DiskDir(p)
Under(p) == {n \in Range(NameOrder) : DiskExists(Append(p, n))}
WithSize(p, n) == [disk EXCEPT !.files = [q \in DOMAIN disk.files \union {p} |->
                                            IF q = p THEN n ELSE disk.files[q]]]
Without(p) == [disk EXCEPT !.files = [q \in DOMAIN disk.files \ {p} |-> disk.files[q]]]

\* fatfs_open, before it looks for a handle: O_EXCL counts with O_CREAT only, and a
\* directory, the root among them, is opened for reading.
DiskOpens(p, flags) ==
    /\ disk.ready
    /\ DiskDir(p) => "write" \notin flags
    /\ \/ p = <<>>
       \/ DiskExists(p) /\ ~({"creat", "excl"} \subseteq flags)
       \/ p # <<>> /\ DiskDir(Front(p)) /\ ~DiskExists(p) /\ "creat" \in flags

\* The handle of an entry; O_TRUNC empties the file through it.
DiskHandle(p, flags) ==
    [path |-> p, pos |-> 0, dir |-> DiskDir(p), flags |-> flags,
     size |-> IF DiskFile(p) /\ "trunc" \notin flags THEN disk.files[p] ELSE 0,
     dirty |-> "trunc" \in flags]

\* __flush_meta: the entry catches up with its handle.
Flushed(f) == IF f.dirty THEN WithSize(f.path, f.size) ELSE disk

-----------------------------------------------------------------------------
(* nl_open                                                                 *)

\* A new entry is made before a handle is looked for, and stays without one.
OpenDisk(p, flags) ==
    /\ DiskOpens(p, flags)
    /\ disk' = IF DiskExists(p) THEN disk ELSE WithSize(p, 0)
    /\ IF Free(dh) = {} THEN UNCHANGED <<dh, held>>
       ELSE LET i == First(Free(dh)) IN
            /\ dh' = [dh EXCEPT ![i] = DiskHandle(p, flags)]
            /\ held' = held \union {Fd("disk", i)}
    /\ UNCHANGED <<arc, ifs, dirs, cwd>>

\* The disk is asked first: the shadowing the header rules out.
DiskFirstOpenRead(p0) ==
    LET p == Resolve(p0) IN
    /\ Call
    /\ OpenDisk(p, {})

\* A read of a name the image holds is served from the image; any refusal of
\* ifs_open, a full table's EMFILE as well, goes on to the disk.
OpenRead(p0) ==
    LET p == Resolve(p0) IN
    /\ Call
    /\ IF Lookup(arc, p) # 0 /\ Free(ifs) # {}
       THEN LET i == First(Free(ifs)) IN
            /\ ifs' = [ifs EXCEPT ![i] = [path |-> p, pos |-> 0]]
            /\ held' = held \union {Fd("ifs", i)}
            /\ UNCHANGED <<arc, disk, dh, dirs, cwd>>
       ELSE OpenDisk(p, {})

\* wants_write: for writing, or to create.
OpenWrite(p0, flags) ==
    /\ Call
    /\ OpenDisk(Resolve(p0), flags)

\* mkstemp: the next name of the sequence nobody has yet, by O_EXCL.
Mkstemp ==
    LET own  == {"write", "creat", "excl"}
        free == {k \in DOMAIN NameOrder : DiskOpens(Append(cwd, NameOrder[k]), own)} IN
    /\ Call /\ free # {}
    /\ OpenDisk(Append(cwd, NameOrder[First(free)]), own)

HaveArch(p) == Kind(arc, p) = 2 /\ arc # <<>>

\* ifsdir_open, and the disk's own handle when the table is full.
OpenDir(p0) ==
    LET p == Resolve(p0)
        h == IF DiskDir(p) /\ Free(dh) # {} THEN First(Free(dh)) ELSE 0
        opened == IF h = 0 THEN dh ELSE [dh EXCEPT ![h] = DiskHandle(p, {})]
    IN
    /\ Call
    /\ HaveArch(p) \/ h # 0
    /\ dh' = opened
    /\ IF Free(dirs) # {}
       THEN LET i == First(Free(dirs)) IN
            /\ dirs' = [dirs EXCEPT ![i] = [path |-> p, cursor |-> IF HaveArch(p) THEN 0 ELSE Len(arc),
                                            h |-> h, listed |-> <<>>, over |-> FALSE,
                                            was |-> IF h = 0 THEN {} ELSE Under(p)]]
            /\ held' = held \union {Fd("dir", i)}
       ELSE /\ h # 0
            /\ held' = held \union {Fd("disk", h)}
            /\ UNCHANGED dirs
    /\ UNCHANGED <<arc, disk, ifs, cwd>>

-----------------------------------------------------------------------------
(* Reading, writing and positions.                                         *)

Open(t) == {fd \in held : fd.t = t}
FileOf(fd) == IF fd.t = "ifs" THEN ifs[fd.i] ELSE dh[fd.i]
SizeOf(fd) == IF fd.t = "ifs" THEN arc[Lookup(arc, ifs[fd.i].path)].size ELSE dh[fd.i].size

\* One unit is read, or the position is set.
Move(fd, pos) ==
    IF fd.t = "ifs" THEN ifs' = [ifs EXCEPT ![fd.i].pos = pos] /\ UNCHANGED dh
    ELSE dh' = [dh EXCEPT ![fd.i].pos = pos] /\ UNCHANGED ifs
Read(fd) ==
    /\ Call /\ fd.t # "dir" /\ (fd.t = "disk" => ~dh[fd.i].dir)
    /\ FileOf(fd).pos < SizeOf(fd)
    /\ Move(fd, FileOf(fd).pos + 1)
    /\ UNCHANGED <<arc, disk, dirs, held, cwd>>
Lseek(fd, off, whence) ==
    /\ Call /\ fd.t # "dir"
    /\ LET at == FileOf(fd).pos
           to == IF fd.t = "ifs" THEN SeekTo(SizeOf(fd), at, off, whence)
                 ELSE DiskSeekTo(SizeOf(fd), at, off, whence) IN
       /\ to >= 0 /\ to # at /\ to <= MaxSize
       /\ Move(fd, to)
    /\ UNCHANGED <<arc, disk, dirs, held, cwd>>

\* fs_write_fd: an archive descriptor is EROFS.
Writable(fd) == fd.t = "disk" /\ ~dh[fd.i].dir /\ "write" \in dh[fd.i].flags
\* fatfs_write_raw, one unit: O_APPEND moves to the end first, a gap is filled with zeros.
Written(f, at) ==
    LET to == 1 + IF "append" \in f.flags THEN f.size ELSE at
    IN [f EXCEPT !.pos = to, !.size = IF to > @ THEN to ELSE @, !.dirty = TRUE]
Handle(fd, f) ==
    /\ f.size <= MaxSize
    /\ dh' = [dh EXCEPT ![fd.i] = f]
    /\ UNCHANGED <<arc, disk, ifs, dirs, held, cwd>>
Write(fd) ==
    /\ Call /\ Writable(fd)
    /\ Handle(fd, Written(dh[fd.i], dh[fd.i].pos))
\* pwrite seeks, writes and puts the position back.
Pwrite(fd, off) ==
    /\ Call /\ Writable(fd)
    /\ Handle(fd, [Written(dh[fd.i], off) EXCEPT !.pos = dh[fd.i].pos])
\* ftruncate: the handle's size; the entry catches up later.
Ftruncate(fd, len) ==
    /\ Call /\ Writable(fd) /\ len # dh[fd.i].size
    /\ Handle(fd, [dh[fd.i] EXCEPT !.size = len, !.dirty = TRUE])
\* truncate: the entry's size, behind any handle's back; growing needs a handle.
Truncate(p0, len) ==
    LET p == Resolve(p0) IN
    /\ Call /\ DiskFile(p) /\ len # disk.files[p]
    /\ len > disk.files[p] => Free(dh) # {}
    /\ disk' = WithSize(p, len)
    /\ UNCHANGED <<arc, ifs, dh, dirs, held, cwd>>
Fsync(fd) ==
    /\ Call /\ fd.t = "disk" /\ dh[fd.i].dirty
    /\ disk' = Flushed(dh[fd.i])
    /\ dh' = [dh EXCEPT ![fd.i].dirty = FALSE]
    /\ UNCHANGED <<arc, ifs, dirs, held, cwd>>

\* close(2): a file goes to fs_close_fd; a union directory is not a file
\* descriptor to fs_is_file_fd, so nothing below is told.
Close(fd) ==
    /\ Call
    /\ held' = held \ {fd}
    /\ CASE fd.t = "ifs"  -> ifs' = [ifs EXCEPT ![fd.i] = NoFile] /\ UNCHANGED <<disk, dh>>
         [] fd.t = "disk" -> /\ disk' = Flushed(dh[fd.i])
                             /\ dh' = [dh EXCEPT ![fd.i] = NoFile] /\ UNCHANGED ifs
         [] fd.t = "dir"  -> UNCHANGED <<disk, ifs, dh>>
    /\ UNCHANGED <<arc, dirs, cwd>>

-----------------------------------------------------------------------------
(* vfs_ifs_getdents: one buffer of records.                                *)

\* What the directory has left, the archive's entries first.
Left(d) ==
    LET own  == Dirents(arc, d.path)
        arch == IF d.cursor >= Len(own) THEN <<>> ELSE SubSeq(own, d.cursor + 1, Len(own))
        from == IF d.h = 0 THEN <<>> ELSE SubSeq(NameOrder, dh[d.h].pos + 1, Len(NameOrder))
    IN [k \in DOMAIN arch |-> [name |-> arch[k], slot |-> 0]]
       \o SelectSeq([k \in DOMAIN from |-> [name |-> from[k], slot |-> dh[d.h].pos + k]],
                    LAMBDA e : e.name \in Under(d.path))

\* A name both filesystems hold would be listed twice.
NeverShadowed(d, e) == FALSE
\* vfs_ifs_has: the archive already listed this name.
Shadowed(d, e) == e.slot > 0 /\ e.name \in Range(Dirents(arc, d.path))

\* The name is read, and its cursor moved, before its record is known to fit: one
\* that does not is dropped, and the buffer ends.  `dup`: it is not to be listed.
Placed(acc, e, dup) ==
    LET seen == IF e.slot > 0 THEN [acc EXCEPT !.slot = e.slot]
                ELSE [acc EXCEPT !.cursor = @ + 1]
    IN IF acc.used + Rec[e.name] > BufLen THEN [seen EXCEPT !.stop = TRUE]
       ELSE IF dup THEN seen
       ELSE [seen EXCEPT !.used = @ + Rec[e.name], !.out = Append(@, e.name)]

\* One turn of the loop.
Take(d, acc, e) ==
    IF acc.stop \/ acc.used + Reserve > BufLen THEN [acc EXCEPT !.stop = TRUE]
    ELSE Placed(acc, e, Shadowed(d, e))

Getdents(fd) ==
    LET d == dirs[fd.i]
        start == [used |-> 0, stop |-> FALSE, cursor |-> d.cursor, out |-> <<>>,
                  slot |-> IF d.h = 0 THEN 0 ELSE dh[d.h].pos]
        Step(acc, e) == Take(d, acc, e)
        end == FoldLeft(Step, start, Left(d)) IN
    /\ Call /\ fd.t = "dir" /\ ~d.over
    /\ dirs' = [dirs EXCEPT ![fd.i].cursor = end.cursor, ![fd.i].listed = @ \o end.out,
                            ![fd.i].over = (end.out = <<>>),
                            ![fd.i].was = @ \intersect Under(d.path)]
    /\ dh' = IF d.h = 0 THEN dh ELSE [dh EXCEPT ![d.h].pos = end.slot]
    /\ UNCHANGED <<arc, disk, ifs, held, cwd>>

\* vfs_getdents64: a handle of the disk's own, when the union's were taken.
DiskGetdents(fd) ==
    LET p == dh[fd.i].path
        left == SelectSeq([k \in DOMAIN NameOrder |-> [name |-> NameOrder[k], slot |-> k]],
                          LAMBDA e : e.slot > dh[fd.i].pos /\ e.name \in Under(p))
        Step(acc, e) == IF acc.stop \/ acc.used + Reserve > BufLen
                        THEN [acc EXCEPT !.stop = TRUE] ELSE Placed(acc, e, FALSE)
        end == FoldLeft(Step, [used |-> 0, stop |-> FALSE, out |-> <<>>, slot |-> dh[fd.i].pos], left) IN
    /\ Call /\ fd.t = "disk" /\ dh[fd.i].dir /\ left # <<>>
    /\ dh' = [dh EXCEPT ![fd.i].pos = end.slot]
    /\ UNCHANGED <<arc, disk, ifs, dirs, held, cwd>>

-----------------------------------------------------------------------------
(* Names.                                                                  *)

Chdir(p0) ==
    LET p == Resolve(p0) IN
    /\ Call
    /\ Kind(arc, p) = 2 \/ DiskDir(p)
    /\ p # cwd /\ cwd' = p
    /\ UNCHANGED <<arc, disk, ifs, dh, dirs, held>>

\* What the program has open on the disk it does not remove, rename or replace.
InUse(p) == \E i \in DOMAIN dh : dh[i].path = p
Unlink(p0) ==
    LET p == Resolve(p0) IN
    /\ Call /\ DiskFile(p) /\ ~InUse(p)
    /\ disk' = Without(p)
    /\ UNCHANGED <<arc, ifs, dh, dirs, held, cwd>>
Rename(a0, b0) ==
    LET a == Resolve(a0)
        b == Resolve(b0) IN
    /\ Call /\ DiskFile(a) /\ ~InUse(a) /\ ~DiskDir(b) /\ ~InUse(b) /\ DiskDir(Front(b))
    /\ a # b
    /\ disk' = [disk EXCEPT !.files = [q \in (DOMAIN @ \ {a}) \union {b} |->
                                         IF q = b THEN @[a] ELSE @[q]]]
    /\ UNCHANGED <<arc, ifs, dh, dirs, held, cwd>>
Mkdir(p0) ==
    LET p == Resolve(p0) IN
    /\ Call /\ disk.ready /\ ~DiskExists(p) /\ DiskDir(Front(p))
    /\ disk' = [disk EXCEPT !.dirs = @ \union {p}]
    /\ UNCHANGED <<arc, ifs, dh, dirs, held, cwd>>
Rmdir(p0) ==
    LET p == Resolve(p0) IN
    /\ Call /\ p \in disk.dirs /\ disk.ready /\ Under(p) = {} /\ ~InUse(p)
    /\ disk' = [disk EXCEPT !.dirs = @ \ {p}]
    /\ UNCHANGED <<arc, ifs, dh, dirs, held, cwd>>

Next ==
    \/ \E p \in Inputs : \/ OpenRead(p) \/ OpenDir(p) \/ Chdir(p) \/ Unlink(p)
                         \/ Mkdir(p) \/ Rmdir(p)
                         \/ \E len \in {0, MaxSize} : Truncate(p, len)
                         \/ \E flags \in OpenFlags : OpenWrite(p, flags)
                         \/ \E q \in Inputs : Rename(p, q)
    \/ Mkstemp
    \/ \E fd \in held : \/ Read(fd) \/ Close(fd) \/ Getdents(fd)
                        \/ \E off \in {-1, 1}, whence \in 0..2 : Lseek(fd, off, whence)
                        \/ Write(fd) \/ Pwrite(fd, 0) \/ DiskGetdents(fd)
                        \/ Fsync(fd) \/ Ftruncate(fd, 0)

Spec == Init /\ [][Next]_vars

-----------------------------------------------------------------------------
(* What a caller learns without opening.                                   *)

\* vfs_stat_path: 0 missing, 1 file, 2 directory.  An empty image has no root.
StatKind(p) ==
    LET k == Kind(arc, p) IN
    IF k # 0 /\ ~(k = 2 /\ arc = <<>>) THEN k
    ELSE IF DiskDir(p) THEN 2 ELSE IF DiskFile(p) THEN 1 ELSE 0

\* access(2) with F_OK, on the path as it was given.
Access(p0) ==
    LET raw == Fold(p0.c) IN DiskExists(raw) \/ Lookup(arc, raw) # 0

-----------------------------------------------------------------------------
(* Properties.                                                             *)

TypeOK ==
    /\ held \subseteq [t : {"ifs", "disk", "dir"}, i : Nat]
    /\ \A fd \in Open("ifs") : ifs[fd.i] # NoFile
    /\ \A fd \in Open("disk") : dh[fd.i] # NoFile
    /\ ops \in 0..MaxOps

\* nl_open's precedence, for as long as the archive has a free descriptor: an open
\* neither to write nor to create, of a name the image holds, is not served from the
\* disk, whatever the disk has picked up under that name.  Without a free one it is,
\* against what the head of vfs.c says of every such read: ifs_open's EMFILE is
\* taken for a miss.
ServedInOrder ==
    \A i \in DOMAIN dh :
        (dh[i] = NoFile /\ dh'[i] # NoFile /\ Free(ifs) # {})
        => \/ dh'[i].dir \/ {"write", "creat"} \intersect dh'[i].flags # {}
           \/ Lookup(arc, dh'[i].path) = 0

\* vfs_ifs_getdents: a listing read to its end has no name twice and leaves
\* out no child of the archive and none the disk had all along, however its
\* records fell into buffers and whatever the two share, save one whose
\* record is longer than the reservation: such a name, reached with less
\* than its record left, is dropped.
ListingExact ==
    \A i \in DOMAIN dirs : (dirs[i] # NoFile /\ dirs[i].over) =>
        LET d == dirs[i]
            own == IF HaveArch(d.path) THEN Range(Dirents(arc, d.path)) ELSE {}
        IN /\ IsInjective(d.listed)
           /\ \A name \in own \union d.was : name \in Range(d.listed) \/ Rec[name] > Reserve

\* vfs_stat_path and nl_open against the tree the names spell: where the
\* image and the disk do not hold different kinds under one name, stat says
\* directory exactly when the image has an entry at or below the path, or the
\* disk a directory, and says file exactly when an open for reading is served,
\* or the image holds a member that is neither: such a link is a file to stat
\* (ifs_kind) and nothing to open (fs_lookup), which goes on to the disk.
StatAgreesWithTree ==
    \A p0 \in Inputs :
        LET p == Resolve(p0)
            tree == \E i \in Reached(arc) : \/ Below(p, arc[i].name)
                                             \/ (p = arc[i].name /\ arc[i].type = "dir")
            leaf == Lookup(arc, p) # 0 
                    \/ \E i \in Reached(arc) : arc[i].name = p /\ arc[i].type = "link"
        IN \/ (leaf /\ DiskDir(p)) \/ (tree /\ DiskFile(p))
           \/ /\ (StatKind(p) = 2) <=> (tree \/ DiskDir(p))
              /\ (StatKind(p) = 1) <=> (leaf \/ DiskFile(p))

\* closedir(3) gives the directory back: a union directory the program no
\* longer holds does not occupy one of the VFS_IFSDIR_MAX slots.
DirSlotsReturned ==
    \A i \in DOMAIN dirs : dirs[i] # NoFile => Fd("dir", i) \in held
=============================================================================
