------------------------------ MODULE GuestMC -------------------------------
(***************************************************************************)
(* Model-checking instance of the parts that stand in for an operating     *)
(* system or adapt to one, where no fairness is needed: the unikernel's    *)
(* files, redirections, heap, page tables, entropy device and device tree, *)
(* the WebAssembly heap and threads, signals, Windows command lines and    *)
(* datagrams.  Each behaviour is one of a single component.                *)
(***************************************************************************)
EXTENDS Integers, Sequences, FiniteSets

CONSTANTS
    Parts

VARIABLES
    part,      \* the component this behaviour is of
    arc, disk, ifs, dh, dirs, held, cwd, ops,
    state, target, alias, saved, shut, dups,
    pa, lists, arena, blocks, calls,
    free, pages, areas, leaked, asks,
    boot, map, page0, frames, pt, maps, spawned, moves,
    bases, status, base, num, avail, used, ring, lastUsed, asked, req, buf, want, pc, at,
    took, silent,
    tree, node, prop, depth, lvl, devs, devices, devBase, ram, args, walked,
    pending, slot, env, armed, pipe, handlers, main, listener, owed, raises,
    kind, argv, done, line, stage,
    prog, m, c, items, where, fib, live, gen, bad,
    strict, noV6, sk, h, inbox, known, answer, lines, sends

\* Archives: a directory before and after its files, names out
\* of order, a link, a member cut short.  Disks without a file system, with files beside
\* the archive's and with the archive's own directory.  The name d takes more than the
\* reservation, and is reached with less than that left of the buffer.
Member(name, type) == [name |-> name, type |-> type, size |-> 2, whole |-> TRUE]
Archives ==
    {<<>>,
     <<Member(<<>>, "dir"), Member(<<"d">>, "dir"), Member(<<"d", "a">>, "file"), Member(<<"b">>, "file"), Member(<<"a">>, "link")>>,
     <<Member(<<"a">>, "file"), Member(<<"d", "b">>, "file"), Member(<<"d", "a">>, "file"),
       [Member(<<"b">>, "file") EXCEPT !.whole = FALSE]>>}
Disks ==
    {[ready |-> FALSE, files |-> <<>>, dirs |-> {}],
     [ready |-> TRUE, files |-> [p \in {<<"a">>, <<"b">>} |-> 1], dirs |-> {}],
     [ready |-> TRUE, files |-> [p \in {<<"d", "a">>, <<"d", "b">>} |-> 1], dirs |-> {<<"d">>}]}
Inputs == {[abs |-> TRUE, c |-> <<>>], [abs |-> FALSE, c |-> <<"a">>],
           [abs |-> TRUE, c |-> <<"d">>], [abs |-> FALSE, c |-> <<"..", "b">>]}
NameOrder == <<"b", "a", "d">>
Rec == [name \in {"a", "b", "d"} |-> CASE name = "a" -> 4 [] name = "d" -> 5 [] OTHER -> 3]
OpenFlags == {{"creat"}, {"write", "creat", "excl"}, {"write", "trunc"}, {"write", "creat", "append"}}

\* What the loader hands over: a PVH map or multiboot2 tags, with the map whole, in two
\* tags, after the end tag, cut off, with short entries or with memory past what is mapped.
Range0(start, length, usable) == [base |-> start, len |-> length, usable |-> usable]
Mmap(es) == [kind |-> "mmap", fits |-> TRUE, wide |-> TRUE, entries |-> es]
Tag(k) == [kind |-> k, fits |-> TRUE, wide |-> TRUE, entries |-> <<>>]
Pvh(es) == [by |-> "pvh", tags |-> <<Mmap(es)>>]
Mb2(ts) == [by |-> "mb2", tags |-> ts]
Handovers ==
    {Pvh(<<>>), Pvh(<<Range0(0, 4, TRUE), Range0(6, 1, TRUE)>>),
     Pvh(<<Range0(0, 2, TRUE), Range0(2, 2, FALSE), Range0(4, 20, TRUE)>>),
     Pvh(<<Range0(3, 9, TRUE), Range0(14, 12, TRUE)>>),
     Pvh(<<Range0(0, 8, TRUE), Range0(28, 12, TRUE)>>), Pvh(<<Range0(0, 8, TRUE), Range0(31, 9, TRUE)>>),
     Mb2(<<Tag("other"), Mmap(<<Range0(0, 3, TRUE), Range0(6, 8, TRUE), Range0(14, 8, TRUE)>>), Tag("end")>>),
     Mb2(<<Mmap(<<Range0(0, 3, TRUE), Range0(6, 8, TRUE)>>),
           Mmap(<<Range0(14, 8, TRUE), Range0(22, 10, TRUE)>>), Tag("end")>>),
     Mb2(<<Mmap(<<Range0(6, 8, TRUE)>>), Tag("end"), Mmap(<<Range0(14, 9, TRUE)>>)>>),
     Mb2(<<Mmap(<<Range0(6, 8, TRUE)>>), [Tag("other") EXCEPT !.fits = FALSE]>>),
     Mb2(<<[Mmap(<<Range0(6, 8, TRUE)>>) EXCEPT !.wide = FALSE]>>), Mb2(<<Tag("end")>>)}

\* Virtio devices behind the bases the platform found.
Entropy(offers, ready, max) == [kind |-> "entropy", offers |-> offers, ready |-> ready, max |-> max]
Net == [kind |-> "net", offers |-> TRUE, ready |-> FALSE, max |-> 8]
Machines == {<<Net, Entropy(TRUE, FALSE, 2)>>, <<Entropy(FALSE, FALSE, 4), Entropy(TRUE, FALSE, 4)>>,
             <<Entropy(TRUE, TRUE, 4)>>, <<Entropy(TRUE, FALSE, 0), Net>>, <<>>}

\* Device trees: cells of the root given or not, in both orders, devices at the root or
\* behind a bus that says its own cells late, with their properties in several orders.
Cells(name, cells) == [name |-> name, cells |-> cells, text |-> ""]
Bootargs(text) == [name |-> "bootargs", cells |-> <<>>, text |-> text]
Node(d, k, ps) == [depth |-> d, kind |-> k, props |-> ps]
Orders(x, y, z) == {<<x, y, z>>, <<y, x, z>>, <<z, y, x>>}
Roots ==
    {Node(1, "other", <<>>),
     Node(1, "other", <<Cells("address-cells", <<2>>), Cells("size-cells", <<1>>)>>),
     Node(1, "other", <<Cells("size-cells", <<1>>), Cells("address-cells", <<1>>)>>)}
Bus == Node(2, "other", <<Cells("size-cells", <<1>>), Cells("reg", <<1, 1, 1, 1>>), Bootargs("no"),
                          Cells("address-cells", <<1>>)>>)
Mems == <<Node(2, "memory", <<Cells("reg", <<0, 1, 2, 3>>)>>), Node(2, "memory", <<Cells("reg", <<1, 1, 1, 1>>)>>)>>
Virtio(d) ==
    {<<Node(d, "virtio", ps)>> : ps \in Orders(Cells("reg", <<1, 2, 3, 1>>), Cells("interrupts", <<4>>),
                                              Cells("size-cells", <<1>>))}
    \union {<<Node(d, "virtio", <<Cells("reg", <<0, 2, 0, 3>>), Cells("interrupts", <<0, 5, 1>>)>>),
              Node(d, "virtio", <<Cells("reg", <<3, 1>>)>>)>>,
            <<Node(d, "virtio", <<>>), Node(d + 1, "other", <<Cells("reg", <<1, 1>>)>>), Node(d + 2, "other", <<>>)>>}
More == <<Node(2, "virtio", <<Cells("reg", <<1, 3, 2, 2>>)>>), Node(2, "virtio", <<Cells("reg", <<2, 3, 2, 2>>)>>)>>
Trees ==
    LET all == {<<r>> \o mem \o bus \o vd \o ch \o more :
                   r \in Roots, mem \in {<<>>, Mems}, bus \in {<<>>, <<Bus>>}, vd \in Virtio(3) \union Virtio(2),
                   ch \in {<<>>, <<Node(2, "chosen", <<Bootargs("run")>>)>>}, more \in {<<>>, More}}
    IN  {t \in all : \A j \in 2 .. Len(t) : t[j].depth <= t[j - 1].depth + 1}

\* Arguments over the characters the quoting rules tell apart (q is the quote).
Words(len, S) == UNION {[1 .. k -> S] : k \in 0 .. len}
Argvs == {<<x>> : x \in Words(4, {"\\", "q", " ", "a"}) \union Words(3, {"%", "&", "\\", "q", "n"})}
         \union {<<x, y>> : x, y \in Words(2, {"\\", "q", " ", "%"})}
Commands == {<<"a">>, <<"q", "a", "q">>, <<"a", "&", "q", " ", "q">>}

\* What getaddrinfo answers: up to three addresses in any order, repeats included.
Answers == {<<>>} \union [1 .. 3 -> {"x", "y", "z"}]

VF == INSTANCE Vfs WITH
    Reserve <- 4, FsMaxOpen <- 2, DirMax <- 2, DiskMax <- 3, MaxSize <- 2, BufLen <- 8,
    MaxOps <- 4
SR == INSTANCE StdRedirect WITH
    ops <- dups, Files <- {"f1", "f2"}, Slots <- {"s1", "s2"}, Console <- "console",
    MaxOps <- 8
GH == INSTANCE GuestHeap WITH
    ops <- calls, PaBase <- 1, PaEnd <- 8, PaMaxFree <- 2, PageWords <- 12,
    ArenaPages <- 1, Classes <- 3, WordMax <- 127, Sizes <- {7, 8, 12, 127}, MaxLive <- 6,
    MaxOps <- 9
WH == INSTANCE WasmHeap WITH
    blocks <- areas, ops <- asks, Sizes <- {1, 2, 5, 64}, AlignedSizes <- {1, 61, 62}, Align <- 2,
    Limit <- 60, WordMax <- 63, Chunk <- 8, PageUnits <- 4, MaxPages <- 5, MaxOps <- 7
GP == INSTANCE GuestPaging WITH
    pa <- frames, ops <- moves, PaMaxFree <- 3, Mb2Max <- 3, Image <- 5, BootStack <- 3,
    MappedEnd <- 32, Big <- 4, PoolTables <- 4, PoolPages <- 2, StackPages <- 2,
    Sizes <- {1, 3}, MaxOps <- 7
VR == INSTANCE VirtioRng WITH
    QSize <- 2, IdxMod <- 4, BufLen <- 2, Wants <- {1, 3}, MaxReads <- 7
DT == INSTANCE DeviceTree WITH
    done <- walked, CellMod <- 8, MaxDepth <- 5, MaxDevs <- 2
SG == INSTANCE Signals WITH
    Envs <- {"e1", "e2", "e3"}, LastSignal <- 2, Interrupt <- 1, PipeRoom <- 2,
    MaxRaises <- 3, SelfClearing <- FALSE
CL == INSTANCE CommandLine WITH
    pc <- stage
WT == INSTANCE WasmThreads WITH
    pc <- where, Threads <- {"main", "t1", "t2"}, Main <- "main", Producers <- {"t2"},
    MaxRounds <- 2
UD == INSTANCE Udp WITH
    Sockets <- {"u1", "u2"}, MaxSends <- 2

\* One component moves; the others' variables are not used.
Init ==
    /\ part \in Parts
    /\ IF part = "vfs" THEN VF!Init
       ELSE /\ arc = 0 /\ disk = 0 /\ ifs = 0 /\ dh = 0 /\ dirs = 0 /\ held = 0
            /\ cwd = 0 /\ ops = 0
    /\ IF part = "redirect" THEN SR!Init
       ELSE state = 0 /\ target = 0 /\ alias = 0 /\ saved = 0 /\ shut = 0 /\ dups = 0
    /\ IF part = "heap" THEN GH!Init
       ELSE pa = 0 /\ lists = 0 /\ arena = 0 /\ blocks = 0 /\ calls = 0
    /\ IF part = "wasmheap" THEN WH!Init
       ELSE free = 0 /\ pages = 0 /\ areas = 0 /\ leaked = 0 /\ asks = 0
    /\ IF part = "paging" THEN GP!Init
       ELSE /\ boot = 0 /\ map = 0 /\ page0 = 0 /\ frames = 0 /\ pt = 0
            /\ maps = 0 /\ spawned = 0 /\ moves = 0
    /\ IF part = "rng" THEN VR!Init
       ELSE /\ bases = 0 /\ status = 0 /\ base = 0 /\ num = 0 /\ avail = 0
            /\ used = 0 /\ ring = 0 /\ lastUsed = 0 /\ asked = 0 /\ req = 0
            /\ buf = 0 /\ want = 0 /\ pc = 0 /\ at = 0 /\ took = 0 /\ silent = 0
    /\ IF part = "fdt" THEN DT!Init
       ELSE /\ tree = 0 /\ node = 0 /\ prop = 0 /\ depth = 0 /\ lvl = 0
            /\ devs = 0 /\ devices = 0 /\ devBase = 0 /\ ram = 0 /\ args = 0
            /\ walked = 0
    /\ IF part = "signals" THEN SG!Init
       ELSE /\ pending = 0 /\ slot = 0 /\ env = 0 /\ armed = 0 /\ pipe = 0
            /\ handlers = 0 /\ main = 0 /\ listener = 0 /\ owed = 0 /\ raises = 0
    /\ IF part = "cmdline" THEN CL!Init
       ELSE kind = 0 /\ argv = 0 /\ done = 0 /\ line = 0 /\ stage = 0
    /\ IF part = "threads" THEN WT!Init
       ELSE /\ prog = 0 /\ m = 0 /\ c = 0 /\ items = 0 /\ where = 0 /\ fib = 0
            /\ live = 0 /\ gen = 0 /\ bad = 0
    /\ IF part = "udp" THEN UD!Init
       ELSE /\ strict = 0 /\ noV6 = 0 /\ sk = 0 /\ h = 0 /\ inbox = 0
            /\ known = 0 /\ answer = 0 /\ lines = 0 /\ sends = 0

vfsVars == <<arc, disk, ifs, dh, dirs, held, cwd, ops>>
redirectVars == <<state, target, alias, saved, shut, dups>>
heapVars == <<pa, lists, arena, blocks, calls>>
wasmheapVars == <<free, pages, areas, leaked, asks>>
pagingVars == <<boot, map, page0, frames, pt, maps, spawned, moves>>
rngVars == <<
    bases, status, base, num, avail, used, ring, lastUsed, asked, req, buf, want, pc, at,
    took, silent>>
fdtVars == <<tree, node, prop, depth, lvl, devs, devices, devBase, ram, args, walked>>
signalsVars == <<pending, slot, env, armed, pipe, handlers, main, listener, owed, raises>>
cmdlineVars == <<kind, argv, done, line, stage>>
threadsVars == <<prog, m, c, items, where, fib, live, gen, bad>>
udpVars == <<strict, noV6, sk, h, inbox, known, answer, lines, sends>>

Rest(p) ==
    /\ UNCHANGED part
    /\ IF p = "vfs" THEN TRUE ELSE UNCHANGED vfsVars
    /\ IF p = "redirect" THEN TRUE ELSE UNCHANGED redirectVars
    /\ IF p = "heap" THEN TRUE ELSE UNCHANGED heapVars
    /\ IF p = "wasmheap" THEN TRUE ELSE UNCHANGED wasmheapVars
    /\ IF p = "paging" THEN TRUE ELSE UNCHANGED pagingVars
    /\ IF p = "rng" THEN TRUE ELSE UNCHANGED rngVars
    /\ IF p = "fdt" THEN TRUE ELSE UNCHANGED fdtVars
    /\ IF p = "signals" THEN TRUE ELSE UNCHANGED signalsVars
    /\ IF p = "cmdline" THEN TRUE ELSE UNCHANGED cmdlineVars
    /\ IF p = "threads" THEN TRUE ELSE UNCHANGED threadsVars
    /\ IF p = "udp" THEN TRUE ELSE UNCHANGED udpVars

Next ==
    \/ part = "vfs" /\ VF!Next /\ Rest("vfs")
    \/ part = "redirect" /\ SR!Next /\ Rest("redirect")
    \/ part = "heap" /\ GH!Next /\ Rest("heap")
    \/ part = "wasmheap" /\ WH!Next /\ Rest("wasmheap")
    \/ part = "paging" /\ GP!Next /\ Rest("paging")
    \/ part = "rng" /\ VR!Next /\ Rest("rng")
    \/ part = "fdt" /\ DT!Next /\ Rest("fdt")
    \/ part = "signals" /\ SG!Next /\ Rest("signals")
    \/ part = "cmdline" /\ CL!Next /\ Rest("cmdline")
    \/ part = "threads" /\ WT!Next /\ Rest("threads")
    \/ part = "udp" /\ UD!Next /\ Rest("udp")

vars == <<
    part, vfsVars, redirectVars, heapVars, wasmheapVars, pagingVars, rngVars, fdtVars,
    signalsVars, cmdlineVars, threadsVars, udpVars>>
Spec == Init /\ [][Next]_vars
-----------------------------------------------------------------------------
\* Memory handed out is large enough and nobody else's, and what comes back can
\* be handed out again: the guest heap's blocks and free lists tile its arenas and its
\* pages are counted and coalesced (malloc, pa_free); the WebAssembly heap is tiled and
\* fully merged (nurl_wa_insert), but for an aligned request whose length wraps
\* (aligned_alloc); the page allocator gets only memory the loader reported, and of what
\* boot.S maps only guard pages ever are not present (mem_init, mprotect).  That what it
\* gets is mapped is not so for memory past the 4 GiB of boot.S.
MemoryUsable ==
    /\ part = "heap" => GH!TypeOK /\ GH!NoOverlap /\ GH!BlockHolds /\ GH!HolesCoalesced /\ GH!PagesCounted
    /\ part = "wasmheap" => WH!TypeOK /\ WH!HeapTiled /\ WH!FullyMerged /\ WH!BlockHolds
    /\ part = "paging" => GP!TypeOK /\ GP!OnlyGuardsUnmapped /\ GP!HeapIsUsable /\ GP!MapWhole

\* What the program reads of the machine is what is there.  A directory of the image and
\* the disk is listed whole, each name once, but for a name too long for the rest of its
\* buffer, and stat agrees with it (vfs_ifs_getdents, vfs_stat_path); a redirected stream
\* writes to an open file, restored or not, unless dup2 was given what it named (dup2); the
\* tree gives the devices, memory and arguments its nodes hold, however the cells are
\* ordered (fdt_probe); the child of a Windows command line gets the arguments given
\* (nurl__proc_quote_arg).
ReadsExact ==
    /\ part = "vfs" => VF!TypeOK /\ VF!ListingExact /\ VF!StatAgreesWithTree
    /\ part = "redirect" => SR!TypeOK /\ SR!RedirectsOpen
    /\ part = "fdt" => DT!TypeOK /\ DT!DevicesExact /\ DT!MemoryAndArgs
    /\ part = "cmdline" => CL!TypeOK /\ CL!ArgsArrive

\* What one side posts the other finds.  No thread sleeps on a lock or condition whose
\* wake has gone by and a fiber's block outlives its threads (pthread_mutex_lock,
\* pthread_cond_wait, nurl_fiber_spawn of the WebAssembly build); a raised signal stays
\* pending until its handler begins and the handler's environment is the program's
\* (nurl_signal_dispatch); the guest uses the first entropy device that works and panics only
\* without one (virtio_rng_read).
WakesReach ==
    /\ part = "threads" => WT!LockSleeperWoken /\ WT!NoSignalLost /\ WT!FiberBlockHeld /\ WT!RunAfterAll
    /\ part = "signals" => SG!FlagKept /\ SG!EnvOwned
    /\ part = "rng" => VR!TypeOK /\ VR!FirstWorking /\ VR!NoFalsePanic

\* A datagram's answer reaches whoever sent it: one peer has one NurlUdpAddr on every
\* kind of socket, a wildcard socket serves IPv4, and a resolver's answer lists each
\* address once, in order (nurl__udp_addr_to_sa, nurl__udp_addr_from_sa, nurl_dns_resolve).
RepliesReachSender ==
    part = "udp" => /\ UD!ReplyReachesSender /\ UD!OnePeerOneAddr
                    /\ UD!WildcardServesIPv4 /\ UD!DnsListExact

\* No step gives a stale answer: while the image has a free descriptor, a read of a name
\* it holds is not served from the disk (nl_open), and the bytes the entropy device gives a caller are those of its own
\* request, wherever the ring indices wrapped (virtio_rng_read).
AnswersFresh ==
    [][/\ part = "vfs" => VF!ServedInOrder
       /\ part = "rng" => VR!FreshBytes]_vars
=============================================================================
