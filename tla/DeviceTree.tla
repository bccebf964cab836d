----------------------------- MODULE DeviceTree -----------------------------
(***************************************************************************)
(* unikernel/boot/fdt.c: the walk over a flattened device tree that finds  *)
(* the machine's memory, its command line and its virtio-mmio devices.     *)
(*                                                                         *)
(* The tree is the machine's (external): its nodes in the order they are   *)
(* written, each with its depth, its properties in order, and a value as   *)
(* the sequence of its 32-bit cells.  A node begins, gives its properties, *)
(* its children follow, and it ends.  A property that is not one of those  *)
(* the walk reads is left out of the tree, and names are the kinds the     *)
(* walk tells apart.                                                       *)
(***************************************************************************)
EXTENDS Integers, Sequences, SequencesExt, FiniteSets

CONSTANTS
    Trees,          \* the trees a machine may hand over
    CellMod,        \* one past the largest cell (2^32 in the code)
    MaxDepth,       \* FDT_MAX_DEPTH
    MaxDevs         \* FDT_MAX_DEVS

VARIABLES
    tree,
    node, prop,     \* the place of the walk: nodes begun, properties read of the newest
    depth,
    lvl,            \* per depth [ac, sc, kind, base, size, irq]
    devs,           \* the entries of the command line: [base, size, irq]
    devices,        \* facts.devices
    devBase,        \* facts.dev_base
    ram, args,      \* facts.ram_base and ram_size; bootargs
    done

vars == <<tree, node, prop, depth, lvl, devs, devices, devBase, ram, args, done>>

\* be32 and be64.
Number(cells) == FoldLeft(LAMBDA acc, c : acc * CellMod + c, 0, cells)
Take(v, from, count) == Number(SubSeq(v, from + 1, from + (IF count = 2 THEN 2 ELSE 1)))

NoRam == [base |-> 0, size |-> 0]
Level(ac, sc, kind) == [ac |-> ac, sc |-> sc, kind |-> kind, base |-> 0, size |-> 0, irq |-> 0]

Init ==
    /\ tree \in Trees /\ node = 0 /\ prop = 0 /\ depth = 0
    /\ lvl = [d \in 0 .. MaxDepth - 1 |-> Level(2, 2, "other")]
    /\ devs = <<>> /\ devices = 0 /\ devBase = <<>> /\ ram = NoRam /\ args = "" /\ done = FALSE

MoreProps == node > 0 /\ prop < Len(tree[node].props)
NextIsChild == node < Len(tree) /\ tree[node + 1].depth = depth + 1
----------------------------------------------------------------------------
\* FDT_BEGIN_NODE.  Too deep a tree ends the walk.
BeginNode ==
    /\ ~done /\ ~MoreProps /\ NextIsChild
    /\ depth' = depth + 1
    /\ IF depth + 1 >= MaxDepth
       THEN done' = TRUE /\ UNCHANGED <<node, prop, lvl>>
       ELSE /\ lvl' = [lvl EXCEPT ![depth + 1] =
                           Level(lvl[depth].ac, lvl[depth].sc, tree[node + 1].kind)]
            /\ node' = node + 1 /\ prop' = 0
            /\ UNCHANGED done
    /\ UNCHANGED <<tree, devs, devices, devBase, ram, args>>

\* The level whose cells a node's reg is written in: its parent's.
\* The node's own.
OwnLevel(d) == d
RegLevel(d) == IF d > 0 THEN d - 1 ELSE d

\* Only /chosen carries the command line.
\* Any node's.
AnyBootargs(kind, p) == p.name = "bootargs"
IsBootargs(kind, p) == p.name = "bootargs" /\ kind = "chosen"

\* FDT_PROP.
Property ==
    LET p == tree[node].props[prop + 1]
        ac == lvl[RegLevel(depth)].ac
        sc == lvl[RegLevel(depth)].sc IN
    /\ ~done /\ MoreProps
    /\ prop' = prop + 1
    /\ lvl' = [lvl EXCEPT ![depth] =
         CASE p.name = "address-cells" -> [@ EXCEPT !.ac = Take(p.cells, 0, 1)]
           [] p.name = "size-cells" -> [@ EXCEPT !.sc = Take(p.cells, 0, 1)]
           [] p.name = "reg" /\ Len(p.cells) >= ac + sc ->
                [@ EXCEPT !.base = Take(p.cells, 0, ac), !.size = Take(p.cells, ac, sc)]
           [] p.name = "interrupts" /\ p.cells # <<>> ->
                [@ EXCEPT !.irq = IF Len(p.cells) >= 3 THEN p.cells[2] ELSE p.cells[1]]
           [] OTHER -> @]
    /\ args' = IF IsBootargs(lvl[depth].kind, p) THEN p.text ELSE args
    /\ UNCHANGED <<tree, node, depth, devs, devices, devBase, ram, done>>

IsDevice(l) == l.kind = "virtio" /\ l.size # 0
IsRam(l) == l.kind = "memory" /\ l.size # 0
Entry(l) == [base |-> l.base, size |-> l.size, irq |-> l.irq + 32]

\* FDT_END_NODE: the node is judged, now that all of it has been seen.
EndNode ==
    LET l == lvl[depth] IN
    /\ ~done /\ ~MoreProps /\ ~NextIsChild /\ depth > 0
    /\ IF IsDevice(l)
       THEN /\ devs' = Append(devs, Entry(l)) /\ devices' = devices + 1
            /\ devBase' = IF devices < MaxDevs THEN Append(devBase, l.base) ELSE devBase
       ELSE UNCHANGED <<devs, devices, devBase>>
    /\ ram' = IF IsRam(l) /\ ram.size = 0 THEN [base |-> l.base, size |-> l.size] ELSE ram
    /\ depth' = depth - 1
    /\ UNCHANGED <<tree, node, prop, lvl, args, done>>

\* FDT_END.
End ==
    /\ ~done /\ ~MoreProps /\ node = Len(tree) /\ depth = 0
    /\ done' = TRUE
    /\ UNCHANGED <<tree, node, prop, depth, lvl, devs, devices, devBase, ram, args>>

Next == BeginNode \/ Property \/ EndNode \/ End
Spec == Init /\ [][Next]_vars
----------------------------------------------------------------------------
\* What the tree says, read as a tree and not as tokens.
Props(j, name) == SelectSeq(tree[j].props, LAMBDA p : p.name = name)
ParentOf(j) ==
    LET above == {i \in 1 .. j - 1 : tree[i].depth = tree[j].depth - 1} IN
    IF above = {} THEN 0 ELSE CHOOSE i \in above : \A k \in above : k <= i
Cells(name) ==
    LET c[j \in 0 .. Len(tree)] ==
          IF j = 0 THEN 2
          ELSE IF Props(j, name) # <<>> THEN Head(Last(Props(j, name)).cells)
          ELSE c[ParentOf(j)] IN c
RegOf(j) ==
    LET ac == Cells("address-cells")[ParentOf(j)]
        sc == Cells("size-cells")[ParentOf(j)]
        fit == SelectSeq(Props(j, "reg"), LAMBDA p : Len(p.cells) >= ac + sc)
        v == Last(fit).cells IN
    IF fit = <<>> THEN NoRam ELSE [base |-> Take(v, 0, ac), size |-> Take(v, ac, sc)]
Nodes(kind) == SelectSeq([j \in 1 .. Len(tree) |-> j],
                         LAMBDA j : tree[j].kind = kind /\ RegOf(j).size # 0)
Deep == \E j \in DOMAIN tree : tree[j].depth >= MaxDepth

TypeOK ==
    /\ node \in 0 .. Len(tree) /\ depth \in 0..MaxDepth /\ Len(devBase) <= MaxDevs
    /\ DOMAIN lvl = 0 .. MaxDepth - 1 /\ done \in BOOLEAN

\* The devices found are the tree's, at whatever depth they lie and in the order
\* they are written, each with the address and length its parent's cells give
\* it, whatever order its properties come in; a tree too deep to walk yields
\* the devices before the place it was given up.
DevicesExact ==
    LET named == [k \in 1 .. Len(Nodes("virtio")) |-> RegOf(Nodes("virtio")[k])]
        found == [k \in 1 .. Len(devs) |-> [base |-> devs[k].base, size |-> devs[k].size]] IN
    /\ IsPrefix(found, named)
    /\ done /\ ~Deep => found = named
    /\ IsPrefix(devBase, [k \in 1 .. Len(devs) |-> devs[k].base])
    /\ Len(devBase) = IF devices < MaxDevs THEN devices ELSE MaxDevs

\* The memory is the tree's first, and the command line is the one under
\* /chosen, never a device's property of that name.
MemoryAndArgs ==
    done /\ ~Deep =>
       /\ ram = IF Nodes("memory") = <<>> THEN NoRam ELSE RegOf(Head(Nodes("memory")))
       /\ args = LET said == {j \in DOMAIN tree : tree[j].kind = "chosen" /\ Props(j, "bootargs") # <<>>} IN
                 IF said = {} THEN "" ELSE Last(Props(CHOOSE j \in said : \A k \in said : k <= j, "bootargs")).text
=============================================================================
