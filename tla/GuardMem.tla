------------------------------ MODULE GuardMem ------------------------------
(***************************************************************************)
(* stdlib/runtime_core.c: guard-page linear memory for generated code, and *)
(* the tables its SIGSEGV handler reads.  An instance of a WebAssembly     *)
(* module reserves an address range, commits part of it and registers it;  *)
(* each function it compiles is placed on executable pages and registered  *)
(* with its out-of-bounds stub.  An access past the committed part faults, *)
(* and the handler steers the frame to the stub.                           *)
(*                                                                         *)
(* The calls an instance makes, and their order, are those of              *)
(* packages/nwasm; several instances run on threads of their own, and an   *)
(* address given back by one may be handed to another at once.             *)
(***************************************************************************)
EXTENDS Integers, Sequences, FiniteSets, SequencesExt

CONSTANTS
    Insts,        \* instances
    Ranges,       \* address ranges a reservation may lie at
    Places,       \* places of code a function may lie at
    MemCap,       \* NURL__GMEM_CAP
    CodeCap,      \* NURL__GCODE_CAP
    MaxPages,     \* pages of a memory
    MaxLives,     \* bound: instances made
    None

VARIABLES
    inst,         \* per instance [pc, mem, pages, funcs, guarded, fresh]: the places its
                  \* functions lie at, those registered, and the one just sealed
    gmems,        \* the table of registered ranges
    gcodes,       \* the table of registered code: [at, stub]; stub names its instance
    installed,    \* nurl__guard_installed: SIGSEGV goes to nurl__guard_handler
    lives

vars == <<inst, gmems, gcodes, installed, lives>>

Gone == [pc |-> "none", mem |-> None, pages |-> 0, funcs |-> {}, guarded |-> {},
         fresh |-> None]

Init ==
    /\ inst = [i \in Insts |-> Gone] /\ gmems = <<>> /\ gcodes = <<>>
    /\ installed = FALSE /\ lives = 0

FreeRanges == Ranges \ {inst[i].mem : i \in Insts}
FreePlaces == Places \ UNION {inst[i].funcs : i \in Insts}

\* The last entry takes the place of the one that goes; position 0 is no entry.
\* The count is lowered before the entry is moved.
ShortSwapDelete(t, at) ==
    IF at = 0 THEN t ELSE [j \in 1 .. Len(t) - 1 |-> IF j = at THEN t[Len(t) - 1] ELSE t[j]]
SwapDelete(t, at) ==
    IF at = 0 THEN t
    ELSE [j \in 1 .. Len(t) - 1 |-> IF j = at THEN t[Len(t)] ELSE t[j]]
\* The first entry whose base is b, 0 when there is none.
FirstAt(bases, b) ==
    IF \E j \in DOMAIN bases : bases[j] = b
    THEN CHOOSE j \in DOMAIN bases : bases[j] = b /\ \A k \in 1 .. j - 1 : bases[k] # b
    ELSE 0
----------------------------------------------------------------------------
\* nurl_vmem_reserve and nurl_vmem_commit of the first page.
Reserve(i, r) ==
    /\ lives < MaxLives /\ inst[i].pc = "none" /\ r \in FreeRanges
    /\ inst' = [inst EXCEPT ![i] = [Gone EXCEPT !.pc = "reserved", !.mem = r, !.pages = 1]]
    /\ lives' = lives + 1
    /\ UNCHANGED <<gmems, gcodes, installed>>

\* nurl_guard_mem_add; a full table (or a failing call) gives the range back.
MemAdd(i) ==
    /\ inst[i].pc = "reserved"
    /\ IF Len(gmems) >= MemCap
       THEN inst' = [inst EXCEPT ![i] = Gone] /\ UNCHANGED <<gmems, installed>>
       ELSE /\ gmems' = Append(gmems, inst[i].mem)
            /\ inst' = [inst EXCEPT ![i].pc = "run"]
            /\ installed' = TRUE
    /\ UNCHANGED <<gcodes, lives>>

\* nurl_code_alloc and nurl_code_seal: the function is on its pages.
Compile(i, p) ==
    /\ inst[i].pc = "run" /\ p \in FreePlaces
    /\ inst' = [inst EXCEPT ![i].funcs = @ \union {p}, ![i].fresh = p, ![i].pc = "sealed"]
    /\ UNCHANGED <<gmems, gcodes, installed, lives>>

\* nurl_guard_code_add, room checked before and again here: a function that is
\* not registered is never called.
CodeAdd(i) ==
    /\ inst[i].pc = "sealed"
    /\ IF Len(gcodes) >= CodeCap
       THEN /\ inst' = [inst EXCEPT ![i].fresh = None, ![i].pc = "run"]
            /\ UNCHANGED gcodes
       ELSE /\ gcodes' = Append(gcodes, [at |-> inst[i].fresh, stub |-> i])
            /\ inst' = [inst EXCEPT ![i].guarded = @ \union {inst[i].fresh},
                                    ![i].fresh = None, ![i].pc = "run"]
    /\ UNCHANGED <<gmems, installed, lives>>

\* memory.grow: nurl_vmem_commit in place.
Grow(i) ==
    /\ inst[i].pc = "run" /\ inst[i].pages < MaxPages
    /\ inst' = [inst EXCEPT ![i].pages = @ + 1]
    /\ UNCHANGED <<gmems, gcodes, installed, lives>>

\* The drop of an instance: nurl_guard_mem_del, then the range; the functions'
\* nurl_guard_code_del; then the code pages.
MemDel(i) ==
    /\ inst[i].pc = "run"
    /\ gmems' = SwapDelete(gmems, FirstAt(gmems, inst[i].mem))
    /\ inst' = [inst EXCEPT ![i].pc = "memdel"]
    /\ UNCHANGED <<gcodes, installed, lives>>

Release(i) ==
    /\ inst[i].pc = "memdel"
    /\ inst' = [inst EXCEPT ![i].pc = "released", ![i].mem = None, ![i].pages = 0]
    /\ UNCHANGED <<gmems, gcodes, installed, lives>>

CodeBases == [j \in DOMAIN gcodes |-> gcodes[j].at]
\* The pages go before the entries.
LateCodeDel(i) ==
    /\ inst[i].pc = "released" /\ inst[i].guarded # {}
    /\ \E p \in inst[i].guarded :
         inst' = [inst EXCEPT ![i].guarded = @ \ {p}, ![i].funcs = @ \ {p}]
    /\ UNCHANGED gcodes
CodeDel(i) ==
    /\ inst[i].pc = "released" /\ inst[i].guarded # {}
    /\ \E p \in inst[i].guarded :
         /\ gcodes' = SwapDelete(gcodes, FirstAt(CodeBases, p))
         /\ inst' = [inst EXCEPT ![i].guarded = @ \ {p}]

DropFunc(i) == CodeDel(i) /\ UNCHANGED <<gmems, installed, lives>>

CodeFree(i) ==
    /\ inst[i].pc = "released" /\ inst[i].guarded = {}
    /\ inst' = [inst EXCEPT ![i] = Gone]
    /\ UNCHANGED <<gmems, gcodes, installed, lives>>

Next ==
    \/ \E i \in Insts : \/ \E r \in Ranges : Reserve(i, r)
                        \/ \E p \in Places : Compile(i, p)
                        \/ MemAdd(i) \/ CodeAdd(i) \/ Grow(i) \/ MemDel(i) \/ Release(i)
                        \/ DropFunc(i) \/ CodeFree(i)
Spec == Init /\ [][Next]_vars
----------------------------------------------------------------------------
\* nurl__guard_handler for an access from place p into range r.  (A fault that is
\* no guest access goes to the previous handler, and ends the program.)
Steer(p, r) ==
    LET at == FirstAt(CodeBases, p) IN
    IF installed /\ Contains(gmems, r) /\ at # 0 THEN gcodes[at].stub ELSE "crash"

TypeOK ==
    /\ Range(gmems) \subseteq Ranges /\ Len(gmems) <= MemCap /\ Len(gcodes) <= CodeCap
    /\ \A j \in DOMAIN gcodes : gcodes[j].at \in Places /\ gcodes[j].stub \in Insts
    /\ \A i \in Insts : inst[i].mem \in Ranges \union {None}
                        /\ inst[i].guarded \subseteq inst[i].funcs /\ inst[i].funcs \subseteq Places
    /\ installed \in BOOLEAN /\ lives \in 0..MaxLives

\* An out-of-bounds access of a running instance ends in its own function's
\* stub, whatever other instances have registered and taken out of the tables
\* in the meantime: it is never a crash and never another function's trap.
OutOfBoundsTraps ==
    \A i \in Insts : inst[i].pc = "run" => \A p \in inst[i].guarded : Steer(p, inst[i].mem) = i

\* The tables name nothing that has gone: every registered range is reserved,
\* and every registered place holds the function whose stub is recorded.
TablesAreLive ==
    /\ \A j \in DOMAIN gmems : \E i \in Insts : inst[i].mem = gmems[j]
    /\ \A j \in DOMAIN gcodes : gcodes[j].at \in inst[gcodes[j].stub].guarded
=============================================================================
