----------------------------- MODULE ProcessCore -----------------------------
(***************************************************************************)
(* The process table (src/src/kernel/core/process/process_core.c) and the  *)
(* synchronous exec of ring-3 programs                                     *)
(* (src/src/kernel/arch/i386/modules/usermode/usermode.c) over the         *)
(* descriptor layer of FdCore.                                             *)
(*                                                                         *)
(* An exec is a kernel call that does not return until the child exits:    *)
(* the caller's usermode_exec frame stays on a kernel stack while the      *)
(* child runs, and exit jumps back into the frame named by                 *)
(* g_usermode_saved_esp.  There is one processor and no preemption between *)
(* processes, so an exec up to the entry into ring 3, and an exit with the *)
(* rest of the exec it returns into, are one step each.                    *)
(***************************************************************************)
EXTENDS FdCore, Sequences

CONSTANTS
    DepthMax,   \* USERMODE_EXEC_DEPTH_MAX
    PidBound    \* bound on g_next_pid (a uint32_t that wraps after 2^32 execs)

ASSUME DepthAssumption == DepthMax \in Nat /\ PidBound \in Nat

VARIABLES
    proc,       \* g_processes: pid, ppid and state of every slot
    current,    \* g_current_process
    nextPid,    \* g_next_pid
    depth,      \* g_usermode_exec_depth
    esp0,       \* which of g_usermode_kernel_stacks the TSS names
    savedEsp,   \* g_usermode_saved_esp: the exec frame an exit returns into
    frames,     \* the usermode_exec calls that have entered ring 3, oldest first
    image       \* image[r]: pid whose program and stack region r holds

procVars == <<proc, current, nextPid>>
execVars == <<depth, esp0, savedEsp, frames, image>>
vars == <<entries, inited, desc, opens, proc, current, nextPid,
          depth, esp0, savedEsp, frames, image>>

\* The two program/stack regions of usermode_core.h.
Regions == {"program", "shell"}
NoPid == 0   \* also the owner of a region whose load did not complete
BootStack == -1

\* The locals of a usermode_exec call and the kernel stack they live on.
Frame == [child : Procs, region : Regions, stack : {BootStack} \cup 0 .. DepthMax,
          oldEsp0 : 0 .. DepthMax, oldSavedEsp : 0 .. DepthMax]

ClearProcess == [pid |-> NoPid, ppid |-> NoPid, state |-> "unused"]
FreeSlots == {p \in Procs : proc[p].state = "unused"}

\* The slots process_find_pid(pid) looks for in the table t; it takes the first.
FindPid(t, pid) == {p \in Procs : t[p].state # "unused" /\ t[p].pid = pid}

Init ==
    /\ TableInit(0)
    /\ proc = [p \in Procs |-> IF p = 0
                               THEN [pid |-> 1, ppid |-> NoPid, state |-> "running"]
                               ELSE ClearProcess]
    /\ current = 0
    /\ nextPid = 2
    /\ depth = 0 /\ esp0 = 0 /\ savedEsp = 0
    /\ frames = <<>>
    /\ image = [r \in Regions |-> NoPid]
-----------------------------------------------------------------------------
\* The descriptor system calls, made by the current process on its own table.
SysOpen == \E n \in Nodes : Open(current, n) /\ UNCHANGED <<procVars, execVars>>
SysClose == \E fd \in FDs : Close(current, fd) /\ UNCHANGED <<procVars, execVars>>
SysDup == \E fd \in FDs : Dup(current, fd) /\ UNCHANGED <<procVars, execVars>>
SysDup2 ==
    \E oldfd, newfd \in FDs :
        Dup2(current, oldfd, newfd) /\ UNCHANGED <<procVars, execVars>>
SysDup2CloseFails ==
    \E oldfd, newfd \in FDs :
        Dup2CloseFails(current, oldfd, newfd) /\ UNCHANGED <<procVars, execVars>>

\* usermode_exec gets past its refusals for an image linked for region r.
Admitted(r) == depth < DepthMax /\ (r = "shell" => depth = 0)

\* usermode_exec gives up after sprg_load_file began to write the region: a
\* segment could not be read or mapped, the arguments do not fit the initial
\* stack, or the process table is full.
ExecFails(r) ==
    /\ Admitted(r)
    /\ image' = [image EXCEPT ![r] = NoPid]
    /\ UNCHANGED <<fdVars, procVars, depth, esp0, savedEsp, frames>>

\* process_core_spawn_exec into the first unused slot.
SpawnExec(child) ==
    /\ Clonable(current) /\ nextPid <= PidBound
    /\ proc' = [proc EXCEPT ![child] = [pid |-> nextPid, ppid |-> proc[current].pid,
                                        state |-> "running"]]
    /\ nextPid' = nextPid + 1
    /\ Clone(child, current)
    /\ current' = child

\* Mutant: every program runs on the first kernel stack.
SameKernelStack(d) == 0

\* The kernel stack a program entered at depth d gets.
KernelStack(d) == d

\* usermode_exec up to usermode_i386_enter, which leaves the stack pointer of
\* this call in g_usermode_saved_esp.
Exec(r) ==
    /\ Admitted(r) /\ FreeSlots # {}
    /\ LET child == Min(FreeSlots)
       IN  /\ SpawnExec(child)
           /\ frames' = Append(frames, [child |-> child, region |-> r,
                                        stack |-> IF depth = 0 THEN BootStack ELSE esp0,
                                        oldEsp0 |-> esp0, oldSavedEsp |-> savedEsp])
    /\ savedEsp' = Len(frames) + 1
    /\ esp0' = KernelStack(depth)
    /\ depth' = depth + 1
    /\ image' = [image EXCEPT ![r] = nextPid]

\* process_core_exit_current: the process table and the process it leaves
\* current.
ExitTable == [proc EXCEPT ![current].state = "zombie"]
ExitCurrent ==
    LET parents == FindPid(ExitTable, proc[current].ppid)
    IN  IF parents = {} THEN current ELSE Min(parents)

\* process_core_reap of slot p, whose exit left the process table t.
Reap(p, t) ==
    IF t[p].state = "zombie"
    THEN TableDestroy(p) /\ proc' = [t EXCEPT ![p] = ClearProcess]
    ELSE proc' = t /\ UNCHANGED fdVars

\* Mutant: the saved stack pointer of the outer exec is not put back.
SavedEspKept(f) == savedEsp

\* What usermode_exec puts back into g_usermode_saved_esp.
RestoredEsp(f) == f.oldSavedEsp

\* usermode_exit of a ring-3 program, and the rest of the usermode_exec call it
\* returns into: the frame at g_usermode_saved_esp.
Exit ==
    /\ depth > 0
    /\ LET f == frames[savedEsp]
       IN  /\ Reap(f.child, ExitTable)
           /\ esp0' = f.oldEsp0
           /\ savedEsp' = RestoredEsp(f)
    /\ frames' = SubSeq(frames, 1, savedEsp - 1)
    /\ depth' = depth - 1
    /\ current' = ExitCurrent
    /\ UNCHANGED <<nextPid, image>>

Next ==
    \/ SysOpen \/ SysClose \/ SysDup \/ SysDup2 \/ SysDup2CloseFails
    \/ \E r \in Regions : Exec(r) \/ ExecFails(r)
    \/ Exit

Spec == Init /\ [][Next]_vars
-----------------------------------------------------------------------------
\* Type correctness of the tables, the saved exec contexts and the counters.
TypeOK ==
    /\ entries \in [Procs -> [FDs -> OFDs \cup {NoDesc}]]
    /\ inited \in [Procs -> BOOLEAN]
    /\ desc \in [OFDs -> Description]
    /\ opens \in [Nodes -> Int]
    /\ proc \in [Procs -> [pid : Nat, ppid : Nat,
                           state : {"unused", "running", "zombie"}]]
    /\ current \in Procs
    /\ nextPid \in Nat
    /\ depth \in 0 .. DepthMax /\ esp0 \in 0 .. DepthMax /\ savedEsp \in 0 .. DepthMax
    /\ frames \in Seq(Frame)
    /\ image \in [Regions -> Nat]

Referrers(d) == {pf \in Procs \X FDs : entries[pf[1]][pf[2]] = d}
Holding(n) == {d \in OFDs : desc[d].kind = "vfs" /\ desc[d].node = n}

\* The reference count of every open-file description is the number of table
\* entries, over all processes, that name it, and a description is in use
\* exactly when it has one: across open, dup, dup2, the table copy of a spawn
\* and the table destruction of a reap, none is freed while a descriptor still
\* names it and none is leaked.
RefCountsExact ==
    \A d \in OFDs : /\ desc[d].refs = Cardinality(Referrers(d))
                    /\ desc[d].used <=> Referrers(d) # {}

\* Every node the VFS has opened for the descriptor layer is held by exactly
\* one description per open: fs_core_close is called once for each successful
\* fs_core_open, never twice and never not at all once the last descriptor goes.
OpensBalanced == \A n \in Nodes : opens[n] = Cardinality(Holding(n))

\* The process at level i of the exec chain; level 0 is the kernel shell.
Level(i) == IF i = 0 THEN 0 ELSE frames[i].child

\* The exec calls in progress form one chain from the kernel shell to the
\* current process: exit returns into the newest of them, each child was
\* spawned by the process one level up, no two pids are equal, and no process
\* outside the chain exists: nothing is left running or unreaped.
ExecChain ==
    /\ depth = Len(frames) /\ savedEsp = depth
    /\ current = Level(depth)
    /\ \A i \in 1 .. depth : proc[Level(i)].ppid = proc[Level(i - 1)].pid
    /\ \A i, j \in 0 .. depth : Level(i) = Level(j) => i = j
    /\ \A p, q \in Procs \ FreeSlots : proc[p].pid = proc[q].pid => p = q
    /\ {p \in Procs : proc[p].state = "running"} = {Level(i) : i \in 0 .. depth}
    /\ {p \in Procs : proc[p].state = "zombie"} = {}

\* The kernel stack the TSS gives the running ring-3 process holds no frame of
\* a usermode_exec call in progress, so its next system call overwrites none of
\* them.
KernelStackFree == depth > 0 => \A i \in 1 .. depth : frames[i].stack # esp0

\* While a program of the persistent-shell region is on the exec chain, that
\* region still holds its image and stack: no command it starts, and no exec
\* that fails half way, overwrites it (usermode_core.h:12).
ShellImageIntact ==
    \A i \in 1 .. depth :
        frames[i].region = "shell" => image["shell"] = proc[frames[i].child].pid

\* Every table a descriptor call or a spawn can be asked to work on is
\* initialised, and a slot not in use holds no descriptor: fd_core_ensure_init
\* never rebuilds a live table, and process_clear, which forgets a table without
\* releasing it, never forgets a reference.
TablesMatchProcesses ==
    \A p \in Procs : /\ inited[p] <=> p \notin FreeSlots
                     /\ p \in FreeSlots => entries[p] = NoEntries

\* An exec that returns an error to its caller has not touched the program of
\* any process on the exec chain: the image is replaced as a whole or not at all.
FailedExecAtomic ==
    [][depth' = depth => \A i \in 1 .. depth :
          image'[frames[i].region] = image[frames[i].region]]_vars

\* A descriptor that stays open across a step names the same open file after
\* it: no close, dup2 or exit, by whichever process, frees or replaces the
\* description under another descriptor.
DescriptorsStable ==
    [][\A p \in Procs : \A fd \in FDs :
          (entries[p][fd] # NoDesc /\ entries'[p][fd] = entries[p][fd])
          => LET d == entries[p][fd]
             IN  desc'[d].kind = desc[d].kind /\ desc'[d].node = desc[d].node]_vars

\* When a program exits, every other process finds its descriptors as they
\* were, and the descriptions the program alone held are free again.
ExitKeepsOthers ==
    [][depth' < depth =>
          /\ \A p \in Procs \ {current} : entries'[p] = entries[p]
          /\ \A d \in OFDs : desc'[d].used <=>
                \E pf \in Referrers(d) : pf[1] # current]_vars
=============================================================================
