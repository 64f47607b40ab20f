# A verification of System/1 in TLA+

System/1 is a small operating system for PCs: a single-processor kernel with a
descriptor layer, synchronous program execution, a kernel heap, file systems on
floppy, CD and RAM, loadable driver modules, a text console and two shells. This
directory models its parts, checks them with TLC on small instances and proves
the main properties with TLAPS for all sizes. Paths such as
`core/posix/fd_core.c` are below `src/src/kernel/`, paths such as `shell/msh.c`
below `src/src/userland/smu/`. `PROJECT.json` maps every definition to the lines
it stands for, lists the hazards of the code with the properties that cover
them, and names a plausible bug (a mutant) that each property catches.

## The system and its models

| Part | State | What is hard | Modules |
| --- | --- | --- | --- |
| Descriptors (`core/posix/fd_core.c`) | a table per process, shared open-file descriptions with counts and offsets | sharing across spawn and exit, errors half way | `FdCore`, `Fat12Files` (offsets) |
| Processes and exec (`core/process`, `arch/i386/modules/usermode`) | process slots, exec depth, kernel stacks, saved stack pointers, two program regions | nested execs that return into suspended kernel frames | `ProcessCore` |
| Program loader and page permissions (`core/sprg`, `arch/x86/paging_x86.c`) | segments, memory, page bits, initial stack | files with any numbers in them, reads that fail half way | `SprgImage`, `ProgramLoader` |
| Memory (`core/mm/mm_core.c`) | page bitmap, list of heap blocks | splitting, merging, growth beside foreign pages | `KHeap`, `Allocator` |
| Keyboard (`drivers/pc/ps2_core.c`) | decoder flags, ring | interrupts between the reader's accesses, HLT, LED exchange | `KeyInput`, `KeyFifo` |
| Display (`drivers/pc/vga_text.c`) | cells, cursor, editable text with positions | scrolling while a text is redrawn | `VgaText` |
| Line reader and kernel shell (`core/tty`, `core/shell`) | line buffer, cursor, history ring, draft | three copies of one line kept in step | `TtyLine` |
| RAM file system (`core/fs/ramfs_core.c`) | node array, data slots, current directory | reuse of nodes and slots, aliases, stale ids | `Ramfs` |
| FAT12 on the device (`core/fs/fat12_core.c`, `core/fs/fs_core.c`) | two tables, root directory, clusters, RAM copies of boot sectors | order of sector writes, write errors, power loss | `Fat12Entry`, `Fat12Disk`, `Fat12Volume` |
| Open files of FAT12 and ISO 9660 | open-file slots, directory, clusters | slots that go stale, two spellings of one name, a full disk | `Fat12Files` |
| Names (`core/fs/fs_core.c`, `pseudo_core.c`) | tree, links, current directories | link cycles, one driver directory for many processes | `Vfs` |
| Modules, interrupts, boot (`core/module`, `core/interrupts`, `arch/*/kernel.c`) | registries, arena, masks and requests, order of initialisation | failure half way, keys and ticks during boot | `Boot` |
| MSH (`shell/msh.c`, `shell/redir.c`) | line, history in memory and on file, tokens, redirected descriptors | descriptors restored after any failure, list semantics | `Msh`, `MshText` |

The keyboard feeds the line reader; the line reader drives the display and
hands its buffer to the kernel shell's hooks. An exec loads a program
(`ProgramLoader`), clones the caller's descriptor table, and an exit releases it
(`ProcessCore`). The descriptor layer holds one VFS open per description; the
VFS turns names into driver paths (`Vfs`), the driver turns them into slots
(`Fat12Files`) and its mutations into sector writes (`Fat12Disk`). Each of these
modules takes the next one's operation as one step, and that this is allowed is
what the lower one shows: `Fat12Disk` implements the one-step `Fat12Volume`.

## Modules

**FdCore** is the descriptor layer as actions on the table of a process `p`.
`entries[p][fd]` is the entry's description or `NoDesc`, `desc` is
`g_descriptions`, and `opens` counts VFS opens minus closes. Releasing several
entries (`fd_core_table_destroy`) is written in closed form: `k` entries that
name a description take `k` references off it. Calls that fail before changing
anything are stuttering steps; the failing close inside `dup2` is an action.

**ProcessCore** extends it with the process table and the synchronous exec. A
`usermode_exec` does not return until its child exits, so the calls in progress
are the sequence `frames`, with the locals each one restores; `savedEsp` is the
frame an exit jumps into and `esp0` the kernel stack in the TSS. There is no
preemption between processes, so an exec up to ring 3 is one step, and an exit
with the rest of the exec it returns into is another.

**SprgImage** has the checks on a program file as operators on unsigned words
(`Plus` wraps), the slots of `usermode_core.h` and the pages of a range.
**ProgramLoader** is the exec on i386 up to the entry, at the grain of one file
system call or one write loop: validation, the choice of a slot, a second
validation inside `sprg_core_load_file`, segments read in chunks straight into
memory, page permissions, and the strings and vectors of the initial stack.
Every file system call may fail and every read may be short. A byte of memory
is named by where it came from: an offset of the file, a cleared byte, a pushed
byte, or what was there. `Files` is any set of files and `Addresses` any set of
addresses.

**KHeap** models memory in units of a pointer: the pages in use, the block
list in list order, and what callers hold. **Allocator** is what the memory
manager promises: ranges handed out are disjoint and inside usable memory, and
stay put until released.

**KeyInput** models the keyboard (external), the scan-code decoder, the ring
and a reader that takes one memory access per step. Interrupt gates clear IF,
so a handler is one step. Scan codes are classes that the decoder treats alike.
Left out: bytes of the LED acknowledgement that stay in the controller, which
the decoder ignores, and the polling fallback, which nothing enables.
**KeyFifo** is the bounded queue that the ring implements.

**VgaText** is the display driver as operators on its state. **TtyLine** has
one action per key of `tty_core_readline_ex`, with the calls the key makes on
the display, and the kernel shell's history and completion hooks, which are
installed or not (`hooked`, chosen at the start). The prompt is one character.
The line buffer keeps what earlier lines left in it, as the shell's array does;
quotes and escapes are left out of the tokenizer, and file names to complete
are a constant set.

**Ramfs** is the RAM file system. A path is a directory and a name; name
comparison keeps the 8.3 alias rule. The ids that opens return stay usable
after an unlink, as in the code. It is the root only when no medium could be
mounted. The access mode of an open is checked above this module.

**Fat12Entry** is the packing of 12-bit entries into bytes. **Fat12Disk** runs
each operation on the device (`create_dir`, `write_file`, `unlink`, `rmdir`) as
the sequence of sector writes the code makes, over the RAM copies of the first
table and the root directory that `fs_cached_floppy_write` keeps. Any transfer
may fail and leave its sector as it was, and the machine may be switched off
between two transfers, after which the loader reads the copies from the disk
again (`Restart`). Read errors are not steps of their own: a read that fails
before the first write changes nothing, and one that fails later leaves the
operation as a failed write does. `exposed` records faults at the two places
where the code has no protection: a file whose old chain has been freed while
its entry still names it, and a new directory's root entry that stays in RAM
when its cluster is taken back. The properties except what follows them, and no
further operation is followed on a volume whose chains are in doubt.
**Fat12Volume** is the tree that changes in one step.

**Fat12Files** is the level above: slots with the path, first cluster and size
they remember, shared by descriptions with offsets, over a volume whose driver
calls are single steps. The unit is a sector. A slot becomes `stale` when the
file is written through another slot or spelling, and a description `lost` when
an unlink took its slot; both are history the properties need, not program
state. The medium is a floppy or a CD with the ISO driver's slots.

**Vfs** follows names: `fs_core_normalize_path` and the driver's own
normalisation as edits of a string of name and slash tokens, final symbolic
links, the directory of every process in the exec chain and the one directory
of the driver. The equality of 8.3, alias and ISO names is the function `Fold`.

**Boot** composes the loader of driver modules in both stages, the registries,
the arena, the interrupt controller with mask, request and service bits, and
`kmain`'s order, with keys (`Strike`) and timer ticks (`Tick`) at any moment.
After boot a program may sleep (`Nanosleep`). Whether a module file is good, and
whether its entry succeeds, is a free choice.

**MshText** has the tokenizer, wildcards and completion on sequences of
characters. **Msh** is the shell: every key of `read_line`, history in memory
and in the file with failing opens and writes, then the tokens of the line one
by one, each redirection as `open`, `dup`, `dup2`, `close` on the shell's own
table at its limit. A command returns a status and leaves the table alone,
which is `ExitKeepsOthers` of `ProcessCore`. The standard streams are open when
the shell starts. `history -c` is a command that may empty the file.

## Runs

| Run | Instance | Distinct states | Shows |
| --- | --- | --- | --- |
| `processes` | 4 process slots, depth 2, 2 descriptors, 3 descriptions, pids to 5 | 97,730 | counts, VFS opens, surviving descriptors, exec chain and kernel stacks under all sharing and nesting |
| `kheap` | 7 pages of 4 units, 4 of them free in two pieces, sizes 1, 2, 4 | 51,148 | tiling, holders, merging, growth past a foreign page, refinement of `Allocator` |
| `keyboard` | ring of 3, 2 bytes in flight, both Ctrl keys, Alt, Caps, Delete | 407,512 | refinement of `KeyFifo` with full and wrapped ring, keys are taken, no stuck modifier, reset chord |
| `tty_line` | 2 by 2 screen, 3 characters, 3 lines, ring of 2, with and without hooks | 1,762,544 | reader, display model and screen agree without hooks; the ring keeps the newest lines |
| `ramfs` | 4 nodes, 2 children, 1 slot of 2 bytes, an alias | 111,728 | tree, lookup, slots, gaps |
| `fat12_disk` | 2 clusters, table sectors of 5 bytes, root of 2 sectors, a file or directory and an entry in it, one fault | 662,801 | ownership of clusters, no leaks, durability, refinement of `Fat12Volume` |
| `fat12_files` | 2 clusters, 2 slots, 2 descriptions, three spellings of two names | 161,196 | fresh reads, exact space, owned slots, files change by writes |
| `vfs` | 4 tree paths, 9 path arguments, links of depth 3, 2 processes | 69,810 | normal form, links, the tree and the driver's directory |
| `boot` | 5 modules, arena of 4, 3 loaded, 3 keys, both boot profiles | 30,972 | hooks, code in the arena, no stuck byte, boot completes, sleep ends |
| `msh` | lines of 8, 6 tokens, table of 6, ring of 2, file of 20 bytes, 2 lines | 343,141 | redirections, streams of every command, list semantics, history after a restart, every line finishes |

The type invariant `TypeOK` of a module is a conjunct of one of its invariants
here, and proved for `ProcessCore`. The bounds are the smallest at which each table fills, wraps or refuses and at
which an entry can be freed and taken again. In `fat12_disk` a table sector of
five bytes puts the entry of cluster 3 across a sector boundary, where the two
sector writes of an entry happen. In `boot` the arena holds some but not all
modules and one module asks for a service that is taken. In `msh` the inherited
table leaves one or two free places, so that `open` succeeds and the `dup`
after it fails. Node ids, slots and descriptions are only compared, so
`processes` and `fat12_files` use symmetry over them. `tty_line` and `msh` stop
after a bounded number of lines (and the shell may exit) and therefore do not
check for deadlock.

Larger instances that were run by hand with no error: `processes` with 2
process slots, 3 descriptors and 3 descriptions (96,499 states), `fat12_disk`
with 3 clusters (6,462,043 states, 17 minutes), `fat12_files` without symmetry
(771,154 states), the keyboard
with a ring of 4 and a letter key, and with a ring of 2 and 3 bytes in flight.

Two runs find a disagreement between the code and its documents:

| Run | Code | Says |
| --- | --- | --- |
| `exec_atomic` | an exec can fail after its image was written over the region of the program that called it | exec design, line 78: replaced "atomically after the program image is validated" |
| `fat12_commit` | a cached sector changes in RAM before the disk write that may fail; the next operation finds the change in RAM and reports success, the disk never has it | `fat12_core.c`, line 2345: "Commit every write syscall to the physical FAT12 device immediately"; also `posix.c`, line 141, and `docs/userspace.md`, line 381 |

`DoneIsDurable` in `fat12_disk` is what does hold: as long as no transfer has
failed since the loader ran, what was reported done is on the disk and no power
loss undoes it; and the kernel sees it in every case outside `exposed`.

`ProgramLoader` has no run of its own: its theorems hold for every file, and a
run would repeat them on a few. TLC was used while proving, by hand, on 3 files
to the end and on 579 files and 20 addresses for over a million states. The
overlap test of the loader is compared with its definition at both ends of the
address space by the assumption `OverlapExact`, which the `processes` runs
evaluate.

### Fairness

- `KeyInput`: weak fairness of the reader, whose instructions the processor
  executes until HLT, and of the timer interrupt, which is periodic
  (`pc_pit_init`) and enabled while the reader waits because system calls run
  with interrupts on. Nobody is assumed to press a key.
- `Boot`: weak fairness of `Kmain`, which is the processor running the kernel's
  code, of `Tick`, the periodic timer, and of the delivery of each unmasked
  request while interrupts are on. `BootCompletes` does not depend on keys.
- `Msh`: weak fairness of `Execute`, the shell's own steps once a line has been
  entered. Commands are taken to return. No key is assumed to come.

## Proofs

All theorems are listed in `PROJECT.json`. Constants are constrained only by the
assumptions named in the modules.

**ProcessCoreProofs**: for every number of processes, descriptors, descriptions
and nodes and every exec depth, the properties of `processes`, and four more
that are only proved: types, the persistent shell's image (`ShellImageIntact`),
tables that follow processes, and an exit that releases only its own
(`ExitKeepsOthers`). None is inductive alone. The invariant is `FdInv /\ TablesMatchProcesses /\ ChainInv`:

- `FdInv`: types, exact counts, balanced opens, and a description not in use is
  zeroed. Without the last, a reused description could start with a count.
- `TablesMatchProcesses`: a free slot has an empty table. Without it, cloning
  into a slot would forget references.
- `ChainInv`: the chain, the contexts saved in every frame (each is the context
  one level up), the stack of every frame, and pids below `nextPid`. Exit needs
  the saved contexts to re-establish the chain.

The counting steps rest on lemmas about one added reference (`AddReference`),
a release of any set of entries (`ReleaseExact`, `ReleaseBalanced`) and a
cloned table (`CloneExact`), each an argument on cardinalities of finite sets.

**ProgramLoaderProofs**: for every set of files, every set of followed
addresses and every word size above the identity map, seven properties of the
loader: it writes only into the slot, an entered program is complete and
mapped, user mode reaches no other page, the file is closed, the stack stays
inside, and a command leaves the shell's slot alone, which is what the comment
in `usermode_core.h` says ("Kept separate so child commands cannot overwrite
it"). The invariant adds to them what control knows (which checks have been
passed at each place), what has been loaded so far (`LoadInv`: segments before
the current one are whole, the current one up to `done`), what has been mapped,
and where the stack pointer is. The two arithmetic facts are `FitsInSlot` (a
segment that passes the check does not wrap) and `SegmentsApart` (so the
overlap test means that no byte is shared).

**BootProofs**: for all modules, sizes, orders and arenas, `HooksResident` and
`CodeIntact` of `boot`, that no service changes hands between modules, and that
interrupts are on only with a driver to acknowledge them. The invariant says that every resident image lies whole below the
arena's mark, and that there is a controller driver after the first stage.

**MshProofs**: for every table, line and failure, the shell's descriptors after
a command are those before it. The invariant (`Kept`) describes the table
between `msh_redir_init` and `msh_redir_restore`: a stream is as it was or has a
copy of its own in a place that was free.

**Fat12EntryProofs**: a table entry reads back as it was set, and setting it
changes no other, not even between its two sector writes.

Model-checked only: the other modules; liveness (`KeysTaken`, `BootCompletes`,
`SleepEnds`, `LineFinishes`), since fairness is out of the prover's reach; the
refinements of `Allocator`, `KeyFifo` and `Fat12Volume`; and everything that
needs induction over data, such as chains of clusters, links and tokens.

## Known limits of the code that the models show

- Rewriting a FAT12 file frees the old chain first; a fault before the new entry
  is written leaves the entry naming free clusters (`fat12_core.c:1311`). Unlink
  and rmdir do it in the safe order.
- When the disk is full half way, a written file is left empty.
- `rmdir` refuses the driver's directory by its spelling only; under another
  spelling it can be removed (`fat12_core.c:2443`, `respelled`).
- A slot keeps the size it knew: a write through a slot that took the file for
  empty drops what another slot wrote in between (`FilesChangeByWrites`).
- A byte swallowed by the LED exchange can leave a modifier set. The keyboard
  properties exclude those histories explicitly (`eaten`).
- With the kernel shell's hooks, a redraw puts the display but not the reader
  back into insert mode (`tty_core.c:115`), the draft saved by the first Up may
  end in older characters because the buffer has no NUL behind the text
  (`shell_core.c:267`), and the cursor of a line that scrolled the screen stands
  on other text (`vga_text.c:85`). `LineMirrored` and `ScreenShowsLine` are
  therefore stated for lines without hooks.
- A completion longer than the word moves the rest of the line forwards over
  itself (`shell_replace_token`) and smears it. `TtyLine` models the copy as it
  is; no document says what a completion keeps.
- A node id kept across an unlink in the RAM file system names whatever file
  takes the node next. The tree and the slots stay sound.
- MSH treats a quoted operator as the operator, and leaves redirections behind a
  full argument vector unread. `docs/userspace.md`, line 234, calls redirection
  deferred, while `redir.c` implements it.
- A program with an empty segment is loaded and then refused, since an empty
  range cannot be mapped (`paging_x86.c:251`); that is one more way for
  `exec_atomic` to fail.

## Not modelled

- `nextPid` is bounded; wrap-around after 2^32 execs is left out. Sizes near
  2^32 in the heap are left out: its caller passes file sizes.
- The x86_64 exec and page tables, which have their own frame and addresses.
  The floppy build's exec is the i386 one, line by line.
- The copy of system call arguments from user memory; terminal reads and writes
  through descriptors.
- Parsing of media that never change: the FAT12 boot sector, ISO 9660 records
  and Rock Ridge names, the fields of a module file, multiboot tags. Each is a
  constant or a free choice between good and refused.
- The functions on whole FAT12 images (`fat12_core_image_*`), which no part of
  the kernel calls, and everything that only reads: listing, stat, statistics.
- The floppy controller's command sequence, DMA and motor, and the UART, RTC and
  VGA registers: hardware access. A transfer succeeds or fails.
- MSH's configuration file, prompt and message of the day, paths with a slash in
  expansion and completion, and a second MSH appending to the same history.
- The editor `adatext`, a screen program over one buffer, and the small tools,
  a few system calls each; boot sectors, logging, build tools.
