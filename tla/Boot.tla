--------------------------------- MODULE Boot ---------------------------------
(***************************************************************************)
(* Starting System/1: the loader of driver modules in its two stages       *)
(* (src/src/kernel/core/module), the registries of drivers, the interrupt  *)
(* controller and the order in which kmain (src/src/kernel/arch) brings    *)
(* them up, with keys struck and timer ticks coming at any moment.         *)
(*                                                                         *)
(* The first stage runs with interrupts off and copies modules into an     *)
(* arena of the kernel.  The second runs with interrupts on and reads      *)
(* /boot/modules; on a floppy it goes on in the arena, else it allocates.  *)
(* A module's entry registers services, which take effect when it returns  *)
(* 0.  Sizes are in units of the arena's alignment.                        *)
(***************************************************************************)
EXTENDS Integers, Sequences

CONSTANTS
    Provides,   \* Provides[m]: the services module m registers
    Size,       \* Size[m]: memory of module m, aligned
    Early,      \* Early[f]: modules of the first stage, f: booted from a floppy
    OnDisk,     \* OnDisk[f]: the listing of /boot/modules
    ArenaSize,  \* SMOD_BOOT_ARENA_SIZE
    ImageLimit, \* SMOD_IMAGE_LIMIT
    MaxLoaded,  \* SMOD_MAX_LOADED
    MaxKeys,    \* bound on the keys struck
    MaxSleep    \* bound on the ticks slept

Modules == DOMAIN Provides
Services == {"uart", "rtc", "display", "input", "irq", "floppy"}
TIMER == 0
KEYBOARD == 1
Lines == {TIMER, KEYBOARD}

ASSUME BootAssumption ==
    /\ Provides \in [Modules -> SUBSET Services] /\ Size \in [Modules -> 1 .. ImageLimit]
    /\ ArenaSize \in Nat /\ ImageLimit = ArenaSize /\ MaxLoaded \in Nat \ {0}
    /\ MaxKeys \in Nat /\ MaxSleep \in Nat
ASSUME ModuleAssumption ==
    /\ "none" \notin Modules /\ "built-in" \notin Modules
    /\ Early \in [BOOLEAN -> Seq(Modules)] /\ OnDisk \in [BOOLEAN -> Seq(Modules)]

VARIABLES
    floppy,   \* the boot profile
    pc,       \* where kmain is
    todo,     \* modules of this stage still to come
    initing,  \* a loaded input driver is about to be initialised
    active,   \* the driver of each service: "none", "built-in" or a module
    loaded,   \* smod_images with their places; 0 is outside the arena
    preloaded,\* smod_preloaded_names
    used,     \* smod_boot_used
    arena,    \* smod_boot_image: whose code each unit holds
    enabled,  \* the interrupt flag
    mask, request, service, \* registers of the 8259
    handlers, \* the lines with a handler
    keys,     \* keys that may still be struck
    wire,     \* bytes the keyboard holds back
    full,     \* the keyboard controller's output buffer holds a byte
    left      \* ticks a sleeping program still waits for

kernel == <<floppy, pc, todo, initing>>
registry == <<active, loaded, preloaded, used, arena>>
chip == <<enabled, mask, request, service, handlers>>
keyboard == <<keys, wire, full>>
vars == <<kernel, registry, chip, keyboard, left>>

\* kmain_floppy_i386 has the built-in floppy controller before anything else.
Init ==
    /\ floppy \in BOOLEAN
    /\ pc = "early" /\ todo = Early[floppy] /\ initing = FALSE
    /\ active = [s \in Services |-> IF floppy /\ s = "floppy" THEN "built-in" ELSE "none"]
    /\ loaded = <<>> /\ preloaded = {} /\ used = 0 /\ arena = [u \in 1 .. ArenaSize |-> "none"]
    /\ enabled = FALSE /\ mask = {} /\ request = {} /\ service = {} /\ handlers = {}
    /\ keys = MaxKeys /\ wire = 0 /\ full = FALSE /\ left = 0
-----------------------------------------------------------------------------
(* The hardware. *)

\* A key: its byte waits in the keyboard while the output buffer is full, and the
\* line rises when it gets there.
Strike ==
    /\ keys > 0 /\ keys' = keys - 1
    /\ IF full THEN wire' = wire + 1 /\ UNCHANGED <<full, request>>
       ELSE full' = TRUE /\ request' = request \cup {KEYBOARD} /\ UNCHANGED wire
    /\ UNCHANGED <<kernel, registry, enabled, mask, service, handlers, left>>

\* The timer, once programmed.
Tick ==
    /\ TIMER \in handlers /\ TIMER \notin request
    /\ request' = request \cup {TIMER}
    /\ UNCHANGED <<kernel, registry, enabled, mask, service, handlers, keyboard, left>>

\* Reading the data port, with R requested: the next byte follows.
TakeByte(R) ==
    IF full /\ wire > 0 THEN wire' = wire - 1 /\ full' = full /\ request' = R \cup {KEYBOARD}
    ELSE full' = FALSE /\ request' = R /\ UNCHANGED wire

\* Mutant: the controller is left as it is.
InitKeepsByte == UNCHANGED <<wire, full, request>>

\* ps2_init: the exchange for the lights reads the port until it has an answer, and
\* a byte that was there before is read for it.
InputInit == TakeByte(request)
-----------------------------------------------------------------------------
(* Loading a module. *)

\* The smod_register functions: a service that a module has is refused.
Registers(m) == \A s \in Provides[m] : active[s] \notin Modules

\* Mutant: hooks are in place before the outcome is known.
ActivateEarly(m, at, ok) ==
    /\ active' = [s \in Services |-> IF s \in Provides[m] /\ Registers(m) THEN m ELSE active[s]]
    /\ IF ok /\ Registers(m) THEN /\ loaded' = Append(loaded, [mod |-> m, at |-> at])
                                  /\ used' = IF at > 0 THEN used + Size[m] ELSE used
                                  /\ initing' = ("input" \in Provides[m])
       ELSE UNCHANGED <<loaded, used, initing>>

\* Mutant: the arena's mark does not move.
ActivateUnmarked(m, at, ok) ==
    IF ok /\ Registers(m)
    THEN /\ active' = [s \in Services |-> IF s \in Provides[m] THEN m ELSE active[s]]
         /\ loaded' = Append(loaded, [mod |-> m, at |-> at])
         /\ initing' = ("input" \in Provides[m])
         /\ UNCHANGED used
    ELSE UNCHANGED <<active, loaded, used, initing>>

\* smod_activate, with the image at place at; ok: nothing but the registrations
\* makes the entry fail.
Activate(m, at, ok) ==
    IF ok /\ Registers(m)
    THEN /\ active' = [s \in Services |-> IF s \in Provides[m] THEN m ELSE active[s]]
         /\ loaded' = Append(loaded, [mod |-> m, at |-> at])
         /\ used' = IF at > 0 THEN used + Size[m] ELSE used
         /\ initing' = ("input" \in Provides[m])
    ELSE UNCHANGED <<active, loaded, used, initing>>

\* The arena with module m copied behind what is used.
Copied(m) == [u \in 1 .. ArenaSize |-> IF u \in used + 1 .. used + Size[m] THEN m ELSE arena[u]]

\* smod_core_preload.  valid: the header is sound.
Preload(valid, ok) ==
    LET m == Head(todo)
    IN  /\ pc = "early" /\ todo # <<>> /\ ~initing
        /\ todo' = Tail(todo)
        /\ IF valid /\ Len(loaded) < MaxLoaded /\ m \notin preloaded /\ Size[m] <= ArenaSize - used
           THEN /\ arena' = Copied(m)
                /\ Activate(m, used + 1, ok)
                /\ preloaded' = IF ok /\ Registers(m) THEN preloaded \cup {m} ELSE preloaded
           ELSE UNCHANGED <<initing, registry>>
        /\ UNCHANGED <<floppy, pc, chip, keyboard, left>>

\* Mutant: a module that cannot be loaded is tried again.
LoadFileRetries(valid, room, ok) ==
    LET m == Head(todo)
        fits == IF floppy THEN Size[m] <= ImageLimit - used ELSE room
        good == m \notin preloaded /\ Len(loaded) < MaxLoaded /\ valid /\ fits
    IN  /\ pc = "scan" /\ todo # <<>> /\ ~initing
        /\ todo' = IF good \/ m \in preloaded THEN Tail(todo) ELSE todo
        /\ IF good THEN /\ arena' = IF floppy THEN Copied(m) ELSE arena
                        /\ Activate(m, IF floppy THEN used + 1 ELSE 0, ok)
           ELSE UNCHANGED <<initing, active, loaded, used, arena>>
        /\ UNCHANGED <<floppy, pc, preloaded, chip, keyboard, left>>

\* smod_core_load_file and the loop of smod_core_boot_load_all.  valid: the file is
\* read to its end and its header is sound; room: kmalloc finds memory.
LoadFile(valid, room, ok) ==
    LET m == Head(todo)
        fits == IF floppy THEN Size[m] <= ImageLimit - used ELSE room
    IN  /\ pc = "scan" /\ todo # <<>> /\ ~initing
        /\ IF m \notin preloaded /\ Len(loaded) >= MaxLoaded THEN todo' = <<>> ELSE todo' = Tail(todo)
        /\ IF m \notin preloaded /\ Len(loaded) < MaxLoaded /\ valid /\ fits
           THEN /\ arena' = IF floppy THEN Copied(m) ELSE arena
                /\ Activate(m, IF floppy THEN used + 1 ELSE 0, ok)
           ELSE UNCHANGED <<initing, active, loaded, used, arena>>
        /\ UNCHANGED <<floppy, pc, preloaded, chip, keyboard, left>>

\* loaded_input.init() in smod_activate, which a key may precede when interrupts are on.
InitLoaded ==
    /\ initing /\ initing' = FALSE
    /\ InputInit
    /\ UNCHANGED <<floppy, pc, todo, registry, enabled, mask, service, handlers, keys, left>>
-----------------------------------------------------------------------------
(* The rest of kmain and of bootstrap_init. *)

Step(from, to) == pc = from /\ pc' = to

\* Mutant: the timer's line stays masked.
InterruptsInitMasked ==
    /\ Step("early", "input") /\ todo = <<>> /\ ~initing
    /\ active' = [active EXCEPT !["irq"] = IF @ = "none" THEN "built-in" ELSE @]
    /\ request' = {} /\ mask' = {TIMER} /\ handlers' = {TIMER}
    /\ UNCHANGED <<floppy, todo, initing, loaded, preloaded, used, arena, enabled, service, keyboard, left>>

\* irq_chip_platform_init, then interrupts_init: remapping resets the edge detection of
\* the 8259, the default masks let both lines in, the timer is set and has its handler.
\* The built-in driver serves when no module does.
InterruptsInit ==
    /\ Step("early", "input") /\ todo = <<>> /\ ~initing
    /\ active' = [active EXCEPT !["irq"] = IF @ = "none" THEN "built-in" ELSE @]
    /\ request' = {} /\ mask' = {} /\ handlers' = {TIMER}
    /\ UNCHANGED <<floppy, todo, initing, loaded, preloaded, used, arena, enabled, service, keyboard, left>>

\* input_init, which does nothing without a driver.
KeyboardInit ==
    /\ Step("input", "handler")
    /\ IF active["input"] # "none" THEN InputInit ELSE UNCHANGED <<wire, full, request>>
    /\ UNCHANGED <<floppy, todo, initing, registry, enabled, mask, service, handlers, keys, left>>

\* irq_register_handler(1, ...): the line is unmasked.
RegisterKeyboard ==
    /\ Step("handler", "enable")
    /\ handlers' = handlers \cup {KEYBOARD} /\ mask' = mask \ {KEYBOARD}
    /\ UNCHANGED <<floppy, todo, initing, registry, enabled, request, service, keyboard, left>>

Enable ==
    /\ Step("enable", "mount") /\ enabled' = TRUE
    /\ UNCHANGED <<floppy, todo, initing, registry, mask, request, service, handlers, keyboard, left>>

\* bootstrap_init up to the scan: without boot media there is no /boot/modules.
Mount ==
    /\ Step("mount", "scan")
    /\ todo' \in {OnDisk[floppy], <<>>}
    /\ UNCHANGED <<floppy, initing, registry, chip, keyboard, left>>

StartShell ==
    /\ Step("scan", "shell") /\ todo = <<>> /\ ~initing
    /\ UNCHANGED <<floppy, todo, initing, registry, chip, keyboard, left>>

\* posix_nanosleep: the loop ends when the ticks since its start are enough.
Nanosleep(n) ==
    /\ pc = "shell" /\ left = 0 /\ left' = n
    /\ UNCHANGED <<kernel, registry, chip, keyboard>>

\* irq_chip_send_eoi.
Acknowledge(i) == IF active["irq"] # "none" THEN {} ELSE {i}

\* interrupts_common_dispatch; its gate keeps other interrupts out.
Dispatch(i) ==
    /\ enabled /\ service = {} /\ i \in request \ mask
    /\ IF i = KEYBOARD /\ i \in handlers /\ active["input"] # "none" THEN TakeByte(request \ {i})
       ELSE request' = request \ {i} /\ UNCHANGED <<wire, full>>
    /\ left' = IF i = TIMER /\ i \in handlers /\ left > 0 THEN left - 1 ELSE left
    /\ service' = Acknowledge(i)
    /\ UNCHANGED <<kernel, registry, enabled, mask, handlers, keys>>

Kmain ==
    \/ \E valid, ok \in BOOLEAN : Preload(valid, ok) \/ \E room \in BOOLEAN : LoadFile(valid, room, ok)
    \/ InitLoaded \/ InterruptsInit \/ KeyboardInit \/ RegisterKeyboard \/ Enable \/ Mount \/ StartShell

Next ==
    \/ Kmain
    \/ \E n \in 1 .. MaxSleep : Nanosleep(n)
    \/ Strike \/ Tick \/ \E i \in Lines : Dispatch(i)

\* The kernel runs on, the timer keeps ticking, and a pending interrupt is taken.
Spec == Init /\ [][Next]_vars /\ WF_vars(Kmain) /\ WF_vars(Tick) /\ \A i \in Lines : WF_vars(Dispatch(i))
-----------------------------------------------------------------------------
(* Properties. *)

\* Types.
TypeOK ==
    /\ pc \in {"early", "input", "handler", "enable", "mount", "scan", "shell"}
    /\ active \in [Services -> Modules \cup {"none", "built-in"}]
    /\ Len(loaded) \in 0 .. MaxLoaded /\ used \in 0 .. ArenaSize
    /\ request \subseteq Lines /\ mask \subseteq Lines /\ handlers \subseteq Lines
    /\ wire \in 0 .. MaxKeys /\ left \in 0 .. MaxSleep

\* A service is done by a module only when its entry succeeded: its image is
\* resident, and it is the one that offers the service.  Failed modules leave no hook
\* (module_core.c, "failed init leaves no hooks").
HooksResident ==
    \A s \in Services : active[s] \in Modules =>
        s \in Provides[active[s]] /\ \E k \in DOMAIN loaded : loaded[k].mod = active[s]

\* The code of a module in the arena stays whole: no later module, of either stage and
\* whether it succeeds or not, is copied over it.
CodeIntact ==
    \A k \in DOMAIN loaded : loaded[k].at > 0 =>
        \A u \in loaded[k].at .. loaded[k].at + Size[loaded[k].mod] - 1 : u <= ArenaSize /\ arena[u] = loaded[k].mod

\* A module's service is never taken over by a later module.
HooksStay == [][\A s \in Services : active[s] \in Modules => active'[s] = active[s]]_vars

\* With interrupts on there is always a driver to acknowledge them, and none is left
\* in service, where it would block the others.
InterruptsAnswered == enabled => active["irq"] # "none" /\ service = {}

\* Once a driver is initialised and interrupts are on, a byte that waits in the keyboard
\* controller has its interrupt pending: keys struck before the driver was there, or
\* before the interrupt controller was reset, do not block the keyboard.
\* The types hold.
NoStuckByte ==
    /\ TypeOK
    /\ enabled /\ active["input"] # "none" /\ ~initing /\ full => KEYBOARD \in request \ mask

\* The kernel comes up whatever modules are missing, damaged, too large or refused.
BootCompletes == <>(pc = "shell")

\* A program that sleeps wakes up.
SleepEnds == left > 0 ~> left = 0
=============================================================================
