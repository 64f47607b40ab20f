----------------------------- MODULE BootProofs -----------------------------
(***************************************************************************)
(* Proofs about Boot, for every set of modules, whatever they provide and  *)
(* however large they are, every order they come in, and every arena.      *)
(***************************************************************************)
EXTENDS Boot, TLAPS

Drivers == Modules \cup {"none", "built-in"}
Image == [mod : Modules, at : Nat]

\* Where the loaded images are: in the arena, below its mark, and whole.
Placed(l, u, a) ==
    \A k \in 1 .. Len(l) : l[k].at > 0 =>
        /\ l[k].at + Size[l[k].mod] - 1 <= u
        /\ \A x \in l[k].at .. l[k].at + Size[l[k].mod] - 1 : a[x] = l[k].mod

Resident(act, l) ==
    \A s \in Services : act[s] \in Modules =>
        s \in Provides[act[s]] /\ \E k \in 1 .. Len(l) : l[k].mod = act[s]

\* The loader's part of the invariant.
LoaderInv ==
    /\ todo \in Seq(Modules)
    /\ active \in [Services -> Drivers]
    /\ loaded \in Seq(Image)
    /\ used \in 0 .. ArenaSize
    /\ Resident(active, loaded)
    /\ Placed(loaded, used, arena)

\* The interrupt controller's: it has a driver once the first stage is over.
ChipInv ==
    /\ pc # "early" => active["irq"] # "none"
    /\ enabled => pc # "early"
    /\ pc \in {"early", "input", "handler", "enable"} => ~enabled
    /\ service = {}

\* The inductive invariant.
IInv == floppy \in BOOLEAN /\ LoaderInv /\ ChipInv

\* The sizes of modules are positive.
LEMMA Sizes == ASSUME NEW m \in Modules PROVE Size[m] \in Nat /\ Size[m] > 0
BY BootAssumption

\* Every loaded image is that of a module, at a place.
LEMMA LoadedImage ==
    ASSUME LoaderInv, NEW k \in 1 .. Len(loaded)
    PROVE  loaded[k].mod \in Modules /\ loaded[k].at \in Nat
<1>1. loaded \in Seq(Image)
  BY DEF LoaderInv
<1>2. loaded[k] \in Image
  BY <1>1
<1> QED
  BY <1>2 DEF Image

\* A module's code is copied behind the arena's mark: what is below stays.
LEMMA CopiedPlaced ==
    ASSUME LoaderInv, NEW m \in Modules, used + Size[m] <= ArenaSize
    PROVE  /\ Placed(loaded, used, Copied(m))
           /\ \A x \in used + 1 .. used + Size[m] : Copied(m)[x] = m
<1>1. used \in Nat /\ Size[m] \in Nat /\ ArenaSize \in Nat
  BY Sizes, BootAssumption DEF LoaderInv
<1>2. \A x \in used + 1 .. used + Size[m] : Copied(m)[x] = m
  BY <1>1 DEF Copied
<1>3. ASSUME NEW k \in 1 .. Len(loaded), loaded[k].at > 0
      PROVE  /\ loaded[k].at + Size[loaded[k].mod] - 1 <= used
             /\ \A x \in loaded[k].at .. loaded[k].at + Size[loaded[k].mod] - 1 :
                   Copied(m)[x] = loaded[k].mod
  <2>1. loaded[k].mod \in Modules /\ loaded[k].at \in Nat
    BY LoadedImage
  <2>2. Size[loaded[k].mod] \in Nat
    BY <2>1, Sizes
  <2>3. /\ loaded[k].at + Size[loaded[k].mod] - 1 <= used
        /\ \A x \in loaded[k].at .. loaded[k].at + Size[loaded[k].mod] - 1 :
              arena[x] = loaded[k].mod
    BY <1>3 DEF LoaderInv, Placed
  <2>4. ASSUME NEW x \in loaded[k].at .. loaded[k].at + Size[loaded[k].mod] - 1
        PROVE  Copied(m)[x] = loaded[k].mod
    <3>1. x \in Int /\ loaded[k].at <= x /\ x <= loaded[k].at + Size[loaded[k].mod] - 1
      BY <2>1, <2>2
    <3>2. x <= used /\ used <= ArenaSize
      BY <1>1, <2>1, <2>2, <2>3, <3>1 DEF LoaderInv
    <3>3. x \in 1 .. ArenaSize
      BY <1>1, <1>3, <2>1, <3>1, <3>2
    <3>4. x \notin used + 1 .. used + Size[m]
      BY <1>1, <3>1, <3>2
    <3>5. Copied(m)[x] = arena[x]
      BY <3>3, <3>4 DEF Copied
    <3> QED
      BY <2>3, <3>5
  <2> QED
    BY <2>3, <2>4
<1> QED
  BY <1>2, <1>3 DEF Placed

\* smod_activate keeps the hooks and the places in order, whether the entry
\* succeeds or not.
LEMMA ActivateKeeps ==
    ASSUME LoaderInv, NEW m \in Modules, NEW at \in Nat, NEW ok \in BOOLEAN,
           Activate(m, at, ok),
           Placed(loaded, used, arena'),
           at > 0 => /\ at = used + 1 /\ used + Size[m] <= ArenaSize
                     /\ \A x \in used + 1 .. used + Size[m] : arena'[x] = m
    PROVE  /\ active' \in [Services -> Drivers]
           /\ loaded' \in Seq(Image)
           /\ used' \in 0 .. ArenaSize
           /\ Resident(active', loaded')
           /\ Placed(loaded', used', arena')
           /\ active["irq"] # "none" => active'["irq"] # "none"
           /\ \A s \in Services : active[s] \in Modules => active'[s] = active[s]
<1>1. used \in Nat /\ Size[m] \in Nat /\ Size[m] > 0 /\ ArenaSize \in Nat
  BY Sizes, BootAssumption DEF LoaderInv
<1>2. CASE ok /\ Registers(m)
  <2> DEFINE img == [mod |-> m, at |-> at]
  <2>1. /\ active' = [s \in Services |-> IF s \in Provides[m] THEN m ELSE active[s]]
        /\ loaded' = Append(loaded, img)
        /\ used' = IF at > 0 THEN used + Size[m] ELSE used
    BY <1>2 DEF Activate
  <2>2. img \in Image /\ img.mod = m /\ img.at = at
    BY DEF Image
  <2> HIDE DEF img
  <2>3. /\ loaded' \in Seq(Image) /\ Len(loaded') = Len(loaded) + 1
        /\ loaded'[Len(loaded) + 1] = img
        /\ \A k \in 1 .. Len(loaded) : loaded'[k] = loaded[k]
        /\ Len(loaded) \in Nat
    BY <2>1, <2>2 DEF LoaderInv
  <2>4. active' \in [Services -> Drivers]
    BY <2>1 DEF LoaderInv, Drivers
  <2>5. used' \in 0 .. ArenaSize /\ used' >= used
    BY <1>1, <2>1 DEF LoaderInv
  <2>6. Resident(active', loaded')
    <3>1. SUFFICES ASSUME NEW s \in Services, active'[s] \in Modules
                   PROVE  /\ s \in Provides[active'[s]]
                          /\ \E k \in 1 .. Len(loaded') : loaded'[k].mod = active'[s]
      BY DEF Resident
    <3>2. CASE s \in Provides[m]
      BY <3>2, <2>1, <2>2, <2>3
    <3>3. CASE s \notin Provides[m]
      <4>1. active'[s] = active[s]
        BY <3>3, <2>1
      <4>2. PICK k \in 1 .. Len(loaded) : loaded[k].mod = active[s]
        BY <3>1, <4>1 DEF LoaderInv, Resident
      <4>3. s \in Provides[active[s]]
        BY <3>1, <4>1 DEF LoaderInv, Resident
      <4>4. k \in 1 .. Len(loaded') /\ loaded'[k].mod = active[s]
        BY <4>2, <2>3
      <4> QED
        BY <4>1, <4>3, <4>4
    <3> QED
      BY <3>2, <3>3
  <2>7. Placed(loaded', used', arena')
    <3>1. SUFFICES ASSUME NEW k \in 1 .. Len(loaded'), loaded'[k].at > 0
                   PROVE  /\ loaded'[k].at + Size[loaded'[k].mod] - 1 <= used'
                          /\ \A x \in loaded'[k].at .. loaded'[k].at + Size[loaded'[k].mod] - 1 :
                                arena'[x] = loaded'[k].mod
      BY DEF Placed
    <3>2. CASE k = Len(loaded) + 1
      <4>1. loaded'[k].mod = m /\ loaded'[k].at = at /\ at = used + 1 /\ used' = used + Size[m]
        BY <3>1, <3>2, <2>1, <2>2, <2>3
      <4>2. at + Size[m] - 1 = used + Size[m]
        <5>1. at = used + 1
          BY <4>1
        <5> QED
          BY <5>1, <1>1
      <4>3. \A x \in used + 1 .. used + Size[m] : arena'[x] = m
        BY <3>1, <4>1
      <4> QED
        BY <1>1, <4>1, <4>2, <4>3
    <3>3. CASE k # Len(loaded) + 1
      <4>1. k \in 1 .. Len(loaded) /\ loaded'[k] = loaded[k]
        BY <3>3, <2>3
      <4>2. /\ loaded[k].at + Size[loaded[k].mod] - 1 <= used
            /\ \A x \in loaded[k].at .. loaded[k].at + Size[loaded[k].mod] - 1 :
                  arena'[x] = loaded[k].mod
        BY <3>1, <4>1 DEF Placed
      <4>3. loaded[k].mod \in Modules /\ loaded[k].at \in Nat
        BY <4>1, LoadedImage
      <4>4. Size[loaded[k].mod] \in Nat
        BY <4>3, Sizes
      <4> QED
        BY <1>1, <2>5, <4>1, <4>2, <4>3, <4>4
    <3> QED
      BY <3>2, <3>3
  <2>8. active["irq"] # "none" => active'["irq"] # "none"
    BY <2>1, ModuleAssumption DEF Services
  <2>9. \A s \in Services : active[s] \in Modules => active'[s] = active[s]
    BY <1>2, <2>1 DEF Registers
  <2> QED
    BY <2>3, <2>4, <2>5, <2>6, <2>7, <2>8, <2>9
<1>3. CASE ~(ok /\ Registers(m))
  BY <1>3 DEF Activate, LoaderInv
<1> QED
  BY <1>2, <1>3

\* What the first module of a list is, and what is left of the list.
LEMMA NextModule ==
    ASSUME LoaderInv, todo # <<>>
    PROVE  Head(todo) \in Modules /\ Tail(todo) \in Seq(Modules)
BY DEF LoaderInv

\* What no step of the loader or of the rest of kmain undoes.
Onward ==
    /\ LoaderInv'
    /\ \A s \in Services : active[s] \in Modules => active'[s] = active[s]
    /\ active["irq"] # "none" => active'["irq"] # "none"

\* A step that leaves the registry alone and takes a list of modules.
LEMMA SameRegistry ==
    ASSUME LoaderInv, UNCHANGED registry, todo' \in Seq(Modules)
    PROVE  Onward
BY DEF Onward, LoaderInv, registry

\* The first stage.
LEMMA PreloadKeeps ==
    ASSUME LoaderInv, NEW valid \in BOOLEAN, NEW ok \in BOOLEAN, Preload(valid, ok)
    PROVE  Onward
<1> DEFINE m == Head(todo)
<1>1. m \in Modules /\ todo' \in Seq(Modules)
  BY NextModule DEF Preload
<1>2. CASE valid /\ Len(loaded) < MaxLoaded /\ m \notin preloaded /\ Size[m] <= ArenaSize - used
  <2>1. arena' = Copied(m) /\ Activate(m, used + 1, ok)
    BY <1>2 DEF Preload
  <2>2. Size[m] <= ArenaSize - used
    BY <1>2
  <2> HIDE DEF m
  <2>3. used \in Nat /\ Size[m] \in Nat /\ ArenaSize \in Nat
    BY <1>1, Sizes, BootAssumption DEF LoaderInv
  <2>4. used + Size[m] <= ArenaSize /\ used + 1 \in Nat
    BY <2>2, <2>3
  <2>5. /\ Placed(loaded, used, arena')
        /\ \A x \in used + 1 .. used + Size[m] : arena'[x] = m
    BY <1>1, <2>1, <2>4, CopiedPlaced
  <2>6. /\ active' \in [Services -> Drivers] /\ loaded' \in Seq(Image) /\ used' \in 0 .. ArenaSize
        /\ Resident(active', loaded') /\ Placed(loaded', used', arena')
        /\ active["irq"] # "none" => active'["irq"] # "none"
        /\ \A s \in Services : active[s] \in Modules => active'[s] = active[s]
    BY <1>1, <2>1, <2>4, <2>5, ActivateKeeps
  <2> QED
    BY <1>1, <2>6 DEF Onward, LoaderInv
<1>3. CASE ~(valid /\ Len(loaded) < MaxLoaded /\ m \notin preloaded /\ Size[m] <= ArenaSize - used)
  <2>1. UNCHANGED registry
    BY <1>3 DEF Preload
  <2> QED
    BY <1>1, <2>1, SameRegistry
<1> QED
  BY <1>2, <1>3

\* The second stage, in the arena or outside it.
LEMMA LoadFileKeeps ==
    ASSUME LoaderInv, NEW valid \in BOOLEAN, NEW room \in BOOLEAN, NEW ok \in BOOLEAN,
           LoadFile(valid, room, ok)
    PROVE  Onward
<1> DEFINE m == Head(todo)
           fits == IF floppy THEN Size[m] <= ImageLimit - used ELSE room
           at == IF floppy THEN used + 1 ELSE 0
           good == m \notin preloaded /\ Len(loaded) < MaxLoaded /\ valid /\ fits
<1>1. m \in Modules /\ todo' \in Seq(Modules)
  <2>1. todo # <<>> /\ (todo' = <<>> \/ todo' = Tail(todo))
    BY DEF LoadFile
  <2>2. <<>> \in Seq(Modules)
    OBVIOUS
  <2> QED
    BY <2>1, <2>2, NextModule
<1>2. used \in Nat /\ Size[m] \in Nat /\ ArenaSize \in Nat /\ ImageLimit = ArenaSize
  BY <1>1, Sizes, BootAssumption DEF LoaderInv
<1>3. CASE good
  <2>1. arena' = (IF floppy THEN Copied(m) ELSE arena) /\ Activate(m, at, ok)
    BY <1>3 DEF LoadFile
  <2>2. at \in Nat
    BY <1>2
  <2>3. /\ Placed(loaded, used, arena')
        /\ at > 0 => /\ at = used + 1 /\ used + Size[m] <= ArenaSize
                     /\ \A x \in used + 1 .. used + Size[m] : arena'[x] = m
    <3>1. CASE floppy
      <4>1. Size[m] <= ArenaSize - used /\ at = used + 1 /\ arena' = Copied(m)
        BY <1>2, <1>3, <2>1, <3>1
      <4> HIDE DEF m
      <4>2. used + Size[m] <= ArenaSize
        BY <1>2, <4>1
      <4> QED
        BY <1>1, <4>1, <4>2, CopiedPlaced
    <3>2. CASE ~floppy
      BY <2>1, <3>2 DEF LoaderInv
    <3> QED
      BY <3>1, <3>2
  <2> HIDE DEF m, at
  <2>4. /\ active' \in [Services -> Drivers] /\ loaded' \in Seq(Image) /\ used' \in 0 .. ArenaSize
        /\ Resident(active', loaded') /\ Placed(loaded', used', arena')
        /\ active["irq"] # "none" => active'["irq"] # "none"
        /\ \A s \in Services : active[s] \in Modules => active'[s] = active[s]
    BY <1>1, <2>1, <2>2, <2>3, ActivateKeeps
  <2> QED
    BY <1>1, <2>4 DEF Onward, LoaderInv
<1>4. CASE ~good
  <2>1. UNCHANGED <<active, loaded, used, arena, preloaded>>
    BY <1>4 DEF LoadFile
  <2> QED
    BY <1>1, <2>1, SameRegistry DEF registry
<1> QED
  BY <1>3, <1>4

\* irq_chip_platform_init gives the controller its driver and takes none away.
LEMMA InterruptsInitKeeps ==
    ASSUME LoaderInv, InterruptsInit
    PROVE  Onward /\ active'["irq"] # "none"
<1>1. /\ active' = [active EXCEPT !["irq"] = IF @ = "none" THEN "built-in" ELSE @]
      /\ UNCHANGED <<todo, loaded, used, arena>>
  BY DEF InterruptsInit
<1>2. \A s \in Services : active'[s] = IF s = "irq" /\ active[s] = "none" THEN "built-in" ELSE active[s]
  BY <1>1 DEF LoaderInv
<1>3. active' \in [Services -> Drivers] /\ active'["irq"] # "none"
  BY <1>1, <1>2 DEF LoaderInv, Drivers, Services
<1>4. \A s \in Services : /\ active[s] \in Modules => active'[s] = active[s]
                          /\ active'[s] \in Modules => active'[s] = active[s]
  BY <1>2, ModuleAssumption
<1>5. Resident(active', loaded')
  BY <1>1, <1>4 DEF LoaderInv, Resident
<1> QED
  BY <1>1, <1>3, <1>4, <1>5 DEF Onward, LoaderInv

\* Nothing is loaded at the start.
LEMMA InitIInv == ASSUME Init PROVE IInv
<1>1. todo \in Seq(Modules) /\ floppy \in BOOLEAN
  BY ModuleAssumption DEF Init
<1>2. loaded = <<>> /\ Len(loaded) = 0 /\ loaded \in Seq(Image)
  BY DEF Init
<1>3. active \in [Services -> Drivers]
  BY DEF Init, Drivers
<1>4. used \in 0 .. ArenaSize
  BY BootAssumption DEF Init
<1>5. Resident(active, loaded)
  BY ModuleAssumption DEF Resident, Init
<1>6. Placed(loaded, used, arena)
  BY <1>2 DEF Placed
<1>7. ChipInv
  BY DEF Init, ChipInv
<1> QED
  BY <1>1, <1>2, <1>3, <1>4, <1>5, <1>6, <1>7 DEF IInv, LoaderInv

\* Every step keeps the invariant and undoes nothing.
LEMMA NextIInv ==
    ASSUME IInv, [Next]_vars
    PROVE  IInv' /\ \A s \in Services : active[s] \in Modules => active'[s] = active[s]
<1> USE DEF kernel, chip, keyboard
<1>1. ASSUME UNCHANGED <<floppy, registry>>, todo' \in Seq(Modules), ChipInv'
      PROVE  IInv' /\ \A s \in Services : active[s] \in Modules => active'[s] = active[s]
  BY <1>1, SameRegistry DEF IInv, Onward
<1>2. todo \in Seq(Modules) /\ OnDisk[floppy] \in Seq(Modules) /\ <<>> \in Seq(Modules)
  BY ModuleAssumption DEF IInv, LoaderInv
<1>3. CASE UNCHANGED vars
  BY <1>1, <1>2, <1>3 DEF vars, registry, IInv, ChipInv
<1>4. ASSUME NEW valid \in BOOLEAN, NEW ok \in BOOLEAN, Preload(valid, ok)
      PROVE  IInv' /\ \A s \in Services : active[s] \in Modules => active'[s] = active[s]
  <2>1. Onward
    BY <1>4, PreloadKeeps DEF IInv
  <2>2. ChipInv' /\ floppy' \in BOOLEAN
    BY <1>4, <2>1 DEF Preload, IInv, ChipInv, Onward
  <2> QED
    BY <2>1, <2>2 DEF IInv, Onward
<1>5. ASSUME NEW valid \in BOOLEAN, NEW room \in BOOLEAN, NEW ok \in BOOLEAN,
             LoadFile(valid, room, ok)
      PROVE  IInv' /\ \A s \in Services : active[s] \in Modules => active'[s] = active[s]
  <2>1. Onward
    BY <1>5, LoadFileKeeps DEF IInv
  <2>2. ChipInv' /\ floppy' \in BOOLEAN
    BY <1>5, <2>1 DEF LoadFile, IInv, ChipInv, Onward
  <2> QED
    BY <2>1, <2>2 DEF IInv, Onward
<1>6. CASE InterruptsInit
  <2>1. Onward /\ active'["irq"] # "none"
    BY <1>6, InterruptsInitKeeps DEF IInv
  <2>2. ChipInv' /\ floppy' \in BOOLEAN
    BY <1>6, <2>1 DEF InterruptsInit, Step, IInv, ChipInv
  <2> QED
    BY <2>1, <2>2 DEF IInv, Onward
<1>7. CASE InitLoaded
  BY <1>1, <1>2, <1>7 DEF InitLoaded, IInv, ChipInv, registry
<1>8. CASE KeyboardInit
  BY <1>1, <1>2, <1>8 DEF KeyboardInit, Step, IInv, ChipInv, registry
<1>9. CASE RegisterKeyboard
  BY <1>1, <1>2, <1>9 DEF RegisterKeyboard, Step, IInv, ChipInv, registry
<1>10. CASE Enable
  BY <1>1, <1>2, <1>10 DEF Enable, Step, IInv, ChipInv, registry
<1>11. CASE Mount
  BY <1>1, <1>2, <1>11 DEF Mount, Step, IInv, ChipInv, registry
<1>12. CASE StartShell
  BY <1>1, <1>2, <1>12 DEF StartShell, Step, IInv, ChipInv, registry
<1>13. ASSUME NEW n \in 1 .. MaxSleep, Nanosleep(n)
       PROVE  IInv' /\ \A s \in Services : active[s] \in Modules => active'[s] = active[s]
  BY <1>1, <1>2, <1>13 DEF Nanosleep, IInv, ChipInv, registry
<1>14. CASE Strike
  BY <1>1, <1>2, <1>14 DEF Strike, IInv, ChipInv, registry
<1>15. CASE Tick
  BY <1>1, <1>2, <1>15 DEF Tick, IInv, ChipInv, registry
<1>16. ASSUME NEW i \in Lines, Dispatch(i)
       PROVE  IInv' /\ \A s \in Services : active[s] \in Modules => active'[s] = active[s]
  BY <1>1, <1>2, <1>16 DEF Dispatch, Acknowledge, IInv, ChipInv, registry
<1> QED
  BY <1>3, <1>4, <1>5, <1>6, <1>7, <1>8, <1>9, <1>10, <1>11, <1>12, <1>13, <1>14, <1>15, <1>16
     DEF Next, Kmain

\* The invariant always holds.
LEMMA SpecIInv == Spec => []IInv
<1>1. Init => IInv
  BY InitIInv
<1>2. IInv /\ [Next]_vars => IInv'
  BY NextIInv
<1> QED
  BY <1>1, <1>2, PTL DEF Spec

\* For every set of modules: a service is done by a module only if that module's
\* entry succeeded and its image is resident (smod_activate).
THEOREM FailedModulesLeaveNoHooks == Spec => []HooksResident
<1>1. IInv => HooksResident
  BY DEF IInv, LoaderInv, Resident, HooksResident
<1> QED
  BY <1>1, SpecIInv, PTL

\* For every arena and every order of modules: no module is copied over the code
\* of one that is in use (smod_core_preload, smod_core_load_file).
THEOREM ArenaCodeIntact == Spec => []CodeIntact
<1>1. ASSUME IInv PROVE CodeIntact
  <2>1. SUFFICES ASSUME NEW k \in 1 .. Len(loaded), loaded[k].at > 0,
                        NEW u \in loaded[k].at .. loaded[k].at + Size[loaded[k].mod] - 1
                 PROVE  u <= ArenaSize /\ arena[u] = loaded[k].mod
    BY <1>1 DEF CodeIntact, IInv, LoaderInv
  <2>2. loaded[k].mod \in Modules /\ loaded[k].at \in Nat
    BY <1>1, LoadedImage DEF IInv
  <2>3. Size[loaded[k].mod] \in Nat /\ used \in Nat /\ used <= ArenaSize /\ ArenaSize \in Nat
    BY <1>1, <2>2, Sizes, BootAssumption DEF IInv, LoaderInv
  <2>4. loaded[k].at + Size[loaded[k].mod] - 1 <= used /\ arena[u] = loaded[k].mod
    BY <1>1, <2>1 DEF IInv, LoaderInv, Placed
  <2>5. u \in Int /\ u <= loaded[k].at + Size[loaded[k].mod] - 1
    BY <2>2, <2>3
  <2> QED
    BY <2>2, <2>3, <2>4, <2>5
<1>2. IInv => CodeIntact
  BY <1>1
<1> QED
  BY <1>2, SpecIInv, PTL

\* A service that a module does is never taken over by a later module (the
\* smod_register functions refuse a second registration).
THEOREM HooksNeverReplaced == Spec => HooksStay
<1>1. IInv /\ [Next]_vars =>
          [\A s \in Services : active[s] \in Modules => active'[s] = active[s]]_vars
  BY NextIInv
<1> QED
  BY <1>1, SpecIInv, PTL DEF Spec, HooksStay

\* Interrupts are enabled only once the controller has a driver to acknowledge
\* them, and none stays in service (kmain's order, interrupts_common_dispatch).
THEOREM InterruptsAcknowledged == Spec => []InterruptsAnswered
<1>1. IInv => InterruptsAnswered
  BY DEF IInv, ChipInv, InterruptsAnswered
<1> QED
  BY <1>1, SpecIInv, PTL
=============================================================================
