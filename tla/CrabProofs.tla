----------------------------- MODULE CrabProofs -----------------------------
(***************************************************************************)
(* The loader, the configurator and the cores of the crab load balancer:   *)
(* any number of cores, of loads, of configurations and of kills.  What    *)
(* the maps hold is good at every system call of lb_cfg, so a core may     *)
(* read them one after the other without a lock.  What a loader makes of   *)
(* the pins is known from the pins it found, wherever it is stopped.       *)
(***************************************************************************)
EXTENDS Crab, TLAPS

Pins == [Names -> Objects \cup {None}]

Pcs == {"ok", "failed", "killed", "reuse", "attach", "detach", "retry",
        "access", "unpin", "pin", "unwind"}
AllModes == {"skb", "drv", "none"}

Devices == [native : BOOLEAN, mode : AllModes, prog : Pins]
Loaders == [pc : Pcs, mode : AllModes, obj : Pins, i : Int, begin : Pins]

LoaderInv ==
  /\ device \in Devices
  /\ pinned \in Pins
  /\ loader \in Loaders
  /\ objects \in 0 .. MaxObjects

Writing == cfg.pc \in {"target", "mac", "count"}
fd_t == cfg.fd["targets_map"]
fd_m == cfg.fd["macs_map"]
fd_c == cfg.fd["targets_count"]

\* The slots lb_cfg has written a target to.
WrittenSlots == 0 .. (IF cfg.pc = "target" THEN cfg.i - 2 ELSE cfg.i - 1)

Configurators == [pc : {"idle", "open", "target", "mac", "count"},
                  conf : Configs \cup {<<>>}, i : Int, fd : Pins]

CfgShape ==
  /\ targets \in [Objects -> [Slots -> Ips \cup {Zero}]]
  /\ DOMAIN macs = Objects
  /\ count \in [Objects -> Nat]
  /\ cfg \in Configurators

\* Where lb_cfg is: what it has opened, and what it has written.
CfgProgress ==
  /\ cfg.pc = "open" =>
       /\ cfg.conf \in Configs /\ cfg.i \in 1 .. 3
       /\ cfg.i > 1 => fd_t \in Objects
       /\ cfg.i > 2 => fd_m \in Objects
  /\ Writing =>
       /\ cfg.conf \in Configs /\ cfg.i \in 1 .. Len(cfg.conf)
       /\ cfg.pc = "count" => cfg.i = Len(cfg.conf)
       /\ fd_t \in Objects /\ fd_m \in Objects
       /\ \/ fd_t = fd_m /\ fd_t = fd_c
          \/ {fd_t, fd_m, fd_c} \ {None} \subseteq crossed
       /\ \A s \in WrittenSlots : s \in Slots /\ targets[fd_t][s] # Zero

Reaches(o, ip) == ip \in DOMAIN macs[o] \/ <<o, ip>> \in torn \cup Window

\* Every address in a targets_map can be reached, and every slot below the
\* count has one.
MapsGood ==
  \A o \in Objects \ crossed :
    /\ \A s \in Slots : targets[o][s] = Zero \/ Reaches(o, targets[o][s])
    /\ \A s \in 0 .. count[o] - 1 : s \in Slots /\ targets[o][s] # Zero

CfgInv == CfgShape /\ CfgProgress /\ MapsGood

CoreShape ==
  /\ DOMAIN core = Cores
  /\ \A c \in Cores : DOMAIN core[c] = {"pc", "prog", "configured", "key", "daddr"}
  /\ rr_idx \in [Objects -> [Cores -> Nat]]

CrabInv == LoaderInv /\ CfgInv /\ CoreShape /\ SynForwarded

-----------------------------------------------------------------------------

LEMMA NamesOfMaps ==
  /\ "targets_map" \in Names /\ "macs_map" \in Names
  /\ "targets_count" \in Names /\ "cpu_rr_idx" \in Names
BY DEF Names, Range, maps

LEMMA NowhereIsPins == Nowhere \in Pins
BY Zenon DEF Nowhere, Pins

LEMMA CrabInit == Init => CrabInv
<1> SUFFICES ASSUME Init PROVE CrabInv
  BY Zenon
<1> USE DEF Init
<1>1. LoaderInv
  BY NowhereIsPins, LoaderAssumption
     DEF LoaderInit, LoaderInv, Idle, Loaders, Devices, Pcs, AllModes
<1>2. CfgShape /\ cfg.pc = "idle"
  BY NowhereIsPins DEF CfgInit, CfgShape, NotConfiguring, Configurators
<1>3. CfgProgress
  BY <1>2, Zenon DEF CfgProgress, Writing
<1>4. MapsGood
  <2> SUFFICES ASSUME NEW o \in Objects
               PROVE  /\ \A s \in Slots : targets[o][s] = Zero
                      /\ 0 .. count[o] - 1 = {}
    BY Zenon DEF MapsGood
  <2> QED
    BY DEF CfgInit
<1>5. CoreShape
  BY Zenon DEF CoreInit, CoreShape, Done
<1>6. SynForwarded
  BY Zenon DEF CoreInit, SynForwarded, Done
<1> QED
  BY <1>1, <1>2, <1>3, <1>4, <1>5, <1>6, Zenon DEF CrabInv, CfgInv

-----------------------------------------------------------------------------
(* The loader.                                                             *)

LEMMA IdleIsLoader ==
  ASSUME NEW pc \in Pcs
  PROVE  Idle(pc) \in Loaders
BY NowhereIsPins DEF Idle, Loaders, AllModes

\* How the loader's record, the device and the pins change.
LEMMA GotoIsLoader ==
  ASSUME loader \in Loaders, NEW pc \in Pcs, NEW i \in Int, Goto(pc, i)
  PROVE  loader' \in Loaders
BY Zenon DEF Goto, Loaders, AllModes

LEMMA EndIsLoader ==
  ASSUME NEW pc \in Pcs, End(pc)
  PROVE  loader' \in Loaders
BY IdleIsLoader, Zenon DEF End

LEMMA AttachedIsDevice ==
  ASSUME device \in Devices, NEW mode \in AllModes, NEW prog \in Pins
  PROVE  Attached(mode, prog) \in Devices
BY Zenon DEF Attached, Devices

LEMMA PinIsPins ==
  ASSUME NEW pins \in Pins, NEW other \in Pins, NEW m
  PROVE  /\ [pins EXCEPT ![m] = other[m]] \in Pins
         /\ [pins EXCEPT ![m] = None] \in Pins
BY Zenon DEF Pins

LEMMA SetLinkKeeps ==
  ASSUME LoaderInv, NEW mode \in AllModes, SetLink(mode)
  PROVE  device' \in Devices /\ loader' \in Loaders
<1>1. loader.obj \in Pins
  BY Zenon DEF LoaderInv, Loaders
<1>2. "ok" \in Pcs /\ "failed" \in Pcs /\ "access" \in Pcs /\ 0 \in Int
  BY DEF Pcs
<1>3. CASE device' = Attached(mode, loader.obj) /\ IF Reusing THEN End("ok") ELSE Goto("access", 0)
  BY <1>1, <1>2, <1>3, AttachedIsDevice, EndIsLoader, GotoIsLoader, Zenon DEF LoaderInv
<1>4. CASE End("failed") /\ UNCHANGED device
  BY <1>2, <1>4, EndIsLoader, Zenon DEF LoaderInv
<1> QED
  BY <1>3, <1>4, Zenon DEF SetLink

LEMMA LoaderStep == LoaderInv /\ LoaderNext => LoaderInv'
<1> SUFFICES ASSUME LoaderInv, LoaderNext PROVE LoaderInv'
  BY Zenon
<1> USE EndIsLoader, GotoIsLoader, NowhereIsPins DEF LoaderInv, Pcs
<1>1. CASE Load
  <2>1. [m \in Names |-> objects + 1] \in Pins /\ objects' \in 0 .. MaxObjects
    BY <1>1, LoaderAssumption DEF Load, Pins, Objects
  <2>2. loader' \in Loaders
    <3>1. Idle("attach") \in Loaders
      BY IdleIsLoader, Zenon
    <3> HIDE DEF LoaderInv, Pcs
    <3>2. loader' = [Idle("attach") EXCEPT !.obj = [m \in Names |-> objects + 1], !.begin = pinned]
      BY <1>1, Zenon DEF Load
    <3>3. pinned \in Pins
      BY Zenon DEF LoaderInv
    <3> QED
      BY ONLY <2>1, <3>1, <3>2, <3>3, Zenon DEF Loaders
  <2> QED
    BY <1>1, <2>1, <2>2, Zenon DEF Load
<1>2. CASE LoadReusing
  <2>1. loader' \in Loaders
    <3>1. loader' = [pc |-> "reuse", mode |-> "none", obj |-> Nowhere, i |-> 1, begin |-> pinned]
      BY <1>2, Zenon DEF LoadReusing, Idle
    <3>2. "reuse" \in Pcs /\ "none" \in AllModes /\ 1 \in Int /\ pinned \in Pins
      BY DEF AllModes
    <3> HIDE DEF Pcs
    <3> QED
      BY ONLY <3>1, <3>2, NowhereIsPins, Zenon DEF Loaders
  <2> QED
    BY <1>2, <2>1, Zenon DEF LoadReusing
<1>3. CASE reuse_maps
  <2> DEFINE m == maps[loader.i]
  <2>1. [loader.obj EXCEPT ![m] = pinned[m]] \in Pins
    BY PinIsPins, Zenon DEF Loaders
  <2>2. Len(maps) = 4
    BY Zenon DEF maps
  <2>3. CASE End("failed")
    BY <1>3, <2>3, Zenon DEF reuse_maps
  <2>4. CASE loader' = [loader EXCEPT !.obj[m] = pinned[m],
                          !.i = (@ % Len(maps)) + 1,
                          !.pc = IF loader.i = Len(maps) THEN "attach" ELSE "reuse"]
    <3>1. (loader.i % 4) + 1 \in Int
      BY DEF Loaders
    <3>2. loader' = [loader EXCEPT !.obj = [loader.obj EXCEPT ![m] = pinned[m]],
                       !.i = (loader.i % 4) + 1,
                       !.pc = IF loader.i = 4 THEN "attach" ELSE "reuse"]
      BY <2>2, <2>4, Zenon
    <3>3. "attach" \in Pcs /\ "reuse" \in Pcs
      BY Zenon
    <3>4. loader \in Loaders
      BY Zenon
    <3>5. loader' \in Loaders
      BY ONLY <2>1, <3>1, <3>2, <3>3, <3>4, Zenon DEF Loaders
    <3> QED
      BY <1>3, <3>5, Zenon DEF reuse_maps
  <2> QED
    BY <1>3, <2>3, <2>4, Zenon DEF reuse_maps
<1>5. ASSUME NEW mode \in Modes, NEW force \in BOOLEAN, xdp_link_attach(mode, force)
      PROVE  LoaderInv'
  <2>1. mode \in AllModes
    BY Zenon DEF Modes, AllModes
  <2>2. CASE End("failed") /\ UNCHANGED device
    BY <1>5, <2>2, Zenon DEF xdp_link_attach
  <2>3. CASE loader' = [loader EXCEPT !.pc = "detach", !.mode = mode] /\ UNCHANGED device
    <3>1. loader' \in Loaders
      BY <2>1, <2>3, Zenon DEF Loaders
    <3> QED
      BY <1>5, <2>3, <3>1, Zenon DEF xdp_link_attach
  <2>4. CASE SetLink(mode)
    BY <1>5, <2>1, <2>4, SetLinkKeeps, Zenon DEF xdp_link_attach
  <2> QED
    BY <1>5, <2>2, <2>3, <2>4, Zenon DEF xdp_link_attach
<1>6. CASE DetachOpposite
  <2>1. loader' \in Loaders
    BY <1>6, Zenon DEF DetachOpposite, Loaders
  <2>2. device' \in Devices
    BY <1>6, AttachedIsDevice, Zenon DEF DetachOpposite, Detached, AllModes
  <2> QED
    BY <1>6, <2>1, <2>2, Zenon DEF DetachOpposite
<1>7. CASE Reattach
  <2>1. loader.mode \in AllModes
    BY Zenon DEF Loaders
  <2> QED
    BY <1>7, <2>1, SetLinkKeeps, Zenon DEF Reattach
<1>8. CASE pin_maps_in_bpf_object
  BY <1>8 DEF pin_maps_in_bpf_object
<1>9. loader.obj \in Pins /\ loader.i \in Int
  BY Zenon DEF Loaders
<1>10. CASE bpf_object__unpin_maps
  <2> DEFINE m == maps[loader.i]
  <2>1. pinned' \in Pins
    <3>1. pinned' = pinned \/ pinned' = [pinned EXCEPT ![m] = None]
      BY <1>10, Zenon DEF bpf_object__unpin_maps
    <3>2. pinned \in Pins
      BY Zenon
    <3> HIDE DEF m
    <3> QED
      BY ONLY <1>9, <3>1, <3>2, Zenon DEF Pins
  <2>2. loader' \in Loaders
    BY <1>9, <1>10 DEF bpf_object__unpin_maps, maps
  <2> QED
    BY <1>10, <2>1, <2>2, Zenon DEF bpf_object__unpin_maps
<1>11. CASE bpf_object__pin_maps
  <2> DEFINE m == maps[loader.i]
  <2>1. pinned' \in Pins
    <3>1. pinned' = pinned \/ pinned' = [pinned EXCEPT ![m] = loader.obj[m]]
      BY <1>11, Zenon DEF bpf_object__pin_maps
    <3>2. pinned \in Pins
      BY Zenon
    <3> HIDE DEF m
    <3> QED
      BY ONLY <1>9, <3>1, <3>2, Zenon DEF Pins
  <2>2. loader' \in Loaders
    BY <1>9, <1>11 DEF bpf_object__pin_maps, maps
  <2> QED
    BY <1>11, <2>1, <2>2, Zenon DEF bpf_object__pin_maps
<1>12. CASE UnpinEarlier
  <2>1. pinned' \in Pins
    BY <1>9, <1>12, PinIsPins, Zenon DEF UnpinEarlier
  <2>2. loader' \in Loaders
    BY <1>9, <1>12 DEF UnpinEarlier, maps
  <2> QED
    BY <1>12, <2>1, <2>2, Zenon DEF UnpinEarlier
<1>13. ASSUME NEW mode \in Modes, Unload(mode) PROVE LoaderInv'
  BY <1>13, AttachedIsDevice, Zenon DEF Unload, Detached, AllModes
<1>14. CASE KillLoader
  BY <1>14, Zenon DEF KillLoader
<1> QED
  BY <1>1, <1>2, <1>3, <1>5, <1>6, <1>7, <1>8, <1>10, <1>11, <1>12, <1>13, <1>14, Zenon
     DEF LoaderNext

-----------------------------------------------------------------------------
(* The pins a run of the loader finds, and what it makes of them.  The     *)
(* maps are counted in the order of the object file.                       *)

Begin(j) == loader.begin[maps[j]]
Pinned(j) == pinned[maps[j]]
Obj(j) == loader.obj[maps[j]]

\* Before the program is attached nothing is unpinned or pinned; a run that
\* reuses the maps takes those that are pinned, one after the other.
BeforeAttach ==
  /\ loader.pc \in {"reuse", "attach", "detach", "retry", "access"} => loader.begin = pinned
  /\ loader.pc = "reuse" =>
       /\ loader.i \in 1 .. 4
       /\ \A j \in 1 .. loader.i - 1 : Obj(j) = Pinned(j) /\ Pinned(j) # None
  /\ loader.pc \in {"attach", "detach", "retry"} =>
       Complete(loader.obj) /\ (Reusing => loader.obj = pinned)

\* Afterwards the device uses the maps of the new program.
AfterAttach ==
  loader.pc \in {"access", "unpin", "pin", "unwind"} =>
    Complete(loader.obj) /\ device.prog = loader.obj

\* The maps before index i are unpinned, and all of them were pinned.
Unpinning ==
  loader.pc = "unpin" =>
    /\ loader.i \in 1 .. 4
    /\ Begin(1) # None \/ Begin(2) # None
    /\ \A j \in 1 .. loader.i - 1 : Begin(j) # None
    /\ \A j \in loader.i .. 4 : Pinned(j) = Begin(j)
    /\ \A j \in 1 .. loader.i - 1 : Pinned(j) = None

\* The maps before index i are pinned.  Either all maps were pinned before and
\* have been unpinned, or neither of the two maps that the loader looks for
\* was, and no name was in use so far.
Pinning ==
  loader.pc = "pin" =>
    /\ loader.i \in 1 .. 4
    /\ \A j \in 1 .. loader.i - 1 : Pinned(j) = Obj(j)
    /\ \/ /\ Complete(loader.begin)
          /\ \A j \in loader.i .. 4 : Pinned(j) = None
       \/ /\ Begin(1) = None /\ Begin(2) = None
          /\ \A j \in 1 .. loader.i - 1 : Begin(j) = None
          /\ \A j \in loader.i .. 4 : Pinned(j) = Begin(j)

\* A name was in use: the maps up to index i, which were not pinned before,
\* are still to be unpinned.
Unwinding ==
  loader.pc = "unwind" =>
    /\ loader.i \in 1 .. 3
    /\ \A j \in 1 .. loader.i : Begin(j) = None
    /\ \A j \in loader.i + 1 .. 4 : Pinned(j) = Begin(j)
    /\ loader.begin # Nowhere

LoaderProgress ==
  PinnedMapsInUse /\ BeforeAttach /\ AfterAttach /\ Unpinning /\ Pinning /\ Unwinding

LEMMA FourMaps ==
  /\ Len(maps) = 4
  /\ Names = {maps[j] : j \in 1 .. 4}
  /\ \A j, k \in 1 .. 4 : maps[j] = maps[k] => j = k
  /\ maps[1] = "targets_map" /\ maps[2] = "macs_map"
<1>1. /\ Len(maps) = 4 /\ DOMAIN maps = 1 .. 4
      /\ maps[1] = "targets_map" /\ maps[2] = "macs_map"
      /\ maps[3] = "targets_count" /\ maps[4] = "cpu_rr_idx"
  BY DEF maps
<1>2. Names = {maps[j] : j \in 1 .. 4}
  BY <1>1, Zenon DEF Names, Range
<1>3. ASSUME NEW j \in 1 .. 4, NEW k \in 1 .. 4, maps[j] = maps[k] PROVE j = k
  BY <1>1, <1>3
<1> QED
  BY <1>1, <1>2, <1>3, Zenon

\* What is to be said of pins is said of the four maps.
LEMMA SamePins ==
  ASSUME NEW p \in Pins, NEW q \in Pins, \A j \in 1 .. 4 : p[maps[j]] = q[maps[j]]
  PROVE  p = q
<1>1. \A m \in Names : p[m] = q[m]
  BY FourMaps
<1> QED
  BY <1>1 DEF Pins

LEMMA CompletePins ==
  ASSUME NEW p \in Pins
  PROVE  Complete(p) <=> \A j \in 1 .. 4 : p[maps[j]] # None
BY FourMaps, Zenon DEF Complete

LEMMA NoPins ==
  ASSUME NEW p \in Pins
  PROVE  p = Nowhere <=> \A j \in 1 .. 4 : p[maps[j]] = None
<1>1. \A j \in 1 .. 4 : Nowhere[maps[j]] = None
  BY FourMaps, Zenon DEF Nowhere
<1> QED
  BY <1>1, SamePins, NowhereIsPins, Zenon

LEMMA GotoFields ==
  ASSUME loader \in Loaders, NEW pc, NEW i, Goto(pc, i)
  PROVE  /\ loader'.pc = pc /\ loader'.i = i
         /\ loader'.obj = loader.obj /\ loader'.begin = loader.begin
BY Zenon DEF Goto, Loaders

\* A run that ends other than well says no more than that.
LEMMA EndProgress ==
  ASSUME NEW pc, pc \in Ends, End(pc), pc = "ok" => pinned' = device'.prog
  PROVE  LoaderProgress'
<1>1. loader'.pc = pc
  BY Zenon DEF End, Idle
<1> QED
  BY <1>1, Zenon
     DEF LoaderProgress, PinnedMapsInUse, BeforeAttach, AfterAttach, Unpinning, Pinning,
              Unwinding, Ends

LEMMA SetLinkProgress ==
  ASSUME LoaderInv, LoaderProgress, loader.pc \in {"attach", "retry"},
         NEW mode \in AllModes, SetLink(mode), UNCHANGED pinned
  PROVE  LoaderProgress'
<1>1. /\ Complete(loader.obj) /\ (Reusing => loader.obj = pinned)
      /\ loader.begin = pinned
  BY Zenon DEF LoaderProgress, BeforeAttach
<1>2. CASE device' = Attached(mode, loader.obj) /\ Reusing /\ End("ok")
  <2>1. device'.prog = loader.obj
    BY <1>2, Zenon DEF Attached, LoaderInv, Devices
  <2> QED
    BY <1>1, <1>2, <2>1, EndProgress, Zenon DEF Ends
<1>3. CASE device' = Attached(mode, loader.obj) /\ Goto("access", 0)
  <2>1. device'.prog = loader.obj
    BY <1>3, Zenon DEF Attached, LoaderInv, Devices
  <2>2. loader'.pc = "access" /\ loader'.obj = loader.obj /\ loader'.begin = loader.begin
    BY <1>3, GotoFields, Zenon DEF LoaderInv
  <2>3. Complete(loader'.obj)
    BY <1>1, <2>2, Zenon DEF Complete
  <2> QED
    BY <1>1, <2>1, <2>2, <2>3, Zenon
       DEF LoaderProgress, PinnedMapsInUse, BeforeAttach, AfterAttach,
                       Unpinning, Pinning, Unwinding
<1>4. CASE End("failed")
  BY <1>4, EndProgress, Zenon DEF Ends
<1> QED
  BY <1>2, <1>3, <1>4, Zenon DEF SetLink

LEMMA ProgressStep == LoaderInv /\ LoaderProgress /\ LoaderNext => LoaderProgress'
<1> SUFFICES ASSUME LoaderInv, LoaderProgress, LoaderNext PROVE LoaderProgress'
  BY Zenon
<1>1. /\ pinned \in Pins /\ loader \in Loaders
      /\ loader.obj \in Pins /\ loader.begin \in Pins /\ loader.i \in Int
  BY Zenon DEF LoaderInv, Loaders
<1>2. PinnedMapsInUse /\ BeforeAttach /\ AfterAttach /\ Unpinning /\ Pinning /\ Unwinding
  BY Zenon DEF LoaderProgress
<1>3. "failed" \in Ends /\ "killed" \in Ends /\ "ok" \in Ends
  BY Zenon DEF Ends
<1>4. ASSUME NEW pc \in {"failed", "killed"}, End(pc) PROVE LoaderProgress'
  BY <1>3, <1>4, EndProgress, Zenon
<1>5. CASE Load
  <2>1. loader' = [pc |-> "attach", mode |-> "none", obj |-> [m \in Names |-> objects + 1],
                   i |-> 0, begin |-> pinned]
    BY <1>5, Zenon DEF Load, Idle
  <2>2. objects + 1 # None
    BY DEF LoaderInv, None
  <2>3. Complete(loader'.obj)
    BY <2>1, <2>2, Zenon DEF Complete
  <2>4. loader'.pc = "attach" /\ loader'.begin = pinned /\ loader'.i = 0
    BY <2>1, Zenon
  <2>5. pinned' = pinned
    BY <1>5, Zenon DEF Load
  <2> QED
    BY <2>3, <2>4, <2>5, Zenon
       DEF LoaderProgress, PinnedMapsInUse, BeforeAttach, AfterAttach, Unpinning,
                      Pinning, Unwinding, Reusing
<1>6. CASE LoadReusing
  <2>1. loader' = [pc |-> "reuse", mode |-> "none", obj |-> Nowhere, i |-> 1, begin |-> pinned]
    BY <1>6, Zenon DEF LoadReusing, Idle
  <2>2. loader'.pc = "reuse" /\ loader'.begin = pinned /\ loader'.i = 1
    BY <2>1, Zenon
  <2>3. pinned' = pinned
    BY <1>6, Zenon DEF LoadReusing
  <2> QED
    BY <2>2, <2>3 DEF LoaderProgress, PinnedMapsInUse, BeforeAttach, AfterAttach, Unpinning,
                Pinning, Unwinding
<1>7. CASE reuse_maps
  <2> DEFINE i == loader.i
             m == maps[i]
  <2>1. /\ i \in 1 .. 4 /\ loader.begin = pinned /\ loader.pc = "reuse"
        /\ \A j \in 1 .. i - 1 : Obj(j) = Pinned(j) /\ Pinned(j) # None
    BY <1>2, <1>7, Zenon DEF BeforeAttach, reuse_maps
  <2>2. CASE pinned[m] # None /\ loader' = [loader EXCEPT !.obj[m] = pinned[m],
                                              !.i = (@ % Len(maps)) + 1,
                                              !.pc = IF loader.i = Len(maps) THEN "attach" ELSE "reuse"]
    <3>1. /\ loader'.obj = [loader.obj EXCEPT ![m] = pinned[m]]
          /\ loader'.i = (i % 4) + 1
          /\ loader'.pc = IF i = 4 THEN "attach" ELSE "reuse"
          /\ loader'.begin = loader.begin
          /\ pinned' = pinned
      BY <1>1, <1>7, <2>2, FourMaps, Zenon DEF Loaders, reuse_maps
    <3>2. loader'.obj \in Pins
      <4> HIDE DEF i, m
      <4> QED
        BY <1>1, <3>1, Zenon DEF Pins
    <3>3. /\ loader'.obj[maps[i]] = pinned[maps[i]]
          /\ \A j \in 1 .. 4 : j # i => loader'.obj[maps[j]] = Obj(j)
      <4>1. loader'.obj = [loader.obj EXCEPT ![maps[i]] = pinned[maps[i]]]
        BY <3>1, Zenon
      <4> HIDE DEF i
      <4> QED
        BY <1>1, <2>1, <4>1, FourMaps DEF Obj, Pins
    <3>4. \A j \in 1 .. i : loader'.obj[maps[j]] = pinned[maps[j]] /\ pinned[maps[j]] # None
      <4> TAKE j \in 1 .. i
      <4>1. CASE j = i
        BY <2>2, <3>3, <4>1, Zenon
      <4>2. CASE j # i
        BY <2>1, <3>3, <4>2 DEF Obj, Pinned
      <4> QED
        BY <4>1, <4>2, Zenon
    <3> HIDE DEF i, m
    <3>5. CASE i = 4
      <4>1. Complete(loader'.obj) /\ loader'.obj = pinned
        BY <1>1, <3>2, <3>4, <3>5, CompletePins, SamePins, Zenon
      <4> QED
        BY <2>1, <3>1, <3>5, <4>1, Zenon
           DEF LoaderProgress, PinnedMapsInUse, BeforeAttach, AfterAttach,
                                      Unpinning, Pinning, Unwinding
    <3>6. CASE i # 4
      <4>1. loader'.i = i + 1 /\ loader'.pc = "reuse"
        BY <2>1, <3>1, <3>6
      <4>2. BeforeAttach'
        BY <2>1, <3>1, <3>4, <3>6, <4>1 DEF BeforeAttach, Obj, Pinned
      <4> QED
        BY <4>1, <4>2, Zenon
           DEF LoaderProgress, PinnedMapsInUse, AfterAttach, Unpinning, Pinning, Unwinding
    <3> QED
      BY <3>5, <3>6, Zenon
  <2> QED
    BY <1>4, <1>7, <2>2, Zenon DEF reuse_maps
<1>8. ASSUME NEW mode \in Modes, NEW force \in BOOLEAN, xdp_link_attach(mode, force)
      PROVE  LoaderProgress'
  <2>1. mode \in AllModes /\ loader.pc = "attach" /\ UNCHANGED pinned
    BY <1>8, Zenon DEF Modes, AllModes, xdp_link_attach
  <2>2. CASE loader' = [loader EXCEPT !.pc = "detach", !.mode = mode]
    <3>1. /\ loader'.pc = "detach" /\ loader'.begin = loader.begin
          /\ loader'.obj = loader.obj /\ loader'.i = loader.i
      BY <1>1, <2>2, Zenon DEF Loaders
    <3> QED
      BY <1>2, <2>1, <3>1, Zenon DEF LoaderProgress, PinnedMapsInUse, BeforeAttach, AfterAttach,
           Unpinning, Pinning, Unwinding, Complete, Reusing
  <2>3. CASE SetLink(mode)
    BY <2>1, <2>3, SetLinkProgress, Zenon
  <2> QED
    BY <1>4, <1>8, <2>2, <2>3, Zenon DEF xdp_link_attach
<1>9. CASE DetachOpposite
  <2>1. /\ loader'.pc = "retry" /\ loader'.begin = loader.begin /\ loader.pc = "detach"
        /\ loader'.obj = loader.obj /\ loader'.i = loader.i /\ pinned' = pinned
    BY <1>1, <1>9, Zenon DEF DetachOpposite, Loaders
  <2> QED
    BY <1>2, <2>1, Zenon DEF LoaderProgress, PinnedMapsInUse, BeforeAttach, AfterAttach,
         Unpinning, Pinning, Unwinding, Complete, Reusing
<1>10. CASE Reattach
  <2>1. loader.mode \in AllModes
    BY <1>1, Zenon DEF Loaders
  <2> QED
    BY <1>10, <2>1, SetLinkProgress, Zenon DEF Reattach
<1>11. ASSUME loader.pc \in {"access", "unpin", "pin", "unwind"}, UNCHANGED device,
              NEW pc \in {"unpin", "pin", "unwind"}, NEW i \in Int, Goto(pc, i),
              (Unpinning /\ Pinning /\ Unwinding)'
       PROVE  LoaderProgress'
  <2>1. loader'.pc = pc /\ loader'.obj = loader.obj
    BY <1>1, <1>11, GotoFields, Zenon
  <2> QED
    BY <1>2, <1>11, <2>1, Zenon
       DEF LoaderProgress, PinnedMapsInUse, BeforeAttach, AfterAttach, Complete
<1>12. CASE pin_maps_in_bpf_object
  <2>1. /\ loader.pc = "access" /\ loader.begin = pinned
        /\ UNCHANGED <<device, pinned>>
    BY <1>2, <1>12, Zenon DEF pin_maps_in_bpf_object, BeforeAttach
  <2>2. CASE (\E m \in map_names : pinned[m] # None) /\ Goto("unpin", 1)
    <3>1. loader'.pc = "unpin" /\ loader'.i = 1 /\ loader'.begin = loader.begin
      BY <1>1, <2>2, GotoFields, Zenon
    <3>2. Begin(1) # None \/ Begin(2) # None
      BY <2>1, <2>2, FourMaps, Zenon DEF Begin, map_names
    <3>3. (Unpinning /\ Pinning /\ Unwinding)'
      BY <2>1, <3>1, <3>2 DEF Unpinning, Pinning, Unwinding, Begin, Pinned
    <3> QED
      BY <1>11, <2>1, <2>2, <3>3
  <2>3. CASE (\A m \in map_names : pinned[m] = None) /\ Goto("pin", 1)
    <3>1. loader'.pc = "pin" /\ loader'.i = 1 /\ loader'.begin = loader.begin
      BY <1>1, <2>3, GotoFields, Zenon
    <3>2. Begin(1) = None /\ Begin(2) = None
      BY <2>1, <2>3, FourMaps, Zenon DEF Begin, map_names
    <3>3. (Unpinning /\ Pinning /\ Unwinding)'
      BY <2>1, <3>1, <3>2 DEF Unpinning, Pinning, Unwinding, Begin, Pinned
    <3> QED
      BY <1>11, <2>1, <2>3, <3>3
  <2> QED
    BY <1>12, <2>2, <2>3, Zenon DEF pin_maps_in_bpf_object
<1>13. CASE bpf_object__unpin_maps
  <2> DEFINE i == loader.i
  <2>1. /\ loader.pc = "unpin" /\ UNCHANGED device
        /\ i \in 1 .. 4
        /\ Begin(1) # None \/ Begin(2) # None
        /\ \A j \in 1 .. i - 1 : Begin(j) # None /\ Pinned(j) = None
        /\ \A j \in i .. 4 : Pinned(j) = Begin(j)
    BY <1>2, <1>13, Zenon DEF bpf_object__unpin_maps, Unpinning
  <2>2. CASE /\ pinned[maps[i]] # None
             /\ pinned' = [pinned EXCEPT ![maps[i]] = None]
             /\ IF i = Len(maps) THEN Goto("pin", 1) ELSE Goto("unpin", i + 1)
    <3>1. pinned'[maps[i]] = None /\ \A j \in 1 .. 4 : j # i => pinned'[maps[j]] = Pinned(j)
      <4> HIDE DEF i
      <4> QED
        BY <1>1, <2>1, <2>2, FourMaps, Zenon DEF Pinned, Pins
    <3>2. Begin(i) # None
      BY <2>1, <2>2 DEF Pinned
    <3> HIDE DEF i
    <3>3. CASE i = 4
      <4>1. Goto("pin", 1)
        BY <2>2, <3>3, FourMaps, Zenon
      <4>2. loader'.pc = "pin" /\ loader'.i = 1 /\ loader'.begin = loader.begin
        BY <1>1, <4>1, GotoFields, Zenon
      <4>3. \A j \in 1 .. 4 : Begin(j) # None /\ pinned'[maps[j]] = None
        BY <2>1, <3>1, <3>2, <3>3
      <4>4. Complete(loader.begin)
        BY <1>1, <4>3, CompletePins, Zenon DEF Begin
      <4>5. (Unpinning /\ Pinning /\ Unwinding)'
        BY <4>2, <4>3, <4>4 DEF Unpinning, Pinning, Unwinding, Pinned, Complete
      <4> QED
        BY <1>11, <2>1, <4>1, <4>5
    <3>4. CASE i # 4
      <4>1. Goto("unpin", i + 1) /\ i + 1 \in Int
        BY <2>1, <2>2, <3>4, FourMaps
      <4>2. loader'.pc = "unpin" /\ loader'.i = i + 1 /\ loader'.begin = loader.begin
        BY <1>1, <4>1, GotoFields, Zenon
      <4>3. \A j \in 1 .. i : Begin(j) # None /\ pinned'[maps[j]] = None
        BY <2>1, <3>1, <3>2
      <4>4. \A j \in i + 1 .. 4 : pinned'[maps[j]] = Begin(j)
        BY <2>1, <3>1
      <4>5. Unpinning'
        BY <2>1, <3>4, <4>2, <4>3, <4>4 DEF Unpinning, Begin, Pinned
      <4>6. (Pinning /\ Unwinding)'
        BY <4>2, Zenon DEF Pinning, Unwinding
      <4> QED
        BY <1>11, <2>1, <4>1, <4>5, <4>6, Zenon
    <3> QED
      BY <3>3, <3>4, Zenon
  <2> QED
    BY <1>4, <1>13, <2>2, Zenon DEF bpf_object__unpin_maps
<1>14. CASE bpf_object__pin_maps
  <2> DEFINE i == loader.i
             Clean == Complete(loader.begin) /\ \A j \in i .. 4 : Pinned(j) = None
             Fresh == /\ Begin(1) = None /\ Begin(2) = None
                      /\ \A j \in 1 .. i - 1 : Begin(j) = None
                      /\ \A j \in i .. 4 : Pinned(j) = Begin(j)
  <2>1. /\ loader.pc = "pin" /\ UNCHANGED device
        /\ i \in 1 .. 4
        /\ \A j \in 1 .. i - 1 : Pinned(j) = Obj(j)
        /\ Clean \/ Fresh
    BY <1>2, <1>14, Zenon DEF bpf_object__pin_maps, Pinning
  <2>2. CASE /\ pinned[maps[i]] # None
             /\ i # 1 /\ Goto("unwind", i - 1)
             /\ UNCHANGED pinned
    <3>1. Fresh /\ Begin(i) # None
      BY <2>1, <2>2 DEF Pinned
    <3>2. loader'.pc = "unwind" /\ loader'.i = i - 1 /\ loader'.begin = loader.begin
      BY <1>1, <2>2, GotoFields, Zenon
    <3>3. loader.begin # Nowhere
      BY <1>1, <2>1, <3>1, NoPins, Zenon DEF Begin
    <3> HIDE DEF i
    <3>4. Unwinding'
      BY <2>1, <2>2, <3>1, <3>2, <3>3 DEF Unwinding, Begin, Pinned
    <3>5. (Unpinning /\ Pinning)'
      BY <3>2, Zenon DEF Unpinning, Pinning
    <3>6. i - 1 \in Int
      BY <2>1
    <3> QED
      BY <1>11, <2>1, <2>2, <3>4, <3>5, <3>6, Zenon
  <2>3. CASE /\ pinned[maps[i]] = None
             /\ pinned' = [pinned EXCEPT ![maps[i]] = loader.obj[maps[i]]]
             /\ IF i = Len(maps) THEN End("ok") ELSE Goto("pin", i + 1)
    <3>1. /\ pinned'[maps[i]] = Obj(i)
          /\ \A j \in 1 .. 4 : j # i => pinned'[maps[j]] = Pinned(j)
      <4> HIDE DEF i
      <4> QED
        BY <1>1, <2>1, <2>3, FourMaps, Zenon DEF Pinned, Obj, Pins
    <3>2. Fresh => Begin(i) = None
      BY <2>1, <2>3 DEF Pinned
    <3> HIDE DEF i
    <3>3. \A j \in 1 .. i : pinned'[maps[j]] = Obj(j)
      BY <2>1, <3>1
    <3>4. CASE i = 4
      <4>1. pinned' \in Pins
        BY <1>1, <2>3, PinIsPins, Zenon
      <4>2. pinned' = loader.obj
        BY <1>1, <3>3, <3>4, <4>1, SamePins, Zenon DEF Obj
      <4>3. device'.prog = loader.obj
        BY <1>2, <2>1, Zenon DEF AfterAttach
      <4>4. End("ok")
        BY <2>3, <3>4, FourMaps, Zenon
      <4> QED
        BY <1>3, <4>2, <4>3, <4>4, EndProgress, Zenon
    <3>5. CASE i # 4
      <4>1. Goto("pin", i + 1) /\ i + 1 \in Int
        BY <2>1, <2>3, <3>5, FourMaps
      <4>2. /\ loader'.pc = "pin" /\ loader'.i = i + 1 /\ loader'.begin = loader.begin
            /\ loader'.obj = loader.obj
        BY <1>1, <4>1, GotoFields, Zenon
      <4>3. \A j \in i + 1 .. 4 : pinned'[maps[j]] = Pinned(j)
        BY <2>1, <3>1
      <4>4. CASE Clean
        <5>1. \A j \in i + 1 .. 4 : pinned'[maps[j]] = None
          BY <2>1, <4>3, <4>4
        <5>2. Pinning'
          BY <2>1, <3>3, <3>5, <4>2, <4>4, <5>1 DEF Pinning, Begin, Pinned, Obj, Complete
        <5> QED
          BY <1>11, <2>1, <4>1, <4>2, <5>2, Zenon DEF Unpinning, Unwinding
      <4>5. CASE Fresh
        <5>1. \A j \in i + 1 .. 4 : pinned'[maps[j]] = Begin(j)
          BY <2>1, <4>3, <4>5
        <5>2. \A j \in 1 .. i : Begin(j) = None
          BY <2>1, <3>2, <4>5
        <5>3. Pinning'
          BY <2>1, <3>3, <3>5, <4>2, <4>5, <5>1, <5>2 DEF Pinning, Begin, Pinned, Obj
        <5> QED
          BY <1>11, <2>1, <4>1, <4>2, <5>3, Zenon DEF Unpinning, Unwinding
      <4> QED
        BY <2>1, <4>4, <4>5, Zenon
    <3> QED
      BY <3>4, <3>5, Zenon
  <2> QED
    BY <1>4, <1>14, <2>2, <2>3, Zenon DEF bpf_object__pin_maps
<1>15. CASE UnpinEarlier
  <2> DEFINE i == loader.i
  <2>1. /\ loader.pc = "unwind" /\ UNCHANGED device
        /\ i \in 1 .. 3
        /\ \A j \in 1 .. i : Begin(j) = None
        /\ \A j \in i + 1 .. 4 : Pinned(j) = Begin(j)
        /\ loader.begin # Nowhere
    BY <1>2, <1>15, Zenon DEF UnpinEarlier, Unwinding
  <2>2. CASE i # 1 /\ Goto("unwind", i - 1)
    <3>1. /\ pinned'[maps[i]] = None
          /\ \A j \in 1 .. 4 : j # i => pinned'[maps[j]] = Pinned(j)
      <4>1. pinned' = [pinned EXCEPT ![maps[i]] = None] /\ i \in 1 .. 4
        BY <1>15, <2>1 DEF UnpinEarlier
      <4> HIDE DEF i
      <4> QED
        BY <1>1, <4>1, FourMaps, Zenon DEF Pinned, Pins
    <3>2. loader'.pc = "unwind" /\ loader'.i = i - 1 /\ loader'.begin = loader.begin
      BY <1>1, <2>2, GotoFields, Zenon
    <3> HIDE DEF i
    <3>3. \A j \in (i - 1) + 1 .. 4 : pinned'[maps[j]] = Begin(j)
      BY <2>1, <3>1
    <3>4. Unwinding'
      BY <2>1, <2>2, <3>2, <3>3 DEF Unwinding, Begin, Pinned
    <3>5. (Unpinning /\ Pinning)' /\ i - 1 \in Int
      BY <2>1, <3>2 DEF Unpinning, Pinning
    <3> QED
      BY <1>11, <2>1, <2>2, <3>4, <3>5, Zenon
  <2> QED
    BY <1>4, <1>15, <2>2, Zenon DEF UnpinEarlier
<1>16. ASSUME NEW mode \in Modes, Unload(mode) PROVE LoaderProgress'
  <2>1. loader' = loader /\ pinned' = pinned /\ ~Running /\ device'.mode = "none"
    BY <1>16, Zenon DEF Unload, Detached, Attached, LoaderInv, Devices
  <2> QED
    BY <2>1, Zenon DEF LoaderProgress, PinnedMapsInUse, BeforeAttach, AfterAttach,
         Unpinning, Pinning, Unwinding, Running, Ends, Busy
<1>17. CASE KillLoader
  BY <1>4, <1>17, Zenon DEF KillLoader
<1> QED
  BY <1>5, <1>6, <1>7, <1>8, <1>9, <1>10, <1>12, <1>13, <1>14, <1>15, <1>16, <1>17, Zenon
     DEF LoaderNext

-----------------------------------------------------------------------------
(* The configurator.                                                       *)

\* What a step leaves to a core that is between two reads: addresses that
\* could be reached still can, and no slot is cleared.
Kept ==
  /\ crossed \subseteq crossed'
  /\ \A o \in Objects \ crossed' :
       /\ \A ip : Reaches(o, ip) => Reaches(o, ip)'
       /\ \A s \in Slots : targets[o][s] # Zero => targets'[o][s] # Zero

LEMMA KeptForwards ==
  ASSUME SynForwarded, Kept, UNCHANGED core
  PROVE  SynForwarded'
BY Zenon DEF SynForwarded, Kept, Reaches, Objects1

\* A step that writes no target and no count keeps what the maps say.
LEMMA KeptGood ==
  ASSUME MapsGood, CfgShape, Kept, UNCHANGED <<targets, count>>
  PROVE  MapsGood'
<1> SUFFICES ASSUME NEW o \in Objects \ crossed'
             PROVE  /\ \A s \in Slots : targets[o][s] = Zero \/ Reaches(o, targets[o][s])'
                    /\ \A s \in 0 .. count[o] - 1 : s \in Slots /\ targets[o][s] # Zero
  BY Zenon DEF MapsGood
<1> QED
  BY Zenon DEF MapsGood, Kept

LEMMA ExitKeeps ==
  ASSUME Exit_cfg
  PROVE  cfg' \in Configurators /\ CfgProgress' /\ Window' = {}
BY NowhereIsPins DEF Exit_cfg, NotConfiguring, Configurators, CfgProgress, Writing, Window

\* An exit between the two writes of a server is recorded as torn.
LEMMA ExitTears ==
  ASSUME Exit_cfg, Tear, UNCHANGED <<targets, macs, crossed>>
  PROVE  Kept
<1> SUFFICES ASSUME NEW o, NEW ip, Reaches(o, ip) PROVE Reaches(o, ip)'
  BY Zenon DEF Kept
<1>1. CASE ip \in DOMAIN macs[o] \/ <<o, ip>> \in torn
  BY <1>1, Zenon DEF Reaches, Tear
<1>2. CASE <<o, ip>> \in Window /\ ip \notin DOMAIN macs[o]
  BY <1>2, Zenon DEF Reaches, Tear
<1> QED
  BY <1>1, <1>2, Zenon DEF Reaches

LEMMA ConfigureStep ==
  ASSUME CrabInv, NEW conf \in Configs, Configure(conf), UNCHANGED core
  PROVE  CfgInv' /\ SynForwarded'
<1>1. /\ cfg' = [pc |-> "open", conf |-> conf, i |-> 1, fd |-> Nowhere]
      /\ cfg.pc = "idle" /\ UNCHANGED <<targets, macs, count, torn, crossed>>
  BY Zenon DEF Configure, NotConfiguring
<1>2. CfgShape'
  BY <1>1, NowhereIsPins DEF CrabInv, CfgInv, CfgShape, Configurators
<1>3. CfgProgress'
  BY <1>1 DEF CfgProgress, Writing
<1>4. Kept
  BY <1>1, Zenon DEF Kept, Reaches, Window
<1> QED
  BY <1>1, <1>2, <1>3, <1>4, KeptGood, KeptForwards, Zenon DEF CrabInv, CfgInv

LEMMA OpenStep ==
  ASSUME CrabInv, open_bpf_map_file, UNCHANGED <<pinned, core>>
  PROVE  CfgInv' /\ SynForwarded'
<1> DEFINE m == opened[cfg.i]
           fd == [cfg.fd EXCEPT ![m] = pinned[m]]
<1>1. /\ cfg.pc = "open" /\ cfg.i \in {1, 2, 3} /\ cfg.conf \in Configs
      /\ cfg.i > 1 => fd_t \in Objects
      /\ cfg.i > 2 => fd_m \in Objects
      /\ cfg \in Configurators /\ pinned \in Pins
      /\ UNCHANGED <<targets, macs, count, torn>>
  BY DEF CrabInv, CfgInv, CfgShape, CfgProgress, LoaderInv, open_bpf_map_file
<1>2. /\ cfg.i = 1 => m = "targets_map"
      /\ cfg.i = 2 => m = "macs_map"
      /\ cfg.i = 3 => m = "targets_count"
  BY DEF opened
<1>3. fd \in Pins
  BY <1>1, PinIsPins, Zenon DEF Configurators
<1>4. /\ fd["targets_map"] = IF cfg.i = 1 THEN pinned["targets_map"] ELSE fd_t
      /\ fd["macs_map"] = IF cfg.i = 2 THEN pinned["macs_map"] ELSE fd_m
      /\ fd["targets_count"] = IF cfg.i = 3 THEN pinned["targets_count"] ELSE fd_c
  BY <1>1, <1>2, NamesOfMaps, Zenon DEF Configurators, Pins, fd_t, fd_m, fd_c
<1>5. Window = {}
  BY <1>1, Zenon DEF Window
<1>6. CASE Exit_cfg /\ UNCHANGED crossed
  BY <1>1, <1>5, <1>6, ExitKeeps, KeptGood, KeptForwards, Zenon
     DEF Kept, Reaches, CrabInv, CfgInv, CfgShape
<1>7. CASE /\ pinned[m] # None /\ m # "targets_count"
           /\ cfg' = [cfg EXCEPT !.fd = fd, !.i = @ + 1]
           /\ UNCHANGED crossed
  <2>1. cfg.i \in {1, 2} /\ pinned[m] \in Objects
    BY <1>1, <1>2, <1>7, NamesOfMaps, Zenon DEF Pins
  <2>2. /\ cfg'.pc = "open" /\ cfg'.i = cfg.i + 1 /\ cfg'.fd = fd /\ cfg'.conf = cfg.conf
        /\ cfg' \in Configurators
    <3>1. cfg' = [cfg EXCEPT !.fd = fd, !.i = cfg.i + 1]
      BY <1>7, Zenon
    <3>2. cfg \in Configurators /\ cfg.pc = "open"
      BY <1>1, Zenon
    <3> HIDE DEF fd
    <3>3. cfg.i + 1 \in Int
      BY <1>1
    <3> QED
      BY ONLY <1>3, <3>1, <3>2, <3>3, Zenon DEF Configurators
  <2>3. CfgProgress'
    <3>1. /\ fd["targets_map"] \in Objects
          /\ cfg.i = 2 => fd["macs_map"] \in Objects
      BY <1>1, <1>2, <1>4, <2>1
    <3> HIDE DEF fd
    <3> QED
      BY <1>1, <2>1, <2>2, <3>1 DEF CfgProgress, Writing, fd_t, fd_m
  <2>4. Kept
    BY <1>1, <1>5, <1>7, <2>2, Zenon DEF Kept, Reaches, Window
  <2> QED
    BY <1>1, <1>7, <2>2, <2>3, <2>4, KeptGood, KeptForwards, Zenon DEF CrabInv, CfgInv, CfgShape
<1>8. CASE /\ m = "targets_count"
           /\ cfg' = [cfg EXCEPT !.fd = fd, !.i = 1, !.pc = "target"]
           /\ crossed' = crossed \cup
                (IF \E n, k \in Range(opened) : fd[n] # fd[k] THEN Range(fd) \ {None} ELSE {})
  <2>1. cfg.i = 3
    BY <1>1, <1>2, <1>8, Zenon
  <2>2. /\ cfg'.pc = "target" /\ cfg'.i = 1 /\ cfg'.fd = fd /\ cfg'.conf = cfg.conf
        /\ cfg' \in Configurators
    <3> DEFINE one == 1
    <3>1. cfg' = [cfg EXCEPT !.fd = fd, !.i = one, !.pc = "target"] /\ one \in Int /\ one = 1
      BY <1>8
    <3>2. cfg \in Configurators
      BY <1>1, Zenon
    <3> HIDE DEF fd, one
    <3>3. /\ cfg'.pc = "target" /\ cfg'.i = one /\ cfg'.fd = fd /\ cfg'.conf = cfg.conf
          /\ cfg' \in Configurators
      BY ONLY <1>3, <3>1, <3>2, Zenon DEF Configurators
    <3> QED
      BY <3>1, <3>3, Zenon
  <2>3. Len(cfg.conf) \in Nat \ {0}
    BY <1>1, ConfigAssumption, Zenon
  <2>4. WrittenSlots' = {}
    BY <2>2 DEF WrittenSlots
  <2>5. fd["targets_map"] \in Objects /\ fd["macs_map"] \in Objects
    BY <1>1, <1>4, <2>1
  <2>6. \/ fd["targets_map"] = fd["macs_map"] /\ fd["targets_map"] = fd["targets_count"]
        \/ {fd["targets_map"], fd["macs_map"], fd["targets_count"]} \ {None} \subseteq crossed'
    <3>1. "targets_map" \in Range(opened) /\ "macs_map" \in Range(opened)
          /\ "targets_count" \in Range(opened)
      BY DEF opened, Range
    <3>2. /\ fd["targets_map"] \in Range(fd) /\ fd["macs_map"] \in Range(fd)
          /\ fd["targets_count"] \in Range(fd)
      BY <1>3, NamesOfMaps, Zenon DEF Pins, Range
    <3> HIDE DEF fd
    <3> QED
      BY <1>8, <3>1, <3>2, Zenon
  <2>7. CfgProgress'
    <3> HIDE DEF fd
    <3> QED
      BY <1>1, <2>2, <2>3, <2>4, <2>5, <2>6 DEF CfgProgress, Writing, fd_t, fd_m, fd_c
  <2>8. Kept
    BY <1>1, <1>5, <1>8, <2>2, Zenon DEF Kept, Reaches, Window
  <2> QED
    BY <1>1, <2>2, <2>7, <2>8, KeptGood, KeptForwards, Zenon DEF CrabInv, CfgInv, CfgShape
<1> QED
  BY <1>6, <1>7, <1>8, Zenon DEF open_bpf_map_file

LEMMA WritingFacts ==
  ASSUME CrabInv, Writing
  PROVE  /\ cfg \in Configurators /\ cfg.conf \in Configs /\ cfg.i \in 1 .. Len(cfg.conf)
         /\ Len(cfg.conf) \in Nat /\ Server.ip \in Ips \ {Zero}
         /\ cfg.pc = "count" => cfg.i = Len(cfg.conf)
         /\ fd_t \in Objects /\ fd_m \in Objects
         /\ fd_t \notin crossed => fd_t = fd_m /\ fd_t = fd_c
         /\ fd_c \in Objects \ crossed => fd_t = fd_c
         /\ \A s \in WrittenSlots : s \in Slots /\ targets[fd_t][s] # Zero
<1>1. /\ cfg \in Configurators /\ cfg.conf \in Configs /\ cfg.i \in 1 .. Len(cfg.conf)
      /\ cfg.pc = "count" => cfg.i = Len(cfg.conf)
      /\ fd_t \in Objects /\ fd_m \in Objects
      /\ \/ fd_t = fd_m /\ fd_t = fd_c
         \/ {fd_t, fd_m, fd_c} \ {None} \subseteq crossed
      /\ \A s \in WrittenSlots : s \in Slots /\ targets[fd_t][s] # Zero
  BY Zenon DEF CrabInv, CfgInv, CfgShape, CfgProgress
<1>2. Len(cfg.conf) \in Nat /\ Server.ip \in Ips \ {Zero}
  BY <1>1, ConfigAssumption, Zenon DEF Server
<1>3. \A o \in Objects : o # None
  BY LoaderAssumption DEF Objects, None
<1> QED
  BY <1>1, <1>2, <1>3, Zenon

LEMMA GotoCfg ==
  ASSUME cfg \in Configurators, NEW pc \in {"target", "mac", "count"}, NEW i \in Int,
         Goto_cfg(pc, i)
  PROVE  /\ cfg' \in Configurators
         /\ cfg'.pc = pc /\ cfg'.i = i /\ cfg'.conf = cfg.conf /\ cfg'.fd = cfg.fd
BY Zenon DEF Goto_cfg, Configurators

LEMMA UpdateTargetStep ==
  ASSUME CrabInv, UpdateTarget, UNCHANGED core
  PROVE  CfgInv' /\ SynForwarded'
<1> DEFINE n == cfg.i - 1
           ip == Server.ip
<1>1. /\ Writing /\ cfg.pc = "target" /\ Window = {}
      /\ UNCHANGED <<macs, count, torn, crossed>>
  BY Zenon DEF UpdateTarget, Writing, Window
<1>2. CfgShape /\ MapsGood /\ CfgProgress /\ SynForwarded
  BY Zenon DEF CrabInv, CfgInv
<1>3. CASE Exit_cfg /\ UNCHANGED targets
  BY <1>1, <1>2, <1>3, ExitKeeps, KeptGood, KeptForwards, Zenon
     DEF Kept, Reaches, CfgInv, CfgShape
<1>4. CASE /\ n \in Slots
           /\ targets' = [targets EXCEPT ![fd_t][n] = ip]
           /\ Goto_cfg("mac", cfg.i)
  <2>1. /\ cfg \in Configurators /\ cfg.conf \in Configs /\ cfg.i \in 1 .. Len(cfg.conf)
        /\ Len(cfg.conf) \in Nat /\ ip \in Ips /\ ip # Zero
        /\ fd_t \in Objects /\ fd_m \in Objects
        /\ fd_t \notin crossed => fd_t = fd_m /\ fd_t = fd_c
    BY <1>1, WritingFacts, Zenon
  <2>2. /\ cfg' \in Configurators /\ cfg'.pc = "mac" /\ cfg'.i = cfg.i
        /\ cfg'.conf = cfg.conf /\ cfg'.fd = cfg.fd
    BY <1>4, <2>1, GotoCfg
  <2>3. /\ fd_t' = fd_t /\ fd_m' = fd_m /\ fd_c' = fd_c /\ Writing'
        /\ Window' = {<<fd_m, ip>>}
    BY <2>2, Zenon DEF fd_t, fd_m, fd_c, Writing, Window, Server
  <2> HIDE DEF n, ip
  <2>4. targets' \in [Objects -> [Slots -> Ips \cup {Zero}]]
    BY <1>2, <1>4, <2>1, Zenon DEF CfgShape
  <2>5. \A o \in Objects, s \in Slots :
          targets'[o][s] = IF o = fd_t /\ s = n THEN ip ELSE targets[o][s]
    BY <1>2, <1>4, <2>1, Zenon DEF CfgShape
  <2>6. Kept
    BY <1>1, <2>1, <2>5, Zenon DEF Kept, Reaches
  <2>7. MapsGood'
    <3> SUFFICES ASSUME NEW o \in Objects \ crossed
                 PROVE  /\ \A s \in Slots : targets'[o][s] = Zero \/ Reaches(o, targets[o][s])'
                        /\ \A s \in 0 .. count[o] - 1 : s \in Slots /\ targets'[o][s] # Zero
      BY <1>1, Zenon DEF MapsGood
    <3>1. ASSUME NEW s \in Slots PROVE targets'[o][s] = Zero \/ Reaches(o, targets[o][s])'
      <4>1. CASE o = fd_t /\ s = n
        BY <2>1, <2>3, <2>5, <4>1, Zenon DEF Reaches
      <4>2. CASE ~(o = fd_t /\ s = n)
        BY <1>1, <1>2, <2>5, <2>6, <4>2, Zenon DEF Kept, MapsGood, Reaches
      <4> QED
        BY <4>1, <4>2, Zenon
    <3>2. ASSUME NEW s \in 0 .. count[o] - 1 PROVE s \in Slots /\ targets'[o][s] # Zero
      BY <1>1, <1>2, <2>6, Zenon DEF Kept, MapsGood
    <3> QED
      BY <3>1, <3>2, Zenon
  <2>8. CfgProgress'
    <3>1. \A s \in WrittenSlots : s \in Slots /\ targets[fd_t][s] # Zero
      BY <1>1, WritingFacts, Zenon
    <3>2. ASSUME NEW s \in WrittenSlots' PROVE s \in Slots /\ targets'[fd_t][s] # Zero
      <4>1. s \in WrittenSlots \/ s = n
        BY <1>1, <2>1, <2>2 DEF WrittenSlots, n
      <4> QED
        BY <1>4, <2>1, <2>5, <3>1, <4>1
    <3>3. \/ fd_t = fd_m /\ fd_t = fd_c
          \/ {fd_t, fd_m, fd_c} \ {None} \subseteq crossed
      BY <1>1, <1>2, Zenon DEF CfgProgress
    <3> QED
      BY <1>1, <2>1, <2>2, <2>3, <3>2, <3>3, Zenon DEF CfgProgress
  <2> QED
    BY <1>1, <1>2, <2>2, <2>4, <2>6, <2>7, <2>8, KeptForwards, Zenon DEF CfgInv, CfgShape
<1> QED
  BY <1>3, <1>4, Zenon DEF UpdateTarget, fd_t

LEMMA UpdateMacStep ==
  ASSUME CrabInv, UpdateMac, UNCHANGED core
  PROVE  CfgInv' /\ SynForwarded'
<1> DEFINE ip == Server.ip
           Entry(f) == [a \in DOMAIN f \cup {ip} |-> IF a = ip THEN Server.mac ELSE f[a]]
<1>1. /\ Writing /\ cfg.pc = "mac" /\ Window = {<<fd_m, ip>>}
      /\ UNCHANGED <<targets, count, crossed>>
  BY Zenon DEF UpdateMac, Writing, Window, fd_m
<1>2. CfgShape /\ MapsGood /\ CfgProgress /\ SynForwarded
  BY Zenon DEF CrabInv, CfgInv
<1>3. CASE Exit_cfg /\ Tear /\ UNCHANGED macs
  <2>1. Kept
    BY <1>1, <1>3, ExitTears, Zenon
  <2> QED
    BY <1>1, <1>2, <1>3, <2>1, ExitKeeps, KeptGood, KeptForwards, Zenon DEF CfgInv, CfgShape
<1>4. CASE /\ macs' = [macs EXCEPT ![fd_m] = Entry(macs[fd_m])]
           /\ torn' = torn \ Window
           /\ IF cfg.i = Len(cfg.conf) THEN Goto_cfg("count", cfg.i) ELSE Goto_cfg("target", cfg.i + 1)
  <2>1. /\ cfg \in Configurators /\ cfg.conf \in Configs /\ cfg.i \in 1 .. Len(cfg.conf)
        /\ Len(cfg.conf) \in Nat /\ fd_t \in Objects /\ fd_m \in Objects
        /\ \A s \in WrittenSlots : s \in Slots /\ targets[fd_t][s] # Zero
    BY <1>1, WritingFacts, Zenon
  <2>2. /\ cfg' \in Configurators /\ cfg'.conf = cfg.conf /\ cfg'.fd = cfg.fd
        /\ \/ cfg'.pc = "count" /\ cfg'.i = cfg.i /\ cfg.i = Len(cfg.conf)
           \/ cfg'.pc = "target" /\ cfg'.i = cfg.i + 1 /\ cfg.i # Len(cfg.conf)
    <3>1. CASE cfg.i = Len(cfg.conf)
      BY <1>4, <2>1, <3>1, GotoCfg
    <3>2. CASE cfg.i # Len(cfg.conf)
      <4>1. cfg.i + 1 \in Int
        BY <2>1
      <4> QED
        BY <1>4, <2>1, <3>2, <4>1, GotoCfg, Zenon
    <3> QED
      BY <3>1, <3>2, Zenon
  <2>3. /\ fd_t' = fd_t /\ fd_m' = fd_m /\ fd_c' = fd_c /\ Writing' /\ Window' = {}
    BY <2>2, Zenon DEF fd_t, fd_m, fd_c, Writing, Window
  <2>4. WrittenSlots' = WrittenSlots
    BY <1>1, <2>1, <2>2 DEF WrittenSlots
  <2>5. /\ DOMAIN macs' = Objects
        /\ \A o \in Objects : DOMAIN macs[o] \subseteq DOMAIN macs'[o]
        /\ ip \in DOMAIN macs'[fd_m]
    <3>1. DOMAIN Entry(macs[fd_m]) = DOMAIN macs[fd_m] \cup {ip}
      BY Zenon
    <3> HIDE DEF Entry, ip
    <3> QED
      BY <1>2, <1>4, <2>1, <3>1, Zenon DEF CfgShape
  <2> HIDE DEF ip, Entry
  <2>6. Kept
    <3> SUFFICES ASSUME NEW o \in Objects, NEW a, Reaches(o, a) PROVE Reaches(o, a)'
      BY <1>1, Zenon DEF Kept
    <3>1. CASE a \in DOMAIN macs[o]
      BY <2>5, <3>1, Zenon DEF Reaches
    <3>2. CASE <<o, a>> \in torn /\ <<o, a>> \notin Window
      BY <1>4, <3>2, Zenon DEF Reaches
    <3>3. CASE <<o, a>> \in Window
      BY <1>1, <2>5, <3>3, Zenon DEF Reaches
    <3> QED
      BY <3>1, <3>2, <3>3, Zenon DEF Reaches
  <2>7. MapsGood' /\ SynForwarded'
    BY <1>1, <1>2, <2>6, KeptGood, KeptForwards, Zenon
  <2>8. CfgProgress'
    <3>1. \/ fd_t = fd_m /\ fd_t = fd_c
          \/ {fd_t, fd_m, fd_c} \ {None} \subseteq crossed
      BY <1>1, <1>2, Zenon DEF CfgProgress
    <3>2. cfg'.i \in 1 .. Len(cfg.conf) /\ (cfg'.pc = "count" => cfg'.i = Len(cfg.conf))
      BY <2>1, <2>2
    <3> QED
      BY <1>1, <2>1, <2>2, <2>3, <2>4, <3>1, <3>2, Zenon DEF CfgProgress
  <2> QED
    BY <1>1, <1>2, <2>2, <2>5, <2>7, <2>8, Zenon DEF CfgInv, CfgShape
<1> QED
  BY <1>3, <1>4, Zenon DEF UpdateMac, fd_m

\* The count is written last, when all its slots hold an address.
LEMMA UpdateCountStep ==
  ASSUME CrabInv, UpdateCount, UNCHANGED core
  PROVE  CfgInv' /\ SynForwarded'
<1>1. /\ Writing /\ cfg.pc = "count" /\ Window = {} /\ Exit_cfg
      /\ UNCHANGED <<targets, macs, torn, crossed>>
      /\ count' = IF fd_c = None THEN count ELSE [count EXCEPT ![fd_c] = Len(cfg.conf)]
  BY Zenon DEF UpdateCount, Writing, Window, fd_c
<1>2. CfgShape /\ MapsGood /\ CfgProgress /\ SynForwarded
  BY Zenon DEF CrabInv, CfgInv
<1>3. /\ Len(cfg.conf) \in Nat /\ cfg.i = Len(cfg.conf)
      /\ fd_c \in Objects \ crossed => fd_t = fd_c
      /\ \A s \in WrittenSlots : s \in Slots /\ targets[fd_t][s] # Zero
  BY <1>1, WritingFacts, Zenon
<1>4. count' \in [Objects -> Nat]
  BY <1>1, <1>2, <1>3, Zenon DEF CfgShape
<1>5. Kept
  BY <1>1, ExitKeeps, Zenon DEF Kept, Reaches
<1>6. MapsGood'
  <2> SUFFICES ASSUME NEW o \in Objects \ crossed
               PROVE  /\ \A s \in Slots : targets[o][s] = Zero \/ Reaches(o, targets[o][s])'
                      /\ \A s \in 0 .. count'[o] - 1 : s \in Slots /\ targets[o][s] # Zero
    BY <1>1, Zenon DEF MapsGood
  <2>1. \A s \in Slots : targets[o][s] = Zero \/ Reaches(o, targets[o][s])'
    BY <1>1, <1>2, <1>5, Zenon DEF Kept, MapsGood, Reaches
  <2>2. CASE o = fd_c /\ fd_c # None
    <3>1. 0 .. count'[o] - 1 = WrittenSlots
      BY <1>1, <1>2, <1>3, <2>2, Zenon DEF WrittenSlots, CfgShape
    <3> QED
      BY <1>3, <2>1, <2>2, <3>1, Zenon
  <2>3. CASE o # fd_c \/ fd_c = None
    <3>1. count'[o] = count[o]
      BY <1>1, <1>2, <2>3, Zenon DEF CfgShape
    <3> QED
      BY <1>2, <2>1, <3>1, Zenon DEF MapsGood
  <2> QED
    BY <2>2, <2>3, Zenon
<1> QED
  BY <1>1, <1>2, <1>4, <1>5, <1>6, ExitKeeps, KeptForwards, Zenon DEF CfgInv, CfgShape

LEMMA KillCfgStep ==
  ASSUME CrabInv, KillCfg, UNCHANGED core
  PROVE  CfgInv' /\ SynForwarded'
<1>1. Exit_cfg /\ Tear /\ UNCHANGED <<targets, macs, count, crossed>>
  BY Zenon DEF KillCfg
<1>2. CfgShape /\ MapsGood /\ SynForwarded
  BY Zenon DEF CrabInv, CfgInv
<1>3. Kept
  BY <1>1, ExitTears, Zenon
<1> QED
  BY <1>1, <1>2, <1>3, ExitKeeps, KeptGood, KeptForwards, Zenon DEF CfgInv, CfgShape

-----------------------------------------------------------------------------
(* The cores.                                                              *)

\* What SynForwarded says of one core in state k.
Forwards(k) ==
  \A o \in Objects1(k.prog) : k.configured =>
    /\ k.pc = "target" => k.key \in Slots /\ targets[o][k.key] # Zero
    /\ k.pc = "mac" => Reaches(o, k.daddr)

LEMMA DoneForwards ==
  ASSUME NEW v \in Verdicts
  PROVE  /\ Forwards(Done(v))
         /\ DOMAIN Done(v) = {"pc", "prog", "configured", "key", "daddr"}
BY Zenon DEF Forwards, Done, Verdicts

LEMMA ModBelow ==
  ASSUME NEW x \in Nat, NEW y \in Nat, y > 0
  PROVE  x % y \in 0 .. y - 1
OBVIOUS

LEMMA CoreStep ==
  ASSUME CrabInv, NEW c \in Cores, CoreNext(c)
  PROVE  CoreShape' /\ SynForwarded'
<1> DEFINE Fields == {"pc", "prog", "configured", "key", "daddr"}
<1>1. UNCHANGED <<loaderVars, kills, cfgVars>>
  BY Zenon DEF CoreNext, get_target_idx_rr, get_target, update_macs
<1>2. CoreShape /\ SynForwarded /\ MapsGood /\ CfgShape
  BY Zenon DEF CrabInv, CfgInv
<1>3. ASSUME NEW k, core' = [core EXCEPT ![c] = k], Forwards(k), DOMAIN k = Fields
      PROVE  /\ SynForwarded'
             /\ DOMAIN core' = Cores /\ \A d \in Cores : DOMAIN core'[d] = Fields
  <2>1. \A d \in Cores : core'[d] = IF d = c THEN k ELSE core[d]
    BY <1>2, <1>3, Zenon DEF CoreShape
  <2>2. DOMAIN core' = Cores /\ \A d \in Cores : DOMAIN core'[d] = Fields
    BY <1>2, <1>3, <2>1, Zenon DEF CoreShape
  <2>3. \A d \in Cores : Forwards(core'[d])
    <3>1. \A d \in Cores : Forwards(core[d])
      BY <1>2, Zenon DEF SynForwarded, Forwards, Reaches
    <3> QED
      BY <1>3, <2>1, <3>1, Zenon
  <2>4. SynForwarded'
    BY <1>1, <2>3, Zenon DEF SynForwarded, Forwards, Reaches, Objects1, Window, Server, cfgVars
  <2> QED
    BY <2>2, <2>4, Zenon
<1>4. CASE get_target_idx_rr(c)
  <2> DEFINE p == device.prog
             n == count[p["targets_count"]]
             idx == rr_idx[p["cpu_rr_idx"]][c]
             Drawn(key) == [pc |-> "target", prog |-> p, configured |-> n > 0, key |-> key, daddr |-> Zero]
  <2>1. rr_idx' \in [Objects -> [Cores -> Nat]]
    <3> DEFINE q == p["cpu_rr_idx"]
    <3>1. rr_idx' = [rr_idx EXCEPT ![q][c] = (@ + 1) % U32]
      BY <1>4, Zenon DEF get_target_idx_rr
    <3>2. rr_idx \in [Objects -> [Cores -> Nat]]
      BY <1>2, Zenon DEF CoreShape
    <3> HIDE DEF q
    <3>3. CASE q \in Objects
      <4>1. (rr_idx[q][c] + 1) % U32 \in Nat
        BY <3>2, <3>3, CoreAssumption
      <4> QED
        BY <3>1, <3>2, <4>1, Zenon
    <3>4. CASE q \notin Objects
      BY <3>1, <3>2, <3>4, Zenon
    <3> QED
      BY <3>3, <3>4, Zenon
  <2>2. ASSUME NEW key PROVE DOMAIN Drawn(key) = Fields
    BY Zenon
  <2>3. ASSUME n > 0 PROVE Forwards(Drawn(idx % n))
    <3> SUFFICES ASSUME NEW o \in Objects1(p)
                 PROVE  idx % n \in Slots /\ targets[o][idx % n] # Zero
      BY Zenon DEF Forwards
    <3>1. o \in Objects \ crossed /\ n = count[o] /\ idx = rr_idx[o][c]
      BY NamesOfMaps, Zenon DEF Objects1
    <3>2. n \in Nat /\ idx \in Nat
      BY <1>2, <3>1 DEF CfgShape, CoreShape
    <3>3. idx % n \in 0 .. count[o] - 1
      BY <2>3, <3>1, <3>2, ModBelow, Zenon
    <3> QED
      BY <1>2, <3>1, <3>3, Zenon DEF MapsGood
  <2>4. ASSUME n = 0 PROVE Forwards(Drawn(idx))
    <3>1. ~(n > 0)
      BY <2>4
    <3>2. Drawn(idx).configured = (n > 0)
      BY Zenon
    <3> HIDE DEF Drawn, n, idx
    <3> QED
      BY <3>1, <3>2, Zenon DEF Forwards
  <2>5. \/ n > 0 /\ core' = [core EXCEPT ![c] = Drawn(idx % n)]
        \/ n = 0 /\ core' = [core EXCEPT ![c] = Drawn(idx)]
        \/ core' = [core EXCEPT ![c] = Done("XDP_ABORTED")]
    BY <1>4, Zenon DEF get_target_idx_rr
  <2>6. "XDP_ABORTED" \in Verdicts
    BY Zenon DEF Verdicts
  <2> HIDE DEF n, idx, Drawn
  <2> QED
    BY <1>3, <2>1, <2>2, <2>3, <2>4, <2>5, <2>6, DoneForwards, Zenon DEF CoreShape
<1>5. CASE get_target(c)
  <2> DEFINE v == targets[core[c].prog["targets_map"]][core[c].key]
             k == [core[c] EXCEPT !.pc = "mac", !.daddr = v]
  <2>1. UNCHANGED rr_idx /\ core[c].pc = "target"
    BY <1>5, Zenon DEF get_target
  <2>2. CASE core' = [core EXCEPT ![c] = Done("XDP_ABORTED")]
    BY <1>2, <1>3, <2>1, <2>2, DoneForwards, Zenon DEF CoreShape, Verdicts
  <2>3. CASE core[c].key \in Slots /\ core' = [core EXCEPT ![c].pc = "mac", ![c].daddr = v]
    <3>1. core' = [core EXCEPT ![c] = k]
      BY <1>2, <2>3, Zenon DEF CoreShape
    <3>2. /\ k.prog = core[c].prog /\ k.configured = core[c].configured
          /\ k.pc = "mac" /\ k.daddr = v /\ DOMAIN k = Fields
      BY <1>2, Zenon DEF CoreShape
    <3>3. ASSUME NEW o \in Objects1(core[c].prog), core[c].configured PROVE Reaches(o, v)
      <4>1. o \in Objects \ crossed /\ v = targets[o][core[c].key]
        BY NamesOfMaps, Zenon DEF Objects1
      <4>2. v # Zero
        BY <1>2, <2>1, <3>3, <4>1, Zenon DEF SynForwarded
      <4> HIDE DEF v
      <4> QED
        BY <1>2, <2>3, <4>1, <4>2, Zenon DEF MapsGood
    <3>4. Forwards(k)
      <4> HIDE DEF k, v
      <4> QED
        BY <3>2, <3>3, Zenon DEF Forwards
    <3> HIDE DEF k
    <3> QED
      BY <1>2, <1>3, <2>1, <3>1, <3>2, <3>4, Zenon DEF CoreShape
  <2> QED
    BY <1>5, <2>2, <2>3, Zenon DEF get_target
<1>6. CASE update_macs(c)
  <2>1. UNCHANGED rr_idx /\ \E v \in Verdicts : core' = [core EXCEPT ![c] = Done(v)]
    BY <1>6, Zenon DEF update_macs, Verdicts
  <2> QED
    BY <1>2, <1>3, <2>1, DoneForwards, Zenon DEF CoreShape
<1> QED
  BY <1>4, <1>5, <1>6, Zenon DEF CoreNext

-----------------------------------------------------------------------------

LEMMA CrabStep == CrabInv /\ [Next]_vars => CrabInv'
<1> SUFFICES ASSUME CrabInv, [Next]_vars PROVE CrabInv'
  BY Zenon
<1>1. LoaderInv /\ CfgInv /\ CoreShape /\ SynForwarded
  BY Zenon DEF CrabInv
<1>2. ASSUME UNCHANGED cfgVars PROVE CfgInv'
  <2>1. CfgShape'
    BY <1>1, <1>2, Zenon DEF cfgVars, CfgInv, CfgShape
  <2>2. /\ fd_t' = fd_t /\ fd_m' = fd_m /\ fd_c' = fd_c
        /\ Writing' = Writing /\ WrittenSlots' = WrittenSlots /\ Window' = Window
    BY <1>2, Zenon DEF cfgVars, fd_t, fd_m, fd_c, Writing, WrittenSlots, Window, Server
  <2>3. CfgProgress'
    BY <1>1, <1>2, <2>2, Zenon DEF cfgVars, CfgInv, CfgProgress
  <2>4. MapsGood'
    BY <1>1, <1>2, <2>2, Zenon DEF cfgVars, CfgInv, MapsGood, Reaches
  <2> QED
    BY <2>1, <2>3, <2>4, Zenon DEF CfgInv
<1>3. ASSUME UNCHANGED <<core, rr_idx>> PROVE CoreShape'
  BY <1>1, <1>3, Zenon DEF CoreShape
<1>4. ASSUME UNCHANGED loaderVars PROVE LoaderInv'
  BY <1>1, <1>4, Zenon DEF LoaderInv, loaderVars
<1>5. ASSUME UNCHANGED <<cfgVars, core>> PROVE SynForwarded'
  <2>1. Window' = Window
    BY <1>5, Zenon DEF cfgVars, Window, Server
  <2>2. \A p : Objects1(p)' = Objects1(p)
    BY <1>5, Zenon DEF cfgVars, Objects1
  <2> QED
    BY <1>1, <1>5, <2>1, <2>2, Zenon DEF SynForwarded, cfgVars
<1>6. CASE LoaderNext /\ UNCHANGED <<cfgVars, core, rr_idx>>
  BY <1>1, <1>2, <1>3, <1>5, <1>6, LoaderStep, Zenon DEF CrabInv
<1>7. CASE CfgNext /\ UNCHANGED <<loaderVars, core, rr_idx>>
  <2>1. UNCHANGED <<pinned, core>>
    BY <1>7, Zenon DEF loaderVars
  <2>2. CfgInv' /\ SynForwarded'
    BY <1>7, <2>1, ConfigureStep, OpenStep, UpdateTargetStep, UpdateMacStep, UpdateCountStep,
       KillCfgStep, Zenon DEF CfgNext
  <2> QED
    BY <1>3, <1>4, <1>7, <2>2, Zenon DEF CrabInv
<1>8. ASSUME NEW c \in Cores, CoreNext(c) PROVE CrabInv'
  <2>1. UNCHANGED loaderVars /\ UNCHANGED cfgVars
    BY <1>8, Zenon DEF CoreNext, get_target_idx_rr, get_target, update_macs
  <2> QED
    BY <1>2, <1>4, <1>8, <2>1, CoreStep, Zenon DEF CrabInv
<1>9. CASE UNCHANGED vars
  BY <1>2, <1>3, <1>4, <1>5, <1>9, Zenon DEF vars, CrabInv
<1> QED
  BY <1>6, <1>7, <1>8, <1>9, Zenon DEF Next

LEMMA CrabInvariant == Spec => []CrabInv
BY CrabInit, CrabStep, PTL DEF Spec

\* Whatever lb_cfg, the loader and the cores have done, and wherever lb_cfg
\* was killed, each index below a targets_count leads to an address with a
\* MAC, but for the server lb_cfg is, or ended, between the two writes of.
\* (lb_cfg.c main, under the loader of xdp_loader.c)
THEOREM TargetsServed == Spec => []EveryTargetServed
<1>1. CrabInv => EveryTargetServed
  BY Zenon DEF CrabInv, CfgInv, MapsGood, Reaches, EveryTargetServed
<1> QED
  BY <1>1, CrabInvariant, PTL

\* A core that has read a count above zero finds an address and a MAC in its
\* next reads, however many cores, loads, configurations and kills come
\* between them.  (lb_kern.c handle_syn)
THEOREM SynsForwarded == Spec => []SynForwarded
<1>1. CrabInv => SynForwarded
  BY Zenon DEF CrabInv
<1> QED
  BY <1>1, CrabInvariant, PTL

LEMMA ProgressInvariant == Spec => []LoaderProgress
<1>1. Init => LoaderProgress
  <2> SUFFICES ASSUME Init PROVE LoaderProgress
    BY Zenon
  <2>1. loader.pc = "ok" /\ device.mode = "none"
    BY Zenon DEF Init, LoaderInit, Idle
  <2> QED
    BY <2>1, Zenon
       DEF LoaderProgress, PinnedMapsInUse, BeforeAttach, AfterAttach, Unpinning, Pinning,
                Unwinding, Busy
<1>2. CrabInv /\ LoaderProgress /\ [Next]_vars => LoaderProgress'
  <2> SUFFICES ASSUME CrabInv, LoaderProgress, [Next]_vars PROVE LoaderProgress'
    BY Zenon
  <2>1. CASE LoaderNext
    BY <2>1, ProgressStep, Zenon DEF CrabInv
  <2>2. CASE UNCHANGED loaderVars
    BY <2>2, Zenon
       DEF loaderVars, LoaderProgress, PinnedMapsInUse, BeforeAttach, AfterAttach, Unpinning,
                Pinning, Unwinding, Busy, Reusing, Complete, Begin, Pinned, Obj
  <2> QED
    BY <2>1, <2>2, Zenon DEF Next, vars, CoreNext, get_target_idx_rr, get_target, update_macs
<1> QED
  BY <1>1, <1>2, CrabInvariant, PTL DEF Spec

\* After a load that succeeded the program on the device uses exactly the maps
\* that are pinned, whatever runs of the loader failed, were killed or reused
\* maps before it.  (xdp_loader.c main, pin_maps_in_bpf_object, reuse_maps)
THEOREM PinsInUse == Spec => []PinnedMapsInUse
<1>1. LoaderProgress => PinnedMapsInUse
  BY Zenon DEF LoaderProgress
<1> QED
  BY <1>1, ProgressInvariant, PTL

LEMMA KillsCounted == Spec => [](kills \in Int)
<1>1. Init => kills \in Int
  BY DEF Init
<1>2. kills \in Int /\ [Next]_vars => (kills \in Int)'
  <2> SUFFICES ASSUME kills \in Int, [Next]_vars PROVE kills' \in Int
    BY Zenon
  <2>1. CASE LoaderNext
    <3>1. CASE Load \/ LoadReusing \/ DetachOpposite
      BY <3>1, Zenon DEF Load, LoadReusing, DetachOpposite
    <3>2. CASE reuse_maps
      BY <3>2, Zenon DEF reuse_maps
    <3>3. ASSUME NEW mode, NEW force, xdp_link_attach(mode, force) \/ Unload(mode) PROVE kills' = kills
      BY <3>3, Zenon DEF xdp_link_attach, Unload
    <3>4. CASE Reattach \/ pin_maps_in_bpf_object \/ UnpinEarlier
      BY <3>4, Zenon DEF Reattach, pin_maps_in_bpf_object, UnpinEarlier
    <3>5. CASE bpf_object__unpin_maps \/ bpf_object__pin_maps
      BY <3>5, Zenon DEF bpf_object__unpin_maps, bpf_object__pin_maps
    <3>6. CASE KillLoader
      BY <3>6 DEF KillLoader
    <3> QED
      BY <2>1, <3>1, <3>2, <3>3, <3>4, <3>5, <3>6, Zenon DEF LoaderNext
  <2>2. CASE CfgNext
    <3>1. ASSUME NEW conf, Configure(conf) PROVE kills' = kills
      BY <3>1, Zenon DEF Configure
    <3>2. CASE open_bpf_map_file
      BY <3>2, Zenon DEF open_bpf_map_file
    <3>3. CASE UpdateTarget \/ UpdateMac \/ UpdateCount
      BY <3>3, Zenon DEF UpdateTarget, UpdateMac, UpdateCount
    <3>4. CASE KillCfg
      BY <3>4 DEF KillCfg
    <3> QED
      BY <2>2, <3>1, <3>2, <3>3, <3>4, Zenon DEF CfgNext
  <2>3. CASE UNCHANGED kills
    BY <2>3, Zenon
  <2> QED
    BY <2>1, <2>2, <2>3, Zenon
       DEF Next, vars, CoreNext, get_target_idx_rr, get_target, update_macs
<1> QED
  BY <1>1, <1>2, PTL DEF Spec

\* What a run makes of the pins it finds depends on nothing else: with all maps
\* pinned or none it succeeds, and pins that lack targets_map make it fail and
\* are left as they were.  (pin_maps_in_bpf_object and libbpf's bpf_object__*)
THEOREM RunsAndPins == Spec => PinsAfterRun
<1> DEFINE pins == loader.begin
           Outcome == /\ loader'.pc = "ok" <=> Complete(pins) \/ pins = Nowhere
                      /\ Leftovers(pins) => pinned' = pins
           Ended == /\ loader.pc \in {"access", "unpin", "pin", "unwind"}
                    /\ ~Running' /\ kills' = kills
<1>1. CrabInv /\ LoaderProgress /\ kills \in Int /\ [Next]_vars => [Ended => Outcome]_<<loaderVars, kills>>
  <2> SUFFICES ASSUME CrabInv, LoaderProgress, kills \in Int, Next, Ended PROVE Outcome
    BY Zenon DEF vars, loaderVars
  <2>1. /\ LoaderInv /\ pinned \in Pins /\ pins \in Pins /\ loader \in Loaders
        /\ loader.i \in Int
    BY Zenon DEF CrabInv, LoaderInv, Loaders
  <2>2. \A pc, i : Goto(pc, i) => pc \in Ends
    BY <2>1, GotoFields, Zenon DEF Running
  <2>3. \A pc : End(pc) => loader'.pc = pc
    BY DEF End, Idle
  <2>4. LoaderNext
    <3>1. UNCHANGED loaderVars => Running'
      BY Zenon DEF loaderVars, Running, Ends
    <3> QED
      BY <3>1, Zenon DEF Next, CoreNext, get_target_idx_rr, get_target, update_macs
  <2> DEFINE i == loader.i
  <2>5. \/ bpf_object__unpin_maps /\ pinned[maps[i]] = None /\ End("failed") /\ UNCHANGED pinned
        \/ bpf_object__pin_maps /\ i = 1 /\ pinned[maps[i]] # None
        \/ /\ bpf_object__pin_maps /\ i = 4 /\ pinned[maps[i]] = None /\ End("ok")
        \/ UnpinEarlier /\ i = 1 /\ End("failed")
    <3>1. loader.pc \notin Ends \cup {"reuse", "attach", "detach", "retry"}
      BY Zenon DEF Ends
    <3>2. ~Load /\ ~LoadReusing /\ ~reuse_maps /\ ~DetachOpposite /\ ~Reattach
      BY <3>1, Zenon DEF Load, LoadReusing, reuse_maps, DetachOpposite, Reattach, Running
    <3>3. /\ \A mode, force : ~xdp_link_attach(mode, force)
          /\ \A mode : ~Unload(mode)
      BY <3>1, Zenon DEF xdp_link_attach, Unload, Running
    <3>4. ~Goto("unpin", 1) /\ ~Goto("pin", 1) /\ ~pin_maps_in_bpf_object
      BY <2>2 DEF pin_maps_in_bpf_object, Ends
    <3>5. ~KillLoader
      BY DEF KillLoader
    <3>6. bpf_object__unpin_maps \/ bpf_object__pin_maps \/ UnpinEarlier
      BY <2>4, <3>2, <3>3, <3>4, <3>5, Zenon DEF LoaderNext
    <3>7. \A j : ~Goto("unpin", j) /\ ~Goto("pin", j) /\ ~Goto("unwind", j)
      BY <2>2 DEF Ends
    <3> QED
      BY <3>6, <3>7, FourMaps, Zenon
         DEF bpf_object__unpin_maps, bpf_object__pin_maps, UnpinEarlier
  <2>6. CASE bpf_object__unpin_maps /\ pinned[maps[i]] = None /\ End("failed") /\ UNCHANGED pinned
    <3>1. /\ i \in 1 .. 4 /\ Begin(i) = None
          /\ Begin(1) # None \/ Begin(2) # None
          /\ i # 1 => Begin(1) # None
          /\ \A j \in i .. 4 : Pinned(j) = Begin(j)
      BY <2>1, <2>6 DEF bpf_object__unpin_maps, LoaderProgress, Unpinning, Pinned
    <3>2. ~Complete(pins)
      BY <2>1, <3>1, CompletePins, Zenon DEF Begin
    <3>5. pins # Nowhere
      BY <2>1, <3>1, NoPins DEF Begin
    <3>3. Leftovers(pins) => i = 1
      BY <3>1, FourMaps, Zenon DEF Leftovers, Begin
    <3>4. i = 1 => pinned = pins
      BY <2>1, <3>1, SamePins, Zenon DEF Begin, Pinned
    <3> QED
      BY <2>3, <2>6, <3>2, <3>3, <3>4, <3>5, Zenon
  <2>7. CASE bpf_object__pin_maps /\ i = 1 /\ pinned[maps[i]] # None
    BY <2>7, Zenon DEF bpf_object__pin_maps, LoaderProgress, Pinning, Pinned
  <2>8. CASE bpf_object__pin_maps /\ i = 4 /\ pinned[maps[i]] = None /\ End("ok")
    <3>1. \/ Complete(pins)
          \/ /\ \A j \in 1 .. 3 : Begin(j) = None
             /\ Begin(4) = None
      BY <2>8 DEF bpf_object__pin_maps, LoaderProgress, Pinning, Pinned
    <3>2. Complete(pins) \/ \A j \in 1 .. 4 : Begin(j) = None
      BY <3>1
    <3>3. Complete(pins) \/ pins = Nowhere
      BY <2>1, <3>2, NoPins, Zenon DEF Begin
    <3>4. ~Leftovers(pins)
      BY <3>3, NamesOfMaps, Zenon DEF Leftovers, Complete
    <3> QED
      BY <2>3, <2>8, <3>3, <3>4, Zenon
  <2>9. CASE UnpinEarlier /\ i = 1 /\ End("failed")
    <3>1. /\ \A j \in 2 .. 4 : Pinned(j) = Begin(j)
          /\ Begin(1) = None /\ pins # Nowhere
          /\ pinned' = [pinned EXCEPT ![maps[1]] = None]
      BY <2>9 DEF UnpinEarlier, LoaderProgress, Unwinding
    <3>2. ~Complete(pins)
      BY <2>1, <3>1, CompletePins DEF Begin
    <3>3. pinned' \in Pins
      BY <2>1, <3>1, Zenon DEF Pins
    <3>4. \A j \in 1 .. 4 : pinned'[maps[j]] = Begin(j)
      BY <2>1, <3>1, FourMaps DEF Pins, Pinned
    <3>5. pinned' = pins
      BY <2>1, <3>3, <3>4, SamePins, Zenon DEF Begin
    <3> QED
      BY <2>3, <2>9, <3>1, <3>2, <3>5, Zenon
  <2> QED
    BY <2>5, <2>6, <2>7, <2>8, <2>9, Zenon
<1> QED
  BY <1>1, CrabInvariant, ProgressInvariant, KillsCounted, PTL DEF Spec, PinsAfterRun

=============================================================================
