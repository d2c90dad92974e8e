----------------------------- MODULE XdpLoader -----------------------------
(***************************************************************************)
(* xdp_loader: loads the object file of an XDP program, attaches the       *)
(* program to a network device and pins its maps below /sys/fs/bpf, where  *)
(* the configurators open them.  Every load creates a new object, with     *)
(* maps of its own, unless it reuses the pinned ones.  Each system call    *)
(* that changes the device or the pins is a step of its own, and the       *)
(* loader may be killed between any two of them.  Loaders of one device    *)
(* run one after the other.                                                *)
(***************************************************************************)
EXTENDS Integers, Sequences, Functions

CONSTANTS
  MaxObjects,   \* bound on the objects that are loaded
  MaxKills      \* bound on the processes that are killed

ASSUME LoaderAssumption == MaxObjects \in Nat \ {0} /\ MaxKills \in Nat

VARIABLES
  device,    \* the interface: does its driver run XDP, the mode in which a
             \* program is attached, and the object of each map it uses
  pinned,    \* the object whose map is pinned under each name
  loader,    \* the loader's program counter and locals
  objects,   \* the number of objects loaded so far
  kills      \* the number of processes killed so far

loaderVars == <<device, pinned, loader, objects>>

\* The maps of the object file, in the order bpf_object__for_each_map visits
\* them, and the two names pin_maps_in_bpf_object looks for.
maps == <<"targets_map", "macs_map", "targets_count", "cpu_rr_idx">>
map_names == {"macs_map", "targets_map"}
Names == Range(maps)

None == 0
Objects == 1 .. MaxObjects
Modes == {"skb", "drv"}
Nowhere == [m \in Names |-> None]

Attached(mode, prog) == [device EXCEPT !.mode = mode, !.prog = prog]
Detached == Attached("none", Nowhere)
Busy == device.mode # "none"

\* How the last run of the loader ended, while none is running.
Ends == {"ok", "failed", "killed"}
Idle(pc) == [pc |-> pc, mode |-> "none", obj |-> Nowhere, i |-> 0, begin |-> Nowhere]
Running == loader.pc \notin Ends

Goto(pc, i) == loader' = [loader EXCEPT !.pc = pc, !.mode = "none", !.i = i]
End(pc) == loader' = Idle(pc)

LoaderInit ==
  /\ device \in [native : BOOLEAN, mode : {"none"}, prog : {Nowhere}]
  /\ pinned = Nowhere
  /\ loader = Idle("ok")
  /\ objects = 0

-----------------------------------------------------------------------------

\* main and load_bpf_object_file: new maps are created.
Load ==
  /\ ~Running
  /\ objects < MaxObjects
  /\ objects' = objects + 1
  /\ loader' = [Idle("attach") EXCEPT !.obj = [m \in Names |-> objects + 1], !.begin = pinned]
  /\ UNCHANGED <<device, pinned, kills>>

\* main with --reuse-maps
LoadReusing ==
  /\ ~Running
  /\ loader' = [Idle("reuse") EXCEPT !.i = 1, !.begin = pinned]
  /\ UNCHANGED <<device, pinned, objects, kills>>

\* reuse_maps, one map: a map that is not pinned ends the load.
reuse_maps ==
  LET m == maps[loader.i]
  IN  /\ loader.pc = "reuse"
      /\ \/ /\ pinned[m] = None
            /\ End("failed")
         \/ /\ pinned[m] # None
            /\ loader' = [loader EXCEPT !.obj[m] = pinned[m],
                            !.i = (@ % Len(maps)) + 1,
                            !.pc = IF loader.i = Len(maps) THEN "attach" ELSE "reuse"]
      /\ UNCHANGED <<device, pinned, objects, kills>>

\* A load that reuses the maps has their number as its index.
Reusing == loader.i # 0

\* bpf_set_link_xdp_fd on a device without a program, or with one of the same
\* mode; the loader goes on to the pins.
SetLink(mode) ==
  \/ /\ mode = "drv" => device.native
     /\ device' = Attached(mode, loader.obj)
     /\ IF Reusing THEN End("ok") ELSE Goto("access", 0)
  \/ /\ mode = "drv" /\ ~device.native
     /\ End("failed")
     /\ UNCHANGED device

\* xdp_link_attach with the mode and --force of the command line: the first
\* attempt.
xdp_link_attach(mode, force) ==
  /\ loader.pc = "attach"
  /\ \/ /\ Busy /\ ~force
        /\ End("failed")
        /\ UNCHANGED device
     \/ /\ Busy /\ force /\ device.mode # mode
        /\ loader' = [loader EXCEPT !.pc = "detach", !.mode = mode]
        /\ UNCHANGED device
     \/ /\ Busy => force /\ device.mode = mode
        /\ SetLink(mode)
  /\ UNCHANGED <<pinned, objects, kills>>

\* xdp_link_attach: a program of the opposite mode is taken off first.
DetachOpposite ==
  /\ loader.pc = "detach"
  /\ device' = Detached
  /\ loader' = [loader EXCEPT !.pc = "retry"]
  /\ UNCHANGED <<pinned, objects, kills>>

Reattach ==
  /\ loader.pc = "retry"
  /\ SetLink(loader.mode)
  /\ UNCHANGED <<pinned, objects, kills>>

\* pin_maps_in_bpf_object: the maps of an earlier program are unpinned first.
pin_maps_in_bpf_object ==
  /\ loader.pc = "access"
  /\ \/ (\E m \in map_names : pinned[m] # None) /\ Goto("unpin", 1)
     \/ (\A m \in map_names : pinned[m] = None) /\ Goto("pin", 1)
  /\ UNCHANGED <<device, pinned, objects, kills>>

\* bpf_object__unpin_maps, one map: the first that is missing ends the loader.
bpf_object__unpin_maps ==
  LET m == maps[loader.i]
  IN  /\ loader.pc = "unpin"
      /\ \/ /\ pinned[m] = None
            /\ End("failed")
            /\ UNCHANGED pinned
         \/ /\ pinned[m] # None
            /\ pinned' = [pinned EXCEPT ![m] = None]
            /\ IF loader.i = Len(maps) THEN Goto("pin", 1) ELSE Goto("unpin", loader.i + 1)
      /\ UNCHANGED <<device, objects, kills>>

\* Mutant of bpf_object__pin_maps: a name in use is passed over.
PinsWhatItCan ==
  LET m == maps[loader.i]
  IN  /\ loader.pc = "pin"
      /\ pinned' = IF pinned[m] # None THEN pinned ELSE [pinned EXCEPT ![m] = loader.obj[m]]
      /\ IF loader.i = Len(maps) THEN End("ok") ELSE Goto("pin", loader.i + 1)
      /\ UNCHANGED <<device, objects, kills>>

\* bpf_object__pin_maps, one map: a name in use undoes the earlier ones.
bpf_object__pin_maps ==
  LET m == maps[loader.i]
  IN  /\ loader.pc = "pin"
      /\ \/ /\ pinned[m] # None
            /\ IF loader.i = 1 THEN End("failed") ELSE Goto("unwind", loader.i - 1)
            /\ UNCHANGED pinned
         \/ /\ pinned[m] = None
            /\ pinned' = [pinned EXCEPT ![m] = loader.obj[m]]
            /\ IF loader.i = Len(maps) THEN End("ok") ELSE Goto("pin", loader.i + 1)
      /\ UNCHANGED <<device, objects, kills>>

\* Mutant of UnpinEarlier: the first map stays pinned.
UnpinEarlierButOne ==
  /\ loader.pc = "unwind"
  /\ pinned' = IF loader.i = 1 THEN pinned ELSE [pinned EXCEPT ![maps[loader.i]] = None]
  /\ IF loader.i = 1 THEN End("failed") ELSE Goto("unwind", loader.i - 1)
  /\ UNCHANGED <<device, objects, kills>>

\* bpf_object__pin_maps: err_unpin_maps
UnpinEarlier ==
  /\ loader.pc = "unwind"
  /\ pinned' = [pinned EXCEPT ![maps[loader.i]] = None]
  /\ IF loader.i = 1 THEN End("failed") ELSE Goto("unwind", loader.i - 1)
  /\ UNCHANGED <<device, objects, kills>>

\* main with --unload, and xdp_link_detach: the pins stay.
Unload(mode) ==
  /\ ~Running
  /\ device.mode = mode
  /\ device' = Detached
  /\ UNCHANGED <<pinned, loader, objects, kills>>

KillLoader ==
  /\ Running /\ kills < MaxKills
  /\ kills' = kills + 1
  /\ End("killed")
  /\ UNCHANGED <<device, pinned, objects>>

LoaderNext ==
  \/ Load \/ LoadReusing \/ reuse_maps
  \/ \E mode \in Modes, force \in BOOLEAN : xdp_link_attach(mode, force)
  \/ DetachOpposite \/ Reattach
  \/ pin_maps_in_bpf_object
  \/ bpf_object__unpin_maps \/ bpf_object__pin_maps \/ UnpinEarlier
  \/ \E mode \in Modes : Unload(mode)
  \/ KillLoader

-----------------------------------------------------------------------------

LoaderTypeOK ==
  LET Pins == [Names -> Objects \cup {None}]
  IN  /\ device \in [native : BOOLEAN, mode : Modes \cup {"none"}, prog : Pins]
      /\ pinned \in Pins
      /\ loader \in [pc : Ends \cup {"reuse", "attach", "detach", "retry", "access",
                                     "unpin", "pin", "unwind"},
                     mode : Modes \cup {"none"},
                     obj : Pins, i : 0 .. Len(maps), begin : Pins]
      /\ objects \in 0 .. MaxObjects
      /\ kills \in 0 .. MaxKills

\* The configurators reach the maps of the running program: once a load has
\* succeeded, the program on the device uses exactly the maps that are
\* pinned.  (pin_maps_in_bpf_object, reuse_maps)
PinnedMapsInUse ==
  loader.pc = "ok" /\ Busy => pinned = device.prog

Complete(pins) == \A m \in Names : pins[m] # None
Leftovers(pins) == pins["targets_map"] = None /\ pins # Nowhere

\* What a run that is not killed makes of the pins it finds, once it has
\* attached its program.  All or none of the maps pinned: it succeeds.  Some
\* of them, without targets_map, as a loader killed while it unpins leaves
\* them: it fails and changes nothing, so that every later run fails too.
\* Some of them, with targets_map: it fails.
\* (pin_maps_in_bpf_object, bpf_object__unpin_maps, bpf_object__pin_maps)
PinsAfterRun ==
  [][ loader.pc \in {"access", "unpin", "pin", "unwind"} /\ ~Running' /\ kills' = kills =>
        LET pins == loader.begin
        IN  /\ loader'.pc = "ok" <=> Complete(pins) \/ pins = Nowhere
            /\ Leftovers(pins) => pinned' = pins ]_<<loaderVars, kills>>

=============================================================================
