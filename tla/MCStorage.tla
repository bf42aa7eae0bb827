----------------------------- MODULE MCStorage -----------------------------
(***************************************************************************)
(* How the daemon ends, and what the camera keeps on its card across       *)
(* restarts: the configuration, the detection mask and the images it boots *)
(* from.  They share no state that their properties are about, so one      *)
(* behaviour moves one of them only; `focus` says which, and the others    *)
(* stay where they started.                                                *)
(***************************************************************************)
EXTENDS MCConfigStore

CONSTANTS Puts, Zeros, Torn, NoPut, Consumers, MaxRequests

\* No request's mask is mistaken for a missing file, or its name for none.
ASSUME MaskConstants == Torn \notin Puts /\ NoPut \notin Puts
ASSUME EndConstants  == MaxRequests \in Nat

VARIABLES
  focus, mask_daemon, memory, file, durable, put, last, overlapped, powerLost,
  step, disk, may, hurt,
  flag, main, saver, unserved, requests, tasks, at, unseen, device, camera

maskVars   == <<mask_daemon, memory, file, durable, put, last, overlapped, powerLost>>
updateVars == <<step, disk, may, hurt>>
endVars ==
  <<flag, main, saver, unserved, requests, tasks, at, unseen, device, camera>>

M == INSTANCE Mask WITH daemon <- mask_daemon
U == INSTANCE Update
E == INSTANCE Shutdown

\* Where the update stays: a camera that boots from its squashfs image.
Untouched ==
  /\ disk[U!Zip] = "torn" /\ \A i \in U!Images : disk[U!Staged(i)] = "torn"
  /\ disk[U!Boot("squashfs")] = "old"

MCInit ==
  /\ StoreInit /\ M!Init /\ U!Init /\ E!Init
  /\ focus \in {"config", "mask", "update", "end"}
  /\ focus # "update" => Untouched
  /\ focus # "end" => device = "off" /\ \A t \in E!Threads : at[t] = "top"

MCNext ==
  /\ UNCHANGED focus
  /\ \/ focus = "config" /\ StoreNext /\ UNCHANGED <<maskVars, updateVars, endVars>>
     \/ focus = "mask" /\ M!Next /\ UNCHANGED <<storeVars, updateVars, endVars>>
     \/ focus = "update" /\ U!Next /\ UNCHANGED <<storeVars, maskVars, endVars>>
     \/ focus = "end" /\ E!Next /\ UNCHANGED <<storeVars, maskVars, updateVars>>

\* A behaviour of the end is fair as Shutdown says.
MCSpec ==
  /\ MCInit /\ [][MCNext]_<<focus, storeVars, maskVars, updateVars, endVars>>
  /\ WF_endVars(focus = "end" /\ E!SaveEnds)
  /\ WF_endVars(focus = "end" /\ E!MainNext)
  /\ WF_endVars(focus = "end" /\ E!Reset)
  /\ \A t \in E!Tasks : WF_endVars(focus = "end" /\ E!TaskEnds(t))
  /\ \A t \in E!Threads : WF_endVars(focus = "end" /\ E!ThreadTurn(t))

-----------------------------------------------------------------------------

\* The mask, the update and the end, as in their modules.
MaskInv        == M!MaskInv
SavedIsLoaded  == M!SavedIsLoaded
AlwaysBoots    == U!AlwaysBoots
InstalledStays == U!InstalledStays
ShutdownInv    == E!ShutdownInv
DaemonEnds     == focus = "end" => E!DaemonEnds
=============================================================================
