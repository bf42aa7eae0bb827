------------------------------- MODULE Update -------------------------------
(***************************************************************************)
(* The update part of initramfs_skeleton/init (lines 24-75): images in     *)
(* /rootfs/update replace those the camera boots from, unless they are cut *)
(* short.  The power may go at any step.  The card's vfat and exfat are    *)
(* not mounted sync and keep no order among writes: until the next sync a  *)
(* power loss may leave of each file, whatever it leaves of the others,    *)
(* anything it has been since the last one, or a part of it.               *)
(***************************************************************************)
EXTENDS Naturals

VARIABLES
  step,      \* what the script does next, to which image
  disk,      \* the files, as the system sees them
  may,       \* per file: what a power loss may leave of it
  hurt       \* history: "root" or "kernel", if the power went or a command failed
             \* where that may cost the image

vars == <<step, disk, may, hurt>>

Roots  == {"ext2", "squashfs"}
Images == Roots \cup {"kernel"}
Zip       == <<"update", "zip">>
Staged(i) == <<"update", i>>
Boot(i)   == <<"boot", i>>
Files  == {Zip} \cup {Staged(i) : i \in Images} \cup {Boot(i) : i \in Images}

\* "torn": cut short, or missing where only a whole file counts; "old" and "new" files
\* are whole; a root image may be "none".
States == {"none", "torn", "old", "new"}
Good   == {"old", "new"}
Updates == [Images \cup {"zip"} -> {"torn", "new"}]

Then(i)  == CASE i = "ext2" -> <<"mv", "squashfs">> [] i = "squashfs" -> <<"mv", "kernel">>
              [] OTHER -> <<"both", "">>
Other(i) == IF i = "ext2" THEN "squashfs" ELSE "ext2"
Start    == <<"unzip", "">>

\* The images from which the camera may boot.
Present == {r \in Roots : disk[Boot(r)] # "none"}

-----------------------------------------------------------------------------
(* The card *)

\* The files become d; of those in `part` a power loss may leave a part.
Write(d, part) ==
  /\ disk' = d
  /\ may' = [f \in Files |-> may[f] \cup {d[f]} \cup (IF f \in part THEN {"torn"} ELSE {})]

\* The script of a camera that boots from one image, whatever update it is given.
Init ==
  /\ step = Start /\ hurt = {}
  /\ \E r \in Roots, update \in Updates :
       disk = [f \in Files |-> IF f = Boot(Other(r)) THEN "none"
                               ELSE IF f[1] = "update" THEN update[f[2]] ELSE "old"]
  /\ may = [f \in Files |-> {disk[f]}]

-----------------------------------------------------------------------------
(* The script *)

\* The boot loader runs the script if the kernel is whole, so the kernel is not hurt.
\* The archive holds any of the images, unzip may run out of space, and the archive is
\* removed all the same.
Unzip ==
  /\ step = Start /\ disk[Boot("kernel")] \in Good
  /\ step' = <<"mv", "ext2">>
  /\ IF disk[Zip] # "new" THEN UNCHANGED <<disk, may>>
     ELSE \E got \in [Images -> {"none", "torn", "new"}] :
            LET unzipped == {Staged(i) : i \in {j \in Images : got[j] # "none"}}
            IN  Write([f \in Files |-> IF f = Zip THEN "torn"
                                       ELSE IF f \in unzipped THEN got[f[2]] ELSE disk[f]],
                      unzipped)
  /\ hurt' = hurt \ {"kernel"}

\* Mutated form: the size is not compared.
AnySize(image) == TRUE

Whole(image) == image = "new"

Skip(i) ==
  /\ step = <<"mv", i>> /\ ~Whole(disk[Staged(i)])
  /\ step' = Then(i) /\ UNCHANGED <<disk, may, hurt>>

\* A root image stays on its file system: mv renames it, or fails and is not checked.
\* Neither its data nor its entry in the directory need be on the card yet.
MoveRoot(i) ==
  /\ step = <<"mv", i>> /\ Whole(disk[Staged(i)]) /\ step' = <<"rm", i>>
  /\ \/ /\ Write([disk EXCEPT ![Boot(i)] = disk[Staged(i)], ![Staged(i)] = "torn"],
                 {Boot(i)})
        /\ UNCHANGED hurt
     \/ UNCHANGED <<disk, may>> /\ hurt' = hurt \cup {"root"}

\* /boot is another mount: mv removes the kernel, and copies the new one.
MoveKernel ==
  /\ step = <<"mv", "kernel">> /\ Whole(disk[Staged("kernel")])
  /\ step' = <<"copy", "kernel">>
  /\ Write([disk EXCEPT ![Boot("kernel")] = "torn"], {})
  /\ UNCHANGED hurt

\* The copy is complete and its source removed, or it fails, which nobody checks.
Copied ==
  /\ step = <<"copy", "kernel">> /\ step' = <<"sync", "kernel">>
  /\ \/ /\ Write([disk EXCEPT ![Boot("kernel")] = disk[Staged("kernel")],
                              ![Staged("kernel")] = "torn"], {})
        /\ UNCHANGED hurt
     \/ UNCHANGED <<disk, may>> /\ hurt' = hurt \cup {"kernel"}

\* The other root image goes now that the new one should be in its place; rm may fail.
RemoveOther(i) ==
  /\ step = <<"rm", i>> /\ step' = <<"sync", i>>
  /\ \/ Write([disk EXCEPT ![Boot(Other(i))] = "none"], {Boot(Other(i))})
     \/ UNCHANGED <<disk, may>>
  /\ UNCHANGED hurt

\* A new image that is alone in its place is whole, whatever happened before.
Healed(i) == i \in Roots /\ Present = {i} /\ disk[Boot(i)] = "new"

\* After the kernel the script exits, which reboots the camera.
Sync(i) ==
  /\ step = <<"sync", i>>
  /\ step' = CASE i = "kernel" -> Start [] i = "both" -> <<"mount", "">> [] OTHER -> Then(i)
  /\ may' = [f \in Files |-> {disk[f]}]
  /\ hurt' = IF Healed(i) THEN hurt \ {"root"} ELSE hurt
  /\ UNCHANGED disk

\* Mutated form: the other image is removed.
RemoveExt2 == "ext2"

\* The check reads the squashfs image in the update directory (init:62), where it is
\* no longer or is torn: so the squashfs image always goes.
Removed == IF disk[Staged("squashfs")] = "new" THEN "ext2" ELSE "squashfs"

ResolveBoth ==
  /\ step = <<"both", "">> /\ Present = Roots /\ step' = <<"sync", "both">>
  /\ \/ Write([disk EXCEPT ![Boot(Removed)] = "none"], {Boot(Removed)}) /\ UNCHANGED hurt
     \/ UNCHANGED <<disk, may>> /\ hurt' = hurt \cup {"root"}

OneIsLeft ==
  /\ step = <<"both", "">> /\ Present # Roots
  /\ step' = <<"mount", "">> /\ UNCHANGED <<disk, may, hurt>>

-----------------------------------------------------------------------------
(* The power, the owner *)

\* Until its sync a move is at risk, but for a squashfs image that is still beside a
\* whole ext2 image: whatever the card holds of it, the next boot removes it.
Unsynced == {r \in Roots : step \in {<<"rm", r>>, <<"sync", r>>}}
Spared   == step = <<"rm", "squashfs">> /\ disk[Boot("ext2")] \in Good

Risked ==
  (IF Unsynced # {} /\ ~Spared THEN {"root"} ELSE {})
    \cup (IF step \in {<<"copy", "kernel">>, <<"sync", "kernel">>} THEN {"kernel"} ELSE {})

\* What may become of files of which not all is synced.
Outcomes(part) ==
  LET loose == {f \in Files : f[1] = part /\ may[f] # {disk[f]}}
  IN  {d \in [loose -> UNION {may[f] : f \in loose}] : \A f \in loose : d[f] \in may[f]}

PowerLoss ==
  /\ \E update \in Outcomes("update"), boot \in Outcomes("boot") :
       disk' = [f \in Files |-> IF f \in DOMAIN update THEN update[f]
                                ELSE IF f \in DOMAIN boot THEN boot[f] ELSE disk[f]]
  /\ may' = [f \in Files |-> {disk'[f]}]
  /\ step' = Start /\ hurt' = hurt \cup Risked

\* Another update is put on the card, in whole or in part, and the camera restarted.
Stage ==
  /\ step = <<"mount", "">> /\ step' = Start
  /\ \E update \in Updates :
       disk' = [f \in Files |-> IF f[1] = "update" THEN update[f[2]] ELSE disk[f]]
  /\ may' = [f \in Files |-> {disk'[f]}]
  /\ UNCHANGED hurt

Next ==
  \/ Unzip \/ MoveKernel \/ Copied \/ ResolveBoth \/ OneIsLeft \/ PowerLoss \/ Stage
  \/ \E i \in Images : Skip(i)
  \/ \E i \in Roots : MoveRoot(i) \/ RemoveOther(i)
  \/ \E i \in Images \cup {"both"} : Sync(i)

-----------------------------------------------------------------------------
(* Properties *)

\* Wherever the power goes but between a move and its sync (and even there, if a squashfs
\* image is still beside a whole ext2 image), and whichever command fails but a move and
\* the last removal, a whole kernel and a whole root image are on the card, and the
\* script mounts exactly one root image.
AlwaysBoots ==
  /\ "kernel" \in hurt \/ step = <<"copy", "kernel">> \/ disk[Boot("kernel")] \in Good
  /\ "root" \notin hurt =>
       /\ \E r \in Roots : disk[Boot(r)] \in Good
       /\ step = <<"mount", "">> => \E r \in Roots : Present = {r} /\ disk[Boot(r)] \in Good

\* A new root image is not taken back, save when the power goes before its sync, by a
\* removal after a move that failed (init:34-35), and for a squashfs image beside an ext2
\* image that is not new (init:61 removes it).  An ext2 image that was moved beside a
\* squashfs image when the power went is kept by the next boot.
InstalledStays ==
  [][\/ (\E r \in Roots : disk[Boot(r)] = "new") => \E r \in Roots : disk'[Boot(r)] = "new"
     \/ PowerLoss /\ Unsynced # {}
     \/ \E r \in Roots : RemoveOther(r) /\ disk[Boot(r)] # "new"
     \/ ResolveBoth /\ (disk[Boot("ext2")] # "new" \/ disk[Staged("squashfs")] = "new")]_vars
=============================================================================
