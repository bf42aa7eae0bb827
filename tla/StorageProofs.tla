--------------------------- MODULE StorageProofs ---------------------------
(***************************************************************************)
(* The safety of what the camera keeps on its card and of how the daemon   *)
(* ends, for every number of commands, starts, masks and requests.         *)
(***************************************************************************)
EXTENDS MCStorage, TLAPS

-----------------------------------------------------------------------------
(* The configuration *)

\* What a running save has in hand and has written, and whose it still is.
ConfigKept ==
  /\ saving # "no" /\ ~late => snapshot = Persisted(state)
  /\ saving = "saved" /\ (life # "down" \/ ended = "saved") => cached = snapshot
  /\ life = "down" /\ ended = "saved" => saving = "saved"

OutputsThere == hw = [d \in Devices |-> hw[d]]

ConfigInv == ConfigKept /\ OutputsThere

LEMMA InitConfigInv == StoreInit => ConfigInv
<1> SUFFICES ASSUME StoreInit PROVE ConfigInv
  OBVIOUS
<1>1. OutputsThere
  BY DEF StoreInit, OutputsThere
<1>2. ConfigKept
  BY DEF StoreInit, ConfigKept
<1> QED BY <1>1, <1>2 DEF ConfigInv

LEMMA OutputsStay == OutputsThere /\ Run => OutputsThere'
<1> SUFFICES ASSUME OutputsThere, Run PROVE OutputsThere'
  OBVIOUS
<1>1. ASSUME NEW c \in Clients, Receive(c) \/ StoreClone(c) PROVE hw' = hw
  BY <1>1 DEF Receive, StoreClone, Done
<1>2. ASSUME NEW t \in Tasks, HwWrite(t) \/ HwWriteFails(t)
      PROVE  hw' = hw \/ \E d, v : hw' = [hw EXCEPT ![d] = v]
  BY <1>2 DEF HwWrite, HwWriteFails
<1>3. Measure \/ StoreTransition \/
        (\E target \in {"Unknown", "Day", "Night"} : Decide(target)) => hw' = hw
  BY DEF Measure, StoreTransition, Decide, Done
<1>4. hw' = hw \/ \E d, v : hw' = [hw EXCEPT ![d] = v]
  BY <1>1, <1>2, <1>3 DEF Run
<1> QED BY <1>4 DEF OutputsThere

LEMMA ConfigStep == ConfigInv /\ [StoreNext]_storeVars => ConfigInv'
<1> SUFFICES ASSUME ConfigInv, [StoreNext]_storeVars PROVE ConfigInv'
  OBVIOUS
<1> USE DEF ConfigInv
<1>1. CASE Boot
  <2>1. saving' = "no" /\ life' = "up"
    BY <1>1 DEF Boot
  <2>2. Lines = [d \in Devices |-> Lines[d]]
    BY DEF Lines, OutputsThere
  <2>3. \E i, j : hw' = [Lines EXCEPT !["trig1"] = i, !["trig2"] = j, !["isp"] = 0]
    BY <1>1 DEF Boot, Started, StartedBadly
  <2>4. OutputsThere'
    BY <2>2, <2>3 DEF OutputsThere
  <2> QED BY <2>1, <2>4 DEF ConfigKept
<1>2. CASE Run
  <2>1. /\ UNCHANGED <<life, ended, saving, snapshot, cached>> /\ life # "down"
        /\ late' = (late \/ (saving # "no" /\ Persisted(state') # Persisted(state)))
    BY <1>2 DEF Run
  <2>2. saving # "no" /\ ~late' => ~late /\ Persisted(state') = Persisted(state)
    BY <2>1
  <2>3. Persisted(state)' = Persisted(state')
    BY DEF Persisted
  <2>4. ConfigKept'
    BY <2>1, <2>2, <2>3 DEF ConfigKept
  <2> QED BY <1>2, <2>4, OutputsStay
<1>3. CASE CtrlC
  <2>1. /\ saving' = "snapshot" /\ snapshot' = Persisted(state)
        /\ state' = state /\ hw' = hw /\ life # "down" /\ UNCHANGED <<life, ended>>
    BY <1>3 DEF CtrlC, RequestShutdown
  <2> QED BY <2>1 DEF ConfigKept, OutputsThere, Persisted
<1>4. CASE SaveTruncate \/ SaveWrite \/ SaveFails
  <2>1. /\ life # "down" /\ UNCHANGED <<state, hw, life, ended, snapshot, late>>
        /\ saving # "no" /\ saving' # "no"
        /\ saving' = "saved" => cached' = snapshot
    BY <1>4 DEF SaveTruncate, SaveWrite, SaveFails, vars
  <2> QED BY <2>1 DEF ConfigKept, OutputsThere, Persisted
<1>5. CASE Exit \/ Reboot \/ Kill
  <2>1. /\ UNCHANGED <<state, hw, saving, snapshot, cached, late>>
        /\ life # "down" /\ life' = "down"
        /\ ended' = "saved" => saving = "saved"
    BY <1>5 DEF Exit, Reboot, Kill, GoDown, vars
  <2> QED BY <2>1 DEF ConfigKept, OutputsThere, Persisted
<1>6. CASE PowerLoss
  <2>1. /\ UNCHANGED <<state, hw, saving, snapshot, late>>
        /\ life' = "down" /\ ended' = "power"
    BY <1>6 DEF PowerLoss, GoDown, vars
  <2> QED BY <2>1 DEF ConfigKept, OutputsThere, Persisted
<1>7. ASSUME NEW c \in Clients, RebootCommand(c) PROVE ConfigInv'
  <2>1. /\ UNCHANGED <<state, hw, ended, saving, snapshot, cached, late>>
        /\ life = "up" /\ life' = "rebooting"
    BY <1>7 DEF RebootCommand
  <2> QED BY <2>1 DEF ConfigKept, OutputsThere, Persisted
<1>8. CASE Flush \/ UNCHANGED storeVars
  <2>1. UNCHANGED <<state, hw, life, ended, saving, snapshot, cached, late>>
    BY <1>8 DEF Flush, storeVars, store, vars
  <2> QED BY <2>1 DEF ConfigKept, OutputsThere, Persisted
<1> QED BY <1>1, <1>2, <1>3, <1>4, <1>5, <1>6, <1>7, <1>8 DEF StoreNext

\* Only a start brings the daemon up from nothing.
LEMMA StartIsBoot == [StoreNext]_storeVars /\ Starts => Boot
<1> SUFFICES ASSUME [StoreNext]_storeVars, life = "down", life' = "up" PROVE Boot
  BY DEF Starts
<1> QED
  BY DEF StoreNext, Run, CtrlC, SaveTruncate, SaveWrite, SaveFails, Exit, GoDown,
         RebootCommand, Reboot, Kill, Flush, PowerLoss, storeVars, store

LEMMA StartKeepsConfig ==
  ConfigInv /\ [StoreNext]_storeVars =>
    (Starts /\ ended = "saved" /\ ~late => Survives(PersistFields))
<1> SUFFICES ASSUME ConfigInv, Boot, Starts, ended = "saved", ~late
             PROVE  Survives(PersistFields)
  BY StartIsBoot
<1>1. cached = Persisted(state)
  BY DEF ConfigInv, ConfigKept, Starts
<1>2. state' = with_config(cached)
  BY DEF Boot
<1>3. \A f \in PersistFields : state'[f] = cached[f]
  BY <1>2 DEF with_config, PersistFields, Fields, HwFields, SoftFields
<1> QED BY <1>1, <1>3 DEF Survives, Persisted

LEMMA StartSetsOutputs ==
  ConfigInv /\ [StoreNext]_storeVars =>
    (Starts /\ applied' => Agrees("ircut_on")' /\ Agrees("night_mode")')
<1> SUFFICES ASSUME ConfigInv, Boot, applied'
             PROVE  Agrees("ircut_on")' /\ Agrees("night_mode")'
  BY StartIsBoot
<1>1. hw' = Started(Lines) /\ state' = with_config(cached)
  BY DEF Boot
<1>2. Lines = [d \in Devices |-> Lines[d]]
  BY DEF Lines, ConfigInv, OutputsThere
<1>3. hw'["trig1"] = 0 /\ hw'["trig2"] = 0 /\ hw'["isp"] = 0
  BY <1>1, <1>2 DEF Started, Devices
<1>4. state'.ircut_on /\ ~state'.night_mode
  <2>1. ASSUME NEW f \in {"ircut_on", "night_mode"}
        PROVE  f \in Fields /\ f \notin PersistFields
    BY DEF PersistFields, Fields, HwFields
  <2>2. \A f \in {"ircut_on", "night_mode"} : state'[f] = Defaults[f]
    BY <1>1, <2>1, Zenon DEF with_config
  <2>3. \A f \in Fields : Defaults[f] <=> f \in {"ircut_on", "led_on", "show_timestamp"}
    BY Zenon DEF Defaults
  <2>4. Defaults["ircut_on"] /\ ~Defaults["night_mode"]
    BY <2>1, <2>3
  <2> QED BY <2>2, <2>4
<1> QED BY <1>3, <1>4 DEF Agrees, Shows, Bit

-----------------------------------------------------------------------------
(* The mask *)

Answers == {"new", "swapped", "truncated", "saved", "failed", "lost"}

MaskTypes ==
  /\ mask_daemon \in {"up", "down"}
  /\ put \in [Puts -> Answers] /\ last \in Puts \cup {NoPut}

\* Requests run while the daemon does, and none before the first of its life.
NoneBefore ==
  /\ mask_daemon = "down" => M!InFlight = {}
  /\ last = NoPut => M!InFlight = {}

\* Without a PUT since the start, memory is what the file holds; after one, it is
\* the last request's mask.
MemoryFrom ==
  mask_daemon = "up" =>
    memory = IF last = NoPut THEN M!MaskIn(file) ELSE last

\* Nothing but the last request is at work if it had the file to itself, and once
\* it is answered the file is its mask.
AloneWrites ==
  last # NoPut /\ last \notin overlapped /\ (mask_daemon = "up" \/ ~powerLost) =>
    /\ M!InFlight \subseteq {last}
    /\ put[last] = "saved" => file = last

MaskIInv ==
  MaskTypes /\ NoneBefore /\ MemoryFrom /\ AloneWrites /\ M!OverlapLeavesMask

LEMMA InitMaskInv == M!Init => MaskIInv
<1> SUFFICES ASSUME M!Init PROVE MaskIInv
  OBVIOUS
<1>1. /\ mask_daemon = "up" /\ memory = Zeros /\ file = Torn
      /\ put = [p \in Puts |-> "new"] /\ last = NoPut
  BY DEF M!Init
<1>2. \A p \in Puts : put[p] = "new"
  BY <1>1
<1>3. MaskTypes
  BY <1>1 DEF MaskTypes, Answers
<1>4. M!InFlight = {}
  BY <1>2 DEF M!InFlight
<1> QED
  BY <1>1, <1>2, <1>3, <1>4
  DEF MaskIInv, NoneBefore, MemoryFrom, AloneWrites, M!OverlapLeavesMask, M!MaskIn

LEMMA SwapKeepsMask ==
  ASSUME MaskIInv, NEW p \in Puts, M!Swap(p) PROVE MaskIInv'
<1>1. /\ mask_daemon = "up" /\ put[p] = "new" /\ memory' = p /\ last' = p
      /\ put' = [put EXCEPT ![p] = "swapped"]
      /\ overlapped' = overlapped \cup
           (IF M!InFlight = {} THEN {} ELSE M!InFlight \cup {p})
      /\ UNCHANGED <<mask_daemon, file, durable, powerLost>>
  BY DEF M!Swap
<1>2. put \in [Puts -> Answers] /\ p # NoPut
  BY MaskConstants DEF MaskIInv, MaskTypes
<1>3. MaskTypes'
  BY <1>1 DEF MaskIInv, MaskTypes, Answers
<1>4. put'[p] = "swapped" /\ M!InFlight' = M!InFlight \cup {p}
  BY <1>1, <1>2 DEF M!InFlight
<1>5. NoneBefore' /\ MemoryFrom' /\ AloneWrites'
  BY <1>1, <1>2, <1>4 DEF NoneBefore, MemoryFrom, AloneWrites
<1>6. M!OverlapLeavesMask'
  BY <1>4 DEF M!OverlapLeavesMask
<1> QED BY <1>3, <1>5, <1>6 DEF MaskIInv

\* A step of the file write of one request.
LEMMA WriteKeepsMask ==
  ASSUME MaskIInv, NEW p \in Puts, M!Truncate(p) \/ M!Write(p) PROVE MaskIInv'
<1>1. /\ put[p] \in {"swapped", "truncated"}
      /\ UNCHANGED <<mask_daemon, memory, durable, last, overlapped, powerLost>>
  BY DEF M!Truncate, M!Write
<1>2. PICK a \in Answers : put' = [put EXCEPT ![p] = a]
  BY DEF M!Truncate, M!Write, M!Answer, Answers
<1>3. put \in [Puts -> Answers] /\ p \in M!InFlight /\ put'[p] = a
  BY <1>1, <1>2 DEF MaskIInv, MaskTypes, M!InFlight
<1>4. /\ a \in {"truncated", "saved", "failed"}
      /\ a = "saved" => file' = p
  BY <1>2, <1>3 DEF M!Truncate, M!Write, M!Answer, MaskIInv, MaskTypes
<1>5. MaskTypes'
  BY <1>1, <1>2 DEF MaskIInv, MaskTypes
<1>6. \A q \in Puts \ {p} : put'[q] = put[q]
  BY <1>2, <1>3
<1>7. M!InFlight' \subseteq M!InFlight
  BY <1>3, <1>6 DEF M!InFlight
<1>8. mask_daemon = "up" /\ last # NoPut
  BY <1>3 DEF MaskIInv, NoneBefore, MaskTypes
<1>9. NoneBefore' /\ MemoryFrom'
  BY <1>1, <1>8 DEF MaskIInv, NoneBefore, MemoryFrom
<1>10. AloneWrites'
  <2> SUFFICES ASSUME last \notin overlapped
               PROVE  /\ M!InFlight' \subseteq {last}
                      /\ put'[last] = "saved" => file' = last
    BY <1>1, <1>8 DEF AloneWrites
  <2>1. M!InFlight \subseteq {last}
    BY <1>8 DEF MaskIInv, AloneWrites
  <2>2. p = last
    BY <2>1, <1>3
  <2> QED BY <2>1, <2>2, <1>3, <1>4, <1>7
<1>11. M!OverlapLeavesMask'
  <2>1. CASE a = "saved"
    BY <2>1, <1>4 DEF M!OverlapLeavesMask
  <2>2. CASE a # "saved"
    BY <2>2, <1>3, <1>4 DEF M!OverlapLeavesMask
  <2> QED BY <2>1, <2>2
<1> QED BY <1>5, <1>9, <1>10, <1>11 DEF MaskIInv

LEMMA EndKeepsMask ==
  ASSUME MaskIInv, NEW withPower \in BOOLEAN, M!End(withPower) PROVE MaskIInv'
<1>1. /\ mask_daemon = "up" /\ mask_daemon' = "down"
      /\ powerLost' = (powerLost \/ withPower)
      /\ put' = [p \in Puts |-> IF p \in M!InFlight THEN "lost" ELSE put[p]]
      /\ ~withPower => file' = file
      /\ UNCHANGED <<memory, last, overlapped>>
  BY DEF M!End
<1>2. put \in [Puts -> Answers]
  BY DEF MaskIInv, MaskTypes
<1>3. \A p \in Puts : put'[p] = IF p \in M!InFlight THEN "lost" ELSE put[p]
  BY <1>1
<1>4. M!InFlight' = {}
  BY <1>3 DEF M!InFlight
<1>5. MaskTypes'
  BY <1>1, <1>2 DEF MaskIInv, MaskTypes, Answers
<1>6. NoneBefore' /\ MemoryFrom'
  BY <1>1, <1>4 DEF NoneBefore, MemoryFrom
<1>7. AloneWrites'
  <2> SUFFICES ASSUME last # NoPut, last \notin overlapped, ~powerLost',
                      put'[last] = "saved"
               PROVE  file' = last
    BY <1>1, <1>4 DEF AloneWrites
  <2>1. last \in Puts
    BY DEF MaskIInv, MaskTypes
  <2>2. put[last] = "saved"
    BY <2>1, <1>3
  <2>3. ~withPower
    BY <1>1
  <2> QED BY <2>2, <2>3, <1>1 DEF MaskIInv, AloneWrites
<1>8. M!OverlapLeavesMask'
  <2>1. CASE withPower
    BY <2>1, <1>1 DEF M!OverlapLeavesMask
  <2>2. CASE ~withPower /\ M!InFlight = {}
    <3>1. \A p \in Puts : put'[p] = put[p]
      BY <2>2, <1>3
    <3> QED BY <2>2, <3>1, <1>1 DEF MaskIInv, M!OverlapLeavesMask
  <2>3. CASE M!InFlight # {}
    <3>1. PICK p \in Puts : p \in M!InFlight
      BY <2>3 DEF M!InFlight
    <3>2. put'[p] = "lost"
      BY <3>1, <1>3
    <3> QED BY <3>2 DEF M!OverlapLeavesMask
  <2> QED BY <2>1, <2>2, <2>3
<1> QED BY <1>5, <1>6, <1>7, <1>8 DEF MaskIInv

LEMMA MaskStep == MaskIInv /\ [M!Next]_maskVars => MaskIInv'
<1> SUFFICES ASSUME MaskIInv, [M!Next]_maskVars PROVE MaskIInv'
  OBVIOUS
<1>1. ASSUME NEW p \in Puts, M!Swap(p) PROVE MaskIInv'
  BY <1>1, SwapKeepsMask
<1>2. ASSUME NEW p \in Puts, M!Truncate(p) \/ M!Write(p) PROVE MaskIInv'
  BY <1>2, WriteKeepsMask
<1>3. ASSUME NEW withPower \in BOOLEAN, M!End(withPower) PROVE MaskIInv'
  BY <1>3, EndKeepsMask
<1>4. CASE M!Start
  <2>1. /\ mask_daemon = "down" /\ mask_daemon' = "up" /\ last' = NoPut
        /\ memory' = M!MaskIn(file) /\ UNCHANGED <<file, put, overlapped, powerLost>>
    BY <1>4 DEF M!Start, M!Load
  <2>2. M!InFlight' = M!InFlight /\ M!InFlight = {} /\ M!MaskIn(file)' = M!MaskIn(file)
    BY <2>1 DEF M!InFlight, M!MaskIn, MaskIInv, NoneBefore
  <2> QED BY <2>1, <2>2
    DEF MaskIInv, MaskTypes, NoneBefore, MemoryFrom, AloneWrites, M!OverlapLeavesMask
<1>5. CASE M!WriteBack \/ UNCHANGED maskVars
  <2>1. UNCHANGED <<mask_daemon, memory, file, put, last, overlapped, powerLost>>
    BY <1>5 DEF M!WriteBack, maskVars
  <2> QED BY <2>1
    DEF MaskIInv, MaskTypes, NoneBefore, MemoryFrom, AloneWrites,
        M!OverlapLeavesMask, M!InFlight, M!MaskIn
<1> QED BY <1>1, <1>2, <1>3, <1>4, <1>5 DEF M!Next

LEMMA MaskImplied == MaskIInv => M!MaskInv
<1> SUFFICES ASSUME MaskIInv, mask_daemon = "up", M!InFlight = {},
                    last = NoPut \/ M!Clean
             PROVE  M!MaskIn(file) = memory
  BY DEF M!MaskInv, M!Agreement, MaskIInv
<1>1. CASE last = NoPut
  BY <1>1 DEF MaskIInv, MemoryFrom
<1>2. CASE last # NoPut
  <2>1. file = last /\ last \in Puts /\ memory = last
    BY <1>2 DEF MaskIInv, MaskTypes, AloneWrites, MemoryFrom, M!Clean
  <2> QED BY <2>1, MaskConstants DEF M!MaskIn
<1> QED BY <1>1, <1>2

LEMMA RestartLoads ==
  MaskIInv /\ [M!Next]_maskVars =>
    (mask_daemon = "down" /\ mask_daemon' = "up" /\ M!Clean /\ ~powerLost
       => memory' = last)
<1> SUFFICES ASSUME MaskIInv, [M!Next]_maskVars, mask_daemon = "down",
                    mask_daemon' = "up", M!Clean, ~powerLost
             PROVE  memory' = last
  OBVIOUS
<1>1. M!Start
  BY DEF M!Next, M!Swap, M!Truncate, M!Write, M!WriteBack, M!End, maskVars
<1>2. file = last /\ last \in Puts
  BY DEF MaskIInv, MaskTypes, AloneWrites, M!Clean
<1> QED BY <1>1, <1>2, MaskConstants DEF M!Start, M!Load, M!MaskIn

-----------------------------------------------------------------------------
(* The update *)

Steps ==
  {<<"unzip", "">>, <<"copy", "kernel">>, <<"sync", "kernel">>, <<"both", "">>,
   <<"sync", "both">>, <<"mount", "">>}
    \cup ({"mv"} \X U!Images) \cup ({"rm", "sync"} \X U!Roots)

UpdateTypes ==
  /\ step \in Steps /\ hurt \subseteq {"root", "kernel"}
  /\ disk \in [U!Files -> U!States] /\ may \in [U!Files -> SUBSET U!States]
  /\ \A f \in U!Files : disk[f] \in may[f]

Synced(f) == may[f] = {disk[f]}

\* The kernel is being copied, or the copy is not synced.
KernelMoves == {<<"copy", "kernel">>, <<"sync", "kernel">>}

KernelInv ==
  /\ step \notin KernelMoves => Synced(U!Boot("kernel"))
  /\ step = <<"copy", "kernel">> => disk[U!Staged("kernel")] = "new"
  /\ "kernel" \in hurt \/ step = <<"copy", "kernel">> \/ disk[U!Boot("kernel")] \in U!Good

\* A root image was moved, and that is not synced.
RootMoves == {"rm", "sync"} \X U!Roots

RootsSynced ==
  /\ step \notin RootMoves =>
       \A r \in U!Roots :
         step # <<"sync", "both">> \/ disk[U!Boot(r)] # "none" => Synced(U!Boot(r))
  /\ \A r \in U!Roots : step = <<"rm", r>> => Synced(U!Boot(U!Other(r)))

\* An ext2 image is whole, and without one the squashfs image is.
Safe(ext2, squashfs) ==
  ext2 \in {"none", "old", "new"} /\ (ext2 = "none" => squashfs \in {"old", "new"})

\* The squashfs image has been moved, or was not whole.
SquashfsMoved == {<<"rm", "squashfs">>, <<"sync", "squashfs">>, <<"mv", "kernel">>,
                  <<"both", "">>}

RootInv ==
  LET ext2 == disk[U!Boot("ext2")]  squashfs == disk[U!Boot("squashfs")]
  IN  "root" \notin hurt =>
        /\ Safe(ext2, squashfs)
        /\ \A r \in U!Roots : step = <<"rm", r>> => disk[U!Boot(r)] = "new"
        /\ step = <<"sync", "both">> => squashfs = "none"
        /\ step = <<"mount", "">> => ext2 = "none" \/ squashfs = "none"
        /\ step \in SquashfsMoved => disk[U!Staged("squashfs")] # "new" \/ ext2 = "none"

\* What is not at risk is whole, and of that all is synced on which a power loss relies.
UpdateInv == UpdateTypes /\ KernelInv /\ RootsSynced /\ RootInv

\* The seven files are seven.
LEMMA FilesApart ==
  /\ U!Zip \in U!Files
  /\ \A i \in U!Images :
       /\ U!Boot(i) \in U!Files /\ U!Staged(i) \in U!Files
       /\ U!Boot(i) # U!Zip /\ U!Staged(i) # U!Zip
       /\ U!Boot(i)[1] = "boot" /\ U!Staged(i)[1] = "update" /\ U!Staged(i)[2] = i
       /\ \A j \in U!Images : /\ U!Boot(i) # U!Staged(j)
                              /\ U!Boot(i) = U!Boot(j) => i = j
                              /\ U!Staged(i) = U!Staged(j) => i = j
  /\ U!Roots = {"ext2", "squashfs"} /\ U!Images = {"ext2", "squashfs", "kernel"}
  /\ U!Good = {"old", "new"} /\ U!States = {"none", "torn", "old", "new"}
  /\ \A r \in U!Roots : U!Other(r) \in U!Roots /\ U!Other(r) # r /\ r # "kernel"
  /\ U!Other("ext2") = "squashfs" /\ U!Other("squashfs") = "ext2"
BY DEF U!Files, U!Zip, U!Boot, U!Staged, U!Images, U!Roots, U!Good, U!States, U!Other

\* A write leaves what it does not touch as synced as it was.
LEMMA Written ==
  ASSUME UpdateTypes, NEW d \in [U!Files -> U!States], NEW part, U!Write(d, part)
  PROVE  /\ disk' = d /\ may' \in [U!Files -> SUBSET U!States]
         /\ \A f \in U!Files : disk'[f] \in may'[f]
         /\ \A f \in U!Files : d[f] = disk[f] /\ f \notin part => may'[f] = may[f]
<1>1. /\ disk' = d
      /\ may' = [f \in U!Files |->
                   may[f] \cup {d[f]} \cup (IF f \in part THEN {"torn"} ELSE {})]
  BY DEF U!Write
<1>2. \A f \in U!Files : d[f] \in U!States /\ may[f] \subseteq U!States /\ disk[f] \in may[f]
  BY DEF UpdateTypes
<1>3. "torn" \in U!States
  BY DEF U!States
<1> QED BY <1>1, <1>2, <1>3

\* At the start everything is synced, and there is one image, which is whole.
LEMMA InitUpdateInv == U!Init => UpdateInv
<1> SUFFICES ASSUME U!Init PROVE UpdateInv
  OBVIOUS
<1>1. PICK r \in U!Roots, update \in U!Updates :
        disk = [f \in U!Files |-> IF f = U!Boot(U!Other(r)) THEN "none"
                                  ELSE IF f[1] = "update" THEN update[f[2]] ELSE "old"]
  BY DEF U!Init
<1>2. step = <<"unzip", "">> /\ hurt = {} /\ may = [f \in U!Files |-> {disk[f]}]
  BY DEF U!Init, U!Start
<1>3. \A f \in U!Files : f[1] = "update" => update[f[2]] \in U!States
  BY DEF U!Files, U!Zip, U!Boot, U!Staged, U!Updates, U!States
<1>4. disk \in [U!Files -> U!States] /\ \A f \in U!Files : may[f] = {disk[f]}
  BY <1>1, <1>2, <1>3, FilesApart
<1>5. /\ \A i \in U!Images : disk[U!Boot(i)] = IF i = U!Other(r) THEN "none" ELSE "old"
  BY <1>1, FilesApart
<1>6. /\ step \in Steps /\ step \notin KernelMoves \cup RootMoves \cup SquashfsMoved
      /\ step \notin {<<"sync", "both">>, <<"mount", "">>} /\ step # <<"copy", "kernel">>
      /\ \A q \in U!Roots : step # <<"rm", q>>
  BY <1>2 DEF Steps, KernelMoves, RootMoves, SquashfsMoved
<1>7. UpdateTypes
  <2>1. \A f \in U!Files : disk[f] \in U!States
    BY <1>4
  <2>2. may \in [U!Files -> SUBSET U!States]
    BY <1>2, <2>1
  <2> QED BY <1>2, <1>4, <1>6, <2>2 DEF UpdateTypes
<1>8. KernelInv /\ RootsSynced
  <2>1. \A i \in U!Images : may[U!Boot(i)] = {disk[U!Boot(i)]}
    BY <1>4, FilesApart
  <2>2. disk[U!Boot("kernel")] = "old" /\ "kernel" \in U!Images
    BY <1>5, FilesApart
  <2>3. KernelInv
    BY <1>6, <2>1, <2>2, FilesApart DEF KernelInv, Synced, KernelMoves
  <2>4. \A q \in U!Roots : may[U!Boot(q)] = {disk[U!Boot(q)]}
    BY <2>1 DEF U!Images
  <2>5. RootsSynced
    BY <1>6, <2>4 DEF RootsSynced, Synced
  <2> QED BY <2>3, <2>5
<1>9. RootInv
  BY <1>1, <1>5, <1>6, FilesApart DEF RootInv, Safe
<1> QED BY <1>7, <1>8, <1>9 DEF UpdateInv

LEMMA UnzipKeepsUpdate == ASSUME UpdateInv, U!Unzip PROVE UpdateInv'
<1>1. /\ step = <<"unzip", "">> /\ step' = <<"mv", "ext2">> /\ hurt' = hurt \ {"kernel"}
      /\ disk[U!Boot("kernel")] \in U!Good /\ UpdateTypes
  BY DEF U!Unzip, U!Start, UpdateInv
<1>2. /\ disk' \in [U!Files -> U!States] /\ may' \in [U!Files -> SUBSET U!States]
      /\ \A f \in U!Files : disk'[f] \in may'[f]
      /\ \A i \in U!Images : /\ disk'[U!Boot(i)] = disk[U!Boot(i)]
                             /\ may'[U!Boot(i)] = may[U!Boot(i)]
  <2>1. CASE UNCHANGED <<disk, may>>
    BY <1>1, <2>1 DEF UpdateTypes
  <2>2. ASSUME NEW got \in [U!Images -> {"none", "torn", "new"}],
               NEW unzipped,
               unzipped = {U!Staged(i) : i \in {j \in U!Images : got[j] # "none"}},
               U!Write([f \in U!Files |-> IF f = U!Zip THEN "torn"
                                          ELSE IF f \in unzipped THEN got[f[2]] ELSE disk[f]],
                       unzipped)
        PROVE  <1>2
    <3> DEFINE d == [f \in U!Files |-> IF f = U!Zip THEN "torn"
                                       ELSE IF f \in unzipped THEN got[f[2]] ELSE disk[f]]
    <3>1. \A f \in unzipped : got[f[2]] \in U!States
      BY <2>2, FilesApart
    <3>2. d \in [U!Files -> U!States]
      BY <1>1, <3>1, FilesApart DEF UpdateTypes
    <3>3. \A i \in U!Images : U!Boot(i) \notin unzipped /\ d[U!Boot(i)] = disk[U!Boot(i)]
      BY <2>2, FilesApart
    <3>4. U!Write(d, unzipped)
      BY <2>2
    <3> HIDE DEF d
    <3>5. /\ disk' = d /\ may' \in [U!Files -> SUBSET U!States]
          /\ \A f \in U!Files : disk'[f] \in may'[f]
          /\ \A f \in U!Files : d[f] = disk[f] /\ f \notin unzipped => may'[f] = may[f]
      BY <1>1, <3>2, <3>4, Written
    <3>6. \A i \in U!Images : U!Boot(i) \in U!Files
      BY FilesApart
    <3> QED BY <3>2, <3>3, <3>5, <3>6
  <2> QED BY <2>1, <2>2 DEF U!Unzip
<1>3. /\ step' \in Steps /\ {step, step'} \cap (KernelMoves \cup RootMoves) = {}
      /\ step' \notin {<<"sync", "both">>, <<"mount", "">>} \cup SquashfsMoved
      /\ step # <<"sync", "both">>
      /\ step' # <<"copy", "kernel">> /\ \A r \in U!Roots : step' # <<"rm", r>>
  <2>1. step' \in {"mv"} \X U!Images
    BY <1>1 DEF U!Images, U!Roots
  <2>2. step' \in Steps /\ step \notin KernelMoves /\ step' \notin KernelMoves
    BY <1>1, <2>1 DEF Steps, KernelMoves
  <2>3. step \notin RootMoves /\ step' \notin RootMoves
    BY <1>1 DEF RootMoves
  <2>4. /\ step' \notin {<<"sync", "both">>, <<"mount", "">>} \cup SquashfsMoved
        /\ step # <<"sync", "both">>
        /\ step' # <<"copy", "kernel">> /\ \A r \in U!Roots : step' # <<"rm", r>>
    BY <1>1 DEF SquashfsMoved
  <2> QED BY <2>2, <2>3, <2>4
<1>4. UpdateTypes'
  BY <1>1, <1>2, <1>3 DEF UpdateTypes
<1>5. KernelInv' /\ RootsSynced'
  <2>1. step \notin KernelMoves /\ step \notin RootMoves
    BY <1>3
  <2>2. \A i \in U!Images : may[U!Boot(i)] = {disk[U!Boot(i)]}
    <3>1. may[U!Boot("kernel")] = {disk[U!Boot("kernel")]}
      BY <2>1 DEF UpdateInv, KernelInv, Synced
    <3>2. \A r \in U!Roots : may[U!Boot(r)] = {disk[U!Boot(r)]}
      BY <1>3, <2>1 DEF UpdateInv, RootsSynced, Synced
    <3> QED BY <3>1, <3>2 DEF U!Images
  <2>3. KernelInv'
    <3>1. "kernel" \in U!Images
      BY DEF U!Images
    <3>2. /\ may'[U!Boot("kernel")] = {disk'[U!Boot("kernel")]}
          /\ disk'[U!Boot("kernel")] \in U!Good
      BY <1>1, <1>2, <2>2, <3>1
    <3> QED BY <1>3, <3>2 DEF KernelInv, Synced
  <2>4. \A r \in U!Roots : may'[U!Boot(r)] = {disk'[U!Boot(r)]}
    BY <1>2, <2>2 DEF U!Images
  <2>5. RootsSynced'
    BY <1>3, <2>4 DEF RootsSynced, Synced
  <2> QED BY <2>3, <2>5
<1>6. RootInv'
  BY <1>1, <1>2, <1>3, FilesApart DEF UpdateInv, RootInv
<1> QED BY <1>4, <1>5, <1>6 DEF UpdateInv

\* What the steps are that follow the check of an image.
LEMMA ThenSteps ==
  ASSUME NEW i \in U!Images
  PROVE  /\ U!Then(i) \in Steps /\ U!Then(i) \notin KernelMoves \cup RootMoves
         /\ U!Then(i) \notin {<<"sync", "both">>, <<"mount", "">>, <<"copy", "kernel">>}
         /\ \A r \in U!Roots : U!Then(i) # <<"rm", r>>
         /\ i = "ext2" => U!Then(i) \notin SquashfsMoved
<1>1. PICK s : s = U!Then(i)
  OBVIOUS
<1>2. /\ i \in {"ext2", "squashfs", "kernel"} /\ "squashfs" \in U!Images
      /\ "kernel" \in U!Images
  BY DEF U!Images, U!Roots
<1>3. CASE i = "ext2"
  <2>1. s = <<"mv", "squashfs">>
    BY <1>1, <1>3 DEF U!Then
  <2>2. s \in Steps /\ s \notin KernelMoves \cup RootMoves \cup SquashfsMoved
    BY <1>2, <2>1 DEF Steps, KernelMoves, RootMoves, SquashfsMoved
  <2> QED BY <1>1, <2>1, <2>2
<1>4. CASE i = "squashfs"
  <2>1. s = <<"mv", "kernel">>
    BY <1>1, <1>4 DEF U!Then
  <2>2. s \in Steps /\ s \notin KernelMoves \cup RootMoves
    BY <1>2, <2>1 DEF Steps, KernelMoves, RootMoves
  <2>3. /\ s \notin {<<"sync", "both">>, <<"mount", "">>, <<"copy", "kernel">>}
        /\ \A r \in U!Roots : s # <<"rm", r>>
    BY <2>1
  <2> QED BY <1>1, <1>4, <2>2, <2>3, Zenon
<1>5. CASE i = "kernel"
  <2>1. s = <<"both", "">>
    BY <1>1, <1>5 DEF U!Then
  <2>2. s \in Steps /\ s \notin KernelMoves \cup RootMoves
    BY <2>1 DEF Steps, KernelMoves, RootMoves
  <2>3. /\ s \notin {<<"sync", "both">>, <<"mount", "">>, <<"copy", "kernel">>}
        /\ \A r \in U!Roots : s # <<"rm", r>>
    BY <2>1
  <2> QED BY <1>1, <1>5, <2>2, <2>3, Zenon
<1> QED BY <1>2, <1>3, <1>4, <1>5

LEMMA SkipKeepsUpdate == ASSUME UpdateInv, NEW i \in U!Images, U!Skip(i) PROVE UpdateInv'
<1>1. /\ step = <<"mv", i>> /\ step' = U!Then(i) /\ disk[U!Staged(i)] # "new"
      /\ UNCHANGED <<disk, may, hurt>>
  BY DEF U!Skip, U!Whole
<1>2. /\ step \notin KernelMoves \cup RootMoves /\ step # <<"sync", "both">>
      /\ step # <<"copy", "kernel">> /\ (i = "kernel" => step \in SquashfsMoved)
  BY <1>1 DEF KernelMoves, RootMoves, SquashfsMoved
<1>3. UpdateTypes'
  BY <1>1, ThenSteps DEF UpdateInv, UpdateTypes
<1>4. KernelInv' /\ RootsSynced'
  BY <1>1, <1>2, ThenSteps DEF UpdateInv, KernelInv, RootsSynced, Synced
<1>5. RootInv'
  <2>1. step' \in SquashfsMoved => i = "squashfs" \/ step \in SquashfsMoved
    BY <1>1, <1>2, ThenSteps DEF U!Images, U!Roots
  <2>2. /\ step' \notin {<<"sync", "both">>, <<"mount", "">>}
        /\ \A r \in U!Roots : step' # <<"rm", r>>
    BY <1>1, ThenSteps
  <2> QED BY <1>1, <2>1, <2>2 DEF UpdateInv, RootInv
<1> QED BY <1>3, <1>4, <1>5 DEF UpdateInv

LEMMA MoveKeepsUpdate == ASSUME UpdateInv, NEW i \in U!Roots, U!MoveRoot(i) PROVE UpdateInv'
<1>1. /\ step = <<"mv", i>> /\ step' = <<"rm", i>> /\ disk[U!Staged(i)] = "new" /\ UpdateTypes
  BY DEF U!MoveRoot, U!Whole, UpdateInv
<1>2. /\ {step, step'} \cap KernelMoves = {} /\ step \notin RootMoves /\ step' \in RootMoves
      /\ step \notin {<<"sync", "both">>, <<"copy", "kernel">>} /\ step' \in Steps
      /\ step' \notin {<<"sync", "both">>, <<"mount", "">>, <<"copy", "kernel">>}
      /\ \A r \in U!Roots : step' = <<"rm", r>> => r = i
      /\ step' \in SquashfsMoved => i = "squashfs"
  BY <1>1 DEF KernelMoves, RootMoves, SquashfsMoved, Steps, U!Roots
<1>3. CASE UNCHANGED <<disk, may>> /\ hurt' = hurt \cup {"root"}
  <2>1. UpdateTypes'
    BY <1>1, <1>2, <1>3 DEF UpdateTypes
  <2>2. KernelInv' /\ RootsSynced'
    BY <1>2, <1>3, FilesApart DEF UpdateInv, KernelInv, RootsSynced, Synced
  <2>3. RootInv'
    BY <1>3 DEF RootInv
  <2> QED BY <2>1, <2>2, <2>3 DEF UpdateInv
<1>4. CASE /\ U!Write([disk EXCEPT ![U!Boot(i)] = disk[U!Staged(i)], ![U!Staged(i)] = "torn"],
                      {U!Boot(i)})
           /\ UNCHANGED hurt
  <2> DEFINE d == [disk EXCEPT ![U!Boot(i)] = disk[U!Staged(i)], ![U!Staged(i)] = "torn"]
  <2>1. /\ d \in [U!Files -> U!States]
        /\ d[U!Boot(i)] = "new" /\ d[U!Staged(i)] = "torn"
        /\ \A f \in U!Files \ {U!Boot(i), U!Staged(i)} : d[f] = disk[f]
    BY <1>1, FilesApart DEF UpdateTypes
  <2>2. U!Write(d, {U!Boot(i)})
    BY <1>4
  <2> HIDE DEF d
  <2>3. /\ disk' = d /\ may' \in [U!Files -> SUBSET U!States]
        /\ \A f \in U!Files : disk'[f] \in may'[f]
        /\ \A f \in U!Files : d[f] = disk[f] /\ f \notin {U!Boot(i)} => may'[f] = may[f]
    BY <1>1, <2>1, <2>2, Written
  <2>4. \A j \in U!Images \ {i} : /\ disk'[U!Boot(j)] = disk[U!Boot(j)]
                                  /\ may'[U!Boot(j)] = may[U!Boot(j)]
    BY <2>1, <2>3, FilesApart
  <2>5. UpdateTypes'
    BY <1>1, <1>2, <1>4, <2>1, <2>3 DEF UpdateTypes
  <2>6. KernelInv'
    <3>1. "kernel" \in U!Images \ {i}
      BY FilesApart
    <3>2. step \notin KernelMoves /\ step' \notin KernelMoves
      BY <1>2
    <3> QED BY <1>2, <1>4, <2>4, <3>1, <3>2 DEF UpdateInv, KernelInv, Synced
  <2>7. RootsSynced'
    <3>1. U!Other(i) \in U!Images \ {i} /\ U!Other(i) \in U!Roots
      BY FilesApart
    <3>2. may[U!Boot(U!Other(i))] = {disk[U!Boot(U!Other(i))]}
      BY <1>2, <3>1 DEF UpdateInv, RootsSynced, Synced
    <3> QED BY <1>2, <2>4, <3>1, <3>2 DEF RootsSynced, Synced
  <2>8. RootInv'
    <3>1. disk'[U!Boot(i)] = "new" /\ disk'[U!Staged(i)] = "torn"
      BY <2>1, <2>3
    <3>2. \A r \in U!Roots : r # i => disk'[U!Boot(r)] = disk[U!Boot(r)]
      BY <2>4 DEF U!Images
    <3>3. Safe(disk[U!Boot("ext2")], disk[U!Boot("squashfs")])
            => Safe(disk'[U!Boot("ext2")], disk'[U!Boot("squashfs")])
      BY <3>1, <3>2 DEF Safe, U!Roots
    <3>4. \A r \in U!Roots : step' = <<"rm", r>> => disk'[U!Boot(r)] = "new"
      BY <1>2, <3>1
    <3>5. step' \in SquashfsMoved => disk'[U!Staged("squashfs")] # "new"
      BY <1>2, <3>1
    <3>6. step' \notin {<<"sync", "both">>, <<"mount", "">>}
      BY <1>2
    <3> QED BY <1>4, <3>3, <3>4, <3>5, <3>6 DEF UpdateInv, RootInv
  <2> QED BY <2>5, <2>6, <2>7, <2>8 DEF UpdateInv
<1> QED BY <1>3, <1>4 DEF U!MoveRoot

\* Between the start of mv and the end of the copy the kernel is not whole, which is its
\* own affair.
LEMMA KernelKeepsUpdate == ASSUME UpdateInv, U!MoveKernel \/ U!Copied PROVE UpdateInv'
<1>1. UpdateTypes /\ U!Boot("kernel") \in U!Files /\ U!Staged("kernel") \in U!Files
  BY FilesApart DEF UpdateInv
<1>2. CASE U!MoveKernel
  <2> DEFINE d == [disk EXCEPT ![U!Boot("kernel")] = "torn"]
  <2>1. /\ step = <<"mv", "kernel">> /\ step' = <<"copy", "kernel">> /\ UNCHANGED hurt
        /\ disk[U!Staged("kernel")] = "new" /\ U!Write(d, {})
    BY <1>2 DEF U!MoveKernel, U!Whole
  <2>2. /\ d \in [U!Files -> U!States] /\ \A f \in U!Files \ {U!Boot("kernel")} : d[f] = disk[f]
    BY <1>1, FilesApart DEF UpdateTypes
  <2> HIDE DEF d
  <2>3. /\ disk' = d /\ may' \in [U!Files -> SUBSET U!States]
        /\ \A f \in U!Files : disk'[f] \in may'[f]
        /\ \A f \in U!Files : d[f] = disk[f] => may'[f] = may[f]
    BY <1>1, <2>1, <2>2, Written
  <2>4. /\ step' \in Steps \cap KernelMoves /\ step \notin RootMoves /\ step' \notin RootMoves
        /\ step' \notin {<<"sync", "both">>, <<"mount", "">>} \cup SquashfsMoved
        /\ step # <<"sync", "both">> /\ \A r \in U!Roots : step' # <<"rm", r>>
    BY <2>1 DEF Steps, KernelMoves, RootMoves, SquashfsMoved
  <2>5. UpdateTypes'
    BY <1>1, <2>1, <2>2, <2>3, <2>4 DEF UpdateTypes
  <2>6. KernelInv'
    <3>1. U!Staged("kernel") \in U!Files \ {U!Boot("kernel")}
      BY FilesApart
    <3>2. disk'[U!Staged("kernel")] = "new"
      BY <2>1, <2>2, <2>3, <3>1
    <3> QED BY <2>1, <2>4, <3>2 DEF KernelInv
  <2>7. RootsSynced'
    <3>1. \A r \in U!Roots : U!Boot(r) \in U!Files \ {U!Boot("kernel")}
      BY FilesApart
    <3>2. \A r \in U!Roots : /\ disk'[U!Boot(r)] = disk[U!Boot(r)]
                             /\ may'[U!Boot(r)] = may[U!Boot(r)]
      BY <2>2, <2>3, <3>1
    <3>3. \A r \in U!Roots : may[U!Boot(r)] = {disk[U!Boot(r)]}
      BY <2>4 DEF UpdateInv, RootsSynced, Synced
    <3> QED BY <2>4, <3>2, <3>3 DEF RootsSynced, Synced
  <2>8. RootInv'
    <3>1. \A r \in U!Roots : U!Boot(r) \in U!Files \ {U!Boot("kernel")}
      BY FilesApart
    <3>2. /\ disk'[U!Boot("ext2")] = disk[U!Boot("ext2")]
          /\ disk'[U!Boot("squashfs")] = disk[U!Boot("squashfs")]
      BY <2>2, <2>3, <3>1 DEF U!Roots
    <3> QED BY <2>1, <2>4, <3>2 DEF UpdateInv, RootInv
  <2> QED BY <2>5, <2>6, <2>7, <2>8 DEF UpdateInv
<1>3. CASE U!Copied
  <2>1. step = <<"copy", "kernel">> /\ step' = <<"sync", "kernel">>
    BY <1>3 DEF U!Copied
  <2>2. /\ step' \in Steps \cap KernelMoves /\ step \notin RootMoves /\ step' \notin RootMoves
        /\ step' \notin {<<"sync", "both">>, <<"mount", "">>} \cup SquashfsMoved
        /\ step # <<"sync", "both">> /\ step' # <<"copy", "kernel">>
        /\ \A r \in U!Roots : step' # <<"rm", r>>
    <3>1. step' \in Steps \cap KernelMoves
      BY <2>1 DEF Steps, KernelMoves
    <3>2. step \notin RootMoves /\ step' \notin RootMoves
      BY <2>1 DEF RootMoves, U!Roots
    <3>3. step' \notin SquashfsMoved
      BY <2>1 DEF SquashfsMoved
    <3> QED BY <2>1, <3>1, <3>2, <3>3
  <2>3. CASE UNCHANGED <<disk, may>> /\ hurt' = hurt \cup {"kernel"}
    <3>1. UpdateTypes' /\ KernelInv' /\ RootsSynced'
      BY <1>1, <2>2, <2>3 DEF UpdateInv, UpdateTypes, KernelInv, RootsSynced, Synced
    <3>2. RootInv'
      BY <2>2, <2>3 DEF UpdateInv, RootInv
    <3> QED BY <3>1, <3>2 DEF UpdateInv
  <2>4. CASE /\ U!Write([disk EXCEPT ![U!Boot("kernel")] = disk[U!Staged("kernel")],
                                     ![U!Staged("kernel")] = "torn"], {})
             /\ UNCHANGED hurt
    <3> DEFINE d == [disk EXCEPT ![U!Boot("kernel")] = disk[U!Staged("kernel")],
                                 ![U!Staged("kernel")] = "torn"]
    <3>1. disk[U!Staged("kernel")] = "new"
      BY <2>1 DEF UpdateInv, KernelInv
    <3>2. /\ d \in [U!Files -> U!States] /\ d[U!Boot("kernel")] = "new"
          /\ \A f \in U!Files \ {U!Boot("kernel"), U!Staged("kernel")} : d[f] = disk[f]
      BY <1>1, <3>1, FilesApart DEF UpdateTypes
    <3>3. U!Write(d, {})
      BY <2>4
    <3> HIDE DEF d
    <3>4. /\ disk' = d /\ may' \in [U!Files -> SUBSET U!States]
          /\ \A f \in U!Files : disk'[f] \in may'[f]
          /\ \A f \in U!Files : d[f] = disk[f] => may'[f] = may[f]
      BY <1>1, <3>2, <3>3, Written
    <3>5. UpdateTypes'
      BY <1>1, <2>2, <2>4, <3>2, <3>4 DEF UpdateTypes
    <3>6. KernelInv'
      <4>1. disk'[U!Boot("kernel")] \in U!Good
        BY <3>2, <3>4 DEF U!Good
      <4> QED BY <2>2, <4>1 DEF KernelInv
    <3>7. RootsSynced'
      <4>1. \A r \in U!Roots : U!Boot(r) \in U!Files \ {U!Boot("kernel"), U!Staged("kernel")}
        BY FilesApart
      <4>2. \A r \in U!Roots : /\ disk'[U!Boot(r)] = disk[U!Boot(r)]
                               /\ may'[U!Boot(r)] = may[U!Boot(r)]
        BY <3>2, <3>4, <4>1
      <4>3. \A r \in U!Roots : may[U!Boot(r)] = {disk[U!Boot(r)]}
        BY <2>2 DEF UpdateInv, RootsSynced, Synced
      <4> QED BY <2>2, <4>2, <4>3 DEF RootsSynced, Synced
    <3>8. RootInv'
      <4>1. \A r \in U!Roots : U!Boot(r) \in U!Files \ {U!Boot("kernel"), U!Staged("kernel")}
        BY FilesApart
      <4>2. /\ disk'[U!Boot("ext2")] = disk[U!Boot("ext2")]
            /\ disk'[U!Boot("squashfs")] = disk[U!Boot("squashfs")]
        BY <3>2, <3>4, <4>1 DEF U!Roots
      <4> QED BY <2>2, <2>4, <4>2 DEF UpdateInv, RootInv
    <3> QED BY <3>5, <3>6, <3>7, <3>8 DEF UpdateInv
  <2> QED BY <1>3, <2>3, <2>4 DEF U!Copied
<1> QED BY <1>2, <1>3

\* A root image that is gone leaves the others as they are.
LEMMA RootGone ==
  ASSUME UpdateTypes, NEW r \in U!Roots,
         U!Write([disk EXCEPT ![U!Boot(r)] = "none"], {U!Boot(r)})
  PROVE  /\ disk' \in [U!Files -> U!States] /\ may' \in [U!Files -> SUBSET U!States]
         /\ \A f \in U!Files : disk'[f] \in may'[f]
         /\ disk'[U!Boot(r)] = "none"
         /\ \A f \in U!Files \ {U!Boot(r)} : disk'[f] = disk[f] /\ may'[f] = may[f]
<1> DEFINE d == [disk EXCEPT ![U!Boot(r)] = "none"]
<1>1. /\ d \in [U!Files -> U!States] /\ d[U!Boot(r)] = "none"
      /\ \A f \in U!Files \ {U!Boot(r)} : d[f] = disk[f]
  BY FilesApart DEF UpdateTypes
<1>2. U!Write(d, {U!Boot(r)})
  OBVIOUS
<1> HIDE DEF d
<1> QED BY <1>1, <1>2, Written

LEMMA RemoveKeepsUpdate ==
  ASSUME UpdateInv, NEW i \in U!Roots, U!RemoveOther(i) PROVE UpdateInv'
<1>1. /\ step = <<"rm", i>> /\ step' = <<"sync", i>> /\ UNCHANGED hurt /\ UpdateTypes
  BY DEF U!RemoveOther, UpdateInv
<1>2. /\ {step, step'} \cap KernelMoves = {} /\ step' \in RootMoves /\ step' \in Steps
      /\ step # <<"copy", "kernel">>
      /\ step' \notin {<<"sync", "both">>, <<"mount", "">>, <<"copy", "kernel">>}
      /\ \A r \in U!Roots : step' # <<"rm", r>>
      /\ step' \in SquashfsMoved => i = "squashfs" /\ step \in SquashfsMoved
  BY <1>1 DEF KernelMoves, RootMoves, SquashfsMoved, Steps, U!Roots
<1>3. CASE UNCHANGED <<disk, may>>
  <2>1. UpdateTypes' /\ KernelInv' /\ RootsSynced'
    BY <1>1, <1>2, <1>3 DEF UpdateInv, UpdateTypes, KernelInv, RootsSynced, Synced
  <2>2. RootInv'
    BY <1>1, <1>2, <1>3 DEF UpdateInv, RootInv
  <2> QED BY <2>1, <2>2 DEF UpdateInv
<1>4. CASE U!Write([disk EXCEPT ![U!Boot(U!Other(i))] = "none"], {U!Boot(U!Other(i))})
  <2>1. /\ disk' \in [U!Files -> U!States] /\ may' \in [U!Files -> SUBSET U!States]
        /\ \A f \in U!Files : disk'[f] \in may'[f]
        /\ disk'[U!Boot(U!Other(i))] = "none"
        /\ \A f \in U!Files \ {U!Boot(U!Other(i))} : disk'[f] = disk[f] /\ may'[f] = may[f]
    BY <1>1, <1>4, RootGone, FilesApart
  <2>2. UpdateTypes'
    BY <1>1, <1>2, <2>1 DEF UpdateTypes
  <2>3. KernelInv' /\ RootsSynced'
    BY <1>1, <1>2, <2>1, FilesApart DEF UpdateInv, KernelInv, RootsSynced, Synced
  <2>4. "root" \notin hurt => disk[U!Boot(i)] = "new"
    BY <1>1 DEF UpdateInv, RootInv
  <2>5. RootInv'
    BY <1>1, <1>2, <2>1, <2>4, FilesApart DEF RootInv, Safe
  <2> QED BY <2>2, <2>3, <2>5 DEF UpdateInv
<1> QED BY <1>3, <1>4 DEF U!RemoveOther

LEMMA SyncKeepsUpdate ==
  ASSUME UpdateInv, NEW i \in U!Images \cup {"both"}, U!Sync(i) PROVE UpdateInv'
<1>1. /\ step = <<"sync", i>> /\ may' = [f \in U!Files |-> {disk[f]}] /\ disk' = disk
      /\ step' = CASE i = "kernel" -> <<"unzip", "">> [] i = "both" -> <<"mount", "">>
                   [] OTHER -> U!Then(i)
      /\ hurt' = IF U!Healed(i) THEN hurt \ {"root"} ELSE hurt
      /\ UpdateTypes
  BY DEF U!Sync, U!Start, UpdateInv
<1>2. /\ may' \in [U!Files -> SUBSET U!States] /\ \A f \in U!Files : may'[f] = {disk'[f]}
  BY <1>1 DEF UpdateTypes
<1>3. /\ step' \in Steps /\ step' \notin KernelMoves \cup RootMoves
      /\ step' \notin {<<"sync", "both">>, <<"copy", "kernel">>}
      /\ \A r \in U!Roots : step' # <<"rm", r>>
      /\ step' = <<"mount", "">> => i = "both"
      /\ step' \in SquashfsMoved => i = "squashfs"
  <2>1. CASE i \in {"kernel", "both"}
    BY <1>1, <2>1 DEF Steps, KernelMoves, RootMoves, SquashfsMoved, U!Images
  <2>2. CASE i \in U!Roots
    <3>1. step' = U!Then(i) /\ i \in U!Images
      BY <1>1, <2>2 DEF U!Roots, U!Images
    <3> QED BY <2>2, <3>1, ThenSteps DEF U!Roots
  <2> QED BY <2>1, <2>2, FilesApart
<1>4. /\ step # <<"copy", "kernel">>
      /\ i = "both" => step = <<"sync", "both">>
      /\ i = "squashfs" => step \in SquashfsMoved
  BY <1>1 DEF SquashfsMoved
<1>5. UpdateTypes'
  BY <1>1, <1>2, <1>3 DEF UpdateTypes
<1>6. KernelInv'
  BY <1>1, <1>2, <1>3, <1>4, FilesApart DEF UpdateInv, KernelInv, Synced
<1>7. RootsSynced'
  BY <1>2, <1>3, FilesApart DEF RootsSynced, Synced
<1>8. RootInv'
  <2>1. CASE ~U!Healed(i)
    BY <1>1, <1>3, <1>4, <2>1 DEF UpdateInv, RootInv
  <2>2. CASE U!Healed(i)
    <3>1. /\ i \in U!Roots /\ disk[U!Boot(i)] = "new"
          /\ \A r \in U!Roots : disk[U!Boot(r)] # "none" => r = i
      BY <2>2 DEF U!Healed, U!Present
    <3> QED BY <1>1, <1>3, <3>1, FilesApart DEF RootInv, Safe
  <2> QED BY <2>1, <2>2
<1> QED BY <1>5, <1>6, <1>7, <1>8 DEF UpdateInv

\* Of two root images the squashfs image goes, and the other one is whole.
LEMMA ResolveKeepsUpdate == ASSUME UpdateInv, U!ResolveBoth \/ U!OneIsLeft PROVE UpdateInv'
<1>1. step = <<"both", "">> /\ UpdateTypes
  BY DEF U!ResolveBoth, U!OneIsLeft, UpdateInv
<1>2. /\ step \notin KernelMoves \cup RootMoves /\ step \in SquashfsMoved
      /\ step \notin {<<"sync", "both">>, <<"copy", "kernel">>}
  BY <1>1 DEF KernelMoves, RootMoves, SquashfsMoved
<1>3. CASE U!OneIsLeft
  <2>1. step' = <<"mount", "">> /\ UNCHANGED <<disk, may, hurt>> /\ U!Present # U!Roots
    BY <1>3 DEF U!OneIsLeft
  <2>2. /\ step' \in Steps /\ step' \notin KernelMoves \cup RootMoves \cup SquashfsMoved
        /\ step' \notin {<<"sync", "both">>, <<"copy", "kernel">>}
        /\ \A r \in U!Roots : step' # <<"rm", r>>
    BY <2>1 DEF Steps, KernelMoves, RootMoves, SquashfsMoved
  <2>3. disk[U!Boot("ext2")] = "none" \/ disk[U!Boot("squashfs")] = "none"
    <3>1. SUFFICES ASSUME disk[U!Boot("ext2")] # "none", disk[U!Boot("squashfs")] # "none"
                   PROVE  U!Present = U!Roots
      BY <2>1
    <3>2. \A r \in U!Roots : disk[U!Boot(r)] # "none"
      BY <3>1 DEF U!Roots
    <3> QED BY <3>2 DEF U!Present
  <2>4. UpdateTypes' /\ KernelInv' /\ RootsSynced'
    BY <1>1, <1>2, <2>1, <2>2 DEF UpdateInv, UpdateTypes, KernelInv, RootsSynced, Synced
  <2>5. RootInv'
    BY <2>1, <2>2, <2>3 DEF UpdateInv, RootInv
  <2> QED BY <2>4, <2>5 DEF UpdateInv
<1>4. CASE U!ResolveBoth
  <2>1. step' = <<"sync", "both">> /\ U!Present = U!Roots
    BY <1>4 DEF U!ResolveBoth
  <2>2. /\ step' \in Steps /\ step' \notin KernelMoves \cup RootMoves \cup SquashfsMoved
        /\ step' \notin {<<"mount", "">>, <<"copy", "kernel">>}
        /\ \A r \in U!Roots : step' # <<"rm", r>>
    BY <2>1 DEF Steps, KernelMoves, RootMoves, SquashfsMoved, U!Roots
  <2>3. CASE UNCHANGED <<disk, may>> /\ hurt' = hurt \cup {"root"}
    <3>1. UpdateTypes' /\ KernelInv' /\ RootsSynced'
      BY <1>1, <1>2, <2>2, <2>3 DEF UpdateInv, UpdateTypes, KernelInv, RootsSynced, Synced
    <3>2. RootInv'
      BY <2>3 DEF RootInv
    <3> QED BY <3>1, <3>2 DEF UpdateInv
  <2>4. CASE /\ U!Write([disk EXCEPT ![U!Boot(U!Removed)] = "none"], {U!Boot(U!Removed)})
             /\ UNCHANGED hurt
    <3>1. U!Removed \in U!Roots
      BY FilesApart DEF U!Removed
    <3>2. /\ disk' \in [U!Files -> U!States] /\ may' \in [U!Files -> SUBSET U!States]
          /\ \A f \in U!Files : disk'[f] \in may'[f]
          /\ disk'[U!Boot(U!Removed)] = "none"
          /\ \A f \in U!Files \ {U!Boot(U!Removed)} : disk'[f] = disk[f] /\ may'[f] = may[f]
      BY <1>1, <2>4, <3>1, RootGone
    <3>3. UpdateTypes'
      BY <1>1, <2>2, <2>4, <3>2 DEF UpdateTypes
    <3>4. KernelInv'
      <4>1. U!Boot("kernel") \in U!Files \ {U!Boot(U!Removed)}
        BY <3>1, FilesApart
      <4>2. step \notin KernelMoves /\ step' \notin KernelMoves
        BY <1>2, <2>2
      <4> QED BY <1>2, <2>2, <2>4, <3>2, <4>1, <4>2 DEF UpdateInv, KernelInv, Synced
    <3>5. RootsSynced'
      <4>1. \A r \in U!Roots : may[U!Boot(r)] = {disk[U!Boot(r)]}
        BY <1>2 DEF UpdateInv, RootsSynced, Synced
      <4>2. \A r \in U!Roots : r # U!Removed => may'[U!Boot(r)] = {disk'[U!Boot(r)]}
        BY <3>1, <3>2, <4>1, FilesApart
      <4>3. \A r \in U!Roots : disk'[U!Boot(r)] # "none" => may'[U!Boot(r)] = {disk'[U!Boot(r)]}
        BY <3>2, <4>2
      <4> QED BY <2>1, <2>2, <4>3 DEF RootsSynced, Synced
    <3>6. RootInv'
      <4>1. SUFFICES ASSUME "root" \notin hurt PROVE RootInv'
        BY <2>4 DEF RootInv
      <4>2. disk[U!Boot("ext2")] # "none"
        BY <2>1, FilesApart DEF U!Present
      <4>3. /\ disk[U!Boot("ext2")] \in {"old", "new"} /\ U!Removed = "squashfs"
        BY <1>2, <4>1, <4>2 DEF UpdateInv, RootInv, Safe, U!Removed
      <4> QED BY <2>2, <2>1, <3>2, <4>3, FilesApart DEF RootInv, Safe
    <3> QED BY <3>3, <3>4, <3>5, <3>6 DEF UpdateInv
  <2> QED BY <1>4, <2>3, <2>4 DEF U!ResolveBoth
<1> QED BY <1>3, <1>4

\* Each file is left as one of its states since the last sync.
LEMMA PowerLossFiles ==
  ASSUME UpdateTypes, U!PowerLoss
  PROVE  /\ disk' \in [U!Files -> U!States] /\ may' = [f \in U!Files |-> {disk'[f]}]
         /\ \A f \in U!Files : disk'[f] \in may[f]
<1>1. PICK update \in U!Outcomes("update"), boot \in U!Outcomes("boot") :
        disk' = [f \in U!Files |-> IF f \in DOMAIN update THEN update[f]
                                   ELSE IF f \in DOMAIN boot THEN boot[f] ELSE disk[f]]
  BY DEF U!PowerLoss
<1>2. /\ \A f \in DOMAIN update : update[f] \in may[f]
      /\ \A f \in DOMAIN boot : boot[f] \in may[f]
  BY DEF U!Outcomes
<1>3. \A f \in U!Files : disk[f] \in may[f] /\ may[f] \subseteq U!States
  BY DEF UpdateTypes
<1>4. may' = [f \in U!Files |-> {disk'[f]}]
  BY DEF U!PowerLoss
<1> QED BY <1>1, <1>2, <1>3, <1>4

LEMMA LossKeepsUpdate == ASSUME UpdateInv, U!PowerLoss PROVE UpdateInv'
<1>1. /\ disk' \in [U!Files -> U!States] /\ may' = [f \in U!Files |-> {disk'[f]}]
      /\ \A f \in U!Files : disk'[f] \in may[f]
  BY PowerLossFiles DEF UpdateInv
<1>2. step' = <<"unzip", "">> /\ hurt' = hurt \cup U!Risked
  BY DEF U!PowerLoss, U!Start
<1>3. /\ step' \in Steps /\ step' \notin KernelMoves \cup RootMoves \cup SquashfsMoved
      /\ step' \notin {<<"sync", "both">>, <<"mount", "">>, <<"copy", "kernel">>}
      /\ \A r \in U!Roots : step' # <<"rm", r>>
  BY <1>2 DEF Steps, KernelMoves, RootMoves, SquashfsMoved
<1>4. UpdateTypes'
  BY <1>1, <1>2, <1>3 DEF UpdateInv, UpdateTypes, U!Risked
<1>5. KernelInv'
  <2>1. CASE step \in KernelMoves
    <3>1. "kernel" \in hurt'
      BY <1>2, <2>1 DEF U!Risked, KernelMoves
    <3> QED BY <1>1, <1>3, <3>1, FilesApart DEF KernelInv, Synced
  <2>2. CASE step \notin KernelMoves
    <3>1. disk'[U!Boot("kernel")] = disk[U!Boot("kernel")] /\ step # <<"copy", "kernel">>
      BY <1>1, <2>2, FilesApart DEF UpdateInv, KernelInv, Synced, KernelMoves
    <3> QED BY <1>1, <1>2, <1>3, <3>1, FilesApart DEF UpdateInv, KernelInv, Synced
  <2> QED BY <2>1, <2>2
<1>6. RootsSynced'
  BY <1>1, <1>3, FilesApart DEF RootsSynced, Synced
<1>7. RootInv'
  <2>1. SUFFICES ASSUME "root" \notin hurt, U!Unsynced = {} \/ U!Spared
                 PROVE  Safe(disk'[U!Boot("ext2")], disk'[U!Boot("squashfs")])
    BY <1>2, <1>3 DEF RootInv, U!Risked
  <2>2. Safe(disk[U!Boot("ext2")], disk[U!Boot("squashfs")])
    BY <2>1 DEF UpdateInv, RootInv
  <2>3. CASE U!Spared
    <3>1. /\ disk[U!Boot("ext2")] \in {"old", "new"}
          /\ may[U!Boot("ext2")] = {disk[U!Boot("ext2")]}
      BY <2>3, FilesApart DEF U!Spared, UpdateInv, RootsSynced, Synced
    <3> QED BY <1>1, <3>1, FilesApart DEF Safe
  <2>4. CASE U!Unsynced = {}
    <3>1. step \notin RootMoves
      <4>1. SUFFICES ASSUME step \in RootMoves PROVE U!Unsynced # {}
        BY <2>4
      <4>2. PICK w \in {"rm", "sync"}, r \in U!Roots : step = <<w, r>>
        BY <4>1 DEF RootMoves
      <4>3. r \in U!Unsynced
        BY <4>2 DEF U!Unsynced
      <4> QED BY <4>3
    <3>2. CASE step = <<"sync", "both">>
      <4>1. disk[U!Boot("ext2")] \in {"old", "new"}
        BY <2>1, <2>2, <3>2 DEF UpdateInv, RootInv, Safe
      <4>2. may[U!Boot("ext2")] = {disk[U!Boot("ext2")]}
        BY <3>1, <4>1, FilesApart DEF UpdateInv, RootsSynced, Synced
      <4> QED BY <1>1, <4>1, <4>2, FilesApart DEF Safe
    <3>3. CASE step # <<"sync", "both">>
      <4>1. \A r \in U!Roots : may[U!Boot(r)] = {disk[U!Boot(r)]}
        BY <3>1, <3>3 DEF UpdateInv, RootsSynced, Synced
      <4>2. \A r \in U!Roots : disk'[U!Boot(r)] = disk[U!Boot(r)]
        BY <1>1, <4>1, FilesApart
      <4> QED BY <2>2, <4>2, FilesApart
    <3> QED BY <3>2, <3>3
  <2> QED BY <2>1, <2>3, <2>4
<1> QED BY <1>4, <1>5, <1>6, <1>7 DEF UpdateInv

LEMMA StageKeepsUpdate == ASSUME UpdateInv, U!Stage PROVE UpdateInv'
<1>1. PICK update \in U!Updates :
        disk' = [f \in U!Files |-> IF f[1] = "update" THEN update[f[2]] ELSE disk[f]]
  BY DEF U!Stage
<1>2. /\ step = <<"mount", "">> /\ step' = <<"unzip", "">> /\ UNCHANGED hurt
      /\ may' = [f \in U!Files |-> {disk'[f]}]
  BY DEF U!Stage, U!Start
<1>3. \A f \in U!Files : f[1] = "update" => update[f[2]] \in U!States
  BY DEF U!Files, U!Zip, U!Boot, U!Staged, U!Updates, U!States
<1>4. disk' \in [U!Files -> U!States] /\ \A f \in U!Files : may'[f] = {disk'[f]}
  BY <1>1, <1>2, <1>3 DEF UpdateInv, UpdateTypes
<1>5. \A i \in U!Images : disk'[U!Boot(i)] = disk[U!Boot(i)]
  BY <1>1, FilesApart
<1>6. /\ step' \in Steps /\ step' \notin KernelMoves \cup RootMoves \cup SquashfsMoved
      /\ step' \notin {<<"sync", "both">>, <<"mount", "">>, <<"copy", "kernel">>}
      /\ \A r \in U!Roots : step' # <<"rm", r>>
      /\ step # <<"copy", "kernel">>
  BY <1>2 DEF Steps, KernelMoves, RootMoves, SquashfsMoved
<1>7. UpdateTypes'
  BY <1>2, <1>4, <1>6 DEF UpdateInv, UpdateTypes
<1>8. KernelInv' /\ RootsSynced'
  BY <1>2, <1>4, <1>5, <1>6, FilesApart DEF UpdateInv, KernelInv, RootsSynced, Synced
<1>9. RootInv'
  BY <1>2, <1>5, <1>6, FilesApart DEF UpdateInv, RootInv
<1> QED BY <1>7, <1>8, <1>9 DEF UpdateInv

LEMMA UpdateStep == UpdateInv /\ [U!Next]_updateVars => UpdateInv'
<1> SUFFICES ASSUME UpdateInv, [U!Next]_updateVars PROVE UpdateInv'
  OBVIOUS
<1>1. CASE UNCHANGED updateVars
  BY <1>1 DEF updateVars, UpdateInv, UpdateTypes, KernelInv, RootsSynced, RootInv, Synced
<1>2. ASSUME NEW i \in U!Images, U!Skip(i) PROVE UpdateInv'
  BY <1>2, SkipKeepsUpdate
<1>3. ASSUME NEW i \in U!Roots, U!MoveRoot(i) \/ U!RemoveOther(i) PROVE UpdateInv'
  BY <1>3, MoveKeepsUpdate, RemoveKeepsUpdate
<1>4. ASSUME NEW i \in U!Images \cup {"both"}, U!Sync(i) PROVE UpdateInv'
  BY <1>4, SyncKeepsUpdate
<1> QED
  BY <1>1, <1>2, <1>3, <1>4, UnzipKeepsUpdate, KernelKeepsUpdate, ResolveKeepsUpdate,
     LossKeepsUpdate, StageKeepsUpdate DEF U!Next

LEMMA UpdateImplied == UpdateInv => U!AlwaysBoots
<1> SUFFICES ASSUME UpdateInv PROVE U!AlwaysBoots
  OBVIOUS
<1>1. "kernel" \in hurt \/ step = <<"copy", "kernel">> \/ disk[U!Boot("kernel")] \in U!Good
  BY DEF UpdateInv, KernelInv
<1>2. ASSUME "root" \notin hurt
      PROVE  /\ \E r \in U!Roots : disk[U!Boot(r)] \in U!Good
             /\ step = <<"mount", "">> =>
                  \E r \in U!Roots : U!Present = {r} /\ disk[U!Boot(r)] \in U!Good
  <2>1. Safe(disk[U!Boot("ext2")], disk[U!Boot("squashfs")])
    BY <1>2 DEF UpdateInv, RootInv
  <2>2. step = <<"mount", "">> => disk[U!Boot("ext2")] = "none" \/ disk[U!Boot("squashfs")] = "none"
    BY <1>2 DEF UpdateInv, RootInv
  <2>3. CASE disk[U!Boot("ext2")] = "none"
    <3>1. U!Present = {"squashfs"} /\ disk[U!Boot("squashfs")] \in U!Good
      BY <2>1, <2>3, FilesApart DEF U!Present, Safe
    <3> QED BY <3>1, FilesApart
  <2>4. CASE disk[U!Boot("ext2")] # "none"
    <3>1. disk[U!Boot("ext2")] \in U!Good
      BY <2>1, <2>4, FilesApart DEF Safe
    <3>2. ASSUME step = <<"mount", "">> PROVE U!Present = {"ext2"}
      <4>1. \A r \in U!Roots : disk[U!Boot(r)] # "none" <=> r = "ext2"
        BY <2>2, <2>4, <3>2 DEF U!Roots
      <4> QED BY <4>1, FilesApart DEF U!Present
    <3> QED BY <3>1, <3>2, FilesApart
  <2> QED BY <2>3, <2>4
<1> QED BY <1>1, <1>2 DEF U!AlwaysBoots

\* What may take a new image back.
TakenBack ==
  \/ U!PowerLoss /\ U!Unsynced # {}
  \/ \E r \in U!Roots : U!RemoveOther(r) /\ disk[U!Boot(r)] # "new"
  \/ U!ResolveBoth /\ (disk[U!Boot("ext2")] # "new" \/ disk[U!Staged("squashfs")] = "new")

LEMMA NewImageStays ==
  UpdateInv /\ [U!Next]_updateVars =>
    \/ (\E r \in U!Roots : disk[U!Boot(r)] = "new") => \E r \in U!Roots : disk'[U!Boot(r)] = "new"
    \/ TakenBack
<1> SUFFICES ASSUME UpdateInv, [U!Next]_updateVars, ~TakenBack,
                    NEW q \in U!Roots, disk[U!Boot(q)] = "new"
             PROVE  \E r \in U!Roots : disk'[U!Boot(r)] = "new"
  OBVIOUS
<1>1. UpdateTypes
  BY DEF UpdateInv
<1>2. CASE U!Unzip
  <2>1. CASE UNCHANGED disk
    BY <2>1
  <2>2. ASSUME NEW got \in [U!Images -> {"none", "torn", "new"}], NEW unzipped,
               unzipped = {U!Staged(i) : i \in {j \in U!Images : got[j] # "none"}},
               U!Write([f \in U!Files |-> IF f = U!Zip THEN "torn"
                                          ELSE IF f \in unzipped THEN got[f[2]] ELSE disk[f]],
                       unzipped)
        PROVE  disk'[U!Boot(q)] = "new"
    <3>1. U!Boot(q) \in U!Files /\ U!Boot(q) # U!Zip /\ U!Boot(q) \notin unzipped
      BY <2>2, FilesApart
    <3> QED BY <2>2, <3>1 DEF U!Write
  <2> QED BY <1>2, <2>1, <2>2 DEF U!Unzip
<1>3. ASSUME NEW i \in U!Images, U!Skip(i) PROVE disk'[U!Boot(q)] = "new"
  BY <1>3 DEF U!Skip
<1>4. ASSUME NEW i \in U!Roots, U!MoveRoot(i) PROVE disk'[U!Boot(q)] = "new"
  BY <1>1, <1>4, FilesApart DEF U!MoveRoot, U!Whole, U!Write, UpdateTypes
<1>5. CASE U!MoveKernel \/ U!Copied
  BY <1>1, <1>5, FilesApart DEF U!MoveKernel, U!Copied, U!Write, UpdateTypes
<1>6. ASSUME NEW i \in U!Roots, U!RemoveOther(i) PROVE disk'[U!Boot(i)] = "new"
  <2>1. disk[U!Boot(i)] = "new"
    BY <1>6 DEF TakenBack
  <2> QED BY <1>1, <1>6, <2>1, FilesApart DEF U!RemoveOther, U!Write, UpdateTypes
<1>7. ASSUME NEW i \in U!Images \cup {"both"}, U!Sync(i) PROVE disk'[U!Boot(q)] = "new"
  BY <1>7 DEF U!Sync
<1>8. CASE U!ResolveBoth
  <2>1. disk[U!Boot("ext2")] = "new" /\ U!Removed = "squashfs"
    BY <1>8 DEF TakenBack, U!Removed
  <2>2. U!Boot("ext2") \in U!Files /\ U!Boot("ext2") # U!Boot("squashfs")
    BY DEF U!Boot, U!Files, U!Images, U!Roots
  <2>3. disk' = disk \/ disk' = [disk EXCEPT ![U!Boot("squashfs")] = "none"]
    BY <1>8, <2>1 DEF U!ResolveBoth, U!Write
  <2>4. disk'[U!Boot("ext2")] = "new"
    BY <1>1, <2>1, <2>2, <2>3 DEF UpdateTypes
  <2> QED BY <2>4, FilesApart
<1>9. CASE U!PowerLoss
  <2>1. step \notin RootMoves
    <3>1. SUFFICES ASSUME step \in RootMoves PROVE U!Unsynced # {}
      BY <1>9 DEF TakenBack
    <3>2. PICK w \in {"rm", "sync"}, r \in U!Roots : step = <<w, r>>
      BY <3>1 DEF RootMoves
    <3>3. r \in U!Unsynced
      BY <3>2 DEF U!Unsynced
    <3> QED BY <3>3
  <2>2. may[U!Boot(q)] = {"new"}
    BY <2>1 DEF UpdateInv, RootsSynced, Synced
  <2>3. disk'[U!Boot(q)] \in may[U!Boot(q)]
    BY <1>1, <1>9, PowerLossFiles, FilesApart
  <2> QED BY <2>2, <2>3
<1>10. CASE U!Stage
  <2>1. PICK update \in U!Updates :
          disk' = [f \in U!Files |-> IF f[1] = "update" THEN update[f[2]] ELSE disk[f]]
    BY <1>10 DEF U!Stage
  <2> QED BY <2>1, FilesApart
<1>11. CASE U!OneIsLeft \/ UNCHANGED updateVars
  BY <1>11 DEF U!OneIsLeft, updateVars
<1> QED
  BY <1>2, <1>3, <1>4, <1>5, <1>6, <1>7, <1>8, <1>9, <1>10, <1>11 DEF U!Next

-----------------------------------------------------------------------------
(* The end of the daemon *)

\* main goes on to drain and drop only when the signal's task is through, unless
\* the server never started.
ToldWhenOver ==
  main \in {"draining", "dropping", "exited", "aborted"} /\ ~unserved
    => saver = "over"

EndInv == E!TypeOK /\ ToldWhenOver

LEMMA InitEndInv == E!Init => EndInv
<1> SUFFICES ASSUME E!Init PROVE EndInv
  OBVIOUS
<1>1. flag \in BOOLEAN /\ unserved \in BOOLEAN
  BY Zenon DEF E!Init
<1>2. /\ main = "binding" /\ saver = "waiting" /\ requests = 0 /\ tasks = E!Tasks
      /\ at \in [E!Threads -> {"top", "ended"}] /\ unseen = {}
      /\ device \in {"armed", "off"} /\ camera = "up"
  BY DEF E!Init
<1>3. E!TypeOK
  BY <1>1, <1>2, EndConstants DEF E!TypeOK
<1> QED BY <1>2, <1>3 DEF EndInv, ToldWhenOver

\* What the blocking threads change is not about main or the signal's task.
LEMMA ThreadKeepsEnd ==
  ASSUME EndInv, NEW t \in E!Threads, E!ThreadTurn(t) PROVE EndInv'
<1>1. \E u \in E!Threads, to \in {"top", "wait", "sending", "ended"} :
        at' = [at EXCEPT ![u] = to]
  BY DEF E!ThreadTurn, E!Top, E!VideoTurn, E!TimelapseTurn, E!LumaTurn,
         E!DetectionTurn, E!SolveTurn, E!Changed, E!Goes, E!Threads, E!Receivers
<1>2. UNCHANGED <<flag, main, saver, unserved, requests, tasks, device, camera>>
  BY DEF E!ThreadTurn, E!Top, E!VideoTurn, E!TimelapseTurn, E!LumaTurn,
         E!DetectionTurn, E!SolveTurn, E!Changed, E!Goes, E!env
<1>3. unseen' \subseteq E!Receivers
  BY DEF EndInv, E!TypeOK, E!ThreadTurn, E!Top, E!VideoTurn, E!TimelapseTurn,
         E!LumaTurn, E!DetectionTurn, E!SolveTurn, E!Changed
<1> QED BY <1>1, <1>2, <1>3 DEF EndInv, ToldWhenOver, E!TypeOK

LEMMA MainKeepsEnd == ASSUME EndInv, E!MainNext PROVE EndInv'
<1>1. CASE E!Bind
  <2>1. \/ main' = "serving" /\ unserved' = unserved
        \/ main' = "dropping" /\ unserved' = TRUE
    BY <1>1, Zenon DEF E!Bind, E!MainGoes
  <2>2. UNCHANGED <<flag, saver, requests, tasks, at, unseen, device, camera>>
    BY <1>1 DEF E!Bind, E!MainGoes, E!env
  <2>3. unserved' \in BOOLEAN
    BY <2>1, Zenon DEF EndInv, E!TypeOK
  <2> QED BY <2>1, <2>2, <2>3 DEF EndInv, ToldWhenOver, E!TypeOK
<1>2. CASE E!Drain
  BY <1>2 DEF E!Drain, E!MainGoes, E!Told, E!env, EndInv, ToldWhenOver, E!TypeOK
<1>3. CASE E!Return \/ E!Exit \/ E!TimerPanics
  <2>1. /\ main \in {"draining", "dropping"}
        /\ main' \in {"dropping", "exited", "aborted"}
        /\ UNCHANGED <<flag, saver, unserved, requests, tasks, at, unseen, device,
                       camera>>
    BY <1>3 DEF E!Return, E!Exit, E!TimerPanics, E!MainGoes, E!env
  <2> QED BY <2>1 DEF EndInv, ToldWhenOver, E!TypeOK
<1>4. CASE E!DropSaver
  BY <1>4 DEF E!DropSaver, E!env, EndInv, ToldWhenOver, E!TypeOK
<1> QED BY <1>1, <1>2, <1>3, <1>4 DEF E!MainNext

LEMMA EndStep == EndInv /\ [E!Next]_endVars => EndInv'
<1> SUFFICES ASSUME EndInv, [E!Next]_endVars PROVE EndInv'
  OBVIOUS
<1>1. CASE E!CtrlC \/ E!SignalFails \/ E!SaveEnds
  <2>1. /\ saver \in {"waiting", "saving"} /\ saver' \in {"saving", "over"}
        /\ saver = "waiting" \/ saver' = "over"
        /\ UNCHANGED <<main, unserved, requests, tasks, at, unseen, device, camera>>
    BY <1>1 DEF E!CtrlC, E!SignalFails, E!SaveEnds, E!env
  <2>2. flag' \in BOOLEAN
    BY <1>1, Zenon DEF E!CtrlC, E!SignalFails, E!SaveEnds, EndInv, E!TypeOK
  <2> QED BY <2>1, <2>2 DEF EndInv, ToldWhenOver, E!TypeOK
<1>2. CASE E!RequestBegins \/ E!RequestEnds
  <2>1. /\ requests' \in 0 .. MaxRequests
        /\ UNCHANGED <<flag, main, saver, unserved, tasks, at, unseen, device, camera>>
    BY <1>2, EndConstants
    DEF E!RequestBegins, E!RequestEnds, E!MainGoes, E!env, EndInv, E!TypeOK
  <2> QED BY <2>1 DEF EndInv, ToldWhenOver, E!TypeOK
<1>3. ASSUME NEW t \in E!Tasks, E!TaskEnds(t) PROVE EndInv'
  BY <1>3 DEF E!TaskEnds, EndInv, ToldWhenOver, E!TypeOK
<1>4. ASSUME NEW t \in E!Threads, E!ThreadTurn(t) PROVE EndInv'
  BY <1>4, ThreadKeepsEnd
<1>5. CASE E!Reset
  BY <1>5 DEF E!Reset, EndInv, ToldWhenOver, E!TypeOK
<1>6. CASE UNCHANGED endVars
  BY <1>6 DEF endVars, EndInv, ToldWhenOver, E!TypeOK
<1> QED BY <1>1, <1>2, <1>3, <1>4, <1>5, <1>6, MainKeepsEnd DEF E!Next

LEMMA EndImplied == EndInv => E!ShutdownInv
BY DEF EndInv, ToldWhenOver, E!ShutdownInv, E!SaveFirst

-----------------------------------------------------------------------------
(* All of them together *)

cardVars   == <<focus, storeVars, maskVars, updateVars, endVars>>
StorageInv == ConfigInv /\ MaskIInv /\ UpdateInv /\ EndInv

\* A step moves one part and leaves the others alone.
LEMMA PartsStep ==
  [MCNext]_cardVars =>
    /\ [StoreNext]_storeVars /\ [M!Next]_maskVars
    /\ [U!Next]_updateVars /\ [E!Next]_endVars
BY DEF MCNext, cardVars

\* The configuration, the mask, the boot images and the end of the daemon keep
\* their invariants (config.rs, web.rs, initramfs_skeleton/init, main.rs).
THEOREM StorageSound == MCSpec => []StorageInv
<1>1. MCInit => StorageInv
  BY InitConfigInv, InitMaskInv, InitUpdateInv, InitEndInv DEF MCInit, StorageInv
<1>2. StorageInv /\ [MCNext]_cardVars => StorageInv'
  BY PartsStep, ConfigStep, MaskStep, UpdateStep, EndStep DEF StorageInv
<1> QED BY <1>1, <1>2, PTL DEF MCSpec, cardVars

\* What GET /api/mask shows is what detection uses, and requests side by side
\* leave a whole mask, however many there are and whichever write fails
\* (web.rs:173-198).
THEOREM MaskSound == MCSpec => []MaskInv
<1>1. StorageInv => MaskInv
  BY MaskImplied DEF StorageInv, MaskInv
<1> QED BY <1>1, StorageSound, PTL

\* Wherever the power goes during an update but between a move and its sync, and whatever
\* it leaves of each unsynced file, the camera boots from one whole image with a whole
\* kernel; a squashfs image moved beside a whole ext2 image does not even risk that
\* (init:24-75).
THEOREM CameraBoots == MCSpec => []AlwaysBoots
<1>1. StorageInv => AlwaysBoots
  BY UpdateImplied DEF StorageInv, AlwaysBoots
<1> QED BY <1>1, StorageSound, PTL

\* The process does not end, nor is a task dropped, before the save that Ctrl+C
\* began is through, for any number of open requests (main.rs:263-334).
THEOREM SavedBeforeEnd == MCSpec => []ShutdownInv
<1>1. StorageInv => ShutdownInv
  BY EndImplied DEF StorageInv, ShutdownInv
<1> QED BY <1>1, StorageSound, PTL

\* A mask answered with 204 is in use again after a restart.
THEOREM SavedMaskLoaded == MCSpec => SavedIsLoaded
<1>1. StorageInv /\ [MCNext]_cardVars =>
        [mask_daemon = "down" /\ mask_daemon' = "up" /\ M!Clean /\ ~powerLost
           => memory' = last]_M!vars
  BY PartsStep, RestartLoads DEF StorageInv
<1> QED BY <1>1, StorageSound, PTL DEF MCSpec, cardVars, SavedIsLoaded, M!SavedIsLoaded

\* A new image is not taken back, save by a power loss before its sync, after a move that
\* failed, and in the case the script's wrong path makes (init:61-62).
THEOREM UpdateStays == MCSpec => InstalledStays
<1>1. StorageInv /\ [MCNext]_cardVars =>
        [\/ (\E r \in U!Roots : disk[U!Boot(r)] = "new") =>
              \E r \in U!Roots : disk'[U!Boot(r)] = "new"
         \/ U!PowerLoss /\ U!Unsynced # {}
         \/ \E r \in U!Roots : U!RemoveOther(r) /\ disk[U!Boot(r)] # "new"
         \/ /\ U!ResolveBoth
            /\ disk[U!Boot("ext2")] # "new" \/ disk[U!Staged("squashfs")] = "new"]_U!vars
  BY PartsStep, NewImageStays DEF StorageInv, TakenBack
<1> QED BY <1>1, StorageSound, PTL DEF MCSpec, cardVars, InstalledStays, U!InstalledStays

\* A start finds the settings that a successful save left, and puts the filter and
\* the ISP where the fresh state says (config.rs:145-170, main.rs:91-106).
THEOREM DaemonStartsRight == MCSpec => StartsRight
<1>1. StorageInv /\ [MCNext]_cardVars =>
        /\ [Starts /\ ended = "saved" /\ ~late => Survives(PersistFields)]_storeVars
        /\ [Starts /\ applied' => Agrees("ircut_on")' /\ Agrees("night_mode")']_storeVars
  BY PartsStep, StartKeepsConfig, StartSetsOutputs DEF StorageInv
<1> QED
  BY <1>1, StorageSound, PTL
  DEF MCSpec, cardVars, StartsRight, ConfigSurvives, StartRestoresFilter
=============================================================================
