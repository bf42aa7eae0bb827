-------------------------------- MODULE Mask --------------------------------
(***************************************************************************)
(* The detection mask: main loads it (main.rs:193-213), PUT /api/mask      *)
(* swaps the copy in memory and then writes the file (web.rs:173-198).     *)
(* tokio::fs::write truncates the file first, on a thread of its own, and  *)
(* requests run side by side.  Each request here carries a mask of its     *)
(* own, named by the request.                                              *)
(***************************************************************************)
EXTENDS FiniteSets

CONSTANTS Puts, Zeros, Torn, NoPut   \* Torn: a file that is missing or cut short

VARIABLES
  daemon, memory,
  file, durable,  \* the file as the kernel shows it, and on the card
  put,            \* per request: how far it is, and its answer
  last,           \* the request that swapped last since the start
  overlapped,     \* history: requests that ran side by side with another
  powerLost       \* history: the power was lost

vars == <<daemon, memory, file, durable, put, last, overlapped, powerLost>>

InFlight == {p \in Puts : put[p] \in {"swapped", "truncated"}}
MaskIn(data) == IF data = Torn THEN Zeros ELSE data

-----------------------------------------------------------------------------

Init ==
  /\ daemon = "up" /\ memory = Zeros /\ file = Torn /\ durable = Torn
  /\ put = [p \in Puts |-> "new"] /\ last = NoPut /\ overlapped = {}
  /\ powerLost = FALSE

Swap(p) ==
  /\ daemon = "up" /\ put[p] = "new"
  /\ memory' = p /\ last' = p /\ put' = [put EXCEPT ![p] = "swapped"]
  /\ overlapped' = overlapped \cup (IF InFlight = {} THEN {} ELSE InFlight \cup {p})
  /\ UNCHANGED <<daemon, file, durable, powerLost>>

\* The file is opened and truncated, or cannot be opened.
Truncate(p) ==
  /\ put[p] = "swapped"
  /\ \/ file' = Torn /\ put' = [put EXCEPT ![p] = "truncated"]
     \/ UNCHANGED file /\ put' = [put EXCEPT ![p] = "failed"]
  /\ UNCHANGED <<daemon, memory, durable, last, overlapped, powerLost>>

\* Mutated form: a failed write is answered like a good one.
AnsweredAnyway(ok) == "saved"

Answer(ok) == IF ok THEN "saved" ELSE "failed"

Write(p) ==
  /\ put[p] = "truncated"
  /\ \E ok \in BOOLEAN :
       /\ file' = IF ok THEN p ELSE Torn
       /\ put' = [put EXCEPT ![p] = Answer(ok)]
  /\ UNCHANGED <<daemon, memory, durable, last, overlapped, powerLost>>

WriteBack ==
  /\ durable # file /\ durable' = file
  /\ UNCHANGED <<daemon, memory, file, put, last, overlapped, powerLost>>

\* The daemon ends, with the requests it was working on; if the power goes too, the
\* card may hold what was written back, all of it or less.
End(withPower) ==
  /\ daemon = "up" /\ daemon' = "down" /\ powerLost' = (powerLost \/ withPower)
  /\ put' = [p \in Puts |-> IF p \in InFlight THEN "lost" ELSE put[p]]
  /\ file' \in IF withPower THEN {file, durable, Torn} ELSE {file}
  /\ durable' = IF withPower THEN file' ELSE durable
  /\ UNCHANGED <<memory, last, overlapped>>

\* Mutated form: the mask is not read at start-up.
Unread(data) == Zeros

Load(data) == MaskIn(data)

Start ==
  /\ daemon = "down" /\ daemon' = "up" /\ memory' = Load(file) /\ last' = NoPut
  /\ UNCHANGED <<file, durable, put, overlapped, powerLost>>

Next ==
  \/ \E p \in Puts : Swap(p) \/ Truncate(p) \/ Write(p)
  \/ WriteBack \/ Start \/ \E withPower \in BOOLEAN : End(withPower)

-----------------------------------------------------------------------------
(* Properties *)

\* The last PUT succeeded, and no other ran beside it.
Clean == last # NoPut /\ put[last] = "saved" /\ last \notin overlapped

\* While no PUT is at work, GET /api/mask shows the mask that detection and solver
\* use, unless the last PUT failed or ran side by side with another: the memory is
\* swapped before the file is written (web.rs:181-188), so those two cases do differ.
Agreement ==
  daemon = "up" /\ InFlight = {} /\ (last = NoPut \/ Clean) => MaskIn(file) = memory

\* PUTs that run side by side leave a whole mask if all of them succeed: one never
\* cuts off what the other has written.
OverlapLeavesMask ==
  powerLost \/ (\A p \in Puts : put[p] = "new") \/ file \in Puts
  \/ \E p \in Puts : put[p] \notin {"new", "saved"}

\* Memory, file and the answers given agree, whichever write failed (web.rs:173-198).
MaskInv == Agreement /\ OverlapLeavesMask

\* A mask answered with 204 is in use again after the daemon is restarted.
SavedIsLoaded ==
  [][daemon = "down" /\ daemon' = "up" /\ Clean /\ ~powerLost => memory' = last]_vars
=============================================================================
