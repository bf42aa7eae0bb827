---------------------------- MODULE FrameArchive ----------------------------
(***************************************************************************)
(* What one recording promises, whatever the container format: a log of    *)
(* frames.  A frame that has been confirmed is lost neither when a later   *)
(* write fails nor when the recording is given up; one that has been       *)
(* secured is not even lost with the power.  A frame accepted after a      *)
(* damaging failure carries no promise.                                    *)
(***************************************************************************)
EXTENDS Naturals, Sequences

VARIABLES
  offered,    \* frames offered so far; names them
  kept,       \* ids of the frames that can be recovered, in order
  confirmed,  \* how many of them survive the recorder
  secured,    \* how many of them survive a power loss
  damaged,    \* a write has failed: frames accepted from now on may be lost
  status      \* "recording", then "sealed" or "lost", at last "off"

archive == <<offered, kept, confirmed, secured, damaged, status>>

Init ==
  /\ offered = 0
  /\ kept = << >>
  /\ confirmed = 0 /\ secured = 0
  /\ damaged = FALSE
  /\ status = "recording"

Accept ==
  /\ status = "recording"
  /\ offered' = offered + 1
  /\ kept' = IF damaged THEN kept ELSE Append(kept, offered + 1)
  /\ UNCHANGED <<confirmed, secured, damaged, status>>

Confirm ==
  /\ status = "recording"
  /\ confirmed' \in confirmed .. Len(kept)
  /\ UNCHANGED <<offered, kept, secured, damaged, status>>

Secure ==
  /\ status # "off"
  /\ secured' \in secured .. confirmed
  /\ UNCHANGED <<offered, kept, confirmed, damaged, status>>

\* Frames behind the n-th are lost, or none is.
KeepFrom(n) == \E m \in n .. Len(kept) : kept' = SubSeq(kept, 1, m)

\* A failed write refuses its frame and takes back accepted ones, never those
\* that were confirmed.
Fail ==
  /\ status = "recording"
  /\ offered' = offered + 1
  /\ damaged' = TRUE
  /\ KeepFrom(confirmed)
  /\ UNCHANGED <<confirmed, secured, status>>

\* Sealing confirms everything that is kept and freezes it.
Seal ==
  /\ status = "recording"
  /\ status' = "sealed"
  /\ confirmed' = Len(kept)
  /\ UNCHANGED <<offered, kept, secured, damaged>>

\* The recording is given up: it gets no index, and what was not confirmed may
\* be gone.
Lose ==
  /\ status = "recording"
  /\ status' = "lost"
  /\ KeepFrom(confirmed)
  /\ UNCHANGED <<offered, confirmed, secured, damaged>>

\* The power goes, and with it, sealed or not, what was not secured.
PowerLoss ==
  /\ status # "off"
  /\ status' = "off"
  /\ KeepFrom(secured)
  /\ confirmed' = Len(kept') /\ secured' = Len(kept')
  /\ UNCHANGED <<offered, damaged>>

Next == Accept \/ Confirm \/ Secure \/ Fail \/ Seal \/ Lose \/ PowerLoss

Spec == Init /\ [][Next]_archive
=============================================================================
