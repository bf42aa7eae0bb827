-------------------------- MODULE BroadcastChannel --------------------------
(***************************************************************************)
(* One receiver's view of a tokio broadcast channel, as the tasks of       *)
(* crates/atometd/src use it: the sender never waits; a receiver that is   *)
(* Capacity messages behind loses the oldest one and gets a single Lagged  *)
(* error before the next message.                                          *)
(***************************************************************************)
EXTENDS Naturals, Sequences

CONSTANT Capacity

ASSUME CapacityAssumption == Capacity \in Nat \ {0}

EmptyReceiver == [queue |-> << >>, lagged |-> FALSE]

Send(r, msg) ==
  IF Len(r.queue) < Capacity
  THEN [r EXCEPT !.queue = Append(@, msg)]
  ELSE [queue |-> Append(Tail(r.queue), msg), lagged |-> TRUE]

\* recv() returns Err(Lagged): the error is consumed, the messages are not.
HasLagged(r)    == r.lagged
TakeLagged(r)   == [r EXCEPT !.lagged = FALSE]

\* recv() returns Ok.
HasMessage(r)   == ~r.lagged /\ r.queue # << >>
NextMessage(r)  == Head(r.queue)
TakeMessage(r)  == [r EXCEPT !.queue = Tail(@)]
=============================================================================
