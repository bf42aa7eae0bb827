---------------------------- MODULE StreamServer ----------------------------
(***************************************************************************)
(* broadcast_task (crates/atometd/src/stream.rs): the TCP server that      *)
(* copies every encoded frame to its clients.  The task handles one event  *)
(* at a time; while it writes a frame, pack by pack and client by client,  *)
(* it accepts nobody and takes no other frame.  Every write may time out   *)
(* or fail, on any pack.                                                   *)
(***************************************************************************)
EXTENDS BroadcastChannel, SequencesExt

CONSTANTS
  MaxPacks,    \* packs per frame: several for an IDR (VPS, SPS, PPS, slice)
  MaxFrames,   \* bound: frames sent
  MaxClients   \* bound: connections accepted

ASSUME StreamConstants ==
  /\ MaxPacks \in Nat \ {0} /\ MaxFrames \in Nat /\ MaxClients \in Nat

VARIABLES
  status,      \* "running", "stopped" by shutdown, "panicked"
  shutdown,
  clients,     \* the Vec<TcpClient>: connection id and initialized
  rx,          \* this task's receiver of the frame channel
  sent,        \* frames the encoder has sent so far
  connected,   \* connections accepted so far; names the clients
  handled,     \* history: frames taken from the channel
  failed,      \* history: clients one of whose writes failed
  got,         \* history: packs written to each client
  unordered    \* history: a frame's failures came out of index order

vars == <<status, shutdown, clients, rx, sent, connected, handled, failed, got,
          unordered>>

FrameIds == 1 .. MaxFrames
Frames   == [id : FrameIds, idr : BOOLEAN, packs : 1 .. MaxPacks]
Ids      == 1 .. MaxClients

-----------------------------------------------------------------------------

Init ==
  /\ status = "running" /\ shutdown = FALSE
  /\ clients = << >> /\ rx = EmptyReceiver
  /\ sent = 0 /\ connected = 0
  /\ handled = {} /\ failed = {} /\ got = [c \in Ids |-> << >>]
  /\ unordered = FALSE

\* The encoder thread broadcasts a frame.
Publish(idr, packs) ==
  /\ sent < MaxFrames
  /\ sent' = sent + 1
  /\ rx' = Send(rx, [id |-> sent + 1, idr |-> idr, packs |-> packs])
  /\ UNCHANGED <<status, shutdown, clients, connected, handled, failed, got,
                 unordered>>

Accept ==
  /\ status = "running" /\ connected < MaxClients
  /\ connected' = connected + 1
  /\ clients' = Append(clients, [id |-> connected + 1, initialized |-> FALSE])
  /\ UNCHANGED <<status, shutdown, rx, sent, handled, failed, got, unordered>>

\* Mutated form: a new client is served from any frame on.
ServedAtOnce(i, frame) == TRUE

\* A client is served from its first IDR frame on.
Served(i, frame) == clients[i].initialized \/ frame.idr

\* failAt[i] is the pack whose write to client i fails, 0 for none.
Failures(frame) ==
  {f \in [DOMAIN clients -> 0 .. frame.packs] :
     \A i \in DOMAIN clients : f[i] # 0 => Served(i, frame)}

\* Client i fails before client j: the loops go pack by pack, then by index.
Before(failAt, i, j) == failAt[i] < failAt[j] \/ (failAt[i] = failAt[j] /\ i < j)

\* closed_clients as the loops push it: one sequence of the failing indices.
closed_clients(failAt) ==
  LET failing == {i \in DOMAIN clients : failAt[i] # 0}
  IN  {closed \in [1 .. Cardinality(failing) -> failing] :
         /\ Range(closed) = failing
         /\ \A j, k \in DOMAIN closed : j < k => Before(failAt, closed[j], closed[k])}

\* Vec::remove, which panics on an index behind the end.
VecRemove(vec, i) ==
  IF vec.ok /\ i <= Len(vec.items)
  THEN [vec EXCEPT !.items = RemoveAt(@, i)]
  ELSE [vec EXCEPT !.ok = FALSE]

\* One removal after the other.
Removals(vec, order) ==
  LET after[k \in 0 .. Len(order)] ==
        IF k = 0 THEN [ok |-> TRUE, items |-> vec]
        ELSE VecRemove(after[k - 1], order[k])
  IN  after[Len(order)]

\* Mutated form: the indices are removed front to back.
RemovedForward(vec, closed) == Removals(vec, closed)

\* `for i in closed_clients.iter().rev()`
Removed(vec, closed) == Removals(vec, Reverse(closed))

\* Packs client i is sent: all of them, or those before the failing one.
PacksWritten(i, frame, failAt) ==
  IF ~Served(i, frame) THEN << >>
  ELSE [k \in 1 .. (IF failAt[i] = 0 THEN frame.packs ELSE failAt[i] - 1) |->
          <<frame.id, k>>]

Initialized(i, frame) ==
  [clients[i] EXCEPT !.initialized = @ \/ frame.idr]

\* What the frame adds to the stream of client c.
Written(c, frame, failAt) ==
  IF \E i \in DOMAIN clients : clients[i].id = c
  THEN PacksWritten(CHOOSE i \in DOMAIN clients : clients[i].id = c, frame, failAt)
  ELSE << >>

HandleFrame(frame, failAt, closed) ==
  LET after == Removed([i \in DOMAIN clients |-> Initialized(i, frame)], closed)
  IN  /\ clients' = IF after.ok THEN after.items ELSE << >>
      /\ status' = IF after.ok THEN status ELSE "panicked"
      /\ got' = [c \in Ids |-> got[c] \o Written(c, frame, failAt)]
      /\ failed' = failed \cup {clients[i].id : i \in Range(closed)}
      /\ handled' = handled \cup {frame}
      /\ unordered' = (unordered \/ \E j, k \in DOMAIN closed :
                                      j < k /\ closed[j] > closed[k])

Receive ==
  /\ status = "running" /\ HasMessage(rx)
  /\ rx' = TakeMessage(rx)
  /\ \E failAt \in Failures(NextMessage(rx)) :
       \E closed \in closed_clients(failAt) : HandleFrame(NextMessage(rx), failAt, closed)
  /\ UNCHANGED <<shutdown, sent, connected>>

\* `Ok(frame) = rx.recv()` does not match Err(Lagged): the branch is dropped.
ReceiveLagged ==
  /\ status = "running" /\ HasLagged(rx)
  /\ rx' = TakeLagged(rx)
  /\ UNCHANGED <<status, shutdown, clients, sent, connected, handled, failed,
                 got, unordered>>

RequestShutdown ==
  /\ shutdown' = TRUE
  /\ UNCHANGED <<status, clients, rx, sent, connected, handled, failed, got,
                 unordered>>

\* The flag is read between two events; the watchdog interval wakes the loop.
Stop ==
  /\ status = "running" /\ shutdown
  /\ status' = "stopped" /\ clients' = << >>
  /\ UNCHANGED <<shutdown, rx, sent, connected, handled, failed, got, unordered>>

Next ==
  \/ \E idr \in BOOLEAN, packs \in 1 .. MaxPacks : Publish(idr, packs)
  \/ Accept \/ Receive \/ ReceiveLagged
  \/ RequestShutdown \/ Stop

Spec == Init /\ [][Next]_vars

-----------------------------------------------------------------------------
(* Properties *)

TypeOK ==
  /\ status \in {"running", "stopped", "panicked"} /\ shutdown \in BOOLEAN
  /\ clients \in Seq([id : Ids, initialized : BOOLEAN])
  /\ rx \in [queue : Seq(Frames), lagged : BOOLEAN]
  /\ Len(rx.queue) <= Capacity
  /\ sent \in 0 .. MaxFrames /\ connected \in 0 .. MaxClients
  /\ handled \subseteq Frames /\ failed \subseteq Ids
  /\ got \in [Ids -> Seq(FrameIds \X (1 .. MaxPacks))]
  /\ unordered \in BOOLEAN

ListedIds == {clients[i].id : i \in DOMAIN clients}

\* The first thing a client ever receives is the first pack of an IDR frame, so
\* that a decoder can start on it; a client that failed may be left in the list
\* by the removal, and only then start elsewhere.
StartsAtIdr ==
  \A c \in Ids : got[c] # << >> /\ (unordered => c \notin failed) =>
    \E f \in handled : f.idr /\ got[c][1] = <<f.id, 1>>

\* Until a write to it fails, a client that has started gets every pack of every
\* frame the task takes, in order, whatever the other clients do.
StreamComplete ==
  \A i \in DOMAIN clients :
    LET c    == clients[i].id
        g    == got[c]
        from == IF g = << >> THEN sent + 1 ELSE g[1][1]
    IN  c \notin failed =>
          /\ \A f \in handled : f.id >= from =>
               \A k \in 1 .. f.packs : <<f.id, k>> \in Range(g)
          /\ \A k \in 1 .. Len(g) - 1 :
               \/ g[k][1] < g[k + 1][1]
               \/ g[k][1] = g[k + 1][1] /\ g[k][2] < g[k + 1][2]

\* What one client sees of the stream: it starts at an IDR frame and has no hole,
\* whoever joins, lags or fails beside it (broadcast_task).
StreamInv == TypeOK /\ StartsAtIdr /\ StreamComplete

\* As long as the failures within each frame came in index order, the removal
\* takes out the failed clients and no other, and does not panic (stream.rs:76-79).
RemovedExactly ==
  /\ status = "running" /\ ~unordered => ListedIds = (1 .. connected) \ failed
  /\ status = "panicked" => unordered

\* The comment at stream.rs:76, "Remove closed clients": the client list holds
\* no client whose write failed, and removing them succeeds.
ClosedClientsRemoved ==
  status # "panicked" /\ ListedIds \cap failed = {}
=============================================================================
