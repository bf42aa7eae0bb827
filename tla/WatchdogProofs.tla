--------------------------- MODULE WatchdogProofs ---------------------------
(***************************************************************************)
(* Safety of the supervisor for every number of tasks, timeout and clock   *)
(* width.  The saturating difference of two u32 clock values is tied to    *)
(* the true silence from both sides: it is no smaller as long as the clock *)
(* has not gone down (Behind), and no larger as long as it has not been    *)
(* put forward (Ahead).                                                    *)
(***************************************************************************)
EXTENDS Watchdog, TLAPS

\* What the clock shows of a task's silence is not too little ...
Behind ==
  \A t \in Tasks \ setBack : last_tick[t] + idle[t] <= now_millis

\* ... and not too much.
Ahead ==
  \A t \in Tasks \ setForward :
    now_millis <= last_tick[t] + idle[t] \/ idle[t] = MaxIdle

\* As long as nothing excuses it, the supervisor keeps feeding on time.
FedOnTime ==
  ~excused => /\ supervisor = "running"
              /\ unfed + due <= CheckInterval + MaxDelay

\* Without the shutdown the supervisor runs; its loop stops only with a reason.
WatchdogInv ==
  TypeOK /\ Behind /\ Ahead /\ SilenceBounded /\ FedOnTime /\ NoFalseReset

-----------------------------------------------------------------------------

\* The check interval of the code is a duration.
LEMMA IntervalNat == CheckInterval \in Nat
  BY WatchdogConstants, SMT DEF CheckInterval

\* The u32 clock counts up and wraps to zero.
LEMMA NextMillis ==
  ASSUME now_millis \in Clock
  PROVE  next_millis = IF now_millis + 1 = Wrap THEN 0 ELSE now_millis + 1
<1>1. \A a, w \in Nat : a < w => a % w = a
  BY SMT
<1>2. \A w \in Nat \ {0} : w % w = 0
  BY SMT
<1>3. now_millis \in Nat /\ now_millis + 1 <= Wrap /\ Wrap \in Nat \ {0}
  BY WatchdogConstants, SMT DEF Clock
<1> QED
  BY <1>1, <1>2, <1>3, SMT DEF next_millis

\* If every handle is in time and the clock has not gone down, no task has
\* really been silent for longer than its limit.
LEMMA HealthyIsQuiet ==
  ASSUME TypeOK, Behind, all_healthy, NEW t \in Tasks \ setBack
  PROVE  idle[t] <= Timeout
<1>1. elapsed_ms(t) <= Timeout
  BY DEF all_healthy
<1>2. last_tick[t] + idle[t] <= now_millis
  BY DEF Behind
<1>3. /\ last_tick[t] \in Nat /\ idle[t] \in Nat /\ now_millis \in Nat
      /\ Timeout \in Nat
  BY WatchdogConstants, SMT DEF TypeOK, Clock
<1> QED
  BY <1>1, <1>2, <1>3, SMT DEF elapsed_ms

\* A handle over its limit is a task really silent for longer, or the clock was
\* put forward since its tick.
LEMMA LateIsSilent ==
  ASSUME TypeOK, Ahead, ~all_healthy
  PROVE  \E t \in Tasks : idle[t] > Timeout \/ t \in setForward
<1>1. PICK t \in Tasks : ~(elapsed_ms(t) <= Timeout)
  BY DEF all_healthy
<1>2. /\ last_tick[t] \in Nat /\ idle[t] \in Nat /\ now_millis \in Nat
      /\ Timeout \in Nat /\ HwTimeout \in Nat /\ MaxIdle \in Nat
      /\ Timeout + HwTimeout < MaxIdle
  BY WatchdogConstants, SMT DEF TypeOK, Clock
<1>3. t \notin setForward => now_millis <= last_tick[t] + idle[t] \/ idle[t] = MaxIdle
  BY DEF Ahead
<1>4. t \notin setForward => idle[t] > Timeout
  BY <1>1, <1>2, <1>3, SMT DEF elapsed_ms
<1> QED
  BY <1>4

\* The initial states satisfy the invariant.
LEMMA InitInv == Init => WatchdogInv
<1> SUFFICES ASSUME Init PROVE WatchdogInv
  OBVIOUS
<1> USE IntervalNat, WatchdogConstants
<1>1. TypeOK
  <2>1. /\ last_tick \in [Tasks -> Clock] /\ idle \in [Tasks -> 0 .. MaxIdle]
        /\ now_millis \in Clock
    BY SMT DEF Init
  <2>2. /\ due \in 0 .. CheckInterval + MaxDelay /\ unfed \in 0 .. HwTimeout
        /\ steps \in 0 .. MaxClockSteps
    BY SMT DEF Init
  <2> QED
    BY <2>1, <2>2, Zenon DEF Init, TypeOK
<1>2. Behind /\ Ahead
  BY SMT DEF Init, Behind, Ahead, Clock
<1>3. SilenceBounded /\ FedOnTime /\ NoFalseReset
  BY SMT DEF Init, SilenceBounded, FedOnTime, NoFalseReset
<1> QED
  BY <1>1, <1>2, <1>3 DEF WatchdogInv

\* Every step keeps the types.
LEMMA NextTypeOK == TypeOK /\ [Next]_vars => TypeOK'
<1> SUFFICES ASSUME TypeOK, [Next]_vars PROVE TypeOK'
  OBVIOUS
<1> USE IntervalNat, WatchdogConstants DEF TypeOK
<1>1. ASSUME NEW t \in Tasks, tick(t) PROVE TypeOK'
  BY <1>1, SMT DEF tick, sup
<1>2. ASSUME NEW t \in Tasks, Hang(t) PROVE TypeOK'
  BY <1>2, SMT DEF Hang, sup
<1>3. CASE Check
  <2>1. /\ due' \in 0 .. CheckInterval + MaxDelay /\ unfed' \in 0 .. HwTimeout
        /\ UNCHANGED <<now_millis, tasks, supervisor, shutdown, hw, camera, steps>>
    BY <1>3, SMT DEF Check
  <2>2. excused' \in BOOLEAN
    BY <1>3, Zenon DEF Check
  <2> QED
    BY <2>1, <2>2, SMT DEF tasks
<1>4. CASE Stop
  BY <1>4, SMT DEF Stop, tasks
<1>5. CASE RequestShutdown
  BY <1>5, SMT DEF RequestShutdown, tasks
<1>6. CASE Elapse
  <2>1. next_millis \in Clock
    BY SMT DEF next_millis, Clock
  <2>2. idle' \in [Tasks -> 0 .. MaxIdle]
    BY <1>6, SMT DEF Elapse
  <2>3. due' \in 0 .. CheckInterval + MaxDelay /\ unfed' \in 0 .. HwTimeout
    BY <1>6, SMT DEF Elapse
  <2> QED
    BY <1>6, <2>1, <2>2, <2>3, SMT DEF Elapse
<1>7. CASE SetClock
  BY <1>7, SMT DEF SetClock, sup, Clock
<1>8. CASE Reset
  BY <1>8, SMT DEF Reset, tasks, sup
<1>9. CASE Boot
  <2>1. /\ now_millis' \in Clock /\ last_tick' \in [Tasks -> Clock]
        /\ idle' \in [Tasks -> 0 .. MaxIdle]
    BY <1>9, SMT DEF Boot
  <2>2. /\ due' \in 0 .. CheckInterval + MaxDelay /\ unfed' \in 0 .. HwTimeout
        /\ steps' \in 0 .. MaxClockSteps
    BY <1>9, SMT DEF Boot
  <2> QED
    BY <1>9, <2>1, <2>2, Zenon DEF Boot
<1>10. CASE UNCHANGED vars
  BY <1>10, SMT DEF vars, tasks, sup
<1> QED
  BY <1>1, <1>2, <1>3, <1>4, <1>5, <1>6, <1>7, <1>8, <1>9, <1>10 DEF Next

\* A tick stores the time, a step of the clock shifts it, and time itself passes
\* for both: the clock never shows too little of a silence unless it went down.
LEMMA NextBehind == TypeOK /\ Behind /\ [Next]_vars => Behind'
<1> SUFFICES ASSUME TypeOK, Behind, [Next]_vars,
                    NEW u \in Tasks, u \notin setBack'
             PROVE  last_tick'[u] + idle'[u] <= now_millis'
  BY DEF Behind
<1>0. /\ last_tick[u] \in Nat /\ idle[u] \in Nat /\ now_millis \in Nat
      /\ now_millis < Wrap /\ Wrap \in Nat /\ 1 < Wrap /\ MaxIdle \in Nat
      /\ last_tick \in [Tasks -> Clock] /\ idle \in [Tasks -> 0 .. MaxIdle]
  BY WatchdogConstants, SMT DEF TypeOK, Clock
<1>a. u \notin setBack => last_tick[u] + idle[u] <= now_millis
  BY DEF Behind
<1>1. ASSUME NEW t \in Tasks, tick(t) PROVE last_tick'[u] + idle'[u] <= now_millis'
  BY <1>0, <1>a, <1>1, SMT DEF tick
<1>2. CASE UNCHANGED <<now_millis, last_tick, idle, setBack>>
  BY <1>2, <1>a
<1>3. CASE Elapse
  <2>1. next_millis = now_millis + 1
    <3>1. ~(next_millis < now_millis)
      BY <1>3 DEF Elapse
    <3>2. next_millis = IF now_millis + 1 = Wrap THEN 0 ELSE now_millis + 1
      BY NextMillis DEF TypeOK
    <3> QED
      BY <1>0, <3>1, <3>2, SMT
  <2>2. u \notin setBack
    BY <1>0, <1>3, <2>1, SMT DEF Elapse
  <2> QED
    BY <1>0, <1>a, <1>3, <2>1, <2>2, SMT DEF Elapse
<1>4. CASE SetClock
  BY <1>0, <1>a, <1>4, SMT DEF SetClock, Clock
<1>5. CASE Boot
  <2>1. now_millis' \in Nat /\ last_tick'[u] = now_millis' /\ idle'[u] = 0
    BY <1>5, SMT DEF Boot, Clock
  <2>2. \A n \in Nat : n + 0 <= n
    BY SMT
  <2> QED
    BY <2>1, <2>2
<1> QED
  BY <1>1, <1>2, <1>3, <1>4, <1>5, Zenon
  DEF Next, vars, tasks, Hang, Check, Stop, RequestShutdown, Reset

\* Nor too much, unless it was put forward.
LEMMA NextAhead == TypeOK /\ Ahead /\ [Next]_vars => Ahead'
<1> DEFINE Bound(u) == now_millis <= last_tick[u] + idle[u] \/ idle[u] = MaxIdle
<1> SUFFICES ASSUME TypeOK, Ahead, [Next]_vars,
                    NEW u \in Tasks, u \notin setForward'
             PROVE  Bound(u)'
  BY DEF Ahead
<1>0. /\ last_tick[u] \in Nat /\ idle[u] \in 0 .. MaxIdle /\ now_millis \in Nat
      /\ MaxIdle \in Nat
      /\ last_tick \in [Tasks -> Clock] /\ idle \in [Tasks -> 0 .. MaxIdle]
  BY WatchdogConstants, SMT DEF TypeOK, Clock
<1>a. u \notin setForward => Bound(u)
  BY DEF Ahead
<1>1. ASSUME NEW t \in Tasks, tick(t) PROVE Bound(u)'
  BY <1>0, <1>a, <1>1, SMT DEF tick
<1>2. CASE UNCHANGED <<now_millis, last_tick, idle, setForward>>
  BY <1>2, <1>a
<1>3. CASE Elapse
  <2>1. now_millis' = 0 \/ now_millis' = now_millis + 1
    BY <1>3, NextMillis, SMT DEF Elapse, TypeOK
  <2>2. Bound(u) /\ last_tick' = last_tick
    BY <1>3, <1>a DEF Elapse
  <2>3. idle'[u] = IF idle[u] < MaxIdle THEN idle[u] + 1 ELSE MaxIdle
    BY <1>3 DEF Elapse
  <2> QED
    BY <1>0, <2>1, <2>2, <2>3, SMT
<1>4. CASE SetClock
  <2>1. /\ u \notin setForward' /\ now_millis' \in Nat
        /\ u \in Tasks /\ UNCHANGED <<last_tick, idle>>
    BY <1>4, SMT DEF SetClock, Clock
  <2>2. now_millis' <= now_millis /\ u \notin setForward
    BY <1>0, <1>4, <2>1, SMT DEF SetClock
  <2> QED
    BY <1>0, <1>a, <2>1, <2>2, SMT
<1>5. CASE Boot
  <2>1. now_millis' \in Nat /\ last_tick'[u] = now_millis' /\ idle'[u] = 0
    BY <1>5, SMT DEF Boot, Clock
  <2> QED
    BY <2>1, SMT
<1> QED
  BY <1>1, <1>2, <1>3, <1>4, <1>5, Zenon
  DEF Next, vars, tasks, Hang, Check, Stop, RequestShutdown, Reset

\* Feeding resets the bound only when every task is quiet; time raises both
\* sides of it.
LEMMA NextSilence ==
  TypeOK /\ Behind /\ SilenceBounded /\ [Next]_vars => SilenceBounded'
<1> SUFFICES ASSUME TypeOK, Behind, SilenceBounded, [Next]_vars,
                    hw' = "armed", supervisor' = "running",
                    NEW u \in Tasks, u \notin setBack'
             PROVE  idle'[u] <= Timeout + unfed'
  BY DEF SilenceBounded
<1>0. /\ idle[u] \in 0 .. MaxIdle /\ unfed \in 0 .. HwTimeout
      /\ Timeout \in Nat /\ HwTimeout \in Nat /\ MaxIdle \in Nat
      /\ idle \in [Tasks -> 0 .. MaxIdle]
  BY WatchdogConstants, SMT DEF TypeOK
<1>a. hw = "armed" /\ supervisor = "running" /\ u \notin setBack
        => idle[u] <= Timeout + unfed
  BY DEF SilenceBounded
<1>1. ASSUME NEW t \in Tasks, tick(t) PROVE idle'[u] <= Timeout + unfed'
  BY <1>0, <1>a, <1>1, SMT DEF tick, sup
<1>2. CASE UNCHANGED <<idle, setBack, hw, unfed, supervisor>>
  BY <1>2, <1>a
<1>3. CASE Check
  <2>1. CASE all_healthy
    <3>1. idle[u] <= Timeout
      BY <1>3, <2>1, HealthyIsQuiet DEF Check, tasks
    <3> QED
      BY <1>0, <1>3, <3>1, SMT DEF Check, tasks
  <2>2. CASE ~all_healthy
    BY <1>3, <1>a, <2>2 DEF Check, tasks
  <2> QED
    BY <2>1, <2>2
<1>4. CASE Elapse
  <2>1. idle'[u] <= idle[u] + 1
    BY <1>0, <1>4, SMT DEF Elapse
  <2>2. unfed' = unfed + 1 /\ u \notin setBack /\ hw = "armed" /\ supervisor = "running"
    BY <1>4 DEF Elapse
  <2>3. idle'[u] \in Nat
    BY <1>0, <1>4, SMT DEF Elapse
  <2> QED
    BY <1>0, <1>a, <2>1, <2>2, <2>3, SMT
<1>5. CASE SetClock
  BY <1>5, <1>a DEF SetClock, sup
<1>6. CASE Boot
  <2>1. idle'[u] = 0 /\ unfed' = 0
    BY <1>6 DEF Boot
  <2> QED
    BY <1>0, <2>1, SMT
<1>7. CASE Stop
  BY <1>7 DEF Stop
<1> QED
  BY <1>1, <1>2, <1>3, <1>4, <1>5, <1>6, <1>7, Zenon
  DEF Next, vars, tasks, sup, Hang, RequestShutdown, Reset

\* A check that finds a handle late has a reason, and a check that finds none
\* feeds, or has the failing device as its reason.
LEMMA NextFedOnTime ==
  TypeOK /\ Ahead /\ FedOnTime /\ [Next]_vars => FedOnTime'
<1> SUFFICES ASSUME TypeOK, Ahead, FedOnTime, [Next]_vars, ~excused'
             PROVE  /\ supervisor' = "running"
                    /\ unfed' + due' <= CheckInterval + MaxDelay
  BY DEF FedOnTime
<1>0. /\ due \in Nat /\ unfed \in Nat /\ CheckInterval \in Nat /\ MaxDelay \in Nat
  BY WatchdogConstants, IntervalNat, SMT DEF TypeOK
<1>a. ~excused => /\ supervisor = "running"
                  /\ unfed + due <= CheckInterval + MaxDelay
  BY DEF FedOnTime
<1>1. CASE UNCHANGED <<due, supervisor, unfed, excused>>
  BY <1>1, <1>a
<1>2. CASE Check
  <2>1. all_healthy
    BY <1>2, LateIsSilent, Zenon DEF Check
  <2>2. ~(excused' = TRUE)
    OBVIOUS
  <2>3. unfed' = 0
    BY <1>2, <2>1, <2>2, Zenon DEF Check
  <2>4. due' = CheckInterval + MaxDelay /\ supervisor' = supervisor /\ ~excused
    BY <1>2, <2>1, <2>2, Zenon DEF Check
  <2> QED
    BY <1>0, <1>a, <2>3, <2>4, SMT
<1>3. CASE Elapse
  <2>1. ~excused /\ supervisor' = supervisor
    BY <1>3 DEF Elapse
  <2>2. due' = due - 1
    BY <1>3, <1>a, <2>1 DEF Elapse
  <2>3. unfed' = unfed + 1 \/ unfed' = unfed
    BY <1>3 DEF Elapse
  <2> QED
    BY <1>0, <1>a, <2>1, <2>2, <2>3, SMT
<1>4. CASE Boot
  <2>1. unfed' = 0 /\ due' = MaxDelay /\ supervisor' = "running"
    BY <1>4 DEF Boot
  <2> QED
    BY <1>0, <2>1, SMT
<1>5. CASE Stop
  BY <1>5 DEF Stop
<1> QED
  BY <1>1, <1>2, <1>3, <1>4, <1>5, Zenon
  DEF Next, vars, tasks, sup, tick, Hang, RequestShutdown, SetClock, Reset

\* The hardware expires only behind the time the supervisor keeps.
LEMMA NextNoFalseReset ==
  TypeOK /\ FedOnTime /\ NoFalseReset /\ [Next]_vars => NoFalseReset'
<1> SUFFICES ASSUME TypeOK, FedOnTime, NoFalseReset, [Next]_vars,
                    camera' = "reset"
             PROVE  excused'
  BY DEF NoFalseReset
<1>1. CASE Reset
  <2>1. /\ due \in Nat /\ CheckInterval \in Nat /\ MaxDelay \in Nat
        /\ HwTimeout \in Nat /\ CheckInterval + MaxDelay < HwTimeout
    BY WatchdogConstants, IntervalNat, SMT DEF TypeOK
  <2>2. unfed = HwTimeout /\ excused' = excused
    BY <1>1 DEF Reset
  <2>3. ~(unfed + due <= CheckInterval + MaxDelay)
    BY <2>1, <2>2, SMT
  <2>4. excused
    BY <2>3 DEF FedOnTime
  <2> QED
    BY <2>2, <2>4
<1>2. CASE UNCHANGED vars
  BY <1>2 DEF vars, NoFalseReset
<1> QED
  BY <1>1, <1>2, Zenon
  DEF Next, tick, Hang, Check, Stop, RequestShutdown, Elapse, SetClock, Boot

-----------------------------------------------------------------------------

\* The invariant holds in every reachable state of the supervisor, the tasks, the
\* clock and the hardware.
THEOREM WatchdogInvariant == Spec => []WatchdogInv
<1>1. Init => WatchdogInv
  BY InitInv
<1>2. WatchdogInv /\ [Next]_vars => WatchdogInv'
  BY NextTypeOK, NextBehind, NextAhead, NextSilence, NextFedOnTime,
     NextNoFalseReset DEF WatchdogInv
<1> QED
  BY <1>1, <1>2, PTL DEF Spec

\* All values stay in their ranges: the u32 clock, the deadlines and the age of
\* the hardware watchdog.
THEOREM WatchdogTypes == Spec => []TypeOK
<1>1. WatchdogInv => TypeOK
  BY DEF WatchdogInv
<1> QED
  BY <1>1, WatchdogInvariant, PTL

\* For any timeouts and any number of tasks: a task whose clock has not gone
\* down is silent for at most the software limit plus the hardware's.
THEOREM HangIsBounded == Spec => []SilenceBounded
<1>1. WatchdogInv => SilenceBounded
  BY DEF WatchdogInv
<1> QED
  BY <1>1, WatchdogInvariant, PTL

\* A camera whose tasks tick in time and whose clock is only ever corrected
\* backwards is never reset, as long as feeding works.
THEOREM ResetHasReason == Spec => []NoFalseReset
<1>1. WatchdogInv => NoFalseReset
  BY DEF WatchdogInv
<1> QED
  BY <1>1, WatchdogInvariant, PTL
=============================================================================
