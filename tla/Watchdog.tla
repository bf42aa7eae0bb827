------------------------------ MODULE Watchdog ------------------------------
(***************************************************************************)
(* Task liveness supervision (crates/atometd/src/watchdog.rs): every task  *)
(* stores the wall clock when it ticks; the supervisor compares the stored *)
(* values with the wall clock and feeds the hardware watchdog, which       *)
(* resets the camera when it is not fed in time.                           *)
(*                                                                         *)
(* The stored time is SystemTime in milliseconds cut down to u32.  So the  *)
(* clock the code sees wraps (every 49.7 days) and jumps when ntpd sets    *)
(* the time; the true time a task has been silent is kept beside it.       *)
(***************************************************************************)
EXTENDS Naturals

CONSTANTS
  Tasks,
  Wrap,           \* 2^32: the wall clock in a u32
  Timeout,        \* WatchdogSupervisor.timeout, 10 s
  HwTimeout,      \* HwWatchdog::init(15)
  MaxDelay,       \* how late the supervisor's sleep may end
  MaxIdle,        \* bound: true silence is counted up to here
  MaxClockSteps   \* bound: corrections of the wall clock per boot

CheckInterval == Timeout \div 2

ASSUME WatchdogConstants ==
  /\ Wrap \in Nat /\ Timeout \in Nat \ {0} /\ HwTimeout \in Nat
  /\ MaxDelay \in Nat /\ MaxIdle \in Nat /\ MaxClockSteps \in Nat
  /\ Timeout < Wrap
  /\ CheckInterval + MaxDelay < HwTimeout
  /\ Timeout + HwTimeout < MaxIdle

VARIABLES
  now_millis,  \* the wall clock as u32
  last_tick,   \* per task: the clock at its last tick
  stuck,       \* tasks that will never tick again
  due,         \* time left until the supervisor has checked at the latest
  supervisor,  \* "running", or "stopped" by the shutdown flag
  shutdown,
  hw,          \* the hardware watchdog: "armed" or "off"
  unfed,       \* time since it was fed
  camera,      \* "up" or "reset"
  idle,        \* history: true time since each task's last tick
  setBack,     \* history: tasks since whose tick the u32 clock went down
  setForward,  \* history: tasks since whose tick the clock was put forward
  steps,       \* corrections of the clock since boot
  excused      \* history: there was a reason not to feed since boot

tasks == <<last_tick, stuck, idle, setBack, setForward>>
sup   == <<due, supervisor, shutdown, hw>>
vars  == <<now_millis, tasks, sup, unfed, camera, steps, excused>>

Clock == 0 .. Wrap - 1

-----------------------------------------------------------------------------

\* main: the handles are created at the current time, then the loop starts.
\* /dev/watchdog may be missing.
Init ==
  /\ now_millis \in Clock
  /\ last_tick = [t \in Tasks |-> now_millis]
  /\ stuck = {} /\ idle = [t \in Tasks |-> 0]
  /\ setBack = {} /\ setForward = {}
  /\ due = MaxDelay /\ supervisor = "running" /\ shutdown = FALSE
  /\ hw \in {"armed", "off"} /\ unfed = 0
  /\ camera = "up" /\ steps = 0 /\ excused = FALSE

tick(t) ==
  /\ camera = "up" /\ t \notin stuck
  /\ last_tick' = [last_tick EXCEPT ![t] = now_millis]
  /\ idle' = [idle EXCEPT ![t] = 0]
  /\ setBack' = setBack \ {t} /\ setForward' = setForward \ {t}
  /\ UNCHANGED <<now_millis, stuck, sup, unfed, camera, steps, excused>>

\* A task hangs for good: a deadlock, or an ISP call that never returns.
Hang(t) ==
  /\ camera = "up" /\ t \notin stuck
  /\ stuck' = stuck \cup {t}
  /\ UNCHANGED <<now_millis, last_tick, idle, setBack, setForward, sup, unfed,
                 camera, steps, excused>>

\* Mutated form: the difference wraps instead of saturating.
elapsed_wrapping(t) == (now_millis + Wrap - last_tick[t]) % Wrap

\* saturating_sub
elapsed_ms(t) ==
  IF now_millis > last_tick[t] THEN now_millis - last_tick[t] ELSE 0

\* Mutated forms: one healthy handle is enough; a handle has twice its time.
any_healthy == \E t \in Tasks : elapsed_ms(t) <= Timeout
healthy_at_double == \A t \in Tasks : elapsed_ms(t) <= 2 * Timeout

all_healthy == \A t \in Tasks : elapsed_ms(t) <= Timeout

\* One pass of the supervisor's loop; the ioctl that feeds may fail.
Check ==
  /\ camera = "up" /\ supervisor = "running" /\ ~shutdown /\ due <= MaxDelay
  /\ due' = CheckInterval + MaxDelay
  /\ \/ all_healthy  /\ unfed' = 0 /\ UNCHANGED excused
     \/ all_healthy  /\ excused' = TRUE /\ UNCHANGED unfed
     \/ ~all_healthy /\ UNCHANGED unfed
        /\ excused' = (excused \/ \E t \in Tasks :
                                     idle[t] > Timeout \/ t \in setForward)
  /\ UNCHANGED <<now_millis, tasks, supervisor, shutdown, hw, camera, steps>>

\* The loop ends and the device is closed; whether that disarms it is up to the
\* kernel's driver.
Stop ==
  /\ camera = "up" /\ supervisor = "running" /\ shutdown /\ due <= MaxDelay
  /\ supervisor' = "stopped" /\ excused' = TRUE
  /\ hw' \in {hw, "off"}
  /\ UNCHANGED <<now_millis, tasks, due, shutdown, unfed, camera, steps>>

RequestShutdown ==
  /\ camera = "up" /\ ~shutdown
  /\ shutdown' = TRUE
  /\ UNCHANGED <<now_millis, tasks, due, supervisor, hw, unfed, camera, steps,
                 excused>>

\* `as u32`
next_millis == (now_millis + 1) % Wrap

\* Time passes for everybody; neither the supervisor's sleep nor the hardware
\* lets it pass beyond its deadline.
Elapse ==
  /\ camera = "up"
  /\ supervisor = "running" => due > 0
  /\ hw = "armed" => unfed < HwTimeout
  /\ now_millis' = next_millis
  /\ setBack' = IF next_millis < now_millis THEN Tasks ELSE setBack
  /\ idle' = [t \in Tasks |-> IF idle[t] < MaxIdle THEN idle[t] + 1 ELSE MaxIdle]
  /\ due' = IF supervisor = "running" THEN due - 1 ELSE due
  /\ unfed' = IF hw = "armed" THEN unfed + 1 ELSE unfed
  /\ UNCHANGED <<last_tick, stuck, setForward, supervisor, shutdown, hw, camera,
                 steps, excused>>

\* ntpd, or date -s at boot, sets the clock.
SetClock ==
  /\ camera = "up" /\ steps < MaxClockSteps
  /\ now_millis' \in Clock \ {now_millis}
  /\ setBack' = IF now_millis' < now_millis THEN Tasks ELSE setBack
  /\ setForward' = IF now_millis' > now_millis THEN Tasks ELSE setForward
  /\ steps' = steps + 1
  /\ UNCHANGED <<last_tick, stuck, idle, sup, unfed, camera, excused>>

\* The hardware watchdog expires.
Reset ==
  /\ camera = "up" /\ hw = "armed" /\ unfed = HwTimeout
  /\ camera' = "reset"
  /\ UNCHANGED <<now_millis, tasks, sup, unfed, steps, excused>>

\* The daemon starts again, as in Init.
Boot ==
  /\ camera = "reset"
  /\ now_millis' \in Clock
  /\ last_tick' = [t \in Tasks |-> now_millis']
  /\ stuck' = {} /\ idle' = [t \in Tasks |-> 0]
  /\ setBack' = {} /\ setForward' = {}
  /\ due' = MaxDelay /\ supervisor' = "running" /\ shutdown' = FALSE
  /\ hw' \in {"armed", "off"} /\ unfed' = 0
  /\ camera' = "up" /\ steps' = 0 /\ excused' = FALSE

Next ==
  \/ \E t \in Tasks : tick(t) \/ Hang(t)
  \/ Check \/ Stop \/ RequestShutdown
  \/ Elapse \/ SetClock \/ Reset \/ Boot

\* Time passes, the supervisor's timer fires and the hardware acts on its own
\* deadline; no task has to tick and nobody has to press Ctrl+C.
Fairness == WF_vars(Elapse) /\ WF_vars(Check) /\ WF_vars(Stop) /\ WF_vars(Reset)

Spec == Init /\ [][Next]_vars /\ Fairness

-----------------------------------------------------------------------------
(* Properties *)

TypeOK ==
  /\ now_millis \in Clock /\ last_tick \in [Tasks -> Clock]
  /\ stuck \subseteq Tasks /\ idle \in [Tasks -> 0 .. MaxIdle]
  /\ setBack \subseteq Tasks /\ setForward \subseteq Tasks
  /\ due \in 0 .. CheckInterval + MaxDelay
  /\ supervisor \in {"running", "stopped"} /\ shutdown \in BOOLEAN
  /\ hw \in {"armed", "off"} /\ unfed \in 0 .. HwTimeout
  /\ camera \in {"up", "reset"} /\ steps \in 0 .. MaxClockSteps
  /\ excused \in BOOLEAN

\* While the hardware watchdog runs, no task is silent for longer than the
\* software limit plus the time the hardware has gone unfed, unless the clock
\* went down since its last tick: the camera is reset within 25 s of a hang.
SilenceBounded ==
  hw = "armed" /\ supervisor = "running" =>
    \A t \in Tasks \ setBack : idle[t] <= Timeout + unfed

\* The camera is never reset without reason: either a task really was silent
\* for longer than its limit, or the clock was put forward under its feet, or
\* feeding failed, or the daemon was told to stop.
NoFalseReset == camera = "reset" => excused

\* A task that hangs early enough before the u32 clock wraps leads to a reset,
\* however the clock was corrected in between, unless the daemon is stopped.
HangIsReset ==
  \A t \in Tasks :
    t \in stuck /\ hw = "armed" /\ last_tick[t] + Timeout + HwTimeout < Wrap
      ~> camera = "reset" \/ shutdown

\* The doc comment at watchdog.rs:128, "Checks all handles and feeds HW watchdog
\* when healthy": it is not fed while a task is over its limit.
FedOnlyWhenHealthy ==
  [][camera = "up" /\ unfed' < unfed => \A t \in Tasks : idle[t] <= Timeout]_vars
=============================================================================
