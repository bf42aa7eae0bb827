------------------------------ MODULE DayNight ------------------------------
(***************************************************************************)
(* The decision half of daynight_task (crates/atometd/src/daynight.rs):    *)
(* when the averaged brightness makes it switch.  What a switch does to    *)
(* the hardware and the shared state is in AppState.                       *)
(***************************************************************************)
EXTENDS Integers

CONSTANTS
  SampleCount,    \* samples in the average (10)
  THRESHOLD_LOW,  \* day to night below this (30)
  THRESHOLD_HIGH, \* night to day above this (70)
  INTERVAL,       \* seconds between two samples, at least (2)
  MinTransition,  \* MIN_TRANSITION_SECS (10)
  Levels          \* the brightness values that occur, of 0 .. 100

\* Before the first samples; in the middle of the band.
Neutral == 50

DayNightConstants ==
  /\ SampleCount \in Nat \ {0}
  /\ {THRESHOLD_LOW, THRESHOLD_HIGH} \subseteq 0 .. 100
  /\ THRESHOLD_LOW <= Neutral /\ Neutral <= THRESHOLD_HIGH /\ THRESHOLD_LOW < THRESHOLD_HIGH
  /\ INTERVAL \in Nat \ {0} /\ MinTransition \in Nat
  /\ Levels \subseteq 0 .. 100
  \* as many samples as the average needs to leave the band take the dwell time
  /\ \A n \in 0 .. SampleCount + 1 :
       \/ 100 * n > SampleCount * THRESHOLD_HIGH
       \/ 100 * n > SampleCount * (100 - THRESHOLD_LOW)
       => n * INTERVAL >= MinTransition

VARIABLES
  auto_daynight, \* the switch in AppState
  mode,          \* "Unknown", "Day", "Night"
  history,       \* ring buffer of samples
  history_idx,
  elapsed,       \* seconds since last_transition, up to MinTransition + 1
  fresh,         \* history: samples since last_transition, up to SampleCount
  dark,          \* history: the last samples in a row below THRESHOLD_LOW
  bright         \* history: those above THRESHOLD_HIGH, both up to 2 * SampleCount

vars == <<auto_daynight, mode, history, history_idx, elapsed, fresh, dark, bright>>

Slots == 0 .. SampleCount - 1

Filled(level) == [i \in Slots |-> level]

\* avg, times SampleCount: the slots added up from the first one on.
Sum(samples) ==
  LET total[n \in 0 .. SampleCount] ==
        IF n = 0 THEN 0 ELSE total[n - 1] + samples[n - 1]
  IN  total[SampleCount]

Below(samples) == Sum(samples) < THRESHOLD_LOW * SampleCount
Above(samples) == Sum(samples) > THRESHOLD_HIGH * SampleCount

AtMost(n, limit) == IF n < limit THEN n ELSE limit

-----------------------------------------------------------------------------

\* last_transition starts in the past, or now where the clock cannot go back.
Init ==
  /\ auto_daynight \in BOOLEAN
  /\ mode = "Unknown"
  /\ history = Filled(Neutral) /\ history_idx = 0
  /\ elapsed \in {0, MinTransition + 1}
  /\ fresh = 0 /\ dark = 0 /\ bright = 0

\* Mutated form: one threshold in the middle, no hysteresis.
target_at_middle(samples) ==
  IF 2 * Sum(samples) < (THRESHOLD_LOW + THRESHOLD_HIGH) * SampleCount
  THEN "Night" ELSE "Day"

target(samples) ==
  CASE mode # "Night" /\ Below(samples) -> "Night"
    [] mode # "Day" /\ Above(samples)   -> "Day"
    [] OTHER                            -> mode

dwelt == elapsed >= MinTransition \/ mode = "Unknown"

\* Mutated form: stale samples are kept.
HistoryAfterStale(samples, new) == samples

\* The history is reset so that stale samples do not bias the new mode.
HistoryAfter(samples, new) ==
  Filled(IF new = "Night" THEN 0 ELSE 100)

\* Mutated form: the index stops at the last slot.
next_idx_stuck == AtMost(history_idx + 1, SampleCount - 1)

next_idx == (history_idx + 1) % SampleCount

Slept == AtMost(elapsed + INTERVAL, MinTransition + 1)

\* One turn of the loop with a measurement, and the sleep after it.
Sample(brightness) ==
  LET samples == [history EXCEPT ![history_idx] = brightness]
      new     == target(samples)
      switch  == new # mode /\ dwelt
  IN  /\ auto_daynight
      /\ history_idx' = next_idx
      /\ mode' = IF switch THEN new ELSE mode
      /\ history' = IF switch THEN HistoryAfter(samples, new) ELSE samples
      /\ elapsed' = IF switch THEN AtMost(INTERVAL, MinTransition + 1) ELSE Slept
      /\ fresh' = IF switch THEN 0 ELSE AtMost(fresh + 1, SampleCount)
      /\ dark' = IF brightness < THRESHOLD_LOW
                 THEN AtMost(dark + 1, 2 * SampleCount) ELSE 0
      /\ bright' = IF brightness > THRESHOLD_HIGH
                   THEN AtMost(bright + 1, 2 * SampleCount) ELSE 0
      /\ UNCHANGED auto_daynight

\* One turn without: the switch is off, or the ISP gives no exposure.
Skip ==
  /\ elapsed' = Slept
  /\ UNCHANGED <<auto_daynight, mode, history, history_idx, fresh, dark, bright>>

SetAutoDaynight(on) ==
  /\ auto_daynight' = on
  /\ UNCHANGED <<mode, history, history_idx, elapsed, fresh, dark, bright>>

Next ==
  \/ \E brightness \in Levels : Sample(brightness)
  \/ Skip
  \/ \E on \in BOOLEAN : SetAutoDaynight(on)

Spec == Init /\ [][Next]_vars

-----------------------------------------------------------------------------
(* Properties *)

TypeOK ==
  /\ auto_daynight \in BOOLEAN /\ mode \in {"Unknown", "Day", "Night"}
  /\ history \in [Slots -> 0 .. 100] /\ history_idx \in Slots
  /\ elapsed \in 0 .. MinTransition + 1
  /\ fresh \in 0 .. SampleCount /\ {dark, bright} \subseteq 0 .. 2 * SampleCount

\* A camera that has switched does not switch back before enough new samples to
\* outweigh the threshold, however the light changes and the switch is toggled.
NoFlapping ==
  [][mode # "Unknown" /\ mode' # mode =>
       (fresh + 1) * 100 > SampleCount *
         (IF mode = "Night" THEN THRESHOLD_HIGH ELSE 100 - THRESHOLD_LOW)]_vars

\* The minimum dwell time never holds a switch back: where the average leaves
\* the hysteresis band the mode has followed (daynight.rs:87-89).
ModeFitsAverage ==
  /\ mode = "Day" => ~Below(history)
  /\ mode = "Night" => ~Above(history)
  /\ mode = "Unknown" => ~Below(history) /\ ~Above(history)

\* Two windows of samples on one side are enough for the mode to follow, also
\* when auto_daynight is switched off and on in between.  One is not: a sample
\* of the new scene may complete a switch for the old one, which fills the
\* history with its opposite.
FollowsScene ==
  /\ dark = 2 * SampleCount => mode = "Night"
  /\ bright = 2 * SampleCount => mode = "Day"

\* The mode fits what was measured, with the dwell time and without
\* (daynight.rs:57-119).
DayNightInv == TypeOK /\ ModeFitsAverage /\ FollowsScene
=============================================================================
