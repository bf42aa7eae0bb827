------------------------------ MODULE AppState ------------------------------
(***************************************************************************)
(* The settings of the camera: the shared AppState (crates/atometd/src/    *)
(* config.rs), the WebSocket commands that change it (websocket.rs), and   *)
(* the switching half of the day/night task (daynight.rs), together with   *)
(* the GPIO lines and the ISP mode they drive (gpio.rs).                   *)
(*                                                                         *)
(* The camera's kernel is built for one CPU (configs/kernel.config:186),   *)
(* so the async tasks share one worker thread and are interrupted at their *)
(* awaits only.  Every GPIO write and every ISP mode switch is awaited.    *)
(***************************************************************************)
EXTENDS Integers, Sequences

CONSTANTS
  Clients,     \* WebSocket connections; each handles one command at a time
  Commands,    \* the commands they send
  MaxCommands  \* bound: commands over the whole behaviour

HwFields   == {"night_mode", "ircut_on", "irled_on", "led_on"}
SoftFields == {"auto_daynight", "record_enabled", "show_timestamp"}
Fields     == HwFields \cup SoftFields
Settings   == [Fields -> BOOLEAN]
Command    == [set : Fields, to : BOOLEAN]
HwSetting  == [set : HwFields, to : BOOLEAN]

ASSUME AppStateConstants ==
  /\ Commands \subseteq Command /\ MaxCommands \in Nat
  /\ "daynight" \notin Clients

VARIABLES
  state,     \* the AppState behind the ArcSwap
  hw,        \* what every output was last set to
  agent,     \* per task: the command or transition it is executing
  measuring, \* the day/night task is between its switch check and its decision
  mode,      \* the mode the day/night task believes in
  shutdown,
  commands,  \* commands sent so far
  suspect,   \* history: settings driven by two tasks at a time, or by a write
             \* that failed, and not set cleanly since
  asked,     \* history: the last value a client asked for
  firm,      \* history: settings asked for while no other command was running
  manual     \* history: night mode commanded since the last transition

hist == <<suspect, asked, firm, manual>>
vars == <<state, hw, agent, measuring, mode, shutdown, commands, hist>>

Tasks   == Clients \cup {"daynight"}
Devices == {"trig1", "trig2", "irled", "isp", "led"}

-----------------------------------------------------------------------------
(* What a handler does to the hardware, write by write. *)

Bit(b) == IF b THEN 1 ELSE 0

Write(dev, val) == [dev |-> dev, val |-> val]

\* Mutated form: one of the two trigger lines is forgotten.
ircut_one_line(on) == <<Write("trig2", Bit(~on))>>

\* Both trigger lines, 100 ms apart; 0 puts the filter in.
ircut(on) == <<Write("trig2", Bit(~on)), Write("trig1", Bit(~on))>>

irled(on) == Write("irled", Bit(on))

\* The status LED is active low.
led(on) == Write("led", Bit(~on))

isp(night) == Write("isp", Bit(night))

apply_night == ircut(FALSE) \o <<irled(TRUE), isp(TRUE)>>
apply_day   == <<isp(FALSE), irled(FALSE)>> \o ircut(TRUE)

Writes(cmd) ==
  CASE cmd.set = "night_mode" -> IF cmd.to THEN apply_night ELSE apply_day
    [] cmd.set = "ircut_on"   -> ircut(cmd.to)
    [] cmd.set = "irled_on"   -> <<irled(cmd.to)>>
    [] cmd.set = "led_on"     -> <<led(cmd.to)>>

\* A failing write ends its own function: the second trigger line is skipped.
AfterFailure(writes) ==
  LET rest == Tail(writes)
  IN  IF rest # << >> /\ Head(writes).dev = "trig2" /\ Head(rest).dev = "trig1"
      THEN Tail(rest)
      ELSE rest

-----------------------------------------------------------------------------
(* What a handler does to the settings. *)

NightFields == {"night_mode", "ircut_on", "irled_on"}

Driven(cmd) == IF cmd.set = "night_mode" THEN NightFields ELSE {cmd.set}

WithMode(s, night) ==
  [s EXCEPT !.night_mode = night, !.ircut_on = ~night, !.irled_on = night]

Modified(s, cmd) ==
  IF cmd.set = "night_mode" THEN WithMode(s, cmd.to)
                            ELSE [s EXCEPT ![cmd.set] = cmd.to]

Defaults ==
  [f \in Fields |-> f \in {"ircut_on", "led_on", "show_timestamp"}]

\* PersistConfig; a file written at Ctrl+C may hold any value of these.
PersistFields == {"auto_daynight", "record_enabled"}

\* Outputs h show the value that setting f has in s.
Shows(h, s, f) ==
  CASE f = "night_mode" -> h["isp"] = Bit(s.night_mode)
    [] f = "ircut_on"   -> /\ h["trig1"] = Bit(~s.ircut_on)
                           /\ h["trig2"] = Bit(~s.ircut_on)
    [] f = "irled_on"   -> h["irled"] = Bit(s.irled_on)
    [] f = "led_on"     -> h["led"] = Bit(~s.led_on)

Agrees(f) == Shows(hw, state, f)

-----------------------------------------------------------------------------

Idle == [is |-> "idle"]

\* "mixed": another task drove hardware meanwhile, or a write failed.
Running(cmd, clone, is) ==
  [is |-> is, cmd |-> cmd, clone |-> clone, writes |-> Writes(cmd)]

Busy == {t \in Tasks : agent[t].is # "idle"}

DrivenNow == UNION {Driven(agent[t].cmd) : t \in Busy}

\* After a start of the daemon that set every output.
Init ==
  /\ state \in {s \in Settings :
                  \A f \in Fields \ PersistFields : s[f] = Defaults[f]}
  /\ hw = [d \in Devices |-> 0]
  /\ agent = [t \in Tasks |-> Idle]
  /\ measuring = FALSE /\ mode = "Unknown" /\ shutdown = FALSE
  /\ commands = 0
  /\ suspect = {} /\ asked = state /\ firm = {} /\ manual = FALSE

\* Task t begins to drive the hardware; whoever else is at it is in its way.
Begin(t, cmd, clone) ==
  /\ agent' = [u \in Tasks |->
                 IF u = t THEN Running(cmd, clone, IF Busy = {} THEN "alone" ELSE "mixed")
                 ELSE IF u \in Busy THEN [agent[u] EXCEPT !.is = "mixed"]
                 ELSE agent[u]]
  /\ suspect' = IF Busy = {} THEN suspect
                ELSE suspect \cup Driven(cmd) \cup DrivenNow

\* A command with awaited writes: the clone is taken before the first of them.
HwCommand(c, cmd) ==
  /\ cmd.set \in HwFields
  /\ Begin(c, cmd, Modified(state, cmd))
  /\ manual' = (manual \/ cmd.set = "night_mode")
  /\ UNCHANGED <<state, asked, firm>>

\* A command without await loads, changes and stores in one go.
SoftCommand(cmd) ==
  /\ cmd.set \in SoftFields
  /\ state' = Modified(state, cmd)
  /\ asked' = [asked EXCEPT ![cmd.set] = cmd.to]
  /\ firm' = IF Busy \ {"daynight"} = {} THEN firm \cup {cmd.set}
                                         ELSE firm \ {cmd.set}
  /\ UNCHANGED <<agent, suspect, manual>>

Receive(c) ==
  /\ c \notin Busy /\ commands < MaxCommands
  /\ commands' = commands + 1
  /\ \E cmd \in Commands : HwCommand(c, cmd) \/ SoftCommand(cmd)
  /\ UNCHANGED <<hw, measuring, mode, shutdown>>

HwWrite(t) ==
  /\ t \in Busy /\ agent[t].writes # << >>
  /\ LET w == Head(agent[t].writes) IN hw' = [hw EXCEPT ![w.dev] = w.val]
  /\ agent' = [agent EXCEPT ![t].writes = Tail(@)]
  /\ UNCHANGED <<state, measuring, mode, shutdown, commands, hist>>

\* The result of every write is ignored (`let _ =`).
HwWriteFails(t) ==
  /\ t \in Busy /\ agent[t].writes # << >>
  /\ agent' = [agent EXCEPT ![t].writes = AfterFailure(@), ![t].is = "mixed"]
  /\ suspect' = suspect \cup Driven(agent[t].cmd)
  /\ UNCHANGED <<state, hw, measuring, mode, shutdown, commands, asked, firm,
                 manual>>

Done(t) ==
  /\ t \in Busy /\ agent[t].writes = << >>
  /\ agent' = [agent EXCEPT ![t] = Idle]
  /\ suspect' = IF agent[t].is = "alone"
                THEN suspect \ Driven(agent[t].cmd) ELSE suspect
  /\ UNCHANGED <<hw, measuring, shutdown, commands, asked, firm>>

\* The handler stores its clone, whatever was stored since it was taken.
StoreClone(c) ==
  /\ Done(c)
  /\ state' = agent[c].clone
  /\ UNCHANGED <<mode, manual>>

\* The switch is read before the awaited measurement.
Measure ==
  /\ ~shutdown /\ state.auto_daynight
  /\ ~measuring /\ "daynight" \notin Busy
  /\ measuring' = TRUE
  /\ UNCHANGED <<state, hw, agent, mode, shutdown, commands, hist>>

\* Which target the brightness leads to is left open; see DayNight.
Decide(target) ==
  /\ measuring
  /\ measuring' = FALSE
  /\ \/ /\ target = mode
        /\ UNCHANGED <<agent, suspect>>
     \/ /\ target \notin {mode, "Unknown"}
        /\ Begin("daynight", [set |-> "night_mode", to |-> target = "Night"],
                 Defaults)
  /\ UNCHANGED <<state, hw, mode, shutdown, commands, asked, firm, manual>>

\* Mutated form: the settings are cloned before the hardware is switched.
TransitionOf(night) == WithMode(Defaults, night)

\* Mutated form: only the outputs are recorded.
TransitionOutputs(night) ==
  [state EXCEPT !.ircut_on = ~night, !.irled_on = night]

\* The settings the task stores: loaded after the hardware was switched.
Transition(night) == WithMode(state, night)

StoreTransition ==
  /\ Done("daynight")
  /\ LET night == agent["daynight"].cmd.to
     IN  /\ state' = Transition(night)
         /\ mode' = IF night THEN "Night" ELSE "Day"
  /\ manual' = FALSE

RequestShutdown ==
  /\ shutdown' = TRUE
  /\ UNCHANGED <<state, hw, agent, measuring, mode, commands, hist>>

Next ==
  \/ \E c \in Clients : Receive(c) \/ StoreClone(c)
  \/ \E t \in Tasks : HwWrite(t) \/ HwWriteFails(t)
  \/ Measure
  \/ \E target \in {"Unknown", "Day", "Night"} : Decide(target)
  \/ StoreTransition
  \/ RequestShutdown

Spec == Init /\ [][Next]_vars

-----------------------------------------------------------------------------
(* Properties *)

Agents ==
  {Idle} \cup
  [is : {"alone", "mixed"}, cmd : HwSetting, clone : Settings,
   writes : Seq([dev : Devices, val : {0, 1}])]

TypeOK ==
  /\ state \in Settings
  /\ hw \in [Devices -> {0, 1}]
  /\ agent \in [Tasks -> Agents]
  /\ measuring \in BOOLEAN /\ mode \in {"Unknown", "Day", "Night"}
  /\ measuring => "daynight" \notin Busy
  /\ shutdown \in BOOLEAN /\ commands \in Nat
  /\ suspect \subseteq HwFields /\ asked \in Settings
  /\ firm \subseteq SoftFields /\ manual \in BOOLEAN

\* A device that nobody is driving shows its setting, and the IR cut is in one
\* of its two positions, unless two tasks drove hardware at the same time or a
\* write failed; one command that runs alone repairs its own settings
\* (handle_command, apply_night, apply_day, ircut_on, ircut_off).
Agreement == \A f \in HwFields \ (suspect \cup DrivenNow) : Agrees(f)

\* A setting asked for while no other command is running is kept until it is
\* asked for again, although every handler stores a whole AppState and the
\* day/night task stores one in the middle of anything (websocket.rs:109, 203,
\* daynight.rs:107-112).
AskedIsKept == \A f \in firm : state[f] = asked[f]

\* The day/night task knows the mode the camera is in, unless night mode was
\* commanded by hand since its last transition, or a concurrent handler took
\* part (daynight.rs:32, 114).
TaskKnowsMode ==
  /\ mode # "Unknown" /\ ~manual
  /\ "daynight" \notin Busy /\ "night_mode" \notin suspect
  => state.night_mode = (mode = "Night")
=============================================================================
