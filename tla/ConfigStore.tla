---------------------------- MODULE ConfigStore ----------------------------
(***************************************************************************)
(* The life of the daemon around AppState: start with load_config, save at *)
(* Ctrl+C, the reboot command, a kill by the init script, power loss       *)
(* (crates/atometd/src/main.rs, config.rs, system.rs,                      *)
(* overlay_rootfs/etc/init.d/S90atomet).  The file is read and rewritten   *)
(* through the page cache; only what reached the card survives power loss. *)
(***************************************************************************)
EXTENDS AppState

CONSTANT MaxBoots  \* bound: starts of the daemon

ASSUME MaxBootsNat == MaxBoots \in Nat

VARIABLES
  life,     \* "down", "up" or "rebooting"
  ended,    \* how it went down: "saved", "unsaved", "killed", "reboot", "power"
  saving,   \* save_config: "no", "snapshot", "truncated", "saved", "failed"
  snapshot, \* the PersistConfig taken at Ctrl+C
  cached,   \* what load_config would find in the file now
  card,     \* what it would find after a power loss
  applied,  \* every GPIO write of the last start succeeded
  boots,    \* starts so far
  late      \* history: settings changed after the snapshot

store     == <<life, ended, saving, snapshot, cached, card, applied, boots, late>>
storeVars == <<vars, store>>

\* A file that is missing, empty or unreadable gives the defaults.
NoConfig == [f \in PersistFields |-> Defaults[f]]

\* Mutated form: a setting is missing from PersistConfig.
RecordOnly(s) ==
  [f \in PersistFields |-> IF f = "record_enabled" THEN s[f] ELSE Defaults[f]]

\* PersistConfig::from
Persisted(s) == [f \in PersistFields |-> s[f]]

\* AppState::with_config
with_config(cfg) ==
  [f \in Fields |-> IF f \in PersistFields THEN cfg[f] ELSE Defaults[f]]

-----------------------------------------------------------------------------

\* Switched on, the daemon not started yet.
StoreInit ==
  /\ state = Defaults /\ hw = [d \in Devices |-> 0]
  /\ agent = [t \in Tasks |-> Idle]
  /\ measuring = FALSE /\ mode = "Unknown" /\ shutdown = FALSE
  /\ commands = 0
  /\ suspect = {} /\ asked = state /\ firm = {} /\ manual = FALSE
  /\ life = "down" /\ ended = "power" /\ saving = "no"
  /\ snapshot = NoConfig /\ cached = NoConfig /\ card = NoConfig
  /\ applied = FALSE /\ boots = 0 /\ late = FALSE

\* A GPIO line that is exported anew starts at 0; one that is already exported
\* keeps its value over a restart of the daemon.
Lines == IF ended \in {"power", "reboot"} THEN [d \in Devices |-> 0] ELSE hw

\* gpio_init cycles the filter and leaves it out, then the saved state is
\* applied: ircut_on and night_mode are volatile and have their defaults.
Started(lines) ==
  [lines EXCEPT !["trig1"] = 0, !["trig2"] = 0, !["isp"] = 0]

\* A write of the start that fails leaves the filter anywhere.
StartedBadly(lines) ==
  {[lines EXCEPT !["trig1"] = i, !["trig2"] = j, !["isp"] = 0] :
     i \in {0, 1}, j \in {0, 1}}

Boot ==
  /\ life = "down" /\ boots < MaxBoots
  /\ life' = "up" /\ boots' = boots + 1
  /\ state' = with_config(cached)
  /\ \/ hw' = Started(Lines) /\ applied' = TRUE
     \/ hw' \in StartedBadly(Lines) /\ applied' = FALSE
  /\ agent' = [t \in Tasks |-> Idle]
  /\ measuring' = FALSE /\ mode' = "Unknown" /\ shutdown' = FALSE
  /\ saving' = "no" /\ late' = FALSE
  /\ suspect' = {} /\ asked' = state' /\ firm' = {} /\ manual' = FALSE
  /\ UNCHANGED <<commands, ended, snapshot, cached, card>>

\* The tasks run, also while the configuration is being saved.
Run ==
  /\ life # "down"
  /\ \/ \E c \in Clients : Receive(c) \/ StoreClone(c)
     \/ \E t \in Tasks : HwWrite(t) \/ HwWriteFails(t)
     \/ Measure
     \/ \E target \in {"Unknown", "Day", "Night"} : Decide(target)
     \/ StoreTransition
  /\ late' = (late \/ (saving # "no" /\ Persisted(state') # Persisted(state)))
  /\ UNCHANGED <<life, ended, saving, snapshot, cached, card, applied, boots>>

\* Only SIGINT is handled, and once.
CtrlC ==
  /\ life # "down" /\ saving = "no"
  /\ saving' = "snapshot"
  /\ snapshot' = Persisted(state)
  /\ RequestShutdown
  /\ UNCHANGED <<life, ended, cached, card, applied, boots, late>>

\* tokio::fs::write opens with O_TRUNC, then writes.
SaveTruncate ==
  /\ life # "down" /\ saving = "snapshot"
  /\ saving' = "truncated"
  /\ cached' = NoConfig
  /\ UNCHANGED <<vars, life, ended, snapshot, card, applied, boots, late>>

SaveWrite ==
  /\ life # "down" /\ saving = "truncated"
  /\ saving' = "saved"
  /\ cached' = snapshot
  /\ UNCHANGED <<vars, life, ended, snapshot, card, applied, boots, late>>

\* The error is logged and the shutdown goes on.
SaveFails ==
  /\ life # "down" /\ saving \in {"snapshot", "truncated"}
  /\ saving' = "failed"
  /\ UNCHANGED <<vars, life, ended, snapshot, cached, card, applied, boots, late>>

GoDown(how) == life' = "down" /\ ended' = how

\* The web server has shut down and main returns; running tasks are dropped.
Exit ==
  /\ life # "down" /\ saving \in {"saved", "failed"}
  /\ GoDown(IF saving = "saved" THEN "saved" ELSE "unsaved")
  /\ UNCHANGED <<vars, saving, snapshot, cached, card, applied, boots, late>>

\* The command only starts /sbin/reboot.
RebootCommand(c) ==
  /\ life = "up" /\ c \notin Busy /\ commands < MaxCommands
  /\ life' = "rebooting" /\ commands' = commands + 1
  /\ UNCHANGED <<state, hw, agent, measuring, mode, shutdown, hist, ended,
                 saving, snapshot, cached, card, applied, boots, late>>

\* The system goes down: SIGTERM, which nothing handles, then umount.
Reboot ==
  /\ life = "rebooting"
  /\ GoDown("reboot") /\ card' = cached
  /\ UNCHANGED <<vars, saving, snapshot, cached, applied, boots, late>>

\* `S90atomet stop`: SIGTERM.
Kill ==
  /\ life # "down"
  /\ GoDown("killed")
  /\ UNCHANGED <<vars, saving, snapshot, cached, card, applied, boots, late>>

Flush ==
  /\ card' = cached
  /\ UNCHANGED <<vars, life, ended, saving, snapshot, cached, applied, boots, late>>

PowerLoss ==
  /\ GoDown("power") /\ cached' = card
  /\ UNCHANGED <<vars, saving, snapshot, card, applied, boots, late>>

StoreNext ==
  \/ Boot \/ Run
  \/ CtrlC \/ SaveTruncate \/ SaveWrite \/ SaveFails \/ Exit
  \/ \E c \in Clients : RebootCommand(c)
  \/ Reboot \/ Kill \/ Flush \/ PowerLoss

StoreSpec == StoreInit /\ [][StoreNext]_storeVars

-----------------------------------------------------------------------------
(* Properties *)

Starts == life = "down" /\ life' = "up"

Survives(fields) == \A f \in fields : state'[f] = state[f]

\* What PersistConfig holds comes back as it was when the daemon was ended by
\* Ctrl+C and its save succeeded, unless it was changed while saving
\* (config.rs:64-102, main.rs:270-274).
ConfigSurvives ==
  [][Starts /\ ended = "saved" /\ ~late => Survives(PersistFields)]_storeVars

\* However the daemon ended, in the middle of whatever command, a start whose
\* writes succeed puts the filter and the ISP where the fresh state says
\* (gpio_init, main.rs:91-106, isp_init).
StartRestoresFilter ==
  [][Starts /\ applied' => Agrees("ircut_on")' /\ Agrees("night_mode")']_storeVars

\* A start finds what the last life left for it, in the file and at the outputs
\* (config.rs:145-170, main.rs:91-106).
StartsRight == ConfigSurvives /\ StartRestoresFilter

\* The comment at main.rs:99, "Apply saved GPIO state": after a start whose
\* writes succeed every output is as the state says.
StartAppliesState ==
  [][Starts /\ applied' => \A f \in HwFields : Agrees(f)']_storeVars

\* The comment at config.rs:29, "Persisted (survives reboot)", over the fields
\* below it that commands can change: they survive the reboot that the web
\* interface offers.
RebootKeepsSettings ==
  [][Starts /\ ended = "reboot" =>
       Survives({"record_enabled", "auto_daynight", "show_timestamp"})]_storeVars
=============================================================================
