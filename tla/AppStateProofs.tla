--------------------------- MODULE AppStateProofs ---------------------------
(***************************************************************************)
(* Safety of the shared settings for every set of clients and commands.    *)
(* The stored clones are the difficulty: a handler carries a whole         *)
(* AppState through its awaits, so the invariant says which parts of each  *)
(* clone are still current.                                                *)
(***************************************************************************)
EXTENDS AppState, SequenceTheorems, TLAPS

\* A clone in flight has every setting that must be kept.
CloneKept ==
  \A c \in Clients \cap Busy : \A f \in firm : agent[c].clone[f] = asked[f]

\* A clone in flight is current in what nobody drives, and has what its own
\* command asks for.
CloneCurrent ==
  \A c \in Clients \cap Busy :
    /\ \A f \in HwFields \ (suspect \cup DrivenNow) : agent[c].clone[f] = state[f]
    /\ \A f \in Driven(agent[c].cmd) :
         agent[c].clone[f] = Modified(Defaults, agent[c].cmd)[f]

Alone(t) == t \in Tasks /\ agent[t].is = "alone"
Mixed(t) == t \in Tasks /\ agent[t].is = "mixed"

\* A task that believes to be alone is.
AloneIsOnly == \A t \in Tasks : Alone(t) => Busy = {t}

\* What a task drives that is not, is suspect.
MixedIsSuspect ==
  \A t \in Tasks : Mixed(t) => Driven(agent[t].cmd) \subseteq suspect

\* A task makes only the writes of its command.
WritesOwn ==
  \A t \in Busy : \A i \in DOMAIN agent[t].writes :
    \E j \in DOMAIN Writes(agent[t].cmd) :
      agent[t].writes[i] = Writes(agent[t].cmd)[j]

\* Each write of a task that is alone is still to come or shows.
WritesLeft ==
  \A t \in Tasks : Alone(t) =>
    LET all == Writes(agent[t].cmd)  left == agent[t].writes
    IN  \A j \in DOMAIN all : \/ \E i \in DOMAIN left : left[i] = all[j]
                              \/ hw[all[j].dev] = all[j].val

\* A command for the night mode that runs alone is remembered.
ManualKnown ==
  \A c \in Clients : Alone(c) /\ agent[c].cmd.set = "night_mode" => manual

\* The day/night task drives the night mode.
TransitionIsNight ==
  "daynight" \in Busy => agent["daynight"].cmd.set = "night_mode"

AppStateInv ==
  /\ TypeOK /\ Agreement /\ AskedIsKept /\ TaskKnowsMode
  /\ CloneKept /\ CloneCurrent /\ AloneIsOnly /\ MixedIsSuspect
  /\ WritesOwn /\ WritesLeft /\ ManualKnown /\ TransitionIsNight

-----------------------------------------------------------------------------

\* Two pairs of writes make four.
LEMMA TwoPairs ==
  ASSUME NEW S, NEW a \in S, NEW b \in S, NEW c \in S, NEW d \in S
  PROVE  <<a, b>> \o <<c, d>> = <<a, b, c, d>>
<1> DEFINE s == <<a, b>> \o <<c, d>>
           t == <<a, b, c, d>>
<1>1. s \in Seq(S) /\ t \in Seq(S)
  <2>1. <<a, b>> \in Seq(S) /\ <<c, d>> \in Seq(S)
    BY SMT
  <2> QED
    BY <2>1, SMT
<1>2. Len(s) = 4 /\ \A i \in 1 .. 4 : s[i] = t[i]
  BY SMT
<1>3. Len(t) = 4
  BY SMT
<1> HIDE DEF s, t
<1>4. s = t
  BY <1>1, <1>2, <1>3, SeqEqual
<1> QED
  BY <1>4 DEF s, t

\* The writes of every command, spelled out.
LEMMA WritesSpelled ==
  ASSUME NEW to \in BOOLEAN
  PROVE  /\ Writes([set |-> "night_mode", to |-> to]) =
              IF to THEN <<Write("trig2", 1), Write("trig1", 1),
                           Write("irled", 1), Write("isp", 1)>>
              ELSE <<Write("isp", 0), Write("irled", 0),
                     Write("trig2", 0), Write("trig1", 0)>>
         /\ Writes([set |-> "ircut_on", to |-> to]) =
              <<Write("trig2", Bit(~to)), Write("trig1", Bit(~to))>>
         /\ Writes([set |-> "irled_on", to |-> to]) = <<Write("irled", Bit(to))>>
         /\ Writes([set |-> "led_on", to |-> to]) = <<Write("led", Bit(~to))>>
<1> DEFINE S == {Write(d, v) : d \in Devices, v \in {0, 1}}
<1>0. \A d \in Devices, v \in {0, 1} : Write(d, v) \in S
  OBVIOUS
<1> HIDE DEF S
<1>1. Bit(TRUE) = 1 /\ Bit(FALSE) = 0 /\ Bit(~FALSE) = 1 /\ Bit(~TRUE) = 0
  BY DEF Bit
<1>2. apply_night = <<Write("trig2", 1), Write("trig1", 1),
                      Write("irled", 1), Write("isp", 1)>>
  <2>1. /\ Write("trig2", 1) \in S /\ Write("trig1", 1) \in S
        /\ Write("irled", 1) \in S /\ Write("isp", 1) \in S
    BY <1>0 DEF Devices
  <2>2. apply_night = <<Write("trig2", 1), Write("trig1", 1)>> \o <<Write("irled", 1), Write("isp", 1)>>
    BY <1>1 DEF apply_night, ircut, irled, isp
  <2> QED
    BY <2>1, <2>2, TwoPairs
<1>3. apply_day = <<Write("isp", 0), Write("irled", 0),
                    Write("trig2", 0), Write("trig1", 0)>>
  <2>1. /\ Write("trig2", 0) \in S /\ Write("trig1", 0) \in S
        /\ Write("irled", 0) \in S /\ Write("isp", 0) \in S
    BY <1>0 DEF Devices
  <2>2. apply_day = <<Write("isp", 0), Write("irled", 0)>> \o <<Write("trig2", 0), Write("trig1", 0)>>
    BY <1>1 DEF apply_day, ircut, irled, isp
  <2> QED
    BY <2>1, <2>2, TwoPairs
<1> QED
  BY <1>2, <1>3, SMT DEF Writes, ircut, irled, led

\* A switch to night or day sets three settings and leaves the others.
LEMMA WithModeSettings ==
  ASSUME NEW s \in Settings, NEW to \in BOOLEAN
  PROVE  /\ WithMode(s, to) \in Settings
         /\ WithMode(s, to)["night_mode"] = to
         /\ WithMode(s, to)["ircut_on"] = ~to
         /\ WithMode(s, to)["irled_on"] = to
         /\ \A f \in Fields \ NightFields : WithMode(s, to)[f] = s[f]
<1> DEFINE off == ~to
<1>1. off \in BOOLEAN
  OBVIOUS
<1>2. /\ WithMode(s, to) = [s EXCEPT !["night_mode"] = to, !["ircut_on"] = off,
                                     !["irled_on"] = to]
      /\ {"night_mode", "ircut_on", "irled_on"} \subseteq Fields
      /\ NightFields = {"night_mode", "ircut_on", "irled_on"}
  BY DEF WithMode, NightFields, Fields, HwFields
<1> HIDE DEF off
<1>3. /\ WithMode(s, to) \in Settings
      /\ WithMode(s, to)["night_mode"] = to
      /\ WithMode(s, to)["ircut_on"] = off
      /\ WithMode(s, to)["irled_on"] = to
      /\ \A f \in Fields \ NightFields : WithMode(s, to)[f] = s[f]
  BY <1>1, <1>2, SMT DEF Settings
<1> QED
  BY <1>3 DEF off

LEMMA DefaultsSettings == Defaults \in Settings
<1>1. \A f \in Fields : (f \in {"ircut_on", "led_on", "show_timestamp"}) \in BOOLEAN
  OBVIOUS
<1> QED
  BY <1>1 DEF Defaults, Settings

\* A command changes the settings it drives, to values that depend on nothing
\* else, and no others.
LEMMA ModifiedSettings ==
  ASSUME NEW s \in Settings, NEW cmd \in Command
  PROVE  /\ Modified(s, cmd) \in Settings
         /\ \A f \in Fields \ Driven(cmd) : Modified(s, cmd)[f] = s[f]
         /\ \A f \in Driven(cmd) : Modified(s, cmd)[f] = Modified(Defaults, cmd)[f]
         /\ cmd.set \in HwFields => Driven(cmd) \subseteq HwFields
         /\ cmd.set \in SoftFields => Driven(cmd) = {cmd.set}
<1>1. cmd.set \in Fields /\ cmd.to \in BOOLEAN
  BY DEF Command
<1>2. cmd.set \in HwFields => Driven(cmd) \subseteq HwFields
  BY SMT DEF Driven, NightFields, HwFields
<1>3. cmd.set \in SoftFields => Driven(cmd) = {cmd.set}
  BY SMT DEF Driven, SoftFields
<1>4. CASE cmd.set = "night_mode"
  <2>1. /\ Driven(cmd) = NightFields /\ Modified(s, cmd) = WithMode(s, cmd.to)
        /\ Modified(Defaults, cmd) = WithMode(Defaults, cmd.to)
    BY <1>4 DEF Driven, Modified
  <2>2. \A f \in NightFields : WithMode(s, cmd.to)[f] = WithMode(Defaults, cmd.to)[f]
    BY <1>1, WithModeSettings, DefaultsSettings DEF NightFields
  <2> QED
    BY <1>1, <1>2, <1>3, <2>1, <2>2, WithModeSettings
<1>5. CASE cmd.set # "night_mode"
  <2>1. /\ Driven(cmd) = {cmd.set} /\ Modified(s, cmd) = [s EXCEPT ![cmd.set] = cmd.to]
        /\ Modified(Defaults, cmd) = [Defaults EXCEPT ![cmd.set] = cmd.to]
    BY <1>5 DEF Driven, Modified
  <2> QED
    BY <1>1, <1>2, <1>3, <2>1, DefaultsSettings DEF Settings
<1> QED
  BY <1>4, <1>5

\* The outputs that show a setting.
Lines(f) ==
  CASE f = "night_mode" -> {"isp"}
    [] f = "ircut_on"   -> {"trig1", "trig2"}
    [] f = "irled_on"   -> {"irled"}
    [] f = "led_on"     -> {"led"}

\* Whether a setting shows depends on its outputs and its value only.
LEMMA ShowsDepends ==
  ASSUME NEW f \in HwFields, NEW h, NEW s, NEW h2, NEW s2,
         s2[f] = s[f], \A d \in Lines(f) : h2[d] = h[d]
  PROVE  Shows(h2, s2, f) <=> Shows(h, s, f)
<1>1. CASE f = "night_mode"
  BY <1>1, SMT DEF Lines, Shows
<1>2. CASE f = "ircut_on"
  BY <1>2, SMT DEF Lines, Shows
<1>3. CASE f = "irled_on"
  BY <1>3, SMT DEF Lines, Shows
<1>4. CASE f = "led_on"
  BY <1>4, SMT DEF Lines, Shows
<1> QED
  BY <1>1, <1>2, <1>3, <1>4 DEF HwFields

WriteRec == [dev : Devices, val : {0, 1}]

\* The writes of one command have their types, never set an output twice to
\* different values, and once all of them show, the command's settings do.
LEMMA WritesSound ==
  ASSUME NEW cmd \in HwSetting
  PROVE  /\ Writes(cmd) \in Seq(WriteRec)
         /\ \A i, j \in DOMAIN Writes(cmd) :
              Writes(cmd)[i].dev = Writes(cmd)[j].dev =>
                Writes(cmd)[i].val = Writes(cmd)[j].val
         /\ \A h, s :
              /\ \A i \in DOMAIN Writes(cmd) : h[Writes(cmd)[i].dev] = Writes(cmd)[i].val
              /\ \A f \in Driven(cmd) : s[f] = Modified(Defaults, cmd)[f]
              => \A f \in Driven(cmd) : Shows(h, s, f)
         /\ \A i \in DOMAIN Writes(cmd), f \in HwFields \ Driven(cmd) :
              Writes(cmd)[i].dev \notin Lines(f)
<1>1. /\ cmd.to \in BOOLEAN /\ cmd = [set |-> cmd.set, to |-> cmd.to]
      /\ cmd.set \in {"night_mode", "ircut_on", "irled_on", "led_on"}
  BY DEF HwSetting, HwFields
<1>2. CASE cmd.set = "night_mode" /\ cmd.to
  <2>1. Writes(cmd) = <<Write("trig2", 1), Write("trig1", 1),
                        Write("irled", 1), Write("isp", 1)>>
    BY <1>1, <1>2, WritesSpelled
  <2>2. /\ Modified(Defaults, cmd)["night_mode"] = TRUE
        /\ Modified(Defaults, cmd)["ircut_on"] = FALSE
        /\ Modified(Defaults, cmd)["irled_on"] = TRUE
    BY <1>1, <1>2, WithModeSettings, DefaultsSettings DEF Modified
  <2> QED
    BY <1>2, <2>1, <2>2, SMT
    DEF WriteRec, Devices, Write, Driven, NightFields, HwFields, Lines, Shows, Bit
<1>3. CASE cmd.set = "night_mode" /\ ~cmd.to
  <2>1. Writes(cmd) = <<Write("isp", 0), Write("irled", 0),
                        Write("trig2", 0), Write("trig1", 0)>>
    BY <1>1, <1>3, WritesSpelled
  <2>2. /\ Modified(Defaults, cmd)["night_mode"] = FALSE
        /\ Modified(Defaults, cmd)["ircut_on"] = TRUE
        /\ Modified(Defaults, cmd)["irled_on"] = FALSE
    BY <1>1, <1>3, WithModeSettings, DefaultsSettings DEF Modified
  <2> QED
    BY <1>3, <2>1, <2>2, SMT
    DEF WriteRec, Devices, Write, Driven, NightFields, HwFields, Lines, Shows, Bit
<1>4. CASE cmd.set \in {"ircut_on", "irled_on", "led_on"}
  <2>1. \A f \in Driven(cmd) : f = cmd.set /\ Modified(Defaults, cmd)[f] = cmd.to
    BY <1>4, SMT DEF Modified, Driven, Defaults, Fields, HwFields, SoftFields
  <2>2. CASE cmd.set = "ircut_on"
    <3>1. Writes(cmd) = <<Write("trig2", Bit(~cmd.to)), Write("trig1", Bit(~cmd.to))>>
      BY <1>1, <2>2, WritesSpelled
    <3> QED
      BY <1>1, <2>1, <2>2, <3>1, SMT DEF WriteRec, Devices, Write, Driven, HwFields, Lines, Shows, Bit
  <2>3. CASE cmd.set = "irled_on"
    <3>1. Writes(cmd) = <<Write("irled", Bit(cmd.to))>>
      BY <1>1, <2>3, WritesSpelled
    <3> QED
      BY <1>1, <2>1, <2>3, <3>1, SMT DEF WriteRec, Devices, Write, Driven, HwFields, Lines, Shows, Bit
  <2>4. CASE cmd.set = "led_on"
    <3>1. Writes(cmd) = <<Write("led", Bit(~cmd.to))>>
      BY <1>1, <2>4, WritesSpelled
    <3> QED
      BY <1>1, <2>1, <2>4, <3>1, SMT DEF WriteRec, Devices, Write, Driven, HwFields, Lines, Shows, Bit
  <2> QED
    BY <1>4, <2>2, <2>3, <2>4
<1> QED
  BY <1>1, <1>2, <1>3, <1>4

-----------------------------------------------------------------------------
(* The parts of the invariant that do not look at clones. *)

\* Who drives what.
LEMMA DrivenBy ==
  \A f : f \in DrivenNow <=> \E t \in Busy : f \in Driven(agent[t].cmd)
BY DEF DrivenNow

\* A task that is executing has a command.
LEMMA BusyAgent ==
  ASSUME TypeOK, NEW t \in Busy
  PROVE  /\ t \in Tasks /\ agent[t] \in Agents /\ agent[t] # Idle
         /\ agent[t].is \in {"alone", "mixed"} /\ agent[t].cmd \in HwSetting
         /\ agent[t].clone \in Settings /\ agent[t].writes \in Seq(WriteRec)
         /\ Driven(agent[t].cmd) \subseteq HwFields
<1>1. t \in Tasks /\ agent[t] \in Agents /\ agent[t].is # "idle"
  BY DEF Busy, TypeOK
<1>2. agent[t] # Idle
  BY <1>1 DEF Idle
<1>3. agent[t] \in [is : {"alone", "mixed"}, cmd : HwSetting, clone : Settings,
                    writes : Seq(WriteRec)]
  BY <1>1, <1>2 DEF Agents, WriteRec
<1>4. Driven(agent[t].cmd) \subseteq HwFields
  BY <1>3, SMT DEF HwSetting, Driven, NightFields, HwFields
<1> QED
  BY <1>1, <1>2, <1>3, <1>4

\* A task that begins: the others are mixed from now on, and so is it unless
\* nobody else is at work.
LEMMA BeginAgent ==
  ASSUME TypeOK, NEW t \in Tasks \ Busy, NEW cmd \in HwSetting,
         NEW clone \in Settings, Begin(t, cmd, clone)
  PROVE  /\ agent' \in [Tasks -> Agents]
         /\ Busy' = Busy \cup {t}
         /\ /\ agent'[t].cmd = cmd /\ agent'[t].clone = clone
            /\ agent'[t].writes = Writes(cmd)
            /\ agent'[t].is = IF Busy = {} THEN "alone" ELSE "mixed"
         /\ \A u \in Busy : /\ agent'[u].is = "mixed"
                            /\ agent'[u].cmd = agent[u].cmd
                            /\ agent'[u].clone = agent[u].clone
         /\ \A u \in Tasks \ (Busy \cup {t}) : agent'[u] = agent[u]
         /\ suspect \subseteq suspect' /\ suspect' \subseteq HwFields
         /\ MixedIsSuspect'
         /\ suspect' \cup DrivenNow' = suspect \cup DrivenNow \cup Driven(cmd)
<1> DEFINE new == Running(cmd, clone, IF Busy = {} THEN "alone" ELSE "mixed")
<1>1. agent \in [Tasks -> Agents] /\ suspect \subseteq HwFields
  BY DEF TypeOK
<1>2. /\ new \in Agents /\ new.is = IF Busy = {} THEN "alone" ELSE "mixed"
      /\ new.cmd = cmd /\ new.clone = clone /\ new.writes = Writes(cmd)
  <2>1. Writes(cmd) \in Seq([dev : Devices, val : {0, 1}])
    BY WritesSound DEF WriteRec
  <2> QED
    BY <2>1, SMT DEF Running, Agents
<1>3. \A u \in Busy : LET a == [agent[u] EXCEPT !.is = "mixed"]
                      IN  /\ a \in Agents /\ a.is = "mixed"
                          /\ a.cmd = agent[u].cmd /\ a.clone = agent[u].clone
  <2> SUFFICES ASSUME NEW u \in Busy
               PROVE  LET a == [agent[u] EXCEPT !.is = "mixed"]
                      IN  /\ a \in Agents /\ a.is = "mixed"
                          /\ a.cmd = agent[u].cmd /\ a.clone = agent[u].clone
    OBVIOUS
  <2>1. agent[u] \in [is : {"alone", "mixed"}, cmd : HwSetting, clone : Settings,
                      writes : Seq([dev : Devices, val : {0, 1}])]
    BY BusyAgent DEF Agents
  <2> QED
    BY <2>1, SMT DEF Agents
<1>4. agent' = [u \in Tasks |->
                 IF u = t THEN new
                 ELSE IF u \in Busy THEN [agent[u] EXCEPT !.is = "mixed"]
                 ELSE agent[u]]
  BY DEF Begin
<1> HIDE DEF new
<1>5. agent' \in [Tasks -> Agents]
  BY <1>1, <1>2, <1>3, <1>4
<1>6. agent'[t] = new
  BY <1>4
<1>7. \A u \in Busy : /\ agent'[u].is = "mixed" /\ agent'[u].cmd = agent[u].cmd
                      /\ agent'[u].clone = agent[u].clone
  <2>1. \A u \in Busy : u \in Tasks /\ u # t
    BY DEF Busy
  <2> QED
    BY <1>3, <1>4, <2>1
<1>8. \A u \in Tasks \ (Busy \cup {t}) : agent'[u] = agent[u]
  BY <1>4
<1>9. Busy' = Busy \cup {t}
  BY <1>2, <1>6, <1>7, <1>8 DEF Busy
<1>10. suspect' = IF Busy = {} THEN suspect
                  ELSE suspect \cup Driven(cmd) \cup DrivenNow
  BY DEF Begin
<1>11. DrivenNow' = DrivenNow \cup Driven(cmd)
  <2>1. \A f : f \in DrivenNow' <=> \E u \in Busy' : f \in Driven(agent'[u].cmd)
    BY DEF DrivenNow
  <2> QED
    BY <1>2, <1>6, <1>7, <1>9, <2>1, DrivenBy
<1>12. DrivenNow \subseteq HwFields /\ Driven(cmd) \subseteq HwFields
  <2>1. Driven(cmd) \subseteq HwFields
    BY SMT DEF HwSetting, Driven, NightFields, HwFields
  <2> QED
    BY <2>1, BusyAgent, DrivenBy
<1>13. MixedIsSuspect'
  <2> SUFFICES ASSUME NEW u \in Tasks, agent'[u].is = "mixed"
               PROVE  Driven(agent'[u].cmd) \subseteq suspect'
    BY DEF MixedIsSuspect, Mixed
  <2>1. u \in Busy \cup {t}
    BY <1>9 DEF Busy
  <2>2. Busy # {}
    BY <1>2, <1>6, <2>1
  <2>3. agent'[u].cmd = cmd \/ (u \in Busy /\ agent'[u].cmd = agent[u].cmd)
    BY <1>2, <1>6, <1>7, <2>1
  <2> QED
    BY <1>10, <2>2, <2>3, DrivenBy
<1> QED
  BY <1>1, <1>2, <1>5, <1>6, <1>7, <1>8, <1>9, <1>10, <1>11, <1>12, <1>13

\* What a task that begins leaves of the invariant.
LEMMA BeginKeeps ==
  ASSUME AppStateInv, NEW t \in Tasks \ Busy, NEW cmd \in HwSetting,
         NEW clone \in Settings, Begin(t, cmd, clone),
         t \in Clients => clone = Modified(state, cmd),
         UNCHANGED <<state, hw, asked, firm>>
  PROVE  /\ Agreement' /\ AskedIsKept' /\ CloneKept' /\ CloneCurrent'
         /\ AloneIsOnly' /\ MixedIsSuspect' /\ WritesOwn' /\ WritesLeft'
<1> USE DEF AppStateInv
<1>0. TypeOK
  OBVIOUS
<1>1. /\ Busy' = Busy \cup {t}
      /\ /\ agent'[t].cmd = cmd /\ agent'[t].clone = clone
         /\ agent'[t].writes = Writes(cmd)
         /\ agent'[t].is = IF Busy = {} THEN "alone" ELSE "mixed"
      /\ \A u \in Busy : /\ agent'[u].is = "mixed"
                         /\ agent'[u].cmd = agent[u].cmd
                         /\ agent'[u].clone = agent[u].clone
      /\ \A u \in Tasks \ (Busy \cup {t}) : agent'[u] = agent[u]
      /\ MixedIsSuspect'
      /\ suspect' \cup DrivenNow' = suspect \cup DrivenNow \cup Driven(cmd)
  BY <1>0, BeginAgent
<1>2. \A u \in Busy : agent'[u].writes = agent[u].writes
  <2> SUFFICES ASSUME NEW u \in Busy PROVE agent'[u].writes = agent[u].writes
    OBVIOUS
  <2>1. agent[u] \in [is : {"alone", "mixed"}, cmd : HwSetting, clone : Settings,
                      writes : Seq([dev : Devices, val : {0, 1}])]
    BY <1>0, BusyAgent DEF Agents
  <2>2. agent'[u] = [agent[u] EXCEPT !.is = "mixed"]
    BY DEF Begin, Busy
  <2> QED
    BY <2>1, <2>2, SMT
<1>3. Agreement'
  <2> SUFFICES ASSUME NEW f \in HwFields, f \notin suspect', f \notin DrivenNow'
               PROVE  Agrees(f)'
    BY DEF Agreement
  <2>1. f \notin suspect /\ f \notin DrivenNow
    BY <1>1
  <2> QED
    BY <2>1 DEF Agreement, Agrees
<1>4. AskedIsKept'
  BY DEF AskedIsKept
<1>5. ASSUME t \in Clients
      PROVE  /\ \A f \in firm : clone[f] = asked[f]
             /\ \A f \in HwFields \ (suspect' \cup DrivenNow') : clone[f] = state[f]
             /\ \A f \in Driven(cmd) : clone[f] = Modified(Defaults, cmd)[f]
  <2>1. state \in Settings /\ cmd \in Command /\ cmd.set \in HwFields
    BY <1>0, SMT DEF TypeOK, HwSetting, Command, Fields
  <2>2. /\ \A f \in Fields \ Driven(cmd) : clone[f] = state[f]
        /\ \A f \in Driven(cmd) : clone[f] = Modified(Defaults, cmd)[f]
        /\ Driven(cmd) \subseteq HwFields
    BY <1>5, <2>1, ModifiedSettings
  <2>3. firm \subseteq Fields \ HwFields
    BY <1>0, SMT DEF TypeOK, Fields, HwFields, SoftFields
  <2>4. \A f \in HwFields \ (suspect' \cup DrivenNow') : f \in Fields \ Driven(cmd)
    BY <1>1, SMT DEF Fields
  <2> QED
    BY <2>2, <2>3, <2>4 DEF AskedIsKept
<1>6. CloneKept'
  <2> SUFFICES ASSUME NEW c \in Clients \cap Busy', NEW f \in firm
               PROVE  agent'[c].clone[f] = asked[f]
    BY DEF CloneKept
  <2>1. CASE c = t
    BY <1>1, <1>5, <2>1
  <2>2. CASE c \in Busy
    BY <1>1, <2>2 DEF CloneKept
  <2> QED
    BY <1>1, <2>1, <2>2
<1>7. CloneCurrent'
  <2> SUFFICES ASSUME NEW c \in Clients \cap Busy'
               PROVE  /\ \A f \in HwFields \ (suspect' \cup DrivenNow') :
                           agent'[c].clone[f] = state[f]
                      /\ \A f \in Driven(agent'[c].cmd) :
                           agent'[c].clone[f] = Modified(Defaults, agent'[c].cmd)[f]
    BY DEF CloneCurrent
  <2>1. CASE c = t
    BY <1>1, <1>5, <2>1
  <2>2. CASE c \in Busy
    BY <1>1, <2>2 DEF CloneCurrent
  <2> QED
    BY <1>1, <2>1, <2>2
<1>8. \A u : Alone(u)' => u = t /\ Busy = {}
  <2> SUFFICES ASSUME NEW u \in Tasks, agent'[u].is = "alone"
               PROVE  u = t /\ Busy = {}
    BY DEF Alone
  <2>1. u \notin Busy
    BY <1>1
  <2>2. u = t
    BY <1>1, <2>1 DEF Busy, AloneIsOnly, Alone
  <2> QED
    BY <1>1, <2>2
<1>9. AloneIsOnly'
  BY <1>1, <1>8 DEF AloneIsOnly
<1>10. WritesOwn'
  <2> SUFFICES ASSUME NEW u \in Busy', NEW i \in DOMAIN agent'[u].writes
               PROVE  \E j \in DOMAIN Writes(agent'[u].cmd) :
                        agent'[u].writes[i] = Writes(agent'[u].cmd)[j]
    BY DEF WritesOwn
  <2>1. CASE u = t
    BY <1>1, <2>1
  <2>2. CASE u \in Busy
    BY <1>1, <1>2, <2>2 DEF WritesOwn
  <2> QED
    BY <1>1, <2>1, <2>2
<1>11. WritesLeft'
  BY <1>1, <1>8 DEF WritesLeft
<1> QED
  BY <1>1, <1>3, <1>4, <1>6, <1>7, <1>9, <1>10, <1>11

\* A task that is done: the others go on as they are.
LEMMA DoneAgent ==
  ASSUME AppStateInv, NEW t, Done(t), t \in Tasks
  PROVE  /\ t \in Busy /\ Busy' = Busy \ {t}
         /\ agent' \in [Tasks -> Agents]
         /\ \A u \in Tasks \ {t} : agent'[u] = agent[u]
         /\ suspect' \subseteq HwFields
         /\ DrivenNow \subseteq DrivenNow' \cup Driven(agent[t].cmd)
         /\ \A u : ~Alone(u)'
         /\ AloneIsOnly' /\ MixedIsSuspect' /\ WritesOwn' /\ WritesLeft'
         /\ \/ /\ Alone(t) /\ Busy' = {}
               /\ suspect' = suspect \ Driven(agent[t].cmd)
               /\ DrivenNow = Driven(agent[t].cmd)
            \/ /\ Mixed(t) /\ suspect' = suspect
               /\ Driven(agent[t].cmd) \subseteq suspect
<1> USE DEF AppStateInv
<1>0. TypeOK /\ t \in Busy
  BY DEF Done
<1>1. /\ agent \in [Tasks -> Agents] /\ Idle \in Agents
      /\ agent' = [agent EXCEPT ![t] = Idle]
      /\ suspect \subseteq HwFields
      /\ suspect' = IF agent[t].is = "alone"
                    THEN suspect \ Driven(agent[t].cmd) ELSE suspect
  BY <1>0 DEF Done, TypeOK, Agents
<1>2. /\ agent' \in [Tasks -> Agents] /\ agent'[t] = Idle
      /\ \A u \in Tasks \ {t} : agent'[u] = agent[u]
      /\ suspect' \subseteq HwFields
  BY <1>1
<1>3. Busy' = Busy \ {t}
  BY <1>2 DEF Busy, Idle
<1>4. DrivenNow \subseteq DrivenNow' \cup Driven(agent[t].cmd)
  <2>1. \A f : f \in DrivenNow' <=> \E u \in Busy' : f \in Driven(agent'[u].cmd)
    BY DEF DrivenNow
  <2>2. \A u \in Busy \ {t} : agent'[u] = agent[u]
    BY <1>2 DEF Busy
  <2> QED
    BY <1>3, <2>1, <2>2, DrivenBy
<1>5. \A u : ~Alone(u)'
  <2> SUFFICES ASSUME NEW u \in Tasks, agent'[u].is = "alone"
               PROVE  FALSE
    BY DEF Alone
  <2>1. u # t
    BY <1>2 DEF Idle
  <2>2. Alone(u)
    BY <1>2, <2>1 DEF Alone
  <2> QED
    BY <1>0, <2>1, <2>2 DEF AloneIsOnly
<1>6. AloneIsOnly' /\ WritesLeft'
  BY <1>5 DEF AloneIsOnly, WritesLeft
<1>7. WritesOwn'
  <2>1. \A u \in Busy \ {t} : agent'[u] = agent[u]
    BY <1>2 DEF Busy
  <2> QED
    BY <1>3, <2>1 DEF WritesOwn
<1>8. \/ /\ Alone(t) /\ Busy' = {}
         /\ suspect' = suspect \ Driven(agent[t].cmd)
         /\ DrivenNow = Driven(agent[t].cmd)
      \/ /\ Mixed(t) /\ suspect' = suspect
         /\ Driven(agent[t].cmd) \subseteq suspect
  <2>1. CASE agent[t].is = "alone"
    <3>1. Alone(t) /\ Busy = {t}
      BY <2>1 DEF Alone, AloneIsOnly
    <3> QED
      BY <1>1, <1>3, <2>1, <3>1 DEF DrivenNow
  <2>2. CASE agent[t].is = "mixed"
    BY <1>1, <2>2 DEF Mixed, MixedIsSuspect
  <2> QED
    BY <1>0, <2>1, <2>2, BusyAgent
<1>9. MixedIsSuspect'
  <2> SUFFICES ASSUME NEW u \in Tasks, agent'[u].is = "mixed"
               PROVE  Driven(agent'[u].cmd) \subseteq suspect'
    BY DEF MixedIsSuspect, Mixed
  <2>1. u # t /\ agent'[u] = agent[u]
    BY <1>2 DEF Idle
  <2>2. u \in Busy' /\ Mixed(u)
    BY <1>3, <2>1 DEF Busy, Mixed
  <2> QED
    BY <1>8, <2>1, <2>2 DEF MixedIsSuspect
<1> QED
  BY <1>0, <1>2, <1>3, <1>4, <1>5, <1>6, <1>7, <1>8, <1>9

-----------------------------------------------------------------------------
(* Every step keeps the invariant. *)

LEMMA InitInv == Init => AppStateInv
<1> SUFFICES ASSUME Init PROVE AppStateInv
  OBVIOUS
<1>1. /\ state \in Settings /\ asked = state /\ suspect = {} /\ firm = {}
      /\ \A f \in Fields \ PersistFields : state[f] = Defaults[f]
      /\ \A d \in Devices : hw[d] = 0
      /\ \A t \in Tasks : agent[t] = Idle
      /\ manual = FALSE /\ mode = "Unknown"
  BY DEF Init
<1>2. Busy = {} /\ \A t : ~Alone(t) /\ ~Mixed(t)
  BY <1>1 DEF Busy, Idle, Alone, Mixed
<1>3. TypeOK
  <2>1. agent \in [Tasks -> Agents] /\ hw \in [Devices -> {0, 1}]
    BY DEF Init, Agents
  <2>2. commands \in Nat
    BY SMT DEF Init
  <2> QED
    BY <1>1, <1>2, <2>1, <2>2 DEF Init, TypeOK
<1>4. Agreement
  <2>1. \A f \in HwFields : f \in Fields \ PersistFields
    BY SMT DEF Fields, HwFields, PersistFields
  <2>2. \A f \in HwFields :
          state[f] = (f \in {"ircut_on", "led_on", "show_timestamp"})
    BY <1>1, <2>1 DEF Defaults
  <2>3. /\ state.night_mode = FALSE /\ state.ircut_on = TRUE
        /\ state.irled_on = FALSE /\ state.led_on = TRUE
    <3>0. /\ "night_mode" \notin {"ircut_on", "led_on", "show_timestamp"}
          /\ "irled_on" \notin {"ircut_on", "led_on", "show_timestamp"}
      BY SMT
    <3>1. ~state["night_mode"] /\ ~state["irled_on"]
      BY <2>2, <3>0, Zenon DEF HwFields
    <3>3. state["night_mode"] \in BOOLEAN /\ state["irled_on"] \in BOOLEAN
      BY <1>1, SMT DEF Settings, Fields, HwFields
    <3>2. /\ (state.ircut_on = TRUE) /\ (state.led_on = TRUE)
      BY <2>2 DEF HwFields
    <3> QED
      BY <3>1, <3>2, <3>3
  <2>4. /\ Bit(state.night_mode) = 0 /\ Bit(~state.ircut_on) = 0
        /\ Bit(state.irled_on) = 0 /\ Bit(~state.led_on) = 0
    BY <2>3 DEF Bit
  <2>5. \A f \in HwFields : Shows(hw, state, f)
    BY <1>1, <2>4 DEF Shows, HwFields, Devices
  <2> QED
    BY <2>5 DEF Agreement, Agrees
<1>5. /\ AskedIsKept /\ TaskKnowsMode /\ CloneKept /\ CloneCurrent /\ AloneIsOnly
      /\ MixedIsSuspect /\ WritesOwn /\ WritesLeft /\ ManualKnown
      /\ TransitionIsNight
  BY <1>1, <1>2 DEF AskedIsKept, TaskKnowsMode, CloneKept, CloneCurrent, AloneIsOnly,
    MixedIsSuspect, WritesOwn, WritesLeft, ManualKnown, TransitionIsNight
<1> QED
  BY <1>3, <1>4, <1>5 DEF AppStateInv

\* A command that drives hardware begins.
LEMMA HwCommandInv ==
  ASSUME AppStateInv, NEW c \in Clients, c \notin Busy, NEW cmd \in Commands,
         HwCommand(c, cmd), commands' = commands + 1,
         UNCHANGED <<hw, measuring, mode, shutdown>>
  PROVE  AppStateInv'
<1> USE DEF AppStateInv
<1>0. TypeOK /\ c \in Tasks \ Busy /\ c # "daynight"
  BY AppStateConstants DEF Tasks
<1>1. cmd \in Command /\ cmd \in HwSetting /\ state \in Settings
  <2>1. cmd \in Command /\ cmd.set \in HwFields
    BY AppStateConstants DEF HwCommand
  <2> QED
    BY <1>0, <2>1, SMT DEF Command, HwSetting, TypeOK
<1>2. Modified(state, cmd) \in Settings
  BY <1>1, ModifiedSettings
<1>3. /\ Begin(c, cmd, Modified(state, cmd))
      /\ UNCHANGED <<state, hw, asked, firm>>
      /\ manual' = (manual \/ cmd.set = "night_mode")
  BY DEF HwCommand
<1>4. /\ agent' \in [Tasks -> Agents] /\ Busy' = Busy \cup {c}
      /\ agent'[c].cmd = cmd
      /\ agent'[c].is = IF Busy = {} THEN "alone" ELSE "mixed"
      /\ \A u \in Busy : /\ agent'[u].is = "mixed"
                         /\ agent'[u].cmd = agent[u].cmd
      /\ \A u \in Tasks \ (Busy \cup {c}) : agent'[u] = agent[u]
      /\ suspect \subseteq suspect' /\ suspect' \subseteq HwFields
  BY <1>0, <1>1, <1>2, <1>3, BeginAgent
<1>5. /\ Agreement' /\ AskedIsKept' /\ CloneKept' /\ CloneCurrent'
      /\ AloneIsOnly' /\ MixedIsSuspect' /\ WritesOwn' /\ WritesLeft'
  BY <1>0, <1>1, <1>2, <1>3, BeginKeeps
<1>6. TypeOK'
  <2>1. commands' \in Nat
    BY <1>0, SMT DEF TypeOK
  <2>2. manual' \in BOOLEAN
    BY <1>3
  <2> QED
    BY <1>0, <1>3, <1>4, <2>1, <2>2 DEF TypeOK
<1>7. TaskKnowsMode'
  <2>1. ~manual' => ~manual
    BY <1>3
  <2> QED
    BY <1>0, <1>3, <1>4, <2>1 DEF TaskKnowsMode
<1>8. ManualKnown'
  <2> SUFFICES ASSUME NEW u \in Clients, Alone(u)',
                      agent'[u].cmd.set = "night_mode"
               PROVE  manual'
    BY DEF ManualKnown
  <2>1. CASE u = c
    BY <1>3, <1>4, <2>1
  <2>2. CASE u # c
    <3>1. Alone(u) /\ agent'[u] = agent[u]
      BY <1>4, <2>2 DEF Alone, Busy
    <3>2. manual
      BY <3>1 DEF ManualKnown
    <3> QED
      BY <1>3, <3>2
  <2> QED
    BY <2>1, <2>2
<1>9. TransitionIsNight'
  BY <1>0, <1>4 DEF TransitionIsNight
<1> QED
  BY <1>5, <1>6, <1>7, <1>8, <1>9

\* A command without hardware changes one soft setting, asked for as it is.
LEMMA SoftCommandInv ==
  ASSUME AppStateInv, NEW cmd \in Commands, SoftCommand(cmd),
         commands' = commands + 1,
         UNCHANGED <<hw, measuring, mode, shutdown>>
  PROVE  AppStateInv'
<1> USE DEF AppStateInv
<1>1. cmd \in Command /\ cmd.set \in SoftFields /\ cmd.to \in BOOLEAN
  BY AppStateConstants, SMT DEF SoftCommand, Command
<1>2. /\ state \in Settings /\ asked \in Settings /\ firm \subseteq SoftFields
      /\ commands \in Nat
  BY DEF TypeOK
<1>3. /\ state' \in Settings /\ state'[cmd.set] = cmd.to
      /\ \A f \in Fields : f # cmd.set => state'[f] = state[f]
      /\ asked' \in Settings /\ asked'[cmd.set] = cmd.to
      /\ \A f \in Fields : f # cmd.set => asked'[f] = asked[f]
  <2>1. cmd.set # "night_mode" /\ cmd.set \in Fields
    BY <1>1, SMT DEF SoftFields, Fields
  <2>2. /\ state' = [state EXCEPT ![cmd.set] = cmd.to]
        /\ asked' = [asked EXCEPT ![cmd.set] = cmd.to]
    BY <2>1 DEF SoftCommand, Modified
  <2> QED
    BY <1>1, <1>2, <2>1, <2>2 DEF Settings
<1>4. /\ UNCHANGED <<agent, suspect, manual>>
      /\ firm' \subseteq firm \cup {cmd.set}
      /\ cmd.set \in firm' => Busy \ {"daynight"} = {}
  BY DEF SoftCommand
<1>5. /\ Busy' = Busy /\ DrivenNow' = DrivenNow
      /\ \A t : (Alone(t)' <=> Alone(t)) /\ (Mixed(t)' <=> Mixed(t))
  BY <1>4 DEF Busy, DrivenNow, Alone, Mixed
<1>6. \A f \in HwFields : state'[f] = state[f]
  <2>1. \A f \in HwFields : f \in Fields /\ f # cmd.set
    BY <1>1, SMT DEF HwFields, SoftFields, Fields
  <2> QED
    BY <1>3, <2>1
<1>7. TypeOK'
  <2>1. commands' \in Nat /\ firm' \subseteq SoftFields
    BY <1>1, <1>2, <1>4, SMT
  <2> QED
    BY <1>3, <1>4, <1>5, <2>1 DEF TypeOK
<1>8. Agreement'
  <2> SUFFICES ASSUME NEW f \in HwFields, f \notin suspect, f \notin DrivenNow
               PROVE  Shows(hw', state', f)
    BY <1>4, <1>5 DEF Agreement, Agrees
  <2>1. Shows(hw, state, f)
    BY DEF Agreement, Agrees
  <2> QED
    BY <1>6, <2>1, ShowsDepends
<1>9. AskedIsKept'
  <2> SUFFICES ASSUME NEW f \in firm' PROVE state'[f] = asked'[f]
    BY DEF AskedIsKept
  <2>1. CASE f = cmd.set
    BY <1>3, <2>1
  <2>2. CASE f # cmd.set
    <3>1. f \in firm /\ f \in Fields
      BY <1>2, <1>4, <2>2 DEF Fields
    <3> QED
      BY <1>3, <2>2, <3>1 DEF AskedIsKept
  <2> QED
    BY <2>1, <2>2
<1>10. CloneKept'
  <2> SUFFICES ASSUME NEW c \in Clients, c \in Busy, NEW f \in firm'
               PROVE  agent[c].clone[f] = asked'[f]
    BY <1>4, <1>5 DEF CloneKept
  <2>1. f # cmd.set
    BY <1>4, AppStateConstants
  <2>2. f \in firm /\ f \in Fields
    BY <1>2, <1>4, <2>1 DEF Fields
  <2> QED
    BY <1>3, <2>1, <2>2 DEF CloneKept
<1>11. CloneCurrent'
  BY <1>4, <1>5, <1>6 DEF CloneCurrent
<1>12. TaskKnowsMode'
  <2>1. state'["night_mode"] = state["night_mode"]
    BY <1>6 DEF HwFields
  <2> QED
    BY <1>4, <1>5, <2>1 DEF TaskKnowsMode
<1>13. /\ AloneIsOnly' /\ MixedIsSuspect' /\ WritesOwn' /\ WritesLeft'
       /\ ManualKnown' /\ TransitionIsNight'
  BY <1>4, <1>5 DEF AloneIsOnly, MixedIsSuspect, WritesOwn, WritesLeft, ManualKnown,
    TransitionIsNight
<1> QED
  BY <1>7, <1>8, <1>9, <1>10, <1>11, <1>12, <1>13

\* A task that goes on: its command and its clone stay.
LEMMA GoesOn ==
  ASSUME TypeOK, NEW t \in Busy, NEW a \in Agents, a.is # "idle",
         a.cmd = agent[t].cmd, a.clone = agent[t].clone,
         agent' = [agent EXCEPT ![t] = a]
  PROVE  /\ agent' \in [Tasks -> Agents] /\ Busy' = Busy /\ DrivenNow' = DrivenNow
         /\ agent'[t] = a /\ \A u \in Tasks \ {t} : agent'[u] = agent[u]
         /\ \A u \in Busy : /\ agent'[u].cmd = agent[u].cmd
                            /\ agent'[u].clone = agent[u].clone
<1>1. agent \in [Tasks -> Agents] /\ t \in Tasks
  BY DEF TypeOK, Busy
<1>2. /\ agent' \in [Tasks -> Agents] /\ agent'[t] = a
      /\ \A u \in Tasks \ {t} : agent'[u] = agent[u]
  BY <1>1
<1>3. Busy' = Busy
  BY <1>1, <1>2 DEF Busy
<1>4. \A u \in Busy : /\ agent'[u].cmd = agent[u].cmd
                      /\ agent'[u].clone = agent[u].clone
  BY <1>2 DEF Busy
<1>5. DrivenNow' = DrivenNow
  <2>1. \A f : f \in DrivenNow' <=> \E u \in Busy' : f \in Driven(agent'[u].cmd)
    BY DEF DrivenNow
  <2> QED
    BY <1>3, <1>4, <2>1, DrivenBy
<1> QED
  BY <1>2, <1>3, <1>4, <1>5

\* The tail of a sequence of writes.
LEMMA TailOf ==
  ASSUME NEW s \in Seq(WriteRec), s # << >>
  PROVE  /\ Tail(s) \in Seq(WriteRec) /\ 1 \in DOMAIN s
         /\ Head(s) = s[1] /\ Head(s) \in WriteRec
         /\ \A i \in DOMAIN Tail(s) : \E j \in DOMAIN s : Tail(s)[i] = s[j]
         /\ \A j \in DOMAIN s :
              j = 1 \/ \E i \in DOMAIN Tail(s) : Tail(s)[i] = s[j]
<1>1. /\ Len(s) \in Nat \ {0} /\ DOMAIN s = 1 .. Len(s)
      /\ \A j \in 1 .. Len(s) : s[j] \in WriteRec
  BY SMT
<1>2. /\ Tail(s) \in Seq(WriteRec) /\ Len(Tail(s)) = Len(s) - 1
      /\ \A i \in 1 .. Len(Tail(s)) : Tail(s)[i] = s[i + 1]
  BY <1>1, SMT
<1>3. DOMAIN Tail(s) = 1 .. (Len(s) - 1)
  BY <1>2, SMT
<1>4. \A j \in DOMAIN s : j = 1 \/ \E i \in DOMAIN Tail(s) : Tail(s)[i] = s[j]
  <2> SUFFICES ASSUME NEW j \in DOMAIN s, j # 1
               PROVE  \E i \in DOMAIN Tail(s) : Tail(s)[i] = s[j]
    OBVIOUS
  <2>1. j - 1 \in DOMAIN Tail(s) /\ Tail(s)[j - 1] = s[j]
    BY <1>1, <1>2, <1>3, SMT
  <2> QED
    BY <2>1
<1>5. \A i \in DOMAIN Tail(s) : \E j \in DOMAIN s : Tail(s)[i] = s[j]
  <2> SUFFICES ASSUME NEW i \in DOMAIN Tail(s)
               PROVE  \E j \in DOMAIN s : Tail(s)[i] = s[j]
    OBVIOUS
  <2>1. i + 1 \in DOMAIN s /\ Tail(s)[i] = s[i + 1]
    BY <1>1, <1>2, <1>3, SMT
  <2> QED
    BY <2>1
<1>6. 1 \in DOMAIN s /\ Head(s) = s[1] /\ Head(s) \in WriteRec
  BY <1>1, SMT
<1> QED
  BY <1>2, <1>4, <1>5, <1>6

\* What a failure leaves are writes that were left.
LEMMA RestOfWrites ==
  ASSUME NEW writes \in Seq(WriteRec), writes # << >>
  PROVE  LET rest == AfterFailure(writes)
         IN  /\ rest \in Seq(WriteRec)
             /\ \A i \in DOMAIN rest : \E j \in DOMAIN writes : rest[i] = writes[j]
<1> DEFINE tail == Tail(writes)
           rest == AfterFailure(writes)
<1>1. /\ tail \in Seq(WriteRec)
      /\ \A i \in DOMAIN tail : \E j \in DOMAIN writes : tail[i] = writes[j]
  BY TailOf
<1>2. rest = tail \/ (rest = Tail(tail) /\ tail # << >>)
  BY DEF AfterFailure
<1> HIDE DEF tail, rest
<1>3. CASE rest = tail
  BY <1>1, <1>3 DEF rest
<1>4. CASE rest = Tail(tail) /\ tail # << >>
  <2>1. /\ rest \in Seq(WriteRec)
        /\ \A i \in DOMAIN rest : \E j \in DOMAIN tail : rest[i] = tail[j]
    BY <1>1, <1>4, TailOf
  <2>2. \A i \in DOMAIN rest : \E j \in DOMAIN writes : rest[i] = writes[j]
    BY <1>1, <2>1
  <2> QED
    BY <2>1, <2>2 DEF rest
<1> QED
  BY <1>2, <1>3, <1>4

\* A write: what nobody drives keeps showing, and what is left gets shorter.
LEMMA HwWriteInv ==
  ASSUME AppStateInv, NEW t \in Tasks, HwWrite(t)
  PROVE  AppStateInv'
<1> DEFINE cmd  == agent[t].cmd
           left == agent[t].writes
           w    == Head(left)
           a    == [agent[t] EXCEPT !.writes = Tail(left)]
<1> USE DEF AppStateInv
<1>0. TypeOK /\ t \in Busy /\ left # << >>
  BY DEF HwWrite
<1>1. /\ left \in Seq(WriteRec) /\ cmd \in HwSetting
      /\ agent[t] \in Agents /\ agent[t] # Idle
  BY <1>0, BusyAgent
<1>2. /\ Tail(left) \in Seq(WriteRec) /\ 1 \in DOMAIN left /\ w = left[1]
      /\ w \in WriteRec
      /\ \A i \in DOMAIN Tail(left) : \E j \in DOMAIN left : Tail(left)[i] = left[j]
      /\ \A j \in DOMAIN left :
           j = 1 \/ \E i \in DOMAIN Tail(left) : Tail(left)[i] = left[j]
  BY <1>0, <1>1, TailOf
<1>3. /\ a \in Agents /\ a.is = agent[t].is /\ a.is # "idle" /\ a.cmd = cmd
      /\ a.clone = agent[t].clone /\ a.writes = Tail(left)
  <2>1. agent[t] \in [is : {"alone", "mixed"}, cmd : HwSetting, clone : Settings,
                      writes : Seq([dev : Devices, val : {0, 1}])]
    BY <1>1 DEF Agents
  <2>2. Tail(left) \in Seq([dev : Devices, val : {0, 1}])
    BY <1>2 DEF WriteRec
  <2>3. a \in [is : {"alone", "mixed"}, cmd : HwSetting, clone : Settings,
               writes : Seq([dev : Devices, val : {0, 1}])]
    BY <2>1, <2>2
  <2>4. /\ a.is = agent[t].is /\ a.cmd = cmd /\ a.clone = agent[t].clone
        /\ a.writes = Tail(left)
    BY <2>1
  <2>5. a.is # "idle"
    BY <2>1, <2>4, SMT
  <2> QED
    BY <2>3, <2>4, <2>5 DEF Agents
<1>4. /\ agent' = [agent EXCEPT ![t] = a]
      /\ hw' = [hw EXCEPT ![w.dev] = w.val]
      /\ UNCHANGED <<state, measuring, mode, shutdown, commands, suspect, asked,
                     firm, manual>>
  BY DEF HwWrite, hist
<1> HIDE DEF a
<1>5. /\ agent' \in [Tasks -> Agents] /\ Busy' = Busy /\ DrivenNow' = DrivenNow
      /\ agent'[t] = a /\ \A u \in Tasks \ {t} : agent'[u] = agent[u]
      /\ \A u \in Busy : /\ agent'[u].cmd = agent[u].cmd
                         /\ agent'[u].clone = agent[u].clone
  BY <1>0, <1>3, <1>4, GoesOn
<1>6. /\ w.dev \in Devices /\ w.val \in {0, 1}
      /\ hw' \in [Devices -> {0, 1}] /\ hw'[w.dev] = w.val
      /\ \A d : d # w.dev => hw'[d] = hw[d]
  <2>1. w.dev \in Devices /\ w.val \in {0, 1}
    BY <1>2 DEF WriteRec
  <2>2. hw \in [Devices -> {0, 1}]
    BY <1>0 DEF TypeOK
  <2> QED
    BY <1>4, <2>1, <2>2
<1>7. PICK j \in DOMAIN Writes(cmd) : w = Writes(cmd)[j]
  BY <1>0, <1>2 DEF WritesOwn
<1>8. \A u : (Alone(u)' <=> Alone(u)) /\ (Mixed(u)' <=> Mixed(u))
  BY <1>3, <1>5 DEF Alone, Mixed
<1>9. TypeOK'
  BY <1>0, <1>4, <1>5, <1>6 DEF TypeOK
<1>10. Agreement'
  <2> SUFFICES ASSUME NEW f \in HwFields, f \notin suspect, f \notin DrivenNow
               PROVE  Shows(hw', state', f)
    BY <1>4, <1>5 DEF Agreement, Agrees
  <2>1. Shows(hw, state, f)
    BY DEF Agreement, Agrees
  <2>2. f \notin Driven(cmd)
    BY <1>0, DrivenBy
  <2>3. \A d \in Lines(f) : hw'[d] = hw[d]
    BY <1>1, <1>6, <1>7, <2>2, WritesSound
  <2> QED
    BY <1>4, <2>1, <2>3, ShowsDepends
<1>11. /\ AskedIsKept' /\ CloneKept' /\ CloneCurrent' /\ TaskKnowsMode'
  BY <1>4, <1>5 DEF AskedIsKept, CloneKept, CloneCurrent, TaskKnowsMode
<1>12. AloneIsOnly'
  BY <1>5, <1>8 DEF AloneIsOnly
<1>13. MixedIsSuspect'
  <2> SUFFICES ASSUME NEW u \in Tasks, Mixed(u)
               PROVE  Driven(agent'[u].cmd) \subseteq suspect
    BY <1>4, <1>8 DEF MixedIsSuspect
  <2>1. agent'[u].cmd = agent[u].cmd
    BY <1>3, <1>5
  <2> QED
    BY <2>1 DEF MixedIsSuspect
<1>14. WritesOwn'
  <2> SUFFICES ASSUME NEW u \in Busy, NEW i \in DOMAIN agent'[u].writes
               PROVE  \E k \in DOMAIN Writes(agent'[u].cmd) :
                        agent'[u].writes[i] = Writes(agent'[u].cmd)[k]
    BY <1>5 DEF WritesOwn
  <2>1. CASE u = t
    <3>1. PICK k \in DOMAIN left : Tail(left)[i] = left[k]
      BY <1>2, <1>3, <1>5, <2>1
    <3>2. PICK l \in DOMAIN Writes(cmd) : left[k] = Writes(cmd)[l]
      BY <1>0 DEF WritesOwn
    <3> QED
      BY <1>3, <1>5, <2>1, <3>1, <3>2
  <2>2. CASE u # t
    <3>1. agent'[u] = agent[u]
      BY <1>5, <2>2 DEF Busy
    <3> QED
      BY <3>1 DEF WritesOwn
  <2> QED
    BY <2>1, <2>2
<1>15. WritesLeft'
  <2> SUFFICES ASSUME NEW u \in Tasks, Alone(u),
                      NEW k \in DOMAIN Writes(agent'[u].cmd)
               PROVE  LET all == Writes(agent'[u].cmd)
                      IN  \/ \E i \in DOMAIN agent'[u].writes :
                               agent'[u].writes[i] = all[k]
                          \/ hw'[all[k].dev] = all[k].val
    BY <1>8 DEF WritesLeft
  <2>0. /\ u = t /\ Alone(t) /\ k \in DOMAIN Writes(cmd)
        /\ agent'[u].cmd = cmd /\ agent'[u].writes = Tail(left)
    BY <1>0, <1>3, <1>5 DEF AloneIsOnly
  <2>1. CASE Writes(cmd)[k].dev = w.dev
    <3>1. Writes(cmd)[k].val = w.val
      BY <1>1, <1>7, <2>0, <2>1, WritesSound
    <3> QED
      BY <1>6, <2>0, <2>1, <3>1
  <2>2. CASE Writes(cmd)[k].dev # w.dev
    <3>1. \/ \E i \in DOMAIN left : left[i] = Writes(cmd)[k]
          \/ hw[Writes(cmd)[k].dev] = Writes(cmd)[k].val
      BY <2>0 DEF WritesLeft
    <3> QED
      BY <1>2, <1>6, <2>0, <2>2, <3>1
  <2> QED
    BY <2>1, <2>2
<1>16. ManualKnown'
  <2> SUFFICES ASSUME NEW c \in Clients, Alone(c),
                      agent'[c].cmd.set = "night_mode"
               PROVE  manual
    BY <1>4, <1>8 DEF ManualKnown
  <2>1. agent'[c].cmd = agent[c].cmd
    BY <1>5 DEF Alone, Busy
  <2> QED
    BY <2>1 DEF ManualKnown
<1>17. TransitionIsNight'
  BY <1>5 DEF TransitionIsNight
<1> QED
  BY <1>9, <1>10, <1>11, <1>12, <1>13, <1>14, <1>15, <1>16, <1>17

\* A write that fails: what it should have shown is suspect from now on.
LEMMA HwWriteFailsInv ==
  ASSUME AppStateInv, NEW t \in Tasks, HwWriteFails(t)
  PROVE  AppStateInv'
<1> DEFINE cmd  == agent[t].cmd
           left == agent[t].writes
           rest == AfterFailure(left)
           a    == [agent[t] EXCEPT !.writes = rest, !.is = "mixed"]
<1> USE DEF AppStateInv
<1>0. TypeOK /\ t \in Busy /\ left # << >>
  BY DEF HwWriteFails
<1>1. /\ left \in Seq(WriteRec) /\ cmd \in HwSetting
      /\ agent[t] \in Agents /\ agent[t] # Idle /\ Driven(cmd) \subseteq HwFields
  BY <1>0, BusyAgent
<1>2. /\ rest \in Seq(WriteRec)
      /\ \A i \in DOMAIN rest : \E j \in DOMAIN left : rest[i] = left[j]
  BY <1>0, <1>1, RestOfWrites
<1> HIDE DEF rest
<1>3. /\ a \in Agents /\ a.is = "mixed" /\ a.cmd = cmd
      /\ a.clone = agent[t].clone /\ a.writes = rest
  <2>1. agent[t] \in [is : {"alone", "mixed"}, cmd : HwSetting, clone : Settings,
                      writes : Seq([dev : Devices, val : {0, 1}])]
    BY <1>1 DEF Agents
  <2>2. rest \in Seq([dev : Devices, val : {0, 1}])
    BY <1>2 DEF WriteRec
  <2>3. a \in [is : {"alone", "mixed"}, cmd : HwSetting, clone : Settings,
               writes : Seq([dev : Devices, val : {0, 1}])]
    BY <2>1, <2>2
  <2>4. /\ a.is = "mixed" /\ a.cmd = cmd /\ a.clone = agent[t].clone
        /\ a.writes = rest
    BY <2>1
  <2> QED
    BY <2>3, <2>4 DEF Agents
<1>4. /\ agent' = [agent EXCEPT ![t] = a]
      /\ suspect' = suspect \cup Driven(cmd)
      /\ UNCHANGED <<state, hw, measuring, mode, shutdown, commands, asked, firm,
                     manual>>
  BY DEF HwWriteFails, rest
<1> HIDE DEF a
<1>5. /\ agent' \in [Tasks -> Agents] /\ Busy' = Busy /\ DrivenNow' = DrivenNow
      /\ agent'[t] = a /\ \A u \in Tasks \ {t} : agent'[u] = agent[u]
      /\ \A u \in Busy : /\ agent'[u].cmd = agent[u].cmd
                         /\ agent'[u].clone = agent[u].clone
  BY <1>0, <1>3, <1>4, GoesOn
<1>6. \A u : ~Alone(u)'
  <2> SUFFICES ASSUME NEW u \in Tasks, agent'[u].is = "alone" PROVE FALSE
    BY DEF Alone
  <2>1. u # t
    BY <1>3, <1>5
  <2>2. Alone(u)
    BY <1>5, <2>1 DEF Alone
  <2> QED
    BY <1>0, <2>1, <2>2 DEF AloneIsOnly
<1>7. TypeOK'
  <2>1. suspect' \subseteq HwFields
    BY <1>0, <1>1, <1>4 DEF TypeOK
  <2> QED
    BY <1>0, <1>4, <1>5, <2>1 DEF TypeOK
<1>8. Agreement' /\ AskedIsKept' /\ CloneKept' /\ CloneCurrent' /\ TaskKnowsMode'
  <2>1. Agreement'
    BY <1>4, <1>5 DEF Agreement, Agrees
  <2>2. CloneCurrent'
    BY <1>4, <1>5 DEF CloneCurrent
  <2>3. TaskKnowsMode'
    BY <1>4, <1>5 DEF TaskKnowsMode
  <2> QED
    BY <1>4, <1>5, <2>1, <2>2, <2>3 DEF AskedIsKept, CloneKept
<1>9. AloneIsOnly' /\ WritesLeft' /\ ManualKnown'
  BY <1>6 DEF AloneIsOnly, WritesLeft, ManualKnown
<1>10. MixedIsSuspect'
  <2> SUFFICES ASSUME NEW u \in Tasks, agent'[u].is = "mixed"
               PROVE  Driven(agent'[u].cmd) \subseteq suspect'
    BY DEF MixedIsSuspect, Mixed
  <2>1. CASE u = t
    BY <1>3, <1>4, <1>5, <2>1
  <2>2. CASE u # t
    BY <1>4, <1>5, <2>2 DEF MixedIsSuspect, Mixed
  <2> QED
    BY <2>1, <2>2
<1>11. WritesOwn'
  <2> SUFFICES ASSUME NEW u \in Busy, NEW i \in DOMAIN agent'[u].writes
               PROVE  \E k \in DOMAIN Writes(agent'[u].cmd) :
                        agent'[u].writes[i] = Writes(agent'[u].cmd)[k]
    BY <1>5 DEF WritesOwn
  <2>1. CASE u = t
    <3>1. PICK k \in DOMAIN left : rest[i] = left[k]
      BY <1>2, <1>3, <1>5, <2>1
    <3>2. PICK l \in DOMAIN Writes(cmd) : left[k] = Writes(cmd)[l]
      BY <1>0 DEF WritesOwn
    <3> QED
      BY <1>3, <1>5, <2>1, <3>1, <3>2
  <2>2. CASE u # t
    <3>1. agent'[u] = agent[u]
      BY <1>5, <2>2 DEF Busy
    <3> QED
      BY <3>1 DEF WritesOwn
  <2> QED
    BY <2>1, <2>2
<1>12. TransitionIsNight'
  BY <1>5 DEF TransitionIsNight
<1> QED
  BY <1>7, <1>8, <1>9, <1>10, <1>11, <1>12

\* When a task is done, the settings it drove show, and what it did not drive
\* and nobody else drives shows as before.
LEMMA DoneShows ==
  ASSUME AppStateInv, NEW t \in Tasks, Done(t), NEW s,
         \A f \in Driven(agent[t].cmd) : s[f] = Modified(Defaults, agent[t].cmd)[f],
         \A f \in HwFields \ (suspect \cup DrivenNow) : s[f] = state[f]
  PROVE  \A f \in HwFields \ (suspect' \cup DrivenNow') :
           /\ Shows(hw, s, f)
           /\ Alone(t) \/ (f \notin suspect /\ f \notin DrivenNow)
<1> DEFINE cmd == agent[t].cmd
<1> USE DEF AppStateInv
<1>1. /\ t \in Busy /\ DrivenNow \subseteq DrivenNow' \cup Driven(cmd)
      /\ \/ /\ Alone(t) /\ suspect' = suspect \ Driven(cmd)
            /\ DrivenNow = Driven(cmd)
         \/ Mixed(t) /\ suspect' = suspect /\ Driven(cmd) \subseteq suspect
  BY DoneAgent
<1>2. cmd \in HwSetting /\ agent[t].writes = << >>
  <2>1. t \in Busy /\ agent[t].writes = << >>
    BY DEF Done
  <2> QED
    BY <2>1, BusyAgent
<1> SUFFICES ASSUME NEW f \in HwFields, f \notin suspect', f \notin DrivenNow'
             PROVE  /\ Shows(hw, s, f)
                    /\ Alone(t) \/ (f \notin suspect /\ f \notin DrivenNow)
  OBVIOUS
<1>3. CASE f \in Driven(cmd)
  <2>1. Alone(t)
    BY <1>1, <1>3
  <2>2. \A i \in DOMAIN Writes(cmd) : hw[Writes(cmd)[i].dev] = Writes(cmd)[i].val
    <3>1. DOMAIN agent[t].writes = {}
      BY <1>2, SMT
    <3> QED
      BY <2>1, <3>1 DEF WritesLeft, Alone
  <2> QED
    BY <1>2, <1>3, <2>1, <2>2, WritesSound
<1>4. CASE f \notin Driven(cmd)
  <2>1. f \notin suspect /\ f \notin DrivenNow
    BY <1>1, <1>4
  <2>2. Shows(hw, state, f) /\ s[f] = state[f]
    BY <2>1 DEF Agreement, Agrees
  <2>3. Shows(hw, s, f)
    BY <2>2, ShowsDepends
  <2> QED
    BY <2>1, <2>3
<1> QED
  BY <1>3, <1>4

\* The clone stored at the end of a command is as good as what it replaces.
LEMMA StoreCloneInv ==
  ASSUME AppStateInv, NEW c \in Clients, StoreClone(c)
  PROVE  AppStateInv'
<1> DEFINE cmd == agent[c].cmd
<1> USE DEF AppStateInv
<1>0. /\ TypeOK /\ c \in Tasks /\ c # "daynight" /\ Done(c)
      /\ state' = agent[c].clone
      /\ UNCHANGED <<hw, measuring, mode, shutdown, commands, asked, firm, manual>>
  BY AppStateConstants DEF StoreClone, Done, Tasks
<1>1. /\ c \in Busy /\ Busy' = Busy \ {c} /\ agent' \in [Tasks -> Agents]
      /\ \A u \in Tasks \ {c} : agent'[u] = agent[u]
      /\ suspect' \subseteq HwFields
      /\ \A u : ~Alone(u)'
      /\ AloneIsOnly' /\ MixedIsSuspect' /\ WritesOwn' /\ WritesLeft'
      /\ \/ /\ Alone(c) /\ Busy' = {}
            /\ suspect' = suspect \ Driven(cmd) /\ DrivenNow = Driven(cmd)
         \/ Mixed(c) /\ suspect' = suspect /\ Driven(cmd) \subseteq suspect
  BY <1>0, DoneAgent
<1>2. /\ agent[c].clone \in Settings /\ cmd \in HwSetting
  BY <1>0, <1>1, BusyAgent
<1>3. /\ \A f \in HwFields \ (suspect \cup DrivenNow) : state'[f] = state[f]
      /\ \A f \in Driven(cmd) : state'[f] = Modified(Defaults, cmd)[f]
  BY <1>0, <1>1 DEF CloneCurrent
<1>4. \A f \in HwFields \ (suspect' \cup DrivenNow') :
        /\ Shows(hw, state', f)
        /\ Alone(c) \/ (f \notin suspect /\ f \notin DrivenNow)
  BY <1>0, <1>3, DoneShows
<1>5. TypeOK'
  BY <1>0, <1>1, <1>2 DEF TypeOK
<1>6. Agreement'
  BY <1>0, <1>4 DEF Agreement, Agrees
<1>7. AskedIsKept'
  BY <1>0, <1>1 DEF AskedIsKept, CloneKept
<1>8. CloneKept' /\ CloneCurrent'
  <2>1. \A d \in Clients \cap Busy' : /\ d \in Clients \cap Busy
                                      /\ agent'[d] = agent[d]
                                      /\ ~Alone(c)
    <3>1. \A d \in Clients \cap Busy' : /\ d \in Clients \cap Busy
                                        /\ agent'[d] = agent[d]
      BY <1>1 DEF Busy
    <3>2. Busy' # {} => ~Alone(c)
      BY <1>1 DEF AloneIsOnly, Alone
    <3> QED
      BY <3>1, <3>2
  <2>2. CloneKept'
    BY <1>0, <2>1 DEF CloneKept
  <2>3. CloneCurrent'
    <3> SUFFICES ASSUME NEW d \in Clients \cap Busy'
                 PROVE  /\ \A f \in HwFields \ (suspect' \cup DrivenNow') :
                             agent'[d].clone[f] = state'[f]
                        /\ \A f \in Driven(agent'[d].cmd) :
                             agent'[d].clone[f] = Modified(Defaults, agent'[d].cmd)[f]
      BY DEF CloneCurrent
    <3>1. \A f \in HwFields \ (suspect' \cup DrivenNow') :
            f \notin suspect /\ f \notin DrivenNow
      BY <1>4, <2>1
    <3> QED
      BY <1>3, <2>1, <3>1 DEF CloneCurrent
  <2> QED
    BY <2>2, <2>3
<1>9. TaskKnowsMode'
  <2> SUFFICES ASSUME mode # "Unknown", ~manual, "daynight" \notin Busy,
                      "night_mode" \notin suspect'
               PROVE  state'.night_mode = (mode = "Night")
    BY <1>0, <1>1 DEF TaskKnowsMode
  <2>1. "night_mode" \notin Driven(cmd)
    <3>1. CASE Alone(c)
      <4>1. cmd.set # "night_mode"
        BY <3>1 DEF ManualKnown
      <4> QED
        BY <4>1 DEF Driven
    <3>2. CASE ~Alone(c)
      BY <1>1, <3>2
    <3> QED
      BY <3>1, <3>2
  <2>2. "night_mode" \notin suspect
    BY <1>1, <2>1
  <2>3. "night_mode" \notin DrivenNow
    <3>1. CASE Alone(c)
      BY <1>1, <2>1, <3>1 DEF Alone, Mixed
    <3>2. CASE ~Alone(c)
      <4>1. \A u \in Busy : Mixed(u)
        <5>1. \A u \in Busy : ~Alone(u)
          BY <1>1, <3>2 DEF AloneIsOnly, Alone
        <5> QED
          BY <1>0, <5>1, BusyAgent DEF Alone, Mixed
      <4>2. \A u \in Busy : Driven(agent[u].cmd) \subseteq suspect
        BY <4>1 DEF MixedIsSuspect, Mixed
      <4> QED
        BY <2>2, <4>2, DrivenBy
    <3> QED
      BY <3>1, <3>2
  <2>4. state'["night_mode"] = state["night_mode"]
    BY <1>3, <2>2, <2>3 DEF HwFields
  <2> QED
    BY <2>2, <2>4 DEF TaskKnowsMode
<1>10. ManualKnown' /\ TransitionIsNight'
  <2>1. "daynight" \in Busy' => "daynight" \in Busy /\ agent'["daynight"] = agent["daynight"]
    BY <1>0, <1>1 DEF Tasks
  <2> QED
    BY <1>1, <2>1 DEF ManualKnown, TransitionIsNight
<1> QED
  BY <1>1, <1>5, <1>6, <1>7, <1>8, <1>9, <1>10

\* The transition of the day/night task: three settings change, the rest are
\* the ones of the moment.
LEMMA StoreTransitionInv ==
  ASSUME AppStateInv, StoreTransition
  PROVE  AppStateInv'
<1> DEFINE t == "daynight"
           cmd == agent[t].cmd
           night == cmd.to
<1> USE DEF AppStateInv
<1>0. /\ TypeOK /\ t \in Tasks /\ t \notin Clients /\ Done(t)
      /\ state' = WithMode(state, night)
      /\ mode' = IF night THEN "Night" ELSE "Day"
      /\ manual' = FALSE
      /\ UNCHANGED <<hw, measuring, shutdown, commands, asked, firm>>
  BY AppStateConstants DEF StoreTransition, Transition, Done, Tasks
<1>1. /\ t \in Busy /\ Busy' = Busy \ {t} /\ agent' \in [Tasks -> Agents]
      /\ \A u \in Tasks \ {t} : agent'[u] = agent[u]
      /\ suspect' \subseteq HwFields
      /\ \A u : ~Alone(u)'
      /\ AloneIsOnly' /\ MixedIsSuspect' /\ WritesOwn' /\ WritesLeft'
      /\ \/ /\ Alone(t) /\ Busy' = {}
            /\ suspect' = suspect \ Driven(cmd) /\ DrivenNow = Driven(cmd)
         \/ Mixed(t) /\ suspect' = suspect /\ Driven(cmd) \subseteq suspect
  BY <1>0, DoneAgent
<1>2. /\ cmd \in HwSetting /\ cmd.set = "night_mode" /\ night \in BOOLEAN
      /\ Driven(cmd) = NightFields
  <2>1. cmd \in HwSetting /\ cmd.set = "night_mode"
    BY <1>0, <1>1, BusyAgent DEF TransitionIsNight
  <2> QED
    BY <2>1 DEF HwSetting, Driven
<1>3. /\ state' \in Settings /\ state'["night_mode"] = night
      /\ \A f \in Fields \ NightFields : state'[f] = state[f]
      /\ \A f \in NightFields : state'[f] = Modified(Defaults, cmd)[f]
  <2>1. state \in Settings /\ cmd \in Command
    BY <1>0, <1>2, SMT DEF TypeOK, HwSetting, Command, Fields
  <2>2. state' = Modified(state, cmd)
    BY <1>0, <1>2 DEF Modified
  <2>3. /\ Modified(state, cmd) \in Settings
        /\ \A f \in Fields \ NightFields : Modified(state, cmd)[f] = state[f]
        /\ \A f \in NightFields : Modified(state, cmd)[f] = Modified(Defaults, cmd)[f]
    BY <1>2, <2>1, ModifiedSettings
  <2>4. WithMode(state, night)["night_mode"] = night
    BY <1>2, <2>1, WithModeSettings
  <2> QED
    BY <1>0, <2>2, <2>3, <2>4
<1>4. /\ \A f \in Driven(cmd) : state'[f] = Modified(Defaults, cmd)[f]
      /\ NightFields \subseteq HwFields
  BY <1>2, <1>3, SMT DEF NightFields, HwFields
<1>5. \A f \in HwFields \ (suspect \cup DrivenNow) : state'[f] = state[f]
  <2>1. \A f \in NightFields : f \in DrivenNow
    BY <1>1, <1>2, DrivenBy
  <2>2. \A f \in HwFields : f \in Fields
    BY DEF Fields
  <2> QED
    BY <1>3, <2>1, <2>2
<1>6. \A f \in HwFields \ (suspect' \cup DrivenNow') :
        /\ Shows(hw, state', f)
        /\ Alone(t) \/ (f \notin suspect /\ f \notin DrivenNow)
  BY <1>0, <1>2, <1>4, <1>5, DoneShows
<1>7. TypeOK'
  <2>1. mode' \in {"Unknown", "Day", "Night"} /\ manual' \in BOOLEAN
    BY <1>0
  <2>2. measuring' => "daynight" \notin Busy'
    BY <1>1
  <2> QED
    BY <1>0, <1>1, <1>3, <2>1, <2>2 DEF TypeOK
<1>8. Agreement'
  BY <1>0, <1>6 DEF Agreement, Agrees
<1>9. AskedIsKept'
  <2>1. \A f \in firm : f \in Fields \ NightFields
    BY <1>0, SMT DEF TypeOK, Fields, SoftFields, NightFields
  <2> QED
    BY <1>0, <1>3, <2>1 DEF AskedIsKept
<1>10. CloneKept' /\ CloneCurrent'
  <2>1. \A d \in Clients \cap Busy' : /\ d \in Clients \cap Busy
                                      /\ agent'[d] = agent[d]
                                      /\ ~Alone(t)
    <3>1. \A d \in Clients \cap Busy' : /\ d \in Clients \cap Busy
                                        /\ agent'[d] = agent[d]
      BY <1>1 DEF Busy
    <3>2. Busy' # {} => ~Alone(t)
      BY <1>1 DEF AloneIsOnly, Alone
    <3> QED
      BY <3>1, <3>2
  <2>2. CloneKept'
    BY <1>0, <2>1 DEF CloneKept
  <2>3. CloneCurrent'
    <3> SUFFICES ASSUME NEW d \in Clients \cap Busy'
                 PROVE  /\ \A f \in HwFields \ (suspect' \cup DrivenNow') :
                             agent'[d].clone[f] = state'[f]
                        /\ \A f \in Driven(agent'[d].cmd) :
                             agent'[d].clone[f] = Modified(Defaults, agent'[d].cmd)[f]
      BY DEF CloneCurrent
    <3>1. \A f \in HwFields \ (suspect' \cup DrivenNow') :
            f \notin suspect /\ f \notin DrivenNow
      BY <1>6, <2>1
    <3> QED
      BY <1>5, <2>1, <3>1 DEF CloneCurrent
  <2> QED
    BY <2>2, <2>3
<1>11. TaskKnowsMode'
  <2>1. state'["night_mode"] = (mode' = "Night")
    BY <1>0, <1>2, <1>3
  <2> QED
    BY <2>1 DEF TaskKnowsMode
<1>12. ManualKnown' /\ TransitionIsNight'
  BY <1>1 DEF ManualKnown, TransitionIsNight
<1> QED
  BY <1>1, <1>7, <1>8, <1>9, <1>10, <1>11, <1>12

\* The decision of the day/night task: it stays, or begins to switch.
LEMMA DecideInv ==
  ASSUME AppStateInv, NEW target \in {"Unknown", "Day", "Night"}, Decide(target)
  PROVE  AppStateInv'
<1> DEFINE t == "daynight"
           cmd == [set |-> "night_mode", to |-> target = "Night"]
<1> USE DEF AppStateInv
<1>0. /\ TypeOK /\ measuring /\ measuring' = FALSE /\ t \in Tasks \ Busy
      /\ t \notin Clients
      /\ UNCHANGED <<state, hw, mode, shutdown, commands, asked, firm, manual>>
  BY AppStateConstants DEF Decide, TypeOK, Tasks
<1>1. CASE UNCHANGED <<agent, suspect>>
  <2>1. /\ Busy' = Busy /\ DrivenNow' = DrivenNow
        /\ \A u : (Alone(u)' <=> Alone(u)) /\ (Mixed(u)' <=> Mixed(u))
    BY <1>1 DEF Busy, DrivenNow, Alone, Mixed
  <2>2. TypeOK'
    BY <1>0, <1>1, <2>1 DEF TypeOK
  <2>3. Agreement' /\ AskedIsKept' /\ TaskKnowsMode'
    BY <1>0, <1>1, <2>1 DEF Agreement, Agrees, AskedIsKept, TaskKnowsMode
  <2>4. CloneKept' /\ CloneCurrent' /\ AloneIsOnly' /\ MixedIsSuspect'
    BY <1>0, <1>1, <2>1 DEF CloneKept, CloneCurrent, AloneIsOnly, MixedIsSuspect
  <2>5. WritesOwn' /\ WritesLeft' /\ ManualKnown' /\ TransitionIsNight'
    BY <1>0, <1>1, <2>1 DEF WritesOwn, WritesLeft, ManualKnown, TransitionIsNight
  <2> QED
    BY <2>2, <2>3, <2>4, <2>5
<1>2. CASE Begin(t, cmd, Defaults)
  <2>1. cmd \in HwSetting /\ cmd.set = "night_mode"
    BY SMT DEF HwSetting, HwFields
  <2>2. /\ agent' \in [Tasks -> Agents] /\ Busy' = Busy \cup {t}
        /\ agent'[t].cmd = cmd
        /\ \A u \in Busy : agent'[u].is = "mixed"
        /\ \A u \in Tasks \ (Busy \cup {t}) : agent'[u] = agent[u]
        /\ suspect' \subseteq HwFields
    BY <1>0, <1>2, <2>1, BeginAgent, DefaultsSettings
  <2>3. /\ Agreement' /\ AskedIsKept' /\ CloneKept' /\ CloneCurrent'
        /\ AloneIsOnly' /\ MixedIsSuspect' /\ WritesOwn' /\ WritesLeft'
    BY <1>0, <1>2, <2>1, BeginKeeps, DefaultsSettings
  <2>4. TypeOK'
    BY <1>0, <2>2 DEF TypeOK
  <2>5. TaskKnowsMode'
    BY <2>2 DEF TaskKnowsMode
  <2>6. ManualKnown'
    <3> SUFFICES ASSUME NEW u \in Clients, Alone(u)' PROVE FALSE
      BY DEF ManualKnown
    <3>1. u \in Tasks /\ u # t /\ agent'[u].is = "alone"
      BY <1>0 DEF Alone, Tasks
    <3>2. u \notin Busy
      BY <2>2, <3>1
    <3> QED
      BY <2>2, <3>1, <3>2 DEF Busy
  <2>7. TransitionIsNight'
    BY <2>1, <2>2 DEF TransitionIsNight
  <2> QED
    BY <2>3, <2>4, <2>5, <2>6, <2>7
<1> QED
  BY <1>1, <1>2 DEF Decide

\* A step that changes neither settings nor hardware nor who is at work.
LEMMA RestInv ==
  ASSUME AppStateInv, UNCHANGED <<state, hw, agent, mode, commands, hist>>,
         measuring' \in BOOLEAN, shutdown' \in BOOLEAN,
         measuring' => "daynight" \notin Busy
  PROVE  AppStateInv'
<1> USE DEF AppStateInv, hist
<1>1. /\ Busy' = Busy /\ DrivenNow' = DrivenNow
      /\ \A u : (Alone(u)' <=> Alone(u)) /\ (Mixed(u)' <=> Mixed(u))
  BY DEF Busy, DrivenNow, Alone, Mixed
<1>2. TypeOK'
  BY <1>1 DEF TypeOK
<1>3. Agreement' /\ AskedIsKept' /\ TaskKnowsMode'
  BY <1>1 DEF Agreement, Agrees, AskedIsKept, TaskKnowsMode
<1>4. CloneKept' /\ CloneCurrent' /\ AloneIsOnly' /\ MixedIsSuspect'
  BY <1>1 DEF CloneKept, CloneCurrent, AloneIsOnly, MixedIsSuspect
<1>5. WritesOwn' /\ WritesLeft' /\ ManualKnown' /\ TransitionIsNight'
  BY <1>1 DEF WritesOwn, WritesLeft, ManualKnown, TransitionIsNight
<1> QED
  BY <1>2, <1>3, <1>4, <1>5

LEMMA NextInv == AppStateInv /\ [Next]_vars => AppStateInv'
<1> SUFFICES ASSUME AppStateInv, [Next]_vars PROVE AppStateInv'
  OBVIOUS
<1>0. TypeOK
  BY DEF AppStateInv
<1>1. ASSUME NEW c \in Clients, Receive(c) PROVE AppStateInv'
  <2>1. PICK cmd \in Commands : HwCommand(c, cmd) \/ SoftCommand(cmd)
    BY <1>1 DEF Receive
  <2>2. /\ c \notin Busy /\ commands' = commands + 1
        /\ UNCHANGED <<hw, measuring, mode, shutdown>>
    BY <1>1 DEF Receive
  <2> QED
    BY <2>1, <2>2, HwCommandInv, SoftCommandInv
<1>2. ASSUME NEW c \in Clients, StoreClone(c) PROVE AppStateInv'
  BY <1>2, StoreCloneInv
<1>3. ASSUME NEW t \in Tasks, HwWrite(t) \/ HwWriteFails(t) PROVE AppStateInv'
  BY <1>3, HwWriteInv, HwWriteFailsInv
<1>4. CASE Measure
  BY <1>0, <1>4, RestInv DEF Measure, TypeOK
<1>5. ASSUME NEW target \in {"Unknown", "Day", "Night"}, Decide(target)
      PROVE  AppStateInv'
  BY <1>5, DecideInv
<1>6. CASE StoreTransition
  BY <1>6, StoreTransitionInv
<1>7. CASE RequestShutdown
  BY <1>0, <1>7, RestInv DEF RequestShutdown, TypeOK
<1>8. CASE UNCHANGED vars
  BY <1>0, <1>8, RestInv DEF vars, TypeOK
<1> QED
  BY <1>1, <1>2, <1>3, <1>4, <1>5, <1>6, <1>7, <1>8 DEF Next

-----------------------------------------------------------------------------

\* The parts together are inductive: what a handler carries through its awaits
\* (websocket.rs:109-203) is right in everything that must be kept.
THEOREM AppStateInvariant == Spec => []AppStateInv
BY InitInv, NextInv, PTL DEF Spec

\* Every variable keeps its type, and the day/night task never measures while
\* it is switching (daynight.rs:44-61, 98-114).
THEOREM AppStateTypes == Spec => []TypeOK
<1>1. AppStateInv => TypeOK
  BY DEF AppStateInv
<1> QED
  BY <1>1, AppStateInvariant, PTL

\* For every set of clients and commands, an output that nobody drives shows its
\* setting unless two tasks drove hardware at a time or a write failed
\* (websocket.rs:111-203, gpio.rs:83-121, daynight.rs:98-143).
THEOREM DevicesAgree == Spec => []Agreement
<1>1. AppStateInv => Agreement
  BY DEF AppStateInv
<1> QED
  BY <1>1, AppStateInvariant, PTL

\* For every set of clients and commands, a setting asked for while no other
\* command runs is kept until it is asked for again (websocket.rs:109, 203,
\* daynight.rs:107-112).
THEOREM AskedSettingsKept == Spec => []AskedIsKept
<1>1. AppStateInv => AskedIsKept
  BY DEF AppStateInv
<1> QED
  BY <1>1, AppStateInvariant, PTL

\* For every set of clients and commands, the mode the day/night task believes
\* in is the stored one, unless it was commanded by hand or driven by two tasks
\* at a time (daynight.rs:32, 87-114).
THEOREM TaskInStep == Spec => []TaskKnowsMode
<1>1. AppStateInv => TaskKnowsMode
  BY DEF AppStateInv
<1> QED
  BY <1>1, AppStateInvariant, PTL
=============================================================================
