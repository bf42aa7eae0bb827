--------------------------- MODULE MCConfigStore ---------------------------
(* One connection, every kind of end of the daemon, two starts.            *)
EXTENDS ConfigStore

Set(f, b) == [set |-> f, to |-> b]

MCCommands ==
  {Set("night_mode", TRUE), Set("irled_on", TRUE), Set("led_on", FALSE),
   Set("auto_daynight", TRUE), Set("record_enabled", TRUE),
   Set("show_timestamp", FALSE)}
=============================================================================
