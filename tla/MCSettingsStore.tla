---------------------------- MODULE MCSettingsStore ----------------------------
(* SettingsStore with two edits (one may be in flight while the other is
   made), one Wi-Fi configuration, and enough revisions for a save of each
   writer, a factory reset and saves after it.  The bounds below are those of
   settings_confirm; settings, which checks liveness, is smaller. *)
EXTENDS SettingsStore

MCMaxEdits    == 2
MCMaxNetworks == 1
MCMaxRevision == 5
MCMaxAttempts == 2
AllCommands   == {"SAVE_NETWORK", "RESTART", "FACTORY_RESET"}
SavingCommands == AllCommands \ {"RESTART"}
=============================================================================
