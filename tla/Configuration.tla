---------------------------- MODULE Configuration ----------------------------
(***************************************************************************)
(* The configuration file over several starts of the program:              *)
(* migrateConfiguration(), Preferences::save() and QSettings, which keeps  *)
(* the settings in memory and writes them when sync() is called, when the  *)
(* event loop runs after a change, and when the program ends.  The program *)
(* can be killed at any time.                                              *)
(*                                                                         *)
(* Of the settings the zoom keys, the last host and the version are kept.  *)
(* The choice "Middle click" was added to the zoom keys as number 2 with   *)
(* version 1; a choice is identified here by its number since then.        *)
(***************************************************************************)
EXTENDS Integers

CONSTANT Versions        \* of the configuration files found at first

ASSUME VersionsAssumption == Versions \subseteq 0..4

VARIABLES
  running,               \* "no", "migrating" (before sync()), "yes"
  disk, memory,          \* the file and the QSettings of this process
  chosen,                \* history: the user's choice of the left zoom key
  lastHost               \* history: there was a last host

configVars == <<running, disk, memory, chosen, lastHost>>

current_ver == 3

(* Number 2 was not a choice in version 0. *)
Choice(version, n) == IF version = 0 /\ n >= 2 THEN n + 1 ELSE n

Settings == [version : 0..4, left_zoom : 0..7, right_zoom : 0..7,
             last_hostname : BOOLEAN, position : BOOLEAN]

ConfigTypeOK ==
  /\ running \in {"no", "migrating", "yes"}
  /\ disk \in Settings
  /\ memory \in Settings
  /\ chosen \in 0..6
  /\ lastHost \in BOOLEAN

ConfigInit ==
  /\ running = "no"
  /\ disk \in [version : Versions, left_zoom : 0..5, right_zoom : {1},
               last_hostname : BOOLEAN, position : {FALSE}]
  /\ disk.last_hostname => disk.version < 2
  /\ memory = disk
  /\ chosen = Choice(disk.version, disk.left_zoom)
  /\ lastHost = disk.last_hostname

-----------------------------------------------------------------------------
(* migrateConfiguration() that goes through all steps from any version. *)
StepsAll(c) ==
  [version |-> current_ver,
   left_zoom |-> IF c.left_zoom >= 2 THEN c.left_zoom + 1 ELSE c.left_zoom,
   right_zoom |-> c.right_zoom,
   last_hostname |-> FALSE,
   position |-> c.position \/ c.last_hostname]

-----------------------------------------------------------------------------
(* The steps from c.version on.  The right zoom key is read from, and      *)
(* written to, the left one's key, to no effect but the same assignment.   *)
Steps(c) ==
  [version |-> current_ver,
   left_zoom |-> IF c.version = 0 /\ c.left_zoom >= 2 THEN c.left_zoom + 1
                 ELSE c.left_zoom,
   right_zoom |-> c.right_zoom,
   last_hostname |-> c.last_hostname /\ c.version > 1,
   position |-> c.position \/ (c.last_hostname /\ c.version <= 1)]

Start ==
  /\ running = "no"
  /\ memory' = IF disk.version < current_ver THEN Steps(disk) ELSE disk
  /\ running' = IF disk.version < current_ver THEN "migrating" ELSE "yes"
  /\ UNCHANGED <<disk, chosen, lastHost>>

Sync ==
  /\ running \in {"migrating", "yes"}
  /\ disk' = memory
  /\ running' = "yes"
  /\ UNCHANGED <<memory, chosen, lastHost>>

(* Preferences::save() of a program whose numbers are these, up to sync(). *)
SaveZoom ==
  /\ running = "yes"
  /\ disk.version = current_ver
  /\ chosen' \in 0..6
  /\ memory' = [memory EXCEPT !.left_zoom = chosen']
  /\ disk' = memory'
  /\ UNCHANGED <<running, lastHost>>

Quit ==
  /\ running = "yes"
  /\ disk' = memory
  /\ running' = "no"
  /\ UNCHANGED <<memory, chosen, lastHost>>

Kill ==
  /\ running # "no"
  /\ running' = "no"
  /\ memory' = disk
  /\ UNCHANGED <<disk, chosen, lastHost>>

ConfigNext == Start \/ Sync \/ SaveZoom \/ Quit \/ Kill

ConfigSpec == ConfigInit /\ [][ConfigNext]_configVars

-----------------------------------------------------------------------------
(* However often the program is started, and killed, the file keeps the    *)
(* user's choice of the left zoom key and the last host: a migration is    *)
(* complete or has not happened, and happens once.                         *)
MigrationKeepsSettings ==
  /\ Choice(disk.version, disk.left_zoom) = chosen
  /\ lastHost => disk.last_hostname \/ disk.position
=============================================================================
