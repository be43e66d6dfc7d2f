------------------------------ MODULE Instance ------------------------------
(***************************************************************************)
(* The files of one instance and the commands that change them: `endbot    *)
(* setup --apply`, `endbot update`, `endbot update --rollback` and the     *)
(* part of `endbot start` before the supervisor.  A command is a sequence  *)
(* of steps and may stop between any two of them.                          *)
(*                                                                         *)
(* Versions before endbotd keep the Group and script stores in the plugin  *)
(* data folder, later ones in state/.  The earlier ones are outside this   *)
(* repository: they start, edit their own stores, and update to a later    *)
(* version without moving them.                                            *)
(***************************************************************************)
EXTENDS Naturals, FiniteSets, Sequences, SequencesExt

CONSTANTS Versions,      \* application versions
          Later,         \* the versions that have endbotd
          Lock,          \* the BDS version each one locks
          First,         \* the version a new instance is unpacked with
          Scripts,       \* script files
          MaxEdits,      \* bound: edits of the two stores together
          MaxCommands,   \* bound: commands begun
          MaxBad         \* bound: facets out of order at a time

ASSUME InstanceConstants ==
  /\ Later \subseteq Versions /\ First \in Later
  /\ Lock \in [Versions -> Nat \ {0}] /\ {MaxEdits, MaxCommands, MaxBad} \subseteq Nat

Layouts == {"plugin", "state"}
LayoutOf(v) == IF v \in Later THEN "state" ELSE "plugin"

\* What an operator can break and repair by hand: endbot.toml, the values of
\* server.properties, the file itself, the world's history, [local-bot-auth]
\* in endstone.toml, the web's settings, the documents of state/, and a port
\* of endbot.toml that the generated files do not have yet.
Facets == {"config", "unsafe", "unreadable", "world", "auth", "web", "state", "ports"}

DataFiles == {"groups", "scripts"}

\* The plugin's configuration and endbotd's: "nothing" is no file or none with an
\* [authorization] table, "empty" a table without identities or a file that does
\* not parse (both end the search with empty lists), "held" one with identities.
Configs == {"plugin", "endbotd"}
Contents == {"nothing", "empty", "held"}

VARIABLES
  app,       \* app/<version>: "none", "part" (extraction stopped) or "whole"
  stamps,    \* the directories of app/ by modification time, oldest first
  current,   \* app/current
  adopted,   \* the server was there before Endbot
  toml,      \* endbot.toml exists
  bds,       \* version.txt of the server, 0 when there is no server yet
  backups,   \* the BDS versions whose files a backup holds
  bad,       \* the facets a check would refuse
  keys,      \* the owner keys and the control token exist
  marker,    \* state/migrations.json: the authoritative layout
  data,      \* the data files in each layout: the last edit each holds, 0 for no file
  files,     \* the script files in each layout
  legacy,    \* the [authorization] table of each generated configuration
  running,   \* the server: "down", "up", or "stopped" under a live supervisor
  op, step, target, item, begun,   \* the command in progress
  latest, made                     \* ghosts: the last edits, the scripts written

install == <<app, stamps, current, adopted, toml>>
server  == <<bds, backups, bad, keys>>
stores  == <<marker, data, files>>
command == <<op, step, target, item, begun>>
ghosts  == <<latest, made>>
vars    == <<install, server, stores, legacy, running, command, ghosts>>

\* A fresh directory, a server to adopt whose plugin was installed by hand, or
\* an instance of an earlier version.
Init ==
  /\ adopted \in BOOLEAN
  /\ \E c \in Contents : legacy = [f \in Configs |-> IF f = "plugin" THEN c ELSE "nothing"]
  /\ \/ /\ current = First /\ toml = FALSE /\ keys = FALSE /\ bad = {"auth"}
        /\ \/ ~adopted /\ bds = 0 /\ legacy["plugin"] = "nothing" /\ made = {}
           \/ adopted /\ bds \in {Lock[v] : v \in Versions} /\ made \in SUBSET Scripts
     \/ /\ current \in Versions \ Later /\ toml = TRUE /\ keys = TRUE /\ bad = {} /\ ~adopted
        /\ bds = Lock[current] /\ legacy["plugin"] # "nothing" /\ made \in SUBSET Scripts
  /\ app = [v \in Versions |-> IF v = current THEN "whole" ELSE "none"] /\ stamps = <<current>>
  /\ backups = {} /\ marker = "plugin" /\ data = [l \in Layouts |-> [f \in DataFiles |-> 0]]
  /\ files = [l \in Layouts |-> IF l = "plugin" THEN made ELSE {}]
  /\ running = "down" /\ op = "none" /\ step = "none" /\ target = current /\ item = "none"
  /\ begun = 0 /\ latest = [f \in DataFiles |-> 0]
-----------------------------------------------------------------------------
(***************************************************************************)
(* run_doctor, as a version v runs it: its FAILs.  A check whose file the  *)
(* first start makes, or whose input another check refuses, is no FAIL.    *)
(***************************************************************************)
ConfigLoads        == toml /\ "config" \notin bad
PropertiesParse    == "unreadable" \notin bad
WorldSafe          == "world" \notin bad
CheckProperties    == PropertiesParse /\ "unsafe" \notin bad
CheckWorld         == PropertiesParse => WorldSafe
CheckLocalBotAuth  == "auth" \notin bad
CheckControlToken  == keys
CheckState         == "state" \notin bad
CheckPorts         == "ports" \notin bad
CheckWeb           == "web" \notin bad
CheckBdsVersion(v) == bds = Lock[v]

FirstStartTolerable == ~keys

BlockingBesidesBds ==
  \/ ~ConfigLoads \/ ~CheckProperties \/ ~CheckWorld \/ ~CheckState \/ ~CheckPorts
  \/ ~(CheckLocalBotAuth /\ CheckControlToken) /\ ~FirstStartTolerable
-----------------------------------------------------------------------------
\* The launcher runs the code of app/current; a live supervisor refuses.
Idle == op = "none" /\ running = "down" /\ begun < MaxCommands /\ app[current] = "whole"

Begin(name, first, v) ==
  op' = name /\ step' = first /\ target' = v /\ item' = "none" /\ begun' = begun + 1

At(name, where) == op = name /\ step = where
Go(where) == step' = where /\ UNCHANGED <<op, target, item, begun>>
End == op' = "none" /\ step' = "none" /\ target' = current' /\ item' = "none" /\ UNCHANGED begun

(***************************************************************************)
(* migrate and rollback: _carry, shared by every command.  The data files  *)
(* are copied one after the other, groups.json first, the script files     *)
(* moved one by one, the marker written last.                              *)
(***************************************************************************)
From == IF op = "rollback" THEN "state" ELSE "plugin"
To   == IF op = "rollback" THEN "plugin" ELSE "state"

\* Mutant: the plugin's file is rewritten before its identities are carried.
GeneratePluginFirst ==
  CASE op = "start" -> "plugin-config" [] op \in {"fresh", "existing"} -> "report" [] OTHER -> "switch"

AfterCarry ==
  CASE op = "start" -> "runtime-config" [] op \in {"fresh", "existing"} -> "report" [] OTHER -> "switch"

CarryNothing ==
  /\ step = "carry" /\ marker = To
  /\ Go(AfterCarry)
  /\ UNCHANGED <<install, server, stores, legacy, running, ghosts>>

\* Mutant: a data file that the target folder already has is not copied again.
CopyMissing(f) ==
  data' = IF data[To][f] # 0 THEN data ELSE [data EXCEPT ![To][f] = data[From][f]]

\* The target's own file goes when the source folder has none.
CopyData(f) == data' = [data EXCEPT ![To][f] = data[From][f]]

CarryGroups ==
  /\ step = "carry" /\ marker # To
  /\ CopyData("groups")
  /\ Go("settings")
  /\ UNCHANGED <<install, server, marker, files, legacy, running, ghosts>>

CarrySettings ==
  /\ step = "settings"
  /\ CopyData("scripts")
  /\ Go("move")
  /\ UNCHANGED <<install, server, marker, files, legacy, running, ghosts>>

\* Mutant: the source is removed before it has been copied.
CopyScriptRemoves ==
  /\ step = "move" /\ files[From] # {}
  /\ \E s \in files[From] : files' = [files EXCEPT ![From] = @ \ {s}] /\ item' = s
  /\ step' = "remove"
  /\ UNCHANGED <<install, server, marker, data, legacy, running, ghosts, op, target, begun>>

CopyScript ==
  /\ step = "move" /\ files[From] # {}
  /\ \E s \in files[From] : files' = [files EXCEPT ![To] = @ \cup {s}] /\ item' = s
  /\ step' = "remove"
  /\ UNCHANGED <<install, server, marker, data, legacy, running, ghosts, op, target, begun>>

RemoveScript ==
  /\ step = "remove"
  /\ files' = [files EXCEPT ![From] = @ \ {item}]
  /\ step' = "move" /\ item' = "none"
  /\ UNCHANGED <<install, server, marker, data, legacy, running, ghosts, op, target, begun>>

WriteMarker ==
  /\ step = "move" /\ files[From] = {}
  /\ marker' = To
  /\ Go(AfterCarry)
  /\ UNCHANGED <<install, server, data, files, legacy, running, ghosts>>
-----------------------------------------------------------------------------
(***************************************************************************)
(* endbot setup --apply, for a new server or for one that was there.       *)
(***************************************************************************)
PlanBds == CASE bds > Lock[current] -> "newer" [] bds = Lock[current] -> "none" [] OTHER -> "acquire"

PlanRefuses == PlanBds = "newer" \/ (adopted /\ ~(CheckProperties /\ CheckWorld))

Setup ==
  /\ Idle /\ ~toml /\ ~PlanRefuses
  /\ IF adopted THEN Begin("existing", "backup", current) ELSE Begin("fresh", "acquire", current)
  /\ UNCHANGED <<install, server, stores, legacy, running, ghosts>>

\* create_backup, before Endstone overwrites the server's own files.
CreateBackup ==
  /\ step = "backup"
  /\ backups' = backups \cup {bds}
  /\ Go("acquire")
  /\ UNCHANGED <<install, bds, bad, keys, stores, legacy, running, ghosts>>

AcquireBds ==
  /\ step = "acquire"
  /\ bds' = Lock[target]
  /\ Go(IF op = "update" THEN "recheck" ELSE "properties")
  /\ UNCHANGED <<install, backups, bad, keys, stores, legacy, running, ghosts>>

\* A new server gets the safe values, one that was there is only checked.
SetupProperties ==
  /\ step = "properties"
  /\ bad' = IF op = "fresh" THEN bad \ {"unsafe", "unreadable"} ELSE bad
  /\ UNCHANGED <<install, bds, backups, keys, stores, legacy, running, ghosts>>
  /\ IF op = "existing" /\ ~CheckProperties THEN End ELSE Go("toml")

WriteEndbotToml ==
  /\ step = "toml"
  /\ toml' = TRUE /\ bad' = bad \ {"config", "web"}
  /\ Go("carry")
  /\ UNCHANGED <<app, stamps, current, adopted, bds, backups, keys, stores, legacy, running, ghosts>>

\* The doctor's report is only shown.
ReportDoctor ==
  /\ step = "report"
  /\ UNCHANGED <<install, server, stores, legacy, running, ghosts>>
  /\ End
-----------------------------------------------------------------------------
(***************************************************************************)
(* endbot update and endbot update --rollback.                             *)
(***************************************************************************)
\* The newest last; extracting again moves a directory to the end.
Stamped(v) == Append(SelectSeq(stamps, LAMBDA w : w # v), v)

\* The bundle of another version with endbotd, its archive verified.  An
\* existing target needs --force, which removes it first.
Update(v) ==
  /\ Idle /\ toml /\ v \in Later \ {current}
  /\ Begin("update", "extract", v)
  /\ app' = [app EXCEPT ![v] = "part"] /\ stamps' = Stamped(v)
  /\ UNCHANGED <<current, adopted, toml, server, stores, legacy, running, ghosts>>

ExtractBundle ==
  /\ At("update", "extract")
  /\ app' = [app EXCEPT ![target] = "whole"]
  /\ Go("doctor")
  /\ UNCHANGED <<stamps, current, adopted, toml, server, stores, legacy, running, ghosts>>

BlocksUpdate == BlockingBesidesBds \/ ~CheckWeb

\* The stores are carried by the command line of a version that knows them.
UpdateClean ==
  /\ op = "update" /\ step \in {"doctor", "recheck"} /\ ~BlocksUpdate /\ CheckBdsVersion(target)
  /\ Go(IF current \in Later THEN "carry" ELSE "switch")
  /\ UNCHANGED <<install, server, stores, legacy, running, ghosts>>

\* _bds_change: the new version's lock names another BDS and nothing else is wrong.
BdsChange ==
  /\ At("update", "doctor") /\ ~BlocksUpdate /\ ~CheckBdsVersion(target)
  /\ Go("backup")
  /\ UNCHANGED <<install, server, stores, legacy, running, ghosts>>

\* Any other failure keeps app/current; the extracted directory stays.
UpdateRefused ==
  /\ op = "update" /\ step \in {"doctor", "recheck"} /\ BlocksUpdate
  /\ UNCHANGED <<install, server, stores, legacy, running, ghosts>>
  /\ End

\* The stores are in place; app/current switches, for both directions.
Switch ==
  /\ step = "switch"
  /\ current' = target
  /\ UNCHANGED <<app, stamps, adopted, toml, server, stores, legacy, running, ghosts>>
  /\ End

\* The most recent other directory of app/, whatever is in it.
Candidates == SelectSeq(stamps, LAMBDA v : v # current)

Rollback ==
  /\ Idle /\ toml /\ current \in Later /\ Candidates # <<>>
  /\ Begin("rollback", "carry", Last(Candidates))
  /\ UNCHANGED <<install, server, stores, legacy, running, ghosts>>
-----------------------------------------------------------------------------
(***************************************************************************)
(* endbot start, up to the supervisor: the stores, the generated files in  *)
(* the order of generate_all, then the doctor.                             *)
(***************************************************************************)
Start ==
  /\ Idle /\ current \in Later /\ ConfigLoads
  /\ Begin("start", "carry", current)
  /\ UNCHANGED <<install, server, stores, legacy, running, ghosts>>

\* Direct signalling needs the port of server.properties; LAN discovery does not.
GenerateRuntimeConfig ==
  /\ At("start", "runtime-config")
  /\ UNCHANGED <<install, server, stores, legacy, running, ghosts>>
  /\ \/ Go("endbotd-config")
     \/ ~PropertiesParse /\ End

\* _read_legacy_allowlists: the first file with an [authorization] table decides,
\* with empty lists too; a file that does not parse ends the search.
LegacyAllowlists == IF legacy["plugin"] = "nothing" THEN legacy["endbotd"] ELSE legacy["plugin"]

\* Lists that could not be read are written as empty ones, with a warning.
GenerateEndbotdConfig ==
  /\ At("start", "endbotd-config")
  /\ legacy' = [legacy EXCEPT !["endbotd"] = IF LegacyAllowlists = "held" THEN "held" ELSE "empty"]
  /\ Go("plugin-config")
  /\ UNCHANGED <<install, server, stores, running, ghosts>>

\* Only how the plugin reaches endbotd.
GeneratePluginConfig ==
  /\ At("start", "plugin-config")
  /\ legacy' = [legacy EXCEPT !["plugin"] = "nothing"] /\ bad' = bad \ {"ports"}
  /\ Go("endstone-config")
  /\ UNCHANGED <<install, bds, backups, keys, stores, running, ghosts>>

GenerateEndstoneConfig ==
  /\ At("start", "endstone-config")
  /\ bad' = bad \ {"auth"}
  /\ Go("doctor")
  /\ UNCHANGED <<install, bds, backups, keys, stores, legacy, running, ghosts>>

\* A broken web does not keep the server down.
BlocksStart == BlockingBesidesBds \/ ~CheckBdsVersion(current)

StartRefused ==
  /\ At("start", "doctor") /\ BlocksStart
  /\ UNCHANGED <<install, server, stores, legacy, running, ghosts>>
  /\ End

\* The runtime makes the keys; BDS starts after it.
StartUp ==
  /\ At("start", "doctor") /\ ~BlocksStart
  /\ keys' = TRUE /\ running' = "up"
  /\ UNCHANGED <<install, bds, backups, bad, stores, legacy, ghosts>>
  /\ End

\* A version before endbotd starts on the plugin layout; it may write an
\* [authorization] table of its own into the plugin's file.
StartEarlier ==
  /\ Idle /\ toml /\ current \notin Later /\ CheckBdsVersion(current)
  /\ running' = "up" /\ begun' = begun + 1
  /\ legacy' \in {legacy, [legacy EXCEPT !["plugin"] = IF @ = "held" THEN "held" ELSE "empty"]}
  /\ UNCHANGED <<install, server, stores, op, step, target, item, ghosts>>

\* `start` after BDS exited: the ports and [local-bot-auth] are looked at again.
RestartBds ==
  /\ running = "stopped" /\ CheckLocalBotAuth
  /\ running' = "up"
  /\ UNCHANGED <<install, server, stores, legacy, command, ghosts>>
-----------------------------------------------------------------------------
\* A Group or a script setting is saved by the version that runs.
Edit(f) ==
  /\ running = "up" /\ latest["groups"] + latest["scripts"] < MaxEdits
  /\ latest' = [latest EXCEPT ![f] = @ + 1]
  /\ data' = [data EXCEPT ![LayoutOf(current)][f] = latest[f] + 1]
  /\ UNCHANGED <<install, server, marker, files, legacy, running, command, made>>

AddScript(s) ==
  /\ running = "up" /\ s \notin made
  /\ made' = made \cup {s}
  /\ files' = [files EXCEPT ![LayoutOf(current)] = @ \cup {s}]
  /\ UNCHANGED <<install, server, marker, data, legacy, running, command, latest>>

ServerEnds ==
  /\ running # "down"
  /\ running' \in IF running = "up" /\ current \in Later THEN {"down", "stopped"} ELSE {"down"}
  /\ UNCHANGED <<install, server, stores, legacy, command, ghosts>>

Break(f) ==
  /\ f \notin bad /\ Cardinality(bad \ {"auth"}) < MaxBad /\ step \in {"none", "properties", "recheck"}
  /\ f \in {"config", "web"} => toml
  /\ f = "ports" => keys
  /\ f \in {"unsafe", "unreadable", "world"} => bds # 0
  /\ bad' = bad \cup {f}
  /\ UNCHANGED <<install, bds, backups, keys, stores, legacy, running, command, ghosts>>

\* [local-bot-auth] is repaired by a start.
Fix(f) ==
  /\ f \in bad \ {"auth"} /\ op = "none"
  /\ bad' = bad \ {f}
  /\ UNCHANGED <<install, bds, backups, keys, stores, legacy, running, command, ghosts>>

\* A configuration is damaged, or its identities taken out by hand.
BreakLegacy(f) ==
  /\ op = "none" /\ legacy[f] = "held"
  /\ legacy' = [legacy EXCEPT ![f] = "empty"]
  /\ UNCHANGED <<install, server, stores, running, command, ghosts>>

\* A step fails, the operator interrupts the command, or the machine stops.
Interrupted ==
  /\ op # "none"
  /\ UNCHANGED <<install, server, stores, legacy, running, ghosts>>
  /\ End
-----------------------------------------------------------------------------
Carry == CarryNothing \/ CarryGroups \/ CarrySettings \/ CopyScript \/ RemoveScript \/ WriteMarker

Next ==
  \/ Setup \/ CreateBackup \/ AcquireBds \/ SetupProperties \/ WriteEndbotToml \/ ReportDoctor
  \/ Carry \/ ExtractBundle \/ UpdateClean \/ BdsChange \/ UpdateRefused \/ Switch \/ Rollback
  \/ Start \/ GenerateRuntimeConfig \/ GenerateEndbotdConfig \/ GeneratePluginConfig
  \/ GenerateEndstoneConfig \/ StartRefused \/ StartUp \/ StartEarlier \/ RestartBds \/ ServerEnds \/ Interrupted
  \/ \E v \in Versions : Update(v)
  \/ \E s \in Scripts : AddScript(s)
  \/ \E f \in DataFiles : Edit(f)
  \/ \E f \in Facets : Break(f) \/ Fix(f)
  \/ \E f \in Configs : BreakLegacy(f)

Spec == Init /\ [][Next]_vars
-----------------------------------------------------------------------------
\* The type of every variable; the directories of app/ are listed once each.
TypeOK ==
  /\ app \in [Versions -> {"none", "part", "whole"}]
  /\ IsInjective(stamps) /\ Range(stamps) = {v \in Versions : app[v] # "none"}
  /\ {current, target} \subseteq Versions /\ {adopted, toml, keys} \subseteq BOOLEAN
  /\ bds \in Nat /\ backups \subseteq Nat /\ bad \subseteq Facets /\ marker \in Layouts
  /\ data \in [Layouts -> [DataFiles -> 0..MaxEdits]] /\ files \in [Layouts -> SUBSET Scripts]
  /\ legacy \in [Configs -> Contents] /\ running \in {"down", "up", "stopped"}

\* A version that runs reads the newest Groups and script settings, across every
\* update and rollback and every interruption of the carry between the two
\* layouts (stores.py: the source stays authoritative until the marker is written).
NoLostEdits == running = "up" => data[LayoutOf(current)] = latest

\* A script file is always in one of the two folders: the carry removes a file
\* only after its copy is in place, whatever step it stops at.
ScriptsKept == made \subseteq files["plugin"] \cup files["state"]

\* Identities the next start would carry over (what _read_legacy_allowlists reads)
\* stay so through every step of every command, wherever it is interrupted: the
\* file that takes them over is written before the plugin's own is rewritten.
\* Between two commands they can go: a file damaged by hand, or an [authorization]
\* table an earlier version wrote into the plugin's file, hides them.
LegacyKept ==
  [][LegacyAllowlists = "held" => LegacyAllowlists' = "held" \/ (op = "none" /\ op' = "none")]_vars

=============================================================================
