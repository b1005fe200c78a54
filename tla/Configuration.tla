--------------------------- MODULE Configuration ---------------------------
(***************************************************************************)
(* The configuration of a cluster and the daemon that lives by it: the     *)
(* /config key and those who change it (PATCH and PUT of the REST API,     *)
(* patronictl edit-config, the leader that finds the key missing, the      *)
(* pause that follows a GTID fork), the objects Config and GlobalConfig of *)
(* one node (patroni/config.py, global_config.py), its file, its cache in  *)
(* the data directory, and the main loop with its signals                  *)
(* (patroni/daemon.py, patroni/__main__.py).                               *)
(*                                                                         *)
(* A dynamic configuration is a function on the settings that matter here; *)
(* "max_connections" stands for the parameters that only the dynamic       *)
(* configuration may set (ConfigHandler.CMDLINE_OPTIONS), "work_mem" for   *)
(* the others.                                                             *)
(***************************************************************************)
EXTENDS Integers, Sequences

CONSTANTS Editors,       \* requests that change the key
          KindOf,        \* "patch" (compare and set) or "put", for each editor
          Patches,       \* what a patch sets: functions on a subset of Settings, Unset removes
          FirstConfig,   \* the configuration in the key at the start
          Bootstrap,     \* section bootstrap.dcs of the file
          Files,         \* contents of the file: n, ok, max_connections, work_mem
          Raising,       \* components whose reload may raise, by their place in Components
          MaxEvents      \* bound: edits, changes of the file, wipes, forks, stops and crashes

Settings == {"ttl", "loop_wait", "retry_timeout", "max_connections", "work_mem", "pause"}
Unset == -1            \* a missing setting
NoConfig == <<>>        \* a missing key
On == 1                 \* pause: true
Bad == -2              \* a value that cannot be used
Defaults == [k \in Settings |->
    CASE k = "ttl" -> 30 [] k \in {"loop_wait", "retry_timeout"} -> 10 [] k = "max_connections" -> 100 [] OTHER -> Unset]

ASSUME ConfigurationAssumption ==
    /\ KindOf \in [Editors -> {"patch", "put"}]
    /\ DOMAIN FirstConfig = Settings /\ DOMAIN Bootstrap = Settings
    /\ \A p \in Patches : DOMAIN p \subseteq Settings
    /\ Raising \subseteq 1..5
    /\ MaxEvents \in Nat

Components == <<"log", "api", "watchdog", "db", "dcs">>
LocalOnly == {"log", "api"}

VARIABLES cfKey,     \* the key: data and version
          cfEdit,    \* where an editor is, and what it has read
          cfWanted,  \* for each setting, what the last acknowledged writer made of it
          cfFile,    \* the configuration file
          cfPhase,   \* "down", "started", "loop", "cycle", "cycled" or "stopping"
          cfView,    \* the key as of the last get_cluster()
          cfMem,     \* Config: file, dynamic configuration, _modify_version, effective configuration
          cfCache,   \* patroni.dynamic.json and _cache_needs_saving
          cfApplied, \* effective configuration each component has been given
          cfFlags,   \* SIGHUP and SIGTERM received, a GTID fork found, a reload that raised
          cfEvents   \* events from outside so far

cfVars == <<cfKey, cfEdit, cfWanted, cfFile, cfPhase, cfView, cfMem, cfCache, cfApplied, cfFlags, cfEvents>>

Value(c, k) == IF c = NoConfig \/ c[k] = Unset THEN Defaults[k] ELSE c[k]

\* _validate_and_adjust_timeouts, in place: the defaults stay unwritten unless they have to give way.
Adjusted(c) ==
    LET loop == IF Value(c, "loop_wait") < 1 THEN 1 ELSE Value(c, "loop_wait")
        retry == IF Value(c, "retry_timeout") < 3 THEN 3 ELSE Value(c, "retry_timeout")
        ttl == IF Value(c, "ttl") < 20 THEN 20 ELSE Value(c, "ttl")
        Put(k, v) == IF v = Value(c, k) THEN c[k] ELSE v
    IN [c EXCEPT !["ttl"] = Put("ttl", ttl),
                 !["retry_timeout"] = Put("retry_timeout", IF 1 + 2 * retry > ttl THEN (ttl - 1) \div 2 ELSE retry),
                 !["loop_wait"] = Put("loop_wait", CASE 1 + 2 * retry > ttl -> 1
                                                     [] 1 + 2 * retry <= ttl /\ loop + 2 * retry > ttl -> ttl - 2 * retry
                                                     [] OTHER -> loop)]

(***************************************************************************)
(* _build_effective_configuration with _safe_copy_dynamic_configuration    *)
(* and _process_postgresql_parameters: the file wins, but not for the      *)
(* settings that are global, and its parameters of the command line are    *)
(* left out.  A dynamic value of those that does not validate gives way to *)
(* the default.                                                            *)
(***************************************************************************)
Effective(dyn, file) ==
    [n |-> file.n,
     ttl |-> Value(dyn, "ttl"), loop_wait |-> Value(dyn, "loop_wait"), retry_timeout |-> Value(dyn, "retry_timeout"),
     max_connections |-> IF Value(dyn, "max_connections") = Bad THEN Defaults["max_connections"]
                         ELSE Value(dyn, "max_connections"),
     work_mem |-> IF file.work_mem # Unset THEN file.work_mem ELSE Value(dyn, "work_mem")]

\* Timeouts that are not integers make set_dynamic_configuration fail.
Usable(c) == Bad \notin {c["ttl"], c["loop_wait"], c["retry_timeout"]}

\* set_dynamic_configuration: c comes with its version from the DCS, or with -1 from the cache or the file.
SetDynamic(mem, c, version) ==
    IF version # -1 /\ version = mem.version THEN mem
    ELSE [mem EXCEPT !.version = IF version = -1 THEN @ ELSE version,
                     !.dynamic = IF Usable(c) THEN Adjusted(c) ELSE @,
                     !.eff = IF Usable(c) THEN Effective(Adjusted(c), mem.file) ELSE @]

\* What it returns: a new version whose data differ from those in force, and can be used.
Changes(mem, c, version) == (version = -1 \/ version # mem.version) /\ c # mem.dynamic /\ Usable(c)

\* Components given the effective configuration by one reload: all those before the one that raises.
ReloadedBy(applied, eff, local, raisesAt) ==
    [c \in DOMAIN applied |->
        IF \E i \in 1..Len(Components) : Components[i] = c /\ i < raisesAt /\ (c \in LocalOnly => local)
        THEN eff ELSE applied[c]]

\* Nothing in memory.
NoView == [data |-> NoConfig, version |-> 0]
Blank(f) == [file |-> f, dynamic |-> NoConfig, version |-> -1, eff |-> Effective(NoConfig, f)]
NoFlags == [hup |-> FALSE, term |-> FALSE, fork |-> FALSE, raised |-> FALSE]
Idle == [at |-> "idle", read |-> NoConfig, version |-> 0]
Done == [Idle EXCEPT !.at = "done"]

CfInit ==
    /\ cfKey = [data |-> FirstConfig, version |-> 1]
    /\ cfEdit = [e \in Editors |-> Idle]
    /\ cfWanted = FirstConfig
    /\ cfFile = CHOOSE f \in Files : f.ok
    /\ cfPhase = "down"
    /\ cfView = NoView
    /\ cfMem = Blank(cfFile)
    /\ cfCache = [file |-> NoConfig, dirty |-> FALSE]
    /\ cfApplied = [c \in {"log", "api", "watchdog", "db", "dcs"} |-> cfMem.eff]
    /\ cfFlags = NoFlags
    /\ cfEvents = 0

Event == cfEvents < MaxEvents /\ cfEvents' = cfEvents + 1

-----------------------------------------------------------------------------
\* Set(_, version) on the key, version 0 for an unconditional write.
KeySet(data, version) ==
    IF version \in {0, cfKey.version} /\ (version # 0 => cfKey.data # NoConfig)
    THEN [data |-> data, version |-> cfKey.version + 1] ELSE cfKey

\* patch_config: Unset removes a setting.
Patched(c, p) == [k \in Settings |-> IF k \in DOMAIN p THEN p[k] ELSE c[k]]

\* get_cluster() of a request.  PATCH gives up (503), edit-config too, when there is no configuration.
EditRead(e) ==
    /\ cfEdit[e].at = "idle" /\ (KindOf[e] = "patch" => cfKey.data # NoConfig)
    /\ cfEdit' = [cfEdit EXCEPT ![e] = [at |-> "read", read |-> cfKey.data, version |-> cfKey.version]]
    /\ Event
    /\ UNCHANGED <<cfKey, cfWanted, cfFile, cfPhase, cfView, cfMem, cfCache, cfApplied, cfFlags>>

\* do_PATCH_config and edit_config: nothing to change, 409, or the new configuration is in force.
EditPatch(e, p) ==
    /\ cfEdit[e].at = "read" /\ KindOf[e] = "patch"
    /\ LET new == Patched(cfEdit[e].read, p)
           won == cfKey.version = cfEdit[e].version /\ cfKey.data # NoConfig
       IN /\ cfKey' = IF new = cfEdit[e].read THEN cfKey ELSE KeySet(new, cfEdit[e].version)
          /\ cfWanted' = IF new # cfEdit[e].read /\ won THEN Patched(cfWanted, p) ELSE cfWanted
    /\ cfEdit' = [cfEdit EXCEPT ![e] = Done]
    /\ UNCHANGED <<cfFile, cfPhase, cfView, cfMem, cfCache, cfApplied, cfFlags, cfEvents>>

\* do_PUT_config: replaces whatever is there.
EditPut(e, p) ==
    /\ cfEdit[e].at = "read" /\ KindOf[e] = "put"
    /\ LET new == Patched([k \in Settings |-> Unset], p)
       IN /\ cfKey' = IF new = cfEdit[e].read THEN cfKey ELSE KeySet(new, 0)
          /\ cfWanted' = IF new = cfEdit[e].read THEN cfWanted ELSE new
    /\ cfEdit' = [cfEdit EXCEPT ![e] = Done]
    /\ UNCHANGED <<cfFile, cfPhase, cfView, cfMem, cfCache, cfApplied, cfFlags, cfEvents>>

\* Somebody wipes the DCS out.
Wipe ==
    /\ cfKey.data # NoConfig
    /\ cfKey' = [cfKey EXCEPT !.data = NoConfig]
    /\ cfWanted' = NoConfig
    /\ Event
    /\ UNCHANGED <<cfEdit, cfFile, cfPhase, cfView, cfMem, cfCache, cfApplied, cfFlags>>

-----------------------------------------------------------------------------
\* The operator writes the file and sends SIGHUP (or POST /reload).
WriteFile(f) ==
    /\ f # cfFile
    /\ cfFile' = f
    /\ cfFlags' = [cfFlags EXCEPT !.hup = cfPhase # "down"]
    /\ Event
    /\ UNCHANGED <<cfKey, cfEdit, cfWanted, cfPhase, cfView, cfMem, cfCache, cfApplied>>

\* abstract_main and Config.__init__: the file, then the cache; the process exits if the file is invalid.
StartDaemon ==
    /\ cfPhase = "down" /\ cfFile.ok
    /\ cfMem' = IF cfCache.file = NoConfig THEN Blank(cfFile) ELSE SetDynamic(Blank(cfFile), cfCache.file, -1)
    /\ cfPhase' = "started"
    /\ UNCHANGED <<cfKey, cfEdit, cfWanted, cfFile, cfView, cfCache, cfApplied, cfFlags, cfEvents>>

\* The process is gone with all it had in memory.
ProcessGone ==
    /\ cfPhase' = "down"
    /\ cfView' = NoView /\ cfMem' = Blank(cfFile) /\ cfFlags' = NoFlags
    /\ cfApplied' = [c \in DOMAIN cfApplied |-> cfMem'.eff]
    /\ cfCache' = [cfCache EXCEPT !.dirty = FALSE]
    /\ UNCHANGED <<cfKey, cfEdit, cfWanted, cfFile>>

\* ensure_unique_name finds a member of this name that answers, or SIGTERM comes: the process exits.
StartAborted ==
    /\ cfPhase = "started"
    /\ Event /\ ProcessGone

\* ensure_dcs_access and apply_dynamic_configuration; the components are created or reloaded with the result.
ApplyDynamic ==
    /\ cfPhase = "started"
    /\ LET mem == CASE cfKey.data # NoConfig -> SetDynamic(cfMem, cfKey.data, cfKey.version)
                    [] cfKey.data = NoConfig /\ cfMem.dynamic = NoConfig -> SetDynamic(cfMem, Bootstrap, -1)
                    [] OTHER -> cfMem
       IN /\ cfMem' = mem
          /\ cfApplied' = [c \in DOMAIN cfApplied |-> mem.eff]
          /\ cfCache' = [cfCache EXCEPT !.dirty = @ \/ mem.dynamic # cfMem.dynamic]
    /\ cfPhase' = "loop"
    /\ UNCHANGED <<cfKey, cfEdit, cfWanted, cfFile, cfView, cfFlags, cfEvents>>

\* The main loop finds SIGHUP: reload_local_configuration, then reload_config(True, local).
ReloadFile(raisesAt) ==
    /\ cfPhase = "loop" /\ cfFlags.hup
    /\ LET local == cfFile.ok /\ cfFile # cfMem.file
           mem == IF local THEN [cfMem EXCEPT !.file = cfFile, !.eff = Effective(cfMem.dynamic, cfFile)] ELSE cfMem
       IN /\ cfMem' = mem
          /\ cfApplied' = ReloadedBy(cfApplied, mem.eff, local, raisesAt)
          /\ cfFlags' = [cfFlags EXCEPT !.hup = FALSE, !.raised = @ \/ raisesAt <= Len(Components)]
    /\ UNCHANGED <<cfKey, cfEdit, cfWanted, cfFile, cfPhase, cfView, cfCache, cfEvents>>

\* run_cycle begins: get_cluster(), global_config.update().
CycleBegins ==
    /\ cfPhase = "loop" /\ ~cfFlags.hup /\ ~cfFlags.term
    /\ cfView' = cfKey
    /\ cfPhase' = "cycle"
    /\ UNCHANGED <<cfKey, cfEdit, cfWanted, cfFile, cfMem, cfCache, cfApplied, cfFlags, cfEvents>>

\* Altered form: the write is compared with another version than the one the view has.
PauseOtherVersion(view) ==
    IF view.data = NoConfig THEN KeySet(Patched([k \in Settings |-> Unset], [pause |-> On]), 0)
    ELSE KeySet(Patched(view.data, [pause |-> On]), view.version + 1)

\* _handle_mgr_gtid_fork writes the pause with the version of the view, or unconditionally if there was no key.
PauseForFork(view) ==
    IF view.data = NoConfig THEN KeySet(Patched([k \in Settings |-> Unset], [pause |-> On]), 0)
    ELSE KeySet(Patched(view.data, [pause |-> On]), view.version)

(***************************************************************************)
(* The rest of the cycle: a GTID fork pauses the cluster unless it is      *)
(* paused; the leader puts back a configuration that is missing.           *)
(***************************************************************************)
CycleActs ==
    /\ cfPhase = "cycle"
    /\ LET forks == cfFlags.fork /\ Value(cfView.data, "pause") # On
           restores == ~forks /\ cfView.data = NoConfig /\ cfMem.dynamic # NoConfig
       IN /\ cfKey' = CASE forks -> PauseForFork(cfView) [] restores -> KeySet(cfMem.dynamic, 0) [] OTHER -> cfKey
          /\ cfWanted' = CASE cfKey' = cfKey -> cfWanted
                           [] cfKey' # cfKey /\ forks /\ cfView.data # NoConfig -> Patched(cfWanted, [pause |-> On])
                           [] OTHER -> cfKey'.data
    /\ cfPhase' = "cycled"
    /\ UNCHANGED <<cfEdit, cfFile, cfView, cfMem, cfCache, cfApplied, cfFlags, cfEvents>>

\* _run_cycle: the dynamic configuration of the view is applied and kept in the cache, which may fail.
CycleEnds(raisesAt, saved) ==
    /\ cfPhase = "cycled"
    /\ LET mem == IF cfView.data = NoConfig THEN cfMem ELSE SetDynamic(cfMem, cfView.data, cfView.version)
           changed == cfView.data # NoConfig /\ Changes(cfMem, cfView.data, cfView.version)
           dirty == cfCache.dirty \/ changed
       IN /\ changed \/ raisesAt > Len(Components)
          /\ cfMem' = mem
          /\ cfApplied' = IF changed THEN ReloadedBy(cfApplied, mem.eff, FALSE, raisesAt) ELSE cfApplied
          /\ cfFlags' = [cfFlags EXCEPT !.raised = @ \/ raisesAt <= Len(Components)]
          /\ cfCache' = IF dirty /\ saved THEN [file |-> mem.dynamic, dirty |-> FALSE]
                        ELSE [cfCache EXCEPT !.dirty = dirty]
    /\ cfPhase' = "loop"
    /\ cfView' = NoView
    /\ UNCHANGED <<cfKey, cfEdit, cfWanted, cfFile, cfEvents>>

\* A MySQL group replication node finds GTID sets that do not compare.
ForkFound ==
    /\ cfPhase \in {"loop", "cycle"} /\ ~cfFlags.fork
    /\ cfFlags' = [cfFlags EXCEPT !.fork = TRUE]
    /\ Event
    /\ UNCHANGED <<cfKey, cfEdit, cfWanted, cfFile, cfPhase, cfView, cfMem, cfCache, cfApplied>>

\* SIGTERM, once; the loop is left and shutdown() ends API, HA and logger, whatever they raise.
SigTerm ==
    /\ cfPhase \in {"loop", "cycle", "cycled"} /\ ~cfFlags.term
    /\ cfFlags' = [cfFlags EXCEPT !.term = TRUE]
    /\ cfPhase' = "stopping"
    /\ Event
    /\ UNCHANGED <<cfKey, cfEdit, cfWanted, cfFile, cfView, cfMem, cfCache, cfApplied>>

ShutdownDaemon ==
    /\ cfPhase = "stopping"
    /\ ProcessGone /\ UNCHANGED cfEvents

\* kill -9, or the machine goes away.
CrashDaemon ==
    /\ cfPhase # "down"
    /\ Event /\ ProcessGone

DaemonLoop ==
    \/ ApplyDynamic \/ CycleBegins \/ CycleActs
    \/ \E r \in Raising \union {Len(Components) + 1} : ReloadFile(r)
    \/ \E r \in Raising \union {Len(Components) + 1}, saved \in BOOLEAN : CycleEnds(r, saved)

CfNext ==
    \/ \E e \in Editors : EditRead(e) \/ \E p \in Patches : EditPatch(e, p) \/ EditPut(e, p)
    \/ \E f \in Files : WriteFile(f)
    \/ Wipe \/ StartDaemon \/ StartAborted \/ DaemonLoop \/ ForkFound \/ SigTerm \/ ShutdownDaemon \/ CrashDaemon

CfSpec == CfInit /\ [][CfNext]_cfVars

-----------------------------------------------------------------------------
(***************************************************************************)
(* "loop_wait + 2 * retry_timeout <= ttl" and the minimal values hold for  *)
(* the configuration every component works with, whatever was written to   *)
(* the key, the cache or the file, and in whatever order it was applied.   *)
(***************************************************************************)
TimeoutsFit ==
    \A eff \in {cfMem.eff} \union {cfApplied[c] : c \in DOMAIN cfApplied} :
        /\ eff.loop_wait + 2 * eff.retry_timeout <= eff.ttl
        /\ eff.loop_wait >= 1 /\ eff.retry_timeout >= 3 /\ eff.ttl >= 20

(***************************************************************************)
(* No acknowledged change of the configuration is lost to a concurrent     *)
(* PATCH, edit-config or pause: a setting has the value the last           *)
(* acknowledged writer gave it.  (A PUT, and the leader that restores a    *)
(* missing key, replace all settings.)                                     *)
(***************************************************************************)
NoLostUpdate == cfKey.data = cfWanted

(***************************************************************************)
(* Between cycles every component works with the configuration in memory,  *)
(* through reloads of the file, changes of the key and restarts, unless a  *)
(* reload has raised on the way.                                           *)
(***************************************************************************)
ComponentsAgree ==
    cfPhase = "loop" /\ ~cfFlags.raised =>
        \A c \in DOMAIN cfApplied :
            IF c \in LocalOnly THEN cfApplied[c].n = cfMem.eff.n ELSE cfApplied[c] = cfMem.eff

(***************************************************************************)
(* A node that has cached the configuration does not fall back to section  *)
(* bootstrap.dcs of its file when the DCS was wiped out: what it restores  *)
(* is a configuration that was in force.                                   *)
(***************************************************************************)
WipedDcsRestored ==
    [][cfPhase = "started" /\ cfPhase' = "loop" /\ cfCache.file # NoConfig /\ cfKey.data = NoConfig
         => cfMem'.dynamic = cfCache.file]_cfVars

\* The file is in memory at the end, unless it cannot be parsed or the daemon is down or stops: no SIGHUP is lost.
FileLoaded == []<>(cfMem.file = cfFile \/ ~cfFile.ok \/ cfPhase \in {"down", "stopping"})

\* A GTID fork ends in a paused cluster although others change the configuration at the same time.
ForkPauses == []<>(~cfFlags.fork \/ cfPhase \in {"down", "stopping"} \/ Value(cfKey.data, "pause") = On)
=============================================================================
