------------------------------ MODULE Watchdog ------------------------------
(***************************************************************************)
(* The watchdog of one node (patroni/watchdog/): the facade Watchdog, its  *)
(* implementations LinuxWatchdogDevice and NullWatchdog, the kernel's      *)
(* devices behind them, and the calls the HA loop makes: activate() when   *)
(* the node leads and the watchdog is not running, keepalive() after every *)
(* refresh of the leader key, disable() at the safepoint of a stop, when   *)
(* PostgreSQL is found dead and in every cycle of maintenance mode, and    *)
(* reload_config() whenever the configuration changes.                     *)
(*                                                                         *)
(* Time is left out: what counts is which device is armed, with which      *)
(* timeout, and whether anybody will send it keepalives.                   *)
(***************************************************************************)
EXTENDS Integers, FiniteSets

CONSTANTS Devices,        \* watchdog devices of the machine
          Null,           \* NullWatchdog, or a driver that is not supported
          Settable,       \* devices with WDIOF_SETTIMEOUT
          MagicClose,     \* devices with WDIOF_MAGICCLOSE: closing them disarms them
          FactoryTimeout, \* timeout of a device before anybody sets it
          Configs,        \* configurations: mode, timeout, loopWait, device
          WdFaults,         \* system calls that may fail
          MaxWdFaults       \* bound on failing system calls

Modes == {"off", "automatic", "required"}

ASSUME WatchdogAssumption ==
    /\ Null \notin Devices
    /\ Settable \subseteq Devices /\ MagicClose \subseteq Devices
    /\ FactoryTimeout \in Nat \ {0}
    /\ Configs \subseteq [mode : Modes, timeout : Nat, loopWait : Nat, device : Devices \union {Null}]
    /\ WdFaults \subseteq {"open", "configure", "keepalive", "close"}
    /\ MaxWdFaults \in Nat

VARIABLES config,       \* Watchdog.config
          activeConfig, \* Watchdog.active_config
          active,       \* Watchdog.active
          dev,          \* Watchdog.impl, whether it is running, and the devices of the kernel
          leads,        \* PostgreSQL is running as primary
          pause,        \* maintenance mode: "no", "yes", "ending" until the next cycle
          tried,        \* configuration of the last activation that gave up
          wdFaults        \* failed system calls so far

wdVars == <<config, activeConfig, active, dev, leads, pause, tried, wdFaults>>

Slack(c) == c.timeout - c.loopWait

(***************************************************************************)
(* The implementation and the kernel.  A device can be open only once; it  *)
(* is armed as soon as it is opened.                                       *)
(***************************************************************************)
Use(d, impl) == [d EXCEPT !.impl = impl, !.running = FALSE]
Opened(d) == [d EXCEPT !.running = TRUE, !.hw[d.impl].open = TRUE, !.hw[d.impl].armed = TRUE]
OpenFails(d, fault) == fault = "open" \/ d.hw[d.impl].open

\* _set_timeout: devices without WDIOF_SETTIMEOUT keep theirs.
WithTimeout(d, t) == IF d.impl \in Settable THEN [d EXCEPT !.hw[d.impl].timeout = t] ELSE d

\* Altered form: the file is closed without the magic character.
ClosedPlainly(d, fault) ==
    IF ~d.running \/ fault = "close" THEN d
    ELSE [d EXCEPT !.running = FALSE, !.hw[d.impl].open = FALSE]

\* _disable and LinuxWatchdogDevice.close.
Closed(d, fault) ==
    IF ~d.running \/ fault = "close" THEN d
    ELSE [d EXCEPT !.running = FALSE, !.hw[d.impl].open = FALSE,
                   !.hw[d.impl].armed = d.impl \notin MagicClose]

(***************************************************************************)
(* _activate and _set_timeout.  Whatever cannot be used is replaced by the *)
(* null implementation; a device whose timeout is shorter than loop_wait   *)
(* is closed again when it can be.                                         *)
(***************************************************************************)
Activated(d, c, fault) ==
    LET set == WithTimeout(Opened(d), c.timeout)
    IN CASE Slack(c) < 0 \/ d.impl = Null -> Use(d, Null)
         [] Slack(c) >= 0 /\ d.impl # Null /\ OpenFails(d, fault) -> Use(d, Null)
         [] Slack(c) >= 0 /\ d.impl # Null /\ ~OpenFails(d, fault) /\ fault = "configure" -> Use(Opened(d), Null)
         [] OTHER -> IF set.hw[d.impl].timeout < c.loopWait /\ d.impl \in MagicClose
                     THEN Use(Closed(set, fault), Null) ELSE set

\* What _activate returns: a required watchdog runs, with a timeout within the configured one.
Safe(d, c) == c.mode = "required" => d.running /\ d.hw[d.impl].timeout <= c.timeout

-----------------------------------------------------------------------------
Fail(fault) ==
    /\ fault \in WdFaults \union {"none"}
    /\ fault # "none" => wdFaults < MaxWdFaults
    /\ wdFaults' = IF fault = "none" THEN wdFaults ELSE wdFaults + 1

WdInit ==
    /\ config \in Configs
    /\ activeConfig = config
    /\ active = FALSE
    /\ dev = [impl |-> IF config.mode = "off" THEN Null ELSE config.device, running |-> FALSE,
              hw |-> [x \in Devices |-> [open |-> FALSE, armed |-> FALSE, timeout |-> FactoryTimeout]]]
    /\ config.mode = "required" => dev.impl # Null
    /\ leads = FALSE
    /\ pause = "no"
    /\ tried = config
    /\ wdFaults = 0

(***************************************************************************)
(* reload_config: "off" is applied at once; other changes at once when the *)
(* watchdog is not active, otherwise with the next keepalive.              *)
(***************************************************************************)
ReloadConfig(c, fault) ==
    LET off == c.mode = "off"
        d1 == IF off THEN Use(IF active THEN Closed(dev, fault) ELSE dev, Null) ELSE dev
        last == IF off THEN c ELSE activeConfig
    IN /\ Fail(fault)
       /\ config' = c
       /\ dev' = IF ~active /\ c.device # last.device THEN Use(d1, c.device) ELSE d1
       /\ activeConfig' = IF ~active THEN c ELSE last
       /\ UNCHANGED <<active, leads, pause, tried>>

\* Altered form: a device that is already running keeps its timeout.
KeepaliveKeepsTimeout(fault) ==
    IF ~active \/ fault = "keepalive" THEN [dev |-> dev, applied |-> activeConfig]
    ELSE [dev |-> dev, applied |-> config]

(***************************************************************************)
(* keepalive: feed the device, then apply a pending configuration.  An     *)
(* exception leaves the rest of it pending.                                *)
(***************************************************************************)
WdKeepalive(fault) ==
    LET raises == dev.impl # Null /\ (~dev.running \/ fault = "keepalive")
        switchOn == config.mode # "off" /\ activeConfig.mode = "off"
        d1 == IF switchOn THEN Activated(Use(dev, config.device), config, fault) ELSE dev
        moved == ~switchOn /\ config.device # activeConfig.device
        d2 == IF moved THEN Activated(Use(Closed(d1, fault), config.device), config, fault) ELSE d1
        resize == ~switchOn /\ ~moved /\ config.timeout # activeConfig.timeout
        refused == resize /\ (d2.impl \notin Settable \/ fault = "configure")
    IN CASE ~active \/ raises \/ config = activeConfig -> [dev |-> dev, applied |-> activeConfig]
         [] active /\ ~raises /\ config # activeConfig /\ refused -> [dev |-> d2, applied |-> activeConfig]
         [] OTHER -> [dev |-> IF resize THEN WithTimeout(d2, config.timeout) ELSE d2, applied |-> config]

(***************************************************************************)
(* enforce_primary_role: activate() unless the watchdog is running; the    *)
(* node leads, or stops leading, by its answer.                            *)
(***************************************************************************)
Enforce(d, applied, fault) ==
    LET tryIt == ~d.running
        d1 == IF tryIt THEN Activated(d, config, fault) ELSE d
    IN /\ dev' = d1
       /\ active' = (tryIt \/ active)
       /\ activeConfig' = IF tryIt THEN config ELSE applied
       /\ leads' = (~tryIt \/ Safe(d1, config))
       /\ tried' = IF tryIt /\ d1.impl = Null THEN config ELSE tried

\* Watchdog.is_healthy, asked before the leader race.
IsHealthy == config.mode = "required" => Slack(config) >= 0 /\ dev.impl # Null

\* The node gets the leader key.
Lead(fault) ==
    /\ ~leads /\ IsHealthy /\ pause # "yes"
    /\ Fail(fault)
    /\ Enforce(dev, activeConfig, fault)
    /\ pause' = "no"
    /\ UNCHANGED config

\* A cycle of the leader: update_lock(), then enforce_primary_role().
LeaderCycle(fault) ==
    LET k == WdKeepalive(fault)
    IN /\ leads /\ pause # "yes"
       /\ Fail(fault)
       /\ Enforce(k.dev, k.applied, fault)
       /\ pause' = "no"
       /\ UNCHANGED config

\* PostgreSQL is stopped: disable() at the safepoint if the watchdog is running.
WdDemote(fault) ==
    /\ leads /\ pause # "yes"
    /\ Fail(fault)
    /\ dev' = Closed(dev, fault)
    /\ active' = (active /\ ~dev.running)
    /\ leads' = FALSE
    /\ UNCHANGED <<config, activeConfig, pause, tried>>

\* recover() and post_recover(): PostgreSQL is found dead.
Recover(fault) ==
    /\ pause # "yes"
    /\ Fail(fault)
    /\ dev' = Closed(dev, fault)
    /\ active' = FALSE
    /\ leads' = FALSE
    /\ UNCHANGED <<config, activeConfig, pause, tried>>

\* A cycle in maintenance mode.
PausedCycle(fault) ==
    /\ Fail(fault)
    /\ dev' = Closed(dev, fault)
    /\ active' = FALSE
    /\ pause' = "yes"
    /\ UNCHANGED <<config, activeConfig, leads, tried>>

Resume ==
    /\ pause = "yes"
    /\ pause' = "ending"
    /\ UNCHANGED <<config, activeConfig, active, dev, leads, tried, wdFaults>>

WdNext ==
    \/ Resume
    \/ \E fault \in WdFaults \union {"none"} :
         \/ Lead(fault) \/ LeaderCycle(fault) \/ WdDemote(fault) \/ Recover(fault) \/ PausedCycle(fault)
         \/ \E c \in Configs : ReloadConfig(c, fault)

WdSpec == WdInit /\ [][WdNext]_wdVars

-----------------------------------------------------------------------------
\* Type invariant: the state of the facade and of the devices behind it.
WdTypeOK ==
    /\ config \in Configs /\ activeConfig \in Configs /\ tried \in Configs
    /\ active \in BOOLEAN /\ leads \in BOOLEAN
    /\ dev.impl \in Devices \union {Null}
    /\ dev.running \in BOOLEAN /\ (dev.running => dev.impl # Null)
    /\ \A x \in Devices : dev.hw[x].open \in BOOLEAN /\ dev.hw[x].armed \in BOOLEAN /\ dev.hw[x].timeout \in Nat
    /\ pause \in {"no", "yes", "ending"}
    /\ wdFaults \in 0..MaxWdFaults

(***************************************************************************)
(* While a node leads under a configuration that requires a watchdog, its  *)
(* watchdog runs, is fed by keepalive() and expires within the timeout of  *)
(* the configuration in force: reloads, a maintenance mode that ended,     *)
(* devices that were exchanged and failed system calls included.           *)
(***************************************************************************)
LeaderProtected ==
    leads /\ pause = "no" /\ activeConfig.mode = "required" =>
        /\ active /\ dev.running
        /\ dev.hw[dev.impl].armed
        /\ dev.hw[dev.impl].timeout <= activeConfig.timeout

(***************************************************************************)
(* No device that can be disarmed is left to expire: it is armed only      *)
(* while the node leads and sends it keepalives more often than its        *)
(* timeout.                                                                *)
(***************************************************************************)
NoSpuriousReset ==
    \A x \in MagicClose : dev.hw[x].armed =>
        leads /\ active /\ dev.running /\ dev.impl = x /\ dev.hw[x].timeout >= activeConfig.loopWait

(***************************************************************************)
(* A change of the watchdog's configuration gets the device tried again:   *)
(* a required watchdog whose timeouts fit is found unhealthy only with the *)
(* very configuration with which activating it failed.                     *)
(***************************************************************************)
RetriedAfterChange ==
    config.mode = "required" /\ config.device # Null /\ Slack(config) >= 0 /\ config # tried => IsHealthy
=============================================================================
