-------------------------- MODULE ProtectionProofs --------------------------
(***************************************************************************)
(* What protects a cluster from two primaries, and what it says of itself, *)
(* for every value of the constants: the watchdog of a node, the failsafe  *)
(* mode and the health checks of the REST API.                             *)
(***************************************************************************)
EXTENDS Watchdog, Failsafe, HealthChecks, TLAPS

-----------------------------------------------------------------------------
(***************************************************************************)
(* The watchdog: any devices and configurations, and any number of failing *)
(* system calls.                                                           *)
(***************************************************************************)
Kernel == [Devices -> [open : BOOLEAN, armed : BOOLEAN, timeout : Nat]]
Handles == [impl : Devices \union {Null}, running : BOOLEAN, hw : Kernel]

\* The types, with those of the devices.
WdType ==
    /\ config \in Configs /\ activeConfig \in Configs /\ tried \in Configs
    /\ active \in BOOLEAN /\ leads \in BOOLEAN
    /\ dev \in Handles
    /\ pause \in {"no", "yes", "ending"}
    /\ wdFaults \in 0..MaxWdFaults

\* A device that runs is armed, with the timeout t.
RunsWith(d, t) == d.running => d.impl # Null /\ d.hw[d.impl].armed /\ d.hw[d.impl].timeout = t

(***************************************************************************)
(* The invariant.  Nothing runs that activate() did not start, with the    *)
(* timeout of the configuration in force; "off" is in force at once; and a *)
(* leader outside of maintenance mode has called activate(), so that a     *)
(* reload waits for its next keepalive.                                    *)
(***************************************************************************)
RunningIsActive == dev.running => active
RunningAsConfigured == RunsWith(dev, activeConfig.timeout)
OffAtOnce == /\ config.mode = "off" => activeConfig = config
             /\ activeConfig.mode = "off" => dev.impl = Null
LeaderIsActive == leads /\ pause = "no" => active
RequiredRuns == leads /\ pause = "no" /\ activeConfig.mode = "required" => dev.running

WdInv == WdType /\ RunningIsActive /\ RunningAsConfigured /\ OffAtOnce /\ LeaderIsActive /\ RequiredRuns

\* No device is open but the one that runs, none that can be disarmed is armed without being open, and only a leader
\* runs one.
OpenIsRunning(d) == \A x \in Devices : d.hw[x].open => d.running /\ d.impl = x
ArmedIsOpen(d) == \A x \in MagicClose : d.hw[x].armed => d.hw[x].open
RunningLeads == dev.running => leads
QuietInv == OpenIsRunning(dev) /\ ArmedIsOpen(dev) /\ RunningLeads

(***************************************************************************)
(* The timeout of every device can be set and no device fails to close:    *)
(* without the first a failed activation leaves an open device behind that *)
(* the next one takes for activated (watchdog/base.py:159).                *)
(***************************************************************************)
UsableDevices == Settable = Devices /\ "close" \notin WdFaults

(***************************************************************************)
(* And no system call fails on a device that was opened (base.py:145), and *)
(* every configuration leaves room for a cycle (base.py:223).              *)
(***************************************************************************)
QuietDevices == UsableDevices /\ "configure" \notin WdFaults /\ \A c \in Configs : Slack(c) >= 0

-----------------------------------------------------------------------------
(***************************************************************************)
(* The operations on a device.                                             *)
(***************************************************************************)

\* Changing the implementation touches no device.
LEMMA UseFacts ==
  ASSUME NEW d \in Handles, NEW i \in Devices \union {Null}
  PROVE  /\ Use(d, i) \in Handles
         /\ Use(d, i).impl = i /\ ~Use(d, i).running /\ Use(d, i).hw = d.hw
  BY DEF Use, Handles

\* An opened device is armed; no other device is touched.
LEMMA OpenedFacts ==
  ASSUME NEW d \in Handles, d.impl # Null
  PROVE  /\ Opened(d) \in Handles
         /\ Opened(d).impl = d.impl /\ Opened(d).running
         /\ Opened(d).hw[d.impl].open /\ Opened(d).hw[d.impl].armed
         /\ \A x \in Devices \ {d.impl} : Opened(d).hw[x] = d.hw[x]
  BY DEF Opened, Handles, Kernel

\* A timeout that can be set is set.
LEMMA WithTimeoutFacts ==
  ASSUME UsableDevices, NEW d \in Handles, d.impl # Null, NEW t \in Nat
  PROVE  LET w == WithTimeout(d, t)
         IN  /\ w \in Handles
             /\ w.impl = d.impl /\ (w.running <=> d.running)
             /\ w.hw[d.impl].timeout = t
             /\ \A x \in Devices : (w.hw[x].open <=> d.hw[x].open) /\ (w.hw[x].armed <=> d.hw[x].armed)
  BY DEF WithTimeout, Handles, Kernel, UsableDevices

\* After close nothing runs, and what was open and could be disarmed is disarmed.
LEMMA ClosedFacts ==
  ASSUME NEW d \in Handles, d.running => d.impl # Null, NEW fault, fault # "close"
  PROVE  LET c == Closed(d, fault)
         IN  /\ c \in Handles
             /\ c.impl = d.impl /\ ~c.running
             /\ OpenIsRunning(d) => OpenIsRunning(c)
             /\ ArmedIsOpen(d) => ArmedIsOpen(c)
  <1> DEFINE c == Closed(d, fault)
  <1>1. CASE ~d.running
    BY <1>1 DEF Closed, Handles
  <1>2. CASE d.running
    <2>1. PICK b \in BOOLEAN : (d.impl \in MagicClose => ~b) /\ b = (d.impl \notin MagicClose)
      OBVIOUS
    <2>2. c = [d EXCEPT !.running = FALSE, !.hw[d.impl].open = FALSE, !.hw[d.impl].armed = b]
      BY <1>2, <2>1 DEF Closed
    <2>3. c \in Handles /\ c.impl = d.impl /\ ~c.running
      <3> HIDE DEF c
      <3>1. c.hw \in Kernel
        <4> DEFINE r == [d.hw[d.impl] EXCEPT !.open = FALSE, !.armed = b]
        <4>1. d.hw \in Kernel /\ d.impl \in Devices
          BY <1>2 DEF Handles
        <4>2. r \in [open : BOOLEAN, armed : BOOLEAN, timeout : Nat]
          BY <4>1 DEF Kernel
        <4>3. c.hw = [d.hw EXCEPT ![d.impl] = r]
          BY <2>2, <4>1 DEF Handles, Kernel
        <4> QED
          BY <4>1, <4>2, <4>3 DEF Kernel
      <3>2. c.impl = d.impl /\ c.running = FALSE /\ c = [impl |-> c.impl, running |-> c.running, hw |-> c.hw]
        BY <2>2 DEF Handles
      <3> QED
        BY <3>1, <3>2 DEF Handles
    <2>4. /\ ~c.hw[d.impl].open /\ (d.impl \in MagicClose => ~c.hw[d.impl].armed)
          /\ \A x \in Devices \ {d.impl} : c.hw[x] = d.hw[x]
      BY <1>2, <2>1, <2>2 DEF Handles, Kernel
    <2>5. OpenIsRunning(d) => OpenIsRunning(c)
      BY <2>3, <2>4 DEF OpenIsRunning
    <2>6. ArmedIsOpen(d) => ArmedIsOpen(c)
      BY <2>3, <2>4, WatchdogAssumption DEF ArmedIsOpen
    <2> QED
      BY <2>3, <2>5, <2>6
  <1> QED
    BY <1>1, <1>2 DEF Handles

(***************************************************************************)
(* _activate either leaves the null implementation or a device that runs   *)
(* with the timeout that was asked for; where nothing fails after open()   *)
(* and the timeouts fit it leaves no other device open.                    *)
(***************************************************************************)
LEMMA ActivatedFacts ==
  ASSUME UsableDevices, NEW d \in Handles, ~d.running, NEW c \in Configs, NEW fault, fault # "close"
  PROVE  LET a == Activated(d, c, fault)
         IN  /\ a \in Handles
             /\ RunsWith(a, c.timeout)
             /\ ~a.running => a.impl = Null
             /\ d.impl = Null => a.impl = Null
             /\ QuietDevices /\ fault # "configure" /\ OpenIsRunning(d) /\ ArmedIsOpen(d) => OpenIsRunning(a) /\ ArmedIsOpen(a)
  <1> DEFINE a == Activated(d, c, fault)
             o == Opened(d)
             set == WithTimeout(o, c.timeout)
  <1>c. c.timeout \in Nat /\ c.loopWait \in Nat /\ Slack(c) \in Int
    BY WatchdogAssumption DEF Slack
  <1>1. CASE Slack(c) < 0 \/ d.impl = Null
    <2>1. a = Use(d, Null)
      BY <1>1, <1>c DEF Activated
    <2> QED
      BY <2>1, UseFacts DEF RunsWith, OpenIsRunning, ArmedIsOpen
  <1>2. CASE Slack(c) >= 0 /\ d.impl # Null /\ OpenFails(d, fault)
    <2>1. a = Use(d, Null)
      BY <1>2, <1>c DEF Activated
    <2> QED
      BY <1>2, <2>1, UseFacts DEF RunsWith, OpenIsRunning, ArmedIsOpen
  <1>3. CASE Slack(c) >= 0 /\ d.impl # Null /\ ~OpenFails(d, fault) /\ fault = "configure"
    <2>1. a = Use(o, Null)
      BY <1>3, <1>c DEF Activated
    <2> QED
      BY <1>3, <2>1, UseFacts, OpenedFacts DEF RunsWith
  <1>4. CASE Slack(c) >= 0 /\ d.impl # Null /\ ~OpenFails(d, fault) /\ fault # "configure"
    <2>1. a = IF set.hw[d.impl].timeout < c.loopWait /\ d.impl \in MagicClose THEN Use(Closed(set, fault), Null) ELSE set
      BY <1>4, <1>c DEF Activated
    <2>2. /\ o \in Handles /\ o.impl = d.impl /\ o.running
          /\ o.hw[d.impl].open /\ o.hw[d.impl].armed
          /\ \A x \in Devices \ {d.impl} : o.hw[x] = d.hw[x]
      BY <1>4, OpenedFacts
    <2>3. /\ set \in Handles /\ set.impl = d.impl /\ set.running
          /\ set.hw[d.impl].timeout = c.timeout /\ set.hw[d.impl].armed /\ set.hw[d.impl].open
          /\ \A x \in Devices : (set.hw[x].open <=> o.hw[x].open) /\ (set.hw[x].armed <=> o.hw[x].armed)
      <3>1. o.impl # Null /\ d.impl \in Devices
        BY <1>4, <2>2 DEF Handles
      <3> HIDE DEF o
      <3> QED
        BY <1>c, <2>2, <3>1, WithTimeoutFacts
    <2>4. CASE set.hw[d.impl].timeout < c.loopWait /\ d.impl \in MagicClose
      <3>1. Closed(set, fault) \in Handles
        BY <1>4, <2>3, ClosedFacts
      <3>2. a \in Handles /\ ~a.running /\ a.impl = Null
        BY <2>1, <2>4, <3>1, UseFacts
      <3>3. ~QuietDevices
        BY <1>c, <2>3, <2>4 DEF QuietDevices, Slack
      <3> QED
        BY <1>4, <3>2, <3>3 DEF RunsWith
    <2>5. CASE ~(set.hw[d.impl].timeout < c.loopWait /\ d.impl \in MagicClose)
      <3>1. a = set
        BY <2>1, <2>5
      <3>2. OpenIsRunning(d) => OpenIsRunning(a)
        BY <1>4, <2>2, <2>3, <3>1 DEF OpenIsRunning
      <3>3. ArmedIsOpen(d) => ArmedIsOpen(a)
        BY <1>4, <2>2, <2>3, <3>1, WatchdogAssumption DEF ArmedIsOpen
      <3> QED
        BY <1>4, <2>3, <3>1, <3>2, <3>3 DEF RunsWith
    <2> QED
      BY <2>4, <2>5
  <1> QED
    BY <1>1, <1>2, <1>3, <1>4, <1>c

\* A failing system call is counted, and is none of those that are excluded.
LEMMA FailFacts ==
  ASSUME WdInv, NEW fault, Fail(fault)
  PROVE  /\ wdFaults' \in 0..MaxWdFaults
         /\ UsableDevices => fault # "close"
         /\ QuietDevices => fault # "configure"
  BY WatchdogAssumption DEF WdInv, WdType, Fail, UsableDevices, QuietDevices

\* The null implementation does not run.
LEMMA NullIsIdle ==
  ASSUME WdInv, activeConfig.mode = "off"
  PROVE  ~dev.running
  BY DEF WdInv, OffAtOnce, RunningAsConfigured, RunsWith

(***************************************************************************)
(* keepalive leaves a device that runs as its configuration in force says, *)
(* whether it applied a pending configuration, moved to another device or  *)
(* failed half way.                                                        *)
(***************************************************************************)
LEMMA KeepaliveFacts ==
  ASSUME WdInv, UsableDevices, NEW fault, fault # "close"
  PROVE  LET k == WdKeepalive(fault)
         IN  /\ k.dev \in Handles /\ k.applied \in Configs
             /\ RunsWith(k.dev, k.applied.timeout)
             /\ k.dev.running => active
             /\ k.applied.mode = "off" => k.dev.impl = Null
             /\ config.mode = "off" => k.applied = config
             /\ QuietDevices /\ fault # "configure" /\ QuietInv => OpenIsRunning(k.dev) /\ ArmedIsOpen(k.dev)
  <1> DEFINE k == WdKeepalive(fault)
             raises == dev.impl # Null /\ (~dev.running \/ fault = "keepalive")
             switchOn == config.mode # "off" /\ activeConfig.mode = "off"
             moved == ~switchOn /\ config.device # activeConfig.device
             resize == ~switchOn /\ ~moved /\ config.timeout # activeConfig.timeout
             refused == resize /\ (dev.impl \notin Settable \/ fault = "configure")
             on == Use(dev, config.device)
             off == Use(Closed(dev, fault), config.device)
  <1>t. /\ config \in Configs /\ activeConfig \in Configs /\ dev \in Handles
        /\ config.device \in Devices \union {Null} /\ config.timeout \in Nat
        /\ RunsWith(dev, activeConfig.timeout) /\ (dev.running => active)
    BY WatchdogAssumption DEF WdInv, WdType, RunningAsConfigured, RunningIsActive
  <1>n. dev.running => dev.impl # Null
    BY <1>t DEF RunsWith
  <1>o. config.mode = "off" => activeConfig = config
    BY DEF WdInv, OffAtOnce
  <1>q. QuietInv => OpenIsRunning(dev) /\ ArmedIsOpen(dev)
    BY DEF QuietInv
  <1>1. CASE ~active \/ raises \/ config = activeConfig
    <2>1. k = [dev |-> dev, applied |-> activeConfig]
      BY <1>1 DEF WdKeepalive
    <2> QED
      BY <1>t, <1>o, <1>q, <2>1 DEF WdInv, OffAtOnce
  <1>2. CASE active /\ ~raises /\ config # activeConfig /\ refused
    <2>1. k = [dev |-> dev, applied |-> activeConfig]
      BY <1>2 DEF WdKeepalive
    <2> QED
      BY <1>t, <1>o, <1>q, <2>1 DEF WdInv, OffAtOnce
  <1>3. CASE active /\ ~raises /\ config # activeConfig /\ switchOn
    <2>1. k = [dev |-> Activated(on, config, fault), applied |-> config]
      BY <1>3 DEF WdKeepalive
    <2>2. on \in Handles /\ ~on.running /\ on.hw = dev.hw
      BY <1>t, UseFacts
    <2>3. OpenIsRunning(dev) /\ ArmedIsOpen(dev) => OpenIsRunning(on) /\ ArmedIsOpen(on)
      BY <1>3, <2>2, NullIsIdle DEF OpenIsRunning, ArmedIsOpen
    <2> HIDE DEF on
    <2> QED
      BY <1>t, <1>q, <1>3, <2>1, <2>2, <2>3, ActivatedFacts
  <1>4. CASE active /\ ~raises /\ config # activeConfig /\ moved
    <2>1. k = [dev |-> Activated(off, config, fault), applied |-> config]
      BY <1>4 DEF WdKeepalive
    <2>2. /\ Closed(dev, fault) \in Handles /\ ~Closed(dev, fault).running
          /\ OpenIsRunning(dev) => OpenIsRunning(Closed(dev, fault))
          /\ ArmedIsOpen(dev) => ArmedIsOpen(Closed(dev, fault))
      BY <1>t, <1>n, ClosedFacts
    <2>3. off \in Handles /\ ~off.running /\ off.hw = Closed(dev, fault).hw
      BY <1>t, <2>2, UseFacts
    <2>4. OpenIsRunning(dev) /\ ArmedIsOpen(dev) => OpenIsRunning(off) /\ ArmedIsOpen(off)
      BY <2>2, <2>3 DEF OpenIsRunning, ArmedIsOpen
    <2> HIDE DEF off
    <2> QED
      BY <1>t, <1>o, <1>q, <1>4, <2>1, <2>3, <2>4, ActivatedFacts
  <1>5. CASE active /\ ~raises /\ config # activeConfig /\ resize /\ ~refused
    <2>1. k = [dev |-> WithTimeout(dev, config.timeout), applied |-> config]
      BY <1>5 DEF WdKeepalive
    <2>2. dev.impl # Null /\ dev.impl \in Devices
      BY <1>5, WatchdogAssumption
    <2>3. LET w == WithTimeout(dev, config.timeout)
          IN  /\ w \in Handles
              /\ w.impl = dev.impl /\ (w.running <=> dev.running)
              /\ w.hw[dev.impl].timeout = config.timeout
              /\ \A x \in Devices : (w.hw[x].open <=> dev.hw[x].open) /\ (w.hw[x].armed <=> dev.hw[x].armed)
      BY <1>t, <2>2, WithTimeoutFacts
    <2>4. RunsWith(k.dev, config.timeout)
      BY <1>t, <2>1, <2>2, <2>3 DEF RunsWith
    <2>5. OpenIsRunning(dev) /\ ArmedIsOpen(dev) => OpenIsRunning(k.dev) /\ ArmedIsOpen(k.dev)
      BY <2>1, <2>3, WatchdogAssumption DEF OpenIsRunning, ArmedIsOpen
    <2> QED
      BY <1>t, <1>o, <1>q, <1>5, <2>1, <2>3, <2>4, <2>5
  <1>6. CASE active /\ ~raises /\ config # activeConfig /\ ~switchOn /\ ~moved /\ ~resize
    <2>1. k = [dev |-> dev, applied |-> config]
      BY <1>6 DEF WdKeepalive
    <2>2. config.timeout = activeConfig.timeout
      BY <1>6
    <2>3. config.mode # "off"
      BY <1>6, <1>o
    <2> QED
      BY <1>t, <1>q, <2>1, <2>2, <2>3
  <1> QED
    BY <1>1, <1>2, <1>3, <1>4, <1>5, <1>6

(***************************************************************************)
(* enforce_primary_role: the node leads on with a device that runs, or     *)
(* with what activate() made of the one that does not.                     *)
(***************************************************************************)
LEMMA EnforceFacts ==
  ASSUME UsableDevices, NEW fault, fault # "close", WdInv,
         NEW d \in Handles, NEW applied \in Configs,
         RunsWith(d, applied.timeout), d.running => active,
         applied.mode = "off" => d.impl = Null, config.mode = "off" => applied = config,
         Enforce(d, applied, fault), wdFaults' \in 0..MaxWdFaults, pause' = "no", config' = config
  PROVE  /\ WdInv'
         /\ QuietDevices /\ fault # "configure" /\ OpenIsRunning(d) /\ ArmedIsOpen(d) => QuietInv'
  <1> DEFINE a == Activated(d, config, fault)
  <1>t. config \in Configs /\ tried \in Configs /\ active \in BOOLEAN
    BY DEF WdInv, WdType
  <1>1. CASE ~d.running
    <2>1. /\ dev' = a /\ active' /\ active' \in BOOLEAN /\ activeConfig' = config
          /\ leads' \in BOOLEAN /\ (leads' <=> Safe(a, config)) /\ tried' \in {tried, config}
      <3>1. dev' = a /\ activeConfig' = config /\ tried' \in {tried, config}
        BY <1>1 DEF Enforce
      <3>2. active' = (~d.running \/ active) /\ leads' = (d.running \/ Safe(a, config))
        BY <1>1 DEF Enforce
      <3> QED
        BY <1>1, <3>1, <3>2
    <2>2. /\ a \in Handles
          /\ RunsWith(a, config.timeout)
          /\ ~a.running => a.impl = Null
          /\ d.impl = Null => a.impl = Null
          /\ QuietDevices /\ fault # "configure" /\ OpenIsRunning(d) /\ ArmedIsOpen(d) => OpenIsRunning(a) /\ ArmedIsOpen(a)
      BY <1>1, <1>t, ActivatedFacts
    <2> HIDE DEF a
    <2>4. WdType'
      BY <1>t, <2>1, <2>2 DEF WdType
    <2>5. RunningIsActive' /\ RunningAsConfigured' /\ LeaderIsActive'
      BY <2>1, <2>2 DEF RunningIsActive, RunningAsConfigured, RunsWith, LeaderIsActive
    <2>6. OffAtOnce'
      BY <2>1, <2>2 DEF OffAtOnce
    <2>7. RequiredRuns'
      BY <2>1 DEF RequiredRuns, Safe
    <2>8. a.running => Safe(a, config)
      BY <1>t, <2>2, WatchdogAssumption DEF Safe, RunsWith, Handles
    <2>9. OpenIsRunning(a) /\ ArmedIsOpen(a) => QuietInv'
      BY <2>1, <2>8 DEF QuietInv, OpenIsRunning, ArmedIsOpen, RunningLeads
    <2> QED
      BY <2>2, <2>4, <2>5, <2>6, <2>7, <2>9 DEF WdInv
  <1>2. CASE d.running
    <2>1. /\ dev' = d /\ active' = active /\ activeConfig' = applied
          /\ leads' = TRUE /\ tried' = tried
      BY <1>2, <1>t DEF Enforce
    <2>2. WdType'
      BY <1>t, <2>1 DEF WdType
    <2>3. RunningIsActive' /\ RunningAsConfigured' /\ LeaderIsActive'
      BY <1>2, <2>1 DEF RunningIsActive, RunningAsConfigured, RunsWith, LeaderIsActive
    <2>4. OffAtOnce' /\ RequiredRuns'
      BY <1>2, <2>1 DEF OffAtOnce, RequiredRuns
    <2>5. OpenIsRunning(d) /\ ArmedIsOpen(d) => QuietInv'
      BY <2>1 DEF QuietInv, OpenIsRunning, ArmedIsOpen, RunningLeads
    <2> QED
      BY <2>2, <2>3, <2>4, <2>5 DEF WdInv
  <1> QED
    BY <1>1, <1>2

(***************************************************************************)
(* disable() at the safepoint of a stop, when PostgreSQL is found dead and *)
(* in maintenance mode: nothing runs afterwards, and nothing that can be   *)
(* disarmed is left armed.                                                 *)
(***************************************************************************)
LEMMA DisableFacts ==
  ASSUME UsableDevices, NEW fault, fault # "close", WdInv,
         dev' = Closed(dev, fault), wdFaults' \in 0..MaxWdFaults,
         active' \in BOOLEAN, leads' \in BOOLEAN, pause' \in {"no", "yes", "ending"},
         leads' => pause' # "no", UNCHANGED <<config, activeConfig, tried>>
  PROVE  /\ WdInv'
         /\ QuietInv => QuietInv'
  <1>1. dev \in Handles /\ (dev.running => dev.impl # Null)
    BY DEF WdInv, WdType, RunningAsConfigured, RunsWith
  <1>2. /\ dev' \in Handles /\ dev'.impl = dev.impl /\ ~dev'.running
        /\ OpenIsRunning(dev) => OpenIsRunning(dev')
        /\ ArmedIsOpen(dev) => ArmedIsOpen(dev')
    BY <1>1, ClosedFacts
  <1>3. WdType'
    BY <1>2 DEF WdInv, WdType
  <1>4. RunningIsActive' /\ RunningAsConfigured' /\ LeaderIsActive' /\ RequiredRuns'
    BY <1>2 DEF RunningIsActive, RunningAsConfigured, RunsWith, LeaderIsActive, RequiredRuns
  <1>5. OffAtOnce'
    BY <1>2 DEF WdInv, OffAtOnce
  <1>6. QuietInv => QuietInv'
    BY <1>2 DEF QuietInv, OpenIsRunning, ArmedIsOpen, RunningLeads
  <1> QED
    BY <1>3, <1>4, <1>5, <1>6 DEF WdInv

(***************************************************************************)
(* reload_config: "off" closes the device at once; another device is used  *)
(* at once only when none is active.                                       *)
(***************************************************************************)
LEMMA ReloadFacts ==
  ASSUME UsableDevices, NEW fault, fault # "close", WdInv, wdFaults' \in 0..MaxWdFaults,
         NEW c \in Configs, ReloadConfig(c, fault)
  PROVE  /\ WdInv'
         /\ QuietInv => QuietInv'
  <1> DEFINE closed == IF active THEN Closed(dev, fault) ELSE dev
             d1 == IF c.mode = "off" THEN Use(closed, Null) ELSE dev
             last == IF c.mode = "off" THEN c ELSE activeConfig
  <1>t. /\ config \in Configs /\ activeConfig \in Configs /\ tried \in Configs /\ dev \in Handles
        /\ active \in BOOLEAN /\ leads \in BOOLEAN /\ pause \in {"no", "yes", "ending"}
        /\ c.device \in Devices \union {Null} /\ c.timeout \in Nat
    BY WatchdogAssumption DEF WdInv, WdType
  <1>r. /\ dev.running => active /\ dev.impl # Null
        /\ RunsWith(dev, activeConfig.timeout)
    BY DEF WdInv, RunningIsActive, RunningAsConfigured, RunsWith
  <1>s. /\ config' = c
        /\ dev' = IF ~active /\ c.device # last.device THEN Use(d1, c.device) ELSE d1
        /\ activeConfig' = (IF ~active THEN c ELSE last)
        /\ UNCHANGED <<active, leads, pause, tried>>
    BY DEF ReloadConfig
  <1>1. closed \in Handles /\ ~closed.running
    BY <1>t, <1>r, ClosedFacts
  <1>2. (OpenIsRunning(dev) => OpenIsRunning(closed)) /\ (ArmedIsOpen(dev) => ArmedIsOpen(closed))
    BY <1>t, <1>r, ClosedFacts
  <1> HIDE DEF closed
  <1>3. CASE c.mode = "off"
    <2>1. d1 = Use(closed, Null) /\ last = c
      BY <1>3
    <2>2. dev' = Use(closed, Null) /\ activeConfig' = c
      BY <1>s, <2>1
    <2>3. dev' \in Handles /\ ~dev'.running /\ dev'.impl = Null /\ dev'.hw = closed.hw
      BY <1>1, <2>2, UseFacts
    <2>4. WdType'
      BY <1>t, <1>s, <2>2, <2>3 DEF WdType
    <2>5. RunningIsActive' /\ RunningAsConfigured'
      BY <2>3 DEF RunningIsActive, RunningAsConfigured, RunsWith
    <2>6. OffAtOnce' /\ RequiredRuns' /\ LeaderIsActive'
      BY <1>s, <1>3, <2>2, <2>3 DEF WdInv, OffAtOnce, RequiredRuns, LeaderIsActive
    <2>7. QuietInv => QuietInv'
      BY <1>1, <1>2, <2>3 DEF QuietInv, OpenIsRunning, ArmedIsOpen, RunningLeads
    <2> QED
      BY <2>4, <2>5, <2>6, <2>7 DEF WdInv
  <1>4. CASE c.mode # "off" /\ active
    <2>1. dev' = dev /\ activeConfig' = activeConfig
      BY <1>s, <1>4
    <2> QED
      BY <1>t, <1>s, <1>4, <2>1 DEF WdInv, WdType, RunningIsActive, RunningAsConfigured, RunsWith, OffAtOnce,
            LeaderIsActive, RequiredRuns, QuietInv, OpenIsRunning, ArmedIsOpen, RunningLeads
  <1>5. CASE c.mode # "off" /\ ~active
    <2>1. activeConfig' = c /\ dev' \in {dev, Use(dev, c.device)}
      BY <1>s, <1>5
    <2>2. dev' \in Handles /\ ~dev'.running /\ dev'.hw = dev.hw
      BY <1>t, <1>r, <1>5, <2>1, UseFacts
    <2>3. WdType'
      BY <1>t, <1>s, <2>1, <2>2 DEF WdType
    <2>4. RunningIsActive' /\ RunningAsConfigured' /\ OffAtOnce'
      BY <1>s, <1>5, <2>1, <2>2 DEF RunningIsActive, RunningAsConfigured, RunsWith, OffAtOnce
    <2>5. RequiredRuns' /\ LeaderIsActive'
      BY <1>s, <1>5 DEF WdInv, RequiredRuns, LeaderIsActive
    <2>6. QuietInv => QuietInv'
      BY <1>r, <1>5, <2>2 DEF QuietInv, OpenIsRunning, ArmedIsOpen, RunningLeads
    <2> QED
      BY <2>3, <2>4, <2>5, <2>6 DEF WdInv
  <1> QED
    BY <1>t, <1>3, <1>4, <1>5

-----------------------------------------------------------------------------
(***************************************************************************)
(* Every step of the node preserves both invariants.                       *)
(***************************************************************************)
LEMMA WdStep ==
  ASSUME UsableDevices, WdInv, [WdNext]_wdVars
  PROVE  /\ WdInv'
         /\ QuietDevices /\ QuietInv => QuietInv'
  <1>1. CASE Resume
    BY <1>1 DEF Resume, WdInv, WdType, RunningIsActive, RunningAsConfigured, RunsWith, OffAtOnce, LeaderIsActive,
          RequiredRuns, QuietInv, OpenIsRunning, ArmedIsOpen, RunningLeads
  <1>2. ASSUME NEW fault, Lead(fault)
        PROVE  WdInv' /\ (QuietDevices /\ QuietInv => QuietInv')
    <2>1. /\ dev \in Handles /\ activeConfig \in Configs
          /\ RunsWith(dev, activeConfig.timeout) /\ (dev.running => active)
          /\ activeConfig.mode = "off" => dev.impl = Null
          /\ config.mode = "off" => activeConfig = config
          /\ QuietInv => OpenIsRunning(dev) /\ ArmedIsOpen(dev)
      BY DEF WdInv, WdType, RunningIsActive, RunningAsConfigured, OffAtOnce, QuietInv
    <2>2. Enforce(dev, activeConfig, fault) /\ pause' = "no" /\ config' = config /\ Fail(fault)
      BY <1>2 DEF Lead
    <2> QED
      BY <2>1, <2>2, FailFacts, EnforceFacts
  <1>3. ASSUME NEW fault, LeaderCycle(fault)
        PROVE  WdInv' /\ (QuietDevices /\ QuietInv => QuietInv')
    <2> DEFINE k == WdKeepalive(fault)
    <2>1. Enforce(k.dev, k.applied, fault) /\ pause' = "no" /\ config' = config /\ Fail(fault)
      BY <1>3 DEF LeaderCycle
    <2>2. fault # "close" /\ wdFaults' \in 0..MaxWdFaults /\ (QuietDevices => fault # "configure")
      BY <2>1, FailFacts
    <2>3. /\ k.dev \in Handles /\ k.applied \in Configs
          /\ RunsWith(k.dev, k.applied.timeout)
          /\ k.dev.running => active
          /\ k.applied.mode = "off" => k.dev.impl = Null
          /\ config.mode = "off" => k.applied = config
          /\ QuietDevices /\ fault # "configure" /\ QuietInv => OpenIsRunning(k.dev) /\ ArmedIsOpen(k.dev)
      BY <2>2, KeepaliveFacts
    <2> HIDE DEF k
    <2> QED
      BY <2>1, <2>2, <2>3, EnforceFacts
  <1>4. ASSUME NEW fault, WdDemote(fault) \/ Recover(fault) \/ PausedCycle(fault)
        PROVE  WdInv' /\ (QuietInv => QuietInv')
    <2>1. /\ dev' = Closed(dev, fault) /\ Fail(fault) /\ UNCHANGED <<config, activeConfig, tried>>
          /\ active' \in BOOLEAN /\ leads' \in BOOLEAN /\ pause' \in {"no", "yes", "ending"}
          /\ leads' => pause' # "no"
      BY <1>4 DEF WdDemote, Recover, PausedCycle, WdInv, WdType
    <2> QED
      BY <2>1, FailFacts, DisableFacts
  <1>5. ASSUME NEW fault, NEW c \in Configs, ReloadConfig(c, fault)
        PROVE  WdInv' /\ (QuietInv => QuietInv')
    <2>1. Fail(fault)
      BY <1>5 DEF ReloadConfig
    <2> QED
      BY <1>5, <2>1, FailFacts, ReloadFacts
  <1>6. CASE UNCHANGED wdVars
    BY <1>6 DEF wdVars, WdInv, WdType, RunningIsActive, RunningAsConfigured, RunsWith, OffAtOnce, LeaderIsActive,
          RequiredRuns, QuietInv, OpenIsRunning, ArmedIsOpen, RunningLeads
  <1> QED
    BY <1>1, <1>2, <1>3, <1>4, <1>5, <1>6 DEF WdNext

\* The node starts with an idle watchdog.
LEMMA WdStart ==
  ASSUME WdInit
  PROVE  WdInv /\ QuietInv
  <1>1. WdType
    <2> DEFINE i == IF config.mode = "off" THEN Null ELSE config.device
               h == [x \in Devices |-> [open |-> FALSE, armed |-> FALSE, timeout |-> FactoryTimeout]]
    <2>1. i \in Devices \union {Null}
      BY WatchdogAssumption DEF WdInit
    <2>2. h \in Kernel
      BY WatchdogAssumption DEF Kernel
    <2>3. dev = [impl |-> i, running |-> FALSE, hw |-> h]
      BY DEF WdInit
    <2> HIDE DEF i, h
    <2>4. dev \in Handles
      BY <2>1, <2>2, <2>3 DEF Handles
    <2>5. /\ config \in Configs /\ activeConfig \in Configs /\ tried \in Configs
          /\ active \in BOOLEAN /\ leads \in BOOLEAN /\ pause \in {"no", "yes", "ending"}
      BY DEF WdInit
    <2>6. wdFaults \in 0..MaxWdFaults
      BY WatchdogAssumption DEF WdInit
    <2> QED
      BY <2>4, <2>5, <2>6 DEF WdType
  <1>2. ~dev.running /\ ~leads /\ activeConfig = config /\ (config.mode = "off" => dev.impl = Null)
        /\ \A x \in Devices : ~dev.hw[x].open /\ ~dev.hw[x].armed
    BY DEF WdInit
  <1> QED
    BY <1>1, <1>2, WatchdogAssumption DEF WdInv, RunningIsActive, RunningAsConfigured, RunsWith, OffAtOnce,
          LeaderIsActive, RequiredRuns, QuietInv, OpenIsRunning, ArmedIsOpen, RunningLeads

(***************************************************************************)
(* With devices whose timeout can be set and that close, whatever else     *)
(* fails and however the configuration is reloaded: a node that leads      *)
(* under a configuration that requires a watchdog is guarded by one, with  *)
(* the configured timeout (ha.py: enforce_primary_role, update_lock;       *)
(* watchdog/base.py: activate, keepalive, reload_config).                  *)
(***************************************************************************)
THEOREM LeaderProtectedCorrect ==
  ASSUME UsableDevices
  PROVE  WdSpec => []LeaderProtected
  <1>1. WdInit => WdInv
    BY WdStart
  <1>2. WdInv /\ [WdNext]_wdVars => WdInv'
    BY WdStep
  <1>3. WdInv => LeaderProtected
    <2> SUFFICES ASSUME WdInv, leads, pause = "no", activeConfig.mode = "required"
                 PROVE  active /\ dev.running /\ dev.hw[dev.impl].armed /\ dev.hw[dev.impl].timeout <= activeConfig.timeout
      BY DEF LeaderProtected
    <2>1. active /\ dev.running /\ activeConfig.timeout \in Nat
      BY WatchdogAssumption DEF WdInv, WdType, LeaderIsActive, RequiredRuns
    <2>2. dev.hw[dev.impl].armed /\ dev.hw[dev.impl].timeout = activeConfig.timeout
      BY <2>1 DEF WdInv, RunningAsConfigured, RunsWith
    <2> QED
      BY <2>1, <2>2
  <1> QED
    BY <1>1, <1>2, <1>3, PTL DEF WdSpec

(***************************************************************************)
(* Where moreover nothing fails between open() and the end of an           *)
(* activation and the timeouts leave room for a cycle, no device that can  *)
(* be disarmed is left armed without somebody who feeds it in time:        *)
(* neither by a demotion, a dead PostgreSQL or maintenance mode, nor by a  *)
(* reload that exchanges the device under a running leader.                *)
(***************************************************************************)
THEOREM NoSpuriousResetCorrect ==
  ASSUME QuietDevices
  PROVE  WdSpec => []NoSpuriousReset
  <1> DEFINE Inv == WdInv /\ QuietInv
  <1>u. UsableDevices
    BY DEF QuietDevices
  <1>1. WdInit => Inv
    BY WdStart
  <1>2. Inv /\ [WdNext]_wdVars => Inv'
    BY <1>u, WdStep
  <1>3. Inv => NoSpuriousReset
    <2> SUFFICES ASSUME Inv, NEW x \in MagicClose, dev.hw[x].armed
                 PROVE  leads /\ active /\ dev.running /\ dev.impl = x /\ dev.hw[x].timeout >= activeConfig.loopWait
      BY DEF NoSpuriousReset
    <2>1. dev.running /\ dev.impl = x
      BY WatchdogAssumption DEF QuietInv, OpenIsRunning, ArmedIsOpen
    <2>2. leads /\ active
      BY <2>1 DEF QuietInv, RunningLeads, WdInv, RunningIsActive
    <2>3. dev.hw[x].timeout = activeConfig.timeout
      BY <2>1 DEF WdInv, RunningAsConfigured, RunsWith
    <2>4. activeConfig.timeout >= activeConfig.loopWait
      BY WatchdogAssumption DEF WdInv, WdType, QuietDevices, Slack
    <2> QED
      BY <2>1, <2>2, <2>3, <2>4
  <1> QED
    BY <1>1, <1>2, <1>3, PTL DEF WdSpec

-----------------------------------------------------------------------------
(***************************************************************************)
(* The failsafe mode: any number of members, any timeouts and any number   *)
(* of faults.                                                              *)
(***************************************************************************)
(***************************************************************************)
(* The timing the mode rests on: the watchdog resets a primary before what *)
(* it was granted, by the DCS or by the members, runs out, and a node that *)
(* found no leader tries to get the key before a key written since then    *)
(* could have expired.  No member forgets a request it has accepted, and   *)
(* the primary learns of every member that was added to the list.          *)
(***************************************************************************)
TimelyGuards ==
    /\ ReplyDelay + WatchdogTimeout < TTL /\ RaceDelay < TTL
    /\ "forget" \notin Faults /\ "lost_newcomer" \notin Faults

InCharge == {"updated", "acquired", "keepalive"}
Writes(n) == pg[n] \in Writable

\* No clock of a waiting node has run past its bound; before the first request is sent none runs.
AgeBounded ==
    /\ \A n \in Node : Waiting(n) => age[n] <= Patience(n)
    /\ \A n \in Node : pc[n] = "ask" => age[n] <= ReplyDelay

\* A node in the middle of a cycle with the key has it, for as long as was granted.
ChargeHasKey == \A n \in Node : pc[n] \in InCharge => key.owner = n /\ key.ttl + age[n] >= TTL

\* The key that somebody got after n found none outlives n's attempt.
RaceBeforeExpiry == \A n \in Node : pc[n] = "race" /\ key.owner # None => key.ttl + age[n] >= TTL

\* A primary is watched.
WritesArmed == \A n \in Node : Writes(n) => hw[n] <= WatchdogTimeout

\* While a node accepts commits, nobody else has the key.
OwnerWrites == \A n \in Node : Writes(n) => key.owner \in {None, n}

\* The /failsafe key, once written, is not empty.
ListNotEmpty == failkey # {}

\* A primary that may go on without the key knows everybody who is listed.
Knows(n) == list[n] # NoList /\ n \in list[n] => failkey # NoList /\ failkey \subseteq list[n]
PrimaryKnowsList ==
    \A n \in Node : Writes(n) \/ pc[n] \in {"updated", "keepalive"} \/ (pc[n] = "mine" /\ key.owner = n) => Knows(n)

\* The sender of an accepted request is another node, and m takes it for the leader.
Yields(m) == boss[m] \notin {None, m}
NotOwnBoss == \A m \in Node : boss[m] # m

(***************************************************************************)
(* As long as the watchdog lets n go on, a load of the cluster by m does   *)
(* not let it race: n has the key, m has accepted n's request, or m is not *)
(* listed.                                                                 *)
(***************************************************************************)
Kept(n, m) ==
    \/ pg[m] = "off"
    \/ key.owner = n /\ key.ttl > hw[n]
    \/ left[m] > hw[n] /\ Yields(m)
    \/ failkey # NoList /\ m \notin failkey
AllKept == \A n, m \in Node : Writes(n) /\ m # n => Kept(n, m)

\* A node that is in the race all the same has come too late.
RaceLost ==
    \A n, m \in Node : Writes(n) /\ m # n /\ pc[m] = "race" /\ MayRace(m) => key.owner = n

\* The members that have answered a request.
Asking ==
    \A n \in Node : pc[n] = "ask" =>
        /\ Writes(n) /\ list[n] # NoList /\ n \in list[n] /\ asked[n] \subseteq list[n] \ {n}
        /\ accepted[n] => \A m \in (list[n] \ {n}) \ asked[n] :
                            pg[m] = "off" \/ (left[m] + age[n] >= TTL /\ Yields(m))

Guarded ==
    /\ AgeBounded /\ ChargeHasKey /\ RaceBeforeExpiry /\ WritesArmed /\ OwnerWrites /\ ListNotEmpty
    /\ PrimaryKnowsList /\ NotOwnBoss /\ AllKept /\ RaceLost /\ Asking /\ OnePrimary

FsInv == TypeOK /\ Guarded
-----------------------------------------------------------------------------
\* What the operators of the model give.
LEMMA WithoutLockType ==
    ASSUME TypeOK, NEW n \in Node, WithoutLock(n)
    PROVE  /\ pc' \in [Node -> {"idle", "mine", "race", "acquired", "updated", "keepalive", "error", "ask"}]
           /\ pg' \in [Node -> {"replica", "off"} \cup Writable] /\ hw' \in [Node -> 0..WdOff]
<1>1. WdOff \in 0..WdOff
  BY ConstantsAssumption DEF WdOff
<1>2. QED
  BY <1>1 DEF TypeOK, WithoutLock, Goto, Demote, pgVars

LEMMA FsTypeStep == TypeOK /\ [Next]_vars => TypeOK'
<1> SUFFICES ASSUME TypeOK, [Next]_vars PROVE TypeOK'
  OBVIOUS
<1> USE ConstantsAssumption
<1>0. /\ WdOff \in 0..WdOff /\ WatchdogTimeout \in 0..WdOff /\ TTL \in 0..TTL /\ 0 \in 0..(ReplyDelay + RaceDelay)
  BY DEF WdOff
<1> DEFINE At == {"idle", "mine", "race", "acquired", "updated", "keepalive", "error", "ask"}
<1>1. CASE Tick
  <2>1. key' \in [owner : Node \cup {None}, ttl : 0..TTL]
    BY <1>1 DEF Tick, TypeOK, Less
  <2>2. left' \in [Node -> 0..TTL]
    <3>1. \A n \in Node : Less(left[n]) \in 0..TTL
      BY DEF TypeOK, Less
    <3>2. QED
      BY <1>1, <3>1 DEF Tick
  <2>3. hw' \in [Node -> 0..WdOff]
    <3>1. \A n \in Node : (IF hw[n] = WdOff THEN WdOff ELSE Less(hw[n])) \in 0..WdOff
      BY <1>0 DEF TypeOK, Less
    <3>2. QED
      BY <1>1, <3>1 DEF Tick
  <2>4. age' \in [Node -> 0..(ReplyDelay + RaceDelay)]
    <3>1. \A n \in Node : (IF Waiting(n) THEN age[n] + 1 ELSE 0) \in 0..(ReplyDelay + RaceDelay)
      BY <1>0, <1>1 DEF TypeOK, Tick, Patience
    <3>2. QED
      BY <1>1, <3>1 DEF Tick
  <2>5. QED
    BY <1>1, <2>1, <2>2, <2>3, <2>4 DEF Tick, TypeOK, envVars
<1>2. CASE KeyExpires
  BY <1>2 DEF KeyExpires, TypeOK, loopVars, fsVars, pgVars, envVars
<1>3. ASSUME NEW n \in Node, LoadCluster(n) PROVE TypeOK'
  <2>1. /\ pc' \in [Node -> At]
        /\ pg' \in [Node -> {"replica", "off"} \cup Writable] /\ hw' \in [Node -> 0..WdOff]
    <3>1. WithoutLock(n) \/ (pc' \in [Node -> At] /\ UNCHANGED pgVars)
      BY <1>3 DEF LoadCluster, Goto, TypeOK
    <3>2. QED
      BY <3>1, WithoutLockType DEF TypeOK, pgVars
  <2>2. list' \in [Node -> Lists] /\ seen' \in [Node -> SUBSET Node] /\ members' \subseteq Node
    BY <1>3 DEF LoadCluster, TypeOK
  <2>3. age' \in [Node -> 0..(ReplyDelay + RaceDelay)]
    BY <1>0, <1>3 DEF LoadCluster, TypeOK
  <2>4. QED
    BY <1>3, <2>1, <2>2, <2>3 DEF LoadCluster, TypeOK, fsVars, envVars
<1>4. ASSUME NEW n \in Node, UpdateLock(n) PROVE TypeOK'
  <2>1. /\ pc' \in [Node -> At]
        /\ pg' \in [Node -> {"replica", "off"} \cup Writable] /\ hw' \in [Node -> 0..WdOff]
    <3>1. WithoutLock(n) \/ (pc' \in [Node -> At] /\ UNCHANGED pgVars)
      BY <1>4 DEF UpdateLock, Goto, TypeOK
    <3>2. QED
      BY <3>1, WithoutLockType DEF TypeOK, pgVars
  <2>2. key' \in [owner : Node \cup {None}, ttl : 0..TTL]
    BY <1>0, <1>4 DEF UpdateLock, TypeOK
  <2>3. age' \in [Node -> 0..(ReplyDelay + RaceDelay)]
    BY <1>0, <1>4 DEF UpdateLock, TypeOK
  <2>4. QED
    BY <1>4, <2>1, <2>2, <2>3 DEF UpdateLock, TypeOK, fsVars, envVars
<1>5. ASSUME NEW n \in Node, WriteList(n) PROVE TypeOK'
  <2> DEFINE new == seen[n] \cup {n}
  <2>1. new \in Lists
    BY DEF TypeOK, Lists
  <2>2. failkey' \in Lists /\ list' \in [Node -> Lists]
    <3>1. failkey' = failkey \/ failkey' = new
      BY <1>5 DEF WriteList, WriteFailsafe
    <3>2. list' = list \/ list' = [list EXCEPT ![n] = new]
      BY <1>5 DEF WriteList, WriteFailsafe
    <3> HIDE DEF new
    <3>3. failkey' \in Lists
      BY <2>1, <3>1 DEF TypeOK
    <3>4. list' \in [Node -> Lists]
      BY <2>1, <3>2 DEF TypeOK
    <3>5. QED
      BY <3>3, <3>4
  <2>3. faults' \in 0..MaxFaults
    BY <1>5 DEF WriteList, WriteFailsafe, Fault, TypeOK
  <2>4. QED
    BY <1>5, <2>2, <2>3 DEF WriteList, Goto, TypeOK, fsVars, pgVars
<1>6. ASSUME NEW n \in Node, Keepalive(n) PROVE TypeOK'
  <2>1. pg' \in [Node -> {"replica", "off"} \cup Writable] /\ hw' \in [Node -> 0..WdOff]
    BY <1>0, <1>6 DEF Keepalive, TypeOK, Writable
  <2>2. QED
    BY <1>6, <2>1 DEF Keepalive, Goto, ResetFailsafe, TypeOK, envVars
<1>7. ASSUME NEW n \in Node, Promoted(n) PROVE TypeOK'
  BY <1>7 DEF Promoted, TypeOK, Writable, loopVars, fsVars, envVars
<1>8. ASSUME NEW n \in Node, AcquireLock(n) PROVE TypeOK'
  <2>1. /\ pc' \in [Node -> At]
        /\ pg' \in [Node -> {"replica", "off"} \cup Writable] /\ hw' \in [Node -> 0..WdOff]
    <3>1. WithoutLock(n) \/ (pc' \in [Node -> At] /\ UNCHANGED pgVars)
      BY <1>8 DEF AcquireLock, Goto, TypeOK
    <3>2. QED
      BY <3>1, WithoutLockType DEF TypeOK, pgVars
  <2>2. key' \in [owner : Node \cup {None}, ttl : 0..TTL]
    BY <1>0, <1>8 DEF AcquireLock, TypeOK
  <2>3. age' \in [Node -> 0..(ReplyDelay + RaceDelay)]
    BY <1>0, <1>8 DEF AcquireLock, TypeOK
  <2>4. QED
    BY <1>8, <2>1, <2>2, <2>3 DEF AcquireLock, TypeOK, fsVars, envVars
<1>9. ASSUME NEW n \in Node, Reload(n) PROVE TypeOK'
  <2>1. pc' \in [Node -> At] /\ list' \in [Node -> Lists] /\ seen' \in [Node -> SUBSET Node]
    BY <1>9 DEF Reload, Goto, TypeOK
  <2>2. QED
    BY <1>9, <2>1 DEF Reload, TypeOK, fsVars, pgVars, envVars
<1>10. ASSUME NEW n \in Node, NotHealthiest(n) PROVE TypeOK'
  <2>1. /\ pc' \in [Node -> At]
        /\ pg' \in [Node -> {"replica", "off"} \cup Writable] /\ hw' \in [Node -> 0..WdOff]
    BY <1>10, WithoutLockType DEF NotHealthiest
  <2>2. QED
    BY <1>10, <2>1 DEF NotHealthiest, TypeOK, fsVars, envVars
<1>11. ASSUME NEW n \in Node, HandleDcsError(n) PROVE TypeOK'
  <2>1. PICK primary \in IsPrimary(n) :
          IF primary /\ list[n] # NoList /\ n \in list[n]
          THEN /\ Goto(n, "ask")
               /\ asked' = [asked EXCEPT ![n] = list[n] \ {n}]
               /\ accepted' = [accepted EXCEPT ![n] = TRUE]
               /\ age' = [age EXCEPT ![n] = 0]
               /\ UNCHANGED <<fsVars, pgVars>>
          ELSE /\ Goto(n, "idle")
               /\ IF primary THEN Demote(n) /\ ResetFailsafe(n) ELSE UNCHANGED <<pgVars, fsVars>>
               /\ UNCHANGED <<asked, accepted, age>>
    BY <1>11 DEF HandleDcsError
  <2>2. pc' \in [Node -> At] /\ accepted' \in [Node -> BOOLEAN]
    BY <2>1 DEF Goto, TypeOK
  <2>3. asked' \in [Node -> SUBSET Node]
    <3>1. list[n] # NoList => list[n] \ {n} \in SUBSET Node
      BY DEF TypeOK, Lists
    <3>2. QED
      BY <2>1, <3>1 DEF TypeOK
  <2>4. age' \in [Node -> 0..(ReplyDelay + RaceDelay)]
    BY <1>0, <2>1 DEF TypeOK
  <2>5. left' \in [Node -> 0..TTL] /\ boss' \in [Node -> Node \cup {None}]
    BY <2>1 DEF ResetFailsafe, fsVars, TypeOK
  <2>6. pg' \in [Node -> {"replica", "off"} \cup Writable] /\ hw' \in [Node -> 0..WdOff]
    BY <1>0, <2>1 DEF Demote, pgVars, TypeOK
  <2>7. QED
    BY <1>11, <2>2, <2>3, <2>4, <2>5, <2>6 DEF HandleDcsError, TypeOK, envVars
<1>12. ASSUME NEW n \in Node, Conclude(n) PROVE TypeOK'
  <2>1. left' \in [Node -> 0..TTL] /\ boss' \in [Node -> Node \cup {None}]
    BY <1>0, <1>12 DEF Conclude, ResetFailsafe, TypeOK
  <2>2. pg' \in [Node -> {"replica", "off"} \cup Writable] /\ hw' \in [Node -> 0..WdOff]
    BY <1>0, <1>12 DEF Conclude, Demote, TypeOK
  <2>3. pc' \in [Node -> At]
    BY <1>12 DEF Conclude, Goto, TypeOK
  <2>4. QED
    BY <1>12, <2>1, <2>2, <2>3 DEF Conclude, TypeOK, envVars
<1>13. ASSUME NEW n \in Node, NEW m \in Node, Ask(n, m) PROVE TypeOK'
  <2>1. asked' \in [Node -> SUBSET Node] /\ accepted' \in [Node -> BOOLEAN]
    BY <1>13 DEF Ask, TypeOK
  <2>2. left' \in [Node -> 0..TTL] /\ boss' \in [Node -> Node \cup {None}]
    BY <1>0, <1>13 DEF Ask, UpdateFailsafe, fsVars, TypeOK
  <2>3. faults' \in 0..MaxFaults
    BY <1>13 DEF Ask, Fault, TypeOK
  <2>4. QED
    BY <1>13, <2>1, <2>2, <2>3 DEF Ask, TypeOK, pgVars
<1>14. ASSUME NEW n \in Node, MemberKeyExpires(n) PROVE TypeOK'
  BY <1>14 DEF MemberKeyExpires, TypeOK, loopVars, fsVars, pgVars, envVars
<1>15. ASSUME NEW n \in Node, WatchdogFires(n) PROVE TypeOK'
  <2>1. pg' \in [Node -> {"replica", "off"} \cup Writable] /\ hw' \in [Node -> 0..WdOff]
    BY <1>0, <1>15 DEF WatchdogFires, TypeOK
  <2>2. QED
    BY <1>15, <2>1 DEF WatchdogFires, ResetFailsafe, TypeOK, envVars
<1>16. ASSUME NEW n \in Node, LoseDcs(n) \/ RegainDcs(n) PROVE TypeOK'
  BY <1>16 DEF LoseDcs, RegainDcs, Fault, TypeOK, loopVars, fsVars, pgVars
<1>17. ASSUME NEW n \in Node, Restart(n) PROVE TypeOK'
  <2>1. faults' \in 0..MaxFaults
    BY <1>17 DEF Restart, Fault, TypeOK
  <2>2. {} \in Lists
    BY DEF Lists
  <2>3. QED
    BY <1>17, <2>1, <2>2 DEF Restart, Goto, ResetFailsafe, TypeOK, pgVars
<1>18. ASSUME NEW p \in Pairs, Partition(p) \/ Heal(p) PROVE TypeOK'
  BY <1>18 DEF Partition, Heal, Fault, TypeOK, loopVars, fsVars, pgVars
<1>19. CASE UNCHANGED vars
  BY <1>19 DEF TypeOK, vars, loopVars, fsVars, pgVars, envVars
<1>20. QED
  BY <1>1, <1>2, <1>3, <1>4, <1>5, <1>6, <1>7, <1>8, <1>9, <1>10, <1>11, <1>12, <1>13, <1>14, <1>15, <1>16, <1>17,
     <1>18, <1>19 DEF Next, Cycle
-----------------------------------------------------------------------------
Seen == <<key, failkey, pc, list, asked, accepted, age, left, boss, pg, hw>>

\* What the invariant is about, without its records.
LEMMA FsTypes ==
    ASSUME TypeOK
    PROVE  /\ key.owner \in Node \cup {None} /\ key.ttl \in Nat /\ key.ttl <= TTL
           /\ age \in [Node -> Nat] /\ left \in [Node -> Nat] /\ hw \in [Node -> Nat]
           /\ \A n \in Node : left[n] <= TTL
           /\ TTL \in Nat /\ WatchdogTimeout \in Nat /\ ReplyDelay \in Nat /\ RaceDelay \in Nat /\ None \notin Node
           /\ DOMAIN pc = Node /\ DOMAIN pg = Node /\ DOMAIN list = Node /\ DOMAIN asked = Node
           /\ DOMAIN accepted = Node /\ DOMAIN boss = Node
<1> USE ConstantsAssumption
<1>1. WdOff \in Nat
  BY DEF WdOff
<1>2. QED
  BY <1>1 DEF TypeOK

\* A step that changes nothing of it.
LEMMA GuardedStutter == ASSUME Guarded, UNCHANGED Seen PROVE Guarded'
<1>1. /\ key' = key /\ failkey' = failkey /\ pc' = pc /\ list' = list /\ asked' = asked /\ accepted' = accepted
      /\ age' = age /\ left' = left /\ boss' = boss /\ pg' = pg /\ hw' = hw
  BY DEF Seen
<1>2. (AgeBounded /\ ChargeHasKey /\ RaceBeforeExpiry /\ WritesArmed /\ OwnerWrites)'
  BY <1>1 DEF Guarded, AgeBounded, ChargeHasKey, RaceBeforeExpiry, WritesArmed, OwnerWrites, Waiting, Patience, Writes
<1>3. (ListNotEmpty /\ PrimaryKnowsList /\ NotOwnBoss /\ OnePrimary)'
  BY <1>1 DEF Guarded, ListNotEmpty, PrimaryKnowsList, NotOwnBoss, OnePrimary, Knows, Writes
<1>4. (AllKept /\ RaceLost /\ Asking)'
  BY <1>1 DEF Guarded, AllKept, RaceLost, Asking, Kept, Yields, MayRace, Writes
<1>5. QED
  BY <1>2, <1>3, <1>4 DEF Guarded

(***************************************************************************)
(* The cycle of n ends, and n does not get to accept commits by that: it   *)
(* goes on as it was or is demoted.  It forgets the leader it heard of     *)
(* only if it was the primary itself, is off, or had not heard of one.     *)
(***************************************************************************)
LEMMA Retreat ==
    ASSUME TimelyGuards, TypeOK, Guarded, UNCHANGED <<key, failkey, asked, accepted>>, NEW n \in Node,
           pc'[n] = "idle",
           Writes(n)' => Writes(n) /\ hw'[n] = hw[n],
           pg[n] = "off" => pg'[n] = "off",
           list'[n] \in {list[n], failkey, {}},
           \/ left'[n] = left[n] /\ boss'[n] = boss[n]
           \/ /\ left'[n] = 0 /\ boss'[n] = None
              /\ Writes(n) \/ pg'[n] = "off" \/ left[n] = 0 \/ boss[n] = None,
           \A o \in Node \ {n} : /\ pc'[o] = pc[o] /\ pg'[o] = pg[o] /\ hw'[o] = hw[o] /\ age'[o] = age[o]
                                 /\ list'[o] = list[o] /\ left'[o] = left[o] /\ boss'[o] = boss[o]
    PROVE  Guarded'
<1> USE FsTypes DEF Guarded
<1>1. (AgeBounded /\ ChargeHasKey /\ RaceBeforeExpiry)'
  BY DEF AgeBounded, ChargeHasKey, RaceBeforeExpiry, Waiting, Patience, InCharge
<1>2. (WritesArmed /\ OwnerWrites /\ OnePrimary)'
  <2>1. \A o \in Node : Writes(o)' => Writes(o) /\ hw'[o] = hw[o]
    BY DEF Writes
  <2>2. QED
    BY <2>1 DEF WritesArmed, OwnerWrites, OnePrimary, Writes
<1>3. (ListNotEmpty /\ NotOwnBoss)'
  BY DEF ListNotEmpty, NotOwnBoss
<1>4. PrimaryKnowsList'
  <2> SUFFICES ASSUME NEW o \in Node, (Writes(o) \/ pc[o] \in {"updated", "keepalive"} \/ (pc[o] = "mine" /\ key.owner = o))'
               PROVE  Knows(o)'
    BY DEF PrimaryKnowsList
  <2>1. CASE o = n
    BY <2>1 DEF PrimaryKnowsList, Knows, Writes
  <2>2. CASE o # n
    BY <2>2 DEF PrimaryKnowsList, Knows, Writes
  <2>3. QED
    BY <2>1, <2>2
<1>5. AllKept'
  <2> SUFFICES ASSUME NEW o \in Node, NEW m \in Node, Writes(o)', m # o PROVE Kept(o, m)'
    BY DEF AllKept
  <2>1. Writes(o) /\ hw'[o] = hw[o] /\ Kept(o, m)
    BY DEF AllKept, Writes
  <2>2. CASE m # n
    BY <2>1, <2>2 DEF Kept, Yields
  <2>3. CASE m = n
    <3>1. ~Writes(n)
      BY <2>1, <2>3 DEF OnePrimary, Writes
    <3>2. QED
      BY <2>1, <2>3, <3>1 DEF Kept, Yields
  <2>4. QED
    BY <2>2, <2>3
<1>6. RaceLost'
  <2> SUFFICES ASSUME NEW o \in Node, NEW m \in Node, Writes(o)', m # o, pc'[m] = "race", MayRace(m)'
               PROVE  key'.owner = o
    BY DEF RaceLost
  <2>1. Writes(o) /\ m # n
    BY DEF Writes
  <2>2. MayRace(m) /\ pc[m] = "race"
    BY <2>1 DEF MayRace
  <2>3. QED
    BY <2>1, <2>2 DEF RaceLost
<1>7. Asking'
  <2> SUFFICES ASSUME NEW o \in Node, pc'[o] = "ask"
               PROVE  /\ Writes(o)' /\ list'[o] # NoList /\ o \in list'[o] /\ asked'[o] \subseteq list'[o] \ {o}
                      /\ accepted'[o] => \A m \in (list'[o] \ {o}) \ asked'[o] :
                                          pg'[m] = "off" \/ (left'[m] + age'[o] >= TTL /\ Yields(m)')
    BY DEF Asking
  <2>1. o # n /\ pc[o] = "ask" /\ Writes(o) /\ ~Writes(n)
    BY DEF Asking, OnePrimary, Writes
  <2>2. /\ Writes(o)' /\ list'[o] # NoList /\ o \in list'[o] /\ asked'[o] \subseteq list'[o] \ {o}
    BY <2>1 DEF Asking, Writes
  <2>3. ASSUME accepted[o], NEW m \in (list[o] \ {o}) \ asked[o]
        PROVE  pg'[m] = "off" \/ (left'[m] + age'[o] >= TTL /\ Yields(m)')
    <3>1. m \in Node
      BY <2>1 DEF Asking, TypeOK, Lists
    <3>2. pg[m] = "off" \/ (left[m] + age[o] >= TTL /\ Yields(m))
      BY <2>1, <2>3 DEF Asking
    <3>3. age[o] < TTL
      BY <2>1 DEF AgeBounded, TimelyGuards
    <3>4. CASE m # n
      BY <2>1, <3>1, <3>2, <3>4 DEF Yields
    <3>5. CASE m = n
      BY <2>1, <3>1, <3>2, <3>3, <3>5 DEF Yields
    <3>6. QED
      BY <3>4, <3>5
  <2>4. QED
    BY <2>1, <2>2, <2>3
<1>8. QED
  BY <1>1, <1>2, <1>3, <1>4, <1>5, <1>6, <1>7
(***************************************************************************)
(* n has loaded the cluster, or failed to reach the DCS.                   *)
(***************************************************************************)
LEMMA Moves ==
    ASSUME TimelyGuards, TypeOK, Guarded, UNCHANGED <<key, failkey, asked, accepted, left, boss, pg, hw>>, NEW n \in Node,
           pc'[n] \in {"error", "mine", "race"}, pc'[n] # "error" => age'[n] = 0,
           list'[n] = failkey \/ (list'[n] = list[n] /\ pc'[n] = "error"),
           pc'[n] = "race" => pg[n] # "off" /\ key.owner = None /\ (left[n] = 0 \/ boss[n] = None),
           \A o \in Node \ {n} : pc'[o] = pc[o] /\ age'[o] = age[o] /\ list'[o] = list[o]
    PROVE  Guarded'
<1> USE FsTypes DEF Guarded
<1>1. (AgeBounded /\ ChargeHasKey /\ RaceBeforeExpiry)'
  BY DEF AgeBounded, ChargeHasKey, RaceBeforeExpiry, Waiting, Patience, InCharge
<1>2. (WritesArmed /\ OwnerWrites /\ OnePrimary /\ ListNotEmpty /\ NotOwnBoss /\ AllKept)'
  BY DEF WritesArmed, OwnerWrites, OnePrimary, ListNotEmpty, NotOwnBoss, AllKept, Kept, Yields, Writes
<1>3. PrimaryKnowsList'
  <2> SUFFICES ASSUME NEW o \in Node, (Writes(o) \/ pc[o] \in {"updated", "keepalive"} \/ (pc[o] = "mine" /\ key.owner = o))'
               PROVE  Knows(o)'
    BY DEF PrimaryKnowsList
  <2>1. CASE o = n /\ list'[n] = failkey
    BY <2>1 DEF Knows
  <2>2. CASE o = n /\ list'[n] = list[n] /\ pc'[n] = "error"
    BY <2>2 DEF PrimaryKnowsList, Knows, Writes
  <2>3. CASE o # n
    BY <2>3 DEF PrimaryKnowsList, Knows, Writes
  <2>4. QED
    BY <2>1, <2>2, <2>3
<1>4. RaceLost'
  <2> SUFFICES ASSUME NEW o \in Node, NEW m \in Node, Writes(o)', m # o, pc'[m] = "race", MayRace(m)'
               PROVE  key'.owner = o
    BY DEF RaceLost
  <2>1. Writes(o) /\ Kept(o, m)
    BY DEF AllKept, Writes
  <2>2. CASE m # n
    BY <2>1, <2>2 DEF RaceLost, MayRace
  <2>3. CASE m = n
    <3>1. list'[n] = failkey /\ key.owner = None /\ (left[n] = 0 \/ boss[n] = None)
      BY <2>3
    <3>2. (failkey # NoList /\ n \notin failkey) \/ key.owner = o
      BY <2>1, <2>3, <3>1 DEF Kept, Yields
    <3>3. ~(failkey # NoList /\ n \notin failkey)
      BY <2>3, <3>1 DEF MayRace, ListNotEmpty
    <3>4. QED
      BY <3>2, <3>3
  <2>4. QED
    BY <2>2, <2>3
<1>5. Asking'
  BY DEF Asking, Writes, Yields
<1>6. QED
  BY <1>1, <1>2, <1>3, <1>4, <1>5
(***************************************************************************)
(* n gets the key, or extends it: nobody else accepts commits.             *)
(***************************************************************************)
LEMMA Granted ==
    ASSUME TimelyGuards, TypeOK, Guarded, UNCHANGED <<failkey, list, asked, accepted, left, boss, pg, hw>>, NEW n \in Node,
           \/ pc[n] = "mine" /\ key.owner = n /\ pc'[n] = "updated"
           \/ pc[n] = "race" /\ key.owner = None /\ (pg[n] = "primary" \/ MayRace(n)) /\ pc'[n] = "acquired",
           key'.owner = n, key'.ttl = TTL, age'[n] = 0,
           \A o \in Node \ {n} : pc'[o] = pc[o] /\ age'[o] = age[o]
    PROVE  Guarded'
<1> USE FsTypes DEF Guarded
<1>1. \A o \in Node : Writes(o) => o = n
  BY DEF OwnerWrites, OnePrimary, RaceLost, Writes, Writable
<1>2. \A o \in Node \ {n} : pc[o] \notin InCharge
  BY DEF ChargeHasKey
<1>3. AgeBounded'
  BY DEF AgeBounded, Waiting, Patience
<1>4. (ChargeHasKey /\ RaceBeforeExpiry)'
  BY <1>2 DEF ChargeHasKey, RaceBeforeExpiry, InCharge
<1>5. (WritesArmed /\ OwnerWrites /\ OnePrimary /\ ListNotEmpty /\ NotOwnBoss)'
  BY <1>1 DEF WritesArmed, OwnerWrites, OnePrimary, ListNotEmpty, NotOwnBoss, Writes
<1>6. PrimaryKnowsList'
  <2> SUFFICES ASSUME NEW o \in Node, (Writes(o) \/ pc[o] \in {"updated", "keepalive"} \/ (pc[o] = "mine" /\ key.owner = o))'
               PROVE  Knows(o)'
    BY DEF PrimaryKnowsList
  <2>1. Writes(o) \/ pc[o] \in {"updated", "keepalive"} \/ (pc[o] = "mine" /\ key.owner = o)
    BY DEF Writes
  <2>2. QED
    BY <2>1 DEF PrimaryKnowsList, Knows
<1>7. AllKept'
  <2> SUFFICES ASSUME NEW m \in Node, Writes(n), m # n PROVE Kept(n, m)'
    BY <1>1 DEF AllKept, Writes
  <2>1. Kept(n, m)
    BY DEF AllKept
  <2>2. QED
    BY <2>1 DEF Kept, Yields
<1>8. RaceLost'
  BY <1>1 DEF RaceLost, Writes
<1>9. Asking'
  BY DEF Asking, Writes, Yields
<1>10. QED
  BY <1>3, <1>4, <1>5, <1>6, <1>7, <1>8, <1>9

\* n writes the list of the members, and knows whom it has written.
LEMMA Listed ==
    ASSUME TimelyGuards, TypeOK, Guarded, UNCHANGED <<key, asked, accepted, age, left, boss, pg, hw>>, NEW n \in Node,
           pc[n] = "updated", pc'[n] = "keepalive", failkey' # {}, Knows(n)',
           \A o \in Node \ {n} : pc'[o] = pc[o] /\ list'[o] = list[o]
    PROVE  Guarded'
<1> USE FsTypes DEF Guarded
<1>1. key.owner = n /\ key.ttl + age[n] >= TTL /\ age[n] <= ReplyDelay
  BY DEF ChargeHasKey, InCharge, AgeBounded, Waiting, Patience
<1>2. \A o \in Node : Writes(o) => o = n
  BY <1>1 DEF OwnerWrites
<1>3. (AgeBounded /\ ChargeHasKey /\ RaceBeforeExpiry)'
  BY DEF AgeBounded, ChargeHasKey, RaceBeforeExpiry, Waiting, Patience, InCharge
<1>4. (WritesArmed /\ OwnerWrites /\ OnePrimary /\ ListNotEmpty /\ NotOwnBoss)'
  BY DEF WritesArmed, OwnerWrites, OnePrimary, ListNotEmpty, NotOwnBoss, Writes
<1>5. PrimaryKnowsList'
  <2> SUFFICES ASSUME NEW o \in Node, (Writes(o) \/ pc[o] \in {"updated", "keepalive"} \/ (pc[o] = "mine" /\ key.owner = o))'
               PROVE  Knows(o)'
    BY DEF PrimaryKnowsList
  <2>1. o = n
    BY <1>1, <1>2 DEF ChargeHasKey, InCharge, Writes
  <2>2. QED
    BY <2>1
<1>6. AllKept'
  <2> SUFFICES ASSUME NEW m \in Node, Writes(n), m # n PROVE Kept(n, m)'
    BY <1>2 DEF AllKept, Writes
  <2>1. key.ttl > hw[n]
    BY <1>1 DEF WritesArmed, TimelyGuards
  <2>2. QED
    BY <1>1, <2>1 DEF Kept
<1>7. RaceLost'
  BY <1>1, <1>2 DEF RaceLost, Writes
<1>8. Asking'
  BY <1>2 DEF Asking, Writes, Yields
<1>9. QED
  BY <1>3, <1>4, <1>5, <1>6, <1>7, <1>8

\* The cycle with the key ends: n is fed and accepts commits from now on.
LEMMA Fed ==
    ASSUME TimelyGuards, TypeOK, Guarded, UNCHANGED <<key, failkey, list, asked, accepted, age>>, NEW n \in Node,
           pc[n] = "keepalive", pc'[n] = "idle", hw'[n] = WatchdogTimeout, left'[n] = 0, boss'[n] = None,
           \A o \in Node \ {n} : pc'[o] = pc[o] /\ pg'[o] = pg[o] /\ hw'[o] = hw[o] /\ left'[o] = left[o] /\ boss'[o] = boss[o]
    PROVE  Guarded'
<1> USE FsTypes DEF Guarded
<1>1. key.owner = n /\ key.ttl + age[n] >= TTL /\ age[n] <= ReplyDelay
  BY DEF ChargeHasKey, InCharge, AgeBounded, Waiting, Patience
<1>2. \A o \in Node : Writes(o) => o = n
  BY <1>1 DEF OwnerWrites
<1>3. \A o \in Node : Writes(o)' => o = n
  BY <1>2 DEF Writes
<1>4. (AgeBounded /\ ChargeHasKey /\ RaceBeforeExpiry)'
  BY DEF AgeBounded, ChargeHasKey, RaceBeforeExpiry, Waiting, Patience, InCharge
<1>5. (WritesArmed /\ OwnerWrites /\ OnePrimary /\ ListNotEmpty /\ NotOwnBoss)'
  BY <1>1, <1>3 DEF WritesArmed, OwnerWrites, OnePrimary, ListNotEmpty, NotOwnBoss, Writes
<1>6. PrimaryKnowsList'
  <2> SUFFICES ASSUME NEW o \in Node, (Writes(o) \/ pc[o] \in {"updated", "keepalive"} \/ (pc[o] = "mine" /\ key.owner = o))'
               PROVE  Knows(o)'
    BY DEF PrimaryKnowsList
  <2>1. o = n
    BY <1>1, <1>3 DEF ChargeHasKey, InCharge
  <2>2. QED
    BY <2>1 DEF PrimaryKnowsList, Knows
<1>7. AllKept'
  <2> SUFFICES ASSUME NEW m \in Node, m # n PROVE Kept(n, m)'
    BY <1>3 DEF AllKept
  <2>1. key'.ttl > hw'[n]
    BY <1>1 DEF TimelyGuards
  <2>2. QED
    BY <1>1, <2>1 DEF Kept
<1>8. RaceLost'
  BY <1>1, <1>3 DEF RaceLost
<1>9. Asking'
  <2> SUFFICES ASSUME NEW o \in Node, pc'[o] = "ask" PROVE FALSE
    BY DEF Asking
  <2>1. pc[o] = "ask" /\ o # n
    OBVIOUS
  <2>2. QED
    BY <1>2, <2>1 DEF Asking
<1>10. QED
  BY <1>4, <1>5, <1>6, <1>7, <1>8, <1>9
\* Patroni learns that the promotion is over.
LEMMA RoleSet ==
    ASSUME TypeOK, Guarded, UNCHANGED <<key, failkey, pc, list, asked, accepted, age, left, boss, hw>>, NEW n \in Node,
           pg[n] = "promoting", pg' = [pg EXCEPT ![n] = "primary"]
    PROVE  Guarded'
<1> USE FsTypes DEF Guarded
<1>1. \A o \in Node : (Writes(o)' <=> Writes(o)) /\ (pg'[o] = "off" <=> pg[o] = "off")
  BY DEF Writes, Writable
<1>2. (AgeBounded /\ ChargeHasKey /\ RaceBeforeExpiry /\ ListNotEmpty /\ NotOwnBoss)'
  BY DEF AgeBounded, ChargeHasKey, RaceBeforeExpiry, Waiting, Patience, ListNotEmpty, NotOwnBoss
<1>3. (WritesArmed /\ OwnerWrites /\ PrimaryKnowsList)'
  BY <1>1 DEF WritesArmed, OwnerWrites, PrimaryKnowsList, Knows
<1>4. OnePrimary'
  BY <1>1 DEF OnePrimary, Writes
<1>5. (AllKept /\ RaceLost)'
  BY <1>1 DEF AllKept, RaceLost, Kept, Yields, MayRace
<1>6. Asking'
  <2> SUFFICES ASSUME NEW o \in Node, pc[o] = "ask"
               PROVE  /\ Writes(o)' /\ list[o] # NoList /\ o \in list[o] /\ asked[o] \subseteq list[o] \ {o}
                      /\ accepted[o] => \A m \in (list[o] \ {o}) \ asked[o] :
                                          pg'[m] = "off" \/ (left[m] + age[o] >= TTL /\ Yields(m)')
    BY DEF Asking
  <2>1. list[o] \subseteq Node
    BY DEF Asking, TypeOK, Lists
  <2>2. QED
    BY <1>1, <2>1 DEF Asking, Yields
<1>7. QED
  BY <1>2, <1>3, <1>4, <1>5, <1>6

\* The new leader has loaded the cluster again.
LEMMA Reloaded ==
    ASSUME TypeOK, Guarded, UNCHANGED <<key, failkey, asked, accepted, age, left, boss, pg, hw>>, NEW n \in Node,
           pc[n] = "acquired", pc'[n] = "keepalive", list'[n] = failkey,
           \A o \in Node \ {n} : pc'[o] = pc[o] /\ list'[o] = list[o]
    PROVE  Guarded'
<1> USE FsTypes DEF Guarded
<1>1. (AgeBounded /\ ChargeHasKey /\ RaceBeforeExpiry /\ ListNotEmpty /\ NotOwnBoss)'
  BY DEF AgeBounded, ChargeHasKey, RaceBeforeExpiry, Waiting, Patience, InCharge, ListNotEmpty, NotOwnBoss
<1>2. (WritesArmed /\ OwnerWrites /\ OnePrimary /\ AllKept)'
  BY DEF WritesArmed, OwnerWrites, OnePrimary, AllKept, Kept, Yields, Writes
<1>3. PrimaryKnowsList'
  <2> SUFFICES ASSUME NEW o \in Node, (Writes(o) \/ pc[o] \in {"updated", "keepalive"} \/ (pc[o] = "mine" /\ key.owner = o))'
               PROVE  Knows(o)'
    BY DEF PrimaryKnowsList
  <2>1. CASE o = n
    BY <2>1 DEF Knows
  <2>2. CASE o # n
    BY <2>2 DEF PrimaryKnowsList, Knows, Writes
  <2>3. QED
    BY <2>1, <2>2
<1>4. RaceLost'
  BY DEF RaceLost, Writes, MayRace
<1>5. Asking'
  BY DEF Asking, Writes, Yields
<1>6. QED
  BY <1>1, <1>2, <1>3, <1>4, <1>5

\* The DCS cannot be reached: the primary turns to the listed members.
LEMMA Turns ==
    ASSUME TimelyGuards, TypeOK, Guarded, UNCHANGED <<key, failkey, list, left, boss, pg, hw>>, NEW n \in Node,
           pc[n] = "error", Writes(n), list[n] # NoList, n \in list[n],
           pc'[n] = "ask", asked'[n] = list[n] \ {n}, age'[n] = 0,
           \A o \in Node \ {n} : pc'[o] = pc[o] /\ asked'[o] = asked[o] /\ age'[o] = age[o]
                                 /\ accepted'[o] = accepted[o]
    PROVE  Guarded'
<1> USE FsTypes DEF Guarded
<1>1. (AgeBounded /\ ChargeHasKey /\ RaceBeforeExpiry /\ ListNotEmpty /\ NotOwnBoss)'
  BY DEF AgeBounded, ChargeHasKey, RaceBeforeExpiry, Waiting, Patience, InCharge, ListNotEmpty, NotOwnBoss
<1>2. (WritesArmed /\ OwnerWrites /\ OnePrimary /\ AllKept)'
  BY DEF WritesArmed, OwnerWrites, OnePrimary, AllKept, Kept, Yields, Writes
<1>3. PrimaryKnowsList'
  BY DEF PrimaryKnowsList, Knows, Writes
<1>4. RaceLost'
  BY DEF RaceLost, Writes, MayRace
<1>5. Asking'
  <2> SUFFICES ASSUME NEW o \in Node, pc'[o] = "ask"
               PROVE  /\ Writes(o)' /\ list[o] # NoList /\ o \in list[o] /\ asked'[o] \subseteq list[o] \ {o}
                      /\ accepted'[o] => \A m \in (list[o] \ {o}) \ asked'[o] :
                                          pg[m] = "off" \/ (left[m] + age'[o] >= TTL /\ Yields(m)')
    BY DEF Asking
  <2>1. CASE o = n
    BY <2>1 DEF Writes
  <2>2. CASE o # n
    BY <2>2 DEF Asking, Writes, Yields
  <2>3. QED
    BY <2>1, <2>2
<1>6. QED
  BY <1>1, <1>2, <1>3, <1>4, <1>5

\* A member accepts the request of the primary, or does not; or its answer gets lost.
LEMMA Asks ==
    ASSUME TimelyGuards, TypeOK, Guarded, UNCHANGED <<key, failkey, pc, list, age, pg, hw>>,
           NEW n \in Node, NEW m \in Node,
           pc[n] = "ask", m \in asked[n], asked' = [asked EXCEPT ![n] = @ \ {m}],
           \/ left'[m] = TTL /\ boss'[m] = n
           \/ left'[m] = left[m] /\ boss'[m] = boss[m] /\ ~accepted'[n],
           \/ accepted' = accepted
           \/ ~accepted'[n],
           \A o \in Node \ {m} : left'[o] = left[o] /\ boss'[o] = boss[o],
           \A o \in Node \ {n} : accepted'[o] = accepted[o]
    PROVE  Guarded'
<1> USE FsTypes DEF Guarded
<1>1. Writes(n) /\ m # n /\ asked[n] \subseteq list[n] \ {n} /\ asked'[n] = asked[n] \ {m}
      /\ \A o \in Node : pc[o] = "ask" => o = n
  BY DEF Asking, OnePrimary, Writes
<1>2. AgeBounded'
  BY <1>1 DEF AgeBounded, Waiting, Patience
<1>3. (ChargeHasKey /\ RaceBeforeExpiry /\ ListNotEmpty /\ WritesArmed /\ OwnerWrites /\ OnePrimary)'
  BY DEF ChargeHasKey, RaceBeforeExpiry, ListNotEmpty, WritesArmed, OwnerWrites, OnePrimary, Writes
<1>4. (NotOwnBoss /\ PrimaryKnowsList /\ RaceLost)'
  BY <1>1 DEF NotOwnBoss, PrimaryKnowsList, RaceLost, Knows, MayRace, Writes
<1>5. AllKept'
  <2> SUFFICES ASSUME NEW o \in Node, NEW k \in Node, Writes(o), k # o PROVE Kept(o, k)'
    BY DEF AllKept, Writes
  <2>1. Kept(o, k)
    BY DEF AllKept
  <2>2. CASE k # m \/ (left'[m] = left[m] /\ boss'[m] = boss[m])
    BY <2>1, <2>2 DEF Kept, Yields
  <2>3. CASE k = m /\ left'[m] = TTL /\ boss'[m] = n
    <3>1. hw[o] < TTL
      BY DEF WritesArmed, TimelyGuards
    <3>2. QED
      BY <1>1, <2>3, <3>1 DEF Kept, Yields
  <2>4. QED
    BY <2>2, <2>3
<1>6. Asking'
  <2> SUFFICES /\ Writes(n)' /\ list[n] # NoList /\ n \in list[n] /\ asked'[n] \subseteq list[n] \ {n}
               /\ accepted'[n] => \A k \in (list[n] \ {n}) \ asked'[n] :
                                     pg[k] = "off" \/ (left'[k] + age[n] >= TTL /\ Yields(k)')
    BY <1>1 DEF Asking
  <2>1. Writes(n)' /\ list[n] # NoList /\ n \in list[n] /\ asked'[n] \subseteq list[n] \ {n} /\ list[n] \subseteq Node
    BY <1>1 DEF Asking, Writes, TypeOK, Lists
  <2>2. ASSUME accepted'[n], NEW k \in (list[n] \ {n}) \ asked'[n]
        PROVE  pg[k] = "off" \/ (left'[k] + age[n] >= TTL /\ Yields(k)')
    <3>1. CASE k = m
      BY <1>1, <2>1, <2>2, <3>1 DEF Yields
    <3>2. CASE k # m
      <4>1. accepted[n] /\ k \in (list[n] \ {n}) \ asked[n] /\ k \in Node
        BY <1>1, <2>1, <2>2, <3>2
      <4>2. QED
        BY <3>2, <4>1 DEF Asking, Yields
    <3>3. QED
      BY <3>1, <3>2
  <2>3. QED
    BY <2>1, <2>2
<1>7. QED
  BY <1>2, <1>3, <1>4, <1>5, <1>6

\* All members have accepted: the watchdog is fed although the key may be gone.
LEMMA Concludes ==
    ASSUME TimelyGuards, TypeOK, Guarded, UNCHANGED <<key, failkey, list, asked, accepted, age, boss, pg>>, NEW n \in Node,
           pc[n] = "ask", asked[n] = {}, accepted[n],
           pc'[n] = "idle", left'[n] = TTL, hw'[n] = WatchdogTimeout,
           \A o \in Node \ {n} : pc'[o] = pc[o] /\ hw'[o] = hw[o] /\ left'[o] = left[o]
    PROVE  Guarded'
<1> USE FsTypes DEF Guarded
<1>1. Writes(n) /\ list[n] # NoList /\ n \in list[n] /\ age[n] <= ReplyDelay
      /\ \A m \in list[n] \ {n} : pg[m] = "off" \/ (left[m] + age[n] >= TTL /\ Yields(m))
  BY DEF Asking, AgeBounded
<1>2. \A o \in Node : Writes(o)' => o = n
  BY <1>1 DEF OnePrimary, Writes
<1>3. (AgeBounded /\ ChargeHasKey /\ RaceBeforeExpiry /\ ListNotEmpty /\ NotOwnBoss)'
  BY DEF AgeBounded, ChargeHasKey, RaceBeforeExpiry, Waiting, Patience, InCharge, ListNotEmpty, NotOwnBoss
<1>4. (WritesArmed /\ OwnerWrites /\ OnePrimary)'
  BY <1>2 DEF WritesArmed, OwnerWrites, OnePrimary, Writes
<1>5. PrimaryKnowsList'
  BY DEF PrimaryKnowsList, Knows, Writes
<1>6. AllKept'
  <2> SUFFICES ASSUME NEW m \in Node, m # n PROVE Kept(n, m)'
    BY <1>2 DEF AllKept
  <2>1. CASE m \in list[n]
    <3>1. pg[m] = "off" \/ (left[m] > WatchdogTimeout /\ Yields(m))
      BY <1>1, <2>1 DEF TimelyGuards
    <3>2. QED
      BY <3>1 DEF Kept, Yields
  <2>2. CASE m \notin list[n]
    <3>1. failkey # NoList /\ failkey \subseteq list[n]
      BY <1>1 DEF PrimaryKnowsList, Knows
    <3>2. QED
      BY <2>2, <3>1 DEF Kept
  <2>3. QED
    BY <2>1, <2>2
<1>7. RaceLost'
  BY DEF RaceLost, Writes, MayRace
<1>8. Asking'
  <2> SUFFICES ASSUME NEW o \in Node, pc'[o] = "ask" PROVE FALSE
    BY DEF Asking
  <2>1. pc[o] = "ask" /\ o # n
    OBVIOUS
  <2>2. QED
    BY <1>1, <2>1 DEF Asking, OnePrimary, Writes
<1>9. QED
  BY <1>3, <1>4, <1>5, <1>6, <1>7, <1>8

\* The leader key expires: whoever still accepts commits has been granted that by the members.
LEMMA Expires ==
    ASSUME TimelyGuards, TypeOK, Guarded, UNCHANGED <<failkey, pc, list, asked, accepted, age, left, boss, pg, hw>>,
           key.owner # None, key.ttl = 0, key'.owner = None, key'.ttl = 0
    PROVE  Guarded'
<1> USE FsTypes DEF Guarded
<1>1. \A n \in Node : pc[n] # "race" /\ pc[n] \notin InCharge
  <2> SUFFICES ASSUME NEW n \in Node, pc[n] = "race" \/ pc[n] \in InCharge PROVE FALSE
    OBVIOUS
  <2>1. age[n] >= TTL
    BY DEF RaceBeforeExpiry, ChargeHasKey
  <2>2. age[n] <= Patience(n)
    BY DEF AgeBounded, Waiting, InCharge
  <2>3. QED
    BY <2>1, <2>2 DEF Patience, TimelyGuards, InCharge
<1>2. (AgeBounded /\ ChargeHasKey /\ RaceBeforeExpiry /\ ListNotEmpty /\ NotOwnBoss)'
  BY <1>1 DEF AgeBounded, ChargeHasKey, RaceBeforeExpiry, Waiting, Patience, ListNotEmpty, NotOwnBoss
<1>3. (WritesArmed /\ OwnerWrites /\ OnePrimary)'
  BY DEF WritesArmed, OwnerWrites, OnePrimary, Writes
<1>4. PrimaryKnowsList'
  BY DEF PrimaryKnowsList, Knows, Writes
<1>5. AllKept'
  <2> SUFFICES ASSUME NEW n \in Node, NEW m \in Node, Writes(n), m # n PROVE Kept(n, m)'
    BY DEF AllKept, Writes
  <2>1. Kept(n, m) /\ ~(key.ttl > hw[n])
    BY DEF AllKept
  <2>2. QED
    BY <2>1 DEF Kept, Yields
<1>6. RaceLost'
  BY <1>1 DEF RaceLost
<1>7. Asking'
  BY DEF Asking, Writes, Yields
<1>8. QED
  BY <1>2, <1>3, <1>4, <1>5, <1>6, <1>7

\* Time passes: all countdowns run at the same speed.
LEMMA Ticks ==
    ASSUME TimelyGuards, TypeOK, Guarded, Tick
    PROVE  Guarded'
<1> USE FsTypes DEF Guarded
<1>1. /\ failkey' = failkey /\ pc' = pc /\ list' = list /\ asked' = asked /\ accepted' = accepted /\ boss' = boss /\ pg' = pg
  BY DEF Tick
<1>2. key'.owner = key.owner /\ key'.ttl = Less(key.ttl) /\ (key.owner # None => key'.ttl = key.ttl - 1 /\ key.ttl > 0)
  BY DEF Tick, TypeOK, Less
<1>3. \A n \in Node : left'[n] = Less(left[n]) /\ (left[n] > 0 => left'[n] = left[n] - 1) /\ left'[n] \in Nat
  BY DEF Tick, Less
<1>4. \A n \in Node : Writes(n) => hw[n] > 0 /\ hw'[n] = hw[n] - 1
  <2> SUFFICES ASSUME NEW n \in Node, Writes(n) PROVE hw[n] > 0 /\ hw'[n] = hw[n] - 1
    OBVIOUS
  <2>1. hw[n] > 0 /\ hw[n] # WdOff
    BY DEF Tick, WritesArmed, WdOff
  <2>2. QED
    BY <2>1 DEF Tick, Less
<1>5. \A n \in Node : /\ Waiting(n) => age'[n] = age[n] + 1 /\ age[n] < Patience(n)
                      /\ ~Waiting(n) => age'[n] = 0
  BY DEF Tick
<1>6. \A n \in Node : (Waiting(n)' <=> Waiting(n)) /\ Patience(n)' = Patience(n) /\ Patience(n) \in Nat
  BY <1>1 DEF Waiting, Patience
<1>7. AgeBounded'
  <2>1. \A n \in Node : Waiting(n)' => age'[n] <= Patience(n)'
    BY <1>5, <1>6
  <2>2. \A n \in Node : pc'[n] = "ask" => age'[n] <= ReplyDelay
    BY <1>1, <1>5, <1>6 DEF Patience
  <2>3. QED
    BY <2>1, <2>2 DEF AgeBounded
<1>8. (ChargeHasKey /\ RaceBeforeExpiry)'
  <2>1. \A n \in Node : pc[n] \in InCharge \cup {"race"} => age'[n] = age[n] + 1
    BY <1>5 DEF Waiting, InCharge
  <2>2. QED
    BY <1>1, <1>2, <2>1 DEF ChargeHasKey, RaceBeforeExpiry
<1>9. (WritesArmed /\ OwnerWrites /\ OnePrimary)'
  BY <1>1, <1>2, <1>4 DEF WritesArmed, OwnerWrites, OnePrimary, Writes
<1>10. (PrimaryKnowsList /\ ListNotEmpty /\ NotOwnBoss /\ RaceLost)'
  BY <1>1, <1>2 DEF PrimaryKnowsList, ListNotEmpty, NotOwnBoss, RaceLost, Knows, MayRace, Writes
<1>11. AllKept'
  <2> SUFFICES ASSUME NEW n \in Node, NEW m \in Node, Writes(n), m # n PROVE Kept(n, m)'
    BY <1>1 DEF AllKept, Writes
  <2>1. Kept(n, m) /\ hw[n] > 0 /\ hw'[n] = hw[n] - 1
    BY <1>4 DEF AllKept
  <2>2. QED
    BY <1>1, <1>2, <1>3, <2>1 DEF Kept, Yields
<1>12. Asking'
  <2> SUFFICES ASSUME NEW n \in Node, pc[n] = "ask"
               PROVE  /\ Writes(n)' /\ list[n] # NoList /\ n \in list[n] /\ asked[n] \subseteq list[n] \ {n}
                      /\ accepted[n] => \A m \in (list[n] \ {n}) \ asked[n] :
                                          pg[m] = "off" \/ (left'[m] + age'[n] >= TTL /\ Yields(m)')
    BY <1>1 DEF Asking
  <2>1. Writes(n)' /\ list[n] # NoList /\ n \in list[n] /\ asked[n] \subseteq list[n] \ {n} /\ list[n] \subseteq Node
    BY <1>1 DEF Asking, Writes, TypeOK, Lists
  <2>2. ASSUME accepted[n], NEW m \in (list[n] \ {n}) \ asked[n]
        PROVE  pg[m] = "off" \/ (left'[m] + age'[n] >= TTL /\ Yields(m)')
    <3>1. m \in Node /\ (pg[m] = "off" \/ (left[m] + age[n] >= TTL /\ Yields(m)))
      BY <2>1, <2>2 DEF Asking
    <3>2. asked[n] # list[n] \ {n}
      BY <2>2
    <3>3. Waiting(n) /\ age'[n] = age[n] + 1
      BY <1>5, <3>2 DEF Waiting
    <3>4. left'[m] + age'[n] >= left[m] + age[n]
      BY <1>3, <3>1, <3>3
    <3>5. QED
      BY <1>1, <1>3, <3>1, <3>3, <3>4 DEF Yields
  <2>3. QED
    BY <2>1, <2>2
<1>13. QED
  BY <1>7, <1>8, <1>9, <1>10, <1>11, <1>12

-----------------------------------------------------------------------------
\* Each action is one of these moves.
LEMMA WithoutLockEffect ==
    ASSUME TypeOK, NEW n \in Node, WithoutLock(n)
    PROVE  /\ pc'[n] = "idle"
           /\ Writes(n)' => Writes(n) /\ hw'[n] = hw[n]
           /\ pg[n] = "off" => pg'[n] = "off"
           /\ \A o \in Node \ {n} : pc'[o] = pc[o] /\ pg'[o] = pg[o] /\ hw'[o] = hw[o]
<1>1. pc'[n] = "idle" /\ \A o \in Node \ {n} : pc'[o] = pc[o]
  BY DEF WithoutLock, Goto, TypeOK
<1>2. CASE UNCHANGED pgVars
  BY <1>1, <1>2 DEF pgVars, Writes
<1>3. CASE pg[n] \in Writable /\ pg' = [pg EXCEPT ![n] = "replica"] /\ \A o \in Node \ {n} : hw'[o] = hw[o]
  BY <1>1, <1>3 DEF Writes, Writable, TypeOK
<1>4. QED
  BY <1>2, <1>3 DEF WithoutLock, Demote, TypeOK, Writable

LEMMA GuardedStep == ASSUME TimelyGuards, TypeOK, Guarded, [Next]_vars PROVE Guarded'
<1> USE FsTypes
<1>1. CASE Tick
  BY <1>1, Ticks
<1>2. CASE KeyExpires
  <2>1. key.owner # None /\ key.ttl = 0 /\ key'.owner = None /\ key'.ttl = 0
    BY <1>2 DEF KeyExpires, TypeOK
  <2>2. UNCHANGED <<failkey, pc, list, asked, accepted, age, left, boss, pg, hw>>
    BY <1>2 DEF KeyExpires, loopVars, fsVars, pgVars
  <2>3. QED
    BY <2>1, <2>2, Expires
<1>3. ASSUME NEW n \in Node, LoadCluster(n) PROVE Guarded'
  <2>1. /\ UNCHANGED <<key, failkey, asked, accepted, left, boss>> /\ pg[n] # "off" /\ age'[n] = 0
        /\ list'[n] \in {list[n], failkey}
        /\ \A o \in Node \ {n} : age'[o] = age[o] /\ list'[o] = list[o]
    BY <1>3 DEF LoadCluster, fsVars
  <2>2. CASE n \in dcs /\ Leader(n) \in {n, None}
    <3>1. list'[n] = failkey /\ UNCHANGED <<pg, hw>>
      BY <1>3, <2>2 DEF LoadCluster, pgVars
    <3>2. \/ pc'[n] = "mine"
          \/ pc'[n] = "race" /\ Leader(n) = None
      BY <1>3, <2>2 DEF LoadCluster, Goto
    <3>3. \A o \in Node \ {n} : pc'[o] = pc[o]
      BY <1>3, <2>2 DEF LoadCluster, Goto
    <3>4. Leader(n) = None => key.owner = None /\ (left[n] = 0 \/ boss[n] = None)
      BY DEF Leader
    <3>5. QED
      BY <2>1, <3>1, <3>2, <3>3, <3>4, Moves
  <2>3. CASE n \in dcs /\ Leader(n) \notin {n, None}
    <3>1. WithoutLock(n)
      BY <1>3, <2>3 DEF LoadCluster
    <3>2. QED
      BY <2>1, <3>1, WithoutLockEffect, Retreat
  <2>4. CASE n \notin dcs
    <3>1. pc'[n] = "error" /\ UNCHANGED <<list, pg, hw>> /\ \A o \in Node \ {n} : pc'[o] = pc[o]
      BY <1>3, <2>4 DEF LoadCluster, Goto, pgVars
    <3>2. QED
      BY <2>1, <3>1, Moves
  <2>5. QED
    BY <2>2, <2>3, <2>4
<1>4. ASSUME NEW n \in Node, UpdateLock(n) PROVE Guarded'
  <2>1. /\ UNCHANGED <<failkey, list, asked, accepted, left, boss>> /\ pc[n] = "mine" /\ age'[n] = 0
        /\ \A o \in Node \ {n} : age'[o] = age[o] /\ list'[o] = list[o]
    BY <1>4 DEF UpdateLock, fsVars
  <2>2. CASE n \notin dcs
    <3>1. pc'[n] = "error" /\ UNCHANGED <<key, pg, hw>> /\ \A o \in Node \ {n} : pc'[o] = pc[o]
      BY <1>4, <2>2 DEF UpdateLock, Goto, pgVars
    <3>2. QED
      BY <2>1, <3>1, Moves
  <2>3. CASE n \in dcs /\ key.owner = n
    <3>1. pc'[n] = "updated" /\ UNCHANGED <<pg, hw>> /\ \A o \in Node \ {n} : pc'[o] = pc[o]
      BY <1>4, <2>3 DEF UpdateLock, Goto, pgVars
    <3>2. key'.owner = n /\ key'.ttl = TTL
      BY <1>4, <2>3 DEF UpdateLock, TypeOK
    <3>3. QED
      BY <2>1, <2>3, <3>1, <3>2, Granted
  <2>4. CASE n \in dcs /\ key.owner # n
    <3>1. WithoutLock(n) /\ UNCHANGED key
      BY <1>4, <2>4 DEF UpdateLock
    <3>2. QED
      BY <2>1, <3>1, WithoutLockEffect, Retreat
  <2>5. QED
    BY <2>2, <2>3, <2>4
<1>5. ASSUME NEW n \in Node, WriteList(n) PROVE Guarded'
  <2> DEFINE wanted == seen[n] \cup {n}
  <2>1. /\ UNCHANGED <<key, asked, accepted, age, left, boss, pg, hw>> /\ pc[n] = "updated" /\ pc'[n] = "keepalive"
        /\ \A o \in Node \ {n} : pc'[o] = pc[o]
    BY <1>5 DEF WriteList, Goto, fsVars, pgVars
  <2>2. wanted # {} /\ wanted # NoList /\ Knows(n) /\ failkey # {}
    BY <2>1, ConstantsAssumption DEF TypeOK, Guarded, PrimaryKnowsList, ListNotEmpty
  <2>3. \A o \in Node \ {n} : list'[o] = list[o]
    BY <1>5 DEF WriteList, WriteFailsafe
  <2>4. failkey' # {} /\ Knows(n)'
    <3>1. \/ UNCHANGED <<failkey, list>>
          \/ failkey' = wanted /\ list'[n] = wanted
          \/ failkey' = wanted /\ list' = list /\ (list[n] = NoList \/ wanted \subseteq list[n])
      BY <1>5 DEF WriteList, WriteFailsafe, Fault, TimelyGuards
    <3> HIDE DEF wanted
    <3>2. QED
      BY <2>2, <3>1 DEF Knows
  <2>5. QED
    BY <2>1, <2>3, <2>4, Listed
<1>6. ASSUME NEW n \in Node, Keepalive(n) PROVE Guarded'
  <2>1. /\ UNCHANGED <<key, failkey, list, asked, accepted, age>>
        /\ pc[n] = "keepalive" /\ pc'[n] = "idle" /\ hw'[n] = WatchdogTimeout /\ left'[n] = 0 /\ boss'[n] = None
    BY <1>6 DEF Keepalive, Goto, ResetFailsafe, TypeOK
  <2>2. \A o \in Node \ {n} : pc'[o] = pc[o] /\ pg'[o] = pg[o] /\ hw'[o] = hw[o] /\ left'[o] = left[o] /\ boss'[o] = boss[o]
    BY <1>6 DEF Keepalive, Goto, ResetFailsafe, TypeOK
  <2>3. QED
    BY <2>1, <2>2, Fed
<1>7. ASSUME NEW n \in Node, Promoted(n) PROVE Guarded'
  BY <1>7, RoleSet DEF Promoted, loopVars, fsVars
<1>8. ASSUME NEW n \in Node, AcquireLock(n) PROVE Guarded'
  <2>1. /\ UNCHANGED <<failkey, list, asked, accepted, left, boss>> /\ pc[n] = "race" /\ age'[n] = 0
        /\ pg[n] = "primary" \/ MayRace(n)
        /\ \A o \in Node \ {n} : age'[o] = age[o] /\ list'[o] = list[o]
    BY <1>8 DEF AcquireLock, IsHealthiest, fsVars
  <2>2. CASE n \notin dcs
    <3>1. pc'[n] = "error" /\ UNCHANGED <<key, pg, hw>> /\ \A o \in Node \ {n} : pc'[o] = pc[o]
      BY <1>8, <2>2 DEF AcquireLock, Goto, pgVars
    <3>2. QED
      BY <2>1, <3>1, Moves
  <2>3. CASE n \in dcs /\ key.owner = None
    <3>1. pc'[n] = "acquired" /\ UNCHANGED <<pg, hw>> /\ \A o \in Node \ {n} : pc'[o] = pc[o]
      BY <1>8, <2>3 DEF AcquireLock, Goto, pgVars
    <3>2. key'.owner = n /\ key'.ttl = TTL
      BY <1>8, <2>3 DEF AcquireLock
    <3>3. QED
      BY <2>1, <2>3, <3>1, <3>2, Granted
  <2>4. CASE n \in dcs /\ key.owner # None
    <3>1. WithoutLock(n) /\ UNCHANGED key
      BY <1>8, <2>4 DEF AcquireLock
    <3>2. QED
      BY <2>1, <3>1, WithoutLockEffect, Retreat
  <2>5. QED
    BY <2>2, <2>3, <2>4
<1>9. ASSUME NEW n \in Node, Reload(n) PROVE Guarded'
  <2>1. /\ UNCHANGED <<key, failkey, asked, accepted, age, left, boss, pg, hw>> /\ pc[n] = "acquired"
        /\ \A o \in Node \ {n} : pc'[o] = pc[o] /\ list'[o] = list[o]
        /\ \/ pc'[n] = "keepalive" /\ list'[n] = failkey
           \/ pc'[n] = "error" /\ list'[n] = list[n]
    BY <1>9 DEF Reload, Goto, fsVars, pgVars
  <2>2. QED
    BY <2>1, Reloaded, Moves
<1>10. ASSUME NEW n \in Node, NotHealthiest(n) PROVE Guarded'
  <2>1. UNCHANGED <<key, failkey, asked, accepted, age, left, boss, list>> /\ WithoutLock(n)
    BY <1>10 DEF NotHealthiest, fsVars
  <2>2. QED
    BY <2>1, WithoutLockEffect, Retreat
<1>11. ASSUME NEW n \in Node, HandleDcsError(n) PROVE Guarded'
  <2>1. UNCHANGED <<key, failkey, list>> /\ pc[n] = "error" /\ \A o \in Node \ {n} : pc'[o] = pc[o]
    BY <1>11 DEF HandleDcsError, Goto
  <2>2. CASE pc'[n] = "ask"
    <3>1. /\ Writes(n) /\ list[n] # NoList /\ n \in list[n] /\ UNCHANGED <<left, boss, pg, hw>>
          /\ asked'[n] = list[n] \ {n} /\ age'[n] = 0
          /\ \A o \in Node \ {n} : asked'[o] = asked[o] /\ age'[o] = age[o] /\ accepted'[o] = accepted[o]
      BY <1>11, <2>2 DEF HandleDcsError, IsPrimary, Goto, Writes, Writable, fsVars, pgVars
    <3>2. QED
      BY <2>1, <2>2, <3>1, Turns
  <2>3. CASE pc'[n] # "ask"
    <3>1. pc'[n] = "idle" /\ UNCHANGED <<asked, accepted, age>>
      BY <1>11, <2>3 DEF HandleDcsError, Goto
    <3>2. \/ UNCHANGED <<left, boss, pg, hw>>
          \/ Writes(n) /\ Demote(n) /\ ResetFailsafe(n)
      BY <1>11, <2>3 DEF HandleDcsError, IsPrimary, Goto, Writes, Writable, fsVars, pgVars
    <3>3. CASE UNCHANGED <<left, boss, pg, hw>>
      <4>1. Writes(n)' => Writes(n)
        BY <3>3 DEF Writes
      <4>2. QED
        BY <2>1, <3>1, <3>3, <4>1, Retreat
    <3>4. CASE Writes(n) /\ Demote(n) /\ ResetFailsafe(n)
      <4>1. /\ ~Writes(n)' /\ pg[n] # "off" /\ left'[n] = 0 /\ boss'[n] = None
            /\ \A o \in Node \ {n} : pg'[o] = pg[o] /\ hw'[o] = hw[o] /\ left'[o] = left[o] /\ boss'[o] = boss[o]
        BY <3>4 DEF Demote, ResetFailsafe, Writes, Writable
      <4>2. QED
        BY <2>1, <3>1, <3>4, <4>1, Retreat
    <3>5. QED
      BY <3>2, <3>3, <3>4
  <2>4. QED
    BY <2>2, <2>3
<1>12. ASSUME NEW n \in Node, Conclude(n) PROVE Guarded'
  <2>1. /\ UNCHANGED <<key, failkey, list, asked, accepted, age>> /\ pc[n] = "ask" /\ asked[n] = {} /\ pc'[n] = "idle"
        /\ \A o \in Node \ {n} : pc'[o] = pc[o]
    BY <1>12 DEF Conclude, Goto
  <2>2. CASE accepted[n]
    <3>1. left'[n] = TTL /\ hw'[n] = WatchdogTimeout /\ UNCHANGED <<boss, pg>>
          /\ \A o \in Node \ {n} : hw'[o] = hw[o] /\ left'[o] = left[o]
      BY <1>12, <2>2 DEF Conclude
    <3>2. QED
      BY <2>1, <2>2, <3>1, Concludes
  <2>3. CASE ~accepted[n]
    <3>1. /\ ~Writes(n)' /\ pg[n] # "off" /\ Writes(n) /\ left'[n] = 0 /\ boss'[n] = None
          /\ \A o \in Node \ {n} : pg'[o] = pg[o] /\ hw'[o] = hw[o] /\ left'[o] = left[o] /\ boss'[o] = boss[o]
      BY <1>12, <2>1, <2>3 DEF Conclude, Demote, ResetFailsafe, Guarded, Asking, Writes, Writable
    <3>2. QED
      BY <2>1, <3>1, Retreat
  <2>4. QED
    BY <2>2, <2>3
<1>13. ASSUME NEW n \in Node, NEW m \in Node, Ask(n, m) PROVE Guarded'
  <2>1. /\ UNCHANGED <<key, failkey, pc, list, age, pg, hw>>
        /\ pc[n] = "ask" /\ m \in asked[n] /\ asked' = [asked EXCEPT ![n] = @ \ {m}]
    BY <1>13 DEF Ask, pgVars
  <2>2. /\ \/ accepted' = accepted
           \/ ~accepted'[n]
        /\ \A o \in Node \ {n} : accepted'[o] = accepted[o]
    BY <1>13 DEF Ask
  <2>3. /\ \/ left'[m] = TTL /\ boss'[m] = n
           \/ left'[m] = left[m] /\ boss'[m] = boss[m] /\ ~accepted'[n]
        /\ \A o \in Node \ {m} : left'[o] = left[o] /\ boss'[o] = boss[o]
    BY <1>13 DEF Ask, UpdateFailsafe, fsVars
  <2>4. QED
    BY <2>1, <2>2, <2>3, Asks
<1>14. ASSUME NEW n \in Node, MemberKeyExpires(n) \/ LoseDcs(n) \/ RegainDcs(n) PROVE Guarded'
  BY <1>14, GuardedStutter DEF MemberKeyExpires, LoseDcs, RegainDcs, Seen, loopVars, fsVars, pgVars
<1>15. ASSUME NEW n \in Node, WatchdogFires(n) PROVE Guarded'
  <2>1. /\ UNCHANGED <<key, failkey, list, asked, accepted, age>> /\ pc'[n] = "idle" /\ pg'[n] = "off" /\ ~Writes(n)'
        /\ left'[n] = 0 /\ boss'[n] = None
    BY <1>15 DEF WatchdogFires, ResetFailsafe, Writes, Writable
  <2>2. \A o \in Node \ {n} : pc'[o] = pc[o] /\ pg'[o] = pg[o] /\ hw'[o] = hw[o] /\ left'[o] = left[o] /\ boss'[o] = boss[o]
    BY <1>15 DEF WatchdogFires, ResetFailsafe
  <2>3. QED
    BY <2>1, <2>2, Retreat
<1>16. ASSUME NEW n \in Node, Restart(n) PROVE Guarded'
  <2>1. /\ UNCHANGED <<key, failkey, asked, accepted, age, pg, hw>> /\ pc'[n] = "idle" /\ list'[n] = {}
        /\ left'[n] = 0 /\ boss'[n] = None
        /\ \A o \in Node \ {n} : pc'[o] = pc[o] /\ list'[o] = list[o] /\ left'[o] = left[o] /\ boss'[o] = boss[o]
    BY <1>16 DEF Restart, Goto, ResetFailsafe, pgVars
  <2>2. left[n] = 0 \/ boss[n] = None
    BY <1>16 DEF Restart, Fault, TimelyGuards
  <2>3. Writes(n)' => Writes(n)
    BY <2>1 DEF Writes
  <2>4. QED
    BY <2>1, <2>2, <2>3, Retreat
<1>17. ASSUME NEW p \in Pairs, Partition(p) \/ Heal(p) PROVE Guarded'
  BY <1>17, GuardedStutter DEF Partition, Heal, Seen, loopVars, fsVars, pgVars
<1>18. CASE UNCHANGED vars
  BY <1>18, GuardedStutter DEF vars, Seen, loopVars, fsVars, pgVars
<1>19. QED
  BY <1>1, <1>2, <1>3, <1>4, <1>5, <1>6, <1>7, <1>8, <1>9, <1>10, <1>11, <1>12, <1>13, <1>14, <1>15, <1>16, <1>17,
     <1>18 DEF Next, Cycle

LEMMA FsInit == ASSUME TimelyGuards, Init PROVE FsInv
<1> USE ConstantsAssumption
<1>1. WdOff \in 0..WdOff /\ WatchdogTimeout \in 0..WdOff /\ TTL \in 0..TTL /\ 0 \in 0..(ReplyDelay + RaceDelay) /\ 0 \in 0..TTL
  BY DEF WdOff
<1>2. First \in Node /\ {} \in Lists /\ NoList \in Lists
  BY DEF Lists
<1>3. TypeOK
  <2>1. pg \in [Node -> {"replica", "off"} \cup Writable] /\ hw \in [Node -> 0..WdOff]
    BY <1>1 DEF Init, Writable
  <2>2. key \in [owner : Node \cup {None}, ttl : 0..TTL] /\ failkey \in Lists /\ list \in [Node -> Lists]
    BY <1>1, <1>2 DEF Init
  <2>3. QED
    BY <1>1, <2>1, <2>2 DEF Init, TypeOK
<1>4. \A n \in Node : (Writes(n) => n = First) /\ pc[n] = "idle" /\ boss[n] = None /\ list[n] = {} /\ age[n] = 0
  BY DEF Init, Writes, Writable
<1>5. key.owner = First /\ key.ttl = TTL /\ hw[First] = WatchdogTimeout /\ failkey # {} /\ WatchdogTimeout < TTL
  BY <1>2 DEF Init, TimelyGuards
<1>6. AgeBounded /\ ChargeHasKey /\ RaceBeforeExpiry /\ ListNotEmpty /\ NotOwnBoss
  BY <1>4, <1>5 DEF AgeBounded, ChargeHasKey, RaceBeforeExpiry, Waiting, InCharge, ListNotEmpty, NotOwnBoss
<1>7. WritesArmed /\ OwnerWrites /\ PrimaryKnowsList /\ OnePrimary
  BY <1>4, <1>5 DEF WritesArmed, OwnerWrites, PrimaryKnowsList, Knows, OnePrimary, Writes
<1>8. AllKept /\ RaceLost /\ Asking
  BY <1>4, <1>5 DEF AllKept, Kept, RaceLost, Asking
<1>9. QED
  BY <1>3, <1>6, <1>7, <1>8 DEF FsInv, Guarded

(***************************************************************************)
(* With failsafe mode there are never two nodes that accept commits,       *)
(* whatever happens to the DCS, to the network and to the Patroni          *)
(* processes, for any number of members and any timeouts that satisfy      *)
(* TimelyGuards.                                                           *)
(***************************************************************************)
THEOREM OnePrimaryCorrect == ASSUME TimelyGuards PROVE Spec => []OnePrimary
<1>1. Init => FsInv
  BY FsInit
<1>2. FsInv /\ [Next]_vars => FsInv'
  BY FsTypeStep, GuardedStep DEF FsInv
<1>3. FsInv => OnePrimary
  BY DEF FsInv, Guarded
<1>4. QED
  BY <1>1, <1>2, <1>3, PTL DEF Spec

-----------------------------------------------------------------------------
\* A primary takes nobody for the leader, and a node in the race does not have the key.
OwnMaster ==
    /\ \A n \in Node : Writes(n) => boss[n] = None
    /\ \A n \in Node : pc[n] = "race" => key.owner # n

LEMMA OwnMasterStep == ASSUME TypeOK, Guarded, OwnMaster, [Next]_vars PROVE OwnMaster'
<1> USE FsTypes DEF OwnMaster
<1>1. CASE Tick \/ UNCHANGED vars \/ KeyExpires
  BY <1>1 DEF Tick, KeyExpires, vars, loopVars, fsVars, pgVars, Writes, TypeOK
<1>2. ASSUME NEW n \in Node, WithoutLock(n), UNCHANGED <<key, fsVars>> PROVE OwnMaster'
  BY <1>2, WithoutLockEffect DEF fsVars, Writes
<1>3. ASSUME NEW n \in Node, UNCHANGED <<fsVars, pgVars>>, NEW l, Goto(n, l),
             \A o \in Node : pc'[o] = "race" => key'.owner # o
      PROVE  OwnMaster'
  BY <1>3 DEF fsVars, pgVars, Writes
<1>4. ASSUME NEW n \in Node, LoadCluster(n) PROVE OwnMaster'
  <2>1. Leader(n) = None => key.owner = None
    BY DEF Leader
  <2>2. \/ WithoutLock(n) /\ UNCHANGED <<key, fsVars>>
        \/ UNCHANGED <<key, fsVars, pgVars>> /\ (Goto(n, "mine") \/ Goto(n, "error"))
        \/ UNCHANGED <<key, fsVars, pgVars>> /\ Goto(n, "race") /\ key.owner = None
    BY <1>4, <2>1 DEF LoadCluster
  <2>3. QED
    BY <1>2, <1>3, <2>2 DEF Goto
<1>5. ASSUME NEW n \in Node, UpdateLock(n) PROVE OwnMaster'
  <2>1. \/ WithoutLock(n) /\ UNCHANGED <<key, fsVars>>
        \/ /\ UNCHANGED <<fsVars, pgVars>> /\ key'.owner = key.owner
           /\ Goto(n, "updated") \/ Goto(n, "error")
    BY <1>5 DEF UpdateLock, TypeOK
  <2>2. QED
    BY <1>2, <1>3, <2>1 DEF Goto
<1>6. ASSUME NEW n \in Node, WriteList(n) \/ Reload(n) PROVE OwnMaster'
  <2>1. UNCHANGED <<key, fsVars, pgVars>> /\ (Goto(n, "keepalive") \/ Goto(n, "error"))
    BY <1>6 DEF WriteList, Reload
  <2>2. QED
    BY <1>3, <2>1 DEF Goto
<1>7. ASSUME NEW n \in Node, Keepalive(n) PROVE OwnMaster'
  BY <1>7 DEF Keepalive, Goto, ResetFailsafe, Writes
<1>8. ASSUME NEW n \in Node, Promoted(n) PROVE OwnMaster'
  BY <1>8 DEF Promoted, loopVars, fsVars, Writes, Writable
<1>9. ASSUME NEW n \in Node, AcquireLock(n) PROVE OwnMaster'
  <2>1. \/ WithoutLock(n) /\ UNCHANGED <<key, fsVars>>
        \/ UNCHANGED <<key, fsVars, pgVars>> /\ Goto(n, "error")
        \/ UNCHANGED <<fsVars, pgVars>> /\ Goto(n, "acquired") /\ key'.owner = n
    BY <1>9 DEF AcquireLock
  <2>2. QED
    BY <1>2, <1>3, <2>1 DEF Goto
<1>10. ASSUME NEW n \in Node, NotHealthiest(n) PROVE OwnMaster'
  BY <1>2, <1>10 DEF NotHealthiest
<1>11. ASSUME NEW n \in Node, HandleDcsError(n) \/ Conclude(n) \/ WatchdogFires(n) \/ Restart(n) PROVE OwnMaster'
  <2>1. key' = key /\ pc'[n] # "race" /\ \A o \in Node \ {n} : pc'[o] = pc[o]
    BY <1>11 DEF HandleDcsError, Conclude, WatchdogFires, Restart, Goto
  <2>2. \A o \in Node : Writes(o)' => Writes(o)
    BY <1>11 DEF HandleDcsError, Conclude, WatchdogFires, Restart, Demote, pgVars, Writes, Writable
  <2>3. \A o \in Node : boss'[o] \in {boss[o], None}
    BY <1>11 DEF HandleDcsError, Conclude, WatchdogFires, Restart, ResetFailsafe, fsVars
  <2>4. QED
    BY <2>1, <2>2, <2>3
<1>12. ASSUME NEW n \in Node, NEW m \in Node, Ask(n, m) PROVE OwnMaster'
  <2>1. UNCHANGED <<key, pc, pgVars>> /\ \A o \in Node \ {m} : boss'[o] = boss[o]
    BY <1>12 DEF Ask, UpdateFailsafe, fsVars
  <2>2. ~Writes(m)
    BY <1>12 DEF Ask, Guarded, Asking, OnePrimary, Writes
  <2>3. QED
    BY <2>1, <2>2 DEF pgVars, Writes
<1>13. ASSUME NEW n \in Node, MemberKeyExpires(n) \/ LoseDcs(n) \/ RegainDcs(n) PROVE OwnMaster'
  BY <1>13 DEF MemberKeyExpires, LoseDcs, RegainDcs, loopVars, fsVars, pgVars, Writes
<1>14. ASSUME NEW p \in Pairs, Partition(p) \/ Heal(p) PROVE OwnMaster'
  BY <1>14 DEF Partition, Heal, loopVars, fsVars, pgVars, Writes
<1>15. QED
  BY <1>1, <1>4, <1>5, <1>6, <1>7, <1>8, <1>9, <1>10, <1>11, <1>12, <1>13, <1>14 DEF Next, Cycle

\* What one step may do to a primary that is in a cycle with the DCS.
DemotionStep ==
    \A n \in Node : pg[n] = "primary" /\ pg'[n] = "replica" /\ pc[n] \in {"idle", "race"} => key.owner \notin {n, None}

LEMMA DemotionStepHolds == ASSUME TypeOK, OwnMaster, [Next]_vars PROVE DemotionStep
<1> SUFFICES ASSUME NEW n \in Node, pg[n] = "primary", pg'[n] = "replica", pc[n] \in {"idle", "race"}
             PROVE  key.owner \notin {n, None}
  BY DEF DemotionStep
<1> USE FsTypes
<1>1. boss[n] = None /\ (pc[n] = "race" => key.owner # n)
  BY DEF OwnMaster, Writes, Writable
<1>2. \/ LoadCluster(n)
      \/ AcquireLock(n)
  <2>1. ASSUME NEW o \in Node, o # n, Cycle(o) \/ WatchdogFires(o) PROVE pg'[n] = pg[n]
    <3>1. WithoutLock(o) => pg'[n] = pg[n]
      BY <2>1 DEF WithoutLock, Demote, pgVars
    <3>2. QED
      BY <2>1, <3>1 DEF Cycle, LoadCluster, UpdateLock, WriteList, Keepalive, Promoted, AcquireLock, Reload, NotHealthiest,
                        HandleDcsError, Conclude, Ask, WatchdogFires, Demote, pgVars
  <2>2. ASSUME NEW o \in Node, MemberKeyExpires(o) \/ LoseDcs(o) \/ RegainDcs(o) \/ Restart(o) PROVE pg' = pg
    BY <2>2 DEF MemberKeyExpires, LoseDcs, RegainDcs, Restart, pgVars
  <2>3. ASSUME NEW p \in Pairs, Partition(p) \/ Heal(p) PROVE pg' = pg
    BY <2>3 DEF Partition, Heal, pgVars
  <2>4. ASSUME Tick \/ KeyExpires \/ UNCHANGED vars PROVE pg' = pg
    BY <2>4 DEF Tick, KeyExpires, vars, pgVars
  <2>5. ~WatchdogFires(n)
    BY DEF WatchdogFires
  <2>6. Cycle(n) => LoadCluster(n) \/ AcquireLock(n)
    BY DEF Cycle, UpdateLock, WriteList, Keepalive, Promoted, Reload, NotHealthiest, HandleDcsError, Conclude, Ask, pgVars
  <2>7. QED
    BY <2>1, <2>2, <2>3, <2>4, <2>5, <2>6 DEF Next
<1>3. CASE LoadCluster(n)
  <2>1. Leader(n) \notin {n, None}
    BY <1>3 DEF LoadCluster, pgVars
  <2>2. QED
    BY <1>1, <2>1 DEF Leader
<1>4. CASE AcquireLock(n)
  BY <1>1, <1>4 DEF AcquireLock, pgVars
<1>5. QED
  BY <1>2, <1>3, <1>4

(***************************************************************************)
(* A cycle that reaches the DCS demotes a primary only because somebody    *)
(* else has the key: neither an accepted failsafe request nor its own      *)
(* failsafe state costs a primary its place when the DCS is back.          *)
(***************************************************************************)
THEOREM DemotedForAnotherCorrect == ASSUME TimelyGuards PROVE Spec => DemotedForAnother
<1>1. Init => FsInv /\ OwnMaster
  <2>1. Init => OwnMaster
    BY DEF Init, OwnMaster
  <2>2. QED
    BY <2>1, FsInit
<1>2. FsInv /\ OwnMaster /\ [Next]_vars => FsInv' /\ OwnMaster'
  BY FsTypeStep, GuardedStep, OwnMasterStep DEF FsInv
<1>3. FsInv /\ OwnMaster /\ [Next]_vars => [DemotionStep]_vars
  BY DemotionStepHolds DEF FsInv
<1>4. QED
  BY <1>1, <1>2, <1>3, PTL DEF Spec, DemotedForAnother, DemotionStep

-----------------------------------------------------------------------------
(***************************************************************************)
(* The health checks of the REST API.                                      *)
(***************************************************************************)
HcTypes ==
    /\ hcNow \in Nat /\ hcHeld \in Nat /\ hcExpiry \in Nat /\ hcSince \in Nat /\ hcNextRun \in Nat
    /\ hcStuck \in Nat \cup {-1}
    /\ hcAt \in {"wait", "load", "asked", "stored", "demote"}

\* A cycle begins when it is due; one that hangs has begun before.
CycleIsDue ==
    /\ hcAt # "wait" => hcNextRun <= hcNow
    /\ hcStuck # -1 => hcAt # "wait" /\ hcNextRun <= hcStuck

(***************************************************************************)
(* A loop that goes on waits for the DCS at most twice for retry_timeout,  *)
(* for the view and for the key, and begins when it is due.                *)
(***************************************************************************)
Calls == {"load", "asked", "stored"}
InTime ==
    /\ hcAt \in Calls => hcSince <= hcNow
    /\ hcStuck = -1 => /\ hcAt = "wait" => hcNow <= hcNextRun
                       /\ hcAt \in Calls => hcNow <= hcSince + HcRetry
                       /\ hcAt = "load" => hcSince <= hcNextRun
                       /\ hcAt \in {"asked", "stored"} => hcSince <= hcNextRun + HcRetry
                       /\ hcAt = "demote" => hcNow <= hcNextRun + 2 * HcRetry

\* What the node takes for its lock outlives the key by the time the answer took at most.
LeaseBounded ==
    /\ hcHeld <= hcNow + HcTtl
    /\ hcExpiry <= hcHeld + HcRetry
    /\ hcAt = "stored" => hcSince + HcTtl <= hcHeld

HcInv == HcTypes /\ CycleIsDue /\ InTime /\ LeaseBounded

LEMMA HcInvStep == HcInv /\ [HcNext]_hcVars => HcInv'
<1> SUFFICES ASSUME HcInv, [HcNext]_hcVars PROVE HcInv'
  OBVIOUS
<1> USE HealthAssumption DEF HcInv, HcTypes, CycleIsDue, InTime, LeaseBounded, Calls
<1>1. NextRun \in Nat /\ NextRun >= hcNow
  BY DEF NextRun
<1>2. CASE HcCycle
  BY <1>2 DEF HcCycle, HcRuns, hcDcs, hcMind
<1>3. CASE HcWakes
  BY <1>3 DEF HcWakes, HcRuns, hcDcs, hcMind
<1>4. CASE HcLoads
  <2>1. hcStuck = -1 /\ hcAt = "load" /\ UNCHANGED <<hcNow, hcHeld, hcStuck>> /\ hcExpiry' \in {hcExpiry, 0}
    BY <1>4 DEF HcLoads, HcRuns, hcDcs
  <2>2. \/ hcAt' = "wait" /\ hcNextRun' = NextRun /\ UNCHANGED hcSince
        \/ hcAt' = "demote" /\ UNCHANGED <<hcSince, hcNextRun>>
        \/ hcAt' = "asked" /\ hcSince' = hcNow /\ UNCHANGED hcNextRun
    BY <1>4 DEF HcLoads, HcEnds
  <2>3. QED
    BY <1>1, <2>1, <2>2
<1>5. CASE HcHolds
  <2>1. hcStuck = -1 /\ hcAt = "stored" /\ UNCHANGED <<hcNow, hcHeld, hcStuck, hcSince>> /\ hcExpiry' = hcNow + HcTtl
        /\ hcAt' = "wait" /\ hcNextRun' = NextRun
    BY <1>5 DEF HcHolds, HcRuns, HcEnds, Lease, hcDcs
  <2>2. QED
    BY <1>1, <2>1
<1>6. CASE HcRefused \/ HcDemotes
  <2>1. hcStuck = -1 /\ hcAt \in {"asked", "demote"} /\ UNCHANGED <<hcNow, hcHeld, hcStuck, hcSince>> /\ hcExpiry' = 0
    BY <1>6 DEF HcRefused, HcDemotes, HcRuns, HcEnds, hcDcs
  <2>2. \/ hcAt' = "wait" /\ hcNextRun' = NextRun
        \/ hcAt = "asked" /\ hcAt' = "demote" /\ UNCHANGED hcNextRun
    BY <1>6 DEF HcRefused, HcDemotes, HcRuns, HcEnds
  <2>3. QED
    BY <1>1, <2>1, <2>2
<1>7. CASE HcDcsError
  <2>1. hcStuck = -1 /\ hcAt \in Calls /\ UNCHANGED <<hcNow, hcHeld, hcExpiry, hcStuck, hcSince>>
    BY <1>7 DEF HcDcsError, HcEnds, hcDcs
  <2>2. \/ hcAt' = "wait" /\ hcNextRun' = NextRun
        \/ hcAt' = "demote" /\ UNCHANGED hcNextRun
    BY <1>7 DEF HcDcsError, HcEnds
  <2>3. QED
    BY <1>1, <2>1, <2>2
<1>8. CASE HcHangs
  BY <1>8 DEF HcHangs, hcDcs, hcMind
<1>9. CASE HcStores
  BY <1>9 DEF HcStores, hcMind
<1>10. CASE HcAsks \/ HcAnswers \/ UNCHANGED hcVars
  BY <1>10 DEF HcAsks, HcAnswers, hcVars, hcDcs, hcMind
<1>11. CASE HcTick
  BY <1>11 DEF HcTick, hcDcs, hcMind
<1>12. CASE HcOtherTakes \/ HcOtherReleases \/ HcPauses
  BY <1>12 DEF HcOtherTakes, HcOtherReleases, HcPauses, hcMind
<1>13. QED
  BY <1>2, <1>3, <1>4, <1>5, <1>6, <1>7, <1>8, <1>9, <1>10, <1>11, <1>12 DEF HcNext

LEMMA HcInvCorrect == HcSpec => []HcInv
<1>1. HcInit => HcInv
  BY HealthAssumption DEF HcInit, HcInv, HcTypes, CycleIsDue, InTime, LeaseBounded, Calls
<1>2. QED
  BY <1>1, HcInvStep, PTL DEF HcSpec

(***************************************************************************)
(* GET /liveness fails when the HA loop has hung for twice the ttl, unless *)
(* the cluster is paused, for any ttl, loop_wait and retry_timeout that    *)
(* the configuration accepts.                                              *)
(***************************************************************************)
THEOREM StuckReportedCorrect == HcSpec => []StuckReported
<1>1. HcInv => StuckReported
  <2> SUFFICES ASSUME HcInv, hcStuck # -1, ~hcSeen, hcNow >= hcStuck + 2 * HcTtl PROVE ~Liveness
    BY DEF StuckReported
  <2>1. hcNextRun + 2 * HcTtl <= hcNow /\ hcNextRun + 1 * HcTtl <= hcNow
    BY HealthAssumption DEF HcInv, HcTypes, CycleIsDue
  <2>2. CASE hcRole = "primary"
    BY <2>1, <2>2, HealthAssumption DEF Liveness, HcInv, HcTypes
  <2>3. CASE hcRole # "primary"
    BY <2>1, <2>3, HealthAssumption DEF Liveness, HcInv, HcTypes
  <2>4. QED
    BY <2>2, <2>3
<1>2. QED
  BY <1>1, HcInvCorrect, PTL

(***************************************************************************)
(* GET /liveness does not fail while the HA loop goes on, however long     *)
(* within retry_timeout each call to the DCS takes.                        *)
(***************************************************************************)
THEOREM NoFalseAlarmCorrect == HcSpec => []NoFalseAlarm
<1>1. HcInv => NoFalseAlarm
  <2> SUFFICES ASSUME HcInv, hcStuck = -1 PROVE Liveness
    BY DEF NoFalseAlarm
  <2>1. hcNow <= hcNextRun + 2 * HcRetry
    BY HealthAssumption DEF HcInv, HcTypes, InTime, Calls
  <2>2. hcNextRun + 1 * HcTtl > hcNow /\ hcNextRun + 2 * HcTtl > hcNow
    BY <2>1, HealthAssumption DEF HcInv, HcTypes
  <2>3. CASE hcRole = "primary"
    BY <2>2, <2>3, HealthAssumption DEF Liveness, HcInv, HcTypes
  <2>4. CASE hcRole # "primary"
    BY <2>2, <2>4, HealthAssumption DEF Liveness, HcInv, HcTypes
  <2>5. QED
    BY <2>3, <2>4
<1>2. QED
  BY <1>1, HcInvCorrect, PTL

(***************************************************************************)
(* GET /primary returns 200 at most retry_timeout after the key of this    *)
(* node expired, even when the HA loop hangs, unless the cluster is paused *)
(* and the DCS is not accessible.                                          *)
(***************************************************************************)
THEOREM PrimaryAnswerBoundedCorrect == HcSpec => PrimaryAnswerBounded
<1> DEFINE Bounded == Answered /\ hcAnswer'.primary /\ ~(hcGet.pause /\ hcValid <= hcNow) => hcNow < hcHeld + HcRetry
<1>1. HcInv /\ [HcNext]_hcVars => [Bounded]_hcVars
  <2> SUFFICES ASSUME HcInv, HcNext, Answered, hcAnswer'.primary, ~(hcGet.pause /\ hcValid <= hcNow)
               PROVE  hcNow < hcHeld + HcRetry
    OBVIOUS
  <2>1. HcAnswers
    BY DEF Answered, HcNext, HcCycle, HcWakes, HcLoads, HcHolds, HcRefused, HcDcsError, HcDemotes, HcHangs, HcStores,
           HcAsks, HcTick, HcOtherTakes, HcOtherReleases, HcPauses, hcRest, NoGet
  <2>2. hcExpiry > hcNow
    BY <2>1 DEF HcAnswers, PrimaryStatus, IsLeader
  <2>3. QED
    BY <2>2, HealthAssumption DEF HcInv, HcTypes, LeaseBounded
<1>2. QED
  BY <1>1, HcInvCorrect, PTL DEF HcSpec, PrimaryAnswerBounded
=============================================================================
