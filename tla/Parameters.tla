----------------------------- MODULE Parameters -----------------------------
(***************************************************************************)
(* A parameter that needs a restart and that must not be smaller on a      *)
(* standby than on the primary (max_connections and others): from the      *)
(* dynamic configuration to the running servers, and the pending_restart   *)
(* flag (reload_config, effective_configuration and                        *)
(* load_current_server_parameters of patroni/postgresql/config.py; start   *)
(* and handle_parameter_change of patroni/postgresql/__init__.py).         *)
(*                                                                         *)
(* The main thread reloads the configuration while the asynchronous        *)
(* executor starts the server.  PostgreSQL 14 or later: a standby pauses   *)
(* its replay where the primary uses a greater value.                      *)
(***************************************************************************)
EXTENDS Integers, Sequences

CONSTANTS PrNodes,      \* two nodes
          PrFirst,      \* the first primary
          PrValues,     \* values of the parameter
          MaxPrEvents   \* bound: requests, crashes, switchovers

ASSUME ParametersAssumption == PrFirst \in PrNodes /\ PrValues \subseteq Nat \ {0} /\ MaxPrEvents \in Nat

VARIABLES prWant,     \* value in /config
          prVersion,  \* version of /config
          prSeen,     \* the version a node has applied
          prConf,     \* _server_parameters
          prFlag,     \* pending_restart_reason is not empty
          prRole,
          prState,    \* state of PostgreSQL as Patroni knows it
          prOpts,     \* the value a server is about to be started with, 0 if there is no start
          prRun,      \* the value a server runs with, 0 if there is no server
          prWal,      \* the values the primaries wrote to WAL
          prPos,      \* how many of them a node has replayed: the last one is in its pg_control
          prStuck,    \* replay is paused
          prEvents

prVars == <<prWant, prVersion, prSeen, prConf, prFlag, prRole, prState, prOpts, prRun, prWal, prPos, prStuck, prEvents>>
prConfig == <<prWant, prVersion>>
prServer == <<prRun, prWal, prPos, prStuck>>

PrInit ==
    \E v \in PrValues :
        /\ prWant = v /\ prVersion = 0
        /\ prSeen = [n \in PrNodes |-> 0] /\ prConf = [n \in PrNodes |-> v] /\ prFlag = [n \in PrNodes |-> FALSE]
        /\ prRole = [n \in PrNodes |-> IF n = PrFirst THEN "primary" ELSE "replica"]
        /\ prState = [n \in PrNodes |-> "running"] /\ prOpts = [n \in PrNodes |-> 0]
        /\ prRun = [n \in PrNodes |-> v] /\ prWal = <<v>> /\ prPos = [n \in PrNodes |-> 1]
        /\ prStuck = [n \in PrNodes |-> FALSE] /\ prEvents = 0

PrEvent == prEvents < MaxPrEvents /\ prEvents' = prEvents + 1
Control(n) == prWal[prPos[n]]

-----------------------------------------------------------------------------
(***************************************************************************)
(* Patroni.                                                                *)
(***************************************************************************)

\* reload_config.  The values are compared with those of the server if it runs; a query that fails ends the reload
\* with an exception, and it is not repeated.  If the server does not run there is nothing to compare with.
PrReload(n) ==
    /\ prSeen[n] # prVersion
    /\ prSeen' = [prSeen EXCEPT ![n] = prVersion]
    /\ IF prState[n] = "running" /\ prRun[n] = 0
       THEN UNCHANGED <<prConf, prFlag>>
       ELSE /\ prConf' = [prConf EXCEPT ![n] = prWant]
            /\ prFlag' = [prFlag EXCEPT ![n] = prState[n] = "running" /\ prRun[n] # prWant]
    /\ UNCHANGED <<prConfig, prServer, prRole, prState, prOpts, prEvents>>

\* The HA loop finds that the server is gone.
PrNotice(n) ==
    /\ prState[n] = "running" /\ prRun[n] = 0
    /\ prState' = [prState EXCEPT ![n] = "stopped"]
    /\ UNCHANGED <<prConfig, prServer, prSeen, prConf, prFlag, prRole, prOpts, prEvents>>

\* effective_configuration
PrEffective(n) == IF prRole[n] = "replica" /\ Control(n) > prConf[n] THEN Control(n) ELSE prConf[n]

\* start, up to the command line: the flag is reset, and set if the value of pg_control is used
PrStart(n) ==
    /\ prState[n] = "stopped"
    /\ prState' = [prState EXCEPT ![n] = "starting"]
    /\ prOpts' = [prOpts EXCEPT ![n] = PrEffective(n)]
    /\ prFlag' = [prFlag EXCEPT ![n] = PrEffective(n) # prConf[n]]
    /\ UNCHANGED <<prConfig, prServer, prSeen, prConf, prRole, prEvents>>

\* start: the postmaster.  A standby exits at once if the value is smaller than the one in pg_control.
PrSpawn(n) ==
    /\ prOpts[n] # 0
    /\ prOpts' = [prOpts EXCEPT ![n] = 0]
    /\ prRun' = [prRun EXCEPT ![n] = IF prRole[n] = "replica" /\ prOpts[n] < Control(n) THEN 0 ELSE prOpts[n]]
    /\ UNCHANGED <<prConfig, prSeen, prConf, prFlag, prRole, prState, prWal, prPos, prStuck, prEvents>>

\* A primary writes its value to WAL, if it differs from the one in pg_control, when it comes up or is promoted.
Reported(n) ==
    IF prRun[n] = Control(n)
    THEN UNCHANGED <<prWal, prPos>>
    ELSE prWal' = Append(prWal, prRun[n]) /\ prPos' = [prPos EXCEPT ![n] = Len(prWal) + 1]

\* check_startup_state_changed: the server accepts connections, or is gone
PrUp(n) ==
    /\ prState[n] = "starting" /\ prOpts[n] = 0
    /\ prState' = [prState EXCEPT ![n] = IF prRun[n] = 0 THEN "stopped" ELSE "running"]
    /\ IF prRun[n] # 0 /\ prRole[n] = "primary" THEN Reported(n) ELSE UNCHANGED <<prWal, prPos>>
    /\ UNCHANGED <<prConfig, prSeen, prConf, prFlag, prRole, prOpts, prRun, prStuck, prEvents>>

\* Altered form: only if the node waits for a restart.
PrResumeFlagged(n) ==
    /\ prState[n] = "running" /\ prStuck[n] /\ prFlag[n]
    /\ prRun' = [prRun EXCEPT ![n] = 0] /\ prStuck' = [prStuck EXCEPT ![n] = FALSE]
    /\ UNCHANGED <<prConfig, prSeen, prConf, prFlag, prRole, prState, prOpts, prWal, prPos, prEvents>>

\* handle_parameter_change: replay is resumed, and the standby shuts down because its value is too small
PrResume(n) ==
    /\ prState[n] = "running" /\ prStuck[n]
    /\ prRun' = [prRun EXCEPT ![n] = 0] /\ prStuck' = [prStuck EXCEPT ![n] = FALSE]
    /\ UNCHANGED <<prConfig, prSeen, prConf, prFlag, prRole, prState, prOpts, prWal, prPos, prEvents>>

\* POST /restart: the server is stopped; a start follows
PrRestart(n) ==
    /\ prState[n] = "running" /\ prRun[n] # 0
    /\ PrEvent
    /\ prState' = [prState EXCEPT ![n] = "stopped"]
    /\ prRun' = [prRun EXCEPT ![n] = 0] /\ prStuck' = [prStuck EXCEPT ![n] = FALSE]
    /\ UNCHANGED <<prConfig, prSeen, prConf, prFlag, prRole, prOpts, prWal, prPos>>

\* A switchover: the primary is stopped and becomes a standby, the other one has all its WAL.
PrSwitchover(p, n) ==
    /\ p # n /\ PrEvent
    /\ prRole[p] = "primary" /\ prRun[p] # 0 /\ prState[p] = "running"
    /\ prState[n] = "running" /\ prRun[n] # 0 /\ ~prStuck[n] /\ prPos[n] = Len(prWal)
    /\ prRole' = [prRole EXCEPT ![p] = "replica", ![n] = "primary"]
    /\ prState' = [prState EXCEPT ![p] = "stopped"] /\ prRun' = [prRun EXCEPT ![p] = 0]
    /\ Reported(n)
    /\ UNCHANGED <<prConfig, prSeen, prConf, prFlag, prOpts, prStuck>>

\* Patroni is restarted and the server goes on.  What the server runs with is taken for the configuration
\* (load_current_server_parameters); the configuration is applied at once on a primary only.
PrJoin(n) ==
    /\ PrEvent /\ prOpts[n] = 0
    /\ prSeen' = [prSeen EXCEPT ![n] = prVersion]
    /\ prConf' = [prConf EXCEPT ![n] = IF prRun[n] # 0 /\ prRole[n] = "replica" THEN prRun[n] ELSE prWant]
    /\ prFlag' = [prFlag EXCEPT ![n] = prRun[n] \notin {0, prWant} /\ prRole[n] = "primary"]
    /\ prState' = [prState EXCEPT ![n] = IF prRun[n] = 0 THEN "stopped" ELSE "running"]
    /\ IF prRun[n] # 0 /\ prRole[n] = "primary" THEN Reported(n) ELSE UNCHANGED <<prWal, prPos>>
    /\ UNCHANGED <<prConfig, prRole, prOpts, prRun, prStuck>>

-----------------------------------------------------------------------------
(***************************************************************************)
(* The operator, and PostgreSQL.                                           *)
(***************************************************************************)

\* PATCH /config
PrPatch(v) ==
    /\ v # prWant /\ PrEvent
    /\ prWant' = v /\ prVersion' = prVersion + 1
    /\ UNCHANGED <<prServer, prSeen, prConf, prFlag, prRole, prState, prOpts>>

PrCrash(n) ==
    /\ prRun[n] # 0 /\ PrEvent
    /\ prRun' = [prRun EXCEPT ![n] = 0] /\ prStuck' = [prStuck EXCEPT ![n] = FALSE]
    /\ UNCHANGED <<prConfig, prSeen, prConf, prFlag, prRole, prState, prOpts, prWal, prPos>>

\* A standby replays a change: pg_control is updated, then the value is compared.
PrReplay(n) ==
    /\ prRole[n] = "replica" /\ prRun[n] # 0 /\ ~prStuck[n] /\ prPos[n] < Len(prWal)
    /\ prPos' = [prPos EXCEPT ![n] = prPos[n] + 1]
    /\ prStuck' = [prStuck EXCEPT ![n] = prWal[prPos[n] + 1] > prRun[n]]
    /\ UNCHANGED <<prConfig, prSeen, prConf, prFlag, prRole, prState, prOpts, prRun, prWal, prEvents>>

-----------------------------------------------------------------------------
PrHa(n) == PrReload(n) \/ PrNotice(n) \/ PrResume(n) \/ PrUp(n)
PrJob(n) == PrStart(n) \/ PrSpawn(n)

PrNext ==
    \/ \E n \in PrNodes : PrHa(n) \/ PrJob(n) \/ PrRestart(n) \/ PrJoin(n) \/ PrCrash(n) \/ PrReplay(n)
    \/ \E p, n \in PrNodes : PrSwitchover(p, n)
    \/ \E v \in PrValues : PrPatch(v)

\* The HA loop and the executor go on, and so does the replay.
PrSpec ==
    /\ PrInit /\ [][PrNext]_prVars
    /\ \A n \in PrNodes : WF_prVars(PrHa(n)) /\ WF_prVars(PrJob(n)) /\ WF_prVars(PrReplay(n))

-----------------------------------------------------------------------------
\* Type invariant.
PrTypeOK ==
    /\ prWant \in PrValues /\ prConf \in [PrNodes -> PrValues]
    /\ prRun \in [PrNodes -> PrValues \union {0}] /\ prOpts \in [PrNodes -> PrValues \union {0}]
    /\ prFlag \in [PrNodes -> BOOLEAN] /\ prStuck \in [PrNodes -> BOOLEAN]
    /\ prState \in [PrNodes -> {"running", "starting", "stopped"}] /\ prRole \in [PrNodes -> {"primary", "replica"}]
    /\ prWal \in Seq(PrValues) /\ prPos \in [PrNodes -> 1..Len(prWal)]

\* A standby is never started with a value smaller than that of the primary whose WAL it has replayed
\* (effective_configuration), whatever was configured, replayed or switched before.
StandbyStarts == \A n \in PrNodes : prOpts[n] # 0 /\ prRole[n] = "replica" => prOpts[n] >= Control(n)

\* A node that shows pending_restart does run with another value than the configured one: a restart, a switchover or
\* a value that was changed back leave no flag behind.
FlagTrue ==
    \A n \in PrNodes : prFlag[n] /\ prState[n] = "running" /\ prRun[n] # 0 => prRun[n] # prConf[n]

\* A node that has applied the configuration and does not run with it shows pending_restart.
PendingShown ==
    \A n \in PrNodes :
        prSeen[n] = prVersion /\ prState[n] = "running" /\ prRun[n] \notin {0, prWant} => prFlag[n]

\* A change of the parameter on the primary stops no standby for good: it is started with a greater value
\* and replays everything.
ReplayGoesOn ==
    []<>(\A n \in PrNodes : prRole[n] = "replica" => prRun[n] # 0 /\ ~prStuck[n] /\ prPos[n] = Len(prWal))
=============================================================================
