---------------------------- MODULE MCProtection ----------------------------
(***************************************************************************)
(* What keeps a cluster from two primaries and its answers true: the       *)
(* watchdog, the failsafe mode, the health checks of the REST API, the     *)
(* leader key of etcd v3 and Kubernetes, the election of MySQL group       *)
(* replication, and the conversion of values.  All their properties are    *)
(* safety properties.  A behaviour is a behaviour of one of these modules, *)
(* chosen at the start; the others rest in one initial state.              *)
(***************************************************************************)
EXTENDS Watchdog, Failsafe, HealthChecks, Etcd3, Kubernetes, GroupReplication, Values

CONSTANTS x, y

\* ttl of 5 and 6 with a safety margin, loop_wait 2: the timeouts always fit.
MCDevices == {x, y}
Watch(mode, timeout, device) == [mode |-> mode, timeout |-> timeout, loopWait |-> 2, device |-> device]
MCConfigs == {Watch("off", 3, x), Watch("automatic", 3, x), Watch("required", 3, x), Watch("required", 4, x),
              Watch("required", 4, y), Watch("automatic", 4, y)}

\* Units of memory and time with smaller ratios, and the units a setting may have.
MCFamilies == {[units |-> <<"TB", "GB", "MB", "kB", "B">>, ratio |-> <<16, 16, 16, 16>>, bases |-> {3, 4, 5}],
               [units |-> <<"d", "h", "min", "s", "ms", "us">>, ratio |-> <<24, 60, 60, 100, 100>>, bases |-> {3, 4, 5}]}
MCNumbers == {<<n, d>> : n \in 0..12, d \in {1, 2, 10}}

VARIABLE guard  \* what is looked at

protectionVars == <<guard, wdVars, vars, hcVars, e3Vars, k8Vars, grVars, vaIn>>
Guards(g) == /\ guard = g /\ UNCHANGED guard
             /\ g # "watchdog" => UNCHANGED wdVars
             /\ g # "failsafe" => UNCHANGED vars
             /\ g # "health" => UNCHANGED hcVars
             /\ g # "etcd3" => UNCHANGED e3Vars
             /\ g # "kubernetes" => UNCHANGED k8Vars
             /\ g # "group" => UNCHANGED grVars
             /\ g # "values" => UNCHANGED vaIn

ProtectionInit ==
    /\ guard \in {"watchdog", "failsafe", "health", "etcd3", "kubernetes", "group", "values"}
    /\ guard # "values" => vaIn = CHOOSE v \in VaPatches : TRUE
    /\ guard # "watchdog" => config = CHOOSE c \in Configs : TRUE
    /\ guard # "group" => grGroups = 1 /\ grLead = [g \in 1..MaxGroups |-> IF g = 1 THEN Min(GrNodes) ELSE GrNobody]
    /\ WdInit /\ Init /\ HcInit /\ E3Init /\ K8Init /\ GrInit /\ VaInit

ProtectionNext ==
    \/ Guards("watchdog") /\ WdNext
    \/ Guards("failsafe") /\ Next
    \/ Guards("health") /\ HcNext
    \/ Guards("etcd3") /\ E3Next
    \/ Guards("kubernetes") /\ K8Next
    \/ Guards("group") /\ GrNext
    \/ Guards("values") /\ VaPatch

ProtectionSpec == ProtectionInit /\ [][ProtectionNext]_protectionVars
=============================================================================
