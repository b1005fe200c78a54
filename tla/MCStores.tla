------------------------------ MODULE MCStores ------------------------------
(***************************************************************************)
(* The stores whose clients need something to happen in the end: Consul,   *)
(* ZooKeeper, the Raft store of Patroni itself, and the client that finds  *)
(* a server of etcd.  A behaviour is a behaviour of one of them, chosen at *)
(* the start; the others rest in their initial state.                      *)
(***************************************************************************)
EXTENDS Consul, ZooKeeper, RaftStore, EtcdClient

VARIABLE store  \* the one that is used

storesVars == <<store, csVars, zkVars, rfVars, ecVars>>
Uses(s) == /\ store = s /\ UNCHANGED store
           /\ s # "consul" => UNCHANGED csVars
           /\ s # "zookeeper" => UNCHANGED zkVars
           /\ s # "raft" => UNCHANGED rfVars
           /\ s # "etcd" => UNCHANGED ecVars

StoresInit ==
    /\ store \in {"consul", "zookeeper", "raft", "etcd"}
    /\ CsInit /\ ZkInit /\ RfInit
    /\ EcInit /\ (store # "etcd" => ecCache = <<CHOOSE s \in EtcdHosts : TRUE>>)

StoresNext ==
    \/ Uses("consul") /\ CsNext
    \/ Uses("zookeeper") /\ ZkNext
    \/ Uses("raft") /\ RfNext
    \/ Uses("etcd") /\ EcNext

(***************************************************************************)
(* The HA loop of the node goes on, whether its requests succeed or fail,  *)
(* and a request that is made again and again succeeds in the end; kazoo   *)
(* reconnects; pysyncobj calls the expiration on its thread; etcd elects a *)
(* leader whose log the others catch up with.  Only one store is used in a *)
(* behaviour, so a condition on a disjunction is one on each of them.      *)
(***************************************************************************)
LoopGoes ==
    \/ Uses("consul") /\ (CsCycle \/ CsFails)
    \/ Uses("zookeeper") /\ (ZkCycle \/ ZkFails)
    \/ Uses("raft") /\ ExpireKeys
    \/ Uses("etcd") /\ EcClient
StoreRecovers == (Uses("zookeeper") /\ Reconnect) \/ (Uses("etcd") /\ EcElects /\ ~ecLeader)
TouchSucceeds == (Uses("consul") /\ CsTouch) \/ (Uses("zookeeper") /\ ZkTouch) \/ (Uses("raft") /\ RfExpires)
RegisterSucceeds == (Uses("consul") /\ CsRegister) \/ (Uses("zookeeper") /\ ZkRegister)

StoresFairness ==
    /\ WF_storesVars(LoopGoes) /\ WF_storesVars(StoreRecovers) /\ WF_storesVars(Uses("etcd") /\ EcCatchesUp)
    /\ SF_storesVars(TouchSucceeds) /\ SF_storesVars(RegisterSucceeds)

StoresSpec == StoresInit /\ [][StoresNext]_storesVars /\ StoresFairness
=============================================================================
