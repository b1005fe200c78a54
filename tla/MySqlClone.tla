----------------------------- MODULE MySqlClone -----------------------------
(***************************************************************************)
(* The data directory of one MySQL node: how a replica is created from     *)
(* another member (patroni/mysql/bootstrap.py), the mysqld processes that  *)
(* the methods start and must not leave behind (patroni/mysql/             *)
(* postmaster.py), and the start, stop and reinitialization around them.   *)
(*                                                                         *)
(* Only one mysqld can hold the port, so at most one runs.  It may run on  *)
(* a directory that was removed: Patroni, which looks for the pid file in  *)
(* the data directory, does not see it, and no other mysqld can start.     *)
(***************************************************************************)
EXTENDS Naturals, Sequences

CONSTANTS
    RootPassword, \* the superuser is root with a password: the grant after a physical copy fails
    MaxMyEvents   \* bound on failures, crashes and requests

ASSUME MyAssumption ==
    /\ RootPassword \in BOOLEAN
    /\ MaxMyEvents \in Nat

VARIABLES
    myAt,     \* where the thread that clones is; "idle" when it does not
    myLeft,   \* the methods still to be tried, the current one first
    myDir,    \* the data directory: [data, uuid]
    myTmp,    \* the directory of xtrabackup: "absent", "part" or "ready"
    mySrv,    \* the mysqld that runs: "none", on the data directory ("here"), on a removed one ("gone")
    myPid,    \* the pid file of the data directory names that mysqld
    myHandle, \* _postmaster_process is that mysqld
    myLeaked, \* a mysqld was left running by a refused grant or shutdown
    myTorn,   \* Patroni died while the directory that is there was being made
    myEvents

myVars == <<myAt, myLeft, myDir, myTmp, mySrv, myPid, myHandle, myLeaked, myTorn, myEvents>>

EmptyDir == [data |-> "absent", uuid |-> "none"]

\* Type invariant.
MyTypeOK ==
    /\ myAt \in {"idle", "pick", "md_start", "md_copy", "md_user",
                 "xb_backup", "xb_prepare", "xb_move", "xb_start", "xb_grant", "follow"}
    /\ myLeft \in Seq({"xtrabackup", "mysqldump"})
    /\ myDir \in [data : {"absent", "part", "init", "whole"}, uuid : {"none", "own", "donor"}]
    /\ myTmp \in {"absent", "part", "ready"}
    /\ mySrv \in {"none", "here", "gone"}
    /\ {myPid, myHandle, myLeaked, myTorn} \subseteq BOOLEAN
    /\ myEvents \in 0..MaxMyEvents

MyInit ==
    /\ myAt = "idle" /\ myLeft = <<>> /\ myDir = EmptyDir /\ myTmp = "absent"
    /\ mySrv = "none" /\ myPid = FALSE /\ myHandle = FALSE
    /\ myLeaked = FALSE /\ myTorn = FALSE /\ myEvents = 0

DirectoryEmpty == myDir.data = "absent"

\* What Patroni sees of the mysqld that runs.
MyIsRunning == mySrv # "none" /\ (myHandle \/ myPid)

MyEvent == myEvents < MaxMyEvents /\ myEvents' = myEvents + 1

\* A step fails for the cause given, or for one outside the model.
Fails(cause) == (cause /\ UNCHANGED myEvents) \/ MyEvent

(***************************************************************************)
(* Processes and directories.                                              *)
(***************************************************************************)
\* MySQLProcess.start: the pid file appears only if no other mysqld has the port.
MysqldStarts == /\ mySrv = "none" /\ mySrv' = "here" /\ myPid' = TRUE
                /\ myDir' = [myDir EXCEPT !.uuid = IF @ = "none" THEN "own" ELSE @]

\* What is left of the processes when the mysqld that runs goes away.
MysqldGone == /\ mySrv' = "none" /\ myPid' = FALSE /\ myHandle' = FALSE /\ myLeaked' = FALSE

\* The data directory is removed under whatever mysqld runs on it.
RemoveDir == /\ myDir' = EmptyDir /\ myTorn' = FALSE /\ myPid' = FALSE
             /\ mySrv' = IF mySrv = "none" THEN "none" ELSE "gone"
             /\ UNCHANGED myHandle

NextMethod == myAt' = "pick" /\ myLeft' = Tail(myLeft)

(***************************************************************************)
(* mysqldump: a fresh server that the dump is restored into.               *)
(***************************************************************************)
\* The old directory is removed and a new one initialized.
DumpBegins ==
    /\ myAt = "pick" /\ myLeft # <<>> /\ Head(myLeft) = "mysqldump"
    /\ mySrv' = IF mySrv = "none" THEN "none" ELSE "gone"
    /\ myPid' = FALSE /\ myTorn' = FALSE
    /\ \/ myAt' = "md_start" /\ myDir' = [data |-> "init", uuid |-> "own"]
          /\ UNCHANGED <<myLeft, myEvents>>
       \/ MyEvent /\ NextMethod /\ myDir' = [data |-> "part", uuid |-> "none"]
    /\ UNCHANGED <<myTmp, myHandle, myLeaked>>

\* Without a process of its own the method removes nothing when it fails.
DumpStarts ==
    /\ myAt = "md_start"
    /\ \/ MysqldStarts /\ myAt' = "md_copy" /\ UNCHANGED <<myLeft, myEvents>>
       \/ Fails(mySrv # "none")
          /\ NextMethod /\ UNCHANGED <<mySrv, myPid, myDir>>
    /\ UNCHANGED <<myTmp, myHandle, myLeaked, myTorn>>

DumpFailsUnkilled ==
    /\ NextMethod /\ RemoveDir /\ UNCHANGED <<myTmp, myLeaked>>

\* Any failure once the process is there: it is killed and its directory removed.
DumpFails ==
    /\ NextMethod /\ MysqldGone /\ myDir' = EmptyDir /\ myTorn' = FALSE
    /\ UNCHANGED myTmp

\* Readiness, the grant over the socket, the list of databases, the dump and its restore;
\* a source without databases has nothing to be dumped.
DumpCopies ==
    /\ myAt = "md_copy"
    /\ \/ /\ mySrv = "here" /\ myAt' = "md_user" /\ myDir' = [myDir EXCEPT !.data = "whole"]
          /\ UNCHANGED <<myLeft, mySrv, myPid, myHandle, myLeaked, myTorn, myTmp, myEvents>>
       \/ Fails(mySrv # "here") /\ DumpFails

\* The replication user, which the dump does not bring.
DumpUser ==
    /\ myAt = "md_user"
    /\ \/ /\ mySrv = "here" /\ myAt' = "follow"
          /\ UNCHANGED <<myLeft, myDir, mySrv, myPid, myHandle, myLeaked, myTorn, myTmp, myEvents>>
       \/ Fails(mySrv # "here") /\ DumpFails

(***************************************************************************)
(* xtrabackup: a copy of the donor's files in a directory beside.          *)
(***************************************************************************)
BackupBegins ==
    /\ myAt = "pick" /\ myLeft # <<>> /\ Head(myLeft) = "xtrabackup"
    /\ RemoveDir /\ myTmp' = "part" /\ myAt' = "xb_backup"
    /\ UNCHANGED <<myLeft, myLeaked, myEvents>>

\* The finally clause after a failure; a mysqld that still runs there is not stopped.
BackupFails == NextMethod /\ RemoveDir /\ myTmp' = "absent"

BackupCopies ==
    /\ myAt \in {"xb_backup", "xb_prepare"}
    /\ \/ /\ myAt' = IF myAt = "xb_backup" THEN "xb_prepare" ELSE "xb_move"
          /\ myTmp' = IF myAt = "xb_backup" THEN "part" ELSE "ready"
          /\ UNCHANGED <<myLeft, myDir, mySrv, myPid, myHandle, myTorn, myEvents>>
       \/ MyEvent /\ BackupFails
    /\ UNCHANGED myLeaked

\* File by file; auto.cnf comes with them and is then dropped, so that mysqld makes its own.
Moved == [data |-> "whole", uuid |-> "none"]

BackupMoves ==
    /\ myAt = "xb_move"
    /\ \/ /\ myDir.data = "absent" /\ myDir' = [data |-> "part", uuid |-> "donor"]
          /\ UNCHANGED <<myAt, myLeft, mySrv, myPid, myHandle, myTorn, myTmp, myEvents>>
       \/ /\ myDir.data = "part" /\ myDir' = Moved /\ myAt' = "xb_start"
          /\ UNCHANGED <<myLeft, mySrv, myPid, myHandle, myTorn, myTmp, myEvents>>
       \/ MyEvent /\ BackupFails
    /\ UNCHANGED myLeaked

\* _start_mysql; a mysqld that is not ready in time is killed.
NotReadyKilled == /\ mySrv = "none" /\ MyEvent /\ NextMethod /\ MysqldGone
                  /\ myDir' = EmptyDir /\ myTorn' = FALSE /\ myTmp' = "absent"

BackupStarts ==
    /\ myAt = "xb_start"
    /\ \/ MysqldStarts /\ myAt' = "xb_grant"
          /\ UNCHANGED <<myLeft, myTorn, myTmp, myHandle, myLeaked, myEvents>>
       \/ Fails(mySrv # "none") /\ BackupFails /\ UNCHANGED myLeaked
       \/ NotReadyKilled

\* The accounts are opened to TCP as root without a password, which the accounts of the
\* donor may refuse; the mysqld that was started is then left to itself.
BackupGrants ==
    /\ myAt = "xb_grant"
    /\ \/ /\ mySrv = "here" /\ ~RootPassword /\ myAt' = "follow" /\ myTmp' = "absent"
          /\ UNCHANGED <<myLeft, myDir, mySrv, myPid, myHandle, myTorn, myLeaked, myEvents>>
       \/ /\ Fails(mySrv # "here" \/ RootPassword)
          /\ BackupFails /\ myLeaked' = (myLeaked \/ mySrv # "none")

(***************************************************************************)
(* Ha.clone and the cycles around it.                                      *)
(***************************************************************************)
\* create_replica_methods as they are by default; xtrabackup only where its program is.
DefaultMethods == <<"xtrabackup", "mysqldump">>
Resolved(available) ==
    SelectSeq(DefaultMethods, LAMBDA m : m = "xtrabackup" => available)

\* MySQL.stop: the answer of mysqladmin is not looked at, and the pid file removed.
StopRefused == UNCHANGED mySrv /\ myPid' = FALSE /\ myHandle' = FALSE /\ myLeaked' = TRUE
MyStop == \/ MyIsRunning /\ (MysqldGone \/ StopRefused)
          \/ ~MyIsRunning /\ UNCHANGED <<mySrv, myPid, myHandle, myLeaked>>

MethodsChosen ==
    /\ myAt = "idle" /\ myAt' = "pick"
    /\ \E available \in BOOLEAN : myLeft' = Resolved(available)
    /\ UNCHANGED <<myDir, myTmp, myTorn>>

\* A cycle that finds the directory empty stops the mysqld it sees and clones.
CloneBegins ==
    /\ DirectoryEmpty /\ MyStop /\ MethodsChosen
    /\ \/ UNCHANGED myEvents /\ (MyIsRunning => mySrv' = "none")
       \/ MyEvent /\ MyIsRunning /\ mySrv' # "none"

\* _do_reinitialize, by request: stop, then clone.
Reinitialize == ~DirectoryEmpty /\ MyEvent /\ MyStop /\ MethodsChosen

\* No method is left: Ha.clone removes the data directory.
CloneFailed ==
    /\ myAt = "pick" /\ myLeft = <<>> /\ myAt' = "idle" /\ RemoveDir
    /\ UNCHANGED <<myLeft, myTmp, myLeaked, myEvents>>

CloneDone ==
    /\ myAt = "follow" /\ myAt' = "idle" /\ myLeft' = <<>>
    /\ UNCHANGED <<myDir, myTmp, mySrv, myPid, myHandle, myLeaked, myTorn, myEvents>>

\* MySQL.start, when the node recovers with what its directory holds.
MyStart ==
    /\ myAt = "idle" /\ ~MyIsRunning /\ ~DirectoryEmpty
    /\ MysqldStarts /\ myHandle' = TRUE
    /\ UNCHANGED <<myAt, myLeft, myTmp, myLeaked, myTorn, myEvents>>

\* is_running, which other threads call at any time, remembers the process of the pid file.
MyNotice ==
    /\ mySrv # "none" /\ myPid /\ ~myHandle /\ myHandle' = TRUE
    /\ UNCHANGED <<myAt, myLeft, myDir, myTmp, mySrv, myPid, myLeaked, myTorn, myEvents>>

PatroniDies ==
    /\ MyEvent /\ myAt' = "idle" /\ myLeft' = <<>> /\ myHandle' = FALSE
    /\ myTorn' = (myTorn \/ (~DirectoryEmpty /\ myAt \notin {"idle", "follow"}))
    /\ UNCHANGED <<myDir, myTmp, mySrv, myPid, myLeaked>>

MysqldDies ==
    /\ mySrv # "none" /\ MyEvent /\ MysqldGone
    /\ UNCHANGED <<myAt, myLeft, myDir, myTmp, myTorn>>

MyCloneStep ==
    \/ DumpBegins \/ DumpStarts \/ DumpCopies \/ DumpUser
    \/ BackupBegins \/ BackupCopies \/ BackupMoves \/ BackupStarts \/ BackupGrants
    \/ CloneBegins \/ CloneFailed \/ CloneDone \/ MyStart

MyNext == MyCloneStep \/ MyNotice \/ Reinitialize \/ PatroniDies \/ MysqldDies

\* The cycle and the thread it starts go on; no failure is owed.
MySpec == MyInit /\ [][MyNext]_myVars /\ WF_myVars(MyCloneStep)

(***************************************************************************)
(* Properties.                                                             *)
(***************************************************************************)
(* A node that serves what it cloned serves all of it, and under a server  *)
(* uuid of its own, so that its transactions are never taken for those of  *)
(* the donor (bootstrap.py, auto.cnf dropped at 453), whichever methods    *)
(* failed before, unless Patroni died while the directory was being made.  *)
ServesOwnCopy ==
    mySrv = "here" /\ myAt = "idle" /\ ~myTorn => myDir = [data |-> "whole", uuid |-> "own"]

(* A mysqld without a pid file in the data directory, which Patroni may    *)
(* not see, comes only from a grant that failed after a physical copy      *)
(* (bootstrap.py:65) or from a shutdown that mysqladmin was refused        *)
(* (mysql/__init__.py:293): every other failed step kills what it started. *)
OrphanExplained == mySrv # "none" /\ ~myPid => myLeaked

(* A clone that began ends with a node that serves its copy, after any     *)
(* number of failed methods, crashes of mysqld and of Patroni: no failure  *)
(* leaves behind what the next attempt trips over, but for the mysqld of   *)
(* OrphanExplained and the directory of a clone that was cut off.          *)
CloneServed ==
    myAt # "idle" ~> (mySrv = "here" /\ myDir.data = "whole") \/ myLeaked \/ myTorn

(* What the comment at bootstrap.py:182 promises of the default methods:   *)
(* mysqldump remains when xtrabackup cannot be used, so that a clone which *)
(* nothing disturbs ends with a node that serves.  Violated where root has *)
(* a password: the mysqld that the first method leaves behind keeps the    *)
(* port, and the second one cannot start (RootPassword = TRUE).            *)
CloneEndsServed == myAt # "idle" ~> MyIsRunning /\ myAt = "idle"
=============================================================================
