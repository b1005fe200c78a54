----------------------------- MODULE LeaderKey -----------------------------
(***************************************************************************)
(* What AbstractDCS promises of the leader key (the docstrings of          *)
(* update_leader and attempt_to_acquire_leader in patroni/dcs/__init__.py),*)
(* whatever service keeps it: the key goes from one member to another only *)
(* through being free, and a member whose call returns True has owned the  *)
(* key at some moment of that call.  The clients read a cache, so there is *)
(* one exception: a member that gave the key up itself may still be told   *)
(* so for as long as its cache lags.                                       *)
(***************************************************************************)
CONSTANTS Members,
          Nobody  \* not a member

VARIABLES owner, \* who owns the key
          call,  \* "out": in no call; "in": in a call; "held": in a call during which it was the owner
          ans,   \* what the last call returned
          given  \* members that gave the key up and have not taken it since

lkVars == <<owner, call, ans, given>>

LkInit ==
    /\ owner = Nobody
    /\ call = [m \in Members |-> "out"]
    /\ ans = [m \in Members |-> "no"]
    /\ given = {}

Ask(m) ==
    /\ call[m] = "out"
    /\ call' = [call EXCEPT ![m] = IF owner = m THEN "held" ELSE "in"]
    /\ UNCHANGED <<owner, ans, given>>

\* A request may be executed after the call that sent it has given up.
Take(m) ==
    /\ owner = Nobody
    /\ owner' = m
    /\ call' = [call EXCEPT ![m] = IF @ = "out" THEN @ ELSE "held"]
    /\ given' = given \ {m}
    /\ UNCHANGED ans

\* The key expires, ...
Expires ==
    /\ owner # Nobody /\ owner' = Nobody
    /\ UNCHANGED <<call, ans, given>>

\* ... or its owner deletes it.
GiveUp(m) ==
    /\ owner = m
    /\ owner' = Nobody
    /\ given' = given \union {m}
    /\ UNCHANGED <<call, ans>>

Answer(m) ==
    /\ call[m] # "out"
    /\ call' = [call EXCEPT ![m] = "out"]
    /\ \/ ans' = [ans EXCEPT ![m] = "no"]
       \/ (call[m] = "held" \/ m \in given) /\ ans' = [ans EXCEPT ![m] = "yes"]
    /\ UNCHANGED <<owner, given>>

LkNext == Expires \/ \E m \in Members : Ask(m) \/ Take(m) \/ GiveUp(m) \/ Answer(m)

LkSpec == LkInit /\ [][LkNext]_lkVars
=============================================================================
