---------------------------- MODULE InstanceInfo ----------------------------
(***************************************************************************)
(* What replies to INFO tell about a master and its slaves, the flags of a *)
(* failover, and the quorum (flysentinel/FlySentinel.cpp 535-876,          *)
(* flyinstance/FlyInstance.cpp).  failoverStateMachine and the checks for  *)
(* down instances have empty bodies: whoever will set flags and choose the *)
(* slave to promote is the environment.                                    *)
(*                                                                         *)
(* The times of reports are left out: what would ask for them comes after  *)
(* masterLookSane, 0 == flags & ..., which is never true.                  *)
(***************************************************************************)
EXTENDS Integers, FiniteSets

CONSTANTS
  Master,    \* an instance with FSI_MASTER
  Slaves,    \* its slaves
  Peers,     \* the other sentinels of the master
  Quorums    \* quorum in the configuration

ASSUME InstanceInfoAssumption ==
  /\ Master \notin Slaves /\ "null" \notin Slaves
  /\ IsFiniteSet(Peers) /\ Quorums \subseteq Nat

VARIABLES
  instFlags,       \* flags of each instance, apart from its kind and of down ones
  roleReported,    \* a set of roles: both lines or none may come
  failoverState,
  promotedSlave,
  newEpoch,        \* configEpoch of the master is its failoverEpoch
  quorum,
  tilted,          \* tilt
  monitor          \* "alive" or "crashed"

infoVars == <<instFlags, roleReported, failoverState, promotedSlave, newEpoch,
              quorum, tilted, monitor>>

Instances == {Master} \cup Slaves
NoSlave   == "null"
InstFlags == {"FAILOVER_IN_PROGRESS", "PROMOTED", "RECONF_SENT", "RECONF_INPROG", "RECONF_DONE"}
KindOf(i) == IF i = Master THEN {"master"} ELSE {"slave"}

(* Of a reply only the lines role:master and role:slave are understood.    *)
(* parseRunid, parseSlaveIPAndPort and parseSlaveRoleParams get no line    *)
(* that changes anything: the tests ask for a line that equals a prefix    *)
(* and is longer, or for a field name that a reply does not have.  So      *)
(* slaveMasterHost stays empty, and slaveMasterLinkStatus what it was      *)
(* made, 0, which means up.                                                *)
Roles == {"master", "slave"}

InstanceInfoInit ==
  /\ instFlags = [i \in Instances |-> {}]
  /\ roleReported = [i \in Instances |-> KindOf(i)]
  /\ failoverState = "NONE" /\ promotedSlave = NoSlave
  /\ newEpoch = FALSE
  /\ quorum \in Quorums
  /\ tilted = FALSE /\ monitor = "alive"
-----------------------------------------------------------------------------
(* isPromotedSlave                                                         *)
IsPromotedSlave(i) ==
  /\ "PROMOTED" \in instFlags[i] /\ "FAILOVER_IN_PROGRESS" \in instFlags[Master]
  /\ failoverState = "WAIT_PROMOTION"

(* dealWithRoleFromSlaveToMaster. A promoted slave brings the new epoch,   *)
(* and an event that names the master's master: the process is gone. For   *)
(* another slave nothing is sent, for the master never looks sane.         *)
SlaveToMaster(i) ==
  IF IsPromotedSlave(i)
  THEN newEpoch' = TRUE /\ failoverState' = "RECONF_SLAVES" /\ monitor' = "crashed"
  ELSE UNCHANGED <<newEpoch, failoverState, monitor>>

(* dealWithReconfig: the host that the slave reported, which is empty, is  *)
(* not the promoted slave's, and a null pointer is followed if there is    *)
(* none. Mutant: the old flag stays.                                       *)
BothFlags(fs)   == fs \cup {"RECONF_DONE"}
NextReconf(fs)  == (fs \ {"RECONF_INPROG"}) \cup {"RECONF_DONE"}
Reconfigured(i) ==
  IF "RECONF_SENT" \in instFlags[i] /\ promotedSlave = NoSlave
  THEN monitor' = "crashed" /\ UNCHANGED instFlags
  ELSE /\ instFlags' = IF "RECONF_INPROG" \in instFlags[i]
                       THEN [instFlags EXCEPT ![i] = NextReconf(@)] ELSE instFlags
       /\ UNCHANGED monitor

(* refreshInstanceInfo. A master that reports another role is an event     *)
(* that names its master. In tilt mode the rest is left out.               *)
refreshInstanceInfo(i, role) ==
  /\ roleReported' = [roleReported EXCEPT ![i] = role]
  /\ IF i = Master
     THEN /\ monitor' = IF role # roleReported[i] THEN "crashed" ELSE "alive"
          /\ UNCHANGED <<instFlags, newEpoch, failoverState>>
     ELSE IF tilted THEN UNCHANGED <<instFlags, newEpoch, failoverState, monitor>>
     ELSE CASE role = {"master"} -> SlaveToMaster(i) /\ UNCHANGED instFlags
            [] role = {"slave"}  -> Reconfigured(i) /\ UNCHANGED <<newEpoch, failoverState>>
            [] OTHER -> UNCHANGED <<instFlags, newEpoch, failoverState, monitor>>
  /\ UNCHANGED <<promotedSlave, quorum, tilted>>

(* startFailoverIfNeeded on the master: 0 == flags & ... stops nothing,    *)
(* and failoverStartTime is 0; after the flags come the event +try-failover*)
(* and the end.                                                            *)
startFailover ==
  /\ failoverState' = "WAIT_START"
  /\ instFlags' = [instFlags EXCEPT ![Master] = @ \cup {"FAILOVER_IN_PROGRESS"}]
  /\ newEpoch' = FALSE /\ monitor' = "crashed"
  /\ UNCHANGED <<roleReported, promotedSlave, quorum, tilted>>

(* abortFailover, with its assertions. Mutant: the slave stays promoted.   *)
OnlyMasters(i)    == instFlags[i] \ (IF i = Master THEN {"FAILOVER_IN_PROGRESS"} ELSE {})
FlagsAfterward(i) ==
  instFlags[i] \ (IF i = Master THEN {"FAILOVER_IN_PROGRESS"}
                  ELSE IF i = promotedSlave THEN {"PROMOTED"} ELSE {})

abortFailover ==
  /\ IF \/ "FAILOVER_IN_PROGRESS" \notin instFlags[Master]
        \/ failoverState \in {"WAIT_PROMOTION", "RECONF_SLAVES"}
     THEN monitor' = "crashed" /\ UNCHANGED <<instFlags, failoverState, promotedSlave>>
     ELSE /\ instFlags' = [i \in Instances |-> FlagsAfterward(i)]
          /\ failoverState' = "NONE" /\ promotedSlave' = NoSlave
          /\ UNCHANGED monitor
  /\ UNCHANGED <<roleReported, newEpoch, quorum, tilted>>

(* From outside: the failover that is not written yet begins, chooses a    *)
(* slave, promotes it and tells the others to follow it; tilt mode begins  *)
(* or ends.                                                                *)
FailoverStep ==
  \/ /\ failoverState = "NONE" /\ failoverState' = "SELECT_SLAVE"
     /\ instFlags' = [instFlags EXCEPT ![Master] = @ \cup {"FAILOVER_IN_PROGRESS"}]
     /\ UNCHANGED promotedSlave
  \/ /\ failoverState = "SELECT_SLAVE" /\ promotedSlave = NoSlave
     /\ promotedSlave' \in Slaves /\ UNCHANGED failoverState
     /\ instFlags' = [instFlags EXCEPT ![promotedSlave'] = @ \cup {"PROMOTED"}]
  \/ /\ failoverState = "SELECT_SLAVE" /\ promotedSlave # NoSlave
     /\ failoverState' = "WAIT_PROMOTION" /\ UNCHANGED <<instFlags, promotedSlave>>
  \/ /\ \E s \in Slaves, f \in {"RECONF_SENT", "RECONF_INPROG"} :
          /\ instFlags[s] \cap {"RECONF_SENT", "RECONF_INPROG", "RECONF_DONE"} = {}
          /\ instFlags' = [instFlags EXCEPT ![s] = @ \cup {f}]
     /\ UNCHANGED <<failoverState, promotedSlave>>

Outside ==
  /\ \/ FailoverStep /\ UNCHANGED tilted
     \/ tilted' = ~tilted /\ UNCHANGED <<instFlags, failoverState, promotedSlave>>
  /\ UNCHANGED <<roleReported, newEpoch, quorum, monitor>>

InstanceInfoNext ==
  /\ monitor = "alive"
  /\ \/ startFailover \/ abortFailover \/ Outside
     \/ \E i \in Instances, role \in SUBSET Roles : refreshInstanceInfo(i, role)

InstanceInfoSpec == InstanceInfoInit /\ [][InstanceInfoNext]_infoVars
-----------------------------------------------------------------------------
(* sentinelIsQuorumReachable for a sentinel to which the given peers have  *)
(* FSI_S_DOWN or FSI_O_DOWN, which nothing sets yet.                       *)
(* Mutant: half of the voters are enough.                                  *)
HalfEnough(voters) == voters \div 2
Majority(voters)   == voters \div 2 + 1
sentinelIsQuorumReachable(down) ==
  LET usable == 1 + Cardinality(Peers \ down)
  IN usable >= quorum /\ usable >= Majority(Cardinality(Peers) + 1)

InstanceInfoTypeOK ==
  /\ instFlags \in [Instances -> SUBSET InstFlags]
  /\ roleReported \in [Instances -> SUBSET Roles]
  /\ failoverState \in {"NONE", "WAIT_START", "SELECT_SLAVE", "WAIT_PROMOTION", "RECONF_SLAVES"}
  /\ promotedSlave \in Slaves \cup {NoSlave}
  /\ quorum \in Nat /\ newEpoch \in BOOLEAN /\ tilted \in BOOLEAN
  /\ monitor \in {"alive", "crashed"}

(* The two sides of a split network cannot both have a quorum: when this   *)
(* sentinel reaches one, a peer it sees down, which sees only the peers    *)
(* that are down, does not.                                                *)
NoTwoQuorums ==
  \A down \in SUBSET Peers : \A p \in down :
    sentinelIsQuorumReachable(down) =>
      ~sentinelIsQuorumReachable(Peers \ (down \ {p}))

(* Where a failover stops, or is aborted, the flags of the master and of   *)
(* its slaves agree with its state: one slave at most is promoted, and     *)
(* none when no failover is in progress; a slave's reconfiguration is in   *)
(* one of its states.                                                      *)
FailoverAgrees ==
  /\ (failoverState = "NONE") = ("FAILOVER_IN_PROGRESS" \notin instFlags[Master])
  /\ \A s \in Slaves : ("PROMOTED" \in instFlags[s]) = (s = promotedSlave)
  /\ failoverState = "NONE" => promotedSlave = NoSlave
  /\ \A s \in Slaves :
       Cardinality(instFlags[s] \cap {"RECONF_SENT", "RECONF_INPROG", "RECONF_DONE"}) <= 1

(* Who may fail over, and what a failover leaves behind.                   *)
FailoverSound == NoTwoQuorums /\ FailoverAgrees
=============================================================================
