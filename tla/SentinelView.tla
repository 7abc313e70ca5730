---------------------------- MODULE SentinelView ----------------------------
(***************************************************************************)
(* What a sentinel believes about the masters it watches and about the     *)
(* other sentinels of each master, and how hello messages change it        *)
(* (flysentinel/FlySentinel.cpp, flyinstance/FlyInstance.cpp).  Hellos of  *)
(* any sentinels come in any order, old ones after new ones.  The masters  *)
(* are there from the start; connections are handed out from outside.      *)
(*                                                                         *)
(* An event whose format begins with %@ names the master of its instance.  *)
(* haveMaster() parses as (0 # flags) & FSI_MASTER, which every instance   *)
(* satisfies, so such an event about a master follows its null master      *)
(* pointer: the process is gone.  InstanceInfo has the replies to INFO.    *)
(***************************************************************************)
EXTENDS Integers, FiniteSets

CONSTANTS
  Masters,     \* names in the map masters
  Runids,      \* of the other sentinels, the keys of a map sentinels
  Addrs,       \* an ip with a port that is not 0
  FirstAddr,   \* the masters' address in the configuration
  FirstEpochs, \* what the memory of configEpoch, never initialised, may hold
  MaxEpoch,    \* bound: the epochs of a hello
  MaxLinks     \* bound: connections handed out in a behaviour

ASSUME SentinelViewAssumption ==
  /\ FirstAddr \in Addrs /\ FirstEpochs \subseteq Nat
  /\ MaxEpoch \in Nat /\ MaxLinks \in Nat

VARIABLES
  currentEpoch,
  configEpoch,  \* of each master
  masterAddr,   \* its addr
  sentinels,    \* of each master: a function from some runids to entries
  openLinks,    \* the links whose contexts are not null
  nextLink,
  proc          \* "alive", "crashed" or "hung"

sentinelVars ==
  <<currentEpoch, configEpoch, masterAddr, sentinels, openLinks, nextLink, proc>>

NoLink == 0
Links  == 1..MaxLinks
Epochs == 0..MaxEpoch
(* A port of 0 marks the address of an entry as invalid.                   *)
Entry  == [at : Addrs, valid : BOOLEAN, link : Links \cup {NoLink}]
Config == [epoch : Epochs, at : Addrs]
Hello  == [at : Addrs, runid : Runids, epoch : Epochs, master : Masters, config : Config]

Known(m) == DOMAIN sentinels[m]

SentinelViewInit ==
  /\ currentEpoch = 0
  /\ configEpoch \in [Masters -> FirstEpochs]
  /\ masterAddr = [m \in Masters |-> FirstAddr]
  /\ sentinels = [m \in Masters |-> << >>]
  /\ openLinks = {} /\ nextLink = 1
  /\ proc = "alive"
-----------------------------------------------------------------------------
(* getFlyInstanceByAddrAndRunID, with an ip or without: the runids of the  *)
(* entries that match. Without an ip the port still has to be equal, and   *)
(* its callers pass 0.                                                     *)
ByAddr(entries, at)       == {r \in DOMAIN entries : entries[r].valid /\ entries[r].at = at}
ByRunidAndPort0(entries, runid) ==
  {r \in DOMAIN entries : r = runid /\ ~entries[r].valid}

Has(f, x, y) == [z \in DOMAIN f \cup {x} |-> IF z = x THEN y ELSE f[z]]

(* The entries of the sentinel in all masters whose port is 0: the ones    *)
(* that updateSentinelAddrInAllMasters finds, in the given views.          *)
Matches(views, runid) == {m \in Masters : ByRunidAndPort0(views[m], runid) # {}}

(* another->setPort(0). Mutant: the entry keeps its port.                  *)
KeptPort(m, runid)    == sentinels
WithoutPort(m, runid) == [sentinels EXCEPT ![m][runid].valid = FALSE]

(* updateSentinelAddrInAllMasters(another): the connections of the entries *)
(* it finds are closed, and the others take the address, port 0 too.       *)
(* Mutant: the connections stay.                                           *)
StaleClosed(views, runid) == {}
Closed(views, runid)      == {views[n][runid].link : n \in Matches(views, runid)}
Readdressed(views, runid, at) ==
  [n \in Masters |-> IF n \in Matches(views, runid)
                     THEN [views[n] EXCEPT ![runid].at = at] ELSE views[n]]

(* tryConnectionSharing: the link of an entry of the same sentinel at      *)
(* another master. As the lookup asks for port 0, it is one whose address  *)
(* is no longer valid.                                                     *)
SharedLinks(views, m, runid) ==
  LET others == {n \in Matches(views, runid) : n # m}
  IN IF others = {} THEN {NoLink} ELSE {views[n][runid].link : n \in others}
-----------------------------------------------------------------------------
(* The end of processHelloMessage, in which the configuration counts for a *)
(* sentinel that was found: for a new one the outer variable is still      *)
(* null.                                                                   *)
RaiseEpoch(epoch) == currentEpoch' = IF epoch > currentEpoch THEN epoch ELSE currentEpoch

IsNewer(h) == configEpoch[h.master] < h.config.epoch

(* resetMasterAndChangeAddress: the slaves and the sentinels of the master *)
(* are deleted and it gets its new address; then a slave with the old one  *)
(* is to be added, under a name that is made from a null pointer.          *)
resetMasterAndChangeAddress(m, at) ==
  /\ sentinels' = [sentinels EXCEPT ![m] = << >>]
  /\ masterAddr' = [masterAddr EXCEPT ![m] = at]
  /\ proc' = "crashed"

(* A hello about a master that is not watched, of another number of        *)
(* fields, or of port 0 changes nothing and is left out.                   *)
HelloKnown(h) ==
  LET m == h.master
  IN /\ h.runid \in ByAddr(sentinels[m], h.at)
     /\ RaiseEpoch(h.epoch)
     /\ configEpoch' = [configEpoch EXCEPT ![m] = IF IsNewer(h) THEN h.config.epoch ELSE @]
     /\ IF IsNewer(h) /\ h.config.at # masterAddr[m]
        THEN resetMasterAndChangeAddress(m, h.config.at)
        ELSE UNCHANGED <<masterAddr, sentinels, proc>>
     /\ UNCHANGED <<openLinks, nextLink>>

(* The runid is known under another address: removeMatchingSentinel        *)
(* advances an iterator that erase() returned, from the end of an empty    *)
(* map for ever; otherwise the event about the switch names the master.    *)
HelloMoved(h) ==
  /\ h.runid \in Known(h.master) \ ByAddr(sentinels[h.master], h.at)
  /\ sentinels' = [sentinels EXCEPT ![h.master] =
                     [r \in Known(h.master) \ {h.runid} |-> sentinels[h.master][r]]]
  /\ proc' = IF Known(h.master) = {h.runid} THEN "hung" ELSE "crashed"
  /\ UNCHANGED <<currentEpoch, configEpoch, masterAddr, openLinks, nextLink>>

(* A runid nobody knew. Another sentinel that has its address loses it;    *)
(* if that one has no link, its null pointer is followed. Then the new     *)
(* entry is made, and what the hello says of the master is dropped.        *)
HelloNew(h) ==
  LET another == ByAddr(sentinels[h.master], h.at)
      Freed(views, closed) ==
        /\ openLinks' = openLinks \ closed
        /\ \E link \in SharedLinks(views, h.master, h.runid) :
             sentinels' = [views EXCEPT ![h.master] =
                             Has(@, h.runid, [at |-> h.at, valid |-> TRUE, link |-> link])]
        /\ RaiseEpoch(h.epoch)
        /\ proc' = "alive"
  IN /\ h.runid \notin Known(h.master)
     /\ \/ another = {} /\ Freed(sentinels, {})
        \/ \E r \in another :
             LET invalid == WithoutPort(h.master, r)
             IN IF \E n \in Matches(invalid, r) : invalid[n][r].link = NoLink
                THEN /\ proc' = "crashed" /\ sentinels' = invalid
                     /\ UNCHANGED <<currentEpoch, openLinks>>
                ELSE Freed(Readdressed(invalid, r, h.at), Closed(invalid, r))
     /\ UNCHANGED <<configEpoch, masterAddr, nextLink>>

processHelloMessage ==
  /\ proc = "alive"
  /\ \E h \in Hello : HelloKnown(h) \/ HelloMoved(h) \/ HelloNew(h)

(* setLink with a link that was just connected.                            *)
setLink ==
  /\ proc = "alive" /\ nextLink \in Links
  /\ \E m \in Masters : \E r \in Known(m) :
       /\ sentinels[m][r].valid /\ sentinels[m][r].link = NoLink
       /\ sentinels' = [sentinels EXCEPT ![m][r].link = nextLink]
  /\ openLinks' = openLinks \cup {nextLink} /\ nextLink' = nextLink + 1
  /\ UNCHANGED <<currentEpoch, configEpoch, masterAddr, proc>>

(* resetMasterByPattern with any masters and flags: the slaves are deleted *)
(* and the sentinels if the flags say so; the event +reset-master is one   *)
(* with %@ about a master. AbstractFlyInstance has no virtual destructor,  *)
(* so that a deleted entry does not give its link back.                    *)
resetMasterByPattern ==
  /\ proc = "alive"
  /\ \E reset \in SUBSET Masters \ {{}}, andSentinels \in BOOLEAN, event \in BOOLEAN :
       IF event THEN proc' = "crashed" /\ UNCHANGED <<sentinels, openLinks>>
       ELSE /\ sentinels' = [m \in Masters |-> IF m \in reset /\ andSentinels
                                               THEN << >> ELSE sentinels[m]]
            /\ UNCHANGED <<openLinks, proc>>
  /\ UNCHANGED <<currentEpoch, configEpoch, masterAddr, nextLink>>

(* The event +monitor is one with %@ about a master as well.               *)
generateInitMonitorEvents ==
  /\ proc = "alive" /\ Masters # {}
  /\ proc' = "crashed"
  /\ UNCHANGED <<currentEpoch, configEpoch, masterAddr, sentinels, openLinks, nextLink>>

SentinelViewNext ==
  processHelloMessage \/ setLink \/ resetMasterByPattern \/ generateInitMonitorEvents

SentinelViewSpec == SentinelViewInit /\ [][SentinelViewNext]_sentinelVars
-----------------------------------------------------------------------------
SentinelViewTypeOK ==
  /\ currentEpoch \in Epochs
  /\ configEpoch \in [Masters -> Nat]
  /\ masterAddr \in [Masters -> Addrs]
  /\ \A m \in Masters : /\ Known(m) \subseteq Runids
                         /\ \A r \in Known(m) : sentinels[m][r] \in Entry
  /\ openLinks \subseteq Links /\ nextLink \in 1..(MaxLinks + 1)
  /\ proc \in {"alive", "crashed", "hung"}

(* FlySentinel.cpp:1341-1344 says that a newer configuration updates what  *)
(* is known of the master, whose address changes when a slave became the   *)
(* master: after such a hello the master has the epoch and the address it  *)
(* tells, and the sentinel is there to watch it.                           *)
NewerConfigTaken ==
  [][\A h \in Hello : HelloKnown(h) /\ IsNewer(h) =>
       /\ configEpoch'[h.master] = h.config.epoch
       /\ masterAddr'[h.master] = h.config.at
       /\ proc' = "alive"]_sentinelVars

(* Sentinels that restart under new runids, or take addresses of others,   *)
(* leave no two valid entries of a master with one address; a link is      *)
(* shared by entries of one sentinel only; and what was connected to an    *)
(* address that is no longer valid is closed.                              *)
SentinelsDistinct ==
  proc = "alive" =>
    \A m, n \in Masters : \A r \in Known(m), s \in Known(n) :
      /\ /\ m = n /\ r # s /\ sentinels[m][r].valid /\ sentinels[n][s].valid
         => sentinels[m][r].at # sentinels[n][s].at
      /\ sentinels[m][r].link # NoLink /\ r # s => sentinels[m][r].link # sentinels[n][s].link
      /\ ~sentinels[m][r].valid => sentinels[m][r].link \notin openLinks
=============================================================================
