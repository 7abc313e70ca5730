------------------------------- MODULE PubSub -------------------------------
(***************************************************************************)
(* Publish and subscribe (pubsub/PubSubHandler.cpp) under the commands     *)
(* that reach it (commandtable/CommandEntry.cpp, CommandTable.cpp).  A     *)
(* client object keeps its own channels and patterns, the handler keeps    *)
(* the clients of each channel and a list of patterns, and a message goes  *)
(* by the handler's side.  An argument of a command is a name; argv        *)
(* starts with the name of the command, and the loops over argv do too.    *)
(*                                                                         *)
(* The loops that unsubscribe advance an iterator from the node they have  *)
(* just freed: they go on with what the freed memory says, or crash.       *)
(***************************************************************************)
EXTENDS Integers, Sequences, SequencesExt

CONSTANTS
  Subscribers, \* the FlyClients
  Names,       \* of channels and of patterns
  Arguments,   \* the names that clients give as arguments
  Fits,        \* stringmatch: the pairs of a pattern and a channel it matches
  CommandName, \* a function from the commands to the names that argv[0] holds
  MaxArgc,     \* bound: arguments of a command
  MaxPatterns  \* bound: entries of the list of patterns

ASSUME PubSubAssumption ==
  /\ Arguments \subseteq Names /\ Fits \subseteq Names \X Names
  /\ MaxArgc \in Nat /\ MaxPatterns \in Nat
  /\ CommandName \in [{"ping", "subscribe", "unsubscribe", "psubscribe",
                       "punsubscribe", "publish", "role"} -> Names]

VARIABLES
  subs,     \* chans, pats: of each client; channels: a function from some
            \* names to lists of clients; patterns: a list of client and pattern
  flagged,  \* the clients with CLIENT_PUBSUB
  handler   \* "alive" or "crashed"

pubSubVars == <<subs, flagged, handler>>

PubSubInit ==
  /\ subs = [chans    |-> [c \in Subscribers |-> {}], pats |-> [c \in Subscribers |-> {}],
             channels |-> << >>, patterns |-> << >>]
  /\ flagged = {} /\ handler = "alive"

getSubscriptionsCount(s, c) == Cardinality(s.chans[c]) + Cardinality(s.pats[c])
-----------------------------------------------------------------------------
(* subscribeChannel: only a channel that is new to the client enters the   *)
(* list. Mutant: each call enters it.                                      *)
Entered(s, c, ch) ==
  [s EXCEPT !.chans[c] = @ \cup {ch},
            !.channels = [x \in DOMAIN @ \cup {ch} |->
                            IF x # ch THEN @[x]
                            ELSE IF ch \in DOMAIN @ THEN Append(@[ch], c) ELSE <<c>>]]
ChannelAgain(s, c, ch)      == Entered(s, c, ch)
subscribeChannel(s, c, ch)  == IF ch \in s.chans[c] THEN s ELSE Entered(s, c, ch)

WithoutFirst(seq, places) ==
  IF places = {} THEN seq
  ELSE RemoveAt(seq, CHOOSE i \in places : \A j \in places : i <= j)

(* unsubscribeChannel: the list loses the client, which is in it once, and *)
(* the map the list that is empty. Mutant: an empty list is left in the    *)
(* map.                                                                    *)
Left(s, c, ch) ==
  WithoutFirst(s.channels[ch], {i \in DOMAIN s.channels[ch] : s.channels[ch][i] = c})
LeftEmpty(s, c, ch) ==
  IF ch \notin s.chans[c] THEN s
  ELSE [s EXCEPT !.chans[c] = @ \ {ch}, !.channels[ch] = Left(s, c, ch)]
unsubscribeChannel(s, c, ch) ==
  IF ch \notin s.chans[c] THEN s
  ELSE [s EXCEPT !.chans[c] = @ \ {ch},
                 !.channels = IF Left(s, c, ch) = << >>
                              THEN [x \in DOMAIN @ \ {ch} |-> @[x]]
                              ELSE [@ EXCEPT ![ch] = Left(s, c, ch)]]

subscribePattern(s, c, p) ==
  IF p \in s.pats[c] THEN s
  ELSE [s EXCEPT !.pats[c] = @ \cup {p},
                 !.patterns = Append(@, [client |-> c, pattern |-> p])]

(* unsubscribePattern: compare() is not 0 on names that differ, so that    *)
(* the entry that goes is the client's first one of another pattern.       *)
unsubscribePattern(s, c, p) ==
  LET others == {i \in DOMAIN s.patterns : s.patterns[i].pattern # p /\ s.patterns[i].client = c}
  IN IF p \notin s.pats[c] THEN s
     ELSE [s EXCEPT !.pats[c] = @ \ {p}, !.patterns = WithoutFirst(@, others)]

(* publishMessage: how often a client gets a message of a channel, once    *)
(* for each place it has in the two lists.                                 *)
Listeners(ch) == IF ch \in DOMAIN subs.channels THEN subs.channels[ch] ELSE << >>
Messages(c, ch) ==
  Cardinality({i \in DOMAIN Listeners(ch) : Listeners(ch)[i] = c})
    + Cardinality({i \in DOMAIN subs.patterns :
                     subs.patterns[i].client = c /\ <<subs.patterns[i].pattern, ch>> \in Fits})
-----------------------------------------------------------------------------
(* sentinelCommandTable: the least argc of each command.                   *)
Arity == [ping |-> 1, subscribe |-> 2, unsubscribe |-> 1, psubscribe |-> 2,
          punsubscribe |-> 1, publish |-> 3, role |-> 1]

(* CommandTable::dealWithCommand runs a command that it has and that has   *)
(* arguments enough; otherwise it only answers, as it does to ping, role   *)
(* and publish, whose hello messages SentinelView has.                     *)
Argv(command) ==
  {<<CommandName[command]>> \o args :
     args \in UNION {[1..n -> Arguments] : n \in (Arity[command] - 1)..(MaxArgc - 1)}}

(* The loop of a command over the names that it is given.                  *)
Applied(command, s, c, x) ==
  CASE command = "subscribe"    -> subscribeChannel(s, c, x)
    [] command = "unsubscribe"  -> unsubscribeChannel(s, c, x)
    [] command = "psubscribe"   -> subscribePattern(s, c, x)
    [] command = "punsubscribe" -> unsubscribePattern(s, c, x)

Handled(command, c, names) ==
  LET s[n \in 0..Len(names)] ==
        IF n = 0 THEN subs ELSE Applied(command, s[n - 1], c, names[n])
  IN s[Len(names)]

EndCommand(s, c) ==
  flagged' = IF getSubscriptionsCount(s, c) = 0 THEN flagged \ {c} ELSE flagged

subscribeCommand(c) ==
  \E argv \in Argv("subscribe") :
    /\ subs' = Handled("subscribe", c, argv)
    /\ flagged' = flagged \cup {c}
    /\ UNCHANGED handler

psubscribeCommand(c) ==
  \E argv \in Argv("psubscribe") :
    /\ subs' = Handled("psubscribe", c, argv)
    /\ Len(subs'.patterns) <= MaxPatterns
    /\ flagged' = flagged \cup {c}
    /\ UNCHANGED handler

(* The command alone means everything: the loops walk the client's own     *)
(* containers, in any order here.                                          *)
unsubscribeCommand(c) ==
  \E argv \in Argv("unsubscribe") :
    \E names \in IF Len(argv) = 1 THEN SetToSeqs(subs.chans[c]) ELSE {argv} :
       /\ subs' = Handled("unsubscribe", c, names)
       /\ EndCommand(subs', c)
       /\ handler' \in IF subs' = subs THEN {"alive"} ELSE {"alive", "crashed"}

(* unsubscribeAllPatterns ends without a return as well.                   *)
punsubscribeCommand(c) ==
  \E argv \in Argv("punsubscribe") :
    \E names \in IF Len(argv) = 1 THEN SetToSeqs(subs.pats[c]) ELSE {argv} :
       /\ subs' = Handled("punsubscribe", c, names)
       /\ EndCommand(subs', c)
       /\ handler' \in IF Len(argv) = 1 THEN {"alive", "crashed"} ELSE {"alive"}

PubSubNext ==
  /\ handler = "alive"
  /\ \E c \in Subscribers :
       \/ subscribeCommand(c) \/ unsubscribeCommand(c)
       \/ psubscribeCommand(c) \/ punsubscribeCommand(c)

PubSubSpec == PubSubInit /\ [][PubSubNext]_pubSubVars
-----------------------------------------------------------------------------
PubSubTypeOK ==
  /\ subs = [chans |-> subs.chans, pats |-> subs.pats,
             channels |-> subs.channels, patterns |-> subs.patterns]
  /\ subs.chans \in [Subscribers -> SUBSET Names] /\ subs.pats \in [Subscribers -> SUBSET Names]
  /\ \A ch \in DOMAIN subs.channels : ch \in Names /\ subs.channels[ch] \in Seq(Subscribers)
  /\ subs.patterns \in Seq([client : Subscribers, pattern : Names])
  /\ flagged \subseteq Subscribers /\ handler \in {"alive", "crashed"}

(* After any commands of any clients the two sides of a subscription       *)
(* agree: a message of a channel goes once to each client that believes to *)
(* be subscribed to it and to no other, apart from patterns; no channel    *)
(* that everybody left stays in the map; and a client is in Pub/Sub mode   *)
(* while it has subscriptions and no longer.                               *)
DirectionsAgree ==
  handler = "alive" =>
    /\ \A c \in Subscribers, ch \in Names :
         (\A i \in DOMAIN subs.patterns : subs.patterns[i].client # c) =>
           Messages(c, ch) = IF ch \in subs.chans[c] THEN 1 ELSE 0
    /\ DOMAIN subs.channels = UNION {subs.chans[c] : c \in Subscribers}
    /\ flagged = {c \in Subscribers : getSubscriptionsCount(subs, c) > 0}
=============================================================================
