---------------------------- MODULE SentinelProofs ----------------------------
(***************************************************************************)
(* The entries of the sentinels stay distinct because a link was handed    *)
(* out once (it is below nextLink) and is passed on only to entries of the *)
(* same runid, for any number of masters, sentinels, addresses and epochs. *)
(* Apart states this of any views, for a hello goes through an             *)
(* intermediate one: the entry of the old owner of an address loses it,    *)
(* then the new entry is made.  A hello that changes the address of the    *)
(* master removes its entries, and only the types are left to show.        *)
(*                                                                         *)
(* And about a failover: two sets of sentinels that both have the quorum   *)
(* and a majority would be more than all the sentinels; the flags of the   *)
(* master and its slaves follow the failover's state through every step,   *)
(* because a slave passes on its stage of reconfiguration, never keeps two.*)
(***************************************************************************)
EXTENDS SentinelView, InstanceInfo, FiniteSetTheorems, TLAPS

ViewType ==
  /\ configEpoch \in [Masters -> Nat]
  /\ masterAddr \in [Masters -> Addrs]

LEMMA ViewStarts == SentinelViewInit => ViewType
  BY SentinelViewAssumption DEF SentinelViewInit, ViewType

(* Only a hello of a known sentinel changes what is known of a master.     *)
LEMMA ViewStep == ViewType /\ [SentinelViewNext]_sentinelVars => ViewType'
<1> SUFFICES ASSUME ViewType, [SentinelViewNext]_sentinelVars PROVE ViewType'
  OBVIOUS
<1>1. ASSUME NEW h \in Hello, HelloKnown(h) PROVE ViewType'
  <2>1. h.master \in Masters /\ h.config \in Config
    BY DEF Hello
  <2>2. h.config.epoch \in Nat /\ h.config.at \in Addrs
    BY <2>1, SentinelViewAssumption DEF Config, Epochs
  <2>3. configEpoch' \in [Masters -> Nat]
    BY <1>1, <2>1, <2>2 DEF HelloKnown, ViewType
  <2>4. masterAddr' \in [Masters -> Addrs]
    BY <1>1, <2>1, <2>2 DEF HelloKnown, resetMasterAndChangeAddress, ViewType
  <2> QED BY <2>3, <2>4 DEF ViewType
<1>2. CASE UNCHANGED <<configEpoch, masterAddr>>
  BY <1>2 DEF ViewType
<1>3. CASE processHelloMessage
  BY <1>1, <1>2, <1>3 DEF processHelloMessage, HelloMoved, HelloNew
<1>4. CASE setLink \/ resetMasterByPattern \/ generateInitMonitorEvents
  BY <1>2, <1>4 DEF setLink, resetMasterByPattern, generateInitMonitorEvents
<1> QED BY <1>2, <1>3, <1>4 DEF SentinelViewNext, sentinelVars
-----------------------------------------------------------------------------
Views == [Masters -> UNION {[R -> Entry] : R \in SUBSET Runids}]

(* Valid entries of a master have different addresses, a link belongs to   *)
(* one runid and was handed out, and what is not valid has no open link.   *)
Apart(views, open, next) ==
  /\ \A m \in Masters : \A r, s \in DOMAIN views[m] :
       r # s /\ views[m][r].valid /\ views[m][s].valid => views[m][r].at # views[m][s].at
  /\ \A m, n \in Masters : \A r \in DOMAIN views[m], s \in DOMAIN views[n] :
       views[m][r].link # NoLink /\ r # s => views[m][r].link # views[n][s].link
  /\ \A m \in Masters : \A r \in DOMAIN views[m] : views[m][r].link < next
  /\ \A m \in Masters : \A r \in DOMAIN views[m] :
       ~views[m][r].valid => views[m][r].link \notin open

EntryInv ==
  /\ ViewType
  /\ currentEpoch \in Epochs
  /\ sentinels \in Views
  /\ openLinks \subseteq Links /\ nextLink \in 1..(MaxLinks + 1)
  /\ proc \in {"alive", "crashed", "hung"}
  /\ proc = "alive" => Apart(sentinels, openLinks, nextLink)

LEMMA ViewsHaveEntries ==
  ASSUME NEW views \in Views, NEW m \in Masters
  PROVE  /\ views[m] \in UNION {[R -> Entry] : R \in SUBSET Runids}
         /\ DOMAIN views[m] \subseteq Runids
         /\ \A r \in DOMAIN views[m] :
              /\ views[m][r] \in Entry /\ views[m][r].at \in Addrs
              /\ views[m][r].valid \in BOOLEAN
              /\ views[m][r].link \in Links \cup {NoLink}
         /\ views[m] = [r \in DOMAIN views[m] |-> views[m][r]]
  BY DEF Views, Entry

LEMMA ViewOf ==
  ASSUME NEW f, DOMAIN f \subseteq Runids, f = [r \in DOMAIN f |-> f[r]],
         \A r \in DOMAIN f : f[r] \in Entry
  PROVE  f \in UNION {[R -> Entry] : R \in SUBSET Runids}
<1>1. f \in [DOMAIN f -> Entry]
  OBVIOUS
<1> QED BY <1>1

(* setPort(0) on one entry, and the same address for those it finds: no    *)
(* entry is lost, links stay, and a valid entry is what it was.            *)
LEMMA Invalidated ==
  ASSUME sentinels \in Views, NEW m \in Masters, NEW r \in Known(m), NEW at \in Addrs
  PROVE  LET invalid == WithoutPort(m, r)
             views   == Readdressed(invalid, r, at)
         IN /\ invalid \in Views /\ views \in Views
            /\ \A n \in Masters : /\ DOMAIN invalid[n] = Known(n)
                                  /\ DOMAIN views[n] = Known(n)
            /\ \A n \in Masters : \A q \in Known(n) :
                 /\ invalid[n][q].link = sentinels[n][q].link
                 /\ invalid[n][q].valid = (sentinels[n][q].valid /\ ~(n = m /\ q = r))
                 /\ views[n][q].link = sentinels[n][q].link
                 /\ views[n][q].valid = (sentinels[n][q].valid /\ ~(n = m /\ q = r))
                 /\ views[n][q].valid => views[n][q].at = sentinels[n][q].at
<1> DEFINE invalid == WithoutPort(m, r)
           views   == Readdressed(invalid, r, at)
<1>1. sentinels[m][r] \in Entry
  BY ViewsHaveEntries DEF Known
<1>2. invalid = [sentinels EXCEPT ![m] = [sentinels[m] EXCEPT ![r] = [sentinels[m][r] EXCEPT !.valid = FALSE]]]
  BY <1>1, ViewsHaveEntries DEF WithoutPort, Views
<1>3. /\ DOMAIN invalid = Masters
      /\ \A n \in Masters \ {m} : invalid[n] = sentinels[n]
      /\ invalid[m] = [sentinels[m] EXCEPT ![r] = [sentinels[m][r] EXCEPT !.valid = FALSE]]
  BY <1>2 DEF Views
<1>4. [sentinels[m][r] EXCEPT !.valid = FALSE] \in Entry
  BY <1>1 DEF Entry
<1>5. /\ \A n \in Masters : DOMAIN invalid[n] = Known(n)
      /\ invalid[m][r] = [sentinels[m][r] EXCEPT !.valid = FALSE]
      /\ \A n \in Masters : \A q \in Known(n) : ~(n = m /\ q = r) => invalid[n][q] = sentinels[n][q]
  BY <1>3, ViewsHaveEntries DEF Known
<1>6. ASSUME NEW n \in Masters
      PROVE  invalid[n] \in UNION {[R -> Entry] : R \in SUBSET Runids}
  <2>1. CASE n # m
    BY <1>3, <2>1, ViewsHaveEntries
  <2>2. CASE n = m
    <3>1. \A q \in DOMAIN invalid[m] : invalid[m][q] \in Entry
      BY <1>4, <1>5, ViewsHaveEntries DEF Known
    <3>2. invalid[m] = [q \in DOMAIN invalid[m] |-> invalid[m][q]]
      BY <1>3
    <3>3. DOMAIN invalid[m] \subseteq Runids
      BY <1>5, ViewsHaveEntries DEF Known
    <3> HIDE DEF invalid
    <3> QED BY <2>2, <3>1, <3>2, <3>3, ViewOf
  <2> QED BY <2>1, <2>2
<1>7. invalid = [n \in Masters |-> invalid[n]]
  BY <1>2 DEF Views
<1>8. invalid \in Views
  <2> HIDE DEF invalid
  <2> QED BY <1>6, <1>7 DEF Views
<1>9. ASSUME NEW n \in Masters, NEW q \in Known(n)
      PROVE  /\ invalid[n][q].link = sentinels[n][q].link
             /\ invalid[n][q].at = sentinels[n][q].at
             /\ invalid[n][q].valid = (sentinels[n][q].valid /\ ~(n = m /\ q = r))
  <2>0. sentinels[n][q].valid \in BOOLEAN
    BY ViewsHaveEntries DEF Known
  <2>1. CASE n = m /\ q = r
    BY <1>1, <1>5, <2>1 DEF Entry
  <2>2. CASE ~(n = m /\ q = r)
    <3>1. invalid[n][q] = sentinels[n][q]
      BY <1>5, <2>2
    <3> HIDE DEF invalid
    <3> QED BY <2>0, <2>2, <3>1
  <2> QED BY <2>1, <2>2
<1> HIDE DEF invalid
<1>10. ASSUME NEW n \in Masters
       PROVE  /\ views[n] \in UNION {[R -> Entry] : R \in SUBSET Runids}
              /\ DOMAIN views[n] = Known(n)
              /\ \A q \in Known(n) :
                   /\ views[n][q].link = invalid[n][q].link
                   /\ views[n][q].valid = invalid[n][q].valid
                   /\ views[n][q].valid => views[n][q].at = invalid[n][q].at
  <2>1. CASE n \notin Matches(invalid, r)
    <3>1. views[n] = invalid[n]
      BY <2>1 DEF Readdressed
    <3> HIDE DEF views
    <3> QED BY <1>5, <1>6, <3>1
  <2>2. CASE n \in Matches(invalid, r)
    <3>1. r \in DOMAIN invalid[n] /\ ~invalid[n][r].valid
      BY <2>2 DEF Matches, ByRunidAndPort0
    <3>2. views[n] = [invalid[n] EXCEPT ![r] = [invalid[n][r] EXCEPT !.at = at]]
      BY <1>8, <2>2, <3>1, ViewsHaveEntries DEF Readdressed
    <3>3. /\ invalid[n][r] \in Entry
          /\ [invalid[n][r] EXCEPT !.at = at] \in Entry
      <4>1. invalid[n][r] \in Entry
        BY <1>8, <3>1, ViewsHaveEntries
      <4> QED BY <4>1 DEF Entry
    <3>4. /\ DOMAIN views[n] = DOMAIN invalid[n]
          /\ views[n] = [q \in DOMAIN views[n] |-> views[n][q]]
          /\ views[n][r] = [invalid[n][r] EXCEPT !.at = at]
          /\ \A q \in DOMAIN invalid[n] \ {r} : views[n][q] = invalid[n][q]
      BY <1>8, <3>1, <3>2, ViewsHaveEntries
    <3>5. /\ views[n][r].link = invalid[n][r].link
          /\ views[n][r].valid = invalid[n][r].valid
          /\ ~views[n][r].valid
      BY <3>1, <3>3, <3>4 DEF Entry
    <3> HIDE DEF views
    <3>6. \A q \in DOMAIN views[n] : views[n][q] \in Entry
      BY <1>8, <3>3, <3>4, ViewsHaveEntries
    <3>7. views[n] \in UNION {[R -> Entry] : R \in SUBSET Runids}
      <4>1. DOMAIN views[n] \subseteq Runids
        BY <1>8, <3>4, ViewsHaveEntries
      <4> QED BY <3>4, <3>6, <4>1, ViewOf
    <3>8. DOMAIN views[n] = Known(n)
      BY <1>5, <3>4
    <3>9. ASSUME NEW q \in Known(n)
          PROVE  /\ views[n][q].link = invalid[n][q].link
                 /\ views[n][q].valid = invalid[n][q].valid
                 /\ views[n][q].valid => views[n][q].at = invalid[n][q].at
      <4>1. CASE q = r
        BY <3>5, <4>1
      <4>2. CASE q # r
        BY <1>5, <3>4, <4>2
      <4> QED BY <4>1, <4>2
    <3> QED BY <3>7, <3>8, <3>9
  <2> QED BY <2>1, <2>2
<1>11. views \in Views
  <2>1. views = [n \in Masters |-> views[n]]
    BY DEF Readdressed
  <2> HIDE DEF views
  <2> QED BY <1>10, <2>1 DEF Views
<1> HIDE DEF views
<1>12. ASSUME NEW n \in Masters, NEW q \in Known(n)
       PROVE  /\ views[n][q].link = sentinels[n][q].link
              /\ views[n][q].valid = (sentinels[n][q].valid /\ ~(n = m /\ q = r))
              /\ views[n][q].valid => views[n][q].at = sentinels[n][q].at
  BY <1>9, <1>10
<1> QED BY <1>5, <1>8, <1>9, <1>10, <1>11, <1>12 DEF invalid, views

(* The old owner of an address lost it: views stay apart, and what was     *)
(* connected to the entry is closed with the others that are invalid.      *)
LEMMA InvalidatedApart ==
  ASSUME sentinels \in Views, Apart(sentinels, openLinks, nextLink),
         NEW m \in Masters, NEW r \in Known(m), NEW at \in Addrs
  PROVE  LET invalid == WithoutPort(m, r)
         IN Apart(Readdressed(invalid, r, at), openLinks \ Closed(invalid, r), nextLink)
<1> DEFINE invalid == WithoutPort(m, r)
           views   == Readdressed(invalid, r, at)
           open    == openLinks \ Closed(invalid, r)
<1>1. /\ \A n \in Masters : DOMAIN views[n] = Known(n) /\ DOMAIN invalid[n] = Known(n)
      /\ \A n \in Masters : \A q \in Known(n) :
           /\ invalid[n][q].link = sentinels[n][q].link
           /\ invalid[n][q].valid = (sentinels[n][q].valid /\ ~(n = m /\ q = r))
           /\ views[n][q].link = sentinels[n][q].link
           /\ views[n][q].valid = (sentinels[n][q].valid /\ ~(n = m /\ q = r))
           /\ views[n][q].valid => views[n][q].at = sentinels[n][q].at
  BY Invalidated
<1>2. Matches(invalid, r) = {n \in Masters : r \in Known(n) /\ ~invalid[n][r].valid}
  BY <1>1 DEF Matches, ByRunidAndPort0
<1>3. Closed(invalid, r) = {invalid[n][r].link : n \in Matches(invalid, r)}
  BY DEF Closed
<1> HIDE DEF invalid, views
<1>4. ASSUME NEW n \in Masters, NEW q \in DOMAIN views[n], NEW s \in DOMAIN views[n],
             q # s, views[n][q].valid, views[n][s].valid
      PROVE  views[n][q].at # views[n][s].at
  <2>1. q \in Known(n) /\ s \in Known(n)
    BY <1>1
  <2>2. sentinels[n][q].valid /\ views[n][q].at = sentinels[n][q].at
    BY <1>1, <1>4, <2>1
  <2>3. sentinels[n][s].valid /\ views[n][s].at = sentinels[n][s].at
    BY <1>1, <1>4, <2>1
  <2>4. sentinels[n][q].at # sentinels[n][s].at
    BY <1>4, <2>1, <2>2, <2>3 DEF Apart, Known
  <2> QED BY <2>2, <2>3, <2>4
<1>5. \A n, k \in Masters : \A q \in DOMAIN views[n], s \in DOMAIN views[k] :
        views[n][q].link # NoLink /\ q # s => views[n][q].link # views[k][s].link
  BY <1>1 DEF Apart, Known
<1>6. \A n \in Masters : \A q \in DOMAIN views[n] : views[n][q].link < nextLink
  BY <1>1 DEF Apart, Known
<1>7. ASSUME NEW n \in Masters, NEW q \in DOMAIN views[n], ~views[n][q].valid
      PROVE  views[n][q].link \notin open
  <2>1. CASE n = m /\ q = r
    <3>1. m \in Matches(invalid, r)
      BY <1>1, <1>2
    <3>2. views[n][q].link \in Closed(invalid, r)
      BY <1>1, <1>3, <2>1, <3>1
    <3> QED BY <3>2
  <2>2. CASE ~(n = m /\ q = r)
    <3>1. ~sentinels[n][q].valid /\ q \in Known(n)
      BY <1>1, <1>7, <2>2
    <3>2. sentinels[n][q].link \notin openLinks
      BY <3>1 DEF Apart, Known
    <3> QED BY <1>1, <3>1, <3>2
  <2> QED BY <2>1, <2>2
<1> HIDE DEF open
<1>8. Apart(views, open, nextLink)
  BY <1>4, <1>5, <1>6, <1>7 DEF Apart
<1> QED BY <1>8 DEF invalid, views, open

(* A new entry at an address that no valid entry of its master has.        *)
LEMMA AddedApart ==
  ASSUME NEW views \in Views, NEW open \in SUBSET Links, NEW next \in 1..(MaxLinks + 1),
         Apart(views, open, next),
         NEW m \in Masters, NEW runid \in Runids, runid \notin DOMAIN views[m], NEW at \in Addrs,
         \A s \in DOMAIN views[m] : views[m][s].valid => views[m][s].at # at,
         NEW link \in SharedLinks(views, m, runid)
  PROVE  LET added == [views EXCEPT ![m] =
                         Has(@, runid, [at |-> at, valid |-> TRUE, link |-> link])]
         IN added \in Views /\ Apart(added, open, next)
<1> DEFINE entry == [at |-> at, valid |-> TRUE, link |-> link]
           added == [views EXCEPT ![m] = Has(@, runid, entry)]
<1>1. \/ link = NoLink
      \/ \E n \in Masters : runid \in DOMAIN views[n] /\ link = views[n][runid].link
  BY DEF SharedLinks, Matches, ByRunidAndPort0
<1>2. link \in Links \cup {NoLink} /\ link < next
  <2>1. CASE link = NoLink
    BY <2>1 DEF NoLink
  <2>2. ASSUME NEW n \in Masters, runid \in DOMAIN views[n], link = views[n][runid].link
        PROVE  link \in Links \cup {NoLink} /\ link < next
    BY <2>2, ViewsHaveEntries DEF Apart
  <2> QED BY <1>1, <2>1, <2>2
<1>3. entry \in Entry /\ entry.at = at /\ entry.valid = TRUE /\ entry.link = link
  BY <1>2 DEF Entry
<1> HIDE DEF entry
<1>4. /\ added = [n \in Masters |-> added[n]]
      /\ \A n \in Masters \ {m} : added[n] = views[n]
      /\ added[m] = Has(views[m], runid, entry)
  BY DEF Views
<1>5. /\ DOMAIN added[m] = DOMAIN views[m] \cup {runid}
      /\ added[m] = [r \in DOMAIN added[m] |-> added[m][r]]
      /\ added[m][runid] = entry
      /\ \A r \in DOMAIN views[m] : added[m][r] = views[m][r]
  <2>1. added[m] = [z \in DOMAIN views[m] \cup {runid} |->
                      IF z = runid THEN entry ELSE views[m][z]]
    BY <1>4 DEF Has
  <2> HIDE DEF added
  <2>2. DOMAIN added[m] = DOMAIN views[m] \cup {runid}
    BY <2>1
  <2>3. \A r \in DOMAIN views[m] \cup {runid} :
          added[m][r] = IF r = runid THEN entry ELSE views[m][r]
    BY <2>1
  <2>4. added[m] = [r \in DOMAIN added[m] |-> added[m][r]]
    BY <2>1
  <2> QED BY <2>2, <2>3, <2>4
<1> HIDE DEF added
<1>6. added[m] \in UNION {[R -> Entry] : R \in SUBSET Runids}
  <2>1. DOMAIN added[m] \subseteq Runids
    BY <1>5, ViewsHaveEntries
  <2>2. ASSUME NEW r \in DOMAIN added[m] PROVE added[m][r] \in Entry
    <3>1. CASE r = runid
      BY <1>3, <1>5, <3>1
    <3>2. CASE r # runid
      <4>1. r \in DOMAIN views[m] /\ added[m][r] = views[m][r]
        BY <1>5, <3>2
      <4> QED BY <4>1, ViewsHaveEntries
    <3> QED BY <3>1, <3>2
  <2> QED BY <1>5, <2>1, <2>2, ViewOf
<1>7. added \in Views
  <2>1. \A n \in Masters : added[n] \in UNION {[R -> Entry] : R \in SUBSET Runids}
    BY <1>4, <1>6, ViewsHaveEntries
  <2> QED BY <1>4, <2>1 DEF Views
<1>8. ASSUME NEW n \in Masters, NEW r \in DOMAIN added[n]
      PROVE  \/ r \in DOMAIN views[n] /\ added[n][r] = views[n][r]
             \/ n = m /\ r = runid /\ added[n][r] = entry
  BY <1>4, <1>5
<1>9. ASSUME NEW n \in Masters, NEW r \in DOMAIN added[n], NEW s \in DOMAIN added[n],
             r # s, added[n][r].valid, added[n][s].valid
      PROVE  added[n][r].at # added[n][s].at
  BY <1>3, <1>8, <1>9 DEF Apart
<1>10. ASSUME NEW n \in Masters, NEW k \in Masters,
              NEW r \in DOMAIN added[n], NEW s \in DOMAIN added[k],
              added[n][r].link # NoLink, r # s
       PROVE  added[n][r].link # added[k][s].link
  <2>1. \A j \in Masters : \A q \in DOMAIN added[j] :
          \/ q \in DOMAIN views[j] /\ added[j][q] = views[j][q]
          \/ q = runid /\ added[j][q].link = link
    BY <1>3, <1>8
  <2>2. \A j \in Masters : \A q \in DOMAIN added[j] :
          \/ added[j][q].link = NoLink
          \/ \E i \in Masters : q \in DOMAIN views[i] /\ added[j][q].link = views[i][q].link
    BY <1>1, <2>1
  <2> QED BY <1>10, <2>2 DEF Apart
<1>11. ASSUME NEW n \in Masters, NEW r \in DOMAIN added[n] PROVE added[n][r].link < next
  BY <1>2, <1>3, <1>8 DEF Apart
<1>12. ASSUME NEW n \in Masters, NEW r \in DOMAIN added[n], ~added[n][r].valid
       PROVE  added[n][r].link \notin open
  BY <1>3, <1>8, <1>12 DEF Apart
<1>13. Apart(added, open, next)
  BY <1>9, <1>10, <1>11, <1>12 DEF Apart
<1> QED BY <1>7, <1>13 DEF added, entry

LEMMA EntriesStart == SentinelViewInit => EntryInv
<1> SUFFICES ASSUME SentinelViewInit PROVE EntryInv
  OBVIOUS
<1>1. ViewType /\ proc = "alive" /\ currentEpoch = 0 /\ openLinks = {} /\ nextLink = 1
  BY ViewStarts DEF SentinelViewInit
<1>2. << >> \in UNION {[R -> Entry] : R \in SUBSET Runids} /\ DOMAIN << >> = {}
  <2>1. << >> \in [{} -> Entry]
    OBVIOUS
  <2> QED BY <2>1
<1>3. sentinels \in Views /\ \A m \in Masters : DOMAIN sentinels[m] = {}
  BY <1>2 DEF SentinelViewInit, Views
<1>4. Apart(sentinels, openLinks, nextLink)
  BY <1>3 DEF Apart
<1>5. 0 \in Epochs /\ 1 \in 1..(MaxLinks + 1)
  BY SentinelViewAssumption DEF Epochs
<1> QED BY <1>1, <1>3, <1>4, <1>5 DEF EntryInv

LEMMA RaisedIsEpoch ==
  ASSUME currentEpoch \in Epochs, NEW h \in Hello, RaiseEpoch(h.epoch)
  PROVE  currentEpoch' \in Epochs
  BY DEF RaiseEpoch, Hello

LEMMA NewKeepsEntries ==
  ASSUME EntryInv, proc = "alive", ViewType', NEW h \in Hello, HelloNew(h)
  PROVE  EntryInv'
<1> DEFINE m == h.master
           another == ByAddr(sentinels[m], h.at)
           Added(views, link) ==
             [views EXCEPT ![m] = Has(@, h.runid, [at |-> h.at, valid |-> TRUE, link |-> link])]
           Freed(views, closed) ==
             /\ openLinks' = openLinks \ closed
             /\ \E link \in SharedLinks(views, m, h.runid) : sentinels' = Added(views, link)
             /\ RaiseEpoch(h.epoch)
             /\ proc' = "alive"
<1>1. /\ m \in Masters /\ h.runid \in Runids \ Known(m) /\ h.at \in Addrs
      /\ nextLink' = nextLink
  BY DEF HelloNew, Hello
<1>2. \/ another = {} /\ Freed(sentinels, {})
      \/ \E r \in another :
           LET invalid == WithoutPort(m, r)
           IN \/ /\ proc' = "crashed" /\ sentinels' = invalid
                 /\ UNCHANGED <<currentEpoch, openLinks>>
              \/ Freed(Readdressed(invalid, r, h.at), Closed(invalid, r))
  BY DEF HelloNew
<1>3. /\ sentinels \in Views /\ openLinks \subseteq Links /\ nextLink \in 1..(MaxLinks + 1)
      /\ currentEpoch \in Epochs /\ Apart(sentinels, openLinks, nextLink)
  BY DEF EntryInv
<1>4. ASSUME NEW views \in Views, NEW closed, Apart(views, openLinks \ closed, nextLink),
             DOMAIN views[m] = Known(m),
             \A s \in DOMAIN views[m] : views[m][s].valid => views[m][s].at # h.at,
             Freed(views, closed)
      PROVE  EntryInv'
  <2>1. PICK link \in SharedLinks(views, m, h.runid) : sentinels' = Added(views, link)
    BY <1>4
  <2>2. openLinks \ closed \in SUBSET Links /\ openLinks' = openLinks \ closed
    BY <1>3, <1>4
  <2>3. h.runid \notin DOMAIN views[m]
    BY <1>1, <1>4
  <2>4. sentinels' \in Views /\ Apart(sentinels', openLinks \ closed, nextLink)
    BY <1>1, <1>3, <1>4, <2>1, <2>2, <2>3, AddedApart
  <2>5. currentEpoch' \in Epochs /\ proc' = "alive"
    BY <1>3, <1>4, RaisedIsEpoch
  <2> QED BY <1>1, <1>3, <2>2, <2>4, <2>5 DEF EntryInv, Apart
<1>5. CASE another = {} /\ Freed(sentinels, {})
  <2>1. \A s \in Known(m) : sentinels[m][s].valid => sentinels[m][s].at # h.at
    BY <1>5 DEF ByAddr, Known
  <2>2. openLinks \ {} = openLinks
    OBVIOUS
  <2> HIDE DEF Freed
  <2> QED BY <1>3, <1>4, <1>5, <2>1, <2>2 DEF Known
<1>6. ASSUME NEW r \in another PROVE
        LET invalid == WithoutPort(m, r)
            views   == Readdressed(invalid, r, h.at)
        IN /\ r \in Known(m)
           /\ invalid \in Views /\ views \in Views /\ DOMAIN views[m] = Known(m)
           /\ \A s \in DOMAIN views[m] : views[m][s].valid => views[m][s].at # h.at
           /\ Apart(views, openLinks \ Closed(invalid, r), nextLink)
  <2> DEFINE invalid == WithoutPort(m, r)
             views   == Readdressed(invalid, r, h.at)
  <2>1. r \in Known(m) /\ sentinels[m][r].valid /\ sentinels[m][r].at = h.at
    BY <1>6 DEF ByAddr, Known
  <2>2. /\ invalid \in Views /\ views \in Views /\ DOMAIN views[m] = Known(m)
        /\ \A q \in Known(m) :
             /\ views[m][q].valid = (sentinels[m][q].valid /\ ~(m = m /\ q = r))
             /\ views[m][q].valid => views[m][q].at = sentinels[m][q].at
    BY <1>1, <1>3, <2>1, Invalidated
  <2>3. Apart(views, openLinks \ Closed(invalid, r), nextLink)
    BY <1>1, <1>3, <2>1, InvalidatedApart
  <2> HIDE DEF invalid, views
  <2>4. ASSUME NEW s \in Known(m), views[m][s].valid PROVE views[m][s].at # h.at
    <3>1. sentinels[m][s].valid /\ s # r /\ views[m][s].at = sentinels[m][s].at
      BY <2>2, <2>4
    <3>2. sentinels[m][s].at # sentinels[m][r].at
      BY <1>1, <1>3, <2>1, <3>1 DEF Apart, Known
    <3> QED BY <2>1, <3>1, <3>2
  <2> QED BY <2>1, <2>2, <2>3, <2>4 DEF invalid, views
<1>7. ASSUME NEW r \in another, proc' = "crashed", sentinels' = WithoutPort(m, r),
             UNCHANGED <<currentEpoch, openLinks>>
      PROVE  EntryInv'
  BY <1>1, <1>3, <1>6, <1>7 DEF EntryInv
<1>8. ASSUME NEW r \in another,
             Freed(Readdressed(WithoutPort(m, r), r, h.at), Closed(WithoutPort(m, r), r))
      PROVE  EntryInv'
  <2> HIDE DEF Freed
  <2> QED BY <1>4, <1>6, <1>8
<1> HIDE DEF Freed, another
<1> QED BY <1>2, <1>5, <1>7, <1>8

LEMMA LinkKeepsEntries ==
  ASSUME EntryInv, ViewType', setLink
  PROVE  EntryInv'
<1>1. PICK m \in Masters : \E r \in Known(m) :
        /\ sentinels[m][r].valid /\ sentinels[m][r].link = NoLink
        /\ sentinels' = [sentinels EXCEPT ![m][r].link = nextLink]
  BY DEF setLink
<1>2. PICK r \in Known(m) :
        /\ sentinels[m][r].valid /\ sentinels[m][r].link = NoLink
        /\ sentinels' = [sentinels EXCEPT ![m][r].link = nextLink]
  BY <1>1
<1>3. /\ nextLink \in Links /\ nextLink' = nextLink + 1 /\ openLinks' = openLinks \cup {nextLink}
      /\ UNCHANGED <<currentEpoch, proc>> /\ proc = "alive"
  BY DEF setLink
<1>4. sentinels \in Views /\ Apart(sentinels, openLinks, nextLink) /\ openLinks \subseteq Links
  BY <1>3 DEF EntryInv
<1> DEFINE linked == [sentinels[m][r] EXCEPT !.link = nextLink]
<1>5. /\ linked \in Entry /\ linked.at = sentinels[m][r].at
      /\ linked.valid = sentinels[m][r].valid /\ linked.link = nextLink
  <2>1. sentinels[m][r] \in Entry
    BY <1>4, ViewsHaveEntries DEF Known
  <2> QED BY <1>3, <2>1 DEF Entry
<1>6. /\ sentinels' = [n \in Masters |-> sentinels'[n]]
      /\ \A n \in Masters \ {m} : sentinels'[n] = sentinels[n]
      /\ sentinels'[m] = [sentinels[m] EXCEPT ![r] = linked]
  BY <1>2, <1>4 DEF Views
<1> HIDE DEF linked
<1>7. /\ DOMAIN sentinels'[m] = Known(m)
      /\ sentinels'[m] = [q \in DOMAIN sentinels'[m] |-> sentinels'[m][q]]
      /\ sentinels'[m][r] = linked
      /\ \A q \in Known(m) \ {r} : sentinels'[m][q] = sentinels[m][q]
  BY <1>4, <1>6, ViewsHaveEntries DEF Known
<1>8. ASSUME NEW n \in Masters, NEW q \in DOMAIN sentinels'[n]
      PROVE  /\ q \in DOMAIN sentinels[n]
             /\ \/ sentinels'[n][q] = sentinels[n][q]
                \/ n = m /\ q = r /\ sentinels'[n][q] = linked
  BY <1>6, <1>7 DEF Known
<1>9. sentinels' \in Views
  <2>1. DOMAIN sentinels'[m] \subseteq Runids
    BY <1>4, <1>7, ViewsHaveEntries DEF Known
  <2>2. \A q \in DOMAIN sentinels'[m] : sentinels'[m][q] \in Entry
    BY <1>4, <1>5, <1>8, ViewsHaveEntries
  <2>3. sentinels'[m] \in UNION {[R -> Entry] : R \in SUBSET Runids}
    BY <1>7, <2>1, <2>2, ViewOf
  <2>4. \A n \in Masters : sentinels'[n] \in UNION {[R -> Entry] : R \in SUBSET Runids}
    BY <1>4, <1>6, <2>3, ViewsHaveEntries
  <2> QED BY <1>6, <2>4 DEF Views
<1>10. ASSUME NEW n \in Masters, NEW q \in DOMAIN sentinels'[n]
       PROVE  /\ sentinels'[n][q].valid = sentinels[n][q].valid
              /\ sentinels'[n][q].at = sentinels[n][q].at
              /\ \/ sentinels'[n][q].link = sentinels[n][q].link
                 \/ n = m /\ q = r /\ sentinels'[n][q].link = nextLink
  BY <1>5, <1>8
<1>11. \A n \in Masters : \A q \in DOMAIN sentinels[n] :
         sentinels[n][q].link # nextLink /\ sentinels[n][q].link \in Links \cup {NoLink}
  <2>1. ASSUME NEW n \in Masters, NEW q \in DOMAIN sentinels[n]
        PROVE  sentinels[n][q].link < nextLink /\ sentinels[n][q].link \in Links \cup {NoLink}
    BY <1>4, ViewsHaveEntries DEF Apart
  <2>2. \A l \in Links \cup {NoLink} : l < nextLink => l # nextLink
    BY <1>3 DEF Links, NoLink
  <2> QED BY <2>1, <2>2
<1>12. ASSUME NEW n \in Masters, NEW q \in DOMAIN sentinels'[n], NEW s \in DOMAIN sentinels'[n],
              q # s, sentinels'[n][q].valid, sentinels'[n][s].valid
       PROVE  sentinels'[n][q].at # sentinels'[n][s].at
  <2>1. q \in DOMAIN sentinels[n] /\ s \in DOMAIN sentinels[n]
    BY <1>8
  <2> QED BY <1>4, <1>10, <1>12, <2>1 DEF Apart
<1>13. ASSUME NEW n \in Masters, NEW k \in Masters,
              NEW q \in DOMAIN sentinels'[n], NEW s \in DOMAIN sentinels'[k],
              sentinels'[n][q].link # NoLink, q # s
       PROVE  sentinels'[n][q].link # sentinels'[k][s].link
  <2>1. q \in DOMAIN sentinels[n] /\ s \in DOMAIN sentinels[k]
    BY <1>8
  <2> QED BY <1>4, <1>10, <1>11, <1>13, <2>1 DEF Apart
<1>14. ASSUME NEW n \in Masters, NEW q \in DOMAIN sentinels'[n]
       PROVE  sentinels'[n][q].link < nextLink'
  <2>1. q \in DOMAIN sentinels[n]
    BY <1>8
  <2>2. sentinels[n][q].link < nextLink /\ sentinels[n][q].link \in Links \cup {NoLink}
    BY <1>4, <1>11, <2>1 DEF Apart
  <2>3. sentinels'[n][q].link = nextLink \/ sentinels'[n][q].link = sentinels[n][q].link
    BY <1>10
  <2> QED BY <1>3, <2>2, <2>3 DEF Links, NoLink
<1>15. ASSUME NEW n \in Masters, NEW q \in DOMAIN sentinels'[n], ~sentinels'[n][q].valid
       PROVE  sentinels'[n][q].link \notin openLinks'
  <2>1. q \in DOMAIN sentinels[n] /\ ~sentinels[n][q].valid
    BY <1>8, <1>10, <1>15
  <2>2. sentinels'[n][q].link = sentinels[n][q].link
    BY <1>2, <1>10, <2>1
  <2>3. sentinels[n][q].link \notin openLinks
    BY <1>4, <2>1 DEF Apart
  <2> QED BY <1>3, <1>11, <2>1, <2>2, <2>3
<1>16. Apart(sentinels', openLinks', nextLink')
  BY <1>12, <1>13, <1>14, <1>15 DEF Apart
<1>17. openLinks' \subseteq Links /\ nextLink' \in 1..(MaxLinks + 1)
  BY <1>3, <1>4, SentinelViewAssumption DEF Links
<1> QED BY <1>3, <1>9, <1>16, <1>17 DEF EntryInv, Apart

LEMMA ResetKeepsEntries ==
  ASSUME EntryInv, ViewType', resetMasterByPattern
  PROVE  EntryInv'
<1>1. UNCHANGED <<currentEpoch, nextLink>> /\ proc = "alive"
  BY DEF resetMasterByPattern
<1>2. sentinels \in Views /\ Apart(sentinels, openLinks, nextLink)
  BY <1>1 DEF EntryInv
<1>3. CASE proc' = "crashed" /\ UNCHANGED <<sentinels, openLinks>>
  BY <1>1, <1>3 DEF EntryInv
<1>4. ASSUME NEW reset \in SUBSET Masters, UNCHANGED <<openLinks, proc>>,
             sentinels' = [m \in Masters |-> IF m \in reset THEN << >> ELSE sentinels[m]]
      PROVE  EntryInv'
  <2>1. << >> \in UNION {[R -> Entry] : R \in SUBSET Runids} /\ DOMAIN << >> = {}
    <3>1. << >> \in [{} -> Entry]
      OBVIOUS
    <3> QED BY <3>1
  <2>2. sentinels' \in Views
    BY <1>2, <1>4, <2>1, ViewsHaveEntries DEF Views
  <2>3. \A n \in Masters : \A q \in DOMAIN sentinels'[n] :
          q \in DOMAIN sentinels[n] /\ sentinels'[n][q] = sentinels[n][q]
    BY <1>4, <2>1
  <2>4. Apart(sentinels', openLinks, nextLink)
    BY <1>2, <2>3 DEF Apart
  <2> QED BY <1>1, <1>4, <2>2, <2>4 DEF EntryInv
<1>5. \/ proc' = "crashed" /\ UNCHANGED <<sentinels, openLinks>>
      \/ \E reset \in SUBSET Masters, andSentinels \in BOOLEAN :
           /\ UNCHANGED <<openLinks, proc>>
           /\ sentinels' = [m \in Masters |-> IF m \in reset /\ andSentinels
                                              THEN << >> ELSE sentinels[m]]
  BY DEF resetMasterByPattern
<1>6. ASSUME NEW reset \in SUBSET Masters, NEW andSentinels \in BOOLEAN,
             UNCHANGED <<openLinks, proc>>,
             sentinels' = [m \in Masters |-> IF m \in reset /\ andSentinels
                                             THEN << >> ELSE sentinels[m]]
      PROVE  EntryInv'
  <2>1. CASE andSentinels
    BY <1>4, <1>6, <2>1
  <2>2. CASE ~andSentinels
    <3>1. sentinels' = [m \in Masters |-> IF m \in {} THEN << >> ELSE sentinels[m]]
      BY <1>6, <2>2
    <3> QED BY <1>4, <1>6, <3>1
  <2> QED BY <2>1, <2>2
<1> QED BY <1>3, <1>5, <1>6

LEMMA EntryStep == EntryInv /\ [SentinelViewNext]_sentinelVars => EntryInv'
<1> SUFFICES ASSUME EntryInv, [SentinelViewNext]_sentinelVars PROVE EntryInv'
  OBVIOUS
<1>1. ViewType'
  BY ViewStep DEF EntryInv
<1>2. ASSUME NEW h \in Hello, proc = "alive", HelloKnown(h) PROVE EntryInv'
  <2>1. currentEpoch' \in Epochs /\ UNCHANGED <<openLinks, nextLink>>
    BY <1>2, RaisedIsEpoch DEF HelloKnown, EntryInv
  <2>2. CASE UNCHANGED <<masterAddr, sentinels, proc>>
    BY <1>1, <2>1, <2>2 DEF EntryInv
  <2>3. CASE resetMasterAndChangeAddress(h.master, h.config.at)
    <3>1. << >> \in UNION {[R -> Entry] : R \in SUBSET Runids}
      <4>1. << >> \in [{} -> Entry]
        OBVIOUS
      <4> QED BY <4>1
    <3>2. sentinels' \in Views
      BY <2>3, <3>1 DEF resetMasterAndChangeAddress, EntryInv, Views
    <3>3. proc' = "crashed"
      BY <2>3 DEF resetMasterAndChangeAddress
    <3> QED BY <1>1, <2>1, <3>2, <3>3 DEF EntryInv
  <2> QED BY <1>2, <2>2, <2>3 DEF HelloKnown
<1>3. ASSUME NEW h \in Hello, HelloMoved(h) PROVE EntryInv'
  <2>1. h.master \in Masters /\ sentinels \in Views
    BY DEF Hello, EntryInv
  <2> DEFINE left == [r \in Known(h.master) \ {h.runid} |-> sentinels[h.master][r]]
  <2>2. left \in UNION {[R -> Entry] : R \in SUBSET Runids}
    <3>1. DOMAIN left \subseteq Runids /\ \A r \in DOMAIN left : left[r] \in Entry
      BY <2>1, ViewsHaveEntries DEF Known
    <3>2. left = [r \in DOMAIN left |-> left[r]]
      OBVIOUS
    <3> HIDE DEF left
    <3> QED BY <3>1, <3>2, ViewOf
  <2>3. sentinels' = [sentinels EXCEPT ![h.master] = left]
    BY <1>3 DEF HelloMoved
  <2> HIDE DEF left
  <2>4. sentinels' \in Views
    BY <2>1, <2>2, <2>3 DEF Views
  <2>5. proc' \in {"hung", "crashed"} /\ UNCHANGED <<currentEpoch, openLinks, nextLink>>
    BY <1>3 DEF HelloMoved
  <2> QED BY <1>1, <2>4, <2>5 DEF EntryInv
<1>4. CASE processHelloMessage
  BY <1>1, <1>2, <1>3, <1>4, NewKeepsEntries DEF processHelloMessage
<1>5. CASE setLink
  BY <1>1, <1>5, LinkKeepsEntries
<1>6. CASE resetMasterByPattern
  BY <1>1, <1>6, ResetKeepsEntries
<1>7. CASE generateInitMonitorEvents
  BY <1>1, <1>7 DEF generateInitMonitorEvents, EntryInv
<1>8. CASE UNCHANGED sentinelVars
  BY <1>1, <1>8 DEF sentinelVars, EntryInv
<1> QED BY <1>4, <1>5, <1>6, <1>7, <1>8 DEF SentinelViewNext

LEMMA EntriesHold == SentinelViewSpec => []EntryInv
  BY EntriesStart, EntryStep, PTL DEF SentinelViewSpec

(* A view keeps its type: every master has epochs, an address of the known *)
(* ones, and entries with runids, addresses and links that were given.     *)
THEOREM ViewTypes == SentinelViewSpec => []SentinelViewTypeOK
<1>1. EntryInv => SentinelViewTypeOK
  <2> SUFFICES ASSUME EntryInv PROVE SentinelViewTypeOK
    OBVIOUS
  <2>1. \A m \in Masters : /\ Known(m) \subseteq Runids
                            /\ \A r \in Known(m) : sentinels[m][r] \in Entry
    BY ViewsHaveEntries DEF EntryInv, Known
  <2> QED BY <2>1 DEF EntryInv, ViewType, SentinelViewTypeOK
<1> QED BY <1>1, EntriesHold, PTL

(* Sentinels that come back under new runids or take addresses of others   *)
(* stay apart: one valid entry of a master for an address, one sentinel    *)
(* for a link, and no open link to an address that was given up.           *)
THEOREM SentinelsStayApart == SentinelViewSpec => []SentinelsDistinct
<1>1. EntryInv => SentinelsDistinct
  BY DEF EntryInv, Apart, SentinelsDistinct, Known
<1> QED BY <1>1, EntriesHold, PTL
-----------------------------------------------------------------------------
(* Failover                                                                *)

(* The peers that are reached and those that are not make up all of them,  *)
(* and two majorities are more than that.                                  *)
LEMMA OneQuorumOnly == NoTwoQuorums
<1> SUFFICES ASSUME NEW down \in SUBSET Peers, NEW p \in down,
                    sentinelIsQuorumReachable(down),
                    sentinelIsQuorumReachable(Peers \ (down \ {p}))
             PROVE  FALSE
  BY DEF NoTwoQuorums
<1> DEFINE n == Cardinality(Peers)
           d == Cardinality(down)
<1>1. IsFiniteSet(Peers) /\ IsFiniteSet(down) /\ n \in Nat /\ d \in Nat
  BY InstanceInfoAssumption, FS_Subset, FS_CardinalityType
<1>2. Cardinality(Peers \ down) = n - d
  <2>1. Peers \cap down = down
    OBVIOUS
  <2> QED BY <1>1, <2>1, FS_Difference
<1>3. Cardinality(Peers \ (Peers \ (down \ {p}))) = d - 1
  <2>1. Peers \ (Peers \ (down \ {p})) = down \ {p}
    OBVIOUS
  <2> QED BY <1>1, <2>1, FS_RemoveElement
<1>4. 1 + (n - d) >= (n + 1) \div 2 + 1
  BY <1>2 DEF sentinelIsQuorumReachable, Majority
<1>5. 1 + (d - 1) >= (n + 1) \div 2 + 1
  BY <1>3 DEF sentinelIsQuorumReachable, Majority
<1> HIDE DEF n, d
<1>6. 2 * ((n + 1) \div 2) >= n
  BY <1>1
<1> QED BY <1>1, <1>4, <1>5, <1>6

Reconfs == {"RECONF_SENT", "RECONF_INPROG", "RECONF_DONE"}

(* What FailoverAgrees counts, without counting.                           *)
OneState(fs) == \A f \in fs \cap Reconfs, g \in fs \cap Reconfs : f = g

LEMMA OneStateIsOne ==
  ASSUME NEW fs, OneState(fs)
  PROVE  Cardinality(fs \cap Reconfs) <= 1
<1>1. CASE fs \cap Reconfs = {}
  BY <1>1, FS_EmptySet
<1>2. CASE fs \cap Reconfs # {}
  <2>1. PICK f \in fs \cap Reconfs : fs \cap Reconfs = {f}
    BY <1>2 DEF OneState
  <2> QED BY <2>1, FS_Singleton
<1> QED BY <1>1, <1>2

FailoverInv ==
  /\ InstanceInfoTypeOK
  /\ (failoverState = "NONE") = ("FAILOVER_IN_PROGRESS" \notin instFlags[Master])
  /\ \A i \in Slaves : ("PROMOTED" \in instFlags[i]) = (i = promotedSlave)
  /\ failoverState = "NONE" => promotedSlave = NoSlave
  /\ \A i \in Slaves : OneState(instFlags[i])

LEMMA FailoverStarts == InstanceInfoInit => FailoverInv
<1> SUFFICES ASSUME InstanceInfoInit PROVE FailoverInv
  OBVIOUS
<1> USE InstanceInfoAssumption DEF InstanceInfoInit
<1>1. InstanceInfoTypeOK
  <2>1. roleReported \in [Instances -> SUBSET Roles]
    BY DEF KindOf, Roles
  <2>2. instFlags \in [Instances -> SUBSET InstFlags]
    OBVIOUS
  <2> QED BY <2>1, <2>2 DEF InstanceInfoTypeOK
<1>2. \A i \in Instances : instFlags[i] = {}
  OBVIOUS
<1> QED BY <1>1, <1>2 DEF FailoverInv, OneState, Instances, NoSlave

(* A slave that has done its reconfiguration keeps no other state of it.   *)
LEMMA RefreshKeeps ==
  ASSUME FailoverInv, NEW i \in Instances, NEW role \in SUBSET Roles, refreshInstanceInfo(i, role)
  PROVE  FailoverInv'
<1> USE InstanceInfoAssumption DEF Instances
<1>1. /\ roleReported' \in [Instances -> SUBSET Roles]
      /\ UNCHANGED <<promotedSlave, quorum, tilted>>
  BY DEF refreshInstanceInfo, FailoverInv, InstanceInfoTypeOK
<1>2. newEpoch' \in BOOLEAN /\ monitor' \in {"alive", "crashed"}
  BY DEF refreshInstanceInfo, SlaveToMaster, Reconfigured, FailoverInv, InstanceInfoTypeOK
<1>3. \/ UNCHANGED <<instFlags, failoverState>>
      \/ i \in Slaves /\ SlaveToMaster(i) /\ UNCHANGED instFlags
      \/ i \in Slaves /\ Reconfigured(i) /\ UNCHANGED failoverState
  BY DEF refreshInstanceInfo
<1>4. CASE UNCHANGED <<instFlags, failoverState>>
  BY <1>1, <1>2, <1>4 DEF FailoverInv, InstanceInfoTypeOK
<1>5. CASE SlaveToMaster(i) /\ UNCHANGED instFlags
  <2>1. CASE UNCHANGED failoverState
    BY <1>4, <1>5, <2>1
  <2>2. CASE IsPromotedSlave(i)
    <3>1. failoverState' = "RECONF_SLAVES" /\ failoverState # "NONE"
      BY <1>5, <2>2 DEF SlaveToMaster, IsPromotedSlave
    <3> QED BY <1>1, <1>2, <1>5, <3>1 DEF FailoverInv, InstanceInfoTypeOK
  <2> QED BY <1>5, <2>1, <2>2 DEF SlaveToMaster
<1>6. CASE i \in Slaves /\ Reconfigured(i) /\ UNCHANGED failoverState
  <2>1. CASE UNCHANGED instFlags
    BY <1>4, <1>6, <2>1
  <2>2. CASE "RECONF_INPROG" \in instFlags[i] /\ instFlags' = [instFlags EXCEPT ![i] = NextReconf(@)]
    <3>1. instFlags[i] \subseteq InstFlags /\ OneState(instFlags[i])
      BY <1>6 DEF FailoverInv, InstanceInfoTypeOK
    <3>2. NextReconf(instFlags[i]) \subseteq InstFlags /\ OneState(NextReconf(instFlags[i]))
      BY <2>2, <3>1 DEF NextReconf, OneState, InstFlags, Reconfs
    <3>3. ("PROMOTED" \in NextReconf(instFlags[i])) = ("PROMOTED" \in instFlags[i])
      BY DEF NextReconf
    <3>4. /\ instFlags' \in [Instances -> SUBSET InstFlags]
          /\ instFlags'[i] = NextReconf(instFlags[i])
          /\ \A j \in Instances \ {i} : instFlags'[j] = instFlags[j]
      BY <2>2, <3>2 DEF FailoverInv, InstanceInfoTypeOK
    <3> QED BY <1>1, <1>2, <1>6, <3>2, <3>3, <3>4 DEF FailoverInv, InstanceInfoTypeOK
  <2> QED BY <1>6, <2>1, <2>2 DEF Reconfigured
<1> QED BY <1>3, <1>4, <1>5, <1>6

(* The flags of one instance get another one.                              *)
LEMMA FlagGiven ==
  ASSUME FailoverInv, NEW i \in Instances, NEW f \in InstFlags,
         instFlags' = [instFlags EXCEPT ![i] = @ \cup {f}]
  PROVE  /\ instFlags' \in [Instances -> SUBSET InstFlags]
         /\ instFlags'[i] = instFlags[i] \cup {f}
         /\ \A j \in Instances \ {i} : instFlags'[j] = instFlags[j]
  BY DEF FailoverInv, InstanceInfoTypeOK

LEMMA StartKeeps == FailoverInv /\ startFailover => FailoverInv'
<1> SUFFICES ASSUME FailoverInv, startFailover PROVE FailoverInv'
  OBVIOUS
<1> USE InstanceInfoAssumption DEF Instances
<1>1. /\ failoverState' = "WAIT_START" /\ newEpoch' = FALSE /\ monitor' = "crashed"
      /\ instFlags' = [instFlags EXCEPT ![Master] = @ \cup {"FAILOVER_IN_PROGRESS"}]
      /\ UNCHANGED <<roleReported, promotedSlave, quorum, tilted>>
  BY DEF startFailover
<1>2. /\ instFlags' \in [Instances -> SUBSET InstFlags]
      /\ instFlags'[Master] = instFlags[Master] \cup {"FAILOVER_IN_PROGRESS"}
      /\ \A j \in Slaves : instFlags'[j] = instFlags[j]
  BY <1>1, FlagGiven DEF InstFlags
<1> QED BY <1>1, <1>2 DEF FailoverInv, InstanceInfoTypeOK

LEMMA AbortKeeps == FailoverInv /\ abortFailover => FailoverInv'
<1> SUFFICES ASSUME FailoverInv, abortFailover PROVE FailoverInv'
  OBVIOUS
<1> USE InstanceInfoAssumption DEF Instances
<1>1. UNCHANGED <<roleReported, newEpoch, quorum, tilted>>
  BY DEF abortFailover
<1>2. CASE UNCHANGED <<instFlags, failoverState, promotedSlave>> /\ monitor' \in {"alive", "crashed"}
  BY <1>1, <1>2 DEF FailoverInv, InstanceInfoTypeOK
<1>3. CASE /\ instFlags' = [i \in Instances |-> FlagsAfterward(i)]
           /\ failoverState' = "NONE" /\ promotedSlave' = NoSlave /\ UNCHANGED monitor
  <2>1. \A i \in Instances : instFlags'[i] = FlagsAfterward(i)
    BY <1>3
  <2>2. instFlags' \in [Instances -> SUBSET InstFlags]
    BY <1>3 DEF FlagsAfterward, FailoverInv, InstanceInfoTypeOK
  <2>3. "FAILOVER_IN_PROGRESS" \notin instFlags'[Master]
    BY <2>1 DEF FlagsAfterward
  <2>4. ASSUME NEW i \in Slaves
        PROVE  "PROMOTED" \notin instFlags'[i] /\ OneState(instFlags'[i])
    <3>1. instFlags'[i] = instFlags[i] \ (IF i = promotedSlave THEN {"PROMOTED"} ELSE {})
      BY <2>1 DEF FlagsAfterward
    <3> QED BY <3>1 DEF FailoverInv, OneState
  <2>5. \A i \in Slaves : i # promotedSlave'
    BY <1>3 DEF NoSlave
  <2>6. InstanceInfoTypeOK'
    BY <1>1, <1>3, <2>2 DEF FailoverInv, InstanceInfoTypeOK
  <2> QED BY <1>3, <2>3, <2>4, <2>5, <2>6 DEF FailoverInv
<1> QED BY <1>2, <1>3 DEF abortFailover, FailoverInv, InstanceInfoTypeOK

LEMMA OutsideKeeps == FailoverInv /\ Outside => FailoverInv'
<1> SUFFICES ASSUME FailoverInv, Outside PROVE FailoverInv'
  OBVIOUS
<1> USE InstanceInfoAssumption DEF Instances
<1>1. UNCHANGED <<roleReported, newEpoch, quorum, monitor>> /\ tilted' \in BOOLEAN
  BY DEF Outside, FailoverInv, InstanceInfoTypeOK
<1>2. CASE UNCHANGED <<instFlags, failoverState, promotedSlave>>
  BY <1>1, <1>2 DEF FailoverInv, InstanceInfoTypeOK
<1>3. CASE /\ failoverState = "NONE" /\ failoverState' = "SELECT_SLAVE"
           /\ instFlags' = [instFlags EXCEPT ![Master] = @ \cup {"FAILOVER_IN_PROGRESS"}]
           /\ UNCHANGED promotedSlave
  <2>1. /\ instFlags' \in [Instances -> SUBSET InstFlags]
        /\ instFlags'[Master] = instFlags[Master] \cup {"FAILOVER_IN_PROGRESS"}
        /\ \A j \in Slaves : instFlags'[j] = instFlags[j]
    BY <1>3, FlagGiven DEF InstFlags
  <2> QED BY <1>1, <1>3, <2>1 DEF FailoverInv, InstanceInfoTypeOK
<1>4. CASE /\ failoverState = "SELECT_SLAVE" /\ promotedSlave = NoSlave
           /\ promotedSlave' \in Slaves /\ UNCHANGED failoverState
           /\ instFlags' = [instFlags EXCEPT ![promotedSlave'] = @ \cup {"PROMOTED"}]
  <2> DEFINE i == promotedSlave'
  <2>1. /\ instFlags' \in [Instances -> SUBSET InstFlags]
        /\ instFlags'[i] = instFlags[i] \cup {"PROMOTED"}
        /\ \A j \in Instances \ {i} : instFlags'[j] = instFlags[j]
    BY <1>4, FlagGiven DEF InstFlags
  <2>2. \A j \in Slaves : "PROMOTED" \notin instFlags[j]
    BY <1>4 DEF FailoverInv, NoSlave
  <2>3. OneState(instFlags'[i])
    BY <1>4, <2>1 DEF FailoverInv, OneState, Reconfs
  <2>4. InstanceInfoTypeOK'
    BY <1>1, <1>4, <2>1 DEF FailoverInv, InstanceInfoTypeOK
  <2>5. instFlags'[Master] = instFlags[Master] /\ failoverState' = "SELECT_SLAVE"
    BY <1>4, <2>1
  <2>6. ASSUME NEW j \in Slaves
        PROVE  ("PROMOTED" \in instFlags'[j]) = (j = i) /\ OneState(instFlags'[j])
    BY <2>1, <2>2, <2>3 DEF FailoverInv
  <2> QED BY <1>4, <2>4, <2>5, <2>6 DEF FailoverInv
<1>5. CASE /\ failoverState = "SELECT_SLAVE" /\ failoverState' = "WAIT_PROMOTION"
           /\ UNCHANGED <<instFlags, promotedSlave>>
  BY <1>1, <1>5 DEF FailoverInv, InstanceInfoTypeOK
<1>6. CASE /\ \E i \in Slaves, f \in {"RECONF_SENT", "RECONF_INPROG"} :
                /\ instFlags[i] \cap Reconfs = {}
                /\ instFlags' = [instFlags EXCEPT ![i] = @ \cup {f}]
           /\ UNCHANGED <<failoverState, promotedSlave>>
  <2>1. PICK i \in Slaves, f \in {"RECONF_SENT", "RECONF_INPROG"} :
          /\ instFlags[i] \cap Reconfs = {}
          /\ instFlags' = [instFlags EXCEPT ![i] = @ \cup {f}]
    BY <1>6
  <2>2. /\ instFlags' \in [Instances -> SUBSET InstFlags]
        /\ instFlags'[i] = instFlags[i] \cup {f}
        /\ \A j \in Instances \ {i} : instFlags'[j] = instFlags[j]
    BY <2>1, FlagGiven DEF InstFlags
  <2>3. OneState(instFlags'[i]) /\ ("PROMOTED" \in instFlags'[i]) = ("PROMOTED" \in instFlags[i])
    BY <2>1, <2>2 DEF OneState
  <2> QED BY <1>1, <1>6, <2>2, <2>3 DEF FailoverInv, InstanceInfoTypeOK
<1> QED BY <1>2, <1>3, <1>4, <1>5, <1>6 DEF Outside, FailoverStep, Reconfs

LEMMA FailoverInvariant == InstanceInfoSpec => []FailoverInv
<1>1. FailoverInv /\ [InstanceInfoNext]_infoVars => FailoverInv'
  <2>1. FailoverInv /\ UNCHANGED infoVars => FailoverInv'
    BY DEF infoVars, FailoverInv, InstanceInfoTypeOK
  <2> QED BY <2>1, RefreshKeeps, StartKeeps, AbortKeeps, OutsideKeeps DEF InstanceInfoNext
<1> QED BY <1>1, FailoverStarts, PTL DEF InstanceInfoSpec

(* The flags, the reported roles and the failover's state keep their types.*)
THEOREM FailoverTyped == InstanceInfoSpec => []InstanceInfoTypeOK
<1>1. FailoverInv => InstanceInfoTypeOK
  BY DEF FailoverInv
<1> QED BY <1>1, FailoverInvariant, PTL

(* At most one side of a split network fails a master over, however many   *)
(* the sentinels are; and wherever a failover stops, the flags of the      *)
(* master and of its slaves agree with its state.                          *)
THEOREM FailoversAreSound == InstanceInfoSpec => []FailoverSound
<1>1. FailoverInv => FailoverAgrees
  BY OneStateIsOne DEF FailoverInv, FailoverAgrees, Reconfs
<1>2. FailoverInv => FailoverSound
  BY <1>1, OneQuorumOnly DEF FailoverSound
<1> QED BY <1>2, FailoverInvariant, PTL
=============================================================================
