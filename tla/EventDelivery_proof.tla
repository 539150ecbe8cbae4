------------------------- MODULE EventDelivery_proof -------------------------
(***************************************************************************)
(* What holds of every mailbox, whatever its folders, the mail in it, the  *)
(* number of events and of failures: mail goes where its sender meant it   *)
(* to go, none gets lost, and what the agent has handed over is kept.      *)
(***************************************************************************)
EXTENDS EventDelivery, FiniteSetTheorems, TLAPS

-----------------------------------------------------------------------------
(* Routes.                                                                 *)

\* The mail of an agent is taken for a relay, whatever the name of its computer.
THEOREM RelaysRouted == \A words \in SUBSET Words : Route(RelayMail(words)) = "relay"
BY DEF Route, RelayMail, Classify, RouteOk, IsRelay, Matches, RoutingTags

\* Mail of others has no route, whatever it looks like.
THEOREM OthersLeft ==
    \A h \in Headers : MeantFolder(h) = "INBOX" /\ ~ h.big => Route(h) = "none"
BY DEF Route, Classify, RouteOk, MeantFolder

\* Every notice gets into the folder of its tag, whatever names its subject mentions.
THEOREM NoticesFiled ==
    \A n \in Notices : /\ Route(n) \notin {"none", "relay"}
                       /\ FolderOf(Route(n)) = MeantFolder(n)
<1>1. SUFFICES ASSUME NEW x \in Mailings, NEW words \in SUBSET Words
               PROVE  /\ Route(Notice(x, words)) \notin {"none", "relay"}
                      /\ FolderOf(Route(Notice(x, words))) = MeantFolder(Notice(x, words))
  BY DEF Notices
<1>. DEFINE n == Notice(x, words)
<1>2. /\ n.ours /\ n.sole /\ ~ n.big /\ ~ n.relay
      /\ n.prefix = "product" /\ n.head = x.tag /\ n.category = x.category
  BY DEF Notice
<1>3. \/ x.category = "computer-report" /\ x.tag = "REPORT"
      \/ x.category = "owner-change" /\ x.tag = "OWNER CHANGE"
      \/ x.category = "weekly-report" /\ x.tag = "WEEKLY"
      \/ x.category = "error" /\ x.tag = "ERROR"
      \/ x.category = "warning" /\ x.tag = "RECOVERY"
  <2>1. CASE x = [category |-> "computer-report", tag |-> "REPORT"]
    BY <2>1
  <2>2. CASE x = [category |-> "owner-change", tag |-> "OWNER CHANGE"]
    BY <2>2
  <2>3. CASE x = [category |-> "weekly-report", tag |-> "WEEKLY"]
    BY <2>3
  <2>4. CASE x = [category |-> "error", tag |-> "ERROR"]
    BY <2>4
  <2>5. CASE x = [category |-> "warning", tag |-> "RECOVERY"]
    BY <2>5
  <2>. QED BY <2>1, <2>2, <2>3, <2>4, <2>5 DEF Mailings
<1>4. x.category \in DOMAIN CategoryRoutes
  BY <1>3 DEF CategoryRoutes, RoutingTags
<1>5. ~ IsRelay(n)
  BY <1>2, <1>3 DEF IsRelay, Matches
<1>. HIDE DEF n
<1>6. Route(n) = CategoryRoutes[x.category]
  BY <1>2, <1>4, <1>5 DEF Route, Classify, RouteOk
<1>7. /\ CategoryRoutes[x.category] \notin {"none", "relay"}
      /\ FolderOf(CategoryRoutes[x.category]) = MeantFolder(n)
  BY <1>2, <1>3 DEF CategoryRoutes, RoutingTags, FolderOf, MeantFolder
<1>. QED BY <1>6, <1>7 DEF n

Destinations == {"Reports", "Weekly Reports", "Errors", "Trash"}

LEMMA RankedRoute ==
    ASSUME NEW h \in Headers
    PROVE  ByWords(h) \in {"none", "weekly", "error", "warning", "alert", "owner_change",
                           "report"}
<1>. DEFINE ranks == {i \in DOMAIN Ranks : Occurs(h, Ranks[i])}
<1>1. DOMAIN Ranks = 1..6
  BY DEF Ranks
<1>2. CASE ranks = {}
  BY <1>2 DEF ByWords
<1>3. CASE ranks # {}
  <2>1. \E i \in ranks : \A j \in ranks : i <= j
    <3>. HIDE DEF ranks
    <3>1. ranks \subseteq {1, 2, 3, 4, 5, 6}
      BY <1>1 DEF ranks
    <3>2. \E i \in 1..6 : i \in ranks /\ \A j \in 1..6 : j < i => j \notin ranks
      <4>1. CASE 1 \in ranks
        BY <4>1
      <4>2. CASE 1 \notin ranks /\ 2 \in ranks
        BY <4>2
      <4>3. CASE {1, 2} \cap ranks = {} /\ 3 \in ranks
        BY <4>3
      <4>4. CASE {1, 2, 3} \cap ranks = {} /\ 4 \in ranks
        BY <4>4
      <4>5. CASE {1, 2, 3, 4} \cap ranks = {} /\ 5 \in ranks
        BY <4>5
      <4>6. CASE {1, 2, 3, 4, 5} \cap ranks = {} /\ 6 \in ranks
        BY <4>6
      <4>. QED BY <1>3, <3>1, <4>1, <4>2, <4>3, <4>4, <4>5, <4>6
    <3>. QED BY <3>1, <3>2
  <2>2. (CHOOSE i \in ranks : \A j \in ranks : i <= j) \in 1..6
    <3>1. (CHOOSE i \in ranks : \A j \in ranks : i <= j) \in ranks
      BY <2>1, Zenon
    <3>. QED BY <1>1, <3>1
  <2>3. ByWords(h) = RankRoutes[CHOOSE i \in ranks : \A j \in ranks : i <= j]
    BY <1>3, Zenon DEF ByWords
  <2>4. \A i \in 1..6 : RankRoutes[i] \in {"weekly", "error", "warning", "alert",
                                          "owner_change", "report"}
    BY DEF RankRoutes
  <2>. HIDE DEF ranks
  <2>. QED BY <2>2, <2>3, <2>4
<1>. QED BY <1>2, <1>3

LEMMA RoutedToDestination ==
    ASSUME NEW h \in Headers, Route(h) # "none"
    PROVE  FolderOf(Route(h)) \in Destinations
<1>1. h.category \in DOMAIN CategoryRoutes =>
        CategoryRoutes[h.category] \in {"report", "weekly", "owner_change", "warning",
                                        "error", "alert"}
  BY DEF CategoryRoutes, RoutingTags
<1>. DEFINE routes == {"report", "weekly", "owner_change", "warning", "error", "alert",
                       "relay", "rejected", "legacy"}
<1>2. Classify(h) \in routes \cup {"none"}
  BY <1>1, RankedRoute DEF Classify
<1>3. Route(h) \in routes
  BY <1>2 DEF Route
<1>. QED BY <1>3 DEF FolderOf, Destinations

-----------------------------------------------------------------------------
(* The inductive invariant.                                                *)

MailTypes ==
    /\ mail \subseteq Copies
    /\ uidnext \in [Folders -> Nat]
    /\ \A c \in mail : c.uid < uidnext[c.folder]
    /\ deleted \subseteq mail
    /\ todo \subseteq Copies
    /\ target \in Folders \cup {"none"}
    /\ pc \in {"idle", "fetch", "store", "wait", "copy", "flag", "expunge"}

AgentTypes ==
    /\ transit \subseteq Messages
    /\ status \in [Events -> {"absent", "open", "done", "failed"}]
    /\ agent \in {"idle", "queue", "https", "smtp", "sent", "save"}
    /\ own \in Events \cup {NoEvent}
    /\ sending \in Events \cup {NoEvent}
    /\ agent \in {"https", "smtp", "sent", "save"} <=> sending # NoEvent
    /\ agent = "save" => sending = own
    /\ handed \subseteq Events
    /\ batch \subseteq Events /\ local \subseteq Events

Types == MailTypes /\ AgentTypes

\* The copy in hand is in the mailbox: nobody else takes mail away.
InHand ==
    pc \in {"store", "wait", "copy", "flag", "expunge"} => copy \in mail

Known(e) == status[e] # "absent"

\* Only the mail of an event is put into the queue, and is waited for once it is there.
Stores ==
    /\ pc \in {"store", "wait"} => copy.msg \in Events
    /\ pc = "wait" => Known(copy.msg)

Contracted(m) == m \in OtherMail /\ (Header(m) \in Notices \/ IsOthers(m))
Meant(m) == {MeantFolder(Header(m))} \cup Trashed

\* The destination is the right one, and mail of others leaves archived folders only.
Targeted ==
    pc \in {"copy", "flag", "expunge"} =>
        /\ target \in Destinations
        /\ copy.msg \in Events => Known(copy.msg)
        /\ copy.msg \in Events /\ target = "Reports" => status[copy.msg] = "done"
        /\ Contracted(copy.msg) => target \in Meant(copy.msg)
        /\ IsOthers(copy.msg) => copy.folder \in Archived

\* Between COPY and STORE the message is there twice, unless its first copy is doomed.
Copied ==
    pc = "flag" /\ copy \notin deleted =>
        \E c \in mail \ deleted : c # copy /\ c.msg = copy.msg

\* The mail of an event is deleted only after the event was stored.
DeletedKnown == \A c \in deleted : c.msg \in Events => Known(c.msg)

Held(e) == Known(e) \/ Unread(e)
SentIsHeld == agent = "sent" => Held(sending)

MailInv == Types /\ InHand /\ Stores /\ Targeted /\ Copied /\ DeletedKnown

Inv == MailInv /\ SentIsHeld /\ HandedIsKept /\ FiledAsMeant

LEMMA HeaderTyped == ASSUME NEW m \in Messages PROVE Header(m) \in Headers
<1>1. RelayMail({}) \in Headers
  BY DEF RelayMail, Headers, Heads, Tags, Prefixes, RoutingTags
<1>. QED BY <1>1, MailAssumption DEF Header, Messages

LEMMA InitInv == Init => Inv
<1>. SUFFICES ASSUME Init PROVE Inv
  OBVIOUS
<1>. USE DEF Init, CollectorInit
<1>1. Types
  BY DEF Types, MailTypes, AgentTypes, Messages
<1>2. MailInv
  BY <1>1 DEF MailInv, InHand, Stores, Targeted, Copied, DeletedKnown
<1>. QED BY <1>2 DEF Inv, SentIsHeld, HandedIsKept, FiledAsMeant

\* Everybody but the collector leaves the mailbox and the run of the collector alone.
AgentNext ==
    \/ \E e \in Named \cup {NoEvent} : StartAgent(e)
    \/ AgentStep \/ AgentCrash \/ Connect
    \/ \E e \in Events : GrowOld(e)

LEMMA NextSplit == Next <=> (CollectorNext /\ UNCHANGED agentVars) \/ AgentNext
BY DEF Next, AgentNext

LEMMA AgentLeavesMail == AgentNext => UNCHANGED <<mail, uidnext, deleted, run>>
BY DEF AgentNext, AgentStep, StartAgent, SendQueued, SendOwn, SendOther, Https, Smtp, Sent,
       Save, AgentCrash, Connect, GrowOld, collectorVars, mailbox, queue, run, agentVars

LEMMA AgentTyped ==
    ASSUME Types, AgentNext
    PROVE  AgentTypes'
<1>. USE DeliveryAssumption DEF Types, AgentTypes, collectorVars, mailbox, queue, agentVars,
           AgentGoTo, EndAgent, Unsent
<1>1. ASSUME NEW e \in Named \cup {NoEvent}, StartAgent(e) PROVE AgentTypes'
  <2>1. ASSUME Collected # Events PROVE (CHOOSE f \in Events : f \notin Collected) \in Events
    <3>1. \E f \in Events : f \notin Collected
      BY <2>1 DEF Collected
    <3>. QED BY <3>1, Zenon
  <2>2. e \in Events \cup {NoEvent}
    BY <2>1, Zenon DEF Named
  <2>. QED BY <1>1, <2>2 DEF StartAgent, Earliest
<1>2. CASE SendQueued
  BY <1>2 DEF SendQueued, Earliest
<1>3. CASE SendOwn
  BY <1>3 DEF SendOwn
<1>4. CASE SendOther
  BY <1>4 DEF SendOther, Aged
<1>5. CASE Https
  BY <1>5 DEF Https, Stored
<1>6. CASE Smtp
  BY <1>6 DEF Smtp, Mailed, Messages
<1>7. CASE Sent
  BY <1>7 DEF Sent
<1>8. CASE Save
  BY <1>8 DEF Save, Latest, Aged
<1>9. CASE AgentCrash
  BY <1>9 DEF AgentCrash
<1>10. CASE Connect
  BY <1>10 DEF Connect
<1>11. ASSUME NEW e \in Events, GrowOld(e) PROVE AgentTypes'
  BY <1>11 DEF GrowOld
<1>. QED BY <1>1, <1>2, <1>3, <1>4, <1>5, <1>6, <1>7, <1>8, <1>9, <1>10, <1>11
         DEF AgentNext, AgentStep

\* Events are not forgotten, and what is done stays done.
StatusKept ==
    \A e \in Events : /\ Known(e) => Known(e)'
                      /\ status[e] = "done" => status'[e] = "done"

LEMMA StatusMoves == ASSUME Types, [Next]_vars PROVE StatusKept
<1>. USE DEF Types, AgentTypes, StatusKept, Known
<1>1. CASE UNCHANGED status
  BY <1>1
<1>2. ASSUME NEW x, Stored(x) PROVE StatusKept
  BY <1>2 DEF Stored
<1>3. ASSUME NEW x, NEW s \in {"done", "failed"}, status[x] = "open",
             status' = [status EXCEPT ![x] = s]
      PROVE  StatusKept
  BY <1>3
<1>4. CASE CollectorStep
  <2>1. CASE SelectFolder
    BY <1>1, <2>1 DEF SelectFolder, queue
  <2>2. ASSUME NEW c \in todo, Fetch(c) PROVE StatusKept
    BY <1>1, <2>2 DEF Fetch, queue
  <2>3. CASE Store
    BY <1>1, <1>2, <2>3 DEF Store
  <2>4. CASE Await
    BY <1>1, <1>3, <2>4 DEF Await
  <2>5. CASE Copy \/ Flag \/ Expunge
    BY <1>1, <2>5 DEF Copy, Flag, Expunge, queue
  <2>. QED BY <1>4, <2>1, <2>2, <2>3, <2>4, <2>5 DEF CollectorStep
<1>5. ASSUME NEW m \in Messages, Arrive(m) PROVE StatusKept
  BY <1>1, <1>5 DEF Arrive, queue
<1>6. ASSUME NEW e \in Events, Settle(e) PROVE StatusKept
  BY <1>3, <1>6 DEF Settle
<1>7. CASE AbortRun
  BY <1>1, <1>7 DEF AbortRun, queue
<1>8. CASE AgentNext
  <2>1. CASE Https
    BY <1>1, <1>2, <2>1 DEF Https
  <2>2. CASE ~ Https
    <3>1. UNCHANGED status
      BY <1>8, <2>2 DEF AgentNext, AgentStep, StartAgent, SendQueued, SendOwn, SendOther, Smtp,
             Sent, Save, AgentCrash, Connect, GrowOld, collectorVars, queue
    <3>. QED BY <1>1, <3>1
  <2>. QED BY <2>1, <2>2
<1>9. CASE UNCHANGED vars
  BY <1>1, <1>9 DEF vars, collectorVars, queue
<1>. QED BY NextSplit, <1>4, <1>5, <1>6, <1>7, <1>8, <1>9 DEF CollectorNext

\* What is not about the moves of the collector is kept by any step.
LEMMA AgentKeepsMailInv == ASSUME MailInv, AgentNext PROVE MailInv'
<1>1. UNCHANGED <<mail, uidnext, deleted, pc, source, scanned, todo, copy, target>>
  BY AgentLeavesMail DEF run
<1>2. StatusKept
  BY StatusMoves, NextSplit DEF MailInv
<1>3. Types'
  BY <1>1, AgentTyped DEF MailInv, Types, MailTypes
<1>4. (InHand /\ Copied)'
  BY <1>1 DEF MailInv, InHand, Copied
<1>5. (Stores /\ Targeted /\ DeletedKnown)'
  BY <1>1, <1>2 DEF MailInv, Stores, Targeted, DeletedKnown, StatusKept, Meant, Contracted,
         IsOthers
<1>. QED BY <1>3, <1>4, <1>5 DEF MailInv

-----------------------------------------------------------------------------
(* The steps of the collector.                                             *)

\* A destination that File sets for a copy that is not the mail of an event.
LEMMA FiledByRoute ==
    ASSUME NEW c \in Copies, Route(Header(c.msg)) # "relay" \/ c.msg \notin Events,
           Route(Header(c.msg)) # "none" \/ c.folder \in Archived,
           File(c, IF Route(Header(c.msg)) = "none" THEN "Trash"
                   ELSE FolderOf(Route(Header(c.msg))))
    PROVE  /\ target' \in Destinations
           /\ Contracted(c.msg) => target' \in Meant(c.msg)
           /\ IsOthers(c.msg) => c.folder \in Archived
<1>. DEFINE h == Header(c.msg)
<1>1. c.msg \in Messages /\ h \in Headers
  BY HeaderTyped DEF Copies
<1>2. target' \in Destinations
  BY <1>1, RoutedToDestination DEF File, Destinations
<1>3. IsOthers(c.msg) => Route(h) = "none"
  BY <1>1, OthersLeft DEF IsOthers
<1>4. h \in Notices => Route(h) # "none" /\ FolderOf(Route(h)) = MeantFolder(h)
  BY NoticesFiled
<1>5. c.folder \in Archived => target' = "Trash" /\ Archived # {}
  BY DEF File
<1>6. c.folder \notin Archived =>
        target' = IF Route(h) = "none" THEN "Trash" ELSE FolderOf(Route(h))
  BY DEF File
<1>. QED BY <1>2, <1>3, <1>4, <1>5, <1>6 DEF Contracted, Meant, Trashed

\* The mail of an event has a route and is in Events alone.
LEMMA EventMail ==
    ASSUME NEW e \in Events
    PROVE  e \in Messages /\ ~ Contracted(e) /\ ~ IsOthers(e) /\ Route(Header(e)) = "relay"
<1>1. e \notin OtherMail
  BY MailAssumption
<1>2. Header(e) = RelayMail({}) /\ Route(Header(e)) = "relay"
  BY RelaysRouted DEF Header
<1>3. MeantFolder(Header(e)) = "Errors"
  BY <1>2 DEF RelayMail, MeantFolder
<1>. QED BY <1>1, <1>2, <1>3 DEF Contracted, IsOthers, Messages

LEMMA FetchKeeps == ASSUME MailInv, NEW c \in todo, Fetch(c), UNCHANGED agentVars PROVE MailInv'
<1>. USE DEF MailInv
<1>1. c \in Copies
  BY DEF Types, MailTypes
<1>2. UNCHANGED <<transit, mail, uidnext, deleted, status, agent, own, sending, batch, local, handed>>
  BY DEF Fetch, mailbox, queue, agentVars
<1>3. StatusKept
  BY <1>2 DEF StatusKept, Known
<1>4. AgentTypes' /\ DeletedKnown'
  BY <1>2 DEF Types, AgentTypes, DeletedKnown, Known
<1>5. CASE pc' = "fetch" /\ UNCHANGED <<pc, copy, target>>
  BY <1>2, <1>4, <1>5 DEF Fetch, Types, MailTypes, InHand, Stores, Targeted, Copied
<1>6. CASE c \in mail /\ c.msg \in Events /\ copy' = c /\ pc' = "store" /\ UNCHANGED target
  BY <1>2, <1>4, <1>6 DEF Fetch, Types, MailTypes, InHand, Stores, Targeted, Copied
<1>7. CASE /\ c \in mail
           /\ Route(Header(c.msg)) # "relay" \/ c.msg \notin Events
           /\ Route(Header(c.msg)) # "none" \/ c.folder \in Archived
           /\ File(c, IF Route(Header(c.msg)) = "none" THEN "Trash"
                      ELSE FolderOf(Route(Header(c.msg))))
  <2>1. copy' = c /\ pc' = "copy" /\ c \in mail /\ c.msg \notin Events
    BY <1>7, EventMail DEF File, GoTo
  <2>2. /\ target' \in Destinations
        /\ Contracted(c.msg) => target' \in Meant(c.msg)
        /\ IsOthers(c.msg) => c.folder \in Archived
    BY <1>1, <1>7, FiledByRoute
  <2>3. MailTypes'
    BY <1>2, <2>1, <2>2 DEF Fetch, Types, MailTypes, Destinations, Folders
  <2>4. Targeted'
    BY <2>1, <2>2 DEF Targeted, Contracted, Meant, IsOthers
  <2>. QED BY <1>2, <1>4, <2>1, <2>3, <2>4 DEF Types, InHand, Stores, Copied
<1>. QED BY <1>5, <1>6, <1>7 DEF Fetch, GoTo

\* A run that ends, or goes on to the next folder.
LEMMA SelectKeeps ==
    ASSUME MailInv, SelectFolder \/ AbortRun, UNCHANGED agentVars
    PROVE  MailInv'
<1>1. UNCHANGED <<transit, mail, uidnext, deleted, status, agent, own, sending, batch, local, handed>>
  BY DEF SelectFolder, AbortRun, mailbox, queue, agentVars
<1>2. pc' \in {"idle", "fetch"} /\ todo' \subseteq Copies /\ target' \in Folders \cup {"none"}
  BY DEF SelectFolder, AbortRun, EndRun, GoTo, Oldest, In, MailInv, Types, MailTypes
<1>. QED BY <1>1, <1>2 DEF MailInv, Types, MailTypes, AgentTypes, InHand, Stores, Targeted,
              Copied, DeletedKnown, Known

LEMMA FiledEvent ==
    ASSUME MailInv, pc \in {"store", "wait"}, NEW folder \in {"Reports", "Errors"},
           File(copy, folder), AgentTypes', Known(copy.msg)',
           folder = "Reports" => status'[copy.msg] = "done",
           UNCHANGED <<mail, uidnext, deleted, todo>>, StatusKept
    PROVE  MailInv'
<1>. USE DEF MailInv
<1>1. copy \in mail /\ copy \in Copies /\ copy.msg \in Events
  BY DEF InHand, Stores, Types, MailTypes
<1>2. copy' = copy /\ pc' = "copy" /\ target' \in {folder, "Trash"}
  BY DEF File, GoTo
<1>3. Types'
  BY <1>2 DEF Types, MailTypes, Folders
<1>4. Targeted'
  BY <1>1, <1>2, EventMail DEF Targeted, Destinations, Contracted, Meant, IsOthers
<1>5. DeletedKnown'
  BY DEF DeletedKnown, StatusKept
<1>. QED BY <1>1, <1>2, <1>3, <1>4, <1>5 DEF InHand, Stores, Copied

LEMMA StoreKeeps == ASSUME MailInv, Store \/ Await, UNCHANGED agentVars PROVE MailInv'
<1>. USE DEF MailInv
<1>1. UNCHANGED <<transit, mail, uidnext, deleted, todo, agent, own, sending, batch, local, handed>>
  BY DEF Store, Await, mailbox, agentVars
<1>2. copy \in mail /\ copy.msg \in Events
  BY DEF InHand, Stores, Store, Await
<1>3. AgentTypes'
  BY <1>1, <1>2 DEF Types, AgentTypes, Store, Await, Stored
<1>4. StatusKept
  BY StatusMoves, NextSplit DEF CollectorNext, CollectorStep
<1>5. CASE Store
  <2>1. pc = "store" /\ Stored(copy.msg)
    BY <1>5 DEF Store, Accepts
  <2>2. Known(copy.msg)'
    BY <1>2, <1>5, <2>1 DEF Store, File, Stored, Known, Types, AgentTypes
  <2>3. CASE status[copy.msg] = "done" /\ File(copy, "Reports")
    BY <1>1, <1>2, <1>3, <1>4, <2>1, <2>2, <2>3, FiledEvent DEF StatusKept
  <2>4. CASE File(copy, "Errors")
    BY <1>1, <1>3, <1>4, <2>1, <2>2, <2>4, FiledEvent
  <2>5. CASE GoTo("wait") /\ UNCHANGED <<copy, target>>
    BY <1>1, <1>2, <1>3, <1>4, <2>2, <2>5 DEF GoTo, Types, MailTypes, InHand, Stores, Targeted,
           Copied, DeletedKnown, StatusKept
  <2>. QED BY <1>5, <2>3, <2>4, <2>5 DEF Store, Accepts
<1>6. CASE Await
  <2>1. pc = "wait" /\ Known(copy.msg) /\ Known(copy.msg)'
    BY <1>2, <1>4, <1>6 DEF Await, File, Stores, StatusKept, Known
  <2>2. CASE File(copy, "Errors")
    BY <1>1, <1>3, <1>4, <2>1, <2>2, FiledEvent
  <2>3. CASE File(copy, "Reports") /\ status'[copy.msg] = "done"
    BY <1>1, <1>3, <1>4, <2>1, <2>3, FiledEvent
  <2>. QED BY <1>2, <1>6, <2>2, <2>3 DEF Await, Types, AgentTypes
<1>. QED BY <1>5, <1>6

\* The next UID of a folder is not that of a copy in it.
LEMMA NewCopy ==
    ASSUME MailInv, NEW c \in Copies, c.uid = uidnext[c.folder]
    PROVE  c \notin mail
BY DEF MailInv, Types, MailTypes, Copies

LEMMA CopyKeeps == ASSUME MailInv, Copy, UNCHANGED agentVars PROVE MailInv'
<1>. USE DEF MailInv
<1>. DEFINE new == [copy EXCEPT !.folder = target, !.uid = uidnext[target]]
<1>1. /\ UNCHANGED <<transit, status, todo, copy, target, agent, own, sending, batch, local, handed>>
      /\ pc = "copy" /\ pc' = "flag" /\ mail' = mail \cup {new}
      /\ uidnext' = [uidnext EXCEPT ![target] = @ + 1]
      /\ deleted' = IF copy \in deleted THEN deleted \cup {new} ELSE deleted
  BY DEF Copy, queue, agentVars, GoTo
<1>2. copy \in mail /\ copy \in Copies /\ target \in Folders
  BY <1>1 DEF InHand, Targeted, Destinations, Folders, Types, MailTypes
<1>3. /\ new \in Copies /\ new.msg = copy.msg /\ new.folder = target
      /\ new.uid = uidnext[target]
  BY <1>2 DEF Copies, Types, MailTypes
<1>4. new \notin mail
  BY <1>3, NewCopy
<1>. HIDE DEF new
<1>5. Types'
  <2>1. \A c \in mail' : c.uid < uidnext'[c.folder]
    BY <1>1, <1>2, <1>3 DEF Types, MailTypes, Copies
  <2>. QED BY <1>1, <1>2, <1>3, <2>1 DEF Types, MailTypes, AgentTypes
<1>6. Targeted' /\ Stores' /\ InHand'
  BY <1>1, <1>2 DEF Targeted, Stores, InHand, Known, Contracted, Meant, IsOthers
<1>7. Copied'
  BY <1>1, <1>2, <1>3, <1>4 DEF Copied, Types, MailTypes
<1>8. DeletedKnown'
  BY <1>1, <1>3 DEF DeletedKnown, Known
<1>. QED BY <1>5, <1>6, <1>7, <1>8

LEMMA FlagKeeps == ASSUME MailInv, Flag, UNCHANGED agentVars PROVE MailInv'
<1>. USE DEF MailInv
<1>1. /\ UNCHANGED <<transit, mail, uidnext, status, todo, copy, target, agent, own, sending,
                     batch, local, handed>>
      /\ pc = "flag" /\ pc' = "expunge" /\ deleted' = deleted \cup {copy}
  BY DEF Flag, queue, agentVars, GoTo
<1>2. copy \in mail
  BY <1>1 DEF InHand
<1>3. Types'
  BY <1>1, <1>2 DEF Types, MailTypes, AgentTypes
<1>4. Targeted' /\ Stores' /\ InHand' /\ Copied'
  BY <1>1, <1>2 DEF Targeted, Stores, InHand, Copied, Known, Contracted, Meant, IsOthers
<1>5. DeletedKnown'
  BY <1>1 DEF DeletedKnown, Known, Targeted
<1>. QED BY <1>3, <1>4, <1>5

LEMMA ExpungeKeeps == ASSUME MailInv, Expunge, UNCHANGED agentVars PROVE MailInv'
<1>. USE DEF MailInv
<1>1. /\ UNCHANGED <<transit, uidnext, status, todo, agent, own, sending, batch, local, handed>>
      /\ pc' = "fetch" /\ target' = "none"
      /\ mail' \subseteq mail /\ deleted' \subseteq deleted
      /\ mail' = mail \ (deleted \cap In(copy.folder)) /\ deleted' = deleted \ In(copy.folder)
  BY DEF Expunge, queue, agentVars, GoTo
<1>2. deleted' \subseteq mail'
  BY <1>1 DEF Types, MailTypes, In
<1>3. Types'
  BY <1>1, <1>2 DEF Types, MailTypes, AgentTypes
<1>. QED BY <1>1, <1>3 DEF InHand, Targeted, Stores, Copied, DeletedKnown, Known

LEMMA ArriveKeeps ==
    ASSUME MailInv, NEW m \in Messages, Arrive(m), UNCHANGED agentVars
    PROVE  MailInv'
<1>. USE DEF MailInv
<1>. DEFINE new == [msg |-> m, folder |-> "INBOX", uid |-> uidnext["INBOX"]]
<1>1. /\ UNCHANGED <<deleted, status, pc, todo, copy, target, agent, own, sending, batch, local, handed>>
      /\ mail' = mail \cup {new} /\ transit' \subseteq transit
      /\ uidnext' = [uidnext EXCEPT !["INBOX"] = @ + 1]
  BY DEF Arrive, queue, run, agentVars
<1>2. "INBOX" \in Folders
  BY DEF Folders
<1>3. new \in Copies /\ new.folder = "INBOX" /\ new.uid = uidnext["INBOX"]
  BY <1>2 DEF Copies, Types, MailTypes
<1>. HIDE DEF new
<1>4. Types'
  <2>1. \A c \in mail' : c.uid < uidnext'[c.folder]
    BY <1>1, <1>2, <1>3 DEF Types, MailTypes, Copies
  <2>. QED BY <1>1, <1>2, <1>3, <2>1 DEF Types, MailTypes, AgentTypes
<1>. QED BY <1>1, <1>4 DEF InHand, Targeted, Stores, Copied, DeletedKnown, Known, Contracted,
              Meant, IsOthers

LEMMA SettleKeeps ==
    ASSUME MailInv, NEW e \in Events, Settle(e), UNCHANGED agentVars
    PROVE  MailInv'
<1>. USE DEF MailInv
<1>1. UNCHANGED <<transit, mail, uidnext, deleted, pc, todo, copy, target, agent, own, sending,
                  batch, local, handed>>
  BY DEF Settle, mailbox, run, agentVars
<1>2. StatusKept
  BY StatusMoves, NextSplit DEF CollectorNext
<1>3. Types'
  BY <1>1 DEF Settle, Types, MailTypes, AgentTypes
<1>. QED BY <1>1, <1>2, <1>3 DEF InHand, Targeted, Stores, Copied, DeletedKnown, StatusKept,
              Contracted, Meant, IsOthers

LEMMA MailInvKept == ASSUME MailInv, [Next]_vars PROVE MailInv'
<1>1. CASE CollectorNext /\ UNCHANGED agentVars
  BY <1>1, SelectKeeps, FetchKeeps, StoreKeeps, CopyKeeps, FlagKeeps, ExpungeKeeps, ArriveKeeps,
     SettleKeeps DEF CollectorNext, CollectorStep
<1>2. CASE AgentNext
  BY <1>2, AgentKeepsMailInv
<1>3. CASE UNCHANGED vars
  BY <1>3 DEF vars, collectorVars, mailbox, queue, run, agentVars, MailInv, Types, MailTypes,
       AgentTypes, InHand, Stores, Targeted, Copied, DeletedKnown, Known, Contracted, Meant,
       IsOthers
<1>. QED BY <1>1, <1>2, <1>3, NextSplit

-----------------------------------------------------------------------------
(* What becomes of a message.                                              *)

\* Mail comes by SMTP, or by a COPY.
LEMMA MailComes ==
    ASSUME MailInv, [Next]_vars, NEW c \in mail', c \notin mail
    PROVE  c.folder = "INBOX" \/ (pc = "copy" /\ c.msg = copy.msg /\ c.folder = target)
<1>1. CASE AgentNext \/ UNCHANGED vars
  BY <1>1, AgentLeavesMail DEF vars, collectorVars, mailbox
<1>2. CASE CollectorNext
  <2>1. CASE Copy
    <3>1. pc = "copy" /\ copy \in Copies /\ target \in Folders
      BY <2>1 DEF Copy, MailInv, InHand, Targeted, Destinations, Folders, Types, MailTypes
    <3>. QED BY <2>1, <3>1 DEF Copy, Copies
  <2>2. ASSUME NEW m \in Messages, Arrive(m) PROVE c.folder = "INBOX"
    BY <2>2 DEF Arrive
  <2>3. CASE Expunge
    BY <2>3 DEF Expunge
  <2>. QED BY <1>2, <2>1, <2>2, <2>3 DEF CollectorNext, CollectorStep, SelectFolder, Fetch, Store,
                Await, Flag, AbortRun, Settle, mailbox
<1>. QED BY <1>1, <1>2, NextSplit

\* Only copies flagged \Deleted go, and only the copy in hand gets the flag.
LEMMA MailGoes ==
    ASSUME MailInv, [Next]_vars, NEW c \in mail
    PROVE  /\ c \notin mail' => c \in deleted
           /\ c \in deleted' => c \in deleted \/ (pc = "flag" /\ c = copy)
<1>1. CASE AgentNext \/ UNCHANGED vars
  BY <1>1, AgentLeavesMail DEF vars, collectorVars, mailbox
<1>2. CASE CollectorNext
  <2>1. CASE Copy
    <3>. DEFINE new == [copy EXCEPT !.folder = target, !.uid = uidnext[target]]
    <3>1. /\ pc = "copy" /\ mail' = mail \cup {new}
          /\ deleted' = IF copy \in deleted THEN deleted \cup {new} ELSE deleted
      BY <2>1 DEF Copy
    <3>2. copy \in Copies /\ target \in Folders
      BY <3>1 DEF MailInv, InHand, Targeted, Destinations, Folders, Types, MailTypes
    <3>3. new \notin mail
      BY <3>2, NewCopy DEF Copies, MailInv, Types, MailTypes
    <3>. QED BY <3>1, <3>3
  <2>2. ASSUME NEW m \in Messages, Arrive(m) PROVE c \in mail' /\ deleted' = deleted
    BY <2>2 DEF Arrive
  <2>3. CASE Expunge
    BY <2>3 DEF Expunge
  <2>4. CASE Flag
    BY <2>4 DEF Flag
  <2>. QED BY <1>2, <2>1, <2>2, <2>3, <2>4 DEF CollectorNext, CollectorStep, SelectFolder, Fetch,
                Store, Await, AbortRun, Settle, mailbox
<1>. QED BY <1>1, <1>2, NextSplit

LEMMA TransitArrives ==
    ASSUME MailInv, [Next]_vars, NEW m \in transit, m \notin transit'
    PROVE  \E c \in mail' : c.msg = m /\ c.folder = "INBOX"
<1>1. CASE AgentNext \/ UNCHANGED vars
  BY <1>1 DEF AgentNext, AgentStep, StartAgent, SendQueued, SendOwn, SendOther, Https, Smtp, Mailed,
       Sent, Save, AgentCrash, Connect, GrowOld, vars, collectorVars, mailbox
<1>2. ASSUME NEW n \in Messages, Arrive(n) PROVE \E c \in mail' : c.msg = m /\ c.folder = "INBOX"
  <2>. DEFINE new == [msg |-> n, folder |-> "INBOX", uid |-> uidnext["INBOX"]]
  <2>1. n = m /\ new \in mail'
    BY <1>2 DEF Arrive
  <2>2. new.msg = n /\ new.folder = "INBOX"
    OBVIOUS
  <2>. QED BY <2>1, <2>2
<1>. QED BY <1>1, <1>2, NextSplit DEF CollectorNext, CollectorStep, SelectFolder, Fetch, Store,
              Await, Copy, Flag, Expunge, AbortRun, Settle, mailbox

LEMMA HeldKept == ASSUME MailInv, [Next]_vars, NEW e \in Events, Held(e) PROVE Held(e)'
<1>1. Known(e) => Known(e)'
  BY StatusMoves DEF StatusKept, MailInv
<1>2. ASSUME e \in transit PROVE Held(e)'
  BY <1>2, TransitArrives DEF Held, Unread, In
<1>3. ASSUME NEW c \in mail, c.folder = "INBOX", c.msg = e PROVE Held(e)'
  <2>1. c \in mail' \/ Known(e)
    BY <1>3, MailGoes DEF MailInv, DeletedKnown
  <2>. QED BY <1>1, <1>3, <2>1 DEF Held, Unread, In
<1>. QED BY <1>1, <1>2, <1>3 DEF Held, Unread, In

LEMMA InvKept == ASSUME Inv, [Next]_vars PROVE Inv'
<1>. USE DEF Inv
<1>1. MailInv'
  BY MailInvKept
<1>2. SentIsHeld'
  <2>1. CASE agent = "sent" /\ sending' = sending
    <3>1. sending \in Events
      BY <2>1 DEF MailInv, Types, AgentTypes
    <3>. QED BY <2>1, <3>1, HeldKept DEF SentIsHeld, Held, Unread, In, Known
  <2>2. CASE Https
    <3>1. sending \in Events
      BY <2>2 DEF Https, MailInv, Types, AgentTypes
    <3>. QED BY <2>2, <3>1 DEF Https, Stored, Unsent, AgentGoTo, SentIsHeld, Held, Known, MailInv,
                Types, AgentTypes
  <2>3. CASE Smtp
    BY <2>3 DEF Smtp, Mailed, Unsent, AgentGoTo, SentIsHeld, Held, Unread
  <2>4. CASE UNCHANGED <<agent, sending>>
    BY <2>1, <2>4 DEF SentIsHeld
  <2>5. CASE agent' # "sent"
    BY <2>5 DEF SentIsHeld
  <2>. QED BY <2>2, <2>3, <2>4, <2>5, NextSplit DEF AgentNext, AgentStep, StartAgent, SendQueued,
                SendOwn, SendOther, Sent, Save, EndAgent, AgentGoTo, AgentCrash, Connect, GrowOld,
                agentVars, vars
<1>3. HandedIsKept'
  <2>1. ASSUME NEW e \in handed' PROVE Held(e)'
    <3>1. CASE e \in handed
      BY <3>1, HeldKept DEF HandedIsKept, Held, Known, MailInv, Types, AgentTypes
    <3>2. CASE e \notin handed
      <4>1. Sent /\ e = sending /\ agent = "sent"
        BY <2>1, <3>2, NextSplit DEF AgentNext, AgentStep, StartAgent, SendQueued, SendOwn, SendOther,
             Https, Smtp, Sent, Save, AgentCrash, Connect, GrowOld, agentVars, vars
      <4>2. e \in Events /\ Held(e)
        BY <4>1 DEF SentIsHeld, MailInv, Types, AgentTypes
      <4>. QED BY <4>2, HeldKept
    <3>. QED BY <3>1, <3>2
  <2>. QED BY <2>1 DEF HandedIsKept, Held, Known
<1>4. FiledAsMeant'
  <2>. SUFFICES ASSUME NEW c \in mail'
                PROVE  /\ c.msg \in Events /\ c.folder = "Reports" => status'[c.msg] = "done"
                       /\ Contracted(c.msg) => c.folder \in {"INBOX"} \cup Meant(c.msg)
    BY DEF FiledAsMeant, Contracted, Meant
  <2>1. CASE c \in mail
    BY <2>1, StatusMoves DEF FiledAsMeant, Contracted, Meant, StatusKept, MailInv
  <2>2. CASE c.folder = "INBOX"
    BY <2>2
  <2>3. CASE c \notin mail /\ pc = "copy" /\ c.msg = copy.msg /\ c.folder = target
    BY <2>3, StatusMoves DEF MailInv, Targeted, StatusKept
  <2>. QED BY <2>1, <2>2, <2>3, MailComes
<1>. QED BY <1>1, <1>2, <1>3, <1>4

-----------------------------------------------------------------------------
(* The theorems.                                                           *)

\* One step never takes the last copy of a message that counts: of two copies the second
\* is there before the first is flagged, and mail of others is not moved at all.
LEMMA MailStaysKept == ASSUME Inv, [Next]_vars PROVE MailStays
<1>. SUFFICES ASSUME NEW m \in Messages, NEW c \in mail \ deleted, c.msg = m,
                     IsOthers(m) => c.folder = "INBOX"
              PROVE  Safe(m, (mail \ deleted)')
  BY DEF MailStays, Safe
<1>. USE DEF Inv, MailInv
<1>1. CASE c \in (mail \ deleted)'
  BY <1>1 DEF Safe, IsOthers
<1>2. CASE c \notin (mail \ deleted)'
  <2>1. pc = "flag" /\ c = copy /\ c \in deleted'
    BY <1>2, MailGoes
  <2>2. ~ IsOthers(m)
    BY <2>1, MailAssumption DEF Targeted
  <2>3. PICK d \in mail \ deleted : d # copy /\ d.msg = m
    BY <2>1 DEF Copied
  <2>4. d \in (mail \ deleted)'
    BY <2>3, MailGoes
  <2>. QED BY <2>2, <2>3, <2>4 DEF Safe, IsOthers
<1>. QED BY <1>1, <1>2

LEMMA InvAlways == Spec => []Inv
<1>1. Init => Inv
  BY InitInv
<1>2. Inv /\ [Next]_vars => Inv'
  BY InvKept
<1>. QED BY <1>1, <1>2, PTL DEF Spec

\* What the agent takes for delivered is in the queue, or its mail is still to be read,
\* whatever fails in between.
THEOREM HandedKept == Spec => []HandedIsKept
<1>1. Inv => HandedIsKept
  BY DEF Inv
<1>. QED BY <1>1, InvAlways, PTL

\* Every notice and every relay is in the folder it was meant for, mail of others where it
\* came, whatever the headers.
THEOREM MailFiledAsMeant == Spec => []FiledAsMeant
<1>1. Inv => FiledAsMeant
  BY DEF Inv
<1>. QED BY <1>1, InvAlways, PTL

\* COPY, STORE and EXPUNGE may be cut short anywhere: no message is lost.
THEOREM MailKept == Spec => MailIsKept
<1>1. Inv /\ [Next]_vars => MailStays
  BY MailStaysKept
<1>. QED BY <1>1, InvAlways, PTL DEF Spec, MailIsKept

-----------------------------------------------------------------------------
(* What is bounded: a run reads no more than MaxPerRun messages, and no    *)
(* more than MaxLocal files stay in the local queue.                       *)

\* R is a strict order of F, in which Before are the elements before e.
Orders(R, F) ==
    /\ \A x, y \in F : x # y => <<x, y>> \in R \/ <<y, x>> \in R
    /\ \A x \in F : <<x, x>> \notin R
    /\ \A x, y, z \in F : <<x, y>> \in R /\ <<y, z>> \in R => <<x, z>> \in R

Before(F, R, e) == {f \in F : <<f, e>> \in R}
First(F, R, k) == {e \in F : Cardinality(Before(F, R, e)) < k}

\* Of a finite set in any order, at most k have fewer than k before them.
LEMMA FirstFew ==
    ASSUME NEW F, IsFiniteSet(F), NEW k \in Nat, NEW R, Orders(R, F), NEW L, L = First(F, R, k)
    PROVE  L \subseteq F /\ IsFiniteSet(L) /\ Cardinality(L) \in Nat /\ Cardinality(L) <= k
<1>. DEFINE before(e) == Before(F, R, e)
            rank == [e \in L |-> Cardinality(before(e))]
<1>1. L \subseteq F /\ \A e \in L : Cardinality(before(e)) < k
  BY DEF First
<1>2. \A e \in F : IsFiniteSet(before(e)) /\ Cardinality(before(e)) \in Nat
  <2>1. ASSUME NEW e \in F PROVE IsFiniteSet(before(e))
    <3>1. before(e) \in SUBSET F
      BY DEF Before
    <3>. HIDE DEF before
    <3>. QED BY <3>1, FS_Subset
  <2>. HIDE DEF before
  <2>. QED BY <2>1, FS_CardinalityType
<1>3. ASSUME NEW x \in F, NEW y \in F, <<x, y>> \in R
      PROVE  Cardinality(before(x)) # Cardinality(before(y))
  <2>1. before(x) \in SUBSET before(y) /\ before(x) # before(y)
    BY <1>3 DEF Before, Orders
  <2>. HIDE DEF before
  <2>. QED BY <1>2, <2>1, FS_Subset
<1>4. rank \in Injection(L, 0 .. k - 1)
  <2>1. \A e \in L : Cardinality(before(e)) \in 0 .. k - 1
    BY <1>1, <1>2
  <2>2. \A x, y \in L : Cardinality(before(x)) = Cardinality(before(y)) => x = y
    <3>. HIDE DEF before
    <3>. QED BY <1>1, <1>3 DEF Orders
  <2>. HIDE DEF before
  <2>. QED BY <2>1, <2>2 DEF Injection, IsInjective
<1>5. IsFiniteSet(0 .. k - 1) /\ Cardinality(0 .. k - 1) = k
  BY FS_Interval
<1>6. IsFiniteSet(L) /\ Cardinality(L) <= k
  <2>. HIDE DEF rank
  <2>. QED BY <1>4, <1>5, FS_Injection
<1>. QED BY <1>1, <1>6, FS_CardinalityType

\* The UIDs of a folder tell its copies apart.
UniqueUids == \A c, d \in mail : c.folder = d.folder /\ c.uid = d.uid => c = d

LEMMA OldestFew ==
    ASSUME MailTypes, UniqueUids, IsFiniteSet(mail), NEW f, NEW k \in Nat,
           NEW some, some = Oldest(In(f), k)
    PROVE  IsFiniteSet(some) /\ Cardinality(some) \in Nat /\ Cardinality(some) <= k
<1>. DEFINE R == {p \in In(f) \X In(f) : p[1].uid < p[2].uid}
<1>1. IsFiniteSet(In(f))
  BY FS_Subset DEF In
<1>2. /\ \A c \in In(f) : c.uid \in Nat
      /\ \A c, d \in In(f) : c.uid = d.uid => c = d
  BY DEF In, MailTypes, Copies, UniqueUids
<1>3. \A c, d \in In(f) : <<c, d>> \in R <=> c.uid < d.uid
  OBVIOUS
<1>. HIDE DEF R
<1>4. some = First(In(f), R, k)
  <2>1. \A c \in In(f) : Before(In(f), R, c) = {d \in In(f) : d.uid < c.uid}
    BY <1>3 DEF Before
  <2>. QED BY <2>1 DEF Oldest, First
<1>5. Orders(R, In(f))
  BY <1>2, <1>3 DEF Orders
<1>. QED BY <1>1, <1>4, <1>5, FirstFew

\* Files are told apart by when their events were collected.
Numbered ==
    /\ nth \in [Events -> Nat] /\ IsFiniteSet(Collected)
    /\ \A e \in Collected : nth[e] <= Cardinality(Collected)
    /\ \A e, f \in Collected : nth[e] = nth[f] => e = f

LEMMA LatestFew ==
    ASSUME Numbered, NEW files, files \subseteq Collected, NEW some, some = Latest(files, MaxLocal)
    PROVE  some \subseteq files /\ Cardinality(some) <= MaxLocal
<1>. DEFINE R == {p \in files \X files : nth[p[1]] > nth[p[2]]}
<1>1. IsFiniteSet(files) /\ MaxLocal \in Nat
  BY FS_Subset, DeliveryAssumption DEF Numbered
<1>2. /\ \A e \in files : nth[e] \in Nat
      /\ \A e, f \in files : nth[e] = nth[f] => e = f
  BY DEF Numbered, Collected
<1>3. \A e, f \in files : <<e, f>> \in R <=> nth[e] > nth[f]
  OBVIOUS
<1>. HIDE DEF R
<1>4. some = First(files, R, MaxLocal)
  <2>1. \A e \in files : Before(files, R, e) = {f \in files : nth[f] > nth[e]}
    BY <1>3 DEF Before
  <2>. QED BY <2>1 DEF Latest, First
<1>5. Orders(R, files)
  BY <1>2, <1>3 DEF Orders
<1>. QED BY <1>1, <1>4, <1>5, FirstFew

\* What is left of a run: the messages read and those still to be.
RunTypes ==
    /\ old \subseteq Events
    /\ source \in 0..Len(Sources)
    /\ scanned \in Nat
    /\ copy \in Copies \cup {NoCopy}
    /\ pc \in {"store", "wait", "copy", "flag", "expunge"} <=> copy # NoCopy
    /\ pc \in {"copy", "flag", "expunge"} <=> target # "none"
    /\ faults \in 0..MaxFaults

RunBounded ==
    /\ IsFiniteSet(mail) /\ UniqueUids
    /\ IsFiniteSet(todo) /\ scanned + Cardinality(todo) <= MaxPerRun

LocalBounded ==
    /\ Numbered
    /\ {own, sending} \subseteq Collected \cup {NoEvent}
    /\ batch \subseteq Collected /\ local \subseteq Collected /\ handed \subseteq Collected
    /\ Cardinality(local) <= MaxLocal /\ online \in BOOLEAN

Bounds == RunTypes /\ RunBounded /\ LocalBounded

LEMMA BoundsType == ASSUME Inv, Bounds PROVE TypeOK
<1>1. scanned \in 0..MaxPerRun
  <2>1. Cardinality(todo) \in Nat
    BY FS_CardinalityType DEF Bounds, RunBounded
  <2>2. /\ scanned \in Nat /\ MaxPerRun \in Nat
        /\ scanned + Cardinality(todo) <= MaxPerRun
    BY MailAssumption DEF Bounds, RunTypes, RunBounded
  <2>. QED BY <2>1, <2>2
<1>2. CollectorTypeOK
  BY <1>1 DEF CollectorTypeOK, Bounds, RunTypes, Inv, MailInv, Types, MailTypes, AgentTypes
<1>. QED BY <1>2 DEF TypeOK, Inv, MailInv, Types, AgentTypes, Bounds, LocalBounded, Numbered

LEMMA NewIsUnique ==
    ASSUME MailTypes, UniqueUids, IsFiniteSet(mail), NEW c \in Copies,
           c.uid = uidnext[c.folder], mail' = mail \cup {c}
    PROVE  IsFiniteSet(mail') /\ UniqueUids'
<1>1. \A d \in mail : d.folder = c.folder => d.uid # c.uid
  <2>1. \A d \in mail : d.uid < uidnext[d.folder] /\ d.uid \in Nat
    BY DEF MailTypes, Copies
  <2>2. uidnext[c.folder] \in Nat
    BY DEF MailTypes, Copies
  <2>. QED BY <2>1, <2>2
<1>2. UniqueUids'
  BY <1>1 DEF UniqueUids
<1>. QED BY <1>2, FS_AddElement

LEMMA MailNumbers == MaxPerRun \in Nat /\ MaxFaults \in Nat /\ Len(Sources) \in Nat
<1>1. /\ MaxPerRun \in Nat \ {0} /\ MaxFaults \in Nat
      /\ Sources \in Seq(Folders \ {"Trash"})
  BY MailAssumption, Zenon
<1>. QED BY <1>1

LEMMA RunKept ==
    ASSUME Inv, RunTypes, RunBounded, CollectorNext
    PROVE  RunTypes' /\ RunBounded'
<1>0. /\ MailTypes /\ MaxPerRun \in Nat /\ scanned \in Nat /\ Cardinality(todo) \in Nat
      /\ scanned + Cardinality(todo) <= MaxPerRun /\ Len(Sources) \in Nat
  <2>1. MaxPerRun \in Nat /\ Len(Sources) \in Nat
    BY MailNumbers
  <2>2. IsFiniteSet(todo) /\ scanned + Cardinality(todo) <= MaxPerRun
    BY DEF RunBounded
  <2>3. Cardinality(todo) \in Nat
    BY <2>2, FS_CardinalityType
  <2>4. MailTypes /\ scanned \in Nat
    BY DEF Inv, MailInv, Types, RunTypes
  <2>. QED BY <2>1, <2>2, <2>3, <2>4
\* A run that ends, or is as far as it was.
<1>1. ASSUME EndRun, UNCHANGED <<mail, old>>, faults' \in 0..MaxFaults
      PROVE  RunTypes' /\ RunBounded'
  <2>1. IsFiniteSet({}) /\ Cardinality({}) = 0
    BY FS_EmptySet
  <2>2. /\ pc' = "idle" /\ source' = 0 /\ scanned' = 0 /\ todo' = {} /\ copy' = NoCopy
        /\ target' = "none" /\ UNCHANGED <<mail, old>>
    BY <1>1 DEF EndRun, GoTo
  <2>3. RunTypes'
    BY <1>0, <1>1, <2>2 DEF RunTypes
  <2>4. scanned' + Cardinality(todo') <= MaxPerRun
    BY <1>0, <2>1, <2>2
  <2>. QED BY <2>1, <2>2, <2>3, <2>4 DEF RunBounded, UniqueUids
<1>2. ASSUME UNCHANGED <<scanned, todo>>, IsFiniteSet(mail'), UniqueUids'
      PROVE  RunBounded'
  BY <1>2 DEF RunBounded
<1>3. CASE SelectFolder
  <2>1. CASE EndRun
    BY <1>1, <1>3, <2>1 DEF SelectFolder, mailbox, queue, RunTypes
  <2>2. CASE ~ EndRun
    <3>1. /\ scanned < MaxPerRun /\ source # Len(Sources) /\ source' = source + 1
          /\ todo' = Oldest(In(Sources[source + 1]), Room) /\ pc' = "fetch"
          /\ pc \in {"idle", "fetch"}
          /\ UNCHANGED <<scanned, copy, target, mail, old, faults>>
      BY <1>0, <1>3, <2>2 DEF SelectFolder, GoTo, mailbox, queue
    <3>2. PICK k \in Nat : k = MaxPerRun - scanned
      <4>1. MaxPerRun - scanned \in Nat
        BY <1>0, <3>1
      <4>. QED BY <4>1, Zenon
    <3>3. PICK some : some = todo'
      OBVIOUS
    <3>4. some = Oldest(In(Sources[source + 1]), k)
      BY <3>1, <3>2, <3>3, Zenon DEF Room
    <3>5. IsFiniteSet(some) /\ Cardinality(some) \in Nat /\ Cardinality(some) <= k
      BY <1>0, <3>4, OldestFew DEF RunBounded
    <3>6. scanned' + Cardinality(some) <= MaxPerRun
      BY <1>0, <3>1, <3>2, <3>5
    <3>7. RunTypes'
      BY <1>0, <3>1 DEF RunTypes
    <3>. QED BY <3>1, <3>3, <3>5, <3>6, <3>7 DEF RunBounded, UniqueUids
  <2>. QED BY <2>1, <2>2
<1>4. ASSUME NEW c \in todo, Fetch(c) PROVE RunTypes' /\ RunBounded'
  <2>0. faults' \in 0..MaxFaults
    <3>1. faults' = faults \/ Fault
      BY <1>4 DEF Fetch
    <3>. QED BY <1>0, <3>1, MailNumbers DEF RunTypes, Fault
  <2>1. /\ todo' = todo \ {c} /\ scanned' = scanned + 1 /\ pc = "fetch"
        /\ UNCHANGED <<mail, old, source>>
    BY <1>4 DEF Fetch, mailbox, queue
  <2>2. IsFiniteSet(todo') /\ Cardinality(todo') = Cardinality(todo) - 1
    BY <2>1, FS_RemoveElement DEF RunBounded
  <2>3. scanned' + Cardinality(todo') <= MaxPerRun
    BY <1>0, <2>1, <2>2
  <2>4. c \in Copies /\ c # NoCopy
    BY <1>0, NoCopyAssumption DEF MailTypes
  <2>5. RunTypes'
    <3>1. CASE UNCHANGED <<pc, copy, target>>
      BY <1>0, <2>0, <2>1, <3>1 DEF RunTypes
    <3>2. CASE copy' = c /\ pc' = "store" /\ UNCHANGED target
      BY <1>0, <2>0, <2>1, <2>4, <3>2 DEF RunTypes
    <3>3. ASSUME NEW folder \in Destinations, File(c, folder) PROVE RunTypes'
      <4>1. copy' = c /\ pc' = "copy" /\ target' # "none"
        BY <3>3 DEF File, GoTo, Destinations
      <4>. QED BY <1>0, <2>0, <2>1, <2>4, <4>1 DEF RunTypes
    <3>4. c.msg \in Messages
      BY <2>4 DEF Copies
    <3>5. Route(Header(c.msg)) # "none" => FolderOf(Route(Header(c.msg))) \in Destinations
      BY <3>4, HeaderTyped, RoutedToDestination
    <3>6. "Trash" \in Destinations
      BY DEF Destinations
    <3>. QED BY <1>4, <3>1, <3>2, <3>3, <3>5, <3>6 DEF Fetch, GoTo
  <2>. QED BY <2>1, <2>2, <2>3, <2>5 DEF RunBounded, UniqueUids
<1>5. CASE Store \/ Await
  <2>1. /\ pc \in {"store", "wait"} /\ UNCHANGED <<mail, old, source, scanned, todo, faults>>
    BY <1>5 DEF Store, Await, mailbox
  <2>2. \/ pc' = "wait" /\ UNCHANGED <<copy, target>>
        \/ File(copy, "Reports") \/ File(copy, "Errors")
    BY <1>5 DEF Store, Await, GoTo, Accepts
  <2>3. RunTypes'
    <3>1. CASE pc' = "wait" /\ UNCHANGED <<copy, target>>
      BY <1>0, <2>1, <3>1 DEF RunTypes
    <3>2. CASE File(copy, "Reports") \/ File(copy, "Errors")
      <4>1. copy' = copy /\ pc' = "copy" /\ target' # "none"
        BY <3>2 DEF File, GoTo
      <4>. QED BY <1>0, <2>1, <4>1 DEF RunTypes
    <3>. QED BY <2>2, <3>1, <3>2
  <2>. QED BY <2>1, <2>3 DEF RunBounded, UniqueUids
<1>6. CASE Copy
  <2>. DEFINE new == [copy EXCEPT !.folder = target, !.uid = uidnext[target]]
  <2>1. /\ pc = "copy" /\ pc' = "flag" /\ mail' = mail \cup {new}
        /\ UNCHANGED <<old, source, scanned, todo, copy, target, faults>>
    BY <1>6 DEF Copy, GoTo, queue
  <2>2. copy \in mail /\ copy \in Copies /\ target \in Folders
    BY <2>1 DEF Inv, MailInv, InHand, Targeted, Destinations, Folders, Types, MailTypes
  <2>3. new \in Copies /\ new.uid = uidnext[new.folder]
    BY <1>0, <2>2 DEF Copies, MailTypes
  <2>. HIDE DEF new
  <2>4. IsFiniteSet(mail') /\ UniqueUids'
    BY <1>0, <2>1, <2>3, NewIsUnique DEF RunBounded
  <2>5. RunTypes'
    BY <1>0, <2>1 DEF RunTypes
  <2>. QED BY <1>2, <2>1, <2>4, <2>5
<1>7. CASE Flag
  <2>1. /\ pc = "flag" /\ pc' = "expunge"
        /\ UNCHANGED <<mail, old, source, scanned, todo, copy, target, faults>>
    BY <1>7 DEF Flag, GoTo, queue
  <2>. QED BY <1>0, <2>1 DEF RunTypes, RunBounded, UniqueUids
<1>8. CASE Expunge
  <2>1. /\ mail' \subseteq mail /\ pc' = "fetch" /\ copy' = NoCopy /\ target' = "none"
        /\ UNCHANGED <<old, source, scanned, todo, faults>>
    BY <1>8 DEF Expunge, GoTo, queue
  <2>2. IsFiniteSet(mail') /\ UniqueUids'
    BY <2>1, FS_Subset DEF RunBounded, UniqueUids
  <2>3. RunTypes'
    BY <1>0, <2>1 DEF RunTypes
  <2>. QED BY <1>2, <2>1, <2>2, <2>3
<1>9. CASE AbortRun
  <2>1. faults' \in 0..MaxFaults
    BY <1>9, MailNumbers DEF AbortRun, Fault, RunTypes
  <2>. QED BY <1>1, <1>9, <2>1 DEF AbortRun, mailbox, queue
<1>10. ASSUME NEW m \in Messages, Arrive(m) PROVE RunTypes' /\ RunBounded'
  <2>. DEFINE new == [msg |-> m, folder |-> "INBOX", uid |-> uidnext["INBOX"]]
  <2>1. /\ mail' = mail \cup {new}
        /\ UNCHANGED <<old, pc, source, scanned, todo, copy, target, faults>>
    BY <1>10 DEF Arrive, queue, run
  <2>2. new \in Copies /\ new.uid = uidnext[new.folder]
    BY <1>0 DEF Copies, MailTypes, Folders
  <2>. HIDE DEF new
  <2>3. IsFiniteSet(mail') /\ UniqueUids'
    BY <1>0, <2>1, <2>2, NewIsUnique DEF RunBounded
  <2>4. RunTypes'
    BY <1>0, <2>1 DEF RunTypes
  <2>. QED BY <1>2, <2>1, <2>3, <2>4
<1>11. ASSUME NEW e \in Events, Settle(e) PROVE RunTypes' /\ RunBounded'
  <2>1. UNCHANGED <<mail, old, pc, source, scanned, todo, copy, target, faults>>
    BY <1>11 DEF Settle, mailbox, run
  <2>. QED BY <1>0, <2>1 DEF RunTypes, RunBounded, UniqueUids
<1>. QED BY <1>3, <1>4, <1>5, <1>6, <1>7, <1>8, <1>9, <1>10, <1>11 DEF CollectorNext, CollectorStep

\* The next event that is followed comes after all that were.
LEMMA NextNumbered ==
    ASSUME Numbered, NEW e \in Events, e \notin Collected,
           nth' = [nth EXCEPT ![e] = Cardinality(Collected) + 1]
    PROVE  Numbered' /\ Collected' = Collected \cup {e}
<1>1. /\ nth \in [Events -> Nat] /\ Cardinality(Collected) \in Nat
      /\ \A f \in Collected : nth[f] <= Cardinality(Collected)
      /\ \A f, g \in Collected : nth[f] = nth[g] => f = g
  BY FS_CardinalityType DEF Numbered
<1>2. PICK n \in Nat : n = Cardinality(Collected)
  BY <1>1, Zenon
<1>3. /\ nth' \in [Events -> Nat] /\ nth'[e] = n + 1
      /\ \A f \in Events : f # e => nth'[f] = nth[f]
  BY <1>1, <1>2
<1>4. Collected' = Collected \cup {e}
  <2>1. \A f \in Events : nth'[f] > 0 <=> nth[f] > 0 \/ f = e
    BY <1>2, <1>3
  <2>2. Collected' \subseteq Collected \cup {e} /\ Collected \cup {e} \subseteq Collected'
    BY <2>1 DEF Collected
  <2>. QED BY <2>2
<1>5. IsFiniteSet(Collected \cup {e}) /\ Cardinality(Collected \cup {e}) = n + 1
  BY <1>2, FS_AddElement DEF Numbered
<1>6. IsFiniteSet(Collected') /\ Cardinality(Collected') = n + 1
  BY <1>4, <1>5
<1>7. \A f \in Collected : f \in Events /\ f # e /\ nth[f] <= n /\ nth'[f] = nth[f] /\ nth[f] \in Nat
  BY <1>1, <1>2, <1>3 DEF Collected
<1>8. \A f \in Collected' : nth'[f] <= n + 1
  BY <1>2, <1>3, <1>4, <1>7
<1>9. \A f, g \in Collected' : nth'[f] = nth'[g] => f = g
  <2>1. \A f \in Collected : nth'[f] # n + 1
    BY <1>2, <1>7
  <2>. QED BY <1>1, <1>3, <1>4, <1>7, <2>1
<1>. QED BY <1>3, <1>4, <1>6, <1>8, <1>9 DEF Numbered

LEMMA LocalKept ==
    ASSUME Inv, LocalBounded, AgentNext
    PROVE  LocalBounded'
<1>0. /\ Numbered /\ own \in Collected \cup {NoEvent} /\ sending \in Collected \cup {NoEvent}
      /\ batch \subseteq Collected /\ local \subseteq Collected /\ handed \subseteq Collected
      /\ Cardinality(local) <= MaxLocal /\ online \in BOOLEAN
      /\ IsFiniteSet(local) /\ MaxLocal \in Nat
  <2>1. IsFiniteSet(Collected) /\ local \subseteq Collected
    BY DEF LocalBounded, Numbered
  <2>2. IsFiniteSet(local)
    BY <2>1, FS_Subset
  <2>. QED BY <2>2, DeliveryAssumption DEF LocalBounded
<1>1. ASSUME nth' = nth PROVE Numbered' /\ Collected' = Collected
  BY <1>0, <1>1 DEF Numbered, Collected
<1>2. ASSUME nth' = nth, own' \in Collected \cup {NoEvent}, sending' \in Collected \cup {NoEvent},
             batch' \subseteq Collected, local' \subseteq local, handed' \subseteq Collected,
             online' \in BOOLEAN
      PROVE  LocalBounded'
  <2>1. IsFiniteSet(local') /\ Cardinality(local') <= Cardinality(local)
    BY <1>0, <1>2, FS_Subset
  <2>2. Cardinality(local) \in Nat /\ Cardinality(local') \in Nat
    BY <1>0, <2>1, FS_CardinalityType
  <2>3. Cardinality(local') <= MaxLocal
    BY <1>0, <2>1, <2>2
  <2>. QED BY <1>0, <1>1, <1>2, <2>3 DEF LocalBounded
<1>. USE DEF collectorVars, agentVars, AgentGoTo, EndAgent
<1>3. ASSUME NEW e \in Named \cup {NoEvent}, StartAgent(e) PROVE LocalBounded'
  <2>1. /\ own' = e /\ UNCHANGED <<sending, local, handed, online>>
        /\ batch' \subseteq local
    BY <1>3 DEF StartAgent, Earliest
  <2>2. CASE e = NoEvent
    BY <1>0, <1>2, <1>3, <2>1, <2>2 DEF StartAgent
  <2>3. CASE e # NoEvent
    <3>1. e \in Events /\ e \notin Collected
      <4>1. ASSUME Collected # Events
            PROVE  (CHOOSE f \in Events : f \notin Collected) \in Events \ Collected
        <5>1. \E f \in Events : f \notin Collected
          BY <4>1 DEF Collected
        <5>. QED BY <5>1, Zenon
      <4>. QED BY <2>3, <4>1, Zenon DEF Named
    <3>2. nth' = [nth EXCEPT ![e] = Cardinality(Collected) + 1]
      BY <1>3, <2>3 DEF StartAgent
    <3>3. Numbered' /\ Collected' = Collected \cup {e}
      BY <1>0, <3>1, <3>2, NextNumbered
    <3>. QED BY <1>0, <2>1, <3>3 DEF LocalBounded
  <2>. QED BY <2>2, <2>3
<1>4. CASE SendQueued
  BY <1>0, <1>2, <1>4 DEF SendQueued, Earliest
<1>5. CASE SendOwn
  BY <1>0, <1>2, <1>5 DEF SendOwn
<1>6. CASE SendOther
  <2>1. local' \subseteq local /\ own' = NoEvent /\ sending' = NoEvent /\ batch' = {}
        /\ UNCHANGED <<nth, handed, online>>
    BY <1>6 DEF SendOther
  <2>. QED BY <1>0, <1>2, <2>1
<1>7. CASE Https
  BY <1>0, <1>2, <1>7 DEF Https
<1>8. CASE Smtp
  BY <1>0, <1>2, <1>8 DEF Smtp, Unsent
<1>9. CASE Sent
  <2>1. /\ local' \subseteq local /\ handed' = handed \cup {sending} /\ sending # NoEvent
        /\ own' \in {own, NoEvent} /\ sending' = NoEvent /\ batch' \in {batch, {}}
        /\ UNCHANGED <<nth, online>>
    BY <1>9 DEF Sent, Inv, MailInv, Types, AgentTypes
  <2>. QED BY <1>0, <1>2, <2>1
<1>10. CASE Save
  <2>1. PICK aged \in Aged : local' = Latest((local \ aged) \cup {own}, MaxLocal)
    BY <1>10 DEF Save
  <2>2. own' = NoEvent /\ sending' = NoEvent /\ batch' = {} /\ UNCHANGED <<nth, handed, online>>
    BY <1>10 DEF Save
  <2>3. own # NoEvent
    BY <1>10 DEF Save, Inv, MailInv, Types, AgentTypes
  <2>4. PICK files : files = (local \ aged) \cup {own}
    OBVIOUS
  <2>5. files \subseteq Collected
    BY <1>0, <2>3, <2>4
  <2>6. PICK some : some = Latest(files, MaxLocal)
    OBVIOUS
  <2>7. some \subseteq files /\ Cardinality(some) <= MaxLocal
    BY <1>0, <2>5, <2>6, LatestFew
  <2>8. local' = some
    BY <2>1, <2>4, <2>6
  <2>. QED BY <1>0, <1>1, <2>2, <2>5, <2>7, <2>8 DEF LocalBounded
<1>11. CASE AgentCrash
  BY <1>0, <1>2, <1>11 DEF AgentCrash
<1>12. CASE Connect
  BY <1>0, <1>2, <1>12 DEF Connect
<1>13. ASSUME NEW e \in Events, GrowOld(e) PROVE LocalBounded'
  BY <1>0, <1>2, <1>13 DEF GrowOld
<1>. QED BY <1>3, <1>4, <1>5, <1>6, <1>7, <1>8, <1>9, <1>10, <1>11, <1>12, <1>13
         DEF AgentNext, AgentStep

LEMMA AgentKeepsRun ==
    ASSUME Inv, RunTypes, RunBounded, AgentNext
    PROVE  RunTypes' /\ RunBounded'
<1>1. UNCHANGED <<mail, pc, source, scanned, todo, copy, target>>
  BY AgentLeavesMail DEF run
<1>2. faults' \in 0..MaxFaults
  <2>1. faults' = faults \/ (faults < MaxFaults /\ faults' = faults + 1)
    BY DEF AgentNext, AgentStep, StartAgent, SendQueued, SendOwn, SendOther, Https, Smtp, Sent,
       Save, AgentCrash, Connect, GrowOld, Fault
  <2>. QED BY <2>1, MailNumbers DEF RunTypes
<1>3. old' \subseteq Events
  <2>1. CASE old' = old
    BY <2>1 DEF RunTypes
  <2>2. ASSUME NEW e \in Events, GrowOld(e) PROVE old' \subseteq Events
    BY <2>2 DEF RunTypes, GrowOld
  <2>. QED BY <2>1, <2>2
    DEF AgentNext, AgentStep, StartAgent, SendQueued, SendOwn, SendOther, Https, Smtp, Sent, Save,
        AgentCrash, Connect, collectorVars, queue
<1>. QED BY <1>1, <1>2, <1>3 DEF RunTypes, RunBounded, UniqueUids

\* The variables keep their types, and what is bounded stays bounded: a run of the
\* collector (collect) reads at most max_messages_per_run messages over all its folders, and
\* the local queue of the agent (Save-QueuedEnvelope) holds at most its 200 files, the
\* latest, however long the gateway cannot be reached.
THEOREM TypeCorrect == Spec => []TypeOK
<1>1. Init => Bounds
  <2>. SUFFICES ASSUME Init PROVE Bounds
    OBVIOUS
  <2>. USE DEF Init, CollectorInit
  <2>1. IsFiniteSet({}) /\ Cardinality({}) = 0
    BY FS_EmptySet
  <2>2. Collected = {}
    BY DEF Collected
  <2>3. RunTypes
    BY MailNumbers DEF RunTypes
  <2>4. RunBounded
    BY <2>1, MailNumbers DEF RunBounded, UniqueUids
  <2>5. Numbered
    BY <2>1, <2>2 DEF Numbered
  <2>6. Cardinality(local) <= MaxLocal
    BY <2>1, DeliveryAssumption
  <2>. QED BY <2>3, <2>4, <2>5, <2>6 DEF Bounds, LocalBounded
<1>2. Inv /\ Bounds /\ [Next]_vars => Bounds'
  <2>. SUFFICES ASSUME Inv, Bounds, [Next]_vars PROVE Bounds'
    OBVIOUS
  <2>1. CASE CollectorNext /\ UNCHANGED agentVars
    <3>1. LocalBounded'
      BY <2>1 DEF agentVars, Bounds, LocalBounded, Numbered, Collected
    <3>. QED BY <2>1, <3>1, RunKept DEF Bounds
  <2>2. CASE AgentNext
    BY <2>2, LocalKept, AgentKeepsRun DEF Bounds
  <2>3. CASE UNCHANGED vars
    BY <2>3 DEF vars, collectorVars, mailbox, queue, run, agentVars, Bounds, RunTypes, RunBounded,
         UniqueUids, LocalBounded, Numbered, Collected
  <2>. QED BY <2>1, <2>2, <2>3, NextSplit
<1>3. Inv /\ Bounds => TypeOK
  BY BoundsType
<1>. QED BY <1>1, <1>2, <1>3, InvAlways, PTL DEF Spec

=============================================================================
