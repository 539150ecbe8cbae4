------------------------- MODULE SnipeItApply_proof -------------------------
(***************************************************************************)
(* What apply_inventory is worth, for any number of processors, events,    *)
(* users and assets, whatever answers are lost and whoever writes the      *)
(* asset between two requests.                                             *)
(***************************************************************************)
EXTENDS SnipeItApply, FiniteSetTheorems, TLAPS

-----------------------------------------------------------------------------
(* The inductive invariant.                                                *)

\* An event that was never in two hands is in one at most, and not settled while it is;
\* before an asset was looked up or created there is nothing to remember of one.
Hands ==
    /\ \A p, q \in Processors :
          item[p] = item[q] /\ item[p] # NoEvent /\ item[p] \notin shared => p = q
    /\ \A p \in Processors : pc[p] # "idle" /\ item[p] \notin shared => result[item[p]] = "open"
    /\ \A p \in Processors :
          pc[p] \in {"idle", "lookup", "create"} => id[p] = NoId /\ holder[p] = NoUser

\* Without a race one process at most is about to create an asset, and there is none yet.
SoleCreator ==
    raced \/ /\ \A i, j \in Known : i = j
             /\ \A p \in Processors : pc[p] = "create" =>
                   /\ Known = {}
                   /\ \A q \in Processors : pc[q] = "create" => q = p

\* The asset an event freed is with nobody, and the event, whenever it is presented again
\* to one processor, is on its way to give that asset to the user it names, if to anybody.
GivesOn(p, i) ==
    \/ pc[p] = "lookup"
    \/ pc[p] \in {"put", "search"} /\ id[p] = i /\ holder[p] = NoUser
    \/ pc[p] = "checkout" /\ id[p] = i

Freed ==
    \A i \in AssetIds : freed[i] # NoEvent =>
        /\ i \in Known /\ asset[i].owner = NoUser
        /\ Proposed[freed[i]] \in Unique
        /\ freed[i] \notin shared =>
              \A p \in Processors : item[p] = freed[i] => GivesOn(p, i)

\* What a processor knows of an asset nobody else wrote is still so.
AloneIsRight ==
    \A p \in alone :
        /\ pc[p] \in {"search", "checkin", "checkout"} => asset[id[p]].inventory = item[p]
        /\ pc[p] \in {"put", "search"} => asset[id[p]].owner = holder[p]

\* An event is applied for the user it proposes or nobody; a user is looked for only if
\* there is one, and an asset is given only to one that Snipe-IT knows.
Wanted ==
    \A p \in Processors :
        /\ pc[p] # "idle" => target[p] \in {Proposed[item[p]], NoUser}
        /\ pc[p] \in {"search", "checkin", "checkout"} => target[p] # NoUser
        /\ pc[p] \in {"checkin", "checkout"} => target[p] \in Unique

Inv ==
    /\ TypeOK /\ IsFiniteSet(Known) /\ Hands /\ SoleCreator
    /\ Freed /\ AloneIsRight /\ Wanted /\ FreedIsGivenOn

-----------------------------------------------------------------------------
(* What a request does to the hand of its processor.                       *)

Outcomes == Results \cup {"open", "failed"}

\* A request that raises never ends the event with a result.
LEMMA RaisesFinishes ==
    ASSUME NEW p \in Processors, NEW a, Raises(p, a)
    PROVE  \E r \in {"open", "failed"} : Finish(p, r)
BY DEF Raises, Retry, Reject

LEMMA HandTyped ==
    ASSUME TypeOK, NEW p \in Processors, pc[p] # "idle"
    PROVE  item[p] \in Events /\ item[p] # NoEvent /\ target[p] \in Users \cup {NoUser}
BY SnipeItAssumption DEF TypeOK

HandTypes ==
    /\ pc \in [Processors -> {"idle", "lookup", "create", "put", "search", "checkin",
                               "checkout"}]
    /\ item \in [Processors -> Events \cup {NoEvent}]
    /\ \A p \in Processors : item[p] = NoEvent <=> pc[p] = "idle"
    /\ target \in [Processors -> Users \cup {NoUser}]
    /\ id \in [Processors -> AssetIds \cup {NoId}]
    /\ holder \in [Processors -> Holders]
    /\ result \in [Events -> Outcomes]

LEMMA FinishTyped ==
    ASSUME TypeOK, NEW p \in Processors, pc[p] # "idle", NEW r \in Outcomes, Finish(p, r)
    PROVE  HandTypes'
BY HandTyped DEF TypeOK, Finish, LetGo, GoTo, HandTypes, Outcomes, Holders

LEMMA LetGoTyped ==
    ASSUME TypeOK, NEW p \in Processors, pc[p] # "idle", LetGo(p), UNCHANGED queue
    PROVE  HandTypes'
BY HandTyped DEF TypeOK, LetGo, GoTo, HandTypes, Outcomes, Holders, queue

\* Assets are changed and created, never removed, and what is sent is an asset.
AssetTypes ==
    /\ asset \in [AssetIds -> Assets \cup {Absent}]
    /\ freed \in [AssetIds -> Events \cup {NoEvent}]

LEMMA AssetTyped ==
    ASSUME TypeOK, [Next]_vars
    PROVE  AssetTypes' /\ Known \subseteq Known'
<1>. USE AbsentAssumption DEF TypeOK, AssetTypes, Known
<1>0. CASE UNCHANGED <<asset, freed>>
  BY <1>0
<1>1. ASSUME NEW p \in Processors, NEW e \in Events, Present(p, e)
      PROVE  AssetTypes' /\ Known \subseteq Known'
  BY <1>0, <1>1 DEF Present, snipeit
<1>2. ASSUME NEW p \in Processors, Lookup(p) \/ Search(p) \/ Crash(p)
      PROVE  AssetTypes' /\ Known \subseteq Known'
  BY <1>0, <1>2 DEF Lookup, Search, Crash, snipeit
<1>3. ASSUME NEW p \in Processors, Create(p) PROVE AssetTypes' /\ Known \subseteq Known'
  <2>1. PICK i \in AssetIds \ Known :
          asset' = asset \/
          asset' = [asset EXCEPT ![i] = [inventory |-> item[p], owner |-> NoUser]]
    BY <1>3 DEF Create
  <2>2. [inventory |-> item[p], owner |-> NoUser] \in Assets
    BY <1>3 DEF Assets, Holders
  <2>3. freed' = freed
    BY <1>3 DEF Create
  <2>. QED BY <2>1, <2>2, <2>3
<1>4. ASSUME NEW p \in Processors, Put(p) \/ Checkin(p) \/ Checkout(p)
      PROVE  AssetTypes' /\ Known \subseteq Known'
  <2>1. /\ id[p] \in AssetIds /\ asset[id[p]] \in Assets
        /\ item[p] \in Events /\ target[p] \in Holders
    BY <1>4, HandTyped DEF Put, Checkin, Checkout, Holders
  <2>2. \/ asset' = asset
        \/ asset' = [asset EXCEPT ![id[p]] = [asset[id[p]] EXCEPT !.inventory = item[p]]]
        \/ asset' = [asset EXCEPT ![id[p]] = [asset[id[p]] EXCEPT !.owner = NoUser]]
        \/ asset' = [asset EXCEPT ![id[p]] = [asset[id[p]] EXCEPT !.owner = target[p]]]
    BY <1>4 DEF Put, Checkin, Checkout, Write
  <2>3. /\ [asset[id[p]] EXCEPT !.inventory = item[p]] \in Assets
        /\ [asset[id[p]] EXCEPT !.owner = NoUser] \in Assets
        /\ [asset[id[p]] EXCEPT !.owner = target[p]] \in Assets
    BY <2>1 DEF Assets, Holders
  <2>4. freed' \in [AssetIds -> Events \cup {NoEvent}]
    BY <1>4, <2>1 DEF Put, Checkin, Checkout
  <2>. QED BY <2>1, <2>2, <2>3, <2>4
<1>5. ASSUME NEW i \in AssetIds, NEW user \in Unique \cup Places \cup {NoUser}, Edit(i, user)
      PROVE  AssetTypes' /\ Known \subseteq Known'
  <2>1. [asset[i] EXCEPT !.owner = user] \in Assets
    BY <1>5, SnipeItAssumption DEF Edit, Assets, Holders
  <2>. QED BY <1>5, <2>1 DEF Edit
<1>. QED BY <1>0, <1>1, <1>2, <1>3, <1>4, <1>5 DEF Next, vars, snipeit

LEMMA HandsTyped == ASSUME TypeOK, [Next]_vars PROVE HandTypes'
<1>0. CASE UNCHANGED <<pc, item, hand, result>>
  BY <1>0 DEF TypeOK, HandTypes, Outcomes, hand
<1>1. ASSUME NEW p \in Processors, NEW e \in Events, Present(p, e) PROVE HandTypes'
  BY <1>1, SnipeItAssumption DEF Present, TypeOK, HandTypes, Outcomes, GoTo
<1>2. ASSUME NEW p \in Processors, pc[p] # "idle", NEW a, Raises(p, a) PROVE HandTypes'
  BY <1>2, RaisesFinishes, FinishTyped DEF Outcomes
<1>3. ASSUME NEW p \in Processors, pc[p] # "idle", NEW r \in Outcomes, Finish(p, r)
      PROVE  HandTypes'
  BY <1>3, FinishTyped
<1>4. ASSUME NEW p \in Processors, pc[p] # "idle", UNCHANGED <<item, target, queue>>,
             NEW l \in {"create", "put", "search", "checkin", "checkout"}, GoTo(p, l),
             id' \in [Processors -> AssetIds \cup {NoId}], holder' \in [Processors -> Holders]
      PROVE  HandTypes'
  BY <1>4 DEF TypeOK, HandTypes, Outcomes, GoTo, queue
<1>5. ASSUME NEW p \in Processors, pc[p] # "idle", UNCHANGED <<item, hand, queue>>,
             NEW l \in {"create", "put", "search", "checkin", "checkout"}, GoTo(p, l)
      PROVE  HandTypes'
  BY <1>4, <1>5 DEF TypeOK, hand
<1>6. ASSUME NEW p \in Processors, Lookup(p) PROVE HandTypes'
  <2>1. PICK a \in Answers :
          \/ Raises(p, a)
          \/ Reject(p)
          \/ /\ \E i \in Known : /\ id' = [id EXCEPT ![p] = i]
                                 /\ holder' = [holder EXCEPT ![p] = asset[i].owner]
             /\ GoTo(p, "put") /\ UNCHANGED <<item, target, queue>>
          \/ GoTo(p, "create") /\ UNCHANGED <<item, hand, queue>>
    BY <1>6 DEF Lookup
  <2>2. ASSUME NEW i \in Known PROVE i \in AssetIds /\ asset[i].owner \in Holders
    BY DEF Known, TypeOK, Assets
  <2>3. pc[p] # "idle"
    BY <1>6 DEF Lookup
  <2>4. CASE \E i \in Known : /\ id' = [id EXCEPT ![p] = i]
                              /\ holder' = [holder EXCEPT ![p] = asset[i].owner]
                              /\ GoTo(p, "put") /\ UNCHANGED <<item, target, queue>>
    BY <1>4, <2>2, <2>3, <2>4 DEF TypeOK
  <2>. QED BY <1>2, <1>3, <1>5, <2>1, <2>3, <2>4 DEF Reject, Outcomes
<1>7. ASSUME NEW p \in Processors, Create(p) PROVE HandTypes'
  <2>1. PICK a \in Answers, i \in AssetIds :
          \/ Raises(p, a) \/ Reject(p)
          \/ LetGo(p) /\ UNCHANGED queue
          \/ /\ id' = [id EXCEPT ![p] = i] /\ GoTo(p, "put")
             /\ UNCHANGED <<item, target, holder, queue>>
    BY <1>7 DEF Create
  <2>2. pc[p] # "idle"
    BY <1>7 DEF Create
  <2>3. CASE /\ id' = [id EXCEPT ![p] = i] /\ GoTo(p, "put")
             /\ UNCHANGED <<item, target, holder, queue>>
    BY <1>4, <2>2, <2>3 DEF TypeOK
  <2>. QED BY <1>2, <1>3, <2>1, <2>2, <2>3, LetGoTyped DEF Reject, Outcomes
<1>8. ASSUME NEW p \in Processors, Put(p) PROVE HandTypes'
  <2>1. PICK a \in Answers :
          \/ Raises(p, a) \/ Reject(p) \/ Finish(p, "preserve")
          \/ GoTo(p, "search") /\ UNCHANGED <<item, hand, queue>>
    BY <1>8 DEF Put
  <2>. QED BY <1>2, <1>3, <1>5, <1>8, <2>1 DEF Put, Reject, Outcomes, Results
<1>9. ASSUME NEW p \in Processors, Search(p) PROVE HandTypes'
  <2>1. PICK a \in Answers :
          \/ Raises(p, a) \/ Finish(p, "unresolved") \/ Finish(p, "assigned")
          \/ /\ GoTo(p, IF holder[p] = NoUser THEN "checkout" ELSE "checkin")
             /\ UNCHANGED <<item, hand, queue>>
    BY <1>9 DEF Search
  <2>. QED BY <1>2, <1>3, <1>5, <1>9, <2>1 DEF Search, Outcomes, Results
<1>10. ASSUME NEW p \in Processors, Checkin(p) \/ Checkout(p) PROVE HandTypes'
  <2>1. PICK a \in Answers :
          \/ Raises(p, a) \/ Finish(p, "owner_changed")
          \/ GoTo(p, "checkout") /\ UNCHANGED <<item, hand, queue>>
    BY <1>10 DEF Checkin, Checkout
  <2>. QED BY <1>2, <1>3, <1>5, <1>10, <2>1 DEF Checkin, Checkout, Outcomes, Results
<1>11. ASSUME NEW p \in Processors, Crash(p) PROVE HandTypes'
  BY <1>11, LetGoTyped DEF Crash
<1>12. ASSUME NEW i \in AssetIds, NEW user, Edit(i, user) PROVE HandTypes'
  BY <1>0, <1>12 DEF Edit, queue
<1>. QED BY <1>0, <1>1, <1>6, <1>7, <1>8, <1>9, <1>10, <1>11, <1>12 DEF Next, vars, queue

LEMMA AnswerTyped ==
    ASSUME TypeOK, NEW a, Answer(a)
    PROVE  faults' \in 0..MaxFaults /\ edits' \in 0..MaxEdits /\ crashes' \in 0..MaxCrashes
BY SnipeItAssumption DEF Answer, TypeOK

LEMMA BoundsTyped ==
    ASSUME TypeOK, [Next]_vars
    PROVE  faults' \in 0..MaxFaults /\ edits' \in 0..MaxEdits /\ crashes' \in 0..MaxCrashes
<1>0. MaxFaults \in Nat /\ MaxEdits \in Nat /\ MaxCrashes \in Nat
  BY SnipeItAssumption
<1>1. ASSUME NEW p \in Processors,
             Lookup(p) \/ Create(p) \/ Put(p) \/ Search(p) \/ Checkin(p) \/ Checkout(p)
      PROVE  \E a : Answer(a)
  BY <1>1 DEF Lookup, Create, Put, Search, Checkin, Checkout
<1>2. ASSUME NEW p \in Processors, NEW e \in Events, Present(p, e) PROVE UNCHANGED bounds
  BY <1>2 DEF Present
<1>3. ASSUME NEW p \in Processors, Crash(p)
      PROVE  crashes < MaxCrashes /\ crashes' = crashes + 1 /\ UNCHANGED <<faults, edits>>
  BY <1>3 DEF Crash
<1>4. ASSUME NEW i \in AssetIds, NEW user, Edit(i, user)
      PROVE  edits < MaxEdits /\ edits' = edits + 1 /\ UNCHANGED <<faults, crashes>>
  BY <1>4 DEF Edit
<1>. QED BY <1>0, <1>1, <1>2, <1>3, <1>4, AnswerTyped
      DEF Next, vars, bounds, TypeOK

-----------------------------------------------------------------------------
(* One asset.                                                              *)

\* What a request to write an asset leaves as it was.
LEMMA Written ==
    ASSUME TypeOK, NEW p \in Processors, pc[p] \in {"put", "checkin", "checkout"}
    PROVE  /\ id[p] \in Known /\ item[p] \in Events /\ asset[id[p]] \in Assets
           /\ [asset[id[p]] EXCEPT !.inventory = item[p]] \in Assets
           /\ [asset[id[p]] EXCEPT !.owner = NoUser] \in Assets
           /\ [asset[id[p]] EXCEPT !.owner = target[p]] \in Assets
<1>1. id[p] \in Known /\ asset[id[p]] \in Assets
  BY DEF TypeOK, Known
<1>2. item[p] \in Events /\ target[p] \in Holders
  BY HandTyped DEF Holders
<1>. QED BY <1>1, <1>2 DEF Assets, Holders

LEMMA WriteDoes ==
    ASSUME TypeOK, NEW p \in Processors, NEW i \in Known, NEW a, NEW new \in Assets,
           Write(p, i, a, new)
    PROVE  /\ Known' = Known /\ alone' \subseteq alone
           /\ \A j \in AssetIds \ {i} : asset'[j] = asset[j]
           /\ asset'[i] = IF a \in {"ok", "lost"} THEN new ELSE asset[i]
           /\ a \in {"ok", "lost"} => \A q \in alone' : q = p \/ id[q] # i
BY AbsentAssumption DEF TypeOK, Known, Write

\* The processors that do not send the request keep what they hold.
Others(p) ==
    \A q \in Processors \ {p} : /\ pc'[q] = pc[q] /\ item'[q] = item[q]
                                /\ target'[q] = target[q] /\ id'[q] = id[q]
                                /\ holder'[q] = holder[q]

\* The processor goes on with its event.
Goes(p, l) ==
    /\ pc'[p] = l /\ item'[p] = item[p] /\ target'[p] = target[p]
    /\ id'[p] = id[p] /\ holder'[p] = holder[p]
    /\ UNCHANGED queue

\* It is done with it, with this result or none.
Done(p) == pc'[p] = "idle" /\ item'[p] = NoEvent /\ id'[p] = NoId /\ holder'[p] = NoUser
GetsResult(p, r) ==
    Done(p) /\ result' = [result EXCEPT ![item[p]] = r] /\ shared' = shared

LEMMA EndsHand ==
    ASSUME TypeOK, NEW p \in Processors, pc[p] # "idle"
    PROVE  /\ \A a : Raises(p, a) =>
                 Others(p) /\ \E r \in Outcomes \ Results : GetsResult(p, r)
           /\ \A r : Finish(p, r) => Others(p) /\ GetsResult(p, r)
           /\ Reject(p) => Others(p) /\ GetsResult(p, "failed")
           /\ LetGo(p) => Others(p) /\ Done(p)
           /\ \A l : GoTo(p, l) /\ UNCHANGED <<item, hand, queue>> =>
                 Others(p) /\ Goes(p, l)
<1>1. LetGo(p) => Others(p) /\ Done(p)
  BY DEF LetGo, GoTo, Others, Done, TypeOK
<1>2. \A r : Finish(p, r) => Others(p) /\ GetsResult(p, r)
  BY <1>1 DEF Finish, GetsResult
<1>3. \A a : Raises(p, a) => Others(p) /\ \E r \in Outcomes \ Results : GetsResult(p, r)
  BY <1>2, RaisesFinishes DEF Outcomes, Results
<1>4. Reject(p) => Others(p) /\ GetsResult(p, "failed")
  BY <1>2 DEF Reject
<1>5. \A l : GoTo(p, l) /\ UNCHANGED <<item, hand, queue>> => Others(p) /\ Goes(p, l)
  BY DEF GoTo, Others, Goes, TypeOK, hand
<1>. QED BY <1>1, <1>2, <1>3, <1>4, <1>5

Fails(p) == \E r \in Outcomes \ Results : GetsResult(p, r)

\* One line per request: what it is sent for, and what may come of it.
LEMMA LookupDoes ==
    ASSUME TypeOK, NEW p \in Processors, Lookup(p)
    PROVE  /\ pc[p] = "lookup" /\ Others(p) /\ UNCHANGED <<asset, freed, ignored>>
           /\ \/ Fails(p) /\ UNCHANGED <<alone, raced>>
              \/ /\ Cardinality(Known) = 1 /\ alone' = alone \cup {p} /\ raced' = raced
                 /\ pc'[p] = "put" /\ item'[p] = item[p] /\ target'[p] = target[p]
                 /\ UNCHANGED queue
                 /\ \E i \in Known : id'[p] = i /\ holder'[p] = asset[i].owner
              \/ /\ Known = {} /\ Goes(p, "create") /\ alone' = alone
                 /\ raced' = (raced \/ \E q \in Processors \ {p} : pc[q] = "create")
<1>1. pc[p] = "lookup" /\ UNCHANGED <<asset, freed, ignored>>
  BY DEF Lookup
<1>2. PICK a \in Answers :
        \/ (Raises(p, a) \/ Reject(p)) /\ UNCHANGED <<alone, raced>>
        \/ /\ Cardinality(Known) = 1
           /\ \E i \in Known : /\ id' = [id EXCEPT ![p] = i]
                               /\ holder' = [holder EXCEPT ![p] = asset[i].owner]
           /\ alone' = alone \cup {p} /\ GoTo(p, "put")
           /\ UNCHANGED <<item, target, queue, raced>>
        \/ /\ Known = {} /\ GoTo(p, "create") /\ UNCHANGED <<item, hand, queue, alone>>
           /\ raced' = (raced \/ \E q \in Processors \ {p} : pc[q] = "create")
  BY DEF Lookup
<1>3. CASE (Raises(p, a) \/ Reject(p)) /\ UNCHANGED <<alone, raced>>
  BY <1>1, <1>3, EndsHand DEF Fails, Outcomes, Results
<1>4. CASE /\ Cardinality(Known) = 1
           /\ \E i \in Known : /\ id' = [id EXCEPT ![p] = i]
                               /\ holder' = [holder EXCEPT ![p] = asset[i].owner]
           /\ alone' = alone \cup {p} /\ GoTo(p, "put")
           /\ UNCHANGED <<item, target, queue, raced>>
  BY <1>1, <1>4 DEF GoTo, Others, TypeOK
<1>5. CASE /\ Known = {} /\ GoTo(p, "create") /\ UNCHANGED <<item, hand, queue, alone>>
           /\ raced' = (raced \/ \E q \in Processors \ {p} : pc[q] = "create")
  BY <1>1, <1>5, EndsHand
<1>. QED BY <1>2, <1>3, <1>4, <1>5

LEMMA CreateDoes ==
    ASSUME TypeOK, NEW p \in Processors, Create(p)
    PROVE  /\ pc[p] = "create" /\ Others(p) /\ UNCHANGED <<freed, raced, ignored>>
           /\ \E i \in AssetIds \ Known :
                 /\ \A j \in AssetIds \ {i} : asset'[j] = asset[j]
                 /\ Known' \subseteq Known \cup {i}
                 /\ \/ Fails(p) /\ alone' = alone
                    \/ Done(p) /\ UNCHANGED queue /\ alone' = alone
                    \/ /\ pc'[p] = "put" /\ item'[p] = item[p] /\ id'[p] = i
                       /\ target'[p] = target[p] /\ holder'[p] = holder[p] /\ UNCHANGED queue
                       /\ i \in Known' /\ asset'[i].owner = NoUser /\ alone' = alone \cup {p}
<1>1. pc[p] = "create" /\ UNCHANGED <<freed, raced, ignored>>
  BY DEF Create
<1>2. PICK a \in Answers, i \in AssetIds \ Known :
        /\ asset' = IF a \in {"ok", "lost"}
                      THEN [asset EXCEPT ![i] = [inventory |-> item[p], owner |-> NoUser]]
                      ELSE asset
        /\ \/ (Raises(p, a) \/ Reject(p)) /\ UNCHANGED alone
           \/ LetGo(p) /\ UNCHANGED queue /\ UNCHANGED alone
           \/ /\ a = "ok" /\ id' = [id EXCEPT ![p] = i] /\ alone' = alone \cup {p}
              /\ GoTo(p, "put") /\ UNCHANGED <<item, target, holder, queue>>
  BY DEF Create
<1>3. /\ \A j \in AssetIds \ {i} : asset'[j] = asset[j]
      /\ Known' \subseteq Known \cup {i}
      /\ a = "ok" => i \in Known' /\ asset'[i].owner = NoUser
  <2>1. [inventory |-> item[p], owner |-> NoUser] \in Assets
    BY <1>1, HandTyped DEF Assets, Holders
  <2>. QED BY <1>2, <2>1, AbsentAssumption DEF TypeOK, Known
<1>4. CASE (Raises(p, a) \/ Reject(p)) /\ UNCHANGED alone
  BY <1>1, <1>3, <1>4, EndsHand DEF Fails, Outcomes, Results
<1>5. CASE LetGo(p) /\ UNCHANGED queue /\ UNCHANGED alone
  BY <1>1, <1>3, <1>5, EndsHand
<1>6. CASE /\ a = "ok" /\ id' = [id EXCEPT ![p] = i] /\ alone' = alone \cup {p}
           /\ GoTo(p, "put") /\ UNCHANGED <<item, target, holder, queue>>
  BY <1>1, <1>3, <1>6 DEF GoTo, Others, TypeOK
<1>. QED BY <1>2, <1>4, <1>5, <1>6

\* What a write of p to its asset leaves alone, and what it makes of the asset.
Took == {"ok", "lost"}
Wrote(p, a, new) ==
    /\ Known' = Known /\ alone' \subseteq alone
    /\ \A j \in AssetIds \ {id[p]} : asset'[j] = asset[j]
    /\ asset'[id[p]] = IF a \in Took THEN new ELSE asset[id[p]]
    /\ a \in Took => \A q \in alone' : q = p \/ id[q] # id[p]

LEMMA PutDoes ==
    ASSUME TypeOK, NEW p \in Processors, Put(p)
    PROVE  /\ pc[p] = "put" /\ Others(p) /\ UNCHANGED <<freed, raced, ignored>>
           /\ \E a \in Answers :
                 /\ Wrote(p, a, [asset[id[p]] EXCEPT !.inventory = item[p]])
                 /\ \/ Fails(p)
                    \/ a \in Took /\ target[p] = NoUser /\ GetsResult(p, "preserve")
                    \/ a \in Took /\ target[p] # NoUser /\ Goes(p, "search")
<1>1. pc[p] = "put" /\ UNCHANGED <<freed, raced, ignored>>
  BY DEF Put
<1>2. PICK a \in Answers :
        /\ Write(p, id[p], a, [asset[id[p]] EXCEPT !.inventory = item[p]])
        /\ \/ Raises(p, a) \/ Reject(p)
           \/ a = "ok" /\ target[p] = NoUser /\ Finish(p, "preserve")
           \/ /\ a = "ok" /\ target[p] # NoUser /\ GoTo(p, "search")
              /\ UNCHANGED <<item, hand, queue>>
  BY DEF Put
<1>3. Wrote(p, a, [asset[id[p]] EXCEPT !.inventory = item[p]])
  <2>1. id[p] \in Known /\ [asset[id[p]] EXCEPT !.inventory = item[p]] \in Assets
    BY <1>1, Written
  <2>. QED BY <1>2, <2>1, WriteDoes DEF Wrote, Took
<1>4. CASE Raises(p, a) \/ Reject(p)
  <2>1. Fails(p) /\ Others(p)
    BY <1>1, <1>4, EndsHand DEF Fails, Outcomes, Results
  <2>. QED BY <1>1, <1>3, <2>1
<1>5. CASE a = "ok" /\ target[p] = NoUser /\ Finish(p, "preserve")
  BY <1>1, <1>3, <1>5, EndsHand DEF Took
<1>6. CASE /\ a = "ok" /\ target[p] # NoUser /\ GoTo(p, "search")
           /\ UNCHANGED <<item, hand, queue>>
  BY <1>1, <1>3, <1>6, EndsHand DEF Took
<1>. QED BY <1>2, <1>4, <1>5, <1>6

LEMMA SearchDoes ==
    ASSUME TypeOK, NEW p \in Processors, Search(p)
    PROVE  /\ pc[p] = "search" /\ Others(p) /\ UNCHANGED <<asset, freed, alone, raced>>
           /\ ignored \subseteq ignored'
           /\ \/ Fails(p)
              \/ GetsResult(p, "unresolved") /\ item[p] \in ignored'
              \/ GetsResult(p, "unresolved") /\ target[p] \notin Unique
              \/ GetsResult(p, "assigned") /\ target[p] \in Unique /\ IsHolder(p)
              \/ /\ target[p] \in Unique /\ ~ IsHolder(p)
                 /\ Goes(p, IF holder[p] = NoUser THEN "checkout" ELSE "checkin")
<1>1. pc[p] = "search" /\ UNCHANGED <<asset, freed, alone, raced>> /\ ignored \subseteq ignored'
  BY DEF Search, snipeit
<1>2. PICK a \in Answers :
        /\ ignored' = IF a = "error" THEN ignored \cup {item[p]} ELSE ignored
        /\ \/ Raises(p, a)
           \/ a = "error" /\ Finish(p, "unresolved")
           \/ target[p] \notin Unique /\ Finish(p, "unresolved")
           \/ target[p] \in Unique /\ IsHolder(p) /\ Finish(p, "assigned")
           \/ /\ target[p] \in Unique /\ ~ IsHolder(p)
              /\ GoTo(p, IF holder[p] = NoUser THEN "checkout" ELSE "checkin")
              /\ UNCHANGED <<item, hand, queue>>
  BY DEF Search
<1>. QED BY <1>1, <1>2, EndsHand DEF Fails, Took

LEMMA CheckinDoes ==
    ASSUME TypeOK, NEW p \in Processors, Checkin(p)
    PROVE  /\ pc[p] = "checkin" /\ Others(p) /\ raced' = raced /\ ignored \subseteq ignored'
           /\ \E a \in Answers :
                 /\ Wrote(p, a, [asset[id[p]] EXCEPT !.owner = NoUser])
                 /\ freed' = IF a \in Took THEN [freed EXCEPT ![id[p]] = item[p]] ELSE freed
                 /\ Fails(p) \/ (Goes(p, "checkout") /\ (a \in Took \/ item[p] \in ignored'))
<1>1. pc[p] = "checkin" /\ raced' = raced /\ ignored \subseteq ignored'
  BY DEF Checkin
<1>2. PICK a \in Answers :
        /\ Write(p, id[p], a, [asset[id[p]] EXCEPT !.owner = NoUser])
        /\ freed' = IF a \in {"ok", "lost"} THEN [freed EXCEPT ![id[p]] = item[p]] ELSE freed
        /\ ignored' = IF a = "error" THEN ignored \cup {item[p]} ELSE ignored
        /\ \/ Raises(p, a)
           \/ /\ a \in {"ok", "error"} /\ GoTo(p, "checkout")
              /\ UNCHANGED <<item, hand, queue>>
  BY DEF Checkin
<1>3. Wrote(p, a, [asset[id[p]] EXCEPT !.owner = NoUser])
  BY <1>1, <1>2, Written, WriteDoes DEF Wrote, Took
<1>. QED BY <1>1, <1>2, <1>3, EndsHand DEF Fails, Took

LEMMA CheckoutDoes ==
    ASSUME TypeOK, NEW p \in Processors, Checkout(p)
    PROVE  /\ pc[p] = "checkout" /\ Others(p) /\ raced' = raced /\ ignored \subseteq ignored'
           /\ \E a \in Answers :
                 /\ Wrote(p, a, [asset[id[p]] EXCEPT !.owner = target[p]])
                 /\ freed' = IF a \in Took THEN [freed EXCEPT ![id[p]] = NoEvent] ELSE freed
                 /\ \/ Fails(p)
                    \/ GetsResult(p, "owner_changed") /\ (a \in Took \/ item[p] \in ignored')
<1>1. pc[p] = "checkout" /\ raced' = raced /\ ignored \subseteq ignored'
  BY DEF Checkout
<1>2. PICK a \in Answers :
        /\ Write(p, id[p], a, [asset[id[p]] EXCEPT !.owner = target[p]])
        /\ freed' = IF a \in {"ok", "lost"} THEN [freed EXCEPT ![id[p]] = NoEvent] ELSE freed
        /\ ignored' = IF a = "error" THEN ignored \cup {item[p]} ELSE ignored
        /\ Raises(p, a) \/ (a \in {"ok", "error"} /\ Finish(p, "owner_changed"))
  BY DEF Checkout
<1>3. Wrote(p, a, [asset[id[p]] EXCEPT !.owner = target[p]])
  BY <1>1, <1>2, Written, WriteDoes DEF Wrote, Took
<1>. QED BY <1>1, <1>2, <1>3, EndsHand DEF Fails, Took

LEMMA PresentDoes ==
    ASSUME TypeOK, NEW p \in Processors, NEW e \in Events, Present(p, e)
    PROVE  /\ Others(p) /\ UNCHANGED <<asset, freed, alone, raced, id, holder, result>>
           /\ pc[p] = "idle" /\ pc'[p] = "lookup" /\ item'[p] = e /\ result[e] = "open"
           /\ target'[p] \in {Proposed[e], NoUser}
           /\ ignored \ {e} \subseteq ignored' /\ ignored' \subseteq ignored
           /\ shared' = IF Held(e) THEN shared \cup {e} ELSE shared
BY DEF Present, snipeit, GoTo, Others, TypeOK

LEMMA CrashDoes ==
    ASSUME TypeOK, NEW p \in Processors, Crash(p)
    PROVE  /\ Others(p) /\ Done(p)
           /\ UNCHANGED <<asset, freed, alone, raced, result, shared, ignored>>
BY EndsHand DEF Crash, snipeit, queue

LEMMA EditDoes ==
    ASSUME TypeOK, NEW i \in AssetIds, NEW user \in Unique \cup Places \cup {NoUser},
           Edit(i, user)
    PROVE  /\ i \in Known /\ Known' = Known /\ UNCHANGED <<pc, item, target, id, holder>>
           /\ UNCHANGED <<result, shared, raced, ignored>>
           /\ \A j \in AssetIds \ {i} : asset'[j] = asset[j]
           /\ freed' = [freed EXCEPT ![i] = NoEvent]
           /\ alone' = alone \ {p \in Processors : id[p] = i}
<1>1. asset[i] \in Assets /\ [asset[i] EXCEPT !.owner = user] \in Assets
  BY SnipeItAssumption DEF Edit, TypeOK, Assets, Holders
<1>. QED BY <1>1, AbsentAssumption DEF Edit, TypeOK, Known, queue, hand

-----------------------------------------------------------------------------
(* The hands in a step: of one processor at most something changes, and it *)
(* takes an event, goes on to a request, or is done with its event.        *)

Leaves(p) ==
    /\ pc[p] # "idle" /\ Others(p) /\ Done(p) /\ shared' = shared
    /\ result' = result \/ \E r \in Outcomes : result' = [result EXCEPT ![item[p]] = r]
Proceeds(p) ==
    /\ pc[p] # "idle" /\ Others(p) /\ item'[p] = item[p] /\ UNCHANGED queue
    /\ pc'[p] \in {"create", "put", "search", "checkin", "checkout"}
    /\ pc'[p] = "create" => pc[p] = "lookup" /\ id'[p] = id[p] /\ holder'[p] = holder[p]
    /\ pc'[p] # "create" => id'[p] \in Known'

LEMMA HandsStep ==
    ASSUME TypeOK, [Next]_vars
    PROVE  \/ UNCHANGED <<pc, item, id, holder, queue>>
           \/ \E p \in Processors :
                 (\E e \in Events : Present(p, e)) \/ Leaves(p) \/ Proceeds(p)
<1>1. ASSUME NEW p \in Processors, pc[p] # "idle", Others(p)
      PROVE  /\ Fails(p) => Leaves(p)
             /\ \A r \in Outcomes : GetsResult(p, r) => Leaves(p)
  BY <1>1 DEF Leaves, Fails, GetsResult
<1>2. ASSUME NEW p \in Processors, Others(p), pc[p] \in {"put", "search", "checkin"},
             NEW l \in {"search", "checkin", "checkout"}, Goes(p, l)
      PROVE  Proceeds(p)
  BY <1>2, AssetTyped DEF Proceeds, Goes, TypeOK
<1>3. ASSUME NEW p \in Processors, Lookup(p) PROVE Leaves(p) \/ Proceeds(p)
  <2>1. CASE /\ pc'[p] = "put" /\ item'[p] = item[p] /\ UNCHANGED queue
             /\ \E i \in Known : id'[p] = i
    BY <1>3, <2>1, LookupDoes, AssetTyped DEF Proceeds
  <2>2. CASE Goes(p, "create")
    BY <1>3, <2>2, LookupDoes DEF Proceeds, Goes
  <2>. QED BY <1>1, <1>3, <2>1, <2>2, LookupDoes
<1>4. ASSUME NEW p \in Processors, Create(p) PROVE Leaves(p) \/ Proceeds(p)
  <2>1. CASE Done(p) /\ UNCHANGED queue
    BY <1>4, <2>1, CreateDoes DEF Leaves, queue
  <2>2. CASE pc'[p] = "put" /\ item'[p] = item[p] /\ UNCHANGED queue /\ id'[p] \in Known'
    BY <1>4, <2>2, CreateDoes DEF Proceeds
  <2>. QED BY <1>1, <1>4, <2>1, <2>2, CreateDoes
<1>5. ASSUME NEW p \in Processors, Put(p) PROVE Leaves(p) \/ Proceeds(p)
  BY <1>1, <1>2, <1>5, PutDoes DEF Outcomes, Results
<1>6. ASSUME NEW p \in Processors, Search(p) PROVE Leaves(p) \/ Proceeds(p)
  BY <1>1, <1>2, <1>6, SearchDoes DEF Outcomes, Results
<1>7. ASSUME NEW p \in Processors, Checkin(p) PROVE Leaves(p) \/ Proceeds(p)
  BY <1>1, <1>2, <1>7, CheckinDoes
<1>8. ASSUME NEW p \in Processors, Checkout(p) PROVE Leaves(p)
  BY <1>1, <1>8, CheckoutDoes DEF Outcomes, Results
<1>9. ASSUME NEW p \in Processors, Crash(p) PROVE Leaves(p)
  BY <1>9, CrashDoes DEF Leaves, Crash
<1>10. CASE UNCHANGED vars
  BY <1>10 DEF vars, hand
<1>. QED BY <1>3, <1>4, <1>5, <1>6, <1>7, <1>8, <1>9, <1>10, EditDoes DEF Next, queue

LEMMA HandsKept == ASSUME TypeOK, Hands, [Next]_vars PROVE Hands'
<1>. USE DEF Hands
<1>1. CASE UNCHANGED <<pc, item, id, holder, queue>>
  BY <1>1 DEF queue
<1>2. ASSUME NEW p \in Processors, NEW e \in Events, Present(p, e) PROVE Hands'
  <2>1. \A q \in Processors \ {p} : item[q] = e => e \in shared'
    BY <1>2, PresentDoes DEF Held
  <2>2. shared \subseteq shared' /\ result' = result /\ result[e] = "open"
        /\ pc[p] = "idle" /\ pc'[p] = "lookup" /\ item'[p] = e /\ UNCHANGED <<id, holder>>
    BY <1>2, PresentDoes
  <2>. QED BY <1>2, <2>1, <2>2, PresentDoes DEF Others, TypeOK
<1>3. ASSUME NEW p \in Processors, Proceeds(p) PROVE Hands'
  BY <1>3 DEF Proceeds, Others, TypeOK, queue
<1>4. ASSUME NEW p \in Processors, Leaves(p) PROVE Hands'
  <2>1. \A e \in Events : e # item[p] => result'[e] = result[e]
    BY <1>4 DEF Leaves, TypeOK
  <2>2. ASSUME NEW q \in Processors, pc'[q] # "idle", item'[q] \notin shared'
        PROVE  result'[item'[q]] = "open"
    <3>1. q # p /\ pc[q] # "idle" /\ item'[q] = item[q] /\ item[q] \notin shared
      BY <1>4, <2>2 DEF Leaves, Done, Others
    <3>2. item[q] # item[p] /\ item[q] \in Events
      BY <1>4, <3>1, HandTyped DEF Leaves
    <3>. QED BY <2>1, <3>1, <3>2
  <2>3. ASSUME NEW q \in Processors, NEW s \in Processors, item'[q] = item'[s],
               item'[q] # NoEvent, item'[q] \notin shared'
        PROVE  q = s
    BY <1>4, <2>3 DEF Leaves, Done, Others
  <2>4. \A q \in Processors : pc'[q] \in {"idle", "lookup", "create"} =>
           id'[q] = NoId /\ holder'[q] = NoUser
    BY <1>4 DEF Leaves, Done, Others
  <2>. QED BY <2>2, <2>3, <2>4
<1>. QED BY <1>1, <1>2, <1>3, <1>4, HandsStep

\* An asset a processor will write is known: it was looked up or created, and assets stay.
LEMMA IdKnown ==
    ASSUME TypeOK, [Next]_vars
    PROVE  \A p \in Processors :
              pc'[p] \in {"put", "search", "checkin", "checkout"} => id'[p] \in Known'
<1>1. CASE UNCHANGED <<pc, item, id, holder, queue>>
  BY <1>1, AssetTyped DEF TypeOK
<1>2. ASSUME NEW q \in Processors,
             (\E e \in Events : Present(q, e)) \/ Leaves(q) \/ Proceeds(q),
             NEW p \in Processors, pc'[p] \in {"put", "search", "checkin", "checkout"}
      PROVE  id'[p] \in Known'
  <2>1. CASE p = q
    BY <1>2, <2>1, PresentDoes DEF Leaves, Done, Proceeds
  <2>2. CASE p # q
    <3>1. pc'[p] = pc[p] /\ id'[p] = id[p]
      BY <1>2, <2>2, PresentDoes DEF Leaves, Proceeds, Others
    <3>. QED BY <1>2, <3>1, AssetTyped DEF TypeOK
  <2>. QED BY <2>1, <2>2
<1>. QED BY <1>1, <1>2, HandsStep

LEMMA TypeKept == ASSUME TypeOK, [Next]_vars PROVE TypeOK'
<1>1. shared' \subseteq Events
  BY HandsStep, PresentDoes DEF Leaves, Proceeds, queue, TypeOK
<1>2. alone' \subseteq Processors /\ raced' \in BOOLEAN
  <2>1. ASSUME NEW p \in Processors, Put(p) \/ Checkin(p) \/ Checkout(p)
        PROVE  alone' \subseteq alone
    BY <2>1 DEF Put, Checkin, Checkout, Write
  <2>2. ASSUME NEW p \in Processors, Put(p) \/ Checkin(p) \/ Checkout(p) PROVE raced' = raced
    BY <2>2 DEF Put, Checkin, Checkout
  <2>3. ASSUME NEW p \in Processors, Lookup(p) \/ Create(p)
        PROVE  alone' \subseteq alone \cup {p} /\ raced' \in BOOLEAN
    BY <2>3 DEF Lookup, Create, TypeOK
  <2>4. ASSUME NEW p \in Processors,
               Search(p) \/ Crash(p) \/ \E e \in Events : Present(p, e)
        PROVE  alone' = alone /\ raced' = raced
    BY <2>4 DEF Search, Crash, Present, snipeit
  <2>5. ASSUME NEW i \in AssetIds, NEW user, Edit(i, user)
        PROVE  alone' \subseteq alone /\ raced' = raced
    BY <2>5 DEF Edit
  <2>. QED BY <2>1, <2>2, <2>3, <2>4, <2>5 DEF Next, vars, snipeit, TypeOK
<1>3. ignored' \subseteq Events
  <2>1. ASSUME NEW p \in Processors, Search(p) \/ Checkin(p) \/ Checkout(p)
        PROVE  ignored' \subseteq ignored \cup {item[p]} /\ item[p] \in Events
    BY <2>1, HandTyped DEF Search, Checkin, Checkout
  <2>2. ASSUME NEW p \in Processors, Lookup(p) \/ Create(p) \/ Put(p) \/ Crash(p)
        PROVE  ignored' = ignored
    BY <2>2 DEF Lookup, Create, Put, Crash
  <2>3. ASSUME NEW p \in Processors, NEW e \in Events, Present(p, e)
        PROVE  ignored' \subseteq ignored
    BY <2>3 DEF Present
  <2>4. ASSUME NEW i \in AssetIds, NEW user, Edit(i, user) PROVE ignored' = ignored
    BY <2>4 DEF Edit
  <2>. QED BY <2>1, <2>2, <2>3, <2>4 DEF Next, vars, TypeOK
<1>. QED BY <1>1, <1>2, <1>3, AssetTyped, HandsTyped, BoundsTyped, IdKnown
      DEF TypeOK, AssetTypes, HandTypes, Outcomes

-----------------------------------------------------------------------------
(* The invariant is kept.                                                  *)

LEMMA OneCreator ==
    ASSUME TypeOK, SoleCreator, [Next]_vars
    PROVE  SoleCreator'
<1>. SUFFICES ASSUME ~ raced' PROVE SoleCreator'
  BY DEF SoleCreator
<1>. USE DEF SoleCreator
<1>1. ASSUME NEW p \in Processors, Lookup(p) PROVE SoleCreator'
  <2>1. Known' = Known /\ ~ raced
    BY <1>1, LookupDoes DEF Known
  <2>2. ASSUME Goes(p, "create"), Known = {}, \A q \in Processors \ {p} : pc[q] # "create"
        PROVE  SoleCreator'
    BY <1>1, <2>1, <2>2, LookupDoes DEF Others, Goes
  <2>3. CASE pc'[p] # "create"
    BY <1>1, <2>1, <2>3, LookupDoes DEF Others
  <2>4. pc'[p] # "create" \/
        (Goes(p, "create") /\ Known = {} /\ \A q \in Processors \ {p} : pc[q] # "create")
    BY <1>1, LookupDoes DEF Fails, GetsResult, Done
  <2>. QED BY <2>2, <2>3, <2>4
<1>2. ASSUME NEW p \in Processors, Create(p) PROVE SoleCreator'
  <2>1. Known = {} /\ \A q \in Processors : pc[q] = "create" => q = p
    BY <1>2, CreateDoes
  <2>2. \A q \in Processors : pc'[q] # "create"
    BY <1>2, <2>1, CreateDoes DEF Others, Fails, GetsResult, Done
  <2>3. \A i, j \in Known' : i = j
    BY <1>2, <2>1, CreateDoes
  <2>. QED BY <2>2, <2>3
<1>3. ASSUME Known' = Known, raced' = raced,
             \A q \in Processors : pc'[q] = "create" => pc[q] = "create"
      PROVE  SoleCreator'
  BY <1>3
<1>4. ASSUME NEW p \in Processors, Put(p) \/ Checkin(p) \/ Checkout(p) PROVE SoleCreator'
  BY <1>3, <1>4, PutDoes, CheckinDoes, CheckoutDoes
     DEF Wrote, Others, Fails, GetsResult, Done, Goes
<1>5. ASSUME NEW p \in Processors,
             Search(p) \/ Crash(p) \/ \E e \in Events : Present(p, e)
      PROVE  SoleCreator'
  <2>1. Known' = Known
    BY <1>5, SearchDoes, CrashDoes, PresentDoes DEF Known
  <2>. QED BY <1>3, <1>5, <2>1, SearchDoes, CrashDoes, PresentDoes
           DEF Others, Fails, GetsResult, Done, Goes
<1>6. ASSUME NEW i \in AssetIds, NEW user \in Unique \cup Places \cup {NoUser}, Edit(i, user)
      PROVE  SoleCreator'
  BY <1>3, <1>6, EditDoes
<1>7. CASE UNCHANGED vars
  BY <1>3, <1>7 DEF vars, snipeit, Known
<1>. QED BY <1>1, <1>2, <1>4, <1>5, <1>6, <1>7 DEF Next

LEMMA KnowledgeKept ==
    ASSUME TypeOK, Hands, AloneIsRight, [Next]_vars
    PROVE  AloneIsRight'
<1>. USE DEF AloneIsRight
<1>0. alone \subseteq Processors
  BY DEF TypeOK
<1>1. ASSUME NEW p \in Processors, Lookup(p) PROVE AloneIsRight'
  BY <1>0, <1>1, LookupDoes DEF Others, Fails, GetsResult, Done, Goes
<1>2. ASSUME NEW p \in Processors, Create(p) PROVE AloneIsRight'
  <2>1. PICK i \in AssetIds \ Known :
           /\ \A j \in AssetIds \ {i} : asset'[j] = asset[j]
           /\ \/ pc'[p] = "idle" /\ alone' = alone
              \/ /\ pc'[p] = "put" /\ id'[p] = i /\ holder'[p] = holder[p]
                 /\ asset'[i].owner = NoUser /\ alone' = alone \cup {p}
    BY <1>2, CreateDoes DEF Fails, GetsResult, Done
  <2>2. Others(p) /\ holder[p] = NoUser
    BY <1>2, CreateDoes DEF Hands
  <2>3. ASSUME NEW q \in alone', q # p
        PROVE  /\ pc'[q] \in {"search", "checkin", "checkout"}
                     => asset'[id'[q]].inventory = item'[q]
               /\ pc'[q] \in {"put", "search"} => asset'[id'[q]].owner = holder'[q]
    <3>1. q \in alone /\ pc'[q] = pc[q] /\ item'[q] = item[q] /\ id'[q] = id[q]
             /\ holder'[q] = holder[q]
      BY <1>0, <2>1, <2>2, <2>3 DEF Others
    <3>2. pc[q] \in {"put", "search", "checkin", "checkout"} => asset'[id[q]] = asset[id[q]]
      BY <1>0, <2>1, <3>1 DEF TypeOK, Known
    <3>. QED BY <3>1, <3>2
  <2>. QED BY <2>1, <2>2, <2>3
<1>3. ASSUME NEW p \in Processors, NEW a, NEW new, Wrote(p, a, new), Others(p),
             NEW q \in alone', q # p, pc[p] \in {"put", "checkin", "checkout"}
      PROVE  /\ pc'[q] \in {"search", "checkin", "checkout"}
                   => asset'[id'[q]].inventory = item'[q]
             /\ pc'[q] \in {"put", "search"} => asset'[id'[q]].owner = holder'[q]
  <2>1. q \in alone /\ pc'[q] = pc[q] /\ item'[q] = item[q] /\ id'[q] = id[q]
           /\ holder'[q] = holder[q]
    BY <1>0, <1>3 DEF Others, Wrote
  <2>2. pc[q] \in {"put", "search", "checkin", "checkout"} => asset'[id[q]] = asset[id[q]]
    BY <1>0, <1>3, <2>1 DEF TypeOK, Known, Wrote
  <2>. QED BY <2>1, <2>2
<1>4. ASSUME NEW p \in Processors, Put(p) PROVE AloneIsRight'
  <2>1. PICK a \in Answers :
           /\ Wrote(p, a, [asset[id[p]] EXCEPT !.inventory = item[p]])
           /\ \/ pc'[p] = "idle"
              \/ a \in Took /\ Goes(p, "search")
    BY <1>4, PutDoes DEF Fails, GetsResult, Done
  <2>2. p \in alone' /\ Goes(p, "search") /\ a \in Took
           => asset'[id'[p]].inventory = item'[p] /\ asset'[id'[p]].owner = holder'[p]
    <3>1. /\ pc[p] = "put" /\ asset[id[p]] \in Assets
          /\ p \in alone' => asset[id[p]].owner = holder[p]
      BY <1>4, <2>1, PutDoes, Written DEF Wrote
    <3>2. LET new == [asset[id[p]] EXCEPT !.inventory = item[p]]
          IN  new.inventory = item[p] /\ new.owner = asset[id[p]].owner
      BY <3>1 DEF Assets
    <3>. QED BY <2>1, <3>1, <3>2 DEF Goes, Wrote
  <2>. QED BY <1>3, <1>4, <2>1, <2>2, PutDoes DEF Goes
<1>5. ASSUME NEW p \in Processors, Checkin(p) PROVE AloneIsRight'
  <2>1. PICK a \in Answers :
           /\ Wrote(p, a, [asset[id[p]] EXCEPT !.owner = NoUser])
           /\ pc'[p] = "idle" \/ Goes(p, "checkout")
    BY <1>5, CheckinDoes DEF Fails, GetsResult, Done
  <2>2. p \in alone' /\ Goes(p, "checkout") => asset'[id'[p]].inventory = item'[p]
    <3>1. /\ pc[p] = "checkin" /\ asset[id[p]] \in Assets
          /\ p \in alone' => asset[id[p]].inventory = item[p]
      BY <1>5, <2>1, CheckinDoes, Written DEF Wrote
    <3>2. [asset[id[p]] EXCEPT !.owner = NoUser].inventory = asset[id[p]].inventory
      BY <3>1 DEF Assets
    <3>. QED BY <2>1, <3>1, <3>2 DEF Goes, Wrote
  <2>. QED BY <1>3, <1>5, <2>1, <2>2, CheckinDoes DEF Goes
<1>6. ASSUME NEW p \in Processors, Checkout(p) PROVE AloneIsRight'
  <2>1. PICK a \in Answers : Wrote(p, a, [asset[id[p]] EXCEPT !.owner = target[p]])
    BY <1>6, CheckoutDoes
  <2>2. pc'[p] = "idle"
    BY <1>6, CheckoutDoes DEF Fails, GetsResult, Done
  <2>. QED BY <1>3, <1>6, <2>1, <2>2, CheckoutDoes
<1>7. ASSUME NEW p \in Processors, Search(p) PROVE AloneIsRight'
  BY <1>0, <1>7, SearchDoes DEF Others, Fails, GetsResult, Done, Goes
<1>8. ASSUME NEW p \in Processors, Crash(p) \/ \E e \in Events : Present(p, e)
      PROVE  AloneIsRight'
  BY <1>0, <1>8, CrashDoes, PresentDoes DEF Others, Done
<1>9. ASSUME NEW i \in AssetIds, NEW user \in Unique \cup Places \cup {NoUser}, Edit(i, user)
      PROVE  AloneIsRight'
  <2>1. ASSUME NEW q \in alone', pc[q] \in {"put", "search", "checkin", "checkout"}
        PROVE  q \in alone /\ asset'[id[q]] = asset[id[q]]
    BY <1>0, <1>9, <2>1, EditDoes DEF TypeOK, Known
  <2>. QED BY <1>9, <2>1, EditDoes
<1>10. CASE UNCHANGED vars
  BY <1>10 DEF vars, snipeit, hand
<1>. QED BY <1>1, <1>2, <1>4, <1>5, <1>6, <1>7, <1>8, <1>9, <1>10 DEF Next

LEMMA WantedKept == ASSUME TypeOK, Wanted, [Next]_vars PROVE Wanted'
<1>. USE DEF Wanted
<1>1. ASSUME NEW p \in Processors, Lookup(p) \/ Create(p) PROVE Wanted'
  BY <1>1, LookupDoes, CreateDoes DEF Others, Fails, GetsResult, Done, Goes
<1>2. ASSUME NEW p \in Processors, Put(p) PROVE Wanted'
  BY <1>2, PutDoes DEF Others, Fails, GetsResult, Done, Goes
<1>3. ASSUME NEW p \in Processors, Search(p) PROVE Wanted'
  BY <1>3, SearchDoes DEF Others, Fails, GetsResult, Done, Goes
<1>4. ASSUME NEW p \in Processors, Checkin(p) \/ Checkout(p) PROVE Wanted'
  BY <1>4, CheckinDoes, CheckoutDoes DEF Others, Fails, GetsResult, Done, Goes
<1>5. ASSUME NEW p \in Processors, Crash(p) \/ \E e \in Events : Present(p, e) PROVE Wanted'
  BY <1>5, CrashDoes, PresentDoes DEF Others, Done
<1>6. ASSUME NEW i \in AssetIds, NEW user \in Unique \cup Places \cup {NoUser}, Edit(i, user)
      PROVE  Wanted'
  BY <1>6, EditDoes
<1>7. CASE UNCHANGED vars
  BY <1>7 DEF vars, hand
<1>. QED BY <1>1, <1>2, <1>3, <1>4, <1>5, <1>6, <1>7 DEF Next

LEMMA KnownStep ==
    ASSUME TypeOK, [Next]_vars
    PROVE  Known' = Known \/ \E i \in AssetIds : Known' \subseteq Known \cup {i}
<1>1. ASSUME NEW p \in Processors,
             Lookup(p) \/ Search(p) \/ Crash(p) \/ \E e \in Events : Present(p, e)
      PROVE  Known' = Known
  BY <1>1, LookupDoes, SearchDoes, CrashDoes, PresentDoes DEF Known
<1>2. ASSUME NEW p \in Processors, Put(p) \/ Checkin(p) \/ Checkout(p)
      PROVE  Known' = Known
  BY <1>2, PutDoes, CheckinDoes, CheckoutDoes DEF Wrote
<1>3. ASSUME NEW p \in Processors, Create(p)
      PROVE  \E i \in AssetIds : Known' \subseteq Known \cup {i}
  BY <1>3, CreateDoes
<1>4. CASE UNCHANGED vars
  BY <1>4 DEF vars, snipeit, Known
<1>. QED BY <1>1, <1>2, <1>3, <1>4, EditDoes DEF Next

LEMMA KnownFinite ==
    ASSUME TypeOK, IsFiniteSet(Known), [Next]_vars PROVE IsFiniteSet(Known')
<1>1. ASSUME NEW i PROVE IsFiniteSet(Known \cup {i})
  BY FS_AddElement
<1>. QED BY <1>1, KnownStep, FS_Subset

LEMMA OnlyOne ==
    ASSUME IsFiniteSet(Known), Cardinality(Known) = 1, NEW i \in Known, NEW j \in Known
    PROVE  i = j
<1>1. {i} \subseteq Known /\ Cardinality({i}) = 1
  BY FS_Singleton
<1>. QED BY <1>1, FS_Subset

\* The processors other than the one that acts keep giving on what their event freed.
LEMMA OthersGiveOn ==
    ASSUME NEW p \in Processors, Others(p), NEW q \in Processors \ {p}, NEW i, GivesOn(q, i)
    PROVE  GivesOn(q, i)'
BY DEF Others, GivesOn

LEMMA FreedKept ==
    ASSUME TypeOK, IsFiniteSet(Known), Hands, Wanted, Freed, [Next]_vars
    PROVE  Freed'
<1>0. /\ \A e \in Events : e # NoEvent
      /\ freed \in [AssetIds -> Events \cup {NoEvent}]
      /\ freed' \in [AssetIds -> Events \cup {NoEvent}]
  BY AssetTyped, SnipeItAssumption DEF TypeOK, AssetTypes
\* The asset and its history are as before, and the event is in other hands or goes on well.
<1>1. ASSUME NEW p \in Processors, Others(p), NEW i \in AssetIds, freed[i] # NoEvent,
             freed'[i] = freed[i], i \in Known', asset'[i].owner = asset[i].owner,
             shared \subseteq shared',
             freed[i] \notin shared /\ item'[p] = freed[i] => GivesOn(p, i)'
      PROVE  /\ asset'[i].owner = NoUser
             /\ Proposed[freed'[i]] \in Unique
             /\ freed'[i] \notin shared' =>
                   \A q \in Processors : item'[q] = freed'[i] => GivesOn(q, i)'
  BY <1>1, OthersGiveOn DEF Freed, Others
<1>2. ASSUME NEW p \in Processors, NEW e \in Events, Present(p, e) PROVE Freed'
  <2>1. /\ Others(p) /\ UNCHANGED <<asset, freed>> /\ pc'[p] = "lookup"
        /\ shared \subseteq shared'
    BY <1>2, PresentDoes
  <2>. QED BY <1>1, <2>1, AssetTyped DEF Freed, GivesOn
<1>3. ASSUME NEW p \in Processors, Crash(p) PROVE Freed'
  <2>1. Others(p) /\ UNCHANGED <<asset, freed, shared>> /\ item'[p] = NoEvent
    BY <1>3, CrashDoes DEF Done
  <2>. QED BY <1>1, <2>1, AssetTyped DEF Freed
<1>4. ASSUME NEW p \in Processors, Lookup(p) PROVE Freed'
  <2>1. Others(p) /\ UNCHANGED <<asset, freed, shared>>
    BY <1>4, LookupDoes DEF Fails, GetsResult, Goes, queue
  <2>2. ASSUME NEW i \in AssetIds, freed[i] # NoEvent, item'[p] = freed[i]
        PROVE  GivesOn(p, i)'
    <3>1. i \in Known /\ asset[i].owner = NoUser
      BY <2>2 DEF Freed
    <3>2. PICK j \in Known : id'[p] = j /\ holder'[p] = asset[j].owner /\ pc'[p] = "put"
                             /\ Cardinality(Known) = 1
      BY <1>4, <2>2, <3>1, LookupDoes DEF Fails, GetsResult, Done
    <3>3. i = j
      BY <3>1, <3>2, OnlyOne
    <3>. QED BY <3>1, <3>2, <3>3 DEF GivesOn
  <2>. QED BY <1>1, <2>1, <2>2, AssetTyped DEF Freed
<1>5. ASSUME NEW p \in Processors, Create(p) PROVE Freed'
  <2>1. Others(p) /\ UNCHANGED <<freed, shared>> /\ pc[p] = "create"
    BY <1>5, CreateDoes DEF Fails, GetsResult, queue
  <2>2. ASSUME NEW i \in AssetIds, freed[i] # NoEvent
        PROVE  /\ i \in Known' /\ asset'[i].owner = asset[i].owner
               /\ freed[i] \notin shared => item'[p] # freed[i]
    <3>1. i \in Known /\ (freed[i] \notin shared => item[p] # freed[i])
      BY <2>1, <2>2 DEF Freed, GivesOn
    <3>. QED BY <1>5, <2>2, <3>1, CreateDoes, AssetTyped DEF Fails, GetsResult, Done
  <2>. QED BY <1>1, <2>1, <2>2 DEF Freed
<1>6. ASSUME NEW p \in Processors, Put(p) PROVE Freed'
  <2>1. PICK a \in Answers :
          /\ Wrote(p, a, [asset[id[p]] EXCEPT !.inventory = item[p]])
          /\ item'[p] = NoEvent \/ Goes(p, "search")
    BY <1>6, PutDoes DEF Fails, GetsResult, Done
  <2>2. /\ Others(p) /\ freed' = freed /\ pc[p] = "put" /\ asset[id[p]] \in Assets
        /\ shared' = shared
    BY <1>6, PutDoes, Written DEF Fails, GetsResult, Goes, queue
  <2>3. [asset[id[p]] EXCEPT !.inventory = item[p]].owner = asset[id[p]].owner
    BY <2>2 DEF Assets
  <2>4. ASSUME NEW i \in AssetIds, freed[i] # NoEvent
        PROVE  /\ i \in Known' /\ asset'[i].owner = asset[i].owner
               /\ freed[i] \notin shared /\ item'[p] = freed[i] => GivesOn(p, i)'
    <3>1. i \in Known' /\ asset'[i].owner = asset[i].owner
      BY <2>1, <2>3, <2>4 DEF Wrote, Freed
    <3>2. freed[i] \notin shared /\ item'[p] = freed[i] => GivesOn(p, i)'
      BY <2>1, <2>2, <2>4 DEF Goes, GivesOn, Freed
    <3>. QED BY <3>1, <3>2
  <2>. QED BY <1>1, <2>2, <2>4 DEF Freed
<1>7. ASSUME NEW p \in Processors, Search(p) PROVE Freed'
  <2>1. Others(p) /\ UNCHANGED <<asset, freed, shared>> /\ pc[p] = "search"
    BY <1>7, SearchDoes DEF Fails, GetsResult, Goes, queue
  <2>2. ASSUME NEW i \in AssetIds, freed[i] # NoEvent, item'[p] = freed[i],
               freed[i] \notin shared
        PROVE  GivesOn(p, i)'
    <3>1. Goes(p, IF holder[p] = NoUser THEN "checkout" ELSE "checkin")
      BY <1>0, <1>7, <2>2, SearchDoes DEF Fails, GetsResult, Done
    <3>2. id[p] = i /\ holder[p] = NoUser
      BY <2>1, <2>2, <3>1 DEF Goes, Freed, GivesOn
    <3>. QED BY <3>1, <3>2 DEF Goes, GivesOn
  <2>. QED BY <1>1, <2>1, <2>2, AssetTyped DEF Freed
<1>8. ASSUME NEW p \in Processors, Checkin(p) PROVE Freed'
  <2>1. PICK a \in Answers :
          /\ Wrote(p, a, [asset[id[p]] EXCEPT !.owner = NoUser])
          /\ freed' = IF a \in Took THEN [freed EXCEPT ![id[p]] = item[p]] ELSE freed
          /\ item'[p] = NoEvent \/ Goes(p, "checkout")
    BY <1>8, CheckinDoes DEF Fails, GetsResult, Done
  <2>2. /\ Others(p) /\ pc[p] = "checkin" /\ asset[id[p]] \in Assets /\ id[p] \in Known
        /\ shared' = shared
    BY <1>8, CheckinDoes, Written DEF Fails, GetsResult, Goes, queue
  <2>3. ASSUME NEW i \in AssetIds, freed[i] # NoEvent
        PROVE  /\ i \in Known'
               /\ freed[i] \notin shared => item[p] # freed[i] /\ item'[p] # freed[i]
    <3>1. i \in Known' /\ (freed[i] \notin shared => item[p] # freed[i])
      BY <2>1, <2>2, <2>3 DEF Wrote, Freed, GivesOn
    <3>. QED BY <2>1, <2>3, <3>1 DEF Goes
  <2>4. ASSUME NEW i \in AssetIds, freed[i] # NoEvent, i # id[p] \/ a \notin Took
        PROVE  freed'[i] = freed[i] /\ asset'[i].owner = asset[i].owner
    BY <2>1, <2>4 DEF Wrote, TypeOK
  <2>5. ASSUME a \in Took
        PROVE  /\ id[p] \in Known' /\ asset'[id[p]].owner = NoUser
               /\ freed'[id[p]] = item[p] /\ Proposed[item[p]] \in Unique
               /\ item[p] \notin shared => \A i : i = id[p] => \A q \in Processors :
                     item'[q] = item[p] => GivesOn(q, i)'
    <3>1. asset'[id[p]].owner = NoUser /\ freed'[id[p]] = item[p] /\ id[p] \in Known'
      BY <2>1, <2>2, <2>5 DEF Wrote, TypeOK, Known, Assets
    <3>2. Proposed[item[p]] \in Unique /\ item[p] # NoEvent
      BY <2>2 DEF Wanted, TypeOK
    <3>3. item[p] \notin shared => \A q \in Processors : item'[q] = item[p] => q = p
      BY <2>2, <3>2 DEF Others, Hands
    <3>4. \A i : i = id[p] /\ item'[p] = item[p] => GivesOn(p, i)'
      BY <2>1, <3>2 DEF Goes, GivesOn
    <3>. QED BY <3>1, <3>2, <3>3, <3>4
  <2>6. ASSUME NEW i \in AssetIds, freed'[i] # NoEvent
        PROVE  /\ i \in Known' /\ asset'[i].owner = NoUser
               /\ Proposed[freed'[i]] \in Unique
               /\ freed'[i] \notin shared' =>
                     \A q \in Processors : item'[q] = freed'[i] => GivesOn(q, i)'
    <3>1. CASE i = id[p] /\ a \in Took
      BY <2>2, <2>5, <3>1
    <3>2. CASE i # id[p] \/ a \notin Took
      <4>1. freed'[i] = freed[i]
        BY <2>1, <3>2 DEF TypeOK
      <4>. QED BY <1>1, <2>2, <2>3, <2>4, <2>6, <3>2, <4>1
    <3>. QED BY <3>1, <3>2
  <2>. QED BY <2>6 DEF Freed
<1>9. ASSUME NEW p \in Processors, Checkout(p) PROVE Freed'
  <2>1. PICK a \in Answers :
          /\ Wrote(p, a, [asset[id[p]] EXCEPT !.owner = target[p]])
          /\ freed' = IF a \in Took THEN [freed EXCEPT ![id[p]] = NoEvent] ELSE freed
    BY <1>9, CheckoutDoes
  <2>2. Others(p) /\ item'[p] = NoEvent /\ shared' = shared
    BY <1>9, CheckoutDoes DEF Fails, GetsResult, Done
  <2>3. ASSUME NEW i \in AssetIds, freed'[i] # NoEvent
        PROVE  freed'[i] = freed[i] /\ asset'[i].owner = asset[i].owner /\ i \in Known'
    <3>1. (i # id[p] \/ a \notin Took) /\ freed'[i] = freed[i]
      BY <2>1, <2>3 DEF TypeOK
    <3>. QED BY <2>1, <2>3, <3>1 DEF Wrote, Freed
  <2>. QED BY <1>1, <2>2, <2>3 DEF Freed
<1>10. ASSUME NEW i \in AssetIds, NEW user \in Unique \cup Places \cup {NoUser}, Edit(i, user)
       PROVE  Freed'
  <2>1. ASSUME NEW j \in AssetIds, freed'[j] # NoEvent
        PROVE  freed'[j] = freed[j] /\ asset'[j] = asset[j] /\ j \in Known'
    BY <1>10, <2>1, EditDoes DEF TypeOK, Freed
  <2>2. UNCHANGED <<pc, item, id, holder, shared>>
    BY <1>10, EditDoes
  <2>. QED BY <2>1, <2>2 DEF Freed, GivesOn
<1>11. CASE UNCHANGED vars
  BY <1>11 DEF vars, snipeit, queue, hand, Freed, GivesOn, Known
<1>. QED BY <1>2, <1>3, <1>4, <1>5, <1>6, <1>7, <1>8, <1>9, <1>10, <1>11 DEF Next

\* The results that say the owner was looked for.
Settling == Results \ {"preserve"}

\* A result is given only by an event that freed nothing, or gave on what it freed.
LEMMA GivenOnKept ==
    ASSUME TypeOK, Hands, Wanted, Freed, FreedIsGivenOn, [Next]_vars
    PROVE  FreedIsGivenOn'
<1>0. /\ \A e \in Events : e # NoEvent
      /\ \A i \in AssetIds : freed[i] \in Events \cup {NoEvent}
      /\ result \in [Events -> Outcomes]
      /\ \A p \in Processors : pc[p] # "idle" => item[p] \in Events /\ item[p] # NoEvent
  BY SnipeItAssumption, HandTyped DEF TypeOK, Outcomes
<1>. USE DEF Settling
<1>1. ASSUME UNCHANGED <<freed, result>>, ignored \subseteq ignored', shared \subseteq shared'
      PROVE  FreedIsGivenOn'
  BY <1>1 DEF FreedIsGivenOn
<1>2. ASSUME NEW p \in Processors, pc[p] # "idle", NEW r, GetsResult(p, r),
             ignored \subseteq ignored',
             NEW i \in AssetIds, freed'[i] # NoEvent, result'[freed'[i]] \in Settling,
             freed'[i] # freed[i] => freed'[i] = item[p],
             freed'[i] \in Events,
             freed'[i] = item[p] /\ r \in Settling => item[p] \in ignored' \cup shared'
      PROVE  freed'[i] \in ignored' \cup shared'
  <2>1. result'[freed'[i]] = IF freed'[i] = item[p] THEN r ELSE result[freed'[i]]
    BY <1>0, <1>2 DEF GetsResult
  <2>2. shared' = shared
    BY <1>2 DEF GetsResult
  <2>. QED BY <1>2, <2>1, <2>2 DEF FreedIsGivenOn
<1>3. ASSUME NEW p \in Processors, Fails(p), pc[p] # "idle", ignored \subseteq ignored',
             NEW i \in AssetIds, freed'[i] # NoEvent, result'[freed'[i]] \in Settling,
             freed'[i] # freed[i] => freed'[i] = item[p], freed'[i] \in Events
      PROVE  freed'[i] \in ignored' \cup shared'
  BY <1>2, <1>3 DEF Fails
<1>4. ASSUME NEW p \in Processors, NEW e \in Events, Present(p, e) PROVE FreedIsGivenOn'
  <2>1. UNCHANGED <<freed, result>> /\ result[e] = "open"
        /\ ignored \ {e} \subseteq ignored' /\ shared \subseteq shared'
    BY <1>4, PresentDoes
  <2>. QED BY <2>1 DEF FreedIsGivenOn, Results
<1>5. ASSUME NEW p \in Processors, Crash(p) PROVE FreedIsGivenOn'
  BY <1>1, <1>5, CrashDoes
<1>6. ASSUME NEW p \in Processors, Lookup(p) \/ Create(p) PROVE FreedIsGivenOn'
  <2>1. /\ pc[p] # "idle" /\ UNCHANGED <<freed, ignored, shared>>
        /\ Fails(p) \/ result' = result
    BY <1>6, LookupDoes, CreateDoes DEF Goes, queue, Fails, GetsResult
  <2>. QED BY <1>0, <1>1, <1>3, <2>1 DEF FreedIsGivenOn
<1>7. ASSUME NEW p \in Processors, Put(p) PROVE FreedIsGivenOn'
  <2>1. /\ pc[p] = "put" /\ UNCHANGED <<freed, ignored, shared>>
        /\ Fails(p) \/ result' = result \/ GetsResult(p, "preserve")
    BY <1>7, PutDoes DEF Goes, queue, Fails, GetsResult
  <2>2. CASE GetsResult(p, "preserve")
    BY <1>0, <1>2, <2>1, <2>2 DEF FreedIsGivenOn
  <2>. QED BY <1>0, <1>1, <1>3, <2>1, <2>2 DEF FreedIsGivenOn
<1>8. ASSUME NEW p \in Processors, Search(p) PROVE FreedIsGivenOn'
  <2>1. /\ pc[p] = "search" /\ UNCHANGED <<freed, shared>> /\ ignored \subseteq ignored'
        /\ \/ Fails(p) \/ result' = result
           \/ GetsResult(p, "unresolved") /\ item[p] \in ignored'
           \/ GetsResult(p, "unresolved") /\ target[p] \notin Unique
           \/ GetsResult(p, "assigned") /\ holder[p] # NoUser
    BY <1>8, SearchDoes DEF Goes, queue, IsHolder, Fails, GetsResult
  <2>2. CASE GetsResult(p, "unresolved") /\ item[p] \in ignored'
    BY <1>0, <1>2, <2>1, <2>2 DEF FreedIsGivenOn
  <2>3. CASE \E r : GetsResult(p, r) /\ (target[p] \notin Unique \/ holder[p] # NoUser)
    <3>1. target[p] = Proposed[item[p]]
      BY <2>1 DEF Wanted
    <3>2. \A i \in AssetIds : freed[i] # NoEvent /\ freed[i] = item[p] => item[p] \in shared
      BY <2>1, <2>3, <3>1 DEF Freed, GivesOn
    <3>. QED BY <1>0, <1>2, <2>1, <2>3, <3>2 DEF FreedIsGivenOn
  <2>. QED BY <1>0, <1>1, <1>3, <2>1, <2>2, <2>3 DEF FreedIsGivenOn
<1>9. ASSUME NEW p \in Processors, Checkin(p) PROVE FreedIsGivenOn'
  <2>1. /\ pc[p] = "checkin" /\ ignored \subseteq ignored' /\ id[p] \in AssetIds
        /\ freed' = freed \/ freed' = [freed EXCEPT ![id[p]] = item[p]]
        /\ Fails(p) \/ result' = result
        /\ shared' = shared
    BY <1>9, CheckinDoes, Written DEF Goes, queue, Known, Fails, GetsResult
  <2>2. item[p] \in shared \/ result[item[p]] \notin Settling
    BY <2>1 DEF Hands, Results
  <2>3. \A i \in AssetIds : /\ freed'[i] # freed[i] => freed'[i] = item[p]
                            /\ freed'[i] # NoEvent => freed'[i] \in Events
    BY <1>0, <2>1 DEF TypeOK
  <2>4. ASSUME NEW i \in AssetIds, freed'[i] # NoEvent, result'[freed'[i]] \in Settling
        PROVE  freed'[i] \in ignored' \cup shared'
    <3>1. CASE Fails(p)
      BY <1>3, <2>1, <2>3, <2>4, <3>1
    <3>2. CASE result' = result
      <4>1. freed'[i] = freed[i] \/ freed'[i] \in shared
        BY <2>2, <2>3, <2>4, <3>2
      <4>. QED BY <2>1, <2>4, <3>2, <4>1 DEF FreedIsGivenOn
    <3>. QED BY <2>1, <3>1, <3>2
  <2>. QED BY <2>4 DEF FreedIsGivenOn
<1>10. ASSUME NEW p \in Processors, Checkout(p) PROVE FreedIsGivenOn'
  <2>1. PICK a \in Answers :
          /\ freed' = IF a \in Took THEN [freed EXCEPT ![id[p]] = NoEvent] ELSE freed
          /\ \/ Fails(p)
             \/ GetsResult(p, "owner_changed") /\ (a \in Took \/ item[p] \in ignored')
    BY <1>10, CheckoutDoes
  <2>2. pc[p] = "checkout" /\ ignored \subseteq ignored' /\ shared' = shared
    BY <1>10, CheckoutDoes DEF Fails, GetsResult
  <2>3. ASSUME NEW i \in AssetIds, freed'[i] # NoEvent
        PROVE  /\ freed'[i] = freed[i] /\ freed'[i] \in Events
               /\ a \in Took => i # id[p]
    BY <1>0, <2>1, <2>3 DEF TypeOK
  <2>4. ASSUME NEW i \in AssetIds, freed[i] # NoEvent, freed[i] = item[p]
        PROVE  id[p] = i \/ item[p] \in shared
    BY <2>2, <2>4 DEF Freed, GivesOn
  <2>5. CASE Fails(p)
    BY <1>3, <2>2, <2>3, <2>5 DEF FreedIsGivenOn
  <2>6. CASE GetsResult(p, "owner_changed") /\ (a \in Took \/ item[p] \in ignored')
    BY <1>2, <2>2, <2>3, <2>4, <2>6 DEF FreedIsGivenOn
  <2>. QED BY <2>1, <2>5, <2>6
<1>11. ASSUME NEW i \in AssetIds, NEW user \in Unique \cup Places \cup {NoUser}, Edit(i, user)
       PROVE  FreedIsGivenOn'
  BY <1>11, EditDoes DEF FreedIsGivenOn, TypeOK
<1>12. CASE UNCHANGED vars
  BY <1>1, <1>12 DEF vars, snipeit, queue
<1>. QED BY <1>4, <1>5, <1>6, <1>7, <1>8, <1>9, <1>10, <1>11, <1>12 DEF Next

-----------------------------------------------------------------------------
LEMMA InitInv == Init => Inv
<1>. SUFFICES ASSUME Init PROVE Inv
  OBVIOUS
<1>1. PICK known \in {{}} \cup {{i} : i \in AssetIds}, user \in Unique \cup Places \cup {NoUser} :
        asset = [i \in AssetIds |->
                   IF i \in known THEN [inventory |-> NoEvent, owner |-> user] ELSE Absent]
  BY DEF Init
<1>2. [inventory |-> NoEvent, owner |-> user] \in Assets
  BY SnipeItAssumption DEF Assets, Holders
<1>3. asset \in [AssetIds -> Assets \cup {Absent}]
  BY <1>1, <1>2
<1>4. Known \subseteq known
  BY <1>1 DEF Known
<1>5. IsFiniteSet(Known) /\ \A i, j \in Known : i = j
  <2>1. IsFiniteSet(known) /\ \A i, j \in known : i = j
    <3>1. known = {} \/ \E i \in AssetIds : known = {i}
      OBVIOUS
    <3>. QED BY <3>1, FS_EmptySet, FS_Singleton
  <2>. QED BY <1>4, <2>1, FS_Subset
<1>6. TypeOK
  <2>1. 0 \in 0..MaxFaults /\ 0 \in 0..MaxEdits /\ 0 \in 0..MaxCrashes
    BY SnipeItAssumption
  <2>2. faults \in 0..MaxFaults /\ edits \in 0..MaxEdits /\ crashes \in 0..MaxCrashes
    BY <2>1 DEF Init
  <2>3. /\ result \in [Events -> Results \cup {"open", "failed"}] /\ shared \subseteq Events
        /\ freed \in [AssetIds -> Events \cup {NoEvent}]
        /\ alone \subseteq Processors /\ raced \in BOOLEAN /\ ignored \subseteq Events
    BY DEF Init
  <2>4. /\ pc \in [Processors -> {"idle", "lookup", "create", "put", "search", "checkin",
                                   "checkout"}]
        /\ item \in [Processors -> Events \cup {NoEvent}]
        /\ \A p \in Processors : item[p] = NoEvent <=> pc[p] = "idle"
        /\ target \in [Processors -> Users \cup {NoUser}]
        /\ id \in [Processors -> AssetIds \cup {NoId}]
        /\ \A p \in Processors :
              pc[p] \in {"put", "search", "checkin", "checkout"} => id[p] \in Known
        /\ holder \in [Processors -> Holders]
    BY DEF Init, Holders
  <2>. QED BY <1>3, <2>2, <2>3, <2>4 DEF TypeOK
<1>7. Hands /\ SoleCreator /\ Freed /\ AloneIsRight /\ Wanted /\ FreedIsGivenOn
  BY <1>5, SnipeItAssumption
     DEF Init, Hands, SoleCreator, Freed, AloneIsRight, Wanted, FreedIsGivenOn
<1>. QED BY <1>5, <1>6, <1>7 DEF Inv

LEMMA Invariance == Spec => []Inv
<1>1. Inv /\ [Next]_vars => Inv'
  BY TypeKept, KnownFinite, HandsKept, OneCreator, FreedKept, KnowledgeKept,
     WantedKept, GivenOnKept DEF Inv
<1>. QED BY <1>1, InitInv, PTL DEF Spec

\* What the client keeps while it applies an event, and what Snipe-IT holds, stay of their
\* kinds, and an asset that is about to be written is one Snipe-IT has.
THEOREM TypeCorrect == Spec => []TypeOK
<1>1. Inv => TypeOK
  BY DEF Inv
<1>. QED BY <1>1, Invariance, PTL

\* The lookup before the creation keeps one asset per serial number, however many answers
\* are lost and processors die, unless two processors were about to create one at once.
THEOREM OneAsset == Spec => []OneAssetUnlessRaced
<1>1. ASSUME Inv PROVE OneAssetUnlessRaced
  <2>1. raced \/ \A i, j \in Known : i = j
    BY <1>1 DEF Inv, SoleCreator
  <2>2. ASSUME \A i, j \in Known : i = j PROVE Known = {} \/ \E i : Known = {i}
    BY <2>2
  <2>3. ASSUME \A i, j \in Known : i = j PROVE Cardinality(Known) \in {0, 1}
    BY <2>2, <2>3, FS_EmptySet, FS_Singleton
  <2>4. CASE raced
    BY <2>4 DEF OneAssetUnlessRaced
  <2>5. CASE \A i, j \in Known : i = j
    <3>1. Cardinality(Known) <= 1
      BY <2>3, <2>5
    <3>. QED BY <3>1 DEF OneAssetUnlessRaced
  <2>. QED BY <2>1, <2>4, <2>5
<1>. QED BY <1>1, Invariance, PTL

\* An event that took an asset from its owner does not end with an owner looked for before
\* somebody has the asset, but for an error in the body of an answer, which the client does
\* not look at, and an event that two processors had in hand at once.
THEOREM FreedGivenOn == Spec => []FreedIsGivenOn
<1>1. Inv => FreedIsGivenOn
  BY DEF Inv
<1>. QED BY <1>1, Invariance, PTL

\* A result is reported by the step of the processor that has the event in hand.
LEMMA OwnStep ==
    ASSUME TypeOK, [Next]_vars, NEW p \in Processors, Reports(p)
    PROVE  (Put(p) \/ Search(p) \/ Checkout(p)) /\ ~ Fails(p)
<1>1. /\ pc[p] \in {"put", "search", "checkout"} /\ pc'[p] = "idle" /\ crashes' = crashes
      /\ result'[item[p]] \in Results /\ item[p] \in Events
  BY HandTyped DEF Reports
<1>2. ASSUME Fails(p) PROVE FALSE
  BY <1>1, <1>2 DEF Fails, GetsResult, TypeOK
<1>3. ASSUME NEW q \in Processors \ {p}, Others(q) PROVE FALSE
  BY <1>1, <1>3 DEF Others
<1>4. ASSUME NEW q \in Processors,
             \/ Lookup(q) \/ Create(q) \/ Put(q) \/ Search(q) \/ Checkin(q) \/ Checkout(q)
             \/ Crash(q) \/ \E e \in Events : Present(q, e)
      PROVE  q = p
  BY <1>3, <1>4, LookupDoes, CreateDoes, PutDoes, SearchDoes, CheckinDoes, CheckoutDoes,
     CrashDoes, PresentDoes
<1>5. ~ Lookup(p) /\ ~ Create(p) /\ ~ Checkin(p) /\ ~ \E e \in Events : Present(p, e)
  BY <1>1 DEF Lookup, Create, Checkin, Present
<1>6. ~ Crash(p)
  BY <1>1 DEF Crash, TypeOK
<1>7. pc' # pc
  BY <1>1
<1>. QED BY <1>2, <1>4, <1>5, <1>6, <1>7, EditDoes DEF Next, vars

\* The result of an event is what Snipe-IT shows of its asset, unless somebody else wrote
\* the asset since the lookup or an error in a body was taken for success.
THEOREM Applied == Spec => AppliedAsReported
<1>1. ASSUME Inv, [Next]_vars, NEW p \in Processors, Reports(p), item[p] \notin ignored'
      PROVE  ResultIsTrue(p)
  <2>1. /\ TypeOK /\ pc[p] # "idle" /\ p \in alone /\ item[p] \in Events /\ ~ Fails(p)
        /\ pc'[p] = "idle"
    BY <1>1, HandTyped, OwnStep DEF Reports, Inv
  <2>a. ASSUME NEW r, GetsResult(p, r) PROVE result'[item[p]] = r
    BY <2>1, <2>a DEF GetsResult, TypeOK
  <2>2. CASE Put(p)
    <3>1. PICK a \in Answers :
            /\ Wrote(p, a, [asset[id[p]] EXCEPT !.inventory = item[p]])
            /\ a \in Took /\ GetsResult(p, "preserve")
      BY <2>1, <2>2, PutDoes DEF Goes
    <3>2. result'[item[p]] = "preserve" /\ pc[p] = "put"
      BY <2>2, <2>a, <3>1, PutDoes, <2>1
    <3>3. [asset[id[p]] EXCEPT !.inventory = item[p]].inventory = item[p]
      BY <2>1, <3>2, Written DEF Assets
    <3>. QED BY <3>1, <3>2, <3>3 DEF Wrote, ResultIsTrue
  <2>3. CASE Search(p)
    <3>1. /\ pc[p] = "search" /\ asset' = asset
          /\ \/ GetsResult(p, "unresolved")
             \/ GetsResult(p, "assigned") /\ target[p] \in Unique /\ IsHolder(p)
      BY <2>1, <2>3, SearchDoes DEF Goes
    <3>2. /\ result'[item[p]] \in {"unresolved", "assigned"}
          /\ result'[item[p]] = "assigned" => target[p] \in Unique /\ IsHolder(p)
      BY <2>a, <3>1
    <3>3. /\ asset'[id[p]].inventory = item[p] /\ asset'[id[p]].owner = holder[p]
          /\ holder[p] \in Holders
      BY <1>1, <2>1, <3>1 DEF Inv, AloneIsRight, TypeOK
    <3>4. ASSUME target[p] \in Unique, IsHolder(p)
          PROVE  holder[p] = target[p] \/ holder[p] \in Places
      BY <3>3, <3>4, SnipeItAssumption DEF IsHolder, Holders
    <3>. QED BY <3>2, <3>3, <3>4 DEF ResultIsTrue
  <2>4. CASE Checkout(p)
    <3>1. PICK a \in Answers :
            /\ Wrote(p, a, [asset[id[p]] EXCEPT !.owner = target[p]])
            /\ a \in Took /\ GetsResult(p, "owner_changed")
      BY <1>1, <2>1, <2>4, CheckoutDoes
    <3>2. result'[item[p]] = "owner_changed" /\ pc[p] = "checkout"
      BY <2>1, <2>4, <2>a, <3>1, CheckoutDoes
    <3>3. asset[id[p]].inventory = item[p] /\ asset[id[p]] \in Assets
      BY <1>1, <2>1, <3>2, Written DEF Inv, AloneIsRight
    <3>4. LET new == [asset[id[p]] EXCEPT !.owner = target[p]]
          IN  new.inventory = item[p] /\ new.owner = target[p]
      BY <3>3 DEF Assets
    <3>. QED BY <3>1, <3>2, <3>4 DEF Wrote, ResultIsTrue
  <2>. QED BY <1>1, <2>1, <2>2, <2>3, <2>4, OwnStep
<1>2. Inv /\ [Next]_vars =>
        [\A p \in Processors : Reports(p) /\ item[p] \notin ignored' => ResultIsTrue(p)]_vars
  BY <1>1
<1>. QED BY <1>2, Invariance, PTL DEF Spec, AppliedAsReported

=============================================================================
