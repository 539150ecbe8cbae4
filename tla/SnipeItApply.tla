---------------------------- MODULE SnipeItApply ----------------------------
(***************************************************************************)
(* SnipeITClient.apply_inventory, one step per HTTP request, against a     *)
(* Snipe-IT that other processes and its administrators change meanwhile.  *)
(*                                                                         *)
(* The assets are those of one serial number: requests for different ones  *)
(* do not meet.  The inventory is known by the event it came from.  What   *)
(* decide_owner says of an event is the user it proposes or nobody, anew   *)
(* each time the event is presented: an owner may be confirmed in between, *)
(* and another one instead of him (OwnerCandidates).                       *)
(* An event may be in two hands: its lease (queue.py) can lapse while the  *)
(* processor that has it still waits for an answer.                        *)
(* A write either takes effect before its answer, or before its answer is  *)
(* lost, or not at all.                                                    *)
(***************************************************************************)
EXTENDS Integers, FiniteSets

CONSTANTS
    Processors, Events, Users, AssetIds,
    NoUser, NoEvent, NoId, Absent,
    Places,          \* locations and other assets, which may hold an asset as well
    NumericId,       \* the id of a user or place, unique among users only
    Proposed,        \* the user an event proposes
    Unique,          \* users whose name Snipe-IT finds exactly once
    MaxShared,       \* bound on events that are in two hands at once
    MaxFaults,       \* bound on requests that do not answer 2xx with success
    MaxEdits,        \* bound on changes made by administrators
    MaxCrashes       \* bound on process failures in a behaviour

ASSUME SnipeItAssumption ==
    /\ NoUser \notin Users /\ NoEvent \notin Events /\ NoId \notin AssetIds
    /\ Unique \subseteq Users /\ NoUser \notin Places
    /\ NumericId \in [Users \cup Places -> Nat]
    /\ \A a, b \in Users : NumericId[a] = NumericId[b] => a = b
    /\ Proposed \in [Events -> Users \cup {NoUser}]
    /\ MaxShared \in Nat /\ MaxFaults \in Nat /\ MaxEdits \in Nat /\ MaxCrashes \in Nat

Holders == Users \cup Places \cup {NoUser}
Assets == [inventory : Events \cup {NoEvent}, owner : Holders]

ASSUME AbsentAssumption == Absent \notin Assets

\* What apply returns: the inventory alone, a name not found, an owner that was there
\* already, a transition.
Results == {"preserve", "unresolved", "assigned", "owner_changed"}

VARIABLES
    asset,      \* per id, the asset in Snipe-IT or Absent
    pc, item,
    target,     \* decision.username
    id, holder, \* the asset looked up, and assigned_to of that answer
    result,     \* per event: "open", "failed" (rejected or dead_letter) or one of Results
    shared,     \* history: events that two processors had in hand at once
    freed,      \* history: per id, the event that last checked the asset in, until the
                \* asset has an owner again
    alone,      \* history: processors whose asset nobody else wrote since they looked
    raced,      \* history: two processors were about to create an asset
    ignored,    \* history: events for which an error in a body was taken for success
    faults, edits, crashes

snipeit == <<asset, freed, alone, raced>>
queue == <<result, shared>>
bounds == <<faults, edits, crashes>>
hand == <<target, id, holder>>
vars == <<snipeit, pc, item, hand, queue, ignored, bounds>>

Known == {i \in AssetIds : asset[i] # Absent}

TypeOK ==
    /\ asset \in [AssetIds -> Assets \cup {Absent}]
    /\ pc \in [Processors -> {"idle", "lookup", "create", "put", "search", "checkin",
                               "checkout"}]
    /\ item \in [Processors -> Events \cup {NoEvent}]
    /\ \A p \in Processors : item[p] = NoEvent <=> pc[p] = "idle"
    /\ target \in [Processors -> Users \cup {NoUser}]
    /\ id \in [Processors -> AssetIds \cup {NoId}]
    /\ \A p \in Processors :
          pc[p] \in {"put", "search", "checkin", "checkout"} => id[p] \in Known
    /\ holder \in [Processors -> Holders]
    /\ result \in [Events -> Results \cup {"open", "failed"}]
    /\ shared \subseteq Events
    /\ freed \in [AssetIds -> Events \cup {NoEvent}]
    /\ alone \subseteq Processors /\ raced \in BOOLEAN /\ ignored \subseteq Events
    /\ faults \in 0..MaxFaults /\ edits \in 0..MaxEdits /\ crashes \in 0..MaxCrashes

\* The asset is unknown to Snipe-IT, or there is one.
Init ==
    /\ \E known \in {{}} \cup {{i} : i \in AssetIds}, user \in Unique \cup Places \cup {NoUser} :
          asset = [i \in AssetIds |->
                     IF i \in known THEN [inventory |-> NoEvent, owner |-> user] ELSE Absent]
    /\ pc = [p \in Processors |-> "idle"]
    /\ item = [p \in Processors |-> NoEvent]
    /\ target = [p \in Processors |-> NoUser]
    /\ id = [p \in Processors |-> NoId]
    /\ holder = [p \in Processors |-> NoUser]
    /\ result = [e \in Events |-> "open"]
    /\ freed = [i \in AssetIds |-> NoEvent]
    /\ alone = {} /\ raced = FALSE /\ ignored = {} /\ shared = {}
    /\ faults = 0 /\ edits = 0 /\ crashes = 0

GoTo(p, location) == pc' = [pc EXCEPT ![p] = location]
\* Mutant of LetGo: the event stays in hand.
LetGoKeepingItem(p) == GoTo(p, "idle") /\ UNCHANGED <<item, hand>>

LetGo(p) ==
    /\ GoTo(p, "idle")
    /\ item' = [item EXCEPT ![p] = NoEvent]
    /\ target' = [target EXCEPT ![p] = NoUser]
    /\ id' = [id EXCEPT ![p] = NoId]
    /\ holder' = [holder EXCEPT ![p] = NoUser]

-----------------------------------------------------------------------------
(* The outcomes of process_item.                                           *)

Held(e) == \E p \in Processors : item[p] = e

\* claim, whose counting of attempts is in EventProcessing, of an event that is not stale:
\* an open one, also one whose lease lapsed in the hand of another.  Then decide_owner.
Present(p, e) ==
    /\ pc[p] = "idle" /\ result[e] = "open"
    /\ Held(e) => e \in shared \/ Cardinality(shared) < MaxShared
    /\ item' = [item EXCEPT ![p] = e]
    /\ \E decision \in {Proposed[e], NoUser} : target' = [target EXCEPT ![p] = decision]
    /\ GoTo(p, "lookup")
    /\ shared' = IF Held(e) THEN shared \cup {e} ELSE shared
    /\ ignored' = IF Held(e) THEN ignored ELSE ignored \ {e}
    /\ UNCHANGED <<snipeit, id, holder, result, bounds>>

\* Whoever ends the event writes its status, the processor that lost its lease too.
Finish(p, r) ==
    /\ result' = [result EXCEPT ![item[p]] = r]
    /\ LetGo(p)
    /\ UNCHANGED shared

\* Mutant of Retry: the error of a request after the PUT is swallowed.
RetrySwallowed(p) ==
    IF pc[p] \in {"checkin", "checkout"} THEN Finish(p, "owner_changed")
    ELSE \E r \in {"open", "failed"} : Finish(p, r)

\* TemporaryProcessingError: again, unless the attempts are used up.
Retry(p) == \E r \in {"open", "failed"} : Finish(p, r)

\* PermanentProcessingError.
Reject(p) == Finish(p, "failed")

-----------------------------------------------------------------------------
(* Requests.  "lost": a timeout, or a status the client retries, after the *)
(* request took effect; "down": the same before; "refused": another 4xx;   *)
(* "error": a 200 whose body says so.                                      *)
Answers == {"ok", "lost", "down", "refused", "error"}

Answer(a) ==
    /\ a # "ok" => faults < MaxFaults
    /\ faults' = IF a = "ok" THEN faults ELSE faults + 1
    /\ UNCHANGED <<edits, crashes>>

\* Mutant of Raises: the client repeats a request that was not answered.
RaisesAfterRepeat(p, a) ==
    \/ a \in {"lost", "down"} /\ UNCHANGED <<pc, item, hand, queue>>
    \/ a = "refused" /\ Reject(p)

\* _request raises.
Raises(p, a) == (a \in {"lost", "down"} /\ Retry(p)) \/ (a = "refused" /\ Reject(p))

\* The write of p on asset i takes effect, or not.
Write(p, i, a, new) ==
    IF a \in {"ok", "lost"}
      THEN /\ asset' = [asset EXCEPT ![i] = new]
           /\ alone' = alone \ {q \in Processors \ {p} : id[q] = i}
      ELSE UNCHANGED <<asset, alone>>

\* GET by serial.  The body of an unknown serial number is an error without rows.
Lookup(p) ==
    /\ pc[p] = "lookup"
    /\ \E a \in Answers \ {"error"} :
          /\ Answer(a)
          /\ \/ Raises(p, a) /\ UNCHANGED <<alone, raced>>
             \/ /\ a = "ok" /\ Cardinality(Known) > 1
                /\ Reject(p) /\ UNCHANGED <<alone, raced>>
             \/ /\ a = "ok" /\ Cardinality(Known) = 1
                /\ \E i \in Known :
                      /\ id' = [id EXCEPT ![p] = i]
                      /\ holder' = [holder EXCEPT ![p] = asset[i].owner]
                /\ alone' = alone \cup {p}
                /\ GoTo(p, "put")
                /\ UNCHANGED <<item, target, queue, raced>>
             \/ /\ a = "ok" /\ Known = {}
                /\ raced' = (raced \/ \E q \in Processors \ {p} : pc[q] = "create")
                /\ GoTo(p, "create")
                /\ UNCHANGED <<item, hand, queue, alone>>
    /\ UNCHANGED <<asset, freed, ignored>>

\* POST hardware.  An error with an empty payload is an AttributeError, which nobody
\* catches: the process dies and the event stays in the queue.
Create(p) ==
    /\ pc[p] = "create"
    /\ \E a \in Answers, i \in AssetIds \ Known :
          /\ Answer(a)
          /\ asset' = IF a \in {"ok", "lost"}
                        THEN [asset EXCEPT ![i] = [inventory |-> item[p], owner |-> NoUser]]
                        ELSE asset
          /\ \/ Raises(p, a) /\ UNCHANGED alone
             \/ /\ a = "error"
                /\ Reject(p) \/ (LetGo(p) /\ UNCHANGED queue)
                /\ UNCHANGED alone
             \/ /\ a = "ok"
                /\ id' = [id EXCEPT ![p] = i]
                /\ alone' = alone \cup {p}
                /\ GoTo(p, "put")
                /\ UNCHANGED <<item, target, holder, queue>>
    /\ UNCHANGED <<freed, raced, ignored>>

\* PUT of the inventory: the one answer whose body is looked at.
Put(p) ==
    /\ pc[p] = "put"
    /\ \E a \in Answers :
          /\ Answer(a)
          /\ Write(p, id[p], a, [asset[id[p]] EXCEPT !.inventory = item[p]])
          /\ \/ Raises(p, a)
             \/ a = "error" /\ Reject(p)
             \/ a = "ok" /\ target[p] = NoUser /\ Finish(p, "preserve")
             \/ /\ a = "ok" /\ target[p] # NoUser /\ GoTo(p, "search")
                /\ UNCHANGED <<item, hand, queue>>
    /\ UNCHANGED <<freed, raced, ignored>>

\* Mutant of IsHolder: any owner will do.
HasHolder(p) == holder[p] # NoUser

\* The ids are compared; of what kind the holder is, assigned_to.type, is not looked at.
IsHolder(p) == holder[p] # NoUser /\ NumericId[holder[p]] = NumericId[target[p]]

\* GET users, and the decision on assigned_to as it was before the PUT.
Search(p) ==
    /\ pc[p] = "search"
    /\ \E a \in Answers :
          /\ Answer(a)
          /\ ignored' = IF a = "error" THEN ignored \cup {item[p]} ELSE ignored
          /\ \/ Raises(p, a)
             \/ a = "error" /\ Finish(p, "unresolved")
             \/ a = "ok" /\ target[p] \notin Unique /\ Finish(p, "unresolved")
             \/ a = "ok" /\ target[p] \in Unique /\ IsHolder(p) /\ Finish(p, "assigned")
             \/ /\ a = "ok" /\ target[p] \in Unique /\ ~ IsHolder(p)
                /\ GoTo(p, IF holder[p] = NoUser THEN "checkout" ELSE "checkin")
                /\ UNCHANGED <<item, hand, queue>>
    /\ UNCHANGED snipeit

Checkin(p) ==
    /\ pc[p] = "checkin"
    /\ \E a \in Answers :
          /\ Answer(a)
          /\ Write(p, id[p], a, [asset[id[p]] EXCEPT !.owner = NoUser])
          /\ freed' = IF a \in {"ok", "lost"} THEN [freed EXCEPT ![id[p]] = item[p]] ELSE freed
          /\ ignored' = IF a = "error" THEN ignored \cup {item[p]} ELSE ignored
          /\ \/ Raises(p, a)
             \/ a \in {"ok", "error"} /\ GoTo(p, "checkout") /\ UNCHANGED <<item, hand, queue>>
    /\ UNCHANGED raced

Checkout(p) ==
    /\ pc[p] = "checkout"
    /\ \E a \in Answers :
          /\ Answer(a)
          /\ Write(p, id[p], a, [asset[id[p]] EXCEPT !.owner = target[p]])
          /\ freed' = IF a \in {"ok", "lost"} THEN [freed EXCEPT ![id[p]] = NoEvent] ELSE freed
          /\ ignored' = IF a = "error" THEN ignored \cup {item[p]} ELSE ignored
          /\ Raises(p, a) \/ (a \in {"ok", "error"} /\ Finish(p, "owner_changed"))
    /\ UNCHANGED raced

-----------------------------------------------------------------------------
Crash(p) ==
    /\ pc[p] # "idle"
    /\ crashes < MaxCrashes
    /\ crashes' = crashes + 1
    /\ LetGo(p)
    /\ UNCHANGED <<snipeit, queue, ignored, faults, edits>>

\* An administrator gives the asset to somebody or to a place, or takes it back.
Edit(i, user) ==
    /\ asset[i] # Absent /\ asset[i].owner # user
    /\ edits < MaxEdits
    /\ edits' = edits + 1
    /\ asset' = [asset EXCEPT ![i].owner = user]
    /\ freed' = [freed EXCEPT ![i] = NoEvent]
    /\ alone' = alone \ {p \in Processors : id[p] = i}
    /\ UNCHANGED <<pc, item, hand, queue, raced, ignored, faults, crashes>>

Next ==
    \/ \E p \in Processors :
          \/ \E e \in Events : Present(p, e)
          \/ Lookup(p) \/ Create(p) \/ Put(p) \/ Search(p) \/ Checkin(p) \/ Checkout(p)
          \/ Crash(p)
    \/ \E i \in AssetIds, user \in Unique \cup Places \cup {NoUser} : Edit(i, user)

Spec == Init /\ [][Next]_vars

-----------------------------------------------------------------------------
(* Properties.                                                             *)

\* Lookup before creation: retries, crashes and lost answers alone never leave two
\* assets under one serial number, which every later event would be rejected for.
OneAssetUnlessRaced == raced \/ Cardinality(Known) <= 1

\* The result apply returns is what Snipe-IT shows, unless somebody else wrote the asset
\* since the lookup or an error in a body was taken for success; and "assigned" may also
\* mean a place that has the number of the user.
ResultIsTrue(p) ==
    LET e == item[p]
        now == asset'[id[p]]
    IN  /\ now.inventory = e
        /\ result'[e] \in {"assigned", "owner_changed"} =>
              \/ now.owner = target[p]
              \/ result'[e] = "assigned" /\ now.owner \in Places

Reports(p) ==
    /\ pc[p] \in {"put", "search", "checkout"} /\ pc'[p] = "idle" /\ crashes' = crashes
    /\ p \in alone /\ result'[item[p]] \in Results

AppliedAsReported ==
    [][\A p \in Processors : Reports(p) /\ item[p] \notin ignored' => ResultIsTrue(p)]_vars

\* README.md:44: protection from assigning assets to nobody.  An event that took an
\* asset from its owner, whatever was lost or retried in between, does not end with an owner
\* looked for before somebody has the asset.  Not covered: an error in a body taken for
\* success; an event that ends with "preserve", because on its return another owner had been
\* confirmed; and one in two hands: of two processors that both saw the old owner, the one
\* that checks the asset in after the other gave it and settled the event may die before it
\* gives it again.
FreedIsGivenOn ==
    \A i \in AssetIds :
        freed[i] # NoEvent /\ result[freed[i]] \in Results \ {"preserve"} =>
            freed[i] \in ignored \cup shared

=============================================================================
