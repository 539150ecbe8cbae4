-------------------------- MODULE OwnerCandidates --------------------------
(***************************************************************************)
(* The server-side confirmation of a new owner: queue.decide_owner, as     *)
(* worker.process_item calls it between the staleness check and the call   *)
(* of Snipe-IT.  Each SQL statement of decide_owner is a step, because     *)
(* each commits on its own.                                                *)
(*                                                                         *)
(* The event queue is reduced to what decide_owner can notice of it: an    *)
(* event is in one hand at a time, is presented again after a temporary    *)
(* failure or a crash, at most MaxAttempts times, and not at all once an   *)
(* event of a higher Rank (generation, then observed_at) was processed.    *)
(* Of the row, last_seen_at and updated_at are left out: nothing reads     *)
(* them.                                                                   *)
(***************************************************************************)
EXTENDS Integers, FiniteSets

CONSTANTS
    Events, Computers, Processors, Users,
    NoUser,          \* no proposal, no decision, nobody
    NoRow, NoEvent,
    ComputerOf,
    Proposed,        \* what policy.safe_owner makes of the event's identity
    ObservedAt,      \* in the unit of RequiredAge and Window
    Rank,            \* the order the watermark keeps
    RequiredEvents,  \* ownership.confirmation_events
    RequiredAge,     \* ownership.confirmation_hours
    Window,          \* ownership.candidate_window_days
    MaxAttempts,     \* bound on the presentations of an event
    MaxCrashes       \* bound on process failures in a behaviour

ASSUME OwnerAssumption ==
    /\ NoUser \notin Users /\ NoEvent \notin Events
    /\ ComputerOf \in [Events -> Computers]
    /\ Proposed \in [Events -> Users \cup {NoUser}]
    /\ ObservedAt \in [Events -> Int]
    /\ Rank \in [Events -> Int]
    /\ RequiredEvents \in Nat /\ RequiredEvents >= 2
    /\ RequiredAge \in Nat \ {0} /\ Window \in Nat \ {0}
    /\ MaxAttempts \in Nat \ {0} /\ MaxCrashes \in Nat

\* A row of owner_candidates; confirmations saturates at RequiredEvents, the only
\* value it is compared with.
Rows == [confirmed : Users \cup {NoUser}, candidate : Users, first_seen : Int,
         confirmations : 1..RequiredEvents, last_event : Events]

ASSUME NoRowAssumption == NoRow \notin Rows

VARIABLES
    row,        \* owner_candidates, per computer
    assigned,   \* per computer, the user the asset is checked out to
    pc, item,
    seen,       \* the row the SELECT returned
    owner,      \* OwnerDecision.username
    presented,  \* how often an event was presented
    settled,    \* events that reached a terminal status
    newest,     \* per computer, the event of the watermark
    streak,     \* history: per computer, the last user proposed and the distinct
                \* events that proposed him since anybody else was proposed
    crashes

vars == <<row, assigned, pc, item, seen, owner, presented, settled, newest, streak,
          crashes>>
tables == <<row, streak>>
queue == <<presented, settled, newest>>

Asset(p) == ComputerOf[item[p]]
Proposal(p) == Proposed[item[p]]

TypeOK ==
    /\ row \in [Computers -> Rows \cup {NoRow}]
    /\ assigned \in [Computers -> Users \cup {NoUser}]
    /\ pc \in [Processors -> {"idle", "read", "write", "confirm", "apply"}]
    /\ item \in [Processors -> Events \cup {NoEvent}]
    /\ seen \in [Processors -> Rows \cup {NoRow}]
    /\ owner \in [Processors -> Users \cup {NoUser}]
    /\ presented \in [Events -> 0..MaxAttempts]
    /\ settled \subseteq Events
    /\ newest \in [Computers -> Events \cup {NoEvent}]
    /\ streak \in [Computers -> [user : Users \cup {NoUser}, events : SUBSET Events]]
    /\ crashes \in 0..MaxCrashes
    /\ \A p \in Processors : item[p] = NoEvent <=> pc[p] = "idle"

Init ==
    /\ row = [c \in Computers |-> NoRow]
    /\ assigned \in [Computers -> Users \cup {NoUser}]
    /\ pc = [p \in Processors |-> "idle"]
    /\ item = [p \in Processors |-> NoEvent]
    /\ seen = [p \in Processors |-> NoRow]
    /\ owner = [p \in Processors |-> NoUser]
    /\ presented = [e \in Events |-> 0]
    /\ settled = {}
    /\ newest = [c \in Computers |-> NoEvent]
    /\ streak = [c \in Computers |-> [user |-> NoUser, events |-> {}]]
    /\ crashes = 0

GoTo(p, location) == pc' = [pc EXCEPT ![p] = location]

\* Mutant of LetGo: the event stays in hand.
LetGoKeepingItem(p) == GoTo(p, "idle") /\ UNCHANGED <<item, seen, owner>>

LetGo(p) ==
    /\ GoTo(p, "idle")
    /\ item' = [item EXCEPT ![p] = NoEvent]
    /\ seen' = [seen EXCEPT ![p] = NoRow]
    /\ owner' = [owner EXCEPT ![p] = NoUser]

-----------------------------------------------------------------------------
IsStale(e) == newest[ComputerOf[e]] # NoEvent /\ Rank[newest[ComputerOf[e]]] >= Rank[e]

\* The event was claimed and is not stale.  Without a proposal decide_owner returns
\* "preserve_missing" before it touches the database.
Present(p, e) ==
    /\ pc[p] = "idle"
    /\ e \notin settled /\ ~ IsStale(e)
    /\ \A q \in Processors : item[q] # e
    /\ presented[e] < MaxAttempts
    /\ presented' = [presented EXCEPT ![e] = @ + 1]
    /\ item' = [item EXCEPT ![p] = e]
    /\ GoTo(p, IF Proposed[e] = NoUser THEN "apply" ELSE "read")
    /\ UNCHANGED <<tables, assigned, seen, owner, settled, newest, crashes>>

ReadRow(p) ==
    /\ pc[p] = "read"
    /\ seen' = [seen EXCEPT ![p] = row[Asset(p)]]
    /\ GoTo(p, "write")
    /\ UNCHANGED <<tables, assigned, item, owner, queue, crashes>>

\* What the documents count: distinct events in a row that propose one user.
Extend(p) ==
    streak' = [streak EXCEPT ![Asset(p)] =
                 [user |-> Proposal(p),
                  events |-> {item[p]} \cup IF @.user = Proposal(p) THEN @.events ELSE {}]]

CandidateRow(confirmed, candidate, first, confirmations, e) ==
    [confirmed |-> confirmed, candidate |-> candidate, first_seen |-> first,
     confirmations |-> confirmations, last_event |-> e]

\* Mutant of IsConfirmed: candidate_username is compared.
IsCandidate(p) == seen[p] # NoRow /\ seen[p].candidate = Proposal(p)

IsConfirmed(p) == seen[p] # NoRow /\ seen[p].confirmed = Proposal(p)

\* Mutant of Continues: the candidate is not compared.
ContinuesForAnybody(p) ==
    seen[p] # NoRow /\ ObservedAt[item[p]] - seen[p].first_seen <= Window

\* The row goes on for this proposal: the same candidate, within the window.  A
\* difference of exactly the window is within it, and so is an earlier observation.
Continues(p) ==
    /\ seen[p] # NoRow
    /\ seen[p].candidate = Proposal(p)
    /\ ObservedAt[item[p]] - seen[p].first_seen <= Window

\* The proposal is the confirmed owner: the candidate starts over from this event.
RenewConfirmed(p) ==
    /\ pc[p] = "write" /\ IsConfirmed(p)
    /\ row' = [row EXCEPT ![Asset(p)] =
                 CandidateRow(@.confirmed, Proposal(p), ObservedAt[item[p]], 1, item[p])]
    /\ owner' = [owner EXCEPT ![p] = Proposal(p)]
    /\ Extend(p)
    /\ GoTo(p, "apply")
    /\ UNCHANGED <<assigned, item, seen, queue, crashes>>

\* The UPSERT starts a candidate; a row that is there keeps its confirmed owner.
StartCandidate(p) ==
    /\ pc[p] = "write" /\ ~ IsConfirmed(p) /\ ~ Continues(p)
    /\ row' = [row EXCEPT ![Asset(p)] =
                 CandidateRow(IF @ = NoRow THEN NoUser ELSE @.confirmed,
                              Proposal(p), ObservedAt[item[p]], 1, item[p])]
    /\ Extend(p)
    /\ GoTo(p, "apply")
    /\ UNCHANGED <<assigned, item, seen, owner, queue, crashes>>

\* The event counts unless it is the very one that counted last.
Counted(p) ==
    IF seen[p].last_event # item[p] /\ seen[p].confirmations < RequiredEvents
      THEN seen[p].confirmations + 1 ELSE seen[p].confirmations

\* Mutant of OldEnough: the count alone decides.
OfAnyAge(p) == TRUE

OldEnough(p) == ObservedAt[item[p]] - seen[p].first_seen >= RequiredAge

CountCandidate(p) ==
    /\ pc[p] = "write" /\ ~ IsConfirmed(p) /\ Continues(p)
    /\ row' = [row EXCEPT ![Asset(p)] =
                 CandidateRow(@.confirmed, @.candidate, @.first_seen, Counted(p), item[p])]
    /\ Extend(p)
    /\ GoTo(p, IF Counted(p) >= RequiredEvents /\ OldEnough(p) THEN "confirm" ELSE "apply")
    /\ UNCHANGED <<assigned, item, seen, owner, queue, crashes>>

ConfirmCandidate(p) ==
    /\ pc[p] = "confirm"
    /\ row' = [row EXCEPT ![Asset(p)] = [@ EXCEPT !.confirmed = Proposal(p)]]
    /\ owner' = [owner EXCEPT ![p] = Proposal(p)]
    /\ GoTo(p, "apply")
    /\ UNCHANGED <<streak, assigned, item, seen, queue, crashes>>

\* client.apply with the decided owner.  Whatever the outcome, the checkout may have
\* been made or not: the username may be unknown, an answer may be lost.  The asset
\* changes hands at once here; module SnipeItApply opens that step.
Apply(p) ==
    /\ pc[p] = "apply"
    /\ \E outcome \in {"processed", "rejected", "retry"}, moved \in BOOLEAN :
          /\ assigned' = IF moved /\ owner[p] # NoUser
                           THEN [assigned EXCEPT ![Asset(p)] = owner[p]] ELSE assigned
          /\ settled' = IF outcome # "retry" \/ presented[item[p]] = MaxAttempts
                          THEN settled \cup {item[p]} ELSE settled
          /\ newest' = IF outcome = "processed"
                         THEN [newest EXCEPT ![Asset(p)] = item[p]] ELSE newest
    /\ LetGo(p)
    /\ UNCHANGED <<tables, presented, crashes>>

Crash(p) ==
    /\ pc[p] # "idle"
    /\ crashes < MaxCrashes
    /\ crashes' = crashes + 1
    /\ LetGo(p)
    /\ UNCHANGED <<tables, assigned, queue>>

Next ==
    \E p \in Processors :
        \/ \E e \in Events : Present(p, e)
        \/ ReadRow(p)
        \/ RenewConfirmed(p) \/ StartCandidate(p) \/ CountCandidate(p)
        \/ ConfirmCandidate(p) \/ Apply(p) \/ Crash(p)

Spec == Init /\ [][Next]_vars

-----------------------------------------------------------------------------
(* Properties.                                                             *)

\* docs/OWNERSHIP-SAFETY-RU.md: a new owner takes RequiredEvents different events in
\* a row; delivering one event again does not count.
ConfirmsOnDistinctEvents ==
    \A p \in Processors :
        pc[p] = "confirm" => Cardinality(streak[Asset(p)].events) >= RequiredEvents

\* The same as far as the code keeps it: unless an event of the streak was presented
\* more than once.
ConfirmsOnDistinctUnlessRetried ==
    \A p \in Processors :
        pc[p] = "confirm" =>
            \/ \E e \in streak[Asset(p)].events : presented[e] > 1
            \/ Cardinality(streak[Asset(p)].events) >= RequiredEvents

\* Even with retries one event alone never makes an owner, and an interrupted run of
\* proposals never does: two different events of an uninterrupted run, at least
\* RequiredAge and at most Window apart, are needed.
ConfirmsOnSpan ==
    \A p \in Processors :
        pc[p] = "confirm" =>
            /\ streak[Asset(p)].user = Proposal(p)
            /\ \E e \in streak[Asset(p)].events :
                  ObservedAt[item[p]] - ObservedAt[e] \in RequiredAge..Window

\* Snipe-IT changes the owner of an asset only to the user that is the confirmed one
\* at that moment: a pending or missing proposal moves nothing.
AssignsConfirmed ==
    \A c \in Computers :
        assigned'[c] # assigned[c] => row[c] # NoRow /\ assigned'[c] = row[c].confirmed

OnlyConfirmedAssigned == [][AssignsConfirmed]_vars

=============================================================================
