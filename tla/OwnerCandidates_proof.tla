----------------------- MODULE OwnerCandidates_proof -----------------------
(***************************************************************************)
(* What the confirmation of an owner guarantees, for every set of events,  *)
(* users, thresholds, retries and crashes, while one processor at a time   *)
(* decides.                                                                *)
(***************************************************************************)
EXTENDS OwnerCandidates, FiniteSetTheorems, TLAPS

SoleProcessor == \A p, q \in Processors : p = q

-----------------------------------------------------------------------------
(* The inductive invariant, in parts.                                      *)

\* The row and the documents speak of the same run of proposals, and the first
\* observation of the row is that of one of its events.
RowIsStreak ==
    \A c \in Computers :
        row[c] # NoRow =>
            /\ row[c].candidate = streak[c].user
            /\ \E f \in streak[c].events : ObservedAt[f] = row[c].first_seen

\* What was read is still there when it is used.
SeenIsRow == \A p \in Processors : pc[p] = "write" => seen[p] = row[Asset(p)]

ConfirmIsDue ==
    \A p \in Processors :
        pc[p] = "confirm" =>
            /\ row[Asset(p)] # NoRow
            /\ row[Asset(p)].candidate = Proposal(p)
            /\ row[Asset(p)].confirmations = RequiredEvents
            /\ ObservedAt[item[p]] - row[Asset(p)].first_seen \in RequiredAge..Window

\* A decision names the confirmed owner of the row.
OwnerIsConfirmed ==
    \A p \in Processors :
        owner[p] # NoUser =>
            /\ pc[p] = "apply"
            /\ row[Asset(p)] # NoRow
            /\ row[Asset(p)].confirmed = owner[p]

DecideInv ==
    /\ RowIsStreak
    /\ SeenIsRow
    /\ ConfirmIsDue
    /\ OwnerIsConfirmed

\* An event of the run was presented, and more than once if a processor is about to
\* count it while it is there.
StreakPresented ==
    /\ \A c \in Computers : \A e \in streak[c].events : presented[e] >= 1
    /\ \A p \in Processors :
          /\ pc[p] # "idle" => presented[item[p]] >= 1
          /\ pc[p] \in {"read", "write"} /\ item[p] \in streak[Asset(p)].events
               => presented[item[p]] > 1

\* The count of the row is at most the number of distinct events, unless one of them
\* was retried.
RowCounts ==
    \A c \in Computers :
        /\ IsFiniteSet(streak[c].events)
        /\ \/ row[c] = NoRow
           \/ \E e \in streak[c].events : presented[e] > 1
           \/ row[c].confirmations <= Cardinality(streak[c].events)

CountInv == StreakPresented /\ RowCounts

-----------------------------------------------------------------------------
LEMMA InHand ==
    ASSUME TypeOK, NEW p \in Processors, pc[p] # "idle"
    PROVE  /\ item[p] \in Events /\ Asset(p) \in Computers
           /\ Proposal(p) \in Users \cup {NoUser} /\ ObservedAt[item[p]] \in Int
BY OwnerAssumption DEF TypeOK, Asset, Proposal

\* A row that was read does not go away.
RowsStay ==
    \A p \in Processors :
        \/ pc[p] = "write" /\ seen[p] # NoRow
        \/ pc[p] = "confirm"
        => row[Asset(p)] # NoRow

\* decide_owner touches the database for a proposal only.
ProposesSomebody ==
    \A p \in Processors : pc[p] \in {"read", "write", "confirm"} => Proposal(p) \in Users

TypeInv == TypeOK /\ RowsStay /\ ProposesSomebody

LEMMA TypeInit == Init => TypeInv
BY OwnerAssumption DEF Init, TypeInv, TypeOK, RowsStay, ProposesSomebody

LEMMA RowTyped ==
    ASSUME NEW confirmed \in Users \cup {NoUser}, NEW user \in Users, NEW first \in Int,
           NEW n \in 1..RequiredEvents, NEW e \in Events
    PROVE  CandidateRow(confirmed, user, first, n, e) \in Rows
BY DEF CandidateRow, Rows

LEMMA ExtendTyped ==
    ASSUME TypeOK, NEW p \in Processors, pc[p] = "write", Extend(p)
    PROVE  streak' \in [Computers -> [user : Users \cup {NoUser}, events : SUBSET Events]]
<1>1. Asset(p) \in Computers /\ Proposal(p) \in Users \cup {NoUser} /\ item[p] \in Events
  BY InHand
<1>. DEFINE s == streak[Asset(p)]
            new == [user |-> Proposal(p),
                    events |-> {item[p]} \cup IF s.user = Proposal(p) THEN s.events ELSE {}]
<1>2. s.events \subseteq Events
  BY <1>1 DEF TypeOK
<1>3. new \in [user : Users \cup {NoUser}, events : SUBSET Events]
  BY <1>1, <1>2
<1>4. streak' = [streak EXCEPT ![Asset(p)] = new]
  BY DEF Extend
<1>. QED BY <1>3, <1>4 DEF TypeOK

LEMMA TypePreserved == TypeInv /\ [Next]_vars => TypeInv'
<1>. SUFFICES ASSUME TypeInv, [Next]_vars PROVE TypeInv'
  OBVIOUS
<1>0. TypeOK
  BY DEF TypeInv
<1>. USE OwnerAssumption, NoRowAssumption
     DEF GoTo, tables, queue, TypeInv, RowsStay, ProposesSomebody, Asset, Proposal
<1>1. ASSUME NEW p \in Processors, NEW e \in Events, Present(p, e) PROVE TypeInv'
  BY <1>1 DEF Present, TypeOK
<1>2. ASSUME NEW p \in Processors, ReadRow(p) PROVE TypeInv'
  BY <1>2, InHand DEF ReadRow, TypeOK
<1>4. ASSUME NEW p \in Processors, RenewConfirmed(p) PROVE TypeInv'
  <2>1. row[Asset(p)] \in Rows
    BY <1>4, InHand DEF RenewConfirmed, IsConfirmed, TypeOK
  <2>2. row[Asset(p)].confirmed \in Users \cup {NoUser}
    BY <2>1 DEF Rows
  <2>4. Proposal(p) \in Users /\ item[p] \in Events /\ ObservedAt[item[p]] \in Int
    BY <1>4, InHand DEF RenewConfirmed
  <2>5. 1 \in 1..RequiredEvents
    OBVIOUS
  <2>6. CandidateRow(row[Asset(p)].confirmed, Proposal(p), ObservedAt[item[p]], 1, item[p]) \in Rows
    BY <2>2, <2>4, <2>5, RowTyped
  <2>3. row' \in [Computers -> Rows \cup {NoRow}]
    BY <1>4, <2>6, InHand DEF RenewConfirmed, TypeOK
  <2>. QED BY <1>4, <2>4, <2>6, <2>3, InHand, ExtendTyped DEF RenewConfirmed, TypeOK
<1>5. ASSUME NEW p \in Processors, StartCandidate(p) PROVE TypeInv'
  <2>. DEFINE old == IF row[Asset(p)] = NoRow THEN NoUser ELSE row[Asset(p)].confirmed
  <2>1. old \in Users \cup {NoUser}
    BY <1>5, InHand DEF StartCandidate, TypeOK, Rows
  <2>2. CandidateRow(old, Proposal(p), ObservedAt[item[p]], 1, item[p]) \in Rows
    BY <1>5, <2>1, InHand, RowTyped DEF StartCandidate
  <2>3. row' \in [Computers -> Rows \cup {NoRow}]
    BY <1>5, <2>2, InHand DEF StartCandidate, TypeOK
  <2>. QED BY <1>5, <2>2, <2>3, InHand, ExtendTyped DEF StartCandidate, TypeOK
<1>6. ASSUME NEW p \in Processors, CountCandidate(p) PROVE TypeInv'
  <2>. DEFINE old == row[Asset(p)]
  <2>1. old \in Rows /\ seen[p] \in Rows
    BY <1>6, InHand DEF CountCandidate, Continues, TypeOK
  <2>2. Counted(p) \in 1..RequiredEvents
    BY <2>1 DEF Counted, Rows
  <2>3. CandidateRow(old.confirmed, old.candidate, old.first_seen, Counted(p), item[p]) \in Rows
    BY <1>6, <2>1, <2>2, InHand, RowTyped DEF CountCandidate, Rows
  <2>4. row' \in [Computers -> Rows \cup {NoRow}]
    BY <1>6, <2>3, InHand DEF CountCandidate, TypeOK
  <2>. QED BY <1>6, <2>3, <2>4, InHand, ExtendTyped DEF CountCandidate, TypeOK
<1>7. ASSUME NEW p \in Processors, ConfirmCandidate(p) PROVE TypeInv'
  <2>1. row[Asset(p)] \in Rows
    BY <1>7, InHand DEF ConfirmCandidate, TypeOK
  <2>2. [row[Asset(p)] EXCEPT !.confirmed = Proposal(p)] \in Rows
    BY <1>7, <2>1, InHand DEF ConfirmCandidate, Rows
  <2>3. row' \in [Computers -> Rows \cup {NoRow}]
    BY <1>7, <2>2, InHand DEF ConfirmCandidate, TypeOK
  <2>. QED BY <1>7, <2>2, <2>3, InHand DEF ConfirmCandidate, TypeOK
<1>8. ASSUME NEW p \in Processors, Apply(p) PROVE TypeInv'
  BY <1>8, InHand DEF Apply, LetGo, TypeOK
<1>9. ASSUME NEW p \in Processors, Crash(p) PROVE TypeInv'
  BY <1>9 DEF Crash, LetGo, TypeOK
<1>10. ASSUME UNCHANGED vars PROVE TypeInv'
  BY <1>10 DEF vars, TypeOK
<1>. QED BY <1>1, <1>2, <1>4, <1>5, <1>6, <1>7, <1>8, <1>9, <1>10 DEF Next


-----------------------------------------------------------------------------
THEOREM TypeCorrect == Spec => []TypeOK
<1>1. TypeInv => TypeOK
  BY DEF TypeInv
<1>. QED BY TypeInit, TypePreserved, <1>1, PTL DEF Spec

LEMMA DecideInit == Init => DecideInv
BY OwnerAssumption
DEF Init, DecideInv, RowIsStreak, SeenIsRow, ConfirmIsDue, OwnerIsConfirmed

\* The run that a write leaves behind: its user is the proposed one, it holds the event
\* of the write, and it goes on if the proposal is the one before.
LEMMA ExtendedStreak ==
    ASSUME TypeInv, NEW p \in Processors, pc[p] = "write", Extend(p)
    PROVE  /\ streak'[Asset(p)].user = Proposal(p)
           /\ item[p] \in streak'[Asset(p)].events
           /\ streak[Asset(p)].user = Proposal(p)
                => streak'[Asset(p)].events = streak[Asset(p)].events \cup {item[p]}
           /\ streak[Asset(p)].user # Proposal(p)
                => streak'[Asset(p)].events = {item[p]}
           /\ \A c \in Computers \ {Asset(p)} : streak'[c] = streak[c]
<1>1. Asset(p) \in Computers /\ Proposal(p) \in Users \cup {NoUser}
  BY InHand DEF TypeInv
<1>. DEFINE s == streak[Asset(p)]
            new == [user |-> Proposal(p),
                    events |-> {item[p]} \cup IF s.user = Proposal(p) THEN s.events ELSE {}]
<1>2. streak' = [streak EXCEPT ![Asset(p)] = new]
  BY DEF Extend
<1>3. streak'[Asset(p)] = new /\ \A c \in Computers \ {Asset(p)} : streak'[c] = streak[c]
  BY <1>1, <1>2 DEF TypeInv, TypeOK
<1>. QED BY <1>3

\* The run a write extends is the one its row speaks of, or starts with its event.
LEMMA WriteKeepsStreak ==
    ASSUME TypeInv, RowIsStreak, NEW p \in Processors, pc[p] = "write", Extend(p),
           \A c \in Computers \ {Asset(p)} : row'[c] = row[c],
           row'[Asset(p)].candidate = Proposal(p),
           \/ row'[Asset(p)].first_seen = ObservedAt[item[p]]
           \/ /\ row[Asset(p)] # NoRow
              /\ row[Asset(p)].candidate = Proposal(p)
              /\ row'[Asset(p)].first_seen = row[Asset(p)].first_seen
    PROVE  RowIsStreak'
<1>. SUFFICES ASSUME NEW c \in Computers, row'[c] # NoRow
              PROVE  /\ row'[c].candidate = streak'[c].user
                     /\ \E f \in streak'[c].events : ObservedAt[f] = row'[c].first_seen
  BY DEF RowIsStreak
<1>1. CASE c # Asset(p)
  BY <1>1, ExtendedStreak DEF RowIsStreak
<1>2. CASE c = Asset(p)
  <2>1. CASE row'[c].first_seen = ObservedAt[item[p]]
    BY <1>2, <2>1, ExtendedStreak
  <2>2. CASE /\ row[c] # NoRow /\ row[c].candidate = Proposal(p)
             /\ row'[c].first_seen = row[c].first_seen
    BY <1>2, <2>2, ExtendedStreak DEF RowIsStreak
  <2>. QED BY <1>2, <2>1, <2>2
<1>. QED BY <1>1, <1>2

LEMMA DecidePreserved ==
    ASSUME SoleProcessor, TypeInv, TypeInv', DecideInv, [Next]_vars
    PROVE  DecideInv'
<1>. USE OwnerAssumption, NoRowAssumption DEF GoTo
<1>1. RowIsStreak /\ SeenIsRow /\ ConfirmIsDue /\ OwnerIsConfirmed
  BY DEF DecideInv
<1>2. ASSUME NEW p \in Processors, NEW e \in Events, Present(p, e) PROVE DecideInv'
  BY <1>1, <1>2
  DEF Present, DecideInv, RowIsStreak, SeenIsRow, ConfirmIsDue, OwnerIsConfirmed,
      SoleProcessor, TypeInv, TypeOK, tables, Asset, Proposal
<1>3. ASSUME NEW p \in Processors, ReadRow(p) PROVE DecideInv'
  BY <1>1, <1>3, InHand
  DEF ReadRow, DecideInv, RowIsStreak, SeenIsRow, ConfirmIsDue, OwnerIsConfirmed,
      SoleProcessor, TypeInv, TypeOK, tables, queue, Asset, Proposal
<1>4. ASSUME NEW p \in Processors, RenewConfirmed(p) PROVE DecideInv'
  <2>. DEFINE new == CandidateRow(row[Asset(p)].confirmed, Proposal(p),
                                  ObservedAt[item[p]], 1, item[p])
  <2>1. pc[p] = "write" /\ Asset(p) \in Computers /\ row[Asset(p)] \in Rows
    BY <1>4, InHand DEF RenewConfirmed, IsConfirmed, TypeInv, TypeOK, RowsStay
  <2>2. row' = [row EXCEPT ![Asset(p)] = new] /\ Extend(p) /\ item' = item
    BY <1>4 DEF RenewConfirmed
  <2>3. /\ row'[Asset(p)] = new
        /\ \A c \in Computers \ {Asset(p)} : row'[c] = row[c]
    BY <2>1, <2>2 DEF TypeInv, TypeOK
  <2>4. /\ new.candidate = Proposal(p) /\ new.first_seen = ObservedAt[item[p]]
        /\ new.confirmed = row[Asset(p)].confirmed
    BY DEF CandidateRow
  <2>5. RowIsStreak'
    BY <1>1, <2>1, <2>2, <2>3, <2>4, WriteKeepsStreak
  <2>6. row[Asset(p)].confirmed = Proposal(p)
    BY <1>1, <1>4 DEF RenewConfirmed, IsConfirmed, SeenIsRow
  <2>7. row'[Asset(p)] # NoRow /\ row'[Asset(p)].confirmed = Proposal(p)
    <3>1. row'[Asset(p)].confirmed = Proposal(p)
      BY <2>3, <2>4, <2>6
    <3>2. row'[Asset(p)] \in Rows
      <4>1. Proposal(p) \in Users
        BY <2>1 DEF TypeInv, ProposesSomebody
      <4>2. ObservedAt[item[p]] \in Int /\ item[p] \in Events
        BY <2>1, InHand DEF TypeInv
      <4>3. row[Asset(p)].confirmed \in Users \cup {NoUser} /\ 1 \in 1..RequiredEvents
        BY <2>1 DEF Rows
      <4>. QED BY <2>3, <4>1, <4>2, <4>3, RowTyped
    <3>. QED BY <3>1, <3>2
  <2>8. /\ pc'[p] = "apply" /\ owner'[p] = Proposal(p)
        /\ Asset(p)' = Asset(p)
    BY <1>4 DEF RenewConfirmed, TypeInv, TypeOK, Asset
  <2>9. OwnerIsConfirmed'
    BY <2>7, <2>8 DEF OwnerIsConfirmed, SoleProcessor
  <2>. QED BY <2>5, <2>8, <2>9 DEF DecideInv, SeenIsRow, ConfirmIsDue, SoleProcessor
<1>5. ASSUME NEW p \in Processors, StartCandidate(p) PROVE DecideInv'
  <2>. DEFINE new == CandidateRow(IF row[Asset(p)] = NoRow THEN NoUser
                                    ELSE row[Asset(p)].confirmed,
                                  Proposal(p), ObservedAt[item[p]], 1, item[p])
  <2>1. pc[p] = "write" /\ Asset(p) \in Computers
    BY <1>5, InHand DEF StartCandidate, TypeInv
  <2>2. row' = [row EXCEPT ![Asset(p)] = new] /\ Extend(p) /\ item' = item
    BY <1>5 DEF StartCandidate
  <2>3. /\ row'[Asset(p)] = new
        /\ \A c \in Computers \ {Asset(p)} : row'[c] = row[c]
    BY <2>1, <2>2 DEF TypeInv, TypeOK
  <2>4. new.candidate = Proposal(p) /\ new.first_seen = ObservedAt[item[p]]
    BY DEF CandidateRow
  <2>5. RowIsStreak'
    BY <1>1, <2>1, <2>2, <2>3, <2>4, WriteKeepsStreak
  <2>6. pc'[p] = "apply" /\ owner' = owner
    BY <1>5 DEF StartCandidate, TypeInv, TypeOK
  <2>7. owner[p] = NoUser
    BY <1>1, <2>1 DEF OwnerIsConfirmed
  <2>. QED BY <2>5, <2>6, <2>7
           DEF DecideInv, SeenIsRow, ConfirmIsDue, OwnerIsConfirmed, SoleProcessor
<1>6. ASSUME NEW p \in Processors, CountCandidate(p) PROVE DecideInv'
  <2>. DEFINE old == row[Asset(p)]
              new == CandidateRow(old.confirmed, old.candidate, old.first_seen,
                                  Counted(p), item[p])
  <2>1. pc[p] = "write" /\ Asset(p) \in Computers /\ seen[p] = old /\ old \in Rows
    BY <1>1, <1>6, InHand DEF CountCandidate, Continues, SeenIsRow, TypeInv, TypeOK
  <2>2. row' = [row EXCEPT ![Asset(p)] = new] /\ Extend(p) /\ item' = item
    BY <1>6 DEF CountCandidate
  <2>3. /\ row'[Asset(p)] = new
        /\ \A c \in Computers \ {Asset(p)} : row'[c] = row[c]
    BY <2>1, <2>2 DEF TypeInv, TypeOK
  <2>4. /\ new.candidate = old.candidate /\ new.first_seen = old.first_seen
        /\ new.confirmations = Counted(p)
    BY DEF CandidateRow
  <2>5. /\ old.candidate = Proposal(p)
        /\ ObservedAt[item[p]] - old.first_seen <= Window
    BY <1>6, <2>1 DEF CountCandidate, Continues
  <2>6. RowIsStreak'
    BY <1>1, <2>1, <2>2, <2>3, <2>4, <2>5, WriteKeepsStreak
  <2>7. owner' = owner /\ owner[p] = NoUser
    BY <1>1, <1>6, <2>1 DEF CountCandidate, OwnerIsConfirmed
  <2>8. /\ Asset(p)' = Asset(p) /\ Proposal(p)' = Proposal(p)
        /\ pc'[p] = "confirm" => Counted(p) >= RequiredEvents /\ OldEnough(p)
        /\ pc'[p] \in {"confirm", "apply"}
    BY <1>6 DEF CountCandidate, TypeInv, TypeOK, Asset, Proposal
  <2>9. pc'[p] = "confirm" =>
            /\ new.confirmations = RequiredEvents
            /\ ObservedAt[item[p]] - new.first_seen \in RequiredAge..Window
    <3>1. Counted(p) \in 1..RequiredEvents
      BY <2>1 DEF Counted, Rows
    <3>2. ObservedAt[item[p]] \in Int /\ old.first_seen \in Int
      BY <2>1, InHand DEF Rows, TypeInv
    <3>. QED BY <2>1, <2>4, <2>5, <2>8, <3>1, <3>2 DEF OldEnough
  <2>10. row'[Asset(p)] # NoRow
    <3>1. item[p] \in Events /\ Counted(p) \in 1..RequiredEvents
      BY <2>1, InHand DEF Counted, Rows, TypeInv
    <3>2. old.confirmed \in Users \cup {NoUser} /\ old.candidate \in Users
          /\ old.first_seen \in Int
      BY <2>1 DEF Rows
    <3>. QED BY <2>3, <3>1, <3>2, RowTyped
  <2>11. ConfirmIsDue'
    BY <2>2, <2>3, <2>4, <2>5, <2>8, <2>9, <2>10 DEF ConfirmIsDue, SoleProcessor
  <2>. QED BY <2>6, <2>7, <2>8, <2>11 DEF DecideInv, SeenIsRow, OwnerIsConfirmed, SoleProcessor
<1>7. ASSUME NEW p \in Processors, ConfirmCandidate(p) PROVE DecideInv'
  <2>. DEFINE old == row[Asset(p)]
  <2>1. pc[p] = "confirm" /\ Asset(p) \in Computers /\ old \in Rows
    BY <1>7, InHand DEF ConfirmCandidate, TypeInv, TypeOK, RowsStay
  <2>2. row' = [row EXCEPT ![Asset(p)] = [old EXCEPT !.confirmed = Proposal(p)]]
        /\ item' = item /\ streak' = streak
    BY <1>7 DEF ConfirmCandidate, tables
  <2>3. /\ row'[Asset(p)] = [old EXCEPT !.confirmed = Proposal(p)]
        /\ \A c \in Computers \ {Asset(p)} : row'[c] = row[c]
    BY <2>1, <2>2 DEF TypeInv, TypeOK
  <2>4. /\ row'[Asset(p)].confirmed = Proposal(p)
        /\ row'[Asset(p)].candidate = old.candidate
        /\ row'[Asset(p)].first_seen = old.first_seen
    BY <2>1, <2>3 DEF Rows
  <2>5. RowIsStreak'
    BY <1>1, <2>1, <2>2, <2>3, <2>4 DEF RowIsStreak, ConfirmIsDue
  <2>6. pc'[p] = "apply" /\ owner'[p] = Proposal(p) /\ Asset(p)' = Asset(p)
    BY <1>7 DEF ConfirmCandidate, TypeInv, TypeOK, Asset
  <2>7. Proposal(p) \in Users
    BY <2>1 DEF TypeInv, ProposesSomebody
  <2>8. row'[Asset(p)] # NoRow
    <3>1. row'[Asset(p)] \in Rows
      BY <2>1, <2>3, <2>7 DEF Rows
    <3>. QED BY <3>1
  <2>. QED BY <2>4, <2>5, <2>6, <2>8
           DEF DecideInv, SeenIsRow, ConfirmIsDue, OwnerIsConfirmed, SoleProcessor
<1>8. ASSUME NEW p \in Processors, Apply(p) PROVE DecideInv'
  BY <1>1, <1>8
  DEF Apply, LetGo, DecideInv, RowIsStreak, SeenIsRow, ConfirmIsDue, OwnerIsConfirmed,
      SoleProcessor, TypeInv, TypeOK, tables
<1>9. ASSUME NEW p \in Processors, Crash(p) PROVE DecideInv'
  BY <1>1, <1>9
  DEF Crash, LetGo, DecideInv, RowIsStreak, SeenIsRow, ConfirmIsDue, OwnerIsConfirmed,
      SoleProcessor, TypeInv, TypeOK, tables
<1>10. ASSUME UNCHANGED vars PROVE DecideInv'
  BY <1>1, <1>10
  DEF vars, DecideInv, RowIsStreak, SeenIsRow, ConfirmIsDue, OwnerIsConfirmed, Asset, Proposal
<1>. QED BY <1>2, <1>3, <1>4, <1>5, <1>6, <1>7, <1>8, <1>9, <1>10 DEF Next

-----------------------------------------------------------------------------
\* A sole processor decides in the states of the inductive invariant.
LEMMA DecideInvariant ==
    ASSUME SoleProcessor
    PROVE  Spec => [](TypeInv /\ DecideInv)
<1>1. Init => TypeInv /\ DecideInv
  BY TypeInit, DecideInit
<1>2. TypeInv /\ DecideInv /\ [Next]_vars => (TypeInv /\ DecideInv)'
  BY TypePreserved, DecidePreserved
<1>. QED BY <1>1, <1>2, PTL DEF Spec

\* Even with retries, an owner is confirmed on two different events of an uninterrupted
\* run of proposals, at least RequiredAge and at most Window apart (decide_owner's reset,
\* window and old_enough).
THEOREM ConfirmedOnSpan ==
    ASSUME SoleProcessor
    PROVE  Spec => []ConfirmsOnSpan
<1>1. TypeInv /\ DecideInv => ConfirmsOnSpan
  <2>. SUFFICES ASSUME TypeInv, DecideInv, NEW p \in Processors, pc[p] = "confirm"
                PROVE  /\ streak[Asset(p)].user = Proposal(p)
                       /\ \E e \in streak[Asset(p)].events :
                             ObservedAt[item[p]] - ObservedAt[e] \in RequiredAge..Window
    BY DEF ConfirmsOnSpan
  <2>1. /\ row[Asset(p)] # NoRow /\ row[Asset(p)].candidate = Proposal(p)
        /\ ObservedAt[item[p]] - row[Asset(p)].first_seen \in RequiredAge..Window
    BY DEF DecideInv, ConfirmIsDue
  <2>2. Asset(p) \in Computers
    BY InHand DEF TypeInv
  <2>. QED BY <2>1, <2>2 DEF DecideInv, RowIsStreak
<1>. QED BY <1>1, DecideInvariant, PTL

\* process_item hands an asset in Snipe-IT only to the user that is the confirmed one of
\* its row at that moment.
THEOREM ConfirmedOnly ==
    ASSUME SoleProcessor
    PROVE  Spec => OnlyConfirmedAssigned
<1>1. TypeInv /\ DecideInv /\ [Next]_vars => [AssignsConfirmed]_vars
  <2>. SUFFICES ASSUME TypeInv, DecideInv, Next, NEW c \in Computers,
                       assigned'[c] # assigned[c]
                PROVE  row[c] # NoRow /\ assigned'[c] = row[c].confirmed
    BY DEF AssignsConfirmed
  <2>1. PICK p \in Processors : Apply(p)
    BY DEF Next, Present, ReadRow, RenewConfirmed, StartCandidate, CountCandidate,
           ConfirmCandidate, Crash
  <2>2. owner[p] # NoUser /\ assigned' = [assigned EXCEPT ![Asset(p)] = owner[p]]
    BY <2>1 DEF Apply
  <2>3. c = Asset(p) /\ assigned'[c] = owner[p]
    BY <2>2 DEF TypeInv, TypeOK
  <2>. QED BY <2>2, <2>3 DEF DecideInv, OwnerIsConfirmed
<1>. QED BY <1>1, DecideInvariant, PTL DEF Spec, OnlyConfirmedAssigned

-----------------------------------------------------------------------------
(* Counting.                                                               *)

LEMMA CountInit == Init => CountInv
<1>1. IsFiniteSet({})
  BY FS_EmptySet
<1>. SUFFICES ASSUME Init PROVE CountInv
  OBVIOUS
<1>2. \A c \in Computers : row[c] = NoRow /\ streak[c].events = {}
  BY DEF Init
<1>3. RowCounts
  BY <1>1, <1>2 DEF RowCounts
<1>4. StreakPresented
  BY <1>2 DEF Init, StreakPresented
<1>. QED BY <1>3, <1>4 DEF CountInv

\* A write that starts the count over, or that counts at most one more than the row did,
\* and no more than it did if the event was the last to count.
LEMMA WriteCounts ==
    ASSUME TypeInv, RowIsStreak, CountInv, NEW p \in Processors, pc[p] = "write", Extend(p),
           \A c \in Computers \ {Asset(p)} : row'[c] = row[c],
           presented' = presented,
           row'[Asset(p)].confirmations \in Nat,
           \/ row'[Asset(p)].confirmations = 1
           \/ /\ row[Asset(p)] # NoRow
              /\ row[Asset(p)].candidate = Proposal(p)
              /\ row'[Asset(p)].confirmations <= row[Asset(p)].confirmations + 1
    PROVE  RowCounts'
<1>. SUFFICES ASSUME NEW c \in Computers
              PROVE  /\ IsFiniteSet(streak'[c].events)
                     /\ \/ row'[c] = NoRow
                        \/ \E e \in streak'[c].events : presented[e] > 1
                        \/ row'[c].confirmations <= Cardinality(streak'[c].events)
  BY DEF RowCounts
<1>. DEFINE old == streak[c].events
            new == streak'[c].events
<1>0. IsFiniteSet(old) /\ Cardinality(old) \in Nat
  BY FS_CardinalityType DEF CountInv, RowCounts
<1>1. CASE c # Asset(p)
  BY <1>1, ExtendedStreak DEF CountInv, RowCounts
<1>2. CASE c = Asset(p)
  <2>1. item[p] \in new /\ (new = old \cup {item[p]} \/ new = {item[p]})
    BY <1>2, ExtendedStreak
  <2>2. IsFiniteSet(new) /\ Cardinality(new) \in Nat /\ Cardinality(new) >= 1
    <3>1. IsFiniteSet({item[p]}) /\ Cardinality({item[p]}) = 1
      BY FS_Singleton
    <3>2. IsFiniteSet(old \cup {item[p]})
      BY <1>0, FS_AddElement
    <3>3. IsFiniteSet(new)
      BY <2>1, <3>1, <3>2
    <3>4. {item[p]} \subseteq new
      BY <2>1
    <3>. QED BY <3>1, <3>3, <3>4, FS_Subset, FS_CardinalityType
  <2>3. CASE row'[c].confirmations = 1
    BY <2>2, <2>3
  <2>4. CASE /\ row[c] # NoRow /\ row[c].candidate = Proposal(p)
             /\ row'[c].confirmations <= row[c].confirmations + 1
    <3>1. new = old \cup {item[p]}
      BY <1>2, <2>4, ExtendedStreak DEF RowIsStreak
    <3>2. CASE item[p] \in old
      BY <1>2, <2>1, <2>2, <3>2 DEF CountInv, StreakPresented
    <3>3. CASE item[p] \notin old
      <4>1. Cardinality(new) = Cardinality(old) + 1
        BY <1>0, <3>1, <3>3, FS_AddElement
      <4>2. CASE \E e \in old : presented[e] > 1
        BY <2>2, <3>1, <4>2
      <4>3. CASE row[c].confirmations <= Cardinality(old)
        <5>1. row[c].confirmations \in Nat
          BY <2>4 DEF TypeInv, TypeOK, Rows
        <5>. QED BY <1>0, <1>2, <2>2, <2>4, <4>1, <4>3, <5>1
      <4>. QED BY <2>4, <4>2, <4>3 DEF CountInv, RowCounts
    <3>. QED BY <3>2, <3>3
  <2>. QED BY <1>2, <2>2, <2>3, <2>4
<1>. QED BY <1>1, <1>2

LEMMA CountPreserved ==
    ASSUME SoleProcessor, TypeInv, TypeInv', DecideInv, CountInv, [Next]_vars
    PROVE  CountInv'
<1>. USE OwnerAssumption, NoRowAssumption DEF GoTo
<1>1. ASSUME NEW p \in Processors, NEW e \in Events, Present(p, e) PROVE CountInv'
  <2>1. /\ presented' = [presented EXCEPT ![e] = @ + 1] /\ item'[p] = e
        /\ row' = row /\ streak' = streak
    BY <1>1 DEF Present, tables, TypeInv, TypeOK
  <2>2. /\ \A f \in Events : presented[f] \in Nat /\ presented'[f] >= presented[f]
        /\ presented'[e] = presented[e] + 1
    BY <2>1 DEF TypeInv, TypeOK
  <2>3. \A c \in Computers : streak[c].events \subseteq Events
    BY DEF TypeInv, TypeOK
  <2>4. RowCounts'
    BY <2>1, <2>2, <2>3 DEF CountInv, RowCounts
  <2>5. StreakPresented'
    <3>1. \A c \in Computers : \A f \in streak'[c].events : presented'[f] >= 1
      BY <2>1, <2>2, <2>3 DEF CountInv, StreakPresented
    <3>2. presented'[item'[p]] >= 1
      BY <2>1, <2>2
    <3>3. Asset(p)' \in Computers
      BY <2>1 DEF Asset
    <3>4. item'[p] \in streak'[Asset(p)'].events => presented'[item'[p]] > 1
      BY <2>1, <2>2, <3>3 DEF CountInv, StreakPresented
    <3>. QED BY <3>1, <3>2, <3>4 DEF StreakPresented, SoleProcessor
  <2>. QED BY <2>4, <2>5 DEF CountInv
<1>2. ASSUME NEW p \in Processors, ReadRow(p) PROVE CountInv'
  BY <1>2
  DEF ReadRow, CountInv, StreakPresented, RowCounts, SoleProcessor, TypeInv, TypeOK,
      tables, queue, Asset
<1>3. ASSUME NEW p \in Processors, pc[p] = "write", Extend(p), RowCounts',
             pc'[p] \in {"confirm", "apply"}, item' = item, presented' = presented
      PROVE  CountInv'
  <2>1. \A c \in Computers : \A f \in streak'[c].events :
            f = item[p] \/ f \in streak[c].events
    <3>1. SUFFICES ASSUME NEW c \in Computers, NEW f \in streak'[c].events
                   PROVE  f = item[p] \/ f \in streak[c].events
      OBVIOUS
    <3>2. CASE c = Asset(p)
      BY <1>3, <3>1, <3>2, ExtendedStreak
    <3>3. CASE c # Asset(p)
      BY <1>3, <3>1, <3>3, ExtendedStreak
    <3>. QED BY <3>2, <3>3
  <2>2. presented[item[p]] >= 1
    BY <1>3 DEF CountInv, StreakPresented
  <2>. QED BY <1>3, <2>1, <2>2 DEF CountInv, StreakPresented, SoleProcessor
<1>4. ASSUME NEW p \in Processors, RenewConfirmed(p) PROVE CountInv'
  <2>1. pc[p] = "write" /\ Asset(p) \in Computers
    BY <1>4, InHand DEF RenewConfirmed, TypeInv
  <2>2. row'[Asset(p)].confirmations = 1 /\ \A c \in Computers \ {Asset(p)} : row'[c] = row[c]
    BY <1>4, <2>1 DEF RenewConfirmed, CandidateRow, TypeInv, TypeOK
  <2>3. /\ Extend(p) /\ presented' = presented /\ item' = item /\ pc'[p] = "apply"
    BY <1>4 DEF RenewConfirmed, queue, TypeInv, TypeOK
  <2>4. RowCounts'
    BY <2>1, <2>2, <2>3, WriteCounts DEF DecideInv
  <2>. QED BY <1>3, <2>1, <2>3, <2>4
<1>5. ASSUME NEW p \in Processors, StartCandidate(p) PROVE CountInv'
  <2>1. pc[p] = "write" /\ Asset(p) \in Computers
    BY <1>5, InHand DEF StartCandidate, TypeInv
  <2>2. row'[Asset(p)].confirmations = 1 /\ \A c \in Computers \ {Asset(p)} : row'[c] = row[c]
    BY <1>5, <2>1 DEF StartCandidate, CandidateRow, TypeInv, TypeOK
  <2>3. /\ Extend(p) /\ presented' = presented /\ item' = item /\ pc'[p] = "apply"
    BY <1>5 DEF StartCandidate, queue, TypeInv, TypeOK
  <2>4. RowCounts'
    BY <2>1, <2>2, <2>3, WriteCounts DEF DecideInv
  <2>. QED BY <1>3, <2>1, <2>3, <2>4
<1>6. ASSUME NEW p \in Processors, CountCandidate(p) PROVE CountInv'
  <2>1. pc[p] = "write" /\ Asset(p) \in Computers /\ seen[p] = row[Asset(p)]
        /\ row[Asset(p)] \in Rows
    BY <1>6, InHand DEF CountCandidate, Continues, DecideInv, SeenIsRow, TypeInv, TypeOK
  <2>2. /\ row'[Asset(p)].confirmations = Counted(p)
        /\ \A c \in Computers \ {Asset(p)} : row'[c] = row[c]
    BY <1>6, <2>1 DEF CountCandidate, CandidateRow, TypeInv, TypeOK
  <2>3. /\ Extend(p) /\ presented' = presented /\ item' = item
        /\ pc'[p] \in {"confirm", "apply"}
    BY <1>6 DEF CountCandidate, queue, TypeInv, TypeOK
  <2>4. Counted(p) \in Nat /\ Counted(p) <= row[Asset(p)].confirmations + 1
    BY <2>1 DEF Counted, Rows
  <2>5. row[Asset(p)] # NoRow /\ row[Asset(p)].candidate = Proposal(p)
    BY <1>6, <2>1 DEF CountCandidate, Continues
  <2>6. RowCounts'
    BY <2>1, <2>2, <2>3, <2>4, <2>5, WriteCounts DEF DecideInv
  <2>. QED BY <1>3, <2>1, <2>3, <2>6
<1>7. ASSUME NEW p \in Processors, ConfirmCandidate(p) PROVE CountInv'
  <2>1. pc[p] = "confirm" /\ Asset(p) \in Computers /\ row[Asset(p)] \in Rows
    BY <1>7, InHand DEF ConfirmCandidate, TypeInv, TypeOK, RowsStay
  <2>2. /\ row'[Asset(p)].confirmations = row[Asset(p)].confirmations
        /\ \A c \in Computers \ {Asset(p)} : row'[c] = row[c]
    BY <1>7, <2>1 DEF ConfirmCandidate, TypeInv, TypeOK, Rows
  <2>3. streak' = streak /\ presented' = presented /\ item' = item /\ pc'[p] = "apply"
    BY <1>7 DEF ConfirmCandidate, queue, TypeInv, TypeOK
  <2>4. row[Asset(p)] # NoRow
    BY <2>1
  <2>5. RowCounts'
    BY <2>2, <2>3, <2>4 DEF CountInv, RowCounts
  <2>6. StreakPresented'
    BY <2>1, <2>3 DEF CountInv, StreakPresented, SoleProcessor
  <2>. QED BY <2>5, <2>6 DEF CountInv
<1>8. ASSUME NEW p \in Processors, Apply(p) PROVE CountInv'
  BY <1>8
  DEF Apply, LetGo, CountInv, StreakPresented, RowCounts, SoleProcessor, TypeInv, TypeOK, tables
<1>9. ASSUME NEW p \in Processors, Crash(p) PROVE CountInv'
  BY <1>9
  DEF Crash, LetGo, CountInv, StreakPresented, RowCounts, SoleProcessor, TypeInv, TypeOK,
      tables, queue
<1>10. ASSUME UNCHANGED vars PROVE CountInv'
  BY <1>10 DEF vars, CountInv, StreakPresented, RowCounts, Asset
<1>. QED BY <1>1, <1>2, <1>4, <1>5, <1>6, <1>7, <1>8, <1>9, <1>10 DEF Next

\* decide_owner confirms on RequiredEvents distinct events, unless one of them was
\* delivered more than once (its count compares with the last event only).
THEOREM ConfirmedOnDistinct ==
    ASSUME SoleProcessor
    PROVE  Spec => []ConfirmsOnDistinctUnlessRetried
<1>1. TypeInv /\ DecideInv /\ CountInv => ConfirmsOnDistinctUnlessRetried
  <2>. SUFFICES ASSUME TypeInv, DecideInv, CountInv, NEW p \in Processors, pc[p] = "confirm"
                PROVE  \/ \E e \in streak[Asset(p)].events : presented[e] > 1
                       \/ Cardinality(streak[Asset(p)].events) >= RequiredEvents
    BY DEF ConfirmsOnDistinctUnlessRetried
  <2>1. row[Asset(p)] # NoRow /\ row[Asset(p)].confirmations = RequiredEvents
    BY DEF DecideInv, ConfirmIsDue
  <2>2. Asset(p) \in Computers
    BY InHand DEF TypeInv
  <2>3. Cardinality(streak[Asset(p)].events) \in Nat
    BY <2>2, FS_CardinalityType DEF CountInv, RowCounts
  <2>. QED BY <2>1, <2>2, <2>3, OwnerAssumption DEF CountInv, RowCounts
<1>2. TypeInv /\ DecideInv /\ CountInv /\ [Next]_vars => CountInv'
  BY TypePreserved, CountPreserved
<1>. QED BY <1>1, <1>2, CountInit, DecideInvariant, PTL DEF Spec

=============================================================================
