----------------------- MODULE EventProcessing_proof -----------------------
(***************************************************************************)
(* What holds of EventProcessing for every set of events, processors and   *)
(* crashes.  What a sole processor adds is in SoleProcessor_proof.         *)
(***************************************************************************)
EXTENDS EventProcessing, TLAPS

-----------------------------------------------------------------------------
(* The inductive invariant, in parts.                                      *)

\* A row whose lease is over was marked in lapsed.
LapseRecorded ==
    \A e \in Events : status[e] = "processing" /\ elapsed[e] => e \in lapsed

\* A processor that selected a "processing" row selected a lapsed one.
TakeoverNeedsLapse ==
    \A p \in Processors : seen[p] = "processing" => item[p] \in lapsed

\* The row of an item in hand is still "processing", unless its lease lapsed.
HeldRowIsProcessing ==
    \A p \in Processors :
        Holding(p) => status[item[p]] = "processing" \/ item[p] \in lapsed

\* The retention of a row in hand is not over.
RowInHandRetained ==
    \A p \in Processors :
        item[p] \in Events /\ status[item[p]] \in Purgeable => ~ elapsed[item[p]]

\* The attempts read back are not more than those of the row.
TriesBounded ==
    /\ \A p \in Processors :
          IF item[p] = NoEvent THEN tries[p] = 0 ELSE tries[p] <= attempts[item[p]]
    /\ \A e \in Events : status[e] = "absent" => attempts[e] = 0

Reflected(e) ==
    \E f \in put : ComputerOf[f] = ComputerOf[e] /\ AtLeastAsNew(f, e)

\* A watermark is an event of its computer that reached Snipe-IT.
WatermarkGrounded ==
    \A c \in Computers : watermark[c] # NoEvent =>
        watermark[c] \in put /\ ComputerOf[watermark[c]] = c

\* A verdict of processed or stale is justified by what reached Snipe-IT.
VerdictGrounded ==
    \A p \in Processors :
        /\ pc[p] = "marking" => verdict[p] = "processed"
        /\ verdict[p] # "none" => pc[p] \in {"decided", "marking"}
        /\ verdict[p] = "processed" => item[p] \in put
        /\ verdict[p] = "stale" => Reflected(item[p])

\* Who may be at work on what.
LeaseInv ==
    /\ LapseRecorded
    /\ TakeoverNeedsLapse
    /\ HeldRowIsProcessing
    /\ RowInHandRetained
    /\ ExclusiveUnlessLapsed

\* How often.
CountInv == TriesBounded /\ DeadLetterEarned

\* On what ground.
GroundInv == WatermarkGrounded /\ VerdictGrounded /\ SettledIsReflected

IInv == TypeOK /\ LeaseInv /\ CountInv /\ GroundInv

-----------------------------------------------------------------------------
(* Type correctness.                                                       *)

\* What an item in hand is.
LEMMA InHand ==
    ASSUME TypeOK, NEW p \in Processors, pc[p] # "idle"
    PROVE  item[p] \in Events /\ ComputerOf[item[p]] \in Computers
BY EventsAssumption DEF TypeOK

LEMMA TypeInit == Init => TypeOK
BY EventsAssumption, MaxAttemptsAssumption, MaxCrashesAssumption
DEF Init, QueueInit, TypeOK, QueueTypeOK, Locations, Verdicts, Waiting, Present

\* The statements keep the types of the tables.
LEMMA StatementsTyped ==
    ASSUME QueueTypeOK, NEW e \in Events,
           \/ InsertRow(e) \/ LeaseRow(e) \/ SetWatermark(e) \/ DeadlinePasses(e)
           \/ PurgeRows \/ (\E s \in Statuses : SetStatus(e, s))
    PROVE  QueueTypeOK'
<1>0. /\ e # NoEvent /\ ComputerOf[e] \in Computers
      /\ MaxAttempts \in Nat \ {0}
  BY EventsAssumption, MaxAttemptsAssumption
<1>1. CASE InsertRow(e)
  BY <1>0, <1>1 DEF InsertRow, QueueTypeOK, Present, Statuses, Waiting
<1>2. CASE LeaseRow(e)
  BY <1>0, <1>2 DEF LeaseRow, QueueTypeOK, Present, Statuses, Waiting
<1>3. CASE SetWatermark(e)
  BY <1>0, <1>3 DEF SetWatermark, rowVars, QueueTypeOK, Present
<1>4. CASE DeadlinePasses(e)
  BY <1>0, <1>4 DEF DeadlinePasses, QueueTypeOK, Present
<1>5. CASE PurgeRows
  <2>1. status' \in [Events -> Statuses \cup {"absent"}]
    BY <1>5 DEF PurgeRows, QueueTypeOK
  <2>2. attempts' \in [Events -> 0..MaxAttempts]
    BY <1>0, <1>5 DEF PurgeRows, QueueTypeOK
  <2>6. elapsed' \in [Events -> BOOLEAN]
    BY <1>5, Zenon DEF PurgeRows, QueueTypeOK
  <2>3. \A f \in Present \ Expired : f \in Present'
    BY <1>5 DEF PurgeRows, Present, QueueTypeOK
  <2>4. earlier' \subseteq (Present \ Expired) \X (Present \ Expired)
    BY <1>5 DEF PurgeRows, Present, QueueTypeOK
  <2>5. earlier' \subseteq Present' \X Present'
    BY <2>3, <2>4
  <2>. QED BY <1>5, <2>1, <2>2, <2>5, <2>6 DEF PurgeRows, QueueTypeOK
<1>6. ASSUME NEW s \in Statuses, SetStatus(e, s) PROVE QueueTypeOK'
  BY <1>0, <1>6 DEF SetStatus, QueueTypeOK, Present, Statuses, Waiting, Terminal
<1>. QED BY <1>1, <1>2, <1>3, <1>4, <1>5, <1>6

LEMMA TypePreserved == TypeOK /\ [Next]_vars => TypeOK'
<1>. SUFFICES ASSUME TypeOK, [Next]_vars PROVE TypeOK'
  OBVIOUS
<1>. USE DEF Holding, Working
<1>1. ASSUME NEW e \in Events, Enqueue(e) PROVE TypeOK'
  <2>1. QueueTypeOK'
    BY <1>1, StatementsTyped DEF Enqueue, TypeOK
  <2>. QED BY <1>1, <2>1 DEF Enqueue, TypeOK, procVars, snipeVars
<1>2. ASSUME NEW e \in Events, TimePasses(e) PROVE TypeOK'
  <2>1. QueueTypeOK'
    BY <1>2, StatementsTyped DEF TimePasses, TypeOK
  <2>. QED BY <1>2, <2>1 DEF TimePasses, TypeOK, procVars, snipeVars
<1>3. ASSUME Purge PROVE TypeOK'
  <2>1. \E e \in Events : TRUE
    BY <1>3 DEF Purge, PurgeRows, Expired
  <2>2. QueueTypeOK'
    BY <1>3, <2>1, StatementsTyped DEF Purge, TypeOK
  <2>. QED BY <1>3, <2>2 DEF Purge, TypeOK, procVars, snipeVars
<1>4. ASSUME NEW p \in Processors, ClaimSelect(p) PROVE TypeOK'
  <2>1. QueueTypeOK'
    BY <1>4 DEF ClaimSelect, TypeOK, QueueTypeOK, queueVars, Present
  <2>. QED BY <1>4, <2>1, EventsAssumption
       DEF ClaimSelect, TypeOK, GoTo, snipeVars, FirstDue, Due, Locations
<1>5. ASSUME NEW p \in Processors, ClaimUpdate(p) PROVE TypeOK'
  <2>0. item[p] \in Events
    BY <1>5, InHand DEF ClaimUpdate
  <2>1. QueueTypeOK'
    BY <1>5, <2>0, StatementsTyped DEF ClaimUpdate, TypeOK
  <2>. QED BY <1>5, <2>0, <2>1, EventsAssumption
       DEF ClaimUpdate, TypeOK, GoTo, snipeVars, Locations
<1>6. ASSUME NEW p \in Processors, ClaimMissed(p) PROVE TypeOK'
  <2>1. QueueTypeOK'
    BY <1>6 DEF ClaimMissed, TypeOK, QueueTypeOK, queueVars, Present
  <2>. QED BY <1>6, <2>1, MaxAttemptsAssumption
       DEF ClaimMissed, LetGo, TypeOK, GoTo, snipeVars, Locations
<1>7. ASSUME NEW p \in Processors, ClaimRead(p) PROVE TypeOK'
  <2>0. item[p] \in Events
    BY <1>7, InHand DEF ClaimRead
  <2>1. QueueTypeOK'
    BY <1>7 DEF ClaimRead, TypeOK, QueueTypeOK, queueVars, Present
  <2>2. attempts[item[p]] \in 0..MaxAttempts
    BY <2>0 DEF TypeOK, QueueTypeOK
  <2>. QED BY <1>7, <2>0, <2>1, <2>2, EventsAssumption
       DEF ClaimRead, TypeOK, GoTo, snipeVars, Locations
<1>8. ASSUME NEW p \in Processors, CheckStale(p) PROVE TypeOK'
  <2>1. QueueTypeOK'
    BY <1>8 DEF CheckStale, TypeOK, QueueTypeOK, queueVars, Present
  <2>. QED BY <1>8, <2>1 DEF CheckStale, TypeOK, GoTo, snipeVars, Locations, Verdicts
<1>9. ASSUME NEW p \in Processors, Apply(p) PROVE TypeOK'
  <2>0. item[p] \in Events /\ ComputerOf[item[p]] \in Computers
    BY <1>9, InHand DEF Apply
  <2>1. QueueTypeOK'
    BY <1>9 DEF Apply, TypeOK, QueueTypeOK, queueVars, Present
  <2>2. put' \subseteq Events /\ current' \in [Computers -> Events \cup {NoEvent}]
    BY <1>9, <2>0 DEF Apply, TypeOK
  <2>. QED BY <1>9, <2>1, <2>2 DEF Apply, TypeOK, GoTo, Locations, Verdicts
<1>10. ASSUME NEW p \in Processors, Finish(p) PROVE TypeOK'
  <2>0. item[p] \in Events /\ verdict[p] \in Statuses
    BY <1>10, InHand DEF Finish, Statuses
  <2>1. QueueTypeOK'
    BY <1>10, <2>0, StatementsTyped DEF Finish, TypeOK
  <2>. QED BY <1>10, <2>0, <2>1, MaxAttemptsAssumption
       DEF Finish, LetGo, TypeOK, GoTo, snipeVars, Locations
<1>11. ASSUME NEW p \in Processors, MoveWatermark(p) PROVE TypeOK'
  <2>0. item[p] \in Events
    BY <1>11, InHand DEF MoveWatermark
  <2>1. QueueTypeOK'
    BY <1>11, <2>0, StatementsTyped DEF MoveWatermark, TypeOK
  <2>. QED BY <1>11, <2>1, MaxAttemptsAssumption
       DEF MoveWatermark, LetGo, TypeOK, GoTo, snipeVars, Locations
<1>12. ASSUME NEW p \in Processors, Retry(p) PROVE TypeOK'
  <2>0. item[p] \in Events /\ RetryStatus(tries[p]) \in Statuses
    BY <1>12, InHand DEF Retry, RetryStatus, Statuses, Waiting, Terminal
  <2>1. QueueTypeOK'
    BY <1>12, <2>0, StatementsTyped DEF Retry, TypeOK
  <2>. QED BY <1>12, <2>1, MaxAttemptsAssumption
       DEF Retry, LetGo, TypeOK, GoTo, snipeVars, Locations
<1>13. ASSUME NEW p \in Processors, Crash(p) PROVE TypeOK'
  <2>1. QueueTypeOK'
    BY <1>13 DEF Crash, TypeOK, QueueTypeOK, queueVars, Present
  <2>. QED BY <1>13, <2>1, MaxAttemptsAssumption, MaxCrashesAssumption
       DEF Crash, LetGo, TypeOK, GoTo, snipeVars, Locations
<1>14. ASSUME UNCHANGED vars PROVE TypeOK'
  BY <1>14 DEF vars, TypeOK, QueueTypeOK, Present
<1>. QED BY <1>1, <1>2, <1>3, <1>4, <1>5, <1>6, <1>7, <1>8, <1>9, <1>10, <1>11,
            <1>12, <1>13, <1>14 DEF Next, Step

-----------------------------------------------------------------------------
(* Leases.                                                                 *)

LEMMA LeasesPreserved ==
    TypeOK /\ TypeOK' /\ LeaseInv /\ [Next]_vars => LeaseInv'
<1>. SUFFICES ASSUME TypeOK, TypeOK', LeaseInv, [Next]_vars PROVE LeaseInv'
  OBVIOUS
<1>. USE DEF LeaseInv, LapseRecorded, TakeoverNeedsLapse, HeldRowIsProcessing,
             RowInHandRetained, ExclusiveUnlessLapsed, Holding
<1>1. ASSUME NEW e \in Events, Enqueue(e) PROVE LeaseInv'
  BY <1>1 DEF Enqueue, InsertRow, procVars, TypeOK, QueueTypeOK, Purgeable
<1>2. ASSUME NEW e \in Events, TimePasses(e) PROVE LeaseInv'
  BY <1>2 DEF TimePasses, DeadlinePasses, RetentionOutlivesWork, procVars, TypeOK, QueueTypeOK, Purgeable
<1>3. ASSUME Purge PROVE LeaseInv'
  BY <1>3 DEF Purge, PurgeRows, Expired, procVars, TypeOK, QueueTypeOK, Purgeable
<1>4. ASSUME NEW p \in Processors, ClaimSelect(p) PROVE LeaseInv'
  BY <1>4 DEF ClaimSelect, FirstDue, Due, GoTo, queueVars, TypeOK, QueueTypeOK, Purgeable, Waiting
<1>5. ASSUME NEW p \in Processors, ClaimUpdate(p) PROVE LeaseInv'
  BY <1>5, InHand DEF ClaimUpdate, LeaseRow, GoTo, TypeOK, QueueTypeOK, Purgeable, Waiting
<1>6. ASSUME NEW p \in Processors, ClaimMissed(p) \/ Crash(p) PROVE LeaseInv'
  BY <1>6, EventsAssumption DEF ClaimMissed, Crash, LetGo, GoTo, queueVars, TypeOK, QueueTypeOK
<1>7. ASSUME NEW p \in Processors, ClaimRead(p) PROVE LeaseInv'
  BY <1>7 DEF ClaimRead, GoTo, queueVars, TypeOK, QueueTypeOK
<1>8. ASSUME NEW p \in Processors, CheckStale(p) PROVE LeaseInv'
  BY <1>8 DEF CheckStale, GoTo, queueVars, TypeOK, QueueTypeOK
<1>9. ASSUME NEW p \in Processors, Apply(p) PROVE LeaseInv'
  BY <1>9 DEF Apply, GoTo, queueVars, TypeOK, QueueTypeOK
<1>10. ASSUME NEW p \in Processors, Finish(p) \/ Retry(p) PROVE LeaseInv'
  <2>1. item[p] \in Events /\ pc[p] = "decided"
    BY <1>10, InHand DEF Finish, Retry
  <2>2. /\ ~ elapsed'[item[p]] /\ lapsed' = lapsed
        /\ status'[item[p]] # "processing" \/ status'[item[p]] = status[item[p]]
        /\ \A f \in Events \ {item[p]} : status'[f] = status[f] /\ elapsed'[f] = elapsed[f]
    BY <1>10, <2>1 DEF Finish, Retry, RetryStatus, SetStatus, Terminal, TypeOK, QueueTypeOK
  <2>3. /\ ~ Holding(p)'
        /\ item'[p] = item[p] \/ item'[p] = NoEvent
        /\ seen'[p] = seen[p] \/ seen'[p] = "none"
    BY <1>10, <2>1 DEF Finish, Retry, LetGo, GoTo, TypeOK
  <2>4. \A q \in Processors \ {p} :
          pc'[q] = pc[q] /\ item'[q] = item[q] /\ seen'[q] = seen[q]
    BY <1>10 DEF Finish, Retry, LetGo, GoTo, TypeOK
  <2>5. LapseRecorded' /\ RowInHandRetained'
    BY <2>1, <2>2, <2>3, <2>4, EventsAssumption
  <2>6. TakeoverNeedsLapse'
    BY <1>10, <2>1, <2>2, <2>4 DEF Finish, Retry, LetGo, GoTo, TypeOK
  <2>7. ExclusiveUnlessLapsed'
    BY <2>2, <2>3, <2>4
  <2>8. HeldRowIsProcessing'
    <3>1. SUFFICES ASSUME NEW q \in Processors \ {p}, Holding(q)
                   PROVE  status'[item[q]] = "processing" \/ item[q] \in lapsed
      BY <2>2, <2>3, <2>4
    <3>2. item[q] \in Events
      BY <3>1, InHand
    <3>3. CASE item[q] = item[p]
      BY <2>1, <3>1, <3>3
    <3>4. CASE item[q] # item[p]
      BY <2>2, <3>1, <3>2, <3>4
    <3>. QED BY <3>3, <3>4
  <2>. QED BY <2>5, <2>6, <2>7, <2>8
<1>11. ASSUME NEW p \in Processors, MoveWatermark(p) PROVE LeaseInv'
  BY <1>11, EventsAssumption DEF MoveWatermark, SetWatermark, rowVars, LetGo, GoTo, TypeOK, QueueTypeOK
<1>12. ASSUME UNCHANGED vars PROVE LeaseInv'
  BY <1>12 DEF vars
<1>. QED BY <1>1, <1>2, <1>3, <1>4, <1>5, <1>6, <1>7, <1>8, <1>9, <1>10, <1>11,
            <1>12 DEF Next, Step

-----------------------------------------------------------------------------
(* Attempts.                                                               *)

LEMMA CountsPreserved ==
    TypeOK /\ TypeOK' /\ LeaseInv /\ CountInv /\ [Next]_vars => CountInv'
<1>. SUFFICES ASSUME TypeOK, TypeOK', LeaseInv, CountInv, [Next]_vars PROVE CountInv'
  OBVIOUS
<1>. USE EventsAssumption, MaxAttemptsAssumption
     DEF CountInv, TriesBounded, DeadLetterEarned
<1>1. ASSUME NEW e \in Events, Enqueue(e) PROVE CountInv'
  BY <1>1 DEF Enqueue, InsertRow, procVars, TypeOK, QueueTypeOK
<1>2. ASSUME NEW e \in Events, TimePasses(e) PROVE CountInv'
  BY <1>2 DEF TimePasses, DeadlinePasses, procVars
<1>3. ASSUME Purge PROVE CountInv'
  \* The rows that go are in nobody's hands.
  <2>1. \A p \in Processors : item[p] \notin Expired
    BY DEF LeaseInv, RowInHandRetained, Expired
  <2>. QED BY <1>3, <2>1 DEF Purge, PurgeRows, procVars, TypeOK, QueueTypeOK
<1>4. ASSUME NEW p \in Processors, ClaimSelect(p) PROVE CountInv'
  <2>1. tries[p] = 0
    BY <1>4 DEF ClaimSelect, TypeOK
  <2>. QED BY <1>4, <2>1 DEF ClaimSelect, GoTo, queueVars, TypeOK, QueueTypeOK
<1>5. ASSUME NEW p \in Processors, ClaimUpdate(p) PROVE CountInv'
  BY <1>5, InHand DEF ClaimUpdate, LeaseRow, GoTo, TypeOK, QueueTypeOK, Waiting
<1>6. ASSUME NEW p \in Processors, ClaimMissed(p) \/ Crash(p) PROVE CountInv'
  BY <1>6 DEF ClaimMissed, Crash, LetGo, GoTo, queueVars, TypeOK, QueueTypeOK
<1>7. ASSUME NEW p \in Processors, ClaimRead(p) PROVE CountInv'
  BY <1>7, InHand DEF ClaimRead, GoTo, queueVars, TypeOK, QueueTypeOK
<1>8. ASSUME NEW p \in Processors, CheckStale(p) \/ Apply(p) PROVE CountInv'
  BY <1>8 DEF CheckStale, Apply, GoTo, queueVars
<1>9. ASSUME NEW p \in Processors, MoveWatermark(p) PROVE CountInv'
  BY <1>9 DEF MoveWatermark, SetWatermark, rowVars, LetGo, GoTo, TypeOK, QueueTypeOK
<1>10. ASSUME NEW p \in Processors, Finish(p) PROVE CountInv'
  <2>1. item[p] \in Events /\ verdict[p] # "dead_letter"
    BY <1>10, InHand DEF Finish, TypeOK, Verdicts, Terminal
  <2>2. status' = [status EXCEPT ![item[p]] = IF @ = "absent" THEN @ ELSE verdict[p]]
    BY <1>10 DEF Finish, SetStatus
  <2>3. attempts' = attempts
    BY <1>10 DEF Finish, SetStatus
  <2>4. \/ item' = item /\ tries' = tries
        \/ LetGo(p)
    BY <1>10 DEF Finish
  <2>5. TriesBounded'
    <3>1. \A e \in Events : status'[e] = "absent" => status[e] = "absent"
      BY <2>1, <2>2 DEF TypeOK, QueueTypeOK, Terminal, Verdicts
    <3>. QED BY <2>3, <2>4, <3>1 DEF LetGo, TypeOK
  <2>6. DeadLetterEarned'
    BY <2>1, <2>2, <2>3 DEF TypeOK, QueueTypeOK
  <2>. QED BY <2>5, <2>6
<1>11. ASSUME NEW p \in Processors, Retry(p) PROVE CountInv'
  <2>1. item[p] \in Events
    BY <1>11, InHand DEF Retry
  <2>2. status' = [status EXCEPT ![item[p]] =
                     IF @ = "absent" THEN @ ELSE RetryStatus(tries[p])]
    BY <1>11 DEF Retry, SetStatus
  <2>3. attempts' = attempts /\ LetGo(p)
    BY <1>11 DEF Retry, SetStatus
  <2>4. TriesBounded'
    <3>1. \A e \in Events : status'[e] = "absent" => status[e] = "absent"
      BY <2>1, <2>2 DEF TypeOK, QueueTypeOK, RetryStatus
    <3>. QED BY <2>3, <3>1 DEF LetGo, TypeOK
  <2>5. RetryStatus(tries[p]) = "dead_letter" => attempts[item[p]] = MaxAttempts
    <3>1. tries[p] \in 0..MaxAttempts /\ attempts[item[p]] \in 0..MaxAttempts
      BY <2>1 DEF TypeOK, QueueTypeOK
    <3>2. tries[p] <= attempts[item[p]]
      BY <2>1
    <3>. QED BY <3>1, <3>2 DEF RetryStatus
  <2>6. DeadLetterEarned'
    BY <2>1, <2>2, <2>3, <2>5 DEF TypeOK, QueueTypeOK
  <2>. QED BY <2>4, <2>6
<1>12. ASSUME UNCHANGED vars PROVE CountInv'
  BY <1>12 DEF vars
<1>. QED BY <1>1, <1>2, <1>3, <1>4, <1>5, <1>6, <1>7, <1>8, <1>9, <1>10, <1>11,
            <1>12 DEF Next, Step

-----------------------------------------------------------------------------
(* What is behind a status, a verdict and a watermark.                     *)

\* What reached Snipe-IT stays there.
LEMMA ReflectedGrows ==
    ASSUME NEW e, Reflected(e), put \subseteq put'
    PROVE  Reflected(e)'
BY DEF Reflected, AtLeastAsNew

LEMMA SelfReflected ==
    ASSUME NEW e \in Events, e \in put
    PROVE  Reflected(e)
BY EventsAssumption DEF Reflected, AtLeastAsNew

LEMMA GroundsPreserved ==
    TypeOK /\ TypeOK' /\ GroundInv /\ [Next]_vars => GroundInv'
<1>. SUFFICES ASSUME TypeOK, TypeOK', GroundInv, [Next]_vars PROVE GroundInv'
  OBVIOUS
<1>0. SettledIsReflected <=>
        \A e \in Events : status[e] \in {"processed", "stale"} => Reflected(e)
  BY DEF SettledIsReflected, Reflected
<1>00. SettledIsReflected' <=>
        \A e \in Events : status'[e] \in {"processed", "stale"} => Reflected(e)'
  BY DEF SettledIsReflected, Reflected
<1>. USE DEF GroundInv, WatermarkGrounded, VerdictGrounded
<1>1. ASSUME NEW e \in Events, Enqueue(e) \/ TimePasses(e) PROVE GroundInv'
  BY <1>0, <1>00, <1>1, ReflectedGrows
  DEF Enqueue, InsertRow, TimePasses, DeadlinePasses, procVars, snipeVars, TypeOK, QueueTypeOK
<1>2. ASSUME Purge PROVE GroundInv'
  BY <1>0, <1>00, <1>2, ReflectedGrows
  DEF Purge, PurgeRows, procVars, snipeVars, TypeOK, QueueTypeOK
<1>3. ASSUME NEW p \in Processors, ClaimSelect(p) \/ ClaimMissed(p) \/ ClaimRead(p) \/ Crash(p)
      PROVE  GroundInv'
  BY <1>0, <1>00, <1>3, ReflectedGrows
  DEF ClaimSelect, ClaimMissed, ClaimRead, Crash, LetGo, GoTo, queueVars, snipeVars, TypeOK
<1>4. ASSUME NEW p \in Processors, ClaimUpdate(p) PROVE GroundInv'
  BY <1>0, <1>00, <1>4, ReflectedGrows
  DEF ClaimUpdate, LeaseRow, GoTo, snipeVars, TypeOK, QueueTypeOK
<1>5. ASSUME NEW p \in Processors, CheckStale(p) PROVE GroundInv'
  <2>1. item[p] \in Events /\ ComputerOf[item[p]] \in Computers
    BY <1>5, InHand DEF CheckStale
  <2>2. IsStale(item[p]) => Reflected(item[p])
    BY <2>1 DEF IsStale, Reflected
  <2>. QED BY <1>0, <1>00, <1>5, <2>2, ReflectedGrows
       DEF CheckStale, GoTo, queueVars, snipeVars, TypeOK
<1>6. ASSUME NEW p \in Processors, Apply(p) PROVE GroundInv'
  <2>1. put \subseteq put'
    BY <1>6 DEF Apply
  <2>2. WatermarkGrounded'
    BY <1>6, <2>1 DEF Apply, queueVars
  <2>3. VerdictGrounded'
    BY <1>6, <2>1, ReflectedGrows DEF Apply, GoTo, TypeOK
  <2>. QED BY <1>0, <1>00, <1>6, <2>1, <2>2, <2>3, ReflectedGrows DEF Apply, queueVars
<1>7. ASSUME NEW p \in Processors, Finish(p) PROVE GroundInv'
  <2>1. item[p] \in Events
    BY <1>7, InHand DEF Finish
  <2>2. verdict[p] \in {"processed", "stale"} => Reflected(item[p])
    BY <2>1, SelfReflected
  <2>. QED BY <1>0, <1>00, <1>7, <2>1, <2>2, ReflectedGrows
       DEF Finish, SetStatus, LetGo, GoTo, snipeVars, TypeOK, QueueTypeOK
<1>8. ASSUME NEW p \in Processors, MoveWatermark(p) PROVE GroundInv'
  <2>1. item[p] \in Events
    BY <1>8, InHand DEF MoveWatermark
  <2>. QED BY <1>0, <1>00, <1>8, <2>1, ReflectedGrows
       DEF MoveWatermark, SetWatermark, rowVars, LetGo, GoTo, snipeVars, TypeOK, QueueTypeOK
<1>9. ASSUME NEW p \in Processors, Retry(p) PROVE GroundInv'
  BY <1>0, <1>00, <1>9, InHand, ReflectedGrows
  DEF Retry, RetryStatus, SetStatus, LetGo, GoTo, snipeVars, TypeOK, QueueTypeOK
<1>10. ASSUME UNCHANGED vars PROVE GroundInv'
  BY <1>0, <1>00, <1>10, ReflectedGrows DEF vars
<1>. QED BY <1>1, <1>2, <1>3, <1>4, <1>5, <1>6, <1>7, <1>8, <1>9, <1>10 DEF Next, Step

-----------------------------------------------------------------------------
(* The theorems of every instance.                                         *)

LEMMA IInvInit == Init => IInv
<1>. SUFFICES ASSUME Init PROVE IInv
  OBVIOUS
<1>1. TypeOK
  BY TypeInit
<1>2. LeaseInv
  BY EventsAssumption
  DEF Init, QueueInit, LeaseInv, LapseRecorded, TakeoverNeedsLapse, HeldRowIsProcessing,
      RowInHandRetained, ExclusiveUnlessLapsed, Holding
<1>3. CountInv
  BY EventsAssumption DEF Init, QueueInit, CountInv, TriesBounded, DeadLetterEarned
<1>4. GroundInv
  BY DEF Init, QueueInit, GroundInv, WatermarkGrounded, VerdictGrounded, SettledIsReflected
<1>. QED BY <1>1, <1>2, <1>3, <1>4 DEF IInv

LEMMA IInvStep == IInv /\ [Next]_vars => IInv'
BY TypePreserved, LeasesPreserved, CountsPreserved, GroundsPreserved DEF IInv

\* The invariant on which the theorems of every instance rest.
THEOREM Invariance == Spec => []IInv
BY IInvInit, IInvStep, PTL DEF Spec

\* Every reachable state is well typed, for every set of events and processors.
THEOREM TypeCorrect == Spec => []TypeOK
BY Invariance, PTL DEF IInv

\* An event is in two hands only if its lease ran out.
THEOREM Exclusion == Spec => []ExclusiveUnlessLapsed
BY Invariance, PTL DEF IInv, LeaseInv

\* Only an event claimed MaxAttempts times is given up.
THEOREM DeadLetters == Spec => []DeadLetterEarned
BY Invariance, PTL DEF IInv, CountInv

\* No event is reported processed or stale unless Snipe-IT was sent news of the
\* computer at least as recent, whatever crashes and takeovers happened.
THEOREM Reflection == Spec => []SettledIsReflected
BY Invariance, PTL DEF IInv, GroundInv

\* A terminal status stays until the purge, unless a lease of the row ran out.
THEOREM SettledFinal == Spec => SettledIsFinal
<1>1. IInv /\ [Next]_vars => [SettledStays]_vars
  <2>. SUFFICES ASSUME IInv, Next, NEW e \in Events,
                       status[e] \in Terminal, e \notin lapsed
                PROVE  status'[e] \in {status[e], "absent"}
    BY DEF SettledStays
  <2>. USE DEF Terminal, Waiting
  <2>0. /\ status \in [Events -> Statuses \cup {"absent"}]
        /\ seen \in [Processors -> Waiting \cup {"processing", "none"}]
    BY DEF IInv, TypeOK, QueueTypeOK
  <2>1. CASE status' = status
    BY <2>1
  <2>2. ASSUME NEW f \in Events, Enqueue(f) PROVE status'[e] = status[e]
    BY <2>0, <2>2 DEF Enqueue, InsertRow
  <2>3. ASSUME Purge PROVE status'[e] \in {status[e], "absent"}
    BY <2>3 DEF Purge, PurgeRows
  <2>4. ASSUME NEW p \in Processors, ClaimUpdate(p) PROVE status'[e] = status[e]
    BY <2>0, <2>4 DEF ClaimUpdate, LeaseRow
  <2>5. ASSUME NEW p \in Processors, Finish(p) \/ Retry(p) PROVE status'[e] = status[e]
    <3>1. item[p] # e
      BY <2>5 DEF Finish, Retry, IInv, LeaseInv, HeldRowIsProcessing, Holding
    <3>. QED BY <2>0, <2>5, <3>1 DEF Finish, Retry, SetStatus
  <2>. QED BY <2>1, <2>2, <2>3, <2>4, <2>5
       DEF Next, Step, TimePasses, DeadlinePasses, ClaimSelect, ClaimMissed, ClaimRead,
           CheckStale, Apply, MoveWatermark, SetWatermark, rowVars, Crash, queueVars
<1>. QED BY Invariance, <1>1, PTL DEF Spec, SettledIsFinal

=============================================================================
