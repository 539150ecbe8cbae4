------------------------- MODULE SoleProcessor_proof -------------------------
(***************************************************************************)
(* What EventProcessing guarantees in addition while a single processor    *)
(* drains the queue, up to the promise of module Gateway.  With a second   *)
(* one it does not: the run watermark_race shows how it is lost.           *)
(***************************************************************************)
EXTENDS EventProcessing_proof

SoleProcessor == \A p, q \in Processors : p = q

-----------------------------------------------------------------------------
(* The order of the watermark.                                             *)

LEMMA NewnessTotal ==
    ASSUME NEW e \in Events, NEW f \in Events
    PROVE  AtLeastAsNew(e, f) \/ AtLeastAsNew(f, e)
BY EventsAssumption DEF AtLeastAsNew

LEMMA NewnessReflexive ==
    ASSUME NEW e \in Events
    PROVE  AtLeastAsNew(e, e)
BY EventsAssumption DEF AtLeastAsNew

LEMMA NewnessTransitive ==
    ASSUME NEW e \in Events, NEW f \in Events, NEW g \in Events,
           AtLeastAsNew(e, f), AtLeastAsNew(f, g)
    PROVE  AtLeastAsNew(e, g)
BY EventsAssumption DEF AtLeastAsNew

-----------------------------------------------------------------------------
(* The verdict on staleness stays true until the watermark moves.          *)

\* A processor past its staleness check, whose verdict is not "stale".
Carrying(p) ==
    \/ pc[p] \in {"fresh", "marking"}
    \/ pc[p] = "decided" /\ verdict[p] # "stale"

CarriedIsNew == \A p \in Processors : Carrying(p) => ~ IsStale(item[p])

LEMMA OnlyFinishMovesWatermark ==
    [Next]_vars => watermark' = watermark \/ \E p \in Processors : MoveWatermark(p)
BY DEF Next, Step, Enqueue, InsertRow, TimePasses, DeadlinePasses, Purge, PurgeRows,
       ClaimSelect, ClaimUpdate, LeaseRow, ClaimMissed, ClaimRead, CheckStale, Apply,
       Finish, SetStatus, Retry, Crash, queueVars, vars

LEMMA CarriedIsNewPreserved ==
    ASSUME SoleProcessor
    PROVE  TypeOK /\ CarriedIsNew /\ [Next]_vars => CarriedIsNew'
<1>. SUFFICES ASSUME TypeOK, CarriedIsNew, [Next]_vars PROVE CarriedIsNew'
  OBVIOUS
<1>. USE DEF CarriedIsNew, Carrying
<1>1. CASE \E p \in Processors : MoveWatermark(p)
  <2>1. PICK p \in Processors : MoveWatermark(p)
    BY <1>1
  <2>2. pc'[p] = "idle"
    BY <2>1 DEF MoveWatermark, LetGo, GoTo, TypeOK
  <2>. QED BY <2>2 DEF SoleProcessor
<1>2. CASE watermark' = watermark
  <2>1. SUFFICES ASSUME NEW p \in Processors, Carrying(p)' PROVE ~ IsStale(item[p])'
    OBVIOUS
  <2>2. item'[p] = item[p] /\ ~ IsStale(item[p])
    <3>. DEFINE Kept == item'[p] = item[p] /\ ~ IsStale(item[p])
    <3>1. ASSUME procVars' = procVars PROVE Kept
      BY <2>1, <3>1 DEF procVars
    <3>2. ASSUME LetGo(p) PROVE Kept
      BY <2>1, <3>2 DEF LetGo, GoTo, TypeOK
    <3>3. ASSUME ClaimSelect(p) \/ ClaimUpdate(p) \/ ClaimRead(p) PROVE Kept
      BY <2>1, <3>3 DEF ClaimSelect, ClaimUpdate, ClaimRead, GoTo, TypeOK
    <3>4. ASSUME CheckStale(p) PROVE Kept
      BY <2>1, <3>4 DEF CheckStale, GoTo, TypeOK
    <3>5. ASSUME Apply(p) PROVE Kept
      BY <2>1, <3>5 DEF Apply, GoTo, TypeOK
    <3>6. ASSUME Finish(p) PROVE Kept
      BY <2>1, <3>2, <3>6 DEF Finish, GoTo, TypeOK
    <3>. SUFFICES Kept
      OBVIOUS
    <3>. HIDE DEF Kept
    <3>7. \A q \in Processors : q = p
      BY DEF SoleProcessor
    <3>8. CASE \E q \in Processors : ClaimSelect(q) \/ Step(q) \/ Crash(q)
      BY <3>2, <3>3, <3>4, <3>5, <3>6, <3>7, <3>8
      DEF Step, ClaimMissed, MoveWatermark, Retry, Crash
    <3>9. CASE \E e \in Events : Enqueue(e) \/ TimePasses(e)
      BY <3>1, <3>9 DEF Enqueue, TimePasses
    <3>10. CASE Purge \/ UNCHANGED vars
      BY <3>1, <3>10 DEF Purge, vars, procVars
    <3>. QED BY <3>8, <3>9, <3>10 DEF Next
  <2>. QED BY <1>2, <2>2 DEF IsStale, AtLeastAsNew
<1>3. (\E p \in Processors : MoveWatermark(p)) \/ watermark' = watermark
  BY OnlyFinishMovesWatermark
<1>. QED BY <1>1, <1>2, <1>3

-----------------------------------------------------------------------------
(* The watermark moves forward, crashes or not.                            *)

\* With a sole processor the watermark of a computer never moves back: the answer
\* of stale_reason cannot be outdated when finish replaces the row.
THEOREM WatermarkMonotone ==
    ASSUME SoleProcessor
    PROVE  Spec => WatermarkNeverRegresses
<1>1. Init => CarriedIsNew
  BY DEF Init, CarriedIsNew, Carrying
<1>2. TypeOK /\ CarriedIsNew /\ [Next]_vars => CarriedIsNew'
  BY CarriedIsNewPreserved
<1>3. TypeOK /\ CarriedIsNew /\ [Next]_vars => [WatermarkAdvances]_vars
  <2>. SUFFICES ASSUME TypeOK, CarriedIsNew, Next PROVE WatermarkAdvances
    BY DEF vars
  <2>1. CASE watermark' = watermark
    BY <2>1 DEF WatermarkAdvances
  <2>2. ASSUME NEW p \in Processors, MoveWatermark(p) PROVE WatermarkAdvances
    <3>1. item[p] \in Events /\ ~ IsStale(item[p])
      BY <2>2, InHand DEF MoveWatermark, CarriedIsNew, Carrying
    <3>. QED BY <2>2, <3>1, EventsAssumption
         DEF MoveWatermark, SetWatermark, IsStale, WatermarkAdvances, TypeOK, QueueTypeOK
  <2>. QED BY <2>1, <2>2, OnlyFinishMovesWatermark
<1>. QED BY TypeCorrect, <1>1, <1>2, <1>3, PTL DEF Spec, WatermarkNeverRegresses

-----------------------------------------------------------------------------
(* What Snipe-IT shows.                                                    *)

\* An event processed to the end is behind the watermark.
FinishedIsMarked == \A e \in finished : IsStale(e)

\* Snipe-IT is never behind the watermark.
CurrentCoversWatermark ==
    \A c \in Computers : watermark[c] # NoEvent =>
        /\ current[c] \in Events
        /\ ComputerOf[watermark[c]] = c
        /\ AtLeastAsNew(current[c], watermark[c])

\* What was just applied is still what Snipe-IT shows.
AppliedIsCurrent ==
    \A p \in Processors :
        /\ pc[p] = "marking" => verdict[p] = "processed"
        /\ verdict[p] # "none" => pc[p] \in {"decided", "marking"}
        /\ verdict[p] = "processed" => current[ComputerOf[item[p]]] = item[p]

SoleInv ==
    /\ CarriedIsNew
    /\ FinishedIsMarked
    /\ CurrentCoversWatermark
    /\ AppliedIsCurrent

LEMMA SoleInvInit == Init => SoleInv
BY DEF Init, QueueInit, SoleInv, CarriedIsNew, Carrying, FinishedIsMarked,
       CurrentCoversWatermark, AppliedIsCurrent

LEMMA SoleInvStep ==
    ASSUME SoleProcessor
    PROVE  TypeOK /\ TypeOK' /\ SoleInv /\ [Next]_vars => SoleInv'
<1>. SUFFICES ASSUME TypeOK, TypeOK', SoleInv, [Next]_vars PROVE SoleInv'
  OBVIOUS
<1>0. CarriedIsNew'
  BY CarriedIsNewPreserved DEF SoleInv
<1>. USE EventsAssumption
     DEF SoleInv, FinishedIsMarked, CurrentCoversWatermark, AppliedIsCurrent
<1>1. ASSUME NEW e \in Events, Enqueue(e) \/ TimePasses(e) PROVE SoleInv'
  BY <1>0, <1>1
  DEF Enqueue, InsertRow, TimePasses, DeadlinePasses, IsStale, AtLeastAsNew, procVars,
      snipeVars, TypeOK, QueueTypeOK
<1>2. ASSUME Purge PROVE SoleInv'
  BY <1>0, <1>2
  DEF Purge, PurgeRows, IsStale, AtLeastAsNew, procVars, snipeVars, TypeOK, QueueTypeOK
<1>3. ASSUME NEW p \in Processors, ClaimSelect(p) \/ ClaimMissed(p) \/ ClaimRead(p)
      PROVE  SoleInv'
  BY <1>0, <1>3
  DEF ClaimSelect, ClaimMissed, ClaimRead, LetGo, GoTo, IsStale, AtLeastAsNew, queueVars,
      snipeVars, TypeOK
<1>4. ASSUME NEW p \in Processors, ClaimUpdate(p) PROVE SoleInv'
  BY <1>0, <1>4
  DEF ClaimUpdate, LeaseRow, GoTo, IsStale, AtLeastAsNew, snipeVars, TypeOK, QueueTypeOK
<1>5. ASSUME NEW p \in Processors, CheckStale(p) PROVE SoleInv'
  BY <1>0, <1>5
  DEF CheckStale, GoTo, IsStale, AtLeastAsNew, queueVars, snipeVars, TypeOK
<1>6. ASSUME NEW p \in Processors, Apply(p) PROVE SoleInv'
  <2>1. item[p] \in Events /\ ComputerOf[item[p]] \in Computers /\ ~ IsStale(item[p])
    BY <1>6, InHand DEF Apply, CarriedIsNew, Carrying
  <2>2. \A q \in Processors : q = p
    BY DEF SoleProcessor
  <2>3. FinishedIsMarked'
    BY <1>6, <2>2 DEF Apply, IsStale, AtLeastAsNew, queueVars
  <2>4. CurrentCoversWatermark'
    <3>1. ASSUME NEW c \in Computers, watermark[c] # NoEvent
          PROVE  /\ current'[c] \in Events
                 /\ ComputerOf[watermark[c]] = c
                 /\ AtLeastAsNew(current'[c], watermark[c])
      <4>1. CASE current'[c] = current[c]
        BY <3>1, <4>1
      <4>2. CASE current'[c] # current[c]
        <5>1. c = ComputerOf[item[p]] /\ current'[c] = item[p]
          BY <1>6, <2>1, <4>2 DEF Apply, TypeOK
        <5>2. watermark[c] \in Events /\ ~ AtLeastAsNew(watermark[c], item[p])
          BY <2>1, <3>1, <5>1 DEF IsStale, TypeOK, QueueTypeOK
        <5>. QED BY <2>1, <3>1, <5>1, <5>2, NewnessTotal
      <4>. QED BY <4>1, <4>2
    <3>2. watermark' = watermark
      BY <1>6 DEF Apply, queueVars
    <3>. QED BY <3>1, <3>2 DEF AtLeastAsNew
  <2>5. AppliedIsCurrent'
    BY <1>6, <2>1, <2>2 DEF Apply, GoTo, TypeOK
  <2>. QED BY <1>0, <2>3, <2>4, <2>5
<1>7. ASSUME NEW p \in Processors, Finish(p) PROVE SoleInv'
  <2>1. item[p] \in Events
    BY <1>7, InHand DEF Finish
  <2>2. \A q \in Processors : q = p
    BY DEF SoleProcessor
  <2>. QED BY <1>0, <1>7, <2>1, <2>2
       DEF Finish, SetStatus, LetGo, GoTo, IsStale, AtLeastAsNew, snipeVars, TypeOK, QueueTypeOK
<1>8. ASSUME NEW p \in Processors, MoveWatermark(p) PROVE SoleInv'
  <2>1. item[p] \in Events /\ ComputerOf[item[p]] \in Computers
    BY <1>8, InHand DEF MoveWatermark
  <2>2. \A q \in Processors : q = p
    BY DEF SoleProcessor
  <2>3. current[ComputerOf[item[p]]] = item[p] /\ ~ IsStale(item[p])
    BY <1>8 DEF MoveWatermark, CarriedIsNew, Carrying
  <2>4. /\ watermark' = [watermark EXCEPT ![ComputerOf[item[p]]] = item[p]]
        /\ current' = current /\ finished' = finished \cup {item[p]}
    BY <1>8 DEF MoveWatermark, SetWatermark, snipeVars
  <2>5. CurrentCoversWatermark'
    BY <2>1, <2>3, <2>4, NewnessReflexive DEF AtLeastAsNew, TypeOK, QueueTypeOK
  <2>6. \A e \in finished' : IsStale(e)'
    <3>1. SUFFICES ASSUME NEW e \in finished', ComputerOf[e] = ComputerOf[item[p]]
                   PROVE  AtLeastAsNew(item[p], e)
      BY <2>1, <2>2, <2>4 DEF IsStale, AtLeastAsNew, TypeOK, QueueTypeOK
    <3>2. CASE e = item[p]
      BY <2>1, <3>2, NewnessReflexive
    <3>3. CASE e # item[p]
      <4>1. IsStale(e) /\ e \in Events /\ watermark[ComputerOf[e]] \in Events
        BY <2>4, <3>3 DEF IsStale, TypeOK, QueueTypeOK
      <4>2. AtLeastAsNew(item[p], watermark[ComputerOf[e]])
        BY <2>1, <2>3, <3>1, <4>1, NewnessTotal DEF IsStale
      <4>. QED BY <2>1, <4>1, <4>2, NewnessTransitive DEF IsStale
    <3>. QED BY <3>2, <3>3
  <2>7. AppliedIsCurrent'
    BY <1>8, <2>1, <2>2, <2>4 DEF MoveWatermark, LetGo, GoTo, TypeOK
  <2>. QED BY <1>0, <2>4, <2>5, <2>6, <2>7
<1>9. ASSUME NEW p \in Processors, Retry(p) PROVE SoleInv'
  BY <1>0, <1>9, InHand
  DEF Retry, RetryStatus, SetStatus, LetGo, GoTo, IsStale, AtLeastAsNew, snipeVars,
      TypeOK, QueueTypeOK
<1>10. ASSUME NEW p \in Processors, Crash(p) PROVE SoleInv'
  BY <1>0, <1>10
  DEF Crash, LetGo, GoTo, IsStale, AtLeastAsNew, queueVars, snipeVars, TypeOK
<1>11. ASSUME UNCHANGED vars PROVE SoleInv'
  BY <1>0, <1>11 DEF vars, IsStale, AtLeastAsNew
<1>. QED BY <1>1, <1>2, <1>3, <1>4, <1>5, <1>6, <1>7, <1>8, <1>9, <1>10, <1>11
     DEF Next, Step

LEMMA SoleInvariance ==
    ASSUME SoleProcessor
    PROVE  Spec => []SoleInv
<1>1. TypeOK /\ TypeOK' /\ SoleInv /\ [Next]_vars => SoleInv'
  BY SoleInvStep
<1>. QED BY TypeCorrect, SoleInvInit, <1>1, PTL DEF Spec

\* With a sole processor Snipe-IT shows, for every event processed to the end, that
\* event or a newer one, whatever crashes happened.
THEOREM NewestWins ==
    ASSUME SoleProcessor
    PROVE  Spec => []FinishedIsCurrent
<1>1. TypeOK /\ SoleInv => FinishedIsCurrent
  <2>. SUFFICES ASSUME TypeOK, SoleInv, NEW e \in finished
                PROVE  /\ current[ComputerOf[e]] # NoEvent
                       /\ AtLeastAsNew(current[ComputerOf[e]], e)
    BY DEF FinishedIsCurrent
  <2>1. e \in Events /\ ComputerOf[e] \in Computers /\ IsStale(e)
    BY EventsAssumption DEF SoleInv, FinishedIsMarked, TypeOK
  <2>2. watermark[ComputerOf[e]] \in Events /\ current[ComputerOf[e]] \in Events
    BY <2>1 DEF IsStale, SoleInv, CurrentCoversWatermark, TypeOK, QueueTypeOK
  <2>. QED BY <2>1, <2>2, NewnessTransitive, EventsAssumption
       DEF IsStale, SoleInv, CurrentCoversWatermark
<1>. QED BY TypeCorrect, SoleInvariance, <1>1, PTL

\* Nor is an event that was processed to the end applied again, delivered anew or
\* not, before or after its row was purged.
THEOREM AppliedOnce ==
    ASSUME SoleProcessor
    PROVE  Spec => NeverAppliedAgain
<1>1. TypeOK /\ SoleInv /\ [Next]_vars => [AppliesUnfinished]_vars
  <2>. SUFFICES ASSUME TypeOK, SoleInv, Next, NEW c \in Computers, current'[c] # current[c]
                PROVE  current'[c] \notin finished
    BY DEF AppliesUnfinished
  <2>1. PICK p \in Processors : Apply(p)
    BY DEF Next, Step, Enqueue, TimePasses, Purge, ClaimSelect, ClaimUpdate, ClaimMissed,
           ClaimRead, CheckStale, Finish, MoveWatermark, Retry, Crash, snipeVars
  <2>2. current'[c] = item[p] /\ ~ IsStale(item[p])
    BY <2>1, InHand DEF Apply, SoleInv, CarriedIsNew, Carrying, TypeOK
  <2>. QED BY <2>2 DEF SoleInv, FinishedIsMarked
<1>. QED BY TypeCorrect, SoleInvariance, <1>1, PTL DEF Spec, NeverAppliedAgain

-----------------------------------------------------------------------------
(***************************************************************************)
(* A sole processor implements module Gateway: every step of               *)
(* EventProcessing is a step of the promise or changes nothing of it.      *)
(***************************************************************************)

\* The watermark of a computer is one of the events of it that were settled.
WatermarkSettled ==
    \A c \in Computers : watermark[c] # NoEvent =>
        watermark[c] \in finished /\ ComputerOf[watermark[c]] = c

\* The row of an item in hand waits for its verdict, the row of an item being marked
\* has it, and an item to be dismissed is behind the watermark.
VerdictIsNext ==
    \A p \in Processors :
        /\ Holding(p) => status[item[p]] = "processing"
        /\ pc[p] = "marking" => status[item[p]] = "processed"
        /\ verdict[p] = "stale" => IsStale(item[p])

PromiseInv == WatermarkSettled /\ VerdictIsNext

\* Settled events and the watermark agree on what is superseded.
LEMMA StaleIsSuperseded ==
    ASSUME TypeOK, SoleInv, PromiseInv, NEW e \in Events
    PROVE  IsStale(e) <=> Promise!Superseded(e)
<1>1. ASSUME IsStale(e) PROVE Promise!Superseded(e)
  <2>. DEFINE w == watermark[ComputerOf[e]]
  <2>1. ComputerOf[e] \in Computers /\ w # NoEvent /\ AtLeastAsNew(w, e)
    BY <1>1, EventsAssumption DEF IsStale
  <2>2. w \in finished /\ ComputerOf[w] = ComputerOf[e] /\ w \in Events
    BY <2>1 DEF PromiseInv, WatermarkSettled, TypeOK
  <2>. QED BY <2>1, <2>2 DEF Promise!Superseded
<1>2. ASSUME Promise!Superseded(e) PROVE IsStale(e)
  <2>1. PICK f \in finished : ComputerOf[f] = ComputerOf[e] /\ AtLeastAsNew(f, e)
    BY <1>2 DEF Promise!Superseded
  <2>2. f \in Events /\ IsStale(f)
    BY DEF SoleInv, FinishedIsMarked, TypeOK
  <2>3. watermark[ComputerOf[e]] \in Events
    BY <2>1, <2>2, EventsAssumption DEF IsStale, TypeOK, QueueTypeOK
  <2>4. AtLeastAsNew(watermark[ComputerOf[e]], f)
    BY <2>1, <2>2 DEF IsStale
  <2>5. AtLeastAsNew(watermark[ComputerOf[e]], e)
    BY <2>1, <2>2, <2>3, <2>4, NewnessTransitive
  <2>. QED BY <2>1, <2>2, <2>5 DEF IsStale
<1>. QED BY <1>1, <1>2

-----------------------------------------------------------------------------
(* The invariant the mapping needs.                                        *)

LEMMA PromiseInvInit == Init => PromiseInv
BY DEF Init, QueueInit, PromiseInv, WatermarkSettled, VerdictIsNext, Holding

LEMMA PromiseInvStep ==
    ASSUME SoleProcessor
    PROVE  IInv /\ IInv' /\ SoleInv /\ PromiseInv /\ [Next]_vars => PromiseInv'
<1>. SUFFICES ASSUME IInv, IInv', SoleInv, PromiseInv, [Next]_vars PROVE PromiseInv'
  OBVIOUS
<1>0. TypeOK /\ TypeOK' /\ RowInHandRetained /\ \A p, q \in Processors : p = q
  BY DEF IInv, LeaseInv, SoleProcessor
<1>1. WatermarkSettled'
  <2>1. CASE watermark' = watermark
    <3>1. finished \subseteq finished'
      BY DEF Next, Step, Enqueue, TimePasses, Purge, ClaimSelect, ClaimUpdate, ClaimMissed,
             ClaimRead, CheckStale, Apply, Finish, MoveWatermark, Retry, Crash, vars
    <3>. QED BY <2>1, <3>1 DEF PromiseInv, WatermarkSettled
  <2>2. ASSUME NEW p \in Processors, MoveWatermark(p) PROVE WatermarkSettled'
    BY <2>2, <1>0, InHand, EventsAssumption
    DEF MoveWatermark, SetWatermark, PromiseInv, WatermarkSettled, TypeOK, QueueTypeOK
  <2>. QED BY <2>1, <2>2, OnlyFinishMovesWatermark
<1>. USE <1>0 DEF PromiseInv, VerdictIsNext, Holding
<1>2. ASSUME NEW e \in Events, Enqueue(e) \/ TimePasses(e) PROVE VerdictIsNext'
  BY <1>2 DEF Enqueue, InsertRow, TimePasses, DeadlinePasses, IsStale, AtLeastAsNew, procVars,
              TypeOK, QueueTypeOK
<1>3. ASSUME Purge PROVE VerdictIsNext'
  <2>1. \A p \in Processors : pc[p] = "marking" => item[p] \in Events \ Expired
    BY InHand DEF RowInHandRetained, Expired, Purgeable
  <2>2. \A p \in Processors : Holding(p) => item[p] \in Events \ Expired
    BY InHand DEF Expired, Purgeable
  <2>. QED BY <1>3, <2>1, <2>2 DEF Purge, PurgeRows, IsStale, AtLeastAsNew, procVars
<1>4. ASSUME NEW p \in Processors, ClaimSelect(p) \/ ClaimMissed(p) \/ ClaimRead(p) \/ Crash(p)
      PROVE  VerdictIsNext'
  BY <1>4 DEF ClaimSelect, ClaimMissed, ClaimRead, Crash, LetGo, GoTo, IsStale, AtLeastAsNew,
              queueVars, SoleInv, AppliedIsCurrent, TypeOK
<1>5. ASSUME NEW p \in Processors, ClaimUpdate(p) PROVE VerdictIsNext'
  BY <1>5, InHand DEF ClaimUpdate, LeaseRow, GoTo, IsStale, AtLeastAsNew, SoleInv,
                      AppliedIsCurrent, TypeOK, QueueTypeOK
<1>6. ASSUME NEW p \in Processors, CheckStale(p) \/ Apply(p) PROVE VerdictIsNext'
  BY <1>6 DEF CheckStale, Apply, GoTo, IsStale, AtLeastAsNew, queueVars, SoleInv,
              AppliedIsCurrent, TypeOK
<1>7. ASSUME NEW p \in Processors, Finish(p) PROVE VerdictIsNext'
  BY <1>7, InHand DEF Finish, SetStatus, LetGo, GoTo, IsStale, AtLeastAsNew, TypeOK, QueueTypeOK
<1>8. ASSUME NEW p \in Processors, MoveWatermark(p) \/ Retry(p) PROVE VerdictIsNext'
  BY <1>8 DEF MoveWatermark, Retry, LetGo, GoTo, TypeOK
<1>9. ASSUME UNCHANGED vars PROVE VerdictIsNext'
  BY <1>9 DEF vars, IsStale, AtLeastAsNew
<1>. QED BY <1>1, <1>2, <1>3, <1>4, <1>5, <1>6, <1>7, <1>8, <1>9 DEF Next, Step

-----------------------------------------------------------------------------
(* The mapping.                                                            *)

LEMMA InitMaps == Init => Promise!Init
BY DEF Init, QueueInit, Promise!Init, AnswerTo, Waiting

LEMMA StepMaps ==
    ASSUME SoleProcessor
    PROVE  IInv /\ SoleInv /\ PromiseInv /\ [Next]_vars => [Promise!Next]_(Promise!vars)
<1>. SUFFICES ASSUME IInv, SoleInv, PromiseInv, [Next]_vars
              PROVE  [Promise!Next]_(Promise!vars)
  OBVIOUS
<1>0. TypeOK
  BY DEF IInv
<1>. DEFINE Same == \A e \in Events : AnswerTo(e)' = AnswerTo(e)
<1>1. ASSUME Same, current' = current, finished' = finished
      PROVE  UNCHANGED Promise!vars
  BY <1>1 DEF Promise!vars
<1>2. ASSUME status' = status, current' = current, finished' = finished
      PROVE  UNCHANGED Promise!vars
  BY <1>1, <1>2 DEF AnswerTo
<1>3. ASSUME NEW e \in Events, Enqueue(e) PROVE Promise!Accept(e)
  BY <1>0, <1>3 DEF Enqueue, InsertRow, snipeVars, Promise!Accept, AnswerTo, Waiting, TypeOK,
                    QueueTypeOK
<1>4. ASSUME NEW p \in Processors, ClaimUpdate(p) PROVE UNCHANGED Promise!vars
  <2>1. Same
    BY <1>0, <1>4, InHand DEF ClaimUpdate, LeaseRow, AnswerTo, Waiting, Statuses, Terminal,
                              TypeOK, QueueTypeOK
  <2>. QED BY <1>1, <1>4, <2>1 DEF ClaimUpdate, snipeVars
<1>5. ASSUME NEW p \in Processors, Apply(p)
      PROVE  Promise!Send(item[p]) \/ UNCHANGED Promise!vars
  <2>1. item[p] \in Events /\ status[item[p]] = "processing" /\ ~ IsStale(item[p])
    BY <1>0, <1>5, InHand
    DEF Apply, Holding, SoleInv, CarriedIsNew, Carrying, PromiseInv, VerdictIsNext
  <2>2. ~ Promise!Superseded(item[p])
    BY <1>0, <2>1, StaleIsSuperseded
  <2>3. status' = status /\ finished' = finished
    BY <1>5 DEF Apply, queueVars
  <2>4. CASE current' = current
    BY <1>2, <2>3, <2>4
  <2>5. CASE current' = [current EXCEPT ![ComputerOf[item[p]]] = item[p]]
    BY <2>1, <2>2, <2>3, <2>5 DEF Promise!Send, AnswerTo, Waiting
  <2>. QED BY <1>5, <2>4, <2>5 DEF Apply
<1>6. ASSUME NEW p \in Processors, Finish(p)
      PROVE  \/ Promise!Process(item[p]) \/ Promise!Dismiss(item[p]) \/ Promise!GiveUp(item[p])
  <2>. DEFINE e == item[p]
              v == verdict[p]
  <2>1. e \in Events /\ status[e] = "processing" /\ v \in Terminal /\ v \in Verdicts
    BY <1>0, <1>6, InHand DEF Finish, Holding, PromiseInv, VerdictIsNext, TypeOK, Terminal
  <2>2. \A f \in Events : AnswerTo(f)' = IF f = e THEN v ELSE AnswerTo(f)
    BY <1>0, <1>6, <2>1 DEF Finish, SetStatus, AnswerTo, Waiting, Terminal, TypeOK, QueueTypeOK
  <2>3. AnswerTo(e) = "open" /\ current' = current /\ finished' = finished
    BY <1>6, <2>1 DEF Finish, snipeVars, AnswerTo
  <2>4. Promise!Answer(e, v)
    BY <2>1, <2>2, <2>3 DEF Promise!Answer
  <2>5. CASE v = "processed"
    BY <1>6, <2>3, <2>4, <2>5 DEF Promise!Process, SoleInv, AppliedIsCurrent
  <2>6. CASE v = "stale"
    <3>1. Promise!Superseded(e)
      BY <1>0, <2>1, <2>6, StaleIsSuperseded DEF PromiseInv, VerdictIsNext
    <3>. QED BY <2>3, <2>4, <2>6, <3>1 DEF Promise!Dismiss
  <2>7. CASE v = "rejected"
    BY <2>3, <2>4, <2>7 DEF Promise!GiveUp
  <2>. QED BY <2>1, <2>5, <2>6, <2>7 DEF Verdicts, Terminal
<1>7. ASSUME NEW p \in Processors, MoveWatermark(p) PROVE Promise!Settle(item[p])
  <2>1. item[p] \in Events /\ status[item[p]] = "processed"
    BY <1>0, <1>7, InHand DEF MoveWatermark, PromiseInv, VerdictIsNext
  <2>2. current[ComputerOf[item[p]]] = item[p]
    BY <1>7 DEF MoveWatermark, SoleInv, AppliedIsCurrent
  <2>3. status' = status /\ current' = current /\ finished' = finished \cup {item[p]}
    BY <1>7 DEF MoveWatermark, SetWatermark, rowVars, snipeVars
  <2>. QED BY <2>1, <2>2, <2>3 DEF Promise!Settle, AnswerTo, Waiting
<1>8. ASSUME NEW p \in Processors, Retry(p)
      PROVE  Promise!GiveUp(item[p]) \/ UNCHANGED Promise!vars
  <2>. DEFINE e == item[p]
  <2>1. e \in Events /\ status[e] = "processing"
    BY <1>0, <1>8, InHand DEF Retry, Holding, PromiseInv, VerdictIsNext
  <2>2. /\ status' = [status EXCEPT ![e] = RetryStatus(tries[p])]
        /\ current' = current /\ finished' = finished
    BY <2>1, <1>8 DEF Retry, SetStatus, snipeVars
  <2>3. CASE RetryStatus(tries[p]) = "retry"
    <3>1. Same
      BY <1>0, <2>1, <2>2, <2>3 DEF AnswerTo, Waiting, TypeOK, QueueTypeOK
    <3>. QED BY <1>1, <2>2, <3>1
  <2>4. CASE RetryStatus(tries[p]) = "dead_letter"
    <3>1. \A f \in Events : AnswerTo(f)' = IF f = e THEN "dead_letter" ELSE AnswerTo(f)
      BY <1>0, <2>1, <2>2, <2>4 DEF AnswerTo, Waiting, TypeOK, QueueTypeOK
    <3>. QED BY <2>1, <2>2, <3>1 DEF Promise!GiveUp, Promise!Answer, AnswerTo
  <2>. QED BY <2>3, <2>4 DEF RetryStatus
<1>9. ASSUME Purge PROVE Promise!Forget(Expired)
  BY <1>0, <1>9 DEF Purge, PurgeRows, snipeVars, Expired, Purgeable, Promise!Forget, Promise!Final,
                    AnswerTo, Waiting, TypeOK, QueueTypeOK
<1>10. ASSUME NEW p \in Processors,
              ClaimSelect(p) \/ ClaimMissed(p) \/ ClaimRead(p) \/ CheckStale(p) \/ Crash(p)
       PROVE  UNCHANGED Promise!vars
  BY <1>2, <1>10 DEF ClaimSelect, ClaimMissed, ClaimRead, CheckStale, Crash, queueVars, snipeVars
<1>11. ASSUME NEW e \in Events, TimePasses(e) PROVE UNCHANGED Promise!vars
  BY <1>2, <1>11 DEF TimePasses, DeadlinePasses, snipeVars
<1>12. ASSUME UNCHANGED vars PROVE UNCHANGED Promise!vars
  BY <1>2, <1>12 DEF vars
<1>13. \A p \in Processors : pc[p] # "idle" => item[p] \in Events
  BY <1>0, InHand
<1>14. ASSUME NEW p \in Processors, Step(p) PROVE [Promise!Next]_(Promise!vars)
  <2>1. item[p] \in Events
    BY <1>13, <1>14 DEF Step, ClaimUpdate, ClaimMissed, ClaimRead, CheckStale, Apply, Finish,
                        MoveWatermark, Retry
  <2>. QED BY <1>4, <1>5, <1>6, <1>7, <1>8, <1>10, <1>14, <2>1 DEF Step, Promise!Next
<1>15. Expired \in SUBSET Events
  BY DEF Expired
<1>. QED BY <1>3, <1>9, <1>10, <1>11, <1>12, <1>14, <1>15 DEF Next, Promise!Next

\* With a sole processor, crashing or not, the queue, its leases and its watermarks
\* implement module Gateway: newer and newer inventory is shown, in atomic steps.
THEOREM PromiseKept ==
    ASSUME SoleProcessor
    PROVE  Spec => KeepsPromise
<1>1. IInv /\ IInv' /\ SoleInv /\ PromiseInv /\ [Next]_vars => PromiseInv'
  BY PromiseInvStep
<1>2. IInv /\ SoleInv /\ PromiseInv /\ [Next]_vars => [Promise!Next]_(Promise!vars)
  BY StepMaps
<1>. QED BY Invariance, SoleInvariance, PromiseInvInit, InitMaps, <1>1, <1>2, PTL
     DEF Spec, KeepsPromise, Promise!Spec

=============================================================================
