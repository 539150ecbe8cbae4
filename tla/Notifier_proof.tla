--------------------------- MODULE Notifier_proof ---------------------------
(***************************************************************************)
(* What the outgoing mail keeps, for any number of processes, keys and     *)
(* contents, whatever the jobs are and whatever goes wrong.                *)
(***************************************************************************)
EXTENDS Notifier, TLAPS

-----------------------------------------------------------------------------
(* The inductive invariant.                                                *)

\* A process that has looked at the row of its key and is not done with it.
Works(p) == pc[p] \notin {"idle", "select", "suppress"}
Delivers(p) == Is(p, "send", Reports) \/ pc[p] \in {"sent", "failed"}

Kinds ==
    \A p \in Processes :
        /\ pc[p] \in {"reserve", "sent", "failed"} => task[p] \in Reports
        /\ pc[p] = "suppress" => task[p] \in Incidents
        /\ pc[p] = "record" => task[p] \in Incidents \cup Recoveries
        /\ p \in late =>
              pc[p] \in {"send", "record"} /\ task[p] \in Incidents \cup Recoveries

\* What unsure is kept for: on the other keys one process works at a time.
OneWorks ==
    \A p, q \in Processes :
        Works(p) /\ Works(q) /\ Key(p) = Key(q) /\ Key(p) \notin unsure => p = q

\* The row a report is delivered under is the one its process wrote.
InHand ==
    \A p \in Processes : Delivers(p) /\ Key(p) \notin unsure =>
        LET row == report_delivery[Key(p)]
        IN  row # NoRow /\ row.hash = task[p].content /\ row.status = "reserved"

\* A row outlives its delivery with the content that was mailed last.
Settled ==
    \A k \in ReportKeys \ (unsure \cup forgotten) :
        \/ last[k] = NoContent
        \/ \E p \in Processes : Delivers(p) /\ Key(p) = k
        \/ LET row == report_delivery[k]
           IN  row # NoRow /\ row.hash = last[k] /\ row.status = "sent"

Delivered ==
    \A p \in Processes : pc[p] = "sent" =>
        /\ task[p].content \in mailed[Key(p)]
        /\ last[Key(p)] = task[p].content \/ Key(p) \in unsure

\* A report that is about to be reserved or mailed is not the one mailed last.
NewContent ==
    \A p \in Processes :
        /\ pc[p] = "reserve" \/ Is(p, "send", Reports)
        /\ last[Key(p)] = task[p].content
        => Key(p) \in unsure \cup forgotten

\* A key mailed a moment ago is throttled, or is about to be by the process that mailed it.
FreshIsThrottled ==
    \A k \in fresh \ unsure :
        \/ IsThrottled(k)
        \/ \E p \in Processes : Is(p, "record", Incidents) /\ Key(p) = k /\ p \notin late

\* An incident about to be mailed is not fresh, and neither is one whose `current` is old.
NotFresh ==
    \A p \in Processes :
        Is(p, "send", Incidents) \/ (p \in late /\ task[p] \in Incidents)
            => Key(p) \notin fresh \/ Key(p) \in unsure

\* A row that does not say recovered is of a failure that was mailed, and no recovery
\* since, but for the one that is about to be recorded.
OpenIsTold ==
    \A k \in IncidentKeys \ unsure :
        \/ IsOver(k) \/ alarm[k] = "incident"
        \/ \E p \in Processes : Is(p, "record", Recoveries) /\ Key(p) = k

Told ==
    \A p \in Processes :
        pc[p] = "record" => alarm[Key(p)] = task[p].op \/ Key(p) \in unsure

IInv ==
    /\ TypeOK /\ Kinds /\ OneWorks
    /\ SentIsMailed /\ ReservationIsHeld /\ InHand /\ Settled /\ Delivered /\ NewContent
    /\ OwedIsMailed
    /\ FreshIsThrottled /\ NotFresh /\ OpenIsTold /\ Told /\ RecoveryFollowsIncident

-----------------------------------------------------------------------------
(* What a step does to the hand of its process.                            *)

LEMMA KindsDiffer ==
    /\ \A t \in Reports : t.key \in ReportKeys /\ t.content \in Contents /\ t.op = "report"
    /\ \A t \in Incidents : t.key \in IncidentKeys /\ t.op = "incident"
    /\ \A t \in Recoveries : t.key \in IncidentKeys /\ t.op = "recovered"
    /\ \A k \in ReportKeys : k \notin IncidentKeys
    /\ NoTask \notin Reports /\ NoTask \notin Incidents /\ NoTask \notin Recoveries
BY NotifierAssumption DEF Reports, Incidents, Recoveries, Tasks

Others(p) ==
    \A q \in Processes \ {p} : /\ pc'[q] = pc[q] /\ task'[q] = task[q] /\ rest'[q] = rest[q]
                               /\ q \in late' <=> q \in late

\* The call goes on.
Moves(p, l) ==
    /\ pc'[p] = l /\ task'[p] = task[p] /\ rest'[p] = rest[p]
    /\ late' = late /\ owed' = owed

\* It returns, ends the job, or is followed by the mail of a failure.
Returns(p) ==
    /\ p \notin late' /\ owed' = owed
    /\ \/ /\ rest[p] = <<>> /\ pc'[p] = "idle" /\ task'[p] = NoTask /\ rest'[p] = <<>>
       \/ /\ rest[p] # <<>> /\ pc'[p] = "select"
          /\ task'[p] = Head(rest[p]) /\ rest'[p] = Tail(rest[p])
Raises(p) ==
    /\ p \notin late' /\ owed' = owed \ Follows(p)
    /\ pc'[p] = "idle" /\ task'[p] = NoTask /\ rest'[p] = <<>>
Turns(p) ==
    /\ p \notin late' /\ owed' = owed /\ pc'[p] = "select" /\ rest'[p] = rest[p]
    /\ task[p] \in Recoveries
    /\ task'[p] = [op |-> "incident", key |-> Key(p), content |-> "failure"]
Leaves(p) == Returns(p) \/ Raises(p) \/ Turns(p)

LEMMA HandMoves ==
    ASSUME TypeOK, NEW p \in Processes
    PROVE  /\ \A l : GoTo(p, l) /\ UNCHANGED job => Others(p) /\ Moves(p, l)
           /\ Return(p) => Others(p) /\ Returns(p)
           /\ Raise(p) => Others(p) /\ Raises(p)
           /\ \A x : Fail(p, x) => Others(p) /\ (Raises(p) \/ Turns(p))
<1>1. \A l : GoTo(p, l) /\ UNCHANGED job => Others(p) /\ Moves(p, l)
  BY DEF TypeOK, GoTo, job, Others, Moves
<1>2. Return(p) => Others(p) /\ Returns(p)
  BY DEF TypeOK, GoTo, Return, Others, Returns
<1>3. Raise(p) => Others(p) /\ Raises(p)
  BY DEF TypeOK, GoTo, Raise, Others, Raises
<1>4. \A x : Fail(p, x) => Others(p) /\ (Raises(p) \/ Turns(p))
  BY <1>3 DEF TypeOK, GoTo, Fail, Others, Turns
<1>. QED BY <1>1, <1>2, <1>3, <1>4

\* What is noted when a process starts to work.
Notes(p) ==
    /\ unsure \subseteq unsure' /\ unsure' \subseteq unsure \cup {Key(p)}
    /\ \A q \in Processes \ {p} : Works(q) /\ Key(q) = Key(p) => Key(p) \in unsure'

LEMMA NotesOverlap == ASSUME NEW p, NoteOverlap(p) PROVE Notes(p)
BY DEF NoteOverlap, Overlaps, Notes, Works

Quiet == UNCHANGED <<tables, outside, forgotten>>

LEMMA BeginDoes ==
    ASSUME TypeOK, NEW p \in Processes, NEW calls \in duties[p], Begin(p, calls)
    PROVE  /\ Quiet /\ UNCHANGED <<unsure, late, faults>> /\ Others(p)
           /\ pc[p] = "idle" /\ pc'[p] = "select"
           /\ task'[p] = Head(calls) /\ rest'[p] = Tail(calls)
           /\ owed' = owed \cup ({calls[i].key : i \in 2..Len(calls)} \cap ReportKeys)
BY DEF TypeOK, Begin, Quiet, GoTo, Others

LEMMA SelectReportDoes ==
    ASSUME TypeOK, NEW p \in Processes, SelectReport(p)
    PROVE  /\ Quiet /\ UNCHANGED faults /\ Others(p)
           /\ pc[p] = "select" /\ task[p] \in Reports
           /\ \/ IsReserved(Key(p), task[p].content) /\ Returns(p) /\ unsure' = unsure
              \/ ~ IsReserved(Key(p), task[p].content) /\ Moves(p, "reserve") /\ Notes(p)
BY HandMoves, NotesOverlap DEF SelectReport, Is, Quiet

LEMMA ReserveDoes ==
    ASSUME TypeOK, NEW p \in Processes, Reserve(p)
    PROVE  /\ UNCHANGED <<notification_state, outside, forgotten, unsure, faults>>
           /\ Others(p) /\ pc[p] = "reserve" /\ Moves(p, "send")
           /\ report_delivery' = [report_delivery EXCEPT ![Key(p)] =
                                    [hash |-> task[p].content, status |-> "reserved",
                                     lapsed |-> FALSE]]
BY HandMoves DEF Reserve

LEMMA SendReportDoes ==
    ASSUME TypeOK, NEW p \in Processes, SendReport(p)
    PROVE  /\ UNCHANGED <<tables, duties, alarm, fresh, forgotten>>
           /\ Others(p) /\ pc[p] = "send" /\ task[p] \in Reports
           /\ \/ DeliverReport(p) /\ Moves(p, "sent") /\ UNCHANGED <<unsure, faults>>
              \/ /\ UNCHANGED <<mailed, last, unsure>> /\ Moves(p, "failed")
                 /\ Fault("smtp_down")
              \/ /\ DeliverReport(p) /\ Moves(p, "failed") /\ unsure' = unsure \cup {Key(p)}
                 /\ Fault("smtp_lost")
BY HandMoves DEF SendReport, Is, outside, DeliverReport

LEMMA FinishSentDoes ==
    ASSUME TypeOK, NEW p \in Processes, FinishSent(p)
    PROVE  /\ UNCHANGED <<notification_state, outside, forgotten, unsure, faults>>
           /\ Others(p) /\ pc[p] = "sent" /\ Returns(p)
           /\ report_delivery' = IF Matches(p)
                THEN [report_delivery EXCEPT ![Key(p)].status = "sent"] ELSE report_delivery
BY HandMoves DEF FinishSent

LEMMA FinishFailedDoes ==
    ASSUME TypeOK, NEW p \in Processes, FinishFailed(p)
    PROVE  /\ UNCHANGED <<notification_state, outside, unsure, faults>>
           /\ Others(p) /\ pc[p] = "failed" /\ Raises(p)
           /\ IF Matches(p) /\ report_delivery[Key(p)].status = "reserved"
                THEN /\ report_delivery' = [report_delivery EXCEPT ![Key(p)] = NoRow]
                     /\ forgotten' = forgotten \cup {Key(p)}
                ELSE UNCHANGED <<report_delivery, forgotten>>
BY HandMoves DEF FinishFailed

LEMMA SelectIncidentDoes ==
    ASSUME TypeOK, NEW p \in Processes, SelectIncident(p)
    PROVE  /\ Quiet /\ UNCHANGED faults /\ Others(p)
           /\ pc[p] = "select" /\ task[p] \in Incidents
           /\ \/ Moves(p, "suppress") /\ unsure' = unsure
              \/ ~ IsThrottled(Key(p)) /\ Moves(p, "send") /\ Notes(p)
BY HandMoves, NotesOverlap DEF SelectIncident, Is, Quiet

LEMMA SuppressDoes ==
    ASSUME TypeOK, NEW p \in Processes, Suppress(p)
    PROVE  Quiet /\ UNCHANGED <<unsure, faults>> /\ Others(p) /\ pc[p] = "suppress" /\ Returns(p)
BY HandMoves DEF Suppress, Quiet

LEMMA SelectRecoveredDoes ==
    ASSUME TypeOK, NEW p \in Processes, SelectRecovered(p)
    PROVE  /\ Quiet /\ UNCHANGED faults /\ Others(p)
           /\ pc[p] = "select" /\ task[p] \in Recoveries
           /\ \/ Returns(p) /\ unsure' = unsure
              \/ ~ IsOver(Key(p)) /\ Moves(p, "send") /\ Notes(p)
BY HandMoves, NotesOverlap DEF SelectRecovered, Is, Quiet

LEMMA SendAlarmDoes ==
    ASSUME TypeOK, NEW p \in Processes, SendAlarm(p)
    PROVE  /\ UNCHANGED <<tables, duties, mailed, last, forgotten>>
           /\ Others(p) /\ pc[p] = "send" /\ task[p] \in Incidents \cup Recoveries
           /\ \/ DeliverAlarm(p) /\ Moves(p, "record") /\ UNCHANGED <<unsure, faults>>
              \/ /\ UNCHANGED <<alarm, fresh, unsure>> /\ (Raises(p) \/ Turns(p))
                 /\ Fault("smtp_down")
              \/ /\ DeliverAlarm(p) /\ (Raises(p) \/ Turns(p)) /\ unsure' = unsure \cup {Key(p)}
                 /\ Fault("smtp_lost")
<1>1. \A l : GoTo(p, l) /\ UNCHANGED job => Others(p) /\ Moves(p, l)
  BY HandMoves
<1>2. Fail(p, "smtp") => Others(p) /\ (Raises(p) \/ Turns(p))
  BY HandMoves
<1>. QED BY <1>1, <1>2 DEF SendAlarm, Is, outside, DeliverAlarm

LEMMA RecordDoes ==
    ASSUME TypeOK, NEW p \in Processes, RecordIncident(p) \/ RecordRecovered(p)
    PROVE  /\ UNCHANGED <<report_delivery, outside, forgotten, unsure, faults>>
           /\ Others(p) /\ pc[p] = "record" /\ Returns(p)
           /\ \/ /\ task[p] \in Incidents
                 /\ notification_state' = [notification_state EXCEPT ![Key(p)] =
                                             [recent |-> p \notin late, recovered |-> FALSE]]
              \/ /\ task[p] \in Recoveries
                 /\ notification_state' = IF notification_state[Key(p)] = NoRow
                      THEN notification_state
                      ELSE [notification_state EXCEPT ![Key(p)].recovered = TRUE]
BY HandMoves DEF RecordIncident, RecordRecovered, Is

\* A process that dies, or whose write is refused.
LEMMA BreaksDoes ==
    ASSUME TypeOK, NEW p \in Processes, WriteFails(p) \/ Crash(p)
    PROVE  /\ Quiet /\ Others(p) /\ unsure' = unsure \cup {Key(p)}
           /\ pc[p] # "idle" /\ (Raises(p) \/ Turns(p)) /\ \E kind : Fault(kind)
BY HandMoves DEF WriteFails, Crash, Quiet

-----------------------------------------------------------------------------
(* Types.                                                                  *)

Locations == {"idle", "select", "reserve", "send", "sent", "failed", "suppress", "record"}

HandTypes ==
    /\ pc \in [Processes -> Locations]
    /\ task \in [Processes -> Tasks \cup {NoTask}]
    /\ rest \in [Processes -> Seq(Tasks)]
    /\ \A p \in Processes : task[p] = NoTask <=> pc[p] = "idle"
    /\ late \subseteq Processes /\ owed \subseteq ReportKeys

LEMMA SplitCalls ==
    ASSUME NEW S, NEW s \in Seq(S), s # <<>>
    PROVE  /\ Head(s) \in S /\ Tail(s) \in Seq(S)
           /\ \A i \in DOMAIN s : s[i] = Head(s) \/ \E j \in DOMAIN Tail(s) : s[i] = Tail(s)[j]
<1>1. Head(s) \in S /\ Tail(s) \in Seq(S)
  OBVIOUS
<1>2. ASSUME NEW i \in DOMAIN s, i # 1
      PROVE  i - 1 \in DOMAIN Tail(s) /\ s[i] = Tail(s)[i - 1]
  BY <1>2
<1>3. s[1] = Head(s)
  OBVIOUS
<1>. QED BY <1>1, <1>2, <1>3

LEMMA HandTyped ==
    ASSUME TypeOK, NEW p \in Processes, pc[p] # "idle"
    PROVE  /\ \A l \in Locations \ {"idle"} : GoTo(p, l) /\ UNCHANGED job => HandTypes'
           /\ Return(p) => HandTypes'
           /\ Raise(p) => HandTypes'
           /\ \A x : Fail(p, x) => HandTypes'
<1>. USE NotifierAssumption DEF HandTypes, TypeOK, GoTo, Locations
<1>1. \A l \in Locations \ {"idle"} : GoTo(p, l) /\ UNCHANGED job => HandTypes'
  BY DEF job
<1>2. ASSUME Return(p) PROVE HandTypes'
  <2>1. CASE rest[p] = <<>>
    BY <1>2, <2>1 DEF Return
  <2>2. CASE rest[p] # <<>>
    <3>1. Head(rest[p]) \in Tasks /\ Tail(rest[p]) \in Seq(Tasks)
      BY <2>2, SplitCalls
    <3>2. PICK h \in Tasks, t \in Seq(Tasks) :
            /\ task' = [task EXCEPT ![p] = h] /\ rest' = [rest EXCEPT ![p] = t]
            /\ pc' = [pc EXCEPT ![p] = "select"] /\ late' = late \ {p} /\ owed' = owed
      BY <1>2, <2>2, <3>1 DEF Return
    <3>3. h # NoTask
      OBVIOUS
    <3>. QED BY <3>2, <3>3
  <2>. QED BY <2>1, <2>2
<1>3. Raise(p) => HandTypes'
  BY DEF Raise
<1>4. ASSUME NEW x, Fail(p, x), task[p] \in Recoveries,
             task' = [task EXCEPT ![p] = [op |-> "incident", key |-> Key(p),
                                          content |-> "failure"]],
             GoTo(p, "select"), late' = late \ {p}, UNCHANGED <<rest, owed>>
      PROVE  HandTypes'
  <2>1. [op |-> "incident", key |-> Key(p), content |-> "failure"] \in Tasks
    BY <1>4 DEF Key, Recoveries, Incidents, Tasks
  <2>. QED BY <1>4, <2>1
<1>. QED BY <1>1, <1>2, <1>3, <1>4 DEF Fail

LEMMA BeginTyped ==
    ASSUME TypeOK, NEW p \in Processes, NEW calls \in duties[p], Begin(p, calls)
    PROVE  /\ HandTypes' /\ calls \in Seq(Tasks) /\ calls # <<>>
<1>1. calls \in Seq(Tasks) /\ calls # <<>>
  <2>1. duties \in [Processes -> SUBSET (Seq(Tasks) \ {<<>>})]
    BY NotifierAssumption DEF TypeOK
  <2>. QED BY <2>1
<1>2. Head(calls) \in Tasks /\ Tail(calls) \in Seq(Tasks)
  BY <1>1, SplitCalls
<1>. QED BY <1>1, <1>2, NotifierAssumption DEF HandTypes, TypeOK, GoTo, Begin, Locations

LEMMA HandsTyped == ASSUME TypeOK, [Next]_vars PROVE HandTypes'
<1>1. CASE UNCHANGED <<pc, job>>
  BY <1>1 DEF TypeOK, HandTypes, Locations, job
<1>2. ASSUME NEW p \in Processes, Step(p) PROVE HandTypes'
  <2>1. pc[p] # "idle" /\ \/ \E l \in Locations \ {"idle"} : GoTo(p, l) /\ UNCHANGED job
                          \/ Return(p) \/ Raise(p) \/ \E x : Fail(p, x)
    <3>1. CASE SelectReport(p) \/ SelectIncident(p) \/ SelectRecovered(p) \/ Suppress(p)
      BY <3>1 DEF SelectReport, SelectIncident, SelectRecovered, Suppress, Is, Locations
    <3>2. CASE Reserve(p) \/ SendReport(p) \/ FinishSent(p) \/ FinishFailed(p)
      BY <3>2 DEF Reserve, SendReport, FinishSent, FinishFailed, Is, Locations
    <3>3. CASE SendAlarm(p) \/ RecordIncident(p) \/ RecordRecovered(p)
      BY <3>3 DEF SendAlarm, RecordIncident, RecordRecovered, Is, Locations
    <3>. QED BY <1>2, <3>1, <3>2, <3>3 DEF Step
  <2>. QED BY <2>1, HandTyped
<1>3. ASSUME NEW p \in Processes, WriteFails(p) \/ Crash(p) PROVE HandTypes'
  <2>1. pc[p] # "idle" /\ (Raise(p) \/ \E x : Fail(p, x))
    BY <1>3 DEF WriteFails, Crash
  <2>. QED BY <2>1, HandTyped
<1>4. ASSUME NEW k, Lapse(k) PROVE HandTypes'
  BY <1>1, <1>4 DEF Lapse
<1>5. ASSUME NEW k, Cool(k) PROVE HandTypes'
  BY <1>5 DEF Cool, TypeOK, HandTypes, Locations
<1>6. ASSUME NEW p \in Processes, NEW calls \in duties[p], Begin(p, calls) PROVE HandTypes'
  BY <1>6, BeginTyped
<1>. QED BY <1>1, <1>2, <1>3, <1>4, <1>5, <1>6 DEF Next, vars, job

\* What a process works on is of the kind of its step.
LEMMA TaskTyped ==
    ASSUME TypeOK, Kinds, NEW p \in Processes, pc[p] # "idle"
    PROVE  /\ task[p] \in Tasks /\ Key(p) \in ReportKeys \cup IncidentKeys
           /\ Delivers(p) \/ pc[p] = "reserve" \/ task[p] \in Reports =>
                 task[p] \in Reports /\ Key(p) \in ReportKeys /\ task[p].content \in Contents
           /\ task[p] \in Incidents => Key(p) \in IncidentKeys /\ task[p].op = "incident"
           /\ task[p] \in Recoveries => Key(p) \in IncidentKeys /\ task[p].op = "recovered"
<1>1. task[p] \in Tasks
  BY DEF TypeOK
<1>2. Delivers(p) \/ pc[p] = "reserve" => task[p] \in Reports
  BY DEF Kinds, Delivers, Is
<1>. QED BY <1>1, <1>2, KindsDiffer DEF Key, Tasks

LEMMA KindsKept == ASSUME TypeOK, Kinds, [Next]_vars PROVE Kinds'
<1>. USE DEF Kinds
<1>0. ASSUME NEW p \in Processes, Others(p), pc'[p] \in {"idle", "select"}, p \notin late'
      PROVE  Kinds'
  BY <1>0 DEF Others
<1>1. ASSUME NEW p \in Processes, Others(p), Moves(p, "reserve"), task[p] \in Reports,
             pc[p] = "select"
      PROVE  Kinds'
  BY <1>1 DEF Others, Moves
<1>2. ASSUME NEW p \in Processes, Others(p), Moves(p, "send"), pc[p] \in {"select", "reserve"}
      PROVE  Kinds'
  BY <1>2 DEF Others, Moves
<1>3. ASSUME NEW p \in Processes, Others(p), Moves(p, "sent") \/ Moves(p, "failed"),
             task[p] \in Reports, p \notin late
      PROVE  Kinds'
  BY <1>3 DEF Others, Moves
<1>4. ASSUME NEW p \in Processes, Others(p), Moves(p, "suppress"), task[p] \in Incidents,
             pc[p] = "select"
      PROVE  Kinds'
  BY <1>4 DEF Others, Moves
<1>5. ASSUME NEW p \in Processes, Others(p), Moves(p, "record"),
             task[p] \in Incidents \cup Recoveries
      PROVE  Kinds'
  BY <1>5 DEF Others, Moves
<1>6. ASSUME NEW p \in Processes, Step(p) PROVE Kinds'
  <2>1. CASE SelectReport(p) \/ SelectIncident(p) \/ SelectRecovered(p) \/ Suppress(p)
    BY <1>0, <1>1, <1>2, <1>4, <2>1, SelectReportDoes, SelectIncidentDoes,
       SelectRecoveredDoes, SuppressDoes DEF Returns
  <2>2. CASE Reserve(p) \/ FinishSent(p) \/ FinishFailed(p)
    BY <1>0, <1>2, <2>2, ReserveDoes, FinishSentDoes, FinishFailedDoes DEF Returns, Raises
  <2>3. CASE SendReport(p)
    <3>1. task[p] \in Reports /\ p \notin late
      BY <2>3, SendReportDoes, KindsDiffer
    <3>. QED BY <1>3, <2>3, <3>1, SendReportDoes
  <2>4. CASE SendAlarm(p)
    BY <1>0, <1>5, <2>4, SendAlarmDoes DEF Raises, Turns
  <2>5. CASE RecordIncident(p) \/ RecordRecovered(p)
    BY <1>0, <2>5, RecordDoes DEF Returns
  <2>. QED BY <1>6, <2>1, <2>2, <2>3, <2>4, <2>5 DEF Step
<1>7. ASSUME NEW p \in Processes, WriteFails(p) \/ Crash(p) PROVE Kinds'
  BY <1>0, <1>7, BreaksDoes DEF Raises, Turns
<1>8. ASSUME NEW p \in Processes, NEW calls \in duties[p], Begin(p, calls) PROVE Kinds'
  <2>1. p \notin late
    BY <1>8, BeginDoes
  <2>. QED BY <1>0, <1>8, <2>1, BeginDoes
<1>9. ASSUME NEW k \in IncidentKeys, Cool(k) PROVE Kinds'
  <2>1. UNCHANGED <<pc, task>> /\
        late' = late \cup {p \in Processes : pc[p] \in {"send", "record"} /\ Key(p) = k}
    BY <1>9 DEF Cool
  <2>2. ASSUME NEW p \in Processes, pc[p] \in {"send", "record"}, Key(p) = k
        PROVE  task[p] \in Incidents \cup Recoveries
    BY <2>2, TaskTyped, KindsDiffer DEF Tasks
  <2>. QED BY <2>1, <2>2
<1>10. CASE UNCHANGED <<pc, job>>
  BY <1>10 DEF job
<1>. QED BY <1>6, <1>7, <1>8, <1>9, <1>10 DEF Next, vars, Lapse

LEMMA RowsTyped ==
    ASSUME NEW r \in DeliveryRows
    PROVE  /\ [r EXCEPT !.status = "sent"] \in DeliveryRows
           /\ [r EXCEPT !.status = "sent"].hash = r.hash
           /\ [r EXCEPT !.status = "sent"].status = "sent"
           /\ [r EXCEPT !.lapsed = TRUE] \in DeliveryRows
           /\ [r EXCEPT !.lapsed = TRUE].hash = r.hash
           /\ [r EXCEPT !.lapsed = TRUE].status = r.status
           /\ r # NoRow
BY NoDeliveryAssumption DEF DeliveryRows

LEMMA StatesTyped ==
    ASSUME NEW r \in StateRows
    PROVE  /\ [r EXCEPT !.recovered = TRUE] \in StateRows
           /\ [r EXCEPT !.recovered = TRUE].recent = r.recent
           /\ [r EXCEPT !.recovered = TRUE].recovered
           /\ [r EXCEPT !.recent = FALSE] \in StateRows
           /\ ~ [r EXCEPT !.recent = FALSE].recent
           /\ [r EXCEPT !.recent = FALSE].recovered = r.recovered
           /\ r # NoRow
BY NoDeliveryAssumption DEF StateRows

\* What a step does to the rows of the reports.
Rewrites(k, row) ==
    report_delivery' = [report_delivery EXCEPT ![k] = row]

LEMMA DeliveryStep ==
    ASSUME TypeOK, Kinds, [Next]_vars
    PROVE  \/ report_delivery' = report_delivery /\ forgotten' = forgotten
           \/ \E k \in ReportKeys, row \in DeliveryRows \cup {NoRow} :
                 Rewrites(k, row) /\ forgotten \subseteq forgotten'
                 /\ forgotten' \subseteq forgotten \cup {k}
<1>1. ASSUME NEW p \in Processes, Reserve(p)
      PROVE  \E k \in ReportKeys, row \in DeliveryRows : Rewrites(k, row) /\ forgotten' = forgotten
  <2>1. pc[p] = "reserve" /\ task[p].content \in Contents /\ Key(p) \in ReportKeys
    BY <1>1, ReserveDoes, TaskTyped
  <2>2. [hash |-> task[p].content, status |-> "reserved", lapsed |-> FALSE] \in DeliveryRows
    BY <2>1 DEF DeliveryRows
  <2>. QED BY <1>1, <2>1, <2>2, ReserveDoes DEF Rewrites
<1>2. ASSUME NEW p \in Processes, FinishSent(p)
      PROVE  \/ report_delivery' = report_delivery /\ forgotten' = forgotten
             \/ \E k \in ReportKeys, row \in DeliveryRows : Rewrites(k, row)
                                                           /\ forgotten' = forgotten
  <2>1. pc[p] = "sent" /\ Key(p) \in ReportKeys /\ forgotten' = forgotten
    BY <1>2, FinishSentDoes, TaskTyped DEF Delivers
  <2>2. CASE Matches(p)
    <3>1. report_delivery[Key(p)] \in DeliveryRows
      BY <2>1, <2>2 DEF Matches, TypeOK
    <3>2. PICK row \in DeliveryRows : row = [report_delivery[Key(p)] EXCEPT !.status = "sent"]
      BY <3>1, RowsTyped
    <3>3. report_delivery' = [report_delivery EXCEPT ![Key(p)] =
                                [report_delivery[Key(p)] EXCEPT !.status = "sent"]]
      BY <1>2, <2>2, FinishSentDoes
    <3>. QED BY <2>1, <3>2, <3>3 DEF Rewrites
  <2>. QED BY <1>2, <2>1, <2>2, FinishSentDoes
<1>3. ASSUME NEW p \in Processes, FinishFailed(p)
      PROVE  \/ report_delivery' = report_delivery /\ forgotten' = forgotten
             \/ \E k \in ReportKeys : Rewrites(k, NoRow) /\ forgotten' = forgotten \cup {k}
  <2>1. pc[p] = "failed" /\ Key(p) \in ReportKeys
    BY <1>3, FinishFailedDoes, TaskTyped DEF Delivers
  <2>. QED BY <1>3, <2>1, FinishFailedDoes DEF Rewrites
<1>4. ASSUME NEW k \in ReportKeys, Lapse(k)
      PROVE  \E row \in DeliveryRows : Rewrites(k, row) /\ forgotten' = forgotten
  <2>1. report_delivery[k] \in DeliveryRows
    BY <1>4 DEF Lapse, TypeOK
  <2>2. PICK row \in DeliveryRows : row = [report_delivery[k] EXCEPT !.lapsed = TRUE]
    BY <2>1, RowsTyped
  <2>3. report_delivery' = [report_delivery EXCEPT ![k] =
                              [report_delivery[k] EXCEPT !.lapsed = TRUE]]
    BY <1>4 DEF Lapse
  <2>. QED BY <1>4, <2>2, <2>3 DEF Rewrites, Lapse
<1>5. ASSUME NEW p \in Processes, Step(p),
             ~ (Reserve(p) \/ FinishSent(p) \/ FinishFailed(p))
      PROVE  UNCHANGED <<report_delivery, forgotten>>
  BY <1>5, SelectReportDoes, SendReportDoes, SelectIncidentDoes, SelectRecoveredDoes,
     SuppressDoes, SendAlarmDoes, RecordDoes DEF Step, Quiet, tables
<1>6. ASSUME NEW p \in Processes,
             WriteFails(p) \/ Crash(p) \/ \E calls \in duties[p] : Begin(p, calls)
      PROVE  UNCHANGED <<report_delivery, forgotten>>
  BY <1>6, BreaksDoes, BeginDoes DEF Quiet, tables
<1>7. ASSUME NEW k, Cool(k) PROVE UNCHANGED <<report_delivery, forgotten>>
  BY <1>7 DEF Cool
<1>8. CASE UNCHANGED vars
  BY <1>8 DEF vars, tables
<1>9. ASSUME NEW p \in Processes, Reserve(p) \/ FinishSent(p) \/ FinishFailed(p)
      PROVE  \/ report_delivery' = report_delivery /\ forgotten' = forgotten
             \/ \E k \in ReportKeys, row \in DeliveryRows \cup {NoRow} :
                   Rewrites(k, row) /\ forgotten \subseteq forgotten'
                   /\ forgotten' \subseteq forgotten \cup {k}
  BY <1>1, <1>2, <1>3, <1>9
<1>. QED BY <1>4, <1>5, <1>6, <1>7, <1>8, <1>9 DEF Next

\* And to those of the failures.
StateStep(k, row) == notification_state' = [notification_state EXCEPT ![k] = row]

LEMMA NotificationStep ==
    ASSUME TypeOK, Kinds, [Next]_vars
    PROVE  \/ notification_state' = notification_state
           \/ \E k \in IncidentKeys, row \in StateRows : StateStep(k, row)
<1>1. ASSUME NEW p \in Processes, RecordIncident(p) \/ RecordRecovered(p)
      PROVE  \/ notification_state' = notification_state
             \/ \E k \in IncidentKeys, row \in StateRows : StateStep(k, row)
  <2>1. pc[p] = "record" /\ Key(p) \in IncidentKeys
    BY <1>1, RecordDoes, TaskTyped DEF Kinds
  <2>2. \A b \in BOOLEAN : [recent |-> b, recovered |-> FALSE] \in StateRows
    BY DEF StateRows
  <2>3. CASE notification_state' = [notification_state EXCEPT ![Key(p)] =
                                      [recent |-> p \notin late, recovered |-> FALSE]]
    <3>1. (p \notin late) \in BOOLEAN
      OBVIOUS
    <3>2. PICK b \in BOOLEAN : b = (p \notin late)
      BY <3>1, Zenon
    <3>3. notification_state' = [notification_state EXCEPT ![Key(p)] =
                                   [recent |-> b, recovered |-> FALSE]]
      BY <2>3, <3>2
    <3>. QED BY <2>1, <2>2, <3>3 DEF StateStep
  <2>4. CASE /\ notification_state[Key(p)] # NoRow
             /\ notification_state' = [notification_state EXCEPT ![Key(p)] =
                                         [notification_state[Key(p)] EXCEPT !.recovered = TRUE]]
    <3>0. notification_state[Key(p)] \in StateRows
      BY <2>1, <2>4 DEF TypeOK
    <3>1. PICK row \in StateRows :
            row = [notification_state[Key(p)] EXCEPT !.recovered = TRUE]
      BY <3>0, StatesTyped
    <3>. QED BY <2>1, <2>4, <3>1 DEF StateStep
  <2>5. \/ notification_state' = notification_state
        \/ notification_state' = [notification_state EXCEPT ![Key(p)] =
                                    [recent |-> p \notin late, recovered |-> FALSE]]
        \/ /\ notification_state[Key(p)] # NoRow
           /\ notification_state' = [notification_state EXCEPT ![Key(p)] =
                                       [notification_state[Key(p)] EXCEPT !.recovered = TRUE]]
    BY <1>1, RecordDoes
  <2>. QED BY <2>3, <2>4, <2>5
<1>2. ASSUME NEW k \in IncidentKeys, Cool(k)
      PROVE  \/ notification_state' = notification_state
             \/ \E row \in StateRows : StateStep(k, row)
  <2>1. CASE IsThrottled(k)
    <3>0. notification_state[k] \in StateRows
      BY <2>1 DEF TypeOK, IsThrottled
    <3>1. PICK row \in StateRows : row = [notification_state[k] EXCEPT !.recent = FALSE]
      BY <3>0, StatesTyped
    <3>2. notification_state' = [notification_state EXCEPT ![k] =
                                   [notification_state[k] EXCEPT !.recent = FALSE]]
      BY <1>2, <2>1 DEF Cool
    <3>. QED BY <3>1, <3>2 DEF StateStep
  <2>. QED BY <1>2, <2>1 DEF Cool
<1>3. ASSUME NEW p \in Processes, Step(p), ~ (RecordIncident(p) \/ RecordRecovered(p))
      PROVE  UNCHANGED notification_state
  BY <1>3, SelectReportDoes, SendReportDoes, SelectIncidentDoes, SelectRecoveredDoes,
     SuppressDoes, SendAlarmDoes, ReserveDoes, FinishSentDoes, FinishFailedDoes
     DEF Step, Quiet, tables
<1>4. ASSUME NEW p \in Processes,
             WriteFails(p) \/ Crash(p) \/ \E calls \in duties[p] : Begin(p, calls)
      PROVE  UNCHANGED notification_state
  BY <1>4, BreaksDoes, BeginDoes DEF Quiet, tables
<1>5. ASSUME NEW k, Lapse(k) PROVE UNCHANGED notification_state
  BY <1>5 DEF Lapse
<1>6. CASE UNCHANGED vars
  BY <1>6 DEF vars, tables
<1>. QED BY <1>1, <1>2, <1>3, <1>4, <1>5, <1>6 DEF Next

\* What reaches the mailbox.
LEMMA MailStep ==
    ASSUME TypeOK, Kinds, [Next]_vars
    PROVE  /\ mailed' \in [ReportKeys -> SUBSET Contents]
           /\ \A k \in ReportKeys : mailed[k] \subseteq mailed'[k]
           /\ last' \in [ReportKeys -> Contents \cup {NoContent}]
           /\ alarm' \in [IncidentKeys -> {"none", "incident", "recovered"}]
           /\ fresh' \subseteq IncidentKeys
           /\ duties' = duties
<1>. DEFINE Goal == /\ mailed' \in [ReportKeys -> SUBSET Contents]
                    /\ \A k \in ReportKeys : mailed[k] \subseteq mailed'[k]
                    /\ last' \in [ReportKeys -> Contents \cup {NoContent}]
                    /\ alarm' \in [IncidentKeys -> {"none", "incident", "recovered"}]
                    /\ fresh' \subseteq IncidentKeys
                    /\ duties' = duties
<1>1. CASE UNCHANGED outside
  BY <1>1 DEF outside, TypeOK
<1>2. ASSUME NEW p \in Processes, SendReport(p) PROVE Goal
  <2>1. /\ task[p].content \in Contents /\ Key(p) \in ReportKeys
        /\ UNCHANGED <<duties, alarm, fresh>>
        /\ UNCHANGED <<mailed, last>> \/ DeliverReport(p)
    BY <1>2, SendReportDoes, TaskTyped
  <2>2. CASE UNCHANGED <<mailed, last>>
    BY <2>1, <2>2 DEF TypeOK
  <2>3. CASE DeliverReport(p)
    <3>1. mailed[Key(p)] \cup {task[p].content} \in SUBSET Contents
      BY <2>1 DEF TypeOK
    <3>2. /\ mailed' \in [ReportKeys -> SUBSET Contents]
          /\ \A k \in ReportKeys : mailed[k] \subseteq mailed'[k]
      BY <2>1, <2>3, <3>1 DEF DeliverReport, TypeOK
    <3>3. last' \in [ReportKeys -> Contents \cup {NoContent}]
      BY <2>1, <2>3 DEF DeliverReport, TypeOK
    <3>. QED BY <2>1, <3>2, <3>3 DEF TypeOK
  <2>. QED BY <2>1, <2>2, <2>3
<1>3. ASSUME NEW p \in Processes, SendAlarm(p) PROVE Goal
  <2>1. /\ task[p].op \in {"incident", "recovered"} /\ Key(p) \in IncidentKeys
        /\ UNCHANGED <<duties, mailed, last>>
        /\ UNCHANGED <<alarm, fresh>> \/ DeliverAlarm(p)
    BY <1>3, SendAlarmDoes, TaskTyped
  <2>2. UNCHANGED <<duties, mailed, last>> /\ \A k \in ReportKeys : mailed[k] \subseteq mailed'[k]
    BY <2>1
  <2>3. alarm' = alarm \/ alarm' = [alarm EXCEPT ![Key(p)] = task[p].op]
    BY <2>1 DEF DeliverAlarm
  <2>4. alarm' \in [IncidentKeys -> {"none", "incident", "recovered"}]
    BY <2>1, <2>3 DEF TypeOK
  <2>5. fresh' \subseteq IncidentKeys
    BY <2>1 DEF DeliverAlarm, TypeOK
  <2>. QED BY <2>2, <2>4, <2>5 DEF TypeOK
<1>4. ASSUME NEW p \in Processes, Step(p), ~ SendReport(p), ~ SendAlarm(p)
      PROVE  UNCHANGED outside
  BY <1>4, SelectReportDoes, SelectIncidentDoes, SelectRecoveredDoes, SuppressDoes,
     ReserveDoes, FinishSentDoes, FinishFailedDoes, RecordDoes DEF Step, Quiet
<1>5. ASSUME NEW p \in Processes,
             WriteFails(p) \/ Crash(p) \/ \E calls \in duties[p] : Begin(p, calls)
      PROVE  UNCHANGED outside
  BY <1>5, BreaksDoes, BeginDoes DEF Quiet
<1>6. ASSUME NEW k, Lapse(k) PROVE UNCHANGED outside
  BY <1>6 DEF Lapse
<1>7. ASSUME NEW k, Cool(k) PROVE Goal
  BY <1>7 DEF Cool, TypeOK
<1>8. CASE UNCHANGED vars
  BY <1>1, <1>8 DEF vars
<1>. QED BY <1>1, <1>2, <1>3, <1>4, <1>5, <1>6, <1>7, <1>8 DEF Next

LEMMA FaultTyped == ASSUME TypeOK, NEW kind, Fault(kind) PROVE faults' \in 0..MaxFaults
BY NotifierAssumption DEF Fault, TypeOK

LEMMA NotedStep ==
    ASSUME TypeOK, Kinds, [Next]_vars
    PROVE  /\ unsure \subseteq unsure' /\ unsure' \subseteq ReportKeys \cup IncidentKeys
           /\ faults' \in 0..MaxFaults
<1>. DEFINE Goal == /\ unsure \subseteq unsure' /\ unsure' \subseteq ReportKeys \cup IncidentKeys
                    /\ faults' \in 0..MaxFaults
<1>1. CASE UNCHANGED <<unsure, faults>>
  BY <1>1 DEF TypeOK
<1>2. ASSUME NEW p \in Processes, pc[p] # "idle", Notes(p), UNCHANGED faults PROVE Goal
  BY <1>2, TaskTyped DEF Notes, TypeOK
<1>3. ASSUME NEW p \in Processes, pc[p] # "idle", NEW kind, Fault(kind),
             unsure' = unsure \/ unsure' = unsure \cup {Key(p)}
      PROVE  Goal
  BY <1>3, TaskTyped, FaultTyped DEF TypeOK
<1>4. ASSUME NEW p \in Processes, Step(p) PROVE Goal
  <2>1. CASE SelectReport(p) \/ SelectIncident(p) \/ SelectRecovered(p)
    BY <1>1, <1>2, <2>1, SelectReportDoes, SelectIncidentDoes, SelectRecoveredDoes
  <2>2. CASE SendReport(p) \/ SendAlarm(p)
    BY <1>1, <1>3, <2>2, SendReportDoes, SendAlarmDoes
  <2>3. CASE Reserve(p) \/ FinishSent(p) \/ FinishFailed(p) \/ Suppress(p)
    BY <1>1, <2>3, ReserveDoes, FinishSentDoes, FinishFailedDoes, SuppressDoes
  <2>4. CASE RecordIncident(p) \/ RecordRecovered(p)
    BY <1>1, <2>4, RecordDoes
  <2>. QED BY <1>4, <2>1, <2>2, <2>3, <2>4 DEF Step
<1>5. ASSUME NEW p \in Processes, WriteFails(p) \/ Crash(p) PROVE Goal
  BY <1>3, <1>5, BreaksDoes
<1>6. ASSUME NEW p \in Processes, NEW calls \in duties[p], Begin(p, calls) PROVE Goal
  BY <1>1, <1>6, BeginDoes
<1>7. ASSUME NEW k \in ReportKeys, Lapse(k) PROVE Goal
  BY <1>7 DEF Lapse, TypeOK
<1>8. ASSUME NEW k, Cool(k) PROVE Goal
  BY <1>1, <1>8 DEF Cool
<1>9. CASE UNCHANGED vars
  BY <1>1, <1>9 DEF vars
<1>. QED BY <1>4, <1>5, <1>6, <1>7, <1>8, <1>9 DEF Next

LEMMA TypeKept == ASSUME TypeOK, Kinds, [Next]_vars PROVE TypeOK'
<1>1. /\ report_delivery' \in [ReportKeys -> DeliveryRows \cup {NoRow}]
      /\ forgotten' \subseteq ReportKeys
  BY DeliveryStep DEF TypeOK, Rewrites
<1>2. notification_state' \in [IncidentKeys -> StateRows \cup {NoRow}]
  BY NotificationStep DEF TypeOK, StateStep
<1>3. duties' \in Duties
  BY MailStep DEF TypeOK
<1>. QED BY <1>1, <1>2, <1>3, HandsTyped, MailStep, NotedStep DEF TypeOK, HandTypes, Locations

-----------------------------------------------------------------------------
(* One process works on a key, unless the key is noted.                    *)

LEMMA OneWorksKept == ASSUME TypeOK, Kinds, OneWorks, [Next]_vars PROVE OneWorks'
<1>. USE DEF OneWorks, Works, Key
<1>0. unsure \subseteq unsure'
  BY NotedStep
<1>1. ASSUME NEW p \in Processes, Others(p),
             pc'[p] \in {"idle", "select", "suppress"} \/ (Works(p) /\ task'[p] = task[p])
      PROVE  OneWorks'
  BY <1>0, <1>1 DEF Others
<1>2. ASSUME NEW p \in Processes, Others(p), Notes(p), task'[p] = task[p] PROVE OneWorks'
  BY <1>0, <1>2 DEF Others, Notes
<1>3. CASE UNCHANGED <<pc, task>>
  BY <1>0, <1>3
<1>4. ASSUME NEW p \in Processes, Step(p) PROVE OneWorks'
  <2>1. CASE SelectReport(p) \/ SelectIncident(p) \/ SelectRecovered(p) \/ Suppress(p)
    BY <1>1, <1>2, <2>1, SelectReportDoes, SelectIncidentDoes, SelectRecoveredDoes,
       SuppressDoes DEF Moves, Returns
  <2>2. CASE Reserve(p) \/ SendReport(p) \/ SendAlarm(p)
    BY <1>1, <2>2, ReserveDoes, SendReportDoes, SendAlarmDoes DEF Moves, Raises, Turns
  <2>3. CASE FinishSent(p) \/ FinishFailed(p) \/ RecordIncident(p) \/ RecordRecovered(p)
    BY <1>1, <2>3, FinishSentDoes, FinishFailedDoes, RecordDoes DEF Returns, Raises
  <2>. QED BY <1>4, <2>1, <2>2, <2>3 DEF Step
<1>5. ASSUME NEW p \in Processes,
             WriteFails(p) \/ Crash(p) \/ \E calls \in duties[p] : Begin(p, calls)
      PROVE  OneWorks'
  BY <1>1, <1>5, BreaksDoes, BeginDoes DEF Raises, Turns
<1>6. ASSUME NEW k, Lapse(k) \/ Cool(k) PROVE OneWorks'
  BY <1>3, <1>6 DEF Lapse, Cool, job
<1>. QED BY <1>3, <1>4, <1>5, <1>6 DEF Next, vars, job

-----------------------------------------------------------------------------
(* Reports: the row, the mailbox and the processes at a report agree.      *)

ReportInv ==
    SentIsMailed /\ ReservationIsHeld /\ InHand /\ Settled /\ Delivered /\ NewContent

InPhase(p) == pc[p] = "reserve" \/ Delivers(p)
reports == <<report_delivery, mailed, last, forgotten>>

\* The process is at no report afterwards, and was at none or its key is noted.
LEMMA AsideKeeps ==
    ASSUME TypeOK, ReportInv, unsure \subseteq unsure', UNCHANGED reports,
           NEW p \in Processes, Others(p), ~ InPhase(p)', InPhase(p) => Key(p) \in unsure'
    PROVE  ReportInv'
<1>. USE DEF ReportInv, InPhase, reports
<1>1. \A q \in Processes \ {p} :
         /\ pc'[q] = pc[q] /\ task'[q] = task[q] /\ Delivers(q)' = Delivers(q)
         /\ Key(q)' = Key(q) /\ Is(q, "send", Reports)' = Is(q, "send", Reports)
  BY DEF Others, Delivers, Is, Key
<1>2. SentIsMailed'
  BY DEF SentIsMailed
<1>3. ReservationIsHeld'
  BY <1>1 DEF ReservationIsHeld, Delivers
<1>4. InHand'
  BY <1>1 DEF InHand
<1>5. Settled'
  BY <1>1 DEF Settled
<1>6. Delivered'
  BY <1>1 DEF Delivered, Delivers
<1>7. NewContent'
  BY <1>1 DEF NewContent, Delivers
<1>. QED BY <1>2, <1>3, <1>4, <1>5, <1>6, <1>7

LEMMA RestKeeps ==
    ASSUME ReportInv, unsure \subseteq unsure', UNCHANGED reports, UNCHANGED <<pc, task>>
    PROVE  ReportInv'
<1>. USE DEF ReportInv, reports, Delivers, Is, Key
<1>1. SentIsMailed' /\ InHand'
  BY DEF SentIsMailed, InHand
<1>2. ReservationIsHeld'
  BY DEF ReservationIsHeld
<1>3. Settled'
  BY DEF Settled
<1>4. Delivered' /\ NewContent'
  BY DEF Delivered, NewContent
<1>. QED BY <1>1, <1>2, <1>3, <1>4

\* A report is looked up and found to be new.
LEMMA ChosenKeeps ==
    ASSUME TypeOK, Kinds, ReportInv, NEW p \in Processes, SelectReport(p), pc'[p] = "reserve",
           unsure \subseteq unsure'
    PROVE  ReportInv'
<1>. USE DEF ReportInv, InPhase, reports
<1>0. /\ Others(p) /\ UNCHANGED reports /\ task'[p] = task[p] /\ Notes(p)
      /\ ~ IsReserved(Key(p), task[p].content) /\ pc[p] = "select"
      /\ Key(p) \in ReportKeys /\ task[p].content \in Contents
  BY SelectReportDoes, TaskTyped DEF Quiet, tables, outside, Moves, Returns
<1>1. \A q \in Processes :
         /\ task'[q] = task[q] /\ Delivers(q)' = Delivers(q)
         /\ Key(q)' = Key(q) /\ Is(q, "send", Reports)' = Is(q, "send", Reports)
         /\ q # p => pc'[q] = pc[q]
  BY <1>0 DEF Others, Delivers, Is, Key
<1>2. SentIsMailed'
  BY <1>0 DEF SentIsMailed
<1>3. ReservationIsHeld'
  BY <1>0, <1>1 DEF ReservationIsHeld, Delivers
<1>4. InHand'
  BY <1>0, <1>1 DEF InHand
<1>5. Settled'
  BY <1>0, <1>1 DEF Settled
<1>6. Delivered'
  BY <1>0, <1>1 DEF Delivered
<1>7. NewContent'
  <2>1. ASSUME last[Key(p)] = task[p].content, Key(p) \notin unsure' \cup forgotten PROVE FALSE
    <3>1. last[Key(p)] # NoContent
      BY <1>0, <2>1, NotifierAssumption
    <3>2. ~ \E q \in Processes : Delivers(q) /\ Key(q) = Key(p)
      BY <1>0, <2>1 DEF Notes, Works, Delivers, Is
    <3>3. LET row == report_delivery[Key(p)]
          IN  row # NoRow /\ row.hash = task[p].content /\ row.status = "sent"
      BY <1>0, <2>1, <3>1, <3>2 DEF Settled
    <3>. QED BY <1>0, <3>3 DEF IsReserved
  <2>. QED BY <1>0, <1>1, <2>1 DEF NewContent
<1>. QED BY <1>2, <1>3, <1>4, <1>5, <1>6, <1>7

LEMMA ReservedKeeps ==
    ASSUME TypeOK, Kinds, OneWorks, ReportInv, NEW p \in Processes, Reserve(p)
    PROVE  ReportInv'
<1>. USE DEF ReportInv
<1>0. /\ Others(p) /\ UNCHANGED <<mailed, last, forgotten, unsure>> /\ pc[p] = "reserve"
      /\ pc'[p] = "send" /\ task'[p] = task[p] /\ task[p] \in Reports
      /\ Key(p) \in ReportKeys /\ task[p].content \in Contents
  BY ReserveDoes, TaskTyped DEF outside, Moves
<1>1. /\ report_delivery'[Key(p)] = [hash |-> task[p].content, status |-> "reserved",
                                      lapsed |-> FALSE]
      /\ report_delivery'[Key(p)] \in DeliveryRows
      /\ \A k \in ReportKeys : k # Key(p) => report_delivery'[k] = report_delivery[k]
  <2>1. [hash |-> task[p].content, status |-> "reserved", lapsed |-> FALSE] \in DeliveryRows
    BY <1>0 DEF DeliveryRows
  <2>. QED BY <1>0, <2>1, ReserveDoes DEF TypeOK
<1>2. \A q \in Processes \ {p} :
         /\ pc'[q] = pc[q] /\ task'[q] = task[q] /\ Delivers(q)' = Delivers(q)
         /\ Key(q)' = Key(q) /\ Is(q, "send", Reports)' = Is(q, "send", Reports)
         /\ Delivers(q) /\ Key(q) = Key(p) => Key(p) \in unsure
  BY <1>0 DEF Others, Delivers, Is, Key, OneWorks, Works
<1>3. Delivers(p)' /\ Key(p)' = Key(p) /\ Is(p, "send", Reports)'
  BY <1>0 DEF Delivers, Is, Key
<1>4. SentIsMailed'
  BY <1>0, <1>1 DEF SentIsMailed
<1>5. ReservationIsHeld'
  BY <1>0, <1>1, <1>2, <1>3 DEF ReservationIsHeld, Delivers
<1>6. InHand'
  <2>1. ASSUME NEW q \in Processes \ {p}, Delivers(q), Key(q) \notin unsure
        PROVE  report_delivery'[Key(q)] = report_delivery[Key(q)]
    <3>1. Key(q) \in ReportKeys
      BY <2>1, TaskTyped DEF Delivers, Is
    <3>. QED BY <1>1, <1>2, <2>1, <3>1
  <2>2. report_delivery'[Key(p)] # NoRow
    BY <1>1, NoDeliveryAssumption
  <2>. QED BY <1>0, <1>1, <1>2, <1>3, <2>1, <2>2 DEF InHand
<1>7. Settled'
  BY <1>0, <1>1, <1>2, <1>3 DEF Settled
<1>8. Delivered'
  BY <1>0, <1>2 DEF Delivered
<1>9. NewContent'
  BY <1>0, <1>2, <1>3 DEF NewContent
<1>. QED BY <1>4, <1>5, <1>6, <1>7, <1>8, <1>9

LEMMA SentKeeps ==
    ASSUME TypeOK, Kinds, OneWorks, ReportInv, NEW p \in Processes, SendReport(p)
    PROVE  ReportInv'
<1>. USE DEF ReportInv
<1>0. /\ Others(p) /\ UNCHANGED <<report_delivery, forgotten>> /\ pc[p] = "send"
      /\ task'[p] = task[p] /\ task[p] \in Reports
      /\ Key(p) \in ReportKeys /\ task[p].content \in Contents /\ unsure \subseteq unsure'
      /\ \/ DeliverReport(p) /\ pc'[p] = "sent"
         \/ UNCHANGED <<mailed, last>> /\ pc'[p] = "failed"
         \/ DeliverReport(p) /\ pc'[p] = "failed" /\ Key(p) \in unsure'
  BY SendReportDoes, TaskTyped DEF tables, Moves
<1>1. /\ \A k \in ReportKeys : mailed[k] \subseteq mailed'[k]
      /\ \A k \in ReportKeys : k # Key(p) => last'[k] = last[k]
      /\ DeliverReport(p) => /\ task[p].content \in mailed'[Key(p)]
                             /\ last'[Key(p)] = task[p].content
  BY <1>0 DEF DeliverReport, TypeOK
<1>2. \A q \in Processes \ {p} :
         /\ pc'[q] = pc[q] /\ task'[q] = task[q] /\ Delivers(q)' = Delivers(q)
         /\ Key(q)' = Key(q) /\ Is(q, "send", Reports)' = Is(q, "send", Reports)
         /\ Delivers(q) \/ pc[q] = "reserve" => Key(q) # Key(p) \/ Key(p) \in unsure
         /\ Delivers(q) \/ pc[q] = "reserve" => Key(q) \in ReportKeys
  BY <1>0, TaskTyped DEF Others, Delivers, Is, Key, OneWorks, Works
<1>3. Delivers(p) /\ Delivers(p)' /\ Key(p)' = Key(p) /\ ~ Is(p, "send", Reports)'
  BY <1>0 DEF Delivers, Is, Key
<1>4. SentIsMailed'
  BY <1>0, <1>1 DEF SentIsMailed
<1>5. ReservationIsHeld'
  BY <1>0, <1>2, <1>3 DEF ReservationIsHeld, Delivers
<1>6. InHand'
  BY <1>0, <1>2, <1>3 DEF InHand
<1>7. Settled'
  BY <1>0, <1>1, <1>2, <1>3 DEF Settled
<1>8. Delivered'
  BY <1>0, <1>1, <1>2, <1>3 DEF Delivered, Delivers
<1>9. NewContent'
  <2>1. ASSUME NEW q \in Processes \ {p}, pc[q] = "reserve" \/ Is(q, "send", Reports),
               Key(q) \notin unsure'
        PROVE  last'[Key(q)] = last[Key(q)]
    <3>1. Key(q) # Key(p) /\ Key(q) \in ReportKeys
      BY <1>0, <1>2, <2>1 DEF Delivers
    <3>. QED BY <1>1, <3>1
  <2>2. pc'[p] # "reserve"
    BY <1>0
  <2>. QED BY <1>0, <1>2, <1>3, <2>1, <2>2 DEF NewContent
<1>. QED BY <1>4, <1>5, <1>6, <1>7, <1>8, <1>9

\* The row of a delivery that ends becomes "sent", or goes.
LEMMA EndKeeps ==
    ASSUME TypeOK, Kinds, OneWorks, ReportInv, NEW p \in Processes,
           FinishSent(p) \/ FinishFailed(p)
    PROVE  ReportInv'
<1>. USE DEF ReportInv
<1>0. /\ Others(p) /\ UNCHANGED <<mailed, last, unsure>> /\ Delivers(p) /\ ~ InPhase(p)'
      /\ Key(p) \in ReportKeys /\ task[p].content \in Contents
      /\ pc[p] = IF FinishSent(p) THEN "sent" ELSE "failed"
  <2>1. pc[p] \in {"sent", "failed"} /\ pc'[p] \in {"idle", "select"}
    BY FinishSentDoes, FinishFailedDoes DEF Returns, Raises
  <2>2. Others(p) /\ UNCHANGED <<mailed, last, unsure>>
    BY FinishSentDoes, FinishFailedDoes DEF outside
  <2>3. pc[p] = IF FinishSent(p) THEN "sent" ELSE "failed"
    BY FinishSentDoes, FinishFailedDoes
  <2>. QED BY <2>1, <2>2, <2>3, TaskTyped DEF InPhase, Delivers, Is
<1>1. /\ \A k \in ReportKeys : k # Key(p) => report_delivery'[k] = report_delivery[k]
      /\ forgotten \subseteq forgotten' /\ forgotten' \subseteq forgotten \cup {Key(p)}
  BY <1>0, FinishSentDoes, FinishFailedDoes DEF TypeOK
<1>2. \A q \in Processes \ {p} :
         /\ pc'[q] = pc[q] /\ task'[q] = task[q] /\ Delivers(q)' = Delivers(q)
         /\ Key(q)' = Key(q) /\ Is(q, "send", Reports)' = Is(q, "send", Reports)
         /\ Delivers(q) \/ pc[q] = "reserve" => Key(q) # Key(p) \/ Key(p) \in unsure
         /\ Delivers(q) \/ pc[q] = "reserve" => Key(q) \in ReportKeys
  BY <1>0, TaskTyped DEF Others, Delivers, Is, Key, OneWorks, Works
<1>3. LET row == report_delivery'[Key(p)]
      IN  /\ row # NoRow /\ row.status = "sent" => row.hash \in mailed[Key(p)]
          /\ Key(p) \notin unsure =>
                IF FinishSent(p)
                  THEN row # NoRow /\ row.status = "sent" /\ row.hash = task[p].content
                  ELSE row = NoRow /\ Key(p) \in forgotten'
  <2>1. CASE FinishSent(p)
    <3>1. task[p].content \in mailed[Key(p)]
      BY <1>0, <2>1 DEF Delivered
    <3>2. CASE Matches(p)
      <4>1. report_delivery[Key(p)] \in DeliveryRows
        BY <1>0, <3>2 DEF TypeOK, Matches
      <4>2. report_delivery'[Key(p)] = [report_delivery[Key(p)] EXCEPT !.status = "sent"]
        BY <1>0, <2>1, <3>2, FinishSentDoes DEF TypeOK
      <4>. QED BY <2>1, <3>1, <3>2, <4>1, <4>2, RowsTyped DEF Matches
    <3>3. CASE ~ Matches(p)
      <4>1. report_delivery' = report_delivery /\ Key(p) \in unsure
        BY <1>0, <2>1, <3>3, FinishSentDoes DEF Matches, InHand
      <4>. QED BY <1>0, <4>1 DEF SentIsMailed
    <3>. QED BY <3>2, <3>3
  <2>2. CASE ~ FinishSent(p)
    <3>1. CASE Matches(p) /\ report_delivery[Key(p)].status = "reserved"
      BY <1>0, <2>2, <3>1, FinishFailedDoes DEF TypeOK
    <3>2. CASE ~ (Matches(p) /\ report_delivery[Key(p)].status = "reserved")
      <4>1. report_delivery' = report_delivery /\ Key(p) \in unsure
        BY <1>0, <2>2, <3>2, FinishFailedDoes DEF Matches, InHand
      <4>. QED BY <1>0, <4>1 DEF SentIsMailed
    <3>. QED BY <3>1, <3>2
  <2>. QED BY <2>1, <2>2
<1>4. SentIsMailed'
  BY <1>0, <1>1, <1>3 DEF SentIsMailed
<1>5. ReservationIsHeld'
  <2>1. ASSUME NEW k \in ReportKeys, report_delivery'[k] # NoRow,
               report_delivery'[k].status = "reserved", k \notin unsure'
        PROVE  k # Key(p) /\ report_delivery'[k] = report_delivery[k]
    BY <1>0, <1>1, <1>3, <2>1
  <2>. QED BY <1>0, <1>2, <2>1 DEF ReservationIsHeld, Delivers
<1>6. InHand'
  BY <1>0, <1>1, <1>2 DEF InHand, InPhase
<1>7. Settled'
  <2>1. ASSUME NEW k \in ReportKeys, k # Key(p), k \notin unsure' \cup forgotten'
        PROVE  \/ last'[k] = NoContent
               \/ \E q \in Processes : Delivers(q)' /\ Key(q)' = k
               \/ LET row == report_delivery'[k]
                  IN  row # NoRow /\ row.hash = last'[k] /\ row.status = "sent"
    BY <1>0, <1>1, <1>2, <2>1 DEF Settled
  <2>2. ASSUME Key(p) \notin unsure' \cup forgotten'
        PROVE  LET row == report_delivery'[Key(p)]
               IN  row # NoRow /\ row.hash = last'[Key(p)] /\ row.status = "sent"
    <3>1. FinishSent(p) /\ last[Key(p)] = task[p].content
      BY <1>0, <1>3, <2>2 DEF Delivered
    <3>. QED BY <1>0, <1>3, <2>2, <3>1
  <2>. QED BY <2>1, <2>2 DEF Settled
<1>8. Delivered'
  BY <1>0, <1>2 DEF Delivered, InPhase, Delivers
<1>9. NewContent'
  BY <1>0, <1>1, <1>2 DEF NewContent, InPhase, Delivers
<1>. QED BY <1>4, <1>5, <1>6, <1>7, <1>8, <1>9

LEMMA LapseKeeps ==
    ASSUME TypeOK, Kinds, ReportInv, NEW k \in ReportKeys, Lapse(k), unsure \subseteq unsure'
    PROVE  ReportInv'
<1>. USE DEF ReportInv, Delivers, Is, Key
<1>0. UNCHANGED <<pc, task, mailed, last, forgotten>>
  BY DEF Lapse, outside, job
<1>1. LET old == report_delivery[k]
          new == report_delivery'[k]
      IN  /\ old # NoRow /\ new # NoRow /\ old.status = "reserved"
          /\ new.hash = old.hash /\ new.status = old.status
  <2>1. report_delivery[k] \in DeliveryRows
    BY DEF Lapse, TypeOK
  <2>2. report_delivery'[k] = [report_delivery[k] EXCEPT !.lapsed = TRUE]
    BY DEF Lapse, TypeOK
  <2>. QED BY <2>1, <2>2, RowsTyped DEF Lapse
<1>2. \A j \in ReportKeys \ {k} : report_delivery'[j] = report_delivery[j]
  BY DEF Lapse, TypeOK
<1>3. \A j \in ReportKeys :
         /\ report_delivery'[j] = NoRow <=> report_delivery[j] = NoRow
         /\ report_delivery'[j].hash = report_delivery[j].hash
         /\ report_delivery'[j].status = report_delivery[j].status
  BY <1>1, <1>2
<1>4. SentIsMailed'
  BY <1>0, <1>3 DEF SentIsMailed
<1>5. ReservationIsHeld'
  BY <1>0, <1>3 DEF ReservationIsHeld
<1>6. InHand'
  <2>1. \A p \in Processes : Delivers(p) => Key(p) \in ReportKeys
    BY TaskTyped
  <2>. QED BY <1>0, <1>3, <2>1 DEF InHand
<1>7. Settled'
  BY <1>0, <1>3 DEF Settled
<1>8. Delivered' /\ NewContent'
  BY <1>0 DEF Delivered, NewContent
<1>. QED BY <1>4, <1>5, <1>6, <1>7, <1>8

LEMMA ReportsKept ==
    ASSUME TypeOK, Kinds, OneWorks, ReportInv, [Next]_vars PROVE ReportInv'
<1>0. unsure \subseteq unsure'
  BY NotedStep
<1>2. ASSUME NEW p \in Processes, Step(p) PROVE ReportInv'
  <2>1. CASE SelectReport(p)
    <3>1. CASE pc'[p] = "reserve"
      BY <1>0, <2>1, <3>1, ChosenKeeps
    <3>2. CASE pc'[p] # "reserve"
      <4>1. /\ Others(p) /\ UNCHANGED reports /\ pc[p] = "select"
            /\ pc'[p] \in {"idle", "select"}
        BY <2>1, <3>2, SelectReportDoes DEF Quiet, tables, outside, reports, Moves, Returns
      <4>. QED BY <1>0, <4>1, AsideKeeps DEF InPhase, Delivers, Is
    <3>. QED BY <3>1, <3>2
  <2>2. CASE SelectIncident(p) \/ SelectRecovered(p) \/ Suppress(p)
    <3>1. /\ Others(p) /\ UNCHANGED reports /\ pc[p] \in {"select", "suppress"}
          /\ \/ pc'[p] \in {"idle", "select", "suppress"}
             \/ pc'[p] = "send" /\ task'[p] \in Incidents \cup Recoveries
      BY <2>2, SelectIncidentDoes, SelectRecoveredDoes, SuppressDoes
         DEF Quiet, tables, outside, reports, Moves, Returns
    <3>. QED BY <1>0, <3>1, AsideKeeps, KindsDiffer DEF InPhase, Delivers, Is
  <2>3. CASE SendAlarm(p)
    <3>1. /\ Others(p) /\ UNCHANGED reports /\ pc[p] = "send" /\ task[p] \notin Reports
          /\ pc'[p] \in {"idle", "select", "record"}
      BY <2>3, SendAlarmDoes, KindsDiffer DEF tables, reports, Moves, Raises, Turns
    <3>. QED BY <1>0, <3>1, AsideKeeps DEF InPhase, Delivers, Is
  <2>4. CASE RecordIncident(p) \/ RecordRecovered(p)
    <3>1. /\ Others(p) /\ UNCHANGED reports /\ pc[p] = "record"
          /\ pc'[p] \in {"idle", "select"}
      BY <2>4, RecordDoes DEF outside, reports, Returns
    <3>. QED BY <1>0, <3>1, AsideKeeps DEF InPhase, Delivers, Is
  <2>. QED BY <1>2, <2>1, <2>2, <2>3, <2>4, ReservedKeeps, SentKeeps, EndKeeps DEF Step
<1>3. ASSUME NEW p \in Processes, WriteFails(p) \/ Crash(p) PROVE ReportInv'
  <2>1. /\ Others(p) /\ UNCHANGED reports /\ Key(p) \in unsure'
        /\ pc'[p] \in {"idle", "select"}
    BY <1>3, BreaksDoes DEF Quiet, tables, outside, reports, Raises, Turns
  <2>. QED BY <1>0, <2>1, AsideKeeps DEF InPhase, Delivers, Is
<1>4. ASSUME NEW p \in Processes, NEW calls \in duties[p], Begin(p, calls) PROVE ReportInv'
  <2>1. Others(p) /\ UNCHANGED reports /\ pc[p] = "idle" /\ pc'[p] = "select"
    BY <1>4, BeginDoes DEF Quiet, tables, outside, reports
  <2>. QED BY <1>0, <2>1, AsideKeeps DEF InPhase, Delivers, Is
<1>5. ASSUME NEW k, Cool(k) PROVE ReportInv'
  BY <1>0, <1>5, RestKeeps DEF Cool, reports
<1>6. CASE UNCHANGED vars
  BY <1>0, <1>6, RestKeeps DEF vars, tables, outside, job, reports
<1>. QED BY <1>0, <1>2, <1>3, <1>4, <1>5, <1>6, LapseKeeps DEF Next

-----------------------------------------------------------------------------
(* Reports that follow another call.                                       *)

Pending(k) ==
    mailed[k] # {} \/ \E p \in Processes : pc[p] # "idle" /\ (Key(p) = k \/ k \in Follows(p))

\* A process that goes on keeps what it owes; one that returns drops the key of its call.
LEMMA HandKeepsOwed ==
    ASSUME TypeOK, NEW p \in Processes, pc[p] # "idle", NEW k \in ReportKeys,
           Key(p) = k \/ k \in Follows(p)
    PROVE  /\ \A l : Moves(p, l) /\ l # "idle" =>
                 pc'[p] # "idle" /\ (Key(p) = k \/ k \in Follows(p))'
           /\ Turns(p) => pc'[p] # "idle" /\ (Key(p) = k \/ k \in Follows(p))'
           /\ Returns(p) /\ k \in Follows(p) =>
                 pc'[p] # "idle" /\ (Key(p) = k \/ k \in Follows(p))'
<1>1. \A l : Moves(p, l) /\ l # "idle" => pc'[p] # "idle" /\ (Key(p) = k \/ k \in Follows(p))'
  BY DEF Moves, Key, Follows
<1>2. Turns(p) => pc'[p] # "idle" /\ (Key(p) = k \/ k \in Follows(p))'
  BY DEF Turns, Key, Follows
<1>3. ASSUME Returns(p), k \in Follows(p)
      PROVE  pc'[p] # "idle" /\ (Key(p) = k \/ k \in Follows(p))'
  <2>1. rest[p] # <<>> /\ rest[p] \in Seq(Tasks)
    BY <1>3 DEF Follows, TypeOK
  <2>2. pc'[p] = "select" /\ task'[p] = Head(rest[p]) /\ rest'[p] = Tail(rest[p])
    BY <1>3, <2>1 DEF Returns
  <2>3. PICK i \in DOMAIN rest[p] : k = rest[p][i].key
    BY <1>3 DEF Follows
  <2>4. rest[p][i] = Head(rest[p]) \/ \E j \in DOMAIN Tail(rest[p]) : rest[p][i] = Tail(rest[p])[j]
    BY <2>1, SplitCalls
  <2>. QED BY <2>2, <2>3, <2>4 DEF Key, Follows
<1>. QED BY <1>1, <1>2, <1>3

LEMMA MailedStays ==
    ASSUME NEW k, mailed[k] # {}, mailed' = mailed PROVE Pending(k)'
BY DEF Pending

LEMMA OwedKept ==
    ASSUME TypeOK, Kinds, OneWorks, ReportInv, OwedIsMailed, [Next]_vars
    PROVE  OwedIsMailed'
<1>. USE DEF OwedIsMailed
<1>0. /\ unsure \subseteq unsure' /\ forgotten \subseteq forgotten' /\ owed \subseteq ReportKeys
      /\ \A k \in ReportKeys : mailed[k] \subseteq mailed'[k]
  BY NotedStep, MailStep, DeliveryStep DEF TypeOK
<1>1. \A k \in owed \ (unsure \cup forgotten) : Pending(k)
  BY DEF Pending
<1>2. SUFFICES \A k \in owed' \ (unsure' \cup forgotten') : Pending(k)'
  BY DEF Pending
\* What other processes have in hand stays there.
<1>3. ASSUME NEW p \in Processes, Others(p), NEW k \in ReportKeys, Pending(k), ~ Pending(k)'
      PROVE  pc[p] # "idle" /\ (Key(p) = k \/ k \in Follows(p))
  BY <1>0, <1>3 DEF Others, Pending, Key, Follows
<1>4. ASSUME NEW p \in Processes, Others(p), owed' \subseteq owed, pc[p] # "idle",
             Turns(p) \/ \E l : Moves(p, l) /\ l # "idle"
      PROVE  \A k \in owed' \ (unsure' \cup forgotten') : Pending(k)'
  BY <1>0, <1>1, <1>3, <1>4, HandKeepsOwed DEF Pending
<1>5. ASSUME NEW p \in Processes, Others(p), pc[p] # "idle", Returns(p),
             NEW own, own = Key(p), own \notin ReportKeys \/ Pending(own)'
      PROVE  \A k \in owed' \ (unsure' \cup forgotten') : Pending(k)'
  <2>1. owed' = owed
    BY <1>5 DEF Returns
  <2>2. ASSUME NEW k \in owed \ (unsure' \cup forgotten'), ~ Pending(k)' PROVE FALSE
    <3>1. k \in ReportKeys /\ (Key(p) = k \/ k \in Follows(p))
      BY <1>0, <1>1, <1>3, <1>5, <2>2
    <3>2. k \in Follows(p)
      BY <1>5, <2>2, <3>1
    <3>3. pc'[p] # "idle" /\ (Key(p) = k \/ k \in Follows(p))'
      BY <1>5, <3>1, <3>2, HandKeepsOwed
    <3>. QED BY <2>2, <3>3 DEF Pending
  <2>. QED BY <2>1, <2>2
<1>6. ASSUME NEW p \in Processes, Others(p), pc[p] # "idle", Raises(p),
             Key(p) \notin ReportKeys \/ Key(p) \in unsure' \cup forgotten'
      PROVE  \A k \in owed' \ (unsure' \cup forgotten') : Pending(k)'
  <2>1. owed' = owed \ Follows(p)
    BY <1>6 DEF Raises
  <2>. QED BY <1>0, <1>1, <1>3, <1>6, <2>1
<1>7. ASSUME NEW p \in Processes, NEW calls \in duties[p], Begin(p, calls)
      PROVE  \A k \in owed' \ (unsure' \cup forgotten') : Pending(k)'
  <2>1. /\ Others(p) /\ pc[p] = "idle" /\ pc'[p] = "select" /\ rest'[p] = Tail(calls)
        /\ owed' = owed \cup ({calls[i].key : i \in 2..Len(calls)} \cap ReportKeys)
        /\ calls \in Seq(Tasks) /\ calls # <<>>
    BY <1>7, BeginDoes, BeginTyped
  <2>2. ASSUME NEW i \in 2..Len(calls), calls[i].key \in ReportKeys
        PROVE  calls[i].key \in Follows(p)'
    <3>1. i - 1 \in DOMAIN Tail(calls) /\ Tail(calls)[i - 1] = calls[i]
      BY <2>1, <2>2
    <3>. QED BY <2>1, <2>2, <3>1 DEF Follows
  <2>3. ASSUME NEW k \in owed' \ (unsure' \cup forgotten'), k \notin owed PROVE Pending(k)'
    BY <2>1, <2>2, <2>3 DEF Pending
  <2>4. ASSUME NEW k \in owed \ (unsure' \cup forgotten') PROVE Pending(k)'
    BY <1>0, <1>1, <1>3, <2>1, <2>4
  <2>. QED BY <2>3, <2>4
\* A report found reserved was mailed, or is in the hand of another process.
<1>8. ASSUME NEW p \in Processes, SelectReport(p)
      PROVE  \A k \in owed' \ (unsure' \cup forgotten') : Pending(k)'
  <2>1. /\ Others(p) /\ pc[p] = "select" /\ Key(p) \in ReportKeys /\ mailed' = mailed
        /\ \/ IsReserved(Key(p), task[p].content) /\ Returns(p) /\ unsure' = unsure
           \/ Moves(p, "reserve")
    BY <1>8, SelectReportDoes, TaskTyped DEF Quiet, outside
  <2>2. CASE Moves(p, "reserve")
    BY <1>4, <2>1, <2>2 DEF Moves
  <2>3. CASE IsReserved(Key(p), task[p].content) /\ Returns(p) /\ unsure' = unsure
    <3>1. CASE report_delivery[Key(p)].status = "sent"
      <4>1. mailed[Key(p)] # {}
        BY <2>1, <2>3, <3>1 DEF IsReserved, ReportInv, SentIsMailed
      <4>. QED BY <1>5, <2>1, <2>3, <4>1, MailedStays
    <3>2. CASE report_delivery[Key(p)].status # "sent" /\ Key(p) \notin unsure
      <4>1. report_delivery[Key(p)].status = "reserved" /\ report_delivery[Key(p)] # NoRow
        BY <2>1, <2>3, <3>2 DEF IsReserved, TypeOK, DeliveryRows
      <4>2. PICK q \in Processes : pc[q] \in {"send", "sent", "failed"} /\ Key(q) = Key(p)
        BY <2>1, <3>2, <4>1 DEF ReportInv, ReservationIsHeld, Is
      <4>3. pc'[q] # "idle" /\ Key(q)' = Key(p) /\ q # p
        BY <2>1, <4>2 DEF Others, Key
      <4>4. \A own : own = Key(p) => Pending(own)'
        BY <4>3 DEF Pending
      <4>. QED BY <1>5, <2>1, <2>3, <4>4
    <3>3. CASE Key(p) \in unsure
      <4>1. owed' = owed
        BY <2>3 DEF Returns
      <4>. QED BY <1>0, <1>1, <1>3, <2>1, <2>3, <3>3, <4>1, HandKeepsOwed DEF Pending
    <3>. QED BY <3>1, <3>2, <3>3
  <2>. QED BY <2>1, <2>2, <2>3
<1>9. ASSUME NEW p \in Processes, Step(p), ~ SelectReport(p)
      PROVE  \A k \in owed' \ (unsure' \cup forgotten') : Pending(k)'
  <2>1. CASE Reserve(p) \/ SendReport(p)
    BY <1>4, <2>1, ReserveDoes, SendReportDoes DEF Moves
  <2>2. CASE FinishSent(p)
    <3>1. /\ Others(p) /\ pc[p] = "sent" /\ Returns(p) /\ mailed' = mailed
          /\ mailed[Key(p)] # {}
      BY <2>2, FinishSentDoes DEF outside, ReportInv, Delivered
    <3>. QED BY <1>5, <3>1, MailedStays
  <2>3. CASE FinishFailed(p)
    <3>1. /\ Others(p) /\ pc[p] = "failed" /\ Raises(p) /\ unsure' = unsure
      BY <2>3, FinishFailedDoes
    <3>2. Key(p) \in unsure' \cup forgotten'
      BY <2>3, <3>1, FinishFailedDoes DEF ReportInv, InHand, Delivers, Matches
    <3>. QED BY <1>6, <3>1, <3>2
  <2>4. CASE SelectIncident(p) \/ SelectRecovered(p) \/ Suppress(p)
    <3>1. /\ Others(p) /\ pc[p] # "idle" /\ Key(p) \notin ReportKeys
          /\ Returns(p) \/ \E l \in {"suppress", "send"} : Moves(p, l)
      BY <2>4, SelectIncidentDoes, SelectRecoveredDoes, SuppressDoes, KindsDiffer
         DEF Kinds, Key
    <3>. QED BY <1>4, <1>5, <3>1 DEF Moves
  <2>5. CASE SendAlarm(p)
    <3>1. /\ Others(p) /\ pc[p] # "idle" /\ Key(p) \notin ReportKeys
          /\ Moves(p, "record") \/ Raises(p) \/ Turns(p)
      BY <2>5, SendAlarmDoes, KindsDiffer DEF Key
    <3>. QED BY <1>4, <1>6, <3>1 DEF Moves, Turns
  <2>6. CASE RecordIncident(p) \/ RecordRecovered(p)
    <3>1. /\ Others(p) /\ pc[p] # "idle" /\ Key(p) \notin ReportKeys /\ Returns(p)
      BY <2>6, RecordDoes, KindsDiffer DEF Key
    <3>. QED BY <1>5, <3>1
  <2>. QED BY <1>9, <2>1, <2>2, <2>3, <2>4, <2>5, <2>6 DEF Step
<1>10. ASSUME NEW p \in Processes, WriteFails(p) \/ Crash(p)
       PROVE  \A k \in owed' \ (unsure' \cup forgotten') : Pending(k)'
  <2>1. /\ Others(p) /\ pc[p] # "idle" /\ Key(p) \in unsure' /\ (Raises(p) \/ Turns(p))
    BY <1>10, BreaksDoes
  <2>. QED BY <1>4, <1>6, <2>1 DEF Turns
<1>11. CASE UNCHANGED <<pc, task, rest, owed>>
  <2>1. \A k \in ReportKeys : Pending(k) => Pending(k)'
    BY <1>0, <1>11 DEF Pending, Key, Follows
  <2>. QED BY <1>0, <1>1, <1>11, <2>1
<1>12. ASSUME NEW k, Lapse(k) \/ Cool(k) PROVE UNCHANGED <<pc, task, rest, owed>>
  BY <1>12 DEF Lapse, Cool, job
<1>. QED BY <1>7, <1>8, <1>9, <1>10, <1>11, <1>12 DEF Next, vars, job

-----------------------------------------------------------------------------
(* Failures and recoveries: what was mailed and what the row says agree.   *)

AlarmInv == FreshIsThrottled /\ NotFresh /\ OpenIsTold /\ Told /\ RecoveryFollowsIncident

Rings(p) == Is(p, "send", Incidents \cup Recoveries) \/ pc[p] = "record"
alarms == <<notification_state, alarm, fresh>>

\* The process mails no failure or recovery afterwards, and did not record one, or its key
\* is noted.
LEMMA AsideRings ==
    ASSUME TypeOK, AlarmInv, unsure \subseteq unsure', UNCHANGED alarms,
           NEW p \in Processes, Others(p), ~ Rings(p)', p \notin late',
           pc[p] = "record" => Key(p) \in unsure'
    PROVE  AlarmInv'
<1>. USE DEF AlarmInv, alarms
<1>0. \A q \in Processes \ {p} :
         /\ pc'[q] = pc[q] /\ task'[q] = task[q] /\ Key(q)' = Key(q)
         /\ q \in late' <=> q \in late
  BY DEF Others, Key
<1>1. FreshIsThrottled'
  BY <1>0 DEF FreshIsThrottled, IsThrottled, Is, Rings
<1>2. NotFresh'
  BY <1>0 DEF NotFresh, Is, Rings
<1>3. OpenIsTold'
  BY <1>0 DEF OpenIsTold, IsOver, Is, Rings
<1>4. Told'
  BY <1>0 DEF Told, Rings
<1>5. RecoveryFollowsIncident'
  BY <1>0 DEF RecoveryFollowsIncident, Is, Rings
<1>. QED BY <1>1, <1>2, <1>3, <1>4, <1>5

LEMMA RestRings ==
    ASSUME AlarmInv, unsure \subseteq unsure', UNCHANGED alarms, UNCHANGED <<pc, task, late>>
    PROVE  AlarmInv'
<1>. USE DEF AlarmInv, alarms, Is, Key
<1>1. FreshIsThrottled' /\ NotFresh'
  BY DEF FreshIsThrottled, NotFresh, IsThrottled
<1>2. OpenIsTold'
  BY DEF OpenIsTold, IsOver
<1>3. Told' /\ RecoveryFollowsIncident'
  BY DEF Told, RecoveryFollowsIncident
<1>. QED BY <1>1, <1>2, <1>3

\* A failure or a recovery is looked up and found to be one to mail.
LEMMA ChosenRings ==
    ASSUME TypeOK, Kinds, AlarmInv, unsure \subseteq unsure', NEW p \in Processes, pc'[p] = "send",
           SelectIncident(p) \/ SelectRecovered(p)
    PROVE  AlarmInv'
<1>. USE DEF AlarmInv, alarms
<1>0. /\ Others(p) /\ UNCHANGED alarms /\ pc[p] = "select" /\ task'[p] = task[p] /\ Notes(p)
      /\ p \notin late /\ late' = late /\ Key(p) \in IncidentKeys
      /\ \/ task[p] \in Incidents /\ task[p] \notin Recoveries /\ ~ IsThrottled(Key(p))
         \/ task[p] \in Recoveries /\ task[p] \notin Incidents /\ ~ IsOver(Key(p))
  <2>1. CASE SelectIncident(p)
    BY <2>1, SelectIncidentDoes, TaskTyped, KindsDiffer
       DEF Quiet, tables, outside, Moves, Kinds
  <2>2. CASE SelectRecovered(p)
    BY <2>2, SelectRecoveredDoes, TaskTyped, KindsDiffer
       DEF Quiet, tables, outside, Moves, Returns, Kinds
  <2>. QED BY <2>1, <2>2
<1>1. \A q \in Processes \ {p} :
         /\ pc'[q] = pc[q] /\ task'[q] = task[q] /\ Key(q)' = Key(q)
         /\ q \in late' <=> q \in late
         /\ pc[q] \in {"send", "record"} /\ Key(q) = Key(p) => Key(p) \in unsure'
  BY <1>0 DEF Others, Key, Notes, Works
<1>2. Key(p)' = Key(p) /\ pc'[p] # "record"
  BY <1>0 DEF Key
<1>3. FreshIsThrottled'
  BY <1>0, <1>1 DEF FreshIsThrottled, IsThrottled, Is
<1>4. NotFresh'
  <2>1. task[p] \in Incidents => Key(p) \notin fresh \/ Key(p) \in unsure'
    BY <1>0, <1>1 DEF FreshIsThrottled, Is
  <2>. QED BY <1>0, <1>1, <1>2, <2>1 DEF NotFresh, Is
<1>5. OpenIsTold'
  BY <1>0, <1>1 DEF OpenIsTold, IsOver, Is
<1>6. Told'
  BY <1>0, <1>1, <1>2 DEF Told
<1>7. RecoveryFollowsIncident'
  <2>1. task[p] \in Recoveries => alarm[Key(p)] = "incident" \/ Key(p) \in unsure'
    BY <1>0, <1>1 DEF OpenIsTold, Is
  <2>. QED BY <1>0, <1>1, <1>2, <2>1 DEF RecoveryFollowsIncident, Is
<1>. QED BY <1>3, <1>4, <1>5, <1>6, <1>7

\* The mail goes out, and its process is about to record it, or its key is noted.
LEMMA MailedRings ==
    ASSUME TypeOK, Kinds, OneWorks, AlarmInv, unsure \subseteq unsure', NEW p \in Processes,
           SendAlarm(p), DeliverAlarm(p),
           \/ Moves(p, "record")
           \/ p \notin late' /\ pc'[p] \in {"idle", "select"} /\ Key(p) \in unsure'
    PROVE  AlarmInv'
<1>. USE DEF AlarmInv
<1>0. /\ Others(p) /\ pc[p] = "send" /\ notification_state' = notification_state
      /\ task[p] \in Incidents \cup Recoveries /\ Key(p) \in IncidentKeys
      /\ task[p] \in Incidents => task[p].op = "incident" /\ task[p] \notin Recoveries
      /\ task[p] \in Recoveries => task[p].op = "recovered" /\ task[p] \notin Incidents
  BY SendAlarmDoes, TaskTyped, KindsDiffer DEF tables, Raises, Turns
<1>1. /\ alarm'[Key(p)] = task[p].op
      /\ \A k \in IncidentKeys : k # Key(p) => alarm'[k] = alarm[k]
      /\ \A k : k \in fresh' => k \in fresh \/ (k = Key(p) /\ task[p] \in Incidents /\ p \notin late)
  BY <1>0 DEF DeliverAlarm, TypeOK
<1>2. \A q \in Processes \ {p} :
         /\ pc'[q] = pc[q] /\ task'[q] = task[q] /\ Key(q)' = Key(q)
         /\ q \in late' <=> q \in late
         /\ pc[q] \in {"send", "record"} /\ Key(q) = Key(p) => Key(p) \in unsure
  BY <1>0 DEF Others, Key, OneWorks, Works
<1>3. Moves(p, "record") => /\ pc'[p] = "record" /\ task'[p] = task[p] /\ Key(p)' = Key(p)
                            /\ p \in late' <=> p \in late
  BY DEF Moves, Key
<1>4. FreshIsThrottled'
  <2>1. ASSUME NEW k \in fresh \ unsure', ~ IsThrottled(k)
        PROVE  \E q \in Processes \ {p} : Is(q, "record", Incidents) /\ Key(q) = k /\ q \notin late
    BY <1>0, <2>1 DEF FreshIsThrottled, Is
  <2>2. ASSUME NEW k \in fresh \ unsure', ~ IsThrottled(k)
        PROVE  \E q \in Processes : (Is(q, "record", Incidents) /\ Key(q) = k /\ q \notin late)'
    BY <1>2, <2>1, <2>2 DEF Is
  <2>3. ASSUME NEW k \in fresh' \ unsure', k = Key(p), task[p] \in Incidents, p \notin late
        PROVE  (Is(p, "record", Incidents) /\ Key(p) = k /\ p \notin late)'
    BY <1>3, <2>3 DEF Is
  <2>4. \A k : IsThrottled(k)' <=> IsThrottled(k)
    BY <1>0 DEF IsThrottled
  <2>. QED BY <1>1, <2>2, <2>3, <2>4 DEF FreshIsThrottled
<1>5. NotFresh'
  <2>1. ASSUME NEW q \in Processes \ {p},
               (Is(q, "send", Incidents) \/ (q \in late /\ task[q] \in Incidents))'
        PROVE  Key(q)' \notin fresh' \/ Key(q)' \in unsure'
    <3>1. /\ Is(q, "send", Incidents) \/ (q \in late /\ task[q] \in Incidents)
          /\ pc[q] \in {"send", "record"}
      BY <1>2, <2>1 DEF Is, Kinds
    <3>2. Key(q) \notin fresh \/ Key(q) \in unsure
      BY <3>1 DEF NotFresh
    <3>. QED BY <1>1, <1>2, <3>1, <3>2
  <2>2. ASSUME (Is(p, "send", Incidents) \/ (p \in late /\ task[p] \in Incidents))'
        PROVE  Key(p)' \notin fresh' \/ Key(p)' \in unsure'
    <3>1. Moves(p, "record") /\ p \in late /\ task[p] \in Incidents
      BY <1>3, <2>2 DEF Is
    <3>2. Key(p) \notin fresh \/ Key(p) \in unsure
      BY <3>1 DEF NotFresh
    <3>. QED BY <1>1, <1>3, <3>1, <3>2
  <2>. QED BY <2>1, <2>2 DEF NotFresh
<1>6. OpenIsTold'
  <2>1. \A k : IsOver(k)' <=> IsOver(k)
    BY <1>0 DEF IsOver
  <2>2. ASSUME NEW k \in IncidentKeys \ unsure', k # Key(p), ~ IsOver(k), alarm[k] # "incident"
        PROVE  \E q \in Processes : (Is(q, "record", Recoveries) /\ Key(q) = k)'
    <3>1. PICK q \in Processes \ {p} : Is(q, "record", Recoveries) /\ Key(q) = k
      BY <2>2 DEF OpenIsTold
    <3>. QED BY <1>2, <3>1 DEF Is
  <2>3. Key(p) \notin unsure' =>
          \/ alarm'[Key(p)] = "incident"
          \/ Is(p, "record", Recoveries)'
    BY <1>0, <1>1, <1>3 DEF Is
  <2>. QED BY <1>1, <1>3, <2>1, <2>2, <2>3 DEF OpenIsTold
<1>7. Told'
  <2>1. \A q \in Processes \ {p} : pc[q] = "record" => Key(q) \in IncidentKeys
    BY TaskTyped DEF Kinds
  <2>. QED BY <1>1, <1>2, <1>3, <2>1 DEF Told
<1>8. RecoveryFollowsIncident'
  <2>1. \A q \in Processes \ {p} : Is(q, "send", Recoveries) => Key(q) \in IncidentKeys
    BY TaskTyped DEF Is
  <2>. QED BY <1>1, <1>2, <1>3, <2>1 DEF RecoveryFollowsIncident, Is
<1>. QED BY <1>4, <1>5, <1>6, <1>7, <1>8

\* What was mailed is written down.
LEMMA RecordRings ==
    ASSUME TypeOK, Kinds, OneWorks, AlarmInv, NEW p \in Processes,
           RecordIncident(p) \/ RecordRecovered(p)
    PROVE  AlarmInv'
<1>. USE DEF AlarmInv
<1>0. /\ Others(p) /\ pc[p] = "record" /\ pc'[p] \in {"idle", "select"} /\ p \notin late'
      /\ UNCHANGED <<alarm, fresh, unsure>>
      /\ task[p] \in Incidents \cup Recoveries /\ Key(p) \in IncidentKeys
      /\ task[p] \in Incidents => task[p].op = "incident" /\ task[p] \notin Recoveries
      /\ task[p] \in Recoveries => task[p].op = "recovered" /\ task[p] \notin Incidents
  BY RecordDoes, TaskTyped, KindsDiffer DEF Kinds, Returns, outside
<1>1. \A q \in Processes \ {p} :
         /\ pc'[q] = pc[q] /\ task'[q] = task[q] /\ Key(q)' = Key(q)
         /\ q \in late' <=> q \in late
         /\ pc[q] \in {"send", "record"} /\ Key(q) = Key(p) => Key(p) \in unsure
  BY <1>0 DEF Others, Key, OneWorks, Works
<1>2. \A k \in IncidentKeys : k # Key(p) => notification_state'[k] = notification_state[k]
  BY <1>0, RecordDoes DEF TypeOK
<1>. DEFINE new == notification_state'[Key(p)]
<1>3. ASSUME task[p] \in Incidents, Key(p) \notin unsure
      PROVE  /\ new # NoRow /\ ~ new.recovered /\ (p \notin late => new.recent)
             /\ alarm[Key(p)] = "incident"
  <2>1. new = [recent |-> p \notin late, recovered |-> FALSE]
    BY <1>0, <1>3, RecordDoes DEF TypeOK
  <2>2. PICK b \in BOOLEAN : b = (p \notin late)
    <3>1. (p \notin late) \in BOOLEAN
      OBVIOUS
    <3>. QED BY <3>1, Zenon
  <2>3. [recent |-> b, recovered |-> FALSE] \in StateRows
    BY DEF StateRows
  <2>4. new # NoRow
    BY <2>1, <2>2, <2>3, StatesTyped
  <2>5. alarm[Key(p)] = "incident"
    BY <1>0, <1>3 DEF Told
  <2>6. new.recent = b /\ ~ new.recovered
    BY <2>1, <2>2
  <2>. QED BY <2>2, <2>4, <2>5, <2>6, Zenon
<1>4. ASSUME task[p] \in Recoveries
      PROVE  /\ new = NoRow \/ new.recovered
             /\ IsThrottled(Key(p)) => new # NoRow /\ new.recent
  <2>1. CASE notification_state[Key(p)] = NoRow
    <3>1. notification_state' = notification_state
      BY <1>0, <1>4, <2>1, RecordDoes
    <3>. QED BY <2>1, <3>1 DEF IsThrottled
  <2>2. CASE notification_state[Key(p)] # NoRow
    <3>1. notification_state[Key(p)] \in StateRows
      BY <1>0, <2>2 DEF TypeOK
    <3>2. new = [notification_state[Key(p)] EXCEPT !.recovered = TRUE]
      BY <1>0, <1>4, <2>2, RecordDoes DEF TypeOK
    <3>3. PICK row \in StateRows : row = notification_state[Key(p)]
      BY <3>1
    <3>4. PICK result \in StateRows : result = [row EXCEPT !.recovered = TRUE]
      BY StatesTyped
    <3>5. result.recovered /\ result.recent = row.recent /\ result # NoRow
      BY <3>4, StatesTyped
    <3>6. new = result
      BY <3>2, <3>3, <3>4
    <3>. QED BY <3>3, <3>5, <3>6, Zenon DEF IsThrottled
  <2>. QED BY <2>1, <2>2
<1>5. FreshIsThrottled'
  <2>1. ASSUME NEW k \in fresh \ unsure, k = Key(p) PROVE new # NoRow /\ new.recent
    <3>1. CASE task[p] \in Incidents
      BY <1>3, <2>1, <3>1 DEF NotFresh
    <3>2. CASE task[p] \in Recoveries
      BY <1>0, <1>1, <1>4, <2>1, <3>2 DEF FreshIsThrottled, Is
    <3>. QED BY <1>0, <3>1, <3>2
  <2>2. ASSUME NEW k \in fresh \ unsure, k # Key(p)
        PROVE  \/ IsThrottled(k)'
               \/ \E q \in Processes : (Is(q, "record", Incidents) /\ Key(q) = k /\ q \notin late)'
    <3>1. k \in IncidentKeys
      BY DEF TypeOK
    <3>2. CASE IsThrottled(k)
      BY <1>2, <2>2, <3>1, <3>2 DEF IsThrottled
    <3>3. CASE \E q \in Processes : Is(q, "record", Incidents) /\ Key(q) = k /\ q \notin late
      BY <1>1, <2>2, <3>3 DEF Is
    <3>. QED BY <3>2, <3>3 DEF FreshIsThrottled
  <2>3. ASSUME NEW k \in fresh \ unsure, k = Key(p) PROVE IsThrottled(k)'
    BY <2>1, <2>3 DEF IsThrottled
  <2>. QED BY <1>0, <2>2, <2>3 DEF FreshIsThrottled
<1>6. NotFresh'
  BY <1>0, <1>1 DEF NotFresh, Is
<1>7. OpenIsTold'
  <2>1. ASSUME NEW k \in IncidentKeys \ unsure, k = Key(p)
        PROVE  IsOver(k)' \/ alarm[k] = "incident"
    BY <1>0, <1>3, <1>4, <2>1 DEF IsOver
  <2>2. ASSUME NEW k \in IncidentKeys \ unsure, k # Key(p)
        PROVE  \/ IsOver(k)' \/ alarm[k] = "incident"
               \/ \E q \in Processes : (Is(q, "record", Recoveries) /\ Key(q) = k)'
    <3>1. CASE IsOver(k)
      BY <1>2, <2>2, <3>1 DEF IsOver
    <3>2. CASE \E q \in Processes : Is(q, "record", Recoveries) /\ Key(q) = k
      BY <1>1, <2>2, <3>2 DEF Is
    <3>. QED BY <3>1, <3>2 DEF OpenIsTold
  <2>. QED BY <1>0, <2>1, <2>2 DEF OpenIsTold
<1>8. Told'
  BY <1>0, <1>1 DEF Told
<1>9. RecoveryFollowsIncident'
  BY <1>0, <1>1 DEF RecoveryFollowsIncident, Is
<1>. QED BY <1>5, <1>6, <1>7, <1>8, <1>9

\* throttle_seconds after a mail.
LEMMA CoolRings ==
    ASSUME TypeOK, Kinds, AlarmInv, NEW k \in IncidentKeys, Cool(k)
    PROVE  AlarmInv'
<1>. USE DEF AlarmInv
<1>0. /\ UNCHANGED <<pc, task, alarm, unsure>> /\ fresh' = fresh \ {k}
      /\ late' = late \cup {p \in Processes : pc[p] \in {"send", "record"} /\ Key(p) = k}
  BY DEF Cool
<1>1. /\ \A i \in IncidentKeys \ {k} : notification_state'[i] = notification_state[i]
      /\ IsOver(k)' <=> IsOver(k)
  <2>1. CASE IsThrottled(k)
    <3>1. notification_state[k] \in StateRows
      BY <2>1 DEF TypeOK, IsThrottled
    <3>2. /\ notification_state'[k] = [notification_state[k] EXCEPT !.recent = FALSE]
          /\ \A i \in IncidentKeys \ {k} : notification_state'[i] = notification_state[i]
      BY <2>1 DEF Cool, TypeOK
    <3>3. /\ notification_state'[k].recovered = notification_state[k].recovered
          /\ notification_state'[k] # NoRow /\ notification_state[k] # NoRow
      BY <3>1, <3>2, StatesTyped
    <3>. QED BY <3>2, <3>3 DEF IsOver
  <2>2. CASE ~ IsThrottled(k)
    BY <2>2 DEF Cool, IsOver
  <2>. QED BY <2>1, <2>2
<1>2. \A q : Key(q)' = Key(q)
  BY <1>0 DEF Key
<1>3. FreshIsThrottled'
  <2>1. ASSUME NEW i \in fresh \ unsure, i # k
        PROVE  \/ IsThrottled(i)'
               \/ \E q \in Processes : (Is(q, "record", Incidents) /\ Key(q) = i /\ q \notin late)'
    <3>1. i \in IncidentKeys
      BY DEF TypeOK
    <3>2. CASE IsThrottled(i)
      BY <1>1, <2>1, <3>1, <3>2 DEF IsThrottled
    <3>3. CASE \E q \in Processes : Is(q, "record", Incidents) /\ Key(q) = i /\ q \notin late
      BY <1>0, <1>2, <2>1, <3>3 DEF Is
    <3>. QED BY <3>2, <3>3 DEF FreshIsThrottled
  <2>. QED BY <1>0, <2>1 DEF FreshIsThrottled
<1>4. NotFresh'
  BY <1>0, <1>2 DEF NotFresh, Is
<1>5. OpenIsTold'
  <2>1. \A i \in IncidentKeys : IsOver(i)' <=> IsOver(i)
    BY <1>1 DEF IsOver
  <2>. QED BY <1>0, <1>2, <2>1 DEF OpenIsTold, Is
<1>6. Told' /\ RecoveryFollowsIncident'
  BY <1>0, <1>2 DEF Told, RecoveryFollowsIncident, Is
<1>. QED BY <1>3, <1>4, <1>5, <1>6

LEMMA AlarmsKept ==
    ASSUME TypeOK, Kinds, OneWorks, AlarmInv, [Next]_vars
    PROVE  AlarmInv'
<1>0. unsure \subseteq unsure'
  BY NotedStep
<1>. USE DEF Rings, Is
<1>1. ASSUME NEW p \in Processes, SelectReport(p) \/ Reserve(p) \/ SendReport(p)
                                  \/ FinishSent(p) \/ FinishFailed(p)
      PROVE  AlarmInv'
  <2>1. /\ Others(p) /\ UNCHANGED alarms /\ pc[p] # "record" /\ task[p] \in Reports
        /\ \/ \E l \in {"reserve", "send", "sent", "failed"} : Moves(p, l)
           \/ Returns(p) \/ Raises(p)
    BY <1>1, SelectReportDoes, ReserveDoes, SendReportDoes, FinishSentDoes, FinishFailedDoes
       DEF Quiet, tables, outside, alarms, Kinds
  <2>2. p \notin late /\ task[p] \notin Incidents \cup Recoveries
    BY <2>1, KindsDiffer DEF Kinds
  <2>3. ~ Rings(p)' /\ p \notin late'
    BY <2>1, <2>2 DEF Moves, Returns, Raises
  <2>. QED BY <1>0, <2>1, <2>3, AsideRings
<1>2. ASSUME NEW p \in Processes, SelectIncident(p) \/ Suppress(p) \/ SelectRecovered(p)
      PROVE  AlarmInv'
  <2>1. CASE pc'[p] = "send"
    <3>1. ~ Suppress(p)
      BY <2>1, SuppressDoes DEF Returns
    <3>. QED BY <1>0, <1>2, <2>1, <3>1, ChosenRings
  <2>2. CASE pc'[p] # "send"
    <3>1. /\ Others(p) /\ UNCHANGED alarms /\ pc[p] \in {"select", "suppress"}
          /\ Moves(p, "suppress") \/ Returns(p)
      BY <1>2, <2>2, SelectIncidentDoes, SuppressDoes, SelectRecoveredDoes
         DEF Quiet, tables, outside, alarms, Moves
    <3>2. ~ Rings(p)' /\ p \notin late' /\ pc[p] # "record"
      BY <3>1 DEF Moves, Returns, Kinds
    <3>. QED BY <1>0, <3>1, <3>2, AsideRings
  <2>. QED BY <2>1, <2>2
<1>3. ASSUME NEW p \in Processes, SendAlarm(p) PROVE AlarmInv'
  <2>1. /\ Others(p) /\ pc[p] = "send" /\ UNCHANGED tables
        /\ Raises(p) \/ Turns(p) => p \notin late' /\ pc'[p] \in {"idle", "select"}
    BY <1>3, SendAlarmDoes DEF Raises, Turns
  <2>2. CASE UNCHANGED <<alarm, fresh, unsure>> /\ (Raises(p) \/ Turns(p))
    BY <1>0, <2>1, <2>2, AsideRings DEF alarms, tables
  <2>3. CASE DeliverAlarm(p) /\ (Moves(p, "record") \/ Key(p) \in unsure')
             /\ (Moves(p, "record") \/ Raises(p) \/ Turns(p))
    BY <1>0, <1>3, <2>1, <2>3, MailedRings
  <2>. QED BY <1>3, <2>2, <2>3, SendAlarmDoes
<1>4. ASSUME NEW p \in Processes, WriteFails(p) \/ Crash(p) PROVE AlarmInv'
  <2>1. /\ Others(p) /\ UNCHANGED alarms /\ Key(p) \in unsure'
        /\ pc'[p] \in {"idle", "select"} /\ p \notin late'
    BY <1>4, BreaksDoes DEF Quiet, tables, outside, alarms, Raises, Turns
  <2>. QED BY <1>0, <2>1, AsideRings
<1>5. ASSUME NEW p \in Processes, NEW calls \in duties[p], Begin(p, calls) PROVE AlarmInv'
  <2>1. /\ Others(p) /\ UNCHANGED alarms /\ pc[p] = "idle" /\ pc'[p] = "select" /\ late' = late
    BY <1>5, BeginDoes DEF Quiet, tables, outside, alarms
  <2>. QED BY <1>0, <2>1, AsideRings DEF Kinds
<1>6. ASSUME NEW k, Lapse(k) PROVE AlarmInv'
  BY <1>0, <1>6, RestRings DEF Lapse, outside, job, alarms
<1>7. CASE UNCHANGED vars
  BY <1>0, <1>7, RestRings DEF vars, tables, outside, job, alarms
<1>. QED BY <1>1, <1>2, <1>3, <1>4, <1>5, <1>6, <1>7, RecordRings, CoolRings DEF Next, Step

-----------------------------------------------------------------------------
(* The theorems.                                                           *)

LEMMA IInvParts ==
    IInv <=> TypeOK /\ Kinds /\ OneWorks /\ ReportInv /\ OwedIsMailed /\ AlarmInv
BY DEF IInv, ReportInv, AlarmInv

LEMMA Initially == Init => IInv
<1>. SUFFICES ASSUME Init PROVE IInv
  OBVIOUS
<1>. USE DEF Init
<1>1. TypeOK
  BY NotifierAssumption DEF TypeOK
<1>2. Kinds /\ OneWorks
  BY DEF Kinds, OneWorks, Works
<1>3. ReportInv
  BY DEF ReportInv, SentIsMailed, ReservationIsHeld, InHand, Settled, Delivered, NewContent,
         Delivers, Is
<1>4. OwedIsMailed
  BY DEF OwedIsMailed
<1>5. AlarmInv
  BY DEF AlarmInv, FreshIsThrottled, NotFresh, OpenIsTold, Told, RecoveryFollowsIncident,
         IsOver, Is
<1>. QED BY <1>1, <1>2, <1>3, <1>4, <1>5, IInvParts

LEMMA Inductive == IInv /\ [Next]_vars => IInv'
<1>. SUFFICES ASSUME IInv, [Next]_vars PROVE IInv'
  OBVIOUS
<1>1. TypeOK /\ Kinds /\ OneWorks /\ ReportInv /\ OwedIsMailed /\ AlarmInv
  BY IInvParts
<1>2. TypeOK' /\ Kinds' /\ OneWorks'
  BY <1>1, TypeKept, KindsKept, OneWorksKept
<1>3. ReportInv' /\ OwedIsMailed' /\ AlarmInv'
  BY <1>1, ReportsKept, OwedKept, AlarmsKept
<1>. QED BY <1>2, <1>3 DEF IInv, ReportInv, AlarmInv

LEMMA Invariance == Spec => []IInv
BY Initially, Inductive, PTL DEF Spec

\* The rows, the hands of the processes and the histories keep their types.
THEOREM TypeCorrect == Spec => []TypeOK
<1>1. IInv => TypeOK
  BY DEF IInv
<1>. QED BY <1>1, Invariance, PTL

\* reserve_report answers "already sent" only of a content that reached the mailbox:
\* a failed session, a refused write and a process that died leave no such row.
THEOREM SentWasMailed == Spec => []SentIsMailed
<1>1. IInv => SentIsMailed
  BY DEF IInv
<1>. QED BY <1>1, Invariance, PTL

\* A reservation that no fault has touched belongs to a process that is mailing its content.
THEOREM Held == Spec => []ReservationIsHeld
<1>1. IInv => ReservationIsHeld
  BY DEF IInv
<1>. QED BY <1>1, Invariance, PTL

\* _send_once mails no content a second time in a row, the exceptions named.
THEOREM OncePerContent == Spec => []ReportsOnChange
<1>1. IInv => ReportsOnChange
  BY DEF IInv, NewContent, ReportsOnChange
<1>. QED BY <1>1, Invariance, PTL

\* The mail of a change of owner that process_item owes after the report is sent or to come.
THEOREM OwedAreMailed == Spec => []OwedIsMailed
<1>1. IInv => OwedIsMailed
  BY DEF IInv
<1>. QED BY <1>1, Invariance, PTL

\* incident mails no key a second time within throttle_seconds.
THEOREM Spaced == Spec => []IncidentsSpaced
<1>1. IInv => IncidentsSpaced
  BY DEF IInv, NotFresh, IncidentsSpaced
<1>. QED BY <1>1, Invariance, PTL

\* recovered announces the end of a failure that was mailed, and that end once.
THEOREM RecoveriesFollow == Spec => []RecoveryFollowsIncident
<1>1. IInv => RecoveryFollowsIncident
  BY DEF IInv
<1>. QED BY <1>1, Invariance, PTL

=============================================================================
