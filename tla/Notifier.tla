------------------------------ MODULE Notifier ------------------------------
(***************************************************************************)
(* Outgoing mail: class Notifier and the tables it keeps its memory in.    *)
(*                                                                         *)
(*   report_delivery     what was mailed under a key (a computer, a        *)
(*                       transition of owner, an ISO week), so that the    *)
(*                       same content is mailed once                       *)
(*   notification_state  when a failure was mailed last, so that a         *)
(*                       repeated one is not, and whether it recovered     *)
(*                                                                         *)
(* Several processes call it on one database: the worker daemon, the mail  *)
(* collector, the weekly report.  Each SQL statement commits on its own    *)
(* and is a step, and so is the SMTP session.  A content stands for the    *)
(* hash of a report.  occurrences and last_failure_at are left out: they   *)
(* only appear in a text.                                                  *)
(***************************************************************************)
EXTENDS Integers, Sequences

CONSTANTS
    Processes, ReportKeys, Contents, IncidentKeys,
    Duties,          \* what the processes may be for: their jobs, each a sequence of calls
    Caught,          \* <<"smtp" or "database", key>>: the caller answers such an exception
                     \* of recovered(key) with incident(key)
    NoRow, NoTask, NoContent,
    FaultKinds,      \* what goes wrong in an instance
    MaxFaults        \* bound on how often

Reports == [op : {"report"}, key : ReportKeys, content : Contents]
Incidents == [op : {"incident"}, key : IncidentKeys, content : {"failure", "dead_letter"}]
Recoveries == [op : {"recovered"}, key : IncidentKeys, content : {"recovery"}]
Tasks == Reports \cup Incidents \cup Recoveries

ASSUME NotifierAssumption ==
    /\ ReportKeys \cap IncidentKeys = {}
    /\ Duties \subseteq [Processes -> SUBSET (Seq(Tasks) \ {<<>>})]
    /\ Caught \subseteq {"smtp", "database"} \X IncidentKeys
    /\ NoTask \notin Tasks /\ NoContent \notin Contents
    /\ FaultKinds \subseteq {"smtp_down", "smtp_lost", "database", "crash"}
    /\ MaxFaults \in Nat

\* lapsed: 15 minutes went by since reserved_at.  recent: throttle_seconds have not gone
\* by since last_sent_at.
DeliveryRows == [hash : Contents, status : {"reserved", "sent"}, lapsed : BOOLEAN]
StateRows == [recent : BOOLEAN, recovered : BOOLEAN]

ASSUME NoDeliveryAssumption == NoRow \notin DeliveryRows /\ NoRow \notin StateRows

VARIABLES
    report_delivery, notification_state,
    duties,     \* one of Duties
    pc, task,
    rest,       \* the calls of the job that come after this one
    late,       \* processes whose `current` is older than throttle_seconds
    mailed,     \* history: per report key, the contents that reached the mailbox
    last,       \* history: per report key, the content that did so last
    alarm,      \* history: per incident key, the kind of the last mail
    fresh,      \* history: incident keys mailed less than throttle_seconds ago
    unsure,     \* history: keys on which a process died, an answer or a write was lost,
                \* a reservation lapsed in hand or two processes overlapped
    forgotten,  \* history: report keys whose row a failed session deleted
    owed,       \* history: reports that were to follow another call, and that no failure
                \* of that call has dropped
    faults

tables == <<report_delivery, notification_state>>
outside == <<duties, mailed, last, alarm, fresh>>
job == <<task, rest, late, owed>>
vars == <<tables, outside, pc, job, unsure, forgotten, faults>>

TypeOK ==
    /\ report_delivery \in [ReportKeys -> DeliveryRows \cup {NoRow}]
    /\ notification_state \in [IncidentKeys -> StateRows \cup {NoRow}]
    /\ duties \in Duties
    /\ pc \in [Processes -> {"idle", "select", "reserve", "send", "sent", "failed",
                              "suppress", "record"}]
    /\ task \in [Processes -> Tasks \cup {NoTask}]
    /\ rest \in [Processes -> Seq(Tasks)]
    /\ \A p \in Processes : task[p] = NoTask <=> pc[p] = "idle"
    /\ late \subseteq Processes
    /\ mailed \in [ReportKeys -> SUBSET Contents]
    /\ last \in [ReportKeys -> Contents \cup {NoContent}]
    /\ alarm \in [IncidentKeys -> {"none", "incident", "recovered"}]
    /\ fresh \subseteq IncidentKeys
    /\ unsure \subseteq ReportKeys \cup IncidentKeys
    /\ forgotten \subseteq ReportKeys /\ owed \subseteq ReportKeys
    /\ faults \in 0..MaxFaults

Init ==
    /\ report_delivery = [k \in ReportKeys |-> NoRow]
    /\ notification_state = [k \in IncidentKeys |-> NoRow]
    /\ duties \in Duties
    /\ pc = [p \in Processes |-> "idle"]
    /\ task = [p \in Processes |-> NoTask]
    /\ rest = [p \in Processes |-> <<>>]
    /\ late = {}
    /\ mailed = [k \in ReportKeys |-> {}]
    /\ last = [k \in ReportKeys |-> NoContent]
    /\ alarm = [k \in IncidentKeys |-> "none"]
    /\ fresh = {}
    /\ unsure = {}
    /\ forgotten = {} /\ owed = {}
    /\ faults = 0

Key(p) == task[p].key
GoTo(p, location) == pc' = [pc EXCEPT ![p] = location]
Is(p, location, tasks) == pc[p] = location /\ task[p] \in tasks

Follows(p) == {rest[p][i].key : i \in DOMAIN rest[p]} \cap ReportKeys

\* Mutant of Raise: the call is not over.
RaiseKeepingTask(p) ==
    /\ GoTo(p, "idle")
    /\ rest' = [rest EXCEPT ![p] = <<>>]
    /\ UNCHANGED <<task, late, owed>>

\* An exception, or the death of the process, ends the job.
Raise(p) ==
    /\ GoTo(p, "idle")
    /\ task' = [task EXCEPT ![p] = NoTask]
    /\ rest' = [rest EXCEPT ![p] = <<>>]
    /\ late' = late \ {p}
    /\ owed' = owed \ Follows(p)

\* Mutant of Return: the job is over with its first call.
ReturnForGood(p) ==
    /\ GoTo(p, "idle")
    /\ task' = [task EXCEPT ![p] = NoTask]
    /\ rest' = [rest EXCEPT ![p] = <<>>]
    /\ late' = late \ {p}
    /\ UNCHANGED owed

\* The call returns, whatever it returns: the next one of the job is made.
Return(p) ==
    /\ IF rest[p] = <<>>
         THEN GoTo(p, "idle") /\ task' = [task EXCEPT ![p] = NoTask] /\ UNCHANGED rest
         ELSE /\ GoTo(p, "select")
              /\ task' = [task EXCEPT ![p] = Head(rest[p])]
              /\ rest' = [rest EXCEPT ![p] = Tail(@)]
    /\ late' = late \ {p}
    /\ UNCHANGED owed

\* An exception of a call, as its callers take it: mail.collect holds an SMTP error of
\* recovered for one of IMAP, run_forever a database error of it for one of the queue;
\* run_forever dies of the former.
Fail(p, exception) ==
    IF task[p] \in Recoveries /\ <<exception, Key(p)>> \in Caught
      THEN /\ GoTo(p, "select")
           /\ task' = [task EXCEPT ![p] = [op |-> "incident", key |-> Key(p), content |-> "failure"]]
           /\ late' = late \ {p}
           /\ UNCHANGED <<rest, owed>>
      ELSE Raise(p)

Fault(kind) ==
    /\ kind \in FaultKinds /\ faults < MaxFaults
    /\ faults' = faults + 1

\* Another process has looked at the row of the key and is not done with it.
Overlaps(p) == \E q \in Processes \ {p} : /\ pc[q] \notin {"idle", "select", "suppress"}
                                            /\ Key(q) = Key(p)
NoteOverlap(p) == unsure' = IF Overlaps(p) THEN unsure \cup {Key(p)} ELSE unsure

Begin(p, calls) ==
    /\ pc[p] = "idle" /\ calls \in duties[p]
    /\ task' = [task EXCEPT ![p] = Head(calls)]
    /\ rest' = [rest EXCEPT ![p] = Tail(calls)]
    /\ owed' = owed \cup ({calls[i].key : i \in 2..Len(calls)} \cap ReportKeys)
    /\ GoTo(p, "select")
    /\ UNCHANGED <<tables, outside, late, unsure, faults, forgotten>>

-----------------------------------------------------------------------------
(* Reports: _send_once around reserve_report and finish_report.            *)

\* Mutant of IsReserved: what was sent is not remembered.
IsReservedOnly(k, content) ==
    LET row == report_delivery[k]
    IN  row # NoRow /\ row.hash = content /\ row.status = "reserved" /\ ~ row.lapsed

\* The content is mailed, or somebody has been at it for less than 15 minutes.
IsReserved(k, content) ==
    LET row == report_delivery[k]
    IN  row # NoRow /\ row.hash = content /\ (row.status = "sent" \/ ~ row.lapsed)

SelectReport(p) ==
    /\ Is(p, "select", Reports)
    /\ IF IsReserved(Key(p), task[p].content)
         THEN Return(p) /\ UNCHANGED unsure
         ELSE GoTo(p, "reserve") /\ NoteOverlap(p) /\ UNCHANGED job
    /\ UNCHANGED <<tables, outside, faults, forgotten>>

\* The UPSERT takes the row whatever it is by now.
Reserve(p) ==
    /\ pc[p] = "reserve"
    /\ report_delivery' = [report_delivery EXCEPT ![Key(p)] =
                             [hash |-> task[p].content, status |-> "reserved", lapsed |-> FALSE]]
    /\ GoTo(p, "send")
    /\ UNCHANGED <<notification_state, outside, job, unsure, faults, forgotten>>

DeliverReport(p) ==
    /\ mailed' = [mailed EXCEPT ![Key(p)] = @ \cup {task[p].content}]
    /\ last' = [last EXCEPT ![Key(p)] = task[p].content]
    /\ UNCHANGED <<duties, alarm, fresh>>

SendReport(p) ==
    /\ Is(p, "send", Reports)
    /\ \/ /\ DeliverReport(p) /\ GoTo(p, "sent")
          /\ UNCHANGED <<unsure, faults>>
       \/ /\ Fault("smtp_down") /\ GoTo(p, "failed")
          /\ UNCHANGED <<outside, unsure>>
       \/ /\ Fault("smtp_lost") /\ DeliverReport(p) /\ GoTo(p, "failed")
          /\ unsure' = unsure \cup {Key(p)}
    /\ UNCHANGED <<tables, job, forgotten>>

\* Mutant of Matches: the WHERE clause has the key only.
MatchesKey(p) == report_delivery[Key(p)] # NoRow

Matches(p) == report_delivery[Key(p)] # NoRow /\ report_delivery[Key(p)].hash = task[p].content

FinishSent(p) ==
    /\ pc[p] = "sent"
    /\ report_delivery' = IF Matches(p)
         THEN [report_delivery EXCEPT ![Key(p)].status = "sent"] ELSE report_delivery
    /\ Return(p)
    /\ UNCHANGED <<notification_state, outside, unsure, faults, forgotten>>

\* Mutant of FinishFailed: the reservation is left behind.
FinishFailedKeepingRow(p) ==
    /\ pc[p] = "failed"
    /\ Raise(p)
    /\ UNCHANGED <<tables, outside, unsure, forgotten, faults>>

FinishFailed(p) ==
    /\ pc[p] = "failed"
    /\ IF Matches(p) /\ report_delivery[Key(p)].status = "reserved"
         THEN /\ report_delivery' = [report_delivery EXCEPT ![Key(p)] = NoRow]
              /\ forgotten' = forgotten \cup {Key(p)}
         ELSE UNCHANGED <<report_delivery, forgotten>>
    /\ Raise(p)
    /\ UNCHANGED <<notification_state, outside, unsure, faults>>

-----------------------------------------------------------------------------
(* Failures and recoveries: incident and recovered.                        *)

IsThrottled(k) == notification_state[k] # NoRow /\ notification_state[k].recent

SelectIncident(p) ==
    /\ Is(p, "select", Incidents)
    /\ IF IsThrottled(Key(p))
         THEN GoTo(p, "suppress") /\ UNCHANGED unsure
         ELSE GoTo(p, "send") /\ NoteOverlap(p)
    /\ UNCHANGED <<tables, outside, job, faults, forgotten>>

\* The occurrence is counted; nobody is told.
Suppress(p) ==
    /\ pc[p] = "suppress"
    /\ Return(p)
    /\ UNCHANGED <<tables, outside, unsure, faults, forgotten>>

\* Mutant of IsOver: recovered_at is not looked at.
IsOverWithoutRow(k) == notification_state[k] = NoRow

IsOver(k) == notification_state[k] = NoRow \/ notification_state[k].recovered

SelectRecovered(p) ==
    /\ Is(p, "select", Recoveries)
    /\ IF IsOver(Key(p))
         THEN Return(p) /\ UNCHANGED unsure
         ELSE GoTo(p, "send") /\ NoteOverlap(p) /\ UNCHANGED job
    /\ UNCHANGED <<tables, outside, faults, forgotten>>

DeliverAlarm(p) ==
    /\ alarm' = [alarm EXCEPT ![Key(p)] = task[p].op]
    /\ fresh' = IF task[p].op = "incident" /\ p \notin late THEN fresh \cup {Key(p)} ELSE fresh
    /\ UNCHANGED <<duties, mailed, last>>

\* An exception leaves incident and recovered before they write.
SendAlarm(p) ==
    /\ Is(p, "send", Incidents \cup Recoveries)
    /\ \/ /\ DeliverAlarm(p) /\ GoTo(p, "record")
          /\ UNCHANGED <<job, unsure, faults>>
       \/ /\ Fault("smtp_down") /\ Fail(p, "smtp")
          /\ UNCHANGED <<outside, unsure>>
       \/ /\ Fault("smtp_lost") /\ DeliverAlarm(p) /\ Fail(p, "smtp")
          /\ unsure' = unsure \cup {Key(p)}
    /\ UNCHANGED <<tables, forgotten>>

\* Mutant of RecordIncident: last_sent_at is not written.
RecordIncidentUndated(p) ==
    /\ Is(p, "record", Incidents)
    /\ notification_state' = [notification_state EXCEPT ![Key(p)] =
                                [recent |-> FALSE, recovered |-> FALSE]]
    /\ Return(p)
    /\ UNCHANGED <<report_delivery, outside, unsure, faults, forgotten>>

\* Mutant of RecordIncident: recovered_at is not cleared.
RecordIncidentRecovered(p) ==
    /\ Is(p, "record", Incidents)
    /\ notification_state' = [notification_state EXCEPT ![Key(p)] =
                                [recent |-> p \notin late,
                                 recovered |-> @ # NoRow /\ @.recovered]]
    /\ Return(p)
    /\ UNCHANGED <<report_delivery, outside, unsure, faults, forgotten>>

\* The time stamp is the one taken after the SELECT.
RecordIncident(p) ==
    /\ Is(p, "record", Incidents)
    /\ notification_state' = [notification_state EXCEPT ![Key(p)] =
                                [recent |-> p \notin late, recovered |-> FALSE]]
    /\ Return(p)
    /\ UNCHANGED <<report_delivery, outside, unsure, faults, forgotten>>

RecordRecovered(p) ==
    /\ Is(p, "record", Recoveries)
    /\ notification_state' = IF notification_state[Key(p)] = NoRow THEN notification_state
         ELSE [notification_state EXCEPT ![Key(p)].recovered = TRUE]
    /\ Return(p)
    /\ UNCHANGED <<report_delivery, outside, unsure, faults, forgotten>>

-----------------------------------------------------------------------------
\* A write is refused (a full disk, a lock held for too long): the exception ends the
\* call, and the callers log it.
WriteFails(p) ==
    /\ pc[p] \in {"reserve", "sent", "failed", "suppress", "record"}
    /\ Fault("database")
    /\ unsure' = unsure \cup {Key(p)}
    /\ Fail(p, "database")
    /\ UNCHANGED <<tables, outside, forgotten>>

Crash(p) ==
    /\ pc[p] # "idle"
    /\ Fault("crash")
    /\ unsure' = unsure \cup {Key(p)}
    /\ Raise(p)
    /\ UNCHANGED <<tables, outside, forgotten>>

\* 15 minutes after a reservation.
Lapse(k) ==
    /\ report_delivery[k] # NoRow
    /\ report_delivery[k].status = "reserved" /\ ~ report_delivery[k].lapsed
    /\ report_delivery' = [report_delivery EXCEPT ![k].lapsed = TRUE]
    /\ unsure' = IF \E p \in Processes : pc[p] # "idle" /\ Key(p) = k
                   THEN unsure \cup {k} ELSE unsure
    /\ UNCHANGED <<notification_state, outside, pc, job, faults, forgotten>>

\* throttle_seconds after a mail of the key.
Cool(k) ==
    /\ k \in fresh \/ IsThrottled(k)
    /\ notification_state' = IF IsThrottled(k)
         THEN [notification_state EXCEPT ![k].recent = FALSE] ELSE notification_state
    /\ fresh' = fresh \ {k}
    /\ late' = late \cup {p \in Processes : pc[p] \in {"send", "record"} /\ Key(p) = k}
    /\ UNCHANGED <<report_delivery, duties, mailed, last, alarm, pc, task, rest, owed, unsure,
                   faults, forgotten>>

Step(p) ==
    \/ SelectReport(p) \/ Reserve(p) \/ SendReport(p) \/ FinishSent(p) \/ FinishFailed(p)
    \/ SelectIncident(p) \/ Suppress(p) \/ SelectRecovered(p)
    \/ SendAlarm(p) \/ RecordIncident(p) \/ RecordRecovered(p)

Next ==
    \/ \E p \in Processes :
          \/ \E calls \in duties[p] : Begin(p, calls)
          \/ Step(p) \/ WriteFails(p) \/ Crash(p)
    \/ \E k \in ReportKeys : Lapse(k)
    \/ \E k \in IncidentKeys : Cool(k)

Spec == Init /\ [][Next]_vars

\* The recoveries a process may have to report, and the keys one does report of.
Watch(p) == {t \in Recoveries : \E d \in Duties : <<t>> \in d[p]}
Watched(k) == \E p \in Processes : \E t \in Watch(p) : t.key = k /\ <<t>> \in duties[p]

\* Calls end, and a process whose duty it is to report recoveries keeps doing so: the
\* daemon after every turn of its loop.
Fairness ==
    \A p \in Processes :
        /\ WF_vars(Step(p))
        /\ \A t \in Watch(p) : SF_vars(Begin(p, <<t>>))

FairSpec == Spec /\ Fairness

-----------------------------------------------------------------------------
(* Properties.                                                             *)

\* A row says "sent" only of a content that reached the mailbox.
SentIsMailed ==
    \A k \in ReportKeys :
        report_delivery[k] # NoRow /\ report_delivery[k].status = "sent"
            => report_delivery[k].hash \in mailed[k]

\* docs/MAIL-REPORTS-RU.md: a failed SMTP session lifts the reservation.  One that
\* stands is in the hand of the process that made it.
ReservationIsHeld ==
    \A k \in ReportKeys :
        /\ report_delivery[k] # NoRow /\ report_delivery[k].status = "reserved"
        /\ k \notin unsure
        => \E p \in Processes :
               /\ Is(p, "send", Reports) \/ pc[p] \in {"sent", "failed"}
               /\ Key(p) = k /\ task[p].content = report_delivery[k].hash

\* docs/MAIL-REPORTS-RU.md: a report is mailed when its content changed and the weekly
\* one once a week; the exceptions are named by unsure and forgotten.
ReportsOnChange ==
    \A p \in Processes :
        Is(p, "send", Reports) /\ last[Key(p)] = task[p].content
            => Key(p) \in unsure \cup forgotten

\* worker.process_item mails the report of a computer and then, in the same try block,
\* the change of its owner.  The second mail is sent, or still to be sent, unless the
\* call for the first one failed, which nobody makes up for, or a fault hit its own key.
OwedIsMailed ==
    \A k \in owed \ (unsure \cup forgotten) :
        \/ mailed[k] # {}
        \/ \E p \in Processes : pc[p] # "idle" /\ (Key(p) = k \/ k \in Follows(p))

\* No second mail of an incident within throttle_seconds, with the same exceptions.
IncidentsSpaced ==
    \A p \in Processes :
        Is(p, "send", Incidents) /\ p \notin late /\ Key(p) \in fresh => Key(p) \in unsure

\* A recovery is announced once, and only of a failure that was.
RecoveryFollowsIncident ==
    \A p \in Processes :
        Is(p, "send", Recoveries) => alarm[Key(p)] = "incident" \/ Key(p) \in unsure

\* docs/ARCHITECTURE-RU.md: a dead letter is announced immediately.
DeadLetterAnnounced ==
    \A p \in Processes : pc[p] = "suppress" => task[p].content # "dead_letter"

\* docs/ARCHITECTURE-RU.md: a recovery sends a mail of its own.
IncidentsRecover ==
    \A k \in UNION {{t.key : t \in Watch(p)} : p \in Processes} :
        Watched(k) /\ alarm[k] = "incident" /\ k \notin unsure
            ~> alarm[k] = "recovered" \/ k \in unsure

=============================================================================
