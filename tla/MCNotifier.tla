----------------------------- MODULE MCNotifier -----------------------------
(* Instances of Notifier for TLC. *)
EXTENDS Notifier

CONSTANTS daemon, collector, computer, change, processing, queue, imap, h1, h2

Report(k, content) == [op |-> "report", key |-> k, content |-> content]
Failure(k, content) == [op |-> "incident", key |-> k, content |-> content]
Recovery(k) == [op |-> "recovered", key |-> k, content |-> "recovery"]

\* The daemon and the collector, or two runs of the collector (timer and command line),
\* mail the reports of a computer; one of its events confirms an owner.
Reporting ==
    [p \in Processes |->
       {<<Report(computer, h1)>>, <<Report(computer, h2), Report(change, h1)>>}]

\* Both report failures of the events of a computer; each watches a component of its own.
Alarming ==
    [p \in Processes |->
       {<<Failure(processing, "failure")>>}
         \cup IF p = daemon THEN {<<Failure(queue, "failure")>>, <<Recovery(queue)>>}
                             ELSE {<<Failure(imap, "failure")>>, <<Recovery(imap)>>}]

\* Two runs of the collector watch the same mailbox.
Watching == [p \in Processes |-> {<<Failure(imap, "failure")>>, <<Recovery(imap)>>}]

AllDuties == {Reporting, Alarming, Watching}

CaughtErrors == {<<"smtp", imap>>, <<"database", queue>>}

\* The failures of the events of one computer.
EventDuties ==
    {[p \in Processes |->
        {<<Failure(processing, "failure")>>, <<Failure(processing, "dead_letter")>>}]}

=============================================================================
