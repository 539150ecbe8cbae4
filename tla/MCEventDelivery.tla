--------------------------- MODULE MCEventDelivery ---------------------------
(* Instances of EventDelivery for TLC. *)
EXTENDS EventDelivery

CONSTANTS copied, report, alarm

Mailing(category) == CHOOSE x \in Mailings : x.category = category

\* A notice somebody else got as well, the report of a computer whose name says ERROR, an
\* incident.
HeaderOf ==
    [m \in OtherMail |->
       CASE m = copied -> [Notice(Mailing("computer-report"), {}) EXCEPT !.sole = FALSE]
         [] m = report -> Notice(Mailing("computer-report"), {"ERROR"})
         [] m = alarm -> Notice(Mailing("error"), {})]

\* A parent folder of another name: none of LEGACY_REPORT_FOLDERS exists.
InboxOnly == <<"INBOX">>

\* The parent folder of the example configuration: LEGACY_REPORT_FOLDERS names the
\* destinations Errors and Reports.
ExampleFolders == <<"INBOX", "Errors", "Reports">>

=============================================================================
