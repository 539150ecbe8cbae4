---------------------------- MODULE MailCollector ----------------------------
(***************************************************************************)
(* The mail collector (mail.collect): a run of the timer reads the source  *)
(* folders one after the other, routes what it finds, puts relayed events  *)
(* into the queue and moves mail with COPY, STORE and EXPUNGE, three       *)
(* requests between which it may die.  One run at a time.                  *)
(*                                                                         *)
(* A copy of a message is known by its folder and UID, which grows with    *)
(* every copy the folder gets.  COPY takes the flags along.  Of a message  *)
(* there is the header; module MailRouting says what is made of it.  The   *)
(* mail of an event carries its envelope.  Of the queue there is a status  *)
(* per event, "open" until somebody has settled it; module EventProcessing *)
(* opens that.                                                             *)
(***************************************************************************)
EXTENDS MailRouting, FiniteSets

CONSTANTS
    Events,      \* an event, and the mail its agent relays it with
    OtherMail,
    OtherHeader, \* the header of other mail
    Sources,     \* source_folders, in order
    Archived,    \* those of LEGACY_REPORT_FOLDERS: whatever is there is legacy
    MaxPerRun,   \* imap.max_messages_per_run
    MaxFaults,   \* bound on failures of any process or connection
    NoCopy

Messages == Events \cup OtherMail
Folders == {"INBOX", "Offline Relay", "Reports", "Weekly Reports", "Errors", "Trash"}

Header(m) == IF m \in Events THEN RelayMail({}) ELSE OtherHeader[m]

\* A copy is moved to another folder than its own: what can be a destination is archived
\* when it is read.
ASSUME MailAssumption ==
    /\ Events \cap OtherMail = {}
    /\ OtherHeader \in [OtherMail -> Headers]
    /\ Sources \in Seq(Folders \ {"Trash"})
    /\ Archived \subseteq Folders \ {"INBOX"}
    /\ \A i \in 1..Len(Sources) :
          Sources[i] \in {"Reports", "Weekly Reports", "Errors"} => Sources[i] \in Archived
    /\ MaxPerRun \in Nat \ {0} /\ MaxFaults \in Nat

Copies == [msg : Messages, folder : Folders, uid : Nat]

ASSUME NoCopyAssumption == NoCopy \notin Copies

VARIABLES
    transit,   \* messages the mail servers have accepted
    mail,      \* the copies in the mailbox
    uidnext,   \* per folder, the next UID
    deleted,   \* copies flagged \Deleted
    status,    \* per event: "absent", "open", "done" (processed or stale) or "failed"
    old,       \* events whose envelope HTTPS no longer takes
    pc, source, scanned,
    todo,      \* the rest of the UIDs of the search
    copy,      \* the copy in hand
    target,    \* its destination
    faults

mailbox == <<transit, mail, uidnext, deleted>>
queue == <<status, old>>
run == <<pc, source, scanned, todo, copy, target>>

CollectorTypeOK ==
    /\ transit \subseteq Messages
    /\ mail \subseteq Copies
    /\ uidnext \in [Folders -> Nat]
    /\ \A c \in mail : c.uid < uidnext[c.folder]
    /\ deleted \subseteq mail
    /\ status \in [Events -> {"absent", "open", "done", "failed"}]
    /\ old \subseteq Events
    /\ pc \in {"idle", "fetch", "store", "wait", "copy", "flag", "expunge"}
    /\ source \in 0..Len(Sources)
    /\ scanned \in 0..MaxPerRun
    /\ todo \subseteq Copies
    /\ copy \in Copies \cup {NoCopy}
    /\ pc \in {"store", "wait", "copy", "flag", "expunge"} <=> copy # NoCopy
    /\ target \in Folders \cup {"none"}
    /\ pc \in {"copy", "flag", "expunge"} <=> target # "none"
    /\ faults \in 0..MaxFaults

\* Of other mail, one message is under way (a bound).
CollectorInit ==
    /\ \E m \in OtherMail : transit = {m}
    /\ mail = {}
    /\ uidnext = [f \in Folders |-> 1]
    /\ deleted = {}
    /\ status = [e \in Events |-> "absent"]
    /\ old = {}
    /\ pc = "idle" /\ source = 0 /\ scanned = 0
    /\ todo = {} /\ copy = NoCopy /\ target = "none"
    /\ faults = 0

In(f) == {c \in mail : c.folder = f}
Oldest(copies, k) == {c \in copies : Cardinality({d \in copies : d.uid < c.uid}) < k}

Fault == faults < MaxFaults /\ faults' = faults + 1

-----------------------------------------------------------------------------
(* The queue, as the transports see it.                                    *)

\* Mutant of Accepts: mail must be fresh too.
AcceptsFresh(e, enforce_freshness) == e \notin old

\* decode_event: an envelope that is too old, or whose key was retired, is refused by
\* HTTPS and taken by mail.
Accepts(e, enforce_freshness) == enforce_freshness => e \notin old

\* enqueue: INSERT OR IGNORE.
Stored(e) == status' = [status EXCEPT ![e] = IF @ = "absent" THEN "open" ELSE @]

\* Some processor settles an event.
Settle(e) ==
    /\ status[e] = "open"
    /\ \E s \in {"done", "failed"} : status' = [status EXCEPT ![e] = s]
    /\ UNCHANGED <<mailbox, old, run, faults>>

Arrive(m) ==
    /\ m \in transit
    /\ transit' = transit \ {m}
    /\ mail' = mail \cup {[msg |-> m, folder |-> "INBOX", uid |-> uidnext["INBOX"]]}
    /\ uidnext' = [uidnext EXCEPT !["INBOX"] = @ + 1]
    /\ UNCHANGED <<deleted, queue, run, faults>>

-----------------------------------------------------------------------------
(* A run.                                                                  *)

GoTo(location) == pc' = location

EndRun ==
    /\ GoTo("idle")
    /\ source' = 0 /\ scanned' = 0
    /\ todo' = {} /\ copy' = NoCopy /\ target' = "none"

\* Mutant of Room: the limit is reached one message early.
RoomShort == MaxPerRun - scanned - 1

Room == MaxPerRun - scanned

\* SELECT and SEARCH ALL of the first or the next folder, or the end of the run.
SelectFolder ==
    /\ pc \in {"idle", "fetch"} /\ todo = {}
    /\ IF scanned >= MaxPerRun \/ source = Len(Sources)
         THEN EndRun
         ELSE /\ source' = source + 1
              /\ todo' = Oldest(In(Sources[source + 1]), Room)
              /\ GoTo("fetch")
              /\ UNCHANGED <<scanned, copy, target>>
    /\ UNCHANGED <<mailbox, queue, faults>>

\* A copy is to leave for a folder; out of an archived one, for the trash.
File(c, folder) ==
    /\ copy' = c
    /\ target' = IF c.folder \in Archived THEN "Trash" ELSE folder
    /\ GoTo("copy")

\* FETCH and classify.  A copy that is gone, or that the server does not give out this time,
\* is passed over; a message without a route stays where it is, unless its folder is
\* archived.  A relay of another event than those of the instance does not decode.
Fetch(c) ==
    /\ pc = "fetch" /\ Oldest(todo, 1) = {c}
    /\ todo' = todo \ {c}
    /\ scanned' = scanned + 1
    /\ LET route == Route(Header(c.msg))
           relayed == route = "relay" /\ c.msg \in Events
           left == route = "none" /\ c.folder \notin Archived
       IN  \/ (c \notin mail \/ left) /\ UNCHANGED <<pc, copy, target, faults>>
           \/ c \in mail /\ Fault /\ UNCHANGED <<pc, copy, target>>
           \/ /\ c \in mail /\ relayed
              /\ copy' = c /\ GoTo("store") /\ UNCHANGED <<target, faults>>
           \/ /\ c \in mail /\ ~ relayed /\ ~ left
              /\ File(c, IF route = "none" THEN "Trash" ELSE FolderOf(route))
              /\ UNCHANGED faults
    /\ UNCHANGED <<mailbox, queue, source>>

\* Mutant of Store: every duplicate is taken for a processed one.
StoreTrustingDuplicates ==
    /\ pc = "store"
    /\ Stored(copy.msg)
    /\ IF status[copy.msg] = "absent"
         THEN GoTo("wait") /\ UNCHANGED <<copy, target>>
         ELSE File(copy, "Reports")
    /\ UNCHANGED <<mailbox, old, source, scanned, todo, faults>>

\* ingest_message up to its loop: decode, enqueue, and what is known of a duplicate.
Store ==
    /\ pc = "store"
    /\ IF Accepts(copy.msg, FALSE)
         THEN /\ Stored(copy.msg)
              /\ CASE status[copy.msg] = "done" -> File(copy, "Reports")
                   [] status[copy.msg] = "failed" -> File(copy, "Errors")
                   [] OTHER -> GoTo("wait") /\ UNCHANGED <<copy, target>>
         ELSE File(copy, "Errors") /\ UNCHANGED status
    /\ UNCHANGED <<mailbox, old, source, scanned, todo, faults>>

\* The loop of ingest_message: it finds the event settled, by itself or by another
\* processor, or gives up after a temporary failure or at its deadline.
Await ==
    /\ pc = "wait"
    /\ \/ status[copy.msg] = "done" /\ File(copy, "Reports") /\ UNCHANGED status
       \/ status[copy.msg] = "failed" /\ File(copy, "Errors") /\ UNCHANGED status
       \/ /\ status[copy.msg] = "open"
          /\ \/ status' = [status EXCEPT ![copy.msg] = "done"] /\ File(copy, "Reports")
             \/ status' = [status EXCEPT ![copy.msg] = "failed"] /\ File(copy, "Errors")
       \/ File(copy, "Errors") /\ UNCHANGED status
    /\ UNCHANGED <<mailbox, old, source, scanned, todo, faults>>

\* Mutant of Copy: the answer to COPY is not looked at.
CopyUnchecked ==
    /\ pc = "copy"
    /\ GoTo("flag")
    /\ \/ UNCHANGED <<mail, uidnext, deleted>>
       \/ mail' = mail \cup {[copy EXCEPT !.folder = target, !.uid = uidnext[target]]}
          /\ uidnext' = [uidnext EXCEPT ![target] = @ + 1] /\ UNCHANGED deleted
    /\ UNCHANGED <<transit, queue, source, scanned, todo, copy, target, faults>>

\* move_uid, COPY: the new copy has the flags of the old one.
Copy ==
    /\ pc = "copy"
    /\ LET new == [copy EXCEPT !.folder = target, !.uid = uidnext[target]]
       IN  /\ mail' = mail \cup {new}
           /\ deleted' = IF copy \in deleted THEN deleted \cup {new} ELSE deleted
    /\ uidnext' = [uidnext EXCEPT ![target] = @ + 1]
    /\ GoTo("flag")
    /\ UNCHANGED <<transit, queue, source, scanned, todo, copy, target, faults>>

\* move_uid, STORE.
Flag ==
    /\ pc = "flag"
    /\ deleted' = deleted \cup {copy}
    /\ GoTo("expunge")
    /\ UNCHANGED <<transit, mail, uidnext, queue, source, scanned, todo, copy, target, faults>>

\* move_uid, EXPUNGE: whatever is flagged in the folder goes.
Expunge ==
    /\ pc = "expunge"
    /\ mail' = mail \ (deleted \cap In(copy.folder))
    /\ deleted' = deleted \ In(copy.folder)
    /\ GoTo("fetch")
    /\ copy' = NoCopy /\ target' = "none"
    /\ UNCHANGED <<transit, uidnext, queue, source, scanned, todo, faults>>

\* The connection, the database or the process fails: the run is over.
AbortRun ==
    /\ pc # "idle"
    /\ Fault
    /\ EndRun
    /\ UNCHANGED <<mailbox, queue>>

CollectorStep ==
    \/ SelectFolder \/ (\E c \in todo : Fetch(c)) \/ Store \/ Await \/ Copy \/ Flag \/ Expunge

CollectorNext ==
    \/ CollectorStep \/ AbortRun
    \/ \E m \in Messages : Arrive(m)
    \/ \E e \in Events : Settle(e)

=============================================================================
