---------------------------- MODULE EventDelivery ----------------------------
(***************************************************************************)
(* The way of an event from the agent of one computer into the queue: over *)
(* HTTPS, else by mail and the collector, else into the local queue of the *)
(* agent, whose files later runs send first.  At least once, over whatever *)
(* is lost, refused, repeated or interrupted.                              *)
(*                                                                         *)
(* Every run of the agent collects an event of its own.  Those in Events   *)
(* are followed; a run with NoEvent has one that is not.                   *)
(***************************************************************************)
EXTENDS MailCollector

CONSTANTS
    NoEvent,
    SmtpEnabled,    \* EnableSmtpFallback
    MaxBatch,       \* MaxQueueAttemptsPerRun
    MaxLocal        \* the 200 files of the local queue

ASSUME DeliveryAssumption ==
    /\ NoEvent \notin Events
    /\ SmtpEnabled \in BOOLEAN
    /\ MaxBatch \in Nat \ {0} /\ MaxLocal \in Nat \ {0}

VARIABLES
    agent,      \* where the agent is
    own,        \* the event this run collected
    sending,    \* the envelope Send-Envelope has
    batch,      \* the files of Send-LocalQueue still to be tried
    local,      \* the files of the local queue
    nth,        \* how many events were collected up to this one, which is the order of
                \* LastWriteTimeUtc of the files; 0: it is not yet
    online,     \* whether the computer has a network
    handed      \* history: events the agent takes for delivered

agentVars == <<agent, own, sending, batch, local, nth, handed, online>>
collectorVars == <<mailbox, queue, run>>
vars == <<collectorVars, faults, agentVars>>

Collected == {e \in Events : nth[e] > 0}

TypeOK ==
    /\ CollectorTypeOK
    /\ agent \in {"idle", "queue", "https", "smtp", "sent", "save"}
    /\ own \in Events \cup {NoEvent}
    /\ sending \in Events \cup {NoEvent}
    /\ agent \in {"https", "smtp", "sent", "save"} <=> sending # NoEvent
    /\ batch \subseteq Events /\ local \subseteq Events
    /\ Cardinality(local) <= MaxLocal
    /\ nth \in [Events -> Nat] /\ handed \subseteq Collected /\ online \in BOOLEAN

Init ==
    /\ CollectorInit
    /\ agent = "idle" /\ own = NoEvent /\ sending = NoEvent
    /\ batch = {} /\ local = {}
    /\ nth = [e \in Events |-> 0] /\ handed = {} /\ online = TRUE

Earliest(files, k) == {e \in files : Cardinality({f \in files : nth[f] < nth[e]}) < k}
Latest(files, k) == {e \in files : Cardinality({f \in files : nth[f] > nth[e]}) < k}

AgentGoTo(location) == agent' = location

EndAgent == AgentGoTo("idle") /\ own' = NoEvent /\ sending' = NoEvent /\ batch' = {}

-----------------------------------------------------------------------------
(* A run of the agent.                                                     *)

StartAgent(e) ==
    /\ agent = "idle"
    /\ e # NoEvent \/ local # {}
    /\ own' = e
    /\ nth' = IF e = NoEvent THEN nth ELSE [nth EXCEPT ![e] = Cardinality(Collected) + 1]
    /\ batch' = Earliest(local, MaxBatch)
    /\ AgentGoTo("queue")
    /\ UNCHANGED <<collectorVars, faults, sending, local, handed, online>>

\* Send-LocalQueue: the next file.
SendQueued ==
    /\ agent = "queue"
    /\ \E e \in Earliest(batch, 1) : sending' = e /\ batch' = batch \ {e}
    /\ AgentGoTo("https")
    /\ UNCHANGED <<collectorVars, faults, own, local, nth, handed, online>>

SendOwn ==
    /\ agent = "queue" /\ batch = {} /\ own # NoEvent
    /\ sending' = own
    /\ AgentGoTo("https")
    /\ UNCHANGED <<collectorVars, faults, own, batch, local, nth, handed, online>>

\* Files of more than 30 days are among those HTTPS refuses.
Aged == SUBSET (local \cap old)

\* Of an event that is not followed, all that matters is that saving it drops old files.
SendOther ==
    /\ agent = "queue" /\ batch = {} /\ own = NoEvent
    /\ \E aged \in Aged : local' = local \ aged
    /\ EndAgent
    /\ UNCHANGED <<collectorVars, faults, nth, handed, online>>

\* Send-Envelope returns nothing: the pass over the local queue stops, an own event is
\* saved.
Unsent ==
    IF sending = own
      THEN AgentGoTo("save") /\ UNCHANGED <<sending, batch>>
      ELSE AgentGoTo("queue") /\ sending' = NoEvent /\ batch' = {}

\* Mutant of Https: a refused envelope is not mailed.
HttpsFinal ==
    /\ agent = "https"
    /\ IF online /\ Accepts(sending, TRUE)
         THEN Stored(sending) /\ AgentGoTo("sent") /\ UNCHANGED <<sending, batch>>
         ELSE Unsent /\ UNCHANGED status
    /\ UNCHANGED <<mailbox, run, old, faults, own, local, nth, handed, online>>

\* The POST and the API behind it: accepted or known already, accepted with the answer
\* lost, not reached, refused.
Https ==
    /\ agent = "https"
    /\ \/ /\ online /\ Accepts(sending, TRUE)
          /\ Stored(sending)
          /\ (AgentGoTo("sent") /\ UNCHANGED faults) \/ (AgentGoTo("smtp") /\ Fault)
       \/ /\ ~ (online /\ Accepts(sending, TRUE))
          /\ AgentGoTo("smtp") /\ UNCHANGED <<status, faults>>
       \/ AgentGoTo("smtp") /\ Fault /\ UNCHANGED status
    /\ UNCHANGED <<mailbox, run, old, own, sending, batch, local, nth, handed, online>>

Mailed == transit' = transit \cup {sending}

Smtp ==
    /\ agent = "smtp"
    /\ \/ /\ online /\ SmtpEnabled
          /\ Mailed
          /\ (AgentGoTo("sent") /\ UNCHANGED <<sending, batch, faults>>) \/ (Unsent /\ Fault)
       \/ /\ ~ (online /\ SmtpEnabled)
          /\ Unsent /\ UNCHANGED <<transit, faults>>
       \/ Unsent /\ Fault /\ UNCHANGED transit
    /\ UNCHANGED <<mail, uidnext, deleted, queue, run, own, local, nth, handed, online>>

\* Send-Envelope names its transport.
Sent ==
    /\ agent = "sent"
    /\ handed' = handed \cup {sending}
    /\ IF sending = own
         THEN EndAgent /\ UNCHANGED local
         ELSE /\ local' = local \ {sending}
              /\ AgentGoTo("queue") /\ sending' = NoEvent
              /\ UNCHANGED <<own, batch>>
    /\ UNCHANGED <<collectorVars, faults, nth, online>>

\* Mutant of Save: only what is too old goes.
SaveUnbounded ==
    /\ agent = "save"
    /\ \E aged \in Aged : local' = (local \ aged) \cup {own}
    /\ EndAgent
    /\ UNCHANGED <<collectorVars, faults, nth, handed, online>>

\* Save-QueuedEnvelope: what is too old goes, and then what is too much.
Save ==
    /\ agent = "save"
    /\ \E aged \in Aged : local' = Latest((local \ aged) \cup {own}, MaxLocal)
    /\ EndAgent
    /\ UNCHANGED <<collectorVars, faults, nth, handed, online>>

\* The computer is switched off: an event that was not saved is gone.
AgentCrash ==
    /\ agent # "idle"
    /\ Fault
    /\ EndAgent
    /\ UNCHANGED <<collectorVars, local, nth, handed, online>>

\* max_clock_skew_seconds after sent_at, or a rotation of keys.
GrowOld(e) ==
    /\ e \in (local \cup {own}) \ (old \cup {NoEvent})
    /\ old' = old \cup {e}
    /\ UNCHANGED <<mailbox, status, run, faults, agentVars>>

Connect ==
    /\ online' = ~ online
    /\ IF online THEN Fault ELSE UNCHANGED faults
    /\ UNCHANGED <<collectorVars, agent, own, sending, batch, local, nth, handed>>

\* The event of the next run that is followed: which name it gets does not matter.
Named == IF Collected = Events THEN {} ELSE {CHOOSE e \in Events : e \notin Collected}

AgentStep == SendQueued \/ SendOwn \/ SendOther \/ Https \/ Smtp \/ Sent \/ Save

-----------------------------------------------------------------------------
Next ==
    \/ CollectorNext /\ UNCHANGED agentVars
    \/ \E e \in Named \cup {NoEvent} : StartAgent(e)
    \/ AgentStep \/ AgentCrash \/ Connect
    \/ \E e \in Events : GrowOld(e)

Spec == Init /\ [][Next]_vars

\* The timer starts collector after collector and the task agent after agent; what
\* was started goes on, unless a fault ends it; accepted mail arrives.  Nothing is
\* assumed of the daemon.
Fairness ==
    /\ WF_vars(CollectorStep /\ UNCHANGED agentVars)
    /\ \A m \in Messages : WF_vars(Arrive(m) /\ UNCHANGED agentVars)
    /\ WF_vars(AgentStep)
    /\ WF_vars(~ online /\ Connect)
    /\ WF_vars(StartAgent(NoEvent))

FairSpec == Spec /\ Fairness

-----------------------------------------------------------------------------
(* Properties.                                                             *)

Unread(e) == e \in transit \/ \E c \in In("INBOX") : c.msg = e

\* docs/AGENT-FLOW-RU.md: at-least-once transport.  What the agent has taken out of its
\* hands is stored, or its mail still is to be read.
HandedIsKept == \A e \in handed : status[e] # "absent" \/ Unread(e)

\* COPY, STORE and EXPUNGE may be cut short anywhere: a message never loses the last copy
\* that no EXPUNGE takes, and mail of others keeps that in the inbox
\* (docs/MAIL-REPORTS-RU.md), unless it is longer than max_message_bytes.
IsOthers(m) == MeantFolder(Header(m)) = "INBOX" /\ ~ Header(m).big
Safe(m, copies) == \E c \in copies : c.msg = m /\ (IsOthers(m) => c.folder = "INBOX")
MailStays == \A m \in Messages : Safe(m, mail \ deleted) => Safe(m, (mail \ deleted)')
MailIsKept == [][MailStays]_vars

\* docs/MAIL-REPORTS-RU.md, the table of subjects and folders, whatever names a subject
\* mentions: relay mail in Reports is that of an event that was processed, a notice is
\* nowhere but in the inbox and in the folder of its tag, mail of others in the inbox; and
\* what was found in an archived folder is trashed.
Trashed == IF Archived = {} THEN {} ELSE {"Trash"}
FiledAsMeant ==
    \A c \in mail :
        /\ c.msg \in Events /\ c.folder = "Reports" => status[c.msg] = "done"
        /\ c.msg \in OtherMail /\ (Header(c.msg) \in Notices \/ IsOthers(c.msg))
             => c.folder \in {"INBOX", MeantFolder(Header(c.msg))} \cup Trashed

\* docs/MAIL-REPORTS-RU.md: a relay message and the [ERROR] about it stay in Errors, to be
\* looked at by hand.
ErrorsStay == \A c \in In("Errors") : c \in mail'
ErrorsKept == [][ErrorsStay]_vars

\* What the agent has handed over gets into the queue in the end, and nothing stays in
\* the local queue forever.
HandedIsStored == \A e \in Events : e \in handed ~> status[e] # "absent"
LocalQueueDrains == \A e \in Events : e \in local ~> e \notin local

=============================================================================
