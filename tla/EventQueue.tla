----------------------------- MODULE EventQueue -----------------------------
(***************************************************************************)
(* The durable queue of the gateway: the "events" and "watermarks" tables  *)
(* of the SQLite database every process of the gateway opens (queue.py).   *)
(*                                                                         *)
(* The connection is opened with isolation_level=None, so the "with        *)
(* self.db" blocks of queue.py open no transaction and every SQL statement *)
(* commits on its own.  This module has one operator per statement; the    *)
(* processes that interleave them are in EventProcessing.                  *)
(*                                                                         *)
(* Rows are abstracted to what the statements compare:                     *)
(*   status    the status column, "absent" when there is no row;           *)
(*   attempts  the attempts column, saturated at MaxAttempts (it is only   *)
(*             ever tested with >=);                                       *)
(*   elapsed   whether the one deadline that matters in that status lies   *)
(*             in the past: next_attempt_at (pending, retry), lease_until  *)
(*             (processing), updated_at + retention (the others);          *)
(*   earlier   the order of (received_at, event_id) between present rows.  *)
(***************************************************************************)
EXTENDS Integers

CONSTANTS
    Events,       \* canonical event_ids
    Computers,    \* computer names
    NoEvent,      \* the watermark of a computer that has none
    ComputerOf,   \* the computer an event describes
    Generation,   \* payload event_generation
    ObservedAt,   \* payload observed_at
    MaxAttempts   \* queue.max_attempts

ASSUME EventsAssumption ==
    /\ NoEvent \notin Events
    /\ ComputerOf \in [Events -> Computers]
    /\ Generation \in [Events -> Int]
    /\ ObservedAt \in [Events -> Int]

\* config.py: max_attempts is at least 1.
ASSUME MaxAttemptsAssumption == MaxAttempts \in Nat \ {0}

VARIABLES status, attempts, elapsed, earlier, watermark

queueVars == <<status, attempts, elapsed, earlier, watermark>>
rowVars == <<status, attempts, elapsed, earlier>>

Terminal == {"processed", "rejected", "dead_letter", "stale"}
Purgeable == {"processed", "rejected", "stale"}
Waiting == {"pending", "retry"}
Statuses == Waiting \cup {"processing"} \cup Terminal

Present == {e \in Events : status[e] # "absent"}

QueueTypeOK ==
    /\ status \in [Events -> Statuses \cup {"absent"}]
    /\ attempts \in [Events -> 0..MaxAttempts]
    /\ elapsed \in [Events -> BOOLEAN]
    /\ earlier \subseteq Present \X Present
    /\ watermark \in [Computers -> Events \cup {NoEvent}]

QueueInit ==
    /\ status = [e \in Events |-> "absent"]
    /\ attempts = [e \in Events |-> 0]
    /\ elapsed = [e \in Events |-> FALSE]
    /\ earlier = {}
    /\ watermark = [c \in Computers |-> NoEvent]

-----------------------------------------------------------------------------
(* The order the watermark keeps: e is at least as new as f.               *)

AtLeastAsNew(e, f) ==
    \/ Generation[e] > Generation[f]
    \/ Generation[e] = Generation[f] /\ ObservedAt[e] >= ObservedAt[f]

(* Mutated forms, here and below, stand right before what they mutate: each is a *)
(* bug the code could plausibly have, that some property must notice.            *)

\* The comparison the wrong way round.
IsStaleSwapped(e) ==
    /\ watermark[ComputerOf[e]] # NoEvent
    /\ AtLeastAsNew(e, watermark[ComputerOf[e]])

\* "<" for "<=": the very observation of the watermark passes again.
IsStaleStrict(e) ==
    /\ watermark[ComputerOf[e]] # NoEvent
    /\ ~ AtLeastAsNew(e, watermark[ComputerOf[e]])

\* stale_reason: the watermark of the computer is at least as new.
IsStale(e) ==
    /\ watermark[ComputerOf[e]] # NoEvent
    /\ AtLeastAsNew(watermark[ComputerOf[e]], e)

-----------------------------------------------------------------------------
(* The statements.                                                         *)

\* INSERT OR IGNORE: an absent row only; it is due at once.
InsertRow(e) ==
    /\ status[e] = "absent"
    /\ status' = [status EXCEPT ![e] = "pending"]
    /\ attempts' = [attempts EXCEPT ![e] = 0]
    /\ elapsed' = [elapsed EXCEPT ![e] = TRUE]
    /\ earlier' = earlier \cup (Present \X {e})
    /\ UNCHANGED watermark

\* An expired lease is not looked for.
DueWithoutLease(e) == status[e] \in Waiting /\ elapsed[e]

\* The condition on the status leaves out the wrong one.
DueDeadLetters(e) ==
    status[e] \in Waiting \cup {"processing", "dead_letter"} /\ elapsed[e]

Due(e) == status[e] \in Waiting \cup {"processing"} /\ elapsed[e]

\* The row the SELECT of claim returns: the first due one.
FirstDue(e) == Due(e) /\ ~ \E f \in Events : Due(f) /\ <<f, e>> \in earlier

\* The UPDATE of claim took the row: attempts + 1 and a fresh lease.
LeaseRow(e) ==
    /\ status' = [status EXCEPT ![e] = "processing"]
    /\ attempts' = [attempts EXCEPT ![e] =
                      IF @ < MaxAttempts THEN @ + 1 ELSE MaxAttempts]
    /\ elapsed' = [elapsed EXCEPT ![e] = FALSE]
    /\ UNCHANGED <<earlier, watermark>>

\* The UPDATEs of finish and of retry have no condition but the event_id: they
\* overwrite whatever status the row has, and do nothing to a row that is gone.
SetStatus(e, s) ==
    /\ status' = [status EXCEPT ![e] = IF @ = "absent" THEN @ ELSE s]
    /\ elapsed' = [elapsed EXCEPT ![e] = FALSE]
    /\ UNCHANGED <<attempts, earlier, watermark>>

\* One attempt too early.
RetryStatusEarly(tries) == IF tries >= MaxAttempts - 1 THEN "dead_letter" ELSE "retry"

\* retry: the attempts the claimer read decide, not the row's.
RetryStatus(tries) == IF tries >= MaxAttempts THEN "dead_letter" ELSE "retry"

\* The UPSERT of finish: the watermark is replaced, whatever it was.
SetWatermark(e) ==
    /\ watermark' = [watermark EXCEPT ![ComputerOf[e]] = e]
    /\ UNCHANGED rowVars

\* purge: one DELETE of every row of a purgeable status past its retention.
Expired == {e \in Events : status[e] \in Purgeable /\ elapsed[e]}

PurgeRows ==
    /\ Expired # {}
    /\ status' = [e \in Events |-> IF e \in Expired THEN "absent" ELSE status[e]]
    /\ attempts' = [e \in Events |-> IF e \in Expired THEN 0 ELSE attempts[e]]
    /\ elapsed' = [e \in Events |-> IF e \in Expired THEN FALSE ELSE elapsed[e]]
    /\ earlier' = earlier \cap ((Events \ Expired) \X (Events \ Expired))
    /\ UNCHANGED watermark

\* The clock passes the deadline of a row.
DeadlinePasses(e) ==
    /\ status[e] \in Statuses \ {"pending"}
    /\ ~ elapsed[e]
    /\ elapsed' = [elapsed EXCEPT ![e] = TRUE]
    /\ UNCHANGED <<status, attempts, earlier, watermark>>

=============================================================================
