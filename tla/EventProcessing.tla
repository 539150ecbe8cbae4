--------------------------- MODULE EventProcessing ---------------------------
(***************************************************************************)
(* The processes that drain the event queue.  A processor is a process     *)
(* that runs EventQueue.claim and then process_item on what it claimed:    *)
(* the worker daemon (worker.run_forever, restarted by systemd) or a mail  *)
(* collector, which claims inline while it waits for its own message       *)
(* (mail.ingest_message).  A step is one SQL statement or one call of the  *)
(* Snipe-IT client; steps of different processors interleave freely.       *)
(*                                                                         *)
(*   idle -> selected -> leased -> claimed -> fresh -> decided -> idle     *)
(*                                    |                  ^  |              *)
(*                                    +--- stale --------+  +-> marking    *)
(*                                                                         *)
(* Snipe-IT is external.  It keeps, per computer, the event whose PUT      *)
(* arrived last.  What the ownership confirmation and the mails do to      *)
(* their own tables is in other modules; they do not touch these rows.     *)
(***************************************************************************)
EXTENDS EventQueue, FiniteSets

CONSTANTS
    Workers,      \* daemons: they poll forever
    Collectors,   \* mail collectors: they claim only while they wait
    MaxCrashes    \* bound on process failures in a behaviour

Processors == Workers \cup Collectors

ASSUME ProcessorsAssumption == Workers \cap Collectors = {}
ASSUME MaxCrashesAssumption == MaxCrashes \in Nat

VARIABLES
    pc,        \* where each processor is
    item,      \* the event it has selected or claimed
    seen,      \* the status the SELECT of claim returned
    tries,     \* QueueItem.attempts
    verdict,   \* the status process_item is about to write
    put,       \* events whose inventory ever reached Snipe-IT
    current,   \* per computer, the event Snipe-IT shows
    lapsed,    \* history: rows whose lease ran out while "processing"
    finished,  \* history: events for which both statements of finish ran
    crashes

procVars == <<pc, item, seen, tries, verdict>>
snipeVars == <<put, current>>
vars == <<status, attempts, elapsed, earlier, watermark, pc, item, seen, tries,
          verdict, put, current, lapsed, finished, crashes>>

Locations == {"idle", "selected", "leased", "claimed", "fresh", "decided", "marking"}

\* The locations at which a processor believes it holds the lease of its item.
Holding(p) == pc[p] \in {"leased", "claimed", "fresh", "decided"}
Working(p) == Holding(p) \/ pc[p] = "marking"

\* "retry" stands for either outcome of EventQueue.retry.
Verdicts == {"processed", "rejected", "stale", "retry"}

TypeOK ==
    /\ QueueTypeOK
    /\ pc \in [Processors -> Locations]
    /\ item \in [Processors -> Events \cup {NoEvent}]
    /\ seen \in [Processors -> Waiting \cup {"processing", "none"}]
    /\ tries \in [Processors -> 0..MaxAttempts]
    /\ verdict \in [Processors -> Verdicts \cup {"none"}]
    /\ put \subseteq Events
    /\ current \in [Computers -> Events \cup {NoEvent}]
    /\ lapsed \subseteq Events
    /\ finished \subseteq Events
    /\ crashes \in 0..MaxCrashes
    /\ \A p \in Processors : item[p] = NoEvent <=> pc[p] = "idle"

Init ==
    /\ QueueInit
    /\ pc = [p \in Processors |-> "idle"]
    /\ item = [p \in Processors |-> NoEvent]
    /\ seen = [p \in Processors |-> "none"]
    /\ tries = [p \in Processors |-> 0]
    /\ verdict = [p \in Processors |-> "none"]
    /\ put = {}
    /\ current = [c \in Computers |-> NoEvent]
    /\ lapsed = {}
    /\ finished = {}
    /\ crashes = 0

GoTo(p, location) == pc' = [pc EXCEPT ![p] = location]

\* Mutated: the variable of the last item survives the loop.
LetGoKeepingItem(p) ==
    /\ GoTo(p, "idle")
    /\ seen' = [seen EXCEPT ![p] = "none"]
    /\ tries' = [tries EXCEPT ![p] = 0]
    /\ verdict' = [verdict EXCEPT ![p] = "none"]
    /\ UNCHANGED item

\* The processor drops everything it knew of its item.
LetGo(p) ==
    /\ GoTo(p, "idle")
    /\ item' = [item EXCEPT ![p] = NoEvent]
    /\ seen' = [seen EXCEPT ![p] = "none"]
    /\ tries' = [tries EXCEPT ![p] = 0]
    /\ verdict' = [verdict EXCEPT ![p] = "none"]

-----------------------------------------------------------------------------
(* The API or a collector stores an event; a known event_id is ignored.    *)
Enqueue(e) ==
    /\ InsertRow(e)
    /\ UNCHANGED <<procVars, snipeVars, lapsed, finished, crashes>>

\* claim, first statement.
ClaimSelect(p) ==
    /\ pc[p] = "idle"
    /\ \E e \in Events :
          /\ FirstDue(e)
          /\ item' = [item EXCEPT ![p] = e]
          /\ seen' = [seen EXCEPT ![p] = status[e]]
    /\ GoTo(p, "selected")
    /\ UNCHANGED <<queueVars, tries, verdict, snipeVars, lapsed, finished, crashes>>

\* Mutated: the UPDATE has no condition on the status.
ClaimUpdateUnguarded(p) ==
    /\ pc[p] = "selected"
    /\ LeaseRow(item[p])
    /\ seen' = [seen EXCEPT ![p] = "none"]
    /\ GoTo(p, "leased")
    /\ UNCHANGED <<item, tries, verdict, snipeVars, lapsed, finished, crashes>>

\* claim, second statement: it takes the row if the status is still the one seen.
ClaimUpdate(p) ==
    /\ pc[p] = "selected"
    /\ status[item[p]] = seen[p]
    /\ LeaseRow(item[p])
    /\ seen' = [seen EXCEPT ![p] = "none"]
    /\ GoTo(p, "leased")
    /\ UNCHANGED <<item, tries, verdict, snipeVars, lapsed, finished, crashes>>

\* claim: rowcount # 1, nothing was taken.
ClaimMissed(p) ==
    /\ pc[p] = "selected"
    /\ status[item[p]] # seen[p]
    /\ LetGo(p)
    /\ UNCHANGED <<queueVars, snipeVars, lapsed, finished, crashes>>

\* claim, third statement: the row is read back as the QueueItem.
ClaimRead(p) ==
    /\ pc[p] = "leased"
    /\ tries' = [tries EXCEPT ![p] = attempts[item[p]]]
    /\ GoTo(p, "claimed")
    /\ UNCHANGED <<queueVars, item, seen, verdict, snipeVars, lapsed, finished, crashes>>

\* Mutated: nobody asks for the watermark.
CheckStaleSkipped(p) ==
    /\ pc[p] = "claimed"
    /\ GoTo(p, "fresh")
    /\ UNCHANGED <<queueVars, item, seen, tries, verdict, snipeVars, lapsed, finished,
                   crashes>>

\* process_item: stale_reason is read before anything is sent.
CheckStale(p) ==
    /\ pc[p] = "claimed"
    /\ IF IsStale(item[p])
         THEN GoTo(p, "decided") /\ verdict' = [verdict EXCEPT ![p] = "stale"]
         ELSE GoTo(p, "fresh") /\ UNCHANGED verdict
    /\ UNCHANGED <<queueVars, item, seen, tries, snipeVars, lapsed, finished, crashes>>

\* SnipeITClient.apply.  A success has sent the PUT; a failure may come before it
\* or after it (the answer is lost, or a later request of the call fails).
Apply(p) ==
    /\ pc[p] = "fresh"
    /\ \E outcome \in {"processed", "rejected", "retry"}, reached \in BOOLEAN :
          /\ outcome = "processed" => reached
          /\ verdict' = [verdict EXCEPT ![p] = outcome]
          /\ put' = IF reached THEN put \cup {item[p]} ELSE put
          /\ current' = IF reached
                          THEN [current EXCEPT ![ComputerOf[item[p]]] = item[p]]
                          ELSE current
    /\ GoTo(p, "decided")
    /\ UNCHANGED <<queueVars, item, seen, tries, lapsed, finished, crashes>>

\* finish, first statement.
Finish(p) ==
    /\ pc[p] = "decided"
    /\ verdict[p] \in Terminal
    /\ SetStatus(item[p], verdict[p])
    /\ IF verdict[p] = "processed"
         THEN GoTo(p, "marking") /\ UNCHANGED <<item, seen, tries, verdict>>
         ELSE LetGo(p)
    /\ UNCHANGED <<snipeVars, lapsed, finished, crashes>>

\* finish, second statement.
MoveWatermark(p) ==
    /\ pc[p] = "marking"
    /\ SetWatermark(item[p])
    /\ LetGo(p)
    /\ finished' = finished \cup {item[p]}
    /\ UNCHANGED <<snipeVars, lapsed, crashes>>

\* retry: the temporary failure is scheduled again or given up.
Retry(p) ==
    /\ pc[p] = "decided"
    /\ verdict[p] = "retry"
    /\ SetStatus(item[p], RetryStatus(tries[p]))
    /\ LetGo(p)
    /\ UNCHANGED <<snipeVars, lapsed, finished, crashes>>

\* The process dies (or is killed, or an exception nobody catches ends it) and
\* comes back idle.
Crash(p) ==
    /\ pc[p] # "idle"
    /\ crashes < MaxCrashes
    /\ crashes' = crashes + 1
    /\ LetGo(p)
    /\ UNCHANGED <<queueVars, snipeVars, lapsed, finished>>

\* queue.retention_days is at least 7: no step of a processor on an item lasts
\* until the retention of that item's row is over.
RetentionOutlivesWork(e) ==
    status[e] \in Purgeable => \A p \in Processors : item[p] # e

TimePasses(e) ==
    /\ RetentionOutlivesWork(e)
    /\ DeadlinePasses(e)
    /\ lapsed' = IF status[e] = "processing" THEN lapsed \cup {e} ELSE lapsed
    /\ UNCHANGED <<procVars, snipeVars, finished, crashes>>

\* run_forever and run_once remove old rows; lapsed speaks of present rows.
Purge ==
    /\ PurgeRows
    /\ lapsed' = lapsed \ Expired
    /\ UNCHANGED <<procVars, snipeVars, finished, crashes>>

-----------------------------------------------------------------------------
Step(p) ==
    \/ ClaimUpdate(p) \/ ClaimMissed(p) \/ ClaimRead(p) \/ CheckStale(p)
    \/ Apply(p) \/ Finish(p) \/ MoveWatermark(p) \/ Retry(p)

Next ==
    \/ \E e \in Events : Enqueue(e) \/ TimePasses(e)
    \/ \E p \in Processors : ClaimSelect(p) \/ Step(p) \/ Crash(p)
    \/ Purge

Spec == Init /\ [][Next]_vars

\* A process that is in the middle of an item goes on (or crashes); the daemon
\* polls every two seconds, a collector only while it waits; deadlines of rows
\* that wait for one are reached.  Nothing is assumed of Snipe-IT, of arrivals or
\* of the hourly purge.
Fairness ==
    /\ \A p \in Processors : WF_vars(Step(p))
    /\ \A w \in Workers : WF_vars(ClaimSelect(w))
    /\ \A e \in Events : WF_vars(status[e] \in {"retry", "processing"} /\ TimePasses(e))

FairSpec == Spec /\ Fairness

-----------------------------------------------------------------------------
(* Properties.                                                             *)

\* Two processors work on the same event only if its lease once ran out while
\* the row was "processing": the claim of queue.py is a compare-and-swap on
\* status, and the lease is the only way around it.
ExclusiveUnlessLapsed ==
    \A p, q \in Processors :
        p # q /\ Holding(p) /\ Holding(q) /\ item[p] = item[q] => item[p] \in lapsed

\* An event the queue reports as processed or stale is represented in Snipe-IT:
\* its own inventory, or one at least as new of the same computer, was sent.  It
\* holds whatever crashes, stalls and takeovers happen.
SettledIsReflected ==
    \A e \in Events : status[e] \in {"processed", "stale"} =>
        \E f \in put : ComputerOf[f] = ComputerOf[e] /\ AtLeastAsNew(f, e)

\* An event is given up only after MaxAttempts claims of that very row, even when
\* slow processors write results of earlier claims (queue.retry takes the count
\* the claimer read back).
DeadLetterEarned ==
    \A e \in Events : status[e] = "dead_letter" => attempts[e] = MaxAttempts

\* A terminal status is final for a row, until it is purged, unless a lease of
\* it had lapsed: no late finish or retry rewrites it, no claim revives it.
SettledStays ==
    \A e \in Events :
        status[e] \in Terminal /\ e \notin lapsed => status'[e] \in {status[e], "absent"}

SettledIsFinal == [][SettledStays]_vars

\* The watermark of a computer never moves back to an older event
\* (docs/ARCHITECTURE-RU.md: it keeps the last generation and observed_at).
WatermarkAdvances ==
    \A c \in Computers :
        watermark[c] # NoEvent /\ watermark'[c] # watermark[c] =>
            /\ watermark'[c] # NoEvent
            /\ ~ AtLeastAsNew(watermark[c], watermark'[c])

WatermarkNeverRegresses == [][WatermarkAdvances]_vars

\* Snipe-IT shows, for an event that was processed to the end, that event or a newer
\* one of the computer: old inventory never overwrites newer one.  An event whose
\* processor died between the two statements of finish is processed, but not to the end:
\* it leaves no watermark, and an older one does overwrite it.
FinishedIsCurrent ==
    \A e \in finished :
        /\ current[ComputerOf[e]] # NoEvent
        /\ AtLeastAsNew(current[ComputerOf[e]], e)

\* An event that was processed to the end is never applied over another one again,
\* even when its row was purged and the same event is delivered anew.
AppliesUnfinished ==
    \A c \in Computers : current'[c] # current[c] => current'[c] \notin finished

NeverAppliedAgain == [][AppliesUnfinished]_vars

\* The queue_status a repeated POST of the event is answered with, as far as it is final.
AnswerTo(e) == IF status[e] \in Waiting \cup {"processing"} THEN "open" ELSE status[e]

Promise ==
    INSTANCE Gateway WITH
        state <- [e \in Events |-> AnswerTo(e)],
        shown <- current,
        settled <- finished,
        Covers <- {pair \in Events \X Events : AtLeastAsNew(pair[1], pair[2])}

\* A sole processor keeps the promise of module Gateway: its checks, requests and
\* statements, crashes, repetitions and purges included, amount to atomic steps that
\* show newer and newer inventory.  One watermark per computer stands for the set of
\* all events ever settled.
KeepsPromise == Promise!Spec

\* Every stored event reaches a terminal status, when processes crash only
\* finitely often.
EveryEventSettles ==
    \A e \in Events : status[e] = "pending" ~> status[e] \in Terminal

=============================================================================
