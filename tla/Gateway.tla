------------------------------- MODULE Gateway -------------------------------
(***************************************************************************)
(* What the gateway promises of the inventory it is sent, without queue,   *)
(* leases, watermarks or processes: Snipe-IT shows, per computer, an event *)
(* that is newer than whatever was settled before, and nothing that was    *)
(* settled is sent again.  Checking that an event is new and sending it is *)
(* one step here; EventProcessing takes several and may die between them.  *)
(***************************************************************************)
CONSTANTS
    Events, Computers, NoEvent, ComputerOf,
    Covers        \* <<e, f>>: e is at least as new as f

VARIABLES
    state,        \* per event, "absent", "open" or the final answer to its sender
    shown,        \* per computer, the event Snipe-IT shows
    settled       \* events that were processed to the end

vars == <<state, shown, settled>>

Final == {"processed", "rejected", "stale", "dead_letter"}

Init ==
    /\ state = [e \in Events |-> "absent"]
    /\ shown = [c \in Computers |-> NoEvent]
    /\ settled = {}

Superseded(e) == \E f \in settled : ComputerOf[f] = ComputerOf[e] /\ <<f, e>> \in Covers

Accept(e) ==
    /\ state[e] = "absent"
    /\ state' = [state EXCEPT ![e] = "open"]
    /\ UNCHANGED <<shown, settled>>

\* The attempt may be repeated; it may also fail after the inventory arrived.
Send(e) ==
    /\ state[e] = "open" /\ ~ Superseded(e)
    /\ shown' = [shown EXCEPT ![ComputerOf[e]] = e]
    /\ UNCHANGED <<state, settled>>

Answer(e, answer) == state[e] = "open" /\ state' = [state EXCEPT ![e] = answer]

Process(e) ==
    /\ shown[ComputerOf[e]] = e
    /\ Answer(e, "processed")
    /\ UNCHANGED <<shown, settled>>

Dismiss(e) ==
    /\ Superseded(e)
    /\ Answer(e, "stale")
    /\ UNCHANGED <<shown, settled>>

GiveUp(e) ==
    /\ Answer(e, "rejected") \/ Answer(e, "dead_letter")
    /\ UNCHANGED <<shown, settled>>

\* From here on nothing as old is sent.
Settle(e) ==
    /\ state[e] = "processed" /\ shown[ComputerOf[e]] = e
    /\ settled' = settled \cup {e}
    /\ UNCHANGED <<state, shown>>

\* Old answers are forgotten, what was settled is not.  A dead letter stays.
Forget(events) ==
    /\ \A e \in events : state[e] \in Final \ {"dead_letter"}
    /\ state' = [e \in Events |-> IF e \in events THEN "absent" ELSE state[e]]
    /\ UNCHANGED <<shown, settled>>

Next ==
    \/ \E e \in Events :
          Accept(e) \/ Send(e) \/ Process(e) \/ Dismiss(e) \/ GiveUp(e) \/ Settle(e)
    \/ \E events \in SUBSET Events : Forget(events)

Spec == Init /\ [][Next]_vars

=============================================================================
