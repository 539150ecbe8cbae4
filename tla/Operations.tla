------------------------------ MODULE Operations ------------------------------
(***************************************************************************)
(* Installing, updating, rolling back and restoring the gateway, on a host *)
(* where systemd runs its processes.                                       *)
(*                                                                         *)
(* A script is the sequence of its commands; the operator runs one at a    *)
(* time, and each ends after any of its commands (set -e, an interruption, *)
(* a reboot of the session).  A process runs the release that the link     *)
(* `current' named when it was started.  What the database holds, and its  *)
(* write-ahead log, are left out, and so is backup.sh, which only reads,   *)
(* through the online backup of SQLite.                                    *)
(***************************************************************************)
EXTENDS Naturals

CONSTANTS
    Releases,          \* versions under /opt/.../releases
    Installed,         \* the version install.sh writes
    None,
    MaxScripts         \* bound on the scripts started in a behaviour

Services == {"api", "worker"}
Jobs == {"mail", "weekly"}            \* Type=oneshot, started by timers
Processes == Services \cup Jobs

\* The commands that change state, each with the one after it.
Programs(update) ==
    [install  |-> [idle |-> "reuse", reuse |-> "build", build |-> "check",
                   check |-> "flip", flip |-> "idle"],
     update   |-> update,
     rollback |-> [idle |-> "choose", choose |-> "flip", flip |-> "restart",
                   restart |-> "idle"],
     restore  |-> [idle |-> "stop", stop |-> "replace", replace |-> "start",
                   start |-> "idle"]]

\* mutant: the link is switched before the release is complete
ProgramFlippingFirst ==
    Programs([idle |-> "reserve", reserve |-> "flip", flip |-> "build", build |-> "check",
              check |-> "previous", previous |-> "restart", restart |-> "idle"])

\* mutant: the release to go back to is written after the switch
ProgramRememberingLate ==
    Programs([idle |-> "reserve", reserve |-> "build", build |-> "check", check |-> "flip",
              flip |-> "previous", previous |-> "restart", restart |-> "idle"])

Program ==
    Programs([idle |-> "reserve", reserve |-> "build", build |-> "check",
              check |-> "previous", previous |-> "flip", flip |-> "restart",
              restart |-> "idle"])

ASSUME OperationsAssumption ==
    /\ Installed \in Releases /\ None \notin Releases /\ MaxScripts \in Nat

VARIABLES
    script, pc,    \* the script at work and its next command
    target,        \* its $release or $previous
    release,       \* per version: "absent", "partial", "built", "checked"
    current,       \* the link
    previous,      \* the file previous-release, or None
    running,       \* per process, the version whose code it runs, or None
    timer,         \* whether mail.timer is started
    replaced,      \* history: the version that the last update to end its switch replaced
    unsure,        \* history: since then install switched the link, or an update ended
                   \* between writing previous-release and switching
    cut,           \* history: a script ended between the switch or the stop and the end of
                   \* its restart, or install switched the link, and no script has put the
                   \* services right since
    scripts

links == <<release, current, previous>>
host == <<running, timer>>
past == <<replaced, unsure, cut>>
commands == <<script, pc, target, scripts>>
vars == <<commands, links, host, past>>

TypeOK ==
    /\ script \in DOMAIN Program
    /\ pc \in DOMAIN Program[script]
    /\ target \in Releases \cup {None}
    /\ release \in [Releases -> {"absent", "partial", "built", "checked"}]
    /\ current \in Releases /\ previous \in Releases \cup {None}
    /\ running \in [Processes -> Releases \cup {None}]
    /\ timer \in BOOLEAN
    /\ replaced \in Releases \cup {None}
    /\ unsure \in BOOLEAN /\ cut \in BOOLEAN
    /\ scripts \in 0 .. MaxScripts

\* Some release has been installed and its units started.
Init ==
    /\ script = "install" /\ pc = "idle" /\ target = None
    /\ current \in Releases /\ previous = None
    /\ release = [r \in Releases |-> IF r = current THEN "checked" ELSE "absent"]
    /\ running = [p \in Processes |-> IF p \in Services THEN current ELSE None]
    /\ timer = TRUE
    /\ replaced = None /\ unsure = FALSE /\ cut = FALSE /\ scripts = 0

---------------------------------------------------------------------------
(* The scripts.                                                            *)

Begin(s, r) ==
    /\ pc = "idle" /\ scripts < MaxScripts
    /\ s = "install" => r = Installed
    /\ script' = s /\ pc' = Program[s].idle /\ target' = r /\ scripts' = scripts + 1
    /\ UNCHANGED <<links, host, past>>

At(command) == pc = command

Done == pc' = Program[script][pc] /\ UNCHANGED <<script, scripts>>

\* A command fails, or the operator interrupts the script: it ends where it is.
Abort ==
    /\ pc # "idle" /\ pc' = "idle"
    /\ unsure' = (unsure \/ (script = "update" /\ At("flip")))
    /\ cut' = (cut \/ pc \in {"restart", "stop", "replace", "start"})
    /\ UNCHANGED <<script, target, links, host, replaced, scripts>>

Becomes(status) ==
    /\ release' = [release EXCEPT ![target] = status] /\ Done
    /\ UNCHANGED <<target, current, previous, host, past>>

\* update.sh refuses a version that has a directory; install.sh goes on with it.
Reserve == At("reserve") /\ release[target] = "absent" /\ Becomes("partial")

Reuse ==
    At("reuse") /\ Becomes(IF release[target] = "absent" THEN "partial" ELSE release[target])

\* venv and pip, which leave a complete environment as it is.
Build ==
    At("build") /\ Becomes(IF release[target] = "partial" THEN "built" ELSE release[target])

CheckConfig == At("check") /\ Becomes("checked")

\* readlink -f current > previous-release
Remember ==
    /\ At("previous") /\ Done
    /\ previous' = current
    /\ UNCHANGED <<target, release, current, host, past>>

\* mutant: rollback.sh takes what previous-release says
ChooseAnything ==
    /\ At("choose") /\ Done
    /\ target' = previous
    /\ UNCHANGED <<links, host, past>>

\* rollback.sh reads previous-release and looks for the executable of that release.
Choose ==
    /\ At("choose") /\ Done
    /\ previous # None /\ release[previous] \in {"built", "checked"}
    /\ target' = previous
    /\ UNCHANGED <<links, host, past>>

\* ln -sfn and mv -Tf: the link changes at once.
Flip ==
    /\ At("flip") /\ Done
    /\ current' = target
    /\ replaced' = IF script = "update" THEN current ELSE replaced
    /\ unsure' = (script # "update" /\ (unsure \/ (script = "install" /\ current # target)))
    /\ cut' = (cut \/ (script = "install" /\ current # target))
    /\ UNCHANGED <<target, release, previous, host>>

\* mutant: only the API is restarted
RestartApi ==
    /\ At("restart") /\ Done
    /\ running' = [running EXCEPT !["api"] = current]
    /\ cut' = (cut /\ ~timer)
    /\ UNCHANGED <<target, links, timer, replaced, unsure>>

\* systemctl restart of both services.
Restart ==
    /\ At("restart") /\ Done
    /\ running' = [p \in Processes |-> IF p \in Services THEN current ELSE running[p]]
    /\ cut' = (cut /\ ~timer)
    /\ UNCHANGED <<target, links, timer, replaced, unsure>>

---------------------------------------------------------------------------
(* Processes come and go.                                                  *)

End(p) == running[p] # None /\ running' = [running EXCEPT ![p] = None]

\* systemctl stop: SIGTERM to the two services in either order, and no more runs of the
\* collector; a run that is under way goes on, and weekly.timer stays.
Stop(p) ==
    /\ At("stop") /\ End(p) /\ timer' = FALSE
    /\ UNCHANGED <<commands, links, past>>

Stopped ==
    /\ At("stop") /\ \A p \in Services : running[p] = None
    /\ Done /\ timer' = FALSE
    /\ UNCHANGED <<target, links, running, past>>

\* install of config.json and of events.sqlite3.  No check-config follows: what a release
\* was checked with may not be what it is started with from here on.
Replace ==
    /\ At("replace") /\ Done
    /\ UNCHANGED <<target, links, host, past>>

\* systemctl start: of what is not running.
StartServices ==
    /\ At("start") /\ Done
    /\ running' = [p \in Processes |->
                     IF p \in Services /\ running[p] = None THEN current ELSE running[p]]
    /\ timer' = TRUE /\ cut' = FALSE
    /\ UNCHANGED <<target, links, replaced, unsure>>

\* A timer starts its job; weekly.timer is stopped by no script.
StartJob(j) ==
    /\ running[j] = None /\ (j = "mail" => timer)
    /\ running' = [running EXCEPT ![j] = current]
    /\ UNCHANGED <<commands, links, timer, past>>

EndJob(j) == End(j) /\ UNCHANGED <<commands, links, timer, past>>

\* A service dies, and systemd starts it from the link (Restart=on-failure), unless it is to
\* be stopped.
Crash(p) ==
    /\ running[p] # None /\ ~At("stop")
    /\ running' = [running EXCEPT ![p] = current]
    /\ UNCHANGED <<commands, links, timer, past>>

Operator ==
    \/ \E s \in DOMAIN Program, r \in Releases : Begin(s, r)
    \/ Abort
    \/ Reserve \/ Reuse \/ Build \/ CheckConfig \/ Remember \/ Choose \/ Flip \/ Restart
    \/ (\E p \in Services : Stop(p)) \/ Stopped \/ Replace \/ StartServices

Systemd ==
    \/ \E j \in Jobs : StartJob(j) \/ EndJob(j)
    \/ \E p \in Services : Crash(p)

Next == Operator \/ Systemd

Spec == Init /\ [][Next]_vars

---------------------------------------------------------------------------
(* Properties.                                                             *)

\* Whatever scripts fail and wherever, no process ever runs a release that is not complete
\* or has not passed check-config, with the configuration of that time (update.sh,
\* install.sh, rollback.sh).
RunsChecked == \A p \in Processes : running[p] # None => release[running[p]] = "checked"

\* When no script is at work, the services run the release of the link and the collector is
\* scheduled, unless a script ended between its switch or stop and its restart, or install,
\* which restarts nothing, switched the link.
ServicesRunCurrent ==
    At("idle") /\ ~cut => timer /\ \A p \in Services : running[p] = current

\* Once an update has switched the link, rollback.sh finds a version to go back to, and one
\* that is complete and was checked: wherever that update, and all that were begun after it,
\* came to an end, and whatever release they left half-built (update.sh, rollback.sh).
RollbackReady ==
    replaced # None => previous # None /\ release[previous] = "checked"

\* A rollback switches to the version the last update replaced, also when it is repeated
\* and after updates that failed, unless an update ended between writing previous-release
\* and switching, or install switched the link since.
RollbackUndoes ==
    [][script = "rollback" /\ At("flip") /\ pc' = "restart"
         => current' = replaced \/ unsure]_vars
=============================================================================
