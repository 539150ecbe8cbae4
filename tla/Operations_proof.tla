--------------------------- MODULE Operations_proof ---------------------------
(***************************************************************************)
(* What Operations promises, for any set of releases and any number of     *)
(* scripts.  The properties speak of the moment a command runs; the        *)
(* invariant says what each command finds, which the ones before it left.  *)
(***************************************************************************)
EXTENDS Operations, TLAPS

\* Whatever a script may still switch to, or a process may be started from, is checked.
LinksInv ==
    /\ release[current] = "checked"
    /\ previous # None => release[previous] = "checked"
    /\ script # "restore" /\ pc # "idle" /\ pc # "choose" => target \in Releases
    /\ pc \in {"build", "check"} => release[target] # "absent"
    /\ pc \in {"previous", "flip"} => release[target] = "checked"

\* What a rollback will find.
RollbackInv ==
    /\ script = "rollback" /\ pc = "flip" => target = previous
    /\ script = "update" /\ pc = "flip" => previous = current
    /\ previous # None /\ ~unsure /\ ~(script = "update" /\ pc = "flip")
         => previous = replaced
    /\ replaced # None \/ (script = "update" /\ pc = "flip") => previous # None

\* What is stopped and started while a script is at work.
ServicesInv ==
    /\ ~cut /\ pc \notin {"stop", "replace", "start"} => timer
    /\ ~cut /\ pc \notin {"restart", "stop", "replace", "start"} =>
         \A p \in Services : running[p] = current
    /\ pc \in {"replace", "start"} => \A p \in Services : running[p] = None

Inv == TypeOK /\ LinksInv /\ RunsChecked /\ RollbackInv /\ ServicesInv

USE DEF Services, Jobs, Processes

\* The commands of each script, as the proofs use them.
LEMMA Programmes ==
    /\ DOMAIN Program = {"install", "update", "rollback", "restore"}
    /\ DOMAIN Program["install"] = {"idle", "reuse", "build", "check", "flip"}
    /\ DOMAIN Program["update"] =
         {"idle", "reserve", "build", "check", "previous", "flip", "restart"}
    /\ DOMAIN Program["rollback"] = {"idle", "choose", "flip", "restart"}
    /\ DOMAIN Program["restore"] = {"idle", "stop", "replace", "start"}
  BY DEF Program, Programs

LEMMA Successors ==
    /\ Program["install"].idle = "reuse" /\ Program["install"].reuse = "build"
    /\ Program["install"].build = "check" /\ Program["install"].check = "flip"
    /\ Program["install"].flip = "idle"
    /\ Program["update"].idle = "reserve" /\ Program["update"].reserve = "build"
    /\ Program["update"].build = "check" /\ Program["update"].check = "previous"
    /\ Program["update"].previous = "flip" /\ Program["update"].flip = "restart"
    /\ Program["update"].restart = "idle"
    /\ Program["rollback"].idle = "choose" /\ Program["rollback"].choose = "flip"
    /\ Program["rollback"].flip = "restart" /\ Program["rollback"].restart = "idle"
    /\ Program["restore"].idle = "stop" /\ Program["restore"].stop = "replace"
    /\ Program["restore"].replace = "start" /\ Program["restore"].start = "idle"
  BY DEF Program, Programs

\* Which scripts a command belongs to, and what follows it.
LEMMA Order ==
    ASSUME script \in DOMAIN Program, pc \in DOMAIN Program[script]
    PROVE  /\ pc = "reserve" => script = "update" /\ Program[script][pc] = "build"
           /\ pc = "reuse" => script = "install" /\ Program[script][pc] = "build"
           /\ pc = "build" => script \in {"install", "update"} /\ Program[script][pc] = "check"
           /\ pc = "check" => \/ script = "install" /\ Program[script][pc] = "flip"
                              \/ script = "update" /\ Program[script][pc] = "previous"
           /\ pc = "previous" => script = "update" /\ Program[script][pc] = "flip"
           /\ pc = "choose" => script = "rollback" /\ Program[script][pc] = "flip"
           /\ pc = "flip" => \/ script = "install" /\ Program[script][pc] = "idle"
                             \/ script \in {"update", "rollback"}
                                  /\ Program[script][pc] = "restart"
           /\ pc = "restart" => script \in {"update", "rollback"} /\ Program[script][pc] = "idle"
           /\ pc = "stop" => script = "restore" /\ Program[script][pc] = "replace"
           /\ pc = "replace" => script = "restore" /\ Program[script][pc] = "start"
           /\ pc = "start" => script = "restore" /\ Program[script][pc] = "idle"
           /\ Program[script][pc] \in DOMAIN Program[script]
           /\ "idle" \in DOMAIN Program[script]
  BY Programmes, Successors

LEMMA InvInit == ASSUME Init PROVE Inv
<1>1. TypeOK
  <2>1. script \in DOMAIN Program /\ pc \in DOMAIN Program[script]
    BY Programmes DEF Init
  <2>2. scripts \in 0 .. MaxScripts
    BY OperationsAssumption DEF Init
  <2>3. /\ release \in [Releases -> {"absent", "partial", "built", "checked"}]
        /\ running \in [{"api", "worker"} \cup {"mail", "weekly"} -> Releases \cup {None}]
    BY DEF Init
  <2> QED BY <2>1, <2>2, <2>3 DEF Init, TypeOK
<1>2. LinksInv /\ RunsChecked /\ RollbackInv
  BY OperationsAssumption DEF Init, LinksInv, RunsChecked, RollbackInv
<1>3. ServicesInv
  BY DEF Init, ServicesInv
<1> QED BY <1>1, <1>2, <1>3 DEF Inv

\* A script starts.
LEMMA BeginInv ==
    ASSUME Inv, NEW s \in DOMAIN Program, NEW r \in Releases, Begin(s, r)
    PROVE  Inv'
<1>1. /\ pc' = Program[s].idle /\ pc' \in DOMAIN Program[s]
      /\ pc' \in {"reuse", "reserve", "choose", "stop"}
      /\ s = "restore" <=> pc' = "stop"
      /\ s = "rollback" <=> pc' = "choose"
  BY Programmes, Successors DEF Begin
<1>2. TypeOK'
  <2>1. scripts' \in 0 .. MaxScripts
    BY OperationsAssumption DEF Begin, Inv, TypeOK
  <2>2. script' \in DOMAIN Program /\ pc' \in DOMAIN Program[script']
    BY <1>1 DEF Begin
  <2> QED BY <2>1, <2>2 DEF Begin, Inv, TypeOK, links, host, past
<1>3. LinksInv' /\ RunsChecked' /\ RollbackInv'
  BY <1>1 DEF Begin, Inv, LinksInv, RunsChecked, RollbackInv, links, host, past
<1>4. ServicesInv'
  BY <1>1 DEF Begin, Inv, ServicesInv, links, host, past
<1> QED BY <1>2, <1>3, <1>4 DEF Inv

\* A script ends early.
LEMMA AbortInv == ASSUME Inv, Abort PROVE Inv'
<1>1. TypeOK'
  BY Order DEF Abort, Inv, TypeOK, links, host
<1>2. LinksInv' /\ RunsChecked'
  BY DEF Abort, Inv, LinksInv, RunsChecked, links, host
<1>3. RollbackInv'
  BY DEF Abort, At, Inv, TypeOK, RollbackInv, links, host
<1>4. ServicesInv'
  BY DEF Abort, Inv, TypeOK, ServicesInv, links, host
<1> QED BY <1>1, <1>2, <1>3, <1>4 DEF Inv

\* The commands that make a release change nothing else, and take no check back.
LEMMA ReleaseInv ==
    ASSUME Inv, Reserve \/ Reuse \/ Build \/ CheckConfig
    PROVE  Inv'
<1>1. PICK status \in {"partial", "built", "checked"} :
        /\ release[target] = "checked" => status = "checked"
        /\ pc = "check" => status = "checked"
        /\ Becomes(status)
        /\ pc \in {"reserve", "reuse", "build", "check"}
  <2>1. target \in Releases /\ release[target] \in {"absent", "partial", "built", "checked"}
    BY Order DEF Inv, TypeOK, LinksInv, Reserve, Reuse, Build, CheckConfig, At
  <2>2. CASE Reserve
    BY <2>2 DEF Reserve, At
  <2>3. CASE Reuse
    <3>1. CASE release[target] = "absent"
      BY <2>3, <3>1 DEF Reuse, At
    <3>2. CASE release[target] # "absent"
      BY <2>1, <2>3, <3>2 DEF Reuse, At
    <3> QED BY <3>1, <3>2
  <2>4. CASE Build
    <3>1. release[target] # "absent"
      BY <2>4 DEF Build, At, Inv, LinksInv
    <3>2. CASE release[target] = "partial"
      BY <2>4, <3>2 DEF Build, At
    <3>3. CASE release[target] # "partial"
      BY <2>1, <2>4, <3>1, <3>3 DEF Build, At
    <3> QED BY <3>2, <3>3
  <2>5. CASE CheckConfig
    BY <2>5 DEF CheckConfig, At
  <2> QED BY <2>2, <2>3, <2>4, <2>5
<1>2. /\ pc' = Program[script][pc] /\ script' = script /\ target' = target
      /\ script \in {"install", "update"} /\ target \in Releases
      /\ pc' \in {"build", "check", "flip", "previous"} /\ pc' \in DOMAIN Program[script]
      /\ pc' \in {"flip", "previous"} => pc = "check"
      /\ script = "update" => pc' # "flip"
  BY <1>1, Order DEF Inv, TypeOK, LinksInv, Becomes, Done
<1>3. \A r \in Releases : release[r] = "checked" => release'[r] = "checked"
  BY <1>1 DEF Inv, TypeOK, Becomes
<1>4. release'[target] # "absent" /\ (pc = "check" => release'[target] = "checked")
  BY <1>1, <1>2 DEF Inv, TypeOK, Becomes
<1>5. TypeOK'
  BY <1>1, <1>2 DEF Inv, TypeOK, Becomes, Done, host, past
<1>6. LinksInv' /\ RunsChecked'
  BY <1>1, <1>2, <1>3, <1>4 DEF Inv, TypeOK, LinksInv, RunsChecked, Becomes, host, past
<1>7. RollbackInv'
  BY <1>1, <1>2 DEF Inv, RollbackInv, Becomes, host, past
<1>8. ServicesInv'
  BY <1>1, <1>2 DEF Inv, ServicesInv, Becomes, host, past
<1> QED BY <1>5, <1>6, <1>7, <1>8 DEF Inv

\* update.sh writes previous-release, and rollback.sh reads it.
LEMMA RememberInv == ASSUME Inv, Remember PROVE Inv'
<1>1. script = "update" /\ pc' = "flip" /\ pc' \in DOMAIN Program[script] /\ script' = script
  BY Order DEF Remember, At, Done, Inv, TypeOK
<1>2. TypeOK'
  BY <1>1 DEF Remember, Done, Inv, TypeOK, host, past
<1>3. LinksInv' /\ RunsChecked' /\ RollbackInv'
  BY <1>1, OperationsAssumption
  DEF Remember, At, Done, Inv, TypeOK, LinksInv, RunsChecked, RollbackInv, host, past
<1>4. ServicesInv'
  BY <1>1 DEF Remember, At, Done, Inv, ServicesInv, host, past
<1> QED BY <1>2, <1>3, <1>4 DEF Inv

LEMMA ChooseInv == ASSUME Inv, Choose PROVE Inv'
<1>1. script = "rollback" /\ pc' = "flip" /\ pc' \in DOMAIN Program[script] /\ script' = script
  BY Order DEF Choose, At, Done, Inv, TypeOK
<1>2. TypeOK'
  BY <1>1 DEF Choose, Done, Inv, TypeOK, links, host, past
<1>3. LinksInv' /\ RunsChecked' /\ RollbackInv'
  BY <1>1 DEF Choose, At, Done, Inv, TypeOK, LinksInv, RunsChecked, RollbackInv, links, host,
              past
<1>4. ServicesInv'
  BY <1>1 DEF Choose, At, Done, Inv, ServicesInv, links, host, past
<1> QED BY <1>2, <1>3, <1>4 DEF Inv

\* The switch.
LEMMA FlipInv == ASSUME Inv, Flip PROVE Inv'
<1>1. /\ script' = script /\ pc = "flip" /\ pc' \in DOMAIN Program[script]
      /\ script = "install" => pc' = "idle"
      /\ script # "install" => pc' = "restart"
      /\ script \in {"install", "update", "rollback"}
  BY Order DEF Flip, At, Done, Inv, TypeOK
<1>2. target \in Releases /\ release[target] = "checked"
  BY <1>1 DEF Inv, LinksInv
<1>3. TypeOK'
  BY <1>1, <1>2 DEF Flip, Done, Inv, TypeOK, host
<1>4. LinksInv' /\ RunsChecked'
  BY <1>1, <1>2 DEF Flip, Inv, LinksInv, RunsChecked, host
<1>5. RollbackInv'
  BY <1>1 DEF Flip, Inv, TypeOK, RollbackInv
<1>6. ServicesInv'
  BY <1>1 DEF Flip, Inv, TypeOK, ServicesInv, host
<1> QED BY <1>3, <1>4, <1>5, <1>6 DEF Inv

LEMMA RestartInv == ASSUME Inv, Restart PROVE Inv'
<1>1. script' = script /\ pc = "restart" /\ pc' = "idle" /\ pc' \in DOMAIN Program[script]
  BY Order DEF Restart, At, Done, Inv, TypeOK
<1>2. TypeOK'
  BY <1>1 DEF Restart, Done, Inv, TypeOK, links
<1>3. LinksInv' /\ RunsChecked' /\ RollbackInv'
  BY <1>1 DEF Restart, Inv, TypeOK, LinksInv, RunsChecked, RollbackInv, links
<1>4. ServicesInv'
  BY <1>1 DEF Restart, Inv, TypeOK, ServicesInv, links
<1> QED BY <1>2, <1>3, <1>4 DEF Inv

\* restore.sh stops the services and starts them again.
LEMMA StopInv == ASSUME Inv, NEW p \in Services, Stop(p) PROVE Inv'
<1>1. pc = "stop" /\ pc' = pc /\ script' = script /\ script = "restore"
  BY Order DEF Stop, At, commands, Inv, TypeOK
<1>2. TypeOK'
  BY <1>1 DEF Stop, End, Inv, TypeOK, commands, links, past
<1>3. LinksInv' /\ RunsChecked' /\ RollbackInv'
  BY <1>1 DEF Stop, End, Inv, TypeOK, LinksInv, RunsChecked, RollbackInv, commands, links, past
<1>4. ServicesInv'
  BY <1>1 DEF Stop, Inv, ServicesInv
<1> QED BY <1>2, <1>3, <1>4 DEF Inv

LEMMA RestoreInv == ASSUME Inv, Stopped \/ Replace \/ StartServices PROVE Inv'
<1>1. /\ script = "restore" /\ script' = script /\ target' = target
      /\ pc' \in DOMAIN Program[script]
      /\ pc \in {"stop", "replace", "start"}
      /\ pc = "stop" => pc' = "replace" /\ Stopped
      /\ pc = "replace" => pc' = "start" /\ Replace
      /\ pc = "start" => pc' = "idle" /\ StartServices
  BY Order DEF Stopped, Replace, StartServices, At, Done, Inv, TypeOK
<1>2. TypeOK'
  BY <1>1 DEF Stopped, Replace, StartServices, Done, Inv, TypeOK, links, host, past
<1>3. LinksInv' /\ RunsChecked' /\ RollbackInv'
  BY <1>1 DEF Stopped, Replace, StartServices, Inv, TypeOK, LinksInv, RunsChecked, RollbackInv,
              links, host, past
<1>4. ServicesInv'
  BY <1>1 DEF Stopped, Replace, StartServices, Inv, TypeOK, ServicesInv, links, host, past
<1> QED BY <1>2, <1>3, <1>4 DEF Inv

\* What systemd and the processes do meanwhile.
LEMMA SystemdInv == ASSUME Inv, Systemd PROVE Inv'
<1>1. ASSUME NEW j \in Jobs, StartJob(j) PROVE Inv'
  <2>1. TypeOK' /\ LinksInv' /\ RollbackInv'
    BY <1>1 DEF StartJob, Inv, TypeOK, LinksInv, RollbackInv, commands, links, past
  <2>2. RunsChecked' /\ ServicesInv'
    BY <1>1 DEF StartJob, Inv, TypeOK, LinksInv, RunsChecked, ServicesInv, commands, links, past
  <2> QED BY <2>1, <2>2 DEF Inv
<1>2. ASSUME NEW j \in Jobs, EndJob(j) PROVE Inv'
  <2>1. TypeOK' /\ LinksInv' /\ RollbackInv'
    BY <1>2 DEF EndJob, End, Inv, TypeOK, LinksInv, RollbackInv, commands, links, past
  <2>2. RunsChecked' /\ ServicesInv'
    BY <1>2 DEF EndJob, End, Inv, TypeOK, RunsChecked, ServicesInv, commands, links, past
  <2> QED BY <2>1, <2>2 DEF Inv
<1>3. ASSUME NEW p \in Services, Crash(p) PROVE Inv'
  <2>1. TypeOK' /\ LinksInv' /\ RollbackInv'
    BY <1>3 DEF Crash, Inv, TypeOK, LinksInv, RollbackInv, commands, links, past
  <2>2. RunsChecked' /\ ServicesInv'
    BY <1>3 DEF Crash, Inv, TypeOK, LinksInv, RunsChecked, ServicesInv, commands, links, past
  <2> QED BY <2>1, <2>2 DEF Inv
<1> QED BY <1>1, <1>2, <1>3 DEF Systemd

LEMMA InvStep == ASSUME Inv, [Next]_vars PROVE Inv'
<1>1. CASE UNCHANGED vars
  BY <1>1 DEF vars, commands, links, host, past, Inv, TypeOK, LinksInv, RunsChecked, RollbackInv,
              ServicesInv
<1>2. CASE Operator
  <2>1. ASSUME NEW s \in DOMAIN Program, NEW r \in Releases, Begin(s, r) PROVE Inv'
    BY <2>1, BeginInv
  <2>2. ASSUME NEW p \in Services, Stop(p) PROVE Inv'
    BY <2>2, StopInv
  <2> QED
    BY <1>2, <2>1, <2>2, AbortInv, ReleaseInv, RememberInv, ChooseInv, FlipInv, RestartInv,
       RestoreInv
    DEF Operator
<1>3. CASE Systemd
  BY <1>3, SystemdInv
<1> QED BY <1>1, <1>2, <1>3 DEF Next

\* The inductive invariant, for any number of scripts, wherever they end.
THEOREM Invariance == Spec => []Inv
  BY InvInit, InvStep, PTL DEF Spec

\* Type correctness.
THEOREM TypeCorrect == Spec => []TypeOK
<1>1. Inv => TypeOK
  BY DEF Inv
<1> QED BY <1>1, Invariance, PTL

\* No process runs a release that is not complete and checked (install.sh, update.sh,
\* rollback.sh).
THEOREM OnlyCheckedRuns == Spec => []RunsChecked
<1>1. Inv => RunsChecked
  BY DEF Inv
<1> QED BY <1>1, Invariance, PTL

\* Between the scripts the services run the release of the link, unless a script was cut.
THEOREM ServicesFollowLink == Spec => []ServicesRunCurrent
<1>1. Inv => ServicesRunCurrent
  BY DEF Inv, ServicesInv, ServicesRunCurrent, At
<1> QED BY <1>1, Invariance, PTL

\* After an update that switched the link, rollback.sh always finds a version that is complete
\* and checked (update.sh, rollback.sh).
THEOREM RollbackFinds == Spec => []RollbackReady
<1>1. Inv => RollbackReady
  BY DEF Inv, LinksInv, RollbackInv, RollbackReady
<1> QED BY <1>1, Invariance, PTL

\* A rollback leads to what the last update replaced (update.sh, rollback.sh).
THEOREM RollbackReturns == Spec => RollbackUndoes
<1>1. ASSUME Inv, [Next]_vars
      PROVE  [script = "rollback" /\ At("flip") /\ pc' = "restart"
                => current' = replaced \/ unsure]_vars
  <2> SUFFICES ASSUME script = "rollback", At("flip"), pc' = "restart", Next
               PROVE  current' = replaced \/ unsure
    BY <1>1 DEF vars, commands, At
  <2>1. Flip
    <3>1. ~Systemd
      BY DEF Systemd, StartJob, EndJob, Crash, commands, At
    <3>2. \A s \in DOMAIN Program, r \in Releases : ~Begin(s, r)
      BY DEF Begin, At
    <3>3. \A p \in Services : ~Stop(p)
      BY DEF Stop, At
    <3>4. ~Abort
      BY DEF Abort
    <3> QED
      BY <3>1, <3>2, <3>3, <3>4
      DEF Next, Operator, Reserve, Reuse, Build, CheckConfig, Remember, Choose, Restart, Stopped,
          Replace, StartServices, At
  <2>2. target = previous /\ previous \in Releases
    BY <1>1, OperationsAssumption DEF Inv, RollbackInv, LinksInv, At
  <2> QED BY <2>1, <2>2, <1>1, OperationsAssumption DEF Flip, Inv, RollbackInv
<1> QED BY <1>1, Invariance, PTL DEF Spec, RollbackUndoes
===============================================================================
