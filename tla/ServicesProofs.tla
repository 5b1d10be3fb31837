---------------------------- MODULE ServicesProofs ----------------------------
(***************************************************************************)
(* Proofs about the two services that keep a map of their own: first the   *)
(* ContainerManager, for any number of executions, commands and restarts,  *)
(* then the ToolLoader, for any number of files, tools and edits of the    *)
(* directory, at any moment of a scan.                                     *)
(***************************************************************************)
EXTENDS ContainerManager, ToolLoader, TLAPS

------------------------------------------------------------------------------
(* The container manager.  Key(e) = e: what an execution does touches its    *)
(* own container, its own command and the mutex, so the invariant is a       *)
(* statement of one execution, Own(e) and CommandAt(e), and an action has    *)
(* to be looked at for its own execution only (OthersUntouched).             *)

HasContainer == Working \cup {"left", "release", "stop"}

\* The mutex, the map, the registry and Docker as execution e sees them.
Own(e) ==
    /\ mutex = e <=> epc[e] \in Creating \cup {"stop"}
    /\ ~up => epc[e] \in {"new", "over"}
    /\ e \in entries <=> given[e] /\ epc[e] \in HasContainer
    /\ given[e] => epc[e] \notin {"new", "lock"} \cup Creating
    /\ epc[e] \in Calling \cup {"release", "stop"} => given[e]
    /\ epc[e] \in {"new", "lock", "pull", "create"} => docker[e] = "none"
    /\ e \in entries => docker[e] = "running" \/ e \in died
    /\ docker[e] \in {"created", "running"} => e \in entries \/ e \in strays \/ mutex = e

\* What has been done of a command when its call is at a given place.
CommandAt(e) ==
    /\ cmd[e].running \subseteq cmd[e].ran
    /\ cmd[e].answer = "success" => cmd[e].ran # {}
    /\ cmd[e].answer # "none" /\ e \notin excused => cmd[e].ran # Ways /\ cmd[e].running = {}
    /\ epc[e] \in Calling => cmd[e].answer = "none"
    /\ epc[e] = "api" => cmd[e].ran = {}
    /\ epc[e] = "reply" => cmd[e].ran = {"api"}
    /\ epc[e] = "exec" => e \in excused \/ cmd[e].ran = {}
    /\ epc[e] \in {"attach", "read", "inspect"} =>
           "exec" \in cmd[e].ran /\ (e \in excused \/ cmd[e].ran = {"exec"})
    /\ epc[e] = "inspect" => e \in excused \/ cmd[e].running = {}

Inv == ContainerTypeOK /\ \A e \in Executions : Own(e) /\ CommandAt(e)

\* Nothing of execution x changes, but for what an observer may add.
Untouched(x) ==
    /\ up' = up
    /\ mutex' = x <=> mutex = x
    /\ x \in entries' <=> x \in entries
    /\ docker'[x] = docker[x] /\ epc'[x] = epc[x] /\ given'[x] = given[x] /\ cmd'[x] = cmd[x]
    /\ x \in strays => x \in strays'
    /\ x \in died => x \in died'
    /\ x \in excused' <=> x \in excused

\* The records of the commands: what one run has made of one command.
Commands == [ran : SUBSET Ways, running : SUBSET Ways, answer : Results \cup {"none"}]

------------------------------------------------------------------------------
\* The command of e, and no other, becomes the one given by its fields.
Updated(e, ran, running, answer) ==
    /\ cmd' \in [Executions -> Commands]
    /\ \A x \in Executions \ {e} : cmd'[x] = cmd[x]
    /\ cmd'[e].ran = ran /\ cmd'[e].running = running /\ cmd'[e].answer = answer

\* What the operators that update a command do to it, field by field.
LEMMA RunsUpdates ==
    ASSUME cmd \in [Executions -> Commands], NEW e \in Executions, NEW way \in Ways, cmd' = Runs(e, way)
    PROVE  Updated(e, cmd[e].ran \cup {way}, cmd[e].running \cup {way}, cmd[e].answer)
BY DEF Updated, Runs, Commands

LEMMA ToldUpdates ==
    ASSUME cmd \in [Executions -> Commands], NEW e \in Executions, NEW result \in Results,
           cmd' = Told(e, result)
    PROVE  Updated(e, cmd[e].ran, cmd[e].running, result)
BY DEF Updated, Told, Commands, Results

LEMMA FailsUpdates ==
    ASSUME cmd \in [Executions -> Commands], NEW e \in Executions,
           cmd' = [Runs(e, "exec") EXCEPT ![e].answer = "error"]
    PROVE  Updated(e, cmd[e].ran \cup {"exec"}, cmd[e].running \cup {"exec"}, "error")
BY ZenonT(30) DEF Updated, Runs, Commands, Results, Ways

LEMMA NewUpdates ==
    ASSUME cmd \in [Executions -> Commands], NEW e \in Executions, cmd' = [cmd EXCEPT ![e] = NoCommand]
    PROVE  Updated(e, {}, {}, "none")
BY DEF Updated, NoCommand, Commands, Results

LEMMA KilledUpdates ==
    ASSUME cmd \in [Executions -> Commands], NEW e \in Executions, cmd' = Killed(e)
    PROVE  Updated(e, cmd[e].ran, {}, cmd[e].answer)
BY DEF Updated, Killed, Key, Commands

\* What belongs to an execution that a step does not touch stays as it is.
LEMMA OthersUntouched ==
    ASSUME NEW x \in Executions, Own(x) /\ CommandAt(x), Untouched(x)
    PROVE  Own(x)' /\ CommandAt(x)'
<1>1. Own(x)'
  BY DEF Own, Untouched
<1>2. CommandAt(x)'
  BY DEF CommandAt, Untouched
<1> QED BY <1>1, <1>2

------------------------------------------------------------------------------
(* The manager implements ContainerLedger.                                    *)

LeaseOf(e) == IF ~up \/ Key(e) \notin entries THEN "none"
              ELSE IF epc[e] \in {"release", "stop"} THEN "releasing" ELSE "held"
Lease == [e \in Executions |-> LeaseOf(e)]

\* The ways in which a step may change a lease.
LeaseMoves(e) == \/ LeaseOf(e)' = LeaseOf(e)
                 \/ LeaseOf(e) = "none" /\ LeaseOf(e)' = "held"
                 \/ LeaseOf(e) = "held" /\ LeaseOf(e)' = "releasing"
                 \/ LeaseOf(e) = "releasing" /\ LeaseOf(e)' = "none"

\* A step that leaves every execution but e its lease is a step of the ledger
\* if e's lease changes as the ledger lets it.
LEMMA OneLease ==
    ASSUME NEW e \in Executions, \A x \in Executions \ {e} : LeaseOf(x)' = LeaseOf(x), LeaseMoves(e)
    PROVE  [Leases!Next]_Lease
<1>1. CASE LeaseOf(e)' = LeaseOf(e)
  <2>1. Lease' = Lease
    BY <1>1 DEF Lease
  <2> QED BY <2>1
<1>2. ASSUME NEW l, LeaseOf(e)' = l
      PROVE  Lease' = [Lease EXCEPT ![e] = l]
  BY <1>2 DEF Lease
<1>3. Lease[e] = LeaseOf(e)
  BY DEF Lease
<1>4. CASE LeaseOf(e) = "none" /\ LeaseOf(e)' = "held"
  <2>1. Leases!Acquire(e)
    BY <1>2, <1>3, <1>4 DEF Leases!Acquire, Lease, LeaseOf
  <2> QED BY <2>1 DEF Leases!Next, Leases!Lend
<1>5. CASE LeaseOf(e) = "held" /\ LeaseOf(e)' = "releasing"
  <2>1. Leases!GiveUp(e)
    BY <1>2, <1>3, <1>5 DEF Leases!GiveUp, Lease, LeaseOf
  <2> QED BY <2>1 DEF Leases!Next, Leases!Lend
<1>6. CASE LeaseOf(e) = "releasing" /\ LeaseOf(e)' = "none"
  <2>1. Leases!Release(e)
    BY <1>2, <1>3, <1>6 DEF Leases!Release, Lease, LeaseOf
  <2> QED BY <2>1 DEF Leases!Next, Leases!Lend
<1> QED BY <1>1, <1>4, <1>5, <1>6 DEF LeaseMoves

\* An action of e that touches nobody else keeps the invariant and is a step of
\* the ledger if it keeps the types and what belongs to e and moves e's lease.
LEMMA OneExecution ==
    ASSUME Inv, NEW e \in Executions, ContainerTypeOK', Own(e)', CommandAt(e)', LeaseMoves(e),
           \A x \in Executions \ {e} : Untouched(x)
    PROVE  Inv' /\ [Leases!Next]_Lease
<1>1. \A x \in Executions \ {e} : Own(x)' /\ CommandAt(x)'
  BY OthersUntouched DEF Inv
<1>2. \A x \in Executions \ {e} : LeaseOf(x)' = LeaseOf(x)
  BY DEF Untouched, LeaseOf, Key
<1>3. [Leases!Next]_Lease
  BY <1>2, OneLease
<1> QED BY <1>1, <1>3 DEF Inv

------------------------------------------------------------------------------
(* Each action keeps the invariant and is a step of the ledger.               *)

\* Before anything is created nothing can disagree.
LEMMA InitInv == ContainerInit => Inv
<1> SUFFICES ASSUME ContainerInit PROVE Inv
  OBVIOUS
<1>1. ContainerTypeOK
  BY ContainerAssumption DEF ContainerInit, ContainerTypeOK, Places, NoCommand
<1>2. ASSUME NEW e \in Executions PROVE Own(e) /\ CommandAt(e)
  BY <1>2, ContainerAssumption
  DEF ContainerInit, Own, CommandAt, HasContainer, Working, Creating, Calling, NoCommand, Ways
<1> QED BY <1>1, <1>2 DEF Inv

\* The execution comes to the mutex, and has no container yet.
LEMMA BeginExecutionStep ==
    ASSUME Inv, NEW e \in Executions, BeginExecution(e)
    PROVE  Inv' /\ [Leases!Next]_Lease
<1> USE DEF BeginExecution, At, MoveTo, processVars, dockerVars, agentVars, cmdVars, countVars
<1>0. ContainerTypeOK /\ Own(e) /\ CommandAt(e) /\ cmd \in [Executions -> Commands]
  BY DEF Inv, ContainerTypeOK, Commands
<1>1. cmd' \in [Executions -> Commands] /\ \A x \in Executions \ {e} : cmd'[x] = cmd[x]
  BY <1>0
<1>2. ContainerTypeOK'
  BY <1>0, <1>1, ContainerAssumption
  DEF ContainerTypeOK, Own, Places, Working, Calling, Creating, Commands
<1>3. Own(e)'
  BY <1>0, ContainerAssumption DEF ContainerTypeOK, Own, HasContainer, Working, Calling, Creating
<1>4. CommandAt(e)'
  BY <1>0
  DEF ContainerTypeOK, CommandAt, Own, Calling, Creating, Ways, Results, Commands
<1>5. \A x \in Executions \ {e} : Untouched(x)
  BY <1>0, <1>1, ContainerAssumption DEF ContainerTypeOK, Own, Untouched, Creating
<1>6. LeaseMoves(e)
  BY <1>0, <1>3
  DEF ContainerTypeOK, Own, LeaseMoves, LeaseOf, HasContainer, Working, Calling, Creating, Key
<1> QED BY <1>2, <1>3, <1>4, <1>5, <1>6, OneExecution

\* An execution that has no entry takes the mutex, and one cannot have an entry.
LEMMA LockToCreateStep ==
    ASSUME Inv, NEW e \in Executions, LockToCreate(e)
    PROVE  Inv' /\ [Leases!Next]_Lease
<1> USE DEF LockToCreate, At, MoveTo, Key, processVars, dockerVars, agentVars, cmdVars, countVars
<1>0. ContainerTypeOK /\ Own(e) /\ CommandAt(e) /\ cmd \in [Executions -> Commands]
  BY DEF Inv, ContainerTypeOK, Commands
<1>1. cmd' \in [Executions -> Commands] /\ \A x \in Executions \ {e} : cmd'[x] = cmd[x]
  BY <1>0
<1>2. ContainerTypeOK'
  BY <1>0, <1>1, ContainerAssumption
  DEF ContainerTypeOK, Own, Places, Working, Calling, Creating, Commands
<1>3. Own(e)'
  BY <1>0, ContainerAssumption DEF ContainerTypeOK, Own, HasContainer, Working, Calling, Creating
<1>4. CommandAt(e)'
  BY <1>0
  DEF ContainerTypeOK, CommandAt, Own, Calling, Creating, Ways, Results, Commands
<1>5. \A x \in Executions \ {e} : Untouched(x)
  BY <1>0, <1>1, ContainerAssumption DEF ContainerTypeOK, Own, Untouched, Creating
<1>6. LeaseMoves(e)
  BY <1>0, <1>3
  DEF ContainerTypeOK, Own, LeaseMoves, LeaseOf, HasContainer, Working, Calling, Creating, Key
<1> QED BY <1>2, <1>3, <1>4, <1>5, <1>6, OneExecution

\* The mutex is kept, and Docker has no container yet.
LEMMA PullImageStep ==
    ASSUME Inv, NEW e \in Executions, PullImage(e)
    PROVE  Inv' /\ [Leases!Next]_Lease
<1> USE DEF PullImage, At, MoveTo, processVars, dockerVars, agentVars, cmdVars, countVars
<1>0. ContainerTypeOK /\ Own(e) /\ CommandAt(e) /\ cmd \in [Executions -> Commands]
  BY DEF Inv, ContainerTypeOK, Commands
<1>1. cmd' \in [Executions -> Commands] /\ \A x \in Executions \ {e} : cmd'[x] = cmd[x]
  BY <1>0
<1>2. ContainerTypeOK'
  BY <1>0, <1>1, ContainerAssumption
  DEF ContainerTypeOK, Own, Places, Working, Calling, Creating, Commands
<1>3. Own(e)'
  BY <1>0, ContainerAssumption DEF ContainerTypeOK, Own, HasContainer, Working, Calling, Creating
<1>4. CommandAt(e)'
  BY <1>0
  DEF ContainerTypeOK, CommandAt, Own, Calling, Creating, Ways, Results, Commands
<1>5. \A x \in Executions \ {e} : Untouched(x)
  BY <1>0, <1>1, ContainerAssumption DEF ContainerTypeOK, Own, Untouched, Creating
<1>6. LeaseMoves(e)
  BY <1>0, <1>3
  DEF ContainerTypeOK, Own, LeaseMoves, LeaseOf, HasContainer, Working, Calling, Creating, Key
<1> QED BY <1>2, <1>3, <1>4, <1>5, <1>6, OneExecution

\* The container exists, and the mutex accounts for it.
LEMMA ContainerCreateStep ==
    ASSUME Inv, NEW e \in Executions, ContainerCreate(e)
    PROVE  Inv' /\ [Leases!Next]_Lease
<1> USE DEF ContainerCreate, At, MoveTo, Key, processVars, dockerVars, agentVars, cmdVars, countVars
<1>0. ContainerTypeOK /\ Own(e) /\ CommandAt(e) /\ cmd \in [Executions -> Commands]
  BY DEF Inv, ContainerTypeOK, Commands
<1>1. cmd' \in [Executions -> Commands] /\ \A x \in Executions \ {e} : cmd'[x] = cmd[x]
  BY <1>0
<1>2. ContainerTypeOK'
  BY <1>0, <1>1, ContainerAssumption
  DEF ContainerTypeOK, Own, Places, Working, Calling, Creating, Commands
<1>3. Own(e)'
  BY <1>0, ContainerAssumption DEF ContainerTypeOK, Own, HasContainer, Working, Calling, Creating
<1>4. CommandAt(e)'
  BY <1>0
  DEF ContainerTypeOK, CommandAt, Own, Calling, Creating, Ways, Results, Commands
<1>5. \A x \in Executions \ {e} : Untouched(x)
  BY <1>0, <1>1, ContainerAssumption DEF ContainerTypeOK, Own, Untouched, Creating
<1>6. LeaseMoves(e)
  BY <1>0, <1>3
  DEF ContainerTypeOK, Own, LeaseMoves, LeaseOf, HasContainer, Working, Calling, Creating, Key
<1> QED BY <1>2, <1>3, <1>4, <1>5, <1>6, OneExecution

\* The lease begins: the entry takes over from the mutex.
LEMMA ContainerStartStep ==
    ASSUME Inv, NEW e \in Executions, ContainerStart(e)
    PROVE  Inv' /\ [Leases!Next]_Lease
<1> USE DEF ContainerStart, At, MoveTo, Key, Unlock, processVars, dockerVars, agentVars, cmdVars, countVars
<1>0. ContainerTypeOK /\ Own(e) /\ CommandAt(e) /\ cmd \in [Executions -> Commands]
  BY DEF Inv, ContainerTypeOK, Commands
<1>1. cmd' \in [Executions -> Commands] /\ \A x \in Executions \ {e} : cmd'[x] = cmd[x]
  BY <1>0
<1>2. ContainerTypeOK'
  BY <1>0, <1>1, ContainerAssumption
  DEF ContainerTypeOK, Own, Places, Working, Calling, Creating, Commands
<1>3. Own(e)'
  BY <1>0, ContainerAssumption DEF ContainerTypeOK, Own, HasContainer, Working, Calling, Creating
<1>4. CommandAt(e)'
  BY <1>0
  DEF ContainerTypeOK, CommandAt, Own, Calling, Creating, Ways, Results, Commands
<1>5. \A x \in Executions \ {e} : Untouched(x)
  BY <1>0, <1>1, ContainerAssumption DEF ContainerTypeOK, Own, Untouched, Creating
<1>6. LeaseMoves(e)
  BY <1>0, <1>3
  DEF ContainerTypeOK, Own, LeaseMoves, LeaseOf, HasContainer, Working, Calling, Creating, Key
<1> QED BY <1>2, <1>3, <1>4, <1>5, <1>6, OneExecution

\* What may have been left in Docker is a stray.
LEMMA CreateFailsStep ==
    ASSUME Inv, NEW e \in Executions, CreateFails(e)
    PROVE  Inv' /\ [Leases!Next]_Lease
<1> USE DEF CreateFails, MoveTo, Key, Unlock, LeftByCreate, processVars, dockerVars, agentVars, cmdVars, countVars
<1>0. ContainerTypeOK /\ Own(e) /\ CommandAt(e) /\ cmd \in [Executions -> Commands]
  BY DEF Inv, ContainerTypeOK, Commands
<1>1. cmd' \in [Executions -> Commands] /\ \A x \in Executions \ {e} : cmd'[x] = cmd[x]
  BY <1>0
<1>2. ContainerTypeOK'
  BY <1>0, <1>1, ContainerAssumption
  DEF ContainerTypeOK, Own, Places, Working, Calling, Creating, Commands
<1>3. Own(e)'
  BY <1>0, ContainerAssumption DEF ContainerTypeOK, Own, HasContainer, Working, Calling, Creating
<1>4. CommandAt(e)'
  BY <1>0
  DEF ContainerTypeOK, CommandAt, Own, Calling, Creating, Ways, Results, Commands
<1>5. \A x \in Executions \ {e} : Untouched(x)
  BY <1>0, <1>1, ContainerAssumption DEF ContainerTypeOK, Own, Untouched, Creating
<1>6. LeaseMoves(e)
  BY <1>0, <1>3
  DEF ContainerTypeOK, Own, LeaseMoves, LeaseOf, HasContainer, Working, Calling, Creating, Key
<1> QED BY <1>2, <1>3, <1>4, <1>5, <1>6, OneExecution

\* A new command has not been run.
LEMMA ExecuteCmdStep ==
    ASSUME Inv, NEW e \in Executions, ExecuteCmd(e)
    PROVE  Inv' /\ [Leases!Next]_Lease
<1> USE DEF ExecuteCmd, At, MoveTo, processVars, dockerVars, agentVars, cmdVars, countVars
<1>0. ContainerTypeOK /\ Own(e) /\ CommandAt(e) /\ cmd \in [Executions -> Commands]
  BY DEF Inv, ContainerTypeOK, Commands
<1>a. ASSUME cmd' = [cmd EXCEPT ![e] = NoCommand]
      PROVE  Updated(e, {}, {}, "none")
  BY ONLY <1>0, <1>a, e \in Executions, NewUpdates
<1>1. cmd' \in [Executions -> Commands] /\ \A x \in Executions \ {e} : cmd'[x] = cmd[x]
  BY <1>0, <1>a DEF Updated
<1>2. ContainerTypeOK'
  BY <1>0, <1>1, ContainerAssumption
  DEF ContainerTypeOK, Own, Places, Working, Calling, Creating, Commands
<1>3. Own(e)'
  BY <1>0, ContainerAssumption DEF ContainerTypeOK, Own, HasContainer, Working, Calling, Creating
<1>4. CommandAt(e)'
  BY <1>0, <1>a
  DEF ContainerTypeOK, CommandAt, Own, Calling, Creating, Ways, Results, Commands, Updated
<1>5. \A x \in Executions \ {e} : Untouched(x)
  BY <1>0, <1>1, ContainerAssumption DEF ContainerTypeOK, Own, Untouched, Creating
<1>6. LeaseMoves(e)
  BY <1>0, <1>3
  DEF ContainerTypeOK, Own, LeaseMoves, LeaseOf, HasContainer, Working, Calling, Creating, Key
<1> QED BY <1>2, <1>3, <1>4, <1>5, <1>6, OneExecution

\* A call that was refused has run nothing.
LEMMA ApiRefusesStep ==
    ASSUME Inv, NEW e \in Executions, ApiRefuses(e)
    PROVE  Inv' /\ [Leases!Next]_Lease
<1> USE DEF ApiRefuses, At, MoveTo, processVars, dockerVars, agentVars, cmdVars, countVars
<1>0. ContainerTypeOK /\ Own(e) /\ CommandAt(e) /\ cmd \in [Executions -> Commands]
  BY DEF Inv, ContainerTypeOK, Commands
<1>1. cmd' \in [Executions -> Commands] /\ \A x \in Executions \ {e} : cmd'[x] = cmd[x]
  BY <1>0
<1>2. ContainerTypeOK'
  BY <1>0, <1>1, ContainerAssumption
  DEF ContainerTypeOK, Own, Places, Working, Calling, Creating, Commands
<1>3. Own(e)'
  BY <1>0, ContainerAssumption DEF ContainerTypeOK, Own, HasContainer, Working, Calling, Creating
<1>4. CommandAt(e)'
  BY <1>0
  DEF ContainerTypeOK, CommandAt, Own, Calling, Creating, Ways, Results, Commands
<1>5. \A x \in Executions \ {e} : Untouched(x)
  BY <1>0, <1>1, ContainerAssumption DEF ContainerTypeOK, Own, Untouched, Creating
<1>6. LeaseMoves(e)
  BY <1>0, <1>3
  DEF ContainerTypeOK, Own, LeaseMoves, LeaseOf, HasContainer, Working, Calling, Creating, Key
<1> QED BY <1>2, <1>3, <1>4, <1>5, <1>6, OneExecution

\* The API runs the command for the first time.
LEMMA ApiRunsStep ==
    ASSUME Inv, NEW e \in Executions, ApiRuns(e)
    PROVE  Inv' /\ [Leases!Next]_Lease
<1> USE DEF ApiRuns, At, MoveTo, Key, processVars, dockerVars, agentVars, cmdVars, countVars
<1>0. ContainerTypeOK /\ Own(e) /\ CommandAt(e) /\ cmd \in [Executions -> Commands]
  BY DEF Inv, ContainerTypeOK, Commands
<1>a. ASSUME cmd' = Runs(e, "api")
      PROVE  Updated(e, cmd[e].ran \cup {"api"}, cmd[e].running \cup {"api"}, cmd[e].answer)
  BY ONLY <1>0, <1>a, e \in Executions, RunsUpdates DEF Ways
<1>1. cmd' \in [Executions -> Commands] /\ \A x \in Executions \ {e} : cmd'[x] = cmd[x]
  BY <1>0, <1>a DEF Updated
<1>2. ContainerTypeOK'
  BY <1>0, <1>1, ContainerAssumption
  DEF ContainerTypeOK, Own, Places, Working, Calling, Creating, Commands
<1>3. Own(e)'
  BY <1>0, ContainerAssumption DEF ContainerTypeOK, Own, HasContainer, Working, Calling, Creating
<1>4. CommandAt(e)'
  BY <1>0, <1>a
  DEF ContainerTypeOK, CommandAt, Own, Calling, Creating, Ways, Results, Commands, Updated
<1>5. \A x \in Executions \ {e} : Untouched(x)
  BY <1>0, <1>1, ContainerAssumption DEF ContainerTypeOK, Own, Untouched, Creating
<1>6. LeaseMoves(e)
  BY <1>0, <1>3
  DEF ContainerTypeOK, Own, LeaseMoves, LeaseOf, HasContainer, Working, Calling, Creating, Key
<1> QED BY <1>2, <1>3, <1>4, <1>5, <1>6, OneExecution

\* A success ends the call; any other answer excuses a second run.
LEMMA ApiRepliesStep ==
    ASSUME Inv, NEW e \in Executions, ApiReplies(e)
    PROVE  Inv' /\ [Leases!Next]_Lease
<1> USE DEF ApiReplies, At, MoveTo, Excuse, processVars, dockerVars, agentVars, cmdVars, countVars
<1>0. ContainerTypeOK /\ Own(e) /\ CommandAt(e) /\ cmd \in [Executions -> Commands]
  BY DEF Inv, ContainerTypeOK, Commands
<1>a. ASSUME cmd' = Told(e, "success")
      PROVE  Updated(e, cmd[e].ran, cmd[e].running, "success")
  BY ONLY <1>0, <1>a, e \in Executions, ToldUpdates DEF Results
<1>1. cmd' \in [Executions -> Commands] /\ \A x \in Executions \ {e} : cmd'[x] = cmd[x]
  BY <1>0, <1>a DEF Updated
<1>b. NoExecution \notin Executions
  BY ContainerAssumption
<1>2. ContainerTypeOK'
  BY <1>0, <1>1, <1>b
  DEF ContainerTypeOK, Own, Places, Working, Calling, Creating, Commands
<1>3. Own(e)'
  BY <1>0, ContainerAssumption DEF ContainerTypeOK, Own, HasContainer, Working, Calling, Creating
<1>4. CommandAt(e)'
  <2>0. epc'[e] \in {"work", "exec"} /\ cmd[e].ran = {"api"} /\ cmd[e].running = {} /\ cmd[e].answer = "none"
    BY <1>0 DEF ContainerTypeOK, CommandAt, Calling, Commands
  <2>1. CASE cmd' = Told(e, "success")
    <3>1. Updated(e, cmd[e].ran, cmd[e].running, "success")
      BY <1>a, <2>1
    <3>2. cmd' # cmd
      BY <2>0, <3>1 DEF Updated
    <3>3. epc'[e] = "work"
      BY <1>0, <3>2 DEF ContainerTypeOK
    <3> QED BY ONLY <2>0, <3>1, <3>3 DEF CommandAt, Calling, Ways, Updated
  <2>2. CASE cmd' = cmd /\ ~(cmd' = Told(e, "success"))
    BY <1>0, <2>2 DEF ContainerTypeOK, CommandAt, Calling, Creating, Ways, Results, Commands
  <2> QED BY <2>1, <2>2
<1>5. \A x \in Executions \ {e} : Untouched(x)
  BY <1>0, <1>1, ContainerAssumption DEF ContainerTypeOK, Own, Untouched, Creating
<1>6. LeaseMoves(e)
  BY <1>0, <1>3
  DEF ContainerTypeOK, Own, LeaseMoves, LeaseOf, HasContainer, Working, Calling, Creating, Key
<1> QED BY <1>2, <1>3, <1>4, <1>5, <1>6, OneExecution

\* A broken connection excuses a second run.
LEMMA ApiBreaksStep ==
    ASSUME Inv, NEW e \in Executions, ApiBreaks(e)
    PROVE  Inv' /\ [Leases!Next]_Lease
<1> USE DEF ApiBreaks, At, MoveTo, Excuse, processVars, dockerVars, agentVars, cmdVars, countVars
<1>0. ContainerTypeOK /\ Own(e) /\ CommandAt(e) /\ cmd \in [Executions -> Commands]
  BY DEF Inv, ContainerTypeOK, Commands
<1>a. ASSUME cmd' = Told(e, "success")
      PROVE  Updated(e, cmd[e].ran, cmd[e].running, "success")
  BY ONLY <1>0, <1>a, e \in Executions, ToldUpdates DEF Results
<1>1. cmd' \in [Executions -> Commands] /\ \A x \in Executions \ {e} : cmd'[x] = cmd[x]
  BY <1>0, <1>a DEF Updated
<1>2. ContainerTypeOK'
  BY <1>0, <1>1, ContainerAssumption
  DEF ContainerTypeOK, Own, Places, Working, Calling, Creating, Commands
<1>3. Own(e)'
  BY <1>0, ContainerAssumption DEF ContainerTypeOK, Own, HasContainer, Working, Calling, Creating
<1>4. CommandAt(e)'
  <2>0. epc'[e] \in {"work", "exec"} /\ cmd[e].ran = {"api"} /\ cmd[e].running \subseteq {"api"}
              /\ e \in excused' /\ cmd[e].answer = "none"
    BY <1>0 DEF ContainerTypeOK, CommandAt, Calling, Commands
  <2>1. CASE cmd' = Told(e, "success")
    <3>1. Updated(e, cmd[e].ran, cmd[e].running, "success")
      BY <1>a, <2>1
    <3>2. cmd' # cmd
      BY <2>0, <3>1 DEF Updated
    <3>3. epc'[e] = "work"
      BY <1>0, <3>2 DEF ContainerTypeOK
    <3> QED BY ONLY <2>0, <3>1, <3>3 DEF CommandAt, Calling, Ways, Updated
  <2>2. CASE cmd' = cmd /\ ~(cmd' = Told(e, "success"))
    BY <1>0, <2>2 DEF ContainerTypeOK, CommandAt, Calling, Creating, Ways, Results, Commands
  <2> QED BY <2>1, <2>2
<1>5. \A x \in Executions \ {e} : Untouched(x)
  BY <1>0, <1>1, ContainerAssumption DEF ContainerTypeOK, Own, Untouched, Creating
<1>6. LeaseMoves(e)
  BY <1>0, <1>3
  DEF ContainerTypeOK, Own, LeaseMoves, LeaseOf, HasContainer, Working, Calling, Creating, Key
<1> QED BY <1>2, <1>3, <1>4, <1>5, <1>6, OneExecution

\* The answer is an error, excused if the command was started.
LEMMA ExecFailsStep ==
    ASSUME Inv, NEW e \in Executions, ExecFails(e)
    PROVE  Inv' /\ [Leases!Next]_Lease
<1> USE DEF ExecFails, At, MoveTo, Key, Excuse, processVars, dockerVars, agentVars, cmdVars, countVars
<1>0. ContainerTypeOK /\ Own(e) /\ CommandAt(e) /\ cmd \in [Executions -> Commands]
  BY DEF Inv, ContainerTypeOK, Commands
<1>a. ASSUME cmd' = Told(e, "error")
      PROVE  Updated(e, cmd[e].ran, cmd[e].running, "error")
  BY ONLY <1>0, <1>a, e \in Executions, ToldUpdates DEF Results
<1>b. ASSUME cmd' = [Runs(e, "exec") EXCEPT ![e].answer = "error"]
      PROVE  Updated(e, cmd[e].ran \cup {"exec"}, cmd[e].running \cup {"exec"}, "error")
  BY ONLY <1>0, <1>b, e \in Executions, FailsUpdates
<1>1. cmd' \in [Executions -> Commands] /\ \A x \in Executions \ {e} : cmd'[x] = cmd[x]
  BY <1>0, <1>a, <1>b DEF Updated
<1>2. ContainerTypeOK'
  BY <1>0, <1>1, ContainerAssumption
  DEF ContainerTypeOK, Own, Places, Working, Calling, Creating, Commands
<1>3. Own(e)'
  BY <1>0, ContainerAssumption DEF ContainerTypeOK, Own, HasContainer, Working, Calling, Creating
<1>4. CommandAt(e)'
  <2>0. epc'[e] = "work" /\ cmd[e].running \subseteq cmd[e].ran /\ (e \in excused' \/ cmd[e].ran = {})
    BY <1>0 DEF ContainerTypeOK, CommandAt, Calling, Commands
  <2>1. CASE cmd' = Told(e, "error")
    <3>1. Updated(e, cmd[e].ran, cmd[e].running, "error")
      BY <1>a, <2>1
    <3> QED BY <2>0, <2>1, <3>1 DEF CommandAt, Calling, Ways, Updated
  <2>2. CASE cmd' = [Runs(e, "exec") EXCEPT ![e].answer = "error"] /\ ~(cmd' = Told(e, "error"))
    <3>1. Updated(e, cmd[e].ran \cup {"exec"}, cmd[e].running \cup {"exec"}, "error")
      BY <1>b, <2>2
    <3> QED BY <2>0, <2>2, <3>1 DEF CommandAt, Calling, Ways, Updated
  <2> QED BY <2>1, <2>2
<1>5. \A x \in Executions \ {e} : Untouched(x)
  BY <1>0, <1>1, ContainerAssumption DEF ContainerTypeOK, Own, Untouched, Creating
<1>6. LeaseMoves(e)
  BY <1>0, <1>3
  DEF ContainerTypeOK, Own, LeaseMoves, LeaseOf, HasContainer, Working, Calling, Creating, Key
<1> QED BY <1>2, <1>3, <1>4, <1>5, <1>6, OneExecution

\* The second run, or the first one if the API was not there.
LEMMA ExecStartStep ==
    ASSUME Inv, NEW e \in Executions, ExecStart(e)
    PROVE  Inv' /\ [Leases!Next]_Lease
<1> USE DEF ExecStart, At, MoveTo, Key, processVars, dockerVars, agentVars, cmdVars, countVars
<1>0. ContainerTypeOK /\ Own(e) /\ CommandAt(e) /\ cmd \in [Executions -> Commands]
  BY DEF Inv, ContainerTypeOK, Commands
<1>a. ASSUME cmd' = Runs(e, "exec")
      PROVE  Updated(e, cmd[e].ran \cup {"exec"}, cmd[e].running \cup {"exec"}, cmd[e].answer)
  BY ONLY <1>0, <1>a, e \in Executions, RunsUpdates DEF Ways
<1>1. cmd' \in [Executions -> Commands] /\ \A x \in Executions \ {e} : cmd'[x] = cmd[x]
  BY <1>0, <1>a DEF Updated
<1>2. ContainerTypeOK'
  BY <1>0, <1>1, ContainerAssumption
  DEF ContainerTypeOK, Own, Places, Working, Calling, Creating, Commands
<1>3. Own(e)'
  BY <1>0, ContainerAssumption DEF ContainerTypeOK, Own, HasContainer, Working, Calling, Creating
<1>4. CommandAt(e)'
  BY <1>0, <1>a
  DEF ContainerTypeOK, CommandAt, Own, Calling, Creating, Ways, Results, Commands, Updated
<1>5. \A x \in Executions \ {e} : Untouched(x)
  BY <1>0, <1>1, ContainerAssumption DEF ContainerTypeOK, Own, Untouched, Creating
<1>6. LeaseMoves(e)
  BY <1>0, <1>3
  DEF ContainerTypeOK, Own, LeaseMoves, LeaseOf, HasContainer, Working, Calling, Creating, Key
<1> QED BY <1>2, <1>3, <1>4, <1>5, <1>6, OneExecution

\* A command whose output cannot be read is excused.
LEMMA ExecAttachStep ==
    ASSUME Inv, NEW e \in Executions, ExecAttach(e)
    PROVE  Inv' /\ [Leases!Next]_Lease
<1> USE DEF ExecAttach, At, MoveTo, Excuse, processVars, dockerVars, agentVars, cmdVars, countVars
<1>0. ContainerTypeOK /\ Own(e) /\ CommandAt(e) /\ cmd \in [Executions -> Commands]
  BY DEF Inv, ContainerTypeOK, Commands
<1>a. ASSUME cmd' = Told(e, "error")
      PROVE  Updated(e, cmd[e].ran, cmd[e].running, "error")
  BY ONLY <1>0, <1>a, e \in Executions, ToldUpdates DEF Results
<1>1. cmd' \in [Executions -> Commands] /\ \A x \in Executions \ {e} : cmd'[x] = cmd[x]
  BY <1>0, <1>a DEF Updated
<1>2. ContainerTypeOK'
  BY <1>0, <1>1, ContainerAssumption
  DEF ContainerTypeOK, Own, Places, Working, Calling, Creating, Commands
<1>3. Own(e)'
  BY <1>0, ContainerAssumption DEF ContainerTypeOK, Own, HasContainer, Working, Calling, Creating
<1>4. CommandAt(e)'
  BY <1>0, <1>a
  DEF ContainerTypeOK, CommandAt, Own, Calling, Creating, Ways, Results, Commands, Updated
<1>5. \A x \in Executions \ {e} : Untouched(x)
  BY <1>0, <1>1, ContainerAssumption DEF ContainerTypeOK, Own, Untouched, Creating
<1>6. LeaseMoves(e)
  BY <1>0, <1>3
  DEF ContainerTypeOK, Own, LeaseMoves, LeaseOf, HasContainer, Working, Calling, Creating, Key
<1> QED BY <1>2, <1>3, <1>4, <1>5, <1>6, OneExecution

\* The output ends when the command does.
LEMMA ReadOutputStep ==
    ASSUME Inv, NEW e \in Executions, ReadOutput(e)
    PROVE  Inv' /\ [Leases!Next]_Lease
<1> USE DEF ReadOutput, At, MoveTo, processVars, dockerVars, agentVars, cmdVars, countVars
<1>0. ContainerTypeOK /\ Own(e) /\ CommandAt(e) /\ cmd \in [Executions -> Commands]
  BY DEF Inv, ContainerTypeOK, Commands
<1>1. cmd' \in [Executions -> Commands] /\ \A x \in Executions \ {e} : cmd'[x] = cmd[x]
  BY <1>0
<1>2. ContainerTypeOK'
  BY <1>0, <1>1, ContainerAssumption
  DEF ContainerTypeOK, Own, Places, Working, Calling, Creating, Commands
<1>3. Own(e)'
  BY <1>0, ContainerAssumption DEF ContainerTypeOK, Own, HasContainer, Working, Calling, Creating
<1>4. CommandAt(e)'
  BY <1>0
  DEF ContainerTypeOK, CommandAt, Own, Calling, Creating, Ways, Results, Commands
<1>5. \A x \in Executions \ {e} : Untouched(x)
  BY <1>0, <1>1, ContainerAssumption DEF ContainerTypeOK, Own, Untouched, Creating
<1>6. LeaseMoves(e)
  BY <1>0, <1>3
  DEF ContainerTypeOK, Own, LeaseMoves, LeaseOf, HasContainer, Working, Calling, Creating, Key
<1> QED BY <1>2, <1>3, <1>4, <1>5, <1>6, OneExecution

\* A broken read is excused.
LEMMA ReadBreaksStep ==
    ASSUME Inv, NEW e \in Executions, ReadBreaks(e)
    PROVE  Inv' /\ [Leases!Next]_Lease
<1> USE DEF ReadBreaks, At, MoveTo, Excuse, processVars, dockerVars, agentVars, cmdVars, countVars
<1>0. ContainerTypeOK /\ Own(e) /\ CommandAt(e) /\ cmd \in [Executions -> Commands]
  BY DEF Inv, ContainerTypeOK, Commands
<1>1. cmd' \in [Executions -> Commands] /\ \A x \in Executions \ {e} : cmd'[x] = cmd[x]
  BY <1>0
<1>2. ContainerTypeOK'
  BY <1>0, <1>1, ContainerAssumption
  DEF ContainerTypeOK, Own, Places, Working, Calling, Creating, Commands
<1>3. Own(e)'
  BY <1>0, ContainerAssumption DEF ContainerTypeOK, Own, HasContainer, Working, Calling, Creating
<1>4. CommandAt(e)'
  BY <1>0
  DEF ContainerTypeOK, CommandAt, Own, Calling, Creating, Ways, Results, Commands
<1>5. \A x \in Executions \ {e} : Untouched(x)
  BY <1>0, <1>1, ContainerAssumption DEF ContainerTypeOK, Own, Untouched, Creating
<1>6. LeaseMoves(e)
  BY <1>0, <1>3
  DEF ContainerTypeOK, Own, LeaseMoves, LeaseOf, HasContainer, Working, Calling, Creating, Key
<1> QED BY <1>2, <1>3, <1>4, <1>5, <1>6, OneExecution

\* The command is over, or its reading broke.
LEMMA ExecInspectStep ==
    ASSUME Inv, NEW e \in Executions, ExecInspect(e)
    PROVE  Inv' /\ [Leases!Next]_Lease
<1> USE DEF ExecInspect, At, MoveTo, Results, processVars, dockerVars, agentVars, cmdVars, countVars
<1>0. ContainerTypeOK /\ Own(e) /\ CommandAt(e) /\ cmd \in [Executions -> Commands]
  BY DEF Inv, ContainerTypeOK, Commands
<1>a. ASSUME cmd' = Told(e, "success")
      PROVE  Updated(e, cmd[e].ran, cmd[e].running, "success")
  BY ONLY <1>0, <1>a, e \in Executions, ToldUpdates DEF Results
<1>b. ASSUME cmd' = Told(e, "error")
      PROVE  Updated(e, cmd[e].ran, cmd[e].running, "error")
  BY ONLY <1>0, <1>b, e \in Executions, ToldUpdates DEF Results
<1>1. cmd' \in [Executions -> Commands] /\ \A x \in Executions \ {e} : cmd'[x] = cmd[x]
  BY <1>0, <1>a, <1>b DEF Updated
<1>2. ContainerTypeOK'
  BY <1>0, <1>1, ContainerAssumption
  DEF ContainerTypeOK, Own, Places, Working, Calling, Creating, Commands
<1>3. Own(e)'
  BY <1>0, ContainerAssumption DEF ContainerTypeOK, Own, HasContainer, Working, Calling, Creating
<1>4. CommandAt(e)'
  <2>0. epc'[e] = "work" /\ excused' = excused /\ cmd[e].running \subseteq cmd[e].ran /\ cmd[e].ran # {}
              /\ (e \in excused \/ (cmd[e].ran = {"exec"} /\ cmd[e].running = {}))
    BY <1>0 DEF ContainerTypeOK, CommandAt, Calling, Commands
  <2>1. CASE cmd' = Told(e, "success")
    <3>1. Updated(e, cmd[e].ran, cmd[e].running, "success")
      BY <1>a, <2>1
    <3> QED BY <2>0, <2>1, <3>1 DEF CommandAt, Calling, Ways, Updated
  <2>2. CASE cmd' = Told(e, "error")
    <3>1. Updated(e, cmd[e].ran, cmd[e].running, "error")
      BY <1>b, <2>2
    <3> QED BY <2>0, <2>2, <3>1 DEF CommandAt, Calling, Ways, Updated
  <2> QED BY <2>1, <2>2 DEF Results
<1>5. \A x \in Executions \ {e} : Untouched(x)
  BY <1>0, <1>1, ContainerAssumption DEF ContainerTypeOK, Own, Untouched, Creating
<1>6. LeaseMoves(e)
  BY <1>0, <1>3
  DEF ContainerTypeOK, Own, LeaseMoves, LeaseOf, HasContainer, Working, Calling, Creating, Key
<1> QED BY <1>2, <1>3, <1>4, <1>5, <1>6, OneExecution

\* The entry stays with an execution that left.
LEMMA LeaveSilentlyStep ==
    ASSUME Inv, NEW e \in Executions, LeaveSilently(e)
    PROVE  Inv' /\ [Leases!Next]_Lease
<1> USE DEF LeaveSilently, At, MoveTo, processVars, dockerVars, agentVars, cmdVars, countVars
<1>0. ContainerTypeOK /\ Own(e) /\ CommandAt(e) /\ cmd \in [Executions -> Commands]
  BY DEF Inv, ContainerTypeOK, Commands
<1>1. cmd' \in [Executions -> Commands] /\ \A x \in Executions \ {e} : cmd'[x] = cmd[x]
  BY <1>0
<1>2. ContainerTypeOK'
  BY <1>0, <1>1, ContainerAssumption
  DEF ContainerTypeOK, Own, Places, Working, Calling, Creating, Commands
<1>3. Own(e)'
  BY <1>0, ContainerAssumption DEF ContainerTypeOK, Own, HasContainer, Working, Calling, Creating
<1>4. CommandAt(e)'
  BY <1>0
  DEF ContainerTypeOK, CommandAt, Own, Calling, Creating, Ways, Results, Commands
<1>5. \A x \in Executions \ {e} : Untouched(x)
  BY <1>0, <1>1, ContainerAssumption DEF ContainerTypeOK, Own, Untouched, Creating
<1>6. LeaseMoves(e)
  BY <1>0, <1>3
  DEF ContainerTypeOK, Own, LeaseMoves, LeaseOf, HasContainer, Working, Calling, Creating, Key
<1> QED BY <1>2, <1>3, <1>4, <1>5, <1>6, OneExecution

\* The lease is given up if there is one.
LEMMA UnregisterAgentStep ==
    ASSUME Inv, NEW e \in Executions, UnregisterAgent(e)
    PROVE  Inv' /\ [Leases!Next]_Lease
<1> USE DEF UnregisterAgent, At, MoveTo, processVars, dockerVars, agentVars, cmdVars, countVars
<1>0. ContainerTypeOK /\ Own(e) /\ CommandAt(e) /\ cmd \in [Executions -> Commands]
  BY DEF Inv, ContainerTypeOK, Commands
<1>1. cmd' \in [Executions -> Commands] /\ \A x \in Executions \ {e} : cmd'[x] = cmd[x]
  BY <1>0
<1>2. ContainerTypeOK'
  BY <1>0, <1>1, ContainerAssumption
  DEF ContainerTypeOK, Own, Places, Working, Calling, Creating, Commands
<1>3. Own(e)'
  BY <1>0, ContainerAssumption DEF ContainerTypeOK, Own, HasContainer, Working, Calling, Creating
<1>4. CommandAt(e)'
  BY <1>0
  DEF ContainerTypeOK, CommandAt, Own, Calling, Creating, Ways, Results, Commands
<1>5. \A x \in Executions \ {e} : Untouched(x)
  BY <1>0, <1>1, ContainerAssumption DEF ContainerTypeOK, Own, Untouched, Creating
<1>6. LeaseMoves(e)
  BY <1>0, <1>3
  DEF ContainerTypeOK, Own, LeaseMoves, LeaseOf, HasContainer, Working, Calling, Creating, Key
<1> QED BY <1>2, <1>3, <1>4, <1>5, <1>6, OneExecution

\* The entry is there, and the mutex taken.
LEMMA LockToReleaseStep ==
    ASSUME Inv, NEW e \in Executions, LockToRelease(e)
    PROVE  Inv' /\ [Leases!Next]_Lease
<1> USE DEF LockToRelease, At, MoveTo, Key, processVars, dockerVars, agentVars, cmdVars, countVars
<1>0. ContainerTypeOK /\ Own(e) /\ CommandAt(e) /\ cmd \in [Executions -> Commands]
  BY DEF Inv, ContainerTypeOK, Commands
<1>1. cmd' \in [Executions -> Commands] /\ \A x \in Executions \ {e} : cmd'[x] = cmd[x]
  BY <1>0
<1>2. ContainerTypeOK'
  BY <1>0, <1>1, ContainerAssumption
  DEF ContainerTypeOK, Own, Places, Working, Calling, Creating, Commands
<1>3. Own(e)'
  BY <1>0, ContainerAssumption DEF ContainerTypeOK, Own, HasContainer, Working, Calling, Creating
<1>4. CommandAt(e)'
  BY <1>0
  DEF ContainerTypeOK, CommandAt, Own, Calling, Creating, Ways, Results, Commands
<1>5. \A x \in Executions \ {e} : Untouched(x)
  BY <1>0, <1>1, ContainerAssumption DEF ContainerTypeOK, Own, Untouched, Creating
<1>6. LeaseMoves(e)
  BY <1>0, <1>3
  DEF ContainerTypeOK, Own, LeaseMoves, LeaseOf, HasContainer, Working, Calling, Creating, Key
<1> QED BY <1>2, <1>3, <1>4, <1>5, <1>6, OneExecution

\* The lease ends; a container that may go on is a stray.
LEMMA StopContainerStep ==
    ASSUME Inv, NEW e \in Executions, StopContainer(e)
    PROVE  Inv' /\ [Leases!Next]_Lease
<1> USE DEF StopContainer, At, MoveTo, Unlock, Key, processVars, dockerVars, agentVars, cmdVars, countVars
<1>0. ContainerTypeOK /\ Own(e) /\ CommandAt(e) /\ cmd \in [Executions -> Commands]
  BY DEF Inv, ContainerTypeOK, Commands
<1>a. ASSUME cmd' = Killed(e)
      PROVE  Updated(e, cmd[e].ran, {}, cmd[e].answer)
  BY ONLY <1>0, <1>a, e \in Executions, KilledUpdates
<1>1. cmd' \in [Executions -> Commands] /\ \A x \in Executions \ {e} : cmd'[x] = cmd[x]
  BY <1>0, <1>a DEF Updated
<1>2. ContainerTypeOK'
  BY <1>0, <1>1, ContainerAssumption
  DEF ContainerTypeOK, Own, Places, Working, Calling, Creating, Commands
<1>3. Own(e)'
  BY <1>0, ContainerAssumption DEF ContainerTypeOK, Own, HasContainer, Working, Calling, Creating
<1>4. CommandAt(e)'
  BY <1>0, <1>a
  DEF ContainerTypeOK, CommandAt, Own, Calling, Creating, Ways, Results, Commands, Updated
<1>5. \A x \in Executions \ {e} : Untouched(x)
  BY <1>0, <1>1, ContainerAssumption DEF ContainerTypeOK, Own, Untouched, Creating
<1>6. LeaseMoves(e)
  BY <1>0, <1>3
  DEF ContainerTypeOK, Own, LeaseMoves, LeaseOf, HasContainer, Working, Calling, Creating, Key
<1> QED BY <1>2, <1>3, <1>4, <1>5, <1>6, OneExecution

\* A command that is over has been run all the same.
LEMMA CommandEndsStep ==
    ASSUME Inv, NEW e \in Executions, NEW way \in Ways, CommandEnds(e, way) PROVE Inv' /\ [Leases!Next]_Lease
<1> USE DEF CommandEnds, processVars, dockerVars, cmdVars, countVars
<1>0. ContainerTypeOK /\ Own(e) /\ CommandAt(e) /\ cmd \in [Executions -> Commands]
  BY DEF Inv, ContainerTypeOK, Commands
<1>a. Updated(e, cmd[e].ran, cmd[e].running \ {way}, cmd[e].answer)
  BY <1>0 DEF Updated, Commands
<1>1. cmd' \in [Executions -> Commands] /\ \A x \in Executions \ {e} : cmd'[x] = cmd[x]
  BY ONLY <1>a DEF Updated
<1>2. ContainerTypeOK'
  BY <1>0, <1>1 DEF ContainerTypeOK, Commands
<1>3. Own(e)'
  BY <1>0 DEF Own
<1>4. CommandAt(e)'
  BY <1>0, <1>a DEF CommandAt, Updated
<1>5. \A x \in Executions \ {e} : Untouched(x)
  BY <1>1 DEF Untouched
<1>6. LeaseMoves(e)
  BY DEF LeaseMoves, LeaseOf
<1> QED BY <1>2, <1>3, <1>4, <1>5, <1>6, OneExecution

\* The lease outlives a container that died.
LEMMA ContainerDiesStep ==
    ASSUME Inv, NEW e \in Executions, ContainerDies(e) PROVE Inv' /\ [Leases!Next]_Lease
<1> USE DEF ContainerDies, processVars, dockerVars, cmdVars, countVars
<1>0. ContainerTypeOK /\ Own(e) /\ CommandAt(e) /\ cmd \in [Executions -> Commands]
  BY DEF Inv, ContainerTypeOK, Commands
<1>a. Updated(e, cmd[e].ran, {}, cmd[e].answer)
  BY <1>0, KilledUpdates
<1>1. cmd' \in [Executions -> Commands] /\ \A x \in Executions \ {e} : cmd'[x] = cmd[x]
  BY ONLY <1>a DEF Updated
<1>2. ContainerTypeOK'
  BY <1>0, <1>1 DEF ContainerTypeOK, Commands
<1>3. Own(e)'
  BY <1>0 DEF ContainerTypeOK, Own, Creating
<1>4. CommandAt(e)'
  BY <1>0, <1>a DEF CommandAt, Updated
<1>5. \A x \in Executions \ {e} : Untouched(x)
  BY <1>0, <1>1 DEF ContainerTypeOK, Untouched
<1>6. LeaseMoves(e)
  BY DEF LeaseMoves, LeaseOf
<1> QED BY <1>2, <1>3, <1>4, <1>5, <1>6, OneExecution

\* A container that existed when the process ends is a stray: its execution
\* was neither new nor over, unless it was one already.
LEMMA ProcessEndsStep ==
    ASSUME Inv, ProcessEnds PROVE Inv' /\ [Leases!Next]_Lease
<1> USE DEF ProcessEnds, Unlock, Key, processVars, dockerVars, agentVars, cmdVars, countVars
<1>0. ContainerTypeOK
  BY DEF Inv
<1>a. {Key(e) : e \in {x \in Executions : epc[x] \notin {"new", "over"}}} \subseteq Executions
  OBVIOUS
<1>b. epc' \in [Executions -> Places]
  BY <1>0 DEF ContainerTypeOK, Places
<1>1. ContainerTypeOK'
  BY <1>0, <1>a, <1>b, ContainerAssumption DEF ContainerTypeOK
<1>2. ASSUME NEW e \in Executions PROVE Own(e)' /\ CommandAt(e)'
  <2>1. Own(e) /\ CommandAt(e)
    BY <1>2 DEF Inv
  <2>2. epc'[e] = IF epc[e] = "new" THEN "new" ELSE "over"
    BY <1>2
  <2>3. epc[e] \notin {"new", "over"} => e \in strays'
    BY <1>2
  <2>4. strays \subseteq strays' /\ mutex' = NoExecution /\ entries' = {} /\ ~up'
    OBVIOUS
  <2>5. epc[e] \in {"new", "over"} /\ docker[e] \in {"created", "running"} => e \in strays
    BY <2>1, <1>0 DEF Own, HasContainer, Working, Calling, Creating
  <2>6. Own(e)'
    BY <1>2, <2>1, <2>2, <2>3, <2>4, <2>5, ContainerAssumption
    DEF Own, HasContainer, Working, Calling, Creating
  <2>7. CommandAt(e)'
    BY <2>1, <2>2 DEF CommandAt, Calling
  <2> QED BY <2>6, <2>7
<1>3. Leases!Forget
  BY DEF Leases!Forget, Lease, LeaseOf
<1> QED BY <1>1, <1>2, <1>3 DEF Inv, Leases!Next

\* A process starts with no entry, as the one before it ended.
LEMMA ProcessStartsStep ==
    ASSUME Inv, ProcessStarts PROVE Inv' /\ [Leases!Next]_Lease
<1> USE DEF ProcessStarts, dockerVars, agentVars, cmdVars
<1>1. ContainerTypeOK'
  BY ContainerAssumption DEF Inv, ContainerTypeOK
<1>2. \A e \in Executions : Own(e)' /\ CommandAt(e)'
  BY DEF Inv, Own, CommandAt
<1>3. \A e \in Executions : LeaseOf(e)' = LeaseOf(e)
  BY DEF Inv, Own, LeaseOf, Key, HasContainer, Working, Calling, Creating
<1>4. Lease' = Lease
  BY <1>3 DEF Lease
<1> QED BY <1>1, <1>2, <1>4 DEF Inv

\* The invariant is inductive, and every step is one of the ledger or stutters.
LEMMA NextStep == Inv /\ [ContainerNext]_containerVars => Inv' /\ [Leases!Next]_Lease
<1> SUFFICES ASSUME Inv, [ContainerNext]_containerVars PROVE Inv' /\ [Leases!Next]_Lease
  OBVIOUS
<1>1. ASSUME NEW e \in Executions,
             \/ BeginExecution(e) \/ TakeLock(e) \/ ServiceCall(e) \/ ExecuteCmd(e) \/ ReadBreaks(e)
             \/ LeaveSilently(e) \/ UnregisterAgent(e) \/ SomeCommandEnds(e) \/ ContainerDies(e)
      PROVE  Inv' /\ [Leases!Next]_Lease
  BY <1>1, BeginExecutionStep, LockToCreateStep, PullImageStep,
   ContainerCreateStep, ContainerStartStep, CreateFailsStep, ExecuteCmdStep,
   ApiRefusesStep, ApiRunsStep, ApiRepliesStep, ApiBreaksStep, ExecFailsStep,
   ExecStartStep, ExecAttachStep, ReadOutputStep, ReadBreaksStep,
   ExecInspectStep, LeaveSilentlyStep, UnregisterAgentStep, LockToReleaseStep,
   StopContainerStep, CommandEndsStep, ContainerDiesStep
  DEF TakeLock, ServiceCall, SomeCommandEnds
<1>2. CASE ProcessEnds
  BY <1>2, ProcessEndsStep
<1>3. CASE ProcessStarts
  BY <1>3, ProcessStartsStep
<1>4. CASE UNCHANGED containerVars
  BY <1>4 DEF Inv, ContainerTypeOK, Own, CommandAt, Lease, LeaseOf, containerVars, processVars, dockerVars, agentVars, cmdVars, countVars
<1> QED BY <1>1, <1>2, <1>3, <1>4 DEF ContainerNext

\* Init and NextStep, by induction on behaviours.
LEMMA InvInvariant == ContainerSpec => []Inv
<1>1. ContainerInit => Inv
  BY InitInv
<1>2. Inv /\ [ContainerNext]_containerVars => Inv'
  BY NextStep
<1> QED BY <1>1, <1>2, PTL DEF ContainerSpec

------------------------------------------------------------------------------
\* The manager's map, Docker and the executions agree (ContainersAgree), for
\* any number of executions, commands and restarts.
THEOREM ContainersAlwaysAgree == ContainerSpec => []ContainersAgree
<1>1. Inv => ContainersAgree
  <2> SUFFICES ASSUME Inv PROVE ContainersAgree
    OBVIOUS
  <2>1. ContainerTypeOK /\ \A e \in Executions : Own(e)
    BY DEF Inv
  <2>2. ContainerHasEntry
    BY <2>1, ContainerAssumption DEF ContainerHasEntry, Own, Key, ContainerTypeOK
  <2>3. EntryHasExecution
    BY <2>1 DEF EntryHasExecution, Own, Key, HasContainer, ContainerTypeOK
  <2>4. AgentKeepsContainer
    BY <2>1 DEF AgentKeepsContainer, Own, Key, HasContainer
  <2> QED BY <2>1, <2>2, <2>3, <2>4 DEF ContainersAgree
<1> QED BY <1>1, InvInvariant, PTL

\* What an agent is told of a command is true, and without a fault the command
\* is not run twice (CommandRunsOnce).
THEOREM CommandsRunOnce == ContainerSpec => []CommandRunsOnce
<1>1. Inv => CommandRunsOnce
  BY DEF Inv, CommandAt, CommandRunsOnce
<1> QED BY <1>1, InvInvariant, PTL

\* The manager implements the ledger of containers (ImplementsLeases).
THEOREM ImplementsContainerLedger == ContainerSpec => ImplementsLeases
<1>1. ContainerInit => Leases!Init
  BY DEF ContainerInit, Leases!Init, Key
<1>2. Inv /\ [ContainerNext]_containerVars => [Leases!Next]_Lease
  BY NextStep
<1> QED BY <1>1, <1>2, InvInvariant, PTL DEF ContainerSpec, ImplementsLeases, Leases!Spec, Lease, LeaseOf

------------------------------------------------------------------------------
(* The tool loader.  SeenInv says that the observer sees every state of a    *)
(* file, FoundInv where the tools of the map being built come from, and      *)
(* ScanInv what the files read so far have left in it; a scan reads the      *)
(* files in the order of their names, which is what makes the last           *)
(* definition of a name win.                                                 *)

SeenInv ==
    /\ \A f \in Files : file[f] \in seen[f]
    /\ lpc = "load" /\ dir # "there" => \A f \in Files : NoTool \in seen[f]

FoundInv ==
    \A n \in Names : newTools[n] = NoTool \/ \E f \in Files : newTools[n] \in Defines(f, n)

\* f holds t all the while, and no later file defines the name of t.
Decides(f, t) == /\ seen[f] = {t}
                 /\ \A g \in Files : g > f => Defines(g, NameOf[t]) = {}

ScanInv ==
    lpc = "load" => \A f \in Files \ listed :
        /\ NoTool \in seen[f] \/ \A g \in listed : f < g
        /\ \A t \in Tools : Decides(f, t) => newTools[NameOf[t]] = t

LoaderInv == LoaderTypeOK /\ SeenInv /\ FoundInv /\ ScanInv

------------------------------------------------------------------------------
\* Every step keeps the types.
LEMMA TypeNext ==
    ASSUME LoaderInv, [LoaderNext]_loaderVars
    PROVE  LoaderTypeOK'
<1>1. ASSUME ReadDir PROVE LoaderTypeOK'
  BY <1>1 DEF LoaderTypeOK, ReadDir, directoryVars, LoaderInv, NoTools
<1>2. ASSUME ReadDirFails PROVE LoaderTypeOK'
  BY <1>2 DEF LoaderTypeOK, ReadDirFails, LoaderInv
<1>3. ASSUME NEW f \in Files, LoadToolFile(f) PROVE LoaderTypeOK'
  BY <1>3 DEF LoaderTypeOK, LoadToolFile, directoryVars, LoaderInv
<1>4. ASSUME SwapTools PROVE LoaderTypeOK'
  BY <1>4 DEF LoaderTypeOK, SwapTools, directoryVars, LoaderInv
<1>5. ASSUME StopLoader PROVE LoaderTypeOK'
  BY <1>5 DEF LoaderTypeOK, StopLoader, directoryVars, LoaderInv
<1>6. ASSUME NEW f \in Files, NEW c \in Contents, EditFile(f, c) PROVE LoaderTypeOK'
  BY <1>6, LoaderAssumption DEF LoaderTypeOK, EditFile, LoaderInv
<1>7. ASSUME EditDirectory PROVE LoaderTypeOK'
  BY <1>7, LoaderAssumption DEF LoaderTypeOK, EditDirectory, LoaderInv, Contents
<1>8. CASE UNCHANGED loaderVars
  BY <1>8 DEF LoaderTypeOK, directoryVars, loaderVars, LoaderInv
<1> QED BY <1>1, <1>2, <1>3, <1>4, <1>5, <1>6, <1>7, <1>8 DEF LoaderNext, LoaderStep

\* The observer misses no state of a file.
LEMMA SeenNext ==
    ASSUME LoaderInv, [LoaderNext]_loaderVars
    PROVE  SeenInv'
<1>1. ASSUME ReadDir PROVE SeenInv'
  BY <1>1 DEF SeenInv, ReadDir, directoryVars
<1>2. ASSUME ReadDirFails PROVE SeenInv'
  BY <1>2 DEF SeenInv, ReadDirFails
<1>3. ASSUME NEW f \in Files, LoadToolFile(f) PROVE SeenInv'
  BY <1>3 DEF SeenInv, LoadToolFile, directoryVars, LoaderInv
<1>4. ASSUME SwapTools PROVE SeenInv'
  BY <1>4 DEF SeenInv, SwapTools, directoryVars, LoaderInv
<1>5. ASSUME StopLoader PROVE SeenInv'
  BY <1>5 DEF SeenInv, StopLoader, directoryVars, LoaderInv
<1>6. ASSUME NEW f \in Files, NEW c \in Contents, EditFile(f, c) PROVE SeenInv'
  BY <1>6 DEF SeenInv, EditFile, LoaderInv, LoaderTypeOK
<1>7. ASSUME EditDirectory PROVE SeenInv'
  BY <1>7 DEF SeenInv, EditDirectory
<1>8. CASE UNCHANGED loaderVars
  BY <1>8 DEF SeenInv, directoryVars, loaderVars, LoaderInv
<1> QED BY <1>1, <1>2, <1>3, <1>4, <1>5, <1>6, <1>7, <1>8 DEF LoaderNext, LoaderStep

\* A tool in the map being built was in a file during the scan.
LEMMA FoundNext ==
    ASSUME LoaderInv, [LoaderNext]_loaderVars
    PROVE  FoundInv'
<1>1. ASSUME ReadDir PROVE FoundInv'
  BY <1>1 DEF FoundInv, ReadDir, NoTools
<1>2. ASSUME ReadDirFails PROVE FoundInv'
  BY <1>2 DEF FoundInv, ReadDirFails, LoaderInv, Defines
<1>3. ASSUME NEW f \in Files, LoadToolFile(f) PROVE FoundInv'
  <2>1. seen' = seen
    BY <1>3 DEF LoadToolFile
  <2>2. SUFFICES ASSUME NEW n \in Names
                 PROVE  newTools'[n] = NoTool \/ \E g \in Files : newTools'[n] \in Defines(g, n)
    BY <2>1 DEF FoundInv, Defines
  <2>3. CASE newTools'[n] = newTools[n]
    BY <2>3 DEF LoaderInv, FoundInv
  <2>4. CASE newTools'[n] # newTools[n]
    <3>1. file[f] \in Tools /\ newTools' = [newTools EXCEPT ![NameOf[file[f]]] = file[f]]
      BY <1>3, <2>4 DEF LoadToolFile
    <3>2. n = NameOf[file[f]] /\ newTools'[n] = file[f]
      BY <2>4, <3>1
    <3> QED BY <3>1, <3>2 DEF Defines, LoaderInv, SeenInv
  <2> QED BY <2>3, <2>4
<1>4. ASSUME SwapTools PROVE FoundInv'
  BY <1>4 DEF FoundInv, SwapTools, LoaderInv, Defines
<1>5. ASSUME StopLoader PROVE FoundInv'
  BY <1>5 DEF FoundInv, StopLoader, LoaderInv, Defines
<1>6. ASSUME NEW f \in Files, NEW c \in Contents, EditFile(f, c) PROVE FoundInv'
  BY <1>6 DEF FoundInv, EditFile, LoaderInv, Defines
<1>7. ASSUME EditDirectory PROVE FoundInv'
  BY <1>7 DEF FoundInv, EditDirectory, LoaderInv, Defines
<1>8. CASE UNCHANGED loaderVars
  BY <1>8 DEF FoundInv, loaderVars, LoaderInv, Defines
<1> QED BY <1>1, <1>2, <1>3, <1>4, <1>5, <1>6, <1>7, <1>8 DEF LoaderNext, LoaderStep

\* What a file has held only grows during a scan.
LEMMA GrowthKeepsScan ==
    ASSUME LoaderInv, UNCHANGED <<lpc, listed, newTools>>,
           \A f \in Files : seen[f] \subseteq seen'[f]
    PROVE  ScanInv'
<1>1. SUFFICES ASSUME lpc = "load", NEW f \in Files \ listed
               PROVE  /\ NoTool \in seen'[f] \/ \A g \in listed : f < g
                      /\ \A t \in Tools : Decides(f, t)' => newTools[NameOf[t]] = t
  BY DEF ScanInv
<1>2. NoTool \in seen'[f] \/ \A g \in listed : f < g
  BY <1>1 DEF LoaderInv, ScanInv
<1>3. ASSUME NEW t \in Tools, Decides(f, t)' PROVE newTools[NameOf[t]] = t
  <2>1. seen[f] = {t}
    BY <1>3 DEF Decides, LoaderInv, SeenInv
  <2>2. \A g \in Files : Defines(g, NameOf[t]) \subseteq Defines(g, NameOf[t])'
    BY DEF Defines
  <2>3. Decides(f, t)
    BY <1>3, <2>1, <2>2 DEF Decides
  <2> QED BY <1>1, <2>3 DEF LoaderInv, ScanInv
<1> QED BY <1>2, <1>3

\* What was read decides what is offered, whatever is edited meanwhile.
LEMMA ScanNext ==
    ASSUME LoaderInv, [LoaderNext]_loaderVars
    PROVE  ScanInv'
<1>1. ASSUME ReadDir PROVE ScanInv'
  <2>1. \A f \in Files \ listed' : seen'[f] = {NoTool}
    BY <1>1 DEF ReadDir
  <2> QED BY <2>1, LoaderAssumption DEF ScanInv, Decides
<1>2. ASSUME ReadDirFails PROVE ScanInv'
  <2>1. UNCHANGED <<lpc, listed, newTools>>
    BY <1>2 DEF ReadDirFails
  <2>2. \A g \in Files : seen[g] \subseteq seen'[g]
    BY <1>2 DEF ReadDirFails
  <2> QED BY <2>1, <2>2, GrowthKeepsScan
<1>3. ASSUME NEW f \in Files, LoadToolFile(f) PROVE ScanInv'
  <2>1. SUFFICES ASSUME lpc = "load", NEW g \in Files \ listed'
                 PROVE  /\ NoTool \in seen'[g] \/ \A h \in listed' : g < h
                        /\ \A t \in Tools : Decides(g, t)' => newTools'[NameOf[t]] = t
    BY <1>3 DEF ScanInv, LoadToolFile
  <2>2. /\ f \in listed /\ listed' = listed \ {f} /\ listed \subseteq Files
        /\ \A h \in listed : f <= h
        /\ seen' = seen
    BY <1>3 DEF LoadToolFile, IsNext, LoaderInv, LoaderTypeOK
  <2>3. \A h \in Files : h \in Nat
    BY DEF Files
  <2>4. CASE g = f
    <3>1. \A h \in listed' : g < h
      BY <2>2, <2>3, <2>4
    <3>2. ASSUME NEW t \in Tools, Decides(g, t)' PROVE newTools'[NameOf[t]] = t
      <4>1. seen[f] = {t}
        BY <2>2, <2>4, <3>2 DEF Decides
      <4>2. file[f] = t /\ NoTool # t
        BY <4>1, LoaderAssumption DEF LoaderInv, SeenInv
      <4>3. dir = "there"
        BY <2>1, <4>1, LoaderAssumption DEF LoaderInv, SeenInv
      <4>4. newTools' = [newTools EXCEPT ![NameOf[t]] = t]
        BY <1>3, <4>2, <4>3 DEF LoadToolFile
      <4>5. NameOf[t] \in Names
        BY DEF Names
      <4> QED BY <4>4, <4>5 DEF LoaderInv, LoaderTypeOK
    <3> QED BY <3>1, <3>2
  <2>5. CASE g # f
    <3>1. g \in Files \ listed
      BY <2>2, <2>5
    <3>2. NoTool \in seen[g] \/ g < f
      BY <2>1, <2>2, <3>1 DEF LoaderInv, ScanInv
    <3>3. NoTool \in seen'[g] \/ \A h \in listed' : g < h
      BY <2>1, <2>2, <3>1 DEF LoaderInv, ScanInv
    <3>4. ASSUME NEW t \in Tools, Decides(g, t)' PROVE newTools'[NameOf[t]] = t
      <4>1. Decides(g, t)
        BY <2>2, <3>4 DEF Decides, Defines
      <4>2. newTools[NameOf[t]] = t
        BY <2>1, <3>1, <4>1 DEF LoaderInv, ScanInv
      <4>3. g < f
        BY <3>2, <4>1, LoaderAssumption DEF Decides
      <4>4. ~(file[f] \in Tools /\ NameOf[file[f]] = NameOf[t])
        <5>1. Defines(f, NameOf[t]) = {}
          BY <4>1, <4>3 DEF Decides
        <5> QED BY <5>1 DEF Defines, LoaderInv, SeenInv
      <4>5. NameOf[t] \in Names
        BY DEF Names
      <4> QED BY <1>3, <4>2, <4>4 DEF LoadToolFile
    <3> QED BY <3>3, <3>4
  <2> QED BY <2>4, <2>5
<1>4. ASSUME SwapTools PROVE ScanInv'
  BY <1>4 DEF ScanInv, SwapTools
<1>5. ASSUME StopLoader PROVE ScanInv'
  BY <1>5 DEF ScanInv, StopLoader
<1>6. ASSUME NEW f \in Files, NEW c \in Contents, EditFile(f, c) PROVE ScanInv'
  <2>1. UNCHANGED <<lpc, listed, newTools>>
    BY <1>6 DEF EditFile
  <2>2. \A g \in Files : seen[g] \subseteq seen'[g]
    BY <1>6 DEF EditFile
  <2> QED BY <2>1, <2>2, GrowthKeepsScan
<1>7. ASSUME EditDirectory PROVE ScanInv'
  <2>1. UNCHANGED <<lpc, listed, newTools>>
    BY <1>7 DEF EditDirectory
  <2>2. \A g \in Files : seen[g] \subseteq seen'[g]
    BY <1>7 DEF EditDirectory
  <2> QED BY <2>1, <2>2, GrowthKeepsScan
<1>8. CASE UNCHANGED loaderVars
  BY <1>8 DEF ScanInv, loaderVars, LoaderInv, Decides, Defines
<1> QED BY <1>1, <1>2, <1>3, <1>4, <1>5, <1>6, <1>7, <1>8 DEF LoaderNext, LoaderStep

LEMMA LoaderInvInit ==
    ASSUME LoaderInit
    PROVE  LoaderInv
<1>1. file \in [Files -> Contents]
  BY DEF LoaderInit, Contents
<1>2. LoaderTypeOK
  BY <1>1, LoaderAssumption DEF LoaderInit, LoaderTypeOK, NoTools
<1>3. SeenInv /\ ScanInv
  BY DEF LoaderInit, SeenInv, ScanInv
<1>4. FoundInv
  BY DEF LoaderInit, FoundInv, NoTools
<1> QED BY <1>2, <1>3, <1>4 DEF LoaderInv

LEMMA LoaderInvInvariant == LoaderSpec => []LoaderInv
<1>1. LoaderInv /\ [LoaderNext]_loaderVars => LoaderInv'
  BY TypeNext, SeenNext, FoundNext, ScanNext DEF LoaderInv
<1> QED BY <1>1, LoaderInvInit, PTL DEF LoaderSpec

\* What a swap offers is the result of one whole scan.
LEMMA SwapIsOneScan ==
    ASSUME LoaderInv, SwapTools, NEW n \in Names
    PROVE  /\ tools'[n] = NoTool \/ \E f \in Files : tools'[n] \in Defines(f, n)
           /\ \A f \in Files, t \in Tools :
                 /\ NameOf[t] = n /\ seen[f] = {t}
                 /\ \A g \in Files : g > f => Defines(g, n) = {}
                 => tools'[n] = t
<1>1. tools' = newTools /\ lpc = "load" /\ listed = {}
  BY DEF SwapTools
<1>2. tools'[n] = NoTool \/ \E f \in Files : tools'[n] \in Defines(f, n)
  BY <1>1 DEF LoaderInv, FoundInv
<1>3. ASSUME NEW f \in Files, NEW t \in Tools, NameOf[t] = n, seen[f] = {t},
             \A g \in Files : g > f => Defines(g, n) = {}
      PROVE  tools'[n] = t
  <2>1. Decides(f, t)
    BY <1>3 DEF Decides
  <2> QED BY <1>1, <1>3, <2>1 DEF LoaderInv, ScanInv
<1> QED BY <1>2, <1>3

\* The tools an LLM is offered change only to the result of one whole scan,
\* however often the directory is edited, removed or locked under it: each tool
\* was in its file during the scan, and a definition that was there all the
\* while is offered unless a later file had its name.
THEOREM OfferIsAlwaysOneScan == LoaderSpec => OfferIsOneScan
<1>1. ASSUME LoaderInv, [LoaderNext]_loaderVars,
             tools' # tools \/ (lpc = "load" /\ lpc' = "tick")
      PROVE  SwapTools
  BY <1>1 DEF LoaderNext, LoaderStep, ReadDir, ReadDirFails, LoadToolFile, StopLoader, EditFile,
     EditDirectory, loaderVars
<1>2. LoaderInv /\ [LoaderNext]_loaderVars =>
        [tools' # tools \/ (lpc = "load" /\ lpc' = "tick") =>
          \A n \in Names :
             /\ tools'[n] = NoTool \/ \E f \in Files : tools'[n] \in Defines(f, n)
             /\ \A f \in Files, t \in Tools :
                   /\ NameOf[t] = n /\ seen[f] = {t}
                   /\ \A g \in Files : g > f => Defines(g, n) = {}
                   => tools'[n] = t]_loaderVars
  BY <1>1, SwapIsOneScan
<1> QED BY <1>2, LoaderInvInvariant, PTL DEF LoaderSpec, OfferIsOneScan
=============================================================================
