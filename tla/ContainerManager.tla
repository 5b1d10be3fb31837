--------------------------- MODULE ContainerManager ---------------------------
(***************************************************************************)
(* The containers of the workers, internal/services/docker/docker.go, with *)
(* the code of internal/runtime/runtime.go that gets one for an execution, *)
(* runs its EXECUTE_CMD calls in it and releases it from a goroutine of    *)
(* its own.  ContainerManager holds its mutex while Docker pulls, creates, *)
(* starts or stops.  Docker may fail any call, also after having done it;  *)
(* a container may die at any moment; the process may end at any moment,   *)
(* and its containers outlive it.                                          *)
(***************************************************************************)
EXTENDS Naturals

CONSTANTS Executions,   \* the task instances that are executed, by InstanceID
          NoExecution,  \* nobody holds the mutex
          MaxCommands,  \* bound on the EXECUTE_CMD calls
          MaxBoots      \* bound on the restarts of the process

ASSUME ContainerAssumption == /\ NoExecution \notin Executions
                              /\ MaxCommands \in Nat /\ MaxBoots \in Nat

VARIABLES up,        \* the process runs
          mutex,     \* the execution that holds ContainerManager.mu
          entries,   \* the keys of ContainerManager.containers
          docker,    \* docker[k]: the container made for key k, as Docker has it
          epc,       \* epc[e]: where execution e, then its release, is
          given,     \* given[e]: the registry has a ContainerID for e
          cmd,       \* cmd[e]: the last command of e
          commands,  \* the commands so far
          boots,     \* the restarts so far
          strays,    \* observer: containers whose start or stop was said to
                     \* have failed, or whose process ended
          died,      \* observer: containers that stopped on their own
          excused    \* observer: executions whose last command was told to
                     \* have failed, or lost its connection, before it ended

processVars == <<up, mutex, entries>>
dockerVars == <<docker, strays, died>>
cmdVars == <<cmd, excused>>
agentVars == <<given, cmdVars>>
countVars == <<commands, boots>>
containerVars == <<processVars, dockerVars, epc, agentVars, countVars>>

\* A command may be run by the API inside the container and by docker exec.
Ways == {"api", "exec"}
NoCommand == [ran |-> {}, running |-> {}, answer |-> "none"]

Creating == {"pull", "create", "start"}
Calling == {"api", "reply", "exec", "attach", "read", "inspect"}
Working == {"work"} \cup Calling
Places == {"new", "lock", "left", "release", "stop", "over"} \cup Creating \cup Working

ContainerInit == /\ up = TRUE
                 /\ mutex = NoExecution
                 /\ entries = {}
                 /\ docker = [k \in Executions |-> "none"]
                 /\ epc = [e \in Executions |-> "new"]
                 /\ given = [e \in Executions |-> FALSE]
                 /\ cmd = [e \in Executions |-> NoCommand]
                 /\ commands = 0
                 /\ boots = 0
                 /\ strays = {}
                 /\ died = {}
                 /\ excused = {}

At(e, place) == up /\ epc[e] = place
MoveTo(e, place) == epc' = [epc EXCEPT ![e] = place]

\* executeTask and unregisterAgentForCallback use InstanceID, not TaskID: the
\* instances of a task share no container, although App.vue:571 tells the
\* administrator that they are shared among the workers of a root task.
Key(e) == e

Unlock == mutex' = NoExecution

\* What runs in a container ends with it.
Killed(k) == [e \in Executions |-> IF Key(e) = k THEN [cmd[e] EXCEPT !.running = {}] ELSE cmd[e]]

------------------------------------------------------------------------------
(* GetOrCreateContainer.                                                     *)

\* executeTask comes to the container.
BeginExecution(e) ==
    /\ At(e, "new")
    /\ MoveTo(e, "lock")
    /\ UNCHANGED <<processVars, dockerVars, agentVars, countVars>>

\* The mutex is taken, and kept unless there is a container already.
LockToCreate(e) ==
    /\ At(e, "lock") /\ mutex = NoExecution
    /\ \/ /\ Key(e) \in entries
          /\ given' = [given EXCEPT ![e] = TRUE]
          /\ MoveTo(e, "work")
          /\ UNCHANGED mutex
       \/ /\ Key(e) \notin entries
          /\ mutex' = e
          /\ MoveTo(e, "pull")
          /\ UNCHANGED given
    /\ UNCHANGED <<up, entries, dockerVars, cmdVars, countVars>>

PullImage(e) ==
    /\ At(e, "pull")
    /\ MoveTo(e, "create")
    /\ UNCHANGED <<processVars, dockerVars, agentVars, countVars>>

ContainerCreate(e) ==
    /\ At(e, "create")
    /\ docker' = [docker EXCEPT ![Key(e)] = "created"]
    /\ MoveTo(e, "start")
    /\ UNCHANGED <<processVars, strays, died, agentVars, countVars>>

\* The end of GetOrCreateContainer: the new container is entered.
ContainerStart(e) ==
    /\ At(e, "start")
    /\ docker' = [docker EXCEPT ![Key(e)] = "running"]
    /\ entries' = entries \cup {Key(e)}
    /\ given' = [given EXCEPT ![e] = TRUE]
    /\ Unlock
    /\ MoveTo(e, "work")
    /\ UNCHANGED <<up, strays, died, cmdVars, countVars>>

\* What a failing call leaves in Docker: it may have been done all the same.
LeftByCreate(e) == CASE epc[e] = "create" -> {docker[Key(e)], "created"}
                     [] epc[e] = "start"  -> {"created", "running"}
                     [] OTHER             -> {docker[Key(e)]}

\* An early return that keeps the mutex.
CreateFailsLocked(e) ==
    /\ up /\ epc[e] \in Creating
    /\ \E c \in LeftByCreate(e) : docker' = [docker EXCEPT ![Key(e)] = c]
    /\ strays' = IF epc[e] = "pull" THEN strays ELSE strays \cup {Key(e)}
    /\ MoveTo(e, "work")
    /\ UNCHANGED <<processVars, died, agentVars, countVars>>

\* CreateContainer returns an error and undoes nothing; executeTask warns, and
\* the agent goes on without a container.
CreateFails(e) ==
    /\ up /\ epc[e] \in Creating
    /\ \E c \in LeftByCreate(e) : docker' = [docker EXCEPT ![Key(e)] = c]
    /\ strays' = IF epc[e] = "pull" THEN strays ELSE strays \cup {Key(e)}
    /\ Unlock
    /\ MoveTo(e, "work")
    /\ UNCHANGED <<up, entries, died, agentVars, countVars>>

------------------------------------------------------------------------------
(* EXECUTE_CMD.                                                              *)

\* The tool looks for the agent's ContainerID.
ExecuteCmd(e) ==
    /\ At(e, "work") /\ given[e]
    /\ commands < MaxCommands
    /\ commands' = commands + 1
    /\ cmd' = [cmd EXCEPT ![e] = NoCommand]
    /\ excused' = excused \ {e}
    /\ MoveTo(e, "api")
    /\ UNCHANGED <<processVars, dockerVars, given, boots>>

Runs(e, way) == [cmd EXCEPT ![e].ran = @ \cup {way}, ![e].running = @ \cup {way}]
Told(e, result) == [cmd EXCEPT ![e].answer = result]
Excuse(e) == excused' = excused \cup {e}
Results == {"success", "error"}

\* ExecuteCmdViaAPI: no such container, no address, nobody listens.
ApiRefuses(e) ==
    /\ At(e, "api")
    /\ MoveTo(e, "exec")
    /\ UNCHANGED <<processVars, dockerVars, agentVars, countVars>>

ApiRuns(e) ==
    /\ At(e, "api") /\ docker[Key(e)] = "running"
    /\ cmd' = Runs(e, "api")
    /\ MoveTo(e, "reply")
    /\ UNCHANGED <<processVars, dockerVars, given, excused, countVars>>

\* ExecuteCmd does not return when the API has answered.
ApiRepliesUnheard(e) ==
    /\ At(e, "reply") /\ "api" \notin cmd[e].running
    /\ UNCHANGED excused \/ Excuse(e)
    /\ MoveTo(e, "exec")
    /\ UNCHANGED <<processVars, dockerVars, given, cmd, countVars>>

\* The command is over: status 200 is the answer, any other status counts as
\* an API that is not there, and the command is run once more.
ApiReplies(e) ==
    /\ At(e, "reply") /\ "api" \notin cmd[e].running
    /\ \/ cmd' = Told(e, "success") /\ UNCHANGED excused /\ MoveTo(e, "work")
       \/ UNCHANGED cmd /\ Excuse(e) /\ MoveTo(e, "exec")
    /\ UNCHANGED <<processVars, dockerVars, given, countVars>>

\* Thirty seconds are over, or the connection broke: before the status the
\* command is run once more, after it what was read of the body is the answer.
ApiBreaks(e) ==
    /\ At(e, "reply")
    /\ Excuse(e)
    /\ \/ UNCHANGED cmd /\ MoveTo(e, "exec")
       \/ cmd' = Told(e, "success") /\ MoveTo(e, "work")
    /\ UNCHANGED <<processVars, dockerVars, given, countVars>>

\* ExecCreate or ExecStart returns an error; the start may have been done.
ExecFails(e) ==
    /\ At(e, "exec")
    /\ \/ cmd' = Told(e, "error") /\ UNCHANGED excused
       \/ /\ docker[Key(e)] = "running"
          /\ cmd' = [Runs(e, "exec") EXCEPT ![e].answer = "error"]
          /\ Excuse(e)
    /\ MoveTo(e, "work")
    /\ UNCHANGED <<processVars, dockerVars, given, countVars>>

ExecStart(e) ==
    /\ At(e, "exec") /\ docker[Key(e)] = "running"
    /\ cmd' = Runs(e, "exec")
    /\ MoveTo(e, "attach")
    /\ UNCHANGED <<processVars, dockerVars, given, excused, countVars>>

\* The attach fails: an error, and the command goes on.
ExecAttach(e) ==
    /\ At(e, "attach")
    /\ \/ MoveTo(e, "read") /\ UNCHANGED cmdVars
       \/ MoveTo(e, "work") /\ cmd' = Told(e, "error") /\ Excuse(e)
    /\ UNCHANGED <<processVars, dockerVars, given, countVars>>

\* Read up to the end of the command, with no limit of time.
ReadOutput(e) ==
    /\ At(e, "read") /\ "exec" \notin cmd[e].running
    /\ MoveTo(e, "inspect")
    /\ UNCHANGED <<processVars, dockerVars, agentVars, countVars>>

\* An error of Read is taken for the end of the output.
ReadBreaks(e) ==
    /\ At(e, "read")
    /\ Excuse(e)
    /\ MoveTo(e, "inspect")
    /\ UNCHANGED <<processVars, dockerVars, given, cmd, countVars>>

\* The exit code; a command that still runs has the exit code 0.
ExecInspect(e) ==
    /\ At(e, "inspect")
    /\ \E result \in Results : cmd' = Told(e, result)
    /\ MoveTo(e, "work")
    /\ UNCHANGED <<processVars, dockerVars, given, excused, countVars>>

------------------------------------------------------------------------------
(* The end of an execution.                                                  *)

\* The agent leaves its loop without a final state: nothing is unregistered.
LeaveSilently(e) ==
    /\ At(e, "work")
    /\ MoveTo(e, "left")
    /\ UNCHANGED <<processVars, dockerVars, agentVars, countVars>>

\* unregisterAgentForCallback starts a goroutine when there is a container.
UnregisterAgent(e) ==
    /\ At(e, "work")
    /\ MoveTo(e, IF given[e] THEN "release" ELSE "over")
    /\ UNCHANGED <<processVars, dockerVars, agentVars, countVars>>

LockToRelease(e) ==
    /\ At(e, "release") /\ mutex = NoExecution
    /\ \/ Key(e) \notin entries /\ MoveTo(e, "over") /\ UNCHANGED mutex
       \/ Key(e) \in entries /\ MoveTo(e, "stop") /\ mutex' = e
    /\ UNCHANGED <<up, entries, dockerVars, agentVars, countVars>>

\* The entry is deleted, and the container goes on.
ReleaseOnly(e) ==
    /\ At(e, "stop")
    /\ entries' = entries \ {Key(e)}
    /\ Unlock
    /\ MoveTo(e, "over")
    /\ UNCHANGED <<up, dockerVars, agentVars, countVars>>

\* An early return when the stop fails, which keeps the entry.
StopContainerKeeping(e) ==
    /\ At(e, "stop")
    /\ \/ /\ docker' = [docker EXCEPT ![Key(e)] = "gone"]
          /\ cmd' = Killed(Key(e))
          /\ entries' = entries \ {Key(e)}
          /\ UNCHANGED strays
       \/ /\ strays' = strays \cup {Key(e)}
          /\ UNCHANGED <<docker, cmd, entries>>
    /\ Unlock
    /\ MoveTo(e, "over")
    /\ UNCHANGED <<up, died, given, excused, countVars>>

\* A stopped container is removed by Docker (AutoRemove); when the stop fails,
\* or only its answer is lost, the entry is deleted all the same.
StopContainer(e) ==
    /\ At(e, "stop")
    /\ \/ /\ docker' = [docker EXCEPT ![Key(e)] = "gone"]
          /\ cmd' = Killed(Key(e))
          /\ UNCHANGED strays
       \/ /\ strays' = strays \cup {Key(e)}
          /\ UNCHANGED <<docker, cmd>>
    /\ entries' = entries \ {Key(e)}
    /\ Unlock
    /\ MoveTo(e, "over")
    /\ UNCHANGED <<up, died, given, excused, countVars>>

------------------------------------------------------------------------------
(* Docker, and the process.                                                  *)

CommandEnds(e, way) ==
    /\ way \in cmd[e].running
    /\ cmd' = [cmd EXCEPT ![e].running = @ \ {way}]
    /\ UNCHANGED <<processVars, dockerVars, epc, given, excused, countVars>>

\* Out of memory, or stopped by somebody else.
ContainerDies(k) ==
    /\ docker[k] = "running"
    /\ docker' = [docker EXCEPT ![k] = "gone"]
    /\ cmd' = Killed(k)
    /\ died' = died \cup {k}
    /\ UNCHANGED <<processVars, strays, epc, given, excused, countVars>>

\* The process ends; nobody looks for its containers when it starts again,
\* nor for the tasks it executed.
ProcessEnds ==
    /\ up
    /\ up' = FALSE
    /\ entries' = {}
    /\ Unlock
    /\ strays' = strays \cup {Key(e) : e \in {x \in Executions : epc[x] \notin {"new", "over"}}}
    /\ epc' = [e \in Executions |-> IF epc[e] = "new" THEN "new" ELSE "over"]
    /\ UNCHANGED <<docker, died, agentVars, countVars>>

ProcessStarts ==
    /\ ~up /\ boots < MaxBoots
    /\ up' = TRUE
    /\ boots' = boots + 1
    /\ UNCHANGED <<mutex, entries, dockerVars, epc, agentVars, commands>>

TakeLock(e) == LockToCreate(e) \/ LockToRelease(e)

\* The calls of Docker and of the API that are answered, or given up, in time.
ServiceCall(e) ==
    \/ PullImage(e) \/ ContainerCreate(e) \/ ContainerStart(e) \/ CreateFails(e)
    \/ ApiRefuses(e) \/ ApiRuns(e) \/ ApiReplies(e) \/ ApiBreaks(e)
    \/ ExecFails(e) \/ ExecStart(e) \/ ExecAttach(e) \/ ReadOutput(e) \/ ExecInspect(e)
    \/ StopContainer(e)

SomeCommandEnds(e) == \E way \in Ways : CommandEnds(e, way)

ContainerNext ==
    \/ \E e \in Executions : \/ BeginExecution(e) \/ TakeLock(e) \/ ServiceCall(e)
                             \/ ExecuteCmd(e) \/ ReadBreaks(e)
                             \/ LeaveSilently(e) \/ UnregisterAgent(e)
                             \/ SomeCommandEnds(e) \/ ContainerDies(e)
    \/ ProcessEnds \/ ProcessStarts

ContainerSpec == ContainerInit /\ [][ContainerNext]_containerVars

\* Docker answers every call, a command ends, and the mutex is handed to those
\* that wait for it in their order (sync.RWMutex).
ContainerFairness ==
    \A e \in Executions : /\ SF_containerVars(TakeLock(e))
                          /\ WF_containerVars(ServiceCall(e))
                          /\ WF_containerVars(SomeCommandEnds(e))

------------------------------------------------------------------------------
(* Properties.                                                               *)

ContainerTypeOK ==
    /\ up \in BOOLEAN
    /\ mutex \in Executions \cup {NoExecution}
    /\ entries \subseteq Executions
    /\ docker \in [Executions -> {"none", "created", "running", "gone"}]
    /\ epc \in [Executions -> Places]
    /\ given \in [Executions -> BOOLEAN]
    /\ cmd \in [Executions -> [ran : SUBSET Ways, running : SUBSET Ways,
                               answer : Results \cup {"none"}]]
    /\ commands \in 0..MaxCommands
    /\ boots \in 0..MaxBoots
    /\ strays \subseteq Executions
    /\ died \subseteq Executions
    /\ excused \subseteq Executions

\* A container exists only while the manager has an entry for it or makes it,
\* but for those whose start or stop was said to have failed and those of an
\* earlier process.
ContainerHasEntry ==
    \A k \in Executions :
        docker[k] \in {"created", "running"} =>
            k \in entries \/ k \in strays \/ (mutex # NoExecution /\ Key(mutex) = k)

\* An entry belongs to an execution that has not given its container up, or
\* that left without unregistering.
EntryHasExecution ==
    \A k \in entries : \E e \in Executions :
        Key(e) = k /\ given[e] /\ epc[e] \in Working \cup {"left", "release", "stop"}

\* The container of an agent runs until the agent unregisters, whatever the
\* executions next to it do, unless it died on its own.
AgentKeepsContainer ==
    \A e \in Executions :
        up /\ given[e] /\ epc[e] \in Working \cup {"left"} =>
            Key(e) \in entries /\ (docker[Key(e)] = "running" \/ Key(e) \in died)

\* The manager's map, Docker and the executions agree.
ContainersAgree == /\ ContainerTypeOK
                   /\ ContainerHasEntry
                   /\ EntryHasExecution
                   /\ AgentKeepsContainer

\* What the agent is told of a command is true unless a run of it failed or a
\* connection broke: it was run once, or, after an error, at most once, and it
\* is over.  A success was run in any case.
CommandRunsOnce ==
    \A e \in Executions :
        LET c == cmd[e]
        IN  /\ c.answer = "success" => c.ran # {}
            /\ c.answer # "none" /\ e \notin excused => c.ran # Ways /\ c.running = {}

\* The manager implements the ledger that the worker runtime relies on.
Leases == INSTANCE ContainerLedger
              WITH lease <- [e \in Executions |->
                                IF ~up \/ Key(e) \notin entries THEN "none"
                                ELSE IF epc[e] \in {"release", "stop"} THEN "releasing"
                                ELSE "held"]
ImplementsLeases == Leases!Spec

\* The mutex is never kept for ever: who wants a container gets one or an
\* error, a container that was given up is released, an EXECUTE_CMD returns.
ContainerCallsEnd ==
    \A e \in Executions : LET busy == epc[e] \notin {"new", "work", "left", "over"}
                          IN  busy ~> ~busy
=============================================================================
