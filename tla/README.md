# catgirl: TLA+ models and proofs

catgirl is an agentic runtime in Go: users talk through Telegram to an
orchestrator (one per session), the orchestrator spawns tasks, a pool of worker
goroutines executes each task with an LLM agent, and agents spawn subtasks and
exchange messages. This directory holds TLA+ modules of the runtime's core, the
TLC configurations that check them on small instances, and proofs for every
instance that TLAPS checks.

    tlc -workers 2 -config TaskQueueSafety.cfg MCTaskQueue.tla     # one run
    tlapm TaskQueueProofs.tla                                      # the proofs

`PROJECT.json` lists the components, the runs with the properties each checks,
for every checked property a mutation of the model that breaks it, the source
lines behind every definition, the findings, the hazards and the theorems.

## 1. Inventory

| Component | Source | State | Operations | Correct when |
|---|---|---|---|---|
| Global task queue | `services/task/task_queue.go` | heap `items`, channels `enqueueCh`, `dequeueCh`, a reply channel per request | Enqueue, Dequeue, Remove, `processLoop` | a task is in one place, in order, served in the end |
| Task service | `services/task/task_queue.go` | rows of task families and instances | SpawnRootTask, SpawnSubTask, CreateTask | depth limit, rows and queue agree |
| Agent pool | `services/agent/agent_pool.go` | map of agents, an input queue per agent, two levels of mutexes | SpawnAgent, RemoveAgent, GetAgent, SendInput, idle check | agents = executions under way, never frozen |
| Worker runtime | `runtime/runtime.go` | workers, callback registry `blockedAgents`, `stopCh` | workerLoop, executeTask, runAgentLoop and its tools, SendToolResultToAgent, Stop | every execution ends cleanly, no message lost |
| Docker containers | `services/docker/docker.go` | map task -> container behind one mutex, containers in Docker | GetOrCreateContainer, ExecuteCmd, ReleaseContainer | lives exactly as long as its execution, a command is run once |
| Sessions | `runtime/session.go` | cached sessions, their input queues and loops, conversation history | CreateSession, GetSession, HandleUserMessage, orchestratorLoop | one loop per session, every message stored and read |
| Turn contexts | `runtime/worker_context.go`, `orchestrator_context.go` | turn log in memory and in the database | LoadHistory, Add...Turn, BuildMessages | the rebuilt message array is one the LLM API accepts |
| Runtime configuration | `runtime.go`, `repository.go`, `handlers.go`, `config.go` | the file, the database row, the object in memory | boot sync, GET, PUT, Validate | a change survives, a read-modify-write loses nothing |
| Tool loader | `runtime/tool_loader.go` | map name -> tool behind an RWMutex | loadTools at every tick, Stop | the tools offered are those of one scan, in the end of the last edit |
| Snapshots | `services/snapshot/snapshot.go` | rows with an expiry | Create, Recall, Cleanup | not modelled: nothing calls Create |
| Telegram | `services/telegram/telegram.go` | list of bots, sessions by user | SetWebhook, HandleUpdateForBot, SendMessage | a user keeps his bot |
| Migrations | `database/migrations.go` | applied versions | LoadMigrations, Run | each applied once, in order |
| Repository | `repository/repository.go` | PostgreSQL | one SQL statement per method | modelled by what its callers see |
| HTTP server, auth, web admin | `transport/http`, `services/auth`, `App.vue` | routes, the form of a page | webhooks, GET and PUT of the configuration | modelled where they touch configuration and webhooks |
| LLM client, billing, LTM, RAG context, observability, CLI | see PROJECT.json | caches, clients, formatting | I/O and formatting | not modelled |

How they interact. Telegram webhooks and agents of root tasks call
`SessionService.HandleUserMessage`, which stores the message and puts it on the
session's buffered channel; the session's `orchestratorLoop` asks the LLM and may
call `TaskService.SpawnRootTask`. Tasks go through the queue's channels to the
`workerLoop` goroutines (`min_agents` of them). A worker spawns an agent in the
pool, marks the task, gets a container, registers the agent, sends it the task,
and runs its loop on its own goroutine until the loop ends; the agent is then
removed. `SPAWN_TASK` puts subtasks in the same queue; `SEND_PARENT` looks the
parent's agent up in the registry and puts a message on its input queue.

What is hard: goroutines and channels (queue, workers, sessions), state read
under one lock and used after another (registry, pool, session cache), tasks that
block a goroutine while they wait for other tasks, failing LLM and database calls
in the middle of an execution, restarts that keep only the database, counters kept
beside the rows they number.

## 2. Modules

| Module | Models | Status |
|---|---|---|
| `TaskLedger` | abstract: what the queue promises (a task is held by one goroutine, or waits, or is settled) | done |
| `TaskQueue`, `MCTaskQueue` | the queue with its channels, scores, ages and order | done, refines `TaskLedger` |
| `TaskQueueProofs` | theorems about `TaskQueue` | done |
| `AgentPool` | the pool's methods and its idle check, as operators | done |
| `WorkerRuntime`, `MCWorkerRuntime` | workers, agents' loops, registry, containers, messages, Stop and its wait; composes `AgentPool` and `TaskLedger`, obeys `ContainerLedger` | done |
| `WorkerRuntimeProofs` | theorems about `WorkerRuntime` | done |
| `TaskService`, `MCTaskService` | spawning: row creation, the walk that counts the depth, family row, failing statements, restart | done |
| `TaskServiceProofs` | theorems about `TaskService` | done |
| `Session` | cache, loops, input queues, conversation history, restart | done |
| `SessionProofs` | theorems about `Session` | done |
| `TurnContext` | turn log in memory and database, message array, of workers and orchestrators | done |
| `TurnContextProofs` | theorems about `TurnContext` | done |
| `RuntimeConfig`, `MCRuntimeConfig` | file, migration, tables, memory, admin pages, start and end of the server | done |
| `RuntimeConfigProofs` | theorems about `RuntimeConfig` | done |
| `TelegramGateway`, `MCTelegramGateway` | webhooks, routes, deliveries, bans, sessions of users, replies | done |
| `TelegramGatewayProofs` | theorems about `TelegramGateway` | done |
| `ContainerLedger` | abstract: what an execution may expect of its container | done |
| `ContainerManager` | containers of concurrent executions, commands in them, Docker's failures, the end of the process | done, refines `ContainerLedger` |
| `ToolLoader` | the scan of the tools directory and its editors | done |
| `ServicesProofs` | theorems about `ContainerManager` and `ToolLoader` | done |
| `MCServices` | one instance of `TaskQueue`, `ContainerManager` and `ToolLoader` for the run that needs fairness | done |

Order: the queue and the workers carry the system and are composed of the most
goroutines, so they come first; the task service and the sessions feed them; the
turn log decides what the LLM sees; the rest is sequential. `WorkerRuntime` takes
`TaskLedger` in place of `TaskQueue`, which the refinement (checked and proved)
justifies.

### TaskQueue
`hand[c]` is the task a goroutine holds between two calls; `enqueueCh`,
`dequeueCh` and `resultCh[w]` are the Go channels; `items` is
`PriorityQueue.items`. One case of the loop's `select` is one step, because the
heap's mutex is held by one goroutine at a time and `Remove`, the only other
writer, is a step of its own. `sort.Slice` is not stable: `SortDesc` is the set of
every arrangement in order. Scores are computed when a task is inserted, with the
age of that moment, and stay as they are (`rebalancePriorities` is empty). A
task whose `CreateTask` fails before `queue.Enqueue` never reaches the queue and
is the concern of `TaskService`.

### AgentPool and WorkerRuntime
A task is executed at most once (`ExactlyOnePlace` of `TaskQueue`; it is only put
back when no agent was spawned) and every execution has an agent of its own, so
agents are named by their tasks. `wpc[w]` is the place of worker `w` in
workerLoop, executeTask and runAgentLoop; `owner[t] = w` says that `w` holds `t`.
Every critical section of `SendToolResultToAgent` is a step. A reply of the LLM is
chosen call by call; `reply[t]` keeps the number of calls run and the code's
`stateChange`. A send of the idle check on the unbuffered `stopCh` never ends, so
`stuckOn` is never reset: from then on no step that needs the pool's mutex or that
agent's mutex is enabled. `taskStatus` is the field of the in-memory
`TaskInstance`, from which the row is saved; failing saves are not modelled. The
result texts of tools and the turn log are left out.

`acked`, `taken` and `told` are counters the code does not have: they count the
`"success": true` answers of SEND_PARENT, the messages read by parents and those
given to `HandleUserMessage`.

`Stop` closes `stopCh`, which every worker looks at between two tasks, and waits for
all of them; a worker whose agent waits for input goes on waiting. That is why
`StopReturns` promises less than "Stop returns": see section 5.

### TaskService
A call is named by the task it creates; `pc[t]` runs through `CreateTaskFamily`,
the depth walk of `SPAWN_TASK` (`runtime.go` 542-566), the limit of
`SpawnSubTask`, the statements of `CreateTask` in their order and the
read-modify-write of `max_depth_reached`. `StatementFails` says which errors end
a call and which are passed over; `WalkFails` is a failing read of the walk, which
leaves the depth too small. `level` (the true depth), `failures` and `overlap` are
observers: the code has no such variables. `Restart` loses the queue; nothing reads
the pending rows again.

### Session
A call of `HandleUserMessage` is named by its message and runs through
`GetSession`, `AddConversationTurn` and the send, one access to shared state per
step; `currentTurnID++` is two steps, since nothing guards it. Objects are the
`Session` values `CreateSession` and `GetSession` allocate, each with its queue and
its `orchestratorLoop`. `failed` and `dropped` calls stay as they are, so every
interleaving of calls, loads, loops, LLM failures and a restart is a behaviour.

### TurnContext
The conversation of one task instance or of one session (`kind`, chosen in `Init`
and never changed), its rows, and the managers of the loops that use it: one for a
worker, up to two for a session, because `Session` shows that two loops can run.
Appending a turn in memory and inserting its row are one step: the memory is
private to the loop, so only the order of INSERTs shows, and a crash between the
two leaves what a failed INSERT leaves. The content of a turn is left out, but for
the calls it keeps and the call it answers. What a SELECT ... ORDER BY turn_id
answers (`History`) is said by counting: its k-th row is the one whose number has k
rows up to it (`RowAt`).

### ContainerManager and ContainerLedger
An execution is named by its `InstanceID`, which is also the key of its container
(`Key`): `runtime.go` 302-307 gives every execution a container of its own, although the
admin page (`App.vue` 571) promises one per root task, shared among its workers; the
module follows the code. `epc[e]` runs through `GetOrCreateContainer`, any number of `EXECUTE_CMD`
calls and `unregisterAgentForCallback`, whose release is a goroutine: `release` and
`stop` are places of that goroutine, the agent is over by then. `mutex` is
`ContainerManager.mu`, kept while Docker pulls, creates, starts or stops. A call of
Docker that fails may have been done all the same (`LeftByCreate`, `ExecFails`,
`StopContainer`). `cmd[e]` says by which ways the last command was run (`ran`), where
it still runs, and what the agent was told; `ExecuteCmd` falls back from the API to
`docker exec` on any error, so `excused` records that a connection broke or a run was
said to have failed before it ended. `docker[k]` is Docker's view, `strays` what
nobody will ever remove. `ContainerLedger` stands between the two modules that know of
containers: `ContainerManager` implements it, and `WorkerRuntime`, in which a container is
a member of two sets, uses containers in no other way (`UsesLeases`).

### ToolLoader
`lpc` is the goroutine of `watchLoop`; a scan lists the directory (`ReadDir`) and reads
one file a step (`LoadToolFile`), while `EditFile` and `EditDirectory` change what it
reads. A file is what it defines: a tool, or nothing that can be parsed. `seen[f]`
collects what a file held since the scan began.

### RuntimeConfig
A configuration keeps its list of bots, one number that stands for the fields
Validate completes, and the address of the login service. `UpdateRuntimeConfig` is
one transaction of several statements: `shadow` is what the transaction sees,
`lock` the row lock its first statement takes, `table` what is committed. The
starting server (`Boot`) and the admin pages are its writers. GetRuntimeConfig is
two steps, because its statements are not in a transaction, and yields the bots in
any order, because its SELECT has none. `AssignSeed` is one step: no reader looks at
two parts of the configuration at once. A torn read of a slice that is being
assigned (there is no lock) is not modelled.

### TelegramGateway
A delivery is a goroutine of the webhook server; its `pc` runs through
`handleMessage`, one statement or critical section a step, with CreateSession and
GetSessionByTelegramUser in its middle. Telegram (`hook`, `acked`) is external: it
delivers at the address registered for a bot, at least once, until it gets status
200. Routes come from the file, instances from the bots Telegram knows, and the
configuration from whatever was saved last: three lists with one index. Of
`RuntimeConfig` the module takes only the list of bots (`SeedIsStored` says its
tokens differ), of `Session` only the three ways HandleUserMessage ends (`HandOver`):
the message is in the queue of the session; the queue is full, which `session.go`
233-239 logs and returns nil, so that the update is answered with 200 and nobody reads
it or hears of it (`dropped`; a queue fills up once its loop has ended); or the history
cannot be written, and the user is told. Whether the queue is full is `Session`'s
concern and a choice here. A session is kept by the number of its user
(`msg.From.ID`), a reply looks for it by the number of the chat (`msg.Chat.ID`,
`telegram.go` 201 and 215): the two are one in a private chat, while in a group
(`Groups`) no session is found and the first instance answers. Sending a reply, reading
a row or registering a webhook may fail (`MaxFailures`). `lists` keeps the instances and
the configuration that each delivery found, `LeadsHome` says whether the address of a
bot leads to its instance; `notes` collects what the properties except.

## 3. Runs

| Run | Instance | Shows |
|---|---|---|
| `TaskQueueSafety` | 3 tasks of two types and two priorities, 1 producer, 2 workers, queue of 2, channels of 1, clock 0..2 with a cap of 1 tick | `ExactlyOnePlace`, `ReplyNeverBlocks`, `QueueInOrder`, `ClassInversionBounded`, `ImplementsLedger` |
| `ServicesCorrect` | queue: as above without a clock; containers: 2 executions, 1 command, 1 restart; tools: 2 files, 3 tools of which 2 share a name, 2 edits | `WaitingTaskIsServed`, `DequeueReturns`; `ContainersAgree`, `CommandRunsOnce`, `ContainerCallsEnd`, `ImplementsLeases`; `OfferIsOneScan`, `DirectoryIsOffered` |
| `WorkerSafety` | root task, 2 subtasks, 2 workers, replies of 2 calls, 3 turns in all, input queues of 1 | pool, registry, containers, messages, status; `UsesLeases` |
| `WorkerLiveness` | 4 tasks, 2 workers, agents that obey the tool descriptions | `EveryTaskCompletes`, `AckedMessageIsRead`, `StopReturns` |
| `TaskServiceCorrect` | root, 3 subtasks, depth limit 2, 2 failing statements, a restart | `RowsFollowTasks`, `DepthIsKept`, `AnswerIsTrue` |
| `SessionCorrect` | 3 messages, 2 calls at a time, 2 objects, queue of 2, an LLM failure, a restart | `CallsAreSound`, `MessageIsReadOnce`, `HistoryIsComplete`, `AcceptedMessageIsRead` |
| `TurnContextCorrect` | 2 managers, 5 turns, replies of 2 calls, a failure, a restart | `MemoryIsSound`, `MessagesArePaired`, `TableIsMerged` |
| `ConfigCorrect` | 2 pages, 2 bots, 3 saves, 2 starts, failing statements, lost answers | `ConfigIsSound`, `TableIsOneSave` |
| `GatewayCorrect` | a user who writes to the second bot and sends a command to the first, another who sends one in a group, a file of 2 bots, a save of another list, in another order and with a third bot, 3 updates in 3 deliveries, 1 failure, 2 starts | `SessionsAreSound`, `AckedUpdateIsAnswered`, `BannedIsRefused`, `UserKeepsHisBot` |
| `WorkerAgentRemoved`, `SessionHistory`, `ConfigAuth` | as above | findings, below |

`ServicesCorrect` holds three components that share no state: the variable `focus`,
chosen at the start, says which one a behaviour runs, so their states add up. Several
properties are conjunctions of named parts, each with a comment of its own in the
module: `RowsFollowTasks` (`QueuedTaskHasRows`, `NoOrphanRow`, `NoOrphanTask`),
`DepthIsKept` (`DepthIsLimited`, `MaxDepthIsReached`), `CallsAreSound`,
`MemoryIsSound`, `SessionsAreSound`, `ContainersAgree`.

Bounds. Three tasks let a queue of two overflow, and a parent have two children or
a grandchild; channels of one are full as soon as something is in them; two workers
race for everything workers race for; an age cap of one tick with a clock of two
reaches both sides of the cap. Input queues of one overflow when a child writes
twice. Replies of two calls give every pair, such as COMPLETED followed by
BLOCKING; `WorkerLiveness` has three so that a parent can spawn two children
before it blocks, and two workers for four tasks, so that blocked parents can hold them
all: `EveryTaskCompletes` names that state (`NobodyLeft`), fails without it, and shows
that no other deadlock exists. In the queue of `ServicesCorrect` two tasks wait together while a third comes and goes, so that an urgent
task, one of the type asked for and one put back overtake the others. It needs no clock:
with priorities two classes apart an age changes the order within a class only, and there
equal scores and creation times allow every order. The bounds on calls, turns, the clock
and the tasks stand in guards. Symmetry is used only in `WorkerSafety`, `TaskServiceCorrect` and
`GatewayCorrect`, where no property is about more than a state or a step. A depth
limit of two with chains of three subtasks reaches one level beyond it; two session
objects are one from `CreateSession` and one from a concurrent load, or two
concurrent loads after a restart; five turns hold a reply with its result, the next
message, and a reload with a gap in between. Three saves are two that overlap and
one after them, and two starts are one with the tables the first left; two pages are
enough to race, and two bots to be saved in either order. Three deliveries are two of
a user's first message that race with each other, or repeat it, and a command of his to
another bot, or of another user in a group, which only gets a reply (that a group's
messages also create sessions multiplies the states and is left to the proof); a save and
two starts shift the three lists of bots against each other; one failure can hit any of
the statements. Two executions
contend for the mutex of all containers, and one may begin after a restart with the
other's container still there; one command meets every failure of either way to run
it. Two files and two tools of one name decide who defines the name, two edits change
a file the scan has read and one it has not. Only `TaskQueueSafety`
checks deadlock: in the others every agent may wait, every message may be handled, or
a bound may be reached, and the system does stop.

Fairness. The goroutines of the queue run when they can (weak fairness);
`select` chooses among its ready cases at random, so each case is served. A worker
asks again when it is free, and its `Finish` is strongly fair: that it ends, and that
spawning an agent does not fail for ever, are assumptions of the queue's liveness. The
first is exactly what fails when every worker runs a blocked parent. Nothing is assumed
of producers: a task not yet on the channel is not promised anything. In `ObedientSpec`
the agents do what the tool descriptions tell them, lookups and LLM calls succeed, and every worker runs while it can. In `Session`
every goroutine runs while it can (weak fairness of each call and each loop);
nothing is assumed of failures and restarts, so `AcceptedMessageIsRead` excepts
behaviours with one. In `ContainerManager` a mutex goes to those that wait for it in
their order (`sync.RWMutex` starves nobody), hence strong fairness of taking it;
Docker answers or fails every call, and a command ends: `ReadOutput` has no timeout,
so a command that never ends blocks its agent for ever. The tool loader's ticker ticks
and its goroutine runs.

## 4. Proofs

`TaskQueueProofs` proves for all constants that satisfy `TaskQueueAssumption` and
`NoClientAssumption`:

* `TypeCorrect`, `ReplyCorrect`, `OnePlaceCorrect`, `OrderCorrect`,
  `ClassInversionCorrect`: the invariants of `TaskQueueSafety`;
* `LedgerCorrect`: the queue implements `TaskLedger`.

The argument. Types first. `ReplyNeverBlocks` needs only types. `ExactlyOnePlace`
is inductive with both: that a task enters its next place exactly as it leaves the
last needs the empty reply channel and the empty hand that `ReplyNeverBlocks`
gives. `QueueInOrder` needs `ExactlyOnePlace`: an insertion rewrites the score of
the inserted task only, which is not in `items`. `ClassInversionBounded` follows
from the order and a bound on scores, `AgeUnit * Priority[t] <= score[t] <=
AgeUnit * (Priority[t] + 1)` for tasks in `items`, kept as part of the invariant.
The refinement maps hands to owners and every other place to "queued"; that a full
heap means more than `MaxQueueSize` queued tasks counts the positions of `items`,
which hold different tasks, and the one at the head of the channel.

`WorkerRuntimeProofs` proves for every set of tasks and workers, every capacity and
whatever the agents do (`AgentPoolAssumption`, `WorkerRuntimeAssumption`):

* `TypeCorrect`, `PoolCorrect`, `LoopCorrect`, `StatusCorrect`, `ContainerCorrect`,
  `MessageCorrect`: every invariant of `WorkerSafety`;
* `LeasesCorrect`: the workers keep to `ContainerLedger`.

The argument. `OwnerInv` is the ground: a task is held by a goroutine or by none, and
a worker holds one task from `Dequeue` until it is done with it, which the guards of
`TaskLedger` give. With it, what a worker does concerns its own task, so
`PoolIsExecutions` is inductive. `StatusInv` ties the status of a task to the place
of its worker. `RegistryInv` says that an agent has no container before it is
prepared, is registered throughout its loop, and that a container is released only
after its agent has left both loop and registry. Messages need most: `MessageInv`
(a task that sends has a parent whose execution has begun; one not yet created has
sent nothing) and `InputInv` (an input queue is empty until its agent is spawned, so
that spawning loses no message, and holds only messages of children) make
`AckedMessageIsKept` inductive; two lemmas count what `Append` adds to a queue and
what `Tail` takes from it. `LoopIsReachable` and `ContainerIsAccountedFor` follow from
the parts. `LeasesCorrect` needs only that what is being released is there
(`ReleasingInv`): a step moves the lease of one task, or none.

`RuntimeConfigProofs` proves for every set of admin pages and bots, every file and any
number of saves and starts (`ConfigAssumption`, in which the bots are finitely many):

* `ConfigCorrect`, `TableCorrect`: the properties of the run `ConfigCorrect`.

The argument. `ValidInv`: what is being saved, and what the server runs with, passed
Validate. `PhaseInv`: the starting server writes before the pages can.
`TransactionInv`: a transaction past its first statement belongs to the holder of the
row lock, and holds as much of his configuration as he has written, hence all of it at
its commit. `SeedInv` is `SeedIsStored` extended over the moment between a commit and
its assignment: when nothing diverged, only one page can be there, and what it will
assign is what it committed.

`ServicesProofs` proves for any number of executions, commands, failures and
restarts (`ContainerAssumption`):

* `ContainersAlwaysAgree`, `CommandsRunOnce`: the invariants of `ServicesCorrect`;
* `ImplementsContainerLedger`: the manager implements `ContainerLedger`.

The argument. `Own(e)` ties the place of an execution to the manager's map and to
Docker's view of its container, `CommandAt(e)` to the ways its command was run and what
it was told. A step of one execution leaves what concerns the others alone
(`OthersUntouched`), so each lemma is about the execution that moves. The refinement
maps the place of an execution to the state of its lease.

It also proves for every directory, whatever is edited when (`LoaderAssumption`):

* `OfferIsAlwaysOneScan`: the action property of `ServicesCorrect`.

The argument. `SeenInv`: what a file holds while it waits to be read has been seen.
`FoundInv`: each tool found comes from a file read in this scan. `ScanInv`: files are
read in the order of their names, so a definition that stayed in its file has
been found unless a file read later has its name.

`TaskServiceProofs` proves for every set of tasks, every depth limit and any number of
failures and restarts (`TaskServiceAssumption`, in which the tasks are finitely many):

* `RowsAlwaysFollowTasks`, `DepthIsAlwaysKept`, `AnswersAreTrue`: the properties of
  `TaskServiceCorrect`.

The argument. `CallAt(t)` says which rows a call has written at its place. `TreeAt(t)`
keeps the parents a tree, along which `level` grows by one. `DepthAt(t)`: while a walk
goes on, what it has counted and the level of the task it has reached add up to the
level of the new task; a walk that a failing read ended counts too little, but its
failure has raised the bound `MaxTaskDepth + failures` by one, and the new task is
only one level below its parent. `MaxInv` is `MaxDepthIsReached` over the moments between
the read and the write of the maximum. That levels are bounded by the number of
tasks, which `TypeOK` says, takes a count of the tasks that have begun.

`SessionProofs` proves for any number of messages, objects, LLM failures and restarts
(`SessionAssumption`):

* `CallsAreAlwaysSound`, `MessagesAreReadOnce`, `HistoryIsAlwaysComplete`: the
  invariants of `SessionCorrect`.

The argument. `CallAt(m)` says which objects a call has got hold of, `CacheInv` that the
cached object has a loop, and `ReadInv`, that a message in a queue is in one place, is
inductive with both. The history needs `OneInv`: while calls do not overlap and the
process lives, all of them work on the one object `CreateSession` made. Then the counter
of that object is the length of the history (`RowsInv`), but for a message whose row
was written and whose number has not been counted, and the rows of queued messages are in the
order of the queue (`OrderInv`). `CountInv` bounds the counters by the messages counted, so
that there is a row for every number.

`TurnContextProofs` proves for any number of loops, turns, calls in a reply, failures and
restarts (`TurnContextAssumption`):

* `MemoryIsAlwaysSound`, `MessagesAreAlwaysPaired`, `TableIsAlwaysMerged`: the
  properties of `TurnContextCorrect`.

The argument. First the answer to the SELECT (`RowsAreInOrder`). That its rows are found
and increase needs no induction: the map from a row to the number of rows up to it is
injective into `1..N`, where N counts the rows, hence surjective. `MemInv` adds to
`MemoryIsSound` that a row has the number of its place, and that a loop which lost
nothing counts what it has in memory (`CountInv`). An INSERT that then succeeds is that
of a loop with the whole table in memory (`AddFillsTable`): of two loops of a session the
one that has fallen behind finds its number taken. `PairedAt(m)` says that in memory an
answer follows its call at once, and that only a loop about to run a tool ends in a call;
`MessagesArePaired` follows, but a loop that starts takes its memory from the table, so
the same must be known there (`TablePaired`): the last row is a call only while the loop
that made it runs the tool, and no other loop has caught up with that one, so that no
other INSERT can get in between. The conditions enter where a step would fail without
them: `torn` at a load after a loss or between a call and its result, `odd` at a reply
whose calls are not all kept or not all run, `lost` at an INSERT that leaves a gap.
`TableIsMerged` needs neither `lost` nor `torn`, since colliding loops lose turns to one
another: `MergeInv` adds that a loop counts what it has in memory and that a row it has
counted exists, so that an INSERT fills the next place of the table or finds it taken.

`TelegramGatewayProofs` proves for any number of users, bots, updates, deliveries,
failures and starts (`GatewayAssumption`):

* `SessionsAreAlwaysSound`, `AcksAreEarned`, `BansHold`, `UsersKeepTheirBot`: the
  properties of `GatewayCorrect`.

The argument. `At(d)` says what a delivery holds at its place. `AnsweredInv` extends
`AckedUpdateIsAnswered` to the deliveries about to answer. `BanInv`: a ban stays. `RaceInv`:
while no two deliveries of a user raced, one of them at most is about to insert a session,
and only if there is none. `BotInv`: a delivery keeps the lists it found, and the token it
works for stands, in the configuration, at the place of the instance its address leads
to; `ServedAs` carries this to the row of the session. While the lists are still the
same, a reply looks up that token in the configuration and takes the instance at its
place, hence the bot the user wrote to, even if the two lists are shifted against each
other.

Out of the provers' reach, hence only model-checked, is liveness (`WaitingTaskIsServed`,
`DequeueReturns`, `EveryTaskCompletes`, `AckedMessageIsRead`, `StopReturns`,
`AcceptedMessageIsRead`, `ContainerCallsEnd`, `DirectoryIsOffered`): it rests on fairness,
hence on ENABLED. Every invariant, action property and refinement that a run checks is
proved. Functions on sequences are written without RECURSIVE so that the modules can be
proved about.

## 5. Findings

* The idle check freezes the pool (`WorkerAgentRemoved`).
* A restart makes the next message overwrite the history's first row
  (`SessionHistory`).
* Saving the admin page empties the address of the login service in memory; until a
  restart nobody is let in (`ConfigAuth`).

Each is quoted with its line in `PROJECT.json`. A text of the admin page disagrees with
the code as well: "Containers are created per root task and shared among workers."
(`App.vue` 571), while `runtime.go` 304-305 makes one for each execution, and
the workers of a root share none (`Key` in `ContainerManager`). What else the conditions of the
properties except: two loops can run for one session (`Session`, two callers miss
the cache); two calls that overlap take the same turn number (`HistoryIsComplete`
holds only while none does); a loop that ends on an LLM error leaves its session
cached and deaf (`AcceptedMessageIsRead`); an agent that leaves without a final
state leaves its task in progress and its registry entry behind
(`WorkerRuntime`, `EndReply`); a read that fails in the depth walk lifts the depth
limit by one (`DepthIsKept`); a task that a worker puts back is dropped when the
queue filled up meanwhile (`fate` in `TaskQueue`); blocking parents can occupy every
worker, and the subtask the last of them waits for is never executed (`NobodyLeft`); a
completed task may run on and be marked failed (`StatusFollowsQueue` allows any final
status); SEND_PARENT ignores the error of `HandleUserMessage` (`runtime.go` 531, 536),
so `told` counts what the orchestrator may never get; a reply of
several tool calls and a child's message give the LLM tool messages that answer no
call (`odd` in `TurnContext`); two overlapping saves leave tables and memory
different (`diverged` in `RuntimeConfig`); two deliveries of a new user give him two
sessions (`raced`), a message that meets the full queue of its session is dropped and its
update answered with 200 (`dropped`), and a bot skipped at the start shifts the others'
webhooks (`astray` in `TelegramGateway`); in a group, or when the bot of a session is no
longer configured, the first bot answers (`UserKeepsHisBot`); a command may run twice when a connection
breaks, because `ExecuteCmd` falls back to `docker exec` (`excused` in
`ContainerManager`), and a broken connection after the start of a command can be read as
the end of its output with exit code 0; a container stays behind
for ever when its start or stop fails or the process ends (`strays`); `Stop` does not
return while an agent waits for input, as a parent does whose child is still queued
when the workers leave (`StopReturns`).

## 6. What is left

Modelled and not proved: liveness (see section 4).

Partly modelled, with what is left out:

* Agent pool: methods without a caller, and the state of an agent, which only status
  queries read.
* Task service: `UpdateTaskStatus` and `AssignTask`, which have no caller.
* Sessions: the orchestrator's tools inside its loop, the state and the memories of a
  session.
* Telegram: texts of commands, `SendMessage`, which chooses its bot like `sendReply`.
* Migrations, HTTP server, web admin: the parts that touch the configuration and the
  webhooks. The other handlers read rows and print them.

Not modelled:

* Snapshots: nothing calls `CreateSnapshot`, so its table stays empty. A retention
  given in days falls back to seven of them (`snapshot.go` 153).
* Repository: one SQL statement a method, without state; every module models the
  statements its operations run, where they run them.
* LLM client: an HTTP request. The modules take every outcome a call can have.
* Working memory, LTM and billing: single rows that are written and never read back to
  decide anything.
* RAG context, container service stub, models and schema, observability, command line:
  formatting, data definitions and wiring, without state of their own.
