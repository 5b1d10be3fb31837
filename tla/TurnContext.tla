----------------------------- MODULE TurnContext -----------------------------
(***************************************************************************)
(* The conversation an agent's LLM sees: WorkerContextManager (of one task *)
(* instance) and OrchestratorContextManager (of one session), files        *)
(* worker_context.go and orchestrator_context.go, with the loops that use  *)
(* them.  A manager keeps the turns in memory and writes each one to a     *)
(* table with a unique (owner, turn_id); a failed INSERT is only logged.   *)
(* BuildMessages turns the turns in memory, one by one, into the messages  *)
(* of the next LLM call.  Two orchestrator loops may run for one session   *)
(* (module Session), each with a manager of its own.                       *)
(***************************************************************************)
EXTENDS Integers, FiniteSets, Sequences

CONSTANTS Managers,     \* the managers that may exist in one process
          MaxTurns,     \* bound on the turn numbers
          MaxCalls,     \* bound on the tool calls of one reply
          MaxFailures,  \* bound on the failing statements and LLM calls
          MaxRestarts   \* bound on the restarts of the process

ASSUME TurnContextAssumption ==
    /\ IsFiniteSet(Managers)
    /\ MaxTurns \in Nat /\ MaxCalls \in Nat
    /\ MaxFailures \in Nat /\ MaxRestarts \in Nat

VARIABLES kind,      \* "worker" or "orchestrator": whose conversation it is
          turns,     \* turns[m]: the turns of manager m, in memory
          current,   \* current[m]: currentTurnID
          table,     \* table[i]: the row with turn_id i, or NoTurn
          pc,        \* pc[m]: where the loop that uses m is
          pending,   \* pending[m]: calls of the last reply, still to be run
          made,      \* the number of calls made so far; a call is its number
          failures,  \* statements and LLM calls that failed
          restarts,  \* restarts of the process
          lost,      \* an observer: an INSERT, or a load, has failed
          torn,      \* an observer: the process died, or a loop loaded the
                     \* history, between a call and its result or after a loss
          odd        \* an observer: a reply of several calls, calls in a
                     \* follow-up reply, or a message of a child

boundVars == <<failures, restarts>>
observers == <<lost, torn, odd>>
vars == <<kind, turns, current, table, pc, pending, made, boundVars, observers>>

NoCall == 0      \* the empty tool_call_id
Roles == {"user", "assistant", "tool"}
Locs == {"off", "idle", "ask", "tools", "followup", "done"}

\* A turn: its number, its role, the calls kept with an assistant's turn, and
\* the call a tool's turn answers.
Turn(i, role, calls, id) == [turn |-> i, role |-> role, calls |-> calls, id |-> id]
NoTurn == Turn(0, "none", {}, NoCall)

Init == /\ kind \in {"worker", "orchestrator"}
        /\ turns = [m \in Managers |-> <<>>]
        /\ current = [m \in Managers |-> 0]
        /\ table = [i \in 1..MaxTurns |-> NoTurn]
        /\ pc = [m \in Managers |-> "off"]
        /\ pending = [m \in Managers |-> <<>>]
        /\ made = 0
        /\ failures = 0
        /\ restarts = 0
        /\ lost = FALSE /\ torn = FALSE /\ odd = FALSE

Goto(m, loc) == pc' = [pc EXCEPT ![m] = loc]

\* The numbers of the rows: the turns that survive a restart.
Rows == {i \in 1..MaxTurns : table[i] # NoTurn}

\* The answer to the SELECT, in the order of the numbers.
RowAt(k) == CHOOSE i \in Rows : Cardinality(Rows \cap 1..i) = k
History == [k \in 1..Cardinality(Rows) |-> table[RowAt(k)]]

------------------------------------------------------------------------------
(* The managers.                                                             *)

\* A load that takes the number of turns for the number of the last one.
LoadHistoryByCount(m) ==
    /\ turns' = [turns EXCEPT ![m] = History]
    /\ current' = [current EXCEPT ![m] = Len(History)]

\* A load after which the loop still counts from where it was.
LoadHistoryUncounted(m) ==
    /\ turns' = [turns EXCEPT ![m] = History]
    /\ UNCHANGED current

\* All rows, and the number of the last one.
LoadHistory(m) ==
    /\ turns' = [turns EXCEPT ![m] = History]
    /\ current' = [current EXCEPT ![m] = IF Rows = {} THEN 0 ELSE History[Len(History)].turn]

\* INSERT INTO task_instance_turns or session_turns: the number may be taken,
\* or the statement fails; the caller logs the error.
Insert(t) ==
    \/ /\ table[t.turn] = NoTurn
       /\ table' = [table EXCEPT ![t.turn] = t]
       /\ UNCHANGED <<failures, lost>>
    \/ /\ table[t.turn] # NoTurn
       /\ lost' = TRUE
       /\ UNCHANGED <<table, failures>>
    \/ /\ failures < MaxFailures
       /\ failures' = failures + 1
       /\ lost' = TRUE
       /\ UNCHANGED table

\* A turn enters the memory under the mutex, before it is written.
Remember(m, t) ==
    /\ current[m] < MaxTurns
    /\ current' = [current EXCEPT ![m] = t.turn]
    /\ turns' = [turns EXCEPT ![m] = Append(@, t)]

AddUserTurn(m) ==
    LET t == Turn(current[m] + 1, "user", {}, NoCall)
    IN  Remember(m, t) /\ Insert(t)

\* A turn that keeps no call.
KeptNone(calls) == {}

\* The calls an assistant's turn keeps: the orchestrator's the first of them,
\* the worker's the only one, and none when there are several.
Kept(calls) ==
    IF calls = <<>> \/ (kind = "worker" /\ Len(calls) > 1) THEN {} ELSE {calls[1]}

AddAssistantTurn(m, calls) ==
    LET t == Turn(current[m] + 1, "assistant", Kept(calls), NoCall)
    IN  Remember(m, t) /\ Insert(t)

AddToolResultTurn(m, id) ==
    LET t == Turn(current[m] + 1, "tool", {}, id)
    IN  Remember(m, t) /\ Insert(t)

\* The message a turn becomes: its calls when it is the assistant's, the call
\* it answers when it is a tool's.
MessageOf(t) == [role |-> t.role, calls |-> t.calls, id |-> t.id]

\* The turns in memory after the system prompt and the context, which put no
\* message between them.
BuildMessages(m) == [k \in DOMAIN turns[m] |-> MessageOf(turns[m][k])]

------------------------------------------------------------------------------
(* The loops: orchestratorLoop and runAgentLoop.                             *)

\* A worker runs a task once; a session may get several loops.  A history that
\* cannot be loaded is taken to be empty.
Start(m) ==
    /\ pc[m] = "off"
    /\ kind = "worker" => restarts = 0 /\ \A n \in Managers : pc[n] = "off"
    /\ Goto(m, "idle")
    /\ \/ LoadHistory(m) /\ UNCHANGED <<failures, lost>>
       \/ /\ failures < MaxFailures
          /\ failures' = failures + 1
          /\ lost' = TRUE
          /\ UNCHANGED <<turns, current>>
    /\ torn' = (torn \/ lost \/ \E n \in Managers : pc[n] = "tools")
    /\ UNCHANGED <<kind, table, pending, made, restarts, odd>>

\* A message of the user, the description of the task.
HearUser(m) ==
    /\ pc[m] = "idle"
    /\ kind = "worker" => turns[m] = <<>>
    /\ AddUserTurn(m)
    /\ Goto(m, "ask")
    /\ UNCHANGED <<kind, pending, made, restarts, torn, odd>>

\* SendToolResultToAgent with the message of a child: a tool's turn with an
\* empty id, and a text that is no JSON, so that its INSERT always fails.
HearChild(m) ==
    /\ kind = "worker"
    /\ pc[m] = "idle" /\ turns[m] # <<>>
    /\ Remember(m, Turn(current[m] + 1, "tool", {}, NoCall))
    /\ lost' = TRUE /\ odd' = TRUE
    /\ Goto(m, "ask")
    /\ UNCHANGED <<kind, table, pending, made, failures, restarts, torn>>

\* The reply to the messages BuildMessages made, with n tool calls.
Reply(m, n) ==
    LET calls == [k \in 1..n |-> made + k]
    IN  /\ pc[m] = "ask"
        /\ AddAssistantTurn(m, calls)
        /\ made' = made + n
        /\ pending' = [pending EXCEPT ![m] = calls]
        /\ odd' = (odd \/ n > 1)
        /\ Goto(m, IF n > 0 THEN "tools" ELSE IF kind = "worker" THEN "done" ELSE "idle")
        /\ UNCHANGED <<kind, restarts, torn>>

\* Both loops end when the call fails.
ReplyFails(m) ==
    /\ pc[m] = "ask"
    /\ failures < MaxFailures
    /\ failures' = failures + 1
    /\ Goto(m, "done")
    /\ UNCHANGED <<kind, turns, current, table, pending, made, restarts, observers>>

\* The next call is run and its result recorded; after the last one the
\* orchestrator asks again, an agent blocks, or its loop ends.
RunTool(m) ==
    /\ pc[m] = "tools"
    /\ AddToolResultTurn(m, Head(pending[m]))
    /\ pending' = [pending EXCEPT ![m] = Tail(@)]
    /\ IF Len(pending[m]) > 1 THEN UNCHANGED pc
       ELSE IF kind = "orchestrator" THEN Goto(m, "followup")
       ELSE Goto(m, "idle") \/ Goto(m, "done")
    /\ UNCHANGED <<kind, made, restarts, torn, odd>>

\* The reply to the follow-up call: it is recorded when it is not empty, with
\* calls that nobody runs.
FollowUp(m, n) ==
    LET calls == [k \in 1..n |-> made + k]
    IN  /\ pc[m] = "followup"
        /\ \/ AddAssistantTurn(m, calls)
           \/ n = 0 /\ UNCHANGED <<turns, current, table, failures, lost>>
        /\ made' = made + n
        /\ odd' = (odd \/ n > 0)
        /\ Goto(m, "idle")
        /\ UNCHANGED <<kind, pending, restarts, torn>>

FollowUpFails(m) ==
    /\ pc[m] = "followup"
    /\ failures < MaxFailures
    /\ failures' = failures + 1
    /\ Goto(m, "idle")
    /\ UNCHANGED <<kind, turns, current, table, pending, made, restarts, observers>>

\* The process is killed and started again: the table is what is left.
Restart ==
    /\ restarts < MaxRestarts
    /\ restarts' = restarts + 1
    /\ turns' = [m \in Managers |-> <<>>]
    /\ current' = [m \in Managers |-> 0]
    /\ pc' = [m \in Managers |-> "off"]
    /\ pending' = [m \in Managers |-> <<>>]
    /\ torn' = (torn \/ \E m \in Managers : pc[m] = "tools")
    /\ UNCHANGED <<kind, table, made, failures, lost, odd>>

Next == \/ \E m \in Managers : \/ Start(m) \/ HearUser(m) \/ HearChild(m)
                               \/ ReplyFails(m) \/ RunTool(m) \/ FollowUpFails(m)
        \/ \E m \in Managers, n \in 0..MaxCalls : Reply(m, n) \/ FollowUp(m, n)
        \/ Restart

Spec == Init /\ [][Next]_vars

------------------------------------------------------------------------------
(* Properties.                                                               *)

Calls == 0..made
TurnType == [turn : 0..MaxTurns, role : Roles \cup {"none"}, calls : SUBSET Calls, id : Calls]

\* Every variable has its type; a turn names only calls that were made.
TypeOK == /\ kind \in {"worker", "orchestrator"}
          /\ turns \in [Managers -> Seq(TurnType)]
          /\ \A m \in Managers : \A k \in DOMAIN turns[m] : turns[m][k].role \in Roles
          /\ current \in [Managers -> 0..MaxTurns]
          /\ table \in [1..MaxTurns -> TurnType]
          /\ pc \in [Managers -> Locs]
          /\ pending \in [Managers -> Seq(Calls)]
          /\ \A m \in Managers : pending[m] # <<>> <=> pc[m] = "tools"
          /\ made \in Nat
          /\ failures \in 0..MaxFailures
          /\ restarts \in 0..MaxRestarts
          /\ lost \in BOOLEAN /\ torn \in BOOLEAN /\ odd \in BOOLEAN

\* The turns in memory are numbered upwards, and the next number is new to
\* them, also after rows were lost and the rest was loaded again.
NumbersIncrease ==
    \A m \in Managers :
        /\ \A i, j \in DOMAIN turns[m] : i < j => turns[m][i].turn < turns[m][j].turn
        /\ \A i \in DOMAIN turns[m] : turns[m][i].turn <= current[m]

\* While no INSERT and no load has failed, the table has no gap, the memory of
\* every loop is a beginning of it, and of the loop that spoke last all of it:
\* what a restart loads is what the agent knew.
MemoryIsTable ==
    ~lost => /\ \A i \in Rows : 1..i \subseteq Rows
             /\ \A m \in Managers : \A k \in DOMAIN turns[m] : turns[m][k] = table[k]
             /\ (\E m \in Managers : pc[m] # "off")
                    => \E m \in Managers : Rows \subseteq DOMAIN turns[m]

\* What a loop has in memory is sound.
MemoryIsSound == TypeOK /\ NumbersIncrease /\ MemoryIsTable

\* Loops of one session that collide: each number goes to the loop that writes
\* it first, and the turn of the other is lost to the table; and yet, while no
\* statement fails otherwise and however often the process restarts, the table
\* has no gap, every number that a loop counts has a row, and each row is the
\* turn of that number in the memory of a loop.
TableIsMerged ==
    kind = "orchestrator" /\ failures = 0 =>
        /\ \A i \in Rows : 1..i \subseteq Rows
        /\ \A m \in Managers : DOMAIN turns[m] \subseteq Rows
        /\ (\E m \in Managers : pc[m] # "off") =>
              \A i \in Rows : \E m \in Managers : i \in DOMAIN turns[m] /\ turns[m][i] = table[i]

\* What the API asks of the messages: a tool's message answers a call of the
\* assistant's message before it, with only other results in between, and
\* every call is answered in this way.
Answers(s, i, j) == /\ j < i /\ s[i].role = "tool" /\ s[i].id \in s[j].calls
                    /\ \A k \in j + 1..i : s[k].role = "tool"
Compliant(s) ==
    /\ \A i \in DOMAIN s : s[i].role = "tool" => \E j \in DOMAIN s : Answers(s, i, j)
    /\ \A j \in DOMAIN s : \A c \in s[j].calls : \E i \in DOMAIN s : Answers(s, i, j) /\ s[i].id = c

Asking(m) == pc[m] \in {"ask", "followup"}

\* With one call in a reply, no child messages and no calls in a follow-up,
\* the LLM is always given messages it accepts: statements may fail, loops
\* may collide and the process may restart, but nothing may be loaded after a
\* row was lost, nor between a call and its result.
MessagesArePaired ==
    ~odd /\ ~torn =>
        \A m \in Managers : Asking(m) => Compliant(BuildMessages(m))
=============================================================================
