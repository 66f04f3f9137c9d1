---------------------------- MODULE TaskManager ----------------------------
(***************************************************************************)
(* agents/orchestrator/tasks/task-manager.js: tasks, the agents they are   *)
(* assigned to, and for each agent the set of tasks that count against its *)
(* capacity. Nothing here waits; the hard part is any sequence of calls,   *)
(* such as a result that an agent sends after its task went to another.    *)
(***************************************************************************)
EXTENDS Integers, FiniteSets, Sequences

CONSTANTS
  NumTasks,          \* bound: tasks ever created, numbered as they are created
  TaskAgents,
  TaskCapacities,    \* capacities that setAgentCapacity gives
  ExecutionTimes,    \* avgExecutionTime that setAgentPerformance gives
  Unset              \* no agent; no capacity; no performance

Tasks == 1 .. NumTasks

ASSUME TaskConstantsAssumption ==
  /\ NumTasks \in Nat
  /\ TaskCapacities \subseteq Nat /\ ExecutionTimes \subseteq Nat
  /\ Unset \notin TaskAgents \union Nat

VARIABLES
  created,           \* tasks created so far
  batches,           \* batches, as intervals of tasks
  taskStatus, assignedAgent,             \* per task
  agentStatuses, agentCapacities, agentPerformance,    \* per agent
  agentAssignments,  \* per agent, the set of its tasks
  handedOver         \* history: <<a, t>> when t went from a to another agent

agentVars == <<agentStatuses, agentCapacities, agentPerformance>>
taskVars == <<created, batches, taskStatus, assignedAgent, agentVars,
              agentAssignments, handedOver>>

TaskInit ==
  /\ created = 0
  /\ batches = {}
  /\ taskStatus = [t \in Tasks |-> "none"]
  /\ assignedAgent = [t \in Tasks |-> Unset]
  /\ agentStatuses = [a \in TaskAgents |-> "ONLINE"]
  /\ agentCapacities = [a \in TaskAgents |-> Unset]
  /\ agentPerformance = [a \in TaskAgents |-> Unset]
  /\ agentAssignments = [a \in TaskAgents |-> {}]
  /\ handedOver = {}

-----------------------------------------------------------------------------
\* createTask, n times, and createBatch.
createBatch(n) ==
  LET batch == created + 1 .. created + n
  IN
  /\ created + n <= NumTasks
  /\ created' = created + n
  /\ batches' = batches \union {<<created + 1, n>>}
  /\ taskStatus' = [t \in Tasks |-> IF t \in batch THEN "PENDING" ELSE taskStatus[t]]
  /\ UNCHANGED <<assignedAgent, agentVars, agentAssignments, handedOver>>

setAgentStatus(a, s) ==
  /\ agentStatuses' = [agentStatuses EXCEPT ![a] = s]
  /\ UNCHANGED <<created, batches, taskStatus, assignedAgent, agentCapacities,
                 agentPerformance, agentAssignments, handedOver>>

setAgentCapacity(a, n) ==
  /\ agentCapacities' = [agentCapacities EXCEPT ![a] = n]
  /\ UNCHANGED <<created, batches, taskStatus, assignedAgent, agentStatuses,
                 agentPerformance, agentAssignments, handedOver>>

setAgentPerformance(a, n) ==
  /\ agentPerformance' = [agentPerformance EXCEPT ![a] = n]
  /\ UNCHANGED <<created, batches, taskStatus, assignedAgent, agentStatuses,
                 agentCapacities, agentAssignments, handedOver>>

\* assignTask's two refusals, for an agent that has this load.
Admits(a, load) ==
  /\ agentStatuses[a] = "ONLINE"
  /\ agentCapacities[a] # Unset => load < agentCapacities[a]

\* assignTask for the tasks first, first + 1, ... of n, task i to agents[i] (used
\* round and round), up to the first that throws: the earlier ones stay assigned.
AssignInOrder(first, n, agents) ==
  LET agentOf(t) == agents[((t - first) % Len(agents)) + 1]
      batch == first .. first + n - 1
      before(t) == {u \in batch : u < t /\ agentOf(u) = agentOf(t)}
      admitted(t) == Admits(agentOf(t),
                            Cardinality(agentAssignments[agentOf(t)] \union before(t)))
      done == {t \in batch : \A u \in first .. t : admitted(u)}
  IN
  /\ taskStatus' = [t \in Tasks |-> IF t \in done THEN "ASSIGNED" ELSE taskStatus[t]]
  /\ assignedAgent' = [t \in Tasks |-> IF t \in done THEN agentOf(t) ELSE assignedAgent[t]]
  /\ agentAssignments' =
       [a \in TaskAgents |-> agentAssignments[a] \union {t \in done : agentOf(t) = a}]
  /\ handedOver' = handedOver \union
       {p \in TaskAgents \X done : p[1] = assignedAgent[p[2]] /\ p[1] # agentOf(p[2])}
  /\ UNCHANGED <<created, batches, agentVars>>

\* The status of the task is not looked at.
assignTask(t, a) == t <= created /\ AssignInOrder(t, 1, <<a>>)

assignBatch(batch, agents) == AssignInOrder(batch[1], batch[2], agents)

\* The fastest of the agents with room, and of these the least loaded: no agent
\* of known time is slower than one without.
autoAssignTask(t) ==
  LET load(a) == Cardinality(agentAssignments[a])
      candidates == {a \in TaskAgents : /\ {agentCapacities[a], agentPerformance[a]} # {Unset}
                                        /\ Admits(a, load(a))}
      faster(a, b) == agentPerformance[a] # Unset
                      /\ (agentPerformance[b] = Unset \/ agentPerformance[a] < agentPerformance[b])
      better(a, b) == faster(a, b) \/ (~faster(b, a) /\ load(a) < load(b))
  IN
  /\ t <= created
  /\ \E a \in candidates :
       /\ \A b \in candidates : ~better(b, a)
       /\ AssignInOrder(t, 1, <<a>>)

\* Mutant: a result frees no slot.
SlotKept(a, t) == agentAssignments[a]
SlotFreed(a, t) == agentAssignments[a] \ {t}

\* What completeTask and markTaskFailed have in common: the slot of the agent
\* the task is assigned to now is freed, whoever reports the end.
Ends(t, status) ==
  /\ taskStatus' = [taskStatus EXCEPT ![t] = status]
  /\ agentAssignments' =
       [a \in TaskAgents |-> IF a = assignedAgent[t] THEN SlotFreed(a, t)
                                                     ELSE agentAssignments[a]]
  /\ UNCHANGED <<created, batches, assignedAgent, agentVars, handedOver>>

completeTask(t) == t <= created /\ taskStatus[t] # "COMPLETED" /\ Ends(t, "COMPLETED")

markTaskFailed(t) == t <= created /\ Ends(t, "FAILED")

TaskNext ==
  \/ \E n \in Tasks : createBatch(n)
  \/ \E a \in TaskAgents : \E s \in {"ONLINE", "OFFLINE"} : setAgentStatus(a, s)
  \/ \E a \in TaskAgents, n \in TaskCapacities : setAgentCapacity(a, n)
  \/ \E a \in TaskAgents, n \in ExecutionTimes : setAgentPerformance(a, n)
  \/ \E t \in Tasks : \/ \E a \in TaskAgents : assignTask(t, a)
                      \/ autoAssignTask(t)
                      \/ completeTask(t)
                      \/ markTaskFailed(t)
  \/ \E batch \in batches, a, b \in TaskAgents : assignBatch(batch, <<a, b>>)

TaskSpec == TaskInit /\ [][TaskNext]_taskVars

-----------------------------------------------------------------------------
TaskTypeOK ==
  /\ created \in 0 .. NumTasks
  /\ batches \subseteq Tasks \X Tasks
  /\ taskStatus \in [Tasks -> {"none", "PENDING", "ASSIGNED", "COMPLETED", "FAILED"}]
  /\ assignedAgent \in [Tasks -> TaskAgents \union {Unset}]
  /\ agentStatuses \in [TaskAgents -> {"ONLINE", "OFFLINE"}]
  /\ agentCapacities \in [TaskAgents -> TaskCapacities \union {Unset}]
  /\ agentPerformance \in [TaskAgents -> ExecutionTimes \union {Unset}]
  /\ agentAssignments \in [TaskAgents -> SUBSET Tasks]
  /\ handedOver \subseteq TaskAgents \X Tasks

\* What counts against the capacity of agents is the work they have: a task that
\* is assigned holds a slot of its agent, and an agent's slot is held by a task
\* that is assigned to it, whatever was assigned again, completed by a late
\* result or failed after its end. The exception: reassigning a task leaves the
\* slot with the former agent, where nothing frees it but the task's return.
SlotsAreWork ==
  /\ \A t \in Tasks : taskStatus[t] = "ASSIGNED" => t \in agentAssignments[assignedAgent[t]]
  /\ \A a \in TaskAgents : \A t \in agentAssignments[a] :
       \/ taskStatus[t] = "ASSIGNED" /\ assignedAgent[t] = a
       \/ <<a, t>> \in handedOver

=============================================================================
