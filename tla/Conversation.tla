---------------------------- MODULE Conversation ----------------------------
(***************************************************************************)
(* One turn of a conversation: Query.run, its two calls of the model, one  *)
(* task per validated tool use and the queue through which the tasks feed  *)
(* the one consumer that streams to the client.                            *)
(*                                                                         *)
(* What a task runs is dispatcher.execute, seen from outside: its gate     *)
(* answers, lets the workflow through or raises; the workflow puts its     *)
(* step results and one WorkflowResult; _finalize then succeeds or raises  *)
(* (modules IdempotencyGate and ProcessLifecycle look inside).             *)
(***************************************************************************)
EXTENDS Naturals, Sequences, FiniteSets

CONSTANTS
    ToolUses,   \* the tool uses a model's answer may contain
    Provider,   \* the vendor whose client speaks to the model
    Invalid,    \* those that name no workflow or whose input does not validate
    MaxSteps,   \* bound: step results of one workflow
    Faults,     \* the kinds of fault that may happen
    MaxFaults   \* bound: faults in one turn

(***************************************************************************)
(* llm       a call of the model raises                                    *)
(* gate      permission or idempotency check raises (redis, database)      *)
(* finalize  the status transition raises                                  *)
(* leave     the client goes away and the response task is cancelled       *)
(***************************************************************************)
ASSUME ConversationConstants ==
    /\ Provider \in {"anthropic", "openai"}
    /\ Invalid \subseteq ToolUses
    /\ IsFiniteSet(ToolUses)
    /\ MaxSteps \in Nat
    /\ Faults \subseteq {"llm", "gate", "finalize", "leave"}
    /\ MaxFaults \in Nat

VARIABLES
    phase,    \* where the coroutine of Query.run stands
    uses,     \* the tool uses of the model's answer
    task,     \* the task of each validated tool use
    puts,     \* step results a task has put into the queue
    queue,    \* workflow_queue
    shown,    \* history: what was taken from the queue and streamed
    results,  \* tool_results: one block per finished workflow
    sent,     \* the messages the client handed to the model's second call
    faults

consumerVars == <<phase, uses, shown, results, sent>>
vars == <<consumerVars, task, puts, queue, faults>>

Phases == {"intent", "announce", "consume", "gather", "reply",
           "chat", "answered", "left", "broken"}
Ended == {"done", "raised", "cancelled"}
TaskStates == {"none", "gate", "drive", "finalize"} \cup Ended

Progress(t, n) == [kind |-> "progress", tool |-> t, no |-> n]
Completed(t) == [kind |-> "completed", tool |-> t, no |-> 0]
Messages == [kind : {"progress", "completed"}, tool : ToolUses, no : 0 .. MaxSteps]

Validated == uses \ Invalid

\* The three messages of a turn, and what their content blocks amount to: a
\* text, tool uses, and the number of tool results for each tool use.
Turns == {"question", "calls", "answers"}
Content == [text : BOOLEAN, uses : SUBSET ToolUses, answers : [ToolUses -> Nat]]
NoAnswers == [t \in ToolUses |-> 0]
NoContent == [text |-> FALSE, uses |-> {}, answers |-> NoAnswers]

\* Types; in particular only validated tool uses have results.
TypeOK ==
    /\ phase \in Phases
    /\ uses \in SUBSET ToolUses
    /\ task \in [ToolUses -> TaskStates]
    /\ puts \in [ToolUses -> 0 .. MaxSteps]
    /\ queue \in Seq(Messages)
    /\ shown \in Seq(Messages)
    /\ results \in Seq(Validated)
    /\ sent \in [Turns -> Content]
    /\ faults \in 0 .. MaxFaults

Init ==
    /\ phase = "intent"
    /\ uses = {}
    /\ task = [t \in ToolUses |-> "none"]
    /\ puts = [t \in ToolUses |-> 0]
    /\ queue = <<>>
    /\ shown = <<>>
    /\ results = <<>>
    /\ sent = [m \in Turns |-> NoContent]
    /\ faults = 0

Fault(kind) ==
    /\ kind \in Faults
    /\ faults < MaxFaults
    /\ faults' = faults + 1

-----------------------------------------------------------------------------
(***************************************************************************)
(* The coroutine of Query.run.                                             *)
(***************************************************************************)

\* The first call of the model; an answer without tool uses ends the turn.
Intent ==
    /\ phase = "intent"
    /\ \E answer \in SUBSET ToolUses :
        /\ uses' = answer
        /\ phase' = IF answer = {} THEN "chat" ELSE "announce"
    /\ UNCHANGED <<task, puts, queue, shown, results, sent, faults>>

\* Mutant: the invalid tool uses get tasks too.
LaunchAll ==
    /\ phase = "announce"
    /\ task' = [t \in ToolUses |-> IF t \in uses THEN "gate" ELSE "none"]
    /\ phase' = IF Validated = {} THEN "gather" ELSE "consume"
    /\ UNCHANGED <<uses, puts, queue, shown, results, sent, faults>>

\* Every validated tool use is announced, then gets a task; with none the
\* consumer loop has nothing to wait for.
Launch ==
    /\ phase = "announce"
    /\ task' = [t \in ToolUses |-> IF t \in Validated THEN "gate" ELSE "none"]
    /\ phase' = IF Validated = {} THEN "gather" ELSE "consume"
    /\ UNCHANGED <<uses, puts, queue, shown, results, sent, faults>>

\* Mutant: every message counts as a completed workflow.
TakeMiscounts ==
    /\ phase = "consume"
    /\ queue # <<>>
    /\ queue' = Tail(queue)
    /\ shown' = Append(shown, Head(queue))
    /\ results' = IF Head(queue).kind = "completed"
                  THEN Append(results, Head(queue).tool) ELSE results
    /\ phase' = IF Len(shown') < Cardinality(Validated) THEN "consume" ELSE "gather"
    /\ UNCHANGED <<uses, sent, task, puts, faults>>

\* Mutant: the newest message is taken first.
TakeNewest ==
    /\ phase = "consume"
    /\ queue # <<>>
    /\ LET m == queue[Len(queue)] IN
        /\ queue' = SubSeq(queue, 1, Len(queue) - 1)
        /\ shown' = Append(shown, m)
        /\ results' = IF m.kind = "completed" THEN Append(results, m.tool) ELSE results
    /\ phase' = IF Len(results') < Cardinality(Validated) THEN "consume" ELSE "gather"
    /\ UNCHANGED <<uses, sent, task, puts, faults>>

\* _stream_process_step: take a message, stream it, and stop when as many
\* workflows have completed as were started.
Take ==
    /\ phase = "consume"
    /\ queue # <<>>
    /\ queue' = Tail(queue)
    /\ shown' = Append(shown, Head(queue))
    /\ results' = IF Head(queue).kind = "completed"
                  THEN Append(results, Head(queue).tool) ELSE results
    /\ phase' = IF Len(results') < Cardinality(Validated) THEN "consume" ELSE "gather"
    /\ UNCHANGED <<uses, sent, task, puts, faults>>

\* gather(return_exceptions=True) waits for the tasks, however they end.
Gather ==
    /\ phase = "gather"
    /\ \A t \in Validated : task[t] \in Ended
    /\ phase' = "reply"
    /\ UNCHANGED <<uses, shown, results, sent, task, puts, queue, faults>>

\* How many blocks tool_results has for t.
Blocks(t) == Cardinality({i \in DOMAIN results : results[i] = t})

Transcript(answers) ==
    [m \in Turns |->
        CASE m = "question" -> [NoContent EXCEPT !.text = TRUE]
          [] m = "calls"    -> [NoContent EXCEPT !.uses = uses]
          [] m = "answers"  -> [NoContent EXCEPT !.answers = answers]]

\* Mutant: the failed validations are left out.
HistoryOfValid == Transcript([t \in ToolUses |-> Blocks(t)])

\* messages: the question, the tool uses as the model made them, and the
\* results of the workflows with one error_result per invalid tool use.
History ==
    Transcript([t \in ToolUses |->
                  Blocks(t) + IF t \in uses \cap Invalid THEN 1 ELSE 0])

\* The vendor's form of a message: Anthropic's has a block for each block;
\* OpenAI's is made of the text blocks.
Convert(content) ==
    IF Provider = "anthropic" THEN content
    ELSE [NoContent EXCEPT !.text = content.text]

\* The second call of the model, with every tool's result.
Reply ==
    /\ phase = "reply"
    /\ phase' = "answered"
    /\ sent' = [m \in Turns |-> Convert(History[m])]
    /\ UNCHANGED <<uses, shown, results, task, puts, queue, faults>>

ModelFails ==
    /\ phase \in {"intent", "reply"}
    /\ Fault("llm")
    /\ phase' = "broken"
    /\ UNCHANGED <<uses, shown, results, sent, task, puts, queue>>

\* Mutant: the tasks are cancelled with the response, whatever they do.
LeaveCancelsAll ==
    /\ phase \in {"intent", "announce", "consume", "gather", "reply"}
    /\ Fault("leave")
    /\ phase' = "left"
    /\ task' = [t \in ToolUses |->
                  IF task[t] \in {"gate", "drive", "finalize"} THEN "cancelled"
                  ELSE task[t]]
    /\ UNCHANGED <<uses, shown, results, sent, puts, queue>>

\* The response task is cancelled where it stands.  gather() passes this on
\* to the tasks it awaits; queue.get() does not.
Leave ==
    /\ phase \in {"intent", "announce", "consume", "gather", "reply"}
    /\ Fault("leave")
    /\ phase' = "left"
    /\ task' = [t \in ToolUses |->
                  IF phase = "gather" /\ task[t] \notin Ended \cup {"none"}
                  THEN "cancelled" ELSE task[t]]
    /\ UNCHANGED <<uses, shown, results, sent, puts, queue>>

-----------------------------------------------------------------------------
(***************************************************************************)
(* The task of a tool use: _run_workflows over dispatcher.execute.         *)
(***************************************************************************)

\* Mutant: a short circuit ends the generator without a result.
ShortCircuitSilently(t) ==
    /\ task[t] = "gate"
    /\ task' = [task EXCEPT ![t] = "done"]
    /\ UNCHANGED <<consumerVars, puts, queue, faults>>

\* Not authenticated, not permitted, or an idempotency hit: the result comes
\* from the dispatcher itself, and nothing is finalized.
ShortCircuit(t) ==
    /\ task[t] = "gate"
    /\ task' = [task EXCEPT ![t] = "done"]
    /\ queue' = Append(queue, Completed(t))
    /\ UNCHANGED <<consumerVars, puts, faults>>

LetThrough(t) ==
    /\ task[t] = "gate"
    /\ task' = [task EXCEPT ![t] = "drive"]
    /\ UNCHANGED <<consumerVars, puts, queue, faults>>

PutStep(t) ==
    /\ task[t] = "drive"
    /\ puts[t] < MaxSteps
    /\ puts' = [puts EXCEPT ![t] = @ + 1]
    /\ queue' = Append(queue, Progress(t, puts[t] + 1))
    /\ UNCHANGED <<consumerVars, task, faults>>

\* drive turns whatever happens into a WorkflowResult.
PutResult(t) ==
    /\ task[t] = "drive"
    /\ task' = [task EXCEPT ![t] = "finalize"]
    /\ queue' = Append(queue, Completed(t))
    /\ UNCHANGED <<consumerVars, puts, faults>>

Finalize(t) ==
    /\ task[t] = "finalize"
    /\ task' = [task EXCEPT ![t] = "done"]
    /\ UNCHANGED <<consumerVars, puts, queue, faults>>

\* An exception ends the task; nobody tells the queue.
TaskRaises(t) ==
    /\ \/ task[t] = "gate" /\ Fault("gate")
       \/ task[t] = "finalize" /\ Fault("finalize")
    /\ task' = [task EXCEPT ![t] = "raised"]
    /\ UNCHANGED <<consumerVars, puts, queue>>

-----------------------------------------------------------------------------
ConsumerStep == Intent \/ Launch \/ Take \/ Gather \/ Reply

TaskStep(t) ==
    ShortCircuit(t) \/ LetThrough(t) \/ PutStep(t) \/ PutResult(t) \/ Finalize(t)

Next ==
    \/ ConsumerStep \/ ModelFails \/ Leave
    \/ \E t \in ToolUses : TaskStep(t) \/ TaskRaises(t)

Spec == Init /\ [][Next]_vars

\* The event loop runs whatever is ready; the calls it awaits time out.
FairSpec ==
    /\ Spec
    /\ WF_vars(ConsumerStep)
    /\ \A t \in ToolUses : WF_vars(TaskStep(t))

-----------------------------------------------------------------------------
(***************************************************************************)
(* Properties.                                                             *)
(***************************************************************************)

\* The results collected for the second call answer every validated tool use of
\* the first exactly once, as the model's API requires: however the workflows
\* interleave, no result is missing or doubled.
EachUseAnswered ==
    phase \in {"reply", "answered"} =>
        \A t \in Validated : Blocks(t) = 1

\* With Anthropic's client the model writes the reply from the tool uses it
\* made and one result for each of them, the invalid ones included.
ReplySeesResults ==
    phase = "answered" =>
        /\ sent["calls"].uses = uses
        /\ \A t \in uses : sent["answers"].answers[t] = 1

\* Interleaved as they are, the client sees the steps of each workflow in the
\* order they were made, and its result after all of them.
StepsInOrder ==
    \A i, j \in DOMAIN shown :
        i < j /\ shown[i].tool = shown[j].tool =>
            /\ shown[i].kind = "progress"
            /\ shown[j].kind = "progress" => shown[i].no < shown[j].no

\* A client that leaves never stops a workflow half-way: only a task whose
\* result was streamed already, and whose saga is over, is cancelled.
CancelledWasShown ==
    \A t \in ToolUses : task[t] = "cancelled" =>
        \E i \in DOMAIN shown : shown[i] = Completed(t)

\* A task that ended without ever putting a result.
Silent(t) ==
    /\ task[t] = "raised"
    /\ \A i \in DOMAIN queue : queue[i] # Completed(t)
    /\ \A i \in DOMAIN shown : shown[i] # Completed(t)

\* The consumer never waits at an empty queue that nobody will fill: some task
\* still has its result to put, or one has ended without putting any.
ConsumerIsServed ==
    phase = "consume" =>
        \/ queue # <<>>
        \/ \E t \in Validated : task[t] \in {"gate", "drive"} \/ Silent(t)

\* A turn with tool uses ends in a reply even if status transitions raise,
\* unless the client leaves, the model fails, or a task raises in the gate.
AnsweredUnlessGateRaises ==
    phase = "announce" ~>
        \/ phase \in {"answered", "left", "broken"}
        \/ \E t \in ToolUses : Silent(t)

(***************************************************************************)
(* What the design says of every turn and the code does not do.            *)
(***************************************************************************)

\* A turn with tool uses always reaches the second call of the model, unless
\* the client leaves or the model fails.
ToolUseIsAnswered ==
    phase = "announce" ~> phase \in {"answered", "left", "broken"}

\* The vendor is a matter of configuration: whichever it is, the reply can be
\* based on the results of the tools.
AnyProviderSeesResults ==
    phase = "answered" => \A t \in uses : sent["answers"].answers[t] # 0
=============================================================================
