------------------------- MODULE ConversationProofs -------------------------
(***************************************************************************)
(* The fan-in of a turn, proved for any number of tool uses and steps.     *)
(*                                                                         *)
(* The argument is about the stream, what the client was shown followed by *)
(* what waits in the queue: a task appends to it, the consumer only moves  *)
(* the border.  It is in order (StreamInv); tool_results has one entry for *)
(* each completed workflow in front of the border (ResultsInv); and since  *)
(* the entries are distinct, as many entries as tool uses are all of them. *)
(***************************************************************************)
EXTENDS Conversation, FiniteSetTheorems, SequenceTheorems, TLAPS

Stream == shown \o queue

Shown(t) == \E i \in DOMAIN shown : shown[i] = Completed(t)

Ordered(s) ==
    \A i, j \in DOMAIN s :
        i < j /\ s[i].tool = s[j].tool =>
            /\ s[i].kind = "progress"
            /\ s[j].kind = "progress" => s[i].no < s[j].no

\* What a message says of the task that put it.
Accounted(m) ==
    /\ task[m.tool] # "none"
    /\ m.kind = "completed" => m.no = 0 /\ task[m.tool] \in {"finalize"} \cup Ended
    /\ m.kind = "progress" => m.no <= puts[m.tool] /\ task[m.tool] # "gate"

StreamInv ==
    /\ Ordered(Stream)
    /\ \A i \in DOMAIN Stream : Accounted(Stream[i])
    /\ \A t \in ToolUses : task[t] \in {"none", "gate"} => puts[t] = 0

\* Before the tasks are made nothing is there; afterwards every validated
\* tool use has one, and no other.
TasksInv ==
    /\ phase \in {"intent", "announce"} =>
           /\ \A t \in ToolUses : task[t] = "none"
           /\ shown = <<>> /\ queue = <<>> /\ results = <<>>
    /\ phase = "intent" => uses = {}
    /\ \A t \in ToolUses : task[t] # "none" => t \in Validated

ResultsInv ==
    /\ \A i, j \in DOMAIN results : results[i] = results[j] => i = j
    /\ \A t \in ToolUses : Shown(t) <=> \E i \in DOMAIN results : results[i] = t
    /\ phase \in {"gather", "reply", "answered"} =>
           Len(results) >= Cardinality(Validated)

Inv == TypeOK /\ TasksInv /\ StreamInv /\ ResultsInv /\ CancelledWasShown

-----------------------------------------------------------------------------
(***************************************************************************)
(* Sequences.                                                              *)
(***************************************************************************)

\* Moving the head of the queue to what was shown leaves the stream as it is.
LEMMA MovingKeepsStream ==
    ASSUME NEW S, NEW a \in Seq(S), NEW q \in Seq(S), q # <<>>
    PROVE  Append(a, Head(q)) \o Tail(q) = a \o q
<1>1. Append(a, Head(q)) = a \o <<Head(q)>>
  BY AppendIsConcat, HeadTailProperties
<1>2. q = <<Head(q)>> \o Tail(q)
  OBVIOUS
<1>3. <<Head(q)>> \in Seq(S) /\ Tail(q) \in Seq(S)
  BY HeadTailProperties
<1>. QED  BY <1>1, <1>2, <1>3, ConcatAssociative

\* A message put into the queue is put at the end of the stream.
LEMMA PuttingAppends ==
    ASSUME NEW S, NEW a \in Seq(S), NEW q \in Seq(S), NEW m \in S
    PROVE  a \o Append(q, m) = Append(a \o q, m)
<1>1. Append(q, m) = q \o <<m>> /\ Append(a \o q, m) = (a \o q) \o <<m>>
  BY AppendIsConcat, ConcatProperties
<1>2. <<m>> \in Seq(S)
  OBVIOUS
<1>. QED  BY <1>1, <1>2, ConcatAssociative

\* Distinct elements of a finite set, as many as it has: all of them.
LEMMA EnoughIsAll ==
    ASSUME NEW S, IsFiniteSet(S), NEW s \in Seq(S),
           \A i, j \in DOMAIN s : s[i] = s[j] => i = j,
           Len(s) >= Cardinality(S)
    PROVE  \A x \in S : \E i \in DOMAIN s : s[i] = x
<1>1. s \in Injection(1 .. Len(s), S)
  BY DEF Injection, IsInjective
<1>2. /\ Cardinality(1 .. Len(s)) <= Cardinality(S)
      /\ Cardinality(1 .. Len(s)) = Cardinality(S) => s \in Surjection(1 .. Len(s), S)
  BY <1>1, FS_Injection
<1>3. Cardinality(1 .. Len(s)) = Len(s) /\ Cardinality(S) \in Nat
  <2>1. Len(s) \in Nat /\ Len(s) \in Int /\ 1 \in Int
    OBVIOUS
  <2>2. Cardinality(1 .. Len(s)) = IF 1 > Len(s) THEN 0 ELSE Len(s) - 1 + 1
    BY <2>1, FS_Interval
  <2>3. Cardinality(S) \in Nat
    BY FS_CardinalityType
  <2>. QED  BY <2>1, <2>2, <2>3
<1>4. s \in Surjection(1 .. Len(s), S)
  BY <1>2, <1>3
<1>. QED  BY <1>4 DEF Surjection

-----------------------------------------------------------------------------
(***************************************************************************)
(* Types.                                                                  *)
(***************************************************************************)

\* tool_results has a number of blocks for each tool use, none if it has none.
LEMMA BlocksAreCounted ==
    ASSUME TypeOK, NEW t
    PROVE  /\ Blocks(t) \in Nat
           /\ (\E i \in DOMAIN results : results[i] = t) => Blocks(t) # 0
<1>. DEFINE places == {i \in DOMAIN results : results[i] = t}
<1>1. DOMAIN results = 1 .. Len(results) /\ Len(results) \in Nat
  BY DEF TypeOK
<1>2. IsFiniteSet(places)
  <2>1. Len(results) \in Int /\ 1 \in Int /\ places \in SUBSET (1 .. Len(results))
    BY <1>1
  <2>2. IsFiniteSet(1 .. Len(results))
    BY <2>1, FS_Interval
  <2>. QED  BY <2>1, <2>2, FS_Subset
<1>3. Cardinality(places) \in Nat /\ (Cardinality(places) = 0 <=> places = {})
  BY <1>2, FS_CardinalityType, FS_EmptySet
<1>. QED  BY <1>3 DEF Blocks

\* The messages of the second call are turns, whatever the vendor.
LEMMA HistoryIsTyped ==
    ASSUME TypeOK
    PROVE  [m \in Turns |-> Convert(History[m])] \in [Turns -> Content]
<1>1. [t \in ToolUses |-> Blocks(t) + IF t \in uses \cap Invalid THEN 1 ELSE 0]
        \in [ToolUses -> Nat]
  BY BlocksAreCounted
<1>2. NoContent \in Content
  BY DEF NoContent, Content, NoAnswers
<1>3. uses \in SUBSET ToolUses
  BY DEF TypeOK
<1>4. ASSUME NEW m \in Turns PROVE History[m] \in Content
  BY <1>1, <1>2, <1>3 DEF History, Transcript, Content, NoContent, Turns
<1>5. ASSUME NEW c \in Content PROVE Convert(c) \in Content
  BY <1>2 DEF Convert, Content, NoContent
<1>. QED  BY <1>4, <1>5

\* The message a consumer takes, and whose it is.
LEMMA HeadOfQueue ==
    ASSUME Inv, queue # <<>>
    PROVE  /\ Head(queue) \in Messages /\ Tail(queue) \in Seq(Messages)
           /\ Append(shown, Head(queue)) \in Seq(Messages)
           /\ Len(shown) + 1 \in DOMAIN Stream
           /\ Stream[Len(shown) + 1] = Head(queue)
           /\ Head(queue).tool \in Validated
           /\ Head(queue).kind = "completed" => Head(queue) = Completed(Head(queue).tool)
           /\ \A i \in DOMAIN shown : i \in DOMAIN Stream /\ Stream[i] = shown[i]
<1>1. shown \in Seq(Messages) /\ queue \in Seq(Messages)
  BY DEF Inv, TypeOK
<1>2. /\ Head(queue) \in Messages /\ Tail(queue) \in Seq(Messages)
      /\ Append(shown, Head(queue)) \in Seq(Messages)
  BY <1>1, HeadTailProperties
<1>3. /\ Stream \in Seq(Messages) /\ Len(Stream) = Len(shown) + Len(queue)
      /\ \A i \in 1 .. Len(shown) + Len(queue) :
             Stream[i] = IF i <= Len(shown) THEN shown[i] ELSE queue[i - Len(shown)]
  BY <1>1, ConcatProperties DEF Stream
<1>4. Len(shown) \in Nat /\ Len(queue) \in Nat \ {0} /\ Head(queue) = queue[1]
  BY <1>1
<1>5. Len(shown) + 1 \in DOMAIN Stream /\ Stream[Len(shown) + 1] = Head(queue)
  BY <1>3, <1>4
<1>6. Accounted(Head(queue))
  BY <1>5 DEF Inv, StreamInv
<1>7. Head(queue).tool \in Validated
  BY <1>2, <1>6 DEF Inv, TasksInv, Accounted, Messages
<1>8. Head(queue).kind = "completed" => Head(queue) = Completed(Head(queue).tool)
  BY <1>2, <1>6 DEF Accounted, Messages, Completed
<1>9. \A i \in DOMAIN shown : i \in DOMAIN Stream /\ Stream[i] = shown[i]
  BY <1>1, <1>3, <1>4
<1>. QED  BY <1>2, <1>5, <1>7, <1>8, <1>9

\* Every step keeps the types.
LEMMA NextType == Inv /\ [Next]_vars => TypeOK'
<1>. SUFFICES ASSUME Inv, [Next]_vars PROVE TypeOK'
  OBVIOUS
<1>. USE DEF Inv, TypeOK, Fault
<1>1. CASE Intent
  <2>1. results = <<>> /\ uses' \in SUBSET ToolUses /\ phase' \in Phases
    BY <1>1 DEF Intent, TasksInv, Phases
  <2>. QED  BY <1>1, <2>1 DEF Intent, Validated
<1>2. CASE Launch
  BY <1>2 DEF Launch, Validated, TaskStates, Phases
<1>3. CASE Take
  <2>1. queue # <<>>
    BY <1>3 DEF Take
  <2>2. /\ Tail(queue) \in Seq(Messages) /\ Append(shown, Head(queue)) \in Seq(Messages)
        /\ Head(queue).tool \in Validated
    BY <2>1, HeadOfQueue
  <2>3. results' \in Seq(Validated) /\ phase' \in Phases
    BY <1>3, <2>2, AppendProperties DEF Take, Phases
  <2>. QED  BY <1>3, <2>2, <2>3 DEF Take, Validated
<1>4. CASE Gather
  BY <1>4 DEF Gather, Validated, Phases
<1>5. CASE Reply
  BY <1>5, HistoryIsTyped DEF Reply, Validated, Phases
<1>6. CASE ModelFails
  BY <1>6, ConversationConstants DEF ModelFails, Validated, Phases
<1>7. CASE Leave
  BY <1>7, ConversationConstants DEF Leave, Validated, Phases, TaskStates, Ended
<1>8. ASSUME NEW t \in ToolUses, TaskStep(t) \/ TaskRaises(t) PROVE TypeOK'
  <2>1. Completed(t) \in Messages
    BY ConversationConstants DEF Completed, Messages
  <2>2. puts[t] < MaxSteps => /\ puts[t] + 1 \in 0 .. MaxSteps
                              /\ Progress(t, puts[t] + 1) \in Messages
    BY ConversationConstants DEF Progress, Messages
  <2>3. \A m \in Messages : Append(queue, m) \in Seq(Messages)
    BY AppendProperties
  <2>. USE <2>1, <2>2, <2>3 DEF consumerVars, TaskStates, Ended, Validated
  <2>4. CASE ShortCircuit(t)
    BY <2>4 DEF ShortCircuit
  <2>5. CASE LetThrough(t) \/ Finalize(t)
    BY <2>5 DEF LetThrough, Finalize
  <2>6. CASE PutStep(t)
    BY <2>6, ConversationConstants DEF PutStep
  <2>7. CASE PutResult(t)
    BY <2>7 DEF PutResult
  <2>8. CASE TaskRaises(t)
    BY <2>8, ConversationConstants DEF TaskRaises
  <2>. QED  BY <1>8, <2>4, <2>5, <2>6, <2>7, <2>8 DEF TaskStep
<1>9. CASE UNCHANGED vars
  BY <1>9 DEF vars, consumerVars, Validated
<1>. QED
  BY <1>1, <1>2, <1>3, <1>4, <1>5, <1>6, <1>7, <1>8, <1>9 DEF Next, ConsumerStep

-----------------------------------------------------------------------------
(***************************************************************************)
(* The stream.                                                             *)
(***************************************************************************)

\* A task goes forward only.
Forward(t) ==
    \/ task'[t] = task[t]
    \/ task[t] = "gate" /\ task'[t] = "drive"
    \/ task[t] # "none" /\ task'[t] \in {"finalize"} \cup Ended

\* What does not touch the stream leaves it in order.
LEMMA StreamKept ==
    ASSUME Inv, Stream' = Stream, puts' = puts, \A t \in ToolUses : Forward(t)
    PROVE  StreamInv'
<1>1. Stream \in Seq(Messages)
  BY ConcatProperties DEF Inv, TypeOK, Stream
<1>2. Ordered(Stream')
  BY DEF Inv, StreamInv
<1>3. ASSUME NEW i \in DOMAIN Stream PROVE Accounted(Stream[i])'
  <2>1. Stream[i] \in Messages /\ Accounted(Stream[i])
    BY <1>1, <1>3 DEF Inv, StreamInv
  <2>2. DEFINE t == Stream[i].tool
  <2>3. t \in ToolUses /\ Forward(t)
    BY <2>1 DEF Messages
  <2>. QED
    BY <2>1, <2>3 DEF Accounted, Forward, Ended
<1>4. \A t \in ToolUses : task'[t] \in {"none", "gate"} => puts'[t] = 0
  BY DEF Inv, StreamInv, Forward, Ended
<1>. QED  BY <1>2, <1>3, <1>4 DEF StreamInv

\* What a task appends is the next step of its workflow, or its result.
LEMMA StreamGrows ==
    ASSUME Inv, NEW t \in ToolUses, ShortCircuit(t) \/ PutStep(t) \/ PutResult(t)
    PROVE  StreamInv'
<1>1. /\ queue \in Seq(Messages) /\ shown \in Seq(Messages)
      /\ task \in [ToolUses -> TaskStates] /\ puts \in [ToolUses -> 0 .. MaxSteps]
  BY DEF Inv, TypeOK
<1>2. PICK m \in Messages :
        /\ m.tool = t
        /\ queue' = Append(queue, m) /\ shown' = shown
        /\ \/ /\ m.kind = "progress" /\ m.no = puts[t] + 1
              /\ task[t] = "drive" /\ task' = task
              /\ puts' = [puts EXCEPT ![t] = @ + 1]
           \/ /\ m.kind = "completed" /\ m.no = 0
              /\ task[t] \in {"gate", "drive"} /\ puts' = puts
              /\ \E end \in {"done", "finalize"} : task' = [task EXCEPT ![t] = end]
  <2>1. CASE PutStep(t)
    <3>1. puts[t] + 1 \in 0 .. MaxSteps
      BY <1>1, <2>1, ConversationConstants DEF PutStep
    <3>2. Progress(t, puts[t] + 1) \in Messages
      BY <3>1 DEF Progress, Messages
    <3>. QED
      BY <2>1, <3>2 DEF PutStep, Progress, consumerVars
  <2>2. CASE ShortCircuit(t) \/ PutResult(t)
    <3>1. Completed(t) \in Messages
      BY ConversationConstants DEF Completed, Messages
    <3>. QED
      BY <2>2, <3>1 DEF ShortCircuit, PutResult, Completed, consumerVars
  <2>. QED  BY <2>1, <2>2
<1>3. Stream' = Append(Stream, m) /\ Stream \in Seq(Messages)
  BY <1>1, <1>2, PuttingAppends, ConcatProperties DEF Stream
<1>4. /\ DOMAIN Stream = 1 .. Len(Stream) /\ Len(Stream) \in Nat
      /\ DOMAIN Stream' = 1 .. Len(Stream) + 1
      /\ Stream'[Len(Stream) + 1] = m
      /\ \A i \in 1 .. Len(Stream) : Stream'[i] = Stream[i]
  BY <1>2, <1>3, AppendProperties
<1>5. ASSUME NEW i \in DOMAIN Stream
      PROVE  /\ Accounted(Stream[i])'
             /\ Stream[i].tool = t =>
                  /\ Stream[i].kind = "progress"
                  /\ m.kind = "progress" => Stream[i].no < m.no
  <2>1. Stream[i] \in Messages /\ Accounted(Stream[i]) /\ Stream'[i] = Stream[i]
    BY <1>3, <1>4, <1>5 DEF Inv, StreamInv
  <2>2. CASE Stream[i].tool # t
    BY <1>1, <1>2, <2>1, <2>2 DEF Accounted, Messages
  <2>3. CASE Stream[i].tool = t
    <3>1. task[t] \in {"gate", "drive"} /\ task'[t] \in {"drive", "done", "finalize"}
      BY <1>1, <1>2
    <3>2. Stream[i].kind = "progress" /\ Stream[i].no <= puts[t] /\ Stream[i].no \in Nat
      BY <2>1, <2>3, <3>1, ConversationConstants DEF Accounted, Messages, Ended
    <3>3. puts[t] \in Nat /\ puts'[t] \in Nat /\ puts[t] <= puts'[t]
      BY <1>1, <1>2, ConversationConstants
    <3>4. m.kind = "progress" => Stream[i].no < m.no
      BY <1>2, <3>2, <3>3
    <3>5. Accounted(Stream[i])'
      BY <2>1, <2>3, <3>1, <3>2, <3>3 DEF Accounted
    <3>. QED  BY <3>2, <3>4, <3>5
  <2>. QED  BY <2>2, <2>3
<1>6. Accounted(m)'
  BY <1>1, <1>2, ConversationConstants DEF Accounted, Ended
<1>7. Ordered(Stream')
  <2>. SUFFICES ASSUME NEW i \in DOMAIN Stream', NEW j \in DOMAIN Stream',
                       i < j, Stream'[i].tool = Stream'[j].tool
                PROVE  /\ Stream'[i].kind = "progress"
                       /\ Stream'[j].kind = "progress" => Stream'[i].no < Stream'[j].no
    BY DEF Ordered
  <2>1. i \in DOMAIN Stream /\ Stream'[i] = Stream[i]
    BY <1>4
  <2>2. CASE j = Len(Stream) + 1
    BY <1>2, <1>4, <1>5, <2>1, <2>2
  <2>3. CASE j \in DOMAIN Stream
    BY <1>4, <2>1, <2>3 DEF Inv, StreamInv, Ordered
  <2>. QED  BY <1>4, <2>2, <2>3
<1>8. \A i \in DOMAIN Stream' : Accounted(Stream[i])'
  <2>. SUFFICES ASSUME NEW i \in DOMAIN Stream' PROVE Accounted(Stream[i])'
    OBVIOUS
  <2>1. CASE i = Len(Stream) + 1
    BY <1>4, <1>6, <2>1 DEF Accounted
  <2>2. CASE i \in DOMAIN Stream
    BY <1>4, <1>5, <2>2 DEF Accounted
  <2>. QED  BY <1>4, <2>1, <2>2
<1>9. \A u \in ToolUses : task'[u] \in {"none", "gate"} => puts'[u] = 0
  BY <1>1, <1>2 DEF Inv, StreamInv
<1>. QED  BY <1>7, <1>8, <1>9 DEF StreamInv

-----------------------------------------------------------------------------
(***************************************************************************)
(* The consumer.                                                           *)
(***************************************************************************)

\* What one step of the consumer takes.
LEMMA Taken ==
    ASSUME Inv, Take
    PROVE  /\ Stream' = Stream
           /\ shown' = Append(shown, Head(queue))
           /\ Head(queue).tool \in Validated
           /\ ResultsInv'
           /\ phase' = "gather" => \A t \in Validated : Shown(t)'
           /\ \A t \in ToolUses : Shown(t) => Shown(t)'
<1>. DEFINE m == Head(queue)
<1>1. /\ queue # <<>> /\ queue' = Tail(queue) /\ shown' = Append(shown, m)
      /\ results' = IF m.kind = "completed" THEN Append(results, m.tool) ELSE results
      /\ phase' = IF Len(results') < Cardinality(Validated) THEN "consume" ELSE "gather"
      /\ uses' = uses
  BY DEF Take
<1>2. /\ shown \in Seq(Messages) /\ queue \in Seq(Messages) /\ results \in Seq(Validated)
      /\ m \in Messages /\ m.tool \in Validated
      /\ m.kind = "completed" => m = Completed(m.tool)
  BY <1>1, HeadOfQueue DEF Inv, TypeOK
<1>3. Stream' = Stream
  BY <1>1, <1>2, MovingKeepsStream DEF Stream
<1>4. /\ DOMAIN shown = 1 .. Len(shown) /\ Len(shown) \in Nat
      /\ DOMAIN shown' = 1 .. Len(shown) + 1 /\ shown'[Len(shown) + 1] = m
      /\ \A i \in DOMAIN shown : shown'[i] = shown[i]
  BY <1>1, <1>2, AppendProperties
<1>5. ASSUME NEW t \in ToolUses
      PROVE  Shown(t)' <=> Shown(t) \/ m = Completed(t)
  BY <1>4 DEF Shown, Completed
<1>6. ASSUME m.kind = "completed" PROVE ~Shown(m.tool)
  <2>. SUFFICES ASSUME NEW i \in DOMAIN shown, shown[i] = Completed(m.tool)
                PROVE  FALSE
    BY DEF Shown
  <2>1. /\ i \in DOMAIN Stream /\ Len(shown) + 1 \in DOMAIN Stream
        /\ Stream[i] = Completed(m.tool) /\ Stream[Len(shown) + 1] = m
    BY <1>1, HeadOfQueue
  <2>2. i < Len(shown) + 1
    BY <1>4
  <2>3. Ordered(Stream)
    BY DEF Inv, StreamInv
  <2>4. Completed(m.tool).tool = m.tool /\ Completed(m.tool).kind = "completed"
    BY DEF Completed
  <2>. HIDE DEF m
  <2>. QED  BY <2>1, <2>2, <2>3, <2>4 DEF Ordered
<1>7. /\ results' \in Seq(Validated)
      /\ \A i, j \in DOMAIN results' : results'[i] = results'[j] => i = j
      /\ \A t \in ToolUses : Shown(t)' <=> \E i \in DOMAIN results' : results'[i] = t
  <2>1. CASE m.kind = "completed"
    <3>1. /\ results' = Append(results, m.tool) /\ results' \in Seq(Validated)
          /\ DOMAIN results = 1 .. Len(results) /\ Len(results) \in Nat
          /\ DOMAIN results' = 1 .. Len(results) + 1
          /\ results'[Len(results) + 1] = m.tool
          /\ \A i \in DOMAIN results : results'[i] = results[i]
      BY <1>1, <1>2, <2>1, AppendProperties
    <3>2. \A i \in DOMAIN results : results[i] # m.tool
      BY <1>2, <1>6, <2>1 DEF Inv, ResultsInv, Validated, TypeOK
    <3>3. \A i, j \in DOMAIN results' : results'[i] = results'[j] => i = j
      BY <3>1, <3>2 DEF Inv, ResultsInv
    <3>4. ASSUME NEW t \in ToolUses
          PROVE  Shown(t)' <=> \E i \in DOMAIN results' : results'[i] = t
      <4>1. m = Completed(t) <=> t = m.tool
        BY <1>2, <2>1 DEF Completed
      <4>2. (\E i \in DOMAIN results' : results'[i] = t)
              <=> (t = m.tool \/ \E i \in DOMAIN results : results[i] = t)
        BY <3>1
      <4>. QED  BY <1>5, <4>1, <4>2 DEF Inv, ResultsInv
    <3>. QED  BY <3>1, <3>3, <3>4
  <2>2. CASE m.kind # "completed"
    <3>1. results' = results
      BY <1>1, <2>2
    <3>2. \A t \in ToolUses : m # Completed(t)
      BY <2>2 DEF Completed
    <3>. QED  BY <1>2, <1>5, <3>1, <3>2 DEF Inv, ResultsInv
  <2>. QED  BY <2>1, <2>2
<1>8. IsFiniteSet(Validated) /\ Cardinality(Validated) \in Nat /\ Len(results') \in Nat
  <2>1. Validated \in SUBSET ToolUses
    BY DEF Inv, TypeOK, Validated
  <2>. QED  BY <1>7, <2>1, ConversationConstants, FS_Subset, FS_CardinalityType
<1>9. /\ phase' \in {"consume", "gather"}
      /\ phase' = "gather" => Len(results') >= Cardinality(Validated)
      /\ Validated' = Validated
  BY <1>1, <1>8 DEF Validated
<1>10. phase' = "gather" => \A t \in Validated : Shown(t)'
  <2>. SUFFICES ASSUME phase' = "gather", NEW t \in Validated PROVE Shown(t)'
    OBVIOUS
  <2>1. \E i \in DOMAIN results' : results'[i] = t
    BY <1>7, <1>8, <1>9, EnoughIsAll
  <2>2. t \in ToolUses
    BY DEF Inv, TypeOK, Validated
  <2>. QED  BY <1>7, <2>1, <2>2
<1>11. ResultsInv'
  BY <1>7, <1>9 DEF ResultsInv
<1>. QED  BY <1>1, <1>2, <1>3, <1>5, <1>10, <1>11

\* Every task goes forward, and is cancelled only in the phase "gather".
LEMMA NextForward ==
    ASSUME Inv, [Next]_vars, NEW t \in ToolUses
    PROVE  /\ Launch \/ Forward(t)
           /\ task[t] \in Ended => task'[t] = task[t]
           /\ task'[t] = "cancelled" =>
                  task[t] = "cancelled" \/ (phase = "gather" /\ t \in Validated)
<1>1. /\ task \in [ToolUses -> TaskStates]
      /\ task[t] # "none" => t \in Validated
      /\ phase = "announce" => task[t] = "none"
  BY DEF Inv, TypeOK, TasksInv
<1>. USE DEF Forward, Ended, TaskStates
<1>2. CASE Launch
  BY <1>1, <1>2 DEF Launch
<1>3. CASE Intent \/ Take \/ Gather \/ Reply \/ ModelFails \/ UNCHANGED vars
  BY <1>1, <1>3 DEF Intent, Take, Gather, Reply, ModelFails, vars
<1>4. CASE Leave
  BY <1>1, <1>4 DEF Leave
<1>5. ASSUME NEW u \in ToolUses, TaskStep(u) \/ TaskRaises(u)
      PROVE  /\ Forward(t)
             /\ task[t] \in Ended => task'[t] = task[t]
             /\ task'[t] = "cancelled" => task[t] = "cancelled"
  <2>1. \/ task' = task
        \/ /\ task[u] = "gate" /\ task' = [task EXCEPT ![u] = "drive"]
        \/ /\ task[u] \in {"gate", "drive", "finalize"}
           /\ \E end \in {"finalize", "done", "raised"} : task' = [task EXCEPT ![u] = end]
    BY <1>5
    DEF TaskStep, TaskRaises, ShortCircuit, LetThrough, PutStep, PutResult, Finalize
  <2>. QED  BY <1>1, <2>1
<1>. QED  BY <1>2, <1>3, <1>4, <1>5 DEF Next, ConsumerStep

\* Every step keeps the stream in order.
LEMMA NextStream == Inv /\ [Next]_vars => StreamInv'
<1>. SUFFICES ASSUME Inv, [Next]_vars PROVE StreamInv'
  OBVIOUS
<1>1. CASE Launch
  <2>1. shown' = <<>> /\ queue' = <<>>
    BY <1>1 DEF Launch, Inv, TasksInv
  <2>2. Stream' = <<>>
    BY <2>1, ConcatEmptySeq DEF Stream, Inv, TypeOK
  <2>3. \A t \in ToolUses : puts'[t] = 0
    BY <1>1 DEF Launch, Inv, TasksInv, StreamInv
  <2>. QED  BY <2>2, <2>3 DEF StreamInv, Ordered
<1>2. ASSUME NEW t \in ToolUses, ShortCircuit(t) \/ PutStep(t) \/ PutResult(t)
      PROVE  StreamInv'
  BY <1>2, StreamGrows
<1>3. ASSUME ~Launch,
             ~\E t \in ToolUses : ShortCircuit(t) \/ PutStep(t) \/ PutResult(t)
      PROVE  StreamInv'
  <2>1. Stream' = Stream /\ puts' = puts
    <3>1. CASE Take
      BY <3>1, Taken DEF Take
    <3>2. CASE Intent \/ Gather \/ Reply \/ ModelFails \/ Leave \/ UNCHANGED vars
      BY <3>2 DEF Intent, Gather, Reply, ModelFails, Leave, vars, consumerVars, Stream
    <3>3. ASSUME NEW t \in ToolUses, LetThrough(t) \/ Finalize(t) \/ TaskRaises(t)
          PROVE  Stream' = Stream /\ puts' = puts
      BY <3>3 DEF LetThrough, Finalize, TaskRaises, consumerVars, Stream
    <3>. QED  BY <1>3, <3>1, <3>2, <3>3 DEF Next, ConsumerStep, TaskStep
  <2>. QED  BY <1>3, <2>1, NextForward, StreamKept
<1>. QED  BY <1>1, <1>2, <1>3

\* Every step keeps tool_results and what was shown together.
LEMMA NextResults == Inv /\ [Next]_vars => ResultsInv'
<1>. SUFFICES ASSUME Inv, [Next]_vars PROVE ResultsInv'
  OBVIOUS
<1>. USE DEF Inv, ResultsInv, Shown, Validated
<1>1. CASE Take
  BY <1>1, Taken
<1>2. CASE Launch
  <2>1. results = <<>> /\ results' = <<>> /\ shown' = shown /\ uses' = uses
    BY <1>2 DEF Launch, TasksInv
  <2>2. phase' = "gather" => Validated' = {}
    BY <1>2 DEF Launch
  <2>3. phase' \in {"gather", "consume"}
    BY <1>2 DEF Launch
  <2>4. Cardinality({}) = 0
    BY FS_EmptySet
  <2>. QED  BY <2>1, <2>2, <2>3, <2>4
<1>3. CASE Intent
  BY <1>3 DEF Intent
<1>4. CASE Gather \/ Reply \/ ModelFails \/ Leave \/ UNCHANGED vars
  BY <1>4 DEF Gather, Reply, ModelFails, Leave, vars, consumerVars
<1>5. ASSUME NEW t \in ToolUses, TaskStep(t) \/ TaskRaises(t) PROVE ResultsInv'
  BY <1>5 DEF TaskStep, TaskRaises, ShortCircuit, LetThrough, PutStep, PutResult,
              Finalize, consumerVars
<1>. QED  BY <1>1, <1>2, <1>3, <1>4, <1>5 DEF Next, ConsumerStep

\* Every step keeps the tasks and their tool uses together.
LEMMA NextTasks == Inv /\ [Next]_vars => TasksInv'
<1>. SUFFICES ASSUME Inv, [Next]_vars PROVE TasksInv'
  OBVIOUS
<1>. USE DEF Inv, TypeOK, TasksInv, Validated
<1>1. CASE Intent
  BY <1>1 DEF Intent
<1>2. CASE Launch
  BY <1>2 DEF Launch, Validated
<1>3. CASE Take \/ Gather \/ Reply \/ ModelFails \/ UNCHANGED vars
  BY <1>3 DEF Take, Gather, Reply, ModelFails, vars, consumerVars
<1>4. CASE Leave
  BY <1>4 DEF Leave, Ended
<1>5. ASSUME NEW t \in ToolUses, TaskStep(t) \/ TaskRaises(t) PROVE TasksInv'
  <2>1. task[t] # "none" /\ phase' = phase /\ uses' = uses
    BY <1>5 DEF TaskStep, TaskRaises, ShortCircuit, LetThrough, PutStep, PutResult,
                Finalize, consumerVars
  <2>2. phase \notin {"intent", "announce"}
    BY <2>1
  <2>3. \A u \in ToolUses : task'[u] # "none" => task[u] # "none"
    BY <1>5, <2>1
    DEF TaskStep, TaskRaises, ShortCircuit, LetThrough, PutStep, PutResult, Finalize
  <2>. QED  BY <2>1, <2>2, <2>3
<1>. QED  BY <1>1, <1>2, <1>3, <1>4, <1>5 DEF Next, ConsumerStep

\* Every step keeps that only what was shown is cancelled.
LEMMA NextCancelled == Inv /\ [Next]_vars => CancelledWasShown'
<1>. SUFFICES ASSUME Inv, [Next]_vars PROVE CancelledWasShown'
  OBVIOUS
<1>1. Validated \in SUBSET ToolUses
  BY DEF Inv, TypeOK, Validated
<1>2. \A t \in ToolUses : Shown(t) => Shown(t)'
  <2>1. CASE Take
    BY <2>1, Taken
  <2>2. CASE Intent \/ Launch \/ Gather \/ Reply \/ ModelFails \/ Leave \/ UNCHANGED vars
    BY <2>2 DEF Intent, Launch, Gather, Reply, ModelFails, Leave, vars, consumerVars, Shown
  <2>3. ASSUME NEW t \in ToolUses, TaskStep(t) \/ TaskRaises(t) PROVE shown' = shown
    BY <2>3
    DEF TaskStep, TaskRaises, ShortCircuit, LetThrough, PutStep, PutResult, Finalize,
        consumerVars
  <2>. QED  BY <2>1, <2>2, <2>3 DEF Next, ConsumerStep, Shown
<1>. SUFFICES ASSUME NEW t \in ToolUses, task'[t] = "cancelled" PROVE Shown(t)'
  BY DEF CancelledWasShown, Shown
<1>3. CASE task[t] = "cancelled"
  BY <1>2, <1>3 DEF Inv, CancelledWasShown, Shown
<1>4. CASE phase = "gather" /\ t \in Validated
  <2>1. results \in Seq(Validated) /\ IsFiniteSet(Validated)
    BY <1>1, ConversationConstants, FS_Subset DEF Inv, TypeOK
  <2>2. \E i \in DOMAIN results : results[i] = t
    BY <1>4, <2>1, EnoughIsAll DEF Inv, ResultsInv
  <2>. QED  BY <1>2, <2>2 DEF Inv, ResultsInv
<1>. QED  BY <1>3, <1>4, NextForward

\* The initial states satisfy the invariant.
LEMMA InitInv == Init => Inv
<1>. SUFFICES ASSUME Init PROVE Inv
  OBVIOUS
<1>. USE DEF Init
<1>1. TypeOK
  <2>1. NoContent \in Content
    BY DEF NoContent, Content, NoAnswers
  <2>. QED  BY <2>1, ConversationConstants DEF TypeOK, Phases, TaskStates
<1>2. TasksInv
  BY DEF TasksInv
<1>3. Stream = <<>>
  BY ConcatEmptySeq DEF Stream
<1>4. StreamInv
  BY <1>3 DEF StreamInv, Ordered
<1>5. ResultsInv
  BY DEF ResultsInv, Shown
<1>6. CancelledWasShown
  BY DEF CancelledWasShown
<1>. QED  BY <1>1, <1>2, <1>4, <1>5, <1>6 DEF Inv

\* The invariant holds in every reachable state.
LEMMA Invariant == Spec => []Inv
<1>1. Inv /\ [Next]_vars => Inv'
  BY NextType, NextTasks, NextStream, NextResults, NextCancelled DEF Inv
<1>. QED  BY <1>1, InitInv, PTL DEF Spec

-----------------------------------------------------------------------------
(***************************************************************************)
(* Theorems.                                                               *)
(***************************************************************************)

\* The turn of a conversation (Query.run, its tasks and its queue) is well
\* typed: in particular only validated tool uses ever have results.
THEOREM TurnTypeCorrect == Spec => []TypeOK
<1>1. Inv => TypeOK
  BY DEF Inv
<1>. QED  BY <1>1, Invariant, PTL

\* However many workflows share the queue, each one's steps are streamed in
\* their order and before its result.
THEOREM StepsStayInOrder == Spec => []StepsInOrder
<1>1. Inv => StepsInOrder
  <2>. SUFFICES ASSUME Inv, NEW i \in DOMAIN shown, NEW j \in DOMAIN shown,
                       i < j, shown[i].tool = shown[j].tool
                PROVE  /\ shown[i].kind = "progress"
                       /\ shown[j].kind = "progress" => shown[i].no < shown[j].no
    BY DEF StepsInOrder
  <2>1. /\ i \in DOMAIN Stream /\ Stream[i] = shown[i]
        /\ j \in DOMAIN Stream /\ Stream[j] = shown[j]
    <3>1. shown \in Seq(Messages) /\ queue \in Seq(Messages)
      BY DEF Inv, TypeOK
    <3>. QED  BY <3>1, ConcatProperties DEF Stream
  <2>. QED  BY <2>1 DEF Inv, StreamInv, Ordered
<1>. QED  BY <1>1, Invariant, PTL

\* A client that leaves cancels no workflow whose result was not streamed yet.
THEOREM OnlyShownIsCancelled == Spec => []CancelledWasShown
<1>1. Inv => CancelledWasShown
  BY DEF Inv
<1>. QED  BY <1>1, Invariant, PTL

\* With the second call every validated tool use has exactly one result block.
LEMMA OneBlockEach ==
    ASSUME Inv, phase \in {"gather", "reply", "answered"}, NEW t \in Validated
    PROVE  Blocks(t) = 1
<1>1. results \in Seq(Validated) /\ IsFiniteSet(Validated)
  BY ConversationConstants, FS_Subset DEF Inv, TypeOK, Validated
<1>2. PICK i \in DOMAIN results : results[i] = t
  BY <1>1, EnoughIsAll DEF Inv, ResultsInv
<1>3. {j \in DOMAIN results : results[j] = t} = {i}
  BY <1>2 DEF Inv, ResultsInv
<1>. QED  BY <1>3, FS_Singleton DEF Blocks

\* No result is missing from the second call of the model, and none doubled.
THEOREM EachUseIsAnswered == Spec => []EachUseAnswered
<1>1. Inv => EachUseAnswered
  BY OneBlockEach DEF EachUseAnswered
<1>. QED  BY <1>1, Invariant, PTL

\* With Anthropic's client the messages of the second call hold every tool use
\* of the first and one result for each.
LEMMA ReplyIsComplete ==
    ASSUME Inv, Provider = "anthropic", Reply
    PROVE  ReplySeesResults'
<1>. DEFINE answers ==
       [t \in ToolUses |-> Blocks(t) + IF t \in uses \cap Invalid THEN 1 ELSE 0]
<1>1. phase = "reply" /\ uses' = uses /\ sent' = [m \in Turns |-> Convert(History[m])]
  BY DEF Reply
<1>2. sent'["calls"] = History["calls"] /\ sent'["answers"] = History["answers"]
  BY <1>1 DEF Turns, Convert
<1>3. History["calls"].uses = uses /\ History["answers"].answers = answers
  BY DEF History, Transcript, Turns, NoContent
<1>4. ASSUME NEW t \in uses PROVE answers[t] = 1
  <2>1. t \in ToolUses
    BY DEF Inv, TypeOK
  <2>2. CASE t \in Validated
    <3>1. Blocks(t) = 1
      BY <1>1, <2>2, OneBlockEach
    <3>. QED  BY <2>1, <2>2, <3>1 DEF Validated
  <2>3. CASE t \in Invalid
    <3>1. results \in Seq(Validated)
      BY DEF Inv, TypeOK
    <3>2. {i \in DOMAIN results : results[i] = t} = {}
      BY <2>3, <3>1 DEF Validated
    <3>3. Blocks(t) = 0
      BY <3>2, FS_EmptySet DEF Blocks
    <3>. QED  BY <2>1, <2>3, <3>3
  <2>. QED  BY <2>2, <2>3 DEF Validated
<1>. QED  BY <1>1, <1>2, <1>3, <1>4 DEF ReplySeesResults

\* With Anthropic's client the model writes the reply from the tool uses it
\* made and exactly one result for each of them, the invalid ones included.
THEOREM ReplySeesAllResults ==
    ASSUME Provider = "anthropic"
    PROVE  Spec => []ReplySeesResults
<1>1. Init => ReplySeesResults
  BY DEF Init, ReplySeesResults
<1>2. Inv /\ ReplySeesResults /\ [Next]_vars => ReplySeesResults'
  <2>. SUFFICES ASSUME Inv, ReplySeesResults, [Next]_vars PROVE ReplySeesResults'
    OBVIOUS
  <2>1. CASE Reply
    BY <2>1, ReplyIsComplete
  <2>2. CASE Intent \/ Launch \/ Take \/ Gather \/ ModelFails \/ Leave
    BY <2>2 DEF Intent, Launch, Take, Gather, ModelFails, Leave, ReplySeesResults
  <2>3. CASE UNCHANGED vars
    BY <2>3 DEF vars, consumerVars, ReplySeesResults
  <2>4. ASSUME NEW t \in ToolUses, TaskStep(t) \/ TaskRaises(t)
        PROVE  phase' = phase /\ uses' = uses /\ sent' = sent
    BY <2>4
    DEF TaskStep, TaskRaises, ShortCircuit, LetThrough, PutStep, PutResult, Finalize,
        consumerVars
  <2>. QED
    BY <2>1, <2>2, <2>3, <2>4 DEF Next, ConsumerStep, ReplySeesResults
<1>. QED  BY <1>1, <1>2, Invariant, PTL DEF Spec

-----------------------------------------------------------------------------
(***************************************************************************)
(* The consumer does not wait in vain.                                     *)
(*                                                                         *)
(* While it consumes, fewer results were taken than workflows started, so  *)
(* one has not been shown; the result of that one is in the queue, still   *)
(* to be put, or was never put because its task raised at the gate.        *)
(***************************************************************************)

InStream(t) == \E i \in DOMAIN Stream : Stream[i] = Completed(t)

\* Whoever is past its workflow has put a result, and the consumer goes on only
\* as long as results are missing, of tool uses that all have their tasks.
ServedInv ==
    /\ \A t \in ToolUses : task[t] \in {"finalize", "done"} => InStream(t)
    /\ phase = "consume" =>
           /\ Len(results) < Cardinality(Validated)
           /\ \A t \in Validated : task[t] # "none"

\* The result of a task is in the stream if it was shown or is in the queue.
LEMMA InStreamIsEither ==
    ASSUME TypeOK, NEW t \in ToolUses
    PROVE  InStream(t) => Shown(t) \/ \E i \in DOMAIN queue : queue[i] = Completed(t)
<1>. SUFFICES ASSUME NEW i \in DOMAIN Stream, Stream[i] = Completed(t), ~Shown(t)
              PROVE  \E j \in DOMAIN queue : queue[j] = Completed(t)
  BY DEF InStream
<1>1. shown \in Seq(Messages) /\ queue \in Seq(Messages)
  BY DEF TypeOK
<1>2. /\ Stream \in Seq(Messages) /\ Len(Stream) = Len(shown) + Len(queue)
      /\ \A k \in 1 .. Len(shown) + Len(queue) :
             Stream[k] = IF k <= Len(shown) THEN shown[k] ELSE queue[k - Len(shown)]
  BY <1>1, ConcatProperties DEF Stream
<1>3. i \in 1 .. Len(shown) + Len(queue) /\ Len(shown) \in Nat /\ Len(queue) \in Nat
  BY <1>1, <1>2
<1>4. i > Len(shown)
  <2>. SUFFICES ASSUME i <= Len(shown) PROVE FALSE
    BY <1>3
  <2>1. i \in DOMAIN shown /\ shown[i] = Completed(t)
    BY <1>1, <1>2, <1>3
  <2>. QED  BY <2>1 DEF Shown
<1>5. i - Len(shown) \in DOMAIN queue /\ queue[i - Len(shown)] = Completed(t)
  BY <1>1, <1>2, <1>3, <1>4
<1>. QED  BY <1>5

\* A message that is put leaves what is in the stream, and is in it itself.
LEMMA PuttingKeepsResults ==
    ASSUME Inv, NEW t \in ToolUses, NEW m \in Messages,
           queue' = Append(queue, m), shown' = shown
    PROVE  /\ InStream(t) => InStream(t)'
           /\ m = Completed(t) => InStream(t)'
<1>1. shown \in Seq(Messages) /\ queue \in Seq(Messages) /\ Stream \in Seq(Messages)
  BY ConcatProperties DEF Inv, TypeOK, Stream
<1>2. Stream' = Append(Stream, m)
  BY <1>1, PuttingAppends DEF Stream
<1>3. /\ DOMAIN Stream = 1 .. Len(Stream) /\ Len(Stream) \in Nat
      /\ DOMAIN Stream' = 1 .. Len(Stream) + 1 /\ Stream'[Len(Stream) + 1] = m
      /\ \A i \in 1 .. Len(Stream) : Stream'[i] = Stream[i]
  BY <1>1, <1>2, AppendProperties
<1>. QED  BY <1>3 DEF InStream, Completed

\* Every step leaves the results in the stream; who gets past its workflow puts one.
LEMMA NextInStream ==
    ASSUME Inv, ServedInv, [Next]_vars, NEW t \in ToolUses,
           task'[t] \in {"finalize", "done"}
    PROVE  InStream(t)'
<1>1. /\ task \in [ToolUses -> TaskStates]
      /\ \A u \in ToolUses : Completed(u) \in Messages
      /\ \A u \in ToolUses :
             puts[u] < MaxSteps => Progress(u, puts[u] + 1) \in Messages
  BY ConversationConstants DEF Inv, TypeOK, Completed, Progress, Messages
<1>2. ASSUME task[t] \in {"finalize", "done"}, Stream' = Stream PROVE InStream(t)'
  BY <1>2 DEF ServedInv, InStream
<1>3. CASE Take
  BY <1>2, <1>3, Taken DEF Take
<1>4. CASE Launch
  BY <1>1, <1>4 DEF Launch
<1>5. CASE Intent \/ Gather \/ Reply \/ ModelFails \/ UNCHANGED vars
  BY <1>2, <1>5 DEF Intent, Gather, Reply, ModelFails, vars, consumerVars, Stream
<1>6. CASE Leave
  BY <1>1, <1>2, <1>6 DEF Leave, Stream, Ended
<1>7. ASSUME NEW u \in ToolUses, LetThrough(u) \/ Finalize(u) \/ TaskRaises(u)
      PROVE  InStream(t)'
  <2>1. task[t] \in {"finalize", "done"} /\ Stream' = Stream
    BY <1>1, <1>7 DEF LetThrough, Finalize, TaskRaises, consumerVars, Stream
  <2>. QED  BY <1>2, <2>1
<1>8. ASSUME NEW u \in ToolUses, PutStep(u) PROVE InStream(t)'
  <2>1. task' = task /\ shown' = shown
    BY <1>8 DEF PutStep, consumerVars
  <2>2. PICK m \in Messages : queue' = Append(queue, m)
    BY <1>1, <1>8 DEF PutStep
  <2>. QED  BY <2>1, <2>2, PuttingKeepsResults DEF ServedInv
<1>9. ASSUME NEW u \in ToolUses, ShortCircuit(u) \/ PutResult(u) PROVE InStream(t)'
  <2>1. queue' = Append(queue, Completed(u)) /\ shown' = shown
    BY <1>9 DEF ShortCircuit, PutResult, consumerVars
  <2>2. t = u \/ task[t] \in {"finalize", "done"}
    BY <1>1, <1>9 DEF ShortCircuit, PutResult
  <2>. QED  BY <1>1, <2>1, <2>2, PuttingKeepsResults DEF ServedInv
<1>. QED  BY <1>3, <1>4, <1>5, <1>6, <1>7, <1>8, <1>9 DEF Next, ConsumerStep, TaskStep

\* The consumer goes on only while fewer results were taken than tasks started,
\* and no task is unmade.
LEMMA NextStillShort ==
    ASSUME Inv, ServedInv, [Next]_vars, phase' = "consume"
    PROVE  /\ Len(results') < Cardinality(Validated')
           /\ \A t \in Validated' : task'[t] # "none"
<1>0. Validated \in SUBSET ToolUses /\ task \in [ToolUses -> TaskStates]
  BY DEF Inv, TypeOK, Validated
<1>1. CASE Launch
  <2>1. results' = <<>> /\ Validated' = Validated /\ Validated # {}
    BY <1>1 DEF Launch, Inv, TasksInv, Validated
  <2>2. Cardinality(Validated) \in Nat /\ Cardinality(Validated) # 0
    BY <1>0, <2>1, ConversationConstants, FS_Subset, FS_CardinalityType, FS_EmptySet
  <2>3. \A t \in Validated : task'[t] = "gate"
    BY <1>0, <1>1 DEF Launch
  <2>. QED  BY <2>1, <2>2, <2>3
<1>2. CASE Take
  <2>1. Validated' = Validated
    BY <1>2 DEF Take, Validated
  <2>2. phase = "consume" /\ task' = task
    BY <1>2 DEF Take
  <2>3. Len(results') < Cardinality(Validated)
    BY <1>2 DEF Take
  <2>. QED  BY <2>1, <2>2, <2>3 DEF ServedInv
<1>3. CASE Intent \/ Gather \/ Reply \/ ModelFails \/ Leave
  BY <1>3 DEF Intent, Gather, Reply, ModelFails, Leave
<1>4. ASSUME phase' = phase, results' = results, uses' = uses,
             \A t \in ToolUses : task[t] # "none" => task'[t] # "none"
      PROVE  /\ Len(results') < Cardinality(Validated')
             /\ \A t \in Validated' : task'[t] # "none"
  BY <1>0, <1>4 DEF ServedInv, Validated
<1>5. ASSUME NEW u \in ToolUses, TaskStep(u) \/ TaskRaises(u)
      PROVE  /\ phase' = phase /\ results' = results /\ uses' = uses
             /\ \A t \in ToolUses : task[t] # "none" => task'[t] # "none"
  BY <1>0, <1>5
  DEF TaskStep, TaskRaises, ShortCircuit, LetThrough, PutStep, PutResult, Finalize,
      consumerVars
<1>6. CASE UNCHANGED vars
  BY <1>4, <1>6 DEF vars, consumerVars
<1>. QED  BY <1>1, <1>2, <1>3, <1>4, <1>5, <1>6 DEF Next, ConsumerStep

\* As long as a result is missing, it is in the queue, to be put, or never was put.
LEMMA MissingIsComing == Inv /\ ServedInv => ConsumerIsServed
<1>. SUFFICES ASSUME Inv, ServedInv, phase = "consume", queue = <<>>
              PROVE  \E t \in Validated : task[t] \in {"gate", "drive"} \/ Silent(t)
  BY DEF ConsumerIsServed
<1>1. /\ results \in Seq(Validated) /\ Validated \in SUBSET ToolUses
      /\ IsFiniteSet(Validated)
  BY ConversationConstants, FS_Subset DEF Inv, TypeOK, Validated
<1>2. \E t \in Validated : \A i \in DOMAIN results : results[i] # t
  <2>. SUFFICES ASSUME \A t \in Validated : \E i \in DOMAIN results : results[i] = t
                PROVE  FALSE
    OBVIOUS
  <2>1. results \in Surjection(1 .. Len(results), Validated)
    BY <1>1 DEF Surjection
  <2>2. Len(results) \in Nat /\ 1 \in Int
    BY <1>1
  <2>3. IsFiniteSet(1 .. Len(results)) /\ Cardinality(1 .. Len(results)) = Len(results)
    <3>1. Len(results) \in Int /\ 1 \in Int
      BY <2>2
    <3>2. /\ IsFiniteSet(1 .. Len(results))
          /\ Cardinality(1 .. Len(results)) =
                 IF 1 > Len(results) THEN 0 ELSE Len(results) - 1 + 1
      BY <3>1, FS_Interval
    <3>. QED  BY <2>2, <3>2
  <2>4. Cardinality(Validated) <= Len(results) /\ Cardinality(Validated) \in Nat
    BY <1>1, <2>1, <2>3, FS_Surjection, FS_CardinalityType
  <2>. QED  BY <2>2, <2>4 DEF ServedInv
<1>3. PICK t \in Validated : \A i \in DOMAIN results : results[i] # t
  BY <1>2
<1>4. t \in ToolUses /\ ~Shown(t)
  BY <1>1, <1>3 DEF Inv, ResultsInv
<1>5. ~InStream(t)
  BY <1>4, InStreamIsEither DEF Inv
<1>6. task[t] \in TaskStates \ {"none", "finalize", "done", "cancelled"}
  <2>1. task[t] # "none"
    BY DEF ServedInv
  <2>. QED  BY <1>4, <1>5, <2>1 DEF ServedInv, Inv, TypeOK, CancelledWasShown, Shown
<1>7. task[t] = "raised" => Silent(t)
  BY <1>4 DEF Silent, Shown
<1>. QED  BY <1>6, <1>7 DEF TaskStates, Ended

\* The consumer of the queue never waits in vain, unless a task raised at the
\* gate: the one way in which a turn can hang.
THEOREM ConsumerNeverStarves == Spec => []ConsumerIsServed
<1>1. Init => ServedInv
  BY DEF Init, ServedInv
<1>2. Inv /\ ServedInv /\ [Next]_vars => ServedInv'
  BY NextInStream, NextStillShort DEF ServedInv
<1>. QED  BY <1>1, <1>2, MissingIsComing, Invariant, PTL DEF Spec

=============================================================================
